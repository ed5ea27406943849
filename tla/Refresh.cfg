SPECIFICATION LocalSpec
CONSTANTS
  Tasks = {t1, t2}
  Readers = {r1}
  Listing <- TwoKinds
  Refs = {x}
  None = None
INVARIANTS
  TypeOK
  IndexWithinRefresh
PROPERTIES
  ImplementsClusterIndex
  RefreshTerminates
  ReadersNeverWaitOnNetwork

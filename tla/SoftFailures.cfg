SPECIFICATION Spec
CONSTANTS
  Tasks = {t1}
  Readers = {r1}
  Listing <- TwoKinds
  Refs = {x}
  None = None
INVARIANTS
  SoftFailuresStored

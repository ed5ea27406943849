SPECIFICATION Spec
CONSTANTS
  Lines <- CommonLines
  Kinds = {"Pod", "Job"}
  NoKind = NoKind
  Keys = {"kind", "field", "other"}
  MaxLines = 3
INVARIANTS
  TerminatorEndsDocument

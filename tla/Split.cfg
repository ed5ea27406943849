SPECIFICATION Spec
CONSTANTS
  Lines <- AllLines
  Kinds = {"Pod", "Job"}
  NoKind = NoKind
  Keys = {"kind", "field", "other"}
  MaxLines = 4
INVARIANTS
  TypeOK
  RangesApart
  LinesKept
  BrokenStaysAlone
  CursorInItsPart
  IssueShownInItsPart

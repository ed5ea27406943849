SPECIFICATION Spec
CONSTANTS
  Lines <- AllLines
  Keys = {"spec", "name"}
  Index = Index
  Nowhere = Nowhere
  MaxLines = 3
INVARIANTS
  TypeOK
  PathIsOpenNodes
  CursorBelowOpenNodes
  CursorOnNode

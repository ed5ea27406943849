SPECIFICATION Spec
CONSTANTS
  Lines <- SomeLines
  Keys = {"spec", "name"}
  Index = Index
  Nowhere = Nowhere
  MaxLines = 2
INVARIANTS
  ItemsKeepTheirKey

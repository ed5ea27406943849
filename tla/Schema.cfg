SPECIFICATION Spec
CONSTANTS
  Nodes <- MCNodes
  Root = "root"
  MetaRoot = "meta"
  Names = {"metadata", "a", "b"}
  Metadata = "metadata"
  Elements = {"[0]", "[1]"}
  Types = {"object", "array", "string", "integer", "number"}
  Schemas <- MCSchemas
  Docs <- MCDocs
  Paths <- MCPaths
  Index = Index
  NoNode = NoNode
  NoProperties = NoProperties
  Forbidden = Forbidden
  MaxRefs = 2
INVARIANTS
  WalkTypeOK
  OffersMergedFields
  GivesUpOnlyUnknown
  AcceptedIsHovered
  TypesAgree
  FieldsAgree

SPECIFICATION FairSpec
CONSTANTS
  Uris <- OneUri
  Texts = {"stream","blank"}
  MaxMessages = 3
  MaxConcurrency = 2
  MaxBatch = 1
  Requests <- AllRequests
  ClusterOptions = {"true", "enabled_true"}
  RevisionModulus = 16
  CrdLists <- MCCrdLists
  Indexes <- OneIndex
  ApiVersions <- MCApiVersions
  Kinds <- MCKinds
  Namespaces <- MCNamespaces
  Names <- MCNames
  Parse <- MCParse
  Oversize <- MCOversize
  KustomizationUris <- MCKustomizationUris
  Keys <- MCKeys
  Schemas <- MCSchemas
  Bundle <- MCBundle
  EmptyIndex <- MCEmptyIndex
  Tasks <- MCTasks
  Absent = Absent
  NoDoc = NoDoc
  NoSchema = NoSchema
  KustomizeApi = "kustomize/v1"
  KustomizeKind = "Kustomization"
INVARIANTS
  OfflineUnlessEnabled
PROPERTIES
  SchemasNotForgotten
  EveryRequestAnswered
  EditsEventuallyShown

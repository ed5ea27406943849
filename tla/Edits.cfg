SPECIFICATION Spec
CONSTANTS
  Uris <- BothUris
  Texts = {"config", "bare", "huge"}
  MaxMessages = 4
  MaxConcurrency = 2
  MaxBatch = 1
  Requests <- SnapshotRequests
  ClusterOptions = {"enabled_true"}
  RevisionModulus = 16
  CrdLists <- NoCrds
  Indexes <- MCIndexes
  ApiVersions <- MCApiVersions
  Kinds <- MCKinds
  Namespaces <- MCNamespaces
  Names <- MCNames
  Parse <- MCParse
  Oversize <- MCOversize
  KustomizationUris <- MCKustomizationUris
  Keys <- MCKeys
  Schemas <- MCSchemas
  Bundle <- MCBundle
  EmptyIndex <- MCEmptyIndex
  Tasks <- MCTasks
  Absent = Absent
  NoDoc = NoDoc
  NoSchema = NoSchema
  KustomizeApi = "kustomize/v1"
  KustomizeKind = "Kustomization"
INVARIANTS
  TypeOK
  HandlersOK
  StoreMirrorsEditor
  DiagnosticsMatchVersion
  DiagnosticsAgree
  OfferedOnce
  AnswersUseAskedText
  OneAnswerPerRequest
  SnapshotFaithful
PROPERTIES
  ShownInOrder

SPECIFICATION Spec
CONSTANTS
  Callers = {c1, c2}
  Keys <- MCKeys
  Schemas <- MCSchemas
  NoSchema = NoSchema
  Bundle <- MCBundle
  Crds <- MCCrds
  VersionNames = {"v1", "v2"}
  FileSets <- MCFileSets
  ClusterLists <- MCClusterLists
  CoreGroup = CoreGroup
  Unreadable = Unreadable
INVARIANTS
  SoundFilesLoaded
  OnlyDefinedSchemas
PROPERTIES
  ImplementsRegistryCalls
  ClusterLoaderEnds

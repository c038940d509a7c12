SPECIFICATION PipelineSpec
CONSTANTS
  MgmtClusters = {1, 2}
  Capacity <- TwoAndOne
  NoMC = NoMC
  Clusters = {a, b}
  Namespaces = {"ns"}
  NamespaceOf <- OneNamespace
  Requests = {r1, r2, r3}
  NoDoc = NoDoc
  NoContent = NoContent
  Readers = {g}
  NoCluster = NoCluster
  ReadOps = {"Get", "List", "GetKubeConfig"}
  Ops = {"Create", "Update", "Delete"}
  MaxActive = 3
  MayFail = TRUE
SYMMETRY Symmetry
INVARIANTS
  PipelineTypeOK
  ListComplete
  NoOrphans
PROPERTIES
  NotFoundIsTrue

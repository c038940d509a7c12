SPECIFICATION FairSpec
CONSTANTS
  MgmtClusters = {1}
  Capacity <- TwoAndOne
  NoMC = NoMC
  Clusters = {a}
  Namespaces = {"ns"}
  NamespaceOf <- OneNamespace
  Requests = {r1, r2, r3}
  NoDoc = NoDoc
  NoContent = NoContent
  Readers = {g}
  NoCluster = NoCluster
  ReadOps = {"Get"}
  Ops = {"Create", "Update", "Delete"}
  MaxActive = 3
  MayFail = FALSE
PROPERTIES
  CreatedRuns
  DeletedGone
  PollingShows

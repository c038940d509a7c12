SPECIFICATION EditorsSpec
CONSTANTS
  MgmtClusters = {1}
  Capacity <- OneSlot
  NoMC = NoMC
  Clusters = {a}
  Namespaces = {"ns"}
  NamespaceOf <- OneNamespace
  Requests = {r1, r2, r3}
  NoDoc = NoDoc
  NoContent = NoContent
  Readers = {g}
  NoCluster = NoCluster
  ReadOps = {"Get"}
  Ops = {"Create", "Update"}
  MaxActive = 3
  MayFail = FALSE
INVARIANTS
  NoStaleUpdate

SPECIFICATION Spec
CONSTANTS
  MgmtClusters = {1, 2}
  Capacity <- TwoAndOne
  NoMC = NoMC
  Clusters = {a, b}
  Namespaces = {"ns"}
  NamespaceOf <- OneNamespace
  Requests = {r1, r2}
  NoDoc = NoDoc
  Ops = {"Create"}
  MaxActive = 2
  MayFail = FALSE
SYMMETRY Symmetry
INVARIANTS
  OneHome

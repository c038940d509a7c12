SPECIFICATION Spec
CONSTANTS
  MgmtClusters = {1}
  Capacity <- TwoAndOne
  NoMC = NoMC
  Clusters = {a, b}
  Namespaces = {"ns"}
  NamespaceOf <- OneNamespace
  Requests = {r1, r2, r3}
  NoDoc = NoDoc
  Ops = {"Create", "Delete"}
  MaxActive = 1
  MayFail = FALSE
SYMMETRY Symmetry
INVARIANTS
  ApplyGoneBeforeDelete

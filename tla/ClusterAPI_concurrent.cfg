SPECIFICATION Spec
CONSTANTS
  MgmtClusters = {1, 2}
  Capacity <- TwoAndOne
  NoMC = NoMC
  Clusters = {a, b}
  Namespaces = {"ns"}
  NamespaceOf <- OneNamespace
  Requests = {r1, r2, r3, r4}
  NoDoc = NoDoc
  Ops = {"Create", "Update", "Delete"}
  MaxActive = 4
  MayFail = TRUE
SYMMETRY Symmetry
INVARIANTS
  TypeOK
  SlotAccounting
  NoOvercommit
  ReleasedOnce
  Balanced
  NoLostUpdate
  NamespaceFirst
  CreateDurable
  MappingLeadsToDesire
PROPERTIES
  ImplementsLedger

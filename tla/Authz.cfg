SPECIFICATION Spec
CONSTANTS
  u = u
  v = v
  p = p
  q = q
  Users = {u, v}
  Projects = {p, q}
  Labels = {"dev", "closed"}
  TrueFor <- Conditions
  Anyone = Anyone
  Anywhere = Anywhere
  Callers = {c}
  AttachmentDocs <- AttachmentSets
  RoleDocs <- RoleSets
  GlobalDocs <- GlobalSets
  Mirrors <- MirrorSets
  NoMirror = NoMirror
  NoRole = NoRole
  MaxEdits = 1
INVARIANTS
  TypeOK
  DecisionRight
  LostRolesNarrow
  UndecidedRoutes

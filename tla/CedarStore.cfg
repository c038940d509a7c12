SPECIFICATION Spec
CONSTANTS
  Projects = {p, q}
  Users = {u, v}
  Requests = {r1, r2, r3, r4}
  MayFail = TRUE
  NoTarget = NoTarget
SYMMETRY Symmetry
INVARIANTS
  TypeOK
  IndexFollows
  GrantsKept
  RevocationsKept

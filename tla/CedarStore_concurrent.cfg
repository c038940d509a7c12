SPECIFICATION Spec
CONSTANTS
  Projects = {p, q}
  Users = {u, v}
  Requests = {r1, r2}
  MayFail = FALSE
  NoTarget = NoTarget
SYMMETRY Symmetry
INVARIANTS
  IndexAgrees

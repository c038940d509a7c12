SPECIFICATION Spec
CONSTANTS
  Requests = {r1, r2}
  Kids = {k1, k2}
  Keys = {k1}
  TTL = 3
  Recent = 1
  Timeout = 2
  NoKey = NoKey
  NoOne = NoOne
INVARIANTS
  TypeOK
  OneFetchServesAll
PROPERTIES
  AcceptedWhileKnown
  NotFoundOnlyIfNew
  EveryoneAnswered

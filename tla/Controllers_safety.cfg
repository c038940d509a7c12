SPECIFICATION Spec
CONSTANTS
  Streams = {s}
  Clusters = {c}
  StreamOf <- OneStream
  Targets <- TwoTargets
  VersionOf <- Candidates
  AtFirst <- NoneAtFirst
  MaxPatch <- TwoEach
  MaxChanges = 1
  MaxLives = 1
  MaxRestarts = 1
  NoImage = NoImage
  NoHC = NoHC
INVARIANTS
  TypeOK
  ImageInChannel
PROPERTIES
  NeverBack

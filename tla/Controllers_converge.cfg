SPECIFICATION Spec
CONSTANTS
  Streams = {s}
  Clusters = {c}
  StreamOf <- OneStream
  Targets <- TwoTargets
  VersionOf <- NinthPatches
  AtFirst <- TwoOfTheSecond
  MaxPatch <- OneOrTwo
  MaxChanges = 1
  MaxLives = 2
  MaxRestarts = 0
  NoImage = NoImage
  NoHC = NoHC
PROPERTIES
  Converges

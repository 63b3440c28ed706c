SPECIFICATION Spec
CONSTANTS
  p1 = p1
  None = None
  Patches = {p1}
  Unappliable = {}
  MaxEpoch = 2
  Versions = {"v1", "v2"}
  LaunchVersion = "v1"
  ReleaseCorpus <- LaunchCorpora
  MissingDeltas = {}
  Payloads = {p1}
  Reports = {"honest", "forged"}
  OtherScores = {4}
  Recovery <- FirstAdvanceRecovered
  Depth = 1
  MaxReorg = 1
  MaxBlocks = 4
  Served <- TwoKeys
  Options <- CommonOptions
INVARIANTS
  VerifiedThroughIsAudited
  BacklogHasItsParents
  StateUnderPin
PROPERTIES
  ReplicaImplemented
CHECK_DEADLOCK FALSE

SPECIFICATION Spec
CONSTANTS
  p1 = p1
  None = None
  Patches = {p1}
  Unappliable = {}
  MaxEpoch = 2
  Versions = {"v1"}
  LaunchVersion = "v1"
  ReleaseCorpus <- LaunchCorpora
  MissingDeltas = {}
  Payloads = {p1}
  Reports = {"honest"}
  OtherScores = {4}
  Recovery = None
  Depth = 1
  MaxReorg = 1
  MaxBlocks = 4
  Served <- OneKey
  Options <- AssertedOnly
INVARIANTS
  IncrementalReplayInOrder
CHECK_DEADLOCK FALSE

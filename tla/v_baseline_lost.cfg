SPECIFICATION Spec
CONSTANTS
  Foreigner = foreigner
  r0 = r0  r1 = r1  r2 = r2  p1 = p1  p2 = p2
  Roots <- MCRoots
  LaunchRoot = r0
  Patches <- TwoPatches
  ParentOf <- ParentOfTwo
  RootAfter <- AfterTwo
  Scores = {1}
  EvalKinds <- BothKinds
  Miners = {m1}
  Depth = 1
  ForeignPatches = {p1}
  LaunchBlocks = 2
  MaxTime = 4
  MaxForks = 0
  MaxForkDepth = 0
  ReplayFrom = 1
  Ttl = 3
  Cap = 1
  MaxSnapshots = 64
  LaunchBaseline = 1
  SignerGivesHash = TRUE
  MaxReceipts = 2
  Rebaselined = {}
  MaxFreezes = 1
  MaxCrashes = 0
  ChainMayFail = FALSE
  EpochMayClose = FALSE
PROPERTIES
  SignedAdvanceMovesBaseline
CHECK_DEADLOCK FALSE

SPECIFICATION FairSpec
CONSTANTS
  Foreigner = foreigner
  r0 = r0  r1 = r1  r2 = r2  p1 = p1  p2 = p2
  Roots <- MCRoots
  LaunchRoot = r0
  Patches <- TwoPatches
  ParentOf <- ParentOfChain
  RootAfter <- AfterChain
  Scores = {1}
  EvalKinds <- OnlyAdvances
  Miners = {m1}
  Depth = 1
  ForeignPatches = {p1, p2}
  LaunchBlocks = 2
  MaxTime = 2
  MaxForks = 1
  MaxForkDepth = 1
  ReplayFrom = 1
  Ttl = 1
  Cap = 1
  MaxSnapshots = 1
  LaunchBaseline = 1
  SignerGivesHash = FALSE
  MaxReceipts = 1
  Rebaselined = {r1}
  MaxFreezes = 0
  MaxCrashes = 1
  ChainMayFail = TRUE
  EpochMayClose = TRUE
INVARIANTS
  ConfirmedPrefix
PROPERTIES
  CatchesUp
  SubmitSettles
  ExpiredPendingSwept
  RolloverStopsSigning
CHECK_DEADLOCK FALSE

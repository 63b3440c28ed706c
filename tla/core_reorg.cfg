SPECIFICATION Spec
CONSTANTS
  Foreigner = foreigner
  r0 = r0  r1 = r1  r2 = r2  p1 = p1  p2 = p2
  Roots <- MCRoots
  LaunchRoot = r0
  Patches <- TwoPatches
  ParentOf <- ParentOfChain
  RootAfter <- AfterChain
  Scores = {1}
  EvalKinds <- OnlyAdvances
  Miners = {m1}
  Depth = 0
  ForeignPatches = {p1, p2}
  LaunchBlocks = 2
  MaxTime = 4
  MaxForks = 1
  MaxForkDepth = 2
  ReplayFrom = 1
  Ttl = 2
  Cap = 1
  MaxSnapshots = 64
  LaunchBaseline = 1
  SignerGivesHash = TRUE
  MaxReceipts = 2
  Rebaselined = {}
  MaxFreezes = 0
  MaxCrashes = 1
  ChainMayFail = TRUE
  EpochMayClose = FALSE
INVARIANTS
  TypeOK
  ReplicaLinked
  PendingOnLiveRoot
  ConfirmedOnReplica
  DualHashLookup
CHECK_DEADLOCK FALSE

SPECIFICATION Spec
CONSTANTS
  FamilyOf <- MCFamilyOf
  Unlimited = Unlimited
  NoAverage = NoAverage
  AverageScale = 4
  Bucket <- MCBucket
  NameEpoch <- MCNameEpoch
  Words = {32, 384, 672}
  Blank = "0"
  Stray = "stray"
  NoWord = NoWord
  AtomIn <- MCAtomIn
  GainOf <- MCGainOf
  NoRecord = NoRecord
  FirstRecords <- MCFirstRecords
  Deltas <- MCDeltas
  Profiles <- MCProfiles
  FirstState <- MCFirstState
  Patches <- MCPatches
  ScorePairs <- MCScorePairs
  JobThreshold = 1
  StateThreshold = 2
  GainThreshold = 0
  QueueDepth = 1
  Concurrency = 1
  MaxEpoch = 3
  MaxWork = 4
  MaxFaults = 2
CHECK_DEADLOCK FALSE
INVARIANTS
  TraceIsOwnJobs
  OneScoringPerBoot
  WaitsOnlyBehindRunning
  LandedOnItsContext
  LineReplays
  RotationCompletes
  ReserveExact
  FollowerOnChain
  FollowerNeverStuck
PROPERTIES
  WindowShrinksOnlyByAge
  OldestLeaveFirst

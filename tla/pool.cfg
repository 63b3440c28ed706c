SPECIFICATION FairSpec
CONSTANTS
  Requests = {a, b, c, d}
  w1 = w1  w2 = w2  w3 = w3  w4 = w4
  Workers <- AllWorkers
  FirstWorkers <- TwoWorkers
  MaxQueueSize = 1
  MayClose = TRUE
  Words = {32, 384, 672}
  Blank = "0"
  Stray = "stray"
  NoWord = NoWord
  AtomIn <- MCAtomIn
  KeyIn <- MCKeyIn
  CodeIn <- MCCodeIn
  Cosine <- MCCosine
  FamilyOf <- MCFamilyOf
  Unlimited = Unlimited
  NoAverage = NoAverage
  AverageScale = 4
  Bucket <- MCBucket
  NameEpoch <- MCNameEpoch
  GainOf <- MCGainOf
  NoRecord = NoRecord
  Unit = 1000
  RelevanceGain <- MCRelevanceGain
  RankWorth <- MCRankWorth
  FamilyRank <- MCFamilyRank
  DrawsPerEvent = 2
INVARIANTS
  EveryCallInOnePlace
  IdleWorkersAreFree
PROPERTIES
  RunningCallSettles
CHECK_DEADLOCK FALSE

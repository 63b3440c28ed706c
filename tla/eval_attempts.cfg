SPECIFICATION Spec
CONSTANTS
  Miners = {m1, m2}
  Patches = {p1, p2}
  Offset = 1
  PerMinerCap = 1
  MaxHeight = 3
  MaxForks = 1
  MaxCrashes = 1
SYMMETRY Interchangeable
INVARIANTS
  OneSeedPerPatch
  ScoringsWithinCap
  OneCreditPerPatch
  RecordMatchesAttempt
  AcceptedIsPublished
PROPERTIES
  SeedUnknownAtArrival
CHECK_DEADLOCK FALSE

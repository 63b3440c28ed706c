---------------------------- MODULE EpochRewards ----------------------------
\* The arithmetic of rewards and difficulty in parts per million and basis
\* points (rewards/work-units.ts, difficulty.ts, baseline.ts), and the epoch's
\* credits, bonuses and claim tree (reducer/eligibility.ts, multiplier-cap.ts,
\* funding-tx.ts).
EXTENDS Integers, FiniteSets, Sequences, SequencesExt, OrderedChecks

Bps == 10000
Ppm == 1000000
SCREENER == 1
ADVANCE == 2
Least(a, b) == IF a < b THEN a ELSE b
Greatest(a, b) == IF a > b THEN a ELSE b
Clamped(x, lo, hi) == IF x < lo THEN lo ELSE IF x > hi THEN hi ELSE x
Ceiling(a, b) == (a + b - 1) \div b

\* A work policy: the calibration of the screener threshold and the tiers of a
\* state advance, <<least passes, units>> each.
DefaultPolicy ==
  [minDelta |-> 50, maxThreshold |-> 150000, headroomBps |-> 5, noiseBps |-> 20000,
   easingBps |-> 5000, floorBps |-> 5000, probeBps |-> 20000, penaltyBps |-> 50000,
   screenerUnits |-> Bps, minAdvance |-> 1, minLocal |-> 0, maxCollision |-> 250000, needsLive |-> TRUE,
   tiers |-> << <<0, 30000>>, <<25, 40000>>, <<100, 60000>>, <<250, 90000>>, <<500, 120000>> >>]

\* assertValidCoreTexWorkPolicy
PolicyValid(policy) ==
  /\ policy.minDelta >= 10 /\ policy.maxThreshold >= policy.minDelta
  /\ policy.headroomBps > 0 /\ policy.noiseBps >= Bps
  /\ policy.easingBps <= Bps /\ policy.floorBps <= Bps
  /\ policy.probeBps > 0 /\ policy.penaltyBps <= 10 * Bps
  /\ policy.screenerUnits = Bps
  /\ policy.tiers # <<>> /\ policy.tiers[1][1] = 0
  /\ \A i \in DOMAIN policy.tiers : policy.tiers[i][2] >= 3 * Bps
  /\ \A i, j \in DOMAIN policy.tiers :
       i < j => /\ policy.tiers[i][1] < policy.tiers[j][1]
                /\ policy.tiers[i][2] <= policy.tiers[j][2]

\* computeCoreTexWorkUnitsBps: the last tier the passes reach.
TiersReached(policy, passes) == {i \in DOMAIN policy.tiers : i = 1 \/ passes >= policy.tiers[i][1]}
WorkUnits(policy, outcome, passes) ==
  IF outcome = SCREENER THEN policy.screenerUnits
  ELSE policy.tiers[CHOOSE i \in TiersReached(policy, passes) :
                      \A j \in TiersReached(policy, passes) : j <= i][2]

\* computeCoreTexScreenerThresholdPpm. An observation is a record baseline,
\* noise, passes, advances, target, probes, advanceThreshold.
EasingBps(policy, seen) ==
  LET gap == seen.target - Least(seen.advances, seen.target)
  IN  IF seen.target = 0 THEN 0
      ELSE Least(policy.easingBps, (policy.easingBps * Least(seen.passes, gap)) \div seen.target)

HeadroomDelta(policy, seen) ==
  LET headroom == ((Ppm - Clamped(seen.baseline, 0, Ppm)) * policy.headroomBps) \div Bps
  IN  (headroom * (Bps - EasingBps(policy, seen))) \div Bps

PenaltyBps(policy, seen) ==
  Least(policy.penaltyBps, (Clamped(seen.probes, 0, Ppm) * policy.probeBps) \div Ppm)

ThresholdFloor(policy, seen) ==
  Greatest(policy.minDelta, Ceiling(seen.advanceThreshold * policy.floorBps, Bps))

RawThreshold(policy, seen) ==
  Greatest(ThresholdFloor(policy, seen),
           Greatest(HeadroomDelta(policy, seen), (seen.noise * policy.noiseBps) \div Bps))

ThresholdCeiling(policy, seen) ==
  IF seen.advanceThreshold > 0 THEN Least(policy.maxThreshold, seen.advanceThreshold)
  ELSE policy.maxThreshold

ThresholdDefined(policy, seen) == policy.floorBps > 0 => seen.advanceThreshold > 0

ScreenerThreshold(policy, seen) ==
  Least((RawThreshold(policy, seen) * (Bps + PenaltyBps(policy, seen))) \div Bps,
        ThresholdCeiling(policy, seen))

\* evaluateCoreTexWorkQualification; work is outcome, fresh, delta, local,
\* collision, live.
RequiredDelta(policy, seen, outcome) ==
  IF outcome = ADVANCE
  THEN Greatest(Greatest(policy.minAdvance, ScreenerThreshold(policy, seen)), seen.advanceThreshold)
  ELSE ScreenerThreshold(policy, seen)

Qualification(policy, seen, work) ==
  Verdict(
    << <<work.outcome \notin {SCREENER, ADVANCE},                                "W01">>,
       <<~work.fresh,                                                            "W02">>,
       <<work.delta < RequiredDelta(policy, seen, work.outcome),                 "W03">>,
       <<work.local < policy.minLocal,                                           "W04">>,
       <<work.collision > policy.maxCollision,                                   "W05">>,
       <<work.outcome = ADVANCE /\ policy.needsLive /\ ~work.live,               "W06">> >>)

----------------------------------------------------------------------------
\* nextMinImprovementPpm: the ratio in percent of the next epoch's difficulty.
MinImprovement == 2500
MaxImprovement == 150000

\* Math.round of a non-negative quotient.
Rounded(a, b) == (2 * a + b) \div (2 * b)

DifficultyReason(advances, target, attempts, grace) ==
  CASE grace -> "major_delta_grace"
    [] ~grace /\ target <= 0 -> "no_change"
    [] ~grace /\ target > 0 /\ advances > target -> "ramp_up"
    [] ~grace /\ target > 0 /\ advances = 0 /\ attempts >= 4 * target -> "decay"
    [] ~grace /\ target > 0 /\ advances = 0 /\ attempts = 0 -> "small_drift_down"
    [] ~grace /\ 0 < target /\ advances < target /\ 0 < attempts
         /\ ~(advances = 0 /\ attempts >= 4 * target) -> "under_target_recovery"
    [] OTHER -> "no_change"

NextImprovement(current, advances, target, attempts, grace) ==
  LET reason == DifficultyReason(advances, target, attempts, grace)
      unclamped ==
        CASE reason = "ramp_up" -> IF 2 * advances <= 3 * target
                                   THEN Rounded(current * advances, target)
                                   ELSE Rounded(current * 3, 2)
          [] reason = "decay" -> Rounded(current * 85, 100)
          [] reason \in {"small_drift_down", "under_target_recovery"} -> Rounded(current * 95, 100)
          [] OTHER -> current
  IN  Clamped(unclamped, MinImprovement, MaxImprovement)

\* isMajorDelta: enough new hidden queries freeze the difficulty for one epoch.
MajorDelta(hiddenNow, hiddenBefore, threshold) == hiddenNow - hiddenBefore >= threshold

----------------------------------------------------------------------------
\* buildEpochEligibility. An event is <<epoch, miner, patch>>; one credit for
\* each screened event, one accrual for each merged one that was screened.
Credits(screened) == {screened[i] : i \in DOMAIN screened}
Accruals(screened, merged) == {merged[i] : i \in DOMAIN merged} \cap Credits(screened)
CreditsOf(screened, miner) == {c \in Credits(screened) : c[2] = miner}

\* buildEpochBonusLeaves: one leaf for each miner with an accrual and a bonus,
\* in address order; <<miner, bonus, cap>>.
BonusOf(base, multiplierBps) == ((multiplierBps - Bps) * base) \div Bps
BonusLeaves(accruals, claimBase, multiplierBps) ==
  LET paid == {m \in {a[2] : a \in accruals} : BonusOf(claimBase[m], multiplierBps) # 0}
  IN  [i \in 1..Cardinality(paid) |->
         LET m == CHOOSE k \in paid : Cardinality({j \in paid : j <= k}) = i
         IN  <<m, BonusOf(claimBase[m], multiplierBps), BonusOf(claimBase[m], multiplierBps)>>]
TotalBonus(leaves) == FoldLeft(LAMBDA sum, leaf : sum + leaf[2], 0, leaves)

\* The claim tree: an odd node is carried up unchanged; a pair's hash does not
\* depend on its order.
PairHash(a, b) == <<"pair", {a, b}>>
LevelAbove(level) ==
  [i \in 1..(Len(level) + 1) \div 2 |->
     IF 2 * i <= Len(level) THEN PairHash(level[2 * i - 1], level[2 * i]) ELSE level[2 * i - 1]]
LevelsOf(leaves) ==
  LET at[n \in 0..Len(leaves)] == IF n = 0 THEN leaves ELSE LevelAbove(at[n - 1])
  IN  at
Height(leaves) == CHOOSE n \in 0..Len(leaves) :
                    /\ Len(LevelsOf(leaves)[n]) = 1
                    /\ \A m \in 0..n - 1 : Len(LevelsOf(leaves)[m]) > 1
ClaimRoot(leaves) == LevelsOf(leaves)[Height(leaves)][1]

\* buildMinerClaimProof for the leaf at position i, and its check.
PositionAt(i, n) ==
  LET at[k \in 0..n] == IF k = 0 THEN i ELSE (at[k - 1] + 1) \div 2
  IN  at[n]
Sibling(level, i) ==
  IF i % 2 = 0 THEN <<level[i - 1]>> ELSE IF i < Len(level) THEN <<level[i + 1]>> ELSE <<>>
ClaimProof(leaves, i) ==
  LET from[n \in 0..Height(leaves)] ==
        IF n = Height(leaves) THEN <<>>
        ELSE Sibling(LevelsOf(leaves)[n], PositionAt(i, n)) \o from[n + 1]
  IN  from[0]
ClaimVerifies(leaf, proof, root) == FoldLeft(PairHash, leaf, proof) = root
=============================================================================

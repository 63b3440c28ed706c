---------------------------- MODULE EpochChecks ----------------------------
\* The algorithms EpochService is built from and those beside it, against what
\* they are to compute, over small inputs: TLC evaluates every assumption below
\* before it checks the instance that extends this module.
EXTENDS EpochFrontier, CorpusLifecycle, EpochReducer, EpochRewards, ScorerChecks

----------------------------------------------------------------------------
\* The wire form of a patch.

(* Every word index survives its encoding (state/patch.ts, LEB128).          *)
ASSUME IndexRoundTrip == \A n \in WordRange : DecodeIndex(EncodeIndex(n)) = n

(* No other bytes are taken for it: one patch has one encoding, so that its  *)
(* hash names it.                                                            *)
ASSUME IndexCanonical ==
  \A a \in 0..255, b \in 0..16 :
    DecodeIndex(<<a, b>>) # -1 /\ a >= 128 => EncodeIndex(DecodeIndex(<<a, b>>)) = <<a, b>>

FirstState == [w \in Words |-> Blank]
SmallStates == [Words -> {Blank, "v"}]
SmallWrites == {<< <<i, "v">> >> : i \in Words} \cup {<< <<i, "v">>, <<j, "v">> >> : i, j \in Words}
SmallPatches ==
  {[type |-> t, parent |-> s, delta |-> 0, writes |-> w] :
     t \in {2, 4, POLICY_UPDATE, MIXED}, s \in SmallStates, w \in SmallWrites}

(* What encodePatch takes is what decodePatch gives back, and nothing it     *)
(* refuses is decoded.                                                       *)
ASSUME PatchRoundTrip ==
  \A p \in SmallPatches :
    /\ EncodeAccepted(p) = WireAccepted(Encoded(p))
    /\ EncodeAccepted(p) => Decoded(Encoded(p)) = p

(* On its own parent a patch does under applyPatchOntoCurrent what it does   *)
(* under applyPatch.                                                         *)
ASSUME SameOnOwnParent ==
  \A p \in SmallPatches :
    ApplyPatch(p.parent, p, TRUE) = ApplyOntoCurrent(p.parent, p, TRUE)

----------------------------------------------------------------------------
\* The batch lane.
Item(miner, p, hash, score) == [miner |-> miner, patch |-> p, hash |-> hash, score |-> score]
Batches ==
  {{Item("a", p, 1, 5), Item("b", q, 2, y), Item("c", r, 3, 5)} :
     p, q, r \in {[type |-> 2, parent |-> FirstState, delta |-> 0, writes |-> << <<32, "v">> >>],
                  [type |-> MIXED, parent |-> FirstState, delta |-> 0,
                   writes |-> << <<384, "v">>, <<672, "v">> >>]}, y \in {5, 9}}

(* Accepted patches touch different words, and their writes in any order     *)
(* give the reduced state: the batch lane does not depend on who came first. *)
ASSUME BatchOrderFree ==
  \A items \in Batches :
    LET run == Reduced(FirstState, items, 1, TRUE)
        accepted == {run.accepted[i].patch : i \in DOMAIN run.accepted}
    IN  /\ \A i, j \in DOMAIN run.accepted :
             i # j => Targets(run.accepted[i].patch) \cap Targets(run.accepted[j].patch) = {}
        /\ run.state = [w \in Words |->
                          IF \E p \in accepted : w \in Targets(p)
                          THEN ValueFor(CHOOSE p \in accepted : w \in Targets(p), w) ELSE FirstState[w]]
        /\ Len(run.accepted) + Len(run.rejected) = Cardinality(items)
        /\ \A i, j \in DOMAIN PatchSetRoot(run.accepted) :
             i < j => ~Before(run.accepted[j], run.accepted[i])

(* The live lane takes a list of patches as it takes them one by one, and    *)
(* never two on one parent.                                                  *)
ASSUME LiveLaneOneParent ==
  \A items \in Batches :
    LET run == LiveRun(FirstState, SetToSeq({i.patch : i \in items}), 0, TRUE)
    IN  Len(run.advances) <= 1

----------------------------------------------------------------------------
\* The corpus.
Document(name) ==
  [id |-> name, split |-> "train_visible", modelId |-> "bge", revision |-> "revision",
   domain |-> "lane", sourced |-> TRUE, truths |-> {name}, negatives |-> {}, positives |-> 1]
SmallRecords == {Document(i) : i \in 1..4}

(* Updating the root cache is building it anew, whatever is added and        *)
(* removed (updateCorpusRootLeafCache).                                      *)
ASSUME CacheUpdateIsRebuild ==
  \A old \in SUBSET SmallRecords, new \in SUBSET SmallRecords, gone \in SUBSET {1, 2} :
    UpdatedCache(CacheOf(old), new, gone)
      = IF new = {} /\ gone = {} THEN CacheOf(old)
        ELSE CacheOf({r \in old : r.id \notin gone \cup IdsOf(new)} \cup new)

(* A corpus written to disk with its leaf cache loads again as it was; with  *)
(* a cache of other records of the same ids it loads as well: the leaves are *)
(* taken from the cache (assertRootLeafCacheMatchesCorpus).                  *)
ASSUME CorpusRoundTrip ==
  \A records \in SUBSET SmallRecords :
    LET corpus1 == Corpus(records, Present(CacheOf(records)), "bge", "revision")
        other == CacheOf({[r EXCEPT !.positives = 2] : r \in records})
        file == Serialized(corpus1)
        stale == [file EXCEPT !.sidecar = Present(other), !.root = other.root]
    IN  /\ LoadVerdict(file) = "ok" /\ Loaded(file) = corpus1
        /\ LoadVerdict(stale) = "ok"
        /\ records # {} => LoadVerdict([stale EXCEPT !.sidecar = Absent]) = "ROOT"

(* Bridged documents and queries are found again by their names, so that a   *)
(* later retraction removes what an earlier delta added.                     *)
ASSUME BridgedAreFound ==
  \A name \in 5..9, live \in {0, 2, 3} :
    LET doc == [name |-> name, live |-> live, lane |-> "lane", embedded |-> TRUE]
        query == doc @@ [truths |-> {name}, negatives |-> {}]
        added == {DocRecord(doc, [modelId |-> "bge", revision |-> "revision"]),
                  [Document(QueryId(query)) EXCEPT !.truths = {name}]}
        grown == Corpus(SmallRecords \cup added, Absent, "bge", "revision")
    IN  /\ EventIdOfDoc(grown, doc) = DocId(doc) /\ EventIdOfQuery(grown, query) = QueryId(query)
        /\ IsMemoryDocumentEventId(DocId(doc)) /\ ~IsMemoryDocumentEventId(QueryId(query))
        /\ LogicalQueryName(QueryId(query)) = name
        /\ live = 0 => Resolves(grown, {}, name)

Policy(cap, total) ==
  [needSource |-> TRUE, minTruths |-> 1, minNegatives |-> 1, minPositives |-> 1, modelId |-> "bge",
   revision |-> "revision", domainCap |-> cap, totalCap |-> total]
Candidate(i, domain, sourced, truths) ==
  [Document(i) EXCEPT !.domain = domain, !.sourced = sourced, !.truths = truths, !.negatives = {9}]

(* Admission keeps its caps whatever the order of the candidates, and takes  *)
(* every candidate it can: one left out is unfit or met a full cap.          *)
ASSUME AdmissionCaps ==
  \A candidates \in [1..3 -> {Candidate(1, "d", TRUE, {1}), Candidate(2, "e", TRUE, {}),
                             Candidate(3, "d", FALSE, {1}), Candidate(4, "d", TRUE, {1})}],
     cap \in 0..2, total \in 0..2 :
    LET admitted == Admitted(candidates, Policy(cap, total))
    IN  /\ Len(admitted) <= total
        /\ \A d \in {"d", "e"} : InDomain(admitted, d) <= cap
        /\ \A i \in 1..3 : candidates[i] \notin Range(admitted) =>
             \/ RecordVerdict(candidates[i], Policy(cap, total)) # "ok"
             \/ Len(admitted) = total \/ InDomain(admitted, candidates[i].domain) = cap

----------------------------------------------------------------------------
\* The frontier's controller.
SmallProfile ==
  [mode |-> "C1", activeWindow |-> 2, churnRate |-> 1, maxAge |-> 1, lowAdvancesThreshold |-> 1,
   bumpRate |-> 2, minChurn |-> 1, maxChurn |-> 2, targetAccepts |-> 2, lowWatermark |-> 1,
   highWatermark |-> 3, unitsPerAccept |-> 1, maxRootDelta |-> 2]
AnyProfiles ==
  {[p EXCEPT !.mode = mode, !.maxAge = age] :
     p \in {SmallProfile, [SmallProfile EXCEPT !.minChurn = 2]}, mode \in {"off", "C0", "C1", "C2", "C3", "C4"}, age \in {1, 2, Unlimited}}

(* In every mode, through accepts, refills and a row the corpus drops: the   *)
(* pointer stays exact, the window is never overfilled, and no turn replaces *)
(* more than its limit on top of the ids of age.                             *)
ASSUME FrontierModes ==
  \A p \in AnyProfiles, accepts \in 0..3, attempts \in {0, 5}, refill \in {{}, {105}},
     gone \in {{}, {101}} :
    LET f1 == StepEpoch(NewFrontier(101..104), p, 1, 0, 0)
        f2 == StepEpoch(AddReserveIds(f1, refill), p, 2, accepts, attempts)
        f3 == StepEpoch(AddReserveIds(PruneFrontier(f2, (101..105) \ gone), {}), p, 3, 0, attempts)
        left(f, g, epoch2) == Cardinality(ActiveIds(f) \ ActiveIds(g)) - Cardinality(Aged(f, p, epoch2))
    IN  /\ \A f \in {f1, f2, f3} : Exact(f) /\ Cardinality(ActiveIds(f)) <= p.activeWindow
        /\ left(f1, f2, 2) <= p.maxRootDelta
        /\ f1.everActivated <= f2.everActivated /\ f2.everRetired <= f3.everRetired

----------------------------------------------------------------------------
\* Rewards and difficulty.
Observations ==
  [baseline : {0, 400000, 2000000}, noise : {0, 1000}, passes : {0, 5, 50}, advances : {0, 2, 9},
   target : {0, 4}, probes : {0, 40000, 100000}, advanceThreshold : {0, 60, 2500}]

(* The default policy is valid; with it a screener pass never needs more     *)
(* than the advance threshold, never less than half of it, and easing and    *)
(* penalty move the threshold the way they are named.                        *)
ASSUME ScreenerBelowAdvance ==
  /\ PolicyValid(DefaultPolicy)
  /\ \A seen \in Observations : ThresholdDefined(DefaultPolicy, seen) =>
       LET t == ScreenerThreshold(DefaultPolicy, seen)
       IN  /\ t <= seen.advanceThreshold /\ t <= DefaultPolicy.maxThreshold
           /\ 2 * t >= seen.advanceThreshold
           /\ t <= RequiredDelta(DefaultPolicy, seen, ADVANCE)
           /\ ScreenerThreshold(DefaultPolicy, [seen EXCEPT !.probes = 0]) <= t
           /\ seen.advances <= seen.target =>
                t <= ScreenerThreshold(DefaultPolicy, [seen EXCEPT !.passes = 0])

(* A qualified advance earns at least three times a qualified pass, and no   *)
(* less the longer the drought was.                                          *)
ASSUME UnitsGrow ==
  /\ \A n \in 0..600 : /\ WorkUnits(DefaultPolicy, ADVANCE, n) >= 3 * WorkUnits(DefaultPolicy, SCREENER, n)
                       /\ WorkUnits(DefaultPolicy, ADVANCE, n) <= WorkUnits(DefaultPolicy, ADVANCE, n + 1)
  /\ \A seen \in {s \in Observations : s.advanceThreshold > 0}, d \in {0, 60, 3000}, live \in BOOLEAN :
       LET work(outcome) == [outcome |-> outcome, fresh |-> TRUE, delta |-> d, local |-> 0,
                             collision |-> 0, live |-> live]
       IN  Qualification(DefaultPolicy, seen, work(ADVANCE)) = "ok"
             => Qualification(DefaultPolicy, seen, work(SCREENER)) = "ok"

(* Difficulty stays in its range from any value, grows by at most a half and *)
(* only after more advances than the target, and a drought never raises it.  *)
ASSUME DifficultyMoves ==
  \A current \in {2500, 2600, 9999, 100000, 150000}, advances \in 0..9, target \in {0, 1, 4},
     attempts \in {0, 3, 16}, grace \in BOOLEAN :
    LET next == NextImprovement(current, advances, target, attempts, grace)
    IN  /\ next \in MinImprovement..MaxImprovement
        /\ 2 * next <= 3 * current + 1
        /\ next > current => advances > target /\ ~grace /\ target > 0
        /\ grace => next = current
        /\ MajorDelta(advances, target, 4) => advances > target

(* Screened work is paid once, and a bonus only for screened work.           *)
Events == {<<1, m, p>> : m \in {1, 2}, p \in {1, 2}}
ASSUME AccrualsScreened ==
  \A screened, merged \in {<<>>} \cup [1..2 -> Events] :
    /\ Accruals(screened, merged) \subseteq Credits(screened)
    /\ Cardinality(Credits(screened)) <= Len(screened)
    /\ UNION {CreditsOf(screened, m) : m \in {1, 2}} = Credits(screened)

(* Every leaf of the claim tree has a proof that verifies, and it verifies   *)
(* for no other leaf; the total is what the leaves add up to.                *)
Claimants == [1..5 -> {0, 20000, 30000}]
ASSUME ClaimsVerify ==
  \A bases \in {b \in Claimants : \E m \in 1..5 : b[m] > 0}, bps \in {10000, 15000} :
    LET leaves == BonusLeaves({<<1, m, 1>> : m \in 1..4}, bases, bps)
    IN  /\ \A i \in DOMAIN leaves : leaves[i][2] > 0
        /\ leaves # <<>> => \A i, j \in DOMAIN leaves :
             ClaimVerifies(leaves[j], ClaimProof(leaves, i), ClaimRoot(leaves)) <=> i = j
        /\ TotalBonus(leaves) =
             FoldLeft(+, 0, [m \in 1..4 |-> BonusOf(bases[m], bps)])
=============================================================================

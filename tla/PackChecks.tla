---------------------------- MODULE PackChecks ----------------------------
\* The hidden pack and the gate it feeds over small corpora and rankings: TLC
\* evaluates every assumption below before it checks the instance that extends
\* this module.
EXTENDS QueryPack, RetrievalGate

\* Four base queries of two families and three live ones, two of them with the
\* same intent and one of an epoch before.
BaseQuery(id, family) ==
  [id |-> id, family |-> family, logicalFamily |-> {}, split |-> "eval_hidden", truth |-> {1},
   qrels |-> [d \in {1, 2} |-> IF d = 1 THEN 10 ELSE IF id = 2 THEN 4 ELSE 1],
   causalDepth |-> 1, relationHopDepth |-> 1, band |-> {}, epoch |-> -1, isMemory |-> FALSE,
   intent |-> {}]
LiveQuery(id, family, epoch, intent) ==
  [BaseQuery(id, family) EXCEPT !.epoch = epoch, !.intent = {intent}]
BaseQueries ==
  {BaseQuery(1, "temporal"), BaseQuery(2, "temporal"), BaseQuery(3, "near_collision"),
   BaseQuery(4, "near_collision")}
LiveQueries ==
  {LiveQuery(11, "temporal", 2, "i"), LiveQuery(12, "temporal", 1, "i"),
   LiveQuery(13, "near_collision", 2, "j")}
Outsiders == {[BaseQuery(5, "temporal") EXCEPT !.split = "train_visible"],
              BaseQuery(6, "aspect_constraint")}

Quota(stratum, count) == [stratum |-> stratum, minCount |-> count]
QuotaLists ==
  {<<>>, <<Quota(<<"family", "temporal">>, 1)>>,
   <<Quota(<<"family", "temporal">>, 1), Quota(<<"bucket", "hard">>, 1)>>,
   <<Quota(<<"bucket", "easy">>, 1), Quota(<<"family", "near_collision">>, 1)>>}
PackProfiles ==
  [packSize : 1..3, quotas : QuotaLists, disabledFamilies : {{}}, disabledSurfaces : {{}},
   evaluatorSurfacesOff : {{}}, aspectAtoms : {FALSE}, intentAdmission : {TRUE}]

\* Hashes of two seeds: one that spreads and one that always draws the same.
Labels == {<<"free">>} \cup {<<"family", "temporal">>, <<"bucket", "hard">>, <<"bucket", "easy">>,
                            <<"family", "near_collision">>}
Spread == [x \in Labels \X (1..8 * DrawsPerEvent) |-> 3 * x[2] + Len(x[1])]
Constantly == [x \in Labels \X (1..8 * DrawsPerEvent) |-> 1]
Draws == {Spread, Constantly}
Corpora == {BaseQueries \cup Outsiders, BaseQueries \cup {BaseQuery(7, "near_collision")}}

(* A pack that is derived has its exact size, no query twice, eligible ones *)
(* only, and fills every quota, also where one query counts for several.    *)
ASSUME PackAsAsked ==
  \A draw \in Draws, corpus \in Corpora, profile \in PackProfiles :
    LET derived == DeriveQueryPack(draw, corpus, profile)
    IN  derived.ok =>
          /\ Len(derived.events) = profile.packSize
          /\ Cardinality(Range(derived.events)) = profile.packSize
          /\ \A e \in Range(derived.events) : HiddenPackEventEligible(e, profile)
          /\ QuotasSatisfied(derived.events, profile.quotas)

(* Reserving in the order of the quotas is greedy: a profile one query could *)
(* satisfy is refused when the first quota draws another query.              *)
ASSUME ReservationIsGreedy ==
  \E draw \in Draws, corpus \in Corpora, profile \in PackProfiles :
    /\ ~DeriveQueryPack(draw, corpus, profile).ok
    /\ \E e \in corpus : /\ HiddenPackEventEligible(e, profile)
                         /\ profile.packSize = 1
                         /\ QuotasSatisfied(<<e>>, profile.quotas)

OverlayOptions ==
  [activeIds : {{11, 12, 13}, {12, 13, 3}}, limit : 0..3, familyPriority : {<<>>, <<"temporal">>},
   dedupe : BOOLEAN, quotas : QuotaLists, disabledFamilies : {{}, {"temporal"}}]
BasePacks ==
  {<<>>, <<BaseQuery(1, "temporal"), BaseQuery(3, "near_collision")>>,
   <<BaseQuery(3, "near_collision"), BaseQuery(2, "temporal"), LiveQuery(13, "near_collision", 2, "j")>>}
IdsIn(pack) == {pack[k].id : k \in DOMAIN pack}
IsLive(e, opts) == IsActiveLiveEval(e, opts)

(* The overlay keeps the pack's size, its quotas and the live queries it     *)
(* already had, adds at most as many as it may, and takes what it adds from  *)
(* the active set.                                                           *)
ASSUME OverlayKeepsTheContract ==
  \A pack \in BasePacks, opts \in OverlayOptions :
    LET result == AdmitActiveLiveEvalEvents(pack, BaseQueries \cup LiveQueries, opts)
        added == Range(result.events) \ Range(pack)
    IN  IF ~result.ok THEN ~QuotasSatisfied(pack, opts.quotas)
        ELSE /\ Cardinality(IdsIn(result.events)) = Len(result.events)
             /\ pack # <<>> => Len(result.events) = Len(pack)
             /\ Cardinality(added) <= opts.limit
             /\ \A e \in added : IsLive(e, opts)
             /\ (opts.quotas # <<>> /\ opts.limit > 0) =>
                  /\ QuotasSatisfied(result.events, opts.quotas)
                  /\ {e \in Range(pack) : IsLive(e, opts)} \subseteq Range(result.events)

(* One intent is taken twice only when nothing with another intent is left.  *)
ASSUME IntentsSpreadFirst ==
  \A opts \in {o \in OverlayOptions : o.dedupe /\ o.quotas = <<>>} :
    LET live == LiveEvents(<<>>, BaseQueries \cup LiveQueries, opts)
        active == {e \in LiveQueries : IsLive(e, opts)}
    IN  (\E j, k \in DOMAIN live : j # k /\ live[j].intent = live[k].intent) =>
          {e.intent : e \in active} = {live[k].intent : k \in DOMAIN live}

(* A published pack verifies, and no other order or choice of queries does.  *)
ASSUME PackReproduces ==
  \A draw \in Draws, profile \in {p \in PackProfiles : p.packSize = 2} :
    LET corpus == BaseQueries \cup LiveQueries
        again == Rederived(draw, corpus, profile, {})
        verifies(pack) == VerifyQueryPack(pack, "root", "root", again)
    IN  /\ draw = Spread => again.ok
        /\ again.ok => verifies(again.events)
        /\ \A a, b \in corpus : verifies(<<a, b>>) <=> again.ok /\ again.events = <<a, b>>

----------------------------------------------------------------------------
Query(family, current, stale) ==
  [id |-> 1, family |-> family, protected |-> TRUE, current |-> current, stale |-> stale,
   qrels |-> [d \in {1, 2, 3} |-> IF d \in current THEN 5 ELSE IF d \in stale THEN 3 ELSE 0]]
Rankings == {r \in [1..3 -> 1..4] : \A i, j \in 1..3 : i # j => r[i] # r[j]}
TimeQuery == Query("temporal", {1}, {2})

(* nDCG of a ranking without repeats is at most one, and one for the best   *)
(* order whatever the cutoff.                                               *)
ASSUME NdcgIsAFraction ==
  \A k \in 1..3, ranked \in Rankings, contrast \in BOOLEAN :
    /\ QueryNdcg(TimeQuery, ranked, k, contrast) \in 0..Unit
    /\ QueryNdcg(TimeQuery, <<1, 2, 3>>, k, contrast) = Unit
    /\ QueryNdcg(TimeQuery, ranked, k, contrast) = Unit =>
         \/ contrast /\ ranked[1] = 1
         \/ ~contrast /\ \A i \in 1..Min({k, 2}) : ranked[i] = i

(* Under contrast it does not matter where a stale document ranks: exchanged *)
(* for one that is not relevant at all, the reward is the same.              *)
ASSUME StaleEarnsNothing ==
  \A k \in 1..3, ranked \in Rankings :
    LET exchanged == [i \in 1..3 |-> CASE ranked[i] = 2 -> 4 [] ranked[i] = 4 -> 2 [] OTHER -> ranked[i]]
    IN  QueryNdcg(TimeQuery, ranked, k, TRUE) = QueryNdcg(TimeQuery, exchanged, k, TRUE)

(* The breadth-first search within a budget finds an answer exactly when a   *)
(* path of at most so many edges leads to one.                               *)
Nodes == 1..3
PathWithin(edges, from, to, budget) ==
  \E n \in 0..budget : \E p \in [0..n -> Nodes] :
    p[0] = from /\ p[n] = to /\ \A i \in 0..n - 1 : <<p[i], p[i + 1]>> \in edges
ASSUME HopsArePaths ==
  \A edges \in SUBSET {<<1, 2>>, <<2, 3>>, <<3, 1>>, <<2, 2>>}, from, to \in Nodes, budget \in 0..2 :
    MultiHopHit({from}, {to}, edges, budget) <=> PathWithin(edges, from, to, budget)

\* One protected query of time and one plain one, ranked on three states.
Pair == <<TimeQuery, [Query("near_collision", {3}, {}) EXCEPT !.protected = FALSE]>>
Weights == [retrieval |-> 75, temporal |-> 8, relation |-> 7, abstention |-> 5, structure |-> 5]
GateOptions ==
  [weights |-> Weights, topK |-> 3, contrast |-> FALSE, hopBudget |-> 1, threshold |-> 0]
SeenAs(ranked) ==
  [ranked |-> ranked, slots |-> {}, answers |-> {}, edges |-> {}, topScore |-> 1, atom |-> {}]
Score(first, second, structure) ==
  Evaluate(Pair, <<SeenAs(first), SeenAs(second)>>, structure, GateOptions)
Floors == [structural |-> 0, regression |-> Unit \div 10, catastrophic |-> 50, threshold |-> 100]
Passes(before, after) == PatchVerdict(Pair, {}, before, after, Floors) = "ok"
Tops == {<<1, 3, 2>>, <<1, 2, 3>>, <<2, 1, 3>>, <<3, 1, 2>>, <<4, 1, 2>>, <<4, 2, 1>>, <<3, 4, 1>>}
Scores == {Score(r, s, structure) : r \in Tops, s \in Tops, structure \in {0, Unit}}

(* Whatever passes is better by the threshold, and no single step costs a   *)
(* protected query more than its floor or a family half of what it had; no  *)
(* sequence of patches that pass one after the other ends where it began.   *)
ASSUME GateMakesProgress ==
  /\ ValidWeights(Weights)
  /\ \A a, b \in Scores :
       Passes(a, b) => /\ a.composite < b.composite /\ ~Passes(b, a)
                       /\ a.ndcg[1] - b.ndcg[1] <= Floors.regression
                       /\ \A c \in Scores : Passes(b, c) => ~Passes(c, a)

(* The gate is named for retrieval but measures the composite: validity of   *)
(* the state's structure alone, with every ranking as it was, is enough.     *)
ASSUME StructureAlonePasses ==
  \E r, s \in Tops : Passes(Score(r, s, 0), Score(r, s, Unit))

(* The floor of a protected query is per patch: two patches that pass can    *)
(* together take more of it than one may.                                    *)
ASSUME ProtectionErodes ==
  \E a, b, c \in Scores : /\ Passes(a, b) /\ Passes(b, c)
                          /\ a.ndcg[1] - c.ndcg[1] > Floors.regression

(* A family without queries in the pack counts as nothing, not as left out:  *)
(* on a perfect ranking its weight is what is missing.                       *)
ASSUME AbsentFamiliesCost ==
  Score(<<1, 2, 3>>, <<3, 1, 2>>, Unit).composite <=
    (100 - Weights.relation - Weights.abstention) * Unit
=============================================================================

--------------------------- MODULE RetrievalGate ---------------------------
\* The score of a state on a pack of queries and the gate a patch has to pass
\* (eval/retrieval-benchmark.ts, ir-metrics.ts). How the queries are ranked on a
\* state is given. Every metric is a whole number of 1/Unit, rounded down, and
\* relevances are fifths. A query is a record
\*   id, family, protected, current (a set of at most one document), stale,
\*   qrels      document -> relevance
\* without truth documents when current and stale are empty.
EXTENDS Integers, FiniteSets, Sequences, SequencesExt, OrderedChecks

CONSTANTS
  Unit,           \* the metrics' scale
  RelevanceGain,  \* relevance -> 2^relevance - 1
  RankWorth       \* rank -> 1 / log2(rank + 1), as far as the largest cutoff

Total(seq) == FoldLeft(LAMBDA sum, n : sum + n, 0, seq)

\* Discounted gain of relevances in the order of their ranks.
DcgAtK(relevances, k) ==
  Total([i \in 1..Min({k, Len(relevances)}) |-> RelevanceGain[relevances[i]] * RankWorth[i]])
NdcgAtK(relevances, all, k) ==
  LET best == DcgAtK(SortSeq(all, LAMBDA x, y : x > y), k)
  IN  IF best = 0 THEN 0 ELSE (DcgAtK(relevances, k) * Unit) \div best
MrrAtK(relevances, k) ==
  LET hits == {i \in 1..Min({k, Len(relevances)}) : relevances[i] > 0}
  IN  IF hits = {} THEN 0 ELSE Unit \div (CHOOSE i \in hits : \A j \in hits : i <= j)
\* No recall where nothing is relevant.
RecallAtK(relevances, relevant, k) ==
  IF relevant = 0 THEN {}
  ELSE {(Cardinality({i \in 1..Min({k, Len(relevances)}) : relevances[i] > 0}) * Unit) \div relevant}

\* On a query of time a stale document is contrast: it earns nothing, and is
\* not expected.
Rewarded(query, document, contrast) ==
  IF contrast /\ query.family = "temporal" /\ document \in query.stale THEN 0
  ELSE IF document \in DOMAIN query.qrels THEN query.qrels[document] ELSE 0
QueryNdcg(query, ranked, k, contrast) ==
  NdcgAtK([i \in DOMAIN ranked |-> Rewarded(query, ranked[i], contrast)],
          [i \in 1..Cardinality(DOMAIN query.qrels) |->
             Rewarded(query, SetToSeq(DOMAIN query.qrels)[i], contrast)], k)

\* Hits are sets of at most one Boolean: empty where the question does not
\* arise. The current document comes first and no stale one among three.
TemporalHit(query, ranked) ==
  IF query.family # "temporal" \/ query.current = {} THEN {}
  ELSE {/\ ranked # <<>>
        /\ ranked[1] \in query.current
        /\ \A i \in 1..Min({3, Len(ranked)}) : ranked[i] \notin query.stale}

\* A slot with the answer within so many edges of a candidate's.
MultiHopHit(candidates, answers, edges, budget) ==
  LET reached[h \in 0..budget] ==
        IF h = 0 THEN candidates
        ELSE reached[h - 1] \cup {e[2] : e \in {e \in edges : e[1] \in reached[h - 1]}}
  IN  answers # {} /\ reached[budget] \cap answers # {}

AbstentionHit(query, topScore, threshold, atom) ==
  IF query.current \cup query.stale # {} THEN {}
  ELSE {IF atom = {} THEN topScore < threshold ELSE TRUE \in atom}

Accuracy(hits) ==
  LET counted == {k \in DOMAIN hits : hits[k] # {}}
  IN  IF counted = {} THEN 0
      ELSE (Cardinality({k \in counted : hits[k] = {TRUE}}) * Unit) \div Cardinality(counted)
MeanOf(values) == IF values = <<>> THEN 0 ELSE Total(values) \div Len(values)

----------------------------------------------------------------------------
\* Weights are hundredths.
ValidWeights(w) ==
  /\ w.retrieval + w.temporal + w.relation + w.abstention + w.structure = 100
  /\ w.retrieval >= 70 /\ w.structure <= 10
  /\ w.temporal > 0 /\ w.relation > 0 /\ w.abstention > 0

\* A pack on a state: per query its ranking, the slots it reaches and whether it
\* abstains; the structural validity of the state.
Evaluate(queries, seen, structure, opts) ==
  LET ndcg == [k \in DOMAIN queries |->
                 QueryNdcg(queries[k], seen[k].ranked, opts.topK, opts.contrast)]
      temporal == Accuracy([k \in DOMAIN queries |-> TemporalHit(queries[k], seen[k].ranked)])
      relation ==
        Accuracy([k \in DOMAIN queries |->
          IF queries[k].family # "multi_hop_relation" THEN {}
          ELSE {MultiHopHit(seen[k].slots, seen[k].answers, seen[k].edges, opts.hopBudget)}])
      abstention ==
        Accuracy([k \in DOMAIN queries |->
          AbstentionHit(queries[k], seen[k].topScore, opts.threshold, seen[k].atom)])
      w == opts.weights
      sum == w.retrieval * MeanOf(ndcg) + w.temporal * temporal + w.relation * relation
               + w.abstention * abstention + w.structure * structure
  IN  [composite |-> IF sum > 100 * Unit THEN 100 * Unit ELSE sum,
       ndcg |-> ndcg, structure |-> structure, temporal |-> temporal]

FamilyMean(queries, score, family) ==
  LET own == {k \in DOMAIN queries : queries[k].family = family}
  IN  MeanOf([i \in 1..Cardinality(own) |-> score.ndcg[SetToSeq(own)[i]]])

\* The gate: "applies" is the code of a patch that does not apply, if it does
\* not; the score before may have been computed by the caller. The families'
\* floor is in hundredths of what a family had.
PatchVerdict(queries, applies, before, after, floors) ==
  LET drop(k) == before.ndcg[k] - after.ndcg[k]
      families == {queries[k].family : k \in DOMAIN queries}
      fell(f) == /\ FamilyMean(queries, before, f) > 0
                 /\ 100 * FamilyMean(queries, after, f)
                      < floors.catastrophic * FamilyMean(queries, before, f)
  IN  Verdict(<< <<applies # {}, "apply_failed">>,
                 <<after.structure < floors.structural, "structural_validity_below_floor">>,
                 <<\E k \in DOMAIN queries : queries[k].protected /\ drop(k) > floors.regression,
                   "protected_regression">>,
                 <<\E f \in families : fell(f), "family_catastrophic">>,
                 <<after.composite - before.composite < floors.threshold,
                   "no_retrieval_improvement">> >>)

\* What a patch must gain. Only a variance measured over changing packs counts.
AcceptanceThreshold(profile) ==
  profile.minImprovement + profile.replayTolerance +
  IF profile.varianceSource \in {"rotating_pack", "broad_sampling"} THEN profile.variance ELSE 0
=============================================================================

-------------------------- MODULE CorpusLifecycle --------------------------
\* The production corpus as operators (corpus/admission.ts, delta.ts,
\* logical-delta-bridge.ts, eval/retrieval-corpus.ts): which records are taken
\* in, the Merkle root over them, the deltas from one corpus to the next and the
\* loader. An id is a number, in code-point order; a hash is what it is taken
\* of. A record is
\*   id, split, modelId, revision, domain, sourced, truths, negatives, positives
\* where truths and negatives are sets of document names.
EXTENDS Integers, FiniteSets, Sequences, SequencesExt, FiniteSetsExt, OrderedChecks

CONSTANTS
  Bucket,         \* id -> 0..99: keccak(id, corpusEpoch) mod 100
  NameEpoch       \* name 0..49 of a logical document or query -> the epoch in it, or 0

----------------------------------------------------------------------------
\* Production ids: genesis documents "mem_x", genesis queries "q_x", the live
\* tail "zz_e<epoch>_mem_x" and "zz_e<epoch>_q_x", the old tail "zz_mem_x".
MemId(name) == name
RawQueryId(name) == 100 + name
LiveTailMemId(name, epoch) == 1000 + 100 * epoch + name
LiveTailQueryId(name, epoch) == 1000 + 100 * epoch + 50 + name
LegacyTailMemId(name) == 9000 + name

IsMemoryDocumentEventId(id) ==
  \/ id < 100
  \/ id >= 9000
  \/ id \in 1000..8999 /\ id % 100 < 50

\* The name in a live tail query id, or in a raw one.
LogicalQueryName(id) == IF id >= 1000 THEN (id % 100) - 50 ELSE id - 100

SplitForRecord(id) ==
  CASE Bucket[id] < 70 -> "train_visible"
    [] Bucket[id] \in 70..79 -> "calibration"
    [] Bucket[id] \in 80..94 -> "eval_hidden"
    [] OTHER -> "canary"

ExpectedSplit(id) ==
  IF IsMemoryDocumentEventId(id) THEN "train_visible" ELSE SplitForRecord(id)

IdsOf(records) == {r.id : r \in records}

----------------------------------------------------------------------------
\* The root: leaves in id order, gathered in a forest of full trees, padded with
\* zero leaves to the next power of two.
Leaf(record) == <<"leaf", record.id, record>>
ZeroLeaf == <<>>
Tree(size, root) == [size |-> size, root |-> root]
Combined(left, right) == Tree(left.size + right.size, <<left.root, right.root>>)

\* Equal sizes are combined from the right, as a binary counter carries.
AppendTree(forest, tree) ==
  LET n == Len(forest)
      carried[k \in 0..n] == IF k = 0 THEN tree ELSE Combined(forest[n - k + 1], carried[k - 1])
      steps == Min({k \in 0..n : k = n \/ forest[n - k].size # carried[k].size})
  IN  Append(SubSeq(forest, 1, n - steps), carried[steps])

\* A forest after leaves were appended, one at a time.
Grown(forest, leaves) ==
  LET grown[n \in 0..Len(leaves)] ==
        IF n = 0 THEN forest ELSE AppendTree(grown[n - 1], Tree(1, leaves[n]))
  IN  grown[Len(leaves)]
ForestOf(leaves) == Grown(<<>>, leaves)

\* Bound: forests of at most 64 leaves; the code doubles without a bound.
PowersOfTwo == {1, 2, 4, 8, 16, 32, 64}
ZeroTree(size) ==
  LET zero[s \in PowersOfTwo] ==
        IF s = 1 THEN Tree(1, ZeroLeaf) ELSE Combined(zero[s \div 2], zero[s \div 2])
  IN  zero[size]

LargestAlignedBlock(position, remaining) ==
  Max({s \in PowersOfTwo : s = 1 \/ (s <= remaining /\ position % s = 0)})

RootOfForest(forest, count) ==
  LET target == Min({s \in PowersOfTwo : s >= count})
      padded[p \in count..target] ==      \* the zero trees from position p on
        IF p = target THEN <<>>
        ELSE LET size == LargestAlignedBlock(p, target - p)
             IN  <<ZeroTree(size)>> \o padded[p + size]
  IN  IF count = 0 THEN ZeroLeaf
      ELSE FoldLeft(AppendTree, forest, padded[count])[1].root

\* A root cache: the leaves in id order with their forest and root.
CacheOfLeaves(leaves) ==
  LET forest == ForestOf(leaves)
  IN  [leaves |-> leaves, forest |-> forest, root |-> RootOfForest(forest, Len(leaves))]

InIdOrder(leaves) ==
  [i \in 1..Cardinality(leaves) |->
     CHOOSE leaf \in leaves : Cardinality({l \in leaves : l[2] <= leaf[2]}) = i]
CacheOf(records) == CacheOfLeaves(InIdOrder({Leaf(r) : r \in records}))
CorpusRoot(records) == CacheOf(records).root

\* New leaves behind every old one are appended to the forest; anything else
\* merges the leaves that stay with the new ones and builds again.
Behind(cache, added) ==
  cache.leaves = <<>> \/ \A r \in added : cache.leaves[Len(cache.leaves)][2] < r.id

\* Mutant: whatever is only added is appended.
UpdatedCacheAppending(cache, added, removed) ==
  IF added = {} /\ removed = {} THEN cache
  ELSE LET new == InIdOrder({Leaf(r) : r \in added})
           kept == {leaf \in Range(cache.leaves) : leaf[2] \notin removed \cup IdsOf(added)}
       IN  IF removed = {} /\ IdsOf(added) \cap {l[2] : l \in Range(cache.leaves)} = {}
           THEN CacheOfLeaves(cache.leaves \o new)
           ELSE CacheOfLeaves(InIdOrder(kept \cup Range(new)))

UpdatedCache(cache, added, removed) ==
  LET new == InIdOrder({Leaf(r) : r \in added})
      kept == {leaf \in Range(cache.leaves) : leaf[2] \notin removed \cup IdsOf(added)}
      forest == Grown(cache.forest, new)
      leaves == cache.leaves \o new
  IN  IF added = {} /\ removed = {} THEN cache
      ELSE IF removed = {} /\ Behind(cache, added)
           THEN [leaves |-> leaves, forest |-> forest, root |-> RootOfForest(forest, Len(leaves))]
      ELSE CacheOfLeaves(InIdOrder(kept \cup Range(new)))

----------------------------------------------------------------------------
\* Admission of a batch of candidates, in their order.
RecordVerdict(r, policy) ==
  LET abstention == r.truths = {}
  IN  Verdict(
        << <<policy.needSource /\ ~r.sourced,                       "missing_source_provenance">>,
           <<~abstention /\ Cardinality(r.truths) < policy.minTruths,
                                                           "insufficient_truth_documents">>,
           <<Cardinality(r.negatives) < policy.minNegatives,  "insufficient_hard_negatives">>,
           <<~abstention /\ r.positives < policy.minPositives, "insufficient_positive_qrels">>,
           <<r.modelId # policy.modelId,                       "embedding_model_id_mismatch">>,
           <<r.revision # policy.revision,                     "embedding_revision_mismatch">> >>)

InDomain(admitted, domain) == Len(SelectSeq(admitted, LAMBDA r : r.domain = domain))

AdmissionVerdict(admitted, r, policy) ==
  Verdict(<< <<RecordVerdict(r, policy) # "ok", RecordVerdict(r, policy)>>,
             <<InDomain(admitted, r.domain) >= policy.domainCap, "per_domain_cap_exceeded">>,
             <<Len(admitted) >= policy.totalCap,                 "total_cap_exceeded">> >>)

Admitted(candidates, policy) ==
  FoldLeft(LAMBDA admitted, r : IF AdmissionVerdict(admitted, r, policy) = "ok"
                                THEN Append(admitted, r) ELSE admitted,
           <<>>, candidates)

----------------------------------------------------------------------------
\* A corpus: its records, its root, and the root cache when it carries one.
Corpus(records, cache, modelId, revision) ==
  [records |-> records, root |-> IF cache.present THEN cache.value.root ELSE CorpusRoot(records),
   cache |-> cache, modelId |-> modelId, revision |-> revision]
Absent == [present |-> FALSE]
Present(cache) == [present |-> TRUE, value |-> cache]

\* A record's own claims: its split, and the encoder the corpus is pinned to.
Misfit(r, corpus) ==
  \/ r.split # ExpectedSplit(r.id)
  \/ r.modelId # corpus.modelId \/ r.revision # corpus.revision

\* buildCorpusDelta: additions under an id that stays are left out. A refused
\* delta is the record with ok FALSE.
Failure(code) == [ok |-> FALSE, code |-> code]

BuildDelta(corpus, additions, removals, epoch) ==
  LET remaining == {r \in corpus.records : r.id \notin removals}
      new == {r \in additions : r.id \notin IdsOf(remaining)}
      root == IF corpus.cache.present
              THEN UpdatedCache(corpus.cache.value, new, removals).root
              ELSE CorpusRoot(remaining \cup new)
  IN  IF \E r \in new : Misfit(r, corpus) THEN Failure("MISFIT")
      ELSE IF corpus.cache.present /\ corpus.cache.value.root # corpus.root
           THEN Failure("CACHE_ROOT")
      ELSE [ok |-> TRUE, epoch |-> epoch, previousRoot |-> corpus.root, nextRoot |-> root,
            addedIds |-> IdsOf(new), added |-> new,
            removedIds |-> removals \cap IdsOf(corpus.records),
            modelId |-> corpus.modelId, revision |-> corpus.revision]

\* applyCorpusDelta, in the order of its checks; verify is off only where a
\* caller says so, and a cache is attached only where it asks for one.
ContentsRoot(corpus, delta) ==
  LET kept == {r \in corpus.records : r.id \notin delta.removedIds \cup delta.addedIds}
  IN  IF corpus.cache.present
      THEN UpdatedCache(corpus.cache.value, delta.added, delta.removedIds).root
      ELSE CorpusRoot(kept \cup delta.added)

\* Mutant: the delta is taken on any corpus, and its root believed.
DeltaVerdictAnywhere(corpus, delta, verify) ==
  Verdict(<< <<\E r \in delta.added : Misfit(r, corpus), "MISFIT">> >>)

DeltaVerdict(corpus, delta, verify) ==
  LET checks ==
        << <<delta.previousRoot # corpus.root,                                 "CONTINUITY">>,
           <<delta.modelId # corpus.modelId \/ delta.revision # corpus.revision, "ENCODER_PIN">>,
           <<Cardinality(IdsOf(delta.added)) # Cardinality(delta.added),     "DUPLICATE_RECORD">>,
           <<IdsOf(delta.added) # delta.addedIds,                            "IDS_AND_RECORDS">>,
           <<\E r \in delta.added : Misfit(r, corpus),                       "MISFIT">>,
           <<corpus.cache.present /\ corpus.cache.value.root # corpus.root,  "CACHE_ROOT">> >>
  IN  IF Refused(checks) THEN Verdict(checks)
      ELSE IF (corpus.cache.present \/ verify) /\ ContentsRoot(corpus, delta) # delta.nextRoot
           THEN "NEXT_ROOT" ELSE "ok"

ApplyDelta(corpus, delta, attach) ==
  [records |-> {r \in corpus.records : r.id \notin delta.removedIds \cup delta.addedIds}
                 \cup delta.added,
   root |-> delta.nextRoot,
   cache |-> IF attach /\ corpus.cache.present
             THEN Present(UpdatedCache(corpus.cache.value, delta.added, delta.removedIds))
             ELSE Absent,
   modelId |-> corpus.modelId, revision |-> corpus.revision]

\* loadProductionCorpus: with a leaf cache beside the file only the cache's own
\* root, its count and its ids are compared, not its leaves with the records.
LoadVerdict(file) ==
  LET ids == [i \in DOMAIN file.sidecar.value.leaves |-> file.sidecar.value.leaves[i][2]]
  IN  Verdict(
        << <<file.schema # "coretex.production-corpus.v1", "SCHEMA">>,
           <<file.sidecar.present /\ file.sidecar.value.root # file.root, "CACHE_ROOT">>,
           <<file.sidecar.present /\ Len(file.sidecar.value.leaves) # Cardinality(file.records),
                                                           "CACHE_COUNT">>,
           <<file.sidecar.present /\ ids # SetToSortSeq(IdsOf(file.records), <), "CACHE_IDS">>,
           <<~file.sidecar.present /\ CorpusRoot(file.records) # file.root,    "ROOT">>,
           <<\E r \in file.records : r.split # ExpectedSplit(r.id),            "SPLIT">>,
           <<\E r \in file.records : r.modelId # file.modelId \/ r.revision # file.revision,
                                                           "ENCODER">> >>)

Loaded(file) ==
  [records |-> file.records, root |-> file.root, cache |-> file.sidecar,
   modelId |-> file.modelId, revision |-> file.revision]

\* serializeProductionCorpus; the leaf cache is written beside it on request.
Serialized(corpus) ==
  [schema |-> "coretex.production-corpus.v1", records |-> corpus.records, root |-> corpus.root,
   sidecar |-> corpus.cache, modelId |-> corpus.modelId, revision |-> corpus.revision]

----------------------------------------------------------------------------
\* Logical deltas: documents and queries by name, each with the epoch it was
\* added live, or 0; they become records of the production corpus.
DocId(doc) == IF doc.live > 0 THEN LiveTailMemId(doc.name, doc.live) ELSE MemId(doc.name)
QueryId(query) ==
  IF query.live > 0 THEN LiveTailQueryId(query.name, query.live) ELSE RawQueryId(query.name)

\* The ids a document may be stored under, in the order they are tried; a name
\* of the form d_e<epoch>_x carries its epoch.
FirstPresent(ids, corpus) ==
  LET present == {i \in DOMAIN ids : ids[i] \in IdsOf(corpus.records)}
  IN  IF present = {} THEN -1 ELSE ids[Min(present)]

TailMemIds(name) ==
  (IF NameEpoch[name] > 0 THEN <<LiveTailMemId(name, NameEpoch[name])>> ELSE <<>>)
    \o <<LegacyTailMemId(name)>>

PreviousMemory(corpus, name) == FirstPresent(<<MemId(name)>> \o TailMemIds(name), corpus)

\* productionEventIdForLogicalDoc and ...Query, or -1: what removals are built
\* from.
EventIdOfDoc(corpus, doc) ==
  FirstPresent((IF doc.live > 0 THEN <<LiveTailMemId(doc.name, doc.live)>> ELSE <<>>)
                 \o <<MemId(doc.name)>> \o TailMemIds(doc.name), corpus)
EventIdOfQuery(corpus, query) ==
  FirstPresent((IF query.live > 0 THEN <<LiveTailQueryId(query.name, query.live)>> ELSE <<>>)
                 \o <<RawQueryId(query.name)>>
                 \o (IF NameEpoch[query.name] > 0
                     THEN <<LiveTailQueryId(query.name, NameEpoch[query.name])>> ELSE <<>>), corpus)

\* A document is resolved among the added ones first, then in the corpus, where
\* its record must hold it.
Resolves(corpus, docs, name) ==
  \/ \E d \in docs : d.name = name
  \/ \E r \in corpus.records :
       r.id = PreviousMemory(corpus, name) /\ name \in r.truths

DocRecord(doc, corpus) ==
  [id |-> DocId(doc), split |-> "train_visible", modelId |-> corpus.modelId,
   revision |-> corpus.revision, domain |-> doc.lane, sourced |-> TRUE,
   truths |-> {doc.name}, negatives |-> {}, positives |-> 1]

QueryRecord(query, corpus) ==
  [id |-> QueryId(query), split |-> SplitForRecord(QueryId(query)), modelId |-> corpus.modelId,
   revision |-> corpus.revision, domain |-> query.lane, sourced |-> TRUE,
   truths |-> query.truths, negatives |-> query.negatives, positives |-> Cardinality(query.truths)]

Bridged(corpus, docs, queries, modelId, revision) ==
  IF modelId # corpus.modelId \/ revision # corpus.revision THEN Failure("ENCODER_PIN")
  ELSE IF \E d \in docs : ~d.embedded THEN Failure("DOC_EMBEDDING")
  ELSE IF \E q \in queries : ~q.embedded
             \/ \E name \in q.truths \cup q.negatives : ~Resolves(corpus, docs, name)
       THEN Failure("UNRESOLVED")
  ELSE [ok |-> TRUE, records |-> {DocRecord(d, corpus) : d \in docs}
                                   \cup {QueryRecord(q, corpus) : q \in queries}]
=============================================================================

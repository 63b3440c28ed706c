--------------------------- MODULE MCEpochService ---------------------------
\* A small instance of EpochService: two documents and four hidden queries of
\* two families, of which two are active; three words of memory and two patches.
EXTENDS EpochService

MCFamilyOf == [id \in {101, 102, 103, 104, 105, 1253, 1353} |-> IF id \in {101, 102, 105} THEN 1 ELSE 2]
MCBucket == [id \in {101, 102, 103, 104, 105, 1253, 1353} |-> 80]
MCNameEpoch == [name \in 0..49 |-> 0]

Document(name) ==
  [id |-> name, split |-> "train_visible", modelId |-> "bge", revision |-> "revision",
   domain |-> "lane", sourced |-> TRUE, truths |-> {name}, negatives |-> {}, positives |-> 1]
HiddenQuery(name) ==
  [Document(1) EXCEPT !.id = 100 + name, !.split = "eval_hidden", !.negatives = {2}]
MCFirstRecords == {Document(1), Document(2)} \cup {HiddenQuery(n) : n \in 1..4}

\* live 1 stands for the epoch the item is added in.
Doc(name, live) == [name |-> name, live |-> live, lane |-> "lane", embedded |-> TRUE]
Query(name, live, truth) ==
  [name |-> name, live |-> live, lane |-> "lane", embedded |-> TRUE, truths |-> {truth},
   negatives |-> {1}]
Nothing == [docs |-> {}, queries |-> {}, gone |-> {}]
LiveRow == [Nothing EXCEPT !.docs = {Doc(3, 1)}, !.queries = {Query(3, 1, 3)}]
EarlierRow == [Nothing EXCEPT !.docs = {Doc(4, 0)}, !.queries = {Query(5, 0, 4)}]
Replacement == [EarlierRow EXCEPT !.gone = {Query(1, 0, 1)}]
MCDeltas == {Nothing, LiveRow, EarlierRow, Replacement}

ChurnProfile ==
  [mode |-> "C1", activeWindow |-> 2, churnRate |-> 1, maxAge |-> 1, lowAdvancesThreshold |-> 1,
   bumpRate |-> 2, minChurn |-> 1, maxChurn |-> 2, targetAccepts |-> 2, lowWatermark |-> 1,
   highWatermark |-> 3, unitsPerAccept |-> 1, maxRootDelta |-> 2]
HeadroomProfile == [ChurnProfile EXCEPT !.mode = "C3", !.maxAge = Unlimited]
FixedProfile == [HeadroomProfile EXCEPT !.mode = "C4", !.minChurn = 2]
OffProfile == [ChurnProfile EXCEPT !.mode = "off"]
MCProfiles == {HeadroomProfile, FixedProfile, OffProfile}

Values == {"0", "v"}
MCAtomIn == [v \in Values |->
  [spareBits |-> FALSE, scopeKnown |-> TRUE, selectorKnown |-> TRUE, featureKnown |-> TRUE,
   action |-> "boost", target |-> "slot", from |-> 0, until |-> 0]]
MCFirstState == [w \in Words |-> "0"]
MemoryPatch == [type |-> 2, writes |-> << <<32, "v">> >>]
MixedPatch == [type |-> MIXED, writes |-> << <<384, "v">>, <<672, "v">> >>]
MCPatches == {MemoryPatch, MixedPatch}
MCGainOf == [x \in [Words -> Values] \X {p.writes : p \in MCPatches} |->
               IF \E k \in DOMAIN x[2] : x[1][x[2][k][1]] # x[2][k][2] THEN 1 ELSE 0]
\* The gate fails, a screener pass, a state advance.
MCScorePairs == {<<0, 0>>, <<1, 2>>, <<2, 2>>}
=============================================================================

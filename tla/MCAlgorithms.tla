---------------------------- MODULE MCAlgorithms ----------------------------
\* The checks of the sequential algorithms beside the instance of the worker pool
\* whose jobs run them. The pool itself uses none of the constants below.
EXTENDS MCWorkerPool, SubstrateChecks, VerificationChecks, RouteChecks, RigChecks, PackChecks,
        ValidatorChecks

\* Values a memory word may have.
Values == {"0", "v", "key", "twin", "bad", "short"}
MCKeyIn == [v \in Values |->
  [version |-> IF v = "bad" THEN 2 ELSE 1, modelHash |-> IF v = "twin" THEN "n" ELSE "m", norm |-> 1,
   paddingClear |-> v # "twin", payloadShort |-> v = "short", vector |-> v]]
MCCodeIn == [v \in Values |-> [type |-> 1, code |-> IF v = "bad" THEN 0 ELSE 1, valid |-> v # "twin"]]
MCCosine == [x \in (Values \cup {"zero"}) \X (Values \cup {"zero"}) |->
               IF "zero" \in {x[1], x[2]} THEN 0 ELSE 90]
MCAtomIn == [v \in Values |->
  [spareBits |-> v = "bad", scopeKnown |-> TRUE, selectorKnown |-> TRUE, featureKnown |-> TRUE,
   action |-> IF v = "twin" THEN "abstain" ELSE "boost", target |-> "slot", from |-> 0, until |-> 0]]

\* Five hidden queries of two families; 1253 and 1353 are bridged documents.
MCFamilyOf == [id \in {101, 102, 103, 104, 105, 1253, 1353} |-> IF id \in {101, 102, 105} THEN 1 ELSE 2]
MCBucket == [id \in {101, 102, 103, 104, 105, 1253, 1353} |-> 80]
MCNameEpoch == [name \in 0..49 |-> 0]
\* A patch gains as long as it changes a word.
MCGainOf == [x \in [Words -> {"0", "v"}] \X {<< <<32, "v">> >>, << <<384, "v">>, <<672, "v">> >>} |->
               IF \E k \in DOMAIN x[2] : x[1][x[2][k][1]] # x[2][k][2] THEN 1 ELSE 0]

\* Metrics in thousandths; gains and discounts in hundredths.
MCRelevanceGain == [r \in 0..5 |-> <<0, 15, 32, 52, 74, 100>>[r + 1]]
MCRankWorth == <<100, 63, 50>>
MCFamilyRank ==
  [f \in {"aspect_constraint", "multi_hop_relation", "near_collision", "temporal"} |->
     CASE f = "aspect_constraint" -> 1 [] f = "multi_hop_relation" -> 2
       [] f = "near_collision" -> 3 [] f = "temporal" -> 4]
=============================================================================

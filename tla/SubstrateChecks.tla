-------------------------- MODULE SubstrateChecks --------------------------
\* What the evaluator's jobs read from a memory state, over small states: TLC
\* evaluates every assumption below before it checks the worker pool that runs
\* those jobs.
EXTENDS SubstrateDecoding

Sometimes(S) == UNION {[T -> S] : T \in {{}, {0}}}

MemoryWords ==
  [recordId : {0, 1}, family : {1, 7}, retrievalSlot : {0, 36}, valid : BOOLEAN,
   revoked : BOOLEAN, domains : {{}, {1}}]
GoodMemory == {w \in MemoryWords : ~MemoryFails(w)}
RelationWords ==
  [weight : {0, 1}, edgeType : {2, 9}, spareBits : BOOLEAN, lens : BOOLEAN, source : {0},
   target : {0, 1, 300}]
TemporalWords ==
  [memorySlot : {0, 1}, supersededBy : {0}, from : {5}, until : {4, 6}, spareBits : BOOLEAN,
   stale : BOOLEAN]
Reclaimed ==
  {[i \in {} |-> Blank]} \cup UNION {[T -> DOMAIN KeyIn \ {Blank, "v"}] : T \in {{384}, {385}, {384, 392}, {896}, {897}}}

EmptyState ==
  [memory |-> <<>>, relations |-> <<>>, temporal |-> <<>>, words |-> [i \in {} |-> Blank]]
States ==
  {[EmptyState EXCEPT !.memory = m, !.relations = r] :
     m \in [{0, 1} -> GoodMemory], r \in Sometimes(RelationWords)}
  \cup {[EmptyState EXCEPT !.memory = m, !.temporal = t] :
          m \in Sometimes(MemoryWords), t \in Sometimes(TemporalWords)}
  \cup {[EmptyState EXCEPT !.words = w] : w \in Reclaimed}
Options ==
  [policyMode : BOOLEAN, modelHash : {{}, {"m"}}, headerBytes : {9, 16}, diversityFloor : {{}, {50}}]
PlainOptions ==
  [policyMode |-> TRUE, modelHash |-> {}, headerBytes |-> 9, diversityFloor |-> {}]

(* Failures never outnumber attempts, so that validity stays between 0 and 1;*)
(* with none the state is wholly valid, whatever it holds.                   *)
ASSUME ValidityInRange ==
  \A st \in States, opts \in Options :
    LET decoded == Decode(st, opts)
        v == StructuralValidity(decoded)
    IN  /\ decoded.failures \in 0..decoded.attempts
        /\ 0 <= v[1] /\ v[1] <= v[2] /\ v[2] > 0
        /\ decoded.failures = 0 /\ ~decoded.collapsed => v[1] = v[2]

(* No word of a state is read both as a key or code and as a policy atom.    *)
ASSUME OneReading ==
  \A st \in States, opts \in Options :
    LET d == Decode(st, opts)
    IN  \/ d.keys \cup d.codes = {}
        \/ d.evidence \cup d.conflict \cup d.abstention = {}

(* Everything decoded refers to what is decoded: an edge joins two active    *)
(* slots, a temporal record is about one, and one that is stale about a      *)
(* revoked one.                                                              *)
ASSUME ReferencesHold ==
  \A st \in States :
    LET d == Decode(st, PlainOptions)
    IN  /\ \A i \in d.relations : {st.relations[i].source, st.relations[i].target} \subseteq d.memory
        /\ \A r \in d.temporal : /\ st.temporal[r].memorySlot \in d.memory
                                 /\ st.temporal[r].stale => st.memory[st.temporal[r].memorySlot].revoked

(* A slot that is not valid is left out without failing and still counts as  *)
(* attempted: next to a failure, words that hold nothing raise the validity. *)
ASSUME InactiveSlotsDilute ==
  \E m \in [{0, 1} -> MemoryWords] :
    LET one == [EmptyState EXCEPT !.memory = [s \in {0} |-> m[0]]]
        two == [EmptyState EXCEPT !.memory = m]
        v == StructuralValidity(Decode(one, PlainOptions))
        w == StructuralValidity(Decode(two, PlainOptions))
    IN  Decode(two, PlainOptions).memory = {} /\ v[1] * w[2] < w[1] * v[2]

(* What an encoder takes, the decoder gives back, as long as the slots it    *)
(* names fit the eight bits of a reference. Beyond, an edge no longer        *)
(* decodes, and a temporal record decodes to another slot.                   *)
ASSUME EncodersRoundTrip ==
  \A slot \in {0, 1, 255, 256, 351} :
    LET edge == [weight |-> 1, edgeType |-> 2, spareBits |-> FALSE, lens |-> FALSE, source |-> 0,
                 target |-> slot]
        rec == [memorySlot |-> slot, supersededBy |-> 0, from |-> 1, until |-> 2, spareBits |-> FALSE,
                stale |-> FALSE]
    IN  /\ EdgeEncodes(edge) /\ TemporalEncodes(rec)
        /\ ~RelationFails(EncodedEdge(edge)) <=> slot < SlotRefs
        /\ ~TemporalFails(EncodedTemporal(rec))
        /\ EncodedTemporal(rec) = rec <=> slot < SlotRefs
        /\ LensEncodes(edge) /\ ~RelationFails(EncodedLens(edge))
        /\ \A w \in GoodMemory : MemoryEncodes(w)

(* The ring never gives a protected slot, gives the counter's own slot when  *)
(* it may, and the word it gives is the slot's first.                        *)
ASSUME SlotRing ==
  \A region \in {"memory_index", "retrieval_keys"}, advance \in {0, 1, 35, 36, 351, 352, 400},
     protected \in {{}, {0}, 0..34, 0..35 \ {1}, {35}, {351}} :
    ~NoSlotLeft(region, protected) =>
      LET selected == SelectSlot(region, advance, protected)
      IN  /\ selected.slot \in (0..Capacity(region) - 1) \ protected
          /\ advance % Capacity(region) \notin protected => selected.slot = advance % Capacity(region)
          /\ selected.word \in IF region = "memory_index" THEN MemoryRange ELSE KeyRange
=============================================================================

------------------------- MODULE VerificationChecks -------------------------
\* Reproducing an epoch, translating a state and updating its Merkle tree,
\* against what they are to compute, over small inputs: TLC evaluates every
\* assumption below before it checks the instance that extends this module.
EXTENDS EpochChecks, EpochVerification

BytesOf(p, hash) == [wire |-> Encoded(p), hash |-> hash]
EventOf(item, miner) ==
  [epoch |-> 1, miner |-> miner, parentStateRoot |-> item.patch.parent, patchHash |-> item.hash,
   evalReportHash |-> 0, bytes |-> BytesOf(item.patch, item.hash)]

(* What the registry's event carries is what the decoder gives back, and a   *)
(* log that ends before its bytes gives none.                                *)
ASSUME PatchLogRoundTrip ==
  \A p \in SmallPatches :
    LET event == EventOf([patch |-> p, hash |-> 7], "miner")
        data == PatchAcceptedData(event)
    IN  /\ DecodePatchAccepted(PatchAcceptedTopics(event), data) = event
        /\ \A n \in 4..5 :
             DecodePatchAccepted(PatchAcceptedTopics(event), SubSeq(data, 1, n)).bytes = 0

Scored(items, deltas) ==
  {[i EXCEPT !.patch = [@ EXCEPT !.delta = deltas[i.miner]], !.score = deltas[i.miner]] : i \in items}
ScoreDeltas == {d \in [{"a", "b", "c"} -> {0, 5}] : d["a"] = 5}
Anything(events, target) ==
  [finalized |-> {[newStateRoot |-> target]}, snapshot |-> {}, events |-> events, policyAtoms |-> TRUE,
   genesis |-> {[state |-> FirstState]}]

(* The events of the patches the batch lane accepted give its state and its  *)
(* patch set back, in whatever order they are listed, one of them twice, and *)
(* with events among them whose hash is not that of their bytes.             *)
ASSUME BatchEpochVerifies ==
  \A plain \in Batches, d \in ScoreDeltas :
    LET run == Reduced(FirstState, Scored(plain, d), 1, TRUE)
        events == [i \in DOMAIN run.accepted |-> EventOf(run.accepted[i], "miner")]
        forged == [EventOf([patch |-> [type |-> 2, parent |-> FirstState, delta |-> 9,
                                       writes |-> << <<32, "v">> >>], hash |-> 4], "miner")
                     EXCEPT !.patchHash = 1]
        result(list) == VerifyEpoch(Anything(list, run.state))
    IN  \A list \in {events, Reverse(events), events \o events, <<forged>> \o events} :
          /\ result(list).ok /\ result(list).match
          /\ result(list).accepted = PatchSetRoot(run.accepted)

(* The live lane's epoch is not reproduced this way: its second advance is   *)
(* on another root than the one the epoch began with, and is left out.       *)
ASSUME LiveEpochIsNot ==
  \E p, q \in SmallPatches :
    LET second == [q EXCEPT !.parent = Written(p.parent, p)]
        reached == ApplyOntoCurrent(Written(p.parent, p), second, TRUE).state
        in == [Anything(<<EventOf([patch |-> p, hash |-> 1], "m"),
                          EventOf([patch |-> second, hash |-> 2], "m")>>, reached)
                 EXCEPT !.genesis = {[state |-> p.parent]}]
    IN  /\ ApplyPatch(p.parent, p, TRUE).ok /\ ApplyPatch(second.parent, second, TRUE).ok
        /\ ~VerifyEpoch(in).match

(* Nothing but the state reached is compared: a snapshot of that state and   *)
(* no events at all verify every epoch.                                      *)
ASSUME SnapshotOfTheEnd ==
  \A s \in SmallStates :
    CommandVerifyEpoch([Anything(<<>>, s) EXCEPT !.snapshot = {[state |-> s, intact |-> TRUE]}]).exit = 0

(* reduce-epoch and verify-epoch agree as long as no record carries a score  *)
(* of its own; with one they need not accept the same patches.               *)
Conflicting == {[type |-> 2, parent |-> FirstState, delta |-> d, writes |-> << <<32, v>> >>] :
                  d \in {1, 2}, v \in {"v"}}
RecordOf(p, score) ==
  [parentStateRoot |-> p.parent, wire |-> Encoded(p), hash |-> p.delta, score |-> score]
ASSUME CommandsAgree ==
  \A own \in BOOLEAN :
    LET records == {RecordOf(p, IF own THEN {9 - p.delta} ELSE {}) : p \in Conflicting}
        reduced == CommandReduceEpoch(FirstState, records, TRUE).output
        events == SetToSeq({EventOf([patch |-> p, hash |-> p.delta], "m") : p \in Conflicting})
        verified == CommandVerifyEpoch(Anything(events, reduced.state)).output
    IN  /\ verified.match
        /\ (verified.accepted = PatchSetRoot(reduced.accepted)) = ~own

----------------------------------------------------------------------------
Chained(p, q) == <<p, [q EXCEPT !.parent = Written(p.parent, p)]>>
Translations ==
  {[from |-> 1, to |-> 2, patches |-> s] :
     s \in {<<>>} \cup {<<p>> : p \in SmallPatches}
             \cup {Chained(p, q) : p \in {s \in SmallPatches : s.type = MIXED /\ s.parent = FirstState},
                                   q \in {s \in SmallPatches : s.type = 2}}}

(* A translation is read back from its payload, with or without one byte     *)
(* more, and not from a payload that is cut or that has another magic.       *)
ASSUME TranslationRoundTrip ==
  \A t \in Translations :
    LET payload == EncodeTranslation(t)
        taken == \A k \in DOMAIN t.patches : EncodeAccepted(t.patches[k])
    IN  taken =>
          /\ \A lone \in BOOLEAN :
               ParseTranslation([payload EXCEPT !.lone = lone]) = [ok |-> TRUE, translation |-> t]
          /\ ~ParseTranslation([payload EXCEPT !.magic = 0]).ok
          /\ \A k \in DOMAIN t.patches :
               ParseTranslation([payload EXCEPT !.segments[k].cut = TRUE]).code = "TOO_SHORT"

(* All of a translation's patches apply or none does, and only from the core *)
(* version it names; two of them on one parent never do.                     *)
ASSUME TranslationAllOrNothing ==
  \A t \in Translations, s \in {FirstState, [FirstState EXCEPT ![32] = "v"]} :
    LET result == ApplyTranslation(s, t, {1})
        twice == [t EXCEPT !.patches = @ \o @]
    IN  /\ result.ok /\ t.patches # <<>> =>
             /\ t.patches[1].parent = s
             /\ \A k \in 2..Len(t.patches) :
                  t.patches[k].parent = Written(t.patches[k - 1].parent, t.patches[k - 1])
             /\ result.state = Written(t.patches[Len(t.patches)].parent, t.patches[Len(t.patches)])
             /\ ~ApplyTranslation(s, twice, {1}).ok
        /\ ~ApplyTranslation(s, t, {3}).ok
        /\ CommandUpgrade(s, EncodeTranslation(t)).exit = 0 => result.ok

----------------------------------------------------------------------------
SmallWords == [1..8 -> {0, 3}]
Updates == [index : 1..8, word : 1..2]

(* Updating the tree along the changed paths is building it anew, also when  *)
(* a word is updated twice, and updates one by one are those updates at once.*)
ASSUME MerkleUpdateIsRebuild ==
  \A updates \in UNION {[1..n -> Updates] : n \in 0..2}, words \in SmallWords :
    LET cache == BuildMerkleCache(words, 3)
        new == FoldLeft(LAMBDA w, u : [w EXCEPT ![u.index] = u.word], words, updates)
    IN  /\ UpdateMerkleCache(cache, updates) = BuildMerkleCache(new, 3)
        /\ FoldLeft(LAMBDA c, u : UpdateMerkleCache(c, <<u>>), cache, updates)
             = UpdateMerkleCache(cache, updates)
        /\ (MerkleRoot(BuildMerkleCache(new, 3)) = MerkleRoot(cache)) = (new = words)
=============================================================================

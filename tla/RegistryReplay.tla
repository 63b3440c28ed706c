--------------------------- MODULE RegistryReplay ---------------------------
(***************************************************************************)
(* RegistryReplay: rebuilding the substrate from registry events           *)
(* (src/replay/coretex-registry.ts), with the older two-event form of the  *)
(* same replay (src/replay/v4.ts).  A state is the sequence of the patches *)
(* applied to the blank substrate, and stands for its own root; a hash is  *)
(* what it hashes.                                                         *)
(*                                                                         *)
(* An advance is a record                                                  *)
(*   [epoch, index, parent, new, payload, hash, version, corpus, frontier] *)
(* whose payload is a patch, "empty", or "descriptor": the 105 bytes of a  *)
(* rig-lane transition, which arrive under the same topic.                 *)
(***************************************************************************)
EXTENDS Integers, Sequences, FiniteSets, SequencesExt, OrderedChecks

CONSTANTS
  Patches,     \* the patches that decode
  None,        \* what is not given, or not there
  Unappliable  \* the patches applyPatch refuses

ASSUME PatchAssumption == Unappliable \subseteq Patches

Blank == <<>>

Earlier(a, b) == \/ a.epoch < b.epoch
                 \/ a.epoch = b.epoch /\ a.index < b.index

\* logs.map(decode).filter.sort: the advances of a window, in the order of their
\* epochs and indices (two advances never share both).
InReplayOrder(advances) ==
  [k \in 1..Cardinality(advances) |->
     CHOOSE a \in advances : Cardinality({b \in advances : Earlier(b, a)}) = k - 1]

(***************************************************************************)
(* replayCoreTexFromLogs.  The expected index of an epoch starts at 0 with *)
(* the epoch's first advance IN THE WINDOW.                                *)
(***************************************************************************)
ReplayStart(parent) ==
  [root |-> parent, next |-> <<>>, code |-> "ok", transitions |-> 0]

ExpectedIndex(next, e) == IF e \in DOMAIN next THEN next[e] ELSE 0

Expecting(next, e) ==
  [x \in DOMAIN next \cup {e} |->
     IF x = e THEN ExpectedIndex(next, e) + 1 ELSE next[x]]

\* A pin the caller leaves out is not compared.
PinDiffers(pin, value) == pin # None /\ pin # value

PinVerdict(event, pins) ==
  Verdict(<< <<PinDiffers(pins.version, event.version),   "CORE_VERSION_MISMATCH">>,
             <<PinDiffers(pins.corpus, event.corpus),     "CORPUS_ROOT_MISMATCH">>,
             <<PinDiffers(pins.frontier, event.frontier), "ACTIVE_FRONTIER_ROOT_MISMATCH">> >>)

\* The checks of one advance against the state replayed so far, in order.
AdvanceVerdict(s, adv, pins) ==
  Verdict(<< <<adv.index # ExpectedIndex(s.next, adv.epoch), "OUT_OF_ORDER">>,
             <<PinVerdict(adv, pins) # "ok",    PinVerdict(adv, pins)>>,
             <<adv.parent # s.root,             "STATE_PARENT_MISMATCH">>,
             <<adv.payload = "empty",           "NO_PATCH_BYTES">>,
             <<adv.payload = "descriptor",      "CROSS_LANE_RIG_ADVANCE">>,
             <<adv.hash # adv.payload,          "PATCH_HASH_MISMATCH">>,
             <<adv.payload \in Unappliable,     "APPLY_FAILED">>,
             <<adv.new # Append(s.root, adv.payload), "NEW_ROOT_MISMATCH">> >>)

ReplayAdvance(s, adv, pins) ==
  LET verdict == AdvanceVerdict(s, adv, pins)
  IN  IF s.code # "ok" THEN s
      ELSE IF verdict # "ok" THEN [s EXCEPT !.code = verdict]
      ELSE [root |-> adv.new, next |-> Expecting(s.next, adv.epoch),
            code |-> "ok", transitions |-> s.transitions + 1]

FinalizedVerdict(fin, pins, root) ==
  Verdict(<< <<PinVerdict(fin, pins) # "ok", PinVerdict(fin, pins)>>,
             <<PinDiffers(pins.baseline, fin.baseline), "BASELINE_MANIFEST_HASH_MISMATCH">>,
             <<fin.new # root, "FINAL_ROOT_MISMATCH">> >>)

\* Only the last epoch's finalisation in the window is looked at.
LastFinalized(finalized) ==
  CHOOSE f \in finalized : \A g \in finalized : g.epoch <= f.epoch

\* The accumulators after each of the advances.
ReplaySteps(parent, advances, pins) ==
  LET order == InReplayOrder(advances)
      after[k \in 0..Cardinality(advances)] ==
        IF k = 0 THEN ReplayStart(parent)
        ELSE ReplayAdvance(after[k - 1], order[k], pins[order[k].epoch])
  IN  after

Replay(parent, advances, finalized, pins) ==
  LET done == ReplaySteps(parent, advances, pins)[Cardinality(advances)]
      last == LastFinalized(finalized)
  IN  IF done.code # "ok" \/ finalized = {} THEN done
      ELSE [done EXCEPT !.code = FinalizedVerdict(last, pins[last.epoch], done.root)]

(***************************************************************************)
(* replayV4TransitionsFromLogs: patch bytes and advance arrive as two      *)
(* events; a patch event is [hash, payload, parent].                       *)
(***************************************************************************)
V4Transition(state, patches, adv) ==
  LET mine == {i \in DOMAIN patches : patches[i].hash = adv.hash}
      found == patches[CHOOSE i \in mine : \A j \in mine : i <= j]
  IN  IF mine = {} THEN "NO_PATCH_BYTES"
      ELSE Verdict(<< <<found.payload # found.hash,   "PATCH_HASH_MISMATCH">>,
                      <<found.parent # adv.parent,    "PATCH_PARENT_MISMATCH">>,
                      <<state # adv.parent,           "STATE_PARENT_MISMATCH">>,
                      <<found.payload \in Unappliable, "APPLY_FAILED">>,
                      <<adv.new # Append(state, found.payload), "NEW_ROOT_MISMATCH">> >>)

\* The indices of a batch only have to grow: neither the first nor a gap is checked.
Monotone(advances) ==
  \A i \in 1..Len(advances) - 1 : advances[i].index < advances[i + 1].index

V4Replay(parent, patches, advances) ==
  LET step(s, adv) ==
        LET verdict == V4Transition(s.root, patches, adv)
        IN  IF s.code # "ok" THEN s
            ELSE IF verdict = "ok" THEN [root |-> adv.new, code |-> "ok"]
            ELSE [s EXCEPT !.code = verdict]
  IN  IF ~Monotone(advances) THEN [root |-> parent, code |-> "OUT_OF_ORDER_LOGS"]
      ELSE FoldLeft(step, [root |-> parent, code |-> "ok"], advances)

(***************************************************************************)
(* launch-recovery-pin.ts and the client's choice of a first block and a   *)
(* parent state (resolveReplayFromBlock, resolveReplayParentBootstrap).    *)
(* A recovery pin is None or [epoch, from, block, root, index].          *)
(***************************************************************************)
RecoveryFor(pin, epoch, optedOut) ==
  IF pin # None /\ pin.epoch = epoch /\ ~optedOut THEN pin ELSE None

FirstBlock(flag, cursor, pin, deployBlock) ==
  LET fresh == cursor # None /\ (pin # None => cursor >= pin.block)
  IN  IF flag # None THEN [block |-> flag, source |-> "flag"]
      ELSE IF fresh THEN [block |-> cursor + 1, source |-> "snapshot-cursor"]
      ELSE IF pin # None THEN [block |-> pin.from, source |-> "launch-recovery"]
      ELSE [block |-> deployBlock, source |-> "deploy-block"]

\* A snapshot is taken even when the first block came from the recovery pin.
ParentSource(parentFile, snapshotAvailable, source, epochParent) ==
  IF parentFile # None THEN "explicit-file"
  ELSE IF snapshotAvailable THEN "snapshot"
  ELSE IF source = "launch-recovery" THEN "launch-recovery"
  ELSE IF source = "deploy-block" \/ epochParent = Blank THEN "blank-substrate"
  ELSE "none"
=============================================================================

--------------------------- MODULE CoordinatorCore ---------------------------
(***************************************************************************)
(* CoreTexCoordinatorCore: the coordinator's replica of the registry       *)
(* (finality-gated event replay, snapshots, reorg rollback, parity gate)   *)
(* and its submit pipeline (prepare under the mutex, score outside it,     *)
(* re-check and sign under it), with pending receipts, deduplication,      *)
(* per-miner receipt-chain reservations, cutover freeze and restart.       *)
(*                                                                         *)
(* Code between two awaits is one action, and an await is a boundary       *)
(* between two actions, with three groups of chain reads merged because    *)
(* they happen under the mutex and read the same chain: the epoch, head    *)
(* and block-hash reads that open tick() (TickStart), the epoch and        *)
(* counters reads of the finish phase (ReadCounters), and the difficulty   *)
(* read with the signer call (SignReceipt).  The synchronous event loop of *)
(* tick() and boot() is unrolled into ApplyChainEvent steps during which   *)
(* nothing else runs (tick.pc =                                            *)
(* "apply").                                                               *)
(***************************************************************************)
EXTENDS MiningChain

CONSTANTS
  ReplayFrom,      \* replayFromBlock
  Ttl,             \* receiptTtlSec
  Cap,             \* perMinerScreenerCap
  MaxSnapshots,    \* MAX_SNAPSHOTS
  LaunchBaseline,  \* baselineParentScorePpm of the pinned launch root
  SignerGivesHash, \* the signer returns the on-chain receiptHash
  EvalKinds,       \* accepted outcomes the evaluator may return
  MaxReceipts,     \* bound: receipts signed over a behaviour
  Rebaselined,     \* bound: roots the cutover orchestrator re-baselines
  MaxFreezes,      \* bound: calls of freeze()
  MaxCrashes,      \* bound: process restarts
  ChainMayFail,    \* chain reads may throw
  EpochMayClose    \* V4 may roll over to the next epoch

ASSUME CoreAssumption ==
  /\ ReplayFrom \in Nat \ {0}
  /\ Ttl \in Nat \ {0}
  /\ Cap \in Nat \ {0}
  /\ MaxSnapshots \in Nat \ {0}
  /\ LaunchBaseline \in Nat \ {0}
  /\ SignerGivesHash \in BOOLEAN
  /\ EvalKinds \subseteq {"advance", "screener"}
  /\ Rebaselined \subseteq Roots
  /\ MaxReceipts \in Nat /\ MaxFreezes \in Nat /\ MaxCrashes \in Nat
  /\ ChainMayFail \in BOOLEAN /\ EpochMayClose \in BOOLEAN

VARIABLES
  booted,           \* boot() has returned
  liveRoot,         \* liveRoot / liveState
  transitions,      \* lastTransitionIndex + 1
  snapshots,        \* per applied event: block, fork, parent, root, hash
  stateByRoot,      \* roots whose substrate is cached
  baselineByRoot,   \* root -> baseline, 0 when there is none
  lastScanned,      \* lastScannedBlock
  signingEnabled,
  frozen,
  freezeGen,        \* freezeGeneration
  freezing,         \* a freeze() call is waiting for the mutex
  tick,             \* the running tick() or boot(): pc, safeHead, next block
  job,              \* the submit being processed; the FIFO queue runs one
  reservation,      \* minerChainReservations; next = 0 when absent
  pending,          \* pendingByPatchHash, keyed by the signed hash
  dedup,            \* submitDedup: patch -> expiry, 0 when absent
  cache,            \* receiptCache: hash -> [hash, exp]
  issued,           \* receipts signed so far: what the miners can broadcast
  crashes

replicaVars == <<liveRoot, transitions, snapshots, stateByRoot, lastScanned>>
receiptVars == <<pending, dedup, cache, reservation>>
freezeVars  == <<frozen, freezeGen, freezing>>
vars == <<chainVars, booted, replicaVars, baselineByRoot, signingEnabled,
          freezeVars, tick, job, receiptVars, issued, crashes>>

(***************************************************************************)
(* Data.  A patch hash is <<patch, score>>: the evaluator's score is       *)
(* rewritten into a state advance before it is signed.  The core zeroes    *)
(* the scoreDelta of a submitted patch and encodes it again before it      *)
(* hashes it (a screener receipt keeps that hash): <<patch, 0>> is the     *)
(* hash of the canonical bytes, not of the bytes the miner sent.           *)
(***************************************************************************)
OriginalHash(p) == <<p, 0>>
SignedHashes == Patches \X Scores
Hashes == Patches \X (Scores \cup {0})

NoPending == [st |-> "none", exp |-> 0]
PendingRecord == [st: {"none", "pending", "confirmed", "stale"}, exp: Nat]

NoEnvelope == [hash |-> <<>>, exp |-> 0]
Envelope == [hash: Hashes, exp: Nat]

NoReservation == [next |-> 0, last |-> 0, exp |-> 0]
Reservation == [next: Nat, last: Nat, exp: Nat]

Snapshot == [block: Nat, fork: Nat, parent: Roots, root: Roots, hash: SignedHashes]

IdleTick == [pc |-> "idle", safe |-> 0, at |-> 0]
NoJob == [pc |-> "none"]

\* AsyncMutex: held by a tick, by the prepare phase, or by the finish phase.
MutexFree == tick.pc = "idle" /\ job.pc \in {"none", "scoring"}

\* JavaScript runs a handler to its next await: nothing interleaves with the
\* synchronous event loop.
Interruptible == tick.pc # "apply"

Last(s) == s[Len(s)]

\* Mutant: confirmationDepth is ignored.
SafeHeadAtHead == Len(chain)

SafeHead == Len(chain) - Depth

(***************************************************************************)
(* gcPending(now)                                                          *)
(***************************************************************************)
ExpiredPending(pend) == {h \in SignedHashes : pend[h].st = "pending" /\ pend[h].exp <= now}

GcPendingRecords(pend) ==
  [h \in SignedHashes |-> IF h \in ExpiredPending(pend) THEN NoPending ELSE pend[h]]

\* Mutant: an entry is released one unit before its receipt expires.
GcDedupEarly(pend) == [p \in Patches |-> IF dedup[p] <= now + 1 THEN 0 ELSE dedup[p]]

GcDedup(pend) ==
  [p \in Patches |->
     IF dedup[p] <= now \/ \E s \in Scores : <<p, s>> \in ExpiredPending(pend)
     THEN 0 ELSE dedup[p]]

\* Mutant: envelopes go by age alone, tracked or not.
GcCacheByAge(pend) ==
  [k \in Hashes |-> IF cache[k].exp <= now THEN NoEnvelope ELSE cache[k]]

\* Mutant: an envelope past its expiry stays only for a pending record; those of
\* settled records, which a rollback may bring back, go.
GcCacheOfSettled(pend) ==
  [k \in Hashes |->
     IF \/ k \in ExpiredPending(pend)
        \/ \E h \in ExpiredPending(pend) : k = OriginalHash(h[1])
        \/ /\ cache[k] # NoEnvelope
           /\ cache[k].exp <= now
           /\ cache[k].hash \in SignedHashes => GcPendingRecords(pend)[cache[k].hash].st # "pending"
     THEN NoEnvelope ELSE cache[k]]

\* Both keys of an expired pending go; so does any envelope past its expiry
\* that no pending record accounts for (a screener's).
GcCache(pend) ==
  [k \in Hashes |->
     IF \/ k \in ExpiredPending(pend)
        \/ \E h \in ExpiredPending(pend) : k = OriginalHash(h[1])
        \/ /\ cache[k] # NoEnvelope
           /\ cache[k].exp <= now
           /\ cache[k].hash \in SignedHashes => GcPendingRecords(pend)[cache[k].hash].st = "none"
     THEN NoEnvelope ELSE cache[k]]

GcReservations ==
  [m \in Miners |-> IF reservation[m].exp <= now THEN NoReservation ELSE reservation[m]]

GcPending(pend) ==
  /\ pending' = GcPendingRecords(pend)
  /\ dedup' = GcDedup(pend)
  /\ cache' = GcCache(pend)
  /\ reservation' = GcReservations

(***************************************************************************)
(* Pending bookkeeping of applyChainEvent, handleReorg and the audit       *)
(***************************************************************************)
\* An applied event confirms the matching pending receipt and makes every
\* other pending receipt on the same parent stale.
SettlePending(pend, hash) ==
  [h \in SignedHashes |->
     IF pend[h].st = "pending" /\ ParentOf[h[1]] = ParentOf[hash[1]]
     THEN [pend[h] EXCEPT !.st = IF h = hash THEN "confirmed" ELSE "stale"]
     ELSE pend[h]]

\* The snapshots that consumed a root, oldest first.
Consumers(snaps, r) == {i \in DOMAIN snaps : snaps[i].parent = r}
Earliest(S) == CHOOSE i \in S : \A j \in S : i <= j

ReconciledState(snaps, h) ==
  LET C == Consumers(snaps, ParentOf[h[1]])
  IN  IF C = {} THEN "pending"
      ELSE IF snaps[Earliest(C)].hash = h THEN "confirmed" ELSE "stale"

\* Mutant: records already confirmed are not looked at again.
ReconcileUnconfirmed(pend, snaps) ==
  [h \in SignedHashes |->
     IF pend[h].st \in {"none", "confirmed"} THEN pend[h]
     ELSE [pend[h] EXCEPT !.st = ReconciledState(snaps, h)]]

\* reconcilePendingFromCanonicalSnapshots
ReconcilePending(pend, snaps) ==
  [h \in SignedHashes |->
     IF pend[h].st = "none" THEN pend[h]
     ELSE [pend[h] EXCEPT !.st = ReconciledState(snaps, h)]]

\* Mutant: the audit is skipped.
NoAudit(pend, roots) == pend

\* auditReceiptCacheAgainstCanonicalRoots
AuditPending(pend, roots) ==
  [h \in SignedHashes |->
     IF pend[h].st = "pending" /\ ParentOf[h[1]] \notin roots
     THEN [pend[h] EXCEPT !.st = "stale"] ELSE pend[h]]

(***************************************************************************)
(* tick() under the mutex                                                  *)
(***************************************************************************)
\* The block of a snapshot now carries another hash.  getBlockHashAt returns
\* null above the head, and null is not a mismatch.
Replaced(snap) ==
  snap.block <= Len(chain) /\ chain[snap.block].fork # snap.fork

StillCanonical(snap) ==
  snap.block <= Len(chain) /\ chain[snap.block].fork = snap.fork

CanonicalSnapshots == {i \in DOMAIN snapshots : StillCanonical(snapshots[i])}

RootsOf(snaps) == {snaps[i].root : i \in DOMAIN snaps} \cup {LaunchRoot}

\* handleReorg: roll back to the deepest snapshot that is still canonical, or
\* to the launch root.
Kept == IF CanonicalSnapshots = {} THEN 0 ELSE Latest(CanonicalSnapshots)

KeptSnapshots == SubSeq(snapshots, 1, Kept)

\* Mutant: the rollback counts from the index of the last event, not from the
\* number of events.
KeptTransitionIndex == IF Kept = 0 THEN -1 ELSE transitions - (Len(snapshots) - Kept)

\* Mutant: the transition count survives a rollback to the launch root.
KeptAllTransitions == IF Kept = 0 THEN transitions ELSE transitions - (Len(snapshots) - Kept)

KeptTransitions == IF Kept = 0 THEN 0 ELSE transitions - (Len(snapshots) - Kept)

\* Where the next scan resumes.
KeptScan == IF Kept = 0 THEN ReplayFrom - 1 ELSE snapshots[Kept].block

RollBack ==
  /\ snapshots' = KeptSnapshots
  /\ transitions' = KeptTransitions
  /\ liveRoot' = IF Kept = 0 THEN LaunchRoot ELSE snapshots[Kept].root
  /\ lastScanned' = KeptScan
  /\ stateByRoot' = stateByRoot \cap RootsOf(KeptSnapshots)
  /\ pending' = AuditPending(ReconcilePending(pending, KeptSnapshots), stateByRoot')
  /\ signingEnabled' = FALSE

ReorgSeen == snapshots # <<>> /\ Replaced(Last(snapshots))

\* checkEpochStillCurrent fails: no scan, only the expiry sweep.
TickEpochClosed ==
  /\ booted /\ MutexFree /\ ~frozen /\ ~epochOpen
  /\ signingEnabled' = FALSE
  /\ GcPending(pending)
  /\ UNCHANGED <<chainVars, booted, replicaVars, baselineByRoot, freezeVars, tick,
                 job, issued, crashes>>

\* Mutant: tick() scans without asking for the current epoch.
TickStartAnyEpoch ==
  /\ booted /\ MutexFree /\ ~frozen
  /\ tick' = [pc |-> "scan", safe |-> SafeHead, at |-> 0]
  /\ UNCHANGED <<chainVars, booted, replicaVars, baselineByRoot, signingEnabled, freezeVars,
                 job, receiptVars, issued, crashes>>

\* Epoch check, head read and reorg detection.
TickStart ==
  /\ booted /\ MutexFree /\ ~frozen /\ epochOpen
  /\ tick' = [pc |-> "scan", safe |-> SafeHead, at |-> 0]
  /\ \/ /\ ReorgSeen
        /\ RollBack
     \/ /\ ~ReorgSeen
        /\ UNCHANGED <<replicaVars, pending, signingEnabled>>
  /\ UNCHANGED <<chainVars, booted, baselineByRoot, freezeVars, job, dedup, cache,
                 reservation, issued, crashes>>

\* getStateAdvancedEvents(lastScanned + 1, safeHead)
TickScan ==
  /\ tick.pc = "scan" /\ booted
  /\ tick' = IF tick.safe > lastScanned
             THEN [tick EXCEPT !.pc = "apply", !.at = lastScanned + 1]
             ELSE [tick EXCEPT !.pc = "parity"]
  /\ UNCHANGED <<chainVars, booted, replicaVars, baselineByRoot, signingEnabled,
                 freezeVars, job, receiptVars, issued, crashes>>

\* The event blocks of the batch not yet applied.
BatchLeft == {i \in AdvanceBlocks(tick.safe) : i >= tick.at}

Event(i) == chain[i].rcpt
EventHash(i) == <<Event(i).patch, Event(i).score>>

\* The watcher's checks: contiguous transitionIndex and parent = liveRoot.
\* (The pins, the patch hash, the word count and the recomputed root of an
\* event the registry emitted always match.)
EventAccepted(i) ==
  /\ TransitionCount(i) - 1 = transitions
  /\ ParentOf[Event(i).patch] = liveRoot

\* A newer event evicts the oldest snapshot once there are MaxSnapshots.
PushSnapshot(snap) ==
  LET grown == Append(snapshots, snap)
  IN  IF Len(grown) > MaxSnapshots THEN Tail(grown) ELSE grown

ApplyChainEvent ==
  /\ tick.pc = "apply" /\ BatchLeft # {}
  /\ LET i == Earliest(BatchLeft)
         newRoot == RootAfter[Event(i).patch]
     IN  /\ EventAccepted(i)
         /\ liveRoot' = newRoot
         /\ transitions' = transitions + 1
         /\ stateByRoot' = stateByRoot \cup {newRoot}
         /\ snapshots' = PushSnapshot(
              [block |-> i, fork |-> chain[i].fork, parent |-> ParentOf[Event(i).patch],
               root |-> newRoot, hash |-> EventHash(i)])
         /\ pending' = SettlePending(pending, EventHash(i))
         /\ baselineByRoot' =
              IF pending[EventHash(i)].st = "pending"
              THEN [baselineByRoot EXCEPT ![newRoot] = Event(i).score]
              ELSE baselineByRoot
         /\ tick' = [tick EXCEPT !.at = i + 1]
  /\ UNCHANGED <<chainVars, booted, lastScanned, signingEnabled, freezeVars, job, dedup,
                 cache, reservation, issued, crashes>>

\* applyChainEvent throws: the events before this one stay applied while
\* lastScannedBlock keeps its value.
RejectChainEvent ==
  /\ tick.pc = "apply" /\ booted /\ BatchLeft # {}
  /\ ~EventAccepted(Earliest(BatchLeft))
  /\ signingEnabled' = FALSE
  /\ tick' = IdleTick
  /\ UNCHANGED <<chainVars, booted, replicaVars, baselineByRoot, freezeVars, job,
                 receiptVars, issued, crashes>>

\* Mutant: the watcher goes on from the head, not from the confirmed head.
ScanDoneAtHead ==
  /\ tick.pc = "apply" /\ BatchLeft = {}
  /\ lastScanned' = Len(chain)
  /\ tick' = [tick EXCEPT !.pc = "parity"]
  /\ UNCHANGED <<chainVars, booted, liveRoot, transitions, snapshots, stateByRoot,
                 baselineByRoot, signingEnabled, freezeVars, job, receiptVars, issued,
                 crashes>>

ScanDone ==
  /\ tick.pc = "apply" /\ BatchLeft = {}
  /\ lastScanned' = tick.safe
  /\ tick' = [tick EXCEPT !.pc = "parity"]
  /\ UNCHANGED <<chainVars, booted, liveRoot, transitions, snapshots, stateByRoot,
                 baselineByRoot, signingEnabled, freezeVars, job, receiptVars, issued,
                 crashes>>

\* parityCheck against the registry as it stands at the head.
InParity ==
  /\ transitions = TransitionCount(Len(chain))
  /\ liveRoot = RegistryRoot(Len(chain))

\* Mutant: the tick ends without the expiry sweep.
TickParityNoSweep ==
  /\ tick.pc = "parity" /\ booted
  /\ signingEnabled' = InParity
  /\ tick' = IdleTick
  /\ UNCHANGED <<chainVars, booted, replicaVars, baselineByRoot, freezeVars, job,
                 receiptVars, issued, crashes>>

TickParity ==
  /\ tick.pc = "parity" /\ booted
  /\ signingEnabled' = InParity
  /\ GcPending(IF InParity THEN AuditPending(pending, stateByRoot) ELSE pending)
  /\ tick' = IdleTick
  /\ UNCHANGED <<chainVars, booted, replicaVars, baselineByRoot, freezeVars, job, issued,
                 crashes>>

\* A chain read throws: the catch of tickInner, which keeps what the tick did
\* so far and skips the expiry sweep.
TickFault ==
  /\ ChainMayFail
  /\ \/ booted /\ MutexFree /\ ~frozen
     \/ tick.pc \in {"scan", "parity"} /\ booted
  /\ signingEnabled' = FALSE
  /\ tick' = IdleTick
  /\ UNCHANGED <<chainVars, booted, replicaVars, baselineByRoot, freezeVars, job,
                 receiptVars, issued, crashes>>

(***************************************************************************)
(* boot() and restart                                                      *)
(***************************************************************************)
\* What the process holds before boot() has run: nothing is persisted.
EmptyMemory ==
  /\ booted = FALSE
  /\ liveRoot = LaunchRoot
  /\ transitions = 0
  /\ snapshots = <<>>
  /\ stateByRoot = {LaunchRoot}
  /\ baselineByRoot = [r \in Roots |-> IF r = LaunchRoot THEN LaunchBaseline ELSE 0]
  /\ lastScanned = 0
  /\ signingEnabled = FALSE
  /\ frozen = FALSE /\ freezeGen = 0 /\ freezing = FALSE
  /\ tick = IdleTick
  /\ job = NoJob
  /\ reservation = [m \in Miners |-> NoReservation]
  /\ pending = [h \in SignedHashes |-> NoPending]
  /\ dedup = [p \in Patches |-> 0]
  /\ cache = [k \in Hashes |-> NoEnvelope]

\* The process dies and is started again.
LoseMemory ==
  /\ booted' = FALSE
  /\ liveRoot' = LaunchRoot
  /\ transitions' = 0
  /\ snapshots' = <<>>
  /\ stateByRoot' = {LaunchRoot}
  /\ baselineByRoot' = [r \in Roots |-> IF r = LaunchRoot THEN LaunchBaseline ELSE 0]
  /\ lastScanned' = 0
  /\ signingEnabled' = FALSE
  /\ frozen' = FALSE /\ freezeGen' = 0 /\ freezing' = FALSE
  /\ tick' = IdleTick
  /\ job' = NoJob
  /\ reservation' = [m \in Miners |-> NoReservation]
  /\ pending' = [h \in SignedHashes |-> NoPending]
  /\ dedup' = [p \in Patches |-> 0]
  /\ cache' = [k \in Hashes |-> NoEnvelope]

\* The gates on the epoch, then the event read: through head - depth, but
\* always including block ReplayFrom.
BootScan ==
  /\ ~booted /\ tick.pc = "idle" /\ epochOpen /\ Len(chain) >= ReplayFrom
  /\ tick' = [pc |-> "apply", at |-> ReplayFrom,
              safe |-> IF SafeHead > ReplayFrom THEN SafeHead ELSE ReplayFrom]
  /\ UNCHANGED <<chainVars, booted, replicaVars, baselineByRoot, signingEnabled,
                 freezeVars, job, receiptVars, issued, crashes>>

\* Parity, or a registry that is ahead of the confirmed replay, lets the core
\* serve; anything else makes boot() throw.
BootServe ==
  /\ ~booted /\ tick.pc = "parity"
  /\ InParity \/ transitions < TransitionCount(Len(chain))
  /\ booted' = TRUE
  /\ signingEnabled' = InParity
  /\ tick' = IdleTick
  /\ UNCHANGED <<chainVars, replicaVars, baselineByRoot, freezeVars, job, receiptVars,
                 issued, crashes>>

BootFails ==
  /\ ~booted
  /\ \/ /\ tick.pc = "parity"
        /\ ~InParity /\ transitions >= TransitionCount(Len(chain))
     \/ tick.pc = "apply" /\ BatchLeft # {} /\ ~EventAccepted(Earliest(BatchLeft))
  /\ LoseMemory
  /\ UNCHANGED <<chainVars, issued, crashes>>

Crash ==
  /\ booted /\ Interruptible /\ crashes < MaxCrashes
  /\ crashes' = crashes + 1
  /\ LoseMemory
  /\ UNCHANGED <<chainVars, issued>>

(***************************************************************************)
(* submit(): prepare, score, finish                                        *)
(***************************************************************************)
\* prepareSubmitEvaluation up to its await of the epoch check.
BeginSubmit(m, p) ==
  /\ booted /\ MutexFree /\ job.pc = "none"
  /\ GcPending(pending)
  /\ job' = IF frozen THEN NoJob ELSE [pc |-> "epochCheck", miner |-> m, patch |-> p, at |-> now]
  /\ UNCHANGED <<chainVars, booted, replicaVars, baselineByRoot, signingEnabled,
                 freezeVars, tick, issued, crashes>>

\* The rest of prepareSubmitEvaluation, in its order of rejections.
PrepareRefused ==
  \/ ~epochOpen
  \/ ~signingEnabled
  \/ baselineByRoot[liveRoot] = 0
  \/ ParentOf[job.patch] # liveRoot
  \/ dedup[job.patch] # 0

PrepareSubmit ==
  /\ job.pc = "epochCheck"
  /\ signingEnabled' = (signingEnabled /\ epochOpen)
  /\ job' = IF PrepareRefused THEN NoJob
            ELSE [pc |-> "scoring", miner |-> job.miner, patch |-> job.patch,
                  at |-> job.at, gen |-> freezeGen]
  /\ UNCHANGED <<chainVars, booted, replicaVars, baselineByRoot, freezeVars, tick,
                 receiptVars, issued, crashes>>

\* A chain read throws.  The epoch checks answer by disabling signing; the
\* counters read lets the exception out of submit().
SubmitFault ==
  /\ ChainMayFail
  /\ \/ job.pc = "epochCheck" /\ signingEnabled' = FALSE
     \/ job.pc = "counters" /\ signingEnabled' \in {signingEnabled, FALSE}
  /\ job' = NoJob
  /\ UNCHANGED <<chainVars, booted, replicaVars, baselineByRoot, freezeVars, tick,
                 receiptVars, issued, crashes>>

\* The evaluator throws, or returns a reject or a result without a valid
\* dual-pack proof.
EvaluatorRefuses ==
  /\ job.pc = "scoring" /\ Interruptible
  /\ job' = NoJob
  /\ UNCHANGED <<chainVars, booted, replicaVars, baselineByRoot, signingEnabled,
                 freezeVars, tick, receiptVars, issued, crashes>>

\* Mutant: the live root is not compared again after scoring.
FinishRefusedAnyRoot ==
  \/ dedup[job.patch] # 0
  \/ frozen \/ job.gen # freezeGen
  \/ baselineByRoot[liveRoot] = 0

\* finishSubmitAfterEvaluation up to its first await.
FinishRefused ==
  \/ dedup[job.patch] # 0
  \/ frozen \/ job.gen # freezeGen
  \/ liveRoot # ParentOf[job.patch]
  \/ baselineByRoot[liveRoot] = 0

FinishSubmit(kind, s) ==
  /\ job.pc = "scoring" /\ MutexFree
  /\ job' = IF FinishRefused THEN NoJob
            ELSE [pc |-> "counters", miner |-> job.miner, patch |-> job.patch,
                  at |-> job.at, kind |-> kind, score |-> s]
  /\ UNCHANGED <<chainVars, booted, replicaVars, baselineByRoot, signingEnabled,
                 freezeVars, tick, receiptVars, issued, crashes>>

\* The (solveIndex, prevReceiptHash) the next receipt of this miner must use:
\* the contract's, once it has caught up with the reservation.
Landed(m) == NextIndex(m) >= reservation[m].next

InFlight(m) == IF Landed(m) THEN 0 ELSE reservation[m].next - NextIndex(m)

\* Mutant: the reservation is ignored.
SolveIndexOnChain(m) == NextIndex(m)

SolveIndex(m) == IF Landed(m) THEN NextIndex(m) ELSE reservation[m].next

PrevReceipt(m) == IF Landed(m) THEN LastReceiptId(m) ELSE reservation[m].last

\* A receipt in flight whose on-chain hash the signer did not return.
ChainBusy(m) == ~Landed(m) /\ reservation[m].last = 0

\* Mutant: the cap counts only what has landed.
OverCapOnChain(m) == job.kind = "screener" /\ ScreenersThisEpoch(m) >= Cap

OverCap(m) == job.kind = "screener" /\ ScreenersThisEpoch(m) + InFlight(m) >= Cap

\* The epoch re-check and the counters read.  A reservation the chain has
\* caught up with is dropped at once, before the remaining rejections.
ReadCounters ==
  /\ job.pc = "counters"
  /\ LET m == job.miner IN
     /\ reservation' = IF epochOpen /\ Landed(m)
                       THEN [reservation EXCEPT ![m] = NoReservation] ELSE reservation
     /\ job' = IF ~epochOpen \/ ChainBusy(m) \/ OverCap(m) THEN NoJob
               ELSE [pc |-> "sign", miner |-> m, patch |-> job.patch, at |-> job.at,
                     kind |-> job.kind, score |-> job.score,
                     idx |-> SolveIndex(m), prev |-> PrevReceipt(m)]
  /\ UNCHANGED <<chainVars, booted, replicaVars, baselineByRoot, signingEnabled,
                 freezeVars, tick, pending, dedup, cache, issued, crashes>>

\* Mutant: a signer failure leaves the mutex held.
SigningFailsHoldingMutex ==
  /\ job.pc = "sign" /\ Interruptible
  /\ UNCHANGED vars

\* The result is below the live threshold, its rewrite is malformed, a chain
\* read throws, or the signer fails: nothing is stored.
SigningFails ==
  /\ job.pc = "sign" /\ Interruptible
  /\ job' = NoJob
  /\ UNCHANGED <<chainVars, booted, replicaVars, baselineByRoot, signingEnabled,
                 freezeVars, tick, receiptVars, issued, crashes>>

SignReceipt ==
  /\ job.pc = "sign"
  /\ Cardinality(issued) < MaxReceipts
  /\ LET id == Cardinality(issued) + 1
         exp == job.at + Ttl
         hash == IF job.kind = "advance" THEN <<job.patch, job.score>>
                 ELSE OriginalHash(job.patch)
         env == [hash |-> hash, exp |-> exp]
     IN  /\ issued' = issued \cup
              {[kind |-> job.kind, id |-> id, miner |-> job.miner, idx |-> job.idx,
                prev |-> job.prev, patch |-> job.patch, expires |-> exp,
                score |-> IF job.kind = "advance" THEN job.score ELSE 0]}
         /\ reservation' = [reservation EXCEPT ![job.miner] =
              [next |-> job.idx + 1, last |-> IF SignerGivesHash THEN id ELSE 0,
               exp |-> exp]]
         /\ dedup' = [dedup EXCEPT ![job.patch] = exp]
         /\ pending' = IF job.kind = "advance"
                       THEN [pending EXCEPT ![hash] = [st |-> "pending", exp |-> exp]]
                       ELSE pending
         /\ cache' = [cache EXCEPT ![hash] = env, ![OriginalHash(job.patch)] = env]
  /\ job' = NoJob
  /\ UNCHANGED <<chainVars, booted, replicaVars, baselineByRoot, signingEnabled,
                 freezeVars, tick, crashes>>

(***************************************************************************)
(* Handlers that do not take the mutex                                     *)
(***************************************************************************)
\* freeze() raises the flag at once and returns when it gets the mutex.
Freeze ==
  /\ booted /\ Interruptible /\ freezeGen < MaxFreezes
  /\ frozen' = TRUE
  /\ freezeGen' = freezeGen + 1
  /\ freezing' = TRUE
  /\ UNCHANGED <<chainVars, booted, replicaVars, baselineByRoot, signingEnabled, tick,
                 job, receiptVars, issued, crashes>>

\* Mutant: freeze() does not wait for the mutex.
FreezeReturnsAtOnce ==
  /\ freezing
  /\ freezing' = FALSE
  /\ UNCHANGED <<chainVars, booted, replicaVars, baselineByRoot, signingEnabled, frozen,
                 freezeGen, tick, job, receiptVars, issued, crashes>>

FreezeReturns ==
  /\ freezing /\ MutexFree
  /\ freezing' = FALSE
  /\ UNCHANGED <<chainVars, booted, replicaVars, baselineByRoot, signingEnabled, frozen,
                 freezeGen, tick, job, receiptVars, issued, crashes>>

Unfreeze ==
  /\ frozen /\ Interruptible
  /\ frozen' = FALSE
  /\ UNCHANGED <<chainVars, booted, replicaVars, baselineByRoot, signingEnabled,
                 freezeGen, freezing, tick, job, receiptVars, issued, crashes>>

SetRecomputedBaseline(r, b) ==
  /\ booted /\ Interruptible
  /\ baselineByRoot' = [baselineByRoot EXCEPT ![r] = b]
  /\ UNCHANGED <<chainVars, booted, replicaVars, signingEnabled, freezeVars, tick, job,
                 receiptVars, issued, crashes>>

InvalidateBaselines ==
  /\ Rebaselined # {}
  /\ booted /\ Interruptible
  /\ baselineByRoot' = [r \in Roots |-> 0]
  /\ UNCHANGED <<chainVars, booted, replicaVars, signingEnabled, freezeVars, tick, job,
                 receiptVars, issued, crashes>>

\* getReceiptByHash sweeps the expired receipts before it answers.
LookupReceipt ==
  /\ booted /\ Interruptible
  /\ GcPending(pending)
  /\ UNCHANGED <<chainVars, booted, replicaVars, baselineByRoot, signingEnabled,
                 freezeVars, tick, job, issued, crashes>>

\* getStatus re-checks the epoch.
GetStatus ==
  /\ booted /\ Interruptible /\ ~epochOpen
  /\ signingEnabled' = FALSE
  /\ UNCHANGED <<chainVars, booted, replicaVars, baselineByRoot, freezeVars, tick, job,
                 receiptVars, issued, crashes>>

(***************************************************************************)
(* The specification                                                       *)
(***************************************************************************)
coreVars == <<booted, replicaVars, baselineByRoot, signingEnabled, freezeVars, tick, job,
              receiptVars, issued, crashes>>

MineEmpty == Interruptible /\ Mine(NoReceipt) /\ UNCHANGED coreVars

LandReceipt ==
  /\ Interruptible
  /\ \E r \in issued : CanLand(r) /\ Mine(r)
  /\ UNCHANGED coreVars

LandForeign ==
  /\ Interruptible
  /\ \E p \in ForeignPatches, s \in Scores :
       CanLand(ForeignAdvance(p, s)) /\ Mine(ForeignAdvance(p, s))
  /\ UNCHANGED coreVars

ChainReorg ==
  /\ Interruptible
  /\ \E keep \in 0..Len(chain) : keep < Len(chain) /\ Reorg(keep)
  /\ UNCHANGED coreVars

EpochRollover ==
  /\ EpochMayClose /\ Interruptible
  /\ CloseEpoch
  /\ UNCHANGED coreVars

Init ==
  /\ ChainInit
  /\ EmptyMemory
  /\ issued = {}
  /\ crashes = 0

Environment == MineEmpty \/ LandReceipt \/ LandForeign \/ ChainReorg \/ EpochRollover

TickStep ==
  \/ TickEpochClosed \/ TickStart \/ TickScan \/ ApplyChainEvent \/ RejectChainEvent
  \/ ScanDone \/ TickParity

BootStep == BootScan \/ BootServe \/ BootFails

SubmitStep ==
  \/ PrepareSubmit \/ SubmitFault
  \/ EvaluatorRefuses
  \/ \E kind \in EvalKinds, s \in Scores : FinishSubmit(kind, s)
  \/ ReadCounters \/ SigningFails \/ SignReceipt

Next ==
  \/ Environment
  \/ TickStep \/ TickFault
  \/ BootStep \/ Crash
  \/ \E m \in Miners, p \in Patches : BeginSubmit(m, p)
  \/ SubmitStep
  \/ Freeze \/ FreezeReturns \/ Unfreeze
  \/ \E r \in Rebaselined, b \in Scores : SetRecomputedBaseline(r, b)
  \/ InvalidateBaselines
  \/ LookupReceipt \/ GetStatus

Spec == Init /\ [][Next]_vars

\* The watcher interval fires again and again, chain reads that are retried
\* eventually succeed, the evaluator and the signer answer or time out, and the
\* FIFO mutex reaches every waiter.  Miners, the chain and the cutover
\* orchestrator owe nothing.
Fairness ==
  /\ WF_vars(BootStep)
  /\ WF_vars(TickEpochClosed) /\ SF_vars(TickStart) /\ SF_vars(TickScan)
  /\ WF_vars(ApplyChainEvent) /\ WF_vars(RejectChainEvent) /\ WF_vars(ScanDone)
  /\ SF_vars(TickParity)
  /\ WF_vars(SubmitStep)
  /\ SF_vars(FreezeReturns)

FairSpec == Spec /\ Fairness

(***************************************************************************)
(* Properties                                                              *)
(***************************************************************************)
\* Every variable has its type.
TypeOK ==
  /\ ChainTypeOK
  /\ booted \in BOOLEAN
  /\ liveRoot \in Roots
  /\ transitions \in Nat
  /\ snapshots \in Seq(Snapshot)
  /\ stateByRoot \subseteq Roots
  /\ baselineByRoot \in [Roots -> Nat]
  /\ lastScanned \in Int
  /\ signingEnabled \in BOOLEAN
  /\ frozen \in BOOLEAN /\ freezeGen \in Nat /\ freezing \in BOOLEAN
  /\ tick \in [pc: {"idle", "scan", "apply", "parity"}, safe: Int, at: Int]
  /\ job \in {NoJob}
       \cup [pc: {"epochCheck"}, miner: Miners, patch: Patches, at: Nat]
       \cup [pc: {"scoring"}, miner: Miners, patch: Patches, at: Nat, gen: Nat]
       \cup [pc: {"counters"}, miner: Miners, patch: Patches, at: Nat,
             kind: EvalKinds, score: Scores]
       \cup [pc: {"sign"}, miner: Miners, patch: Patches, at: Nat,
             kind: EvalKinds, score: Scores, idx: Nat, prev: Nat]
  /\ reservation \in [Miners -> Reservation]
  /\ pending \in [SignedHashes -> PendingRecord]
  /\ dedup \in [Patches -> Nat]
  /\ cache \in [Hashes -> Envelope \cup {NoEnvelope}]
  /\ issued \subseteq Receipt
  /\ crashes \in Nat

\* The snapshots reach back to the launch root.
NothingEvicted == transitions = Len(snapshots)

\* The replica is one unbroken line of advances from the pinned launch root to
\* liveRoot, whatever reorganisations, failed scans and restarts came before
\* (applyChainEvent and handleReorg edit liveRoot, lastTransitionIndex,
\* snapshots and stateByRoot separately).
ReplicaLinked ==
  /\ liveRoot = IF snapshots = <<>> THEN LaunchRoot ELSE Last(snapshots).root
  /\ snapshots = <<>> => transitions = 0
  /\ \A i \in 2..Len(snapshots) : snapshots[i].parent = snapshots[i - 1].root
  /\ RootsOf(snapshots) \subseteq stateByRoot
  /\ NothingEvicted =>
       /\ snapshots # <<>> => snapshots[1].parent = LaunchRoot
       /\ stateByRoot = RootsOf(snapshots)

\* A receipt the lookup would hand out as broadcastable ("pending") pins the
\* live root: no advance or rollback leaves a pending receipt behind that can
\* no longer land.  (Once a snapshot has been evicted a rollback can bring a
\* stale receipt on the launch root back.)
PendingOnLiveRoot ==
  NothingEvicted =>
    \A h \in SignedHashes : pending[h].st = "pending" => ParentOf[h[1]] = liveRoot

\* A receipt is reported as confirmedOnChain only while the replica holds the
\* advance it signed, across rollbacks and replays.
ConfirmedOnReplica ==
  NothingEvicted =>
    \A h \in SignedHashes :
      pending[h].st = "confirmed" => \E i \in DOMAIN snapshots : snapshots[i].hash = h

\* Header 6: while a state advance is tracked, its envelope is found under the
\* signed hash, and one is found under the hash of the canonical bytes
\* (scoreDelta zeroed), through sweeps, rollbacks and later receipts.
DualHashLookup ==
  \A h \in SignedHashes :
    pending[h].st # "none" =>
      /\ cache[h].hash = h
      /\ cache[OriginalHash(h[1])].hash # <<>>

\* At most one unexpired receipt for a (parent, patch), however evaluation,
\* expiry sweeps and confirmations interleave (submitDedup).
OneLiveReceiptPerPatch ==
  \A r1, r2 \in issued :
    r1.patch = r2.patch /\ r1.expires > now /\ r2.expires > now => r1 = r2

\* Header 9: two unexpired receipts never carry the same solve index of a miner.
NoCounterDoubleSpend ==
  \A r1, r2 \in issued :
    /\ r1.miner = r2.miner /\ r1.idx = r2.idx
    /\ r1.expires > now /\ r2.expires > now
    => r1 = r2

\* A miner's screener passes on chain stay within perMinerScreenerCap though
\* several are signed before the first of them lands.
ScreenerCapRespected == \A m \in Miners : ScreenersThisEpoch(m) <= Cap

\* Header 9: whatever ticks ran while the scorer did, a receipt is signed only
\* for the root that is live when it is signed.
SignedAtLiveRoot ==
  [][\A r \in issued' \ issued : ParentOf[r.patch] = liveRoot]_vars

\* Once freeze() has returned, and until unfreeze(), nothing is signed, the
\* replica does not move and signing is not enabled.
FrozenQuiesces ==
  [][booted' /\ frozen /\ ~freezing
     => UNCHANGED <<issued, replicaVars>> /\ (signingEnabled' => signingEnabled)]_vars

\* While no reorganisation is deeper than confirmationDepth, what the replica
\* holds is what the registry holds as of lastScannedBlock.
ConfirmedPrefix ==
  booted /\ tick.pc # "apply" =>
    /\ lastScanned <= Len(chain)
    /\ transitions = TransitionCount(lastScanned)
    /\ liveRoot = RegistryRoot(lastScanned)

\* Once the chain has stopped moving the replica covers every confirmed block
\* and agrees with the registry there, through restarts, a reorganisation and
\* failing chain reads.
CatchesUp ==
  []epochOpen => <>[](/\ booted /\ lastScanned >= SafeHead
                      /\ transitions = TransitionCount(lastScanned)
                      /\ liveRoot = RegistryRoot(lastScanned))

\* Every submit that enters the pipeline leaves it.
SubmitSettles == job.pc # "none" ~> job.pc = "none"

\* A receipt past its window stops being reported as pending, even when reads
\* keep failing and nobody submits or looks it up.
ExpiredPendingSwept ==
  \A h \in SignedHashes :
    pending[h].st = "pending" /\ pending[h].exp <= now ~> pending[h].st # "pending"

\* After V4 rolls over, signing ends for good: no tick that began before the
\* rollover, and no later one, leaves it enabled.
RolloverStopsSigning == ~epochOpen ~> []~signingEnabled

\* Header 8: a receipt is signed only while signing is enabled.
SignedWhileEnabled == [][issued' # issued => signingEnabled]_vars

\* Header 10: a confirmed advance of a receipt this core signed moves the
\* baseline of the new root to the receipt's scoreAfterPpm.
SignedAdvanceMovesBaseline ==
  [][\A r \in issued :
       ApplyChainEvent /\ Event(Earliest(BatchLeft)) = r
         => baselineByRoot'[RootAfter[r.patch]] = r.score]_vars

=============================================================================

---------------------------- MODULE EvalAttempts ----------------------------
(***************************************************************************)
(* EvalAttempts: scorePatch of the production evaluator, the per-patch     *)
(* orchestrator below it and the durable dedup store beside it             *)
(* (src/coordinator/production-evaluator.ts, per-patch-evaluator.ts), as   *)
(* the coordinator's serial submit queue drives them: one call at a time,  *)
(* which may throw at any await or die with the process, while the chain   *)
(* the seed is drawn from grows and reorganises.                           *)
(*                                                                         *)
(* An action is the code between two awaits.  The store reads that open a  *)
(* call are one action: nothing else writes the store.  A dedup key        *)
(* (epoch, parent root, patch hash) is the patch, whose bytes pin the      *)
(* parent.  A verdict is free at every evaluation: the threshold it is     *)
(* measured against moves between calls.                                   *)
(***************************************************************************)
EXTENDS Naturals, Sequences, FiniteSets

CONSTANTS
  Miners,
  Patches,     \* patches pinned to the live parent root
  Offset,      \* targetBlockOffset
  PerMinerCap, \* perMinerCap: admissions per miner and epoch
  MaxHeight,   \* bound: height of the chain
  MaxForks,    \* bound: reorganisations
  MaxCrashes   \* bound: process restarts

ASSUME AttemptsAssumption ==
  /\ IsFiniteSet(Patches)
  /\ Offset \in Nat \ {0}
  /\ PerMinerCap \in Nat \ {0}
  /\ MaxHeight \in Nat /\ MaxForks \in Nat /\ MaxCrashes \in Nat

VARIABLES
  blocks,    \* block number -> the fork it was mined on; both are its hash
  forks,     \* reorganisations so far
  attempts,  \* the store's attempt rows: patch -> [st, seed, miner]
  records,   \* the store's dedup records: patch -> outcome, "none" if absent
  published, \* artifacts handed to publishArtifact
  call,      \* the running scorePatch
  answer,    \* the answer the latest finished call gave
  held,      \* the core's in-memory submitDedup keys
  expired,   \* patches whose signed receipt has expired
  credits,   \* the accepted answers the core signed, in order
  scored,    \* history: patch -> the seeds it was ever scored under
  arrival,   \* history: the hashes that existed when the running call arrived
  crashes

chainVars == <<blocks, forks>>
storeVars == <<attempts, records>>
coreVars  == <<held, expired, credits>>
vars == <<chainVars, storeVars, published, call, answer, coreVars, scored, arrival, crashes>>

Accepted == {"screener_pass", "state_advance"}
Outcomes == Accepted \cup {"reject"}

\* A seed context: the block the patch was received at and the target block
\* with its hash; gate and confirm seeds are functions of it and the patch.
Seed == [received: Nat, target: Nat, fork: Nat]
NoSeed == [received |-> 0, target |-> 0, fork |-> 0]

NoAttempt == [st |-> "none", seed |-> NoSeed, miner |-> "nobody"]

Idle == [pc |-> "idle"]
NoAnswer == [code |-> "none"]

Hashes == {<<i, blocks[i]>> : i \in DOMAIN blocks}

(***************************************************************************)
(* The dedup store                                                         *)
(***************************************************************************)
\* Mutant: the charge counts once the result is known.
AdmissionsSettled(m) ==
  Cardinality({p \in Patches : attempts[p].st \in {"rejected", "accepted"}
                               /\ attempts[p].miner = m})

\* minerAdmissions: derived from the rows, so pin and charge are one write.
Admissions(m) ==
  Cardinality({p \in Patches : attempts[p].st # "none" /\ attempts[p].miner = m})

\* recordSeedDrawnAndAdmission leaves an existing row alone.
RecordSeedDrawn(p, m, seed) ==
  attempts' = IF attempts[p].st # "none" THEN attempts
              ELSE [attempts EXCEPT ![p] = [st |-> "drawn", seed |-> seed, miner |-> m]]

Completed(p) == records[p] # "none"

\* Mutant: a row is only in flight until its outcome is written.
DrawnByOther(m, p) == attempts[p].st = "drawn" /\ attempts[p].miner # m

HeldByOther(m, p) == attempts[p].st # "none" /\ attempts[p].miner # m

(***************************************************************************)
(* scorePatch up to the draw                                               *)
(***************************************************************************)
Answer(m, p, code) ==
  /\ call' = Idle
  /\ answer' = [code |-> code, miner |-> m, patch |-> p]

\* The core lets a submit through when its own dedup key is free.
Arrives(m, p) ==
  /\ call.pc = "idle" /\ p \notin held
  /\ arrival' = Hashes
  /\ UNCHANGED <<chainVars, storeVars, published, coreVars, scored, crashes>>

DuplicateSubmission(m, p) ==
  /\ Arrives(m, p)
  /\ Completed(p)
  /\ Answer(m, p, "duplicate_submission")

DuplicateInFlight(m, p) ==
  /\ Arrives(m, p)
  /\ ~Completed(p) /\ HeldByOther(m, p)
  /\ Answer(m, p, "duplicate_in_flight")

\* Mutant: the pinned seed is not looked up, and a retry draws again.
RetryDrawing(m, p) ==
  /\ Arrives(m, p)
  /\ ~Completed(p) /\ ~HeldByOther(m, p)
  /\ attempts[p].st # "none"
  /\ call' = [pc |-> "head", miner |-> m, patch |-> p]
  /\ UNCHANGED answer

\* A row of this miner, drawn or settled without a record: its seed is scored
\* again and the cap is not consulted.
Retry(m, p) ==
  /\ Arrives(m, p)
  /\ ~Completed(p) /\ ~HeldByOther(m, p)
  /\ attempts[p].st # "none"
  /\ call' = [pc |-> "gate", miner |-> m, patch |-> p, seed |-> attempts[p].seed]
  /\ UNCHANGED answer

OverCap(m, p) ==
  /\ Arrives(m, p)
  /\ ~Completed(p) /\ attempts[p].st = "none"
  /\ Admissions(m) >= PerMinerCap
  /\ Answer(m, p, "per-miner-cap-reached")

FirstDraw(m, p) ==
  /\ Arrives(m, p)
  /\ ~Completed(p) /\ attempts[p].st = "none"
  /\ Admissions(m) < PerMinerCap
  /\ call' = [pc |-> "head", miner |-> m, patch |-> p]
  /\ UNCHANGED answer

(***************************************************************************)
(* runPerPatchEvaluation: the draw                                         *)
(***************************************************************************)
\* Mutant: the seed comes from the block the patch arrived at.
TargetNow(received) == received

Target(received) == received + Offset

ReadHead ==
  /\ call.pc = "head"
  /\ call' = [pc |-> "wait", miner |-> call.miner, patch |-> call.patch,
              received |-> Len(blocks)]
  /\ UNCHANGED <<chainVars, storeVars, published, answer, coreVars, scored, arrival, crashes>>

\* waitForBlock: polls the head until the target block is there.
TargetMined ==
  /\ call.pc = "wait"
  /\ Target(call.received) \in DOMAIN blocks
  /\ call' = [pc |-> "pin", miner |-> call.miner, patch |-> call.patch,
              seed |-> [received |-> call.received, target |-> Target(call.received),
                        fork |-> blocks[Target(call.received)]]]
  /\ UNCHANGED <<chainVars, storeVars, published, answer, coreVars, scored, arrival, crashes>>

\* onSeedDerived: pinned and charged in one durable write, before any scoring.
Pin ==
  /\ call.pc = "pin"
  /\ RecordSeedDrawn(call.patch, call.miner, call.seed)
  /\ call' = [call EXCEPT !.pc = "gate"]
  /\ UNCHANGED <<chainVars, records, published, answer, coreVars, scored, arrival, crashes>>

(***************************************************************************)
(* Scoring and recording                                                   *)
(***************************************************************************)
Score == scored' = [scored EXCEPT ![call.patch] = @ \cup {call.seed}]

Verdict(pc, outcome) ==
  call' = [pc |-> pc, miner |-> call.miner, patch |-> call.patch,
           seed |-> call.seed, outcome |-> outcome]

\* The confirm pack is scored only after the gate pack passed.
Gate ==
  /\ call.pc = "gate"
  /\ Score
  /\ \/ Verdict("outcome", "reject")
     \/ call' = [call EXCEPT !.pc = "confirm"]
  /\ UNCHANGED <<chainVars, storeVars, published, answer, coreVars, arrival, crashes>>

\* Mutant: the outcome is recorded without publishing.
ConfirmUnpublished ==
  /\ call.pc = "confirm"
  /\ Score
  /\ \E outcome \in Outcomes : Verdict("outcome", outcome)
  /\ UNCHANGED <<chainVars, storeVars, published, answer, coreVars, arrival, crashes>>

Confirm ==
  /\ call.pc = "confirm"
  /\ Score
  /\ \/ Verdict("outcome", "reject")
     \/ \E outcome \in Accepted : Verdict("publish", outcome)
  /\ UNCHANGED <<chainVars, storeVars, published, answer, coreVars, arrival, crashes>>

PublishArtifact ==
  /\ call.pc = "publish"
  /\ published' = published \cup
       {[patch |-> call.patch, outcome |-> call.outcome, seed |-> call.seed]}
  /\ call' = [call EXCEPT !.pc = "outcome"]
  /\ UNCHANGED <<chainVars, storeVars, answer, coreVars, scored, arrival, crashes>>

\* Mutant: the row stays "drawn".
RecordOutcomeForgetting ==
  /\ call.pc = "outcome"
  /\ call' = [call EXCEPT !.pc = "put"]
  /\ UNCHANGED <<chainVars, storeVars, published, answer, coreVars, scored, arrival, crashes>>

\* recordAttemptOutcome keeps the seed and the miner of the row.
RecordOutcome ==
  /\ call.pc = "outcome"
  /\ attempts' = [attempts EXCEPT ![call.patch].st =
                    IF call.outcome = "reject" THEN "rejected" ELSE "accepted"]
  /\ call' = [call EXCEPT !.pc = "put"]
  /\ UNCHANGED <<chainVars, records, published, answer, coreVars, scored, arrival, crashes>>

PutRecord ==
  /\ call.pc = "put"
  /\ records' = [records EXCEPT ![call.patch] = call.outcome]
  /\ \/ /\ call.outcome = "reject"
        /\ Answer(call.miner, call.patch, "reject")
     \/ /\ call.outcome \in Accepted
        /\ call' = [call EXCEPT !.pc = "finish"]
        /\ UNCHANGED answer
  /\ UNCHANGED <<chainVars, attempts, published, coreVars, scored, arrival, crashes>>

(***************************************************************************)
(* The coordinator core with the answer                                    *)
(***************************************************************************)
SignReceipt ==
  /\ call.pc = "finish"
  /\ held' = held \cup {call.patch}
  /\ expired' = expired \ {call.patch}
  /\ credits' = Append(credits, [patch |-> call.patch, miner |-> call.miner])
  /\ Answer(call.miner, call.patch, call.outcome)
  /\ UNCHANGED <<chainVars, storeVars, published, scored, arrival, crashes>>

\* A failed read, model run, publication, store write or signature, a stale
\* parent, a freeze, a busy receipt chain: the call ends where it stands.
CallFails ==
  /\ call.pc # "idle"
  /\ Answer(call.miner, call.patch, "failed")
  /\ UNCHANGED <<chainVars, storeVars, published, coreVars, scored, arrival, crashes>>

\* gcPending: the receipt of a held patch expires, its dedup key is released.
ReceiptExpires ==
  /\ \E p \in held :
       /\ held' = held \ {p}
       /\ expired' = expired \cup {p}
  /\ UNCHANGED <<chainVars, storeVars, published, call, answer, credits, scored, arrival, crashes>>

\* The running call and the core's memory are lost; the store is durable.
Crash ==
  /\ crashes < MaxCrashes
  /\ crashes' = crashes + 1
  /\ call' = Idle
  /\ held' = {}
  /\ UNCHANGED <<chainVars, storeVars, published, answer, expired, credits, scored, arrival>>

(***************************************************************************)
(* The chain the seed is drawn from                                        *)
(***************************************************************************)
NewBlock ==
  /\ Len(blocks) < MaxHeight
  /\ blocks' = Append(blocks, forks)
  /\ UNCHANGED <<forks, storeVars, published, call, answer, coreVars, scored, arrival, crashes>>

ChainReorg ==
  /\ forks < MaxForks
  /\ forks' = forks + 1
  /\ \E keep \in 0..Len(blocks) :
       keep < Len(blocks) /\ blocks' = SubSeq(blocks, 1, keep)
  /\ UNCHANGED <<storeVars, published, call, answer, coreVars, scored, arrival, crashes>>

Init ==
  /\ blocks = <<0>> /\ forks = 0
  /\ attempts = [p \in Patches |-> NoAttempt]
  /\ records = [p \in Patches |-> "none"]
  /\ published = {}
  /\ call = Idle /\ answer = NoAnswer
  /\ held = {} /\ expired = {} /\ credits = <<>>
  /\ scored = [p \in Patches |-> {}]
  /\ arrival = {}
  /\ crashes = 0

Begin(m, p) ==
  \/ DuplicateSubmission(m, p) \/ DuplicateInFlight(m, p)
  \/ Retry(m, p) \/ OverCap(m, p) \/ FirstDraw(m, p)

Evaluate == ReadHead \/ TargetMined \/ Pin \/ Gate \/ Confirm

Settle == PublishArtifact \/ RecordOutcome \/ PutRecord \/ SignReceipt

Next ==
  \/ \E m \in Miners, p \in Patches : Begin(m, p)
  \/ Evaluate \/ Settle
  \/ CallFails \/ ReceiptExpires \/ Crash
  \/ NewBlock \/ ChainReorg

Spec == Init /\ [][Next]_vars

(***************************************************************************)
(* Properties                                                              *)
(***************************************************************************)
TypeOK ==
  /\ blocks \in Seq(Nat) /\ forks \in Nat
  /\ attempts \in [Patches -> {NoAttempt} \cup
       [st: {"drawn", "rejected", "accepted"}, seed: Seed, miner: Miners]]
  /\ records \in [Patches -> Outcomes \cup {"none"}]
  /\ published \subseteq [patch: Patches, outcome: Accepted, seed: Seed]
  /\ call \in {Idle}
       \cup [pc: {"head"}, miner: Miners, patch: Patches]
       \cup [pc: {"wait"}, miner: Miners, patch: Patches, received: Nat]
       \cup [pc: {"pin", "gate", "confirm"}, miner: Miners, patch: Patches, seed: Seed]
       \cup [pc: {"outcome", "put"}, miner: Miners, patch: Patches, seed: Seed,
             outcome: Outcomes]
       \cup [pc: {"publish", "finish"}, miner: Miners, patch: Patches, seed: Seed,
             outcome: Accepted]
  /\ held \subseteq Patches /\ expired \subseteq Patches
  /\ credits \in Seq([patch: Patches, miner: Miners])
  /\ scored \in [Patches -> SUBSET Seed]
  /\ crashes \in Nat

\* The seed of a patch is drawn once: whatever fails, restarts or reorganises,
\* every evaluation of the same bytes sees the same hidden packs
\* (recordSeedDrawnAndAdmission before any scoring, reuse on retry).
OneSeedPerPatch ==
  \A p \in Patches : \A s, t \in scored[p] : s = t

\* Admissions that reached the scorer stay within perMinerCap, and each is
\* charged to the miner who drew it, across failures and restarts.
ScoringsWithinCap ==
  \A m \in Miners :
    Cardinality({p \in Patches : scored[p] # {} /\ attempts[p].miner = m}) <= PerMinerCap

\* The block whose hash seeds an evaluation did not exist, on any fork, when
\* the patch that first drew it arrived.
SeedUnknownAtArrival ==
  [][\A p \in Patches :
       attempts'[p].st = "drawn" /\ attempts[p].st = "none"
         => <<attempts'[p].seed.target, attempts'[p].seed.fork>> \notin arrival]_vars

\* A patch is credited once, to the miner who drew its seed, although another
\* miner submits the same bytes, calls fail and the core forgets its receipts.
OneCreditPerPatch ==
  /\ \A i, j \in DOMAIN credits : credits[i].patch = credits[j].patch => i = j
  /\ \A i \in DOMAIN credits : attempts[credits[i].patch].miner = credits[i].miner

\* The two writes that settle an evaluation agree: a dedup record implies a
\* settled attempt row of the same outcome.
RecordMatchesAttempt ==
  \A p \in Patches :
    /\ records[p] = "reject" => attempts[p].st = "rejected"
    /\ records[p] \in Accepted => attempts[p].st = "accepted"

\* An acceptance on record has its artifact published, with that outcome and
\* the seed that is pinned for the patch.
AcceptedIsPublished ==
  \A p \in Patches :
    records[p] \in Accepted =>
      [patch |-> p, outcome |-> records[p], seed |-> attempts[p].seed] \in published

\* getReceiptByHash answers "receipt expired; re-submit to get a fresh
\* receipt": a patch whose receipt expired is not refused as a duplicate.
ExpiredCanBeResubmitted ==
  answer.code = "duplicate_submission" => answer.patch \notin expired
=============================================================================

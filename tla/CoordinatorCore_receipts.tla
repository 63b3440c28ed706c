------------------------ MODULE CoordinatorCore_receipts ------------------------
(***************************************************************************)
(* The receipts of CoordinatorCore while the chain does not reorganise:    *)
(* the screener cap, and, in one life of the process, one live receipt per *)
(* patch and no solve index used twice.  A reorganisation takes back the   *)
(* counters these were checked against, and a restart forgets the tables   *)
(* the last two rest on, so the theorems assume MaxForks = 0, and the last *)
(* two also MaxCrashes = 0.  Then the replica: with reorganisations that   *)
(* stay above the confirmation depth it is a prefix of the chain.  Last    *)
(* the two hashes a tracked advance is found under.                        *)
(***************************************************************************)
EXTENDS CoordinatorCore_proofs

NoReorgs == MaxForks = 0
NoRestarts == MaxCrashes = 0

\* Without reorganisations every block is of fork 0, so no tick rolls back.
OneForkInv ==
  /\ forks = 0
  /\ \A i \in DOMAIN chain : chain[i].fork = 0
  /\ \A i \in DOMAIN snapshots : snapshots[i].fork = 0 /\ snapshots[i].block # 0

\* Before it first serves the core has issued nothing.
OneLifeInv == crashes = 0 /\ (~booted => issued = {})

(***************************************************************************)
(* What a step may do to the receipts                                      *)
(***************************************************************************)
receiptsVars == <<issued, reservation, dedup, pending, cache>>

\* A table of pending receipts with some of them settled.
Narrowed(pend) == \A h \in SignedHashes : pend[h].st = "pending" => pend[h] = pending[h]

Mines(r) ==
  /\ Mine(r)
  /\ \/ r = NoReceipt
     \/ r \in issued /\ CanLand(r)
     \/ r.miner = Foreigner

JobGoesOn ==
  \/ job' = job
  \/ job' = NoJob
  \/ /\ job.pc = "epochCheck" /\ job'.pc = "scoring" /\ job'.at = job.at
  \/ /\ job.pc = "scoring" /\ job'.pc = "counters" /\ job'.at = job.at
     /\ job'.patch = job.patch /\ dedup[job.patch] = 0

ChainMoves ==
  /\ \E r \in Receipt \cup {NoReceipt} : Mines(r)
  /\ UNCHANGED <<booted, job, receiptsVars>>

Sweeps ==
  /\ \E pend \in PendingTable : Narrowed(pend) /\ GcPending(pend)
  /\ \/ job' = job
     \/ job' = NoJob
     \/ job'.pc = "epochCheck" /\ job'.at = now
  /\ UNCHANGED <<chain, now, booted, issued>>

Settles ==
  /\ Narrowed(pending')
  /\ booted => booted'
  /\ JobGoesOn
  /\ UNCHANGED <<chain, now, issued, reservation, dedup, cache>>

Restarts ==
  /\ ~booted \/ Crash
  /\ LoseMemory
  /\ UNCHANGED <<chain, now, issued>>

LEMMA NoRollBack ==
  ASSUME TypeInv, OneForkInv
  PROVE  ~ReorgSeen
<1> SUFFICES ASSUME snapshots # <<>>, Replaced(Last(snapshots))
             PROVE  FALSE
  BY DEF ReorgSeen
<1>1. snapshots \in Seq(Snapshot) /\ chain \in Seq(Block)
  BY DEF TypeInv, TypeOK, ChainTypeOK
<1>2. Len(snapshots) \in DOMAIN snapshots
  BY <1>1
<1>3. /\ Last(snapshots).fork = 0 /\ Last(snapshots).block # 0
      /\ Last(snapshots).block \in Nat
  <2>1. snapshots[Len(snapshots)] \in Snapshot
    BY <1>1, <1>2
  <2>2. snapshots[Len(snapshots)].fork = 0 /\ snapshots[Len(snapshots)].block # 0
    BY <1>2 DEF OneForkInv
  <2> QED
    BY <2>1, <2>2 DEF Last, Snapshot
<1>4. Last(snapshots).block \in DOMAIN chain
  BY <1>1, <1>3 DEF Replaced
<1> QED
  BY <1>3, <1>4 DEF Replaced, OneForkInv

\* The steps of the environment, but for a reorganisation, mine a block or end
\* the epoch.
LEMMA EnvironmentEffect ==
  ASSUME NoReorgs, CoreInv, Environment
  PROVE  ChainMoves \/ Settles
<1>1. UNCHANGED coreVars
  BY ChainSteps DEF CoreInv
<1>2. UNCHANGED <<booted, job, issued, reservation, dedup, pending, cache>>
  BY <1>1 DEF coreVars, receiptVars
<1>3. ~ChainReorg
  BY DEF ChainReorg, Reorg, NoReorgs, CoreInv, TypeInv, TypeOK, ChainTypeOK
<1>4. CASE MineEmpty
  <2>1. Mines(NoReceipt)
    BY <1>4 DEF MineEmpty, Mines
  <2> QED
    BY <1>2, <2>1 DEF ChainMoves, receiptsVars
<1>5. CASE LandReceipt
  <2>1. PICK r \in issued : CanLand(r) /\ Mine(r)
    BY <1>5 DEF LandReceipt
  <2>2. Mines(r) /\ r \in Receipt
    BY <2>1 DEF Mines, CoreInv, TypeInv, TypeOK
  <2> QED
    BY <1>2, <2>2 DEF ChainMoves, receiptsVars
<1>6. CASE LandForeign
  <2>1. PICK p \in ForeignPatches, s \in Scores : Mine(ForeignAdvance(p, s))
    BY <1>6 DEF LandForeign
  <2>2. NextIndex(Foreigner) \in Nat /\ now \in Nat
    BY BlockSets DEF CoreInv, TypeInv, TypeOK, ChainTypeOK
  <2>3. ForeignAdvance(p, s) \in Receipt /\ ForeignAdvance(p, s).miner = Foreigner
    BY <2>1, <2>2, ChainAssumption DEF ForeignAdvance, Receipt, ReceiptOf
  <2>4. Mines(ForeignAdvance(p, s))
    BY <2>1, <2>3 DEF Mines
  <2> QED
    BY <1>2, <2>3, <2>4 DEF ChainMoves, receiptsVars
<1>7. CASE EpochRollover
  BY <1>2, <1>7 DEF EpochRollover, CloseEpoch, Settles, Narrowed, JobGoesOn
<1> QED
  BY <1>3, <1>4, <1>5, <1>6, <1>7 DEF Environment

\* The ticks sweep, settle or leave the receipts alone.
LEMMA TickEffect ==
  ASSUME CoreInv, OneForkInv, TickStep \/ TickFault \/ BootStep
  PROVE  Sweeps \/ Settles \/ Restarts
<1>1. pending \in PendingTable /\ Narrowed(pending)
  BY DEF CoreInv, TypeInv, TypeOK, PendingTable, Narrowed
<1>2. CASE TickEpochClosed
  BY <1>1, <1>2 DEF TickEpochClosed, Sweeps, chainVars
<1>3. CASE TickParity
  <2> DEFINE pend == IF InParity THEN AuditPending(pending, stateByRoot) ELSE pending
  <2>1. pend \in PendingTable
    BY <1>1, SettlementTypes
  <2>2. Narrowed(pend)
    <3> SUFFICES ASSUME NEW h \in SignedHashes, pend[h].st = "pending"
                 PROVE  pend[h] = pending[h]
      BY DEF Narrowed
    <3>1. pending[h] \in PendingRecord
      BY <1>1 DEF PendingTable
    <3> QED
      BY <3>1 DEF AuditPending, PendingRecord
  <2>3. GcPending(pend) /\ UNCHANGED <<chain, now, booted, issued, job>>
    BY <1>3 DEF TickParity, chainVars
  <2> QED
    BY <2>1, <2>2, <2>3 DEF Sweeps
<1>4. CASE ApplyChainEvent
  <2>1. PICK hash : pending' = SettlePending(pending, hash)
    BY <1>4 DEF ApplyChainEvent
  <2>2. Narrowed(pending')
    <3> SUFFICES ASSUME NEW h \in SignedHashes, pending'[h].st = "pending"
                 PROVE  pending'[h] = pending[h]
      BY DEF Narrowed
    <3>1. pending[h] \in PendingRecord
      BY <1>1 DEF PendingTable
    <3> QED
      BY <2>1, <3>1 DEF SettlePending, PendingRecord
  <2> QED
    BY <1>4, <2>2 DEF ApplyChainEvent, Settles, JobGoesOn, chainVars
<1>5. CASE BootFails
  BY <1>5 DEF BootFails, Restarts, chainVars
<1>6. CASE TickStart
  BY <1>1, <1>6, NoRollBack DEF TickStart, Settles, JobGoesOn, chainVars, Narrowed, CoreInv
<1>7. CASE TickScan \/ RejectChainEvent \/ ScanDone \/ TickFault \/ BootScan \/ BootServe
  BY <1>1, <1>7 DEF TickScan, RejectChainEvent, ScanDone, TickFault, BootScan, BootServe,
     Settles, JobGoesOn, chainVars, receiptVars, Narrowed
<1> QED
  BY <1>2, <1>3, <1>4, <1>5, <1>6, <1>7 DEF TickStep, BootStep

\* The submit pipeline and the handlers.
LEMMA SubmitEffect ==
  ASSUME CoreInv,
         \/ SubmitStep
         \/ \E m \in Miners, p \in Patches : BeginSubmit(m, p)
         \/ Freeze \/ FreezeReturns \/ Unfreeze
         \/ \E r \in Rebaselined, b \in Scores : SetRecomputedBaseline(r, b)
         \/ InvalidateBaselines \/ LookupReceipt \/ GetStatus
         \/ UNCHANGED vars
  PROVE  Sweeps \/ Settles \/ ReadCounters \/ SignReceipt
<1>1. pending \in PendingTable /\ Narrowed(pending)
  BY DEF CoreInv, TypeInv, TypeOK, PendingTable, Narrowed
<1>2. CASE \E m \in Miners, p \in Patches : BeginSubmit(m, p)
  BY <1>1, <1>2 DEF BeginSubmit, Sweeps, chainVars
<1>3. CASE LookupReceipt
  BY <1>1, <1>3 DEF LookupReceipt, Sweeps, chainVars
<1>4. CASE PrepareSubmit
  <2>1. \/ job' = NoJob
        \/ job.pc = "epochCheck" /\ job'.pc = "scoring" /\ job'.at = job.at
    BY <1>4 DEF PrepareSubmit
  <2> QED
    BY <1>1, <1>4, <2>1 DEF PrepareSubmit, Settles, JobGoesOn, chainVars, receiptVars, Narrowed
<1>5. CASE \E kind \in EvalKinds, s \in Scores : FinishSubmit(kind, s)
  <2>1. PICK kind \in EvalKinds, s \in Scores : FinishSubmit(kind, s)
    BY <1>5
  <2>2. \/ job' = NoJob
        \/ /\ job.pc = "scoring" /\ job'.pc = "counters" /\ job'.at = job.at
           /\ job'.patch = job.patch /\ dedup[job.patch] = 0
    BY <2>1 DEF FinishSubmit, FinishRefused
  <2> QED
    BY <1>1, <2>1, <2>2 DEF FinishSubmit, Settles, JobGoesOn, chainVars, receiptVars, Narrowed
<1>6. CASE SubmitFault \/ EvaluatorRefuses \/ SigningFails \/ Freeze \/ FreezeReturns \/ Unfreeze
           \/ (\E r \in Rebaselined, b \in Scores : SetRecomputedBaseline(r, b))
           \/ InvalidateBaselines \/ GetStatus \/ UNCHANGED vars
  BY <1>1, <1>6 DEF SubmitFault, EvaluatorRefuses, SigningFails, Freeze, FreezeReturns, Unfreeze,
     SetRecomputedBaseline, InvalidateBaselines, GetStatus, vars, Settles, JobGoesOn, chainVars,
     receiptVars, Narrowed
<1> QED
  BY <1>2, <1>3, <1>4, <1>5, <1>6 DEF SubmitStep

LEMMA Effects ==
  ASSUME NoReorgs, CoreInv, OneForkInv, [Next]_vars
  PROVE  ChainMoves \/ Sweeps \/ Settles \/ Restarts \/ ReadCounters \/ SignReceipt
<1>1. Crash => Restarts
  BY DEF Crash, Restarts, chainVars
<1> QED
  BY <1>1, EnvironmentEffect, TickEffect, SubmitEffect DEF Next

\* Only the environment moves the chain, and only a crash is counted.
LEMMA ChainOwners ==
  ASSUME [Next]_vars, ~Environment, ~Crash
  PROVE  UNCHANGED <<chain, forks, now, epochOpen, crashes>>
<1> USE DEF chainVars
<1>1. CASE TickStep \/ TickFault \/ BootStep
  BY <1>1 DEF TickStep, TickFault, TickEpochClosed, TickStart, TickScan, ApplyChainEvent,
     RejectChainEvent, ScanDone, TickParity, BootStep, BootScan, BootServe, BootFails
<1>2. CASE SubmitStep \/ \E m \in Miners, p \in Patches : BeginSubmit(m, p)
  BY <1>2 DEF SubmitStep, PrepareSubmit, SubmitFault, EvaluatorRefuses, FinishSubmit,
     ReadCounters, SigningFails, SignReceipt, BeginSubmit
<1>3. CASE \/ Freeze \/ FreezeReturns \/ Unfreeze
           \/ \E r \in Rebaselined, b \in Scores : SetRecomputedBaseline(r, b)
           \/ InvalidateBaselines \/ LookupReceipt \/ GetStatus
  BY <1>3 DEF Freeze, FreezeReturns, Unfreeze, SetRecomputedBaseline, InvalidateBaselines,
     LookupReceipt, GetStatus
<1>4. CASE UNCHANGED vars
  BY <1>4 DEF vars
<1> QED
  BY <1>1, <1>2, <1>3, <1>4 DEF Next

LEMMA OneForkInit == Init => OneForkInv /\ OneLifeInv
BY DEF Init, ChainInit, EmptyMemory, OneForkInv, OneLifeInv

\* A mined block is of fork 0, and no reorganisation happens.
LEMMA OneForkChain ==
  ASSUME NoReorgs, CoreInv, OneForkInv, [Next]_vars
  PROVE  /\ forks' = 0
         /\ \A i \in DOMAIN chain' : chain'[i].fork = 0
<1>1. CASE Crash
  BY <1>1 DEF Crash, chainVars, OneForkInv
<1>2. CASE ~Environment /\ ~Crash
  BY <1>2, ChainOwners DEF OneForkInv
<1>3. CASE Environment
  <2>2. chain \in Seq(Block)
    BY DEF CoreInv, TypeInv, TypeOK, ChainTypeOK
  <2>3. CASE EpochRollover
    BY <2>3 DEF EpochRollover, CloseEpoch, OneForkInv
  <2>4. CASE ~EpochRollover
    <3>1. ~ChainReorg
      BY DEF ChainReorg, Reorg, NoReorgs, OneForkInv
    <3>2. PICK r : Mine(r)
      BY <1>3, <2>4, <3>1 DEF Environment, MineEmpty, LandReceipt, LandForeign
    <3>3. forks' = 0 /\ chain' = Append(chain, [fork |-> 0, rcpt |-> r])
      BY <3>2 DEF Mine, OneForkInv
    <3>4. \A i \in DOMAIN chain' : chain'[i].fork = 0
      <4>1. ASSUME NEW i \in DOMAIN chain' PROVE chain'[i].fork = 0
        <5>1. i \in 1..Len(chain)+1 /\ Len(chain) \in Nat
          BY <2>2, <3>3, <4>1
        <5>2. CASE i \in 1..Len(chain)
          <6>1. chain'[i] = chain[i] /\ i \in DOMAIN chain
            BY <2>2, <3>3, <5>2
          <6> QED
            BY <6>1 DEF OneForkInv
        <5>3. CASE i = Len(chain) + 1
          BY <2>2, <3>3, <5>3
        <5> QED
          BY <5>1, <5>2, <5>3
      <4> QED
        BY <4>1
    <3> QED
      BY <3>3, <3>4
  <2> QED
    BY <2>3, <2>4
<1> QED
  BY <1>1, <1>2, <1>3

LEMMA OneForkSnapshots ==
  ASSUME NoReorgs, CoreInv, OneForkInv, [Next]_vars
  PROVE  \A i \in DOMAIN snapshots' : snapshots'[i].fork = 0 /\ snapshots'[i].block # 0
<1>1. CASE ApplyChainEvent
  <2> DEFINE n == Earliest(BatchLeft)
             snap == [block |-> n, fork |-> chain[n].fork, parent |-> ParentOf[Event(n).patch],
                      root |-> RootAfter[Event(n).patch], hash |-> EventHash(n)]
  <2>1. /\ n \in Nat /\ n # 0 /\ n \in DOMAIN chain /\ chain[n].fork \in Nat
        /\ Event(n).patch \in Patches /\ EventHash(n) \in SignedHashes
    <3>1. /\ n \in Nat /\ n \in DOMAIN chain /\ chain[n].fork \in Nat
          /\ Event(n).patch \in Patches /\ EventHash(n) \in SignedHashes
      BY <1>1, NextEvent DEF ApplyChainEvent, CoreInv, TypeInv
    <3> HIDE DEF n
    <3>2. chain \in Seq(Block)
      BY DEF CoreInv, TypeInv, TypeOK, ChainTypeOK
    <3> QED
      BY <3>1, <3>2
  <2>2. snapshots' = PushSnapshot(snap)
    BY <1>1 DEF ApplyChainEvent
  <2>3. ParentOf[Event(n).patch] \in Roots /\ RootAfter[Event(n).patch] \in Roots
    BY <2>1, ChainAssumption
  <2> HIDE DEF n
  <2>4. snap \in Snapshot /\ snap.fork = 0 /\ snap.block # 0
    BY <2>1, <2>3 DEF Snapshot, OneForkInv
  <2> HIDE DEF snap
  <2>5. snapshots \in Seq(Snapshot)
    BY DEF CoreInv, TypeInv, TypeOK
  <2> DEFINE s == PushSnapshot(snap)
  <2>6. /\ s \in Seq(Snapshot) /\ Len(s) \in Nat /\ Len(s) # 0
        /\ s[Len(s)] = snap
        /\ \/ /\ Len(s) = Len(snapshots) + 1
              /\ \A i \in 1..Len(snapshots) : s[i] = snapshots[i]
           \/ /\ Len(s) = Len(snapshots)
              /\ \A i \in 1..Len(s)-1 : s[i] = snapshots[i + 1]
    BY <2>4, PushFacts DEF CoreInv, TypeInv
  <2> HIDE DEF s
  <2>7. ASSUME NEW i \in DOMAIN s PROVE s[i].fork = 0 /\ s[i].block # 0
    <3>1. i \in 1..Len(s) /\ Len(snapshots) \in Nat
      BY <2>5, <2>6, <2>7
    <3>2. CASE i = Len(s)
      BY <2>4, <2>6, <3>2
    <3>3. CASE i # Len(s)
      <4>1. \E j \in DOMAIN snapshots : s[i] = snapshots[j]
        BY <2>5, <2>6, <3>1, <3>3
      <4> QED
        BY <4>1 DEF OneForkInv
    <3> QED
      BY <3>2, <3>3
  <2> QED
    BY <2>2, <2>7 DEF s
<1>2. CASE LoseMemory
  BY <1>2 DEF LoseMemory
<1>3. CASE UNCHANGED lineVars
  BY <1>3 DEF lineVars, OneForkInv
<1>4. ~(TickStart /\ RollBack) \/ UNCHANGED lineVars
  BY NoRollBack DEF TickStart, CoreInv, lineVars, replicaVars
<1> QED
  BY <1>1, <1>2, <1>3, <1>4, LineMoves

LEMMA OneForkStep ==
  ASSUME NoReorgs, CoreInv, OneForkInv, [Next]_vars
  PROVE  OneForkInv'
BY OneForkChain, OneForkSnapshots DEF OneForkInv

LEMMA OneLifeStep ==
  ASSUME NoReorgs, NoRestarts, CoreInv, OneForkInv, OneLifeInv, [Next]_vars
  PROVE  OneLifeInv'
<1>1. ~Crash
  BY DEF Crash, NoRestarts, OneLifeInv
<1>2. crashes' = crashes
  BY <1>1, ChainOwners, ChainSteps DEF CoreInv, coreVars
<1>3. ~booted' => issued' = {}
  <2>1. CASE SignReceipt \/ ReadCounters
    <3>1. booted /\ booted' = booted
      BY <2>1 DEF SignReceipt, ReadCounters, CoreInv, MutexInv
    <3> QED
      BY <3>1
  <2>2. CASE ChainMoves \/ Sweeps \/ Settles
    BY <2>2 DEF ChainMoves, Sweeps, Settles, receiptsVars, OneLifeInv
  <2>3. CASE Restarts
    BY <1>1, <2>3 DEF Restarts, OneLifeInv
  <2> QED
    BY <2>1, <2>2, <2>3, Effects
<1> QED
  BY <1>2, <1>3 DEF OneLifeInv

(***************************************************************************)
(* One live receipt per patch                                              *)
(***************************************************************************)
\* The deduplication table holds the window of every live receipt and of every
\* pending record, and a submit past its second look at the table found it clear.
DedupInv ==
  /\ \A r \in issued : r.expires > now => dedup[r.patch] = r.expires
  /\ job.pc \in {"counters", "sign"} => dedup[job.patch] = 0
  /\ \A h \in SignedHashes :
       pending[h].st = "pending" => dedup[h[1]] = pending[h].exp /\ pending[h].exp # 0
  /\ OneLiveReceiptPerPatch

LEMMA DedupInit == Init => DedupInv
BY DEF Init, EmptyMemory, DedupInv, OneLiveReceiptPerPatch, NoJob, NoPending

LEMMA ReceiptFields ==
  ASSUME TypeOK, NEW r \in issued
  PROVE  /\ r.patch \in Patches /\ r.expires \in Nat /\ r.idx \in Nat
         /\ r.miner \in Miners \cup {Foreigner} /\ r.kind \in {"advance", "screener"}
BY DEF TypeOK, Receipt, ReceiptOf

LEMMA DedupSweep ==
  ASSUME TypeOK, DedupInv, NEW pend \in PendingTable, Narrowed(pend), GcPending(pend),
         UNCHANGED <<now, issued>>, job'.pc \in {"counters", "sign"} => job' = job
  PROVE  DedupInv'
<1>1. /\ dedup' = GcDedup(pend) /\ pending' = GcPendingRecords(pend)
      /\ dedup \in [Patches -> Nat] /\ now \in Nat
  BY DEF GcPending, TypeOK, ChainTypeOK
<1>2. ASSUME NEW p \in Patches, dedup[p] > now
      PROVE  dedup'[p] = dedup[p]
  <2>1. ASSUME NEW t \in Scores, <<p, t>> \in ExpiredPending(pend) PROVE FALSE
    <3>1. /\ <<p, t>> \in SignedHashes /\ pend[<<p, t>>].st = "pending"
          /\ pend[<<p, t>>].exp <= now
      BY <2>1 DEF ExpiredPending
    <3>2. dedup[p] = pend[<<p, t>>].exp
      BY <3>1 DEF DedupInv, Narrowed
    <3> QED
      BY <1>1, <1>2, <3>1, <3>2
  <2>2. ~(dedup[p] <= now)
    BY <1>1, <1>2
  <2>3. GcDedup(pend)[p] = dedup[p]
    BY <2>1, <2>2 DEF GcDedup
  <2> QED
    BY <1>1, <2>3
<1>3. ASSUME NEW r \in issued, r.expires > now PROVE dedup'[r.patch] = r.expires
  BY <1>2, <1>3, ReceiptFields DEF DedupInv
<1>4. job'.pc \in {"counters", "sign"} => dedup'[job'.patch] = 0
  <2> SUFFICES ASSUME job'.pc \in {"counters", "sign"} PROVE dedup'[job'.patch] = 0
    OBVIOUS
  <2>1. job' = job /\ job.patch \in Patches /\ dedup[job.patch] = 0
    BY JobByPosition DEF DedupInv, CountersJob, SigningJob
  <2> QED
    BY <1>1, <2>1 DEF GcDedup
<1>5. ASSUME NEW h \in SignedHashes, pending'[h].st = "pending"
      PROVE  dedup'[h[1]] = pending'[h].exp /\ pending'[h].exp # 0
  <2>1. h \notin ExpiredPending(pend) /\ pending'[h] = pend[h]
    BY <1>1, <1>5 DEF GcPendingRecords, NoPending
  <2>2. pend[h] = pending[h] /\ pending[h].st = "pending"
    BY <1>5, <2>1 DEF Narrowed
  <2>3. dedup[h[1]] = pending[h].exp /\ pending[h].exp # 0 /\ h[1] \in Patches
    BY <2>2 DEF DedupInv, SignedHashes
  <2>4. ~(pending[h].exp <= now)
    BY <1>5, <2>1, <2>2 DEF ExpiredPending
  <2> QED
    BY <1>1, <1>2, <2>1, <2>2, <2>3, <2>4
<1> QED
  BY <1>3, <1>4, <1>5 DEF DedupInv, OneLiveReceiptPerPatch

LEMMA DedupSign ==
  ASSUME TypeInv, DedupInv, SignReceipt
  PROVE  DedupInv'
<1> DEFINE exp == job.at + Ttl
           hash == <<job.patch, job.score>>
           new == [kind |-> job.kind, id |-> Cardinality(issued) + 1, miner |-> job.miner,
                   idx |-> job.idx, prev |-> job.prev, patch |-> job.patch, expires |-> exp,
                   score |-> IF job.kind = "advance" THEN job.score ELSE 0]
<1>1. /\ job.patch \in Patches /\ job.at \in Nat /\ job.score \in Scores /\ exp \in Nat /\ exp # 0
      /\ dedup[job.patch] = 0 /\ dedup \in [Patches -> Nat] /\ now \in Nat
      /\ pending \in PendingTable
  <2>1. TypeOK /\ job \in SigningJob
    BY JobByPosition DEF SignReceipt, TypeInv
  <2>2. job.patch \in Patches /\ job.at \in Nat /\ job.score \in Scores
    BY <2>1 DEF SigningJob
  <2>3. exp \in Nat /\ exp # 0
    BY <2>2, CoreAssumption
  <2>4. dedup[job.patch] = 0
    BY DEF SignReceipt, DedupInv
  <2> QED
    BY <2>1, <2>2, <2>3, <2>4 DEF TypeOK, ChainTypeOK, PendingTable
<1>2. /\ issued' = issued \cup {new}
      /\ new.patch = job.patch /\ new.expires = exp
  BY DEF SignReceipt
<1>3. dedup' = [dedup EXCEPT ![job.patch] = exp] /\ job' = NoJob /\ now' = now
  BY DEF SignReceipt, chainVars
<1> HIDE DEF exp, new
<1>4. ASSUME NEW r \in issued, r.expires > now PROVE r.patch # job.patch
  BY <1>1, <1>4, ReceiptFields DEF DedupInv, TypeInv
<1>5. ASSUME NEW r \in issued', r.expires > now' PROVE dedup'[r.patch] = r.expires
  <2>1. CASE r \in issued
    BY <1>1, <1>3, <1>4, <1>5, <2>1, ReceiptFields DEF DedupInv, TypeInv
  <2>2. CASE r = new
    BY <1>1, <1>2, <1>3, <2>2
  <2> QED
    BY <1>2, <2>1, <2>2
<1>6. ASSUME NEW h \in SignedHashes, pending'[h].st = "pending"
      PROVE  dedup'[h[1]] = pending'[h].exp /\ pending'[h].exp # 0
  <2>1. h[1] \in Patches
    BY DEF SignedHashes
  <2>2. CASE pending'[h] = pending[h]
    <3>1. dedup[h[1]] = pending[h].exp /\ pending[h].exp # 0
      BY <1>6, <2>2 DEF DedupInv
    <3>2. h[1] # job.patch
      BY <1>1, <3>1
    <3> QED
      BY <1>1, <1>3, <2>1, <2>2, <3>1, <3>2
  <2>3. CASE pending'[h] # pending[h]
    <3>1. pending' = [pending EXCEPT ![hash] = [st |-> "pending", exp |-> exp]]
      BY <2>3 DEF SignReceipt, exp
    <3>2. h = hash /\ pending'[h] = [st |-> "pending", exp |-> exp]
      BY <1>1, <2>3, <3>1 DEF PendingTable
    <3> QED
      BY <1>1, <1>3, <3>2
  <2> QED
    BY <2>2, <2>3
<1>7. OneLiveReceiptPerPatch'
  <2> SUFFICES ASSUME NEW r1 \in issued', NEW r2 \in issued', r1.patch = r2.patch,
                      r1.expires > now, r2.expires > now
               PROVE  r1 = r2
    BY <1>3 DEF OneLiveReceiptPerPatch
  <2>1. CASE r1 \in issued /\ r2 \in issued
    BY <2>1 DEF DedupInv, OneLiveReceiptPerPatch
  <2> QED
    BY <1>2, <1>4, <2>1
<1> QED
  BY <1>3, <1>5, <1>6, <1>7 DEF DedupInv, NoJob

LEMMA DedupStep ==
  ASSUME NoReorgs, NoRestarts, CoreInv, OneForkInv, OneLifeInv, DedupInv, [Next]_vars
  PROVE  DedupInv'
<1>1. TypeInv /\ TypeOK /\ now \in Nat
  BY DEF CoreInv, TypeInv, TypeOK, ChainTypeOK
<1>2. CASE ChainMoves
  <2>1. UNCHANGED <<job, issued, dedup, pending>> /\ now' = now + 1
    BY <1>2 DEF ChainMoves, Mines, Mine, receiptsVars
  <2>2. \A r \in issued : r.expires > now' => r.expires > now
    BY <1>1, <2>1, ReceiptFields
  <2> QED
    BY <2>1, <2>2 DEF DedupInv, OneLiveReceiptPerPatch
<1>3. CASE Sweeps
  BY <1>1, <1>3, DedupSweep DEF Sweeps, NoJob
<1>4. CASE Settles
  <2>1. job'.pc \in {"counters", "sign"} => dedup'[job'.patch] = 0
    BY <1>4 DEF Settles, JobGoesOn, DedupInv, NoJob
  <2> QED
    BY <1>4, <2>1 DEF Settles, Narrowed, DedupInv, OneLiveReceiptPerPatch
<1>5. CASE Restarts
  <2>1. issued' = {}
    BY <1>5 DEF Restarts, Crash, NoRestarts, OneLifeInv
  <2> QED
    BY <1>5, <2>1 DEF Restarts, LoseMemory, DedupInv, OneLiveReceiptPerPatch, NoJob, NoPending
<1>6. CASE ReadCounters
  BY <1>6 DEF ReadCounters, chainVars, DedupInv, OneLiveReceiptPerPatch, NoJob
<1> QED
  BY <1>1, <1>2, <1>3, <1>4, <1>5, <1>6, DedupSign, Effects

(***************************************************************************)
(* A miner's counters                                                      *)
(***************************************************************************)
IsReceiptOf(r, m) == r.kind # "none" /\ r.miner = m

\* A mined receipt is counted for its miner, and for no other.
LEMMA MineCounts ==
  ASSUME ChainTypeOK, NEW r \in Receipt \cup {NoReceipt}, Mine(r), NEW m
  PROVE  /\ IsReceiptOf(r, m) => NextIndex(m)' = NextIndex(m) + 1
         /\ ~IsReceiptOf(r, m) => NextIndex(m)' = NextIndex(m)
         /\ IsReceiptOf(r, m) /\ r.kind = "screener"
              => ScreenersThisEpoch(m)' = ScreenersThisEpoch(m) + 1
         /\ ~(IsReceiptOf(r, m) /\ r.kind = "screener")
              => ScreenersThisEpoch(m)' = ScreenersThisEpoch(m)
<1> DEFINE n == Len(chain) + 1
           Screens == {i \in MinerBlocks(m) : chain[i].rcpt.kind = "screener"}
<1>1. /\ chain \in Seq(Block) /\ n \in Nat /\ DOMAIN chain = 1..Len(chain)
      /\ chain' = Append(chain, [fork |-> forks, rcpt |-> r])
  BY DEF ChainTypeOK, Mine
<1>2. /\ DOMAIN chain' = DOMAIN chain \cup {n}
      /\ n \notin DOMAIN chain /\ chain'[n].rcpt = r
      /\ \A i \in DOMAIN chain : chain'[i] = chain[i]
  BY <1>1
<1>3. MinerBlocks(m)' = IF IsReceiptOf(r, m) THEN MinerBlocks(m) \cup {n} ELSE MinerBlocks(m)
  BY <1>2 DEF MinerBlocks, IsReceiptOf
<1>4. Screens' = IF IsReceiptOf(r, m) /\ r.kind = "screener" THEN Screens \cup {n} ELSE Screens
  <2>1. MinerBlocks(m) \subseteq DOMAIN chain
    BY DEF MinerBlocks
  <2> QED
    BY <1>2, <1>3, <2>1
<1>5. /\ IsFiniteSet(MinerBlocks(m)) /\ IsFiniteSet(Screens)
      /\ n \notin MinerBlocks(m) /\ n \notin Screens
  <2>1. MinerBlocks(m) \in SUBSET (1..Len(chain)) /\ Screens \in SUBSET (1..Len(chain))
    BY BlockSets
  <2>2. IsFiniteSet(1..Len(chain))
    BY <1>1, FS_Interval
  <2> QED
    BY <1>1, <2>1, <2>2, FS_Subset
<1>6. /\ Cardinality(MinerBlocks(m) \cup {n}) = Cardinality(MinerBlocks(m)) + 1
      /\ Cardinality(Screens \cup {n}) = Cardinality(Screens) + 1
  BY <1>5, FS_AddElement
<1> HIDE DEF n
<1>7. NextIndex(m) = Cardinality(MinerBlocks(m)) /\ NextIndex(m)' = Cardinality(MinerBlocks(m)')
  BY DEF NextIndex
<1>8. ScreenersThisEpoch(m) = Cardinality(Screens) /\ ScreenersThisEpoch(m)' = Cardinality(Screens')
  BY DEF ScreenersThisEpoch
<1> HIDE DEF Screens
<1> QED
  BY <1>3, <1>4, <1>6, <1>7, <1>8

LEMMA SameChainSameCounts ==
  ASSUME UNCHANGED chain, NEW m
  PROVE  NextIndex(m)' = NextIndex(m) /\ ScreenersThisEpoch(m)' = ScreenersThisEpoch(m)
BY DEF NextIndex, ScreenersThisEpoch, MinerBlocks

(***************************************************************************)
(* The screener cap                                                        *)
(***************************************************************************)
\* The screeners a miner could still pass if every index before x were one.
Potential(m, x) == ScreenersThisEpoch(m) + x - NextIndex(m)

SignsScreener(m, x) ==
  job.pc = "sign" /\ job.kind = "screener" /\ job.miner = m /\ job.idx = x

\* A screener that can still land, or is about to be signed, would stay within
\* the cap even if every receipt before it were a screener.
CapInv ==
  /\ \A r \in issued :
       /\ r.miner \in Miners
       /\ r.kind = "screener" /\ r.idx >= NextIndex(r.miner) => Potential(r.miner, r.idx) < Cap
  /\ \A m \in Miners, x \in Nat :
       SignsScreener(m, x) /\ x >= NextIndex(m) => Potential(m, x) < Cap
  /\ ScreenerCapRespected

LEMMA CapInit == Init => CapInv
<1> SUFFICES ASSUME Init PROVE CapInv
  OBVIOUS
<1>1. \A m \in Miners : ScreenersThisEpoch(m) = 0
  <2>1. \A m : MinerBlocks(m) = {}
    BY DEF Init, ChainInit, MinerBlocks, NoReceipt
  <2> QED
    BY <2>1, FS_EmptySet DEF ScreenersThisEpoch
<1> QED
  BY <1>1, CoreAssumption DEF Init, EmptyMemory, CapInv, ScreenerCapRespected, SignsScreener, NoJob

\* A block leaves the potential of an index alone or lowers it.
LEMMA PotentialFalls ==
  ASSUME ChainTypeOK, NEW r \in Receipt \cup {NoReceipt}, Mine(r), NEW m, NEW x \in Nat
  PROVE  /\ NextIndex(m)' >= NextIndex(m)
         /\ Potential(m, x)' <= Potential(m, x)
<1>1. NextIndex(m) \in Nat /\ ScreenersThisEpoch(m) \in Nat
  BY BlockSets
<1>2. Potential(m, x)' = ScreenersThisEpoch(m)' + x - NextIndex(m)'
  BY DEF Potential
<1> QED
  BY <1>1, <1>2, MineCounts DEF Potential, IsReceiptOf

LEMMA CapMine ==
  ASSUME TypeInv, CapInv, ChainMoves
  PROVE  CapInv'
<1>1. TypeOK /\ ChainTypeOK
  BY DEF TypeInv, TypeOK
<1>2. PICK r \in Receipt \cup {NoReceipt} : Mines(r)
  BY DEF ChainMoves
<1>3. UNCHANGED <<job, issued>> /\ Mine(r)
  BY <1>2 DEF ChainMoves, receiptsVars, Mines
<1>4. ASSUME NEW m, NEW x \in Nat, x >= NextIndex(m) => Potential(m, x) < Cap,
             x >= NextIndex(m)'
      PROVE  Potential(m, x)' < Cap
  <2>1. /\ NextIndex(m) \in Nat /\ ScreenersThisEpoch(m) \in Nat
        /\ NextIndex(m)' \in Nat /\ ScreenersThisEpoch(m)' \in Nat
    <3>1. NextIndex(m) \in Nat /\ ScreenersThisEpoch(m) \in Nat
      BY <1>1, BlockSets
    <3> QED
      BY <1>1, <1>3, <3>1, MineCounts
  <2>2. NextIndex(m)' >= NextIndex(m) /\ Potential(m, x)' <= Potential(m, x)
    BY <1>1, <1>3, PotentialFalls
  <2>3. Potential(m, x) \in Int /\ Potential(m, x)' \in Int
    <3>1. Potential(m, x)' = ScreenersThisEpoch(m)' + x - NextIndex(m)'
      BY DEF Potential
    <3> QED
      BY <2>1, <3>1 DEF Potential
  <2> QED
    BY <1>4, <2>1, <2>2, <2>3, CoreAssumption
<1>5. ASSUME NEW q \in issued'
      PROVE  /\ q.miner \in Miners
             /\ q.kind = "screener" /\ q.idx >= NextIndex(q.miner)'
                  => Potential(q.miner, q.idx)' < Cap
  BY <1>1, <1>3, <1>4, <1>5, ReceiptFields DEF CapInv
<1>6. ASSUME NEW m \in Miners, NEW x \in Nat, SignsScreener(m, x)', x >= NextIndex(m)'
      PROVE  Potential(m, x)' < Cap
  <2>1. SignsScreener(m, x)
    BY <1>3, <1>6 DEF SignsScreener
  <2> QED
    BY <1>4, <1>6, <2>1 DEF CapInv
<1>7. ASSUME NEW m \in Miners PROVE ScreenersThisEpoch(m)' <= Cap
  <2>1. ScreenersThisEpoch(m) \in Nat /\ ScreenersThisEpoch(m) <= Cap
    BY <1>1, <1>7, BlockSets DEF CapInv, ScreenerCapRespected
  <2>2. CASE ~(IsReceiptOf(r, m) /\ r.kind = "screener")
    BY <1>1, <1>3, <2>1, <2>2, MineCounts
  <2>3. CASE IsReceiptOf(r, m) /\ r.kind = "screener"
    <3>1. r \in issued /\ CanLand(r)
      BY <1>2, <1>7, <2>3, ChainAssumption DEF Mines, IsReceiptOf, NoReceipt
    <3>2. r.miner = m /\ r.idx = NextIndex(m) /\ NextIndex(m) \in Nat
      BY <1>1, <2>3, <3>1, BlockSets DEF CanLand, IsReceiptOf
    <3>3. Potential(m, NextIndex(m)) < Cap
      BY <2>3, <3>1, <3>2 DEF CapInv
    <3>4. ScreenersThisEpoch(m) < Cap
      BY <2>1, <3>2, <3>3 DEF Potential
    <3>5. ScreenersThisEpoch(m)' = ScreenersThisEpoch(m) + 1
      BY <1>1, <1>3, <2>3, MineCounts
    <3> QED
      BY <2>1, <3>4, <3>5, CoreAssumption
  <2> QED
    BY <2>2, <2>3
<1> QED
  BY <1>5, <1>6, <1>7 DEF CapInv, ScreenerCapRespected

\* The fields of the job SignReceipt ends and of the receipt it issues.
LEMMA SignFacts ==
  ASSUME TypeInv, SignReceipt
  PROVE  /\ job.pc = "sign" /\ job.miner \in Miners /\ job.idx \in Nat /\ job.at \in Nat
         /\ job'.pc = "none" /\ UNCHANGED <<chain, now>>
         /\ \E new, last :
              /\ issued' = issued \cup {new}
              /\ new.miner = job.miner /\ new.idx = job.idx /\ new.kind = job.kind
              /\ new.expires = job.at + Ttl
              /\ reservation' = [reservation EXCEPT ![job.miner] =
                                   [next |-> job.idx + 1, last |-> last, exp |-> job.at + Ttl]]
<1> DEFINE new == [kind |-> job.kind, id |-> Cardinality(issued) + 1, miner |-> job.miner,
                   idx |-> job.idx, prev |-> job.prev, patch |-> job.patch,
                   expires |-> job.at + Ttl,
                   score |-> IF job.kind = "advance" THEN job.score ELSE 0]
<1>1. issued' = issued \cup {new}
  BY DEF SignReceipt
<1>2. /\ new.miner = job.miner /\ new.idx = job.idx /\ new.kind = job.kind
      /\ new.expires = job.at + Ttl
  OBVIOUS
<1>3. job \in SigningJob /\ job.pc = "sign"
  BY JobByPosition DEF SignReceipt, TypeInv
<1>4. job'.pc = "none" /\ UNCHANGED <<chain, now>>
  BY DEF SignReceipt, NoJob, chainVars
<1>5. \E last : reservation' = [reservation EXCEPT ![job.miner] =
                   [next |-> job.idx + 1, last |-> last, exp |-> job.at + Ttl]]
  BY DEF SignReceipt
<1> HIDE DEF new
<1> QED
  BY <1>1, <1>2, <1>3, <1>4, <1>5 DEF SigningJob

\* What a submit that reads the counters goes on with.
LEMMA ReadFacts ==
  ASSUME TypeInv, ReadCounters
  PROVE  /\ job.miner \in Miners /\ UNCHANGED <<chain, now, issued>>
         /\ \/ job'.pc = "none"
            \/ /\ job'.pc = "sign" /\ job'.at = job.at
               /\ job'.miner = job.miner /\ job'.idx = SolveIndex(job.miner)
               /\ job'.kind = "screener"
                    => ~(ScreenersThisEpoch(job.miner) + InFlight(job.miner) >= Cap)
         /\ \/ reservation' = reservation
            \/ /\ Landed(job.miner)
               /\ reservation' = [reservation EXCEPT ![job.miner] = NoReservation]
<1>1. job \in CountersJob /\ job.pc = "counters"
  BY JobByPosition DEF ReadCounters, TypeInv
<1>2. \/ job'.pc = "none"
      \/ /\ job'.pc = "sign" /\ job'.at = job.at
         /\ job'.miner = job.miner /\ job'.idx = SolveIndex(job.miner)
         /\ job'.kind = job.kind /\ ~OverCap(job.miner)
  BY DEF ReadCounters, NoJob
<1>3. \/ reservation' = reservation
      \/ /\ Landed(job.miner)
         /\ reservation' = [reservation EXCEPT ![job.miner] = NoReservation]
  BY DEF ReadCounters
<1> QED
  BY <1>1, <1>2, <1>3 DEF ReadCounters, chainVars, CountersJob, OverCap

LEMMA CapStep ==
  ASSUME NoReorgs, CoreInv, OneForkInv, CapInv, [Next]_vars
  PROVE  CapInv'
<1>1. TypeInv /\ TypeOK /\ ChainTypeOK
  BY DEF CoreInv, TypeInv, TypeOK
<1>2. ASSUME UNCHANGED <<chain, issued>>,
             \A m \in Miners, x \in Nat : SignsScreener(m, x)' => SignsScreener(m, x)
      PROVE  CapInv'
  <2>1. \A m : NextIndex(m)' = NextIndex(m) /\ ScreenersThisEpoch(m)' = ScreenersThisEpoch(m)
    BY <1>2, SameChainSameCounts
  <2>2. \A m, x : Potential(m, x)' = Potential(m, x)
    BY <2>1 DEF Potential
  <2> QED
    BY <1>2, <2>1, <2>2 DEF CapInv, ScreenerCapRespected
<1>3. CASE ChainMoves
  BY <1>1, <1>3, CapMine
<1>4. CASE Sweeps \/ Settles \/ Restarts
  <2>1. UNCHANGED <<chain, issued>> /\ (job'.pc = "sign" => job' = job)
    BY <1>4 DEF Sweeps, Settles, JobGoesOn, Restarts, LoseMemory, NoJob
  <2> QED
    BY <1>2, <2>1 DEF SignsScreener
<1>5. CASE ReadCounters
  <2>1. UNCHANGED <<chain, issued>>
    BY <1>1, <1>5, ReadFacts
  <2>2. \A m : NextIndex(m)' = NextIndex(m) /\ ScreenersThisEpoch(m)' = ScreenersThisEpoch(m)
    BY <2>1, SameChainSameCounts
  <2>3. \A m, x : Potential(m, x)' = Potential(m, x)
    BY <2>2 DEF Potential
  <2>4. ASSUME NEW m \in Miners, NEW x \in Nat, SignsScreener(m, x)'
        PROVE  Potential(m, x) < Cap
    <3>1. /\ m = job.miner /\ x = SolveIndex(m)
          /\ ~(ScreenersThisEpoch(m) + InFlight(m) >= Cap)
      BY <1>1, <1>5, <2>4, ReadFacts DEF SignsScreener
    <3>2. /\ NextIndex(m) \in Nat /\ ScreenersThisEpoch(m) \in Nat
          /\ reservation[m].next \in Nat
      BY <1>1, BlockSets DEF TypeOK, Reservation
    <3>3. InFlight(m) = x - NextIndex(m)
      BY <3>1, <3>2 DEF InFlight, SolveIndex
    <3> QED
      BY <3>1, <3>2, <3>3, CoreAssumption DEF Potential
  <2> QED
    BY <2>1, <2>2, <2>3, <2>4 DEF CapInv, ScreenerCapRespected
<1>6. CASE SignReceipt
  <2>1. PICK new : issued' = issued \cup {new} /\ new.miner = job.miner /\ new.idx = job.idx
                   /\ new.kind = job.kind
    BY <1>1, <1>6, SignFacts
  <2>2. /\ job.pc = "sign" /\ job.miner \in Miners /\ job.idx \in Nat
        /\ job'.pc = "none" /\ UNCHANGED chain
    BY <1>1, <1>6, SignFacts
  <2>3. \A m : NextIndex(m)' = NextIndex(m) /\ ScreenersThisEpoch(m)' = ScreenersThisEpoch(m)
    BY <2>2, SameChainSameCounts
  <2>4. \A m, x : Potential(m, x)' = Potential(m, x)
    BY <2>3 DEF Potential
  <2>5. new.kind = "screener" /\ new.idx >= NextIndex(new.miner)
          => Potential(new.miner, new.idx) < Cap
    BY <2>1, <2>2 DEF CapInv, SignsScreener
  <2> QED
    BY <2>1, <2>2, <2>3, <2>4, <2>5 DEF CapInv, ScreenerCapRespected, SignsScreener
<1> QED
  BY <1>3, <1>4, <1>5, <1>6, Effects

\* perMinerScreenerCap holds on chain, however many screeners are signed before
\* the first of them lands and whatever a restart forgets, as long as the chain
\* takes no counter back.
THEOREM CapRespected ==
  ASSUME NoReorgs
  PROVE  Spec => []ScreenerCapRespected
<1>1. Init => OneForkInv /\ CapInv
  BY OneForkInit, CapInit
<1>2. CoreInv /\ OneForkInv /\ CapInv /\ [Next]_vars => OneForkInv' /\ CapInv'
  BY OneForkStep, CapStep
<1>3. CapInv => ScreenerCapRespected
  BY DEF CapInv
<1> QED
  BY <1>1, <1>2, <1>3, CoreInvariance, PTL DEF Spec

(***************************************************************************)
(* No solve index twice                                                    *)
(***************************************************************************)
\* A live receipt's index is behind the contract's counter or behind a
\* reservation that outlives it, and a submit about to be signed is past the
\* live receipts of its miner.
Covered(r) ==
  \/ r.idx < NextIndex(r.miner)
  \/ /\ r.idx < reservation[r.miner].next
     /\ r.expires <= reservation[r.miner].exp

IndexInv ==
  /\ job.pc # "none" => job.at <= now
  /\ \A r \in issued :
       /\ r.miner \in Miners
       /\ r.expires <= now + Ttl
       /\ job.pc # "none" => r.expires <= job.at + Ttl
       /\ r.expires > now => Covered(r)
       /\ job.pc = "sign" /\ r.miner = job.miner /\ r.expires > now => r.idx < job.idx
  /\ NoCounterDoubleSpend

LEMMA IndexInit == Init => IndexInv
BY DEF Init, EmptyMemory, IndexInv, NoCounterDoubleSpend, NoJob

LEMMA JobTime ==
  ASSUME TypeOK, job.pc # "none"
  PROVE  job.at \in Nat
BY JobByPosition DEF JobType, NoJob, PreparingJob, ScoringJob, CountersJob, SigningJob

LEMMA IndexMine ==
  ASSUME TypeInv, IndexInv, ChainMoves
  PROVE  IndexInv'
<1>1. TypeOK /\ ChainTypeOK /\ now \in Nat
  BY DEF TypeInv, TypeOK, ChainTypeOK
<1>2. PICK b \in Receipt \cup {NoReceipt} : Mine(b)
  BY DEF ChainMoves, Mines
<1>3. UNCHANGED <<job, issued, reservation>> /\ now' = now + 1
  BY <1>2 DEF ChainMoves, receiptsVars, Mine
<1>4. \A m : NextIndex(m) \in Nat /\ NextIndex(m)' \in Nat /\ NextIndex(m)' >= NextIndex(m)
  <2>1. \A m : NextIndex(m) \in Nat
    BY <1>1, BlockSets
  <2> QED
    BY <1>1, <1>2, <2>1, MineCounts
<1>5. ASSUME NEW r \in issued
      PROVE  /\ r.expires \in Nat /\ r.idx \in Nat
             /\ r.expires > now' => r.expires > now
             /\ r.expires <= now' + Ttl
             /\ Covered(r) => Covered(r)'
  <2>1. r.expires \in Nat /\ r.idx \in Nat
    BY <1>1, ReceiptFields
  <2>2. r.expires <= now + Ttl
    BY DEF IndexInv
  <2>3. Covered(r) => Covered(r)'
    BY <1>3, <1>4, <2>1 DEF Covered
  <2> QED
    BY <1>1, <1>3, <2>1, <2>2, <2>3, CoreAssumption
<1>6. job.pc # "none" => job.at <= now'
  BY <1>1, <1>3, JobTime DEF IndexInv
<1> QED
  BY <1>3, <1>5, <1>6 DEF IndexInv, NoCounterDoubleSpend

LEMMA IndexSweep ==
  ASSUME TypeInv, IndexInv, Sweeps
  PROVE  IndexInv'
<1>1. TypeOK /\ now \in Nat
  BY DEF TypeInv, TypeOK, ChainTypeOK
<1>2. reservation' = GcReservations /\ UNCHANGED <<chain, now, issued>>
  BY DEF Sweeps, GcPending
<1>3. job' = job \/ job'.pc = "none" \/ (job'.pc = "epochCheck" /\ job'.at = now)
  BY DEF Sweeps, NoJob
<1>4. \A m : NextIndex(m)' = NextIndex(m)
  BY <1>2, SameChainSameCounts
<1>5. ASSUME NEW r \in issued, r.expires > now PROVE Covered(r)'
  <2>1. Covered(r) /\ r.miner \in Miners
    BY <1>5 DEF IndexInv
  <2>2. CASE r.idx < NextIndex(r.miner)
    BY <1>4, <2>2 DEF Covered
  <2>3. CASE r.idx < reservation[r.miner].next /\ r.expires <= reservation[r.miner].exp
    <3>1. r.expires \in Nat /\ reservation[r.miner].exp \in Nat
      BY <1>1, <2>1, ReceiptFields DEF TypeOK, Reservation
    <3>2. ~(reservation[r.miner].exp <= now)
      BY <1>1, <1>5, <2>3, <3>1
    <3>3. reservation'[r.miner] = reservation[r.miner]
      BY <1>2, <2>1, <3>2 DEF GcReservations
    <3> QED
      BY <2>3, <3>3 DEF Covered
  <2> QED
    BY <2>1, <2>2, <2>3 DEF Covered
<1> QED
  BY <1>1, <1>2, <1>3, <1>5 DEF IndexInv, NoCounterDoubleSpend

LEMMA IndexRead ==
  ASSUME TypeInv, IndexInv, ReadCounters
  PROVE  IndexInv'
<1> DEFINE m == job.miner
<1>1. TypeOK /\ ChainTypeOK
  BY DEF TypeInv, TypeOK
<1>2. m \in Miners /\ UNCHANGED <<chain, now, issued>> /\ job.pc = "counters"
  BY ReadFacts DEF ReadCounters
<1>3. /\ NextIndex(m) \in Nat /\ reservation[m].next \in Nat
      /\ reservation \in [Miners -> Reservation]
  BY <1>1, <1>2, BlockSets DEF TypeOK, Reservation
<1>4. \A n : NextIndex(n)' = NextIndex(n)
  BY <1>2, SameChainSameCounts
<1>5. \/ job'.pc = "none"
      \/ job'.pc = "sign" /\ job'.at = job.at /\ job'.miner = m /\ job'.idx = SolveIndex(m)
  BY ReadFacts
<1>6. \/ reservation' = reservation
      \/ /\ NextIndex(m) >= reservation[m].next
         /\ reservation' = [reservation EXCEPT ![m] = NoReservation]
  BY ReadFacts DEF Landed
<1> HIDE DEF m
<1>7. ASSUME NEW r \in issued, r.expires > now
      PROVE  Covered(r)' /\ (r.miner = m => r.idx < SolveIndex(m))
  <2>1. Covered(r) /\ r.miner \in Miners /\ r.idx \in Nat
    BY <1>1, <1>7, ReceiptFields DEF IndexInv
  <2>2. r.miner = m => r.idx < SolveIndex(m)
    BY <1>3, <2>1 DEF Covered, SolveIndex, Landed
  <2>3. CASE reservation' = reservation
    BY <1>4, <2>1, <2>2, <2>3 DEF Covered
  <2>4. CASE /\ NextIndex(m) >= reservation[m].next
             /\ reservation' = [reservation EXCEPT ![m] = NoReservation]
    <3>1. CASE r.miner = m
      <4>1. r.idx < NextIndex(r.miner)
        BY <1>3, <2>1, <2>4, <3>1 DEF Covered
      <4> QED
        BY <1>4, <2>2, <4>1 DEF Covered
    <3>2. CASE r.miner # m
      <4>1. reservation'[r.miner] = reservation[r.miner]
        BY <1>3, <2>1, <2>4, <3>2
      <4> QED
        BY <1>4, <2>1, <2>2, <4>1 DEF Covered
    <3> QED
      BY <3>1, <3>2
  <2> QED
    BY <1>6, <2>2, <2>3, <2>4
<1>8. job'.pc # "none" => job'.at = job.at
  BY <1>5
<1> QED
  BY <1>2, <1>5, <1>7, <1>8 DEF IndexInv, NoCounterDoubleSpend

LEMMA IndexSign ==
  ASSUME TypeInv, IndexInv, SignReceipt
  PROVE  IndexInv'
<1>1. TypeOK /\ ChainTypeOK /\ now \in Nat
  BY DEF TypeInv, TypeOK, ChainTypeOK
<1>2. /\ job.pc = "sign" /\ job.miner \in Miners /\ job.idx \in Nat /\ job.at \in Nat
      /\ job'.pc = "none" /\ UNCHANGED <<chain, now>> /\ job.at <= now
  BY SignFacts DEF IndexInv
<1>3. PICK new, last :
        /\ issued' = issued \cup {new}
        /\ new.miner = job.miner /\ new.idx = job.idx
        /\ new.expires = job.at + Ttl
        /\ reservation' = [reservation EXCEPT ![job.miner] =
                             [next |-> job.idx + 1, last |-> last, exp |-> job.at + Ttl]]
  BY SignFacts
<1>4. reservation \in [Miners -> Reservation]
  BY <1>1 DEF TypeOK
<1>5. /\ reservation'[job.miner].next = job.idx + 1
      /\ reservation'[job.miner].exp = job.at + Ttl
      /\ \A m \in Miners : m # job.miner => reservation'[m] = reservation[m]
  BY <1>2, <1>3, <1>4
<1>6. \A m : NextIndex(m)' = NextIndex(m)
  BY <1>2, SameChainSameCounts
<1>7. ASSUME NEW r \in issued, r.expires > now
      PROVE  Covered(r)' /\ ~(r.miner = new.miner /\ r.idx = new.idx)
  <2>1. /\ r.miner \in Miners /\ r.idx \in Nat /\ Covered(r)
        /\ r.miner = job.miner => r.idx < job.idx
        /\ r.expires <= job.at + Ttl
    BY <1>1, <1>2, <1>7, ReceiptFields DEF IndexInv
  <2>2. CASE r.miner = job.miner
    BY <1>2, <1>3, <1>5, <2>1, <2>2 DEF Covered
  <2>3. CASE r.miner # job.miner
    BY <1>3, <1>5, <1>6, <2>1, <2>3 DEF Covered
  <2> QED
    BY <2>2, <2>3
<1>8. Covered(new)' /\ new.miner \in Miners /\ new.expires <= now + Ttl
  <2>1. new.expires <= now + Ttl
    BY <1>1, <1>2, <1>3, CoreAssumption
  <2>2. new.idx < reservation'[new.miner].next /\ new.expires <= reservation'[new.miner].exp
    BY <1>2, <1>3, <1>5, CoreAssumption
  <2> QED
    BY <1>2, <1>3, <2>1, <2>2 DEF Covered
<1>9. NoCounterDoubleSpend'
  <2> SUFFICES ASSUME NEW r1 \in issued', NEW r2 \in issued',
                      r1.miner = r2.miner, r1.idx = r2.idx, r1.expires > now, r2.expires > now
               PROVE  r1 = r2
    BY <1>2 DEF NoCounterDoubleSpend
  <2>1. CASE r1 \in issued /\ r2 \in issued
    BY <2>1 DEF IndexInv, NoCounterDoubleSpend
  <2> QED
    BY <1>3, <1>7, <2>1
<1> QED
  BY <1>2, <1>3, <1>7, <1>8, <1>9 DEF IndexInv

LEMMA IndexStep ==
  ASSUME NoReorgs, NoRestarts, CoreInv, OneForkInv, OneLifeInv, IndexInv, [Next]_vars
  PROVE  IndexInv'
<1>1. TypeInv
  BY DEF CoreInv
<1>2. CASE Settles
  <2>1. UNCHANGED <<chain, now, issued, reservation>>
    BY <1>2 DEF Settles
  <2>2. /\ job'.pc # "none" => job.pc # "none" /\ job'.at = job.at
        /\ job'.pc = "sign" => job' = job
    BY <1>2 DEF Settles, JobGoesOn, NoJob
  <2>3. \A m : NextIndex(m)' = NextIndex(m)
    BY <2>1, SameChainSameCounts
  <2>4. \A r : Covered(r)' <=> Covered(r)
    BY <2>1, <2>3 DEF Covered
  <2> QED
    BY <2>1, <2>2, <2>4 DEF IndexInv, NoCounterDoubleSpend
<1>3. CASE Restarts
  <2>1. issued' = {} /\ job'.pc = "none"
    BY <1>3 DEF Restarts, Crash, LoseMemory, NoJob, NoRestarts, OneLifeInv
  <2> QED
    BY <2>1 DEF IndexInv, NoCounterDoubleSpend
<1> QED
  BY <1>1, <1>2, <1>3, IndexMine, IndexSweep, IndexRead, IndexSign, Effects

(***************************************************************************)
(* The theorems about one life of the process                              *)
(***************************************************************************)
\* Two submits of a patch never both get a receipt while one of the receipts
\* lives, however scoring, expiry sweeps and confirmations interleave, until a
\* restart forgets submitDedup.
THEOREM OneLiveReceipt ==
  ASSUME NoReorgs, NoRestarts
  PROVE  Spec => []OneLiveReceiptPerPatch
<1>1. Init => OneForkInv /\ OneLifeInv /\ DedupInv
  BY OneForkInit, DedupInit
<1>2. CoreInv /\ OneForkInv /\ OneLifeInv /\ DedupInv /\ [Next]_vars
        => OneForkInv' /\ OneLifeInv' /\ DedupInv'
  BY OneForkStep, OneLifeStep, DedupStep
<1>3. DedupInv => OneLiveReceiptPerPatch
  BY DEF DedupInv
<1> QED
  BY <1>1, <1>2, <1>3, CoreInvariance, PTL DEF Spec

\* Two live receipts of a miner never carry the same solve index, until a
\* restart forgets minerChainReservations or a reorganisation takes a counter
\* back.
THEOREM CountersSpentOnce ==
  ASSUME NoReorgs, NoRestarts
  PROVE  Spec => []NoCounterDoubleSpend
<1>1. Init => OneForkInv /\ OneLifeInv /\ IndexInv
  BY OneForkInit, IndexInit
<1>2. CoreInv /\ OneForkInv /\ OneLifeInv /\ IndexInv /\ [Next]_vars
        => OneForkInv' /\ OneLifeInv' /\ IndexInv'
  BY OneForkStep, OneLifeStep, IndexStep
<1>3. IndexInv => NoCounterDoubleSpend
  BY DEF IndexInv
<1> QED
  BY <1>1, <1>2, <1>3, CoreInvariance, PTL DEF Spec

(***************************************************************************)
(* What the confirmation depth gives: as long as no reorganisation reaches *)
(* below it, the replica is the registry as of the block it has scanned,   *)
(* and a rollback, when one happens, lands on a canonical block.           *)
(***************************************************************************)
\* The chain keeps what is confirmed, and the replay begins in confirmed blocks.
\* (MaxForkDepth bounds one reorganisation: two in a row could reach deeper.)
Finality ==
  /\ MaxForks <= 1
  /\ MaxForkDepth <= Depth
  /\ ReplayFrom + Depth <= LaunchBlocks

\* The height up to which no block will be replaced.
Stable == IF forks = 0 THEN Len(chain) - Depth ELSE Len(chain)

\* Every advance builds on the registry as the block before left it, and none
\* was mined before the replay begins.
RegistryInv ==
  /\ ReplayFrom <= Stable
  /\ AdvanceBlocks(ReplayFrom) = {}
  /\ \A i \in AdvanceBlocks(Len(chain)) : ParentOf[chain[i].rcpt.patch] = RegistryRoot(i - 1)

\* The block up to which the replica has applied the events.
Applied == IF tick.pc = "apply" THEN tick.at - 1 ELSE lastScanned

HoldsRegistry(n) == transitions = TransitionCount(n) /\ liveRoot = RegistryRoot(n)

ScanInv ==
  /\ lastScanned <= Stable
  /\ tick.pc # "idle" => tick.safe <= Stable
  /\ tick.pc = "apply" => tick.at - 1 <= tick.safe
  /\ ~booted /\ tick.pc = "idle" => lastScanned = 0

SnapshotInv ==
  \A i \in DOMAIN snapshots :
    /\ snapshots[i].block \in 1..Stable
    /\ chain[snapshots[i].block].fork = snapshots[i].fork

AppliedInv == \A n \in Int : n = Applied => HoldsRegistry(n)

PrefixInv == RegistryInv /\ ScanInv /\ AppliedInv /\ SnapshotInv

(***************************************************************************)
(* The registry as of a block                                              *)
(***************************************************************************)
LEMMA SameAdvances ==
  ASSUME NEW m, NEW n, AdvanceBlocks(m) = AdvanceBlocks(n)
  PROVE  TransitionCount(m) = TransitionCount(n) /\ RegistryRoot(m) = RegistryRoot(n)
BY DEF TransitionCount, RegistryRoot

\* It depends on the blocks up to that one alone.
LEMMA SamePrefix ==
  ASSUME ChainTypeOK, NEW n \in Int, n <= Len(chain), n <= Len(chain'), Len(chain') \in Nat,
         \A i \in 1..n : chain'[i] = chain[i]
  PROVE  /\ AdvanceBlocks(n)' = AdvanceBlocks(n)
         /\ TransitionCount(n)' = TransitionCount(n)
         /\ RegistryRoot(n)' = RegistryRoot(n)
<1>1. Len(chain) \in Nat
  BY DEF ChainTypeOK
<1>2. AdvanceBlocks(n)' = AdvanceBlocks(n)
  BY <1>1 DEF AdvanceBlocks
<1>3. TransitionCount(n)' = TransitionCount(n)
  BY <1>2 DEF TransitionCount
<1>4. RegistryRoot(n)' = RegistryRoot(n)
  <2>1. CASE AdvanceBlocks(n) = {}
    BY <1>2, <2>1 DEF RegistryRoot
  <2>2. CASE AdvanceBlocks(n) # {}
    <3>1. n \in Nat /\ AdvanceBlocks(n) \in SUBSET (1..n)
      BY <2>2 DEF AdvanceBlocks
    <3>2. Latest(AdvanceBlocks(n)) \in 1..n
      BY <2>2, <3>1, LatestIsGreatest
    <3> QED
      BY <1>2, <3>2 DEF RegistryRoot
  <2> QED
    BY <2>1, <2>2
<1> QED
  BY <1>2, <1>3, <1>4

\* The next advance is one more, and its root is the registry's.
LEMMA OneMoreAdvance ==
  ASSUME ChainTypeOK, NEW i \in AdvanceBlocks(Len(chain)), NEW m \in Int, m < i,
         \A j \in AdvanceBlocks(Len(chain)) : j <= m \/ i <= j
  PROVE  /\ TransitionCount(i) = TransitionCount(m) + 1
         /\ RegistryRoot(i) = RootAfter[chain[i].rcpt.patch]
         /\ RegistryRoot(i - 1) = RegistryRoot(m)
<1>1. Len(chain) \in Nat /\ i \in 1..Len(chain) /\ chain[i].rcpt.kind = "advance"
  BY DEF ChainTypeOK, AdvanceBlocks
<1>2. AdvanceBlocks(i) = AdvanceBlocks(m) \cup {i} /\ i \notin AdvanceBlocks(m)
  BY <1>1 DEF AdvanceBlocks
<1>3. AdvanceBlocks(i - 1) = AdvanceBlocks(m)
  BY <1>1 DEF AdvanceBlocks
<1>4. IsFiniteSet(AdvanceBlocks(m))
  <2>1. AdvanceBlocks(m) \in SUBSET (1..Len(chain))
    BY BlockSets
  <2>2. IsFiniteSet(1..Len(chain))
    BY <1>1, FS_Interval
  <2> QED
    BY <2>1, <2>2, FS_Subset
<1>5. TransitionCount(i) = TransitionCount(m) + 1
  BY <1>2, <1>4, FS_AddElement DEF TransitionCount
<1>6. Latest(AdvanceBlocks(i)) = i
  <2>1. AdvanceBlocks(i) \in SUBSET (1..i) /\ AdvanceBlocks(i) # {} /\ i \in Nat
    BY <1>1, <1>2 DEF AdvanceBlocks
  <2>2. /\ Latest(AdvanceBlocks(i)) \in AdvanceBlocks(i)
        /\ \A j \in AdvanceBlocks(i) : j <= Latest(AdvanceBlocks(i))
    BY <2>1, LatestIsGreatest
  <2>3. Latest(AdvanceBlocks(i)) \in 1..i /\ i <= Latest(AdvanceBlocks(i))
    BY <1>2, <2>1, <2>2
  <2> QED
    BY <1>1, <2>3
<1>7. RegistryRoot(i) = RootAfter[chain[i].rcpt.patch]
  BY <1>2, <1>6 DEF RegistryRoot
<1> QED
  BY <1>3, <1>5, <1>7, SameAdvances

(***************************************************************************)
(* What the chain may do                                                   *)
(***************************************************************************)
KeepsStable ==
  /\ Stable <= Stable'
  /\ \A i \in 1..Stable : chain'[i] = chain[i]

LEMMA StableHeight ==
  ASSUME ChainTypeOK
  PROVE  Stable \in Int /\ Stable <= Len(chain) /\ Len(chain) \in Nat
BY ChainAssumption DEF Stable, ChainTypeOK

LEMMA RegistryInit == ASSUME Finality PROVE Init => RegistryInv
<1> SUFFICES ASSUME Init PROVE RegistryInv
  OBVIOUS
<1>1. Len(chain) = LaunchBlocks /\ forks = 0 /\ \A i \in DOMAIN chain : chain[i].rcpt = NoReceipt
  BY ChainAssumption DEF Init, ChainInit
<1>2. DOMAIN chain = 1..LaunchBlocks
  BY ChainAssumption DEF Init, ChainInit
<1>3. \A n : AdvanceBlocks(n) = {}
  BY <1>1, <1>2 DEF AdvanceBlocks, NoReceipt
<1>4. ReplayFrom <= Stable
  BY <1>1, ChainAssumption, CoreAssumption DEF Stable, Finality
<1> QED
  BY <1>3, <1>4 DEF RegistryInv

LEMMA RegistryMine ==
  ASSUME TypeInv, RegistryInv, NEW r \in Receipt \cup {NoReceipt}, Mine(r),
         r.kind = "advance" => CanLand(r)
  PROVE  KeepsStable /\ RegistryInv'
<1>1. /\ chain \in Seq(Block) /\ Len(chain) \in Nat /\ forks \in Nat
      /\ ChainTypeOK
  BY DEF TypeInv, TypeOK, ChainTypeOK
<1>2. [fork |-> forks, rcpt |-> r] \in Block
  BY <1>1 DEF Block
<1>3. /\ chain' \in Seq(Block) /\ Len(chain') = Len(chain) + 1
      /\ \A i \in 1..Len(chain) : chain'[i] = chain[i]
      /\ chain'[Len(chain) + 1] = [fork |-> forks, rcpt |-> r]
      /\ forks' = forks
  BY <1>1, <1>2 DEF Mine
<1>4. Stable' = Stable + 1 /\ Stable \in Int /\ Stable <= Len(chain)
  BY <1>1, <1>3, ChainAssumption DEF Stable
<1>5. \A n \in Int : n <= Len(chain) =>
        AdvanceBlocks(n)' = AdvanceBlocks(n) /\ RegistryRoot(n)' = RegistryRoot(n)
  BY <1>1, <1>3, SamePrefix
<1>6. ReplayFrom <= Stable' /\ AdvanceBlocks(ReplayFrom)' = {}
  BY <1>4, <1>5, CoreAssumption DEF RegistryInv
<1>7. ASSUME NEW i \in AdvanceBlocks(Len(chain))'
      PROVE  ParentOf[chain'[i].rcpt.patch] = RegistryRoot(i - 1)'
  <2>1. i \in 1..Len(chain) + 1 /\ chain'[i].rcpt.kind = "advance"
    BY <1>1, <1>3 DEF AdvanceBlocks
  <2>2. RegistryRoot(i - 1)' = RegistryRoot(i - 1)
    BY <1>5, <2>1
  <2>3. CASE i <= Len(chain)
    <3>1. i \in AdvanceBlocks(Len(chain)) /\ chain'[i] = chain[i]
      BY <1>1, <1>3, <2>1, <2>3 DEF AdvanceBlocks
    <3> QED
      BY <2>2, <3>1 DEF RegistryInv
  <2>4. CASE i = Len(chain) + 1
    <3>1. ParentOf[r.patch] = RegistryRoot(Len(chain))
      BY <1>3, <2>1, <2>4 DEF CanLand
    <3> QED
      BY <1>1, <1>3, <2>2, <2>4, <3>1
  <2> QED
    BY <1>1, <2>1, <2>3, <2>4
<1>8. KeepsStable
  BY <1>1, <1>3, <1>4 DEF KeepsStable
<1> QED
  BY <1>6, <1>7, <1>8 DEF RegistryInv

LEMMA RegistryReorg ==
  ASSUME Finality, TypeInv, RegistryInv, NEW keep \in 0..Len(chain), Reorg(keep)
  PROVE  KeepsStable /\ RegistryInv'
<1>1. /\ chain \in Seq(Block) /\ Len(chain) \in Nat /\ forks \in Nat
      /\ ChainTypeOK
  BY DEF TypeInv, TypeOK, ChainTypeOK
<1>2. /\ chain' \in Seq(Block) /\ Len(chain') = keep
      /\ \A i \in 1..keep : chain'[i] = chain[i]
      /\ forks' = forks + 1
  BY <1>1 DEF Reorg
<1>3. forks = 0 /\ Len(chain) - keep <= Depth
  BY <1>1, ChainAssumption DEF Reorg, Finality
<1>4. Stable = Len(chain) - Depth /\ Stable' = keep /\ Stable <= keep
  BY <1>1, <1>2, <1>3, ChainAssumption DEF Stable
<1>5. \A n \in Int : n <= keep =>
        AdvanceBlocks(n)' = AdvanceBlocks(n) /\ RegistryRoot(n)' = RegistryRoot(n)
  BY <1>1, <1>2, SamePrefix
<1>6. ReplayFrom <= Stable' /\ AdvanceBlocks(ReplayFrom)' = {}
  BY <1>1, <1>4, <1>5, CoreAssumption, ChainAssumption DEF RegistryInv
<1>7. ASSUME NEW i \in AdvanceBlocks(Len(chain))'
      PROVE  ParentOf[chain'[i].rcpt.patch] = RegistryRoot(i - 1)'
  <2>1. i \in 1..keep /\ i \in AdvanceBlocks(Len(chain)) /\ chain'[i] = chain[i]
    BY <1>1, <1>2 DEF AdvanceBlocks
  <2>2. RegistryRoot(i - 1)' = RegistryRoot(i - 1)
    BY <1>5, <2>1
  <2> QED
    BY <2>1, <2>2 DEF RegistryInv
<1>8. KeepsStable
  BY <1>1, <1>2, <1>4, ChainAssumption DEF KeepsStable
<1> QED
  BY <1>6, <1>7, <1>8 DEF RegistryInv

LEMMA RegistryStays ==
  ASSUME RegistryInv, UNCHANGED <<chain, forks>>
  PROVE  /\ RegistryInv' /\ Stable' = Stable
         /\ \A n : /\ TransitionCount(n)' = TransitionCount(n)
                  /\ RegistryRoot(n)' = RegistryRoot(n)
<1>1. chain' = chain /\ forks' = forks
  OBVIOUS
<1>2. \A n : AdvanceBlocks(n)' = AdvanceBlocks(n)
  BY <1>1 DEF AdvanceBlocks
<1>3. \A n : TransitionCount(n)' = TransitionCount(n)
  BY <1>2 DEF TransitionCount
<1>4. \A n : RegistryRoot(n)' = RegistryRoot(n)
  BY <1>1, <1>2 DEF RegistryRoot
<1>5. Stable' = Stable
  BY <1>1 DEF Stable
<1>6. AdvanceBlocks(Len(chain))' = AdvanceBlocks(Len(chain))
  BY <1>1, <1>2
<1>7. RegistryInv'
  BY <1>1, <1>2, <1>4, <1>5, <1>6 DEF RegistryInv
<1> QED
  BY <1>3, <1>4, <1>5, <1>7

\* Whatever the chain does, what is confirmed stays.
LEMMA RegistryChain ==
  ASSUME Finality, TypeInv, RegistryInv, Environment
  PROVE  KeepsStable /\ RegistryInv'
<1>1. issued \subseteq Receipt /\ Stable \in Int
  BY StableHeight DEF TypeInv, TypeOK
<1>2. CASE MineEmpty
  <2>1. Mine(NoReceipt) /\ NoReceipt \in Receipt \cup {NoReceipt}
    BY <1>2 DEF MineEmpty
  <2>2. NoReceipt.kind # "advance"
    BY DEF NoReceipt
  <2> QED
    BY <2>1, <2>2, RegistryMine
<1>3. CASE LandReceipt
  <2>1. PICK r \in issued : CanLand(r) /\ Mine(r)
    BY <1>3 DEF LandReceipt
  <2> QED
    BY <1>1, <2>1, RegistryMine
<1>4. CASE LandForeign
  <2>1. PICK p \in ForeignPatches, s \in Scores :
          CanLand(ForeignAdvance(p, s)) /\ Mine(ForeignAdvance(p, s))
    BY <1>4 DEF LandForeign
  <2>2. NextIndex(Foreigner) \in Nat /\ now \in Nat
    BY BlockSets DEF TypeInv, TypeOK, ChainTypeOK
  <2>3. ForeignAdvance(p, s) \in Receipt
    BY <2>1, <2>2, ChainAssumption DEF ForeignAdvance, Receipt, ReceiptOf
  <2> QED
    BY <2>1, <2>3, RegistryMine
<1>5. CASE ChainReorg
  BY <1>5, RegistryReorg DEF ChainReorg
<1>6. CASE EpochRollover
  <2>1. UNCHANGED <<chain, forks>>
    BY <1>6 DEF EpochRollover, CloseEpoch
  <2>2. RegistryInv' /\ Stable' = Stable
    BY <2>1, RegistryStays
  <2> QED
    BY <1>1, <2>1, <2>2 DEF KeepsStable
<1> QED
  BY <1>2, <1>3, <1>4, <1>5, <1>6 DEF Environment

(***************************************************************************)
(* What the replica does                                                   *)
(***************************************************************************)
LEMMA PrefixTypes ==
  ASSUME TypeInv
  PROVE  /\ ChainTypeOK /\ Len(chain) \in Nat /\ Stable \in Int /\ Stable <= Len(chain)
         /\ lastScanned \in Int /\ tick.safe \in Int /\ tick.at \in Int
         /\ tick = [pc |-> tick.pc, safe |-> tick.safe, at |-> tick.at]
         /\ Applied \in Int
BY StableHeight DEF TypeInv, TypeOK, Applied

\* No block the replica built on is ever replaced.
LEMMA NothingReplaced ==
  ASSUME SnapshotInv, TypeInv
  PROVE  ~ReorgSeen
<1> SUFFICES ASSUME snapshots # <<>>, Replaced(Last(snapshots))
             PROVE  FALSE
  BY DEF ReorgSeen
<1>1. Len(snapshots) \in DOMAIN snapshots
  BY DEF TypeInv, TypeOK
<1> QED
  BY <1>1 DEF SnapshotInv, Replaced, Last

\* The next event is the registry's next.
LEMMA EventIsNext ==
  ASSUME TypeInv, PrefixInv, tick.pc = "apply", BatchLeft # {}
  PROVE  LET i == Earliest(BatchLeft)
         IN  /\ i \in Int /\ tick.at <= i /\ i <= tick.safe /\ i \in 1..Stable
             /\ EventAccepted(i)
             /\ TransitionCount(i) = transitions + 1
             /\ RegistryRoot(i) = RootAfter[Event(i).patch]
<1> DEFINE i == Earliest(BatchLeft)
           m == tick.at - 1
<1>1. /\ ChainTypeOK /\ Len(chain) \in Nat /\ Stable \in Int /\ Stable <= Len(chain)
      /\ tick.safe \in Int /\ tick.at \in Int /\ m \in Int
      /\ tick.safe <= Stable
  BY PrefixTypes DEF PrefixInv, ScanInv
<1>2. i \in BatchLeft /\ \A j \in BatchLeft : i <= j
  <2>1. AdvanceBlocks(tick.safe) \in SUBSET (1..Len(chain))
    BY <1>1, BlockSets
  <2>2. BatchLeft \in SUBSET Nat
    BY <1>1, <2>1 DEF BatchLeft
  <2> QED
    BY <2>2, EarliestIsLeast
<1> HIDE DEF i
<1>3. /\ i \in 1..Len(chain) /\ tick.at <= i /\ i <= tick.safe
      /\ i \in AdvanceBlocks(Len(chain))
  BY <1>1, <1>2 DEF BatchLeft, AdvanceBlocks
<1>4. \A j \in AdvanceBlocks(Len(chain)) : j <= m \/ i <= j
  <2>1. ASSUME NEW j \in AdvanceBlocks(Len(chain)), j > m, j <= tick.safe
        PROVE  j \in BatchLeft
    BY <1>1, <2>1 DEF BatchLeft, AdvanceBlocks
  <2>2. AdvanceBlocks(Len(chain)) \in SUBSET (1..Len(chain))
    BY <1>1, BlockSets
  <2> QED
    BY <1>1, <1>2, <1>3, <2>1, <2>2
<1>5. m < i
  BY <1>1, <1>3
<1> HIDE DEF m
<1>6. /\ TransitionCount(i) = TransitionCount(m) + 1
      /\ RegistryRoot(i) = RootAfter[chain[i].rcpt.patch]
      /\ RegistryRoot(i - 1) = RegistryRoot(m)
  BY <1>1, <1>3, <1>4, <1>5, OneMoreAdvance
<1>7. transitions = TransitionCount(m) /\ liveRoot = RegistryRoot(m) /\ transitions \in Nat
  <2>1. m = Applied
    BY DEF Applied, m
  <2> QED
    BY <1>1, <2>1 DEF PrefixInv, AppliedInv, HoldsRegistry, TypeInv, TypeOK
<1>8. ParentOf[chain[i].rcpt.patch] = RegistryRoot(i - 1)
  BY <1>3 DEF PrefixInv, RegistryInv
<1>9. EventAccepted(i)
  BY <1>6, <1>7, <1>8 DEF EventAccepted, Event
<1> QED
  BY <1>1, <1>3, <1>6, <1>7, <1>9 DEF i, Event

\* When no event is left the replica has what the registry has.
LEMMA ScanComplete ==
  ASSUME TypeInv, PrefixInv, tick.pc = "apply", BatchLeft = {}
  PROVE  HoldsRegistry(tick.safe)
<1> DEFINE m == tick.at - 1
<1>1. /\ tick.safe \in Int /\ tick.at \in Int /\ m \in Int /\ m <= tick.safe
      /\ ChainTypeOK
  BY PrefixTypes DEF PrefixInv, ScanInv
<1>2. AdvanceBlocks(tick.safe) = AdvanceBlocks(m)
  BY <1>1 DEF BatchLeft, AdvanceBlocks
<1>3. HoldsRegistry(m)
  BY <1>1 DEF PrefixInv, AppliedInv, Applied
<1> QED
  BY <1>2, <1>3, SameAdvances DEF HoldsRegistry

(***************************************************************************)
(* Every step keeps the replica on the registry's line                     *)
(***************************************************************************)
LEMMA NothingAtZero ==
  ASSUME RegistryInv, NEW n \in Int, n <= ReplayFrom
  PROVE  /\ AdvanceBlocks(n) = {}
         /\ TransitionCount(n) = 0 /\ RegistryRoot(n) = LaunchRoot
<1>1. AdvanceBlocks(n) = {}
  BY CoreAssumption DEF RegistryInv, AdvanceBlocks
<1> QED
  BY <1>1, FS_EmptySet DEF TransitionCount, RegistryRoot

LEMMA PrefixRestart ==
  ASSUME RegistryInv, ChainTypeOK, LoseMemory, UNCHANGED <<chain, forks>>
  PROVE  PrefixInv'
<1>1. RegistryInv' /\ Stable' = Stable
  BY RegistryStays
<1>2. ReplayFrom <= Stable /\ Stable \in Int
  BY StableHeight DEF RegistryInv
<1>3. ScanInv'
  BY <1>1, <1>2, CoreAssumption DEF ScanInv, LoseMemory, IdleTick
<1>4. SnapshotInv'
  BY DEF SnapshotInv, LoseMemory
<1>5. ASSUME NEW n \in Int, n = Applied'
      PROVE  HoldsRegistry(n)'
  <2>1. n = 0
    BY <1>5 DEF Applied, LoseMemory, IdleTick
  <2>2. TransitionCount(n)' = 0 /\ RegistryRoot(n)' = LaunchRoot
    BY <2>1, NothingAtZero, RegistryStays, CoreAssumption
  <2> QED
    BY <2>2 DEF HoldsRegistry, LoseMemory
<1> QED
  BY <1>1, <1>3, <1>4, <1>5 DEF PrefixInv, AppliedInv

LEMMA PrefixInit == ASSUME Finality PROVE Init => PrefixInv
<1> SUFFICES ASSUME Init PROVE PrefixInv
  OBVIOUS
<1>1. RegistryInv /\ TypeInv
  BY RegistryInit, InitTypes
<1>2. EmptyMemory /\ ReplayFrom <= Stable /\ Stable \in Int
  BY <1>1, PrefixTypes DEF RegistryInv, Init
<1>3. ScanInv
  BY <1>2, CoreAssumption DEF ScanInv, EmptyMemory, IdleTick
<1>4. SnapshotInv
  BY <1>2 DEF SnapshotInv, EmptyMemory
<1>5. ASSUME NEW n \in Int, n = Applied
      PROVE  HoldsRegistry(n)
  <2>1. n = 0
    BY <1>2, <1>5 DEF Applied, EmptyMemory, IdleTick
  <2>2. TransitionCount(n) = 0 /\ RegistryRoot(n) = LaunchRoot
    BY <1>1, <2>1, NothingAtZero, CoreAssumption
  <2> QED
    BY <1>2, <2>2 DEF HoldsRegistry, EmptyMemory
<1> QED
  BY <1>1, <1>3, <1>4, <1>5 DEF PrefixInv, AppliedInv

LEMMA PrefixChain ==
  ASSUME Finality, TypeInv, PrefixInv, Environment
  PROVE  PrefixInv'
<1>1. KeepsStable /\ RegistryInv'
  BY RegistryChain DEF PrefixInv
<1>2. /\ ChainTypeOK /\ ChainTypeOK'
      /\ Stable \in Int /\ Stable <= Len(chain) /\ Len(chain) \in Nat
      /\ Stable' \in Int /\ Stable' <= Len(chain') /\ Len(chain') \in Nat
      /\ lastScanned \in Int /\ tick.safe \in Int /\ tick.at \in Int
  <2>1. ChainTypeOK'
    BY ChainSteps
  <2>2. Len(chain') \in Nat /\ Stable' \in Int /\ Stable' <= Len(chain')
    BY <2>1, ChainAssumption DEF ChainTypeOK, Stable
  <2> QED
    BY <2>1, <2>2, PrefixTypes
<1>3. UNCHANGED <<booted, liveRoot, transitions, snapshots, lastScanned, tick>>
  BY ChainSteps DEF coreVars, replicaVars
<1>4. ScanInv'
  BY <1>1, <1>2, <1>3 DEF ScanInv, PrefixInv, KeepsStable
<1>5. SnapshotInv'
  BY <1>1, <1>2, <1>3 DEF SnapshotInv, PrefixInv, KeepsStable
<1>6. ASSUME NEW n \in Int, n = Applied'
      PROVE  HoldsRegistry(n)'
  <2>1. n = Applied /\ n <= Stable
    BY <1>2, <1>3, <1>6 DEF Applied, PrefixInv, ScanInv
  <2>2. \A i \in 1..n : chain'[i] = chain[i]
    BY <1>1, <1>2, <2>1 DEF KeepsStable
  <2>3. n <= Len(chain) /\ n <= Len(chain')
    BY <1>1, <1>2, <2>1 DEF KeepsStable
  <2>4. TransitionCount(n)' = TransitionCount(n) /\ RegistryRoot(n)' = RegistryRoot(n)
    BY <1>2, <2>2, <2>3, SamePrefix
  <2>5. HoldsRegistry(n)
    BY <2>1 DEF PrefixInv, AppliedInv
  <2> QED
    BY <1>3, <2>4, <2>5 DEF HoldsRegistry
<1> QED
  BY <1>1, <1>4, <1>5, <1>6 DEF PrefixInv, AppliedInv

LEMMA PrefixApply ==
  ASSUME TypeInv, PrefixInv, ApplyChainEvent
  PROVE  PrefixInv'
<1> DEFINE i == Earliest(BatchLeft)
           snap == [block |-> i, fork |-> chain[i].fork, parent |-> ParentOf[Event(i).patch],
                    root |-> RootAfter[Event(i).patch], hash |-> EventHash(i)]
<1>1. /\ i \in Int /\ tick.at <= i /\ i <= tick.safe /\ i \in 1..Stable
      /\ TransitionCount(i) = transitions + 1
      /\ RegistryRoot(i) = RootAfter[Event(i).patch]
  BY EventIsNext DEF ApplyChainEvent
<1>2. /\ i \in Nat /\ chain[i].fork \in Nat
      /\ Event(i).patch \in Patches /\ EventHash(i) \in SignedHashes
  BY NextEvent DEF ApplyChainEvent, TypeInv
<1>3. /\ liveRoot' = RootAfter[Event(i).patch]
      /\ transitions' = transitions + 1
      /\ snapshots' = PushSnapshot(snap)
      /\ tick' = [tick EXCEPT !.at = i + 1]
      /\ UNCHANGED <<booted, lastScanned, chain, forks>>
  BY DEF ApplyChainEvent, chainVars
<1>4. /\ tick.pc = "apply" /\ tick.safe \in Int
      /\ tick = [pc |-> tick.pc, safe |-> tick.safe, at |-> tick.at]
      /\ lastScanned \in Int /\ Stable \in Int
  BY PrefixTypes DEF ApplyChainEvent
<1>5. ParentOf[Event(i).patch] \in Roots /\ RootAfter[Event(i).patch] \in Roots
  BY <1>2, ChainAssumption
<1> HIDE DEF i
<1>6. tick' = [pc |-> "apply", safe |-> tick.safe, at |-> i + 1]
  BY <1>3, <1>4
<1>7. RegistryInv' /\ Stable' = Stable
  BY <1>3, RegistryStays DEF PrefixInv
<1>8. ScanInv'
  BY <1>1, <1>3, <1>4, <1>6, <1>7 DEF ScanInv, PrefixInv
<1>9. ASSUME NEW n \in Int, n = Applied'
      PROVE  HoldsRegistry(n)'
  <2>1. n = i
    BY <1>1, <1>6, <1>9 DEF Applied
  <2>2. TransitionCount(n)' = TransitionCount(n) /\ RegistryRoot(n)' = RegistryRoot(n)
    BY <1>3, RegistryStays DEF PrefixInv
  <2> QED
    BY <1>1, <1>3, <2>1, <2>2 DEF HoldsRegistry
<1>10. snap \in Snapshot
  BY <1>2, <1>5 DEF Snapshot
<1>11. snap.block = i /\ snap.fork = chain[i].fork
  OBVIOUS
<1> HIDE DEF snap
<1> DEFINE s == PushSnapshot(snap)
<1>12. /\ s \in Seq(Snapshot) /\ Len(s) \in Nat
       /\ s[Len(s)] = snap
       /\ \/ /\ Len(s) = Len(snapshots) + 1
             /\ \A k \in 1..Len(snapshots) : s[k] = snapshots[k]
          \/ /\ Len(s) = Len(snapshots)
             /\ \A k \in 1..Len(s)-1 : s[k] = snapshots[k + 1]
  BY <1>10, PushFacts DEF TypeInv
<1>13. snapshots' = s
  BY <1>3
<1> HIDE DEF s
<1>14. ASSUME NEW k \in DOMAIN s
       PROVE  s[k].block \in 1..Stable /\ chain[s[k].block].fork = s[k].fork
  <2>1. k \in 1..Len(s) /\ Len(snapshots) \in Nat /\ DOMAIN snapshots = 1..Len(snapshots)
    BY <1>12 DEF TypeInv, TypeOK
  <2>2. CASE k = Len(s)
    BY <1>1, <1>11, <1>12, <2>2
  <2>3. CASE k # Len(s)
    <3>1. \E j \in DOMAIN snapshots : s[k] = snapshots[j]
      BY <1>12, <2>1, <2>3
    <3> QED
      BY <3>1 DEF PrefixInv, SnapshotInv
  <2> QED
    BY <2>2, <2>3
<1>15. SnapshotInv'
  BY <1>3, <1>7, <1>13, <1>14 DEF SnapshotInv
<1> QED
  BY <1>7, <1>8, <1>9, <1>15 DEF PrefixInv, AppliedInv

\* The steps that leave the replica's line alone.
LEMMA PrefixOnLine ==
  ASSUME TypeInv, PrefixInv, UNCHANGED <<chain, forks, liveRoot, transitions, snapshots>>,
         ScanInv', NEW n \in Int, n = Applied', HoldsRegistry(n)
  PROVE  PrefixInv'
<1>1. /\ RegistryInv' /\ Stable' = Stable
      /\ TransitionCount(n)' = TransitionCount(n) /\ RegistryRoot(n)' = RegistryRoot(n)
  BY RegistryStays DEF PrefixInv
<1>2. SnapshotInv'
  BY <1>1 DEF SnapshotInv, PrefixInv
<1>3. HoldsRegistry(n)'
  BY <1>1 DEF HoldsRegistry
<1>4. AppliedInv'
  BY <1>3 DEF AppliedInv
<1> QED
  BY <1>1, <1>2, <1>4 DEF PrefixInv

LEMMA PrefixTick ==
  ASSUME CoreInv, PrefixInv, TickStep \/ TickFault \/ BootStep
  PROVE  PrefixInv'
<1>1. /\ ChainTypeOK /\ Len(chain) \in Nat /\ Stable \in Int /\ Stable <= Len(chain)
      /\ lastScanned \in Int /\ tick.safe \in Int /\ tick.at \in Int
      /\ tick = [pc |-> tick.pc, safe |-> tick.safe, at |-> tick.at]
      /\ Applied \in Int
      /\ TypeInv /\ RegistryInv /\ ScanInv /\ HoldsRegistry(Applied)
  BY PrefixTypes DEF CoreInv, PrefixInv, AppliedInv
<1>2. SafeHead \in Int /\ SafeHead <= Stable
  BY <1>1, ChainAssumption DEF SafeHead, Stable
<1>3. CASE ApplyChainEvent
  BY <1>1, <1>3, PrefixApply
<1>4. CASE BootFails
  BY <1>1, <1>4, PrefixRestart DEF BootFails, chainVars
<1>5. CASE RejectChainEvent
  BY <1>1, <1>5, EventIsNext DEF RejectChainEvent
<1>6. CASE TickEpochClosed \/ TickParity \/ TickFault \/ BootServe
  <2>1. /\ UNCHANGED <<chain, forks, replicaVars>>
        /\ tick.pc # "apply"
        /\ tick' = tick \/ tick' = IdleTick
        /\ booted' = TRUE
    BY <1>6 DEF TickEpochClosed, TickParity, TickFault, BootServe, chainVars, MutexFree
  <2>2. Applied' = Applied
    BY <2>1 DEF Applied, IdleTick, replicaVars
  <2>3. Stable' = Stable
    BY <2>1 DEF Stable
  <2>4. ScanInv'
    BY <1>1, <2>1, <2>3 DEF ScanInv, IdleTick, replicaVars
  <2> QED
    BY <1>1, <2>1, <2>2, <2>4, PrefixOnLine DEF replicaVars
<1>7. CASE TickStart
  <2>1. /\ UNCHANGED <<chain, forks, replicaVars>> /\ booted' = TRUE
        /\ tick.pc = "idle" /\ tick' = [pc |-> "scan", safe |-> SafeHead, at |-> 0]
    BY <1>1, <1>7, NothingReplaced DEF TickStart, PrefixInv, chainVars, MutexFree
  <2>2. Applied' = Applied
    BY <2>1 DEF Applied, replicaVars
  <2>3. Stable' = Stable
    BY <2>1 DEF Stable
  <2>4. ScanInv'
    BY <1>1, <1>2, <2>1, <2>3 DEF ScanInv, replicaVars
  <2> QED
    BY <1>1, <2>1, <2>2, <2>4, PrefixOnLine DEF replicaVars
<1>8. CASE TickScan
  <2>1. /\ UNCHANGED <<chain, forks, replicaVars>> /\ booted' = TRUE
        /\ tick.pc = "scan"
        /\ \/ /\ tick.safe > lastScanned
              /\ tick' = [pc |-> "apply", safe |-> tick.safe, at |-> lastScanned + 1]
           \/ tick' = [pc |-> "parity", safe |-> tick.safe, at |-> tick.at]
    BY <1>1, <1>8 DEF TickScan, chainVars
  <2>2. Applied' = Applied
    BY <1>1, <2>1 DEF Applied, replicaVars
  <2>3. Stable' = Stable
    BY <2>1 DEF Stable
  <2>4. ScanInv'
    BY <1>1, <2>1, <2>3 DEF ScanInv, replicaVars
  <2> QED
    BY <1>1, <2>1, <2>2, <2>4, PrefixOnLine DEF replicaVars
<1>9. CASE ScanDone
  <2>1. /\ UNCHANGED <<chain, forks, liveRoot, transitions, snapshots, booted>>
        /\ tick.pc = "apply" /\ BatchLeft = {}
        /\ tick' = [pc |-> "parity", safe |-> tick.safe, at |-> tick.at]
        /\ lastScanned' = tick.safe
    BY <1>1, <1>9 DEF ScanDone, chainVars
  <2>2. tick.safe = Applied'
    BY <2>1 DEF Applied
  <2>3. Stable' = Stable
    BY <2>1 DEF Stable
  <2>4. ScanInv'
    BY <1>1, <2>1, <2>3 DEF ScanInv
  <2>5. HoldsRegistry(tick.safe)
    BY <1>1, <2>1, ScanComplete
  <2> QED
    BY <1>1, <2>1, <2>2, <2>4, <2>5, PrefixOnLine
<1>10. CASE BootScan
  <2> DEFINE safe == IF SafeHead > ReplayFrom THEN SafeHead ELSE ReplayFrom
  <2>1. /\ UNCHANGED <<chain, forks, replicaVars, booted>>
        /\ ~booted /\ tick.pc = "idle"
        /\ tick' = [pc |-> "apply", safe |-> safe, at |-> ReplayFrom]
    BY <1>10 DEF BootScan, chainVars
  <2>2. safe \in Int /\ ReplayFrom <= safe /\ safe <= Stable
    BY <1>1, <1>2, CoreAssumption DEF RegistryInv
  <2> HIDE DEF safe
  <2>3. Stable' = Stable
    BY <2>1 DEF Stable
  <2>4. ScanInv'
    BY <1>1, <2>1, <2>2, <2>3, CoreAssumption DEF ScanInv, replicaVars
  <2>5. Applied = 0 /\ ReplayFrom - 1 = Applied' /\ ReplayFrom - 1 \in Int
    BY <1>1, <2>1, CoreAssumption DEF Applied, ScanInv
  <2>6. transitions = 0 /\ liveRoot = LaunchRoot
    <3>1. TransitionCount(0) = 0 /\ RegistryRoot(0) = LaunchRoot
      BY <1>1, NothingAtZero, CoreAssumption
    <3>2. HoldsRegistry(0)
      BY <1>1, <2>5
    <3> QED
      BY <3>1, <3>2 DEF HoldsRegistry
  <2>7. HoldsRegistry(ReplayFrom - 1)
    <3>1. TransitionCount(ReplayFrom - 1) = 0 /\ RegistryRoot(ReplayFrom - 1) = LaunchRoot
      BY <1>1, NothingAtZero, CoreAssumption
    <3> QED
      BY <2>6, <3>1 DEF HoldsRegistry
  <2> QED
    BY <1>1, <2>1, <2>4, <2>5, <2>7, PrefixOnLine DEF replicaVars
<1> QED
  BY <1>3, <1>4, <1>5, <1>6, <1>7, <1>8, <1>9, <1>10 DEF TickStep, BootStep

LEMMA PrefixStep ==
  ASSUME Finality, CoreInv, PrefixInv, [Next]_vars
  PROVE  PrefixInv'
<1>1. CASE Environment
  BY <1>1, PrefixChain DEF CoreInv
<1>2. CASE TickStep \/ TickFault \/ BootStep
  BY <1>2, PrefixTick
<1>3. CASE Crash
  BY <1>3, PrefixRestart DEF Crash, chainVars, CoreInv, TypeInv, TypeOK, PrefixInv
<1>4. CASE ~Environment /\ ~Crash /\ ~(TickStep \/ TickFault \/ BootStep)
  <2>1. UNCHANGED <<chain, forks>>
    BY <1>4, ChainOwners
  <2>2. UNCHANGED <<booted, tick, replicaVars>>
    <3>1. CASE SubmitStep \/ \E m \in Miners, p \in Patches : BeginSubmit(m, p)
      BY <3>1 DEF SubmitStep, PrepareSubmit, SubmitFault, EvaluatorRefuses, FinishSubmit,
         ReadCounters, SigningFails, SignReceipt, BeginSubmit
    <3>2. CASE \/ Freeze \/ FreezeReturns \/ Unfreeze
               \/ \E r \in Rebaselined, b \in Scores : SetRecomputedBaseline(r, b)
               \/ InvalidateBaselines \/ LookupReceipt \/ GetStatus
      BY <3>2 DEF Freeze, FreezeReturns, Unfreeze, SetRecomputedBaseline, InvalidateBaselines,
         LookupReceipt, GetStatus
    <3>3. CASE UNCHANGED vars
      BY <3>3 DEF vars
    <3> QED
      BY <1>4, <3>1, <3>2, <3>3 DEF Next
  <2>3. Applied' = Applied /\ Stable' = Stable
    BY <2>1, <2>2 DEF Applied, Stable, replicaVars
  <2>4. ScanInv'
    BY <2>2, <2>3 DEF ScanInv, replicaVars, PrefixInv
  <2>5. Applied \in Int /\ HoldsRegistry(Applied) /\ TypeInv
    BY PrefixTypes DEF CoreInv, PrefixInv, AppliedInv
  <2> QED
    BY <2>1, <2>2, <2>3, <2>4, <2>5, PrefixOnLine DEF replicaVars
<1> QED
  BY <1>1, <1>2, <1>3, <1>4

\* As long as no reorganisation reaches below the confirmation depth, the
\* replica the coordinator serves from is the registry as of lastScannedBlock,
\* through ticks that fail half-way, restarts and foreign advances.
THEOREM PrefixConfirmed == ASSUME Finality PROVE Spec => []ConfirmedPrefix
<1>1. Init => PrefixInv
  BY PrefixInit
<1>2. CoreInv /\ PrefixInv /\ [Next]_vars => PrefixInv'
  BY PrefixStep
<1>3. CoreInv /\ PrefixInv => ConfirmedPrefix
  <2> SUFFICES ASSUME CoreInv, PrefixInv, booted, tick.pc # "apply"
               PROVE  /\ lastScanned <= Len(chain)
                      /\ transitions = TransitionCount(lastScanned)
                      /\ liveRoot = RegistryRoot(lastScanned)
    BY DEF ConfirmedPrefix
  <2>1. /\ Len(chain) \in Nat /\ Stable \in Int /\ Stable <= Len(chain)
        /\ lastScanned \in Int
    BY PrefixTypes DEF CoreInv
  <2>2. lastScanned = Applied /\ lastScanned <= Stable
    BY DEF Applied, PrefixInv, ScanInv
  <2> QED
    BY <2>1, <2>2 DEF PrefixInv, AppliedInv, HoldsRegistry
<1> QED
  BY <1>1, <1>2, <1>3, CoreInvariance, PTL DEF Spec

(***************************************************************************)
(* The two keys of a tracked receipt.  What separates them from each other *)
(* is a new receipt for the same bytes; the deduplication table refuses    *)
(* one while the first can land, and the comparison with liveRoot refuses  *)
(* one after it, provided a root that was consumed does not come back.     *)
(***************************************************************************)
\* No settled receipt pins the live root.
SettledRootStaysAway ==
  \A h \in SignedHashes : pending[h].st \in {"confirmed", "stale"} => ParentOf[h[1]] # liveRoot

\* A record is tracked until it is forgotten: settled records stay.
Tracks(h) == pending[h].st # "none"

\* Both keys lead to the receipt, its window is in the deduplication table, and
\* no other receipt for the same bytes is tracked.
TrackedLookup(h) ==
  /\ pending[h].exp > now => dedup[h[1]] = pending[h].exp
  /\ cache[h].hash = h
  /\ cache[OriginalHash(h[1])].hash = h
  /\ \A g \in SignedHashes : Tracks(g) /\ g[1] = h[1] => g = h

\* A submit past its preparation is for bytes no receipt is tracked for; one
\* that waits for the epoch check has just swept the expired receipts.
LookupInv ==
  /\ \A h \in SignedHashes : Tracks(h) => TrackedLookup(h) /\ pending[h].exp # 0
  /\ job.pc = "epochCheck" =>
       \A h \in SignedHashes : pending[h].st = "pending" => dedup[h[1]] # 0
  /\ job.pc \in {"scoring", "counters", "sign"} =>
       \A h \in SignedHashes : h[1] = job.patch => ~Tracks(h)

\* A table of pending receipts with other states: the same records are tracked,
\* for the same windows.
Relabelled(pend) ==
  \A h \in SignedHashes :
    pend[h].exp = pending[h].exp /\ (pend[h].st = "none" <=> pending[h].st = "none")

JobAdvances ==
  \/ job' = NoJob
  \/ job' = job /\ (job.pc = "epochCheck" => pending' = pending)
  \/ /\ job.pc = "epochCheck" /\ job'.pc = "scoring" /\ job'.patch = job.patch
     /\ dedup[job.patch] = 0 /\ ParentOf[job.patch] = liveRoot /\ pending' = pending
  \/ /\ job.pc \in {"scoring", "counters"} /\ job'.pc \in {"counters", "sign"}
     /\ job'.patch = job.patch

KeepsKeys ==
  /\ Relabelled(pending')
  /\ UNCHANGED <<dedup, cache>>
  /\ now' \in {now, now + 1}
  /\ JobAdvances

SweepsKeys ==
  /\ \E pend \in PendingTable : Relabelled(pend) /\ GcPending(pend)
  /\ job' = job \/ job' = NoJob \/ job'.pc = "epochCheck"
  /\ now' = now

LEMMA KeysTick ==
  ASSUME CoreInv, TickStep \/ TickFault \/ BootStep
  PROVE  KeepsKeys \/ SweepsKeys \/ LoseMemory
<1>1. /\ pending \in PendingTable /\ Relabelled(pending)
      /\ \A h \in SignedHashes : pending[h] \in PendingRecord
  BY DEF CoreInv, TypeInv, TypeOK, PendingTable, Relabelled
<1>2. \A roots : AuditPending(pending, roots) \in PendingTable /\ Relabelled(AuditPending(pending, roots))
  <2> TAKE roots
  <2>1. Relabelled(AuditPending(pending, roots))
    BY <1>1 DEF Relabelled, AuditPending, PendingRecord
  <2> QED
    BY <1>1, <2>1, SettlementTypes
<1>3. CASE TickEpochClosed
  BY <1>1, <1>3 DEF TickEpochClosed, SweepsKeys, chainVars
<1>4. CASE TickParity
  <2> DEFINE pend == IF InParity THEN AuditPending(pending, stateByRoot) ELSE pending
  <2>1. pend \in PendingTable /\ Relabelled(pend)
    BY <1>1, <1>2
  <2>2. GcPending(pend) /\ UNCHANGED <<now, job>>
    BY <1>4 DEF TickParity, chainVars
  <2> QED
    BY <2>1, <2>2 DEF SweepsKeys
<1>5. CASE ApplyChainEvent
  <2>1. PICK hash : pending' = SettlePending(pending, hash)
    BY <1>5 DEF ApplyChainEvent
  <2>2. Relabelled(pending')
    BY <1>1, <2>1 DEF Relabelled, SettlePending, PendingRecord
  <2>3. job.pc # "epochCheck"
    BY <1>5 DEF ApplyChainEvent, CoreInv, MutexInv
  <2> QED
    BY <1>5, <2>2, <2>3 DEF ApplyChainEvent, KeepsKeys, JobAdvances, chainVars
<1>6. CASE TickStart
  <2>1. job.pc # "epochCheck"
    BY <1>6 DEF TickStart, MutexFree
  <2>2. Relabelled(pending')
    <3>1. CASE UNCHANGED pending
      BY <1>1, <3>1
    <3>2. CASE RollBack
      <4> DEFINE rec == ReconcilePending(pending, KeptSnapshots)
      <4>1. pending' = AuditPending(rec, stateByRoot')
        BY <3>2 DEF RollBack
      <4>2. rec \in PendingTable
        BY <1>1, SettlementTypes
      <4>3. \A h \in SignedHashes :
              rec[h].exp = pending[h].exp /\ (rec[h].st = "none" <=> pending[h].st = "none")
        <5> TAKE h \in SignedHashes
        <5>1. ReconciledState(KeptSnapshots, h) \in {"pending", "confirmed", "stale"}
          BY DEF ReconciledState
        <5>2. pending[h] \in PendingRecord
          BY <1>1
        <5> QED
          BY <5>1, <5>2 DEF ReconcilePending, PendingRecord
      <4>4. \A h \in SignedHashes : rec[h] \in PendingRecord
        BY <4>2 DEF PendingTable
      <4> HIDE DEF rec
      <4>5. \A h \in SignedHashes :
              /\ pending'[h].exp = rec[h].exp
              /\ pending'[h].st = "none" <=> rec[h].st = "none"
        BY <4>1, <4>4 DEF AuditPending, PendingRecord
      <4> QED
        BY <4>3, <4>5 DEF Relabelled
    <3> QED
      BY <1>6, <3>1, <3>2 DEF TickStart
  <2> QED
    BY <1>6, <2>1, <2>2 DEF TickStart, KeepsKeys, JobAdvances, chainVars
<1>7. CASE BootFails
  BY <1>7 DEF BootFails
<1>8. CASE TickScan \/ RejectChainEvent \/ ScanDone \/ TickFault \/ BootScan \/ BootServe
  BY <1>1, <1>8 DEF TickScan, RejectChainEvent, ScanDone, TickFault, BootScan, BootServe,
     KeepsKeys, JobAdvances, chainVars, receiptVars
<1> QED
  BY <1>3, <1>4, <1>5, <1>6, <1>7, <1>8 DEF TickStep, BootStep

LEMMA KeysSubmit ==
  ASSUME CoreInv,
         \/ SubmitStep
         \/ \E m \in Miners, p \in Patches : BeginSubmit(m, p)
         \/ Freeze \/ FreezeReturns \/ Unfreeze
         \/ \E r \in Rebaselined, b \in Scores : SetRecomputedBaseline(r, b)
         \/ InvalidateBaselines \/ LookupReceipt \/ GetStatus
         \/ UNCHANGED vars
  PROVE  KeepsKeys \/ SweepsKeys \/ SignReceipt
<1>1. pending \in PendingTable /\ Relabelled(pending)
  BY DEF CoreInv, TypeInv, TypeOK, PendingTable, Relabelled
<1>2. CASE \E m \in Miners, p \in Patches : BeginSubmit(m, p)
  BY <1>1, <1>2 DEF BeginSubmit, SweepsKeys, chainVars
<1>3. CASE LookupReceipt
  BY <1>1, <1>3 DEF LookupReceipt, SweepsKeys, chainVars
<1>4. CASE PrepareSubmit
  <2>1. pending' = pending
    BY <1>4 DEF PrepareSubmit, receiptVars
  <2>2. JobAdvances
    BY <1>4, <2>1 DEF PrepareSubmit, PrepareRefused, JobAdvances
  <2> QED
    BY <1>1, <1>4, <2>1, <2>2 DEF PrepareSubmit, KeepsKeys, chainVars, receiptVars
<1>5. CASE \E kind \in EvalKinds, s \in Scores : FinishSubmit(kind, s)
  <2>1. PICK kind \in EvalKinds, s \in Scores : FinishSubmit(kind, s)
    BY <1>5
  <2>2. JobAdvances
    BY <2>1 DEF FinishSubmit, JobAdvances
  <2> QED
    BY <1>1, <2>1, <2>2 DEF FinishSubmit, KeepsKeys, chainVars, receiptVars
<1>6. CASE ReadCounters
  <2>1. JobAdvances
    BY <1>6 DEF ReadCounters, JobAdvances
  <2> QED
    BY <1>1, <1>6, <2>1 DEF ReadCounters, KeepsKeys, chainVars
<1>7. CASE SubmitFault \/ EvaluatorRefuses \/ SigningFails
  BY <1>1, <1>7 DEF SubmitFault, EvaluatorRefuses, SigningFails, KeepsKeys, JobAdvances,
     chainVars, receiptVars
<1>8. CASE \/ Freeze \/ FreezeReturns \/ Unfreeze
           \/ \E r \in Rebaselined, b \in Scores : SetRecomputedBaseline(r, b)
           \/ InvalidateBaselines \/ GetStatus \/ UNCHANGED vars
  BY <1>1, <1>8 DEF Freeze, FreezeReturns, Unfreeze, SetRecomputedBaseline, InvalidateBaselines,
     GetStatus, vars, KeepsKeys, JobAdvances, chainVars, receiptVars
<1> QED
  BY <1>2, <1>3, <1>4, <1>5, <1>6, <1>7, <1>8 DEF SubmitStep

LEMMA KeysEffects ==
  ASSUME CoreInv, [Next]_vars
  PROVE  KeepsKeys \/ SweepsKeys \/ LoseMemory \/ SignReceipt
<1>1. Crash => LoseMemory
  BY DEF Crash
<1>2. CASE Environment
  <2>1. UNCHANGED <<pending, dedup, cache, job>>
    BY <1>2, ChainSteps DEF CoreInv, coreVars, receiptVars
  <2>2. now' \in {now, now + 1}
    BY <1>2 DEF Environment, MineEmpty, LandReceipt, LandForeign, ChainReorg, EpochRollover,
       Mine, Reorg, CloseEpoch
  <2> QED
    BY <2>1, <2>2 DEF KeepsKeys, Relabelled, JobAdvances
<1> QED
  BY <1>1, <1>2, KeysTick, KeysSubmit DEF Next

LEMMA LookupInit == Init => LookupInv
BY DEF Init, EmptyMemory, LookupInv, Tracks, NoPending, NoJob

LEMMA LookupRestart ==
  ASSUME LoseMemory
  PROVE  LookupInv'
BY DEF LoseMemory, LookupInv, Tracks, NoPending, NoJob

\* Nobody adds or forgets a record: a submit that passes the deduplication table
\* and the comparison with the live root is for bytes that are not tracked.
LEMMA LookupKeeps ==
  ASSUME TypeOK, LookupInv, SettledRootStaysAway, KeepsKeys
  PROVE  LookupInv'
<1>1. /\ \A h \in SignedHashes : pending[h] \in PendingRecord
      /\ now \in Nat /\ now' \in Nat /\ now <= now'
  BY DEF TypeOK, ChainTypeOK, PendingTable, KeepsKeys
<1>2. UNCHANGED <<dedup, cache>> /\ JobAdvances
  BY DEF KeepsKeys
<1>3. ASSUME NEW h \in SignedHashes
      PROVE  pending'[h].exp = pending[h].exp /\ (Tracks(h)' <=> Tracks(h))
  BY DEF KeepsKeys, Relabelled, Tracks
<1>4. ASSUME NEW h \in SignedHashes, Tracks(h)'
      PROVE  TrackedLookup(h)' /\ pending'[h].exp # 0
  <2>1. Tracks(h) /\ TrackedLookup(h) /\ pending[h].exp # 0 /\ pending[h].exp \in Nat
    BY <1>1, <1>3, <1>4 DEF LookupInv, PendingRecord
  <2>2. \A g \in SignedHashes : Tracks(g)' /\ g[1] = h[1] => g = h
    BY <1>3, <2>1 DEF TrackedLookup
  <2>3. pending'[h].exp > now' => dedup'[h[1]] = pending'[h].exp
    BY <1>1, <1>2, <1>3, <2>1 DEF TrackedLookup
  <2> QED
    BY <1>2, <1>3, <2>1, <2>2, <2>3 DEF TrackedLookup
<1>5. job'.pc = "epochCheck" =>
        \A h \in SignedHashes : pending'[h].st = "pending" => dedup'[h[1]] # 0
  BY <1>2 DEF JobAdvances, LookupInv, NoJob
<1>6. ASSUME job'.pc \in {"scoring", "counters", "sign"}, NEW h \in SignedHashes, h[1] = job'.patch
      PROVE  ~Tracks(h)'
  <2>1. CASE job' = job \/ (job.pc \in {"scoring", "counters"} /\ job'.patch = job.patch)
    BY <1>3, <1>6, <2>1 DEF LookupInv
  <2>2. CASE /\ job.pc = "epochCheck" /\ job'.patch = job.patch
             /\ dedup[job.patch] = 0 /\ ParentOf[job.patch] = liveRoot
    <3>1. pending[h].st # "pending"
      BY <1>6, <2>2 DEF LookupInv
    <3>2. pending[h].st \notin {"confirmed", "stale"}
      BY <1>6, <2>2 DEF SettledRootStaysAway
    <3> QED
      BY <1>1, <1>3, <3>1, <3>2 DEF PendingRecord, Tracks
  <2> QED
    BY <1>2, <1>6, <2>1, <2>2 DEF JobAdvances, NoJob
<1> QED
  BY <1>4, <1>5, <1>6 DEF LookupInv

\* The sweep takes both keys of the records it forgets and leaves those of the
\* records it keeps.
LEMMA LookupSweeps ==
  ASSUME TypeOK, LookupInv, SweepsKeys
  PROVE  LookupInv'
<1>1. PICK pend \in PendingTable : Relabelled(pend) /\ GcPending(pend)
  BY DEF SweepsKeys
<1>2. /\ pending' = GcPendingRecords(pend) /\ dedup' = GcDedup(pend) /\ cache' = GcCache(pend)
      /\ now' = now /\ now \in Nat /\ dedup \in [Patches -> Nat]
      /\ \A h \in SignedHashes : pend[h] \in PendingRecord
  BY <1>1 DEF GcPending, SweepsKeys, TypeOK, ChainTypeOK, PendingTable
<1>3. \A h \in SignedHashes :
        /\ h[1] \in Patches /\ h[2] \in Scores /\ h = <<h[1], h[2]>> /\ h[2] # 0
        /\ h \in Hashes /\ OriginalHash(h[1]) \in Hashes
        /\ \A g \in SignedHashes : g # OriginalHash(h[1])
  BY ChainAssumption DEF SignedHashes, Hashes, OriginalHash
<1>4. ASSUME NEW h \in SignedHashes, Tracks(h)'
      PROVE  /\ h \notin ExpiredPending(pend)
             /\ pending'[h] = pend[h] /\ pending'[h].exp = pending[h].exp /\ Tracks(h)
  <2>1. h \notin ExpiredPending(pend)
    BY <1>2, <1>4 DEF GcPendingRecords, NoPending, Tracks
  <2>2. pending'[h] = pend[h]
    BY <1>2, <2>1 DEF GcPendingRecords
  <2> QED
    BY <1>1, <1>4, <2>1, <2>2 DEF Relabelled, Tracks
<1>5. ASSUME NEW h \in SignedHashes, Tracks(h)'
      PROVE  \A g \in ExpiredPending(pend) : g[1] # h[1]
  <2> SUFFICES ASSUME NEW g \in ExpiredPending(pend), g[1] = h[1] PROVE FALSE
    OBVIOUS
  <2>1. g \in SignedHashes /\ pend[g].st = "pending"
    BY DEF ExpiredPending
  <2>2. Tracks(g)
    BY <1>1, <2>1 DEF Relabelled, Tracks
  <2>3. Tracks(h) /\ h \notin ExpiredPending(pend)
    BY <1>4, <1>5
  <2>4. g = h
    BY <2>1, <2>2, <2>3 DEF LookupInv, TrackedLookup
  <2> QED
    BY <2>3, <2>4
<1>6. ASSUME NEW h \in SignedHashes, Tracks(h)', NEW k \in Hashes,
             k = h \/ k = OriginalHash(h[1])
      PROVE  cache'[k].hash = h
  <2>1. cache[k].hash = h
    BY <1>4, <1>6 DEF LookupInv, TrackedLookup
  <2>2. k \notin ExpiredPending(pend)
    BY <1>3, <1>4, <1>6 DEF ExpiredPending
  <2>3. ~\E g \in ExpiredPending(pend) : k = OriginalHash(g[1])
    <3> SUFFICES ASSUME NEW g \in ExpiredPending(pend), k = OriginalHash(g[1]) PROVE FALSE
      OBVIOUS
    <3>1. g \in SignedHashes
      BY DEF ExpiredPending
    <3>2. k = OriginalHash(h[1])
      BY <1>3, <1>6, <3>1
    <3>3. g[1] = h[1]
      BY <3>2 DEF OriginalHash
    <3> QED
      BY <1>5, <1>6, <3>3
  <2>4. GcPendingRecords(pend)[cache[k].hash].st # "none" /\ cache[k].hash \in SignedHashes
    BY <1>2, <1>6, <2>1 DEF Tracks
  <2> HIDE <1>1
  <2>5. GcCache(pend)[k] = cache[k]
    BY <2>2, <2>3, <2>4 DEF GcCache
  <2> QED
    BY <1>2, <2>1, <2>5
<1>7. ASSUME NEW h \in SignedHashes, Tracks(h)', pending'[h].exp > now'
      PROVE  dedup'[h[1]] = pending'[h].exp
  <2>1. /\ pending'[h].exp = pending[h].exp /\ Tracks(h)
        /\ pending'[h].exp \in Nat
    BY <1>2, <1>4, <1>7 DEF PendingRecord
  <2>2. dedup[h[1]] = pending[h].exp /\ dedup[h[1]] > now
    BY <1>2, <1>7, <2>1 DEF LookupInv, TrackedLookup
  <2>3. ~(dedup[h[1]] <= now) /\ h[1] \in Patches
    BY <1>2, <1>3, <2>1, <2>2
  <2>4. ~\E s \in Scores : <<h[1], s>> \in ExpiredPending(pend)
    BY <1>5, <1>7
  <2>5. GcDedup(pend)[h[1]] = dedup[h[1]]
    BY <2>3, <2>4 DEF GcDedup
  <2> QED
    BY <1>2, <2>1, <2>2, <2>5
<1>8. ASSUME NEW h \in SignedHashes, Tracks(h)'
      PROVE  TrackedLookup(h)' /\ pending'[h].exp # 0
  <2>1. cache'[h].hash = h /\ cache'[OriginalHash(h[1])].hash = h
    BY <1>3, <1>6, <1>8
  <2>2. Tracks(h) /\ pending'[h].exp = pending[h].exp
    BY <1>4, <1>8
  <2>3. \A g \in SignedHashes : Tracks(g)' /\ g[1] = h[1] => g = h
    BY <1>4, <2>2 DEF LookupInv, TrackedLookup
  <2> QED
    BY <1>7, <1>8, <2>1, <2>2, <2>3 DEF TrackedLookup, LookupInv
<1>9. \A h \in SignedHashes : pending'[h].st = "pending" => dedup'[h[1]] # 0
  <2> SUFFICES ASSUME NEW h \in SignedHashes, pending'[h].st = "pending"
               PROVE  dedup'[h[1]] # 0
    OBVIOUS
  <2>1. Tracks(h)'
    BY DEF Tracks
  <2>2. pend[h] = pending'[h] /\ h \notin ExpiredPending(pend) /\ pend[h].exp \in Nat
    BY <1>2, <1>4, <2>1 DEF PendingRecord
  <2>3. pending'[h].exp > now' /\ pending'[h].exp # 0
    BY <1>2, <2>2 DEF ExpiredPending
  <2> QED
    BY <1>7, <2>1, <2>3
<1>10. ASSUME job'.pc \in {"scoring", "counters", "sign"}, NEW h \in SignedHashes, h[1] = job'.patch
       PROVE  ~Tracks(h)'
  <2>1. job' = job
    BY <1>10 DEF SweepsKeys, NoJob
  <2>2. ~Tracks(h)
    BY <1>10, <2>1 DEF LookupInv
  <2> QED
    BY <1>4, <2>2
<1> QED
  BY <1>8, <1>9, <1>10 DEF LookupInv

\* A receipt is signed for bytes no receipt is tracked for, so it takes no key
\* of another one.
LEMMA LookupSign ==
  ASSUME TypeInv, LookupInv, SignReceipt
  PROVE  LookupInv'
<1> DEFINE exp == job.at + Ttl
           orig == OriginalHash(job.patch)
           hash == IF job.kind = "advance" THEN <<job.patch, job.score>> ELSE orig
           env == [hash |-> hash, exp |-> exp]
<1>1. /\ job.patch \in Patches /\ job.score \in Scores /\ exp \in Nat /\ exp # 0
      /\ job'.pc = "none" /\ now' = now /\ now \in Nat
  <2>1. job \in SigningJob
    BY JobByPosition DEF SignReceipt, TypeInv
  <2> QED
    BY <2>1, CoreAssumption DEF SigningJob, SignReceipt, NoJob, chainVars, TypeInv, TypeOK, ChainTypeOK
<1>2. /\ dedup' = [dedup EXCEPT ![job.patch] = exp]
      /\ cache' = [cache EXCEPT ![hash] = env, ![orig] = env]
      /\ pending' = IF job.kind = "advance"
                    THEN [pending EXCEPT ![hash] = [st |-> "pending", exp |-> exp]]
                    ELSE pending
  BY DEF SignReceipt
<1>3. /\ DOMAIN dedup = Patches /\ DOMAIN cache = Hashes /\ DOMAIN pending = SignedHashes
  BY DEF TypeInv, TypeOK
<1>4. \A h \in SignedHashes :
        /\ h[1] \in Patches /\ h[2] \in Scores /\ h \in Hashes /\ OriginalHash(h[1]) \in Hashes
        /\ \A p \in Patches : h # OriginalHash(p)
        /\ h[1] # job.patch => OriginalHash(h[1]) # orig
  BY ChainAssumption DEF SignedHashes, Hashes, OriginalHash
<1>5. /\ orig \in Hashes /\ hash \in Hashes
      /\ job.kind = "advance" => hash \in SignedHashes /\ hash # orig /\ hash[1] = job.patch
      /\ job.kind # "advance" => hash = orig
      /\ \A h \in SignedHashes : h = hash => job.kind = "advance" /\ h[1] = job.patch
  BY <1>1, <1>4, ChainAssumption DEF SignedHashes, Hashes, OriginalHash
<1>6. \A h \in SignedHashes : h[1] = job.patch => ~Tracks(h)
  BY DEF SignReceipt, LookupInv
<1>7. \A k \in Hashes : cache'[k] = IF k \in {hash, orig} THEN env ELSE cache[k]
  BY <1>2, <1>3, <1>5
<1>8. env.hash = hash /\ env.exp = exp
  OBVIOUS
<1> HIDE DEF exp, orig, hash, env
<1>9. ASSUME NEW h \in SignedHashes, Tracks(h)'
      PROVE  \/ /\ h # hash /\ h[1] # job.patch /\ Tracks(h) /\ pending'[h] = pending[h]
             \/ /\ h = hash /\ job.kind = "advance" /\ h[1] = job.patch
                /\ pending'[h].exp = exp
  <2>1. CASE h = hash
    <3>1. job.kind = "advance" /\ h[1] = job.patch
      BY <1>5, <2>1
    <3>2. pending'[h].exp = exp
      BY <1>2, <1>3, <2>1, <3>1
    <3> QED
      BY <2>1, <3>1, <3>2
  <2>2. CASE h # hash
    <3>1. pending'[h] = pending[h]
      BY <1>2, <1>3, <1>5, <2>2
    <3> QED
      BY <1>6, <1>9, <2>2, <3>1 DEF Tracks
  <2> QED
    BY <2>1, <2>2
<1>10. ASSUME NEW h \in SignedHashes, Tracks(h)'
       PROVE  TrackedLookup(h)' /\ pending'[h].exp # 0
  <2>1. CASE h # hash /\ h[1] # job.patch /\ Tracks(h) /\ pending'[h] = pending[h]
    <3>1. TrackedLookup(h) /\ pending[h].exp # 0
      BY <2>1 DEF LookupInv
    <3>2. h \notin {hash, orig} /\ OriginalHash(h[1]) \notin {hash, orig}
      <4>1. h # orig /\ OriginalHash(h[1]) # orig /\ h[1] \in Patches
        BY <1>1, <1>4, <2>1 DEF orig
      <4>2. OriginalHash(h[1]) # hash
        BY <1>4, <1>5, <4>1
      <4> QED
        BY <2>1, <4>1, <4>2
    <3>3. cache'[h].hash = h /\ cache'[OriginalHash(h[1])].hash = h
      BY <1>4, <1>7, <3>1, <3>2 DEF TrackedLookup
    <3>4. pending'[h].exp > now' => dedup'[h[1]] = pending'[h].exp
      BY <1>1, <1>2, <1>3, <1>4, <2>1, <3>1 DEF TrackedLookup
    <3>5. ASSUME NEW g \in SignedHashes, Tracks(g)', g[1] = h[1] PROVE g = h
      BY <1>9, <2>1, <3>1, <3>5 DEF TrackedLookup
    <3> QED
      BY <2>1, <3>1, <3>3, <3>4, <3>5 DEF TrackedLookup
  <2>2. CASE h = hash /\ job.kind = "advance" /\ h[1] = job.patch /\ pending'[h].exp = exp
    <3>1. cache'[h].hash = h /\ cache'[OriginalHash(h[1])].hash = h
      BY <1>4, <1>5, <1>7, <1>8, <2>2 DEF orig
    <3>2. dedup'[h[1]] = pending'[h].exp /\ pending'[h].exp # 0
      BY <1>1, <1>2, <1>3, <2>2
    <3>3. ASSUME NEW g \in SignedHashes, Tracks(g)', g[1] = h[1] PROVE g = h
      BY <1>9, <2>2, <3>3
    <3> QED
      BY <3>1, <3>2, <3>3 DEF TrackedLookup
  <2> QED
    BY <1>9, <1>10, <2>1, <2>2
<1> QED
  BY <1>1, <1>10 DEF LookupInv

LEMMA LookupStep ==
  ASSUME CoreInv, LookupInv, SettledRootStaysAway, [Next]_vars
  PROVE  LookupInv'
<1>1. TypeInv /\ TypeOK
  BY DEF CoreInv, TypeInv
<1> QED
  BY <1>1, KeysEffects, LookupKeeps, LookupSweeps, LookupRestart, LookupSign

LEMMA LookupFinds == LookupInv => DualHashLookup
<1> SUFFICES ASSUME LookupInv, NEW h \in SignedHashes, pending[h].st # "none"
             PROVE  cache[h].hash = h /\ cache[OriginalHash(h[1])].hash # <<>>
  BY DEF DualHashLookup
<1>1. cache[h].hash = h /\ cache[OriginalHash(h[1])].hash = h
  BY DEF LookupInv, TrackedLookup, Tracks
<1>2. h # <<>>
  <2>1. PICK p \in Patches, s \in Scores : h = <<p, s>>
    BY DEF SignedHashes
  <2>2. <<p, s>> # <<>>
    OBVIOUS
  <2> QED
    BY <2>1, <2>2
<1> QED
  BY <1>1, <1>2

\* As long as no settled receipt pins the live root, a tracked advance is found
\* under the hash that was signed and an envelope under the hash of its canonical
\* bytes, through sweeps, rollbacks and later receipts for other bytes.
THEOREM FoundUnderBothHashes == Spec /\ []SettledRootStaysAway => []DualHashLookup
<1>1. Init => LookupInv
  BY LookupInit
<1>2. CoreInv /\ SettledRootStaysAway /\ LookupInv /\ [Next]_vars => LookupInv'
  BY LookupStep
<1>3. LookupInv => DualHashLookup
  BY LookupFinds
<1> QED
  BY <1>1, <1>2, <1>3, CoreInvariance, PTL DEF Spec

(***************************************************************************)
(* A receipt the lookup reports as pending, on a chain that does not       *)
(* reorganise, whatever the patches do to the roots                        *)
(***************************************************************************)
\* Both keys of a pending receipt lead to that receipt, and to no other.
PendingFound ==
  \A h \in SignedHashes :
    pending[h].st = "pending" => cache[h].hash = h /\ cache[OriginalHash(h[1])].hash = h

\* Its window keeps the deduplication table closed to the bytes it was signed
\* for, so no receipt signed meanwhile takes its keys.
PendingKeysInv ==
  /\ PendingFound
  /\ \A h \in SignedHashes :
       pending[h].st = "pending" => dedup[h[1]] = pending[h].exp /\ pending[h].exp # 0
  /\ job.pc \in {"counters", "sign"} => dedup[job.patch] = 0

LEMMA PendingKeysSweep ==
  ASSUME TypeOK, PendingKeysInv, NEW pend \in PendingTable, Narrowed(pend), GcPending(pend),
         UNCHANGED now, job'.pc \in {"counters", "sign"} => job' = job
  PROVE  PendingKeysInv'
<1>1. /\ pending' = GcPendingRecords(pend) /\ dedup' = GcDedup(pend) /\ cache' = GcCache(pend)
      /\ dedup \in [Patches -> Nat] /\ now \in Nat
      /\ \A h \in SignedHashes : pending[h] \in PendingRecord
  BY DEF GcPending, TypeOK, ChainTypeOK
<1>2. \A h \in SignedHashes :
        /\ h[1] \in Patches /\ h[2] \in Scores /\ h = <<h[1], h[2]>>
        /\ h \in Hashes /\ OriginalHash(h[1]) \in Hashes
        /\ \A g \in SignedHashes : g # OriginalHash(h[1])
  BY ChainAssumption DEF SignedHashes, Hashes, OriginalHash
<1>3. \A g \in ExpiredPending(pend) :
        g \in SignedHashes /\ pending[g].st = "pending" /\ pending[g].exp <= now
  BY DEF ExpiredPending, Narrowed
<1>4. ASSUME NEW h \in SignedHashes, pending'[h].st = "pending"
      PROVE  /\ h \notin ExpiredPending(pend) /\ pending[h].st = "pending"
             /\ pending'[h] = pending[h] /\ GcPendingRecords(pend)[h].st = "pending"
             /\ pending[h].exp > now
  <2>1. h \notin ExpiredPending(pend) /\ pending'[h] = pend[h]
    BY <1>1, <1>4 DEF GcPendingRecords, NoPending
  <2>2. pend[h] = pending[h] /\ pending[h].st = "pending" /\ pending[h].exp \in Nat
    BY <1>1, <1>4, <2>1 DEF Narrowed, PendingRecord
  <2>3. ~(pending[h].exp <= now)
    BY <2>1, <2>2 DEF ExpiredPending
  <2> QED
    BY <1>1, <1>4, <2>1, <2>2, <2>3
<1>5. ASSUME NEW h \in SignedHashes, pending'[h].st = "pending"
      PROVE  \A g \in ExpiredPending(pend) : g[1] # h[1]
  <2> SUFFICES ASSUME NEW g \in ExpiredPending(pend), g[1] = h[1] PROVE FALSE
    OBVIOUS
  <2>1. g \in SignedHashes /\ pending[g].st = "pending"
    BY <1>3
  <2>2. pending[h].st = "pending" /\ h \notin ExpiredPending(pend)
    BY <1>4, <1>5
  <2>3. cache[OriginalHash(h[1])].hash = g /\ cache[OriginalHash(h[1])].hash = h
    BY <2>1, <2>2 DEF PendingKeysInv, PendingFound
  <2> QED
    BY <2>2, <2>3
<1>6. ASSUME NEW h \in SignedHashes, pending'[h].st = "pending", NEW k \in Hashes,
             k = h \/ k = OriginalHash(h[1])
      PROVE  cache'[k].hash = h
  <2>1. cache[k].hash = h
    BY <1>4, <1>6 DEF PendingKeysInv, PendingFound
  <2>2. k \notin ExpiredPending(pend)
    BY <1>2, <1>3, <1>4, <1>6
  <2>3. ~\E g \in ExpiredPending(pend) : k = OriginalHash(g[1])
    <3> SUFFICES ASSUME NEW g \in ExpiredPending(pend), k = OriginalHash(g[1]) PROVE FALSE
      OBVIOUS
    <3>1. g \in SignedHashes
      BY <1>3
    <3>2. k = OriginalHash(h[1])
      BY <1>2, <1>6, <3>1
    <3>3. g[1] = h[1]
      BY <3>2 DEF OriginalHash
    <3> QED
      BY <1>5, <1>6, <3>3
  <2>4. GcPendingRecords(pend)[cache[k].hash].st # "none" /\ cache[k].hash \in SignedHashes
    BY <1>4, <1>6, <2>1
  <2>5. GcCache(pend)[k] = cache[k]
    BY <2>2, <2>3, <2>4 DEF GcCache
  <2> QED
    BY <1>1, <2>1, <2>5
<1>7. ASSUME NEW h \in SignedHashes, pending'[h].st = "pending"
      PROVE  dedup'[h[1]] = pending'[h].exp /\ pending'[h].exp # 0
  <2>1. /\ pending'[h] = pending[h] /\ pending[h].exp > now
        /\ dedup[h[1]] = pending[h].exp /\ pending[h].exp # 0
    BY <1>4, <1>7 DEF PendingKeysInv
  <2>2. ~(dedup[h[1]] <= now) /\ h[1] \in Patches
    BY <1>1, <1>2, <2>1
  <2>3. ~\E s \in Scores : <<h[1], s>> \in ExpiredPending(pend)
    BY <1>5, <1>7
  <2>4. GcDedup(pend)[h[1]] = dedup[h[1]]
    BY <2>2, <2>3 DEF GcDedup
  <2> QED
    BY <1>1, <2>1, <2>4
<1>8. job'.pc \in {"counters", "sign"} => dedup'[job'.patch] = 0
  <2> SUFFICES ASSUME job'.pc \in {"counters", "sign"} PROVE dedup'[job'.patch] = 0
    OBVIOUS
  <2>1. job' = job /\ job.patch \in Patches /\ dedup[job.patch] = 0
    BY JobByPosition DEF PendingKeysInv, CountersJob, SigningJob
  <2> QED
    BY <1>1, <2>1 DEF GcDedup
<1>9. PendingFound'
  BY <1>2, <1>6 DEF PendingFound
<1> QED
  BY <1>7, <1>8, <1>9 DEF PendingKeysInv

LEMMA PendingKeysSign ==
  ASSUME TypeInv, PendingKeysInv, SignReceipt
  PROVE  PendingKeysInv'
<1> DEFINE exp == job.at + Ttl
           orig == OriginalHash(job.patch)
           hash == IF job.kind = "advance" THEN <<job.patch, job.score>> ELSE orig
           env == [hash |-> hash, exp |-> exp]
<1>1. /\ job.patch \in Patches /\ job.score \in Scores /\ exp \in Nat /\ exp # 0
      /\ job'.pc = "none" /\ dedup[job.patch] = 0
  <2>1. job \in SigningJob
    BY JobByPosition DEF SignReceipt, TypeInv
  <2> QED
    BY <2>1, CoreAssumption DEF SigningJob, SignReceipt, NoJob, PendingKeysInv
<1>2. /\ dedup' = [dedup EXCEPT ![job.patch] = exp]
      /\ cache' = [cache EXCEPT ![hash] = env, ![orig] = env]
      /\ pending' = IF job.kind = "advance"
                    THEN [pending EXCEPT ![hash] = [st |-> "pending", exp |-> exp]]
                    ELSE pending
  BY DEF SignReceipt
<1>3. DOMAIN dedup = Patches /\ DOMAIN cache = Hashes /\ DOMAIN pending = SignedHashes
  BY DEF TypeInv, TypeOK
<1>4. \A h \in SignedHashes :
        /\ h[1] \in Patches /\ h \in Hashes /\ OriginalHash(h[1]) \in Hashes
        /\ \A p \in Patches : h # OriginalHash(p)
        /\ h[1] # job.patch => OriginalHash(h[1]) # orig
  BY ChainAssumption DEF SignedHashes, Hashes, OriginalHash
<1>5. /\ orig \in Hashes /\ hash \in Hashes
      /\ job.kind = "advance" => hash \in SignedHashes /\ hash # orig /\ hash[1] = job.patch
      /\ job.kind # "advance" => hash = orig
  BY <1>1, <1>4, ChainAssumption DEF SignedHashes, Hashes, OriginalHash
<1>6. \A k \in Hashes : cache'[k] = IF k \in {hash, orig} THEN env ELSE cache[k]
  BY <1>2, <1>3, <1>5
<1>7. env.hash = hash
  OBVIOUS
<1> HIDE DEF exp, orig, hash, env
<1>8. ASSUME NEW h \in SignedHashes, pending'[h].st = "pending"
      PROVE  /\ cache'[h].hash = h /\ cache'[OriginalHash(h[1])].hash = h
             /\ dedup'[h[1]] = pending'[h].exp /\ pending'[h].exp # 0
  <2>1. CASE h = hash /\ job.kind = "advance"
    <3>1. h[1] = job.patch /\ pending'[h].exp = exp
      BY <1>2, <1>3, <1>5, <2>1
    <3>2. cache'[h].hash = h /\ cache'[OriginalHash(h[1])].hash = h
      BY <1>4, <1>5, <1>6, <1>7, <2>1, <3>1 DEF orig
    <3> QED
      BY <1>1, <1>2, <1>3, <3>1, <3>2
  <2>2. CASE ~(h = hash /\ job.kind = "advance")
    <3>1. pending'[h] = pending[h]
      BY <1>2, <1>3, <1>5, <2>2
    <3>2. /\ cache[h].hash = h /\ cache[OriginalHash(h[1])].hash = h
          /\ dedup[h[1]] = pending[h].exp /\ pending[h].exp # 0
      BY <1>8, <3>1 DEF PendingKeysInv, PendingFound
    <3>3. h[1] # job.patch
      BY <1>1, <3>2
    <3>4. h # orig /\ OriginalHash(h[1]) # orig
      BY <1>1, <1>4, <3>3 DEF orig
    <3>5. h # hash /\ OriginalHash(h[1]) # hash
      BY <1>4, <1>5, <2>2, <3>3, <3>4
    <3>6. cache'[h] = cache[h] /\ cache'[OriginalHash(h[1])] = cache[OriginalHash(h[1])]
      BY <1>4, <1>6, <3>4, <3>5
    <3>7. dedup'[h[1]] = dedup[h[1]]
      BY <1>2, <1>3, <1>4, <3>3
    <3> QED
      BY <3>1, <3>2, <3>6, <3>7
  <2> QED
    BY <2>1, <2>2
<1> QED
  BY <1>1, <1>8 DEF PendingKeysInv, PendingFound

LEMMA PendingKeysStep ==
  ASSUME NoReorgs, CoreInv, OneForkInv, PendingKeysInv, [Next]_vars
  PROVE  PendingKeysInv'
<1>1. TypeInv /\ TypeOK
  BY DEF CoreInv, TypeInv
<1>2. CASE ChainMoves
  BY <1>2 DEF ChainMoves, receiptsVars, PendingKeysInv, PendingFound
<1>3. CASE Sweeps
  BY <1>1, <1>3, PendingKeysSweep DEF Sweeps, NoJob
<1>4. CASE Settles
  <2>1. job'.pc \in {"counters", "sign"} => dedup'[job'.patch] = 0
    BY <1>4 DEF Settles, JobGoesOn, PendingKeysInv, NoJob
  <2>2. UNCHANGED <<dedup, cache>> /\ Narrowed(pending')
    BY <1>4 DEF Settles
  <2> QED
    BY <2>1, <2>2 DEF Narrowed, PendingKeysInv, PendingFound
<1>5. CASE Restarts
  BY <1>5 DEF Restarts, LoseMemory, PendingKeysInv, PendingFound, NoJob, NoPending
<1>6. CASE ReadCounters
  BY <1>6 DEF ReadCounters, PendingKeysInv, PendingFound, NoJob
<1> QED
  BY <1>1, <1>2, <1>3, <1>4, <1>5, <1>6, PendingKeysSign, Effects

\* On a chain that does not reorganise, a receipt that is reported as pending is
\* found under both its hashes, and what is found there is that receipt and no
\* later one for the same bytes: through expiry sweeps, settlements, resubmissions
\* and restarts, and whatever roots the patches lead to.
THEOREM PendingFoundUnderBoth == ASSUME NoReorgs PROVE Spec => []PendingFound
<1>1. Init => OneForkInv /\ PendingKeysInv
  BY OneForkInit DEF Init, EmptyMemory, PendingKeysInv, PendingFound, NoPending, NoJob
<1>2. CoreInv /\ OneForkInv /\ PendingKeysInv /\ [Next]_vars => OneForkInv' /\ PendingKeysInv'
  BY OneForkStep, PendingKeysStep
<1>3. PendingKeysInv => PendingFound
  BY DEF PendingKeysInv
<1> QED
  BY <1>1, <1>2, <1>3, CoreInvariance, PTL DEF Spec
=============================================================================

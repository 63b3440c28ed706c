------------------------ MODULE CoordinatorCore_proofs ------------------------
(***************************************************************************)
(* Theorems about CoordinatorCore, for every value of its constants: its   *)
(* types, and the safety of its replica, its receipts and its signatures.  *)
(***************************************************************************)
EXTENDS CoordinatorCore, FiniteSetTheorems, SequenceTheorems, WellFoundedInduction, TLAPS

(***************************************************************************)
(* Extrema of sets of block numbers                                        *)
(***************************************************************************)
\* Earliest picks the least element (the event loop's sort order).
LEMMA EarliestIsLeast ==
  ASSUME NEW S \in SUBSET Nat, S # {}
  PROVE  Earliest(S) \in S /\ \A j \in S : Earliest(S) <= j
<1> DEFINE R == OpToRel(<, Nat)
<1>1. \A a, b \in Nat : a < b => <<a, b>> \in R
  BY DEF OpToRel
<1>2. IsWellFoundedOn(R, Nat)
  BY NatLessThanWellFounded
<1> HIDE DEF R
<1>3. PICK i \in S : \A j \in S : ~ (<<j, i>> \in R)
  BY <1>2, WFMin
<1>4. ASSUME NEW j \in S PROVE i <= j
  <2>1. i \in Nat /\ j \in Nat
    OBVIOUS
  <2>2. ~ (j < i)
    BY <1>1, <1>3, <2>1
  <2> QED
    BY <2>1, <2>2
<1> QED
  BY <1>3, <1>4 DEF Earliest

\* Latest picks the greatest block number of a bounded set.
LEMMA LatestIsGreatest ==
  ASSUME NEW n \in Nat, NEW S \in SUBSET (1..n), S # {}
  PROVE  Latest(S) \in S /\ \A j \in S : j <= Latest(S)
<1> DEFINE D == {n - i : i \in S}
<1>1. D \in SUBSET Nat /\ D # {}
  <2>1. \A i \in S : n - i \in Nat
    OBVIOUS
  <2>2. D \subseteq Nat
    BY <2>1
  <2>3. PICK i \in S : TRUE
    OBVIOUS
  <2>4. n - i \in D
    BY <2>3
  <2> QED
    BY <2>2, <2>4
<1>2. Earliest(D) \in D /\ \A j \in D : Earliest(D) <= j
  BY <1>1, EarliestIsLeast
<1>3. PICK i \in S : Earliest(D) = n - i
  BY <1>2
<1>4. ASSUME NEW j \in S PROVE j <= i
  <2>1. n - j \in D
    OBVIOUS
  <2>2. n - i <= n - j
    BY <1>2, <1>3, <2>1
  <2> QED
    BY <2>2
<1> QED
  BY <1>3, <1>4 DEF Latest

(***************************************************************************)
(* What the contract answers                                               *)
(***************************************************************************)
\* The blocks a counter ranges over are finitely many.
LEMMA BlockSets ==
  ASSUME ChainTypeOK
  PROVE  /\ \A n \in Int : AdvanceBlocks(n) \in SUBSET (1..Len(chain))
         /\ \A n \in Int : TransitionCount(n) \in Nat
         /\ \A m : MinerBlocks(m) \in SUBSET (1..Len(chain))
         /\ \A m : NextIndex(m) \in Nat /\ ScreenersThisEpoch(m) \in Nat
<1>1. Len(chain) \in Nat /\ DOMAIN chain = 1..Len(chain)
  BY DEF ChainTypeOK
<1>2. \A S \in SUBSET (1..Len(chain)) : IsFiniteSet(S) /\ Cardinality(S) \in Nat
  <2>1. IsFiniteSet(1..Len(chain))
    BY <1>1, FS_Interval
  <2> QED
    BY <2>1, FS_Subset, FS_CardinalityType
<1>3. \A n \in Int : AdvanceBlocks(n) \in SUBSET (1..Len(chain))
  BY <1>1 DEF AdvanceBlocks
<1>4. \A m : MinerBlocks(m) \in SUBSET (1..Len(chain))
  BY <1>1 DEF MinerBlocks
<1>5. \A m : {i \in MinerBlocks(m) : chain[i].rcpt.kind = "screener"} \in SUBSET (1..Len(chain))
  BY <1>4
<1> QED
  BY <1>2, <1>3, <1>4, <1>5 DEF TransitionCount, NextIndex, ScreenersThisEpoch

\* A landed receipt is a receipt; an advance carries a score of the evaluator.
LEMMA LandedReceipt ==
  ASSUME ChainTypeOK, NEW i \in DOMAIN chain, chain[i].rcpt.kind # "none"
  PROVE  /\ chain[i].rcpt \in Receipt
         /\ chain[i].rcpt.id \in Nat
         /\ chain[i].rcpt.patch \in Patches
         /\ chain[i].rcpt.kind = "advance" => chain[i].rcpt.score \in Scores
         /\ chain[i].fork \in Nat
<1>1. chain[i] \in Block
  BY DEF ChainTypeOK
<1>2. chain[i].fork \in Nat /\ chain[i].rcpt \in Receipt
  BY <1>1 DEF Block, NoReceipt
<1> QED
  BY <1>2 DEF Receipt, ReceiptOf

\* The registry's root is a root, a miner's previous hash a receipt id.
LEMMA RegistryAnswers ==
  ASSUME ChainTypeOK
  PROVE  /\ \A n \in Int : RegistryRoot(n) \in Roots
         /\ \A m : LastReceiptId(m) \in Nat
<1>1. Len(chain) \in Nat /\ DOMAIN chain = 1..Len(chain)
  BY DEF ChainTypeOK
<1>2. ASSUME NEW n \in Int PROVE RegistryRoot(n) \in Roots
  <2>1. CASE AdvanceBlocks(n) = {}
    BY <2>1, ChainAssumption DEF RegistryRoot
  <2>2. CASE AdvanceBlocks(n) # {}
    <3>1. Latest(AdvanceBlocks(n)) \in AdvanceBlocks(n)
      BY <1>1, <2>2, BlockSets, LatestIsGreatest
    <3>2. chain[Latest(AdvanceBlocks(n))].rcpt.patch \in Patches
      BY <1>1, <3>1, LandedReceipt DEF AdvanceBlocks
    <3> QED
      BY <2>2, <3>2, ChainAssumption DEF RegistryRoot
  <2> QED
    BY <2>1, <2>2
<1>3. ASSUME NEW m PROVE LastReceiptId(m) \in Nat
  <2>1. CASE MinerBlocks(m) = {}
    BY <2>1 DEF LastReceiptId
  <2>2. CASE MinerBlocks(m) # {}
    <3>1. Latest(MinerBlocks(m)) \in MinerBlocks(m)
      BY <1>1, <2>2, BlockSets, LatestIsGreatest
    <3>2. chain[Latest(MinerBlocks(m))].rcpt.id \in Nat
      BY <1>1, <3>1, LandedReceipt DEF MinerBlocks
    <3> QED
      BY <2>2, <3>2 DEF LastReceiptId
  <2> QED
    BY <2>1, <2>2
<1> QED
  BY <1>2, <1>3

(***************************************************************************)
(* Type correctness                                                        *)
(***************************************************************************)
PendingTable == [SignedHashes -> PendingRecord]

\* What typing needs on top of TypeOK: receipts can be counted, and a rollback
\* never takes the transition count below zero.
TypeInv ==
  /\ TypeOK
  /\ IsFiniteSet(issued)
  /\ transitions >= Len(snapshots)

\* The expiry sweep keeps every table a table.
LEMMA SweepTypes ==
  ASSUME TypeOK, NEW pend \in PendingTable
  PROVE  /\ GcPendingRecords(pend) \in PendingTable
         /\ GcDedup(pend) \in [Patches -> Nat]
         /\ GcCache(pend) \in [Hashes -> Envelope \cup {NoEnvelope}]
         /\ GcReservations \in [Miners -> Reservation]
<1>1. GcPendingRecords(pend) \in PendingTable
  BY DEF PendingTable, GcPendingRecords, NoPending, PendingRecord
<1>2. GcDedup(pend) \in [Patches -> Nat]
  BY DEF TypeOK, GcDedup
<1>3. GcCache(pend) \in [Hashes -> Envelope \cup {NoEnvelope}]
  BY DEF TypeOK, GcCache
<1>4. GcReservations \in [Miners -> Reservation]
  BY DEF TypeOK, GcReservations, NoReservation, Reservation
<1> QED
  BY <1>1, <1>2, <1>3, <1>4

\* So do the edits of applyChainEvent, handleReorg and the audit.
LEMMA SettlementTypes ==
  ASSUME NEW pend \in PendingTable, NEW hash, NEW snaps, NEW roots
  PROVE  /\ SettlePending(pend, hash) \in PendingTable
         /\ ReconcilePending(pend, snaps) \in PendingTable
         /\ AuditPending(pend, roots) \in PendingTable
<1>1. \A h \in SignedHashes : pend[h] = [st |-> pend[h].st, exp |-> pend[h].exp]
                             /\ pend[h].exp \in Nat
  BY DEF PendingTable, PendingRecord
<1>2. \A h \in SignedHashes, st \in {"pending", "confirmed", "stale"} :
        [pend[h] EXCEPT !.st = st] \in PendingRecord
  BY DEF PendingTable, PendingRecord
<1>3. \A h \in SignedHashes : pend[h] \in PendingRecord
  BY DEF PendingTable
<1>4. \A h \in SignedHashes : ReconciledState(snaps, h) \in {"pending", "confirmed", "stale"}
  BY DEF ReconciledState
<1> QED
  BY <1>2, <1>3, <1>4 DEF PendingTable, SettlePending, ReconcilePending, AuditPending

\* The rollback point is one of the snapshots, or none.
LEMMA KeptRange ==
  ASSUME TypeOK
  PROVE  /\ Kept \in 0..Len(snapshots)
         /\ Len(KeptSnapshots) = Kept
         /\ KeptSnapshots \in Seq(Snapshot)
         /\ \A i \in 1..Kept : KeptSnapshots[i] = snapshots[i]
         /\ DOMAIN KeptSnapshots = 1..Kept
<1>1. Len(snapshots) \in Nat /\ DOMAIN snapshots = 1..Len(snapshots)
      /\ snapshots \in Seq(Snapshot)
  BY DEF TypeOK
<1>2. CanonicalSnapshots \in SUBSET (1..Len(snapshots))
  BY <1>1 DEF CanonicalSnapshots
<1>3. Kept \in 0..Len(snapshots)
  <2>1. CASE CanonicalSnapshots = {}
    BY <1>1, <2>1 DEF Kept
  <2>2. CASE CanonicalSnapshots # {}
    <3>1. Latest(CanonicalSnapshots) \in CanonicalSnapshots
      BY <1>1, <1>2, <2>2, LatestIsGreatest
    <3>2. Kept = Latest(CanonicalSnapshots)
      BY <2>2 DEF Kept
    <3>3. Kept \in 1..Len(snapshots)
      BY <1>2, <3>1, <3>2
    <3> QED
      BY <1>1, <3>3
  <2> QED
    BY <2>1, <2>2
<1> QED
  BY <1>1, <1>3 DEF KeptSnapshots

\* The event a batch applies next is an advance of the chain.
LEMMA NextEvent ==
  ASSUME TypeOK, tick.pc = "apply", BatchLeft # {}
  PROVE  LET i == Earliest(BatchLeft)
         IN  /\ i \in DOMAIN chain /\ i \in Nat
             /\ chain[i].rcpt.kind = "advance"
             /\ Event(i).patch \in Patches /\ Event(i).score \in Scores
             /\ EventHash(i) \in SignedHashes
             /\ chain[i].fork \in Nat
<1>1. ChainTypeOK /\ tick.safe \in Int
  BY DEF TypeOK
<1>2. BatchLeft \in SUBSET Nat
  BY DEF BatchLeft, AdvanceBlocks
<1>3. Earliest(BatchLeft) \in BatchLeft
  BY <1>2, EarliestIsLeast
<1>4. /\ Earliest(BatchLeft) \in Nat
      /\ Earliest(BatchLeft) \in DOMAIN chain
      /\ chain[Earliest(BatchLeft)].rcpt.kind = "advance"
  BY <1>1, <1>3 DEF BatchLeft, AdvanceBlocks, ChainTypeOK
<1> QED
  BY <1>1, <1>4, LandedReceipt DEF Event, EventHash, SignedHashes

LEMMA InitTypes == Init => TypeInv
<1> SUFFICES ASSUME Init PROVE TypeInv
  OBVIOUS
<1>1. ChainTypeOK
  BY ChainAssumption DEF Init, ChainInit, ChainTypeOK, Block, NoReceipt
<1>2. /\ booted \in BOOLEAN /\ signingEnabled \in BOOLEAN /\ frozen \in BOOLEAN
      /\ freezing \in BOOLEAN
  BY DEF Init, EmptyMemory
<1>8. /\ liveRoot \in Roots /\ stateByRoot \subseteq Roots
      /\ lastScanned \in Int /\ freezeGen \in Nat /\ crashes \in Nat
      /\ issued \subseteq Receipt
  BY ChainAssumption DEF Init, EmptyMemory
<1>7. /\ transitions \in Nat /\ snapshots \in Seq(Snapshot) /\ transitions >= Len(snapshots)
  BY DEF Init, EmptyMemory
<1>3. baselineByRoot \in [Roots -> Nat]
  BY CoreAssumption DEF Init, EmptyMemory
<1>4. /\ tick \in [pc: {"idle", "scan", "apply", "parity"}, safe: Int, at: Int]
      /\ job = NoJob
  BY DEF Init, EmptyMemory, IdleTick
<1>5. /\ reservation \in [Miners -> Reservation]
      /\ pending \in [SignedHashes -> PendingRecord]
      /\ dedup \in [Patches -> Nat]
      /\ cache \in [Hashes -> Envelope \cup {NoEnvelope}]
  BY DEF Init, EmptyMemory, NoReservation, Reservation, NoPending, PendingRecord
<1>6. IsFiniteSet(issued)
  BY FS_EmptySet DEF Init
<1> QED
  BY <1>1, <1>2, <1>3, <1>4, <1>5, <1>6, <1>7, <1>8 DEF TypeInv, TypeOK

\* The chain's own steps.
LEMMA ChainSteps ==
  ASSUME TypeInv, Environment
  PROVE  ChainTypeOK' /\ UNCHANGED coreVars
<1>1. /\ chain \in Seq(Block) /\ forks \in Nat /\ now \in Nat /\ epochOpen \in BOOLEAN
      /\ issued \subseteq Receipt
  BY DEF TypeInv, TypeOK, ChainTypeOK
<1>2. ASSUME NEW r \in Receipt \cup {NoReceipt}, Mine(r) PROVE ChainTypeOK'
  <2>1. [fork |-> forks, rcpt |-> r] \in Block
    BY <1>1 DEF Block
  <2> QED
    BY <1>1, <1>2, <2>1 DEF Mine, ChainTypeOK
<1>3. ASSUME NEW p \in Patches, NEW s \in Scores PROVE ForeignAdvance(p, s) \in Receipt
  <2>1. NextIndex(Foreigner) \in Nat
    BY BlockSets DEF TypeInv, TypeOK
  <2> QED
    BY <1>1, <2>1 DEF ForeignAdvance, Receipt, ReceiptOf
<1>4. CASE MineEmpty
  BY <1>2, <1>4 DEF MineEmpty
<1>5. CASE LandReceipt
  BY <1>1, <1>2, <1>5 DEF LandReceipt
<1>6. CASE LandForeign
  <2>1. PICK p \in ForeignPatches, s \in Scores : Mine(ForeignAdvance(p, s))
    BY <1>6 DEF LandForeign
  <2> QED
    BY <1>2, <1>3, <1>6, <2>1, ChainAssumption DEF LandForeign
<1>7. CASE ChainReorg
  <2>1. PICK keep \in 0..Len(chain) : keep < Len(chain) /\ Reorg(keep)
    BY <1>7 DEF ChainReorg
  <2> QED
    BY <1>1, <1>7, <2>1 DEF ChainReorg, Reorg, ChainTypeOK
<1>8. CASE EpochRollover
  BY <1>1, <1>8 DEF EpochRollover, CloseEpoch, ChainTypeOK
<1> QED
  BY <1>4, <1>5, <1>6, <1>7, <1>8 DEF Environment

\* A restart leaves every variable of the process at its initial value.
LEMMA RestartTypes ==
  ASSUME TypeInv, LoseMemory, UNCHANGED <<chainVars, issued>>, crashes' \in Nat
  PROVE  TypeInv'
<1>1. ChainTypeOK' /\ issued' \subseteq Receipt /\ IsFiniteSet(issued')
  BY DEF TypeInv, TypeOK, ChainTypeOK, chainVars
<1>2. /\ booted' \in BOOLEAN /\ signingEnabled' \in BOOLEAN /\ frozen' \in BOOLEAN
      /\ freezing' \in BOOLEAN
  BY DEF LoseMemory
<1>3. /\ liveRoot' \in Roots /\ stateByRoot' \subseteq Roots
      /\ lastScanned' \in Int /\ freezeGen' \in Nat
  BY ChainAssumption DEF LoseMemory
<1>4. baselineByRoot' \in [Roots -> Nat]
  BY CoreAssumption DEF LoseMemory
<1>5. /\ tick' \in [pc: {"idle", "scan", "apply", "parity"}, safe: Int, at: Int]
      /\ job' = NoJob
  BY DEF LoseMemory, IdleTick
<1>6. /\ reservation' \in [Miners -> Reservation]
      /\ pending' \in [SignedHashes -> PendingRecord]
      /\ dedup' \in [Patches -> Nat]
      /\ cache' \in [Hashes -> Envelope \cup {NoEnvelope}]
  BY DEF LoseMemory, NoReservation, Reservation, NoPending, PendingRecord
<1>7. /\ transitions' \in Nat /\ snapshots' \in Seq(Snapshot)
      /\ transitions' >= Len(snapshots')
  BY DEF LoseMemory
<1> QED
  BY <1>1, <1>2, <1>3, <1>4, <1>5, <1>6, <1>7 DEF TypeInv, TypeOK

\* The confirmed head is an integer (negative while the chain is short).
LEMMA SafeHeadType ==
  ASSUME ChainTypeOK
  PROVE  SafeHead \in Int
BY ChainAssumption DEF SafeHead, ChainTypeOK

\* A rollback types.
LEMMA RollBackTypes ==
  ASSUME TypeInv, RollBack
  PROVE  /\ liveRoot' \in Roots /\ transitions' \in Nat /\ snapshots' \in Seq(Snapshot)
         /\ transitions' >= Len(snapshots')
         /\ stateByRoot' \subseteq Roots /\ lastScanned' \in Int
         /\ pending' \in PendingTable /\ signingEnabled' = FALSE
<1>1. TypeOK
  BY DEF TypeInv
<1>2. /\ snapshots \in Seq(Snapshot) /\ transitions \in Nat /\ stateByRoot \subseteq Roots
      /\ transitions >= Len(snapshots) /\ Len(snapshots) \in Nat /\ pending \in PendingTable
  BY DEF TypeInv, TypeOK, PendingTable
<1>3. /\ Kept \in 0..Len(snapshots) /\ Len(KeptSnapshots) = Kept
      /\ KeptSnapshots \in Seq(Snapshot)
  BY <1>1, KeptRange
<1>4. Kept # 0 => snapshots[Kept] \in Snapshot
  BY <1>2, <1>3
<1>5. liveRoot' \in Roots
  BY <1>4, ChainAssumption DEF RollBack, Snapshot
<1>6. lastScanned' \in Int
  BY <1>4, CoreAssumption DEF RollBack, KeptScan, Snapshot
<1>7. transitions' \in Nat /\ transitions' >= Len(snapshots')
  BY <1>2, <1>3 DEF RollBack, KeptTransitions
<1>8. pending' \in PendingTable
  <2>1. ReconcilePending(pending, KeptSnapshots) \in PendingTable
    BY <1>2, SettlementTypes
  <2>2. AuditPending(ReconcilePending(pending, KeptSnapshots), stateByRoot') \in PendingTable
    BY <2>1, SettlementTypes
  <2> QED
    BY <2>2 DEF RollBack
<1> QED
  BY <1>2, <1>3, <1>5, <1>6, <1>7, <1>8 DEF RollBack

\* The steps of tick() and boot().
LEMMA TickTypes ==
  ASSUME TypeInv, TickStep \/ TickFault \/ BootStep
  PROVE  TypeInv'
<1>1. TypeOK /\ ChainTypeOK
  BY DEF TypeInv, TypeOK
<1>2. IdleTick \in [pc: {"idle", "scan", "apply", "parity"}, safe: Int, at: Int]
  BY DEF IdleTick
<1>3. InParity \in BOOLEAN
  BY DEF InParity
<1>4. CASE TickEpochClosed
  <2>1. pending \in PendingTable
    BY <1>1 DEF TypeOK, PendingTable
  <2>2. /\ pending' \in PendingTable /\ dedup' \in [Patches -> Nat]
        /\ cache' \in [Hashes -> Envelope \cup {NoEnvelope}]
        /\ reservation' \in [Miners -> Reservation]
    BY <1>1, <1>4, <2>1, SweepTypes DEF TickEpochClosed, GcPending
  <2> QED
    BY <1>4, <2>2 DEF TickEpochClosed, PendingTable, TypeInv, TypeOK, ChainTypeOK, chainVars, replicaVars, receiptVars, freezeVars
<1>5. CASE TickStart
  <2>1. tick' \in [pc: {"idle", "scan", "apply", "parity"}, safe: Int, at: Int]
    BY <1>1, <1>5, SafeHeadType DEF TickStart
  <2>2. CASE RollBack
    BY <1>5, <2>1, <2>2, RollBackTypes DEF TickStart, PendingTable, TypeInv, TypeOK, ChainTypeOK, chainVars, replicaVars, receiptVars, freezeVars
  <2>3. CASE UNCHANGED <<replicaVars, pending, signingEnabled>>
    BY <1>5, <2>1, <2>3 DEF TickStart, TypeInv, TypeOK, ChainTypeOK, chainVars, replicaVars, receiptVars, freezeVars
  <2> QED
    BY <1>5, <2>2, <2>3 DEF TickStart
<1>6. CASE TickScan
  <2>1. tick \in [pc: {"idle", "scan", "apply", "parity"}, safe: Int, at: Int] /\ lastScanned \in Int
    BY DEF TypeInv, TypeOK
  <2>2. tick' \in [pc: {"idle", "scan", "apply", "parity"}, safe: Int, at: Int]
    <3>1. /\ lastScanned + 1 \in Int
          /\ \A t \in [pc: {"idle", "scan", "apply", "parity"}, safe: Int, at: Int] :
               [t EXCEPT !.pc = "parity"] \in [pc: {"idle", "scan", "apply", "parity"}, safe: Int, at: Int]
      BY <2>1
    <3>2. \A at \in Int : [tick EXCEPT !.pc = "apply", !.at = at]
                            \in [pc: {"idle", "scan", "apply", "parity"}, safe: Int, at: Int]
      BY <2>1
    <3> QED
      BY <1>6, <2>1, <3>1, <3>2 DEF TickScan
  <2> QED
    BY <1>6, <2>2 DEF TickScan, TypeInv, TypeOK, ChainTypeOK, chainVars, replicaVars, receiptVars, freezeVars
<1>7. CASE ApplyChainEvent
  <2> DEFINE i == Earliest(BatchLeft)
             newRoot == RootAfter[Event(i).patch]
             snap == [block |-> i, fork |-> chain[i].fork, parent |-> ParentOf[Event(i).patch],
                      root |-> newRoot, hash |-> EventHash(i)]
  <2>1. /\ i \in Nat /\ chain[i].fork \in Nat
        /\ Event(i).patch \in Patches /\ Event(i).score \in Scores
        /\ EventHash(i) \in SignedHashes
    BY <1>1, <1>7, NextEvent DEF ApplyChainEvent
  <2>2. newRoot \in Roots /\ ParentOf[Event(i).patch] \in Roots /\ Event(i).score \in Nat
    BY <2>1, ChainAssumption
  <2> HIDE DEF i, newRoot
  <2>3. snap \in Snapshot
    BY <2>1, <2>2 DEF Snapshot
  <2>4. /\ liveRoot' = newRoot /\ transitions' = transitions + 1
        /\ stateByRoot' = stateByRoot \cup {newRoot}
        /\ snapshots' = PushSnapshot(snap)
        /\ pending' = SettlePending(pending, EventHash(i))
        /\ baselineByRoot' \in {baselineByRoot, [baselineByRoot EXCEPT ![newRoot] = Event(i).score]}
        /\ tick' = [tick EXCEPT !.at = i + 1]
    BY <1>7 DEF ApplyChainEvent, i, newRoot
  <2>5. snapshots' \in Seq(Snapshot) /\ transitions' \in Nat /\ transitions' >= Len(snapshots')
    <3> HIDE DEF snap
    <3>1. /\ Len(Append(snapshots, snap)) = Len(snapshots) + 1
          /\ Append(snapshots, snap) \in Seq(Snapshot)
      BY <2>3 DEF TypeInv, TypeOK
    <3>2. /\ Tail(Append(snapshots, snap)) \in Seq(Snapshot)
          /\ Len(Tail(Append(snapshots, snap))) = Len(snapshots)
      <4> DEFINE grown == Append(snapshots, snap)
      <4>1. grown \in Seq(Snapshot) /\ grown # <<>> /\ Len(grown) = Len(snapshots) + 1
            /\ Len(snapshots) \in Nat
        BY <2>3, <3>1, AppendProperties DEF TypeInv, TypeOK
      <4> HIDE DEF grown
      <4>2. Tail(grown) \in Seq(Snapshot) /\ Len(Tail(grown)) = Len(grown) - 1
        BY <4>1, HeadTailProperties
      <4> QED
        BY <4>1, <4>2 DEF grown
    <3> QED
      <4>1. transitions \in Nat /\ Len(snapshots) \in Nat /\ transitions >= Len(snapshots)
        BY DEF TypeInv, TypeOK
      <4>2. /\ PushSnapshot(snap) \in Seq(Snapshot)
            /\ Len(PushSnapshot(snap)) \in {Len(snapshots), Len(snapshots) + 1}
        BY <3>1, <3>2 DEF PushSnapshot
      <4> QED
        BY <2>4, <4>1, <4>2
  <2>6. pending' \in PendingTable
    BY <1>1, <2>4, SettlementTypes DEF TypeOK, PendingTable
  <2>7. /\ baselineByRoot' \in [Roots -> Nat] /\ liveRoot' \in Roots /\ stateByRoot' \subseteq Roots
        /\ tick' \in [pc: {"idle", "scan", "apply", "parity"}, safe: Int, at: Int]
    <3>1. baselineByRoot' \in [Roots -> Nat]
      BY <2>2, <2>4 DEF TypeInv, TypeOK
    <3>2. liveRoot' \in Roots /\ stateByRoot' \subseteq Roots
      BY <2>2, <2>4 DEF TypeInv, TypeOK
    <3>3. tick' \in [pc: {"idle", "scan", "apply", "parity"}, safe: Int, at: Int]
      <4>1. tick \in [pc: {"idle", "scan", "apply", "parity"}, safe: Int, at: Int]
        BY DEF TypeInv, TypeOK
      <4>2. i + 1 \in Int
        BY <2>1
      <4> QED
        BY <2>4, <4>1, <4>2
    <3> QED
      BY <3>1, <3>2, <3>3
  <2> QED
    BY <1>7, <2>5, <2>6, <2>7 DEF ApplyChainEvent, PendingTable, TypeInv, TypeOK, ChainTypeOK, chainVars, replicaVars, receiptVars, freezeVars
<1>8. CASE RejectChainEvent
  BY <1>2, <1>8 DEF RejectChainEvent, TypeInv, TypeOK, ChainTypeOK, chainVars, replicaVars, receiptVars, freezeVars
<1>9. CASE ScanDone
  BY <1>9 DEF ScanDone, TypeInv, TypeOK, ChainTypeOK, chainVars, replicaVars, receiptVars, freezeVars
<1>10. CASE TickParity
  <2>1. AuditPending(pending, stateByRoot) \in PendingTable /\ pending \in PendingTable
    BY <1>1, SettlementTypes DEF TypeOK, PendingTable
  <2>2. /\ pending' \in PendingTable /\ dedup' \in [Patches -> Nat]
        /\ cache' \in [Hashes -> Envelope \cup {NoEnvelope}]
        /\ reservation' \in [Miners -> Reservation]
    BY <1>1, <1>10, <2>1, SweepTypes DEF TickParity, GcPending
  <2> QED
    BY <1>2, <1>3, <1>10, <2>2 DEF TickParity, PendingTable, TypeInv, TypeOK, ChainTypeOK, chainVars, replicaVars, receiptVars, freezeVars
<1>11. CASE TickFault
  BY <1>2, <1>11 DEF TickFault, TypeInv, TypeOK, ChainTypeOK, chainVars, replicaVars, receiptVars, freezeVars
<1>12. CASE BootScan
  BY <1>1, <1>12, SafeHeadType, CoreAssumption DEF BootScan, TypeInv, TypeOK, ChainTypeOK, chainVars, replicaVars, receiptVars, freezeVars
<1>13. CASE BootServe
  BY <1>2, <1>3, <1>13 DEF BootServe, TypeInv, TypeOK, ChainTypeOK, chainVars, replicaVars, receiptVars, freezeVars
<1>14. CASE BootFails
  BY <1>14, RestartTypes DEF BootFails, TypeInv, TypeOK
<1> QED
  BY <1>4, <1>5, <1>6, <1>7, <1>8, <1>9, <1>10, <1>11, <1>12, <1>13, <1>14
     DEF TickStep, BootStep

\* The records a submit goes through, by its position.
PreparingJob == [pc: {"epochCheck"}, miner: Miners, patch: Patches, at: Nat]
ScoringJob == [pc: {"scoring"}, miner: Miners, patch: Patches, at: Nat, gen: Nat]
CountersJob == [pc: {"counters"}, miner: Miners, patch: Patches, at: Nat,
                kind: EvalKinds, score: Scores]
SigningJob == [pc: {"sign"}, miner: Miners, patch: Patches, at: Nat,
               kind: EvalKinds, score: Scores, idx: Nat, prev: Nat]
JobType == {NoJob} \cup PreparingJob \cup ScoringJob \cup CountersJob \cup SigningJob

LEMMA JobByPosition ==
  ASSUME TypeOK
  PROVE  /\ job.pc = "epochCheck" => job \in PreparingJob
         /\ job.pc = "scoring" => job \in ScoringJob
         /\ job.pc = "counters" => job \in CountersJob
         /\ job.pc = "sign" => job \in SigningJob
         /\ job \in JobType
<1>1. job \in JobType
  BY DEF TypeOK, JobType, PreparingJob, ScoringJob, CountersJob, SigningJob
<1> QED
  BY <1>1 DEF JobType, NoJob, PreparingJob, ScoringJob, CountersJob, SigningJob

\* A signed receipt is a receipt, whichever outcome it certifies.
LEMMA SignTypes ==
  ASSUME TypeInv, SignReceipt
  PROVE  TypeInv'
<1> DEFINE id == Cardinality(issued) + 1
           exp == job.at + Ttl
           hash == IF job.kind = "advance" THEN <<job.patch, job.score>>
                   ELSE OriginalHash(job.patch)
           env == [hash |-> hash, exp |-> exp]
           r == [kind |-> job.kind, id |-> id, miner |-> job.miner, idx |-> job.idx,
                 prev |-> job.prev, patch |-> job.patch, expires |-> exp,
                 score |-> IF job.kind = "advance" THEN job.score ELSE 0]
           res == [next |-> job.idx + 1, last |-> IF SignerGivesHash THEN id ELSE 0, exp |-> exp]
<1>1. /\ job.miner \in Miners /\ job.patch \in Patches /\ job.at \in Nat
      /\ job.kind \in {"advance", "screener"} /\ job.score \in Scores
      /\ job.idx \in Nat /\ job.prev \in Nat
  BY JobByPosition, CoreAssumption DEF SignReceipt, SigningJob, TypeInv
<1>2. id \in Nat /\ exp \in Nat
  BY <1>1, FS_CardinalityType, CoreAssumption DEF TypeInv
<1>3. /\ hash \in Hashes /\ OriginalHash(job.patch) \in Hashes
      /\ job.kind = "advance" => hash \in SignedHashes
  BY <1>1 DEF OriginalHash, Hashes, SignedHashes
<1>4. /\ issued' = issued \cup {r}
      /\ reservation' = [reservation EXCEPT ![job.miner] = res]
      /\ dedup' = [dedup EXCEPT ![job.patch] = exp]
      /\ pending' = IF job.kind = "advance"
                    THEN [pending EXCEPT ![hash] = [st |-> "pending", exp |-> exp]]
                    ELSE pending
      /\ cache' = [cache EXCEPT ![hash] = env, ![OriginalHash(job.patch)] = env]
      /\ job' = NoJob
  BY DEF SignReceipt
<1> HIDE DEF id, exp, hash
<1>5. r \in Receipt
  <2>1. CASE job.kind = "advance"
    BY <1>1, <1>2, <2>1 DEF Receipt, ReceiptOf
  <2>2. CASE job.kind = "screener"
    BY <1>1, <1>2, <2>2 DEF Receipt, ReceiptOf
  <2> QED
    BY <1>1, <2>1, <2>2
<1>6. res \in Reservation /\ env \in Envelope
  BY <1>1, <1>2, <1>3 DEF Reservation, Envelope
<1> HIDE DEF r, res, env
<1>7. /\ issued' \subseteq Receipt
      /\ IsFiniteSet(issued')
  BY <1>4, <1>5, FS_AddElement DEF TypeInv, TypeOK
<1>8. reservation' \in [Miners -> Reservation] /\ dedup' \in [Patches -> Nat]
  BY <1>2, <1>4, <1>6 DEF TypeInv, TypeOK
<1>9. pending' \in [SignedHashes -> PendingRecord]
  <2>1. [st |-> "pending", exp |-> exp] \in PendingRecord
    BY <1>2 DEF PendingRecord
  <2> QED
    BY <1>4, <2>1 DEF TypeInv, TypeOK
<1>10. cache' \in [Hashes -> Envelope \cup {NoEnvelope}]
  BY <1>4, <1>6 DEF TypeInv, TypeOK
<1> QED
  BY <1>4, <1>7, <1>8, <1>9, <1>10 DEF SignReceipt, TypeInv, TypeOK, ChainTypeOK, chainVars, replicaVars, receiptVars, freezeVars

\* The steps of a submit.
LEMMA SubmitTypes ==
  ASSUME TypeInv,
         SubmitStep \/ \E m \in Miners, p \in Patches : BeginSubmit(m, p)
  PROVE  TypeInv'
<1>1. TypeOK /\ ChainTypeOK
  BY DEF TypeInv, TypeOK
<1>2. \A j \in JobType :
        /\ \/ j \in {NoJob}
           \/ j \in PreparingJob \/ j \in ScoringJob \/ j \in CountersJob \/ j \in SigningJob
  BY DEF JobType
<1>3. ASSUME NEW m \in Miners, NEW p \in Patches, BeginSubmit(m, p) PROVE TypeInv'
  <2>1. pending \in PendingTable
    BY <1>1 DEF TypeOK, PendingTable
  <2>2. /\ pending' \in PendingTable /\ dedup' \in [Patches -> Nat]
        /\ cache' \in [Hashes -> Envelope \cup {NoEnvelope}]
        /\ reservation' \in [Miners -> Reservation]
    BY <1>1, <1>3, <2>1, SweepTypes DEF BeginSubmit, GcPending
  <2>3. job' \in {NoJob} \cup PreparingJob
    BY <1>1, <1>3 DEF BeginSubmit, PreparingJob, ChainTypeOK
  <2> QED
    BY <1>3, <2>2, <2>3 DEF BeginSubmit, PreparingJob, PendingTable, TypeInv, TypeOK, ChainTypeOK, chainVars, replicaVars, receiptVars, freezeVars
<1>4. CASE PrepareSubmit
  <2>1. job' \in {NoJob} \cup ScoringJob
    BY <1>1, <1>4, JobByPosition DEF PrepareSubmit, PreparingJob, ScoringJob, TypeOK
  <2>2. signingEnabled' \in BOOLEAN
    BY <1>4 DEF PrepareSubmit
  <2> QED
    BY <1>4, <2>1, <2>2 DEF PrepareSubmit, ScoringJob, TypeInv, TypeOK, ChainTypeOK, chainVars, replicaVars, receiptVars, freezeVars
<1>5. CASE SubmitFault
  <2>1. signingEnabled' \in BOOLEAN
    BY <1>1, <1>5 DEF SubmitFault, TypeOK
  <2> QED
    BY <1>5, <2>1 DEF SubmitFault, TypeInv, TypeOK, ChainTypeOK, chainVars, replicaVars, receiptVars, freezeVars
<1>6. CASE EvaluatorRefuses
  BY <1>6 DEF EvaluatorRefuses, TypeInv, TypeOK, ChainTypeOK, chainVars, replicaVars, receiptVars, freezeVars
<1>7. ASSUME NEW kind \in EvalKinds, NEW s \in Scores, FinishSubmit(kind, s) PROVE TypeInv'
  <2>1. job' \in {NoJob} \cup CountersJob
    BY <1>1, <1>7, JobByPosition DEF FinishSubmit, ScoringJob, CountersJob
  <2> QED
    BY <1>7, <2>1 DEF FinishSubmit, CountersJob, TypeInv, TypeOK, ChainTypeOK, chainVars, replicaVars, receiptVars, freezeVars
<1>8. CASE ReadCounters
  <2>1. job.pc = "counters" /\ job \in CountersJob /\ job.miner \in Miners
    BY <1>1, <1>8, JobByPosition DEF ReadCounters, CountersJob
  <2>2. /\ NextIndex(job.miner) \in Nat /\ LastReceiptId(job.miner) \in Nat
        /\ reservation[job.miner].next \in Nat /\ reservation[job.miner].last \in Nat
    BY <1>1, <2>1, BlockSets, RegistryAnswers DEF TypeOK, Reservation
  <2>3. SolveIndex(job.miner) \in Nat /\ PrevReceipt(job.miner) \in Nat
    BY <2>2 DEF SolveIndex, PrevReceipt
  <2>4. job' \in {NoJob} \cup SigningJob
    BY <1>8, <2>1, <2>3 DEF ReadCounters, CountersJob, SigningJob
  <2>5. reservation' \in [Miners -> Reservation]
    BY <1>1, <1>8 DEF ReadCounters, TypeOK, NoReservation, Reservation
  <2> QED
    BY <1>8, <2>4, <2>5 DEF ReadCounters, SigningJob, TypeInv, TypeOK, ChainTypeOK, chainVars, replicaVars, receiptVars, freezeVars
<1>9. CASE SigningFails
  BY <1>9 DEF SigningFails, TypeInv, TypeOK, ChainTypeOK, chainVars, replicaVars, receiptVars, freezeVars
<1> QED
  BY <1>3, <1>4, <1>5, <1>6, <1>7, <1>8, <1>9, SignTypes DEF SubmitStep

\* The handlers that do not take the mutex.
LEMMA HandlerTypes ==
  ASSUME TypeInv,
         \/ Freeze \/ FreezeReturns \/ Unfreeze
         \/ \E r \in Rebaselined, b \in Scores : SetRecomputedBaseline(r, b)
         \/ InvalidateBaselines \/ LookupReceipt \/ GetStatus
  PROVE  TypeInv'
<1>1. TypeOK
  BY DEF TypeInv
<1>2. CASE Freeze
  BY <1>2 DEF Freeze, TypeInv, TypeOK, ChainTypeOK, chainVars, replicaVars, receiptVars, freezeVars
<1>3. CASE FreezeReturns
  BY <1>3 DEF FreezeReturns, TypeInv, TypeOK, ChainTypeOK, chainVars, replicaVars, receiptVars, freezeVars
<1>4. CASE Unfreeze
  BY <1>4 DEF Unfreeze, TypeInv, TypeOK, ChainTypeOK, chainVars, replicaVars, receiptVars, freezeVars
<1>5. ASSUME NEW r \in Rebaselined, NEW b \in Scores, SetRecomputedBaseline(r, b) PROVE TypeInv'
  <2>1. baselineByRoot' \in [Roots -> Nat]
    BY <1>1, <1>5, ChainAssumption DEF SetRecomputedBaseline, TypeOK
  <2> QED
    BY <1>5, <2>1 DEF SetRecomputedBaseline, TypeInv, TypeOK, ChainTypeOK, chainVars, replicaVars, receiptVars, freezeVars
<1>6. CASE InvalidateBaselines
  BY <1>6 DEF InvalidateBaselines, TypeInv, TypeOK, ChainTypeOK, chainVars, replicaVars, receiptVars, freezeVars
<1>7. CASE LookupReceipt
  <2>1. pending \in PendingTable
    BY <1>1 DEF TypeOK, PendingTable
  <2>2. /\ pending' \in PendingTable /\ dedup' \in [Patches -> Nat]
        /\ cache' \in [Hashes -> Envelope \cup {NoEnvelope}]
        /\ reservation' \in [Miners -> Reservation]
    BY <1>1, <1>7, <2>1, SweepTypes DEF LookupReceipt, GcPending
  <2> QED
    BY <1>7, <2>2 DEF LookupReceipt, PendingTable, TypeInv, TypeOK, ChainTypeOK, chainVars, replicaVars, receiptVars, freezeVars
<1>8. CASE GetStatus
  BY <1>8 DEF GetStatus, TypeInv, TypeOK, ChainTypeOK, chainVars, replicaVars, receiptVars, freezeVars
<1> QED
  BY <1>2, <1>3, <1>4, <1>5, <1>6, <1>7, <1>8

LEMMA StepTypes == TypeInv /\ [Next]_vars => TypeInv'
<1> SUFFICES ASSUME TypeInv, [Next]_vars PROVE TypeInv'
  OBVIOUS
<1>1. CASE Environment
  BY <1>1, ChainSteps DEF TypeInv, TypeOK, coreVars, replicaVars, receiptVars, freezeVars
<1>2. CASE Crash
  <2>1. crashes' \in Nat
    BY <1>2 DEF Crash, TypeInv, TypeOK
  <2> QED
    BY <1>2, <2>1, RestartTypes DEF Crash
<1>3. CASE UNCHANGED vars
  BY <1>3 DEF vars, TypeInv, TypeOK, ChainTypeOK, chainVars, replicaVars, receiptVars, freezeVars
<1> QED
  BY <1>1, <1>2, <1>3, TickTypes, SubmitTypes, HandlerTypes DEF Next

\* Every variable has its type: the tables stay total over their keys, counts
\* never go below zero, whatever the sizes of the instance.
THEOREM TypeCorrect == Spec => []TypeOK
<1>1. TypeInv => TypeOK
  BY DEF TypeInv
<1> QED
  BY <1>1, InitTypes, StepTypes, PTL DEF Spec

(***************************************************************************)
(* Safety: the replica's line of advances, the receipts tracked on it, the *)
(* mutex, what a signature is issued for and what a freeze stops.          *)
(***************************************************************************)

lineVars == <<liveRoot, transitions, snapshots, stateByRoot>>

(***************************************************************************)
(* The mutex                                                               *)
(***************************************************************************)
\* While a submit holds the mutex no tick runs, and the root it was evaluated
\* on stays live; once freeze() has returned nobody holds the mutex.
MutexInv ==
  /\ ~booted => job.pc = "none" /\ ~frozen
  /\ job.pc \in {"epochCheck", "counters", "sign"} => tick.pc = "idle"
  /\ job.pc \in {"counters", "sign"} => ParentOf[job.patch] = liveRoot
  /\ frozen /\ ~freezing => MutexFree

\* Only an applied event, a rollback and a restart move the replica's line.
LEMMA LineMoves ==
  ASSUME [Next]_vars
  PROVE  \/ ApplyChainEvent
         \/ TickStart /\ RollBack
         \/ LoseMemory
         \/ UNCHANGED lineVars
<1> USE DEF lineVars, replicaVars
<1>1. CASE Environment
  BY <1>1 DEF Environment, MineEmpty, LandReceipt, LandForeign, ChainReorg, EpochRollover, coreVars
<1>2. CASE TickStep \/ TickFault
  BY <1>2 DEF TickStep, TickFault, TickEpochClosed, TickStart, TickScan, RejectChainEvent, ScanDone,
     TickParity
<1>3. CASE BootStep \/ Crash
  BY <1>3 DEF BootStep, BootScan, BootServe, BootFails, Crash
<1>4. CASE SubmitStep \/ \E m \in Miners, p \in Patches : BeginSubmit(m, p)
  BY <1>4 DEF SubmitStep, PrepareSubmit, SubmitFault, EvaluatorRefuses, FinishSubmit,
     ReadCounters, SigningFails, SignReceipt, BeginSubmit
<1>5. CASE \/ Freeze \/ FreezeReturns \/ Unfreeze
           \/ \E r \in Rebaselined, b \in Scores : SetRecomputedBaseline(r, b)
           \/ InvalidateBaselines \/ LookupReceipt \/ GetStatus
  BY <1>5 DEF Freeze, FreezeReturns, Unfreeze, SetRecomputedBaseline, InvalidateBaselines,
     LookupReceipt, GetStatus
<1>6. CASE UNCHANGED vars
  BY <1>6 DEF vars
<1> QED
  BY <1>1, <1>2, <1>3, <1>4, <1>5, <1>6 DEF Next

LEMMA MutexInit == Init => MutexInv
BY DEF Init, EmptyMemory, MutexInv, NoJob, IdleTick, MutexFree

LEMMA MutexStep ==
  ASSUME TypeOK, MutexInv, [Next]_vars
  PROVE  MutexInv'
<1> USE DEF MutexInv, MutexFree, replicaVars, freezeVars
<1>1. CASE Environment
  BY <1>1 DEF Environment, MineEmpty, LandReceipt, LandForeign, ChainReorg, EpochRollover, coreVars
<1>2. CASE TickEpochClosed
  BY <1>2 DEF TickEpochClosed
<1>3. CASE TickStart
  BY <1>3 DEF TickStart
<1>4. CASE TickScan
  BY <1>4 DEF TickScan, TypeOK
<1>5. CASE ApplyChainEvent
  BY <1>5 DEF ApplyChainEvent, TypeOK
<1>6. CASE RejectChainEvent
  BY <1>6 DEF RejectChainEvent, IdleTick
<1>7. CASE ScanDone
  BY <1>7 DEF ScanDone, TypeOK
<1>8. CASE TickParity
  BY <1>8 DEF TickParity, IdleTick
<1>9. CASE TickFault
  BY <1>9 DEF TickFault, IdleTick
<1>10. CASE BootScan
  BY <1>10 DEF BootScan
<1>11. CASE BootServe
  BY <1>11 DEF BootServe, IdleTick
<1>12. CASE BootFails \/ Crash
  BY <1>12 DEF BootFails, Crash, LoseMemory, NoJob, IdleTick
<1>13. ASSUME NEW m \in Miners, NEW p \in Patches, BeginSubmit(m, p) PROVE MutexInv'
  BY <1>13 DEF BeginSubmit, NoJob
<1>14. CASE PrepareSubmit
  BY <1>14 DEF PrepareSubmit, NoJob
<1>15. CASE SubmitFault
  BY <1>15 DEF SubmitFault, NoJob
<1>16. CASE EvaluatorRefuses
  BY <1>16 DEF EvaluatorRefuses, NoJob
<1>17. ASSUME NEW kind \in EvalKinds, NEW s \in Scores, FinishSubmit(kind, s) PROVE MutexInv'
  BY <1>17 DEF FinishSubmit, FinishRefused, NoJob
<1>18. CASE ReadCounters
  BY <1>18 DEF ReadCounters, NoJob
<1>19. CASE SigningFails \/ SignReceipt
  BY <1>19 DEF SigningFails, SignReceipt, NoJob
<1>20. CASE Freeze
  BY <1>20 DEF Freeze
<1>21. CASE FreezeReturns
  BY <1>21 DEF FreezeReturns
<1>22. CASE Unfreeze
  BY <1>22 DEF Unfreeze
<1>23. CASE \/ \E r \in Rebaselined, b \in Scores : SetRecomputedBaseline(r, b)
            \/ InvalidateBaselines \/ LookupReceipt \/ GetStatus
  BY <1>23 DEF SetRecomputedBaseline, InvalidateBaselines, LookupReceipt, GetStatus
<1>24. CASE UNCHANGED vars
  BY <1>24 DEF vars
<1> QED
  BY <1>1, <1>2, <1>3, <1>4, <1>5, <1>6, <1>7, <1>8, <1>9, <1>10, <1>11, <1>12, <1>13, <1>14,
     <1>15, <1>16, <1>17, <1>18, <1>19, <1>20, <1>21, <1>22, <1>23, <1>24
     DEF Next, TickStep, BootStep, SubmitStep

(***************************************************************************)
(* The replica's line of advances                                          *)
(***************************************************************************)
\* A push appends the new snapshot, and drops at most the oldest one.
LEMMA PushFacts ==
  ASSUME TypeOK, NEW snap \in Snapshot
  PROVE  LET s == PushSnapshot(snap)
         IN  /\ s \in Seq(Snapshot) /\ s # <<>> /\ Len(s) \in Nat /\ Len(s) # 0
             /\ s[Len(s)] = snap
             /\ \/ /\ Len(s) = Len(snapshots) + 1
                   /\ \A i \in 1..Len(snapshots) : s[i] = snapshots[i]
                \/ /\ Len(s) = Len(snapshots)
                   /\ \A i \in 1..Len(s)-1 : s[i] = snapshots[i + 1]
<1> DEFINE grown == Append(snapshots, snap)
<1>1. snapshots \in Seq(Snapshot) /\ Len(snapshots) \in Nat
  BY DEF TypeOK
<1>2. /\ grown \in Seq(Snapshot) /\ grown # <<>> /\ Len(grown) = Len(snapshots) + 1
      /\ \A i \in 1..Len(snapshots) : grown[i] = snapshots[i]
      /\ grown[Len(snapshots) + 1] = snap
  BY <1>1, AppendProperties
<1> HIDE DEF grown
<1>3. CASE Len(grown) <= MaxSnapshots
  <2>1. PushSnapshot(snap) = grown
    BY <1>1, <1>2, <1>3, CoreAssumption DEF PushSnapshot, grown
  <2> QED
    BY <1>1, <1>2, <2>1
<1>4. CASE Len(grown) > MaxSnapshots
  <2>1. PushSnapshot(snap) = Tail(grown)
    BY <1>4 DEF PushSnapshot, grown
  <2>2. /\ Tail(grown) \in Seq(Snapshot) /\ Len(Tail(grown)) = Len(snapshots)
        /\ \A i \in 1..Len(snapshots) : Tail(grown)[i] = grown[i + 1]
    BY <1>1, <1>2, HeadTailProperties
  <2>3. Len(snapshots) >= 1
    BY <1>1, <1>2, <1>4, CoreAssumption
  <2>4. Tail(grown)[Len(snapshots)] = snap
    BY <1>1, <1>2, <2>2, <2>3
  <2>5. \A i \in 1..Len(snapshots)-1 : Tail(grown)[i] = snapshots[i + 1]
    BY <1>1, <1>2, <2>2
  <2>6. Tail(grown) # <<>>
    BY <1>1, <2>2, <2>3
  <2> QED
    BY <1>1, <2>1, <2>2, <2>3, <2>4, <2>5, <2>6
<1>5. Len(grown) <= MaxSnapshots \/ Len(grown) > MaxSnapshots
  BY <1>1, <1>2, CoreAssumption
<1> QED
  BY <1>3, <1>4, <1>5

LEMMA LinkedInit == Init => ReplicaLinked
<1> SUFFICES ASSUME Init PROVE ReplicaLinked
  OBVIOUS
<1>1. /\ snapshots = <<>> /\ liveRoot = LaunchRoot /\ transitions = 0 /\ stateByRoot = {LaunchRoot}
  BY DEF Init, EmptyMemory
<1>2. RootsOf(<<>>) = {LaunchRoot}
  BY DEF RootsOf
<1> QED
  BY <1>1, <1>2 DEF ReplicaLinked

\* A restart starts the line over.
LEMMA LinkedRestart ==
  ASSUME LoseMemory
  PROVE  ReplicaLinked'
<1>1. /\ snapshots' = <<>> /\ liveRoot' = LaunchRoot /\ transitions' = 0
      /\ stateByRoot' = {LaunchRoot}
  BY DEF LoseMemory
<1>2. RootsOf(snapshots') = {LaunchRoot}
  BY <1>1 DEF RootsOf
<1> QED
  BY <1>1, <1>2 DEF ReplicaLinked

\* A rollback cuts the line at a snapshot, or back to the launch root.
LEMMA LinkedRollBack ==
  ASSUME TypeInv, ReplicaLinked, RollBack
  PROVE  /\ ReplicaLinked'
         /\ stateByRoot' = RootsOf(KeptSnapshots)
         /\ NothingEvicted' => Kept = 0 \/ NothingEvicted
<1>1. /\ Kept \in 0..Len(snapshots) /\ Len(KeptSnapshots) = Kept
      /\ KeptSnapshots \in Seq(Snapshot)
      /\ \A i \in 1..Kept : KeptSnapshots[i] = snapshots[i]
      /\ DOMAIN KeptSnapshots = 1..Kept
      /\ Len(snapshots) \in Nat /\ DOMAIN snapshots = 1..Len(snapshots)
      /\ transitions \in Nat
  BY KeptRange DEF TypeInv, TypeOK
<1>2. snapshots' = KeptSnapshots
  BY DEF RollBack
<1>3. RootsOf(KeptSnapshots) \subseteq RootsOf(snapshots)
  BY <1>1 DEF RootsOf
<1>4. stateByRoot' = RootsOf(KeptSnapshots)
  BY <1>3 DEF RollBack, ReplicaLinked
<1>5. KeptSnapshots = <<>> <=> Kept = 0
  BY <1>1
<1>6. liveRoot' = IF KeptSnapshots = <<>> THEN LaunchRoot ELSE Last(KeptSnapshots).root
  BY <1>1, <1>5 DEF RollBack, Last
<1>7. transitions' = IF Kept = 0 THEN 0 ELSE transitions - (Len(snapshots) - Kept)
  BY DEF RollBack, KeptTransitions
<1>8. \A i \in 2..Len(KeptSnapshots) : KeptSnapshots[i].parent = KeptSnapshots[i - 1].root
  <2> SUFFICES ASSUME NEW i \in 2..Kept
               PROVE  KeptSnapshots[i].parent = KeptSnapshots[i - 1].root
    BY <1>1
  <2>1. i \in 1..Kept /\ i - 1 \in 1..Kept /\ i \in 2..Len(snapshots)
    BY <1>1
  <2>2. snapshots[i].parent = snapshots[i - 1].root
    BY <2>1 DEF ReplicaLinked
  <2> QED
    BY <1>1, <2>1, <2>2
<1>9. NothingEvicted' => Kept = 0 \/ NothingEvicted
  <2> SUFFICES ASSUME transitions' = Len(snapshots'), Kept # 0 PROVE transitions = Len(snapshots)
    BY DEF NothingEvicted
  <2>1. Len(snapshots') = Kept
    BY <1>1, <1>2
  <2>2. transitions - (Len(snapshots) - Kept) = Kept
    BY <1>7, <2>1
  <2>3. Len(snapshots) \in Nat /\ Kept \in Nat /\ transitions \in Nat
    BY <1>1
  <2> QED
    BY <2>2, <2>3
<1>10. NothingEvicted' /\ KeptSnapshots # <<>> => KeptSnapshots[1].parent = LaunchRoot
  <2> SUFFICES ASSUME NothingEvicted', Kept # 0 PROVE KeptSnapshots[1].parent = LaunchRoot
    BY <1>5
  <2>1. NothingEvicted /\ snapshots # <<>> /\ 1 \in 1..Kept
    BY <1>1, <1>9
  <2> QED
    BY <1>1, <2>1 DEF ReplicaLinked
<1>11. RootsOf(snapshots') = RootsOf(KeptSnapshots)
  BY <1>2
<1> QED
  BY <1>2, <1>4, <1>5, <1>6, <1>7, <1>8, <1>9, <1>10 DEF ReplicaLinked, RootsOf

\* An applied event extends the line from its tip.
LEMMA AppliedEvent ==
  ASSUME TypeInv, ReplicaLinked, ApplyChainEvent
  PROVE  \E snap \in Snapshot :
           /\ snap.hash \in SignedHashes /\ snap.parent = ParentOf[snap.hash[1]]
           /\ snap.parent = liveRoot /\ liveRoot' = snap.root
           /\ transitions' = transitions + 1
           /\ stateByRoot' = stateByRoot \cup {snap.root}
           /\ snapshots' = PushSnapshot(snap)
           /\ pending' = SettlePending(pending, snap.hash)
<1> DEFINE i == Earliest(BatchLeft)
           newRoot == RootAfter[Event(i).patch]
           snap == [block |-> i, fork |-> chain[i].fork, parent |-> ParentOf[Event(i).patch],
                    root |-> newRoot, hash |-> EventHash(i)]
<1>1. /\ i \in Nat /\ chain[i].fork \in Nat
      /\ Event(i).patch \in Patches /\ EventHash(i) \in SignedHashes
  BY NextEvent DEF ApplyChainEvent, TypeInv
<1>2. /\ EventAccepted(i) /\ liveRoot' = newRoot /\ transitions' = transitions + 1
      /\ stateByRoot' = stateByRoot \cup {newRoot} /\ snapshots' = PushSnapshot(snap)
      /\ pending' = SettlePending(pending, EventHash(i))
  BY DEF ApplyChainEvent
<1>3. newRoot \in Roots /\ ParentOf[Event(i).patch] \in Roots
  BY <1>1, ChainAssumption
<1>4. EventHash(i)[1] = Event(i).patch
  BY DEF EventHash
<1>5. ParentOf[Event(i).patch] = liveRoot
  BY <1>2 DEF EventAccepted
<1> HIDE DEF i, newRoot
<1>6. snap \in Snapshot
  BY <1>1, <1>3 DEF Snapshot
<1> QED
  BY <1>1, <1>2, <1>4, <1>5, <1>6

LEMMA LinkedApply ==
  ASSUME TypeInv, ReplicaLinked, ApplyChainEvent
  PROVE  ReplicaLinked' /\ (NothingEvicted' => NothingEvicted)
<1>1. PICK snap \in Snapshot :
        /\ snap.parent = liveRoot /\ liveRoot' = snap.root
        /\ transitions' = transitions + 1
        /\ stateByRoot' = stateByRoot \cup {snap.root}
        /\ snapshots' = PushSnapshot(snap)
  BY AppliedEvent
<1> DEFINE s == PushSnapshot(snap)
<1>2. /\ s \in Seq(Snapshot) /\ s # <<>> /\ Len(s) \in Nat /\ Len(s) # 0
      /\ s[Len(s)] = snap
      /\ \/ /\ Len(s) = Len(snapshots) + 1
            /\ \A i \in 1..Len(snapshots) : s[i] = snapshots[i]
         \/ /\ Len(s) = Len(snapshots)
            /\ \A i \in 1..Len(s)-1 : s[i] = snapshots[i + 1]
  BY PushFacts DEF TypeInv
<1> HIDE DEF s
<1>3. snapshots' = s
  BY <1>1 DEF s
<1>4. /\ Len(snapshots) \in Nat /\ transitions \in Nat /\ transitions >= Len(snapshots)
      /\ DOMAIN snapshots = 1..Len(snapshots) /\ DOMAIN s = 1..Len(s)
      /\ snapshots = <<>> <=> Len(snapshots) = 0
  BY <1>2 DEF TypeInv, TypeOK
<1>5. liveRoot = IF snapshots = <<>> THEN LaunchRoot ELSE snapshots[Len(snapshots)].root
  BY DEF ReplicaLinked, Last
<1>6. \A i \in 2..Len(snapshots) : snapshots[i].parent = snapshots[i - 1].root
  BY DEF ReplicaLinked
<1>7. \A i \in 2..Len(s) : s[i].parent = s[i - 1].root
  <2> SUFFICES ASSUME NEW i \in 2..Len(s) PROVE s[i].parent = s[i - 1].root
    OBVIOUS
  <2>1. CASE i = Len(s)
    <3>1. Len(s) >= 2 /\ Len(snapshots) >= 1
      <4>1. Len(s) \in Nat /\ Len(snapshots) \in Nat
        BY <1>2, <1>4
      <4>2. Len(s) = Len(snapshots) + 1 \/ Len(s) = Len(snapshots)
        BY <1>2
      <4> QED
        BY <2>1, <4>1, <4>2
    <3>2. s[i - 1] = snapshots[Len(snapshots)]
      <4>1. CASE Len(s) = Len(snapshots) + 1 /\ \A j \in 1..Len(snapshots) : s[j] = snapshots[j]
        BY <1>4, <2>1, <3>1, <4>1
      <4>2. CASE Len(s) = Len(snapshots) /\ \A j \in 1..Len(s)-1 : s[j] = snapshots[j + 1]
        <5>1. i - 1 \in 1..Len(s)-1 /\ (i - 1) + 1 = Len(snapshots)
          BY <1>4, <2>1, <3>1, <4>2
        <5> QED
          BY <4>2, <5>1
      <4> QED
        BY <1>2, <4>1, <4>2
    <3> QED
      <4>1. snapshots # <<>>
        <5>1. Len(snapshots) # 0
          BY <1>4, <3>1
        <5> QED
          BY <1>4, <5>1
      <4>2. liveRoot = snapshots[Len(snapshots)].root
        BY <1>5, <4>1
      <4>3. s[i].parent = liveRoot
        BY <1>1, <1>2, <2>1
      <4> QED
        BY <3>2, <4>2, <4>3
  <2>2. CASE i # Len(s)
    <3>1. i \in 2..(Len(s) - 1)
      BY <1>2, <2>2
    <3>2. CASE Len(s) = Len(snapshots) + 1 /\ \A j \in 1..Len(snapshots) : s[j] = snapshots[j]
      BY <1>4, <1>6, <3>1, <3>2
    <3>3. CASE Len(s) = Len(snapshots) /\ \A j \in 1..Len(s)-1 : s[j] = snapshots[j + 1]
      <4>1. i + 1 \in 2..Len(snapshots) /\ i \in 1..Len(s)-1 /\ i - 1 \in 1..Len(s)-1
        BY <1>4, <3>1, <3>3
      <4>2. snapshots[i + 1].parent = snapshots[i].root
        BY <1>6, <4>1
      <4>3. s[i] = snapshots[i + 1] /\ s[i - 1] = snapshots[i]
        BY <3>3, <4>1
      <4> QED
        BY <4>2, <4>3
    <3> QED
      BY <1>2, <3>2, <3>3
  <2> QED
    BY <2>1, <2>2
<1>8. \A i \in DOMAIN s : s[i].root = snap.root \/ \E j \in DOMAIN snapshots : s[i] = snapshots[j]
  <2> SUFFICES ASSUME NEW i \in 1..Len(s), i # Len(s)
               PROVE  \E j \in 1..Len(snapshots) : s[i] = snapshots[j]
    BY <1>2, <1>4
  <2>1. i \in 1..Len(s)-1
    BY <1>2
  <2>2. CASE Len(s) = Len(snapshots) + 1 /\ \A j \in 1..Len(snapshots) : s[j] = snapshots[j]
    BY <1>4, <2>1, <2>2
  <2>3. CASE Len(s) = Len(snapshots) /\ \A j \in 1..Len(s)-1 : s[j] = snapshots[j + 1]
    <3>1. i + 1 \in 1..Len(snapshots)
      <4>1. i \in 1..Len(snapshots)-1 /\ Len(snapshots) \in Nat
        BY <1>4, <2>1, <2>3
      <4> QED
        BY <4>1
    <3>2. s[i] = snapshots[i + 1]
      BY <2>1, <2>3
    <3> QED
      BY <3>1, <3>2
  <2> QED
    BY <1>2, <2>2, <2>3
<1>9. RootsOf(s) \subseteq RootsOf(snapshots) \cup {snap.root}
  BY <1>8 DEF RootsOf
<1>10. RootsOf(snapshots) \subseteq stateByRoot
  BY DEF ReplicaLinked
<1>11. RootsOf(s) \subseteq stateByRoot'
  BY <1>1, <1>9, <1>10
<1>12. ASSUME transitions' = Len(s)
       PROVE  /\ transitions = Len(snapshots) /\ Len(s) = Len(snapshots) + 1
              /\ \A i \in 1..Len(snapshots) : s[i] = snapshots[i]
  <2>1. Len(s) # Len(snapshots)
    <3>1. transitions + 1 = Len(s)
      BY <1>1, <1>12
    <3>2. transitions \in Nat /\ Len(snapshots) \in Nat /\ transitions >= Len(snapshots)
      BY <1>4
    <3> QED
      BY <3>1, <3>2
  <2>2. Len(s) = Len(snapshots) + 1 /\ \A i \in 1..Len(snapshots) : s[i] = snapshots[i]
    BY <1>2, <2>1
  <2>3. transitions = Len(snapshots)
    <3>1. transitions + 1 = Len(snapshots) + 1
      BY <1>1, <1>12, <2>2
    <3>2. transitions \in Nat /\ Len(snapshots) \in Nat
      BY <1>4
    <3> QED
      BY <3>1, <3>2
  <2> QED
    BY <2>2, <2>3
<1>13. ASSUME transitions' = Len(s)
       PROVE  s[1].parent = LaunchRoot /\ stateByRoot' = RootsOf(s)
  <2>1. /\ transitions = Len(snapshots) /\ Len(s) = Len(snapshots) + 1
        /\ \A i \in 1..Len(snapshots) : s[i] = snapshots[i]
    BY <1>12, <1>13
  <2>2. NothingEvicted
    BY <2>1 DEF NothingEvicted
  <2>3. stateByRoot = RootsOf(snapshots)
    BY <2>2 DEF ReplicaLinked
  <2>4. RootsOf(snapshots) \cup {snap.root} \subseteq RootsOf(s)
    <3>1. \A j \in DOMAIN snapshots : j \in DOMAIN s /\ s[j] = snapshots[j]
      BY <1>4, <2>1
    <3>2. Len(s) \in DOMAIN s /\ s[Len(s)].root = snap.root
      <4>1. Len(s) \in 1..Len(s)
        BY <1>2
      <4> QED
        BY <1>2, <1>4, <4>1
    <3> QED
      BY <3>1, <3>2 DEF RootsOf
  <2>5. s[1].parent = LaunchRoot
    <3>1. snapshots = <<>> => s[1].parent = LaunchRoot
      <4> SUFFICES ASSUME snapshots = <<>> PROVE s[1].parent = LaunchRoot
        OBVIOUS
      <4>1. Len(s) = 1 /\ liveRoot = LaunchRoot
        BY <1>4, <1>5, <2>1
      <4> QED
        BY <1>1, <1>2, <4>1
    <3>2. snapshots # <<>> => s[1].parent = LaunchRoot
      <4> SUFFICES ASSUME snapshots # <<>> PROVE s[1].parent = LaunchRoot
        OBVIOUS
      <4>1. snapshots[1].parent = LaunchRoot
        BY <2>2 DEF ReplicaLinked
      <4>2. 1 \in 1..Len(snapshots)
        BY <1>4
      <4> QED
        BY <2>1, <4>1, <4>2
    <3> QED
      BY <3>1, <3>2
  <2> QED
    BY <1>1, <1>9, <2>3, <2>4, <2>5
<1>14. NothingEvicted' <=> transitions' = Len(s)
  BY <1>3 DEF NothingEvicted
<1>15. NothingEvicted' => NothingEvicted
  BY <1>12, <1>14 DEF NothingEvicted
<1>16. liveRoot' = Last(s).root
  BY <1>1, <1>2 DEF Last
<1>17. RootsOf(snapshots') = RootsOf(s)
  BY <1>3
<1> QED
  BY <1>2, <1>3, <1>7, <1>11, <1>13, <1>14, <1>15, <1>16 DEF ReplicaLinked, RootsOf

\* Steps that do not move the line keep it.
LEMMA LinkedStep ==
  ASSUME TypeInv, ReplicaLinked, [Next]_vars
  PROVE  ReplicaLinked'
<1>1. CASE UNCHANGED lineVars
  BY <1>1 DEF lineVars, ReplicaLinked, NothingEvicted, RootsOf, Last
<1> QED
  BY <1>1, LineMoves, LinkedApply, LinkedRollBack, LinkedRestart

\* The replica is one unbroken line of advances, with the tip as live root, for
\* any number of patches, reorganisations, restarts and evicted snapshots.
THEOREM ReplicaStaysLinked == Spec => []ReplicaLinked
<1>1. Init => TypeInv /\ ReplicaLinked
  BY InitTypes, LinkedInit
<1>2. TypeInv /\ ReplicaLinked /\ [Next]_vars => (TypeInv /\ ReplicaLinked)'
  BY StepTypes, LinkedStep
<1> QED
  BY <1>1, <1>2, PTL DEF Spec

(***************************************************************************)
(* The receipts tracked on the line                                        *)
(***************************************************************************)
\* Outside the line's own moves a record can only become pending by being
\* signed, which happens on the live root, never becomes confirmed, and becomes
\* stale only when the substrate of its parent is not held.
LEMMA TrackedQuietly ==
  ASSUME TypeInv, MutexInv, [Next]_vars, UNCHANGED lineVars,
         ~ApplyChainEvent, ~(TickStart /\ RollBack), ~LoseMemory,
         NEW h \in SignedHashes
  PROVE  /\ pending'[h].st = "pending" =>
              pending[h].st = "pending" \/ ParentOf[h[1]] = liveRoot
         /\ pending'[h].st = "confirmed" => pending[h].st = "confirmed"
         /\ pending'[h].st = "stale" =>
              \/ pending[h].st = "stale"
              \/ pending[h].st = "pending" /\ ParentOf[h[1]] \notin stateByRoot
<1> DEFINE Quiet == /\ pending'[h].st = "pending" =>
                         pending[h].st = "pending" \/ ParentOf[h[1]] = liveRoot
                    /\ pending'[h].st = "confirmed" => pending[h].st = "confirmed"
                    /\ pending'[h].st = "stale" =>
                         \/ pending[h].st = "stale"
                         \/ pending[h].st = "pending" /\ ParentOf[h[1]] \notin stateByRoot
<1>1. ASSUME NEW pend \in PendingTable, GcPending(pend) PROVE
        pending'[h].st \in {"none", pend[h].st}
  BY <1>1 DEF GcPending, GcPendingRecords, NoPending
<1>2. pending \in PendingTable
  BY DEF TypeInv, TypeOK, PendingTable
<1>3. CASE UNCHANGED pending
  BY <1>3
<1>4. CASE GcPending(pending)
  BY <1>1, <1>2, <1>4
<1>5. CASE TickParity
  <2>1. AuditPending(pending, stateByRoot) \in PendingTable
    BY <1>2, SettlementTypes
  <2>2. \/ AuditPending(pending, stateByRoot)[h].st = pending[h].st
        \/ /\ AuditPending(pending, stateByRoot)[h].st = "stale"
           /\ pending[h].st = "pending" /\ ParentOf[h[1]] \notin stateByRoot
    BY <1>2 DEF AuditPending, PendingTable, PendingRecord
  <2>3. \/ pending'[h].st \in {"none", pending[h].st}
        \/ /\ pending'[h].st = "stale"
           /\ pending[h].st = "pending" /\ ParentOf[h[1]] \notin stateByRoot
    BY <1>1, <1>2, <1>5, <2>1, <2>2 DEF TickParity
  <2> QED
    BY <2>3
<1>6. CASE SignReceipt
  <2>1. job.pc = "sign" /\ ParentOf[job.patch] = liveRoot
    BY <1>6 DEF SignReceipt, MutexInv
  <2>2. CASE job.kind = "advance" /\ h = <<job.patch, job.score>>
    <3>1. pending'[h].st = "pending"
      BY <1>2, <1>6, <2>2 DEF SignReceipt, PendingTable
    <3>2. ParentOf[h[1]] = liveRoot
      BY <2>1, <2>2
    <3> QED
      BY <3>1, <3>2
  <2>3. CASE ~(job.kind = "advance" /\ h = <<job.patch, job.score>>)
    BY <1>2, <1>6, <2>3 DEF SignReceipt, PendingTable
  <2> QED
    BY <2>2, <2>3
<1>7. CASE Environment
  BY <1>3, <1>7 DEF Environment, MineEmpty, LandReceipt, LandForeign, ChainReorg, EpochRollover,
     coreVars, receiptVars
<1>8. CASE TickStep \/ TickFault \/ BootStep \/ Crash
  <2> USE DEF receiptVars
  <2>1. CASE TickEpochClosed
    BY <1>4, <2>1 DEF TickEpochClosed
  <2>2. CASE TickStart
    BY <1>3, <2>2 DEF TickStart
  <2>3. CASE TickScan \/ RejectChainEvent \/ ScanDone \/ TickFault \/ BootScan \/ BootServe
    BY <1>3, <2>3 DEF TickScan, RejectChainEvent, ScanDone, TickFault, BootScan, BootServe
  <2>4. CASE BootFails \/ Crash
    BY <2>4 DEF BootFails, Crash
  <2> QED
    BY <1>5, <1>8, <2>1, <2>2, <2>3, <2>4 DEF TickStep, BootStep
<1>9. CASE SubmitStep \/ \E m \in Miners, p \in Patches : BeginSubmit(m, p)
  <2> USE DEF receiptVars
  <2>1. CASE \E m \in Miners, p \in Patches : BeginSubmit(m, p)
    BY <1>4, <2>1 DEF BeginSubmit
  <2>2. CASE PrepareSubmit \/ SubmitFault \/ EvaluatorRefuses \/ ReadCounters \/ SigningFails
             \/ \E kind \in EvalKinds, s \in Scores : FinishSubmit(kind, s)
    BY <1>3, <2>2 DEF PrepareSubmit, SubmitFault, EvaluatorRefuses, ReadCounters, SigningFails,
       FinishSubmit
  <2> QED
    BY <1>6, <1>9, <2>1, <2>2 DEF SubmitStep
<1>10. CASE \/ Freeze \/ FreezeReturns \/ Unfreeze
            \/ \E r \in Rebaselined, b \in Scores : SetRecomputedBaseline(r, b)
            \/ InvalidateBaselines \/ LookupReceipt \/ GetStatus
  <2>1. CASE LookupReceipt
    BY <1>4, <2>1 DEF LookupReceipt
  <2>2. CASE ~LookupReceipt
    BY <1>3, <1>10, <2>2 DEF Freeze, FreezeReturns, Unfreeze, SetRecomputedBaseline,
       InvalidateBaselines, GetStatus, receiptVars
  <2> QED
    BY <2>1, <2>2
<1>11. CASE UNCHANGED vars
  BY <1>3, <1>11 DEF vars, receiptVars
<1> QED
  BY <1>7, <1>8, <1>9, <1>10, <1>11 DEF Next

TrackedOnLine == PendingOnLiveRoot /\ ConfirmedOnReplica

LEMMA TrackedInit == Init => TrackedOnLine
BY DEF Init, EmptyMemory, TrackedOnLine, PendingOnLiveRoot, ConfirmedOnReplica, NoPending

\* A restart forgets every record.
LEMMA TrackedRestart ==
  ASSUME LoseMemory
  PROVE  TrackedOnLine'
BY DEF LoseMemory, TrackedOnLine, PendingOnLiveRoot, ConfirmedOnReplica, NoPending

\* An applied event settles every pending record: they were all on the root it
\* consumes.
LEMMA TrackedApply ==
  ASSUME TypeInv, ReplicaLinked, TrackedOnLine, ApplyChainEvent
  PROVE  TrackedOnLine'
<1> SUFFICES ASSUME NothingEvicted', NEW h \in SignedHashes
             PROVE  /\ pending'[h].st # "pending"
                    /\ pending'[h].st = "confirmed" =>
                         \E i \in DOMAIN snapshots' : snapshots'[i].hash = h
  BY DEF TrackedOnLine, PendingOnLiveRoot, ConfirmedOnReplica
<1>1. PICK snap \in Snapshot :
        /\ snap.hash \in SignedHashes /\ snap.parent = ParentOf[snap.hash[1]]
        /\ snap.parent = liveRoot /\ transitions' = transitions + 1
        /\ snapshots' = PushSnapshot(snap)
        /\ pending' = SettlePending(pending, snap.hash)
  BY AppliedEvent
<1>2. NothingEvicted
  BY LinkedApply
<1>3. /\ pending[h] \in PendingRecord
      /\ pending[h].st = "pending" => ParentOf[h[1]] = liveRoot
      /\ pending[h].st = "confirmed" => \E i \in DOMAIN snapshots : snapshots[i].hash = h
  BY <1>2 DEF TypeInv, TypeOK, TrackedOnLine, PendingOnLiveRoot, ConfirmedOnReplica
<1>4. pending'[h] = IF pending[h].st = "pending" /\ ParentOf[h[1]] = liveRoot
                    THEN [pending[h] EXCEPT !.st = IF h = snap.hash THEN "confirmed" ELSE "stale"]
                    ELSE pending[h]
  BY <1>1 DEF SettlePending
<1>5. pending'[h].st # "pending"
  BY <1>3, <1>4 DEF PendingRecord
<1>6. pending'[h].st = "confirmed" => pending[h].st = "confirmed" \/ h = snap.hash
  BY <1>3, <1>4 DEF PendingRecord
<1> DEFINE s == PushSnapshot(snap)
<1>7. /\ s \in Seq(Snapshot) /\ Len(s) \in Nat /\ Len(s) # 0 /\ s[Len(s)] = snap
      /\ \/ /\ Len(s) = Len(snapshots) + 1
            /\ \A i \in 1..Len(snapshots) : s[i] = snapshots[i]
         \/ Len(s) = Len(snapshots)
  BY PushFacts DEF TypeInv
<1> HIDE DEF s
<1>8. /\ Len(snapshots) \in Nat /\ DOMAIN snapshots = 1..Len(snapshots)
      /\ DOMAIN s = 1..Len(s) /\ transitions \in Nat
  BY <1>7 DEF TypeInv, TypeOK
<1>9. Len(s) # Len(snapshots)
  <2>1. transitions + 1 = Len(s) /\ transitions = Len(snapshots)
    BY <1>1, <1>2 DEF NothingEvicted, s
  <2>2. Len(snapshots) \in Nat
    BY <1>8
  <2> QED
    BY <2>1, <2>2
<1>10. /\ \A i \in DOMAIN snapshots : i \in DOMAIN s /\ s[i] = snapshots[i]
       /\ Len(s) \in DOMAIN s
  <2>1. Len(s) = Len(snapshots) + 1 /\ \A i \in 1..Len(snapshots) : s[i] = snapshots[i]
    BY <1>7, <1>9
  <2>2. 1..Len(snapshots) \subseteq 1..Len(s) /\ Len(s) \in 1..Len(s)
    <3>1. Len(s) \in Nat /\ Len(snapshots) \in Nat
      BY <1>7, <1>8
    <3> QED
      BY <2>1, <3>1
  <2> QED
    BY <1>8, <2>1, <2>2
<1>11. snapshots' = s
  BY <1>1 DEF s
<1> QED
  BY <1>3, <1>5, <1>6, <1>7, <1>10, <1>11

\* After a rollback a record is pending only if its root is on the line and no
\* snapshot left has consumed it: the tip.
LEMMA TrackedRollBack ==
  ASSUME TypeInv, ReplicaLinked, RollBack
  PROVE  TrackedOnLine'
<1> SUFFICES ASSUME NothingEvicted', NEW h \in SignedHashes
             PROVE  /\ pending'[h].st = "pending" => ParentOf[h[1]] = liveRoot'
                    /\ pending'[h].st = "confirmed" =>
                         \E i \in DOMAIN snapshots' : snapshots'[i].hash = h
  BY DEF TrackedOnLine, PendingOnLiveRoot, ConfirmedOnReplica
<1> DEFINE reconciled == ReconcilePending(pending, KeptSnapshots)
           C == Consumers(KeptSnapshots, ParentOf[h[1]])
<1>1. /\ ReplicaLinked' /\ stateByRoot' = RootsOf(KeptSnapshots)
      /\ snapshots' = KeptSnapshots
      /\ pending' = AuditPending(reconciled, stateByRoot')
  BY LinkedRollBack DEF RollBack
<1>2. /\ pending \in PendingTable /\ reconciled \in PendingTable
      /\ reconciled[h] \in PendingRecord /\ pending[h] \in PendingRecord
  BY SettlementTypes DEF TypeInv, TypeOK, PendingTable
<1>3. pending'[h].st = "pending" =>
        reconciled[h].st = "pending" /\ ParentOf[h[1]] \in RootsOf(KeptSnapshots)
  BY <1>1, <1>2 DEF AuditPending, PendingRecord
<1>4. pending'[h].st = "confirmed" => reconciled[h].st = "confirmed"
  BY <1>1, <1>2 DEF AuditPending, PendingRecord
<1>5. reconciled[h].st \in {"none", ReconciledState(KeptSnapshots, h)}
  BY <1>2 DEF ReconcilePending, PendingRecord
<1>6. Kept \in Nat /\ Len(KeptSnapshots) = Kept /\ DOMAIN KeptSnapshots = 1..Kept
  BY KeptRange DEF TypeInv, TypeOK
<1>7. /\ liveRoot' = IF KeptSnapshots = <<>> THEN LaunchRoot ELSE KeptSnapshots[Kept].root
      /\ \A i \in 2..Kept : KeptSnapshots[i].parent = KeptSnapshots[i - 1].root
      /\ KeptSnapshots # <<>> => KeptSnapshots[1].parent = LaunchRoot
      /\ KeptSnapshots = <<>> <=> Kept = 0
  BY <1>1, <1>6 DEF ReplicaLinked, Last
<1> HIDE DEF reconciled
<1>8. ASSUME pending'[h].st = "pending" PROVE ParentOf[h[1]] = liveRoot'
  <2>1. ParentOf[h[1]] \in RootsOf(KeptSnapshots) /\ ReconciledState(KeptSnapshots, h) = "pending"
    BY <1>3, <1>5, <1>8
  <2>2. C = {}
    BY <2>1 DEF ReconciledState
  <2>3. \A i \in 1..Kept : KeptSnapshots[i].parent # ParentOf[h[1]]
    BY <1>6, <2>2 DEF Consumers
  <2>4. CASE Kept = 0
    BY <1>6, <1>7, <2>1, <2>4 DEF RootsOf
  <2>5. CASE Kept # 0
    <3>1. ParentOf[h[1]] # LaunchRoot
      BY <1>6, <1>7, <2>3, <2>5
    <3>2. PICK i \in 1..Kept : ParentOf[h[1]] = KeptSnapshots[i].root
      BY <1>6, <2>1, <3>1 DEF RootsOf
    <3>3. i = Kept
      <4> SUFFICES ASSUME i # Kept PROVE FALSE
        OBVIOUS
      <4>1. i + 1 \in 2..Kept /\ i + 1 \in 1..Kept /\ (i + 1) - 1 = i
        BY <1>6
      <4>2. KeptSnapshots[i + 1].parent = KeptSnapshots[i].root
        BY <1>7, <4>1
      <4> QED
        BY <2>3, <3>2, <4>1, <4>2
    <3> QED
      BY <1>7, <2>5, <3>2, <3>3
  <2> QED
    BY <2>4, <2>5
<1>9. ASSUME pending'[h].st = "confirmed"
      PROVE  \E i \in DOMAIN KeptSnapshots : KeptSnapshots[i].hash = h
  <2>1. ReconciledState(KeptSnapshots, h) = "confirmed"
    BY <1>4, <1>5, <1>9
  <2>2. C # {} /\ KeptSnapshots[Earliest(C)].hash = h
    BY <2>1 DEF ReconciledState
  <2>3. C \in SUBSET Nat /\ C \subseteq DOMAIN KeptSnapshots
    BY <1>6 DEF Consumers
  <2>4. Earliest(C) \in C
    BY <2>2, <2>3, EarliestIsLeast
  <2> QED
    BY <2>2, <2>3, <2>4
<1> QED
  BY <1>1, <1>8, <1>9

LEMMA TrackedStep ==
  ASSUME TypeInv, ReplicaLinked, MutexInv, TrackedOnLine, [Next]_vars
  PROVE  TrackedOnLine'
<1>1. CASE ApplyChainEvent
  BY <1>1, TrackedApply
<1>2. CASE TickStart /\ RollBack
  BY <1>2, TrackedRollBack
<1>3. CASE LoseMemory
  BY <1>3, TrackedRestart
<1>4. CASE ~ApplyChainEvent /\ ~(TickStart /\ RollBack) /\ ~LoseMemory
  <2>1. UNCHANGED lineVars
    BY <1>4, LineMoves
  <2>2. \A h \in SignedHashes :
          /\ pending'[h].st = "pending" => pending[h].st = "pending" \/ ParentOf[h[1]] = liveRoot
          /\ pending'[h].st = "confirmed" => pending[h].st = "confirmed"
    BY <1>4, <2>1, TrackedQuietly
  <2> QED
    BY <2>1, <2>2 DEF lineVars, TrackedOnLine, PendingOnLiveRoot, ConfirmedOnReplica, NothingEvicted
<1> QED
  BY <1>1, <1>2, <1>3, <1>4

(***************************************************************************)
(* The theorems                                                            *)
(***************************************************************************)
CoreInv == TypeInv /\ ReplicaLinked /\ MutexInv /\ TrackedOnLine

LEMMA CoreInvariance == Spec => []CoreInv
<1>1. Init => CoreInv
  BY InitTypes, LinkedInit, MutexInit, TrackedInit DEF CoreInv
<1>2. CoreInv /\ [Next]_vars => CoreInv'
  BY StepTypes, LinkedStep, MutexStep, TrackedStep DEF CoreInv, TypeInv
<1> QED
  BY <1>1, <1>2, PTL DEF Spec

\* A receipt the lookup reports as pending pins the live root.
THEOREM PendingStaysOnLiveRoot == Spec => []PendingOnLiveRoot
<1>1. CoreInv => PendingOnLiveRoot
  BY DEF CoreInv, TrackedOnLine
<1> QED
  BY <1>1, CoreInvariance, PTL

\* A receipt is reported as confirmed only while the replica holds its advance.
THEOREM ConfirmedStaysOnReplica == Spec => []ConfirmedOnReplica
<1>1. CoreInv => ConfirmedOnReplica
  BY DEF CoreInv, TrackedOnLine
<1> QED
  BY <1>1, CoreInvariance, PTL

\* Only SignReceipt issues, and only the receipt of the job it ends.
LEMMA OnlySignIssues ==
  ASSUME [Next]_vars, issued' # issued
  PROVE  SignReceipt
<1>1. CASE Environment
  BY <1>1 DEF Environment, MineEmpty, LandReceipt, LandForeign, ChainReorg, EpochRollover, coreVars
<1>2. CASE TickStep \/ TickFault \/ BootStep \/ Crash
  BY <1>2 DEF TickStep, TickFault, TickEpochClosed, TickStart, TickScan, ApplyChainEvent,
     RejectChainEvent, ScanDone, TickParity, BootStep, BootScan, BootServe, BootFails, Crash
<1>3. CASE SubmitStep \/ \E m \in Miners, p \in Patches : BeginSubmit(m, p)
  BY <1>3 DEF SubmitStep, PrepareSubmit, SubmitFault, EvaluatorRefuses, FinishSubmit,
     ReadCounters, SigningFails, BeginSubmit
<1>4. CASE \/ Freeze \/ FreezeReturns \/ Unfreeze
           \/ \E r \in Rebaselined, b \in Scores : SetRecomputedBaseline(r, b)
           \/ InvalidateBaselines \/ LookupReceipt \/ GetStatus
  BY <1>4 DEF Freeze, FreezeReturns, Unfreeze, SetRecomputedBaseline, InvalidateBaselines,
     LookupReceipt, GetStatus
<1>5. CASE UNCHANGED vars
  BY <1>5 DEF vars
<1> QED
  BY <1>1, <1>2, <1>3, <1>4, <1>5 DEF Next

\* Whatever ticks ran while the scorer did, a receipt is signed only for the
\* root that is live when it is signed.
THEOREM SignsOnlyAtLiveRoot == Spec => SignedAtLiveRoot
<1>1. CoreInv /\ [Next]_vars => [\A r \in issued' \ issued : ParentOf[r.patch] = liveRoot]_vars
  <2> SUFFICES ASSUME CoreInv, [Next]_vars, NEW r \in issued' \ issued
               PROVE  ParentOf[r.patch] = liveRoot
    OBVIOUS
  <2>1. SignReceipt
    BY OnlySignIssues
  <2>2. job.pc = "sign" /\ r.patch = job.patch
    BY <2>1 DEF SignReceipt
  <2> QED
    BY <2>2 DEF CoreInv, MutexInv
<1> QED
  BY <1>1, CoreInvariance, PTL DEF Spec, SignedAtLiveRoot

\* Once freeze() has returned nothing is signed, the replica stands still and
\* signing is not enabled, until unfreeze() or a restart.
THEOREM FrozenStandsStill == Spec => FrozenQuiesces
<1>1. CoreInv /\ [Next]_vars =>
        [booted' /\ frozen /\ ~freezing
           => UNCHANGED <<issued, replicaVars>> /\ (signingEnabled' => signingEnabled)]_vars
  <2> SUFFICES ASSUME CoreInv, [Next]_vars, booted', frozen, ~freezing
               PROVE  UNCHANGED <<issued, replicaVars>> /\ (signingEnabled' => signingEnabled)
    OBVIOUS
  <2>1. booted /\ tick.pc = "idle" /\ job.pc \in {"none", "scoring"}
    BY DEF CoreInv, MutexInv, MutexFree
  <2> USE DEF replicaVars
  <2>2. CASE Environment
    <3>1. UNCHANGED coreVars
      BY <2>2, ChainSteps DEF CoreInv
    <3> QED
      BY <3>1 DEF coreVars
  <2>3. ~TickStep /\ ~TickFault /\ ~BootStep /\ ~Crash
    <3>1. ~TickStep
      BY <2>1 DEF TickStep, TickEpochClosed, TickStart, TickScan, ApplyChainEvent,
         RejectChainEvent, ScanDone, TickParity
    <3>2. ~TickFault
      BY <2>1 DEF TickFault
    <3>3. ~BootStep
      BY <2>1 DEF BootStep, BootScan, BootServe, BootFails
    <3>4. ~Crash
      BY DEF Crash, LoseMemory
    <3> QED
      BY <3>1, <3>2, <3>3, <3>4
  <2>4. CASE SubmitStep \/ \E m \in Miners, p \in Patches : BeginSubmit(m, p)
    <3>1. ~PrepareSubmit /\ ~SubmitFault /\ ~ReadCounters /\ ~SigningFails /\ ~SignReceipt
      BY <2>1 DEF PrepareSubmit, SubmitFault, ReadCounters, SigningFails, SignReceipt
    <3>2. CASE EvaluatorRefuses
      BY <3>2 DEF EvaluatorRefuses
    <3>3. ASSUME NEW kind \in EvalKinds, NEW s \in Scores, FinishSubmit(kind, s)
          PROVE  UNCHANGED <<issued, replicaVars>> /\ (signingEnabled' => signingEnabled)
      BY <3>3 DEF FinishSubmit
    <3>4. ASSUME NEW m \in Miners, NEW p \in Patches, BeginSubmit(m, p)
          PROVE  UNCHANGED <<issued, replicaVars>> /\ (signingEnabled' => signingEnabled)
      BY <3>4 DEF BeginSubmit
    <3> QED
      BY <2>4, <3>1, <3>2, <3>3, <3>4 DEF SubmitStep
  <2>5. CASE \/ Freeze \/ FreezeReturns \/ Unfreeze
             \/ \E r \in Rebaselined, b \in Scores : SetRecomputedBaseline(r, b)
             \/ InvalidateBaselines \/ LookupReceipt \/ GetStatus
    <3>1. CASE Freeze \/ FreezeReturns \/ Unfreeze
      <4>1. UNCHANGED <<issued, replicaVars>> /\ signingEnabled' = signingEnabled
        <5>1. CASE Freeze
          BY <5>1 DEF Freeze
        <5>2. CASE FreezeReturns
          BY <5>2 DEF FreezeReturns
        <5>3. CASE Unfreeze
          BY <5>3 DEF Unfreeze
        <5> QED
          BY <3>1, <5>1, <5>2, <5>3
      <4> QED
        BY <4>1
    <3>2. CASE \E r \in Rebaselined, b \in Scores : SetRecomputedBaseline(r, b)
      BY <3>2 DEF SetRecomputedBaseline
    <3>3. CASE InvalidateBaselines
      <4>1. UNCHANGED <<issued, replicaVars>> /\ signingEnabled' = signingEnabled
        BY <3>3 DEF InvalidateBaselines
      <4> QED
        BY <4>1
    <3>4. CASE LookupReceipt
      <4>1. UNCHANGED <<issued, replicaVars>> /\ signingEnabled' = signingEnabled
        BY <3>4 DEF LookupReceipt
      <4> QED
        BY <4>1
    <3>5. CASE GetStatus
      <4>1. UNCHANGED <<issued, replicaVars>>
        BY <3>5 DEF GetStatus
      <4>2. ~signingEnabled'
        BY <3>5 DEF GetStatus
      <4> QED
        BY <4>1, <4>2
    <3> QED
      BY <2>5, <3>1, <3>2, <3>3, <3>4, <3>5
  <2>6. CASE UNCHANGED vars
    BY <2>6 DEF vars
  <2> QED
    BY <2>2, <2>3, <2>4, <2>5, <2>6 DEF Next
<1> QED
  BY <1>1, CoreInvariance, PTL DEF Spec, FrozenQuiesces
=============================================================================

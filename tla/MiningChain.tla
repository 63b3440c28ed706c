----------------------------- MODULE MiningChain -----------------------------
(***************************************************************************)
(* The mining contract and its chain, as the coordinator sees them: the    *)
(* environment of CoordinatorCore.  The contract is not in the repository; *)
(* what is stated here is what the ChainClient interface and the core's    *)
(* use of it assume.  A block holds at most one landed receipt, its hash   *)
(* is its height together with the fork it was mined on, and one block is  *)
(* one unit of time.  State roots and patches are abstract: a patch pins   *)
(* the root it applies to and determines the root it leads to (merkle      *)
(* hashing is injective on the instances considered).                      *)
(***************************************************************************)
EXTENDS Integers, Sequences, FiniteSets

CONSTANTS
  Miners,       \* miners who submit to this coordinator
  Foreigner,    \* a miner whose receipts another signer instance issued
  Roots,        \* substrate state roots
  LaunchRoot,   \* the epoch's pinned parentStateRoot
  Patches,      \* canonical (scoreDelta = 0) patches
  ParentOf,     \* the root a patch pins in its wire bytes
  RootAfter,    \* the root applyPatch + merkleizeState produce
  Scores,       \* scoreAfterPpm values of accepted advances
  Depth,        \* confirmationDepth
  ForeignPatches, \* bound: patches another signer instance may land
  LaunchBlocks, \* blocks already mined, without a receipt, before any behaviour
  MaxTime,      \* bound: blocks mined over a behaviour
  MaxForks,     \* bound: reorganisations over a behaviour
  MaxForkDepth  \* bound: blocks one reorganisation may drop

ASSUME ChainAssumption ==
  /\ Foreigner \notin Miners
  /\ LaunchRoot \in Roots
  /\ ParentOf \in [Patches -> Roots]
  /\ RootAfter \in [Patches -> Roots]
  /\ Scores \subseteq Nat \ {0}
  /\ ForeignPatches \subseteq Patches
  /\ Depth \in Nat
  /\ LaunchBlocks \in Nat
  /\ MaxTime \in Nat
  /\ MaxForks \in Nat
  /\ MaxForkDepth \in Nat

VARIABLES
  chain,     \* the canonical chain: block number -> [fork, rcpt]
  forks,     \* reorganisations so far; the fork tag of new blocks
  now,       \* wall clock = timestamp of the latest block mined
  epochOpen  \* V4.currentEpoch still equals the configured epoch

chainVars == <<chain, forks, now, epochOpen>>

\* A receipt as the contract stores it.  id stands for its receipt hash; 0 is
\* the zero hash (no receipt yet), and the id of every foreign receipt.
ReceiptOf(kind, scores) ==
  [kind: {kind}, id: Nat, miner: Miners \cup {Foreigner}, idx: Nat, prev: Nat,
   patch: Patches, score: scores, expires: Nat]

Receipt == ReceiptOf("advance", Scores) \cup ReceiptOf("screener", {0})

NoReceipt == [kind |-> "none"]

Block == [fork: Nat, rcpt: Receipt \cup {NoReceipt}]

AdvanceBlocks(n) == {i \in 1..n : i <= Len(chain) /\ chain[i].rcpt.kind = "advance"}

MinerBlocks(m) ==
  {i \in DOMAIN chain : chain[i].rcpt.kind # "none" /\ chain[i].rcpt.miner = m}

Latest(S) == CHOOSE i \in S : \A j \in S : j <= i

\* registry.transitionCount and registry.liveStateRoot as of block n.
TransitionCount(n) == Cardinality(AdvanceBlocks(n))

RegistryRoot(n) ==
  IF AdvanceBlocks(n) = {} THEN LaunchRoot
  ELSE RootAfter[chain[Latest(AdvanceBlocks(n))].rcpt.patch]

\* The miner's counters in the mining contract, read at the head.
NextIndex(m) == Cardinality(MinerBlocks(m))

LastReceiptId(m) ==
  IF MinerBlocks(m) = {} THEN 0 ELSE chain[Latest(MinerBlocks(m))].rcpt.id

ScreenersThisEpoch(m) ==
  Cardinality({i \in MinerBlocks(m) : chain[i].rcpt.kind = "screener"})

\* V4's receipt checks: solve index and previous hash continue the miner's
\* chain, the window is open, an advance pins the registry's live root.
CanLand(r) ==
  /\ epochOpen
  /\ r.idx = NextIndex(r.miner)
  /\ r.prev = LastReceiptId(r.miner)
  /\ now + 1 < r.expires
  /\ r.kind = "advance" => ParentOf[r.patch] = RegistryRoot(Len(chain))

ForeignAdvance(p, s) ==
  [kind |-> "advance", id |-> 0, miner |-> Foreigner, idx |-> NextIndex(Foreigner),
   prev |-> 0, patch |-> p, score |-> s, expires |-> now + 2]

ChainInit ==
  /\ chain = [i \in 1..LaunchBlocks |-> [fork |-> 0, rcpt |-> NoReceipt]]
  /\ forks = 0
  /\ now = 0
  /\ epochOpen = TRUE

Mine(r) ==
  /\ now < MaxTime
  /\ chain' = Append(chain, [fork |-> forks, rcpt |-> r])
  /\ now' = now + 1
  /\ UNCHANGED <<forks, epochOpen>>

\* A reorganisation drops the newest blocks; the replacement fork is mined on.
Reorg(keep) ==
  /\ forks < MaxForks
  /\ Len(chain) - keep <= MaxForkDepth
  /\ chain' = SubSeq(chain, 1, keep)
  /\ forks' = forks + 1
  /\ UNCHANGED <<now, epochOpen>>

CloseEpoch ==
  /\ epochOpen
  /\ epochOpen' = FALSE
  /\ UNCHANGED <<chain, forks, now>>

ChainTypeOK ==
  /\ chain \in Seq(Block)
  /\ forks \in Nat
  /\ now \in Nat
  /\ epochOpen \in BOOLEAN
=============================================================================

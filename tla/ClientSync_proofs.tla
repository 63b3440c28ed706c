-------------------------- MODULE ClientSync_proofs --------------------------
(***************************************************************************)
(* Theorems of ClientSync: whatever crashes fall between two renames, the  *)
(* state file stands under the pin of its key, and every advance whose     *)
(* score replay is owed has its parent snapshot beside the state file.     *)
(***************************************************************************)
EXTENDS ClientSync, FiniteSetTheorems, WellFoundedInduction, TLAPS

(***************************************************************************)
(* The chain numbers its advances                                          *)
(***************************************************************************)
\* Every advance carries the number of its epoch's advances in earlier blocks,
\* and is none of the advances before it.
ChainNumbered ==
  /\ \E S : chain \in Seq(S)
  /\ \A i \in DOMAIN chain : chain[i].kind = "advance" =>
       /\ chain[i].event.epoch \in Int
       /\ chain[i].event.index = TransitionCount(chain[i].event.epoch, i - 1)
       /\ chain[i].event \notin AdvancesIn(1, i - 1)

LEMMA BlocksFinite ==
  ASSUME NEW S, chain \in Seq(S), NEW f, NEW t, NEW kind
  PROVE  /\ IsFiniteSet(BlocksIn(f, t, kind))
         /\ Cardinality(BlocksIn(f, t, kind)) \in Nat
<1>1. IsFiniteSet(1..Len(chain))
  BY FS_Interval
<1>2. BlocksIn(f, t, kind) \in SUBSET (1..Len(chain))
  BY DEF BlocksIn
<1> QED
  BY <1>1, <1>2, FS_Subset, FS_CardinalityType

LEMMA AdvancesFinite ==
  ASSUME NEW S, chain \in Seq(S), NEW f, NEW t
  PROVE  IsFiniteSet(AdvancesIn(f, t))
<1> DEFINE B == BlocksIn(f, t, "advance")
           g == [i \in B |-> chain[i].event]
<1>1. IsFiniteSet(B)
  BY BlocksFinite
<1>2. AdvancesIn(f, t) = {chain[i].event : i \in B}
  BY DEF AdvancesIn, EventsIn
<1>3. g \in Surjection(B, AdvancesIn(f, t))
  BY <1>2 DEF Surjection
<1> QED
  BY <1>1, <1>3, FS_Surjection

\* The members of AdvancesIn are the events of its blocks.
LEMMA AdvanceAt ==
  ASSUME NEW S, chain \in Seq(S), NEW f, NEW t, NEW a
  PROVE  a \in AdvancesIn(f, t) <=>
           \E i \in DOMAIN chain :
             f <= i /\ i <= t /\ chain[i].kind = "advance" /\ chain[i].event = a
BY DEF AdvancesIn, EventsIn, BlocksIn

LEMMA CountType ==
  ASSUME NEW S, chain \in Seq(S), NEW e, NEW n
  PROVE  /\ IsFiniteSet({a \in AdvancesIn(1, n) : a.epoch = e})
         /\ TransitionCount(e, n) \in Nat
<1>1. IsFiniteSet(AdvancesIn(1, n))
  BY AdvancesFinite
<1>2. {a \in AdvancesIn(1, n) : a.epoch = e} \in SUBSET AdvancesIn(1, n)
  OBVIOUS
<1> QED
  BY <1>1, <1>2, FS_Subset, FS_CardinalityType DEF TransitionCount

\* An advance counts in every later block.
LEMMA CountGrows ==
  ASSUME NEW S, chain \in Seq(S), NEW i \in DOMAIN chain, NEW n \in Nat, i <= n,
         chain[i].kind = "advance", chain[i].event \notin AdvancesIn(1, i - 1)
  PROVE  TransitionCount(chain[i].event.epoch, i - 1) < TransitionCount(chain[i].event.epoch, n)
<1> DEFINE e == chain[i].event.epoch
           A == {a \in AdvancesIn(1, i - 1) : a.epoch = e}
           B == {a \in AdvancesIn(1, n) : a.epoch = e}
<1>1. i \in Nat \ {0} /\ i - 1 \in Nat
  OBVIOUS
<1>2. A \cup {chain[i].event} \subseteq B
  <2> SUFFICES ASSUME NEW a \in A \cup {chain[i].event}
               PROVE  a \in AdvancesIn(1, n) /\ a.epoch = e
    OBVIOUS
  <2>1. CASE a \in A
    <3>1. PICK k \in DOMAIN chain : 1 <= k /\ k <= i - 1 /\ chain[k].kind = "advance" /\ chain[k].event = a
      BY <2>1, AdvanceAt
    <3>2. k <= n
      BY <1>1, <3>1
    <3> QED
      BY <2>1, <3>1, <3>2, AdvanceAt
  <2>2. CASE a = chain[i].event
    BY <1>1, <2>2, AdvanceAt
  <2> QED
    BY <2>1, <2>2
<1>3. chain[i].event \notin A
  OBVIOUS
<1>4. IsFiniteSet(A) /\ IsFiniteSet(B)
  BY <1>1, CountType
<1>5. Cardinality(A \cup {chain[i].event}) = Cardinality(A) + 1
  BY <1>3, <1>4, FS_AddElement
<1>6. Cardinality(A \cup {chain[i].event}) <= Cardinality(B)
  BY <1>2, <1>4, FS_Subset
<1>7. Cardinality(A) \in Nat /\ Cardinality(B) \in Nat
  BY <1>4, FS_CardinalityType
<1> QED
  BY <1>5, <1>6, <1>7 DEF TransitionCount

\* What can be sorted: integer epochs and indices, never both equal.
Numbered(A) ==
  /\ IsFiniteSet(A)
  /\ \A a \in A : a.epoch \in Int /\ a.index \in Int
  /\ \A a, b \in A : a # b => Earlier(a, b) \/ Earlier(b, a)

LEMMA WindowNumbered ==
  ASSUME ChainNumbered, NEW f, NEW t
  PROVE  Numbered(AdvancesIn(f, t))
<1>1. PICK S : chain \in Seq(S)
  BY DEF ChainNumbered
<1>2. \A i \in DOMAIN chain : i \in Nat /\ i - 1 \in Nat
  BY <1>1
<1>3. \A i \in DOMAIN chain : chain[i].kind = "advance" => chain[i].event.index \in Nat
  BY <1>1, CountType DEF ChainNumbered
<1>4. ASSUME NEW i \in DOMAIN chain, NEW j \in DOMAIN chain, i < j,
             chain[i].kind = "advance", chain[j].kind = "advance",
             chain[i].event.epoch = chain[j].event.epoch
      PROVE  chain[i].event.index < chain[j].event.index
  <2>1. i <= j - 1 /\ j - 1 \in Nat
    BY <1>2, <1>4
  <2> QED
    BY <1>1, <1>4, <2>1, CountGrows DEF ChainNumbered
<1>5. ASSUME NEW a \in AdvancesIn(f, t), NEW b \in AdvancesIn(f, t), a # b
      PROVE  Earlier(a, b) \/ Earlier(b, a)
  <2>1. PICK i \in DOMAIN chain : chain[i].kind = "advance" /\ chain[i].event = a
    BY <1>1, AdvanceAt
  <2>2. PICK j \in DOMAIN chain : chain[j].kind = "advance" /\ chain[j].event = b
    BY <1>1, AdvanceAt
  <2>3. i < j \/ j < i
    BY <1>2, <1>5, <2>1, <2>2
  <2>4. a.epoch \in Int /\ b.epoch \in Int
    BY <2>1, <2>2 DEF ChainNumbered
  <2>5. a.epoch = b.epoch => a.index < b.index \/ b.index < a.index
    BY <1>4, <2>1, <2>2, <2>3
  <2> QED
    BY <2>4, <2>5 DEF Earlier
<1>6. \A a \in AdvancesIn(f, t) : a.epoch \in Int /\ a.index \in Int
  BY <1>1, <1>3, AdvanceAt DEF ChainNumbered
<1> QED
  BY <1>1, <1>5, <1>6, AdvancesFinite DEF Numbered

\* An advance is sorted behind as many advances as are earlier.
LEMMA SortedPlace ==
  ASSUME NEW A, Numbered(A), NEW a \in A
  PROVE  /\ Cardinality({b \in A : Earlier(b, a)}) + 1 \in 1..Cardinality(A)
         /\ InReplayOrder(A)[Cardinality({b \in A : Earlier(b, a)}) + 1] = a
<1> DEFINE Below(x) == {b \in A : Earlier(b, x)}
           k == Cardinality(Below(a)) + 1
<1>1. \A x \in A : IsFiniteSet(Below(x)) /\ Cardinality(Below(x)) \in Nat
  <2> TAKE x \in A
  <2>1. Below(x) \in SUBSET A
    OBVIOUS
  <2> QED
    BY <2>1, FS_Subset, FS_CardinalityType DEF Numbered
<1>2. Cardinality(A) \in Nat
  BY FS_CardinalityType DEF Numbered
<1>3. ASSUME NEW x \in A, NEW y \in A, Earlier(x, y)
      PROVE  Cardinality(Below(x)) < Cardinality(Below(y))
  <2>1. Below(x) \in SUBSET Below(y)
    BY <1>3 DEF Numbered, Earlier
  <2>2. x \in Below(y) /\ x \notin Below(x)
    BY <1>3 DEF Numbered, Earlier
  <2>3. Cardinality(Below(x)) <= Cardinality(Below(y))
        /\ (Cardinality(Below(x)) = Cardinality(Below(y)) => Below(x) = Below(y))
    BY <1>1, <2>1, FS_Subset
  <2> QED
    BY <1>1, <2>2, <2>3
<1>4. \A x \in A : Cardinality(Below(x)) = Cardinality(Below(a)) => x = a
  <2> SUFFICES ASSUME NEW x \in A, Cardinality(Below(x)) = Cardinality(Below(a)), x # a
               PROVE  FALSE
    OBVIOUS
  <2>1. Earlier(x, a) \/ Earlier(a, x)
    BY DEF Numbered
  <2>2. Cardinality(Below(x)) < Cardinality(Below(a)) \/ Cardinality(Below(a)) < Cardinality(Below(x))
    BY <1>3, <2>1
  <2>3. Cardinality(Below(x)) \in Nat
    BY <1>1
  <2> HIDE DEF Below
  <2> QED
    BY <2>2, <2>3
<1>5. k \in 1..Cardinality(A)
  <2>1. Below(a) \in SUBSET A /\ a \notin Below(a)
    BY DEF Numbered, Earlier
  <2>2. Cardinality(Below(a)) <= Cardinality(A)
        /\ (Cardinality(A) = Cardinality(Below(a)) => A = Below(a))
    BY <2>1, FS_Subset DEF Numbered
  <2> QED
    BY <1>1, <1>2, <2>1, <2>2
<1>6. InReplayOrder(A)[k] = CHOOSE x \in A : Cardinality(Below(x)) = k - 1
  BY <1>5 DEF InReplayOrder
<1>7. \A x \in A : Cardinality(Below(x)) = k - 1 <=> x = a
  <2>1. Cardinality(Below(a)) \in Nat
    BY <1>1
  <2> HIDE DEF Below
  <2>2. k - 1 = Cardinality(Below(a))
    BY <2>1
  <2> QED
    BY <1>4, <2>2
<1>8. InReplayOrder(A)[k] = a
  BY <1>6, <1>7
<1> QED
  BY <1>5, <1>8

\* Sorting loses no advance.
LEMMA SortedKeepsAll ==
  ASSUME NEW A, Numbered(A), NEW a \in A
  PROVE  \E k \in 1..Cardinality(A) : InReplayOrder(A)[k] = a
BY SortedPlace

(***************************************************************************)
(* Every step of the chain keeps it numbered                               *)
(***************************************************************************)
LEMMA SamePrefix ==
  ASSUME NEW S, chain \in Seq(S), NEW T, chain' \in Seq(T),
         NEW m \in Nat, m <= Len(chain), m <= Len(chain'),
         \A i \in 1..m : chain'[i] = chain[i]
  PROVE  /\ AdvancesIn(1, m)' = AdvancesIn(1, m)
         /\ \A e : TransitionCount(e, m)' = TransitionCount(e, m)
<1>1. BlocksIn(1, m, "advance")' = BlocksIn(1, m, "advance")
  BY DEF BlocksIn
<1>2. BlocksIn(1, m, "advance") \subseteq 1..m
  BY DEF BlocksIn
<1>3. AdvancesIn(1, m)' = AdvancesIn(1, m)
  BY <1>1, <1>2 DEF AdvancesIn, EventsIn
<1> QED
  BY <1>3 DEF TransitionCount

LEMMA MineKeepsNumbers ==
  ASSUME ChainNumbered, NEW kind, NEW event,
         chain' = Append(chain, [kind |-> kind, event |-> event]),
         kind = "advance" => /\ event.epoch \in Int
                             /\ event.index = TransitionCount(event.epoch, Len(chain))
  PROVE  ChainNumbered'
<1> DEFINE block == [kind |-> kind, event |-> event]
           n == Len(chain)
<1>1. PICK S : chain \in Seq(S)
  BY DEF ChainNumbered
<1>2. chain \in Seq(S \cup {block}) /\ block \in S \cup {block}
  BY <1>1
<1>3. chain' \in Seq(S \cup {block}) /\ Len(chain') = n + 1 /\ n \in Nat
  BY <1>2
<1>4. chain'[n + 1] = block /\ \A i \in 1..n : chain'[i] = chain[i]
  BY <1>2
<1>5. \A m \in 0..n : /\ AdvancesIn(1, m)' = AdvancesIn(1, m)
                      /\ \A e : TransitionCount(e, m)' = TransitionCount(e, m)
  BY <1>1, <1>3, <1>4, SamePrefix
<1>6. kind = "advance" => event \notin AdvancesIn(1, n)
  <2> SUFFICES ASSUME kind = "advance", event \in AdvancesIn(1, n)
               PROVE  FALSE
    OBVIOUS
  <2>1. PICK j \in DOMAIN chain : j <= n /\ chain[j].kind = "advance" /\ chain[j].event = event
    BY <1>1, AdvanceAt
  <2>2. TransitionCount(event.epoch, j - 1) < TransitionCount(event.epoch, n)
    BY <1>1, <1>3, <2>1, CountGrows DEF ChainNumbered
  <2>3. j - 1 \in Nat
    BY <1>1, <2>1
  <2>4. /\ event.index = TransitionCount(event.epoch, j - 1)
        /\ event.index = TransitionCount(event.epoch, n)
    BY <2>1 DEF ChainNumbered
  <2>5. event.index \in Nat
    BY <1>1, <2>4, CountType
  <2> QED
    BY <2>2, <2>4, <2>5
<1>7. ASSUME NEW i \in DOMAIN chain', chain'[i].kind = "advance"
      PROVE  (/\ chain[i].event.epoch \in Int
              /\ chain[i].event.index = TransitionCount(chain[i].event.epoch, i - 1)
              /\ chain[i].event \notin AdvancesIn(1, i - 1))'
  <2>1. i \in 1..n + 1 /\ i - 1 \in 0..n
    BY <1>3
  <2>2. CASE i <= n
    <3>1. i \in DOMAIN chain /\ chain'[i] = chain[i]
      BY <1>1, <1>4, <2>1, <2>2
    <3> QED
      BY <1>5, <1>7, <2>1, <3>1 DEF ChainNumbered
  <2>3. CASE i = n + 1
    <3>1. chain'[i] = block /\ i - 1 = n
      BY <1>3, <1>4, <2>3
    <3> QED
      BY <1>3, <1>5, <1>6, <1>7, <2>1, <3>1
  <2> QED
    BY <1>3, <2>1, <2>2, <2>3
<1> QED
  BY <1>3, <1>7 DEF ChainNumbered

LEMMA ReorgKeepsNumbers ==
  ASSUME ChainNumbered, Reorg
  PROVE  ChainNumbered'
<1> DEFINE n == Len(chain)
           empty == [kind |-> "empty", event |-> "none"]
<1>1. PICK S : chain \in Seq(S)
  BY DEF ChainNumbered
<1>2. PICK k \in 1..MaxReorg :
        k <= n /\ chain' = [i \in 1..n |-> IF i <= n - k THEN chain[i] ELSE empty]
  BY DEF Reorg
<1>3. k \in Nat \ {0} /\ n \in Nat /\ n - k \in Nat /\ n - k <= n
  BY <1>1, <1>2, ClientAssumption
<1>4. chain' \in Seq(S \cup {empty}) /\ Len(chain') = n /\ DOMAIN chain' = 1..n
  BY <1>1, <1>2, <1>3
<1>5. \A i \in 1..n - k : chain'[i] = chain[i]
  BY <1>2, <1>3
<1>6. ASSUME NEW i \in DOMAIN chain', chain'[i].kind = "advance"
      PROVE  (/\ chain[i].event.epoch \in Int
              /\ chain[i].event.index = TransitionCount(chain[i].event.epoch, i - 1)
              /\ chain[i].event \notin AdvancesIn(1, i - 1))'
  <2>1. i \in 1..n - k /\ i \in DOMAIN chain /\ i - 1 \in Nat
    BY <1>1, <1>2, <1>3, <1>4, <1>6
  <2>2. i - 1 <= Len(chain) /\ i - 1 <= Len(chain')
    BY <1>3, <1>4, <2>1
  <2>3. \A j \in 1..i - 1 : chain'[j] = chain[j]
    BY <1>3, <1>5, <2>1
  <2>4. /\ AdvancesIn(1, i - 1)' = AdvancesIn(1, i - 1)
        /\ \A e : TransitionCount(e, i - 1)' = TransitionCount(e, i - 1)
    BY <1>1, <1>4, <2>1, <2>2, <2>3, SamePrefix
  <2> QED
    BY <1>5, <1>6, <2>1, <2>4 DEF ChainNumbered
<1> QED
  BY <1>4, <1>6 DEF ChainNumbered

LEMMA ChainKeepsNumbers ==
  ASSUME ChainNumbered, Chain
  PROVE  ChainNumbered'
<1>1. ASSUME NEW payload \in Payloads, NEW report \in Reports, Advance(payload, report)
      PROVE  ChainNumbered'
  <2> DEFINE n == Len(chain)
             e == EpochAt(n)
             event == [epoch |-> e, index |-> TransitionCount(e, n), miner |-> "miner",
                       parent |-> LiveRoot(e, n), new |-> Append(LiveRoot(e, n), payload),
                       payload |-> payload, hash |-> payload, report |-> report,
                       version |-> VersionOf(e), corpus |-> e, frontier |-> e]
  <2>1. PICK S : chain \in Seq(S)
    BY DEF ChainNumbered
  <2>2. e \in Int
    BY <2>1, BlocksFinite DEF EpochAt
  <2>3. chain' = Append(chain, [kind |-> "advance", event |-> event])
    BY <1>1 DEF Advance, Mine
  <2>4. event.epoch = e /\ event.index = TransitionCount(e, n)
    OBVIOUS
  <2> HIDE DEF event
  <2> QED
    BY <2>2, <2>3, <2>4, MineKeepsNumbers
<1>2. ASSUME NEW kind, NEW event, kind # "advance", Mine(kind, event)
      PROVE  ChainNumbered'
  BY <1>2, MineKeepsNumbers DEF Mine
<1>3. CASE \/ Finalize \/ (\E version \in Versions : Rotate(version)) \/ EmptyBlock
           \/ \E e \in Epochs : Reveal(e)
  <2>1. \E kind, event : kind # "advance" /\ Mine(kind, event)
    BY <1>3, Zenon DEF Finalize, Rotate, Reveal, EmptyBlock
  <2> QED
    BY <1>2, <2>1
<1>4. CASE \E payload \in Payloads, report \in Reports : Advance(payload, report)
  BY <1>1, <1>4, Zenon
<1>5. CASE Reorg
  BY <1>5, ReorgKeepsNumbers
<1> QED
  BY <1>3, <1>4, <1>5, Zenon DEF Chain

LEMMA NumbersStep ==
  ASSUME ChainNumbered, [Next]_vars
  PROVE  ChainNumbered'
<1>1. CASE Chain
  BY <1>1, ChainKeepsNumbers
<1>2. CASE UNCHANGED chain
  <2>1. \A n : AdvancesIn(1, n)' = AdvancesIn(1, n)
    BY <1>2 DEF AdvancesIn, EventsIn, BlocksIn
  <2>2. \A e, n : TransitionCount(e, n)' = TransitionCount(e, n)
    BY <2>1 DEF TransitionCount
  <2>3. \E S : chain' \in Seq(S)
    BY <1>2 DEF ChainNumbered
  <2> QED
    BY <1>2, <2>1, <2>2, <2>3 DEF ChainNumbered
<1>3. [Next]_vars => Chain \/ UNCHANGED chain
  BY DEF Next, Pass, StartPass, RunPass, EndWithoutCommit, StageAll, CommitFile, EndPass,
     Crash, DeleteStateDir, SetUpAgain, vars
<1> QED
  BY <1>1, <1>2, <1>3

(***************************************************************************)
(* Early returns                                                           *)
(***************************************************************************)
\* A chain of checks says "ok" only when none of them refuses.
LEMMA OkRefusesNothing ==
  ASSUME NEW S, NEW checks \in Seq(S),
         \A i \in DOMAIN checks : checks[i][1] => checks[i][2] # "ok",
         Verdict(checks) = "ok"
  PROVE  \A i \in DOMAIN checks : ~checks[i][1]
<1> SUFFICES ASSUME NEW i \in DOMAIN checks, checks[i][1]
             PROVE  FALSE
  OBVIOUS
<1> DEFINE R == {j \in DOMAIN checks : checks[j][1]}
<1>1. R \subseteq Nat /\ R # {}
  OBVIOUS
<1>2. PICK m \in R : \A j \in R : m <= j
  <2> DEFINE Less == {x \in Nat \X Nat : x[1] < x[2]}
  <2>1. IsWellFoundedOn(Less, Nat)
    BY NatLessThanWellFounded, Zenon DEF OpToRel
  <2>2. \E m \in R : \A j \in R : <<j, m>> \notin Less
    BY <1>1, <2>1, WFMin
  <2>3. PICK m \in R : \A j \in R : <<j, m>> \notin Less
    BY <2>2
  <2>4. \A j \in R : ~(j < m)
    <3> TAKE j \in R
    <3>1. j \in Nat /\ m \in Nat
      BY <1>1
    <3> QED
      BY <2>3, <3>1
  <2>5. \A j \in R : m <= j
    BY <1>1, <2>4
  <2> QED
    BY <2>5
<1>3. m \in DOMAIN checks /\ checks[m][1] /\ \A j \in 1..m - 1 : ~checks[j][1]
  BY <1>2
<1>4. FirstRefusal(checks) \in DOMAIN checks /\ checks[FirstRefusal(checks)][1]
  BY <1>3 DEF FirstRefusal
<1> QED
  BY <1>4 DEF Verdict, Refused

\* A pass whose checks all hold runs under the pinned key, or pins it.
LEMMA PassesUnderPin ==
  ASSUME NEW score, PassVerdict(pass, ConfirmedHead, score) = "ok"
  PROVE  disk.pin = None \/ disk.pin = pass.served.key
<1> DEFINE checks ==
      << <<ReadOnly(pass) /\ ~pass.opts.lenient,                   "CLIENT_OUTDATED">>,
         <<disk.pin \notin {None, pass.served.key},                "KEY_PIN_MISMATCH">>,
         <<pass.epoch \in MissingDeltas,                           "ROTATION_MISSING">>,
         <<pass.served.signer # pass.served.key,                   "SIGNATURE_INVALID">>,
         <<Delta(pass.epoch).previous # PreviousCorpus(pass),      "DELTA_CONTINUITY">> >>
<1>1. Verdict(checks) = "ok"
  <2>1. ContextVerdict(pass, ConfirmedHead) = "ok"
    BY DEF PassVerdict
  <2> QED
    BY <2>1 DEF ContextVerdict
<1>2. checks[2][1] <=> disk.pin \notin {None, pass.served.key}
  OBVIOUS
<1>3. DOMAIN checks = 1..5 /\ \A i \in 1..5 : checks[i][2] # "ok"
  OBVIOUS
<1>4. \E S : checks \in Seq(S)
  <2>1. checks \in Seq({checks[1], checks[2], checks[3], checks[4], checks[5]})
    OBVIOUS
  <2> QED
    BY <2>1
<1> HIDE DEF checks
<1>5. ~checks[2][1]
  BY <1>1, <1>3, <1>4, OkRefusesNothing
<1> QED
  BY <1>2, <1>5

(***************************************************************************)
(* The inductive invariant of the state directory and the running pass     *)
(***************************************************************************)
\* A parent snapshot's name holds the root it is a snapshot of, and an entry's
\* report names the parent it was scored on and the version that scored it.
NameRoot(key) == key[2][2]
Named(entry) == entry.artifact[2] = entry.parent /\ entry.artifact[5] = entry.version

DirInv ==
  /\ disk = [pin |-> disk.pin, snapshot |-> disk.snapshot, parents |-> disk.parents,
             state |-> disk.state]
  /\ \A k \in DOMAIN disk.parents : disk.parents[k] = NameRoot(k)
  /\ disk.state # None =>
       /\ disk.pin = disk.state.key
       /\ disk.state.key # None
       /\ \A e \in disk.state.backlog : Named(e) /\ EntryKey(e) \in DOMAIN disk.parents

\* What is staged: a pin only in front, and only before there is a state file; a
\* state file only behind its pin and behind every parent its backlog names.
PinInFront(i) ==
  pass.staged[i].file = "pin" =>
    i = 1 /\ disk.state = None /\ pass.staged[i].value = pass.served.key

ParentNamed(i) ==
  pass.staged[i].file = "parent" => pass.staged[i].value = NameRoot(pass.staged[i].at)

StateBehind(i) ==
  pass.staged[i].file = "state" =>
    /\ pass.staged[i].value.key = pass.served.key
    /\ pass.staged[i].value.backlog = pass.backlog
    /\ disk.pin = pass.served.key \/ (1 < i /\ pass.staged[1].file = "pin")
    /\ \A e \in pass.backlog :
         \/ EntryKey(e) \in DOMAIN disk.parents
         \/ \E j \in 1..i - 1 : pass.staged[j].file = "parent" /\ pass.staged[j].at = EntryKey(e)

StagedInv ==
  /\ \E W : pass.staged \in Seq(W)
  /\ \A e \in pass.backlog : Named(e)
  /\ \/ \E i \in DOMAIN pass.staged : pass.staged[i].file = "state"
     \/ disk.state.backlog = pass.backlog
  /\ \A i \in DOMAIN pass.staged :
       /\ pass.staged[i].file \in {"pin", "snapshot", "parent", "state"}
       /\ PinInFront(i) /\ ParentNamed(i) /\ StateBehind(i)

PassRecord ==
  pass = [opts |-> pass.opts, served |-> pass.served, saved |-> pass.saved, epoch |-> pass.epoch,
          staged |-> pass.staged, backlog |-> pass.backlog, passed |-> pass.passed]

PassInv ==
  /\ pc \in {"idle", "started", "committing"}
  /\ pc # "idle" => PassRecord /\ pass.served \in Served
  /\ pc = "started" => pass.saved = disk.state
  /\ pc = "committing" => StagedInv

SyncInv == ChainNumbered /\ DirInv /\ PassInv

(***************************************************************************)
(* What a pass stages                                                      *)
(***************************************************************************)
\* q is a, then x, then b, then y.
Joins(W, q, a, x, b, y) ==
  /\ q \in Seq(W)
  /\ Len(a) \in Nat /\ Len(b) \in Nat /\ Len(q) = Len(a) + Len(b) + 2
  /\ \A i \in 1..Len(a) : q[i] = a[i]
  /\ q[Len(a) + 1] = x
  /\ \A i \in 1..Len(b) : q[Len(a) + 1 + i] = b[i]
  /\ q[Len(a) + Len(b) + 2] = y

LEMMA Concatenated ==
  ASSUME NEW W, NEW a \in Seq(W), NEW b \in Seq(W), NEW x \in W, NEW y \in W
  PROVE  Joins(W, a \o <<x>> \o b \o <<y>>, a, x, b, y)
<1> DEFINE c == a \o <<x>>
           d == c \o b
           q == d \o <<y>>
<1>1. <<x>> \in Seq(W) /\ Len(<<x>>) = 1 /\ <<x>>[1] = x
  OBVIOUS
<1>2. <<y>> \in Seq(W) /\ Len(<<y>>) = 1 /\ <<y>>[1] = y
  OBVIOUS
<1>3. /\ c \in Seq(W) /\ Len(c) = Len(a) + 1 /\ Len(a) \in Nat
      /\ \A i \in 1..Len(a) : c[i] = a[i]
      /\ c[Len(a) + 1] = x
  BY <1>1
<1> HIDE DEF c
<1>4. /\ d \in Seq(W) /\ Len(d) = Len(c) + Len(b) /\ Len(b) \in Nat
      /\ \A i \in 1..Len(c) : d[i] = c[i]
      /\ \A i \in 1..Len(b) : d[Len(c) + i] = b[i]
  BY <1>3
<1> HIDE DEF d
<1>5. /\ q \in Seq(W) /\ Len(q) = Len(d) + 1
      /\ \A i \in 1..Len(d) : q[i] = d[i]
      /\ q[Len(d) + 1] = y
  BY <1>2, <1>4
<1> HIDE DEF q
<1>6. /\ Len(q) = Len(a) + Len(b) + 2
      /\ q[Len(a) + 1] = x
      /\ q[Len(a) + Len(b) + 2] = y
  BY <1>3, <1>4, <1>5
<1>7. ASSUME NEW i \in 1..Len(a)
      PROVE  q[i] = a[i]
  BY <1>3, <1>4, <1>5
<1>8. ASSUME NEW i \in 1..Len(b)
      PROVE  q[Len(a) + 1 + i] = b[i]
  <2>1. d[Len(a) + 1 + i] = b[i]
    BY <1>3, <1>4
  <2>2. Len(a) + 1 + i \in 1..Len(d)
    BY <1>3, <1>4
  <2> QED
    BY <1>5, <2>1, <2>2
<1>9. Joins(W, q, a, x, b, y)
  BY <1>3, <1>4, <1>5, <1>6, <1>7, <1>8 DEF Joins
<1> QED
  BY <1>9 DEF q, d, c

\* An entry of the whole backlog comes from the state file or from the window.
LEMMA BacklogOrigin ==
  ASSUME NEW backlog, NEW window, NEW cursor,
         NEW x \in Upsert(backlog, {EntryOf(a, cursor) : a \in window})
  PROVE  \/ x \in backlog
         \/ \E a \in window : EntryKey(x) = EntryKey(EntryOf(a, 0)) /\ Named(x)
<1>1. CASE x \in backlog
  BY <1>1
<1>2. CASE x \notin backlog
  <2>1. PICK a \in window :
          LET e == EntryOf(a, cursor)
              old == {o \in backlog : EntryKey(o) = EntryKey(e)}
          IN  x = IF old = {} THEN e ELSE [e EXCEPT !.block = (CHOOSE o \in old : TRUE).block]
    BY <1>2 DEF Upsert
  <2>2. /\ x.epoch = a.epoch
        /\ x.artifact = ReportHash(a)
        /\ x.parent = a.parent
        /\ x.version = a.version
    BY <2>1 DEF EntryOf
  <2> QED
    BY <2>2 DEF EntryKey, EntryOf, Named, ReportHash
<1> QED
  BY <1>1, <1>2

\* The whole staging of a good pass: the pin in front, the parents of the new
\* backlog before the state file.
LEMMA StageKeeps ==
  ASSUME NEW score, ChainNumbered, DirInv, PassInv, pc = "started",
         PassVerdict(pass, ConfirmedHead, score) = "ok", StageAll(ConfirmedHead)
  PROVE  PassInv'
<1> DEFINE head == ConfirmedHead
           A == WindowAdvances(pass, head)
           scored == ToScore(pass, head)
           backlog == WholeBacklog(pass, head) \ scored
           pins == PinWrites(pass)
           parents == ParentWrites(pass, head)
           pinWrite == Write("pin", None, pass.served.key)
           snapWrite == Write("snapshot", None, Replayed(pass, head).root)
           stateWrite == Write("state", None, NewState(pass, head, backlog))
           q == StagedWrites(pass, head, backlog)
           r == pins \o <<snapWrite>> \o parents \o <<stateWrite>>
           W == {pinWrite, snapWrite, stateWrite} \cup {parents[i] : i \in DOMAIN parents}
<1>1. /\ pass' = [pass EXCEPT !.staged = q, !.backlog = backlog, !.passed = scored]
      /\ pc' = "committing"
      /\ UNCHANGED disk
  BY DEF StageAll
<1>2. /\ PassRecord' /\ pass'.served = pass.served /\ pass'.served \in Served
      /\ pass'.staged = q /\ pass'.backlog = backlog
  <2>1. PassRecord /\ pass.served \in Served
    BY DEF PassInv
  <2> HIDE DEF q, backlog, scored
  <2> QED
    BY <1>1, <2>1 DEF PassRecord
<1>3. Numbered(A) /\ Cardinality(A) \in Nat
  <2>1. Numbered(A)
    BY WindowNumbered DEF WindowAdvances
  <2> QED
    BY <2>1, FS_CardinalityType DEF Numbered
<1>4. /\ DOMAIN Window(pass, head) = 1..Cardinality(A)
      /\ DOMAIN parents = 1..Cardinality(A)
      /\ \A i \in 1..Cardinality(A) :
           parents[i] = Write("parent", EntryKey(EntryOf(Window(pass, head)[i], 0)),
                              Window(pass, head)[i].parent)
  BY DEF Window, InReplayOrder, ParentWrites
<1>5. parents \in Seq(W) /\ Len(parents) = Cardinality(A)
  <2>1. parents = [i \in 1..Cardinality(A) |-> parents[i]]
    BY <1>4 DEF ParentWrites
  <2>2. \A i \in 1..Cardinality(A) : parents[i] \in W
    BY <1>4
  <2> HIDE DEF parents, W
  <2> QED
    BY <1>3, <2>1, <2>2
<1>6. /\ pins \in Seq(W)
      /\ \/ Len(pins) = 0 /\ disk.pin # None
         \/ Len(pins) = 1 /\ disk.pin = None /\ pins[1] = pinWrite
  <2>1. pinWrite \in W
    OBVIOUS
  <2>2. pins = IF disk.pin = None THEN <<pinWrite>> ELSE <<>>
    BY DEF PinWrites
  <2> HIDE DEF pins, pinWrite, W
  <2> QED
    BY <2>1, <2>2
<1>7. snapWrite \in W /\ stateWrite \in W
  OBVIOUS
<1> HIDE DEF parents, pins, W, snapWrite, stateWrite, pinWrite
<1>8. q = r
  BY DEF StagedWrites, pins, parents, snapWrite, stateWrite
<1>9. /\ q \in Seq(W)
      /\ Len(pins) \in Nat /\ Len(parents) \in Nat /\ Len(q) = Len(pins) + Len(parents) + 2
      /\ \A i \in 1..Len(pins) : q[i] = pins[i]
      /\ q[Len(pins) + 1] = snapWrite
      /\ \A i \in 1..Len(parents) : q[Len(pins) + 1 + i] = parents[i]
      /\ q[Len(pins) + Len(parents) + 2] = stateWrite
  <2>1. pins \in Seq(W) /\ parents \in Seq(W)
    BY <1>5, <1>6
  <2>2. Joins(W, r, pins, snapWrite, parents, stateWrite)
    BY <1>7, <2>1, Concatenated, Zenon
  <2> HIDE DEF q, r
  <2> QED
    BY <1>8, <2>2 DEF Joins
<1> HIDE DEF q, r
<1>10. ASSUME NEW e \in backlog
       PROVE  /\ Named(e)
              /\ \/ EntryKey(e) \in DOMAIN disk.parents
                 \/ \E k \in 1..Len(parents) :
                      parents[k].file = "parent" /\ parents[k].at = EntryKey(e)
  <2> DEFINE old == IF pass.saved = None THEN {} ELSE pass.saved.backlog
  <2>1. e \in Upsert(old, {EntryOf(a, NewCursor(pass, head)) : a \in A})
    BY <1>10 DEF WholeBacklog, Incoming
  <2>2. CASE e \in old
    <3>1. disk.state # None /\ e \in disk.state.backlog
      BY <2>2 DEF PassInv
    <3> QED
      BY <3>1 DEF DirInv
  <2>3. CASE \E a \in A : EntryKey(e) = EntryKey(EntryOf(a, 0)) /\ Named(e)
    <3>1. PICK a \in A : EntryKey(e) = EntryKey(EntryOf(a, 0)) /\ Named(e)
      BY <2>3
    <3>2. PICK k \in 1..Cardinality(A) : Window(pass, head)[k] = a
      BY <1>3, SortedKeepsAll DEF Window
    <3>3. parents[k].file = "parent" /\ parents[k].at = EntryKey(e)
      BY <1>4, <3>1, <3>2 DEF Write
    <3> QED
      BY <1>5, <3>1, <3>3
  <2> HIDE DEF old
  <2> QED
    BY <2>1, <2>2, <2>3, BacklogOrigin
<1> HIDE DEF backlog
<1>11. disk.pin = None => disk.state = None
  BY DEF DirInv
<1>12. /\ stateWrite.file = "state" /\ stateWrite.value.key = pass.served.key
       /\ stateWrite.value.backlog = backlog
       /\ snapWrite.file = "snapshot" /\ pinWrite.file = "pin" /\ pinWrite.value = pass.served.key
  BY DEF stateWrite, snapWrite, pinWrite, Write, NewState
<1>13. \A k \in 1..Len(parents) :
         parents[k].file = "parent" /\ parents[k].value = NameRoot(parents[k].at)
  BY <1>4, <1>5 DEF Write, NameRoot, EntryKey, EntryOf, ReportHash
<1>14. ASSUME NEW i \in DOMAIN q
       PROVE  /\ q[i].file \in {"pin", "snapshot", "parent", "state"}
              /\ PinInFront(i)' /\ ParentNamed(i)' /\ StateBehind(i)'
  <2> USE <1>1, <1>2, <1>9 DEF PinInFront, ParentNamed, StateBehind
  <2>1. CASE i \in 1..Len(pins)
    <3>1. i = 1 /\ q[i] = pinWrite /\ disk.pin = None
      BY <1>6, <2>1
    <3> QED
      BY <1>11, <1>12, <3>1
  <2>2. CASE i = Len(pins) + 1
    BY <1>12, <2>2
  <2>3. CASE i \in Len(pins) + 2..Len(pins) + 1 + Len(parents)
    <3>1. i - Len(pins) - 1 \in 1..Len(parents) /\ q[i] = parents[i - Len(pins) - 1]
      BY <2>3
    <3> QED
      BY <1>13, <3>1
  <2>4. CASE i = Len(pins) + Len(parents) + 2
    <3>1. q[i] = stateWrite
      BY <2>4
    <3>2. disk.pin = pass.served.key \/ (1 < i /\ q[1].file = "pin")
      BY <1>6, <1>12, <2>4, PassesUnderPin
    <3>3. ASSUME NEW e \in backlog, EntryKey(e) \notin DOMAIN disk.parents
          PROVE  \E j \in 1..i - 1 : q[j].file = "parent" /\ q[j].at = EntryKey(e)
      <4>1. PICK k \in 1..Len(parents) : parents[k].file = "parent" /\ parents[k].at = EntryKey(e)
        BY <1>10, <3>3
      <4>2. Len(pins) + 1 + k \in 1..i - 1 /\ q[Len(pins) + 1 + k] = parents[k]
        BY <2>4
      <4> QED
        BY <4>1, <4>2
    <3> QED
      BY <1>12, <3>1, <3>2, <3>3
  <2>5. i \in 1..Len(q)
    OBVIOUS
  <2> QED
    BY <2>1, <2>2, <2>3, <2>4, <2>5
<1>15. StagedInv'
  <2>1. Len(q) \in DOMAIN q /\ q[Len(q)].file = "state"
    BY <1>9, <1>12
  <2> QED
    BY <1>2, <1>9, <1>10, <1>14, <2>1 DEF StagedInv, Named
<1> QED
  BY <1>1, <1>2, <1>15 DEF PassInv

(***************************************************************************)
(* One rename                                                              *)
(***************************************************************************)
\* What is still staged after the first file was renamed.
LEMMA Shifted ==
  ASSUME NEW W, NEW s \in Seq(W), s # <<>>
  PROVE  /\ Tail(s) \in Seq(W) /\ Head(s) = s[1] /\ 1 \in DOMAIN s
         /\ \A i \in DOMAIN Tail(s) : i + 1 \in DOMAIN s /\ i \in Nat \ {0} /\ Tail(s)[i] = s[i + 1]
         /\ \A i \in DOMAIN s : i # 1 => i - 1 \in DOMAIN Tail(s) /\ i \in Nat
OBVIOUS

LEMMA CommitKeeps ==
  ASSUME DirInv, PassInv, CommitFile
  PROVE  DirInv' /\ PassInv'
<1> DEFINE s == pass.staged
           w == s[1]
<1>1. /\ pc = "committing" /\ pc' = pc /\ s # <<>> /\ StagedInv
      /\ PassRecord /\ pass.served \in Served /\ pass.served.key # None
  BY ClientAssumption DEF CommitFile, PassInv
<1>2. PICK W : s \in Seq(W)
  BY <1>1 DEF StagedInv
<1>3. /\ Tail(s) \in Seq(W) /\ Head(s) = w /\ 1 \in DOMAIN s
      /\ \A i \in DOMAIN Tail(s) : i + 1 \in DOMAIN s /\ i \in Nat \ {0} /\ Tail(s)[i] = s[i + 1]
      /\ \A i \in DOMAIN s : i # 1 => i - 1 \in DOMAIN Tail(s) /\ i \in Nat
  BY <1>1, <1>2, Shifted
<1>4. /\ PassRecord' /\ pass'.staged = Tail(s)
      /\ pass'.served = pass.served /\ pass'.backlog = pass.backlog
  BY <1>1 DEF CommitFile, PassRecord
<1>5. disk' = Renamed(disk, w)
  BY <1>3 DEF CommitFile
<1>6. /\ w.file \in {"pin", "snapshot", "parent", "state"}
      /\ PinInFront(1) /\ ParentNamed(1) /\ StateBehind(1)
  BY <1>1, <1>3 DEF StagedInv
\* The directory after the rename.
<1>7. /\ disk' = [pin |-> disk'.pin, snapshot |-> disk'.snapshot, parents |-> disk'.parents,
                  state |-> disk'.state]
      /\ w.file = "pin" => /\ disk'.pin = w.value
                           /\ disk'.parents = disk.parents /\ disk'.state = disk.state
      /\ w.file = "snapshot" => /\ disk'.pin = disk.pin
                                /\ disk'.parents = disk.parents /\ disk'.state = disk.state
      /\ w.file = "parent" =>
           /\ disk'.pin = disk.pin /\ disk'.state = disk.state
           /\ disk'.parents = [k \in DOMAIN disk.parents \cup {w.at} |->
                                 IF k = w.at THEN w.value ELSE disk.parents[k]]
      /\ w.file = "state" => /\ disk'.pin = disk.pin
                             /\ disk'.parents = disk.parents /\ disk'.state = w.value
  <2> USE DEF Renamed, DirInv
  <2>1. CASE w.file = "pin"
    BY <1>5, <2>1
  <2>2. CASE w.file = "snapshot"
    BY <1>5, <2>2
  <2>3. CASE w.file = "parent"
    BY <1>5, <2>3
  <2>4. CASE w.file = "state"
    BY <1>5, <2>4
  <2> QED
    BY <1>6, <2>1, <2>2, <2>3, <2>4
<1>8. DOMAIN disk.parents \subseteq DOMAIN disk'.parents
  BY <1>6, <1>7
<1>9. \A k \in DOMAIN disk'.parents : disk'.parents[k] = NameRoot(k)
  <2>1. CASE w.file = "parent"
    BY <1>6, <1>7, <2>1 DEF DirInv, ParentNamed
  <2>2. CASE w.file # "parent"
    BY <1>6, <1>7, <2>2 DEF DirInv
  <2> QED
    BY <2>1, <2>2
<1>10. ASSUME disk'.state # None
       PROVE  /\ disk'.pin = disk'.state.key
              /\ disk'.state.key # None
              /\ \A e \in disk'.state.backlog : Named(e) /\ EntryKey(e) \in DOMAIN disk'.parents
  <2>1. CASE w.file = "pin"
    BY <1>6, <1>7, <1>10, <2>1 DEF PinInFront
  <2>2. CASE w.file \in {"snapshot", "parent"}
    BY <1>7, <1>8, <1>10, <2>2 DEF DirInv
  <2>3. CASE w.file = "state"
    <3>1. /\ disk'.state.key = pass.served.key /\ disk'.pin = pass.served.key
          /\ disk'.state.backlog = pass.backlog
          /\ \A e \in pass.backlog : EntryKey(e) \in DOMAIN disk'.parents
      BY <1>6, <1>7, <2>3 DEF StateBehind
    <3> QED
      BY <1>1, <3>1 DEF StagedInv
  <2> QED
    BY <1>6, <2>1, <2>2, <2>3
<1>11. DirInv'
  BY <1>7, <1>9, <1>10 DEF DirInv, Named, EntryKey
\* What is left to rename.
<1>12. ASSUME NEW i \in DOMAIN Tail(s)
       PROVE  /\ Tail(s)[i].file \in {"pin", "snapshot", "parent", "state"}
              /\ PinInFront(i)' /\ ParentNamed(i)' /\ StateBehind(i)'
  <2>1. /\ i + 1 \in DOMAIN s /\ i \in Nat \ {0} /\ Tail(s)[i] = s[i + 1]
        /\ s[i + 1].file \in {"pin", "snapshot", "parent", "state"}
        /\ PinInFront(i + 1) /\ ParentNamed(i + 1) /\ StateBehind(i + 1)
    BY <1>1, <1>3 DEF StagedInv
  <2>2. Tail(s)[i].file # "pin"
    BY <2>1 DEF PinInFront
  <2>3. PinInFront(i)' /\ ParentNamed(i)'
    BY <1>4, <2>1, <2>2 DEF PinInFront, ParentNamed
  <2>4. ASSUME Tail(s)[i].file = "state"
        PROVE  /\ Tail(s)[i].value.key = pass.served.key
               /\ Tail(s)[i].value.backlog = pass.backlog
               /\ disk'.pin = pass.served.key
               /\ \A e \in pass.backlog :
                    \/ EntryKey(e) \in DOMAIN disk'.parents
                    \/ \E j \in 1..i - 1 :
                         Tail(s)[j].file = "parent" /\ Tail(s)[j].at = EntryKey(e)
    <3>1. /\ s[i + 1].value.key = pass.served.key /\ s[i + 1].value.backlog = pass.backlog
          /\ disk.pin = pass.served.key \/ w.file = "pin"
          /\ \A e \in pass.backlog :
               \/ EntryKey(e) \in DOMAIN disk.parents
               \/ \E j \in 1..i + 1 - 1 : s[j].file = "parent" /\ s[j].at = EntryKey(e)
      BY <2>1, <2>4 DEF StateBehind
    <3>2. disk'.pin = pass.served.key
      BY <1>6, <1>7, <3>1 DEF PinInFront
    <3>3. ASSUME NEW e \in pass.backlog, EntryKey(e) \notin DOMAIN disk'.parents
          PROVE  \E j \in 1..i - 1 : Tail(s)[j].file = "parent" /\ Tail(s)[j].at = EntryKey(e)
      <4>1. PICK j \in 1..i : s[j].file = "parent" /\ s[j].at = EntryKey(e)
        BY <1>8, <2>1, <3>1, <3>3
      <4>2. j # 1
        BY <1>7, <3>3, <4>1
      <4>3. j - 1 \in 1..i - 1 /\ j - 1 \in DOMAIN Tail(s) /\ j - 1 + 1 = j
        BY <1>2, <1>3, <2>1, <4>1, <4>2
      <4>4. Tail(s)[j - 1] = s[j]
        BY <1>3, <4>3
      <4> QED
        BY <4>1, <4>3, <4>4
    <3> QED
      BY <2>1, <3>1, <3>2, <3>3
  <2>5. StateBehind(i)'
    BY <1>4, <2>4 DEF StateBehind, EntryKey
  <2> QED
    BY <2>1, <2>3, <2>5
<1>13. \/ \E i \in DOMAIN Tail(s) : Tail(s)[i].file = "state"
       \/ disk'.state.backlog = pass.backlog
  <2>1. CASE w.file = "state"
    BY <1>6, <1>7, <2>1 DEF StateBehind
  <2>2. CASE w.file # "state"
    <3>1. CASE \E i \in DOMAIN s : s[i].file = "state"
      <4>1. PICK i \in DOMAIN s : s[i].file = "state" /\ i # 1
        BY <2>2, <3>1
      <4>2. i - 1 \in DOMAIN Tail(s) /\ i - 1 + 1 = i
        BY <1>3, <4>1
      <4> QED
        BY <1>3, <4>1, <4>2
    <3>2. CASE disk.state.backlog = pass.backlog
      BY <1>6, <1>7, <2>2, <3>2
    <3> QED
      BY <1>1, <3>1, <3>2 DEF StagedInv
  <2> QED
    BY <2>1, <2>2
<1>14. StagedInv'
  BY <1>1, <1>3, <1>4, <1>12, <1>13 DEF StagedInv, Named
<1> QED
  BY <1>1, <1>4, <1>11, <1>14 DEF PassInv

(***************************************************************************)
(* The other steps                                                         *)
(***************************************************************************)
LEMMA EndKeeps ==
  ASSUME DirInv, PassInv, EndPass
  PROVE  DirInv' /\ PassInv'
<1>1. /\ pc = "committing" /\ pass.staged = <<>> /\ StagedInv /\ pc' = "idle"
      /\ disk' = [disk EXCEPT !.parents = Collected(disk.parents, pass.backlog)]
  BY DEF EndPass, PassInv
<1>2. disk.state.backlog = pass.backlog
  BY <1>1 DEF StagedInv
<1>3. /\ disk' = [pin |-> disk'.pin, snapshot |-> disk'.snapshot, parents |-> disk'.parents,
                  state |-> disk'.state]
      /\ disk'.pin = disk.pin /\ disk'.state = disk.state
      /\ disk'.parents = Collected(disk.parents, pass.backlog)
  BY <1>1 DEF DirInv
<1>4. /\ DOMAIN disk'.parents = {EntryKey(e) : e \in pass.backlog} \cap DOMAIN disk.parents
      /\ \A k \in DOMAIN disk'.parents : disk'.parents[k] = disk.parents[k]
  BY <1>3 DEF Collected
<1>5. DirInv'
  BY <1>2, <1>3, <1>4 DEF DirInv, Named, EntryKey
<1> QED
  BY <1>1, <1>5 DEF PassInv

LEMMA StartKeeps ==
  ASSUME DirInv, PassInv, StartPass
  PROVE  DirInv' /\ PassInv'
<1>1. PICK opts \in Options, served \in Served :
        /\ pc' = "started" /\ UNCHANGED disk
        /\ pass' = [opts |-> opts, served |-> served, saved |-> disk.state,
                    epoch |-> EpochAt(Len(chain)), staged |-> <<>>, backlog |-> {}, passed |-> {}]
  BY DEF StartPass
<1>2. PassRecord' /\ pass'.served \in Served /\ pass'.saved = disk.state
  BY <1>1 DEF PassRecord
<1> QED
  BY <1>1, <1>2 DEF DirInv, PassInv, Named, EntryKey

LEMMA RunKeeps ==
  ASSUME SyncInv, RunPass
  PROVE  DirInv' /\ PassInv'
<1>1. /\ UNCHANGED disk /\ pc = "started"
      /\ \/ pc' = "idle"
         \/ /\ \E score : PassVerdict(pass, ConfirmedHead, score) = "ok"
            /\ StageAll(ConfirmedHead)
  BY DEF RunPass, EndWithoutCommit, StageAll
<1>2. DirInv'
  BY <1>1 DEF SyncInv, DirInv, Named, EntryKey
<1>3. CASE pc' = "idle"
  BY <1>2, <1>3 DEF PassInv
<1>4. CASE /\ \E score : PassVerdict(pass, ConfirmedHead, score) = "ok"
           /\ StageAll(ConfirmedHead)
  BY <1>1, <1>2, <1>4, StageKeeps DEF SyncInv
<1> QED
  BY <1>1, <1>3, <1>4

LEMMA SyncStep ==
  ASSUME SyncInv, [Next]_vars
  PROVE  SyncInv'
<1>1. ChainNumbered'
  BY NumbersStep DEF SyncInv
<1>2. CASE Pass
  BY <1>1, <1>2, StartKeeps, RunKeeps, CommitKeeps, EndKeeps DEF Pass, SyncInv
<1>3. CASE Crash \/ DeleteStateDir
  <2>1. pc' = "idle" /\ (disk' = disk \/ disk' = EmptyDir)
    BY <1>3 DEF Crash, DeleteStateDir
  <2>2. DirInv'
    BY <2>1 DEF SyncInv, DirInv, EmptyDir, Named, EntryKey
  <2> QED
    BY <1>1, <2>1, <2>2 DEF SyncInv, PassInv
<1>4. CASE UNCHANGED <<disk, pc, pass>>
  <2>1. DirInv'
    BY <1>4 DEF SyncInv, DirInv, Named, EntryKey
  <2>2. \A i : /\ PinInFront(i)' <=> PinInFront(i)
               /\ ParentNamed(i)' <=> ParentNamed(i)
               /\ StateBehind(i)' <=> StateBehind(i)
    BY <1>4 DEF PinInFront, ParentNamed, StateBehind, EntryKey
  <2>3. StagedInv => StagedInv'
    BY <1>4, <2>2 DEF StagedInv, Named
  <2>4. PassInv'
    BY <1>4, <2>3 DEF SyncInv, PassInv, PassRecord
  <2> QED
    BY <1>1, <2>1, <2>4 DEF SyncInv
<1>5. Chain \/ SetUpAgain \/ UNCHANGED vars => UNCHANGED <<disk, pc, pass>>
  BY DEF Chain, Advance, Finalize, Rotate, Reveal, EmptyBlock, Mine, Reorg, SetUpAgain, vars
<1> QED
  BY <1>2, <1>3, <1>4, <1>5 DEF Next

LEMMA SyncInit == Init => SyncInv
<1> SUFFICES ASSUME Init PROVE SyncInv
  OBVIOUS
<1>1. chain \in Seq({})
  BY DEF Init
<1>2. ChainNumbered
  BY <1>1 DEF Init, ChainNumbered
<1>3. DirInv /\ PassInv
  BY DEF Init, DirInv, PassInv, EmptyDir
<1> QED
  BY <1>2, <1>3 DEF SyncInv

LEMMA SyncInvariance == Spec => []SyncInv
BY SyncInit, SyncStep, PTL DEF Spec

(***************************************************************************)
(* The theorems                                                            *)
(***************************************************************************)
\* Wherever a crash falls between two renames of commit(), the state file stands
\* beside the pin of the key its deltas were signed with (first use decides).
THEOREM StateStaysUnderPin == Spec => []StateUnderPin
<1>1. SyncInv => StateUnderPin
  BY DEF SyncInv, DirInv, StateUnderPin
<1> QED
  BY <1>1, SyncInvariance, PTL

\* Wherever a crash falls between two renames or before the collection of old
\* snapshots, every advance whose score replay is owed has its parent snapshot,
\* and the snapshot is of the root the advance starts from.
THEOREM BacklogKeepsItsParents == Spec => []BacklogHasItsParents
<1>1. SyncInv => BacklogHasItsParents
  <2> SUFFICES ASSUME SyncInv, disk.state # None, NEW e \in disk.state.backlog
               PROVE  ParentOnDisk(e)
    BY DEF BacklogHasItsParents
  <2>1. Named(e) /\ EntryKey(e) \in DOMAIN disk.parents
    BY DEF SyncInv, DirInv
  <2>2. disk.parents[EntryKey(e)] = NameRoot(EntryKey(e))
    BY <2>1 DEF SyncInv, DirInv
  <2>3. NameRoot(EntryKey(e)) = e.artifact[2]
    BY DEF NameRoot, EntryKey
  <2> QED
    BY <2>1, <2>2, <2>3 DEF ParentOnDisk, Named
<1> QED
  BY <1>1, SyncInvariance, PTL

\* The registry numbers its advances without repeating a number, so the order in
\* which a replay takes the advances of any window is the only one there is, and
\* sorting them loses none.
THEOREM ReplayTakesEveryAdvance ==
  Spec => [](\A f, t : \A a \in AdvancesIn(f, t) :
               \E k \in 1..Cardinality(AdvancesIn(f, t)) : InReplayOrder(AdvancesIn(f, t))[k] = a)
<1>1. SyncInv => \A f, t : \A a \in AdvancesIn(f, t) :
        \E k \in 1..Cardinality(AdvancesIn(f, t)) : InReplayOrder(AdvancesIn(f, t))[k] = a
  BY WindowNumbered, SortedKeepsAll DEF SyncInv
<1> QED
  BY <1>1, SyncInvariance, PTL
=============================================================================

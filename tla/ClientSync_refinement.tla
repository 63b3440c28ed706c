------------------------ MODULE ClientSync_refinement ------------------------
(***************************************************************************)
(* The client implements TrustedReplica.  The confirmed advances form a    *)
(* ledger that only grows; a pass that passes its checks has replayed the  *)
(* registry up to a prefix of it, and the entries it keeps in the backlog, *)
(* or has scored, are the positions the replica gained.  From the same     *)
(* invariant: below the block reported as verified nothing is unaudited.   *)
(***************************************************************************)
EXTENDS ClientSync_proofs, SequenceTheorems

(***************************************************************************)
(* Counting the advances of the chain                                      *)
(***************************************************************************)
ChainSeq == \E S : chain \in Seq(S)

IsAdvance(i) == i \in DOMAIN chain /\ chain[i].kind = "advance"

LEMMA LeastNatural ==
  ASSUME NEW R \in SUBSET Nat, R # {}
  PROVE  \E m \in R : \A j \in R : m <= j
<1> DEFINE Less == {x \in Nat \X Nat : x[1] < x[2]}
<1>1. IsWellFoundedOn(Less, Nat)
  BY NatLessThanWellFounded, Zenon DEF OpToRel
<1>2. \E m \in R : \A j \in R : <<j, m>> \notin Less
  BY <1>1, WFMin
<1>3. PICK m \in R : \A j \in R : <<j, m>> \notin Less
  BY <1>2
<1>4. \A j \in R : ~(j < m)
  <2> TAKE j \in R
  <2>1. j \in Nat /\ m \in Nat
    OBVIOUS
  <2> QED
    BY <1>3, <2>1
<1> QED
  BY <1>4

LEMMA BlocksGrow ==
  ChainSeq => \A kind : \A m, n \in Int : m <= n =>
    /\ BlocksIn(1, m, kind) \subseteq BlocksIn(1, n, kind)
    /\ Cardinality(BlocksIn(1, m, kind)) \in Nat
    /\ Cardinality(BlocksIn(1, m, kind)) <= Cardinality(BlocksIn(1, n, kind))
<1> SUFFICES ASSUME ChainSeq, NEW kind, NEW m \in Int, NEW n \in Int, m <= n
             PROVE  /\ BlocksIn(1, m, kind) \subseteq BlocksIn(1, n, kind)
                    /\ Cardinality(BlocksIn(1, m, kind)) \in Nat
                    /\ Cardinality(BlocksIn(1, m, kind)) <= Cardinality(BlocksIn(1, n, kind))
  OBVIOUS
<1>1. BlocksIn(1, m, kind) \in SUBSET BlocksIn(1, n, kind)
  BY DEF BlocksIn, ChainSeq
<1>2. IsFiniteSet(BlocksIn(1, n, kind)) /\ Cardinality(BlocksIn(1, m, kind)) \in Nat
  BY BlocksFinite DEF ChainSeq
<1> QED
  BY <1>1, <1>2, FS_Subset

LEMMA EpochGrows ==
  ChainSeq => \A m, n \in Int : m <= n => EpochAt(m) \in Nat /\ EpochAt(m) <= EpochAt(n)
<1> SUFFICES ASSUME ChainSeq, NEW m \in Int, NEW n \in Int, m <= n
             PROVE  EpochAt(m) \in Nat /\ EpochAt(m) <= EpochAt(n)
  OBVIOUS
<1> DEFINE x == Cardinality(BlocksIn(1, m, "rotate"))
           y == Cardinality(BlocksIn(1, n, "rotate"))
<1>1. x \in Nat /\ y \in Nat /\ x <= y
  BY BlocksGrow
<1>2. EpochAt(m) = 1 + x /\ EpochAt(n) = 1 + y
  BY DEF EpochAt
<1> HIDE DEF x, y
<1> QED
  BY <1>1, <1>2

LEMMA CountGrowsByOne ==
  ChainSeq =>
    /\ \A n \in Int : Count(n) \in Nat /\ (n <= 0 => Count(n) = 0)
    /\ \A m, n \in Int : m <= n => Count(m) <= Count(n)
    /\ \A i \in DOMAIN chain :
         Count(i) = IF chain[i].kind = "advance" THEN Count(i - 1) + 1 ELSE Count(i - 1)
<1> SUFFICES ASSUME ChainSeq
             PROVE  /\ \A n \in Int : Count(n) \in Nat /\ (n <= 0 => Count(n) = 0)
                    /\ \A m, n \in Int : m <= n => Count(m) <= Count(n)
                    /\ \A i \in DOMAIN chain :
                         Count(i) = IF chain[i].kind = "advance" THEN Count(i - 1) + 1
                                    ELSE Count(i - 1)
  OBVIOUS
<1> DEFINE B(n) == BlocksIn(1, n, "advance")
<1>1. ASSUME NEW n \in Int
      PROVE  Count(n) \in Nat /\ (n <= 0 => Count(n) = 0)
  <2>1. Count(n) \in Nat
    BY BlocksGrow DEF Count
  <2>2. n <= 0 => B(n) = {}
    BY DEF BlocksIn, ChainSeq
  <2> QED
    BY <2>1, <2>2, FS_EmptySet DEF Count
<1>2. \A m, n \in Int : m <= n => Count(m) <= Count(n)
  BY BlocksGrow DEF Count
<1>3. ASSUME NEW i \in DOMAIN chain
      PROVE  Count(i) = IF chain[i].kind = "advance" THEN Count(i - 1) + 1 ELSE Count(i - 1)
  <2>1. IsFiniteSet(B(i - 1))
    BY BlocksFinite DEF ChainSeq
  <2>4. i \notin B(i - 1)
    BY DEF BlocksIn, ChainSeq
  <2>2. CASE chain[i].kind = "advance"
    <3>1. B(i) = B(i - 1) \cup {i}
      BY <2>2 DEF BlocksIn, ChainSeq
    <3> HIDE DEF B
    <3>2. Cardinality(B(i)) = Cardinality(B(i - 1)) + 1
      BY <2>1, <2>4, <3>1, FS_AddElement
    <3> QED
      BY <2>2, <3>2 DEF Count, B
  <2>3. CASE chain[i].kind # "advance"
    <3>1. B(i) = B(i - 1)
      BY <2>3 DEF BlocksIn, ChainSeq
    <3> QED
      BY <2>3, <3>1 DEF Count
  <2> QED
    BY <2>2, <2>3
<1> QED
  BY <1>1, <1>2, <1>3

LEMMA CountsUp ==
  ChainSeq => \A i, j \in Int : i <= j => Count(j) \in Nat /\ Count(i) <= Count(j)
BY CountGrowsByOne

\* The k-th advance is where the count reaches k, and nowhere else.
LEMMA NthIsUnique ==
  ChainSeq => \A i : IsAdvance(i) =>
    /\ Nth(Count(i)) = i /\ Count(i) \in Nat \ {0} /\ i \in Nat \ {0}
    /\ Count(i) = Count(i - 1) + 1
    /\ \A j : IsAdvance(j) /\ i < j => Count(i) <= Count(j - 1)
<1> SUFFICES ASSUME ChainSeq, NEW i, IsAdvance(i)
             PROVE  /\ Nth(Count(i)) = i /\ Count(i) \in Nat \ {0} /\ i \in Nat \ {0}
                    /\ Count(i) = Count(i - 1) + 1
                    /\ \A j : IsAdvance(j) /\ i < j => Count(i) <= Count(j - 1)
  OBVIOUS
<1>1. \A j : IsAdvance(j) => /\ j \in 1..Len(chain) /\ j - 1 \in Nat
                             /\ Count(j - 1) \in Nat /\ Count(j) = Count(j - 1) + 1
  <2> SUFFICES ASSUME NEW j, IsAdvance(j)
               PROVE  /\ j \in 1..Len(chain) /\ j - 1 \in Nat
                      /\ Count(j - 1) \in Nat /\ Count(j) = Count(j - 1) + 1
    OBVIOUS
  <2>1. j \in DOMAIN chain /\ chain[j].kind = "advance"
    BY DEF IsAdvance
  <2>2. j \in 1..Len(chain) /\ j - 1 \in Nat
    BY <2>1 DEF ChainSeq
  <2>3. Count(j) = Count(j - 1) + 1
    BY <2>1, CountGrowsByOne
  <2>4. j - 1 \in Int
    BY <2>2
  <2>5. Count(j - 1) \in Nat
    BY <2>4, CountGrowsByOne
  <2> QED
    BY <2>2, <2>3, <2>5
<1>2. \A j, k : IsAdvance(j) /\ IsAdvance(k) /\ j < k => Count(j) <= Count(k - 1)
  <2> SUFFICES ASSUME NEW j, NEW k, IsAdvance(j), IsAdvance(k), j < k
               PROVE  Count(j) <= Count(k - 1)
    OBVIOUS
  <2>1. j \in Int /\ k - 1 \in Int /\ j <= k - 1
    BY <1>1
  <2> QED
    BY <2>1, CountGrowsByOne
<1>3. \A j : j \in BlocksIn(1, Len(chain), "advance") <=> IsAdvance(j)
  BY <1>1 DEF BlocksIn, IsAdvance
<1>4. \A j : IsAdvance(j) /\ Count(j) = Count(i) => j = i
  <2> SUFFICES ASSUME NEW j, IsAdvance(j), Count(j) = Count(i), j # i
               PROVE  FALSE
    OBVIOUS
  <2>1. j < i \/ i < j
    BY <1>1
  <2> QED
    BY <1>1, <1>2, <2>1
<1>5. Nth(Count(i)) = i
  BY <1>3, <1>4 DEF Nth
<1> QED
  BY <1>1, <1>2, <1>5

LEMMA NthInverse == ChainSeq => \A j : IsAdvance(j) => Nth(Count(j)) = j
BY NthIsUnique

LEMMA NthFollows == ChainSeq => \A j : IsAdvance(j) => Count(j) = Count(j - 1) + 1
BY NthIsUnique

LEMMA NthExists ==
  ChainSeq => \A n \in Int : \A k \in 1..Count(n) :
    n <= Len(chain) => IsAdvance(Nth(k)) /\ Count(Nth(k)) = k /\ Nth(k) <= n
<1> SUFFICES ASSUME ChainSeq, NEW n \in Int, NEW k \in 1..Count(n), n <= Len(chain)
             PROVE  IsAdvance(Nth(k)) /\ Count(Nth(k)) = k /\ Nth(k) <= n
  OBVIOUS
<1> DEFINE R == {i \in Nat : k <= Count(i)}
<1>1. n \in R
  BY CountGrowsByOne
<1>2. PICK i \in R : \A j \in R : i <= j
  BY <1>1, LeastNatural
<1>3. i \in 1..n /\ i - 1 \in Nat
  BY <1>1, <1>2, CountGrowsByOne
<1>4. i \in DOMAIN chain
  BY <1>3 DEF ChainSeq
<1>5. i - 1 \notin R
  BY <1>2, <1>3
<1>6. Count(i - 1) < k /\ k <= Count(i)
  BY <1>3, <1>5, CountGrowsByOne
<1>7. chain[i].kind = "advance" /\ Count(i) = k
  <2>1. Count(i) = IF chain[i].kind = "advance" THEN Count(i - 1) + 1 ELSE Count(i - 1)
    BY <1>4, CountGrowsByOne
  <2>2. Count(i) \in Nat /\ Count(i - 1) \in Nat /\ k \in Nat
    <3>1. i \in Int /\ i - 1 \in Int /\ Count(n) \in Nat
      BY <1>3, CountGrowsByOne
    <3>2. Count(i) \in Nat /\ Count(i - 1) \in Nat
      BY <3>1, CountGrowsByOne
    <3> QED
      BY <3>1, <3>2
  <2> QED
    BY <1>6, <2>1, <2>2
<1>8. IsAdvance(i) /\ Nth(k) = i
  BY <1>4, <1>7, NthIsUnique DEF IsAdvance
<1> QED
  BY <1>3, <1>7, <1>8

LEMMA GreatestNatural ==
  ASSUME NEW n \in Nat, NEW R \in SUBSET (0..n), R # {}
  PROVE  \E m \in R : \A j \in R : j <= m
<1> DEFINE U == {u \in Nat : \A j \in R : j <= u}
<1>1. n \in U
  OBVIOUS
<1>2. PICK u \in U : \A v \in U : u <= v
  BY <1>1, LeastNatural
<1>3. u \in R
  <2> SUFFICES ASSUME u \notin R
               PROVE  FALSE
    OBVIOUS
  <2>1. u \in Nat /\ \A j \in R : j \in Nat /\ j < u
    BY <1>2
  <2>2. u - 1 \in Nat
    <3>1. PICK j \in R : TRUE
      OBVIOUS
    <3> QED
      BY <2>1, <3>1
  <2>3. \A j \in R : j <= u - 1
    BY <2>1
  <2>4. u - 1 \in U
    BY <2>2, <2>3
  <2> QED
    BY <1>2, <2>1, <2>4
<1> QED
  BY <1>2, <1>3

(***************************************************************************)
(* What an advance says of the advances before it                          *)
(***************************************************************************)
\* The state after the first m advances.
Applied(m) == [k \in 1..m |-> chain[Nth(k)].event.payload]

LinkedAt(i) ==
  /\ chain[i].event.epoch = EpochAt(i - 1)
  /\ chain[i].event.parent = Applied(Count(i - 1))
  /\ chain[i].event.new = Applied(Count(i))
  /\ chain[i].event.report \in Reports

ChainLinked == \A i : IsAdvance(i) => LinkedAt(i)

LEMMA NumberedIsSeq == ChainNumbered => ChainSeq
BY DEF ChainNumbered, ChainSeq

\* The order of the replay is the order of the blocks.
LEMMA BlockOrder ==
  ASSUME ChainNumbered, ChainLinked, NEW i, NEW j, IsAdvance(i), IsAdvance(j), i < j
  PROVE  /\ chain[i].event.epoch \in Nat /\ chain[j].event.epoch \in Nat
         /\ chain[i].event.epoch <= chain[j].event.epoch
         /\ Earlier(chain[i].event, chain[j].event)
         /\ ~Earlier(chain[j].event, chain[i].event)
<1> DEFINE a == chain[i].event
           b == chain[j].event
<1>1. PICK S : chain \in Seq(S)
  BY DEF ChainNumbered
<1>2. /\ i \in DOMAIN chain /\ chain[i].kind = "advance"
      /\ j \in DOMAIN chain /\ chain[j].kind = "advance"
      /\ i - 1 \in Nat /\ j - 1 \in Nat /\ i <= j - 1
  BY <1>1 DEF IsAdvance
<1>3. a.epoch = EpochAt(i - 1) /\ b.epoch = EpochAt(j - 1)
  BY DEF ChainLinked, LinkedAt
<1>4. a.epoch \in Nat /\ b.epoch \in Nat /\ a.epoch <= b.epoch
  <2>1. ChainSeq
    BY NumberedIsSeq
  <2>2. i - 1 \in Int /\ j - 1 \in Int /\ i - 1 <= j - 1
    BY <1>1, <1>2
  <2>3. /\ EpochAt(i - 1) \in Nat /\ EpochAt(i - 1) <= EpochAt(j - 1)
        /\ EpochAt(j - 1) \in Nat
    BY <2>1, <2>2, EpochGrows
  <2> QED
    BY <1>3, <2>3
<1>5. /\ a.index = TransitionCount(a.epoch, i - 1) /\ b.index = TransitionCount(b.epoch, j - 1)
      /\ a \notin AdvancesIn(1, i - 1)
  BY <1>2 DEF ChainNumbered
<1>6. a.index \in Nat /\ b.index \in Nat
  BY <1>1, <1>5, CountType
<1>7. TransitionCount(a.epoch, i - 1) < TransitionCount(a.epoch, j - 1)
  BY <1>1, <1>2, <1>5, CountGrows
<1>8. a.epoch = b.epoch => a.index < b.index
  BY <1>5, <1>7
<1> HIDE DEF a, b
<1>9. Earlier(a, b) /\ ~Earlier(b, a)
  BY <1>4, <1>6, <1>8 DEF Earlier
<1> QED
  BY <1>4, <1>9 DEF a, b

\* liveStateRoot(e) at block n: the advances of the epochs up to e are the first
\* ones of the chain, and the root is the state after them.
LEMMA LiveRootIs ==
  ASSUME ChainNumbered, ChainLinked, NEW n \in Int, NEW e \in Int, n <= Len(chain)
  PROVE  \E m \in 0..Count(n) :
           /\ LiveRoot(e, n) = Applied(m)
           /\ \A i : IsAdvance(i) /\ i <= n => (chain[i].event.epoch <= e <=> Count(i) <= m)
<1> DEFINE A == {a \in AdvancesIn(1, n) : a.epoch <= e}
           R == {i \in 0..Len(chain) : IsAdvance(i) /\ i <= n /\ chain[i].event.epoch <= e}
<1>1. PICK S : chain \in Seq(S)
  BY DEF ChainNumbered
<1>2. \A i : IsAdvance(i) => i \in 1..Len(chain) /\ chain[i].kind = "advance"
  BY <1>1 DEF IsAdvance
<1>3. \A a : a \in A <=> \E i \in R : chain[i].event = a
  BY <1>1, <1>2, AdvanceAt DEF IsAdvance
<1>4. LiveRoot(e, n) = StateOf(A)
  BY DEF LiveRoot
<1>5. ChainSeq
  BY NumberedIsSeq
<1>6. CASE R = {}
  <2>1. A = {}
    BY <1>3, <1>6
  <2>2. LiveRoot(e, n) = <<>>
    BY <1>4, <2>1 DEF StateOf, Blank
  <2>3. Applied(0) = <<>>
    BY DEF Applied
  <2>4. \A i : IsAdvance(i) /\ i <= n => ~(chain[i].event.epoch <= e) /\ ~(Count(i) <= 0)
    BY <1>2, <1>5, <1>6, NthIsUnique
  <2>5. 0 \in 0..Count(n)
    BY <1>5, CountGrowsByOne
  <2> QED
    BY <2>2, <2>3, <2>4, <2>5
<1>7. CASE R # {}
  <2>1. R \in SUBSET (0..Len(chain)) /\ Len(chain) \in Nat
    BY <1>1
  <2>2. PICK b \in R : \A j \in R : j <= b
    BY <1>7, <2>1, GreatestNatural
  <2>3. IsAdvance(b) /\ b <= n /\ b \in Int /\ chain[b].event.epoch <= e
    BY <2>1, <2>2
  <2>4. \A j \in R : j # b => /\ Earlier(chain[j].event, chain[b].event)
                              /\ ~Earlier(chain[b].event, chain[j].event)
    <3> SUFFICES ASSUME NEW j \in R, j # b
                 PROVE  /\ Earlier(chain[j].event, chain[b].event)
                        /\ ~Earlier(chain[b].event, chain[j].event)
      OBVIOUS
    <3>1. IsAdvance(j) /\ j < b
      BY <2>1, <2>2, <2>3
    <3> QED
      BY <2>3, <3>1, BlockOrder
  <2>5. ~Earlier(chain[b].event, chain[b].event)
    <3>1. chain[b].event.epoch \in Int /\ chain[b].event.index \in Int
      <4>1. b \in DOMAIN chain /\ chain[b].kind = "advance"
        BY <2>3 DEF IsAdvance
      <4>2. /\ chain[b].event.epoch \in Int
            /\ chain[b].event.index = TransitionCount(chain[b].event.epoch, b - 1)
        BY <4>1 DEF ChainNumbered
      <4>3. TransitionCount(chain[b].event.epoch, b - 1) \in Nat
        BY <1>1, CountType
      <4> QED
        BY <4>2, <4>3
    <3> QED
      BY <3>1 DEF Earlier
  <2>6. (CHOOSE a \in A : \A c \in A : ~Earlier(a, c)) = chain[b].event
    <3>1. chain[b].event \in A /\ \A c \in A : ~Earlier(chain[b].event, c)
      BY <1>3, <2>2, <2>4, <2>5
    <3>2. \A a \in A : (\A c \in A : ~Earlier(a, c)) => a = chain[b].event
      BY <1>3, <2>4, <3>1
    <3> QED
      BY <3>1, <3>2
  <2>7. A # {}
    BY <1>3, <2>2
  <2>8. LiveRoot(e, n) = chain[b].event.new
    BY <1>4, <2>6, <2>7 DEF StateOf
  <2>9. LiveRoot(e, n) = Applied(Count(b))
    BY <2>3, <2>8 DEF ChainLinked, LinkedAt
  <2>10. Count(b) \in 0..Count(n)
    BY <1>5, <2>3, NthIsUnique, CountGrowsByOne
  <2>11. ASSUME NEW i, IsAdvance(i), i <= n
         PROVE  chain[i].event.epoch <= e <=> Count(i) <= Count(b)
    <3>1. i \in 1..Len(chain) /\ i \in Int
      BY <1>2, <2>11
    <3>2. CASE i = b
      BY <2>3, <2>10, <3>2
    <3>3. CASE i < b
      <4>1. /\ chain[i].event.epoch \in Nat /\ chain[b].event.epoch \in Nat
            /\ chain[i].event.epoch <= chain[b].event.epoch
        BY <2>3, <2>11, <3>3, BlockOrder
      <4>2. Count(i) <= Count(b)
        BY <1>5, <2>3, <3>1, <3>3, CountGrowsByOne
      <4> QED
        BY <2>3, <4>1, <4>2
    <3>4. CASE b < i
      <4>1. i \notin R
        BY <2>2, <2>3, <3>1, <3>4
      <4>2. ~(chain[i].event.epoch <= e)
        BY <2>11, <3>1, <4>1
      <4>3. /\ Count(b) <= Count(i - 1) /\ Count(i) = Count(i - 1) + 1
            /\ Count(b) \in Nat /\ Count(i) \in Nat
        BY <1>5, <2>3, <2>11, <3>4, NthIsUnique
      <4>4. Count(i - 1) \in Nat
        <5>1. i - 1 \in Int
          BY <3>1
        <5> QED
          BY <1>5, <5>1, CountGrowsByOne
      <4> QED
        BY <4>2, <4>3, <4>4
    <3> QED
      BY <2>3, <3>1, <3>2, <3>3, <3>4
  <2> QED
    BY <2>9, <2>10, <2>11
<1> QED
  BY <1>6, <1>7

LEMMA AppliedLength ==
  ASSUME NEW m \in Nat
  PROVE  Len(Applied(m)) = m /\ DOMAIN Applied(m) = 1..m
<1> DEFINE T == {Applied(m)[k] : k \in 1..m}
<1>1. Applied(m) \in [1..m -> T]
  BY DEF Applied
<1> HIDE DEF T
<1>2. Applied(m) \in Seq(T)
  BY <1>1
<1> QED
  BY <1>1, <1>2

(***************************************************************************)
(* Every step of the chain keeps the links                                 *)
(***************************************************************************)
\* Two chains that share their first m blocks share what is counted in them.
LEMMA SameBlocks ==
  ASSUME ChainSeq, ChainSeq', NEW m \in Nat, m <= Len(chain), m <= Len(chain'),
         \A i \in 1..m : chain'[i] = chain[i]
  PROVE  /\ \A i \in 1..m : IsAdvance(i)' <=> IsAdvance(i)
         /\ \A n \in Int : n <= m =>
              /\ Count(n)' = Count(n) /\ EpochAt(n)' = EpochAt(n) /\ Revealed(n)' = Revealed(n)
         /\ \A k \in 1..Count(m) : Nth(k)' = Nth(k) /\ chain'[Nth(k)] = chain[Nth(k)]
         /\ \A q \in 0..Count(m) : Applied(q)' = Applied(q)
<1>1. DOMAIN chain = 1..Len(chain) /\ DOMAIN chain' = 1..Len(chain')
      /\ Len(chain) \in Nat /\ Len(chain') \in Nat
  BY DEF ChainSeq
<1>2. \A i \in 1..m : IsAdvance(i)' <=> IsAdvance(i)
  BY <1>1 DEF IsAdvance
<1>3. ASSUME NEW n \in Int, n <= m
      PROVE  /\ \A kind : BlocksIn(1, n, kind)' = BlocksIn(1, n, kind)
             /\ Count(n)' = Count(n) /\ EpochAt(n)' = EpochAt(n) /\ Revealed(n)' = Revealed(n)
  <2>1. ASSUME NEW kind
        PROVE  BlocksIn(1, n, kind)' = BlocksIn(1, n, kind)
    BY <1>1, <1>3 DEF BlocksIn
  <2>2. \A i \in BlocksIn(1, n, "reveal") : i \in 1..m
    BY <1>1, <1>3 DEF BlocksIn
  <2>3. Revealed(n)' = Revealed(n)
    BY <2>1, <2>2 DEF Revealed, EventsIn
  <2> QED
    BY <2>1, <2>3 DEF Count, EpochAt
<1>4. ASSUME NEW k \in 1..Count(m)
      PROVE  Nth(k)' = Nth(k) /\ chain'[Nth(k)] = chain[Nth(k)]
  <2>1. PICK i : i = Nth(k)
    OBVIOUS
  <2>2. IsAdvance(i) /\ Count(i) = k /\ i \in 1..m
    <3>1. IsAdvance(i) /\ Count(i) = k /\ i <= m
      BY <2>1, NthExists
    <3> QED
      BY <1>1, <3>1 DEF IsAdvance
  <2>3. i \in Int /\ i <= m
    BY <2>2
  <2>4. IsAdvance(i)' /\ Count(i)' = k
    BY <1>2, <1>3, <2>2, <2>3
  <2>5. (ChainSeq => \A j : IsAdvance(j) => Nth(Count(j)) = j)'
    BY NthInverse, PTL
  <2>6. Nth(k)' = i
    BY <2>4, <2>5
  <2> QED
    BY <2>1, <2>2, <2>6
<1>5. ASSUME NEW q \in 0..Count(m)
      PROVE  Applied(q)' = Applied(q)
  <2>1. \A k \in 1..q : k \in 1..Count(m)
    BY CountGrowsByOne
  <2> QED
    BY <1>4, <2>1 DEF Applied
<1> QED
  BY <1>2, <1>3, <1>4, <1>5

\* The advances up to a block are among those up to a later one.
LEMMA CountUpTo ==
  ASSUME ChainSeq, NEW m \in Nat, NEW n \in Int, n <= m
  PROVE  Count(n) \in 0..Count(m)
<1>1. Count(n) \in Nat /\ Count(m) \in Nat
  BY CountGrowsByOne
<1>2. Count(n) <= Count(m)
  BY CountGrowsByOne
<1> QED
  BY <1>1, <1>2

\* ... and the links of the advances in them.
LEMMA SameLinks ==
  ASSUME ChainLinked, ChainSeq, ChainSeq', NEW m \in Nat, m <= Len(chain), m <= Len(chain'),
         \A i \in 1..m : chain'[i] = chain[i], NEW i \in 1..m, IsAdvance(i)
  PROVE  LinkedAt(i)'
<1>1. LinkedAt(i) /\ i - 1 \in Int /\ i - 1 <= m /\ i \in Int /\ i <= m
  BY DEF ChainLinked
<1>2. Count(i)' = Count(i) /\ Count(i - 1)' = Count(i - 1) /\ EpochAt(i - 1)' = EpochAt(i - 1)
  BY <1>1, SameBlocks
<1>3. Count(i - 1) \in 0..Count(m) /\ Count(i) \in 0..Count(m)
  BY <1>1, CountUpTo
<1>4. Applied(Count(i - 1))' = Applied(Count(i - 1)) /\ Applied(Count(i))' = Applied(Count(i))
  <2>1. /\ \A n \in Int : n <= m => Count(n)' = Count(n)
        /\ \A q \in 0..Count(m) : Applied(q)' = Applied(q)
    BY SameBlocks
  <2> QED
    BY <1>2, <1>3, <2>1 DEF Applied
<1> QED
  BY <1>1, <1>2, <1>4 DEF LinkedAt

\* A function on 1..q + 1 is the function on 1..q with a last value appended.
LEMMA AppendedFunction ==
  ASSUME NEW T, NEW q \in Nat, NEW f \in [1..q -> T], NEW g \in [1..q + 1 -> T],
         \A k \in 1..q : g[k] = f[k]
  PROVE  g = Append(f, g[q + 1])
<1>1. g \in Seq(T) /\ Len(g) = q + 1 /\ f \in Seq(T) /\ Len(f) = q /\ g[q + 1] \in T
  OBVIOUS
<1>2. /\ Append(f, g[q + 1]) \in Seq(T) /\ Len(Append(f, g[q + 1])) = q + 1
      /\ \A k \in 1..q + 1 : Append(f, g[q + 1])[k] = g[k]
  BY <1>1
<1> QED
  BY <1>1, <1>2, SeqEqual

\* While no epoch was opened after it, the live root is the state after every
\* advance so far.
LEMMA LiveRootOfAll ==
  ASSUME ChainNumbered, ChainLinked, NEW n \in Int, NEW e \in Int, n <= Len(chain),
         \A i : IsAdvance(i) /\ i <= n => chain[i].event.epoch <= e
  PROVE  LiveRoot(e, n) = Applied(Count(n))
<1>1. PICK m \in 0..Count(n) :
        /\ LiveRoot(e, n) = Applied(m)
        /\ \A i : IsAdvance(i) /\ i <= n => (chain[i].event.epoch <= e <=> Count(i) <= m)
  BY LiveRootIs
<1>2. ChainSeq /\ Count(n) \in Nat
  BY NumberedIsSeq, CountGrowsByOne
<1>3. m = Count(n)
  <2>1. CASE Count(n) = 0
    BY <1>1, <2>1
  <2>2. CASE Count(n) # 0
    <3>1. Count(n) \in 1..Count(n)
      BY <1>2, <2>2
    <3>2. PICK i : IsAdvance(i) /\ Count(i) = Count(n) /\ i <= n
      BY <1>2, <3>1, NthExists
    <3>3. Count(i) <= m
      BY <1>1, <3>2
    <3> QED
      BY <1>1, <1>2, <3>2, <3>3
  <2> QED
    BY <2>1, <2>2
<1> QED
  BY <1>1, <1>3

LEMMA MineLinks ==
  ASSUME ChainNumbered, ChainLinked, NEW kind, NEW event,
         chain' = Append(chain, [kind |-> kind, event |-> event]),
         kind = "advance" =>
           /\ event.epoch = EpochAt(Len(chain))
           /\ event.parent = LiveRoot(EpochAt(Len(chain)), Len(chain))
           /\ event.new = Append(event.parent, event.payload)
           /\ event.report \in Reports
  PROVE  ChainLinked'
<1> DEFINE block == [kind |-> kind, event |-> event]
<1>0. PICK n : n = Len(chain)
  OBVIOUS
<1>1. PICK S : chain \in Seq(S)
  BY DEF ChainNumbered
<1>2. chain \in Seq(S \cup {block}) /\ block \in S \cup {block}
  BY <1>1
<1>3. /\ ChainSeq' /\ DOMAIN chain' = 1..n + 1 /\ Len(chain') = n + 1 /\ n \in Nat
      /\ chain'[n + 1] = block /\ \A i \in 1..n : chain'[i] = chain[i]
  <2>1. chain' \in Seq(S \cup {block}) /\ Len(chain') = n + 1 /\ n \in Nat
    BY <1>0, <1>2
  <2>2. chain'[n + 1] = block /\ \A i \in 1..n : chain'[i] = chain[i]
    BY <1>0, <1>2
  <2> QED
    BY <2>1, <2>2 DEF ChainSeq
<1>4. ChainSeq
  BY NumberedIsSeq
<1>5. PICK q : q = Count(n)
  OBVIOUS
<1>6. /\ q \in Nat /\ Count(n)' = q /\ EpochAt(n)' = EpochAt(n) /\ EpochAt(n) \in Nat
      /\ Applied(q)' = Applied(q)
      /\ \A k \in 1..q : chain'[Nth(k)'] = chain[Nth(k)]
  <2>1. q \in Nat /\ EpochAt(n) \in Nat
    <3>1. n \in Int /\ n <= n
      BY <1>3
    <3> QED
      BY <1>4, <1>5, <3>1, CountGrowsByOne, EpochGrows
  <2>2. /\ \A j \in Int : j <= n => Count(j)' = Count(j) /\ EpochAt(j)' = EpochAt(j)
        /\ \A k \in 1..Count(n) : Nth(k)' = Nth(k) /\ chain'[Nth(k)] = chain[Nth(k)]
        /\ \A j \in 0..Count(n) : Applied(j)' = Applied(j)
    <3>1. n \in Nat /\ n <= Len(chain) /\ n <= Len(chain')
      BY <1>0, <1>3
    <3> QED
      BY <1>3, <1>4, <3>1, SameBlocks
  <2>3. n \in Int /\ n <= n /\ Count(n) = q
    BY <1>3, <1>5
  <2>4. Count(n)' = q /\ EpochAt(n)' = EpochAt(n)
    BY <2>2, <2>3
  <2>5. Applied(q)' = Applied(q)
    <3>1. q \in 0..Count(n)
      BY <1>5, <2>1
    <3> QED
      BY <2>2, <3>1
  <2> QED
    BY <1>5, <2>1, <2>2, <2>4, <2>5
<1>7. ASSUME NEW i, IsAdvance(i)'
      PROVE  LinkedAt(i)'
  <2>1. i \in 1..n + 1 /\ chain'[i].kind = "advance"
    BY <1>3, <1>7 DEF IsAdvance
  <2>2. CASE i # n + 1
    <3>1. i \in 1..n /\ IsAdvance(i)
      BY <1>0, <1>1, <1>3, <2>1, <2>2 DEF IsAdvance
    <3>2. n \in Nat /\ n <= Len(chain) /\ n <= Len(chain')
      BY <1>0, <1>3
    <3> QED
      BY <1>3, <1>4, <3>1, <3>2, SameLinks
  <2>3. CASE i = n + 1
    <3>1. /\ event.epoch = EpochAt(n) /\ event.parent = LiveRoot(EpochAt(n), n)
          /\ event.new = Append(event.parent, event.payload) /\ event.report \in Reports
          /\ chain'[i].event = event
      BY <1>0, <1>3, <2>1, <2>3
    <3>2. \A j : IsAdvance(j) /\ j <= n => chain[j].event.epoch <= EpochAt(n)
      <4> SUFFICES ASSUME NEW j, IsAdvance(j), j <= n
                   PROVE  chain[j].event.epoch <= EpochAt(n)
        OBVIOUS
      <4>1. j \in 1..n
        BY <1>0, <1>1 DEF IsAdvance
      <4>2. chain[j].event.epoch = EpochAt(j - 1)
        BY DEF ChainLinked, LinkedAt
      <4>3. j - 1 \in Int /\ n \in Int /\ j - 1 <= n
        BY <1>3, <4>1
      <4> QED
        BY <1>4, <4>2, <4>3, EpochGrows
    <3>3. event.parent = Applied(q)
      <4>1. n \in Int /\ EpochAt(n) \in Int /\ n <= Len(chain)
        BY <1>0, <1>3, <1>6
      <4> QED
        BY <1>5, <3>1, <3>2, <4>1, LiveRootOfAll
    <3>4. /\ Count(i)' = q + 1 /\ Nth(q + 1)' = i
      <4>1. (ChainSeq => \A j : IsAdvance(j) => Nth(Count(j)) = j)'
        BY NthInverse, PTL
      <4>2. (ChainSeq => \A j : IsAdvance(j) => Count(j) = Count(j - 1) + 1)'
        BY NthFollows, PTL
      <4>3. i - 1 = n
        BY <1>3, <2>3
      <4>4. Count(i)' = Count(i - 1)' + 1
        BY <1>3, <1>7, <4>2
      <4>5. Count(i - 1)' = Count(n)'
        BY <4>3 DEF Count, BlocksIn
      <4>6. Count(i)' = q + 1
        BY <1>6, <4>4, <4>5
      <4> QED
        BY <1>3, <1>7, <4>1, <4>6
    <3>5. event.new = Applied(q + 1)'
      <4>7. PICK f : f = Applied(q)
        OBVIOUS
      <4>8. PICK g : g = [k \in 1..q + 1 |-> chain'[Nth(k)'].event.payload]
        OBVIOUS
      <4>6. q \in Nat
        BY <1>6
      <4>2. \A k \in 1..q : g[k] = f[k]
        <5> SUFFICES ASSUME NEW k \in 1..q
                     PROVE  g[k] = f[k]
          OBVIOUS
        <5>1. k \in 1..q + 1
          BY <4>6
        <5>2. g[k] = chain'[Nth(k)'].event.payload
          BY <4>8, <5>1
        <5>3. f[k] = chain[Nth(k)].event.payload
          BY <4>7 DEF Applied
        <5>4. chain'[Nth(k)'] = chain[Nth(k)]
          BY <1>6
        <5> QED
          BY <5>2, <5>3, <5>4
      <4>3. g[q + 1] = event.payload
        <5>1. q + 1 \in 1..q + 1
          BY <4>6
        <5>2. g[q + 1] = chain'[Nth(q + 1)'].event.payload
          BY <4>8, <5>1
        <5> QED
          BY <3>1, <3>4, <5>2
      <4>4. Applied(q + 1)' = g
        BY <4>8 DEF Applied
      <4>5. g = Append(f, g[q + 1])
        <5> DEFINE T == {g[k] : k \in 1..q + 1}
        <5>1. g \in [1..q + 1 -> T]
          BY <4>8
        <5>2. \A k \in 1..q : f[k] \in T
          BY <4>2, <4>6
        <5> HIDE DEF T
        <5>3. f \in [1..q -> T]
          BY <4>7, <5>2 DEF Applied
        <5> QED
          BY <4>2, <4>6, <5>1, <5>3, AppendedFunction
      <4> QED
        BY <3>1, <3>3, <4>3, <4>4, <4>5, <4>7
    <3>6. /\ EpochAt(i - 1)' = EpochAt(n) /\ Count(i - 1)' = q
      <4>1. i - 1 = n
        BY <1>3, <2>3
      <4> QED
        BY <1>6, <4>1 DEF EpochAt, Count, BlocksIn
    <3>7. Applied(Count(i - 1))' = Applied(q) /\ Applied(Count(i))' = Applied(q + 1)'
      BY <1>6, <3>4, <3>6 DEF Applied
    <3> QED
      BY <3>1, <3>3, <3>5, <3>6, <3>7 DEF LinkedAt
  <2> QED
    BY <2>2, <2>3
<1> QED
  BY <1>7 DEF ChainLinked

\* What is shared by the chain before and after a step: every block up to m, and
\* the confirmed head is one of them.
SharedUpTo(m) ==
  /\ m \in Nat /\ m <= Len(chain) /\ m <= Len(chain')
  /\ \A i \in 1..m : chain'[i] = chain[i]

LEMMA ReorgLinks ==
  ASSUME ChainNumbered, ChainLinked, Reorg
  PROVE  ChainLinked' /\ Len(chain') = Len(chain) /\ \E m : SharedUpTo(m) /\ ConfirmedHead <= m
<1> DEFINE empty == [kind |-> "empty", event |-> "none"]
<1>0. PICK n : n = Len(chain)
  OBVIOUS
<1>1. PICK S : chain \in Seq(S)
  BY DEF ChainNumbered
<1>2. PICK k \in 1..MaxReorg :
        k <= n /\ chain' = [i \in 1..n |-> IF i <= n - k THEN chain[i] ELSE empty]
  BY <1>0 DEF Reorg
<1>3. k \in Nat \ {0} /\ n \in Nat /\ n - k \in Nat /\ n - k <= n
      /\ k <= Depth /\ Depth \in Nat
  BY <1>0, <1>1, <1>2, ClientAssumption
<1>4. chain' \in Seq(S \cup {empty}) /\ Len(chain') = n /\ DOMAIN chain' = 1..n
  BY <1>0, <1>1, <1>2, <1>3
<1>5. ChainSeq /\ ChainSeq'
  BY <1>4, NumberedIsSeq DEF ChainSeq
<1>6. SharedUpTo(n - k)
  BY <1>0, <1>2, <1>3, <1>4 DEF SharedUpTo
<1>7. ConfirmedHead <= n - k
  BY <1>0, <1>3 DEF ConfirmedHead
<1>8. ASSUME NEW i, IsAdvance(i)'
      PROVE  LinkedAt(i)'
  <2>1. i \in 1..n - k /\ IsAdvance(i)
    <3>1. i \in 1..n /\ chain'[i].kind = "advance"
      BY <1>4, <1>8 DEF IsAdvance
    <3>2. i <= n - k
      BY <1>2, <3>1
    <3>3. i \in 1..n - k /\ chain'[i] = chain[i] /\ i \in DOMAIN chain
      BY <1>0, <1>1, <1>2, <1>3, <3>1, <3>2
    <3> QED
      BY <3>1, <3>3 DEF IsAdvance
  <2> QED
    BY <1>5, <1>6, <2>1, SameLinks DEF SharedUpTo
<1> QED
  BY <1>0, <1>4, <1>6, <1>7, <1>8 DEF ChainLinked

LEMMA ChainLinks ==
  ASSUME ChainNumbered, ChainLinked, Chain
  PROVE  /\ ChainLinked' /\ Len(chain) <= Len(chain')
         /\ \E m : SharedUpTo(m) /\ ConfirmedHead <= m
<1> DEFINE Goal == /\ ChainLinked' /\ Len(chain) <= Len(chain')
                   /\ \E m : SharedUpTo(m) /\ ConfirmedHead <= m
<1>0. PICK S : chain \in Seq(S)
  BY DEF ChainNumbered
<1>1. ASSUME NEW kind, NEW event, Mine(kind, event)
      PROVE  Len(chain) <= Len(chain') /\ \E m : SharedUpTo(m) /\ ConfirmedHead <= m
  <2> DEFINE block == [kind |-> kind, event |-> event]
  <2>1. chain \in Seq(S \cup {block}) /\ chain' = Append(chain, block)
    BY <1>0, <1>1 DEF Mine
  <2>2. /\ Len(chain) \in Nat /\ Len(chain') = Len(chain) + 1
        /\ \A i \in 1..Len(chain) : chain'[i] = chain[i]
    BY <2>1
  <2>3. SharedUpTo(Len(chain)) /\ ConfirmedHead <= Len(chain)
    BY <2>2, ClientAssumption DEF SharedUpTo, ConfirmedHead
  <2> QED
    BY <2>2, <2>3
<1>2. ASSUME NEW payload \in Payloads, NEW report \in Reports, Advance(payload, report)
      PROVE  Goal
  <2> DEFINE n == Len(chain)
             e == EpochAt(n)
             event == [epoch |-> e, index |-> TransitionCount(e, n), miner |-> "miner",
                       parent |-> LiveRoot(e, n), new |-> Append(LiveRoot(e, n), payload),
                       payload |-> payload, hash |-> payload, report |-> report,
                       version |-> VersionOf(e), corpus |-> e, frontier |-> e]
  <2>1. PICK ev : ev = event
    OBVIOUS
  <2>2. Mine("advance", ev)
    BY <1>2, <2>1 DEF Advance
  <2>3. /\ ev.epoch = EpochAt(Len(chain))
        /\ ev.parent = LiveRoot(EpochAt(Len(chain)), Len(chain))
        /\ ev.new = Append(ev.parent, ev.payload)
        /\ ev.report \in Reports
    BY <2>1
  <2> HIDE DEF event
  <2>4. chain' = Append(chain, [kind |-> "advance", event |-> ev])
    BY <2>2 DEF Mine
  <2>5. ChainLinked'
    BY <2>3, <2>4, MineLinks
  <2> QED
    BY <1>1, <2>2, <2>5
<1>3. ASSUME NEW kind, NEW event, kind # "advance", Mine(kind, event)
      PROVE  Goal
  <2>1. chain' = Append(chain, [kind |-> kind, event |-> event])
    BY <1>3 DEF Mine
  <2>2. ChainLinked'
    BY <1>3, <2>1, MineLinks
  <2> QED
    BY <1>1, <1>3, <2>2
<1>4. CASE \/ Finalize \/ (\E version \in Versions : Rotate(version)) \/ EmptyBlock
           \/ \E e \in Epochs : Reveal(e)
  <2>1. \E kind, event : kind # "advance" /\ Mine(kind, event)
    BY <1>4, Zenon DEF Finalize, Rotate, Reveal, EmptyBlock
  <2> QED
    BY <1>3, <2>1
<1>5. CASE \E payload \in Payloads, report \in Reports : Advance(payload, report)
  BY <1>2, <1>5, Zenon
<1>6. CASE Reorg
  <2>1. Len(chain) \in Nat
    BY <1>0
  <2> QED
    BY <1>6, <2>1, ReorgLinks
<1> HIDE DEF Goal
<1>7. Goal
  BY <1>4, <1>5, <1>6, Zenon DEF Chain, Goal
<1> QED
  BY <1>7 DEF Goal

(***************************************************************************)
(* The ledger of confirmed advances only grows                             *)
(***************************************************************************)
\* The backlog key of the k-th advance.
KeyAt(k) == EntryKey(EntryOf(chain[Nth(k)].event, 0))

LedgerGrows ==
  /\ ConfirmedHead <= ConfirmedHead'
  /\ Len(Ledger) \in Nat /\ Len(Ledger') \in Nat /\ Len(Ledger) <= Len(Ledger')
  /\ \A k \in 1..Len(Ledger) : Ledger'[k] = Ledger[k] /\ KeyAt(k)' = KeyAt(k)
  /\ Revealed(ConfirmedHead) \subseteq Revealed(ConfirmedHead)'
  /\ \A n \in Int : n <= ConfirmedHead \/ n <= 0 =>
       Count(n)' = Count(n) /\ EpochAt(n)' = EpochAt(n)

LEMMA LedgerLength ==
  ChainSeq => /\ Len(Ledger) = Count(ConfirmedHead) /\ Len(Ledger) \in Nat
              /\ DOMAIN Ledger = 1..Len(Ledger) /\ ConfirmedHead \in Int
              /\ ConfirmedHead <= Len(chain) /\ \E T : Ledger \in Seq(T)
<1> SUFFICES ASSUME ChainSeq
             PROVE  /\ Len(Ledger) = Count(ConfirmedHead) /\ Len(Ledger) \in Nat
                    /\ DOMAIN Ledger = 1..Len(Ledger) /\ ConfirmedHead \in Int
                    /\ ConfirmedHead <= Len(chain) /\ \E T : Ledger \in Seq(T)
  OBVIOUS
<1>1. ConfirmedHead \in Int /\ ConfirmedHead <= Len(chain)
  BY ClientAssumption DEF ConfirmedHead, ChainSeq
<1>2. Count(ConfirmedHead) \in Nat
  BY <1>1, CountGrowsByOne
<1> DEFINE T == {Ledger[k] : k \in 1..Count(ConfirmedHead)}
<1>3. Ledger \in [1..Count(ConfirmedHead) -> T]
  BY DEF Ledger
<1> HIDE DEF T
<1>4. Ledger \in Seq(T) /\ Len(Ledger) = Count(ConfirmedHead)
  BY <1>2, <1>3
<1> QED
  BY <1>1, <1>2, <1>3, <1>4

LEMMA SharedLedger ==
  ASSUME ChainSeq, ChainSeq', Len(chain) <= Len(chain'), NEW m, SharedUpTo(m), ConfirmedHead <= m
  PROVE  LedgerGrows
<1>1. PICK h : h = ConfirmedHead
  OBVIOUS
<1>2. PICK g : g = ConfirmedHead'
  OBVIOUS
<1>3. h \in Int /\ g \in Int /\ h <= g /\ h <= m /\ m \in Int
  <2>1. Len(chain) \in Nat /\ Len(chain') \in Nat
    BY DEF ChainSeq
  <2> QED
    BY <1>1, <1>2, <2>1, ClientAssumption DEF ConfirmedHead, SharedUpTo
<1>4. /\ Count(h)' = Count(h) /\ Revealed(h)' = Revealed(h)
      /\ \A k \in 1..Count(m) : Nth(k)' = Nth(k) /\ chain'[Nth(k)] = chain[Nth(k)]
  BY <1>3, SameBlocks DEF SharedUpTo
<1>5. Count(h) \in Nat /\ Count(m) \in Nat /\ Count(h) <= Count(m)
  BY <1>3, CountGrowsByOne
<1>6. Count(g)' \in Nat /\ Count(h)' <= Count(g)'
  <2>1. (ChainSeq => \A i, j \in Int : i <= j => Count(j) \in Nat /\ Count(i) <= Count(j))'
    BY CountsUp, PTL
  <2> QED
    BY <1>3, <2>1
<1>7. Revealed(h)' \subseteq Revealed(g)'
  <2>1. DOMAIN chain' \subseteq Int
    BY DEF ChainSeq
  <2> QED
    BY <1>3, <2>1 DEF Revealed, EventsIn, BlocksIn
<1>8. Count(ConfirmedHead)' = Count(g)' /\ Revealed(ConfirmedHead)' = Revealed(g)'
  BY <1>2 DEF Count, Revealed, EventsIn, BlocksIn
<1>9. Len(Ledger) = Count(h) /\ Len(Ledger') = Count(g)'
  <2>1. (ChainSeq => Len(Ledger) = Count(ConfirmedHead))'
    BY LedgerLength, PTL
  <2> QED
    BY <1>1, <1>8, <2>1, LedgerLength
<1>10. ASSUME NEW k \in 1..Count(h)
       PROVE  Ledger'[k] = Ledger[k] /\ KeyAt(k)' = KeyAt(k)
  <2>1. k \in 1..Count(m) /\ k \in 1..Count(g)'
    BY <1>4, <1>5, <1>6
  <2>2. Nth(k)' = Nth(k) /\ chain'[Nth(k)] = chain[Nth(k)]
    BY <1>4, <2>1
  <2>3. k \in 1..Count(ConfirmedHead) /\ k \in 1..Count(ConfirmedHead)'
    BY <1>1, <1>8, <2>1
  <2>4. Ledger'[k] = Ledger[k]
    BY <2>2, <2>3 DEF Ledger
  <2> QED
    BY <2>2, <2>4 DEF KeyAt, EntryKey, EntryOf, ReportHash
<1>11. ASSUME NEW n \in Int, n <= h \/ n <= 0
       PROVE  Count(n)' = Count(n) /\ EpochAt(n)' = EpochAt(n)
  <2>1. n <= m
    BY <1>3, <1>11 DEF SharedUpTo
  <2> QED
    BY <2>1, SameBlocks DEF SharedUpTo
<1> QED
  BY <1>1, <1>2, <1>3, <1>4, <1>5, <1>6, <1>7, <1>8, <1>9, <1>10, <1>11 DEF LedgerGrows

LEMMA LedgerStep ==
  ASSUME ChainNumbered, ChainLinked, ChainNumbered', [Next]_vars
  PROVE  /\ ChainLinked' /\ LedgerGrows
         /\ Chain \/ (UNCHANGED chain /\ Ledger' = Ledger
                       /\ Revealed(ConfirmedHead)' = Revealed(ConfirmedHead))
<1>1. ChainSeq /\ ChainSeq'
  BY DEF ChainNumbered, ChainSeq
<1>2. CASE Chain
  <2>1. /\ ChainLinked' /\ Len(chain) <= Len(chain')
        /\ \E m : SharedUpTo(m) /\ ConfirmedHead <= m
    BY <1>2, ChainLinks
  <2> QED
    BY <1>1, <1>2, <2>1, SharedLedger
<1>3. CASE UNCHANGED chain
  <2>1. Len(chain) \in Nat /\ Len(chain) <= Len(chain') /\ Len(chain') <= Len(chain)
    BY <1>1, <1>3 DEF ChainSeq
  <2>2. SharedUpTo(Len(chain)) /\ ConfirmedHead <= Len(chain)
    BY <1>3, <2>1, ClientAssumption DEF SharedUpTo, ConfirmedHead
  <2>3. LedgerGrows
    BY <1>1, <2>1, <2>2, SharedLedger
  <2>4. \A i : IsAdvance(i)' => IsAdvance(i) /\ i \in 1..Len(chain)
    BY <1>1, <1>3 DEF IsAdvance, ChainSeq
  <2>5. ChainLinked'
    BY <1>1, <2>2, <2>4, SameLinks DEF ChainLinked, SharedUpTo
  <2>6. Ledger' = Ledger /\ Revealed(ConfirmedHead)' = Revealed(ConfirmedHead)
    BY <1>3 DEF Ledger, Nth, Count, BlocksIn, ConfirmedHead, Revealed, EventsIn
  <2> QED
    BY <1>3, <2>3, <2>5, <2>6
<1>4. [Next]_vars => Chain \/ UNCHANGED chain
  BY DEF Next, Pass, StartPass, RunPass, EndWithoutCommit, StageAll, CommitFile, EndPass,
     Crash, DeleteStateDir, SetUpAgain, vars
<1> QED
  BY <1>2, <1>3, <1>4

\* A confirmed advance is in the ledger, at the place its parent's length gives.
LEMMA LedgerAt ==
  ASSUME ChainSeq, ChainLinked, NEW i, IsAdvance(i), i <= ConfirmedHead
  PROVE  /\ Count(i) \in 1..Len(Ledger) /\ Nth(Count(i)) = i
         /\ Len(chain[i].event.parent) + 1 = Count(i)
         /\ Ledger[Count(i)] = [patch |-> chain[i].event.payload, epoch |-> chain[i].event.epoch,
                                version |-> chain[i].event.version,
                                honest |-> chain[i].event.report = "honest"]
         /\ chain[i].event.report \in Reports
<1>1. /\ Nth(Count(i)) = i /\ Count(i) \in Nat \ {0} /\ i \in Nat \ {0}
      /\ Count(i) = Count(i - 1) + 1
  BY NthIsUnique
<1>2. ConfirmedHead \in Int /\ Len(Ledger) = Count(ConfirmedHead)
  BY LedgerLength
<1>3. Count(i) <= Count(ConfirmedHead) /\ Count(i - 1) \in Nat /\ Count(ConfirmedHead) \in Nat
  BY <1>1, <1>2, CountGrowsByOne
<1>4. /\ chain[i].event.parent = Applied(Count(i - 1)) /\ chain[i].event.report \in Reports
  BY DEF ChainLinked, LinkedAt
<1>5. Len(Applied(Count(i - 1))) = Count(i - 1)
  BY <1>3, AppliedLength
<1>6. Count(i) \in 1..Count(ConfirmedHead)
  BY <1>1, <1>3
<1>7. Ledger[Count(i)] = [patch |-> chain[i].event.payload, epoch |-> chain[i].event.epoch,
                          version |-> chain[i].event.version,
                          honest |-> chain[i].event.report = "honest"]
  BY <1>1, <1>6 DEF Ledger
<1> QED
  BY <1>1, <1>2, <1>4, <1>5, <1>6, <1>7

\* What a replay replays is a state of the ledger.
LEMMA AppliedIsLedger ==
  ASSUME ChainSeq, NEW m \in 0..Len(Ledger)
  PROVE  Applied(m) = [k \in 1..m |-> Ledger[k].patch]
<1>1. Len(Ledger) = Count(ConfirmedHead) /\ Len(Ledger) \in Nat
  BY LedgerLength
<1>2. \A k \in 1..m : k \in 1..Count(ConfirmedHead)
  BY <1>1
<1>3. \A k \in 1..m : Ledger[k].patch = chain[Nth(k)].event.payload
  BY <1>2 DEF Ledger
<1> QED
  BY <1>3 DEF Applied

(***************************************************************************)
(* What a replay that passes its checks says of its window                 *)
(***************************************************************************)
LEMMA NoLeastException ==
  ASSUME NEW n \in Nat, NEW Exceptions, Exceptions \subseteq 0..n, 0 \notin Exceptions,
         \A m \in 1..n : m - 1 \notin Exceptions => m \notin Exceptions
  PROVE  Exceptions = {}
<1> SUFFICES ASSUME Exceptions # {} PROVE FALSE
  OBVIOUS
<1>1. PICK m \in Exceptions : \A j \in Exceptions : m <= j
  <2>1. Exceptions \in SUBSET Nat
    OBVIOUS
  <2> QED
    BY <2>1, LeastNatural
<1>2. m \in 1..n /\ m - 1 \notin Exceptions
  BY <1>1
<1> QED
  BY <1>1, <1>2

\* The accumulators exist, and each follows from the one before.
LEMMA StepsAre ==
  ASSUME NEW parent, NEW A, NEW pins, Cardinality(A) \in Nat
  PROVE  /\ ReplaySteps(parent, A, pins)[0] = ReplayStart(parent)
         /\ \A m \in 1..Cardinality(A) :
              ReplaySteps(parent, A, pins)[m] =
                ReplayAdvance(ReplaySteps(parent, A, pins)[m - 1], InReplayOrder(A)[m],
                              pins[InReplayOrder(A)[m].epoch])
<1> DEFINE L == Cardinality(A)
           order == InReplayOrder(A)
           First == ReplayStart(parent)
           Step(v, k) == ReplayAdvance(v, order[k], pins[order[k].epoch])
           D == CHOOSE f : f = [k \in 0..L |-> IF k = 0 THEN First ELSE Step(f[k - 1], k)]
<1>1. ReplaySteps(parent, A, pins) = D
  BY DEF ReplaySteps
<1> HIDE DEF First, Step, L
<1>2. L \in Nat
  BY DEF L
<1>3. \E f : f = [k \in 0..L |-> IF k = 0 THEN First ELSE Step(f[k - 1], k)]
  <2> DEFINE Upto(m, f) == f = [k \in 0..m |-> IF k = 0 THEN First ELSE Step(f[k - 1], k)]
             Undefined == {m \in 0..L : ~\E f : Upto(m, f)}
  <2>1. 0 \notin Undefined
    <3> DEFINE f == [k \in 0..0 |-> First]
    <3>1. Upto(0, f)
      OBVIOUS
    <3> QED
      BY <1>2, <3>1
  <2>2. ASSUME NEW m \in 1..L, m - 1 \notin Undefined
        PROVE  m \notin Undefined
    <3>1. PICK f : Upto(m - 1, f)
      BY <1>2, <2>2
    <3> DEFINE g == [k \in 0..m |-> IF k = m THEN Step(f[m - 1], m) ELSE f[k]]
    <3>2. \A k \in 0..m - 1 : f[k] = IF k = 0 THEN First ELSE Step(f[k - 1], k)
      BY <3>1
    <3>3. m \in Nat /\ m # 0 /\ DOMAIN g = 0..m
      BY <1>2
    <3>4. \A k \in 0..m - 1 : g[k] = f[k]
      BY <3>3
    <3>5. g[m] = Step(f[m - 1], m)
      BY <3>3
    <3> HIDE DEF g
    <3>6. \A k \in 0..m : g[k] = IF k = 0 THEN First ELSE Step(g[k - 1], k)
      <4> TAKE k \in 0..m
      <4>1. CASE k = m
        BY <3>3, <3>4, <3>5, <4>1
      <4>2. CASE k \in 1..m - 1
        <5>1. g[k] = f[k] /\ g[k - 1] = f[k - 1]
          BY <3>3, <3>4, <4>2
        <5> QED
          BY <3>2, <3>3, <4>2, <5>1
      <4>3. CASE k = 0
        BY <3>2, <3>3, <3>4, <4>3
      <4> QED
        BY <3>3, <4>1, <4>2, <4>3
    <3>7. g = [k \in 0..m |-> g[k]]
      BY DEF g
    <3>8. Upto(m, g)
      BY <3>6, <3>7
    <3> QED
      BY <3>8
  <2>3. Undefined = {}
    <3>1. Undefined \subseteq 0..L
      OBVIOUS
    <3> HIDE DEF Undefined
    <3> QED
      BY <1>2, <2>1, <2>2, <3>1, NoLeastException
  <2>4. L \notin Undefined
    BY <2>3
  <2> QED
    BY <1>2, <2>4
<1>4. D = [k \in 0..L |-> IF k = 0 THEN First ELSE Step(D[k - 1], k)]
  BY <1>3
<1> HIDE DEF D
<1>5. D[0] = First /\ \A m \in 1..L : D[m] = Step(D[m - 1], m)
  BY <1>2, <1>4
<1> QED
  BY <1>1, <1>5 DEF First, Step, L

\* An advance is applied only on the root it names as its parent.
LEMMA AdvanceOk ==
  ASSUME NEW s, NEW adv, NEW pins, AdvanceVerdict(s, adv, pins) = "ok"
  PROVE  adv.parent = s.root
<1> DEFINE checks ==
      << <<adv.index # ExpectedIndex(s.next, adv.epoch), "OUT_OF_ORDER">>,
         <<PinVerdict(adv, pins) # "ok",    PinVerdict(adv, pins)>>,
         <<adv.parent # s.root,             "STATE_PARENT_MISMATCH">>,
         <<adv.payload = "empty",           "NO_PATCH_BYTES">>,
         <<adv.payload = "descriptor",      "CROSS_LANE_RIG_ADVANCE">>,
         <<adv.hash # adv.payload,          "PATCH_HASH_MISMATCH">>,
         <<adv.payload \in Unappliable,     "APPLY_FAILED">>,
         <<adv.new # Append(s.root, adv.payload), "NEW_ROOT_MISMATCH">> >>
<1>1. Verdict(checks) = "ok"
  BY DEF AdvanceVerdict
<1>2. checks[3][1] <=> adv.parent # s.root
  OBVIOUS
<1>3. DOMAIN checks = 1..8
  OBVIOUS
<1>6. /\ checks[2][1] => checks[2][2] # "ok"
      /\ checks[1][2] # "ok"
      /\ checks[3][2] # "ok" /\ checks[4][2] # "ok" /\ checks[5][2] # "ok"
      /\ checks[6][2] # "ok" /\ checks[7][2] # "ok" /\ checks[8][2] # "ok"
  <2> DEFINE pin == PinVerdict(adv, pins)
  <2> HIDE DEF pin
  <2>1. checks[2] = <<pin # "ok", pin>>
    BY DEF pin
  <2>2. checks[2][1] => checks[2][2] # "ok"
    BY <2>1
  <2>3. /\ checks[1][2] # "ok"
        /\ checks[3][2] # "ok" /\ checks[4][2] # "ok" /\ checks[5][2] # "ok"
        /\ checks[6][2] # "ok" /\ checks[7][2] # "ok" /\ checks[8][2] # "ok"
    OBVIOUS
  <2> QED
    BY <2>2, <2>3
<1>4. \E S : checks \in Seq(S)
  <2>1. checks \in Seq({checks[1], checks[2], checks[3], checks[4], checks[5], checks[6],
                        checks[7], checks[8]})
    OBVIOUS
  <2> QED
    <3> HIDE DEF checks
    <3> QED
      BY <2>1
<1> HIDE DEF checks
<1>7. \A i \in DOMAIN checks : checks[i][1] => checks[i][2] # "ok"
  BY <1>3, <1>6
<1>5. ~checks[3][1]
  BY <1>1, <1>3, <1>4, <1>7, OkRefusesNothing
<1> QED
  BY <1>2, <1>5

\* A replay without a refusal starts on the parent of the first advance and ends
\* at the root the last one names.
LEMMA ReplayLinks ==
  ASSUME NEW parent, NEW A, Cardinality(A) \in Nat, NEW finalized, NEW pins,
         Replay(parent, A, finalized, pins).code = "ok"
  PROVE  LET r == Replay(parent, A, finalized, pins).root
             order == InReplayOrder(A)
         IN  /\ Cardinality(A) = 0 => r = parent
             /\ Cardinality(A) # 0 => /\ order[1].parent = parent
                                      /\ r = order[Cardinality(A)].new
<1>11. /\ ReplaySteps(parent, A, pins)[0] = ReplayStart(parent)
       /\ \A m \in 1..Cardinality(A) :
            ReplaySteps(parent, A, pins)[m] =
              ReplayAdvance(ReplaySteps(parent, A, pins)[m - 1], InReplayOrder(A)[m],
                            pins[InReplayOrder(A)[m].epoch])
  BY StepsAre
<1> DEFINE L == Cardinality(A)
           order == InReplayOrder(A)
           D == ReplaySteps(parent, A, pins)
           Shape(s) == s = [root |-> s.root, next |-> s.next, code |-> s.code,
                            transitions |-> s.transitions]
<1>1. D[0] = ReplayStart(parent)
  BY <1>11
<1>2. \A m \in 1..L : D[m] = ReplayAdvance(D[m - 1], order[m], pins[order[m].epoch])
  BY <1>11, Zenon
<1>3. L \in Nat
  OBVIOUS
<1>4. Replay(parent, A, finalized, pins) =
        IF D[L].code # "ok" \/ finalized = {} THEN D[L]
        ELSE [D[L] EXCEPT !.code = FinalizedVerdict(LastFinalized(finalized),
                                     pins[LastFinalized(finalized).epoch], D[L].root)]
  BY DEF Replay
<1> HIDE DEF D, L, order
\* One advance: a refusal stays, and without one it was applied.
<1>5. ASSUME NEW s, NEW adv, NEW p, Shape(s)
      PROVE  LET t == ReplayAdvance(s, adv, p)
             IN  /\ Shape(t)
                 /\ t.code = "ok" => s.code = "ok" /\ adv.parent = s.root /\ t.root = adv.new
  <2> DEFINE v == AdvanceVerdict(s, adv, p)
             t == ReplayAdvance(s, adv, p)
  <2>1. CASE s.code # "ok"
    BY <1>5, <2>1 DEF ReplayAdvance
  <2>2. CASE s.code = "ok" /\ v # "ok"
    <3>1. t = [s EXCEPT !.code = v]
      BY <2>2 DEF ReplayAdvance
    <3> HIDE DEF v
    <3>2. t = [root |-> s.root, next |-> s.next, code |-> v, transitions |-> s.transitions]
      BY <1>5, <3>1
    <3> HIDE DEF t
    <3>3. Shape(t) /\ t.code # "ok"
      BY <2>2, <3>2
    <3> QED
      BY <3>3 DEF t
  <2>3. CASE s.code = "ok" /\ v = "ok"
    <3>1. t = [root |-> adv.new, next |-> Expecting(s.next, adv.epoch), code |-> "ok",
               transitions |-> s.transitions + 1]
      BY <2>3 DEF ReplayAdvance
    <3>2. adv.parent = s.root
      BY <2>3, AdvanceOk
    <3> HIDE DEF t, v
    <3>3. Shape(t) /\ t.root = adv.new
      BY <3>1
    <3> QED
      BY <2>3, <3>2, <3>3 DEF t
  <2> QED
    BY <2>1, <2>2, <2>3
<1> DEFINE Kept(m) == /\ Shape(D[m])
                      /\ D[m].code = "ok" /\ m # 0 =>
                           order[1].parent = parent /\ D[m].root = order[m].new
           Lost == {m \in 0..L : ~Kept(m)}
<1>6. D[0].root = parent /\ Shape(D[0])
  BY <1>1 DEF ReplayStart
<1>7. ASSUME NEW m \in 1..L, Kept(m - 1)
      PROVE  Kept(m)
  <2>1. /\ Shape(D[m])
        /\ D[m].code = "ok" => /\ D[m - 1].code = "ok"
                               /\ order[m].parent = D[m - 1].root /\ D[m].root = order[m].new
    BY <1>2, <1>5, <1>7
  <2>2. CASE m = 1
    BY <1>6, <2>1, <2>2
  <2>3. CASE m # 1
    <3>1. m - 1 # 0
      BY <1>3, <2>3
    <3> QED
      BY <1>7, <2>1, <3>1
  <2> QED
    BY <2>2, <2>3
<1>8. Kept(L)
  <2>1. Lost \subseteq 0..L /\ 0 \notin Lost
    BY <1>6
  <2>2. \A m \in 1..L : m - 1 \notin Lost => m \notin Lost
    <3> SUFFICES ASSUME NEW m \in 1..L, m - 1 \notin Lost
                 PROVE  m \notin Lost
      OBVIOUS
    <3>1. m - 1 \in 0..L
      BY <1>3
    <3>2. Kept(m - 1)
      BY <3>1
    <3> HIDE DEF Kept
    <3> QED
      BY <1>7, <3>2
  <2> HIDE DEF Lost
  <2>3. Lost = {}
    BY <1>3, <2>1, <2>2, NoLeastException
  <2> QED
    BY <1>3, <2>3 DEF Lost
<1>9. D[L].code = "ok" /\ Replay(parent, A, finalized, pins).root = D[L].root
  <2>1. CASE D[L].code # "ok"
    BY <1>4, <2>1
  <2>2. CASE D[L].code = "ok" /\ finalized = {}
    BY <1>4, <2>2
  <2>3. CASE D[L].code = "ok" /\ finalized # {}
    <3>1. PICK f : f = FinalizedVerdict(LastFinalized(finalized),
                         pins[LastFinalized(finalized).epoch], D[L].root)
      OBVIOUS
    <3>2. Replay(parent, A, finalized, pins) = [D[L] EXCEPT !.code = f]
      BY <1>4, <2>3, <3>1
    <3>3. Shape(D[L])
      BY <1>8
    <3>4. [D[L] EXCEPT !.code = f].root = D[L].root
      BY <3>3
    <3> QED
      BY <2>3, <3>2, <3>4
  <2> QED
    BY <2>1, <2>2, <2>3
<1>10. L = 0 => D[L].root = parent
  BY <1>6
<1> QED
  BY <1>8, <1>9, <1>10 DEF L, order

(***************************************************************************)
(* What a pass whose checks all hold has replayed                          *)
(***************************************************************************)
LEMMA NotBeforeItself ==
  ASSUME ChainNumbered, NEW b, IsAdvance(b)
  PROVE  ~Earlier(chain[b].event, chain[b].event)
<1>1. PICK S : chain \in Seq(S)
  BY DEF ChainNumbered
<1>2. b \in DOMAIN chain /\ chain[b].kind = "advance"
  BY DEF IsAdvance
<1>3. /\ chain[b].event.epoch \in Int
      /\ chain[b].event.index = TransitionCount(chain[b].event.epoch, b - 1)
  BY <1>2 DEF ChainNumbered
<1>4. TransitionCount(chain[b].event.epoch, b - 1) \in Nat
  BY <1>1, CountType
<1> QED
  BY <1>3, <1>4 DEF Earlier

\* The replay order of a window starts and ends with its first and last block.
LEMMA WindowEnds ==
  ASSUME ChainNumbered, ChainLinked, NEW f, NEW h
  PROVE  /\ Cardinality(AdvancesIn(f, h)) \in Nat
         /\ Cardinality(AdvancesIn(f, h)) = 0 =>
              \A i : IsAdvance(i) => ~(f <= i /\ i <= h)
         /\ Cardinality(AdvancesIn(f, h)) # 0 =>
              \E b, c :
                /\ IsAdvance(b) /\ f <= b /\ b <= h
                /\ IsAdvance(c) /\ f <= c /\ c <= h
                /\ \A i : IsAdvance(i) /\ f <= i /\ i <= h => b <= i /\ i <= c
                /\ InReplayOrder(AdvancesIn(f, h))[1] = chain[b].event
                /\ InReplayOrder(AdvancesIn(f, h))[Cardinality(AdvancesIn(f, h))] =
                     chain[c].event
<1> DEFINE A == AdvancesIn(f, h)
           R == {i \in 0..Len(chain) : IsAdvance(i) /\ f <= i /\ i <= h}
           Below(a) == {x \in A : Earlier(x, a)}
<1>1. PICK S : chain \in Seq(S)
  BY DEF ChainNumbered
<1>2. \A i : IsAdvance(i) => i \in 1..Len(chain) /\ i \in 0..Len(chain) /\ i \in Int
  BY <1>1 DEF IsAdvance
<1>3. \A a : a \in A <=> \E i \in R : chain[i].event = a
  BY <1>1, <1>2, AdvanceAt DEF IsAdvance
<1>4. Numbered(A) /\ IsFiniteSet(A) /\ Cardinality(A) \in Nat
  <2>1. Numbered(A)
    BY WindowNumbered
  <2> QED
    BY <2>1, FS_CardinalityType DEF Numbered
<1>5. \A i : IsAdvance(i) /\ f <= i /\ i <= h => i \in R
  BY <1>2
<1>6. Cardinality(A) = 0 <=> A = {}
  BY <1>4, FS_EmptySet
<1> HIDE DEF A
<1>7. CASE Cardinality(A) = 0
  <2>1. R = {}
    BY <1>3, <1>6, <1>7
  <2> QED
    BY <1>4, <1>5, <1>7, <2>1 DEF A
<1>8. CASE Cardinality(A) # 0
  <2>1. R \in SUBSET (0..Len(chain)) /\ Len(chain) \in Nat /\ R # {} /\ R \in SUBSET Nat
    BY <1>1, <1>3, <1>6, <1>8
  <2>2. PICK c \in R : \A j \in R : j <= c
    BY <2>1, GreatestNatural
  <2>3. PICK b \in R : \A j \in R : b <= j
    BY <2>1, LeastNatural
  <2>4. \A i \in R, j \in R : i < j => /\ Earlier(chain[i].event, chain[j].event)
                                       /\ ~Earlier(chain[j].event, chain[i].event)
    BY BlockOrder
  <2>5. \A i \in R : ~Earlier(chain[i].event, chain[i].event)
    BY NotBeforeItself
  <2>6. chain[b].event \in A /\ chain[c].event \in A
    BY <1>3
  <2>7. Below(chain[b].event) = {}
    <3> SUFFICES ASSUME NEW x \in A, Earlier(x, chain[b].event)
                 PROVE  FALSE
      OBVIOUS
    <3>1. PICK i \in R : chain[i].event = x
      BY <1>3
    <3>2. i = b \/ b < i
      BY <2>1, <2>3
    <3> QED
      BY <2>4, <2>5, <3>1, <3>2
  <2>8. Below(chain[c].event) = A \ {chain[c].event}
    <3>1. ASSUME NEW x \in A
          PROVE  Earlier(x, chain[c].event) <=> x # chain[c].event
      <4>1. PICK i \in R : chain[i].event = x
        BY <1>3
      <4>2. i = c \/ i < c
        BY <2>1, <2>2
      <4> QED
        BY <2>4, <2>5, <4>1, <4>2
    <3> QED
      BY <3>1
  <2>9. Cardinality(Below(chain[b].event)) = 0
    BY <2>7, FS_EmptySet
  <2>10. Cardinality(Below(chain[c].event)) = Cardinality(A) - 1
    BY <1>4, <2>6, <2>8, FS_RemoveElement
  <2>11. InReplayOrder(A)[1] = chain[b].event
    <3>1. InReplayOrder(A)[Cardinality(Below(chain[b].event)) + 1] = chain[b].event
      BY <1>4, <2>6, SortedPlace
    <3> QED
      BY <2>9, <3>1
  <2>12. InReplayOrder(A)[Cardinality(A)] = chain[c].event
    <3>1. InReplayOrder(A)[Cardinality(Below(chain[c].event)) + 1] = chain[c].event
      BY <1>4, <2>6, SortedPlace
    <3>2. Cardinality(Below(chain[c].event)) + 1 = Cardinality(A)
      BY <1>4, <2>10
    <3> QED
      BY <3>1, <3>2
  <2>13. \A i : IsAdvance(i) /\ f <= i /\ i <= h => b <= i /\ i <= c
    BY <1>5, <2>2, <2>3
  <2>14. /\ IsAdvance(b) /\ f <= b /\ b <= h
         /\ IsAdvance(c) /\ f <= c /\ c <= h
    OBVIOUS
  <2> HIDE DEF R
  <2> QED
    BY <1>4, <1>8, <2>11, <2>12, <2>13, <2>14 DEF A
<1> QED
  BY <1>7, <1>8

LEMMA FromIsInt ==
  ASSUME pass.opts \in Options, pass.saved # None => pass.saved.cursor \in Int
  PROVE  From(pass).block \in Int
<1> DEFINE cursor == IF SnapshotAvailable(pass) THEN pass.saved.cursor ELSE None
           pin == PassRecovery(pass)
<1>1. cursor # None => cursor \in Int
  BY DEF SnapshotAvailable
<1>2. pin # None => pin.from \in Int
  BY ClientAssumption DEF PassRecovery, RecoveryFor
<1>3. pass.opts.from # None => pass.opts.from \in Int
  BY ClientAssumption
<1>4. From(pass) = FirstBlock(pass.opts.from, cursor, pin, 1)
  BY DEF From
<1> HIDE DEF cursor, pin
<1> QED
  BY <1>1, <1>2, <1>3, <1>4 DEF FirstBlock

LEMMA PassChecks ==
  ASSUME NEW score, PassVerdict(pass, ConfirmedHead, score) = "ok", ConfirmedHead \in Int
  PROVE  /\ 0 <= ConfirmedHead
         /\ Source(pass, ConfirmedHead) # "none"
         /\ Source(pass, ConfirmedHead) = "snapshot" => disk.snapshot = pass.saved.root
         /\ Replayed(pass, ConfirmedHead).code = "ok"
         /\ Replayed(pass, ConfirmedHead).root = LiveRoot(pass.epoch, ConfirmedHead)
         /\ \A e \in ToScore(pass, ConfirmedHead) : AuditVerdict(e, score[e]) = "ok"
<1>1. PICK head : head = ConfirmedHead
  OBVIOUS
<1>2. /\ ContextVerdict(pass, head) = "ok"
      /\ BootstrapVerdict(pass, head) = "ok"
      /\ ReplayVerdict(pass, head, Replayed(pass, head)) = "ok"
      /\ BacklogVerdict(pass, head, score) = "ok"
  BY <1>1 DEF PassVerdict
<1>3. 0 <= head
  BY <1>1, <1>2 DEF ContextVerdict
<1>4. Source(pass, head) # "none" /\ (Source(pass, head) = "snapshot" => disk.snapshot = pass.saved.root)
  <2> DEFINE guard == From(pass).source = "launch-recovery"
             checks ==
               << <<guard /\ PassRecovery(pass).root #
                      (IF PassRecovery(pass).block > Len(chain) THEN Blank
                       ELSE LiveRoot(pass.epoch, PassRecovery(pass).block)), "RECOVERY_GUARD">>,
                  <<Source(pass, head) = "none", "NO_BOOTSTRAP">>,
                  <<Source(pass, head) = "snapshot" /\ disk.snapshot # pass.saved.root,
                    "STATE_DIR_CORRUPT">> >>
  <2>1. Verdict(checks) = "ok"
    BY <1>2 DEF BootstrapVerdict
  <2>2. /\ checks[2][1] <=> Source(pass, head) = "none"
        /\ checks[3][1] <=> (Source(pass, head) = "snapshot" /\ disk.snapshot # pass.saved.root)
    OBVIOUS
  <2>3. DOMAIN checks = 1..3 /\ \A i \in 1..3 : checks[i][2] # "ok"
    OBVIOUS
  <2>4. checks \in Seq({checks[1], checks[2], checks[3]})
    OBVIOUS
  <2> HIDE DEF checks
  <2>5. ~checks[2][1] /\ ~checks[3][1]
    BY <2>1, <2>3, <2>4, OkRefusesNothing
  <2> QED
    BY <2>2, <2>5
<1>5. Replayed(pass, head).code = "ok" /\ Replayed(pass, head).root = LiveRoot(pass.epoch, head)
  <2>1. PICK replay : replay = Replayed(pass, head)
    OBVIOUS
  <2>2. PICK counted : counted = IF Source(pass, head) = "explicit-file" THEN replay.transitions
                                 ELSE Transitions(pass, head)[pass.epoch]
    OBVIOUS
  <2> DEFINE checks ==
        << <<replay.root # LiveRoot(pass.epoch, head), "LIVE_ROOT_MISMATCH">>,
           <<counted # TransitionCount(pass.epoch, head), "TRANSITION_COUNT_MISMATCH">> >>
  <2>3. replay.code = "ok" /\ Verdict(checks) = "ok"
    BY <1>2, <2>1, <2>2 DEF ReplayVerdict
  <2>4. checks[1][1] <=> replay.root # LiveRoot(pass.epoch, head)
    OBVIOUS
  <2>5. DOMAIN checks = 1..2 /\ \A i \in 1..2 : checks[i][2] # "ok"
    OBVIOUS
  <2>6. checks \in Seq({checks[1], checks[2]})
    OBVIOUS
  <2> HIDE DEF checks
  <2>7. ~checks[1][1]
    BY <2>3, <2>5, <2>6, OkRefusesNothing
  <2> QED
    BY <2>1, <2>3, <2>4, <2>7
<1>6. \A e \in ToScore(pass, head) : AuditVerdict(e, score[e]) = "ok"
  BY <1>2 DEF BacklogVerdict
<1> QED
  BY <1>1, <1>3, <1>4, <1>5, <1>6

\* The pass ends on the state after m advances and started on the state after q
\* of them; the window holds exactly the advances between the two.
LEMMA PassReach ==
  ASSUME NEW score, ChainNumbered, ChainLinked,
         PassVerdict(pass, ConfirmedHead, score) = "ok", pass.epoch \in Int, From(pass).block \in Int
  PROVE  \E m \in 0..Len(Ledger) : \E q \in 0..m :
           /\ Replayed(pass, ConfirmedHead).root = Applied(m)
           /\ ParentState(pass, ConfirmedHead) = Applied(q)
           /\ \A i : IsAdvance(i) /\ i <= ConfirmedHead =>
                (chain[i].event.epoch <= pass.epoch <=> Count(i) <= m)
           /\ \A i : IsAdvance(i) /\ From(pass).block <= i /\ i <= ConfirmedHead =>
                Count(i) \in q + 1..m
           /\ \A k \in q + 1..m :
                /\ IsAdvance(Nth(k)) /\ Count(Nth(k)) = k
                /\ From(pass).block <= Nth(k) /\ Nth(k) <= ConfirmedHead
<1>1. PICK h : h = ConfirmedHead
  OBVIOUS
<1>2. PICK f : f = From(pass).block
  OBVIOUS
<1> DEFINE A == AdvancesIn(f, h)
           L == Cardinality(A)
           order == InReplayOrder(A)
           parent == ParentState(pass, h)
           root == Replayed(pass, h).root
<1>3. ChainSeq /\ Len(Ledger) = Count(h) /\ h \in Int /\ h <= Len(chain) /\ Count(h) \in Nat
  <2>1. ChainSeq /\ Len(chain) \in Nat
    BY NumberedIsSeq DEF ChainSeq
  <2>2. h \in Int /\ h <= Len(chain)
    BY <1>1, <2>1, ClientAssumption DEF ConfirmedHead
  <2> QED
    BY <1>1, <2>1, <2>2, LedgerLength, CountGrowsByOne
<1>10. f \in Int
  BY <1>2
<1>4. Replayed(pass, h).code = "ok" /\ root = LiveRoot(pass.epoch, h)
  BY <1>1, <1>3, PassChecks
<1>5. PICK m \in 0..Count(h) :
        /\ LiveRoot(pass.epoch, h) = Applied(m)
        /\ \A i : IsAdvance(i) /\ i <= h => (chain[i].event.epoch <= pass.epoch <=> Count(i) <= m)
  BY <1>3, LiveRootIs
<1>6. L \in Nat
  BY WindowEnds
<1>7. /\ L = 0 => root = parent
      /\ L # 0 => order[1].parent = parent /\ root = order[L].new
  <2> DEFINE epochs == {a.epoch : a \in A}
             pins == [e \in Epochs |-> IF epochs \subseteq {pass.epoch} \/ e \notin epochs
                                       THEN PinsOf(pass.epoch) ELSE PinsOf(e)]
  <2>1. PICK p : p = pins
    OBVIOUS
  <2>2. PICK finalized : finalized = EventsIn(f, h, "finalize")
    OBVIOUS
  <2>3. Replayed(pass, h) = Replay(parent, A, finalized, p)
    BY <1>2, <2>1, <2>2 DEF Replayed, WindowAdvances
  <2> HIDE DEF A, parent
  <2> QED
    BY <1>4, <1>6, <2>3, ReplayLinks
<1>8. CASE L = 0
  <2>1. parent = Applied(m) /\ root = Applied(m)
    BY <1>4, <1>5, <1>7, <1>8
  <2>2. \A i : IsAdvance(i) /\ f <= i /\ i <= h => Count(i) \in m + 1..m
    BY <1>8, WindowEnds
  <2>3. \A k \in m + 1..m : FALSE
    BY <1>3
  <2>4. m \in 0..m /\ m \in 0..Len(Ledger)
    BY <1>3
  <2> QED
    BY <1>1, <1>2, <1>5, <2>1, <2>2, <2>3, <2>4
<1>9. CASE L # 0
  <2>1. PICK b, c :
          /\ IsAdvance(b) /\ f <= b /\ b <= h
          /\ IsAdvance(c) /\ f <= c /\ c <= h
          /\ \A i : IsAdvance(i) /\ f <= i /\ i <= h => b <= i /\ i <= c
          /\ order[1] = chain[b].event /\ order[L] = chain[c].event
    BY <1>9, WindowEnds
  <2>2. \A i : IsAdvance(i) => i \in Int /\ Count(i) \in Nat \ {0} /\ Count(i) = Count(i - 1) + 1
    BY <1>3, NthIsUnique
  <2>3. \A i, j : IsAdvance(i) /\ IsAdvance(j) /\ i <= j => Count(i) <= Count(j)
    <3> SUFFICES ASSUME NEW i, NEW j, IsAdvance(i), IsAdvance(j), i <= j
                 PROVE  Count(i) <= Count(j)
      OBVIOUS
    <3>1. i \in Int /\ j \in Int
      BY <2>2
    <3> QED
      BY <1>3, <3>1, CountGrowsByOne
  <2>4. PICK q : q = Count(b - 1)
    OBVIOUS
  <2>5. q \in Nat /\ Count(b) = q + 1
    <3>1. b - 1 \in Int
      BY <2>1, <2>2
    <3> QED
      BY <1>3, <2>1, <2>2, <2>4, <3>1, CountGrowsByOne
  <2>6. parent = Applied(q) /\ root = Applied(Count(c))
    <3>1. chain[b].event.parent = Applied(q) /\ chain[c].event.new = Applied(Count(c))
      BY <2>1, <2>4 DEF ChainLinked, LinkedAt
    <3> QED
      BY <1>7, <1>9, <2>1, <3>1
  <2>7. m = Count(c)
    <3>1. m \in Nat /\ Count(c) \in Nat /\ Applied(m) = Applied(Count(c))
      BY <1>3, <1>4, <1>5, <2>1, <2>2, <2>6
    <3>2. Len(Applied(m)) = m /\ Len(Applied(Count(c))) = Count(c)
      BY <3>1, AppliedLength
    <3> QED
      BY <3>1, <3>2
  <2>8. q \in 0..m /\ m \in 0..Len(Ledger)
    BY <1>3, <1>5, <2>1, <2>2, <2>3, <2>5, <2>7
  <2>9. ASSUME NEW i, IsAdvance(i), f <= i, i <= h
        PROVE  Count(i) \in q + 1..m
    <3>1. Count(b) <= Count(i) /\ Count(i) <= Count(c)
      BY <2>1, <2>3, <2>9
    <3> QED
      BY <2>2, <2>5, <2>7, <2>9, <3>1
  <2>10. ASSUME NEW k \in q + 1..m
         PROVE  IsAdvance(Nth(k)) /\ Count(Nth(k)) = k /\ f <= Nth(k) /\ Nth(k) <= h
    <3>1. k \in 1..Count(h)
      BY <1>3, <1>5, <2>5
    <3>2. PICK i : i = Nth(k) /\ IsAdvance(i) /\ Count(i) = k /\ i <= h
      BY <1>3, <3>1, NthExists
    <3>3. b <= i
      <4>1. CASE i < b
        <5>1. i \in Int /\ b - 1 \in Int /\ i <= b - 1
          BY <2>1, <2>2, <3>2, <4>1
        <5>2. Count(i) <= Count(b - 1)
          BY <1>3, <5>1, CountGrowsByOne
        <5> QED
          BY <2>4, <2>5, <3>2, <5>2
      <4> QED
        BY <2>1, <2>2, <3>2, <4>1
    <3>4. f <= i
      <4>1. b \in Int /\ i \in Int /\ f <= b
        BY <2>1, <2>2, <3>2
      <4> QED
        BY <1>10, <3>3, <4>1
    <3> QED
      BY <3>2, <3>4
  <2> HIDE DEF parent, root, A, order
  <2> QED
    BY <1>1, <1>2, <1>3, <1>5, <2>6, <2>7, <2>8, <2>9, <2>10 DEF parent, root
<1> QED
  BY <1>6, <1>8, <1>9

(***************************************************************************)
(* A report that passes the audit is honest                                *)
(***************************************************************************)
LEMMA JoinedCodes ==
  ASSUME NEW S, NEW c \in Seq(S), NEW d \in Seq(S),
         \A i \in DOMAIN c : c[i][2] # "ok", \A i \in DOMAIN d : d[i][2] # "ok"
  PROVE  /\ c \o d \in Seq(S)
         /\ \A i \in DOMAIN (c \o d) : (c \o d)[i][2] # "ok"
         /\ \A i \in DOMAIN d : \E j \in DOMAIN (c \o d) : (c \o d)[j] = d[i]
<1> DEFINE q == c \o d
<1>1. /\ q \in Seq(S) /\ Len(q) = Len(c) + Len(d) /\ Len(c) \in Nat /\ Len(d) \in Nat
      /\ \A i \in 1..Len(c) : q[i] = c[i]
      /\ \A i \in 1..Len(d) : q[Len(c) + i] = d[i]
  OBVIOUS
<1>2. DOMAIN q = 1..Len(q) /\ DOMAIN c = 1..Len(c) /\ DOMAIN d = 1..Len(d)
  BY <1>1
<1> HIDE DEF q
<1>3. \A i \in DOMAIN q : q[i][2] # "ok"
  <2> SUFFICES ASSUME NEW i \in DOMAIN q
               PROVE  q[i][2] # "ok"
    OBVIOUS
  <2>1. CASE i \in 1..Len(c)
    BY <1>1, <1>2, <2>1
  <2>2. CASE i \notin 1..Len(c)
    <3>1. i - Len(c) \in 1..Len(d) /\ Len(c) + (i - Len(c)) = i
      BY <1>1, <1>2, <2>2
    <3> QED
      BY <1>1, <1>2, <3>1
  <2> QED
    BY <2>1, <2>2
<1>4. \A i \in DOMAIN d : \E j \in DOMAIN q : q[j] = d[i]
  <2> SUFFICES ASSUME NEW i \in DOMAIN d
               PROVE  \E j \in DOMAIN q : q[j] = d[i]
    OBVIOUS
  <2>1. Len(c) + i \in DOMAIN q /\ q[Len(c) + i] = d[i]
    BY <1>1, <1>2
  <2> QED
    BY <2>1
<1> QED
  BY <1>1, <1>3, <1>4 DEF q

LEMMA JoinedOk ==
  ASSUME NEW S, NEW c \in Seq(S), NEW d \in Seq(S),
         \A i \in DOMAIN c : c[i][2] # "ok", \A i \in DOMAIN d : d[i][2] # "ok",
         Verdict(c \o d) = "ok"
  PROVE  ~Refused(c \o d) /\ \A i \in DOMAIN d : ~d[i][1]
<1> DEFINE q == c \o d
<1>1. /\ q \in Seq(S) /\ \A i \in DOMAIN q : q[i][2] # "ok"
      /\ \A i \in DOMAIN d : \E j \in DOMAIN q : q[j] = d[i]
  BY JoinedCodes
<1>2. Verdict(q) = "ok"
  OBVIOUS
<1> HIDE DEF q
<1>3. \A i \in DOMAIN q : ~q[i][1]
  BY <1>1, <1>2, OkRefusesNothing
<1>4. ~Refused(q) /\ \A i \in DOMAIN d : ~d[i][1]
  BY <1>1, <1>3 DEF Refused
<1> QED
  BY <1>4 DEF q

LEMMA ReportFields ==
  ASSUME NEW adv, NEW secret, NEW received, NEW offset, NEW blockhash, NEW gate, NEW confirm,
         NEW threshold, NEW tolerance
  PROVE  LET a == ReportOf(adv, secret, received, offset, blockhash, gate, confirm, threshold,
                           tolerance)
         IN  /\ a.receipt.gate = gate /\ a.receipt.received = received
             /\ a.context.tolerance = tolerance
<1> DEFINE receipt0 ==
      [epoch |-> adv.epoch, parent |-> adv.parent, miner |-> adv.miner,
       accepted |-> TRUE, gate |-> gate, confirm |-> confirm,
       received |-> received, target |-> received + offset, blockhash |-> blockhash,
       patch |-> adv.payload, dedup |-> DedupKey(adv.parent, adv.payload),
       gateSeed |-> "none", confirmSeed |-> "none"]
<1>1. PICK s : s = EvalSeed("gate", secret, receipt0, adv.corpus, adv.version)
  OBVIOUS
<1>2. PICK t : t = EvalSeed("confirm", secret, receipt0, adv.corpus, adv.version)
  OBVIOUS
<1>3. PICK receipt : receipt = [receipt0 EXCEPT !.gateSeed = s, !.confirmSeed = t]
  OBVIOUS
<1>4. receipt.gate = gate /\ receipt.received = received
  BY <1>3
<1>5. PICK context :
        context = [parent |-> adv.parent, corpus |-> adv.corpus, version |-> adv.version,
                   commit |-> SecretCommit(secret), tolerance |-> tolerance]
  OBVIOUS
<1>6. context.tolerance = tolerance
  BY <1>5
<1>7. PICK a : a = ReportOf(adv, secret, received, offset, blockhash, gate, confirm, threshold,
                            tolerance)
  OBVIOUS
<1>8. a.receipt = receipt /\ a.context = context
  BY <1>1, <1>2, <1>3, <1>5, <1>7 DEF ReportOf
<1> QED
  BY <1>4, <1>6, <1>7, <1>8

\* A report that passes under the scores its own version gives is honest.
LEMMA AuditHonest ==
  ASSUME NEW e, e.artifact[4] \in Reports, AuditVerdict(e, TrueScore) = "ok"
  PROVE  e.artifact[4] = "honest"
<1>1. PICK a : a = Published(e)
  OBVIOUS
<1>2. PICK secret : secret = Secret(e.epoch)
  OBVIOUS
<1>3. PICK hash : hash = Blockhash(a.receipt.target)
  OBVIOUS
<1>4. e.artifact[4] # "withheld" /\ ArtifactVerdict(a, secret, hash, 2, 2) = "ok"
  BY <1>1, <1>2, <1>3 DEF AuditVerdict, TrueScore
<1>5. e.artifact[4] = "forged" =>
        a.receipt.gate = 4 /\ a.receipt.received = 1 /\ a.context.tolerance = 1
  <2> SUFFICES ASSUME e.artifact[4] = "forged"
               PROVE  a.receipt.gate = 4 /\ a.receipt.received = 1 /\ a.context.tolerance = 1
    OBVIOUS
  <2>1. PICK b : b = Blockhash(2)
    OBVIOUS
  <2>2. a = ReportOf(e, secret, 1, 1, b, 4, 4, 2, 1)
    BY <1>1, <1>2, <2>1 DEF Published, TrueScore, Tolerance
  <2> QED
    BY <2>2, ReportFields
<1>6. ReceiptVerdict(a, secret, hash, 2, 2) = "ok"
  <2> DEFINE c == ShapeChecks(a)
             d == << <<ArtifactHash(a) # a.hash,        "EVAL_ARTIFACT_HASH_MISMATCH">>,
                     <<a.report # a.hash,               "EVAL_REPORT_HASH_MISMATCH">>,
                     <<~SeedInputsAgree(a),             "EVAL_ARTIFACT_SEED_INPUTS_MISMATCH">>,
                     <<~a.receipt.accepted,             "EVAL_ARTIFACT_THRESHOLD_VIOLATION">>,
                     <<WorsePack(a.receipt) < a.threshold, "EVAL_ARTIFACT_THRESHOLD_VIOLATION">>,
                     <<SecretCommit(secret) # a.context.commit, "EPOCH_SECRET_COMMIT_MISMATCH">> >>
             S == {c[i] : i \in 1..3} \cup {d[i] : i \in 1..6}
  <2>1. c \in Seq(S) /\ DOMAIN c = 1..3 /\ \A i \in 1..3 : c[i][2] # "ok"
    BY DEF ShapeChecks
  <2>2. DOMAIN d = 1..6 /\ \A i \in 1..6 : d[i][2] # "ok"
    OBVIOUS
  <2>3. d \in Seq(S)
    OBVIOUS
  <2>4. ArtifactVerdict(a, secret, hash, 2, 2) =
          IF Refused(c \o d) THEN Verdict(c \o d) ELSE ReceiptVerdict(a, secret, hash, 2, 2)
    BY DEF ArtifactVerdict
  <2> HIDE DEF c, d, S
  <2>5. ASSUME Refused(c \o d)
        PROVE  FALSE
    <3>1. Verdict(c \o d) = "ok"
      BY <1>4, <2>4, <2>5
    <3> QED
      BY <2>1, <2>2, <2>3, <2>5, <3>1, JoinedOk
  <2> QED
    BY <1>4, <2>4, <2>5
<1>7. CASE e.artifact[4] = "forged"
  <2> DEFINE r == a.receipt
             c == << <<a.patch # r.patch, "PATCH_HASH_MISMATCH">>,
                     <<DedupKey(r.parent, a.patch) # r.dedup, "DEDUP_KEY_MISMATCH">> >>
             seed(which) == EvalSeed(which, secret, r, a.context.corpus, a.context.version)
             d == << <<hash # r.blockhash, "BLOCKHASH_MISMATCH">>,
                     <<seed("gate") # r.gateSeed, "GATE_SEED_MISMATCH">>,
                     <<seed("confirm") # r.confirmSeed, "CONFIRM_SEED_MISMATCH">>,
                     <<Far(r.gate, 2, a.context.tolerance),"GATE_SCORE_BEYOND_TOLERANCE">>,
                     <<Far(r.confirm, 2, a.context.tolerance),"CONFIRM_SCORE_BEYOND_TOLERANCE">> >>
             S == {c[i] : i \in 1..2} \cup {d[i] : i \in 1..5}
  <2>1. Verdict(c \o d) = "ok"
    BY <1>5, <1>6, <1>7 DEF ReceiptVerdict
  <2>2. DOMAIN c = 1..2 /\ \A i \in 1..2 : c[i][2] # "ok"
    OBVIOUS
  <2>3. DOMAIN d = 1..5 /\ \A i \in 1..5 : d[i][2] # "ok"
    OBVIOUS
  <2>4. c \in Seq(S) /\ d \in Seq(S)
    OBVIOUS
  <2>5. d[4][1] <=> Far(r.gate, 2, a.context.tolerance)
    OBVIOUS
  <2>6. Far(r.gate, 2, a.context.tolerance)
    BY <1>5, <1>7 DEF Far
  <2> HIDE DEF c, d, S
  <2>7. ~d[4][1]
    BY <2>1, <2>2, <2>3, <2>4, JoinedOk
  <2> QED
    BY <2>5, <2>6, <2>7
<1> QED
  BY <1>4, <1>7, ClientAssumption

(***************************************************************************)
(* The inductive invariant: the state file, and the state a pass has       *)
(* staged, are on the ledger, and every backlog entry is one of its        *)
(* advances                                                                *)
(***************************************************************************)
PositionOf(entry) == Len(entry.parent) + 1

Traced(entry, n) ==
  PositionOf(entry) \in 1..n /\ EntryKey(entry) = KeyAt(PositionOf(entry)) /\ Named(entry)

OnLedger(root) == \E m \in 0..Len(Ledger) : root = [k \in 1..m |-> Ledger[k].patch]

TrustedState(s) ==
  /\ s # None /\ s.root # None /\ s.cursor \in Int /\ OnLedger(s.root)
  /\ \A e \in s.backlog : Traced(e, Len(s.root))

SettledAt(k) ==
  /\ Ledger[k].epoch \in Revealed(ConfirmedHead)
  /\ Ledger[k].version = bundle => Ledger[k].honest

CoveredAt(k) ==
  \E v \in Vouched :
    /\ k <= Len(v) /\ Len(v) <= Len(Ledger)
    /\ \A j \in 1..Len(v) : v[j] = Ledger[j].patch

OldLen == IF disk.state = None THEN 0 ELSE Len(disk.state.root)

OldOwed == IF disk.state = None THEN {} ELSE {PositionOf(e) : e \in disk.state.backlog}

Owes(s, k) == \E e \in s.backlog : PositionOf(e) = k

\* The next state file: it is not behind the last one, and drops nothing that is
\* neither settled nor vouched for.
Adoptable(s) ==
  /\ TrustedState(s)
  /\ OldLen <= Len(s.root)
  /\ \A k \in OldOwed : Owes(s, k) \/ SettledAt(k)
  /\ \A k \in OldLen + 1..Len(s.root) : Owes(s, k) \/ SettledAt(k) \/ CoveredAt(k)

GoodPass ==
  \E score \in ReplayedScores(pass, ConfirmedHead) : PassVerdict(pass, ConfirmedHead, score) = "ok"

StartedInv ==
  /\ pass.opts \in Options
  /\ pass.epoch \in Nat
  /\ \A k \in 1..OldLen : Ledger[k].epoch <= pass.epoch

StateFile(s) == s # None /\ s = disk.state

\* The i-th file of the pass is the state file s.
StagedState(i, s) ==
  i \in DOMAIN pass.staged /\ pass.staged[i].file = "state" /\ pass.staged[i].value = s

ReplicaInv ==
  /\ ChainLinked
  /\ \A s : StateFile(s) => TrustedState(s)
  /\ pc = "started" => StartedInv
  /\ pc = "committing" =>
       \A i, s : StagedState(i, s) => i = Len(pass.staged) /\ Adoptable(s)

\* What the client stores is never None: a state file, and a state.
NoneIsNoValue ==
  /\ \A root, cursor, transitions, corpus, backlog, verifiedTo, key :
       None # [root |-> root, cursor |-> cursor, transitions |-> transitions,
               corpus |-> corpus, backlog |-> backlog, verifiedTo |-> verifiedTo, key |-> key]
  /\ \A m \in Nat : \A S : \A f \in [1..m -> S] : None # f

(***************************************************************************)
(* What a good pass stages                                                 *)
(***************************************************************************)
LEMMA KeyFields ==
  ASSUME NEW x, NEW k, EntryKey(x) = KeyAt(k)
  PROVE  /\ x.epoch = chain[Nth(k)].event.epoch
         /\ x.artifact[2] = chain[Nth(k)].event.parent
         /\ x.artifact[4] = chain[Nth(k)].event.report
         /\ x.artifact[5] = chain[Nth(k)].event.version
<1>1. PICK a : a = chain[Nth(k)].event
  OBVIOUS
<1>2. <<x.epoch, x.artifact>> =
        <<a.epoch, <<a.epoch, a.parent, a.payload, a.report, a.version>>>>
  BY <1>1 DEF KeyAt, EntryKey, EntryOf, ReportHash
<1>3. x.epoch = a.epoch /\ x.artifact = <<a.epoch, a.parent, a.payload, a.report, a.version>>
  BY <1>2
<1> QED
  BY <1>1, <1>3

LEMMA SameKeySamePlace ==
  ASSUME NEW x, NEW y, EntryKey(x) = EntryKey(y), Named(x), Named(y)
  PROVE  PositionOf(x) = PositionOf(y)
<1>1. x.artifact = y.artifact
  BY DEF EntryKey
<1> QED
  BY <1>1 DEF Named, PositionOf

\* The advances of a window as entries first seen at the cursor.
EntriesOf(incoming, window, cursor) ==
  /\ \A a \in window : EntryOf(a, cursor) \in incoming
  /\ \A e \in incoming : \E a \in window : e = EntryOf(a, cursor)

\* Nothing leaves the backlog when the window joins it.
LEMMA BacklogKeeps ==
  ASSUME NEW backlog, NEW window, NEW cursor,
         NEW incoming, NEW entries, entries = Upsert(backlog, incoming),
         EntriesOf(incoming, window, cursor)
  PROVE  /\ \A x \in backlog : \E y \in entries : EntryKey(y) = EntryKey(x)
         /\ \A a \in window : \E y \in entries : EntryKey(y) = EntryKey(EntryOf(a, 0))
<1> DEFINE old(e) == {o \in backlog : EntryKey(o) = EntryKey(e)}
           merged(e) == IF old(e) = {} THEN e
                        ELSE [e EXCEPT !.block = (CHOOSE o \in old(e) : TRUE).block]
           whole == Upsert(backlog, incoming)
<1>1. whole = {o \in backlog : \A e \in incoming : EntryKey(o) # EntryKey(e)}
              \cup {merged(e) : e \in incoming}
  BY DEF Upsert
<1>2. ASSUME NEW a \in window
      PROVE  /\ merged(EntryOf(a, cursor)) \in whole
             /\ EntryKey(merged(EntryOf(a, cursor))) = EntryKey(EntryOf(a, cursor))
             /\ EntryKey(EntryOf(a, cursor)) = EntryKey(EntryOf(a, 0))
  <2>1. merged(EntryOf(a, cursor)) \in whole
    <3>1. EntryOf(a, cursor) \in incoming
      BY DEF EntriesOf
    <3> HIDE DEF merged, whole
    <3> QED
      BY <1>1, <3>1
  <2>2. EntryKey(EntryOf(a, cursor)) = EntryKey(EntryOf(a, 0))
    BY DEF EntryKey, EntryOf
  <2>3. EntryKey(merged(EntryOf(a, cursor))) = EntryKey(EntryOf(a, cursor))
    <3>1. PICK b : b = (CHOOSE o \in old(EntryOf(a, cursor)) : TRUE).block
      OBVIOUS
    <3>2. PICK e : e = EntryOf(a, cursor)
      OBVIOUS
    <3>3. PICK f : f = [e EXCEPT !.block = b]
      OBVIOUS
    <3>4. f.epoch = e.epoch /\ f.artifact = e.artifact
      BY <3>2, <3>3 DEF EntryOf
    <3>5. merged(e) = e \/ merged(e) = f
      BY <3>1, <3>2, <3>3
    <3> HIDE DEF merged
    <3> QED
      BY <3>2, <3>4, <3>5 DEF EntryKey
  <2> QED
    BY <2>1, <2>2, <2>3
<1>3. ASSUME NEW x \in backlog
      PROVE  \E y \in whole : EntryKey(y) = EntryKey(x)
  <2>1. CASE \A e \in incoming : EntryKey(x) # EntryKey(e)
    <3>1. x \in whole
      BY <1>1, <2>1
    <3> QED
      BY <3>1
  <2>2. CASE \E a \in window : EntryKey(x) = EntryKey(EntryOf(a, cursor))
    <3> HIDE DEF whole, merged
    <3> QED
      BY <1>2, <2>2
  <2> QED
    BY <2>1, <2>2 DEF EntriesOf
<1>4. \A a \in window : \E y \in whole : EntryKey(y) = EntryKey(EntryOf(a, 0))
  <2> HIDE DEF whole, merged
  <2> QED
    BY <1>2
<1> QED
  BY <1>3, <1>4

\* A pass starts from the state file's own state, from a vouched one or from none.
LEMMA ParentCovered ==
  ASSUME NEW score, NEW q \in Nat,
         PassVerdict(pass, ConfirmedHead, score) = "ok", ConfirmedHead \in Int,
         pass.opts \in Options, pass.saved = disk.state, OldLen \in Nat,
         ParentState(pass, ConfirmedHead) = Applied(q)
  PROVE  q <= OldLen \/ Applied(q) \in Vouched
<1>1. PICK h : h = ConfirmedHead
  OBVIOUS
<1>2. /\ Source(pass, h) # "none"
      /\ Source(pass, h) = "snapshot" => disk.snapshot = pass.saved.root
  BY <1>1, PassChecks
<1>3. Len(Applied(q)) = q
  BY AppliedLength
<1>4. PICK parent : parent = ParentState(pass, h)
  OBVIOUS
<1>5. parent = Applied(q)
  BY <1>1, <1>4
<1>6. Source(pass, h) = ParentSource(pass.opts.parent, SnapshotAvailable(pass),
                                     From(pass).source, ParentRoot(pass.epoch, h))
  BY DEF Source
<1>7. CASE Source(pass, h) = "explicit-file"
  <2>1. pass.opts.parent # None
    BY <1>6, <1>7 DEF ParentSource
  <2>2. parent = pass.opts.parent
    BY <1>4, <1>7 DEF ParentState
  <2> QED
    BY <1>5, <2>1, <2>2 DEF Vouched
<1>8. CASE Source(pass, h) = "snapshot"
  <2>1. SnapshotAvailable(pass)
    BY <1>6, <1>8 DEF ParentSource
  <2>2. parent = disk.state.root
    BY <1>2, <1>4, <1>8 DEF ParentState
  <2>3. OldLen = q
    BY <1>3, <1>5, <2>1, <2>2 DEF SnapshotAvailable, OldLen
  <2> QED
    BY <2>3
<1>9. CASE Source(pass, h) = "launch-recovery"
  <2>1. From(pass).source = "launch-recovery"
    BY <1>6, <1>9 DEF ParentSource
  <2>2. PassRecovery(pass) # None
    <3>1. PICK cursor : cursor = IF SnapshotAvailable(pass) THEN pass.saved.cursor ELSE None
      OBVIOUS
    <3>2. From(pass) = FirstBlock(pass.opts.from, cursor, PassRecovery(pass), 1)
      BY <3>1 DEF From
    <3> QED
      BY <2>1, <3>2 DEF FirstBlock
  <2>3. PassRecovery(pass) = Recovery /\ Recovery # None
    BY <2>2 DEF PassRecovery, RecoveryFor
  <2>4. parent = Recovery.root
    BY <1>4, <1>9, <2>3 DEF ParentState
  <2> QED
    BY <1>5, <2>3, <2>4 DEF Vouched
<1>10. CASE Source(pass, h) = "blank-substrate"
  <2>1. parent = <<>>
    BY <1>4, <1>10 DEF ParentState, Blank
  <2>2. q = 0
    BY <1>3, <1>5, <2>1
  <2> QED
    BY <2>2
<1>11. \/ Source(pass, h) = "explicit-file" \/ Source(pass, h) = "snapshot"
       \/ Source(pass, h) = "launch-recovery" \/ Source(pass, h) = "blank-substrate"
  BY <1>2, <1>6 DEF ParentSource
<1> QED
  BY <1>7, <1>8, <1>9, <1>10, <1>11

LEMMA LedgerPlace ==
  ASSUME ChainSeq, ChainLinked, NEW k \in 1..Len(Ledger)
  PROVE  /\ IsAdvance(Nth(k)) /\ Count(Nth(k)) = k /\ Nth(k) <= ConfirmedHead
         /\ k \in Nat /\ Len(Ledger) \in Nat
         /\ Ledger[k].epoch = chain[Nth(k)].event.epoch
         /\ Ledger[k].version = chain[Nth(k)].event.version
         /\ Ledger[k].honest = (chain[Nth(k)].event.report = "honest")
         /\ chain[Nth(k)].event.report \in Reports
         /\ Len(chain[Nth(k)].event.parent) + 1 = k
<1>1. Len(Ledger) = Count(ConfirmedHead) /\ ConfirmedHead \in Int /\ Len(Ledger) \in Nat
  BY LedgerLength
<1>2. ConfirmedHead <= Len(chain)
  BY ClientAssumption DEF ConfirmedHead, ChainSeq
<1>3. PICK i : i = Nth(k)
  OBVIOUS
<1>4. IsAdvance(i) /\ Count(i) = k /\ i <= ConfirmedHead
  <2>1. k \in 1..Count(ConfirmedHead)
    BY <1>1
  <2> QED
    BY <1>1, <1>2, <1>3, <2>1, NthExists
<1>5. /\ Len(chain[i].event.parent) + 1 = k
      /\ Ledger[k] = [patch |-> chain[i].event.payload, epoch |-> chain[i].event.epoch,
                      version |-> chain[i].event.version,
                      honest |-> chain[i].event.report = "honest"]
      /\ chain[i].event.report \in Reports
  BY <1>4, LedgerAt
<1> QED
  BY <1>1, <1>3, <1>4, <1>5

\* What a pass scored is settled: an entry of the installed version was replayed
\* to its own scores.
LEMMA ScoredIsSettled ==
  ASSUME NEW score, score \in ReplayedScores(pass, ConfirmedHead),
         NEW x, x \in ToScore(pass, ConfirmedHead),
         ChainSeq, ChainLinked, Traced(x, Len(Ledger)), AuditVerdict(x, score[x]) = "ok"
  PROVE  SettledAt(PositionOf(x))
<1>1. PICK k : k = PositionOf(x)
  OBVIOUS
<1>2. k \in 1..Len(Ledger) /\ EntryKey(x) = KeyAt(k) /\ x.artifact[5] = x.version
  BY <1>1 DEF Traced, Named
<1>3. /\ Ledger[k].epoch = chain[Nth(k)].event.epoch
      /\ Ledger[k].version = chain[Nth(k)].event.version
      /\ Ledger[k].honest = (chain[Nth(k)].event.report = "honest")
      /\ chain[Nth(k)].event.report \in Reports
  BY <1>2, LedgerPlace
<1>4. /\ x.epoch = chain[Nth(k)].event.epoch
      /\ x.artifact[4] = chain[Nth(k)].event.report
      /\ x.version = chain[Nth(k)].event.version
  BY <1>2, KeyFields
<1>5. ASSUME Ledger[k].version = bundle
      PROVE  Ledger[k].honest
  <2>1. score[x] = TrueScore
    BY <1>3, <1>4, <1>5 DEF ReplayedScores
  <2>2. x.artifact[4] = "honest"
    BY <1>3, <1>4, <2>1, AuditHonest
  <2> QED
    BY <1>3, <1>4, <2>2
<1>6. x.epoch \in Revealed(ConfirmedHead)
  BY DEF ToScore
<1> QED
  BY <1>1, <1>3, <1>4, <1>5, <1>6 DEF SettledAt

\* The k-th advance as an entry of a backlog.
LEMMA PlaceOfKey ==
  ASSUME ChainSeq, ChainLinked, NEW k \in 1..Len(Ledger), NEW x, EntryKey(x) = KeyAt(k), Named(x)
  PROVE  PositionOf(x) = k
<1>1. x.artifact[2] = chain[Nth(k)].event.parent
  BY KeyFields
<1>2. Len(chain[Nth(k)].event.parent) + 1 = k
  BY LedgerPlace
<1> QED
  BY <1>1, <1>2 DEF Named, PositionOf

OldBacklog == IF pass.saved = None THEN {} ELSE pass.saved.backlog

LEMMA OldLenType ==
  ASSUME ChainSeq, disk.state # None => TrustedState(disk.state)
  PROVE  /\ OldLen \in 0..Len(Ledger) /\ Len(Ledger) \in Nat
         /\ disk.state # None => disk.state.root = Applied(OldLen)
<1>1. Len(Ledger) \in Nat
  BY LedgerLength
<1>2. CASE disk.state # None
  <2>1. PICK m \in 0..Len(Ledger) : disk.state.root = [k \in 1..m |-> Ledger[k].patch]
    BY <1>2 DEF TrustedState, OnLedger
  <2>2. disk.state.root = Applied(m)
    BY <2>1, AppliedIsLedger
  <2>3. Len(Applied(m)) = m
    BY AppliedLength
  <2> QED
    BY <1>1, <1>2, <2>2, <2>3 DEF OldLen
<1>3. CASE disk.state = None
  BY <1>1, <1>3 DEF OldLen
<1> QED
  BY <1>2, <1>3

LEMMA PassResult ==
  ASSUME NEW score, ChainNumbered, ChainLinked, disk.state # None => TrustedState(disk.state),
         StartedInv, pass.saved = disk.state, PassVerdict(pass, ConfirmedHead, score) = "ok"
  PROVE  \E m \in 0..Len(Ledger) : \E q \in 0..m :
           /\ Replayed(pass, ConfirmedHead).root = Applied(m)
           /\ OldLen \in 0..m
           /\ q <= OldLen \/ Applied(q) \in Vouched
           /\ \A x \in WholeBacklog(pass, ConfirmedHead) : Traced(x, m)
           /\ \A x \in OldBacklog :
                \E y \in WholeBacklog(pass, ConfirmedHead) : EntryKey(y) = EntryKey(x)
           /\ \A k \in q + 1..m :
                \E y \in WholeBacklog(pass, ConfirmedHead) : EntryKey(y) = KeyAt(k)
           /\ \A i : IsAdvance(i) /\ i <= ConfirmedHead =>
                (chain[i].event.epoch <= pass.epoch <=> Count(i) <= m)
           /\ \A i : IsAdvance(i) /\ From(pass).block <= i /\ i <= ConfirmedHead => Count(i) <= m
<1>1. PICK h : h = ConfirmedHead
  OBVIOUS
<1>2. ChainSeq /\ h \in Int /\ Len(Ledger) \in Nat /\ h <= Len(chain)
  <2>1. ChainSeq /\ Len(chain) \in Nat
    BY NumberedIsSeq DEF ChainSeq
  <2> QED
    BY <1>1, <2>1, LedgerLength, ClientAssumption DEF ConfirmedHead
<1>3. From(pass).block \in Int
  BY FromIsInt DEF StartedInv, TrustedState
<1>14. PICK m \in 0..Len(Ledger) : \E q \in 0..m :
        /\ Replayed(pass, h).root = Applied(m)
        /\ ParentState(pass, h) = Applied(q)
        /\ \A i : IsAdvance(i) /\ i <= h =>
             (chain[i].event.epoch <= pass.epoch <=> Count(i) <= m)
        /\ \A i : IsAdvance(i) /\ From(pass).block <= i /\ i <= h => Count(i) \in q + 1..m
        /\ \A k \in q + 1..m :
             /\ IsAdvance(Nth(k)) /\ Count(Nth(k)) = k
             /\ From(pass).block <= Nth(k) /\ Nth(k) <= h
  <2>1. pass.epoch \in Int
    BY DEF StartedInv
  <2> QED
    BY <1>1, <1>3, <2>1, PassReach
<1>4. PICK q \in 0..m :
        /\ Replayed(pass, h).root = Applied(m)
        /\ ParentState(pass, h) = Applied(q)
        /\ \A i : IsAdvance(i) /\ i <= h =>
             (chain[i].event.epoch <= pass.epoch <=> Count(i) <= m)
        /\ \A i : IsAdvance(i) /\ From(pass).block <= i /\ i <= h => Count(i) \in q + 1..m
        /\ \A k \in q + 1..m :
             /\ IsAdvance(Nth(k)) /\ Count(Nth(k)) = k
             /\ From(pass).block <= Nth(k) /\ Nth(k) <= h
  BY <1>14
<1>5. OldLen \in 0..Len(Ledger)
  BY <1>2, OldLenType
<1>6. OldLen \in 0..m
  <2>1. CASE OldLen = 0
    BY <1>2, <2>1
  <2>2. CASE OldLen # 0
    <3>1. OldLen \in 1..Len(Ledger) /\ OldLen \in 1..OldLen
      BY <1>2, <1>5, <2>2
    <3>2. PICK i : i = Nth(OldLen)
      OBVIOUS
    <3>3. IsAdvance(i) /\ Count(i) = OldLen /\ i <= h /\ Ledger[OldLen].epoch = chain[i].event.epoch
      BY <1>1, <1>2, <3>1, <3>2, LedgerPlace
    <3>4. chain[i].event.epoch <= pass.epoch
      BY <3>1, <3>3 DEF StartedInv
    <3>5. OldLen <= m
      BY <1>4, <3>3, <3>4
    <3> QED
      BY <1>2, <1>5, <3>5
  <2> QED
    BY <2>1, <2>2
<1>7. q <= OldLen \/ Applied(q) \in Vouched
  <2>1. OldLen \in Nat /\ q \in Nat /\ pass.opts \in Options
    BY <1>2, <1>5 DEF StartedInv
  <2> QED
    BY <1>1, <1>2, <1>4, <2>1, ParentCovered
<1> DEFINE window == WindowAdvances(pass, h)
           whole == WholeBacklog(pass, h)
<1>8. whole = Upsert(OldBacklog, {EntryOf(a, NewCursor(pass, h)) : a \in window})
  BY DEF WholeBacklog, Incoming, OldBacklog
<1>9. \A a \in window :
        \E k \in 1..m : EntryKey(EntryOf(a, 0)) = KeyAt(k)
  <2> SUFFICES ASSUME NEW a \in window
               PROVE  \E k \in 1..m : EntryKey(EntryOf(a, 0)) = KeyAt(k)
    OBVIOUS
  <2>1. PICK i \in DOMAIN chain :
          From(pass).block <= i /\ i <= h /\ chain[i].kind = "advance" /\ chain[i].event = a
    BY <1>2, AdvanceAt DEF WindowAdvances, ChainSeq
  <2>2. IsAdvance(i)
    BY <2>1 DEF IsAdvance
  <2>3. Count(i) \in q + 1..m /\ Nth(Count(i)) = i
    BY <1>2, <1>4, <2>1, <2>2, NthIsUnique
  <2>4. Count(i) \in 1..m
    BY <1>2, <2>3
  <2> QED
    BY <2>1, <2>3, <2>4 DEF KeyAt
<1>10. ASSUME NEW x \in whole
       PROVE  Traced(x, m)
  <2>1. CASE x \in OldBacklog
    <3>1. disk.state # None /\ Traced(x, Len(disk.state.root))
      BY <2>1 DEF OldBacklog, TrustedState
    <3>2. Traced(x, OldLen)
      BY <3>1 DEF OldLen
    <3>3. \A j : j \in 1..OldLen => j \in 1..m
      BY <1>2, <1>6
    <3> QED
      BY <3>2, <3>3 DEF Traced
  <2>2. CASE \E a \in window : EntryKey(x) = EntryKey(EntryOf(a, 0)) /\ Named(x)
    <3>1. PICK k \in 1..m : EntryKey(x) = KeyAt(k)
      BY <1>9, <2>2
    <3>2. k \in 1..Len(Ledger)
      BY <1>2
    <3>3. PositionOf(x) = k
      BY <1>2, <2>2, <3>1, <3>2, PlaceOfKey
    <3> QED
      BY <2>2, <3>1, <3>3 DEF Traced
  <2> HIDE DEF whole, window
  <2> QED
    BY <1>8, <1>10, <2>1, <2>2, BacklogOrigin
<1>11. /\ \A x \in OldBacklog : \E y \in whole : EntryKey(y) = EntryKey(x)
       /\ \A a \in window : \E y \in whole : EntryKey(y) = EntryKey(EntryOf(a, 0))
  <2>1. PICK cursor : cursor = NewCursor(pass, h)
    OBVIOUS
  <2>2. PICK incoming : incoming = {EntryOf(a, cursor) : a \in window}
    OBVIOUS
  <2>3. whole = Upsert(OldBacklog, incoming)
    BY <1>8, <2>1, <2>2
  <2> HIDE DEF whole, window
  <2>4. EntriesOf(incoming, window, cursor)
    BY <2>2 DEF EntriesOf
  <2> QED
    BY <2>3, <2>4, BacklogKeeps
<1>12. ASSUME NEW k \in q + 1..m
       PROVE  \E y \in whole : EntryKey(y) = KeyAt(k)
  <2>1. PICK i : i = Nth(k)
    OBVIOUS
  <2>2. IsAdvance(i) /\ From(pass).block <= i /\ i <= h
    BY <1>4, <2>1
  <2>3. chain[i].event \in window
    BY <1>2, <2>2, AdvanceAt DEF WindowAdvances, ChainSeq, IsAdvance
  <2>4. KeyAt(k) = EntryKey(EntryOf(chain[i].event, 0))
    BY <2>1 DEF KeyAt
  <2> HIDE DEF whole, window
  <2> QED
    BY <1>11, <2>3, <2>4
<1>13. \A i : IsAdvance(i) /\ From(pass).block <= i /\ i <= h => Count(i) <= m
  BY <1>2, <1>4
<1> HIDE DEF whole, window
<1> QED
  BY <1>1, <1>4, <1>6, <1>7, <1>10, <1>11, <1>12, <1>13 DEF whole

LEMMA StageAdoptable ==
  ASSUME NEW score, score \in ReplayedScores(pass, ConfirmedHead), NEW s,
         NoneIsNoValue, ChainNumbered, ChainLinked, disk.state # None => TrustedState(disk.state),
         StartedInv, pass.saved = disk.state, PassVerdict(pass, ConfirmedHead, score) = "ok",
         s = NewState(pass, ConfirmedHead,
                      WholeBacklog(pass, ConfirmedHead) \ ToScore(pass, ConfirmedHead))
  PROVE  Adoptable(s)
<1>1. PICK h : h = ConfirmedHead
  OBVIOUS
<1>2. ChainSeq /\ h \in Int /\ Len(Ledger) \in Nat
  <2>1. ChainSeq /\ Len(chain) \in Nat
    BY NumberedIsSeq DEF ChainSeq
  <2> QED
    BY <1>1, <2>1, LedgerLength
<1>3. PICK m \in 0..Len(Ledger) : \E q \in 0..m :
        /\ Replayed(pass, h).root = Applied(m)
        /\ OldLen \in 0..m
        /\ q <= OldLen \/ Applied(q) \in Vouched
        /\ \A x \in WholeBacklog(pass, h) : Traced(x, m)
        /\ \A x \in OldBacklog : \E y \in WholeBacklog(pass, h) : EntryKey(y) = EntryKey(x)
        /\ \A k \in q + 1..m : \E y \in WholeBacklog(pass, h) : EntryKey(y) = KeyAt(k)
  BY <1>1, PassResult
<1>4. PICK q \in 0..m :
        /\ Replayed(pass, h).root = Applied(m)
        /\ OldLen \in 0..m
        /\ q <= OldLen \/ Applied(q) \in Vouched
        /\ \A x \in WholeBacklog(pass, h) : Traced(x, m)
        /\ \A x \in OldBacklog : \E y \in WholeBacklog(pass, h) : EntryKey(y) = EntryKey(x)
        /\ \A k \in q + 1..m : \E y \in WholeBacklog(pass, h) : EntryKey(y) = KeyAt(k)
  BY <1>3
<1>5. PICK whole : whole = WholeBacklog(pass, h)
  OBVIOUS
<1>6. PICK scored : scored = ToScore(pass, h)
  OBVIOUS
<1>7. /\ s # None /\ s.root = Applied(m) /\ s.cursor = NewCursor(pass, h)
      /\ s.backlog = whole \ scored
  <2>1. PICK root : root = Replayed(pass, h).root
    OBVIOUS
  <2>2. PICK cursor : cursor = NewCursor(pass, h)
    OBVIOUS
  <2>3. PICK transitions : transitions = Transitions(pass, h)
    OBVIOUS
  <2>4. PICK verifiedTo : verifiedTo = VerifiedThrough(pass, h, whole \ scored)
    OBVIOUS
  <2>5. PICK corpus : corpus = Delta(pass.epoch).next
    OBVIOUS
  <2>8. PICK backlog : backlog = whole \ scored
    OBVIOUS
  <2>9. PICK key : key = pass.served.key
    OBVIOUS
  <2>6. s = [root |-> root, cursor |-> cursor, transitions |-> transitions, corpus |-> corpus,
             backlog |-> backlog, verifiedTo |-> verifiedTo, key |-> key]
    BY <1>1, <1>5, <1>6, <2>1, <2>2, <2>3, <2>4, <2>5, <2>8, <2>9 DEF NewState
  <2>7. s # None
    BY <2>6 DEF NoneIsNoValue
  <2>10. s.root = root /\ s.cursor = cursor /\ s.backlog = backlog
    BY <2>6
  <2>11. root = Applied(m)
    BY <1>4, <2>1
  <2> QED
    BY <2>2, <2>7, <2>8, <2>10, <2>11
<1>8. m \in Nat /\ Len(s.root) = m
  BY <1>2, <1>7, AppliedLength
<1>9. s.root # None
  <2> DEFINE T == {chain[Nth(k)].event.payload : k \in 1..m}
  <2>1. Applied(m) \in [1..m -> T]
    BY DEF Applied
  <2> HIDE DEF T
  <2> QED
    BY <1>7, <1>8, <2>1 DEF NoneIsNoValue
<1>10. s.cursor \in Int
  <2>1. From(pass).block \in Int
    BY FromIsInt DEF StartedInv, TrustedState
  <2> QED
    BY <1>2, <1>7, <2>1 DEF NewCursor
<1>11. OnLedger(s.root)
  BY <1>2, <1>7, AppliedIsLedger DEF OnLedger
<1>12. TrustedState(s)
  BY <1>4, <1>5, <1>7, <1>8, <1>9, <1>10, <1>11 DEF TrustedState
\* An entry of the whole backlog is owed or settled.
<1>13. ASSUME NEW y \in whole
       PROVE  Owes(s, PositionOf(y)) \/ SettledAt(PositionOf(y))
  <2>1. CASE y \in scored
    <3>1. Traced(y, Len(Ledger))
      BY <1>2, <1>4, <1>5 DEF Traced
    <3>2. AuditVerdict(y, score[y]) = "ok"
      BY <1>1, <1>2, <1>6, <2>1, PassChecks
    <3> QED
      BY <1>1, <1>2, <1>6, <2>1, <3>1, <3>2, ScoredIsSettled
  <2>2. CASE y \notin scored
    BY <1>7, <2>2 DEF Owes
  <2> QED
    BY <2>1, <2>2
<1>14. \A y \in whole : Named(y) /\ Traced(y, m)
  BY <1>4, <1>5 DEF Traced
<1>15. ASSUME NEW k \in OldOwed
       PROVE  Owes(s, k) \/ SettledAt(k)
  <2>1. PICK x \in OldBacklog : Named(x) /\ k = PositionOf(x)
    BY DEF OldOwed, OldBacklog, TrustedState, Traced
  <2>2. PICK y \in whole : EntryKey(y) = EntryKey(x)
    BY <1>4, <1>5
  <2>3. PositionOf(y) = k
    BY <1>14, <2>1, <2>2, SameKeySamePlace
  <2> QED
    BY <1>13, <2>3
<1>16. ASSUME NEW k \in OldLen + 1..m
       PROVE  Owes(s, k) \/ SettledAt(k) \/ CoveredAt(k)
  <2>1. CASE k \in q + 1..m
    <3>1. PICK y \in whole : EntryKey(y) = KeyAt(k)
      BY <1>4, <1>5, <2>1
    <3>2. k \in 1..Len(Ledger)
      BY <1>2, <2>1
    <3>3. PositionOf(y) = k
      BY <1>2, <1>14, <3>1, <3>2, PlaceOfKey
    <3> QED
      BY <1>13, <3>3
  <2>2. CASE k \notin q + 1..m
    <3>1. k <= q /\ ~(q <= OldLen)
      BY <1>2, <1>4, <1>8, <2>2
    <3>2. Applied(q) \in Vouched /\ q \in 0..Len(Ledger) /\ q \in Nat
      BY <1>2, <1>4, <3>1
    <3>3. Len(Applied(q)) = q
      BY <3>2, AppliedLength
    <3>4. Applied(q) = [j \in 1..q |-> Ledger[j].patch]
      BY <1>2, <3>2, AppliedIsLedger
    <3>5. \A j \in 1..q : Applied(q)[j] = Ledger[j].patch
      BY <3>4
    <3> QED
      BY <3>1, <3>2, <3>3, <3>5 DEF CoveredAt
  <2> QED
    BY <2>1, <2>2
<1>17. OldLen <= Len(s.root)
  BY <1>4, <1>8
<1> QED
  BY <1>8, <1>12, <1>15, <1>16, <1>17 DEF Adoptable

(***************************************************************************)
(* What is on the ledger stays on it                                       *)
(***************************************************************************)
LEMMA OnLedgerLength ==
  ASSUME ChainSeq, NEW s, TrustedState(s)
  PROVE  Len(s.root) \in 0..Len(Ledger) /\ s.root = [k \in 1..Len(s.root) |-> Ledger[k].patch]
<1>1. PICK m \in 0..Len(Ledger) : s.root = [k \in 1..m |-> Ledger[k].patch]
  BY DEF TrustedState, OnLedger
<1>2. s.root = Applied(m)
  BY <1>1, AppliedIsLedger
<1>3. m \in Nat
  BY LedgerLength
<1> QED
  BY <1>1, <1>2, <1>3, AppliedLength

LEMMA TrustedStays ==
  ASSUME ChainSeq, LedgerGrows, NEW s, TrustedState(s)
  PROVE  TrustedState(s)'
<1>1. PICK m : m = Len(s.root)
  OBVIOUS
<1>2. m \in 0..Len(Ledger) /\ s.root = [k \in 1..m |-> Ledger[k].patch]
  BY <1>1, OnLedgerLength
<1>3. /\ Len(Ledger) \in Nat /\ Len(Ledger') \in Nat /\ Len(Ledger) <= Len(Ledger')
      /\ \A k \in 1..Len(Ledger) : Ledger'[k] = Ledger[k] /\ KeyAt(k)' = KeyAt(k)
  BY DEF LedgerGrows
<1>4. m \in 0..Len(Ledger') /\ s.root = [k \in 1..m |-> Ledger'[k].patch]
  BY <1>2, <1>3
<1>5. OnLedger(s.root)'
  BY <1>4 DEF OnLedger
<1>6. ASSUME NEW e \in s.backlog
      PROVE  Traced(e, Len(s.root))'
  <2>1. PICK k : k = PositionOf(e)
    OBVIOUS
  <2>2. k \in 1..m /\ EntryKey(e) = KeyAt(k) /\ Named(e)
    BY <1>1, <2>1 DEF TrustedState, Traced
  <2>3. KeyAt(k)' = KeyAt(k)
    BY <1>2, <1>3, <2>2
  <2> QED
    BY <1>1, <2>1, <2>2, <2>3 DEF Traced, EntryKey, Named, PositionOf
<1> QED
  BY <1>5, <1>6 DEF TrustedState

LEMMA SettledStays ==
  ASSUME LedgerGrows, UNCHANGED bundle, NEW k \in 1..Len(Ledger), SettledAt(k)
  PROVE  SettledAt(k)'
BY DEF LedgerGrows, SettledAt

LEMMA CoveredStays ==
  ASSUME LedgerGrows, NEW k, CoveredAt(k)
  PROVE  CoveredAt(k)'
<1>1. PICK v \in Vouched : /\ k <= Len(v) /\ Len(v) <= Len(Ledger)
                           /\ \A j \in 1..Len(v) : v[j] = Ledger[j].patch
  BY DEF CoveredAt
<1>2. \A j \in 1..Len(v) : v[j] = Ledger'[j].patch /\ Len(v) <= Len(Ledger')
  BY <1>1 DEF LedgerGrows
<1>3. 1..Len(v) # {} => Len(v) <= Len(Ledger')
  BY <1>2
<1>4. v \in Vouched'
  BY DEF Vouched
<1> QED
  BY <1>1, <1>2, <1>4 DEF CoveredAt, LedgerGrows

LEMMA AdoptableStays ==
  ASSUME ChainSeq, LedgerGrows, UNCHANGED bundle, NEW s, Adoptable(s), disk'.state = disk.state,
         disk.state # None => TrustedState(disk.state)
  PROVE  Adoptable(s)'
<1>1. PICK n : n = OldLen
  OBVIOUS
<1>2. PICK m : m = Len(s.root)
  OBVIOUS
<1>3. TrustedState(s) /\ n <= m
  BY <1>1, <1>2 DEF Adoptable
<1>4. m \in 0..Len(Ledger) /\ n \in 0..Len(Ledger) /\ Len(Ledger) \in Nat
  BY <1>1, <1>2, <1>3, OnLedgerLength, OldLenType
<1>5. TrustedState(s)'
  BY <1>3, TrustedStays
<1>6. OldLen' = n /\ OldOwed' = OldOwed
  BY <1>1 DEF OldLen, OldOwed, PositionOf
<1>7. \A k : Owes(s, k)' <=> Owes(s, k)
  BY DEF Owes, PositionOf
<1>8. \A k \in OldOwed : k \in 1..Len(Ledger)
  <2> SUFFICES ASSUME NEW k \in OldOwed
               PROVE  k \in 1..Len(Ledger)
    OBVIOUS
  <2>1. PICK e \in disk.state.backlog : disk.state # None /\ k = PositionOf(e)
    BY DEF OldOwed
  <2>2. k \in 1..Len(disk.state.root)
    BY <2>1 DEF TrustedState, Traced
  <2>3. k \in 1..n
    BY <1>1, <2>1, <2>2 DEF OldLen
  <2> QED
    BY <1>4, <2>3
<1>9. \A k \in OldOwed : Owes(s, k)' \/ SettledAt(k)'
  BY <1>7, <1>8, SettledStays DEF Adoptable
<1>10. ASSUME NEW k \in n + 1..m
       PROVE  Owes(s, k)' \/ SettledAt(k)' \/ CoveredAt(k)'
  <2>1. k \in 1..Len(Ledger)
    BY <1>4
  <2>2. Owes(s, k) \/ SettledAt(k) \/ CoveredAt(k)
    BY <1>1, <1>2 DEF Adoptable
  <2> QED
    BY <1>7, <2>1, <2>2, SettledStays, CoveredStays
<1> QED
  BY <1>2, <1>3, <1>5, <1>6, <1>9, <1>10 DEF Adoptable

(***************************************************************************)
(* The steps of a pass                                                     *)
(***************************************************************************)
\* The state file is staged last, and it is the only one.
LEMMA StagedLast ==
  ASSUME ChainNumbered, NEW backlog, NEW i \in DOMAIN StagedWrites(pass, ConfirmedHead, backlog),
         StagedWrites(pass, ConfirmedHead, backlog)[i].file = "state"
  PROVE  /\ i = Len(StagedWrites(pass, ConfirmedHead, backlog))
         /\ StagedWrites(pass, ConfirmedHead, backlog)[i].value =
              NewState(pass, ConfirmedHead, backlog)
<1> DEFINE head == ConfirmedHead
           A == WindowAdvances(pass, head)
           pins == PinWrites(pass)
           parents == ParentWrites(pass, head)
           pinWrite == Write("pin", None, pass.served.key)
           snapWrite == Write("snapshot", None, Replayed(pass, head).root)
           stateWrite == Write("state", None, NewState(pass, head, backlog))
           q == StagedWrites(pass, head, backlog)
           r == pins \o <<snapWrite>> \o parents \o <<stateWrite>>
           W == {pinWrite, snapWrite, stateWrite} \cup {parents[k] : k \in DOMAIN parents}
<1>1. Cardinality(A) \in Nat
  <2>1. Numbered(A)
    BY WindowNumbered DEF WindowAdvances
  <2> QED
    BY <2>1, FS_CardinalityType DEF Numbered
<1>2. /\ DOMAIN parents = 1..Cardinality(A)
      /\ \A k \in 1..Cardinality(A) : parents[k].file = "parent"
  BY DEF Window, InReplayOrder, ParentWrites, Write
<1>3. parents \in Seq(W) /\ Len(parents) = Cardinality(A)
  <2>1. parents = [k \in 1..Cardinality(A) |-> parents[k]]
    BY <1>2 DEF ParentWrites
  <2>2. \A k \in 1..Cardinality(A) : parents[k] \in W
    BY <1>2
  <2> HIDE DEF parents, W
  <2> QED
    BY <1>1, <2>1, <2>2
<1>4. pins \in Seq(W) /\ Len(pins) \in Nat /\ \A k \in 1..Len(pins) : pins[k] = pinWrite
  <2>1. pinWrite \in W
    OBVIOUS
  <2>2. pins = IF disk.pin = None THEN <<pinWrite>> ELSE <<>>
    BY DEF PinWrites
  <2> HIDE DEF pins, pinWrite, W
  <2> QED
    BY <2>1, <2>2
<1>5. /\ snapWrite \in W /\ stateWrite \in W
      /\ pinWrite.file = "pin" /\ snapWrite.file = "snapshot"
      /\ stateWrite.value = NewState(pass, head, backlog)
  BY DEF Write
<1> HIDE DEF parents, pins, W, snapWrite, stateWrite, pinWrite
<1>6. q = r
  BY DEF StagedWrites, pins, parents, snapWrite, stateWrite
<1>7. Joins(W, r, pins, snapWrite, parents, stateWrite)
  BY <1>3, <1>4, <1>5, Concatenated, Zenon
<1> HIDE DEF r
<1>8. /\ q \in Seq(W)
      /\ Len(pins) \in Nat /\ Len(parents) \in Nat /\ Len(q) = Len(pins) + Len(parents) + 2
      /\ \A k \in 1..Len(pins) : q[k] = pins[k]
      /\ q[Len(pins) + 1] = snapWrite
      /\ \A k \in 1..Len(parents) : q[Len(pins) + 1 + k] = parents[k]
      /\ q[Len(pins) + Len(parents) + 2] = stateWrite
  BY <1>6, <1>7 DEF Joins
<1>9. i \in DOMAIN q /\ q[i].file = "state"
  OBVIOUS
<1> HIDE DEF q
<1>10. i \in 1..Len(q) /\ Len(parents) = Cardinality(A)
  BY <1>3, <1>8, <1>9
<1>11. i = Len(q)
  <2>1. CASE i \in 1..Len(pins)
    BY <1>4, <1>5, <1>8, <1>9, <2>1
  <2>2. CASE i = Len(pins) + 1
    BY <1>5, <1>8, <1>9, <2>2
  <2>3. CASE i \in Len(pins) + 2..Len(pins) + Len(parents) + 1
    <3>1. i - Len(pins) - 1 \in 1..Len(parents) /\ Len(pins) + 1 + (i - Len(pins) - 1) = i
      <4>1. PICK a \in Nat, b \in Nat : a = Len(pins) /\ b = Len(parents)
        BY <1>8
      <4>2. i \in a + 2..a + b + 1
        BY <2>3, <4>1
      <4>3. i - a - 1 \in 1..b /\ a + 1 + (i - a - 1) = i
        BY <4>2
      <4> QED
        BY <4>1, <4>3
    <3>2. q[i] = parents[i - Len(pins) - 1]
      BY <1>8, <3>1
    <3> QED
      BY <1>2, <1>9, <1>10, <3>1, <3>2
  <2> QED
    BY <1>8, <1>10, <2>1, <2>2, <2>3
<1>12. q[i].value = NewState(pass, head, backlog)
  BY <1>5, <1>8, <1>11
<1> QED
  BY <1>11, <1>12 DEF q

\* The state file changes when a staged one is renamed into its place, and when
\* the operator deletes the directory.
LEMMA StateFileSteps ==
  ASSUME DirInv, PassInv, [Next]_vars
  PROVE  \/ disk'.state = disk.state
         \/ CommitFile /\ \A s : s = disk'.state => StagedState(1, s)
         \/ DeleteStateDir /\ disk'.state = None
<1>1. CASE Chain \/ StartPass \/ RunPass \/ Crash \/ SetUpAgain \/ UNCHANGED vars
  <2>1. UNCHANGED disk
    BY <1>1 DEF Chain, Advance, Finalize, Rotate, Reveal, EmptyBlock, Mine, Reorg, StartPass,
       RunPass, EndWithoutCommit, StageAll, Crash, SetUpAgain, vars
  <2> QED
    BY <2>1
<1>2. CASE CommitFile
  <2>1. PICK w : w = pass.staged[1]
    OBVIOUS
  <2>2. PICK W : pass.staged \in Seq(W) /\ pass.staged # <<>>
    BY <1>2 DEF CommitFile, PassInv, StagedInv
  <2>3. Head(pass.staged) = w /\ 1 \in DOMAIN pass.staged
    BY <2>1, <2>2, Shifted
  <2>4. disk' = Renamed(disk, w)
    BY <1>2, <2>3 DEF CommitFile
  <2>5. w.file \in {"pin", "snapshot", "parent", "state"}
    BY <1>2, <2>1, <2>3 DEF CommitFile, PassInv, StagedInv
  <2>6. CASE w.file = "state"
    <3>1. disk' = [disk EXCEPT !.state = w.value]
      BY <2>4, <2>6 DEF Renamed
    <3>2. disk'.state = w.value
      BY <3>1 DEF DirInv
    <3> QED
      BY <1>2, <2>1, <2>3, <2>6, <3>2 DEF StagedState
  <2>7. CASE w.file = "pin"
    <3>1. disk' = [disk EXCEPT !.pin = w.value]
      BY <2>4, <2>7 DEF Renamed
    <3>2. disk'.state = disk.state
      BY <3>1 DEF DirInv
    <3> QED
      BY <3>2
  <2>8. CASE w.file = "snapshot"
    <3>1. disk' = [disk EXCEPT !.snapshot = w.value]
      BY <2>4, <2>8 DEF Renamed
    <3>2. disk'.state = disk.state
      BY <3>1 DEF DirInv
    <3> QED
      BY <3>2
  <2>9. CASE w.file = "parent"
    <3>1. PICK p : p = [k \in DOMAIN disk.parents \cup {w.at} |->
                          IF k = w.at THEN w.value ELSE disk.parents[k]]
      OBVIOUS
    <3>2. disk' = [disk EXCEPT !.parents = p]
      BY <2>4, <2>9, <3>1 DEF Renamed
    <3>3. disk'.state = disk.state
      BY <3>2 DEF DirInv
    <3> QED
      BY <3>3
  <2> QED
    BY <2>5, <2>6, <2>7, <2>8, <2>9
<1>3. CASE EndPass
  <2>1. PICK p : p = Collected(disk.parents, pass.backlog)
    OBVIOUS
  <2>2. disk' = [disk EXCEPT !.parents = p]
    BY <1>3, <2>1 DEF EndPass
  <2>3. disk'.state = disk.state
    BY <2>2 DEF DirInv
  <2> QED
    BY <2>3
<1>4. CASE DeleteStateDir
  BY <1>4 DEF DeleteStateDir, EmptyDir
<1> QED
  BY <1>1, <1>2, <1>3, <1>4 DEF Next, Pass

LEMMA ReplicaStep ==
  ASSUME NoneIsNoValue, SyncInv, SyncInv', ReplicaInv, [Next]_vars
  PROVE  ReplicaInv'
<1>1. ChainNumbered /\ ChainNumbered' /\ ChainSeq /\ ChainSeq' /\ ChainLinked /\ DirInv /\ PassInv
  BY NumberedIsSeq DEF SyncInv, ReplicaInv, ChainNumbered, ChainSeq
<1>2. /\ ChainLinked' /\ LedgerGrows
      /\ Chain \/ UNCHANGED chain
  BY <1>1, LedgerStep
<1>3. disk.state # None => TrustedState(disk.state)
  <2>1. PICK s : s = disk.state
    OBVIOUS
  <2> QED
    BY <2>1 DEF ReplicaInv, StateFile
<1>4. /\ Len(Ledger) \in Nat /\ OldLen \in 0..Len(Ledger)
      /\ \A k \in 1..Len(Ledger) : Ledger'[k] = Ledger[k]
  BY <1>1, <1>2, <1>3, OldLenType DEF LedgerGrows
<1>5. ASSUME disk'.state = disk.state
      PROVE  \A s : StateFile(s)' => TrustedState(s)'
  BY <1>1, <1>2, <1>5, TrustedStays DEF ReplicaInv, StateFile
<1>6. CASE UNCHANGED <<disk, pc, pass>> /\ (pc = "committing" => UNCHANGED bundle)
  <2>1. \A s : StateFile(s)' => TrustedState(s)'
    BY <1>5, <1>6
  <2>2. pc' = "started" => StartedInv'
    <3>1. OldLen' = OldLen
      BY <1>6 DEF OldLen
    <3>2. \A k \in 1..OldLen : Ledger'[k] = Ledger[k]
      BY <1>4
    <3> QED
      BY <1>6, <3>1, <3>2 DEF ReplicaInv, StartedInv
  <2>3. ASSUME pc' = "committing", NEW i, NEW s, StagedState(i, s)'
        PROVE  i = Len(pass.staged)' /\ Adoptable(s)'
    <3>1. i = Len(pass.staged) /\ Adoptable(s)
      BY <1>6, <2>3 DEF ReplicaInv, StagedState
    <3> QED
      BY <1>1, <1>2, <1>3, <1>6, <2>3, <3>1, AdoptableStays
  <2> QED
    BY <1>2, <2>1, <2>2, <2>3 DEF ReplicaInv
<1>7. CASE StartPass
  <2>1. PICK opts \in Options, served \in Served :
          /\ pc' = "started" /\ UNCHANGED <<chain, disk>>
          /\ pass' = [opts |-> opts, served |-> served, saved |-> disk.state,
                      epoch |-> EpochAt(Len(chain)), staged |-> <<>>, backlog |-> {},
                      passed |-> {}]
    BY <1>7 DEF StartPass
  <2>2. PICK e : e = EpochAt(Len(chain))
    OBVIOUS
  <2>3. pass'.opts \in Options /\ pass'.epoch = e
    BY <2>1, <2>2
  <2>4. Len(chain) \in Int /\ e \in Nat
    <3>1. Len(chain) \in Int
      BY <1>1 DEF ChainSeq
    <3> QED
      BY <1>1, <2>2, <3>1, EpochGrows
  <2>5. ASSUME NEW k \in 1..OldLen
        PROVE  Ledger'[k].epoch <= e
    <3>1. k \in 1..Len(Ledger)
      BY <1>4
    <3>2. PICK i : i = Nth(k) /\ IsAdvance(i) /\ Ledger[k].epoch = chain[i].event.epoch
      BY <1>1, <3>1, LedgerPlace
    <3>3. chain[i].event.epoch = EpochAt(i - 1)
      BY <1>1, <3>2 DEF ChainLinked, LinkedAt
    <3>4. i - 1 \in Int /\ i - 1 <= Len(chain)
      BY <1>1, <3>2 DEF IsAdvance, ChainSeq
    <3>5. EpochAt(i - 1) <= EpochAt(Len(chain))
      BY <1>1, <2>4, <3>4, EpochGrows
    <3> QED
      BY <1>4, <2>2, <3>1, <3>2, <3>3, <3>5
  <2>6. OldLen' = OldLen
    BY <2>1 DEF OldLen
  <2>7. StartedInv'
    BY <2>3, <2>4, <2>5, <2>6 DEF StartedInv
  <2>8. \A s : StateFile(s)' => TrustedState(s)'
    BY <1>5, <2>1
  <2> QED
    BY <1>2, <2>1, <2>7, <2>8 DEF ReplicaInv
<1>8. CASE RunPass
  <2>1. UNCHANGED <<chain, bundle, disk>> /\ pc = "started"
    BY <1>8 DEF RunPass, EndWithoutCommit, StageAll
  <2>2. \A s : StateFile(s)' => TrustedState(s)'
    BY <1>5, <2>1
  <2>3. CASE EndWithoutCommit
    BY <1>2, <2>2, <2>3 DEF EndWithoutCommit, ReplicaInv
  <2>4. CASE StageAll(ConfirmedHead) /\ GoodPass
    <3>1. PICK backlog : backlog = WholeBacklog(pass, ConfirmedHead) \ ToScore(pass, ConfirmedHead)
      OBVIOUS
    <3>2. PICK scored : scored = ToScore(pass, ConfirmedHead)
      OBVIOUS
    <3>3. PICK q : q = StagedWrites(pass, ConfirmedHead, backlog)
      OBVIOUS
    <3>4. /\ pass' = [pass EXCEPT !.staged = q, !.backlog = backlog, !.passed = scored]
          /\ pc' = "committing"
      BY <2>4, <3>1, <3>2, <3>3 DEF StageAll
    <3>5. pass'.staged = q
      <4>1. PassRecord
        BY <1>1, <2>1 DEF PassInv
      <4> QED
        BY <3>4, <4>1 DEF PassRecord
    <3>6. ASSUME NEW i, NEW s, StagedState(i, s)'
          PROVE  i = Len(q) /\ Adoptable(s)'
      <4>1. i \in DOMAIN q /\ q[i].file = "state" /\ q[i].value = s
        BY <3>5, <3>6 DEF StagedState
      <4>2. i = Len(q) /\ s = NewState(pass, ConfirmedHead, backlog)
        BY <1>1, <3>3, <4>1, StagedLast
      <4>3. Adoptable(s)
        <5>1. StartedInv /\ pass.saved = disk.state
          BY <1>1, <2>1 DEF ReplicaInv, PassInv
        <5> QED
          BY <1>1, <1>3, <2>4, <3>1, <4>2, <5>1, StageAdoptable DEF GoodPass
      <4> QED
        BY <1>1, <1>2, <1>3, <2>1, <4>2, <4>3, AdoptableStays
    <3> QED
      BY <1>2, <2>2, <3>4, <3>5, <3>6 DEF ReplicaInv
  <2> QED
    BY <1>8, <2>3, <2>4 DEF RunPass, GoodPass
<1>9. CASE CommitFile
  <2>1. /\ pc = "committing" /\ pc' = pc /\ UNCHANGED <<chain, bundle>> /\ pass.staged # <<>>
        /\ pass' = [pass EXCEPT !.staged = Tail(pass.staged)]
    BY <1>9 DEF CommitFile
  <2>2. PICK W : pass.staged \in Seq(W)
    BY <1>1, <2>1 DEF PassInv, StagedInv
  <2>3. PICK q : q = Tail(pass.staged)
    OBVIOUS
  <2>4. pass'.staged = q
    <3>1. PassRecord /\ pass' = [pass EXCEPT !.staged = q]
      BY <1>1, <2>1, <2>3 DEF PassInv
    <3> QED
      BY <3>1 DEF PassRecord
  <2>5. q \in Seq(W) /\ Len(q) = Len(pass.staged) - 1 /\ Len(pass.staged) \in Nat
    BY <2>1, <2>2, <2>3
  <2>6. ASSUME NEW i, NEW s, StagedState(i, s)'
        PROVE  i \in 1..Len(q) /\ StagedState(i + 1, s)
    <3>1. i \in DOMAIN q /\ q[i].file = "state" /\ q[i].value = s
      BY <2>4, <2>6 DEF StagedState
    <3>2. i + 1 \in DOMAIN pass.staged /\ q[i] = pass.staged[i + 1]
      BY <2>1, <2>2, <2>3, <3>1, Shifted
    <3> QED
      BY <2>5, <3>1, <3>2 DEF StagedState
  <2>7. CASE disk'.state = disk.state
    <3>1. ASSUME NEW i, NEW s, StagedState(i, s)'
          PROVE  i = Len(q) /\ Adoptable(s)'
      <4>1. i + 1 = Len(pass.staged) /\ Adoptable(s) /\ i \in 1..Len(q)
        BY <2>1, <2>6, <3>1 DEF ReplicaInv
      <4>2. i = Len(q)
        BY <2>5, <4>1
      <4> QED
        BY <1>1, <1>2, <1>3, <2>1, <2>7, <4>1, <4>2, AdoptableStays
    <3> QED
      BY <1>2, <1>5, <2>1, <2>4, <2>7, <3>1 DEF ReplicaInv
  <2>8. CASE \A s : s = disk'.state => StagedState(1, s)
    <3>1. PICK t : t = disk'.state
      OBVIOUS
    <3>2. Len(pass.staged) = 1 /\ Adoptable(t)
      BY <2>1, <2>8, <3>1 DEF ReplicaInv
    <3>3. TrustedState(t)'
      BY <1>1, <1>2, <3>2, TrustedStays DEF Adoptable
    <3>4. \A s : StateFile(s)' => TrustedState(s)'
      BY <3>1, <3>3 DEF StateFile
    <3>5. \A i, s : ~StagedState(i, s)'
      <4>1. Len(q) = 0
        BY <2>5, <3>2
      <4> QED
        BY <2>6, <4>1
    <3> QED
      BY <1>2, <2>1, <3>4, <3>5 DEF ReplicaInv
  <2>9. ~DeleteStateDir
    BY <2>1 DEF DeleteStateDir
  <2> QED
    BY <1>1, <2>7, <2>8, <2>9, StateFileSteps
<1>10. CASE EndPass \/ Crash \/ DeleteStateDir
  <2>1. pc' = "idle"
    BY <1>10 DEF EndPass, Crash, DeleteStateDir
  <2>2. \A s : StateFile(s)' => TrustedState(s)'
    <3>1. disk'.state = disk.state \/ disk'.state = None
      <4>1. ~CommitFile
        BY <2>1 DEF CommitFile
      <4> QED
        BY <1>1, <4>1, StateFileSteps
    <3>2. CASE disk'.state = None
      BY <3>2 DEF StateFile
    <3> QED
      BY <1>5, <3>1, <3>2
  <2> QED
    BY <1>2, <2>1, <2>2 DEF ReplicaInv
<1>11. Chain \/ SetUpAgain \/ UNCHANGED vars =>
         UNCHANGED <<disk, pc, pass>> /\ (pc = "committing" => UNCHANGED bundle)
  BY DEF Chain, Advance, Finalize, Rotate, Reveal, EmptyBlock, Mine, Reorg, SetUpAgain, vars
<1> QED
  BY <1>6, <1>7, <1>8, <1>9, <1>10, <1>11 DEF Next, Pass

LEMMA ReplicaInit == Init => ReplicaInv
<1> SUFFICES ASSUME Init
             PROVE  ReplicaInv
  OBVIOUS
<1>1. ChainLinked
  BY DEF Init, ChainLinked, IsAdvance
<1>2. \A s : ~StateFile(s)
  BY DEF Init, EmptyDir, StateFile
<1>3. pc = "idle"
  BY DEF Init
<1> QED
  BY <1>1, <1>2, <1>3 DEF ReplicaInv

LEMMA ReplicaInvariance ==
  ASSUME NoneIsNoValue
  PROVE  Spec => [](SyncInv /\ ReplicaInv)
<1>1. SyncInv /\ SyncInv' /\ ReplicaInv /\ [Next]_vars => ReplicaInv'
  BY ReplicaStep
<1>2. Spec => []SyncInv
  BY SyncInvariance
<1> QED
  BY <1>1, <1>2, ReplicaInit, PTL DEF Spec

(***************************************************************************)
(* The refinement                                                          *)
(***************************************************************************)
Replica == IF disk.state = None THEN None ELSE disk.state.root

\* Renaming the state file adopts the state the pass staged.
LEMMA AdoptedState ==
  ASSUME ChainSeq, disk.state # None => TrustedState(disk.state),
         disk'.state # None, Adoptable(disk'.state),
         UNCHANGED Ledger, UNCHANGED Revealed(ConfirmedHead), UNCHANGED bundle
  PROVE  Trusted!Adopt
<1>1. PICK s : s = disk'.state
  OBVIOUS
<1>2. PICK n : n = Len(s.root)
  OBVIOUS
<1>3. Adoptable(s) /\ TrustedState(s) /\ s # None /\ OldLen <= n
  BY <1>1, <1>2 DEF Adoptable
<1>4. n \in 0..Len(Ledger) /\ s.root = [k \in 1..n |-> Ledger[k].patch] /\ OldLen \in 0..Len(Ledger)
  BY <1>2, <1>3, OnLedgerLength, OldLenType
<1>5. Trusted!Position = OldLen
  BY DEF Trusted!Position, OldLen, TrustedState
<1>6. n \in Trusted!Position..Len(Ledger)
  BY <1>3, <1>4, <1>5, LedgerLength
<1>7. Replica' = [k \in 1..n |-> Ledger[k].patch]
  BY <1>1, <1>3, <1>4 DEF Replica
<1>8. OldOwed' = {PositionOf(e) : e \in s.backlog}
  BY <1>1, <1>3 DEF OldOwed, PositionOf
<1>9. OldOwed' \subseteq OldOwed \cup 1..n
  BY <1>2, <1>3, <1>8 DEF TrustedState, Traced
<1>10. \A k : k \in OldOwed' <=> Owes(s, k)
  BY <1>8 DEF Owes
<1>11. \A k \in OldOwed : k \in OldOwed' \/ SettledAt(k)
  BY <1>3, <1>10 DEF Adoptable
<1>12. \A k \in OldLen + 1..n : k \in OldOwed' \/ SettledAt(k) \/ CoveredAt(k)
  BY <1>2, <1>3, <1>10 DEF Adoptable
<1> QED
  BY <1>5, <1>6, <1>7, <1>9, <1>11, <1>12
  DEF Trusted!Adopt, Trusted!Settled, Trusted!Covered, SettledAt, CoveredAt, Replica, OldOwed,
      PositionOf

LEMMA ReplicaRefines ==
  ASSUME NoneIsNoValue, SyncInv, SyncInv', ReplicaInv, [Next]_vars
  PROVE  [Trusted!Next]_Trusted!vars
<1>1. ChainNumbered /\ ChainNumbered' /\ ChainSeq /\ ChainSeq' /\ ChainLinked /\ DirInv /\ PassInv
  BY NumberedIsSeq DEF SyncInv, ReplicaInv, ChainNumbered, ChainSeq
<1>2. /\ LedgerGrows
      /\ Chain \/ (UNCHANGED chain /\ Ledger' = Ledger
                    /\ Revealed(ConfirmedHead)' = Revealed(ConfirmedHead))
  BY <1>1, LedgerStep
<1>3. disk.state # None => TrustedState(disk.state)
  <2>1. PICK s : s = disk.state
    OBVIOUS
  <2> QED
    BY <2>1 DEF ReplicaInv, StateFile
<1>4. CASE Chain
  <2>1. UNCHANGED <<disk, bundle>>
    BY <1>4 DEF Chain, Advance, Finalize, Rotate, Reveal, EmptyBlock, Mine, Reorg
  <2>2. UNCHANGED <<Replica, OldOwed>>
    BY <2>1 DEF Replica, OldOwed, PositionOf
  <2>3. Len(Ledger) <= Len(Ledger') /\ Ledger = SubSeq(Ledger', 1, Len(Ledger))
    <3>1. PICK S : Ledger \in Seq(S)
      BY <1>1, LedgerLength
    <3>2. PICK T : Ledger' \in Seq(T)
      <4>1. (ChainSeq => \E T : Ledger \in Seq(T))'
        BY LedgerLength, PTL
      <4> QED
        BY <1>1, <4>1
    <3> QED
      BY <1>2, <3>1, <3>2 DEF LedgerGrows
  <2> QED
    BY <1>2, <2>1, <2>2, <2>3
    DEF LedgerGrows, Trusted!Next, Trusted!Confirm, Replica, OldOwed, PositionOf
<1>5. CASE ~Chain
  <2>1. UNCHANGED Ledger /\ UNCHANGED Revealed(ConfirmedHead)
    BY <1>2, <1>5
  <2>2. CASE disk'.state = disk.state
    <3>1. UNCHANGED <<Replica, OldOwed>>
      BY <2>2 DEF Replica, OldOwed, PositionOf
    <3>2. CASE UNCHANGED bundle
      BY <2>1, <3>1, <3>2 DEF Trusted!vars, Replica, OldOwed, PositionOf
    <3>3. CASE bundle' # bundle
      BY <2>1, <3>1, <3>3 DEF Trusted!Next, Trusted!Install, Replica, OldOwed, PositionOf
    <3> QED
      BY <3>2, <3>3
  <2>3. CASE CommitFile /\ \A s : s = disk'.state => StagedState(1, s)
    <3>1. PICK t : t = disk'.state
      OBVIOUS
    <3>2. Adoptable(t)
      BY <2>3, <3>1 DEF ReplicaInv, CommitFile
    <3>3. t # None
      BY <3>2 DEF Adoptable, TrustedState
    <3>4. UNCHANGED bundle
      BY <2>3 DEF CommitFile
    <3>5. Trusted!Adopt
      BY <1>1, <1>3, <2>1, <3>1, <3>2, <3>3, <3>4, AdoptedState
    <3> QED
      BY <3>5 DEF Trusted!Next
  <2>4. CASE DeleteStateDir /\ disk'.state = None
    BY <2>1, <2>4 DEF Trusted!Next, Trusted!Forget, DeleteStateDir
  <2> QED
    BY <1>1, <2>2, <2>3, <2>4, StateFileSteps
<1> QED
  BY <1>4, <1>5

LEMMA ReplicaStart == Init => Trusted!Init
<1> SUFFICES ASSUME Init
             PROVE  Trusted!Init
  OBVIOUS
<1>1. disk.state = None /\ chain = <<>>
  BY DEF Init, EmptyDir
<1>2. Count(ConfirmedHead) = 0 /\ Revealed(ConfirmedHead) = {}
  <2>1. BlocksIn(1, ConfirmedHead, "advance") = {} /\ BlocksIn(1, ConfirmedHead, "reveal") = {}
    BY <1>1 DEF BlocksIn
  <2> QED
    BY <2>1, FS_EmptySet DEF Count, Revealed, EventsIn
<1>3. Ledger = <<>>
  BY <1>2 DEF Ledger
<1> QED
  BY <1>1, <1>2, <1>3 DEF Trusted!Init

\* The client implements TrustedReplica: whatever the chain does, wherever a pass
\* stops and whatever the operator deletes, the state file holds a state of the
\* confirmed registry, it moves forward only, and an advance is dropped from the
\* backlog only once its epoch is revealed, and its report reproduced if it is of
\* the installed version, or when a state the user chose stands for it.
THEOREM ClientImplementsReplica ==
  ASSUME NoneIsNoValue
  PROVE  Spec => ReplicaImplemented
<1>1. SyncInv /\ SyncInv' /\ ReplicaInv /\ [Next]_vars => [Trusted!Next]_Trusted!vars
  BY ReplicaRefines
<1>2. Spec => [](SyncInv /\ ReplicaInv)
  BY ReplicaInvariance
<1> QED
  BY <1>1, <1>2, ReplicaStart, PTL DEF Spec, ReplicaImplemented, Trusted!Spec

(***************************************************************************)
(* What evalVerifiedThroughBlock says                                      *)
(***************************************************************************)
\* The block a pass starts from, when it is the user's or the release's choice,
\* is at most the one after the confirmed head.  A block the client chooses
\* itself always is.
ChosenBlockConfirmed ==
  pc = "started" /\ From(pass).source \in {"flag", "launch-recovery"}
  => From(pass).block <= ConfirmedHead + 1

VouchedAt(k) == \E v \in Vouched : k - 1 < Len(v)

KnownAt(entries, k) == \E e \in entries : EntryKey(e) = KeyAt(k)

\* done: the entries whose scores were replayed once s is the state file.
AuditedState(s, done) ==
  /\ s.cursor <= ConfirmedHead
  /\ s.verifiedTo \in Int /\ s.verifiedTo <= ConfirmedHead
  /\ \A k \in 1..Len(s.root) : VouchedAt(k) \/ KnownAt(s.backlog, k) \/ KnownAt(done, k)
  /\ \A k \in 1..Count(s.verifiedTo) : VouchedAt(k) \/ KnownAt(done, k)

\* The advances before the window of a pass are of epochs the pass covers.
StartedAudited ==
  /\ From(pass).block - 1 \in Int
  /\ From(pass).block - 1 <= ConfirmedHead \/ From(pass).block - 1 <= 0
  /\ EpochAt(From(pass).block - 1) <= pass.epoch

AuditedInv ==
  /\ \A s, done : StateFile(s) /\ done = audited => AuditedState(s, done)
  /\ pc = "started" => StartedAudited
  /\ pc = "committing" =>
       \A i, s, done : StagedState(i, s) /\ done = audited \cup pass.passed => AuditedState(s, done)

LEMMA AuditedStays ==
  ASSUME ChainSeq, LedgerGrows, NEW s, NEW done, TrustedState(s), AuditedState(s, done)
  PROVE  AuditedState(s, done)'
<1>1. Len(s.root) \in 0..Len(Ledger) /\ s.cursor \in Int
  BY OnLedgerLength DEF TrustedState
<1>2. /\ ConfirmedHead \in Int /\ Len(Ledger) = Count(ConfirmedHead) /\ Len(Ledger) \in Nat
      /\ Count(s.verifiedTo) \in Nat /\ Count(s.verifiedTo) <= Count(ConfirmedHead)
  BY LedgerLength, CountGrowsByOne DEF AuditedState
<1>3. Count(s.verifiedTo)' = Count(s.verifiedTo)
  BY DEF LedgerGrows, AuditedState
<1>4. ConfirmedHead' \in Int
  <2>1. Len(chain') \in Int \/ ConfirmedHead' \in Int
    BY DEF LedgerGrows
  <2> QED
    BY <2>1, ClientAssumption DEF ConfirmedHead
<1>5. \A k \in 1..Len(Ledger) : KeyAt(k)' = KeyAt(k)
  BY DEF LedgerGrows
<1>6. Vouched' = Vouched
  BY DEF Vouched
<1>7. \A k \in 1..Len(Ledger) :
        /\ VouchedAt(k) => VouchedAt(k)'
        /\ KnownAt(s.backlog, k) => KnownAt(s.backlog, k)'
        /\ KnownAt(done, k) => KnownAt(done, k)'
  BY <1>5, <1>6 DEF VouchedAt, KnownAt, EntryKey
<1>8. \A k \in 1..Len(s.root) : k \in 1..Len(Ledger)
  BY <1>1, <1>2
<1>9. \A k \in 1..Count(s.verifiedTo) : k \in 1..Len(Ledger)
  BY <1>2
<1>10. s.cursor <= ConfirmedHead' /\ s.verifiedTo <= ConfirmedHead'
  BY <1>1, <1>2, <1>4 DEF AuditedState, LedgerGrows
<1> QED
  BY <1>3, <1>7, <1>8, <1>9, <1>10 DEF AuditedState

\* A pass that reads up to the confirmed head, and staged s.
LEMMA StageAudited ==
  ASSUME NEW score, NEW s, NEW audits, NEW done,
         NoneIsNoValue, ChainNumbered, ChainLinked, disk.state # None => TrustedState(disk.state),
         StartedInv, StartedAudited, pass.saved = disk.state,
         PassVerdict(pass, ConfirmedHead, score) = "ok",
         disk.state # None => AuditedState(disk.state, audits),
         s = NewState(pass, ConfirmedHead,
               WholeBacklog(pass, ConfirmedHead) \ ToScore(pass, ConfirmedHead)),
         done = audits \cup ToScore(pass, ConfirmedHead)
  PROVE  AuditedState(s, done)
<1>1. PICK h : h = ConfirmedHead
  OBVIOUS
<1>2. ChainSeq /\ h \in Int /\ Len(Ledger) = Count(h) /\ Len(Ledger) \in Nat /\ 0 <= h
  <2>1. ChainSeq
    BY NumberedIsSeq
  <2> QED
    BY <1>1, <2>1, LedgerLength, PassChecks
<1>3. PICK m \in 0..Len(Ledger) : \E q \in 0..m :
        /\ Replayed(pass, h).root = Applied(m)
        /\ OldLen \in 0..m
        /\ q <= OldLen \/ Applied(q) \in Vouched
        /\ \A x \in OldBacklog : \E y \in WholeBacklog(pass, h) : EntryKey(y) = EntryKey(x)
        /\ \A k \in q + 1..m : \E y \in WholeBacklog(pass, h) : EntryKey(y) = KeyAt(k)
        /\ \A i : IsAdvance(i) /\ i <= h =>
             (chain[i].event.epoch <= pass.epoch <=> Count(i) <= m)
        /\ \A i : IsAdvance(i) /\ From(pass).block <= i /\ i <= h => Count(i) <= m
  BY <1>1, PassResult
<1>4. PICK q \in 0..m :
        /\ Replayed(pass, h).root = Applied(m)
        /\ OldLen \in 0..m
        /\ q <= OldLen \/ Applied(q) \in Vouched
        /\ \A x \in OldBacklog : \E y \in WholeBacklog(pass, h) : EntryKey(y) = EntryKey(x)
        /\ \A k \in q + 1..m : \E y \in WholeBacklog(pass, h) : EntryKey(y) = KeyAt(k)
        /\ \A i : IsAdvance(i) /\ i <= h =>
             (chain[i].event.epoch <= pass.epoch <=> Count(i) <= m)
        /\ \A i : IsAdvance(i) /\ From(pass).block <= i /\ i <= h => Count(i) <= m
  BY <1>3
<1>5. PICK whole : whole = WholeBacklog(pass, h)
  OBVIOUS
<1>6. PICK scored : scored = ToScore(pass, h)
  OBVIOUS
<1>7. PICK from : from = From(pass).block
  OBVIOUS
<1>8. PICK prior : prior = IF pass.saved = None THEN -1 ELSE pass.saved.verifiedTo
  OBVIOUS
<1>9. from \in Int /\ from - 1 <= h /\ NewCursor(pass, h) = h
  <2>1. from \in Int
    BY <1>7, FromIsInt DEF StartedInv, TrustedState
  <2>2. from - 1 <= h
    BY <1>1, <1>2, <1>7, <2>1 DEF StartedAudited
  <2> QED
    BY <1>2, <1>7, <2>1, <2>2 DEF NewCursor
<1>10. /\ s.root = Applied(m) /\ s.cursor = h /\ s.backlog = whole \ scored
       /\ s.verifiedTo = prior \/ (s.verifiedTo = h /\ whole \ scored = {})
  <2>1. PICK root : root = Replayed(pass, h).root
    OBVIOUS
  <2>2. PICK transitions : transitions = Transitions(pass, h)
    OBVIOUS
  <2>3. PICK backlog : backlog = whole \ scored
    OBVIOUS
  <2>4. PICK verifiedTo : verifiedTo = VerifiedThrough(pass, h, backlog)
    OBVIOUS
  <2>5. PICK corpus : corpus = Delta(pass.epoch).next
    OBVIOUS
  <2>6. PICK key : key = pass.served.key
    OBVIOUS
  <2>7. s = [root |-> root, cursor |-> h, transitions |-> transitions, corpus |-> corpus,
             backlog |-> backlog, verifiedTo |-> verifiedTo, key |-> key]
    BY <1>1, <1>5, <1>6, <1>9, <2>1, <2>2, <2>3, <2>4, <2>5, <2>6 DEF NewState
  <2>8. /\ s.root = root /\ s.cursor = h /\ s.backlog = backlog /\ s.verifiedTo = verifiedTo
    BY <2>7
  <2>9. verifiedTo = prior \/ (verifiedTo = h /\ backlog = {})
    BY <1>8, <1>9, <2>4 DEF VerifiedThrough
  <2> QED
    BY <1>4, <2>1, <2>3, <2>8, <2>9
<1>11. m \in Nat /\ Len(s.root) = m
  BY <1>2, <1>10, AppliedLength
\* Every advance taken over is owed, scored or vouched for.
<1>12. ASSUME NEW k \in 1..m
       PROVE  VouchedAt(k) \/ KnownAt(whole, k) \/ KnownAt(done, k)
  <2>1. CASE k \in q + 1..m
    BY <1>4, <1>5, <2>1 DEF KnownAt
  <2>2. CASE k <= q /\ Applied(q) \in Vouched
    <3>1. q \in Nat /\ Len(Applied(q)) = q
      BY <1>2, AppliedLength
    <3> QED
      BY <2>2, <3>1 DEF VouchedAt
  <2>3. CASE k <= q /\ q <= OldLen
    <3>1. k \in 1..OldLen /\ OldLen # 0
      BY <1>2, <1>4, <1>11, <2>3
    <3>2. disk.state # None /\ k \in 1..Len(disk.state.root)
      BY <3>1 DEF OldLen
    <3>3. VouchedAt(k) \/ KnownAt(disk.state.backlog, k) \/ KnownAt(audits, k)
      BY <3>2 DEF AuditedState
    <3>4. OldBacklog = disk.state.backlog
      BY <3>2 DEF OldBacklog
    <3> QED
      BY <1>4, <1>5, <3>3, <3>4 DEF KnownAt
  <2> QED
    BY <1>2, <1>4, <1>11, <2>1, <2>2, <2>3
<1>13. \A k : KnownAt(whole, k) => KnownAt(s.backlog, k) \/ KnownAt(done, k)
  BY <1>1, <1>6, <1>10 DEF KnownAt
<1>14. \A k \in 1..Len(s.root) : VouchedAt(k) \/ KnownAt(s.backlog, k) \/ KnownAt(done, k)
  BY <1>11, <1>12, <1>13
\* Nothing at or below the confirmed head is beyond what was taken over.
<1>15. Len(Ledger) <= m
  <2>1. CASE Len(Ledger) = 0
    BY <1>11, <2>1
  <2>2. CASE Len(Ledger) # 0
    <3>1. PICK k : k = Len(Ledger)
      OBVIOUS
    <3>2. k \in 1..Len(Ledger)
      BY <1>2, <2>2, <3>1
    <3>3. PICK i : i = Nth(k)
      OBVIOUS
    <3>4. IsAdvance(i) /\ Count(i) = k /\ i <= h /\ i \in Int
      <4>1. IsAdvance(i) /\ Count(i) = k /\ i <= h
        BY <1>1, <1>2, <3>2, <3>3, LedgerPlace
      <4> QED
        BY <1>2, <4>1 DEF IsAdvance, ChainSeq
    <3>5. CASE from <= i
      BY <1>4, <1>7, <3>1, <3>4, <3>5
    <3>6. CASE i < from
      <4>1. chain[i].event.epoch = EpochAt(i - 1)
        BY <3>4 DEF ChainLinked, LinkedAt
      <4>2. EpochAt(i - 1) \in Nat /\ EpochAt(i - 1) <= EpochAt(from - 1) /\ EpochAt(from - 1) \in Nat
        <5>1. PICK a \in Int, b \in Int : a = i - 1 /\ b = from - 1
          BY <1>9, <3>4
        <5>2. a <= b /\ b <= b
          BY <1>9, <3>4, <3>6, <5>1
        <5>3. EpochAt(a) \in Nat /\ EpochAt(a) <= EpochAt(b) /\ EpochAt(b) \in Nat
          BY <1>2, <5>2, EpochGrows
        <5> QED
          BY <5>1, <5>3
      <4>3. pass.epoch \in Nat /\ EpochAt(from - 1) <= pass.epoch
        BY <1>7 DEF StartedInv, StartedAudited
      <4>4. chain[i].event.epoch <= pass.epoch
        BY <4>1, <4>2, <4>3
      <4> QED
        BY <1>4, <3>1, <3>4, <4>4
    <3> QED
      BY <1>9, <3>4, <3>5, <3>6
  <2> QED
    BY <2>1, <2>2
<1>16. PICK v : v = s.verifiedTo
  OBVIOUS
<1>17. /\ v \in Int /\ v <= h
       /\ \A k \in 1..Count(v) : VouchedAt(k) \/ KnownAt(done, k)
  <2>1. CASE v = h /\ whole \ scored = {}
    <3>1. \A k \in 1..Count(h) : k \in 1..m
      BY <1>2, <1>11, <1>15
    <3>2. \A k : KnownAt(whole, k) => KnownAt(done, k)
      BY <1>1, <1>6, <2>1 DEF KnownAt
    <3>3. \A k \in 1..m : VouchedAt(k) \/ KnownAt(done, k)
      BY <1>12, <3>2
    <3>4. \A k \in 1..Count(v) : k \in 1..m
      BY <2>1, <3>1
    <3>5. \A k \in 1..Count(v) : VouchedAt(k) \/ KnownAt(done, k)
      BY <3>3, <3>4
    <3>6. v \in Int /\ v <= h
      BY <1>2, <2>1
    <3> QED
      BY <3>5, <3>6
  <2>2. CASE v = prior /\ pass.saved = None
    <3>1. v = -1
      BY <1>8, <2>2
    <3>2. v \in Int /\ v <= 0
      BY <3>1
    <3>3. Count(v) = 0
      BY <1>2, <3>2, CountGrowsByOne
    <3>4. 1..Count(v) = {}
      BY <3>3
    <3> QED
      BY <1>2, <3>2, <3>4
  <2>3. CASE v = prior /\ pass.saved # None
    <3>1. v = disk.state.verifiedTo /\ disk.state # None
      BY <1>8, <2>3
    <3>2. /\ v \in Int /\ v <= h
          /\ \A k \in 1..Count(v) : VouchedAt(k) \/ KnownAt(audits, k)
      BY <1>1, <3>1 DEF AuditedState
    <3>3. \A k : KnownAt(audits, k) => KnownAt(done, k)
      BY DEF KnownAt
    <3> QED
      BY <3>2, <3>3
  <2> QED
    BY <1>10, <1>16, <2>1, <2>2, <2>3
<1>18. \A k \in 1..Count(s.verifiedTo) : VouchedAt(k) \/ KnownAt(done, k)
  BY <1>16, <1>17
<1>19. s.verifiedTo \in Int /\ s.verifiedTo <= ConfirmedHead
  BY <1>1, <1>16, <1>17
<1>20. s.cursor <= ConfirmedHead
  BY <1>1, <1>2, <1>10
<1> QED
  BY <1>14, <1>18, <1>19, <1>20 DEF AuditedState

Startable ==
  /\ pass.opts \in Options
  /\ pass.saved # None => pass.saved.cursor \in Int /\ pass.saved.cursor <= ConfirmedHead
  /\ ConfirmedHead \in Int
  /\ From(pass).source \in {"flag", "launch-recovery"} => From(pass).block <= ConfirmedHead + 1

\* A block the client chooses itself is at most the one after the confirmed head.
LEMMA StartBlock ==
  Startable => From(pass).block \in Int
               /\ (From(pass).block - 1 <= ConfirmedHead \/ From(pass).block - 1 <= 0)
<1> SUFFICES ASSUME Startable, NEW from, from = From(pass)
             PROVE  from.block \in Int /\ (from.block - 1 <= ConfirmedHead \/ from.block - 1 <= 0)
  OBVIOUS
<1> USE DEF Startable
<1>1. from.block \in Int
  BY FromIsInt
<1> DEFINE cursor == IF SnapshotAvailable(pass) THEN pass.saved.cursor ELSE None
           pin == PassRecovery(pass)
<1>2. cursor # None => cursor \in Int /\ cursor <= ConfirmedHead
  BY DEF SnapshotAvailable
<1>3. from = FirstBlock(pass.opts.from, cursor, pin, 1)
  BY DEF From
<1> HIDE DEF cursor, pin
<1>4. \/ from.source \in {"flag", "launch-recovery"}
      \/ from.block = cursor + 1 /\ cursor # None
      \/ from.block = 1
  BY <1>3 DEF FirstBlock
<1> QED
  BY <1>1, <1>2, <1>4

LEMMA AuditedInit == Init => AuditedInv
<1> SUFFICES ASSUME Init
             PROVE  AuditedInv
  OBVIOUS
<1>1. \A s : ~StateFile(s)
  BY DEF Init, EmptyDir, StateFile
<1>2. pc = "idle"
  BY DEF Init
<1> QED
  BY <1>1, <1>2 DEF AuditedInv

LEMMA AuditedStep ==
  ASSUME NoneIsNoValue, SyncInv, SyncInv', ReplicaInv, AuditedInv, ChosenBlockConfirmed', [Next]_vars
  PROVE  AuditedInv'
<1>1. /\ ChainNumbered /\ ChainNumbered' /\ ChainSeq /\ ChainSeq' /\ ChainLinked
      /\ DirInv /\ PassInv /\ PassInv'
  BY NumberedIsSeq DEF SyncInv, ReplicaInv, ChainNumbered, ChainSeq
<1>2. LedgerGrows
  BY <1>1, LedgerStep
<1>3. PICK before : before = audited
  OBVIOUS
<1>4. disk.state # None => TrustedState(disk.state) /\ AuditedState(disk.state, before)
  <2>1. PICK s : s = disk.state
    OBVIOUS
  <2> QED
    BY <1>3, <2>1 DEF ReplicaInv, AuditedInv, StateFile
\* The state file and what was audited for it stay.
<1>5. ASSUME disk'.state = disk.state, audited' = audited
      PROVE  \A s, done : StateFile(s)' /\ done = audited' => AuditedState(s, done)'
  BY <1>1, <1>2, <1>3, <1>4, <1>5, AuditedStays DEF StateFile
<1>6. CASE UNCHANGED <<disk, pc, pass, audited>>
  <2>1. pc' = "started" => StartedAudited'
    <3> SUFFICES ASSUME pc = "started"
                 PROVE  StartedAudited'
      BY <1>6
    <3>1. PICK n : n = From(pass).block - 1
      OBVIOUS
    <3>2. n \in Int /\ (n <= ConfirmedHead \/ n <= 0) /\ EpochAt(n) <= pass.epoch
      BY <3>1 DEF AuditedInv, StartedAudited
    <3>3. EpochAt(n)' = EpochAt(n) /\ ConfirmedHead <= ConfirmedHead'
      BY <1>2, <3>2 DEF LedgerGrows
    <3>4. From(pass)' = From(pass)
      BY <1>6 DEF From, SnapshotAvailable, PassRecovery
    <3>5. n = From(pass)'.block - 1
      BY <3>1, <3>4
    <3>6. n <= ConfirmedHead' \/ n <= 0
      <4>1. ConfirmedHead \in Int /\ ConfirmedHead' \in Int
        BY <1>1, ClientAssumption DEF ConfirmedHead, ChainSeq
      <4> QED
        BY <3>2, <3>3, <4>1
    <3> QED
      BY <1>6, <3>2, <3>3, <3>5, <3>6 DEF StartedAudited
  <2>2. ASSUME pc' = "committing", NEW i, NEW s, NEW done,
               StagedState(i, s)', done = audited' \cup pass'.passed
        PROVE  AuditedState(s, done)'
    <3>1. StagedState(i, s) /\ pc = "committing" /\ done = audited \cup pass.passed
      BY <1>6, <2>2 DEF StagedState
    <3>2. AuditedState(s, done) /\ TrustedState(s)
      BY <3>1 DEF ReplicaInv, AuditedInv, Adoptable
    <3> QED
      BY <1>1, <1>2, <3>2, AuditedStays
  <2> QED
    BY <1>5, <1>6, <2>1, <2>2 DEF AuditedInv
<1>7. CASE StartPass
  <2>1. PICK opts \in Options, served \in Served :
          /\ pc' = "started" /\ UNCHANGED <<chain, disk, audited>>
          /\ pass' = [opts |-> opts, served |-> served, saved |-> disk.state,
                      epoch |-> EpochAt(Len(chain)), staged |-> <<>>, backlog |-> {},
                      passed |-> {}]
    BY <1>7 DEF StartPass
  <2>2. PICK e : e = EpochAt(Len(chain))
    OBVIOUS
  <2>3. pass'.opts \in Options /\ pass'.epoch = e /\ pass'.saved = disk.state
    BY <2>1, <2>2
  <2>4. PICK from : from = From(pass)'
    OBVIOUS
  <2>5. PICK h : h = ConfirmedHead'
    OBVIOUS
  <2>6. h \in Int /\ h <= Len(chain) /\ Len(chain) \in Nat /\ h = ConfirmedHead
    BY <1>1, <2>1, <2>5, ClientAssumption DEF ConfirmedHead, ChainSeq
  <2>7. pass'.saved # None => pass'.saved.cursor \in Int /\ pass'.saved.cursor <= h
    BY <1>4, <2>3, <2>6 DEF TrustedState, AuditedState
  <2>8. from.source \in {"flag", "launch-recovery"} => from.block <= h + 1
    BY <2>1, <2>4, <2>5 DEF ChosenBlockConfirmed
  <2>9. from.block \in Int /\ (from.block - 1 <= h \/ from.block - 1 <= 0)
    <3>1. (Startable => From(pass).block \in Int
               /\ (From(pass).block - 1 <= ConfirmedHead \/ From(pass).block - 1 <= 0))'
      BY StartBlock, PTL
    <3>2. Startable'
      BY <2>3, <2>4, <2>5, <2>6, <2>7, <2>8 DEF Startable
    <3> QED
      BY <2>4, <2>5, <3>1, <3>2
  <2>10. PICK n : n = from.block - 1
    OBVIOUS
  <2>11. n \in Int /\ (n <= h \/ n <= 0) /\ n <= Len(chain)
    BY <2>6, <2>9, <2>10
  <2>12. EpochAt(n) <= e
    BY <1>1, <2>2, <2>6, <2>11, EpochGrows
  <2>13. EpochAt(n)' = EpochAt(n)
    BY <2>1 DEF EpochAt, BlocksIn
  <2>14. StartedAudited'
    BY <2>3, <2>4, <2>5, <2>10, <2>11, <2>12, <2>13 DEF StartedAudited
  <2> QED
    BY <1>5, <2>1, <2>14 DEF AuditedInv
<1>8. CASE RunPass
  <2>1. UNCHANGED <<chain, disk, audited>> /\ pc = "started"
    BY <1>8 DEF RunPass, EndWithoutCommit, StageAll
  <2>2. \A s, done : StateFile(s)' /\ done = audited' => AuditedState(s, done)'
    BY <1>5, <2>1
  <2>3. CASE EndWithoutCommit
    BY <2>2, <2>3 DEF EndWithoutCommit, AuditedInv
  <2>4. CASE StageAll(ConfirmedHead) /\ GoodPass
    <3>1. PICK backlog : backlog = WholeBacklog(pass, ConfirmedHead) \ ToScore(pass, ConfirmedHead)
      OBVIOUS
    <3>2. PICK scored : scored = ToScore(pass, ConfirmedHead)
      OBVIOUS
    <3>3. PICK q : q = StagedWrites(pass, ConfirmedHead, backlog)
      OBVIOUS
    <3>4. /\ pass' = [pass EXCEPT !.staged = q, !.backlog = backlog, !.passed = scored]
          /\ pc' = "committing"
      BY <2>4, <3>1, <3>2, <3>3 DEF StageAll
    <3>5. pass'.staged = q /\ pass'.passed = scored
      <4>1. PassRecord
        BY <1>1, <2>1 DEF PassInv
      <4> QED
        BY <3>4, <4>1 DEF PassRecord
    <3>6. ASSUME NEW i, NEW s, NEW done, StagedState(i, s)', done = audited' \cup pass'.passed
          PROVE  AuditedState(s, done)'
      <4>1. i \in DOMAIN q /\ q[i].file = "state" /\ q[i].value = s
        BY <3>5, <3>6 DEF StagedState
      <4>2. s = NewState(pass, ConfirmedHead, backlog)
        BY <1>1, <3>3, <4>1, StagedLast
      <4>3. done = before \cup scored
        BY <1>3, <2>1, <3>5, <3>6
      <4>4. StartedInv /\ StartedAudited /\ pass.saved = disk.state
        BY <1>1, <2>1 DEF ReplicaInv, AuditedInv, PassInv
      <4>5. AuditedState(s, done)
        BY <1>1, <1>4, <2>4, <3>1, <3>2, <4>2, <4>3, <4>4, StageAudited DEF GoodPass
      <4>6. TrustedState(s)
        BY <1>1, <1>4, <2>4, <3>1, <4>2, <4>4, StageAdoptable DEF Adoptable, GoodPass
      <4> QED
        BY <1>1, <1>2, <4>5, <4>6, AuditedStays
    <3> QED
      BY <2>2, <3>4, <3>6 DEF AuditedInv
  <2> QED
    BY <1>8, <2>3, <2>4 DEF RunPass, GoodPass
<1>9. CASE CommitFile
  <2>1. /\ pc = "committing" /\ pc' = pc /\ pass.staged # <<>>
        /\ audited' = IF Head(pass.staged).file = "state" THEN audited \cup pass.passed ELSE audited
        /\ pass' = [pass EXCEPT !.staged = Tail(pass.staged)]
        /\ disk' = Renamed(disk, Head(pass.staged))
    BY <1>9 DEF CommitFile
  <2>2. PICK W : pass.staged \in Seq(W)
    BY <1>1, <2>1 DEF PassInv, StagedInv
  <2>3. PICK q : q = Tail(pass.staged)
    OBVIOUS
  <2>4. pass'.staged = q /\ pass'.passed = pass.passed
    <3>1. PassRecord /\ pass' = [pass EXCEPT !.staged = q]
      BY <1>1, <2>1, <2>3 DEF PassInv
    <3> QED
      BY <3>1 DEF PassRecord
  <2>5. PICK w : w = pass.staged[1]
    OBVIOUS
  <2>6. Head(pass.staged) = w /\ 1 \in DOMAIN pass.staged
    BY <2>1, <2>2, <2>5, Shifted
  <2>7. q \in Seq(W) /\ Len(q) = Len(pass.staged) - 1 /\ Len(pass.staged) \in Nat
    BY <2>1, <2>2, <2>3
  <2>8. ASSUME NEW i, NEW s, StagedState(i, s)'
        PROVE  i \in 1..Len(q) /\ StagedState(i + 1, s)
    <3>1. i \in DOMAIN q /\ q[i].file = "state" /\ q[i].value = s
      BY <2>4, <2>8 DEF StagedState
    <3>2. i + 1 \in DOMAIN pass.staged /\ q[i] = pass.staged[i + 1]
      BY <2>1, <2>2, <2>3, <3>1, Shifted
    <3> QED
      BY <2>7, <3>1, <3>2 DEF StagedState
  <2>9. CASE w.file # "state"
    <3>1. audited' = audited
      BY <2>1, <2>6, <2>9
    <3>2. disk'.state = disk.state
      <4>1. ~(\A s : s = disk'.state => StagedState(1, s))
        BY <2>5, <2>9 DEF StagedState
      <4>2. ~DeleteStateDir
        BY <2>1 DEF DeleteStateDir
      <4> QED
        BY <1>1, <4>1, <4>2, StateFileSteps
    <3>3. ASSUME NEW i, NEW s, NEW done, StagedState(i, s)', done = audited' \cup pass'.passed
          PROVE  AuditedState(s, done)'
      <4>1. StagedState(i + 1, s) /\ done = audited \cup pass.passed
        BY <2>4, <2>8, <3>1, <3>3
      <4>2. AuditedState(s, done) /\ TrustedState(s)
        BY <2>1, <4>1 DEF ReplicaInv, AuditedInv, Adoptable
      <4> QED
        BY <1>1, <1>2, <4>2, AuditedStays
    <3> QED
      BY <1>5, <2>1, <3>1, <3>2, <3>3 DEF AuditedInv
  <2>10. CASE w.file = "state"
    <3>1. PICK done : done = audited \cup pass.passed
      OBVIOUS
    <3>2. audited' = done
      BY <2>1, <2>6, <2>10, <3>1
    <3>3. PICK t : t = w.value
      OBVIOUS
    <3>4. disk'.state = t
      <4>1. disk' = [disk EXCEPT !.state = t]
        BY <2>1, <2>6, <2>10, <3>3 DEF Renamed
      <4> QED
        BY <1>1, <4>1 DEF DirInv
    <3>5. StagedState(1, t)
      BY <2>5, <2>6, <2>10, <3>3 DEF StagedState
    <3>6. Len(pass.staged) = 1 /\ TrustedState(t) /\ AuditedState(t, done)
      BY <2>1, <3>1, <3>5 DEF ReplicaInv, AuditedInv, Adoptable
    <3>7. AuditedState(t, done)'
      BY <1>1, <1>2, <3>6, AuditedStays
    <3>8. \A s, d : StateFile(s)' /\ d = audited' => AuditedState(s, d)'
      BY <3>2, <3>4, <3>7 DEF StateFile
    <3>9. \A i, s : ~StagedState(i, s)'
      <4>1. Len(q) = 0
        BY <2>7, <3>6
      <4> QED
        BY <2>8, <4>1
    <3> QED
      BY <2>1, <3>8, <3>9 DEF AuditedInv
  <2> QED
    BY <2>9, <2>10
<1>10. CASE EndPass \/ Crash
  <2>1. pc' = "idle" /\ audited' = audited
    BY <1>10 DEF EndPass, Crash
  <2>2. disk'.state = disk.state
    <3>1. ~CommitFile
      BY <2>1 DEF CommitFile
    <3>2. ~DeleteStateDir
      BY <1>10 DEF EndPass, Crash, DeleteStateDir
    <3> QED
      BY <1>1, <3>1, <3>2, StateFileSteps
  <2> QED
    BY <1>5, <2>1, <2>2 DEF AuditedInv
<1>11. CASE DeleteStateDir
  <2>1. pc' = "idle" /\ disk'.state = None
    BY <1>11 DEF DeleteStateDir, EmptyDir
  <2>2. \A s : ~StateFile(s)'
    BY <2>1 DEF StateFile
  <2> QED
    BY <2>1, <2>2 DEF AuditedInv
<1>12. Chain \/ SetUpAgain \/ UNCHANGED vars => UNCHANGED <<disk, pc, pass, audited>>
  BY DEF Chain, Advance, Finalize, Rotate, Reveal, EmptyBlock, Mine, Reorg, SetUpAgain, vars
<1> QED
  BY <1>6, <1>7, <1>8, <1>9, <1>10, <1>11, <1>12 DEF Next, Pass

LEMMA AuditedMeansAudited ==
  ASSUME SyncInv, ReplicaInv, AuditedInv
  PROVE  VerifiedThroughIsAudited
<1> SUFFICES ASSUME disk.state # None, NEW a \in AdvancesIn(1, disk.state.verifiedTo)
             PROVE  \/ \E v \in Vouched : Len(a.parent) < Len(v)
                    \/ \E e \in audited : EntryKey(e) = EntryKey(EntryOf(a, 0))
  BY DEF VerifiedThroughIsAudited
<1>1. ChainSeq /\ ChainLinked
  BY NumberedIsSeq DEF SyncInv, ReplicaInv
<1>2. PICK s, done : s = disk.state /\ done = audited
  OBVIOUS
<1>3. AuditedState(s, done)
  BY <1>2 DEF AuditedInv, StateFile
<1>4. PICK i \in DOMAIN chain :
        1 <= i /\ i <= s.verifiedTo /\ chain[i].kind = "advance" /\ chain[i].event = a
  BY <1>1, <1>2, AdvanceAt DEF ChainSeq
<1>5. IsAdvance(i) /\ i \in Int /\ ConfirmedHead \in Int /\ s.verifiedTo \in Int
  BY <1>1, <1>3, <1>4, LedgerLength DEF IsAdvance, ChainSeq, AuditedState
<1>6. i <= ConfirmedHead
  BY <1>3, <1>4, <1>5 DEF AuditedState
<1>7. PICK k : k = Count(i)
  OBVIOUS
<1>8. k \in 1..Len(Ledger) /\ Nth(k) = i /\ Len(a.parent) + 1 = k
  BY <1>1, <1>4, <1>5, <1>6, <1>7, LedgerAt
<1>9. k <= Count(s.verifiedTo) /\ Count(s.verifiedTo) \in Nat
  BY <1>1, <1>4, <1>5, <1>7, CountGrowsByOne
<1>10. VouchedAt(k) \/ KnownAt(done, k)
  BY <1>3, <1>8, <1>9 DEF AuditedState
<1>11. KeyAt(k) = EntryKey(EntryOf(a, 0))
  BY <1>4, <1>8 DEF KeyAt
<1>12. CASE VouchedAt(k)
  <2>1. PICK v \in Vouched : k - 1 < Len(v)
    BY <1>12 DEF VouchedAt
  <2>2. Len(a.parent) \in Int => Len(a.parent) < Len(v)
    BY <1>8, <2>1
  <2>3. Len(a.parent) \in Nat
    BY <1>1, <1>4, <1>5 DEF ChainLinked, LinkedAt
  <2> QED
    BY <2>1, <2>2, <2>3
<1>13. CASE KnownAt(done, k)
  BY <1>2, <1>11, <1>13 DEF KnownAt
<1> QED
  BY <1>10, <1>12, <1>13

\* Every advance at or below evalVerifiedThroughBlock had its scores replayed, or is
\* one a vouched state stands for, whatever crashes, skipped score replays, reorganisations
\* and deletions came before, when no pass is told to start beyond the confirmed chain.
THEOREM VerifiedThroughStaysAudited ==
  ASSUME NoneIsNoValue
  PROVE  Spec /\ []ChosenBlockConfirmed => []VerifiedThroughIsAudited
<1>1. /\ SyncInv /\ SyncInv' /\ ReplicaInv /\ AuditedInv /\ ChosenBlockConfirmed' /\ [Next]_vars
      => AuditedInv'
  BY AuditedStep
<1>2. Spec => [](SyncInv /\ ReplicaInv)
  BY ReplicaInvariance
<1>3. SyncInv /\ ReplicaInv /\ AuditedInv => VerifiedThroughIsAudited
  BY AuditedMeansAudited
<1> QED
  BY <1>1, <1>2, <1>3, AuditedInit, PTL DEF Spec
=============================================================================

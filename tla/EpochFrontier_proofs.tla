------------------------- MODULE EpochFrontier_proofs -------------------------
(***************************************************************************)
(* What the operations of the frontier keep and do, for any frontier whose *)
(* pointer is exact: no prune, refill or step of the controller loses that *)
(* the ids drawn from the reserve are the active and the retired ones.     *)
(***************************************************************************)
EXTENDS EpochFrontier, FiniteSetTheorems, SequenceTheorems, TLAPS

(***************************************************************************)
(* Sets in an order                                                        *)
(***************************************************************************)
StrictTotal(S, R) ==
  /\ \A x \in S : <<x, x>> \notin R
  /\ \A x, y \in S : x # y => <<x, y>> \in R \/ <<y, x>> \in R
  /\ \A x, y, z \in S : <<x, y>> \in R /\ <<y, z>> \in R => <<x, z>> \in R

LEMMA Ranked ==
  ASSUME NEW S, NEW R, IsFiniteSet(S), StrictTotal(S, R)
  PROVE  /\ \A x \in S : Rank(S, R, x) \in Nat /\ Rank(S, R, x) < Cardinality(S)
         /\ \A x, y \in S : <<x, y>> \in R <=> Rank(S, R, x) < Rank(S, R, y)
         /\ \A x, y \in S : Rank(S, R, x) = Rank(S, R, y) => x = y
<1> DEFINE Below(x) == {y \in S : <<y, x>> \in R}
<1>1. \A x \in S : /\ Below(x) \in SUBSET S /\ x \notin Below(x)
                   /\ IsFiniteSet(Below(x)) /\ Cardinality(Below(x)) \in Nat
  <2> TAKE x \in S
  <2>1. Below(x) \in SUBSET S
    OBVIOUS
  <2>2. x \notin Below(x)
    BY DEF StrictTotal
  <2> QED
    BY <2>1, <2>2, FS_Subset, FS_CardinalityType
<1>2. \A x \in S : Rank(S, R, x) = Cardinality(Below(x))
  BY DEF Rank
<1>3. ASSUME NEW x \in S, NEW y \in S, <<x, y>> \in R
      PROVE  Cardinality(Below(x)) < Cardinality(Below(y))
  <2>1. Below(x) \in SUBSET Below(y)
    BY <1>3 DEF StrictTotal
  <2>2. x \in Below(y)
    BY <1>3
  <2>3. Cardinality(Below(x)) <= Cardinality(Below(y))
        /\ (Cardinality(Below(y)) = Cardinality(Below(x)) => Below(y) = Below(x))
    BY <1>1, <2>1, FS_Subset
  <2> HIDE DEF Below
  <2> QED
    BY <1>1, <2>2, <2>3
<1>4. \A x \in S : Cardinality(Below(x)) < Cardinality(S)
  <2> TAKE x \in S
  <2>1. Cardinality(Below(x)) <= Cardinality(S) /\ (Cardinality(S) = Cardinality(Below(x)) => S = Below(x))
    BY <1>1, FS_Subset
  <2>2. Cardinality(S) \in Nat /\ Cardinality(Below(x)) \in Nat /\ S # Below(x)
    BY <1>1, FS_CardinalityType
  <2> HIDE DEF Below
  <2> QED
    BY <2>1, <2>2
<1> HIDE DEF Below
<1>5. \A x, y \in S : x # y => <<x, y>> \in R \/ <<y, x>> \in R
  BY DEF StrictTotal
<1>6. \A x, y \in S : x # y => Cardinality(Below(x)) < Cardinality(Below(y))
                               \/ Cardinality(Below(y)) < Cardinality(Below(x))
  BY <1>3, <1>5
<1>7. \A x, y \in S : Cardinality(Below(x)) = Cardinality(Below(y)) => x = y
  BY <1>1, <1>6
<1>8. \A x, y \in S : <<x, y>> \in R <=> Cardinality(Below(x)) < Cardinality(Below(y))
  <2> TAKE x, y \in S
  <2>1. CASE x = y
    BY <1>1, <2>1 DEF StrictTotal
  <2>2. CASE x # y
    <3>1. Cardinality(Below(x)) \in Nat /\ Cardinality(Below(y)) \in Nat
      BY <1>1
    <3>2. CASE <<x, y>> \in R
      BY <1>3, <3>2
    <3>3. CASE <<y, x>> \in R /\ <<x, y>> \notin R
      <4>1. Cardinality(Below(y)) < Cardinality(Below(x))
        BY <1>3, <3>3
      <4> QED
        BY <3>1, <3>3, <4>1
    <3> QED
      BY <1>5, <2>2, <3>2, <3>3
  <2> QED
    BY <2>1, <2>2
<1> QED
  BY <1>1, <1>2, <1>4, <1>7, <1>8

\* Every member has its place in the enumeration, and every place its member.
LEMMA EnumeratedOnto ==
  ASSUME NEW S, NEW R, IsFiniteSet(S), StrictTotal(S, R)
  PROVE  /\ Cardinality(S) \in Nat
         /\ Enumerated(S, R) \in [1..Cardinality(S) -> S]
         /\ \A k \in 1..Cardinality(S) : Rank(S, R, Enumerated(S, R)[k]) = k - 1
         /\ \A x \in S : Enumerated(S, R)[Rank(S, R, x) + 1] = x
<1>1. PICK n \in Nat : n = Cardinality(S)
  BY FS_CardinalityType
<1> DEFINE place == [x \in S |-> Rank(S, R, x)]
<1>2. /\ \A x \in S : Rank(S, R, x) \in 0..n - 1
      /\ \A x, y \in S : Rank(S, R, x) = Rank(S, R, y) => x = y
  <2>1. /\ \A x \in S : Rank(S, R, x) \in Nat /\ Rank(S, R, x) < Cardinality(S)
        /\ \A x, y \in S : Rank(S, R, x) = Rank(S, R, y) => x = y
    BY Ranked
  <2> QED
    BY <1>1, <2>1
<1>3. place \in Injection(S, 0..n - 1)
  <2>1. place \in [S -> 0..n - 1]
    BY <1>2
  <2>2. \A x, y \in S : place[x] = place[y] => x = y
    BY <1>2
  <2> HIDE DEF place
  <2> QED
    BY <2>1, <2>2 DEF Injection, IsInjective
<1>4. IsFiniteSet(0..n - 1) /\ Cardinality(0..n - 1) = n
  <2>1. IsFiniteSet(0..n - 1) /\ Cardinality(0..n - 1) = IF 0 > n - 1 THEN 0 ELSE (n - 1) - 0 + 1
    BY FS_Interval
  <2> QED
    BY <2>1
<1>5. place \in Surjection(S, 0..n - 1)
  BY <1>1, <1>3, <1>4, FS_Injection
<1>6. \A k \in 1..n : \E x \in S : Rank(S, R, x) = k - 1
  <2> TAKE k \in 1..n
  <2>1. k - 1 \in 0..n - 1
    OBVIOUS
  <2> QED
    BY <1>5, <2>1 DEF Surjection
<1>7. \A k \in 1..n : Enumerated(S, R)[k] \in S /\ Rank(S, R, Enumerated(S, R)[k]) = k - 1
  BY <1>1, <1>6 DEF Enumerated
<1>8. \A x \in S : Rank(S, R, x) + 1 \in 1..n /\ (Rank(S, R, x) + 1) - 1 = Rank(S, R, x)
  BY <1>2
<1>9. \A x \in S : Enumerated(S, R)[Rank(S, R, x) + 1] = x
  BY <1>2, <1>7, <1>8
<1>10. Enumerated(S, R) \in [1..n -> S]
  BY <1>1, <1>7 DEF Enumerated
<1> QED
  BY <1>1, <1>7, <1>9, <1>10

\* Every member of an enumerated set stands at one place.
LEMMA EnumeratedIn ==
  ASSUME NEW S, NEW R, IsFiniteSet(S), StrictTotal(S, R)
  PROVE  /\ \A x \in S : \E k \in 1..Cardinality(S) : Enumerated(S, R)[k] = x
         /\ \A k, m \in 1..Cardinality(S) : Enumerated(S, R)[k] = Enumerated(S, R)[m] => k = m
<1>1. PICK n \in Nat : n = Cardinality(S)
  BY FS_CardinalityType
<1>2. \A x \in S : Rank(S, R, x) + 1 \in 1..n
  <2> TAKE x \in S
  <2>1. Rank(S, R, x) \in Nat /\ Rank(S, R, x) < n
    BY <1>1, Ranked
  <2> QED
    BY <2>1
<1>3. \A x \in S : Enumerated(S, R)[Rank(S, R, x) + 1] = x
  BY EnumeratedOnto
<1>4. \A k \in 1..n : Rank(S, R, Enumerated(S, R)[k]) = k - 1
  BY <1>1, EnumeratedOnto
<1>5. ASSUME NEW k \in 1..n, NEW m \in 1..n, Enumerated(S, R)[k] = Enumerated(S, R)[m]
      PROVE  k = m
  <2>1. k - 1 = m - 1
    BY <1>4, <1>5
  <2> QED
    BY <2>1
<1> QED
  BY <1>1, <1>2, <1>3, <1>5

\* Round robin is an order: no two ids of a family are dealt in the same round.
LEMMA DealIsTotal ==
  ASSUME NEW ids, ids \subseteq DOMAIN FamilyOf
  PROVE  IsFiniteSet(ids) /\ StrictTotal(ids, Deal(ids))
<1> DEFINE Before(i) == {j \in ids : FamilyOf[j] = FamilyOf[i] /\ j <= i}
<1>1. IsFiniteSet(ids)
  BY FamilyAssumption, FS_Subset
<1>2. \A i \in ids : i \in Int /\ FamilyOf[i] \in Int
  BY FamilyAssumption
<1>3. \A i \in ids : IsFiniteSet(Before(i)) /\ Cardinality(Before(i)) \in Nat
  <2> TAKE i \in ids
  <2>1. Before(i) \in SUBSET ids
    OBVIOUS
  <2> QED
    BY <1>1, <2>1, FS_Subset, FS_CardinalityType
<1>4. \A i \in ids : Round(ids, i) = Cardinality(Before(i))
  BY DEF Round
<1>5. ASSUME NEW i \in ids, NEW j \in ids, FamilyOf[i] = FamilyOf[j], i < j
      PROVE  Round(ids, i) < Round(ids, j)
  <2>1. Before(i) \in SUBSET Before(j)
    BY <1>2, <1>5
  <2>2. j \in Before(j) /\ j \notin Before(i)
    BY <1>2, <1>5
  <2>3. Cardinality(Before(i)) <= Cardinality(Before(j))
        /\ (Cardinality(Before(j)) = Cardinality(Before(i)) => Before(j) = Before(i))
    BY <1>3, <2>1, FS_Subset
  <2> HIDE DEF Before
  <2> QED
    BY <1>3, <1>4, <2>2, <2>3
<1>6. \A i \in ids : Round(ids, i) \in Nat
  BY <1>3, <1>4
<1> HIDE DEF Before
<1>7. \A i, j \in ids : <<i, j>> \in Deal(ids) <=>
        \/ Round(ids, i) < Round(ids, j)
        \/ Round(ids, i) = Round(ids, j) /\ FamilyOf[i] < FamilyOf[j]
  BY DEF Deal
<1>8. \A i, j \in ids : i # j => <<i, j>> \in Deal(ids) \/ <<j, i>> \in Deal(ids)
  <2> TAKE i, j \in ids
  <2>1. CASE FamilyOf[i] = FamilyOf[j]
    BY <1>2, <1>5, <1>7, <2>1
  <2>2. CASE FamilyOf[i] # FamilyOf[j]
    BY <1>2, <1>6, <1>7, <2>2
  <2> QED
    BY <2>1, <2>2
<1>9. \A i \in ids : <<i, i>> \notin Deal(ids)
  BY <1>2, <1>6, <1>7
<1>10. \A i, j, k \in ids : <<i, j>> \in Deal(ids) /\ <<j, k>> \in Deal(ids) => <<i, k>> \in Deal(ids)
  BY <1>2, <1>6, <1>7
<1> QED
  BY <1>1, <1>8, <1>9, <1>10 DEF StrictTotal

\* The new ids each have one place in the order they are dealt in.
LEMMA InterleavedIds ==
  ASSUME NEW ids, ids \subseteq DOMAIN FamilyOf
  PROVE  /\ Interleaved(ids) \in Seq(ids) /\ Len(Interleaved(ids)) = Cardinality(ids)
         /\ \A i, j \in 1..Cardinality(ids) : Interleaved(ids)[i] = Interleaved(ids)[j] => i = j
         /\ \A x \in ids : \E i \in 1..Cardinality(ids) : Interleaved(ids)[i] = x
<1>1. IsFiniteSet(ids) /\ StrictTotal(ids, Deal(ids))
  BY DealIsTotal
<1>2. PICK n \in Nat : n = Cardinality(ids)
  BY <1>1, FS_CardinalityType
<1>3. Interleaved(ids) \in [1..n -> ids]
  BY <1>1, <1>2, EnumeratedOnto DEF Interleaved
<1>4. /\ \A x \in ids : \E k \in 1..n : Interleaved(ids)[k] = x
      /\ \A k, m \in 1..n : Interleaved(ids)[k] = Interleaved(ids)[m] => k = m
  BY <1>1, <1>2, EnumeratedIn DEF Interleaved
<1> QED
  BY <1>2, <1>3, <1>4

\* What a filter keeps: as many of the first elements as there are to keep among
\* them, none twice.
LEMMA KeptElements ==
  ASSUME NEW T, NEW order \in Seq(T), NEW known, NEW ptr \in 0..Len(order),
         \A i, j \in DOMAIN order : order[i] = order[j] => i = j
  PROVE  LET count == Cardinality({i \in 1..ptr : order[i] \in known})
         IN  /\ Kept(order, known) \in Seq(T)
             /\ count \in 0..Len(Kept(order, known))
             /\ \A i \in 1..Len(Kept(order, known)) : Kept(order, known)[i] \in known
             /\ {Kept(order, known)[i] : i \in 1..count} = {order[i] : i \in 1..ptr} \cap known
             /\ \A i, j \in DOMAIN Kept(order, known) : Kept(order, known)[i] = Kept(order, known)[j] => i = j
<1> DEFINE at == {i \in 1..Len(order) : order[i] \in known}
           R == {p \in at \X at : p[1] < p[2]}
           position == Enumerated(at, R)
           low == {i \in 1..ptr : order[i] \in known}
           kept == Kept(order, known)
<1>1. Len(order) \in Nat /\ DOMAIN order = 1..Len(order) /\ ptr \in Nat /\ ptr <= Len(order)
  OBVIOUS
<1>2. IsFiniteSet(at) /\ at \subseteq Int
  <2>1. IsFiniteSet(1..Len(order)) /\ at \in SUBSET (1..Len(order))
    BY <1>1, FS_Interval
  <2> QED
    BY <2>1, FS_Subset
<1>3. StrictTotal(at, R)
  BY <1>2 DEF StrictTotal
<1>4. PICK n \in Nat : n = Cardinality(at)
  BY <1>2, FS_CardinalityType
<1>5. low \in SUBSET at /\ IsFiniteSet(low) /\ Cardinality(low) \in Nat /\ Cardinality(low) <= n
  <2>1. low \in SUBSET at
    BY <1>1
  <2> HIDE DEF low, at
  <2> QED
    BY <1>2, <1>4, <2>1, FS_Subset, FS_CardinalityType
<1>6. PICK c \in Nat : c = Cardinality(low) /\ c <= n
  BY <1>5
<1>7. /\ position \in [1..n -> at]
      /\ \A k \in 1..n : Rank(at, R, position[k]) = k - 1
      /\ \A x \in at : \E k \in 1..n : position[k] = x
      /\ \A k, m \in 1..n : position[k] = position[m] => k = m
  <2> HIDE DEF at, R
  <2> QED
    BY <1>2, <1>3, <1>4, EnumeratedOnto, EnumeratedIn
<1>8. kept = [k \in 1..n |-> order[position[k]]]
  BY <1>4 DEF Kept
<1>9. \A k \in 1..n : position[k] <= ptr <=> k <= c
  <2> TAKE k \in 1..n
  <2> DEFINE x == position[k]
             below == {y \in at : <<y, x>> \in R}
  <2>1. x \in at /\ x \in Int /\ Cardinality(below) = k - 1 /\ k \in Int
    <3>1. x \in at /\ Rank(at, R, x) = k - 1
      <4> HIDE DEF at, R, position
      <4> QED
        BY <1>7
    <3>2. x \in Int
      <4> HIDE DEF at, R, x
      <4> QED
        BY <1>2, <3>1
    <3> HIDE DEF at, R, position
    <3> QED
      BY <3>1, <3>2 DEF Rank
  <2>2. below \in SUBSET at /\ IsFiniteSet(below)
    <3>1. below \in SUBSET at
      OBVIOUS
    <3> HIDE DEF below, at
    <3> QED
      BY <1>2, <3>1, FS_Subset
  <2>3. \A y \in at : y \in below <=> y < x
    BY <2>1
  <2>4. \A y \in at : y \in low <=> y <= ptr
    BY <1>1
  <2> HIDE DEF below, x, low, at
  <2>5. CASE x <= ptr
    <3>1. below \cup {x} \in SUBSET low /\ x \notin below
      BY <1>1, <1>2, <1>5, <2>1, <2>2, <2>3, <2>4, <2>5
    <3>2. Cardinality(below \cup {x}) = Cardinality(below) + 1
      BY <2>2, <3>1, FS_AddElement
    <3>3. Cardinality(below \cup {x}) <= Cardinality(low)
      BY <1>5, <3>1, FS_Subset
    <3> QED
      BY <1>6, <2>1, <2>5, <3>2, <3>3 DEF x
  <2>6. CASE ~(x <= ptr)
    <3>1. low \in SUBSET below
      BY <1>1, <1>2, <1>5, <2>1, <2>3, <2>4, <2>6
    <3>2. Cardinality(low) <= Cardinality(below)
      BY <2>2, <3>1, FS_Subset
    <3> QED
      BY <1>6, <2>1, <2>6, <3>2 DEF x
  <2> QED
    BY <2>5, <2>6
<1>10. \A x \in at : x \in 1..Len(order) /\ order[x] \in known /\ order[x] \in T
  OBVIOUS
<1>11. \A x : x \in low <=> x \in at /\ x <= ptr
  BY <1>1
<1>12. \A x \in 1..ptr : order[x] \in known => x \in low
  OBVIOUS
<1> HIDE DEF position, R, at, kept, low
<1>13. /\ kept \in [1..n -> T] /\ Len(kept) = n /\ DOMAIN kept = 1..n
       /\ \A k \in 1..n : kept[k] = order[position[k]] /\ kept[k] \in known
  <2>1. \A k \in 1..n : kept[k] = order[position[k]] /\ kept[k] \in known /\ kept[k] \in T
    BY <1>7, <1>8, <1>10
  <2>2. kept \in [1..n -> T] /\ DOMAIN kept = 1..n
    BY <1>8, <2>1
  <2> QED
    BY <2>1, <2>2
<1>14. \A i, j \in 1..n : kept[i] = kept[j] => i = j
  BY <1>1, <1>7, <1>10, <1>13
<1>15. {kept[i] : i \in 1..c} = {order[i] : i \in 1..ptr} \cap known
  <2>1. ASSUME NEW i \in 1..c
        PROVE  kept[i] \in {order[j] : j \in 1..ptr} /\ kept[i] \in known
    <3>1. i \in 1..n /\ i <= c
      BY <1>6
    <3>2. position[i] \in at /\ position[i] <= ptr
      BY <1>7, <1>9, <3>1
    <3>3. position[i] \in 1..ptr
      BY <1>1, <1>10, <3>2
    <3> QED
      BY <1>13, <3>1, <3>3
  <2>2. ASSUME NEW i \in 1..ptr, order[i] \in known
        PROVE  \E k \in 1..c : kept[k] = order[i]
    <3>1. i \in low
      BY <1>12, <2>2
    <3>2. i \in at /\ i <= ptr
      BY <1>11, <3>1
    <3>3. PICK k \in 1..n : position[k] = i
      BY <1>7, <3>2
    <3>4. k \in 1..c
      BY <1>6, <1>9, <3>2, <3>3
    <3> QED
      BY <1>13, <3>3, <3>4
  <2> QED
    BY <2>1, <2>2
<1>16. c \in 0..n /\ kept \in Seq(T)
  BY <1>6, <1>13
<1> QED
  BY <1>6, <1>13, <1>14, <1>15, <1>16 DEF low, kept

(***************************************************************************)
(* Frontiers                                                               *)
(***************************************************************************)
FrontierOK(f) ==
  /\ DOMAIN f = {"order", "ptr", "active", "retired", "started", "injected", "average",
                 "everActivated", "everRetired"}
  /\ \E T : f.order \in Seq(T)
  /\ f.ptr \in 0..Len(f.order)
  /\ \A id \in ActiveIds(f) : f.active[id] \in Int
  /\ f.injected \in Int
  /\ f.average = NoAverage \/ f.average \in Int
  /\ Exact(f)

\* Dropping ids keeps a frontier exact, and the corpus takes what is left.
LEMMA PruneKeeps ==
  ASSUME NEW f, NEW known, FrontierOK(f)
  PROVE  LET g == PruneFrontier(f, known)
         IN  /\ FrontierOK(g) /\ g.started = f.started
             /\ ActiveIds(g) = ActiveIds(f) \cap known
             /\ \A id \in ActiveIds(g) : g.active[id] = f.active[id]
             /\ RestoreAccepted(g, known)
<1> DEFINE g == PruneFrontier(f, known)
           order == Kept(f.order, known)
           count == Cardinality({i \in 1..f.ptr : f.order[i] \in known})
           active == [id \in ActiveIds(f) \cap known |-> f.active[id]]
<1>1. /\ g.order = order /\ g.ptr = count /\ g.active = active /\ g.retired = f.retired \cap known
      /\ g.started = f.started /\ g.injected = f.injected /\ g.average = f.average
      /\ DOMAIN g = DOMAIN f
  <2>1. g = [f EXCEPT !.order = order, !.ptr = count, !.active = active, !.retired = f.retired \cap known]
    BY Zenon DEF PruneFrontier
  <2> HIDE DEF g, order, count, active
  <2> QED
    BY <2>1 DEF FrontierOK
<1>2. PICK T : f.order \in Seq(T)
  BY DEF FrontierOK
<1>3. /\ order \in Seq(T) /\ count \in 0..Len(order)
      /\ \A i \in 1..Len(order) : order[i] \in known
      /\ {order[i] : i \in 1..count} = {f.order[i] : i \in 1..f.ptr} \cap known
      /\ \A i, j \in DOMAIN order : order[i] = order[j] => i = j
  <2>1. f.ptr \in 0..Len(f.order) /\ \A i, j \in DOMAIN f.order : f.order[i] = f.order[j] => i = j
    BY DEF FrontierOK, Exact
  <2>2. PICK s, p : s = f.order /\ p = f.ptr
    OBVIOUS
  <2>3. /\ Kept(s, known) \in Seq(T)
        /\ Cardinality({i \in 1..p : s[i] \in known}) \in 0..Len(Kept(s, known))
        /\ \A i \in 1..Len(Kept(s, known)) : Kept(s, known)[i] \in known
        /\ {Kept(s, known)[i] : i \in 1..Cardinality({i \in 1..p : s[i] \in known})} =
             {s[i] : i \in 1..p} \cap known
        /\ \A i, j \in DOMAIN Kept(s, known) : Kept(s, known)[i] = Kept(s, known)[j] => i = j
    <3>1. /\ s \in Seq(T) /\ p \in 0..Len(s)
          /\ \A i, j \in DOMAIN s : s[i] = s[j] => i = j
      BY <1>2, <2>1, <2>2
    <3> QED
      BY <3>1, KeptElements
  <2> QED
    BY <2>2, <2>3
<1>4. /\ DOMAIN active = ActiveIds(f) \cap known
      /\ \A id \in DOMAIN active : active[id] = f.active[id] /\ active[id] \in Int
  BY DEF FrontierOK
<1>5. /\ {f.order[i] : i \in 1..f.ptr} = ActiveIds(f) \cup f.retired
      /\ ActiveIds(f) \cap f.retired = {}
      /\ f.injected \in Int /\ (f.average = NoAverage \/ f.average \in Int)
  BY DEF FrontierOK, Exact
<1> HIDE DEF g, order, count, active
<1>7. ActiveIds(g) = ActiveIds(f) \cap known
  BY <1>4, <1>1 DEF ActiveIds
<1>8. Exact(g)
  BY <1>3, <1>5, <1>1, <1>7 DEF Exact
<1>9. FrontierOK(g)
  <2>1. \A id \in ActiveIds(g) : g.active[id] \in Int
    BY <1>4, <1>1, <1>7
  <2> QED
    BY <1>1, <1>3, <1>5, <1>8, <2>1 DEF FrontierOK
<1>10. RestoreAccepted(g, known)
  BY <1>3, <1>1, <1>7 DEF RestoreAccepted
<1>11. \A id \in ActiveIds(g) : g.active[id] = f.active[id]
  BY <1>4, <1>1, <1>7
<1> QED
  BY <1>1, <1>7, <1>9, <1>10, <1>11 DEF g

\* w joins v and b, element by element: what the concatenation of two sequences gives.
Joins(w, v, b, T, q, r) ==
  /\ w \in Seq(T) /\ Len(w) = q + r
  /\ \A i \in 1..q : w[i] = v[i]
  /\ \A i \in 1..r : w[q + i] = b[i]

LEMMA Joined ==
  ASSUME NEW T, NEW v \in Seq(T), NEW b \in Seq(T)
  PROVE  Joins(v \o b, v, b, T, Len(v), Len(b))
<1> DEFINE w == v \o b
           q == Len(v)
           r == Len(b)
<1>0. q \in Nat /\ r \in Nat
  OBVIOUS
<1>1. /\ w \in Seq(T) /\ Len(w) = q + r
      /\ \A i \in 1..q + r : w[i] = IF i <= q THEN v[i] ELSE b[i - q]
  BY ConcatProperties, Zenon
<1> HIDE DEF w, q, r
<1>2. \A i \in 1..q : w[i] = v[i]
  <2> TAKE i \in 1..q
  <2>1. i \in 1..q + r /\ i <= q
    BY <1>0
  <2> QED
    BY <1>1, <2>1, Zenon
<1>3. \A i \in 1..r : w[q + i] = b[i]
  <2> TAKE i \in 1..r
  <2>1. q + i \in 1..q + r /\ ~(q + i <= q) /\ (q + i) - q = i
    BY <1>0
  <2> QED
    BY <1>1, <2>1, Zenon
<1> QED
  BY <1>1, <1>2, <1>3, Zenon DEF Joins, w, q, r

LEMMA Spliced ==
  ASSUME NEW T, NEW s \in Seq(T), NEW p \in 0..Len(s), NEW m \in Seq(T)
  PROVE  LET w == SubSeq(s, 1, p) \o m \o SubSeq(s, p + 1, Len(s))
         IN  /\ w \in Seq(T) /\ Len(w) = Len(s) + Len(m)
             /\ \A i \in 1..p : w[i] = s[i]
             /\ \A i \in 1..Len(m) : w[p + i] = m[i]
             /\ \A i \in p + 1..Len(s) : w[Len(m) + i] = s[i]
<1> DEFINE a == SubSeq(s, 1, p)
           b == SubSeq(s, p + 1, Len(s))
           v == a \o m
           w == v \o b
<1>1. PICK n \in Nat : n = Len(s)
  OBVIOUS
<1>2. PICK k \in Nat : k = Len(m)
  OBVIOUS
<1>3. p \in Nat /\ p <= n
  BY <1>1
<1>4. a \in Seq(T) /\ Len(a) = p /\ \A i \in 1..p : a[i] = s[i]
  BY <1>1, <1>3
<1>5. b \in Seq(T) /\ Len(b) = n - p /\ \A i \in 1..n - p : b[i] = s[p + i]
  BY <1>1, <1>3
<1> HIDE DEF a, b
<1>6. v \in Seq(T) /\ Len(v) = p + k /\ (\A i \in 1..p : v[i] = a[i]) /\ \A i \in 1..k : v[p + i] = m[i]
  <2>1. Joins(v, a, m, T, Len(a), Len(m))
    BY <1>4, Joined, Zenon
  <2> HIDE DEF v, w
  <2> QED
    BY <1>2, <1>4, <2>1, Zenon DEF Joins
<1> HIDE DEF v
<1>7. /\ w \in Seq(T) /\ Len(w) = n + k
      /\ (\A i \in 1..p + k : w[i] = v[i]) /\ \A i \in 1..n - p : w[p + k + i] = b[i]
  <2>1. PICK q \in Nat : q = p + k
    BY <1>3
  <2>2. PICK r \in Nat : r = n - p
    BY <1>3
  <2>3. v \in Seq(T) /\ b \in Seq(T) /\ Len(v) = q /\ Len(b) = r
    BY <1>5, <1>6, <2>1, <2>2
  <2>4. /\ w \in Seq(T) /\ Len(w) = q + r
        /\ (\A i \in 1..q : w[i] = v[i]) /\ \A i \in 1..r : w[q + i] = b[i]
    <3>1. Joins(w, v, b, T, Len(v), Len(b))
      BY <2>3, Joined, Zenon
    <3> HIDE DEF w
    <3> QED
      BY <2>3, <3>1, Zenon DEF Joins
  <2> HIDE DEF w
  <2>7. q + r = n + k
    BY <1>3, <2>1, <2>2
  <2> QED
    BY <2>1, <2>2, <2>4, <2>7
<1> HIDE DEF w
<1>8. \A i \in 1..p : w[i] = s[i]
  <2> TAKE i \in 1..p
  <2>1. i \in 1..p + k
    BY <1>3
  <2> QED
    BY <1>4, <1>6, <1>7, <2>1
<1>9. \A i \in 1..k : w[p + i] = m[i]
  <2> TAKE i \in 1..k
  <2>1. p + i \in 1..p + k
    BY <1>3
  <2> QED
    BY <1>6, <1>7, <2>1
<1>10. \A i \in p + 1..n : w[k + i] = s[i]
  <2> TAKE i \in p + 1..n
  <2>1. i - p \in 1..n - p /\ p + k + (i - p) = k + i /\ p + (i - p) = i
    BY <1>3
  <2>2. w[p + k + (i - p)] = b[i - p] /\ b[i - p] = s[p + (i - p)]
    BY <1>5, <1>7, <2>1
  <2> QED
    BY <2>1, <2>2
<1> QED
  BY <1>1, <1>2, <1>7, <1>8, <1>9, <1>10 DEF w, v, a, b

\* New ids wait behind the pointer, ahead of the old reserve.
LEMMA RefillKeeps ==
  ASSUME NEW f, NEW ids, FrontierOK(f), ids \subseteq DOMAIN FamilyOf
  PROVE  LET g == AddReserveIds(f, ids)
         IN  FrontierOK(g) /\ g.started = f.started /\ g.active = f.active
<1> DEFINE unseen == {id \in ids : id \notin ActiveIds(f) \cup f.retired /\ ~InOrder(f, id)}
           new == Interleaved(unseen)
           order == SubSeq(f.order, 1, f.ptr) \o new \o SubSeq(f.order, f.ptr + 1, Len(f.order))
           injected == f.injected + Cardinality(unseen)
           g == AddReserveIds(f, ids)
<1>1. /\ g.order = order /\ g.ptr = f.ptr /\ g.active = f.active /\ g.retired = f.retired
      /\ g.started = f.started /\ g.injected = injected /\ g.average = f.average
      /\ DOMAIN g = DOMAIN f
  <2>1. g = [f EXCEPT !.order = order, !.injected = injected]
    BY Zenon DEF AddReserveIds
  <2> HIDE DEF g, order, injected
  <2> QED
    BY <2>1 DEF FrontierOK
<1>2. PICK T : f.order \in Seq(T)
  BY DEF FrontierOK
<1>3. unseen \subseteq DOMAIN FamilyOf
  OBVIOUS
<1>4. \A i \in 1..Len(f.order) : f.order[i] \notin unseen
  BY DEF InOrder
<1> HIDE DEF unseen
<1>5. PICK k \in Nat : k = Cardinality(unseen)
  BY <1>3, DealIsTotal, FS_CardinalityType
<1>6. /\ new \in Seq(unseen) /\ Len(new) = k
      /\ \A i, j \in 1..k : new[i] = new[j] => i = j
  BY <1>3, <1>5, InterleavedIds
<1> HIDE DEF new
<1>7. PICK n \in Nat : n = Len(f.order)
  BY <1>2
<1>8. PICK p \in Nat : p = f.ptr /\ p <= n
  BY <1>7 DEF FrontierOK
<1>9. /\ order \in Seq(T \cup unseen) /\ Len(order) = n + k
      /\ \A i \in 1..p : order[i] = f.order[i]
      /\ \A i \in 1..k : order[p + i] = new[i]
      /\ \A i \in p + 1..n : order[k + i] = f.order[i]
  <2>1. f.order \in Seq(T \cup unseen) /\ new \in Seq(T \cup unseen)
    BY <1>2, <1>6
  <2>2. PICK s, m, U : s = f.order /\ m = new /\ U = T \cup unseen
    OBVIOUS
  <2>3. s \in Seq(U) /\ m \in Seq(U) /\ p \in 0..Len(s)
    BY <1>7, <1>8, <2>1, <2>2
  <2>4. LET w == SubSeq(s, 1, p) \o m \o SubSeq(s, p + 1, Len(s))
        IN  /\ w \in Seq(U) /\ Len(w) = Len(s) + Len(m)
            /\ \A i \in 1..p : w[i] = s[i]
            /\ \A i \in 1..Len(m) : w[p + i] = m[i]
            /\ \A i \in p + 1..Len(s) : w[Len(m) + i] = s[i]
    BY <2>3, Spliced
  <2>5. order = SubSeq(s, 1, p) \o m \o SubSeq(s, p + 1, Len(s)) /\ Len(s) = n /\ Len(m) = k
    BY <1>6, <1>7, <1>8, <2>2
  <2> HIDE DEF order
  <2> QED
    BY <2>2, <2>4, <2>5
<1> HIDE DEF order
<1>10. \A i, j \in 1..n : f.order[i] = f.order[j] => i = j
  BY <1>2, <1>7 DEF FrontierOK, Exact
<1> DEFINE Old(i) == i \in 1..p \/ i \in p + k + 1..n + k
           from(i) == IF i <= p THEN i ELSE i - k
<1>11. \A i \in 1..n + k : Old(i) => from(i) \in 1..n /\ order[i] = f.order[from(i)] /\ order[i] \notin unseen
  <2> SUFFICES ASSUME NEW i \in 1..n + k, Old(i)
               PROVE  from(i) \in 1..n /\ order[i] = f.order[from(i)]
    BY <1>4, <1>7
  <2>1. CASE i <= p
    BY <1>8, <1>9, <2>1
  <2>2. CASE ~(i <= p)
    <3>1. i - k \in p + 1..n /\ k + (i - k) = i /\ from(i) = i - k /\ from(i) \in 1..n
      BY <1>8, <2>2
    <3>2. order[k + (i - k)] = f.order[i - k]
      BY <1>9, <3>1
    <3> QED
      BY <3>1, <3>2
  <2> QED
    BY <2>1, <2>2
<1>12. \A i \in 1..n + k : ~Old(i) => i - p \in 1..k /\ order[i] = new[i - p] /\ order[i] \in unseen
  <2> SUFFICES ASSUME NEW i \in 1..n + k, ~Old(i)
               PROVE  i - p \in 1..k /\ order[i] = new[i - p] /\ order[i] \in unseen
    OBVIOUS
  <2>1. i - p \in 1..k /\ p + (i - p) = i
    BY <1>8
  <2>2. order[p + (i - p)] = new[i - p] /\ new[i - p] \in unseen
    BY <1>6, <1>9, <2>1
  <2> QED
    BY <2>1, <2>2
<1>13. \A i, j \in 1..n + k : order[i] = order[j] => i = j
  <2> SUFFICES ASSUME NEW i \in 1..n + k, NEW j \in 1..n + k, order[i] = order[j]
               PROVE  i = j
    OBVIOUS
  <2>1. CASE Old(i) /\ Old(j)
    <3>1. from(i) = from(j)
      BY <1>10, <1>11, <2>1
    <3> QED
      BY <1>8, <2>1, <3>1
  <2>2. CASE ~Old(i) /\ ~Old(j)
    <3> HIDE DEF Old
    <3>1. i - p = j - p
      BY <1>6, <1>12, <2>2
    <3> QED
      BY <3>1
  <2>3. CASE (Old(i) /\ ~Old(j)) \/ (~Old(i) /\ Old(j))
    <3> HIDE DEF Old
    <3> QED
      BY <1>11, <1>12, <2>3
  <2> QED
    BY <2>1, <2>2, <2>3
<1>14. {order[i] : i \in 1..p} = {f.order[i] : i \in 1..f.ptr}
  BY <1>8, <1>9
<1>15. injected \in Int
  BY <1>5 DEF FrontierOK
<1> HIDE DEF g, injected
<1>16. g.ptr = p
  BY <1>1, <1>8
<1>17. Exact(g)
  <2>1. DOMAIN order = 1..n + k
    BY <1>9
  <2>2. \A i, j \in DOMAIN g.order : g.order[i] = g.order[j] => i = j
    BY <1>13, <1>1, <1>16, <2>1
  <2>3. ActiveIds(g) = ActiveIds(f)
    BY <1>1, <1>16 DEF ActiveIds
  <2>4. ActiveIds(f) \cap f.retired = {} /\ {f.order[i] : i \in 1..f.ptr} = ActiveIds(f) \cup f.retired
    BY DEF FrontierOK, Exact
  <2>5. {g.order[i] : i \in 1..g.ptr} = ActiveIds(g) \cup g.retired
    BY <1>14, <1>1, <1>16, <2>3, <2>4
  <2> QED
    BY <1>1, <1>16, <2>2, <2>3, <2>4, <2>5 DEF Exact
<1>18. FrontierOK(g)
  <2>1. p \in 0..Len(order) /\ \E U : order \in Seq(U)
    BY <1>8, <1>9
  <2>2. (\A id \in ActiveIds(g) : g.active[id] \in Int) /\ (g.average = NoAverage \/ g.average \in Int)
    BY <1>1, <1>16 DEF FrontierOK, ActiveIds
  <2> QED
    BY <1>1, <1>15, <1>16, <1>17, <2>1, <2>2 DEF FrontierOK
<1> QED
  BY <1>1, <1>16, <1>18 DEF g

LEMMA ActiveFinite ==
  ASSUME NEW f, FrontierOK(f)
  PROVE  IsFiniteSet(ActiveIds(f))
<1> DEFINE passed == {f.order[i] : i \in 1..f.ptr}
           g == [i \in 1..f.ptr |-> f.order[i]]
<1>1. f.ptr \in Nat
  BY DEF FrontierOK
<1>2. IsFiniteSet(1..f.ptr)
  BY <1>1, FS_Interval
<1>3. g \in Surjection(1..f.ptr, passed)
  BY DEF Surjection
<1>4. IsFiniteSet(passed)
  <2> HIDE DEF g, passed
  <2> QED
    BY <1>2, <1>3, FS_Surjection
<1>5. ActiveIds(f) \in SUBSET passed
  BY DEF FrontierOK, Exact
<1> QED
  BY <1>4, <1>5, FS_Subset

LEMMA RetireKeeps ==
  ASSUME NEW f, NEW ids, FrontierOK(f), ids \subseteq ActiveIds(f)
  PROVE  LET g == Retire(f, ids)
         IN  /\ FrontierOK(g) /\ g.started = f.started
             /\ g.order = f.order /\ g.ptr = f.ptr /\ g.retired = f.retired \cup ids
             /\ ActiveIds(g) = ActiveIds(f) \ ids
             /\ \A id \in ActiveIds(g) : g.active[id] = f.active[id]
             /\ g.injected = f.injected /\ g.average = f.average
<1> DEFINE active == [id \in ActiveIds(f) \ ids |-> f.active[id]]
           retired == f.retired \cup ids
           count == f.everRetired + Cardinality(ids)
           g == Retire(f, ids)
<1>1. /\ g.order = f.order /\ g.ptr = f.ptr /\ g.active = active /\ g.retired = retired
      /\ g.started = f.started /\ g.injected = f.injected /\ g.average = f.average
      /\ DOMAIN g = DOMAIN f
  <2>1. g = [f EXCEPT !.active = active, !.retired = retired, !.everRetired = count]
    BY Zenon DEF Retire
  <2> HIDE DEF g, active, retired, count
  <2> QED
    BY <2>1 DEF FrontierOK
<1>2. /\ DOMAIN active = ActiveIds(f) \ ids
      /\ \A id \in DOMAIN active : active[id] = f.active[id] /\ active[id] \in Int
  BY DEF FrontierOK
<1> HIDE DEF active, g
<1>3. ActiveIds(g) = ActiveIds(f) \ ids
  BY <1>1, <1>2 DEF ActiveIds
<1>4. Exact(g)
  <2>1. /\ {f.order[i] : i \in 1..f.ptr} = ActiveIds(f) \cup f.retired
        /\ ActiveIds(f) \cap f.retired = {}
        /\ \A i, j \in DOMAIN f.order : f.order[i] = f.order[j] => i = j
    BY DEF FrontierOK, Exact
  <2>2. {g.order[i] : i \in 1..g.ptr} = ActiveIds(g) \cup g.retired
    BY <1>1, <1>3, <2>1
  <2> QED
    BY <1>1, <1>3, <2>1, <2>2 DEF Exact
<1>5. FrontierOK(g)
  <2>1. \A id \in ActiveIds(g) : g.active[id] \in Int
    BY <1>1, <1>2, <1>3
  <2> QED
    BY <1>1, <1>4, <2>1 DEF FrontierOK
<1> QED
  BY <1>1, <1>2, <1>3, <1>5 DEF g

\* Behind the pointer everything is fresh: a draw takes the next n, or what is
\* left.
LEMMA Drawn ==
  ASSUME NEW f, NEW n \in Int, FrontierOK(f)
  PROVE  LET last == IF n <= 0 THEN f.ptr
                     ELSE IF f.ptr + n <= Len(f.order) THEN f.ptr + n ELSE Len(f.order)
         IN  /\ last \in f.ptr..Len(f.order)
             /\ NextFresh(f, n) = f.ptr + 1..last
             /\ last = IF n <= 0 THEN f.ptr
                       ELSE IF Cardinality(NextFresh(f, n)) < n THEN Len(f.order)
                       ELSE Max(NextFresh(f, n))
<1>1. PICK m \in Nat : m = Len(f.order) /\ DOMAIN f.order = 1..m
  BY DEF FrontierOK
<1>2. PICK p \in Nat : p = f.ptr /\ p <= m
  BY <1>1 DEF FrontierOK
<1>3. FreshPositions(f) = p + 1..m
  <2>1. \A i \in p + 1..m : f.order[i] \notin ActiveIds(f) \cup f.retired
    <3> SUFFICES ASSUME NEW i \in p + 1..m, f.order[i] \in ActiveIds(f) \cup f.retired
                 PROVE  FALSE
      OBVIOUS
    <3>1. PICK j \in 1..p : f.order[j] = f.order[i]
      BY <1>2 DEF FrontierOK, Exact
    <3>2. i \in 1..m /\ j \in 1..m /\ i # j
      BY <1>2
    <3> QED
      BY <1>1, <3>1, <3>2 DEF FrontierOK, Exact
  <2> QED
    BY <1>1, <1>2, <2>1 DEF FreshPositions
<1> DEFINE last == IF n <= 0 THEN p ELSE IF p + n <= m THEN p + n ELSE m
<1>4. \A i \in p + 1..m : Cardinality({j \in FreshPositions(f) : j <= i}) = i - p
  <2> TAKE i \in p + 1..m
  <2>1. {j \in p + 1..m : j <= i} = p + 1..i
    BY <1>2
  <2>2. Cardinality(p + 1..i) = IF p + 1 > i THEN 0 ELSE i - (p + 1) + 1
    <3>1. p + 1 \in Int /\ i \in Int
      OBVIOUS
    <3> QED
      BY <3>1, FS_Interval
  <2>3. Cardinality(p + 1..i) = i - p
    BY <1>2, <2>2
  <2> QED
    BY <1>3, <2>1, <2>3
<1>5. last \in p..m
  BY <1>2
<1>6. NextFresh(f, n) = p + 1..last
  <2>1. NextFresh(f, n) = {i \in p + 1..m : i - p <= n}
    BY <1>3, <1>4 DEF NextFresh
  <2>2. {i \in p + 1..m : i - p <= n} = p + 1..last
    BY <1>2
  <2> QED
    BY <2>1, <2>2
<1>7. last \in Nat /\ Cardinality(p + 1..last) = last - p
  <2>1. last \in Nat
    BY <1>2
  <2> HIDE DEF last
  <2>2. Cardinality(p + 1..last) = IF p + 1 > last THEN 0 ELSE last - (p + 1) + 1
    BY <2>1, FS_Interval
  <2> QED
    BY <1>5, <2>1, <2>2
<1>8. last > p => Max(p + 1..last) = last
  <2>1. last > p => last \in p + 1..last /\ \A y \in p + 1..last : last >= y
    BY <1>5, <1>7
  <2> HIDE DEF last
  <2>2. \A x \in p + 1..last : (\A y \in p + 1..last : x >= y) /\ last > p => x = last
    BY <1>7
  <2> QED
    BY <1>7, <2>1, <2>2 DEF Max
<1>9. last = IF n <= 0 THEN p ELSE IF Cardinality(NextFresh(f, n)) < n THEN m ELSE Max(NextFresh(f, n))
  <2>1. CASE n <= 0
    BY <2>1
  <2>2. CASE n > 0 /\ p + n <= m
    <3>1. last = p + n /\ last > p
      BY <1>2, <2>2
    <3> HIDE DEF last
    <3> QED
      BY <1>6, <1>7, <1>8, <2>2, <3>1
  <2>3. CASE n > 0 /\ ~(p + n <= m)
    <3>1. last = m /\ last - p < n
      BY <1>2, <2>3
    <3> HIDE DEF last
    <3> QED
      BY <1>6, <1>7, <2>3, <3>1
  <2> QED
    BY <2>1, <2>2, <2>3
<1> QED
  BY <1>1, <1>2, <1>5, <1>6, <1>9

\* The ids drawn become active at this epoch; they were neither active nor retired.
LEMMA ActivateKeeps ==
  ASSUME NEW f, NEW n \in Int, NEW epoch \in Int, FrontierOK(f)
  PROVE  LET g == ActivateNext(f, n, epoch)
         IN  /\ FrontierOK(g) /\ g.started = f.started
             /\ g.average = f.average /\ g.injected = f.injected
             /\ \E drawn : /\ IsFiniteSet(drawn) /\ Cardinality(drawn) \in Nat
                           /\ ActiveIds(g) = ActiveIds(f) \cup drawn
                           /\ drawn \cap (ActiveIds(f) \cup f.retired) = {}
                           /\ \/ Cardinality(drawn) >= n
                              \/ Cardinality(drawn) = Len(f.order) - f.ptr
<1> DEFINE fresh == NextFresh(f, n)
           drawn == {f.order[i] : i \in fresh}
           last == IF n <= 0 THEN f.ptr
                   ELSE IF Cardinality(fresh) < n THEN Len(f.order) ELSE Max(fresh)
           active == [id \in ActiveIds(f) \cup drawn |-> IF id \in drawn THEN epoch ELSE f.active[id]]
           count == f.everActivated + Cardinality(fresh)
           g == ActivateNext(f, n, epoch)
<1>1. /\ g.order = f.order /\ g.ptr = last /\ g.active = active /\ g.retired = f.retired
      /\ g.started = f.started /\ g.injected = f.injected /\ g.average = f.average
      /\ DOMAIN g = DOMAIN f
  <2>1. g = [f EXCEPT !.ptr = last, !.active = active, !.everActivated = count]
    BY Zenon DEF ActivateNext
  <2> HIDE DEF g, last, active, count
  <2> QED
    BY <2>1 DEF FrontierOK
<1>2. PICK m \in Nat : m = Len(f.order) /\ DOMAIN f.order = 1..m
  BY DEF FrontierOK
<1>3. PICK p \in Nat : p = f.ptr /\ p <= m
  BY <1>2 DEF FrontierOK
<1>4. /\ last \in p..m /\ fresh = p + 1..last
      /\ last = IF n <= 0 THEN p ELSE IF p + n <= m THEN p + n ELSE m
  <2>1. PICK w : w = IF n <= 0 THEN f.ptr
                     ELSE IF f.ptr + n <= Len(f.order) THEN f.ptr + n ELSE Len(f.order)
    OBVIOUS
  <2>2. w \in f.ptr..Len(f.order) /\ fresh = f.ptr + 1..w /\ w = last
    BY <2>1, Drawn
  <2> HIDE DEF last, fresh
  <2> QED
    BY <1>2, <1>3, <2>1, <2>2
<1> HIDE DEF last, fresh
<1>5. PICK q \in Nat : q = last /\ p <= q /\ q <= m
  BY <1>3, <1>4
<1>6. \A i, j \in 1..m : f.order[i] = f.order[j] => i = j
  BY <1>2 DEF FrontierOK, Exact
<1>7. {f.order[i] : i \in 1..p} = ActiveIds(f) \cup f.retired /\ ActiveIds(f) \cap f.retired = {}
  BY <1>3 DEF FrontierOK, Exact
<1>8. drawn = {f.order[i] : i \in p + 1..q}
  BY <1>4, <1>5
<1>9. IsFiniteSet(drawn) /\ Cardinality(drawn) = q - p
  <2> DEFINE h == [i \in p + 1..q |-> f.order[i]]
  <2>1. h \in Surjection(p + 1..q, drawn)
    BY <1>8 DEF Surjection
  <2>2. h \in Injection(p + 1..q, drawn)
    <3>1. h \in [p + 1..q -> drawn]
      BY <1>8
    <3>2. \A i, j \in p + 1..q : h[i] = h[j] => i = j
      BY <1>5, <1>6
    <3> HIDE DEF h
    <3> QED
      BY <3>1, <3>2 DEF Injection, IsInjective
  <2>3. IsFiniteSet(p + 1..q) /\ Cardinality(p + 1..q) = q - p
    <3>1. p + 1 \in Int /\ q \in Int
      OBVIOUS
    <3>2. IsFiniteSet(p + 1..q) /\ Cardinality(p + 1..q) = IF p + 1 > q THEN 0 ELSE q - (p + 1) + 1
      BY <3>1, FS_Interval
    <3> QED
      BY <1>5, <3>2
  <2> HIDE DEF h, drawn
  <2> QED
    BY <2>1, <2>2, <2>3, FS_Surjection
<1>10. drawn \cap (ActiveIds(f) \cup f.retired) = {}
  <2> SUFFICES ASSUME NEW i \in p + 1..q, NEW j \in 1..p, f.order[i] = f.order[j]
               PROVE  FALSE
    BY <1>7, <1>8
  <2>1. i \in 1..m /\ j \in 1..m /\ i # j
    BY <1>5
  <2> QED
    BY <1>6, <2>1
<1>11. {f.order[i] : i \in 1..q} = (ActiveIds(f) \cup f.retired) \cup drawn
  <2>1. 1..q = 1..p \cup (p + 1..q)
    BY <1>5
  <2> QED
    BY <1>7, <1>8, <2>1
<1> HIDE DEF drawn, g
<1>12. /\ DOMAIN active = ActiveIds(f) \cup drawn
       /\ \A id \in DOMAIN active : active[id] \in Int
  BY DEF FrontierOK
<1>13. ActiveIds(g) = ActiveIds(f) \cup drawn
  BY <1>1, <1>12 DEF ActiveIds
<1>14. Exact(g)
  <2>1. {g.order[i] : i \in 1..g.ptr} = ActiveIds(g) \cup g.retired
    <3>1. {g.order[i] : i \in 1..g.ptr} = {f.order[i] : i \in 1..q}
      BY <1>1, <1>5
    <3> QED
      BY <1>1, <1>11, <1>13, <3>1
  <2> QED
    BY <1>1, <1>2, <1>6, <1>7, <1>10, <1>13, <2>1 DEF Exact
<1>15. FrontierOK(g)
  <2>1. \A id \in ActiveIds(g) : g.active[id] \in Int
    BY <1>1, <1>12, <1>13
  <2>2. g.ptr \in 0..Len(g.order)
    BY <1>1, <1>2, <1>5
  <2> QED
    BY <1>1, <1>14, <2>1, <2>2 DEF FrontierOK
<1>16. Cardinality(drawn) \in Nat /\ (Cardinality(drawn) >= n \/ Cardinality(drawn) = m - p)
  BY <1>4, <1>5, <1>9
<1> QED
  BY <1>1, <1>2, <1>3, <1>9, <1>10, <1>13, <1>15, <1>16 DEF g

\* The n oldest are at most n, and nothing that stays is older.
LEMMA OldestOnes ==
  ASSUME NEW f, NEW n \in Int, FrontierOK(f)
  PROVE  /\ Oldest(f, n) \subseteq ActiveIds(f) /\ IsFiniteSet(Oldest(f, n))
         /\ Cardinality(Oldest(f, n)) \in Nat
         /\ Cardinality(Oldest(f, n)) <= n \/ Cardinality(Oldest(f, n)) = 0
         /\ \A a \in Oldest(f, n), b \in ActiveIds(f) \ Oldest(f, n) : f.active[a] <= f.active[b]
<1> DEFINE A == ActiveIds(f)
           R == {x \in A \X A : OlderThan(f, x[1], x[2])}
           O == Oldest(f, n)
           place == [a \in O |-> Rank(A, R, a)]
<1>1. IsFiniteSet(A)
  BY ActiveFinite
<1>2. PICK m \in Nat : m = Len(f.order) /\ DOMAIN f.order = 1..m
  BY DEF FrontierOK
<1>3. \A a \in A : IndexOf(f, a) \in 1..m /\ f.order[IndexOf(f, a)] = a
  <2> TAKE a \in A
  <2>1. PICK i \in 1..f.ptr : f.order[i] = a
    BY DEF FrontierOK, Exact
  <2>2. i \in 1..Len(f.order)
    BY <1>2 DEF FrontierOK
  <2> QED
    BY <1>2, <2>1, <2>2 DEF IndexOf
<1>4. \A a, b \in A : IndexOf(f, a) = IndexOf(f, b) => a = b
  BY <1>3
<1>5. \A a \in A : f.active[a] \in Int /\ IndexOf(f, a) \in Int
  BY <1>3 DEF FrontierOK
<1>6. \A a, b \in A : <<a, b>> \in R <=> OlderThan(f, a, b)
  OBVIOUS
<1> HIDE DEF A, R
<1>7. StrictTotal(A, R)
  <2>1. \A a \in A : <<a, a>> \notin R
    BY <1>5, <1>6 DEF OlderThan
  <2>2. \A a, b \in A : a # b => <<a, b>> \in R \/ <<b, a>> \in R
    <3> TAKE a, b \in A
    <3>1. a # b => IndexOf(f, a) # IndexOf(f, b)
      BY <1>4
    <3>2. /\ f.active[a] \in Int /\ f.active[b] \in Int
          /\ IndexOf(f, a) \in Int /\ IndexOf(f, b) \in Int
      BY <1>5
    <3> QED
      BY <1>6, <3>1, <3>2 DEF OlderThan
  <2>3. \A a, b, c \in A : <<a, b>> \in R /\ <<b, c>> \in R => <<a, c>> \in R
    <3> TAKE a, b, c \in A
    <3>1. /\ f.active[a] \in Int /\ f.active[b] \in Int /\ f.active[c] \in Int
          /\ IndexOf(f, a) \in Int /\ IndexOf(f, b) \in Int /\ IndexOf(f, c) \in Int
      BY <1>5
    <3> QED
      BY <1>6, <3>1 DEF OlderThan
  <2> QED
    BY <2>1, <2>2, <2>3 DEF StrictTotal
<1>8. \A a \in A : Cardinality({b \in A : OlderThan(f, b, a)}) = Rank(A, R, a)
  <2> TAKE a \in A
  <2>1. {b \in A : OlderThan(f, b, a)} = {b \in A : <<b, a>> \in R}
    BY <1>6
  <2> QED
    BY <2>1 DEF Rank
<1>9. \A a : a \in O <=> a \in A /\ Rank(A, R, a) < n
  BY <1>8 DEF Oldest, A
<1>10. /\ \A a \in A : Rank(A, R, a) \in Nat
       /\ \A a, b \in A : <<a, b>> \in R <=> Rank(A, R, a) < Rank(A, R, b)
       /\ \A a, b \in A : Rank(A, R, a) = Rank(A, R, b) => a = b
  BY <1>1, <1>7, Ranked
<1> HIDE DEF O
<1>11. O \in SUBSET A /\ IsFiniteSet(O) /\ Cardinality(O) \in Nat
  <2>1. O \in SUBSET A
    BY <1>9
  <2> QED
    BY <1>1, <2>1, FS_Subset, FS_CardinalityType
<1>12. Cardinality(O) <= n \/ Cardinality(O) = 0
  <2>1. CASE n <= 0
    <3>1. O = {}
      BY <1>9, <1>10, <2>1
    <3> QED
      BY <3>1, FS_EmptySet
  <2>2. CASE n > 0
    <3>1. place \in Injection(O, 0..n - 1)
      <4>1. place \in [O -> 0..n - 1]
        BY <1>9, <1>10, <2>2
      <4>2. \A a, b \in O : place[a] = place[b] => a = b
        BY <1>9, <1>10
      <4> HIDE DEF place
      <4> QED
        BY <4>1, <4>2 DEF Injection, IsInjective
    <3>2. IsFiniteSet(0..n - 1) /\ Cardinality(0..n - 1) = n
      <4>1. 0 \in Int /\ n - 1 \in Int
        OBVIOUS
      <4>2. IsFiniteSet(0..n - 1) /\ Cardinality(0..n - 1) = IF 0 > n - 1 THEN 0 ELSE (n - 1) - 0 + 1
        BY <4>1, FS_Interval
      <4> QED
        BY <2>2, <4>2
    <3> HIDE DEF place
    <3> QED
      BY <3>1, <3>2, FS_Injection
  <2> QED
    BY <2>1, <2>2
<1>13. \A a \in O, b \in A \ O : f.active[a] <= f.active[b]
  <2> TAKE a \in O, b \in A \ O
  <2>1. a \in A /\ Rank(A, R, a) \in Nat /\ Rank(A, R, b) \in Nat
        /\ Rank(A, R, a) < n /\ ~(Rank(A, R, b) < n)
    BY <1>9, <1>10
  <2>2. Rank(A, R, a) < Rank(A, R, b)
    BY <2>1
  <2>3. OlderThan(f, a, b)
    BY <1>6, <1>10, <2>1, <2>2
  <2> QED
    BY <1>5, <2>1, <2>3 DEF OlderThan
<1> QED
  BY <1>11, <1>12, <1>13 DEF A, O

(***************************************************************************)
(* The controller                                                          *)
(***************************************************************************)
LEMMA LeastOfTwo ==
  ASSUME NEW a \in Int, NEW b \in Int
  PROVE  Min({a, b}) \in Int /\ Min({a, b}) <= a /\ Min({a, b}) <= b
<1>1. \E x \in {a, b} : \A y \in {a, b} : x <= y
  OBVIOUS
<1>2. Min({a, b}) \in {a, b} /\ \A y \in {a, b} : Min({a, b}) <= y
  BY <1>1 DEF Min
<1> QED
  BY <1>2

LEMMA LeastOfThree ==
  ASSUME NEW a \in Int, NEW b \in Int, NEW c \in Int
  PROVE  Min({a, b, c}) \in Int /\ Min({a, b, c}) <= c
<1>1. \E x \in {a, b, c} : \A y \in {a, b, c} : x <= y
  OBVIOUS
<1>2. Min({a, b, c}) \in {a, b, c} /\ \A y \in {a, b, c} : Min({a, b, c}) <= y
  BY <1>1 DEF Min
<1> QED
  BY <1>2

LEMMA GreatestOfTwo ==
  ASSUME NEW a \in Int, NEW b \in Int
  PROVE  Max({a, b}) \in Int /\ Max({a, b}) >= a /\ (a <= b => Max({a, b}) = b)
<1>1. \E x \in {a, b} : \A y \in {a, b} : x >= y
  OBVIOUS
<1>2. Max({a, b}) \in {a, b} /\ \A y \in {a, b} : Max({a, b}) >= y
  BY <1>1 DEF Max
<1> QED
  BY <1>2

LEMMA AtLeastZero ==
  ASSUME NEW a \in Int
  PROVE  Max({0, a}) \in Int /\ (0 <= a => Max({0, a}) = a)
<1>1. 0 \in Int
  OBVIOUS
<1> QED
  BY <1>1, GreatestOfTwo, Zenon

LEMMA ClampType ==
  ASSUME NEW x \in Int, NEW lo \in Int, NEW hi \in Int
  PROVE  Clamp(x, lo, hi) \in Int
BY LeastOfTwo, GreatestOfTwo DEF Clamp

LEMMA WantedType ==
  ASSUME NEW f, NEW profile, NEW accepts, NEW attempts, NEW average,
         FrontierOK(f), ProfileOK(profile), average = NoAverage \/ average \in Int
  PROVE  WantedRate(f, profile, accepts, attempts, average) \in Int
<1>1. /\ profile.churnRate \in Int /\ profile.bumpRate \in Int /\ profile.minChurn \in Int
      /\ profile.maxChurn \in Int /\ profile.targetAccepts \in Int /\ profile.unitsPerAccept \in Int
  BY DEF ProfileOK, Parameters
<1>2. f.injected \in Int
  BY DEF FrontierOK
<1>3. InjectedRate(f, profile) \in Int
  BY <1>1, <1>2, ClampType DEF InjectedRate
<1>4. HeadroomRate(average, profile) \in Int
  <2> DEFINE target == profile.targetAccepts * AverageScale
             recent == IF average = NoAverage THEN target ELSE average
             deficit == Max({0, target - recent})
             units == deficit * profile.unitsPerAccept
  <2>1. AverageScale \in Int /\ AverageScale > 0
    BY ScaleAssumption
  <2>2. target \in Int
    BY <1>1, <2>1
  <2> HIDE DEF target
  <2>3. recent \in Int
    BY <2>2
  <2> HIDE DEF recent
  <2>4. deficit \in Int
    <3>1. PICK d \in Int : d = target - recent
      BY <2>2, <2>3
    <3>2. Max({0, d}) \in Int
      BY AtLeastZero
    <3> QED
      BY <3>1, <3>2
  <2> HIDE DEF deficit
  <2>5. units \in Int
    BY <1>1, <2>4
  <2> HIDE DEF units
  <2>6. CeilDiv(units, AverageScale) \in Int
    BY <2>1, <2>5 DEF CeilDiv
  <2>7. Clamp(CeilDiv(units, AverageScale), profile.minChurn, profile.maxChurn) \in Int
    BY <1>1, <2>6, ClampType
  <2>8. HeadroomRate(average, profile) \in
          {Clamp(CeilDiv(units, AverageScale), profile.minChurn, profile.maxChurn), 0, profile.minChurn}
    BY Zenon DEF HeadroomRate, target, recent, deficit, units
  <2> QED
    BY <1>1, <2>7, <2>8
<1> DEFINE base == CASE profile.mode = "C1" -> profile.churnRate
                     [] profile.mode = "C2" -> IF accepts < profile.lowAdvancesThreshold
                                               THEN profile.bumpRate ELSE profile.churnRate
                     [] profile.mode = "C4" -> profile.minChurn
                     [] profile.mode = "C3" /\ attempts = 0 ->
                          IF f.injected > 0 THEN InjectedRate(f, profile) ELSE 0
                     [] OTHER -> HeadroomRate(average, profile)
<1>5. base \in Int
  BY <1>1, <1>3, <1>4
<1>6. WantedRate(f, profile, accepts, attempts, average) =
        IF profile.mode = "C3" /\ f.injected > 0 THEN Max({base, InjectedRate(f, profile)}) ELSE base
  BY DEF WantedRate
<1> HIDE DEF base
<1> QED
  <2>1. CASE profile.mode = "C3" /\ f.injected > 0
    <3>1. InjectedRate(f, profile) \in Int
      BY <1>3
    <3>2. Max({base, InjectedRate(f, profile)}) \in Int
      BY <1>5, <3>1, GreatestOfTwo
    <3> QED
      BY <1>6, <2>1, <3>2
  <2>2. CASE ~(profile.mode = "C3" /\ f.injected > 0)
    BY <1>5, <1>6, <2>2
  <2> QED
    BY <2>1, <2>2

\* The controller never asks for more than the reserve holds.
LEMMA RateBound ==
  ASSUME NEW f, NEW profile, NEW accepts, NEW attempts, NEW average,
         FrontierOK(f), ProfileOK(profile), average = NoAverage \/ average \in Int
  PROVE  /\ Rate(f, profile, accepts, attempts, average) \in Int
         /\ Rate(f, profile, accepts, attempts, average) <= Len(f.order) - f.ptr
<1> DEFINE wanted == WantedRate(f, profile, accepts, attempts, average)
           left == Len(f.order) - f.ptr
<1>1. left \in Int /\ 0 <= left
  BY DEF FrontierOK
<1>2. wanted \in Int /\ profile.maxRootDelta \in Int
  BY WantedType DEF ProfileOK, Parameters
<1>3. Rate(f, profile, accepts, attempts, average) =
        Min({wanted, profile.maxRootDelta, Max({0, left})})
  BY DEF Rate
<1> HIDE DEF wanted, left
<1>4. Max({0, left}) = left
  BY <1>1, AtLeastZero
<1>5. Rate(f, profile, accepts, attempts, average) \in Int
      /\ Rate(f, profile, accepts, attempts, average) <= left
  <2>1. Rate(f, profile, accepts, attempts, average) = Min({wanted, profile.maxRootDelta, left})
    BY <1>3, <1>4
  <2>2. PICK b \in Int : b = profile.maxRootDelta
    BY <1>2
  <2>3. Min({wanted, b, left}) \in Int /\ Min({wanted, b, left}) <= left
    BY <1>1, <1>2, LeastOfThree
  <2> QED
    BY <2>1, <2>2, <2>3
<1> QED
  BY <1>5 DEF left

LEMMA AveragedType ==
  ASSUME NEW f, NEW accepts \in Nat, FrontierOK(f)
  PROVE  Averaged(f, accepts) \in Int
<1>1. AverageScale \in Int /\ accepts * AverageScale \in Int
  BY ScaleAssumption
<1>2. f.average = NoAverage \/ f.average \in Int
  BY DEF FrontierOK
<1> QED
  BY <1>1, <1>2 DEF Averaged

\* Ids leave, and as many or more are drawn for them as the reserve has.
LEMMA Replaced ==
  ASSUME NEW f, NEW out, NEW n \in Int, NEW epoch \in Int, NEW g, FrontierOK(f),
         out \in SUBSET ActiveIds(f), IsFiniteSet(out), Cardinality(out) <= n,
         Cardinality(out) <= Len(f.order) - f.ptr,
         g = ActivateNext(Retire(f, out), n, epoch)
  PROVE  /\ FrontierOK(g) /\ g.started = f.started
         /\ ActiveIds(f) \cap ActiveIds(g) = ActiveIds(f) \ out
         /\ Cardinality(ActiveIds(g)) \in Nat
         /\ Cardinality(ActiveIds(g)) >= Cardinality(ActiveIds(f))
<1> DEFINE r == Retire(f, out)
<1>1. /\ FrontierOK(r) /\ r.started = f.started /\ r.order = f.order /\ r.ptr = f.ptr
      /\ r.retired = f.retired \cup out /\ ActiveIds(r) = ActiveIds(f) \ out
  BY RetireKeeps
<1>12. g = ActivateNext(r, n, epoch)
  OBVIOUS
<1> HIDE DEF r
<1>2. FrontierOK(g) /\ g.started = r.started
  BY <1>1, <1>12, ActivateKeeps
<1>3. PICK drawn : /\ IsFiniteSet(drawn) /\ Cardinality(drawn) \in Nat
                   /\ ActiveIds(g) = ActiveIds(r) \cup drawn
                   /\ drawn \cap (ActiveIds(r) \cup r.retired) = {}
                   /\ \/ Cardinality(drawn) >= n
                      \/ Cardinality(drawn) = Len(r.order) - r.ptr
  BY <1>1, <1>12, ActivateKeeps
<1>4. PICK A : A = ActiveIds(f)
  OBVIOUS
<1>5. IsFiniteSet(A) /\ out \in SUBSET A
  BY <1>4, ActiveFinite
<1>6. /\ Cardinality(out) \in Nat /\ Cardinality(A) \in Nat
      /\ IsFiniteSet(A \ out) /\ Cardinality(A \ out) = Cardinality(A) - Cardinality(out)
  <2>1. A \cap out = out
    BY <1>5
  <2> QED
    BY <1>5, <2>1, FS_Difference, FS_CardinalityType
<1>7. Cardinality((A \ out) \cup drawn) = Cardinality(A) - Cardinality(out) + Cardinality(drawn)
  <2>1. (A \ out) \cap drawn = {}
    BY <1>1, <1>3, <1>4
  <2>2. Cardinality((A \ out) \cup drawn) =
          Cardinality(A \ out) + Cardinality(drawn) - Cardinality((A \ out) \cap drawn)
    BY <1>3, <1>6, FS_Union
  <2>3. Cardinality((A \ out) \cap drawn) = 0
    BY <2>1, FS_EmptySet
  <2> QED
    BY <1>3, <1>6, <2>2, <2>3
<1>8. ActiveIds(g) = (A \ out) \cup drawn
  BY <1>1, <1>3, <1>4
<1>9. Cardinality(drawn) >= Cardinality(out)
  <2>1. CASE Cardinality(drawn) >= n
    BY <1>3, <1>6, <2>1
  <2>2. CASE Cardinality(drawn) = Len(r.order) - r.ptr
    BY <1>1, <2>2
  <2> QED
    BY <1>3, <2>1, <2>2
<1>10. Cardinality(ActiveIds(g)) \in Nat /\ Cardinality(ActiveIds(g)) >= Cardinality(A)
  <2>1. Cardinality(ActiveIds(g)) = Cardinality(A) - Cardinality(out) + Cardinality(drawn)
    BY <1>7, <1>8
  <2> QED
    BY <1>3, <1>6, <1>9, <2>1
<1>11. A \cap ActiveIds(g) = A \ out
  BY <1>1, <1>3, <1>4, <1>8
<1> QED
  BY <1>1, <1>2, <1>4, <1>10, <1>11 DEF r

\* What the controller writes down besides the ids.
LEMMA Noted ==
  ASSUME NEW f, NEW average, FrontierOK(f), average \in Int
  PROVE  LET g == [f EXCEPT !.injected = 0, !.average = average]
             h == [f EXCEPT !.injected = 0]
         IN  /\ FrontierOK(g) /\ g.started = f.started /\ g.active = f.active
             /\ FrontierOK(h) /\ h.started = f.started /\ h.active = f.active
<1> DEFINE g == [f EXCEPT !.injected = 0, !.average = average]
           h == [f EXCEPT !.injected = 0]
<1>1. /\ g.order = f.order /\ g.ptr = f.ptr /\ g.active = f.active /\ g.retired = f.retired
      /\ g.started = f.started /\ g.injected = 0 /\ g.average = average /\ DOMAIN g = DOMAIN f
  BY DEF FrontierOK
<1>2. /\ h.order = f.order /\ h.ptr = f.ptr /\ h.active = f.active /\ h.retired = f.retired
      /\ h.started = f.started /\ h.injected = 0 /\ h.average = f.average /\ DOMAIN h = DOMAIN f
  BY DEF FrontierOK
<1> HIDE DEF g, h
<1>3. Exact(g) /\ Exact(h) /\ ActiveIds(g) = ActiveIds(f) /\ ActiveIds(h) = ActiveIds(f)
  BY <1>1, <1>2 DEF Exact, ActiveIds, FrontierOK
<1>4. FrontierOK(g) /\ FrontierOK(h)
  BY <1>1, <1>2, <1>3 DEF FrontierOK
<1> QED
  BY <1>1, <1>2, <1>4 DEF g, h

\* The first step draws the window.
LEMMA FirstStepKeeps ==
  ASSUME NEW f, NEW profile, NEW epoch \in Int, FrontierOK(f), ProfileOK(profile)
  PROVE  FrontierOK(FirstStep(f, profile, epoch)) /\ FirstStep(f, profile, epoch).started
<1> DEFINE begun == [f EXCEPT !.started = TRUE]
           n == WindowOf(f, profile)
           g == ActivateNext(begun, n, epoch)
<1>1. /\ begun.order = f.order /\ begun.ptr = f.ptr /\ begun.active = f.active
      /\ begun.retired = f.retired /\ begun.started /\ begun.injected = f.injected
      /\ begun.average = f.average /\ DOMAIN begun = DOMAIN f
  BY DEF FrontierOK
<1>2. n \in Int
  <2>1. profile.activeWindow \in Int /\ Len(f.order) \in Int
    BY DEF ProfileOK, Parameters, FrontierOK
  <2> QED
    BY <2>1, LeastOfTwo DEF WindowOf
<1>3. FirstStep(f, profile, epoch) = [g EXCEPT !.injected = 0]
  BY DEF FirstStep
<1> HIDE DEF begun, n
<1>4. FrontierOK(begun)
  <2>1. Exact(begun) /\ ActiveIds(begun) = ActiveIds(f)
    BY <1>1 DEF Exact, ActiveIds, FrontierOK
  <2> QED
    BY <1>1, <2>1 DEF FrontierOK
<1>5. FrontierOK(g) /\ g.started
  BY <1>1, <1>2, <1>4, ActivateKeeps
<1> HIDE DEF g
<1>6. 0 \in Int
  OBVIOUS
<1>7. FrontierOK([g EXCEPT !.injected = 0]) /\ [g EXCEPT !.injected = 0].started = g.started
  BY <1>5, <1>6, Noted
<1> QED
  BY <1>3, <1>5, <1>7

\* A later step: the window loses at most the aged ids, and what it retires was
\* activated no later than what stays.
LEMMA LaterStepKeeps ==
  ASSUME NEW f, NEW profile, NEW epoch \in Int, NEW accepts \in Nat, NEW attempts,
         FrontierOK(f), ProfileOK(profile)
  PROVE  LET g == LaterStep(f, profile, epoch, accepts, attempts)
             aged == Aged(f, profile, epoch)
         IN  /\ FrontierOK(g) /\ g.started = f.started
             /\ IsFiniteSet(aged)
             /\ Cardinality(ActiveIds(g)) \in Nat
             /\ Cardinality(ActiveIds(g)) >= Cardinality(ActiveIds(f)) - Cardinality(aged)
             /\ \A gone \in ActiveIds(f) \ ActiveIds(g), stays \in ActiveIds(f) \cap ActiveIds(g) :
                  f.active[gone] <= f.active[stays]
<1> DEFINE aged == Aged(f, profile, epoch)
           kept == Retire(f, aged)
           average == Averaged(f, accepts)
           rate == Rate(kept, profile, accepts, attempts, average)
           old == Oldest(kept, rate)
           churned == Retire(kept, old)
           fixed == ActivateNext(kept, Cardinality(aged), epoch)
           turned == ActivateNext(churned, Cardinality(aged) + Cardinality(old), epoch)
           g == LaterStep(f, profile, epoch, accepts, attempts)
           After(h, out) == /\ FrontierOK(h) /\ h.started = f.started
                            /\ Cardinality(ActiveIds(h)) \in Nat
                            /\ Cardinality(ActiveIds(h)) >= Cardinality(ActiveIds(f)) - Cardinality(aged)
                            /\ ActiveIds(f) \cap ActiveIds(h) = (ActiveIds(f) \ aged) \ out
<1>1. average \in Int
  BY AveragedType
<1>2. g = IF profile.mode \in {"off", "C0"} THEN [fixed EXCEPT !.injected = 0]
          ELSE [turned EXCEPT !.injected = 0, !.average = average]
  BY Zenon DEF LaterStep
<1>3. PICK A : A = ActiveIds(f)
  OBVIOUS
<1>4. aged \in SUBSET A /\ IsFiniteSet(A) /\ IsFiniteSet(aged)
  <2>1. aged \in SUBSET A
    BY <1>3 DEF Aged
  <2> QED
    BY <1>3, <2>1, ActiveFinite, FS_Subset
<1>5. \A x \in aged, y \in A \ aged : f.active[x] <= f.active[y]
  <2> SUFFICES ASSUME NEW x \in aged, NEW y \in A \ aged
               PROVE  f.active[x] <= f.active[y]
    OBVIOUS
  <2>1. profile.maxAge \in Int /\ profile.maxAge # Unlimited
    BY DEF Aged, ProfileOK
  <2>2. f.active[x] \in Int /\ f.active[y] \in Int
    BY <1>3, <1>4 DEF FrontierOK
  <2>3. epoch - f.active[x] >= profile.maxAge /\ ~(epoch - f.active[y] >= profile.maxAge)
    BY <1>3, <2>1 DEF Aged
  <2> QED
    BY <2>1, <2>2, <2>3
<1> HIDE DEF aged
<1>6. /\ FrontierOK(kept) /\ kept.started = f.started /\ ActiveIds(kept) = A \ aged
      /\ kept.order = f.order /\ kept.ptr = f.ptr /\ kept.retired = f.retired \cup aged
      /\ \A id \in ActiveIds(kept) : kept.active[id] = f.active[id]
  BY <1>3, <1>4, RetireKeeps
<1> HIDE DEF kept, average
<1>7. rate \in Int /\ rate <= Len(kept.order) - kept.ptr
  BY <1>1, <1>6, RateBound
<1> HIDE DEF rate
<1>8. /\ old \subseteq ActiveIds(kept) /\ IsFiniteSet(old) /\ Cardinality(old) \in Nat
      /\ Cardinality(old) <= rate \/ Cardinality(old) = 0
      /\ \A x \in old, y \in ActiveIds(kept) \ old : kept.active[x] <= kept.active[y]
  BY <1>6, <1>7, OldestOnes
<1> HIDE DEF old
<1>9. /\ Cardinality(aged) \in Nat /\ Cardinality(A) \in Nat
      /\ Cardinality(A \ aged) = Cardinality(A) - Cardinality(aged)
  <2>1. A \cap aged = aged
    BY <1>4
  <2> QED
    BY <1>4, <2>1, FS_Difference, FS_CardinalityType
<1>10. After(fixed, {})
  <2>1. FrontierOK(fixed) /\ fixed.started = kept.started
    BY <1>6, <1>9, ActivateKeeps
  <2>2. PICK drawn : /\ IsFiniteSet(drawn) /\ Cardinality(drawn) \in Nat
                     /\ ActiveIds(fixed) = ActiveIds(kept) \cup drawn
                     /\ drawn \cap (ActiveIds(kept) \cup kept.retired) = {}
    BY <1>6, <1>9, ActivateKeeps
  <2> HIDE DEF fixed
  <2>3. IsFiniteSet(ActiveIds(fixed))
    BY <2>1, ActiveFinite
  <2>4. A \ aged \in SUBSET ActiveIds(fixed)
    BY <1>6, <2>2
  <2>5. Cardinality(A \ aged) <= Cardinality(ActiveIds(fixed)) /\ Cardinality(ActiveIds(fixed)) \in Nat
    BY <2>3, <2>4, FS_Subset, FS_CardinalityType
  <2>6. A \cap ActiveIds(fixed) = A \ aged
    BY <1>6, <2>2
  <2> QED
    BY <1>3, <1>6, <1>9, <2>1, <2>5, <2>6
<1>11. After(turned, old)
  <2> DEFINE n == Cardinality(aged) + Cardinality(old)
  <2>1. n \in Int /\ Cardinality(old) <= n
    BY <1>8, <1>9
  <2>2. Cardinality(old) <= Len(kept.order) - kept.ptr
    <3>1. Len(kept.order) - kept.ptr >= 0 /\ Len(kept.order) - kept.ptr \in Int
      BY <1>6 DEF FrontierOK
    <3> QED
      BY <1>7, <1>8, <3>1
  <2> HIDE DEF n
  <2>3. LET t == ActivateNext(Retire(kept, old), n, epoch)
        IN  /\ FrontierOK(t) /\ t.started = kept.started
            /\ ActiveIds(kept) \cap ActiveIds(t) = ActiveIds(kept) \ old
            /\ Cardinality(ActiveIds(t)) \in Nat
            /\ Cardinality(ActiveIds(t)) >= Cardinality(ActiveIds(kept))
    <3>1. /\ FrontierOK(kept) /\ old \subseteq ActiveIds(kept) /\ IsFiniteSet(old)
          /\ Cardinality(old) <= n /\ Cardinality(old) <= Len(kept.order) - kept.ptr
      BY <1>6, <1>8, <2>1, <2>2
    <3>2. n \in Int
      BY <2>1
    <3>3. PICK k, o : k = kept /\ o = old
      OBVIOUS
    <3>4. PICK m \in Int : m = n
      BY <3>2
    <3>5. PICK t : t = ActivateNext(Retire(k, o), m, epoch)
      OBVIOUS
    <3>6. /\ FrontierOK(t) /\ t.started = k.started
          /\ ActiveIds(k) \cap ActiveIds(t) = ActiveIds(k) \ o
          /\ Cardinality(ActiveIds(t)) \in Nat
          /\ Cardinality(ActiveIds(t)) >= Cardinality(ActiveIds(k))
      <4>1. /\ FrontierOK(k) /\ o \in SUBSET ActiveIds(k) /\ IsFiniteSet(o)
            /\ Cardinality(o) <= m /\ Cardinality(o) <= Len(k.order) - k.ptr
        BY <3>1, <3>3, <3>4
      <4>2. epoch \in Int
        OBVIOUS
      <4> QED
        BY <3>5, <4>1, <4>2, Replaced, ZenonT(40)
    <3>7. t = ActivateNext(Retire(kept, old), n, epoch)
      BY <3>3, <3>4, <3>5
    <3> QED
      BY <3>3, <3>6, <3>7
  <2>4. turned = ActivateNext(Retire(kept, old), n, epoch)
    BY DEF n
  <2>5. aged \cap ActiveIds(turned) = {}
    <3> DEFINE c == Retire(kept, old)
    <3>1. FrontierOK(c) /\ c.retired = kept.retired \cup old /\ ActiveIds(c) = ActiveIds(kept) \ old
      BY <1>6, <1>8, RetireKeeps
    <3> HIDE DEF c
    <3>2. PICK drawn : /\ ActiveIds(ActivateNext(c, n, epoch)) = ActiveIds(c) \cup drawn
                       /\ drawn \cap (ActiveIds(c) \cup c.retired) = {}
      BY <2>1, <3>1, ActivateKeeps
    <3> HIDE DEF turned, churned
    <3> QED
      BY <1>6, <2>4, <3>1, <3>2 DEF c
  <2> HIDE DEF turned
  <2>6. /\ FrontierOK(turned) /\ turned.started = f.started
        /\ ActiveIds(kept) \cap ActiveIds(turned) = ActiveIds(kept) \ old
        /\ Cardinality(ActiveIds(turned)) \in Nat
        /\ Cardinality(ActiveIds(turned)) >= Cardinality(A \ aged)
    BY <1>6, <2>3, <2>4
  <2>7. A \cap ActiveIds(turned) = (A \ aged) \ old
    BY <1>4, <1>6, <2>5, <2>6
  <2> QED
    BY <1>3, <1>9, <2>6, <2>7
<1> HIDE DEF fixed, turned
<1>12. PICK h, out : /\ After(h, out) /\ out \in {{}, old}
                     /\ FrontierOK(g) /\ g.started = h.started /\ g.active = h.active
  <2>1. CASE profile.mode \in {"off", "C0"}
    <3>1. /\ FrontierOK([fixed EXCEPT !.injected = 0])
          /\ [fixed EXCEPT !.injected = 0].started = fixed.started
          /\ [fixed EXCEPT !.injected = 0].active = fixed.active
      BY <1>1, <1>10, Noted
    <3> HIDE DEF After
    <3> QED
      BY <1>2, <1>10, <2>1, <3>1
  <2>2. CASE profile.mode \notin {"off", "C0"}
    <3>1. LET t == [turned EXCEPT !.injected = 0, !.average = average]
          IN  FrontierOK(t) /\ t.started = turned.started /\ t.active = turned.active
      BY <1>1, <1>11, Noted
    <3> HIDE DEF After
    <3> QED
      BY <1>2, <1>11, <2>2, <3>1
  <2> QED
    BY <2>1, <2>2
<1> HIDE DEF g
<1>13. ActiveIds(g) = ActiveIds(h)
  BY <1>12 DEF ActiveIds
<1>14. \A gone \in A \ ActiveIds(g), stays \in A \cap ActiveIds(g) : f.active[gone] <= f.active[stays]
  <2> SUFFICES ASSUME NEW gone \in A \ ActiveIds(g), NEW stays \in A \cap ActiveIds(g)
               PROVE  f.active[gone] <= f.active[stays]
    OBVIOUS
  <2>1. A \cap ActiveIds(g) = (A \ aged) \ out
    BY <1>3, <1>12, <1>13
  <2>2. stays \in A \ aged /\ stays \notin out /\ (gone \in aged \/ gone \in out)
    BY <2>1
  <2>3. CASE gone \in aged
    BY <1>5, <2>2, <2>3
  <2>4. CASE gone \in out
    <3>1. out = old
      BY <1>12, <2>4
    <3>2. gone \in old /\ stays \in ActiveIds(kept) \ old /\ gone \in ActiveIds(kept)
      BY <1>6, <1>8, <2>2, <2>4, <3>1
    <3>3. kept.active[gone] <= kept.active[stays]
      BY <1>8, <3>2
    <3> QED
      BY <1>6, <3>2, <3>3
  <2> QED
    BY <2>2, <2>3, <2>4
<1> QED
  BY <1>3, <1>4, <1>12, <1>13, <1>14 DEF g, aged

LEMMA StepKeeps ==
  ASSUME NEW f, NEW profile, NEW epoch \in Int, NEW accepts \in Nat, NEW attempts,
         FrontierOK(f), ProfileOK(profile)
  PROVE  LET g == StepEpoch(f, profile, epoch, accepts, attempts)
         IN  FrontierOK(g) /\ g.started
<1>1. CASE f.started
  BY <1>1, LaterStepKeeps DEF StepEpoch
<1>2. CASE ~f.started
  BY <1>2, FirstStepKeeps DEF StepEpoch
<1> QED
  BY <1>1, <1>2

\* A frontier starts with everything in reserve.
LEMMA NewKeeps ==
  ASSUME NEW ids, ids \subseteq DOMAIN FamilyOf
  PROVE  FrontierOK(NewFrontier(ids))
<1> DEFINE order == Interleaved(ids)
           f == [order |-> order, ptr |-> 0, active |-> <<>>, retired |-> {},
                 started |-> FALSE, injected |-> 0, average |-> NoAverage,
                 everActivated |-> 0, everRetired |-> 0]
<1>1. /\ order \in Seq(ids) /\ DOMAIN order = 1..Len(order) /\ Len(order) \in Nat
      /\ \A i, j \in DOMAIN order : order[i] = order[j] => i = j
  <2>1. /\ order \in Seq(ids) /\ Len(order) = Cardinality(ids)
        /\ \A i, j \in 1..Cardinality(ids) : order[i] = order[j] => i = j
    BY InterleavedIds
  <2> HIDE DEF order
  <2> QED
    BY <2>1
<1> HIDE DEF order
<1>5. /\ f.order = order /\ f.ptr = 0 /\ f.active = <<>> /\ f.retired = {} /\ f.injected = 0
      /\ f.average = NoAverage
      /\ DOMAIN f = {"order", "ptr", "active", "retired", "started", "injected", "average",
                     "everActivated", "everRetired"}
  OBVIOUS
<1>2. ActiveIds(f) = {} /\ 1..0 = {}
  BY DEF ActiveIds
<1> HIDE DEF f
<1>3. Exact(f)
  BY <1>1, <1>2, <1>5 DEF Exact
<1>4. FrontierOK(f)
  BY <1>1, <1>2, <1>3, <1>5 DEF FrontierOK
<1> QED
  BY <1>4 DEF NewFrontier, order, f
=============================================================================

--------------------------- MODULE EpochFrontier ---------------------------
\* The rotating frontier of hidden queries (coordinator/epoch-frontier.ts) as
\* operators on its runtime state:
\*   order     every id the frontier knows, in reserve order
\*   ptr       how many of them have been drawn from the reserve
\*   active    id -> the epoch it was activated in
\*   retired   ids that left the active set
\*   started, injected, average   the controller's memory
\* A profile holds the parameters of the controller. Seeded hashes are the
\* order of the natural numbers; roots stand for the sets they are hashes of.
EXTENDS Integers, FiniteSets, Sequences, SequencesExt, FiniteSetsExt

CONSTANTS
  FamilyOf,       \* id -> family (a number: families are sorted by name)
  Unlimited,      \* the age limit Infinity
  NoAverage,      \* the moving average before its first sample
  AverageScale    \* fixed-point scale of the average

\* There are finitely many ids (they are hashes), ordered by their text.
ASSUME FamilyAssumption ==
  /\ IsFiniteSet(DOMAIN FamilyOf)
  /\ \A id \in DOMAIN FamilyOf : id \in Int /\ FamilyOf[id] \in Int
ASSUME ScaleAssumption == AverageScale \in Nat \ {0}

\* The elements of S in the strict order R.
Rank(S, R, x) == Cardinality({y \in S : <<y, x>> \in R})
Enumerated(S, R) == [k \in 1..Cardinality(S) |-> CHOOSE x \in S : Rank(S, R, x) = k - 1]

\* Round robin over the families: first every family's first id, then every
\* family's second, and so on.
Round(ids, i) == Cardinality({j \in ids : FamilyOf[j] = FamilyOf[i] /\ j <= i})
Deal(ids) ==
  {p \in ids \X ids : \/ Round(ids, p[1]) < Round(ids, p[2])
                      \/ Round(ids, p[1]) = Round(ids, p[2]) /\ FamilyOf[p[1]] < FamilyOf[p[2]]}
Interleaved(ids) == Enumerated(ids, Deal(ids))

InOrder(f, id) == \E i \in 1..Len(f.order) : f.order[i] = id
IndexOf(f, id) == CHOOSE i \in 1..Len(f.order) : f.order[i] = id
ActiveIds(f) == DOMAIN f.active
WindowOf(f, profile) == Min({profile.activeWindow, Len(f.order)})

\* The parameters of a profile besides its mode.
Parameters ==
  {"activeWindow", "churnRate", "lowAdvancesThreshold", "bumpRate", "minChurn", "maxChurn",
   "targetAccepts", "lowWatermark", "highWatermark", "unitsPerAccept", "maxRootDelta"}
ProfileOK(p) ==
  /\ \A x \in Parameters : p[x] \in Int
  /\ p.maxAge = Unlimited \/ p.maxAge \in Int

\* The pointer has passed exactly the ids that are active or retired.
Exact(f) ==
  /\ {f.order[i] : i \in 1..f.ptr} = ActiveIds(f) \cup f.retired
  /\ ActiveIds(f) \cap f.retired = {}
  /\ \A i, j \in DOMAIN f.order : f.order[i] = f.order[j] => i = j

NewFrontier(ids) ==
  [order |-> Interleaved(ids), ptr |-> 0, active |-> <<>>, retired |-> {},
   started |-> FALSE, injected |-> 0, average |-> NoAverage,
   everActivated |-> 0, everRetired |-> 0]

\* A saved state is accepted when it names no id the corpus does not have; its
\* order replaces the one computed from the ids.
RestoreAccepted(saved, ids) ==
  /\ \A i \in 1..Len(saved.order) : saved.order[i] \in ids
  /\ ActiveIds(saved) \subseteq ids
  /\ saved.retired \subseteq ids

\* Reserve positions whose id is neither active nor retired; the others are
\* skipped when the pointer passes them.
FreshPositions(f) ==
  {i \in f.ptr + 1..Len(f.order) : f.order[i] \notin ActiveIds(f) \cup f.retired}
NextFresh(f, n) ==
  {i \in FreshPositions(f) : Cardinality({j \in FreshPositions(f) : j <= i}) <= n}

ActivateNext(f, n, epoch) ==
  LET drawn == NextFresh(f, n)
      ids == {f.order[i] : i \in drawn}
  IN  [f EXCEPT !.ptr = IF n <= 0 THEN @
                        ELSE IF Cardinality(drawn) < n THEN Len(f.order) ELSE Max(drawn),
                !.active = [id \in ActiveIds(f) \cup ids |->
                              IF id \in ids THEN epoch ELSE f.active[id]],
                !.everActivated = @ + Cardinality(drawn)]

Retire(f, ids) ==
  [f EXCEPT !.active = [id \in ActiveIds(f) \ ids |-> f.active[id]],
            !.retired = @ \cup ids,
            !.everRetired = @ + Cardinality(ids)]

\* Oldest activation first, ties in reserve order.
OlderThan(f, a, b) ==
  \/ f.active[a] < f.active[b]
  \/ f.active[a] = f.active[b] /\ IndexOf(f, a) < IndexOf(f, b)

\* Mutant: ties and ages the other way round.
OldestNewestFirst(f, n) ==
  {a \in ActiveIds(f) : Cardinality({b \in ActiveIds(f) : OlderThan(f, a, b)}) < n}

Oldest(f, n) ==
  {a \in ActiveIds(f) : Cardinality({b \in ActiveIds(f) : OlderThan(f, b, a)}) < n}

Aged(f, profile, epoch) ==
  IF profile.maxAge = Unlimited THEN {}
  ELSE {id \in ActiveIds(f) : epoch - f.active[id] >= profile.maxAge}

\* Exponential average of the accepts per epoch; half-life 1, so a sample
\* weighs one half.
Averaged(f, accepts) ==
  IF f.average = NoAverage THEN accepts * AverageScale
  ELSE (accepts * AverageScale + f.average) \div 2

CeilDiv(a, b) == (a + b - 1) \div b
Clamp(x, lo, hi) == Min({hi, Max({lo, x})})
InjectedRate(f, profile) == Clamp(f.injected, profile.minChurn, profile.maxChurn)

\* The controller of modes C3: replace as many ids as the missing accepts call
\* for, nothing while accepts are plentiful.
HeadroomRate(average, profile) ==
  LET recent == IF average = NoAverage THEN profile.targetAccepts * AverageScale ELSE average
      deficit == Max({0, profile.targetAccepts * AverageScale - recent})
  IN  IF recent <= profile.lowWatermark * AverageScale
      THEN Clamp(CeilDiv(deficit * profile.unitsPerAccept, AverageScale),
                 profile.minChurn, profile.maxChurn)
      ELSE IF recent >= profile.highWatermark * AverageScale THEN 0
      ELSE profile.minChurn

\* Churn asked for, before the two limits.
WantedRate(f, profile, accepts, attempts, average) ==
  LET base == CASE profile.mode = "C1" -> profile.churnRate
                [] profile.mode = "C2" -> IF accepts < profile.lowAdvancesThreshold
                                          THEN profile.bumpRate ELSE profile.churnRate
                [] profile.mode = "C4" -> profile.minChurn
                [] profile.mode = "C3" /\ attempts = 0 ->
                     IF f.injected > 0 THEN InjectedRate(f, profile) ELSE 0
                [] OTHER -> HeadroomRate(average, profile)
  IN  IF profile.mode = "C3" /\ f.injected > 0
      THEN Max({base, InjectedRate(f, profile)}) ELSE base

\* Mutant: the reserve is not looked at.
RateIgnoringReserve(f, profile, accepts, attempts, average) ==
  Min({WantedRate(f, profile, accepts, attempts, average), profile.maxRootDelta})

\* Both limits look at the frontier after retirement by age.
Rate(f, profile, accepts, attempts, average) ==
  Min({WantedRate(f, profile, accepts, attempts, average), profile.maxRootDelta,
       Max({0, Len(f.order) - f.ptr})})

FirstStep(f, profile, epoch) ==
  [ActivateNext([f EXCEPT !.started = TRUE], WindowOf(f, profile), epoch)
     EXCEPT !.injected = 0]

\* Retirement by age comes before the mode is looked at.
LaterStep(f, profile, epoch, accepts, attempts) ==
  LET aged == Aged(f, profile, epoch)
      kept == Retire(f, aged)
      average == Averaged(f, accepts)
      rate == Rate(kept, profile, accepts, attempts, average)
      old == Oldest(kept, rate)
      churned == Retire(kept, old)
  IN  IF profile.mode \in {"off", "C0"}
      THEN [ActivateNext(kept, Cardinality(aged), epoch) EXCEPT !.injected = 0]
      ELSE [ActivateNext(churned, Cardinality(aged) + Cardinality(old), epoch)
              EXCEPT !.injected = 0, !.average = average]

StepEpoch(f, profile, epoch, accepts, attempts) ==
  IF ~f.started THEN FirstStep(f, profile, epoch)
  ELSE LaterStep(f, profile, epoch, accepts, attempts)

\* New ids are spliced in at the pointer, ahead of the old reserve; ids the
\* frontier already knows are skipped.
AddReserveIds(f, ids) ==
  LET unseen == {id \in ids : id \notin ActiveIds(f) \cup f.retired /\ ~InOrder(f, id)}
  IN  [f EXCEPT !.order = SubSeq(@, 1, f.ptr) \o Interleaved(unseen)
                            \o SubSeq(@, f.ptr + 1, Len(@)),
                !.injected = @ + Cardinality(unseen)]

\* Array.filter
Kept(order, known) ==
  LET at == {i \in 1..Len(order) : order[i] \in known}
      position == Enumerated(at, {p \in at \X at : p[1] < p[2]})
  IN  [k \in 1..Cardinality(at) |-> order[position[k]]]

\* Mutant: the pointer stays where it was.
PruneKeepingPointer(f, known) ==
  [f EXCEPT !.order = Kept(@, known),
            !.active = [id \in ActiveIds(f) \cap known |-> f.active[id]],
            !.retired = @ \cap known]

\* Mutant: ids that were retired already are not looked at.
PruneKeepingRetired(f, known) ==
  [f EXCEPT !.order = Kept(@, known),
            !.ptr = Cardinality({i \in 1..f.ptr : f.order[i] \in known}),
            !.active = [id \in ActiveIds(f) \cap known |-> f.active[id]]]

\* Ids the corpus dropped leave every part of a saved state; the pointer goes
\* back by one for each of them it had passed (corpus/epoch-rotation.ts).
PruneFrontier(f, known) ==
  [f EXCEPT !.order = Kept(@, known),
            !.ptr = Cardinality({i \in 1..f.ptr : f.order[i] \in known}),
            !.active = [id \in ActiveIds(f) \cap known |-> f.active[id]],
            !.retired = @ \cap known]
=============================================================================

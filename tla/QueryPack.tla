----------------------------- MODULE QueryPack -----------------------------
\* The pack of hidden queries a patch is scored on (eval/hidden-query-pack.ts):
\* drawn from a seed under quotas, overlaid with the newest live queries, and
\* verified by deriving it again. An event is a record
\*   id, family, logicalFamily, split, truth, qrels, causalDepth,
\*   relationHopDepth, band, epoch, isMemory, intent
\* with relevances in tenths, epoch -1 for an event that is not live, and what
\* may be missing (logicalFamily, band, intent) a set of at most one element.
EXTENDS Integers, FiniteSets, Sequences, SequencesExt

CONSTANTS
  FamilyRank,     \* family -> its place in the order of names
  DrawsPerEvent   \* attempts a stratum has, per eligible event (8 in the code)

ASSUME DrawsPerEvent \in Nat \ {0}

\* How plausible the worst wrong answer is; what is graded a half or more is an
\* answer.
HardnessBucketFor(event) ==
  LET wrong == {event.qrels[d] : d \in {d \in DOMAIN event.qrels \ event.truth : event.qrels[d] < 5}}
  IN  IF \E r \in wrong : r >= 4 THEN "hard" ELSE IF \E r \in wrong : r >= 2 THEN "medium" ELSE "easy"

\* Every stratum an event counts for, of its family and of any.
StrataOf(event) ==
  LET plain == {<<"bucket", HardnessBucketFor(event)>>} \cup {<<"band", b>> : b \in event.band}
                 \cup {<<"depth", d>> : d \in 2..event.causalDepth}
                 \cup {<<"relationHop", d>> : d \in 2..event.relationHopDepth}
      family == <<"family", event.family>>
  IN  {family} \cup plain \cup {family \o s : s \in plain}

LogicalFamily(event) ==
  IF event.logicalFamily = {} THEN event.family ELSE CHOOSE f \in event.logicalFamily : TRUE

\* The families a profile leaves out: those of the pack's own lists and, when any
\* of three switches of the evaluator turns it off, the aspect constraints.
DisabledFamilies(profile) ==
  profile.disabledFamilies \cup profile.disabledSurfaces \cup
  IF "aspect_constraint" \in profile.evaluatorSurfacesOff \/ ~profile.aspectAtoms \/ ~profile.intentAdmission
  THEN {"aspect_constraint"} ELSE {}
HiddenPackEventEligible(event, profile) ==
  event.split = "eval_hidden" /\ LogicalFamily(event) \notin DisabledFamilies(profile)

Coverage(pack, stratum) == Cardinality({k \in DOMAIN pack : stratum \in StrataOf(pack[k])})
QuotasSatisfied(pack, quotas) ==
  \A k \in DOMAIN quotas : Coverage(pack, quotas[k].stratum) >= quotas[k].minCount

----------------------------------------------------------------------------
\* The quotas in their order take what is drawn for them, as long as they lack
\* something; whatever is drawn next fills the pack. draw[label, j] is a hash of
\* the seed.
Reserve(pack, quota, drawn, size) ==
  FoldLeft(LAMBDA p, e : IF \/ Coverage(p, quota.stratum) >= quota.minCount
                            \/ e \in Range(p) \/ quota.stratum \notin StrataOf(e)
                            \/ Len(p) >= size
                         THEN p ELSE Append(p, e),
           pack, drawn)
Fill(pack, drawn, size) ==
  FoldLeft(LAMBDA p, e : IF Len(p) >= size \/ e \in Range(p) THEN p ELSE Append(p, e), pack, drawn)

NoPack == [ok |-> FALSE]
PackOf(events) == [ok |-> TRUE, events |-> events]

DeriveQueryPack(draw, corpus, profile) ==
  LET sorted == SetToSortSeq({e \in corpus : HiddenPackEventEligible(e, profile)},
                             LAMBDA x, y : x.id < y.id)
      drawn(label) == [j \in 1..DrawsPerEvent * Len(sorted) |->
                         sorted[(draw[<<label, j>>] % Len(sorted)) + 1]]
      reserved ==
        FoldLeft(LAMBDA run, q :
                   LET pack == Reserve(run.events, q, drawn(q.stratum), profile.packSize)
                   IN  IF ~run.ok THEN run
                       ELSE [ok |-> Coverage(pack, q.stratum) >= q.minCount, events |-> pack],
                 PackOf(<<>>), profile.quotas)
      pack == Fill(reserved.events, drawn(<<"free">>), profile.packSize)
  IN  IF sorted = <<>> \/ ~reserved.ok THEN NoPack
      ELSE IF Len(pack) # profile.packSize THEN NoPack
      ELSE PackOf(pack)

----------------------------------------------------------------------------
\* The live queries that are worth an overlay, by family, the newest first.
IsActiveLiveEval(event, opts) ==
  /\ event.id \in opts.activeIds
  /\ event.split = "eval_hidden"
  /\ event.epoch >= 0 /\ ~event.isMemory
  /\ LogicalFamily(event) \notin opts.disabledFamilies
LiveRows(pack, corpus, opts, family) ==
  SetToSortSeq({e \in corpus : /\ IsActiveLiveEval(e, opts)
                               /\ LogicalFamily(e) = family
                               /\ e.id \notin {pack[k].id : k \in DOMAIN pack}},
               LAMBDA x, y : x.epoch > y.epoch \/ (x.epoch = y.epoch /\ x.id < y.id))
\* Families of the priority list first, the others by name.
FamilyOrder(opts) ==
  LET place(f) == IF f \in Range(opts.familyPriority)
                  THEN CHOOSE k \in DOMAIN opts.familyPriority : opts.familyPriority[k] = f
                  ELSE 999
  IN  SetToSortSeq(DOMAIN FamilyRank,
                   LAMBDA f, g : \/ place(f) < place(g)
                                 \/ place(f) = place(g) /\ FamilyRank[f] < FamilyRank[g])

\* One turn of a family: its first row whose intent nobody has taken; what it
\* passes over waits.
TakeUnique(run, family, opts) ==
  LET rows == run.rows[family]
      fresh == {k \in DOMAIN rows : ~opts.dedupe \/ rows[k].intent \cap run.used = {}}
      next == CHOOSE k \in fresh : \A j \in fresh : k <= j
  IN  IF Len(run.live) >= opts.limit THEN run
      ELSE IF fresh = {}
           THEN [run EXCEPT !.rows[family] = <<>>, !.deferred[family] = @ \o rows]
      ELSE [run EXCEPT !.live = Append(@, rows[next]),
                       !.used = @ \cup IF opts.dedupe THEN rows[next].intent ELSE {},
                       !.rows[family] = SubSeq(rows, next + 1, Len(rows)),
                       !.deferred[family] = @ \o SubSeq(rows, 1, next - 1)]
\* The second pass takes from those that wait.
TakeDeferred(run, family, opts) ==
  IF Len(run.live) >= opts.limit \/ run.deferred[family] = <<>> THEN run
  ELSE [run EXCEPT !.live = Append(@, Head(run.deferred[family])), !.deferred[family] = Tail(@)]

\* Round after round: a round that takes nothing is the last, and each other
\* one takes at least one, so that the limit bounds their number.
Rounds(opts) ==
  LET order == FamilyOrder(opts)
  IN  [k \in 1..(opts.limit * Len(order)) |-> order[((k - 1) % Len(order)) + 1]]
LiveEvents(pack, corpus, opts) ==
  LET start == [live |-> <<>>, used |-> {},
                rows |-> [f \in DOMAIN FamilyRank |-> LiveRows(pack, corpus, opts, f)],
                deferred |-> [f \in DOMAIN FamilyRank |-> <<>>]]
      unique == FoldLeft(LAMBDA run, f : TakeUnique(run, f, opts), start, Rounds(opts))
  IN  FoldLeft(LAMBDA run, f : TakeDeferred(run, f, opts), unique, Rounds(opts)).live

\* One live event into a pack under quotas: in place of the last event that is
\* not live and that the quotas can spare.
OverlayOne(final, event, opts, size) ==
  LET with(i) == <<event>> \o RemoveAt(final, i)
      spare == {i \in DOMAIN final :
                  ~IsActiveLiveEval(final[i], opts) /\ QuotasSatisfied(with(i), opts.quotas)}
  IN  IF event \in Range(final) THEN final
      ELSE IF Len(final) < size
           THEN IF QuotasSatisfied(<<event>> \o final, opts.quotas) THEN <<event>> \o final ELSE final
      ELSE IF spare = {} THEN final
      ELSE with(CHOOSE i \in spare : \A j \in spare : j <= i)

AdmitActiveLiveEvalEvents(pack, corpus, opts) ==
  LET live == LiveEvents(pack, corpus, opts)
      size == IF pack # <<>> THEN Len(pack) ELSE opts.limit
      front == live \o pack
  IN  IF opts.limit <= 0 THEN PackOf(pack)
      ELSE IF opts.quotas = <<>>
           THEN PackOf(IF live = <<>> THEN pack
                       ELSE SubSeq(front, 1, IF size < Len(front) THEN size ELSE Len(front)))
      ELSE IF ~QuotasSatisfied(pack, opts.quotas) THEN NoPack
      ELSE PackOf(FoldLeft(LAMBDA final, e : OverlayOne(final, e, opts, size), pack, live))

\* A published pack is the one its seed gives; "live" has the options of the
\* overlay, if there is one.
Rederived(draw, corpus, profile, live) ==
  LET base == DeriveQueryPack(draw, corpus, profile)
      opts == CHOOSE o \in live : TRUE
  IN  IF live = {} \/ ~base.ok THEN base ELSE AdmitActiveLiveEvalEvents(base.events, corpus, opts)
VerifyQueryPack(pack, root, corpusRoot, again) ==
  /\ root = corpusRoot
  /\ again.ok
  /\ [k \in DOMAIN pack |-> pack[k].id] = [k \in DOMAIN again.events |-> again.events[k].id]
=============================================================================

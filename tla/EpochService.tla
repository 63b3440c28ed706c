---------------------------- MODULE EpochService ----------------------------
(***************************************************************************)
(* EpochService: what an epoch is served by, and the turn from one epoch   *)
(* to the next.                                                            *)
(*                                                                         *)
(* Within an epoch the coordinator sends jobs to the keyless scorer        *)
(* (scorer-server-cli.ts), which scores them one at a time against what it *)
(* booted with; answers may be lost, jobs are sent again, the scorer may   *)
(* crash and boot anew.  An answer that passes the coordinator's checks    *)
(* (remote-scorer-verify.ts) waits to land on the live state               *)
(* (reducer/live-epoch.ts).                                                *)
(*                                                                         *)
(* At the end of an epoch the corpus takes a delta, which is published, and*)
(* the frontier of hidden queries is pruned, restored, refilled and stepped*)
(* (corpus/, coordinator/epoch-frontier.ts).  A follower applies published *)
(* deltas in whatever order they reach it.                                 *)
(***************************************************************************)
EXTENDS EpochFrontier, CorpusLifecycle, EpochReducer, EpochRewards, ScorerChecks

CONSTANTS
  FirstRecords,   \* the corpus of epoch 1
  Deltas,         \* logical deltas an epoch may end with: docs, queries, gone
  Profiles,       \* frontier profiles
  FirstState,     \* the memory state at the start
  Patches,        \* patches miners send, by their writes
  ScorePairs,     \* scores <<gate, confirm>> the two packs may give
  JobThreshold,   \* the screener threshold shipped with a job
  StateThreshold, \* the scorer bundle's threshold of a state advance
  GainThreshold,  \* the live lane's threshold
  QueueDepth,     \* CORETEX_SCORER_MAX_QUEUE_DEPTH
  Concurrency,    \* CORETEX_SCORER_CONCURRENCY
  MaxEpoch, MaxWork, MaxFaults    \* bounds

ASSUME ServiceConstants ==
  /\ QueueDepth \in Nat /\ Concurrency \in Nat \ {0}
  /\ {MaxEpoch, MaxWork, MaxFaults} \subseteq Nat
  /\ StateThreshold >= JobThreshold

VARIABLES
  epoch,        \* the coordinator's epoch
  corpus,       \* its corpus, with the root cache
  chain,        \* epoch -> the corpus records it began with, and the delta to them
  frontier,     \* the frontier after this epoch's step
  profile,      \* its parameters
  rotationRefused, \* the restored frontier was refused: the turn did not complete
  state,        \* the live memory state
  pending,      \* verified state advances waiting for the live lane
  line,         \* landed advances
  sent,         \* requests to the scorer; a job sent again is there twice
  outstanding,  \* ids of jobs without an accepted answer
  answers,      \* answers on their way
  scorer,       \* the scorer's process
  faults,       \* crashes, lost answers and throwing rerankers so far
  follower      \* a follower's corpus, without a cache

vars == <<epoch, corpus, chain, frontier, profile, rotationRefused, state, pending, line, sent,
          outstanding, answers, scorer, faults, follower>>
rotationVars == <<epoch, corpus, chain, frontier, profile, rotationRefused>>

----------------------------------------------------------------------------
\* Jobs and what the scorer holds. A request is n, id, epoch, parent, patch; the
\* rest of a job is the coordinator's context of its epoch. Bundle, model and
\* policy are the same throughout. Every job names its epoch's commitment: the field
\* is optional to the scorer, but the core signs no artifact without it.
CommitOf(e) == <<"commit", e>>
ASSUME CommitAssumption == \A e \in 0..MaxEpoch + 1 : CommitOf(e) # NoRecord
RootOf(e) == chain[e].root
OfThisEpoch(s) == {i \in DOMAIN s : s[i].epoch = epoch}

JobOf(r) ==
  [id |-> r.id, epoch |-> r.epoch, miner |-> "miner", parent |-> r.parent, packed |-> r.parent,
   patch |-> r.patch, corpus |-> RootOf(r.epoch), bundle |-> "bundle", core |-> "bundle",
   threshold |-> JobThreshold, policy |-> "policy", shaped |-> TRUE, commit |-> CommitOf(r.epoch),
   pins |-> [model |-> "model", revision |-> "revision", prompt |-> "prompt",
             bundle |-> "bundle", corpus |-> RootOf(r.epoch)],
   seeds |-> [wellFormed |-> TRUE, of |-> <<r.epoch, r.parent, r.patch>>]]

LoadedAt(e) ==
  [model |-> "model", revision |-> "revision", prompt |-> "prompt", bundle |-> "bundle",
   corpus |-> RootOf(e), core |-> "bundle", commit |-> CommitOf(e), epoch |-> e,
   stateThreshold |-> StateThreshold, health |-> "fp32-cuda"]

ActiveContext ==
  [epoch |-> epoch, parent |-> state, corpus |-> RootOf(epoch), bundle |-> "bundle",
   core |-> "bundle", policy |-> "policy", threshold |-> JobThreshold]

\* An answer is kept as what it was made from; ResultBody is the answer itself.
Answer(s, r, status, reason, scores) ==
  [request |-> r, boot |-> s.boot, status |-> status, reason |-> reason, scores |-> scores,
   trace |-> s.trace]

ResultBody(a) ==
  LET job == JobOf(a.request)
      loaded == LoadedAt(a.boot)
  IN  CASE a.status # "200" -> ErrorBody(job, a.status)
        [] a.status = "200" /\ a.reason # "none" -> RejectBody(job, loaded, a.trace, a.reason)
        [] OTHER -> AcceptBody(job, loaded, a.trace, a.scores[1], a.scores[2])

\* The dedup key: the epoch the scorer booted for, the parent and the patch.
KeyOf(s, r) == <<s.boot, r.parent, r.patch>>

Booted(e) == [up |-> TRUE, boot |-> e, queue |-> <<>>, active |-> {}, slots |-> 0,
              trace |-> <<>>, dedup |-> {}, scored |-> <<>>]
Down == [Booted(0) EXCEPT !.up = FALSE]

----------------------------------------------------------------------------
\* handleScoreJob up to its first call of the model: the checks, the trace of
\* the shared reranker set back, the dedup record looked up. A job that goes no
\* further is answered and gives its slot back before anything else happens.
Started(s, r) ==
  LET status == JobStatus(JobOf(r), LoadedAt(s.boot))
      fresh == [s EXCEPT !.trace = <<>>]
  IN  IF status # "200"
      THEN [scorer |-> s, answers |-> {Answer(s, r, status, "none", <<0, 0>>)}]
      ELSE IF KeyOf(s, r) \in s.dedup
      THEN [scorer |-> fresh,
            answers |-> {Answer(fresh, r, "200", "duplicate_submission", <<0, 0>>)}]
      ELSE [scorer |-> [fresh EXCEPT !.slots = @ + 1, !.active = @ \cup {[request |-> r, packs |-> 0]}],
            answers |-> {}]

\* Mutant: the drain does not count the jobs that run.
DrainUncounted(s) ==
  LET drained[n \in 0..Len(s.queue)] ==
        IF n = 0 THEN [scorer |-> [s EXCEPT !.queue = <<>>], answers |-> {}]
        ELSE LET next == Started(drained[n - 1].scorer, s.queue[n])
             IN  [next EXCEPT !.answers = @ \cup drained[n - 1].answers]
  IN  drained[Len(s.queue)]

\* drain: queued jobs are started while a slot is free.
Drain(s) ==
  LET drained[n \in 0..Len(s.queue)] ==
        IF n = 0 THEN [scorer |-> s, answers |-> {}]
        ELSE LET before == drained[n - 1]
                 next == Started([before.scorer EXCEPT !.queue = Tail(@)], Head(before.scorer.queue))
             IN  IF before.scorer.slots >= Concurrency THEN before
                 ELSE [next EXCEPT !.answers = @ \cup before.answers]
  IN  drained[Len(s.queue)]

\* enqueue: refused when the queue is full.
Enqueued(r) ==
  LET next == Drain([scorer EXCEPT !.queue = Append(@, r)])
  IN  IF Len(scorer.queue) >= QueueDepth
      THEN /\ answers' = answers \cup {Answer(scorer, r, "503", "none", <<0, 0>>)}
           /\ UNCHANGED scorer
      ELSE /\ scorer' = next.scorer
           /\ answers' = answers \cup next.answers

\* Bound: requests and turns of the epoch together.
MayWork == Len(sent) + epoch < MaxWork
Fault == faults < MaxFaults /\ faults' = faults + 1
MaySend == scorer.up /\ MayWork

\* A job for the coordinator's present context.
Submit(patch) ==
  LET id == Cardinality({sent[n].id : n \in DOMAIN sent}) + 1
      r == [n |-> Len(sent) + 1, id |-> id, epoch |-> epoch, parent |-> state, patch |-> patch]
  IN  /\ MaySend
      /\ sent' = Append(sent, r)
      /\ outstanding' = outstanding \cup {id}
      /\ Enqueued(r)
      /\ UNCHANGED <<rotationVars, state, pending, line, faults, follower>>

\* A job whose answer is missing is sent again as it was.
Resend(n) ==
  LET r == [sent[n] EXCEPT !.n = Len(sent) + 1]
  IN  /\ MaySend
      /\ sent[n].id \in outstanding
      /\ sent' = Append(sent, r)
      /\ Enqueued(r)
      /\ UNCHANGED <<rotationVars, state, pending, line, outstanding, faults, follower>>

\* One pack of a running job goes through the shared reranker.
ScorePack(a) ==
  /\ a.packs < 2
  /\ scorer' = [scorer EXCEPT !.active = (@ \ {a}) \cup {[a EXCEPT !.packs = @ + 1]},
                              !.trace = Append(@, a.request.n)]
  /\ UNCHANGED <<rotationVars, state, pending, line, sent, outstanding, answers, faults,
                 follower>>

\* Mutant: a run that failed keeps its slot.
ReleasedOnSuccess(s, a, failed) ==
  [s EXCEPT !.active = @ \ {a}, !.slots = IF failed THEN @ ELSE @ - 1]

Released(s, a, failed) == [s EXCEPT !.active = @ \ {a}, !.slots = @ - 1]

\* Mutant: only a rejection is remembered.
RecordedOnReject(s, r, passes) == IF passes THEN s.dedup ELSE s.dedup \cup {KeyOf(s, r)}

Recorded(s, r, passes) == s.dedup \cup {KeyOf(s, r)}

\* The evaluator's result: the confirm pack is scored only when the gate passes,
\* and the outcome is recorded before the answer.
Finish(a, scores) ==
  LET gatePass == scores[1] >= JobThreshold
      passes == gatePass /\ scores[2] >= JobThreshold
      done == [Released(scorer, a, FALSE) EXCEPT
                 !.dedup = Recorded(scorer, a.request, passes),
                 !.scored = Append(@, KeyOf(scorer, a.request))]
      next == Drain(done)
      answer == Answer(scorer, a.request, "200", IF passes THEN "none" ELSE "below_threshold",
                       IF passes THEN scores ELSE <<0, 0>>)
  IN  /\ a.packs = IF gatePass THEN 2 ELSE 1
      /\ UNCHANGED <<rotationVars, state, pending, line, sent, outstanding, faults, follower>>
      /\ scorer' = next.scorer
      /\ answers' = answers \cup {answer} \cup next.answers

\* The reranker throws: nothing is recorded.
ScoringFails(a) ==
  LET next == Drain(Released(scorer, a, TRUE))
  IN  /\ Fault
      /\ scorer' = next.scorer
      /\ answers' = answers \cup {Answer(scorer, a.request, "500", "none", <<0, 0>>)} \cup next.answers
      /\ UNCHANGED <<rotationVars, state, pending, line, sent, outstanding, follower>>

LoseAnswer(a) ==
  /\ Fault
  /\ answers' = answers \ {a}
  /\ UNCHANGED <<rotationVars, state, pending, line, sent, outstanding, scorer, follower>>

\* The answer reaches the coordinator; one that is not a 200 leaves the job
\* outstanding.
Receive(a) ==
  LET job == JobOf(a.request)
      result == ResultBody(a)
      good == /\ ResultVerdict(result, job, outstanding, ActiveContext, "fp32-cuda") = "ok"
              /\ SeedEchoed(result, job)
  IN  /\ answers' = answers \ {a}
      /\ outstanding' = IF a.status = "200" THEN outstanding \ {job.id} ELSE outstanding
      /\ pending' = IF a.status = "200" /\ good /\ OutcomeOf(result) = "state_advance"
                    THEN Append(pending, [request |-> a.request, boot |-> a.boot]) ELSE pending
      /\ UNCHANGED <<rotationVars, state, line, sent, scorer, faults, follower>>

\* One patch of the live lane.
PatchOf(r) == [type |-> r.patch.type, parent |-> r.parent, delta |-> 0, writes |-> r.patch.writes]

Land ==
  LET item == Head(pending)
      step == LiveStep(state, PatchOf(item.request), GainThreshold, TRUE)
      landed == Cardinality(OfThisEpoch(line))
  IN  /\ pending # <<>>
      /\ pending' = Tail(pending)
      /\ IF step.ok
         THEN /\ state' = step.state
              /\ line' = Append(line, [epoch |-> epoch, request |-> item.request, boot |-> item.boot,
                                       units |-> WorkUnits(DefaultPolicy, ADVANCE, landed)])
         ELSE UNCHANGED <<state, line>>
      /\ UNCHANGED <<rotationVars, sent, outstanding, answers, scorer, faults, follower>>

\* The process goes, with its queue and its dedup records; it boots for the
\* epoch it finds.
ScorerCrash ==
  /\ scorer.up /\ Fault
  /\ scorer' = Down
  /\ UNCHANGED <<rotationVars, state, pending, line, sent, outstanding, answers, follower>>

ScorerBoot ==
  /\ ~scorer.up
  /\ scorer' = Booted(epoch)
  /\ UNCHANGED <<rotationVars, state, pending, line, sent, outstanding, answers, faults,
                 follower>>

----------------------------------------------------------------------------
HiddenIds(records) == {r.id : r \in {q \in records : q.split = "eval_hidden"}}

\* The corpus's next delta, from a logical one.
LiveIn(e, items) == {[i EXCEPT !.live = IF @ > 0 THEN e ELSE 0] : i \in items}

\* Records and names have numbers, and no id stands for two records.
ASSUME CorpusConstants ==
  /\ IsFiniteSet(FirstRecords)
  /\ \A r \in FirstRecords : r.id \in Int
  /\ \A r, s \in FirstRecords : r.id = s.id => r = s
  /\ \A d \in Deltas, e \in 2..MaxEpoch :
       LET items == LiveIn(e, d.docs) \cup LiveIn(e, d.queries)
       IN  IsFiniteSet(items) /\ \A i \in items : i.name \in Int /\ i.live \in Int

\* The families of the hidden queries are known, and the profiles are numbers.
ASSUME FrontierConstants ==
  /\ HiddenIds(FirstRecords) \subseteq DOMAIN FamilyOf
  /\ \A d \in Deltas, e \in 2..MaxEpoch : \A q \in LiveIn(e, d.queries) : QueryId(q) \in DOMAIN FamilyOf
  /\ \A p \in Profiles : ProfileOK(p)

GoneIds(d) == {EventIdOfQuery(corpus, q) : q \in d.gone} \ {-1}

\* The end of an epoch. A frontier that cannot be restored stops the turn; the
\* scorer is not told.
EndEpoch(d) ==
  LET bridged == Bridged(corpus, LiveIn(epoch + 1, d.docs), LiveIn(epoch + 1, d.queries),
                         corpus.modelId, corpus.revision)
      delta == BuildDelta(corpus, bridged.records, GoneIds(d), epoch + 1)
      next == ApplyDelta(corpus, delta, TRUE)
      saved == PruneFrontier(frontier, HiddenIds(next.records))
      refilled == AddReserveIds(saved, HiddenIds(delta.added))
      accepts == Cardinality(OfThisEpoch(line))
      attempts == Cardinality(OfThisEpoch(sent))
  IN  /\ epoch < MaxEpoch /\ MayWork /\ ~rotationRefused
      /\ bridged.ok /\ delta.ok /\ DeltaVerdict(corpus, delta, TRUE) = "ok"
      /\ IF RestoreAccepted(saved, HiddenIds(next.records))
         THEN /\ epoch' = epoch + 1
              /\ corpus' = next
              /\ chain' = Append(chain, [records |-> next.records, root |-> next.root, delta |-> {delta}])
              /\ frontier' = StepEpoch(refilled, profile, epoch + 1, accepts, attempts)
              /\ pending' = <<>>
              /\ UNCHANGED rotationRefused
         ELSE /\ rotationRefused' = TRUE
              /\ UNCHANGED <<epoch, corpus, chain, frontier, pending>>
      /\ UNCHANGED <<profile, state, line, sent, outstanding, answers, scorer, faults,
                     follower>>

\* A published delta reaches the follower, in any order and as often as may be;
\* one that its corpus refuses changes nothing.
FollowerApply(e) ==
  \E delta \in chain[e].delta :
    /\ UNCHANGED <<rotationVars, state, pending, line, sent, outstanding, answers, scorer, faults>>
    /\ DeltaVerdict(follower, delta, TRUE) = "ok"
    /\ follower' = ApplyDelta(follower, delta, FALSE)
    /\ follower' # follower

Init ==
  /\ epoch = 1
  /\ corpus = Corpus(FirstRecords, Present(CacheOf(FirstRecords)), "bge", "revision")
  /\ chain = << [records |-> FirstRecords, root |-> corpus.root, delta |-> {}] >>
  /\ profile \in Profiles
  /\ frontier = StepEpoch(NewFrontier(HiddenIds(FirstRecords)), profile, 1, 0, 0)
  /\ rotationRefused = FALSE
  /\ state = FirstState
  /\ pending = <<>> /\ line = <<>> /\ sent = <<>>
  /\ outstanding = {} /\ answers = {}
  /\ scorer = Booted(1)
  /\ faults = 0
  /\ follower = [corpus EXCEPT !.cache = Absent]

Next ==
  \/ \E patch \in Patches : Submit(patch)
  \/ \E n \in DOMAIN sent : Resend(n)
  \/ \E a \in scorer.active : ScorePack(a)
  \/ \E a \in scorer.active, scores \in ScorePairs : Finish(a, scores)
  \/ \E a \in scorer.active : ScoringFails(a)
  \/ \E a \in answers : LoseAnswer(a)
  \/ \E a \in answers : Receive(a)
  \/ Land
  \/ ScorerCrash
  \/ ScorerBoot
  \/ \E d \in Deltas : EndEpoch(d)
  \/ \E e \in DOMAIN chain : FollowerApply(e)

Spec == Init /\ [][Next]_vars

----------------------------------------------------------------------------
(* The pairs an answer's trace covers are the answer's own job's, and all of *)
(* them when it was accepted (the shared traced reranker, scorer-server-cli).*)
TraceIsOwnJobs ==
  \A a \in answers : a.status = "200" =>
    /\ Range(a.trace) \subseteq {a.request.n}
    /\ a.reason = "none" => Len(a.trace) = 2

(* Between two boots no submission is scored to its end twice, however often *)
(* it is sent (production-evaluator's dedup, recorded before the answer).    *)
OneScoringPerBoot ==
  \A i, j \in DOMAIN scorer.scored : scorer.scored[i] = scorer.scored[j] => i = j

(* A job waits only behind one that runs, whose end starts it: no run, done  *)
(* or thrown, keeps the slot that the queue waits for (createScorerJobQueue).*)
WaitsOnlyBehindRunning == scorer.queue # <<>> => Cardinality(scorer.active) = Concurrency

(* What landed was evaluated in the epoch it landed in, against that epoch's *)
(* corpus and commitment: the artifact of a scorer left over from the epoch  *)
(* before is never what an advance is published with.                        *)
LandedOnItsContext ==
  \A i \in DOMAIN line :
    LET artifact == ArtifactOf(JobOf(line[i].request), LoadedAt(line[i].boot), "STATE_ADVANCE")
    IN  /\ artifact.epoch = line[i].epoch
        /\ artifact.corpus = RootOf(line[i].epoch)
        /\ artifact.commit = CommitOf(line[i].epoch)

(* The landed advances, one after the other through the strict application   *)
(* a replayer uses, lead from the first state to the live one.               *)
LineReplays ==
  LET at[i \in 0..Len(line)] ==
        IF i = 0 THEN Applied(FirstState)
        ELSE IF ~at[i - 1].ok THEN at[i - 1]
        ELSE ApplyPatch(at[i - 1].state, PatchOf(line[i].request), TRUE)
  IN  at[Len(line)] = Applied(state)

(* The pruned frontier fits the corpus it is restored with: no delta leaves  *)
(* the next epoch without a frontier (epoch-rotation, makeEpochFrontier).    *)
RotationCompletes == ~rotationRefused

(* The reserve pointer is exact: what it has passed is active or retired,    *)
(* what is behind it is neither, through prunes and refills.                 *)
ReserveExact == Exact(frontier)

\* The active ids an epoch's turn leaves in the corpus, and those of age.
KeptActive == ActiveIds(frontier) \cap HiddenIds(corpus'.records)
OfAge == {id \in KeptActive : /\ profile.maxAge # Unlimited
                              /\ epoch' - frontier.active[id] >= profile.maxAge}

(* Churn never shrinks the window: over a turn it loses at most the ids that *)
(* reached their age and those the corpus dropped.                           *)
WindowShrinksOnlyByAge ==
  [][epoch' # epoch =>
       Cardinality(ActiveIds(frontier')) >= Cardinality(KeptActive) - Cardinality(OfAge)]_vars

(* An id that a turn retires was activated no later than any that stays.     *)
OldestLeaveFirst ==
  [][epoch' # epoch =>
       \A gone \in KeptActive \ ActiveIds(frontier'), stays \in KeptActive \cap ActiveIds(frontier') :
         frontier.active[gone] <= frontier.active[stays]]_vars

(* Whatever deltas reach it in whatever order, the follower's corpus is one  *)
(* the coordinator has had, under its root (applyCorpusDelta).               *)
FollowerOnChain ==
  \E e \in DOMAIN chain : follower.records = chain[e].records /\ follower.root = chain[e].root

(* A follower that is behind always finds a published delta it accepts and   *)
(* that takes it further: the roots the coordinator publishes from its cache *)
(* are the ones a follower without a cache computes.                         *)
FollowerNeverStuck ==
  follower.records = corpus.records
    \/ \E e \in DOMAIN chain : \E delta \in chain[e].delta :
         /\ DeltaVerdict(follower, delta, TRUE) = "ok"
         /\ ApplyDelta(follower, delta, FALSE).records # follower.records
=============================================================================

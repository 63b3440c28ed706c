------------------------- MODULE EpochService_proofs -------------------------
(***************************************************************************)
(* Theorems of EpochService: the scorer's queue for any number of workers, *)
(* the traces and the dedup records of a scorer that runs one job at a     *)
(* time, the epoch of what lands and the line it makes, the turns of the   *)
(* frontier, the corpus's root cache, and the follower of the deltas.      *)
(***************************************************************************)
EXTENDS EpochService, EpochFrontier_proofs, FiniteSetTheorems, WellFoundedInduction, TLAPS

(***************************************************************************)
(* Sequences, and the least of a set of naturals                           *)
(***************************************************************************)
LEMMA LeastExists ==
  ASSUME NEW S, S \subseteq Nat, S # {}
  PROVE  \E m \in S : \A j \in S : m <= j
<1> DEFINE Less == {x \in Nat \X Nat : x[1] < x[2]}
<1>1. IsWellFoundedOn(Less, Nat)
  BY NatLessThanWellFounded, Zenon DEF OpToRel
<1>2. \E m \in S : \A j \in S : <<j, m>> \notin Less
  BY <1>1, WFMin
<1>3. PICK m \in S : \A j \in S : <<j, m>> \notin Less
  BY <1>2
<1>4. \A j \in S : ~(j < m)
  <2> TAKE j \in S
  <2>1. j \in Nat /\ m \in Nat
    OBVIOUS
  <2> QED
    BY <1>3, <2>1
<1>5. \A j \in S : m <= j
  BY <1>4
<1> QED
  BY <1>5

\* What holds at 0 and is handed from each number to the next holds up to n.
LEMMA NoLeastException ==
  ASSUME NEW n \in Nat, NEW Exceptions, Exceptions \subseteq 0..n, 0 \notin Exceptions,
         \A m \in 1..n : m - 1 \notin Exceptions => m \notin Exceptions
  PROVE  Exceptions = {}
<1> SUFFICES ASSUME Exceptions # {} PROVE FALSE
  OBVIOUS
<1>1. PICK m \in Exceptions : \A j \in Exceptions : m <= j
  <2>1. Exceptions \subseteq Nat
    OBVIOUS
  <2> QED
    BY <2>1, LeastExists
<1>2. m \in 1..n /\ m - 1 \notin Exceptions
  BY <1>1
<1> QED
  BY <1>1, <1>2

\* A sequence, of whatever elements.
Listed(s) == s \in Seq(Range(s))

LEMMA ListedIn ==
  ASSUME NEW S, NEW s \in Seq(S)
  PROVE  Listed(s)
<1>1. \A i \in 1..Len(s) : s[i] \in Range(s)
  BY DEF Range
<1>2. Len(s) \in Nat /\ DOMAIN s = 1..Len(s) /\ s = [i \in 1..Len(s) |-> s[i]]
  OBVIOUS
<1> QED
  BY <1>1, <1>2 DEF Listed

LEMMA ListedAppend ==
  ASSUME NEW s, Listed(s), NEW e
  PROVE  /\ Listed(Append(s, e)) /\ Len(s) \in Nat /\ Len(Append(s, e)) = Len(s) + 1
         /\ DOMAIN s = 1..Len(s) /\ DOMAIN Append(s, e) = 1..Len(s) + 1
         /\ \A i \in 1..Len(s) : Append(s, e)[i] = s[i]
         /\ Append(s, e)[Len(s) + 1] = e
<1> DEFINE S == Range(s) \cup {e}
<1>1. s \in Seq(S)
  BY DEF Listed
<1>2. Append(s, e) \in Seq(S)
  BY <1>1
<1> HIDE DEF S
<1>3. Listed(Append(s, e))
  BY <1>2, ListedIn
<1>4. e \in S
  BY DEF S
<1> QED
  BY <1>1, <1>3, <1>4

LEMMA ListedTail ==
  ASSUME NEW s, Listed(s), s # <<>>
  PROVE  /\ Listed(Tail(s)) /\ Len(s) \in Nat \ {0} /\ Len(Tail(s)) = Len(s) - 1
         /\ Head(s) = s[1]
         /\ DOMAIN s = 1..Len(s) /\ DOMAIN Tail(s) = 1..Len(s) - 1
         /\ \A i \in 1..Len(s) - 1 : Tail(s)[i] = s[i + 1]
<1>1. s \in Seq(Range(s))
  BY DEF Listed
<1>2. Tail(s) \in Seq(Range(s))
  BY <1>1
<1>3. Listed(Tail(s))
  BY <1>2, ListedIn
<1> QED
  BY <1>1, <1>3

(***************************************************************************)
(* Early returns                                                           *)
(***************************************************************************)
\* The verdict of a chain of checks is "ok" when none refuses, or the code of
\* one that does.
LEMMA VerdictIs ==
  ASSUME NEW checks, NEW n \in Nat, DOMAIN checks = 1..n
  PROVE  \/ Verdict(checks) = "ok" /\ \A i \in 1..n : ~checks[i][1]
         \/ \E i \in 1..n : checks[i][1] /\ Verdict(checks) = checks[i][2]
<1> DEFINE R == {j \in 1..n : checks[j][1]}
<1>1. CASE R = {}
  BY <1>1 DEF Verdict, Refused
<1>2. CASE R # {}
  <2>1. R \subseteq Nat
    OBVIOUS
  <2>2. PICK m \in R : \A j \in R : m <= j
    BY <1>2, <2>1, LeastExists
  <2>3. m \in DOMAIN checks /\ checks[m][1] /\ \A j \in 1..m - 1 : ~checks[j][1]
    BY <2>2
  <2>4. FirstRefusal(checks) \in DOMAIN checks /\ checks[FirstRefusal(checks)][1]
    BY <2>3 DEF FirstRefusal
  <2> QED
    BY <2>3, <2>4 DEF Verdict, Refused
<1> QED
  BY <1>1, <1>2

\* A job the scorer goes on with is of the epoch the scorer booted for: the
\* commitments of two epochs differ.
LEMMA GoesOnInItsEpoch ==
  ASSUME NEW r, NEW s, r.epoch \in 0..MaxEpoch + 1, s.boot \in 0..MaxEpoch + 1,
         JobStatus(JobOf(r), LoadedAt(s.boot)) = "200"
  PROVE  r.epoch = s.boot
<1> DEFINE job == JobOf(r)
           loaded == LoadedAt(s.boot)
           pins == << <<job.pins.model # loaded.model,       "MODEL">>,
                      <<job.pins.revision # loaded.revision, "REVISION">>,
                      <<job.pins.prompt # loaded.prompt,     "PROMPT">>,
                      <<job.pins.bundle # loaded.bundle,     "BUNDLE">>,
                      <<job.pins.corpus # loaded.corpus,     "CORPUS">>,
                      <<job.corpus # loaded.corpus,          "JOB_CORPUS">>,
                      <<job.bundle # loaded.bundle,          "JOB_BUNDLE">>,
                      <<job.core # loaded.core,              "JOB_CORE">>,
                      <<CommitDiffers(job, loaded),          "COMMIT">> >>
           checks == << <<ShapeVerdict(job) # "ok", "400">>,
                        <<Verdict(pins) # "ok", "409">>,
                        <<ParentVerdict(job) # "ok" \/ SeedVerdict(job) # "ok", "422">> >>
<1>1. job.commit = CommitOf(r.epoch) /\ loaded.commit = CommitOf(s.boot)
  BY DEF JobOf, LoadedAt
<1>2. IF Verdict(checks) = "ok" THEN TRUE ELSE Verdict(checks) = "200"
  BY DEF JobStatus, PinsVerdict
<1>3. DOMAIN checks = 1..3 /\ \A i \in 1..3 : checks[i][2] \in {"400", "409", "422"}
  OBVIOUS
<1>4. checks[2][1] <=> Verdict(pins) # "ok"
  OBVIOUS
<1>5. DOMAIN pins = 1..9 /\ \A i \in 1..9 : pins[i][2] # "ok"
  OBVIOUS
<1>6. pins[9][1] <=> CommitDiffers(job, loaded)
  OBVIOUS
<1> HIDE DEF checks, pins, job, loaded
<1>7. ~checks[2][1]
  <2>1. \/ Verdict(checks) = "ok" /\ \A i \in 1..3 : ~checks[i][1]
        \/ \E i \in 1..3 : checks[i][1] /\ Verdict(checks) = checks[i][2]
    BY <1>3, VerdictIs, Zenon
  <2> QED
    BY <1>2, <1>3, <2>1
<1>8. ~pins[9][1]
  <2>1. \/ Verdict(pins) = "ok" /\ \A i \in 1..9 : ~pins[i][1]
        \/ \E i \in 1..9 : pins[i][1] /\ Verdict(pins) = pins[i][2]
    BY <1>5, VerdictIs, Zenon
  <2> QED
    BY <1>4, <1>5, <1>7, <2>1
<1>9. ~CommitDiffers(job, loaded)
  BY <1>6, <1>8
<1>10. CommitOf(r.epoch) = CommitOf(s.boot)
  BY <1>1, <1>9, CommitAssumption DEF CommitDiffers
<1> QED
  BY <1>10 DEF CommitOf

(***************************************************************************)
(* The scorer's process and its answers                                    *)
(***************************************************************************)
OneWorker == Concurrency = 1

\* Requests are told apart by their number.
RequestsOK(R) == \A r \in R : r.n \in Nat /\ r.epoch \in 0..MaxEpoch + 1

ScorerRecord(s) ==
  /\ s = [up |-> s.up, boot |-> s.boot, queue |-> s.queue, active |-> s.active,
          slots |-> s.slots, trace |-> s.trace, dedup |-> s.dedup, scored |-> s.scored]
  /\ s.boot \in 0..MaxEpoch + 1
  /\ s.trace \in Seq(Nat)
  /\ s.scored \in Seq(s.dedup)

\* The slots count the jobs that run; no request is there twice.
QueueOK(s, R) ==
  /\ s.queue \in Seq(R)
  /\ s.active \subseteq [request: R, packs: {0, 1, 2}]
  /\ IsFiniteSet(s.active) /\ s.slots = Cardinality(s.active)
  /\ s.slots \in Nat /\ s.slots <= Concurrency
  /\ \A a, b \in s.active : a.request.n = b.request.n => a = b
  /\ \A i, j \in DOMAIN s.queue : s.queue[i].n = s.queue[j].n => i = j
  /\ \A a \in s.active, i \in DOMAIN s.queue : a.request.n # s.queue[i].n

\* What runs is of the epoch booted for.
RunsInItsEpoch(s) == \A a \in s.active : a.request.epoch = s.boot

\* With one worker the trace is that of the job that runs, and its submission
\* has not been scored.
AloneOK(s) ==
  /\ \A a \in s.active :
       /\ Len(s.trace) = a.packs
       /\ \A i \in DOMAIN s.trace : s.trace[i] = a.request.n
       /\ KeyOf(s, a.request) \notin s.dedup
  /\ \A i, j \in DOMAIN s.scored : s.scored[i] = s.scored[j] => i = j

ScorerOK(s, R) ==
  ScorerRecord(s) /\ QueueOK(s, R) /\ RunsInItsEpoch(s) /\ (OneWorker => AloneOK(s))

OwnTrace(a) ==
  /\ Range(a.trace) \subseteq {a.request.n}
  /\ a.reason = "none" => Len(a.trace) = 2

AnswerOK(a) ==
  a.status = "200" => a.request.epoch = a.boot /\ (OneWorker => OwnTrace(a))

Free(s, r) ==
  /\ \A a \in s.active : a.request.n # r.n
  /\ \A i \in DOMAIN s.queue : s.queue[i].n # r.n

LEMMA NoneRuns ==
  ASSUME NEW s, NEW R, QueueOK(s, R), OneWorker, s.slots < Concurrency
  PROVE  s.active = {}
<1>1. Cardinality(s.active) = 0 /\ IsFiniteSet(s.active)
  BY DEF QueueOK, OneWorker
<1> QED
  BY <1>1, FS_EmptySet

\* A started job runs, or is answered at once.
LEMMA StartedKeeps ==
  ASSUME NEW R, RequestsOK(R), NEW s, ScorerOK(s, R), NEW r \in R, Free(s, r),
         s.slots < Concurrency
  PROVE  LET x == Started(s, r)
         IN  /\ ScorerOK(x.scorer, R)
             /\ x.scorer.queue = s.queue
             /\ \A a \in x.answers : AnswerOK(a)
<1> DEFINE status == JobStatus(JobOf(r), LoadedAt(s.boot))
           fresh == [s EXCEPT !.trace = <<>>]
<1>1. /\ r.n \in Nat /\ r.epoch \in 0..MaxEpoch + 1 /\ s.boot \in 0..MaxEpoch + 1
      /\ ScorerRecord(s) /\ QueueOK(s, R) /\ RunsInItsEpoch(s) /\ (OneWorker => AloneOK(s))
  BY DEF RequestsOK, ScorerOK, ScorerRecord
<1>2. /\ fresh = [up |-> s.up, boot |-> s.boot, queue |-> s.queue, active |-> s.active,
                 slots |-> s.slots, trace |-> <<>>, dedup |-> s.dedup, scored |-> s.scored]
  BY <1>1 DEF ScorerRecord
<1>3. OneWorker => s.active = {}
  BY <1>1, NoneRuns
<1> HIDE DEF fresh
<1>4. ScorerOK(fresh, R)
  <2>1. ScorerRecord(fresh)
    BY <1>1, <1>2 DEF ScorerRecord
  <2>2. QueueOK(fresh, R)
    BY <1>1, <1>2 DEF QueueOK
  <2>3. RunsInItsEpoch(fresh)
    BY <1>1, <1>2 DEF RunsInItsEpoch
  <2>4. OneWorker => AloneOK(fresh)
    BY <1>1, <1>2, <1>3 DEF AloneOK
  <2> QED
    BY <2>1, <2>2, <2>3, <2>4 DEF ScorerOK
<1>5. CASE status # "200"
  <2>1. Started(s, r) = [scorer |-> s, answers |-> {Answer(s, r, status, "none", <<0, 0>>)}]
    BY <1>5 DEF Started
  <2>2. AnswerOK(Answer(s, r, status, "none", <<0, 0>>))
    BY <1>5 DEF AnswerOK, Answer
  <2> QED
    BY <2>1, <2>2
<1>6. CASE status = "200" /\ KeyOf(s, r) \in s.dedup
  <2>1. Started(s, r) = [scorer |-> fresh,
                         answers |-> {Answer(fresh, r, "200", "duplicate_submission", <<0, 0>>)}]
    BY <1>6 DEF Started, fresh
  <2>2. r.epoch = s.boot
    BY <1>1, <1>6, GoesOnInItsEpoch
  <2>3. AnswerOK(Answer(fresh, r, "200", "duplicate_submission", <<0, 0>>))
    BY <1>2, <2>2 DEF AnswerOK, Answer, OwnTrace, Range
  <2> QED
    BY <1>2, <1>4, <2>1, <2>3
<1>7. CASE status = "200" /\ KeyOf(s, r) \notin s.dedup
  <2> DEFINE job == [request |-> r, packs |-> 0]
             t == [fresh EXCEPT !.slots = @ + 1, !.active = @ \cup {job}]
  <2>1. Started(s, r) = [scorer |-> t, answers |-> {}]
    BY <1>7 DEF Started, fresh
  <2>2. r.epoch = s.boot
    BY <1>1, <1>7, GoesOnInItsEpoch
  <2>3. job \in [request: R, packs: {0, 1, 2}] /\ job.request = r /\ job.packs = 0
    OBVIOUS
  <2> HIDE DEF job
  <2>4. /\ t = [up |-> s.up, boot |-> s.boot, queue |-> s.queue, active |-> s.active \cup {job},
                slots |-> s.slots + 1, trace |-> <<>>, dedup |-> s.dedup, scored |-> s.scored]
    <3>1. fresh.slots = s.slots /\ fresh.active = s.active /\ s.slots \in Nat
      BY <1>1, <1>2 DEF QueueOK
    <3> DEFINE n == s.slots + 1
               running == s.active \cup {job}
    <3>2. t = [fresh EXCEPT !.slots = n, !.active = running]
      BY <3>1
    <3> HIDE DEF n, running, t
    <3>3. t = [up |-> s.up, boot |-> s.boot, queue |-> s.queue, active |-> running,
               slots |-> n, trace |-> <<>>, dedup |-> s.dedup, scored |-> s.scored]
      BY <1>2, <3>2
    <3> QED
      BY <3>3 DEF n, running
  <2> HIDE DEF t
  <2>5. ScorerRecord(t)
    BY <1>1, <2>4 DEF ScorerRecord
  <2>6. QueueOK(t, R)
    <3>1. job \notin s.active
      BY <2>3 DEF Free
    <3>2. /\ IsFiniteSet(s.active \cup {job})
          /\ Cardinality(s.active \cup {job}) = Cardinality(s.active) + 1
      BY <1>1, <3>1, FS_AddElement DEF QueueOK
    <3>3. t.slots = Cardinality(t.active) /\ t.slots \in Nat /\ t.slots <= Concurrency
          /\ IsFiniteSet(t.active)
      BY <1>1, <2>4, <3>2, ServiceConstants DEF QueueOK
    <3>4. t.queue \in Seq(R) /\ t.active \subseteq [request: R, packs: {0, 1, 2}]
      BY <1>1, <2>4, <2>3 DEF QueueOK
    <3>5. \A a, b \in t.active : a.request.n = b.request.n => a = b
      BY <1>1, <2>4, <2>3 DEF QueueOK, Free
    <3>6. \A a \in t.active, i \in DOMAIN t.queue : a.request.n # t.queue[i].n
      BY <1>1, <2>4, <2>3 DEF QueueOK, Free
    <3>7. \A i, j \in DOMAIN t.queue : t.queue[i].n = t.queue[j].n => i = j
      BY <1>1, <2>4 DEF QueueOK
    <3> QED
      BY <3>3, <3>4, <3>5, <3>6, <3>7 DEF QueueOK
  <2>7. RunsInItsEpoch(t)
    BY <1>1, <2>2, <2>4, <2>3 DEF RunsInItsEpoch
  <2>8. OneWorker => AloneOK(t)
    <3> SUFFICES ASSUME OneWorker PROVE AloneOK(t)
      OBVIOUS
    <3>1. t.active = {job} /\ t.trace = <<>> /\ Len(t.trace) = 0 /\ DOMAIN t.trace = {}
      BY <1>3, <2>4
    <3>2. KeyOf(t, job.request) = KeyOf(s, r)
      BY <2>4, <2>3 DEF KeyOf
    <3>3. t.dedup = s.dedup /\ t.scored = s.scored
      BY <2>4
    <3> QED
      BY <1>1, <1>7, <2>3, <3>1, <3>2, <3>3 DEF AloneOK
  <2> QED
    BY <2>1, <2>4, <2>5, <2>6, <2>7, <2>8 DEF ScorerOK
<1> QED
  BY <1>5, <1>6, <1>7

\* The drain starts jobs until the slots or the queue are used up.
LEMMA DrainKeeps ==
  ASSUME NEW R, RequestsOK(R), NEW s, ScorerOK(s, R)
  PROVE  LET d == Drain(s)
         IN  /\ ScorerOK(d.scorer, R)
             /\ d.scorer.queue # <<>> => d.scorer.slots = Concurrency
             /\ \A a \in d.answers : AnswerOK(a)
<1> DEFINE L == Len(s.queue)
           First == [scorer |-> s, answers |-> {}]
           Step(v) == LET next == Started([v.scorer EXCEPT !.queue = Tail(@)], Head(v.scorer.queue))
                      IN  IF v.scorer.slots >= Concurrency THEN v
                          ELSE [next EXCEPT !.answers = @ \cup v.answers]
           D == CHOOSE f : f = [n \in 0..L |-> IF n = 0 THEN First ELSE Step(f[n - 1])]
<1>1. Drain(s) = D[L]
  BY DEF Drain
<1>2. L \in Nat /\ s.queue \in Seq(R)
  BY DEF ScorerOK, QueueOK
<1> HIDE DEF First, Step, L
<1>3. \E f : f = [n \in 0..L |-> IF n = 0 THEN First ELSE Step(f[n - 1])]
  <2> DEFINE Upto(m, f) == f = [n \in 0..m |-> IF n = 0 THEN First ELSE Step(f[n - 1])]
             Undefined == {m \in 0..L : ~\E f : Upto(m, f)}
  <2>1. 0 \notin Undefined
    <3> DEFINE f == [n \in 0..0 |-> First]
    <3>1. Upto(0, f)
      OBVIOUS
    <3> QED
      BY <1>2, <3>1
  <2>2. ASSUME NEW m \in 1..L, m - 1 \notin Undefined
        PROVE  m \notin Undefined
    <3>1. PICK f : Upto(m - 1, f)
      BY <1>2, <2>2
    <3> DEFINE g == [n \in 0..m |-> IF n = m THEN Step(f[m - 1]) ELSE f[n]]
    <3>2. \A n \in 0..m - 1 : f[n] = IF n = 0 THEN First ELSE Step(f[n - 1])
      BY <3>1
    <3>3. m \in Nat /\ m # 0 /\ DOMAIN g = 0..m
      BY <1>2
    <3>4. \A n \in 0..m - 1 : g[n] = f[n]
      BY <3>3
    <3>5. g[m] = Step(f[m - 1])
      BY <3>3
    <3> HIDE DEF g
    <3>6. \A n \in 0..m : g[n] = IF n = 0 THEN First ELSE Step(g[n - 1])
      <4> TAKE n \in 0..m
      <4>1. CASE n = m
        BY <3>3, <3>4, <3>5, <4>1
      <4>2. CASE n \in 1..m - 1
        <5>1. g[n] = f[n] /\ g[n - 1] = f[n - 1]
          BY <3>3, <3>4, <4>2
        <5> QED
          BY <3>2, <3>3, <4>2, <5>1
      <4>3. CASE n = 0
        BY <3>2, <3>3, <3>4, <4>3
      <4> QED
        BY <3>3, <4>1, <4>2, <4>3
    <3>7. g = [n \in 0..m |-> g[n]]
      BY DEF g
    <3>8. Upto(m, g)
      BY <3>6, <3>7
    <3> QED
      BY <3>8
  <2>3. Undefined = {}
    <3>1. Undefined \subseteq 0..L
      OBVIOUS
    <3> HIDE DEF Undefined
    <3> QED
      BY <1>2, <2>1, <2>2, <3>1, NoLeastException
  <2>4. L \notin Undefined
    BY <2>3
  <2> QED
    BY <1>2, <2>4
<1>4. D = [n \in 0..L |-> IF n = 0 THEN First ELSE Step(D[n - 1])]
  BY <1>3
<1> HIDE DEF D
<1>5. D[0] = First /\ \A m \in 1..L : D[m] = Step(D[m - 1])
  BY <1>2, <1>4
<1> DEFINE Safe(m) == /\ ScorerOK(D[m].scorer, R)
                      /\ \A a \in D[m].answers : AnswerOK(a)
                      /\ \/ D[m].scorer.slots = Concurrency
                         \/ Len(D[m].scorer.queue) = L - m
           Lost == {m \in 0..L : ~Safe(m)}
<1>6. Safe(0)
  BY <1>2, <1>5 DEF First, L
<1>7. ASSUME NEW m \in 1..L, Safe(m - 1)
      PROVE  Safe(m)
  <2> DEFINE v == D[m - 1]
             u == v.scorer
             t == [u EXCEPT !.queue = Tail(@)]
             x == Started(t, Head(u.queue))
  <2>1. D[m] = Step(v)
    BY <1>5
  <2>2. CASE u.slots >= Concurrency
    <3>1. D[m] = v
      BY <2>1, <2>2 DEF Step
    <3>2. u.slots = Concurrency
      BY <1>7, <2>2, ServiceConstants DEF ScorerOK, QueueOK
    <3> QED
      BY <1>7, <3>1, <3>2
  <2>3. CASE ~(u.slots >= Concurrency)
    <3>1. D[m] = [x EXCEPT !.answers = @ \cup v.answers]
      BY <2>1, <2>3 DEF Step
    <3>2. ScorerOK(u, R) /\ \A a \in v.answers : AnswerOK(a)
      BY <1>7
    <3>3. u.slots < Concurrency /\ Len(u.queue) = L - (m - 1)
      BY <1>7, <2>3, <3>2, ServiceConstants DEF ScorerOK, QueueOK
    <3> HIDE DEF v, u
    <3>4. /\ u.queue \in Seq(R) /\ Len(u.queue) \in Nat /\ u.queue # <<>>
          /\ Head(u.queue) = u.queue[1] /\ Head(u.queue) \in R
          /\ Tail(u.queue) \in Seq(R) /\ Len(Tail(u.queue)) = Len(u.queue) - 1
          /\ \A i \in DOMAIN Tail(u.queue) :
               i + 1 \in DOMAIN u.queue /\ i + 1 # 1 /\ Tail(u.queue)[i] = u.queue[i + 1]
          /\ 1 \in DOMAIN u.queue
      BY <1>2, <3>2, <3>3 DEF ScorerOK, QueueOK
    <3>5. t = [up |-> u.up, boot |-> u.boot, queue |-> Tail(u.queue), active |-> u.active,
               slots |-> u.slots, trace |-> u.trace, dedup |-> u.dedup, scored |-> u.scored]
      <4> DEFINE q == Tail(u.queue)
      <4>1. t = [u EXCEPT !.queue = q]
        OBVIOUS
      <4> HIDE DEF q, t
      <4>2. t = [up |-> u.up, boot |-> u.boot, queue |-> q, active |-> u.active,
                 slots |-> u.slots, trace |-> u.trace, dedup |-> u.dedup, scored |-> u.scored]
        BY <3>2, <4>1 DEF ScorerOK, ScorerRecord
      <4> QED
        BY <4>2 DEF q
    <3> HIDE DEF t
    <3>6. ScorerOK(t, R) /\ Free(t, Head(u.queue))
      <4>1. ScorerRecord(t) /\ RunsInItsEpoch(t) /\ (OneWorker => AloneOK(t))
        BY <3>2, <3>5 DEF ScorerOK, ScorerRecord, RunsInItsEpoch, AloneOK, KeyOf
      <4>2. QueueOK(t, R)
        <5>1. t.queue = Tail(u.queue) /\ t.active = u.active /\ t.slots = u.slots
          BY <3>5
        <5>2. \A i, j \in DOMAIN t.queue : t.queue[i].n = t.queue[j].n => i = j
          <6>1. \A i \in DOMAIN t.queue :
                  i \in Int /\ i + 1 \in DOMAIN u.queue /\ t.queue[i] = u.queue[i + 1]
            BY <3>4, <5>1
          <6> QED
            <7>1. \A i, j \in DOMAIN u.queue : u.queue[i].n = u.queue[j].n => i = j
              BY <3>2 DEF ScorerOK, QueueOK
            <7> TAKE i, j \in DOMAIN t.queue
            <7>2. t.queue[i].n = t.queue[j].n => i + 1 = j + 1
              BY <6>1, <7>1
            <7> QED
              BY <6>1, <7>2
        <5>3. \A a \in t.active, i \in DOMAIN t.queue : a.request.n # t.queue[i].n
          BY <3>2, <3>4, <5>1 DEF ScorerOK, QueueOK
        <5> QED
          BY <3>2, <3>4, <5>1, <5>2, <5>3 DEF ScorerOK, QueueOK
      <4>3. Free(t, Head(u.queue))
        BY <3>2, <3>4, <3>5 DEF ScorerOK, QueueOK, Free
      <4> QED
        BY <4>1, <4>2, <4>3 DEF ScorerOK
    <3>7. /\ ScorerOK(x.scorer, R)
          /\ x.scorer.queue = t.queue
          /\ \A a \in x.answers : AnswerOK(a)
      BY <3>3, <3>4, <3>5, <3>6, StartedKeeps
    <3>8. D[m].scorer = x.scorer /\ D[m].answers = x.answers \cup v.answers
      <4>1. x = [scorer |-> x.scorer, answers |-> x.answers]
        BY DEF Started
      <4> HIDE DEF x
      <4> QED
        BY <3>1, <4>1
    <3>9. Len(D[m].scorer.queue) = L - m
      <4>1. D[m].scorer.queue = Tail(u.queue)
        BY <3>5, <3>7, <3>8
      <4>2. Len(Tail(u.queue)) = L - m
        BY <1>2, <3>3, <3>4
      <4> QED
        BY <4>1, <4>2
    <3> QED
      BY <3>2, <3>7, <3>8, <3>9
  <2> QED
    BY <2>2, <2>3
<1>8. Safe(L)
  <2>1. Lost \subseteq 0..L /\ 0 \notin Lost
    BY <1>6
  <2>2. \A m \in 1..L : m - 1 \notin Lost => m \notin Lost
    <3> TAKE m \in 1..L
    <3>1. m - 1 \in 0..L
      BY <1>2
    <3> QED
      BY <1>7, <3>1
  <2>3. Lost = {}
    <3> HIDE DEF Lost
    <3> QED
      BY <1>2, <2>1, <2>2, NoLeastException
  <2> QED
    BY <1>2, <2>3
<1>9. D[L].scorer.queue # <<>> => D[L].scorer.slots = Concurrency
  BY <1>2, <1>8 DEF ScorerOK, QueueOK
<1> QED
  BY <1>1, <1>8, <1>9

(***************************************************************************)
(* The inductive invariant                                                 *)
(***************************************************************************)
Asked == Range(sent)

\* Requests carry their place in the order they were sent in.
Numbered(requests) ==
  /\ Listed(requests)
  /\ \A i \in DOMAIN requests :
       /\ requests[i] = [n |-> i, id |-> requests[i].id, epoch |-> requests[i].epoch,
                         parent |-> requests[i].parent, patch |-> requests[i].patch]
       /\ requests[i].epoch \in 0..MaxEpoch + 1

SentInv == Numbered(sent) /\ epoch \in 0..MaxEpoch + 1

ScorerInv ==
  /\ ScorerOK(scorer, Asked)
  /\ scorer.queue # <<>> => scorer.slots = Concurrency
  /\ \A a \in answers : AnswerOK(a)

\* What waits to land was scored for the present epoch, and what landed for the
\* epoch it landed in.
LaneInv ==
  /\ Listed(pending) /\ \A i \in DOMAIN pending : pending[i].boot = epoch
  /\ Listed(line) /\ \A i \in DOMAIN line : line[i].boot = line[i].epoch

ServiceInv == SentInv /\ ScorerInv /\ LaneInv

LEMMA NumberedRequests ==
  ASSUME NEW requests, Numbered(requests)
  PROVE  /\ RequestsOK(Range(requests)) /\ Len(requests) \in Nat
         /\ \A r \in Range(requests) : r.n \in 1..Len(requests)
<1>1. Len(requests) \in Nat /\ DOMAIN requests = 1..Len(requests)
  BY DEF Numbered, Listed
<1> SUFFICES ASSUME NEW r \in Range(requests)
             PROVE  r.n \in 1..Len(requests) /\ r.epoch \in 0..MaxEpoch + 1
  BY <1>1 DEF RequestsOK
<1>2. PICK i \in 1..Len(requests) : r = requests[i]
  BY <1>1 DEF Range
<1> QED
  BY <1>1, <1>2 DEF Numbered

LEMMA Widened ==
  ASSUME NEW R, NEW R2, R \subseteq R2, NEW s, ScorerOK(s, R)
  PROVE  ScorerOK(s, R2)
<1>1. s.queue \in Seq(R2)
  <2>1. s.queue \in Seq(R)
    BY DEF ScorerOK, QueueOK
  <2> QED
    BY <2>1
<1> QED
  BY <1>1 DEF ScorerOK, QueueOK

\* A new request joins the queue, and whatever can start does.
LEMMA EnqueuedKeeps ==
  ASSUME ServiceInv, NEW r, Enqueued(r), sent' = Append(sent, r), epoch' = epoch,
         r = [n |-> Len(sent) + 1, id |-> r.id, epoch |-> r.epoch, parent |-> r.parent,
              patch |-> r.patch],
         r.epoch \in 0..MaxEpoch + 1
  PROVE  SentInv' /\ ScorerInv'
<1>1. /\ Listed(Append(sent, r)) /\ Len(sent) \in Nat
      /\ DOMAIN sent = 1..Len(sent) /\ DOMAIN Append(sent, r) = 1..Len(sent) + 1
      /\ \A i \in 1..Len(sent) : Append(sent, r)[i] = sent[i]
      /\ Append(sent, r)[Len(sent) + 1] = r
  <2>1. Listed(sent)
    BY DEF ServiceInv, SentInv, Numbered
  <2> QED
    BY <2>1, ListedAppend
<1>2. r.n = Len(sent) + 1
  <2> DEFINE n == Len(sent) + 1
  <2>1. r = [n |-> n, id |-> r.id, epoch |-> r.epoch, parent |-> r.parent, patch |-> r.patch]
    OBVIOUS
  <2> HIDE DEF n
  <2>2. r.n = n
    BY <2>1
  <2> QED
    BY <2>2 DEF n
<1>3. SentInv'
  <2>1. Listed(sent')
    BY <1>1
  <2>2. ASSUME NEW i \in DOMAIN sent'
        PROVE  /\ sent'[i] = [n |-> i, id |-> sent'[i].id, epoch |-> sent'[i].epoch,
                              parent |-> sent'[i].parent, patch |-> sent'[i].patch]
               /\ sent'[i].epoch \in 0..MaxEpoch + 1
    <3>1. CASE i \in 1..Len(sent)
      <4>1. sent'[i] = sent[i] /\ i \in DOMAIN sent
        BY <1>1, <3>1
      <4> QED
        BY <4>1 DEF ServiceInv, SentInv, Numbered
    <3>2. CASE i = Len(sent) + 1
      BY <1>1, <3>2
    <3> QED
      BY <1>1, <3>1, <3>2
  <2> QED
    BY <2>1, <2>2 DEF SentInv, Numbered, ServiceInv
<1>4. Asked \subseteq Asked' /\ r \in Asked'
  BY <1>1 DEF Asked, Range
<1>5. RequestsOK(Asked')
  BY <1>3, NumberedRequests DEF SentInv, Asked
<1>6. ScorerOK(scorer, Asked')
  BY <1>4, Widened DEF ServiceInv, ScorerInv
<1>7. CASE Len(scorer.queue) >= QueueDepth
  <2>1. AnswerOK(Answer(scorer, r, "503", "none", <<0, 0>>))
    BY DEF AnswerOK, Answer
  <2> QED
    BY <1>3, <1>6, <1>7, <2>1 DEF Enqueued, ScorerInv, ServiceInv
<1>8. CASE ~(Len(scorer.queue) >= QueueDepth)
  <2> DEFINE joined == Append(scorer.queue, r)
             s == [scorer EXCEPT !.queue = joined]
             d == Drain(s)
  <2>1. scorer' = d.scorer /\ answers' = answers \cup d.answers
    BY <1>8 DEF Enqueued
  <2>2. \A q \in Asked : q.n < r.n
    BY <1>1, <1>2, NumberedRequests DEF ServiceInv, SentInv, Asked
  <2>3. /\ scorer.queue \in Seq(Asked) /\ Len(scorer.queue) \in Nat
        /\ DOMAIN scorer.queue = 1..Len(scorer.queue)
        /\ \A i \in DOMAIN scorer.queue : scorer.queue[i] \in Asked
        /\ \A a \in scorer.active : a.request \in Asked
        /\ \A q \in Asked : q.n \in Nat
    <3>1. \A q \in Asked : q.n \in Nat
      BY NumberedRequests DEF ServiceInv, SentInv, Asked
    <3> QED
      BY <3>1 DEF ServiceInv, ScorerInv, ScorerOK, QueueOK
  <2>4. /\ joined \in Seq(Asked')
        /\ DOMAIN joined = 1..Len(scorer.queue) + 1
        /\ \A i \in 1..Len(scorer.queue) : joined[i] = scorer.queue[i]
        /\ joined[Len(scorer.queue) + 1] = r
    <3>1. scorer.queue \in Seq(Asked')
      BY <1>6 DEF ScorerOK, QueueOK
    <3> QED
      BY <1>4, <3>1
  <2>5. ScorerRecord(scorer)
    BY DEF ServiceInv, ScorerInv, ScorerOK
  <2> HIDE DEF joined
  <2>6. s = [up |-> scorer.up, boot |-> scorer.boot, queue |-> joined, active |-> scorer.active,
             slots |-> scorer.slots, trace |-> scorer.trace, dedup |-> scorer.dedup,
             scored |-> scorer.scored]
    <3>1. s = [scorer EXCEPT !.queue = joined]
      OBVIOUS
    <3> HIDE DEF s
    <3> QED
      BY <2>5, <3>1 DEF ScorerRecord
  <2> HIDE DEF s
  <2>7. QueueOK(s, Asked')
    <3>1. /\ s.queue = joined /\ s.active = scorer.active /\ s.slots = scorer.slots
      BY <2>6
    <3>2. QueueOK(scorer, Asked')
      BY <1>6 DEF ScorerOK
    <3>3. \A i, j \in DOMAIN joined : joined[i].n = joined[j].n => i = j
      <4> SUFFICES ASSUME NEW i \in DOMAIN joined, NEW j \in DOMAIN joined,
                          joined[i].n = joined[j].n
                   PROVE  i = j
        OBVIOUS
      <4>1. \A k \in 1..Len(scorer.queue) : joined[k].n \in Nat /\ joined[k].n < r.n
        BY <2>2, <2>3, <2>4
      <4>2. CASE i \in 1..Len(scorer.queue) /\ j \in 1..Len(scorer.queue)
        <5>1. scorer.queue[i].n = scorer.queue[j].n
          BY <2>4, <4>2
        <5> QED
          BY <2>3, <3>2, <4>2, <5>1 DEF QueueOK
      <4>3. CASE i = Len(scorer.queue) + 1 \/ j = Len(scorer.queue) + 1
        <5>1. joined[i].n = r.n /\ joined[j].n = r.n
          BY <2>4, <4>3
        <5>2. i \notin 1..Len(scorer.queue) /\ j \notin 1..Len(scorer.queue)
          BY <1>1, <1>2, <4>1, <5>1
        <5> QED
          BY <2>3, <2>4, <5>2
      <4>4. /\ i \in 1..Len(scorer.queue) \/ i = Len(scorer.queue) + 1
            /\ j \in 1..Len(scorer.queue) \/ j = Len(scorer.queue) + 1
        BY <2>3, <2>4
      <4> QED
        BY <4>2, <4>3, <4>4
    <3>4. ASSUME NEW a \in scorer.active, NEW i \in DOMAIN joined
          PROVE  a.request.n # joined[i].n
      <4>1. a.request.n \in Nat /\ a.request.n < r.n /\ r.n \in Nat
        BY <1>1, <1>2, <2>2, <2>3
      <4>2. CASE i \in 1..Len(scorer.queue)
        <5>1. a.request.n # scorer.queue[i].n
          BY <2>3, <3>2, <4>2 DEF QueueOK
        <5> QED
          BY <2>4, <4>2, <5>1
      <4>3. CASE i = Len(scorer.queue) + 1
        BY <2>4, <4>1, <4>3
      <4> QED
        BY <2>3, <2>4, <4>2, <4>3
    <3> QED
      BY <2>4, <3>1, <3>2, <3>3, <3>4 DEF QueueOK
  <2>8. ScorerOK(s, Asked')
    BY <1>6, <2>6, <2>7 DEF ScorerOK, ScorerRecord, RunsInItsEpoch, AloneOK, KeyOf
  <2>9. /\ ScorerOK(d.scorer, Asked')
        /\ d.scorer.queue # <<>> => d.scorer.slots = Concurrency
        /\ \A a \in d.answers : AnswerOK(a)
    BY <1>5, <2>8, DrainKeeps
  <2> HIDE DEF d
  <2> QED
    BY <1>3, <2>1, <2>9 DEF ScorerInv, ServiceInv
<1> QED
  BY <1>7, <1>8

\* A job that ends gives its slot back.
LEMMA ReleasedKeeps ==
  ASSUME NEW R, NEW s, ScorerOK(s, R), NEW a \in s.active, NEW records,
         NEW done \in Seq(records),
         OneWorker => \A i, j \in DOMAIN done : done[i] = done[j] => i = j
  PROVE  ScorerOK([up |-> s.up, boot |-> s.boot, queue |-> s.queue, active |-> s.active \ {a},
                   slots |-> s.slots - 1, trace |-> s.trace, dedup |-> records,
                   scored |-> done], R)
<1> DEFINE left == s.active \ {a}
           t == [up |-> s.up, boot |-> s.boot, queue |-> s.queue, active |-> left,
                 slots |-> s.slots - 1, trace |-> s.trace, dedup |-> records, scored |-> done]
<1>1. /\ IsFiniteSet(left) /\ Cardinality(left) = s.slots - 1
      /\ s.slots \in Nat /\ Cardinality(left) \in Nat /\ s.slots <= Concurrency
  <2>1. IsFiniteSet(s.active) /\ s.slots = Cardinality(s.active)
    BY DEF ScorerOK, QueueOK
  <2>2. IsFiniteSet(left) /\ Cardinality(left) = Cardinality(s.active) - 1
    BY <2>1, FS_RemoveElement
  <2>3. Cardinality(left) \in Nat
    BY <2>2, FS_CardinalityType
  <2> QED
    BY <2>1, <2>2, <2>3 DEF ScorerOK, QueueOK
<1>2. OneWorker => left = {}
  <2> SUFFICES ASSUME OneWorker PROVE left = {}
    OBVIOUS
  <2> HIDE DEF left
  <2>1. Cardinality(left) = 0
    BY <1>1 DEF OneWorker
  <2> QED
    BY <1>1, <2>1, FS_EmptySet
<1> HIDE DEF left
<1>3. ScorerRecord(t)
  BY DEF ScorerOK, ScorerRecord
<1>4. QueueOK(t, R)
  <2>1. left \subseteq s.active
    BY DEF left
  <2> QED
    BY <1>1, <2>1, ServiceConstants DEF ScorerOK, QueueOK
<1>5. RunsInItsEpoch(t)
  BY DEF ScorerOK, RunsInItsEpoch, left
<1>6. OneWorker => AloneOK(t)
  BY <1>2 DEF AloneOK
<1> QED
  BY <1>3, <1>4, <1>5, <1>6 DEF ScorerOK, left

\* Scoring one pack adds a pair to the trace of the job that runs.
LEMMA PackKeeps ==
  ASSUME ServiceInv, NEW a \in scorer.active, ScorePack(a)
  PROVE  ServiceInv'
<1> DEFINE more == a.packs + 1
           next == [a EXCEPT !.packs = @ + 1]
           running == (scorer.active \ {a}) \cup {next}
           longer == Append(scorer.trace, a.request.n)
<1>1. /\ ScorerOK(scorer, Asked) /\ ScorerRecord(scorer) /\ QueueOK(scorer, Asked)
      /\ RunsInItsEpoch(scorer) /\ (OneWorker => AloneOK(scorer))
      /\ scorer.queue # <<>> => scorer.slots = Concurrency
      /\ \A q \in Asked : q.n \in Nat
  <2>1. \A q \in Asked : q.n \in Nat
    BY NumberedRequests DEF ServiceInv, SentInv, Asked
  <2> QED
    BY <2>1 DEF ServiceInv, ScorerInv, ScorerOK
<1>2. a \in [request: Asked, packs: {0, 1, 2}] /\ a.packs < 2
  BY <1>1 DEF QueueOK, ScorePack
<1>3. /\ next = [request |-> a.request, packs |-> more] /\ next.request = a.request
      /\ next.packs = more /\ next \in [request: Asked, packs: {0, 1, 2}]
  BY <1>2
<1>4. a.request.n \in Nat
  BY <1>1, <1>2
<1>5. /\ longer \in Seq(Nat) /\ Len(longer) = Len(scorer.trace) + 1
      /\ DOMAIN longer = 1..Len(scorer.trace) + 1 /\ Len(scorer.trace) \in Nat
      /\ \A i \in DOMAIN longer : longer[i] = a.request.n \/ (i \in DOMAIN scorer.trace /\ longer[i] = scorer.trace[i])
  <2> DEFINE trace == scorer.trace
             n == a.request.n
  <2>1. trace \in Seq(Nat) /\ n \in Nat
    BY <1>1, <1>4 DEF ScorerRecord
  <2> HIDE DEF trace, n
  <2>2. Append(trace, n) \in Seq(Nat)
    BY <2>1
  <2>3. /\ Len(trace) \in Nat /\ DOMAIN trace = 1..Len(trace)
        /\ Len(Append(trace, n)) = Len(trace) + 1
        /\ DOMAIN Append(trace, n) = 1..Len(trace) + 1
        /\ \A i \in 1..Len(trace) : Append(trace, n)[i] = trace[i]
        /\ Append(trace, n)[Len(trace) + 1] = n
    BY <2>1
  <2>4. \A i \in 1..Len(trace) + 1 : i \in 1..Len(trace) \/ i = Len(trace) + 1
    BY <2>3
  <2>5. \A i \in DOMAIN Append(trace, n) :
          Append(trace, n)[i] = n \/ (i \in DOMAIN trace /\ Append(trace, n)[i] = trace[i])
    BY <2>3, <2>4
  <2> QED
    BY <2>2, <2>3, <2>5 DEF trace, n
<1>6. scorer' = [scorer EXCEPT !.active = running, !.trace = longer]
  BY DEF ScorePack
<1> HIDE DEF next, running, longer, more
<1>7. scorer' = [up |-> scorer.up, boot |-> scorer.boot, queue |-> scorer.queue,
                 active |-> running, slots |-> scorer.slots, trace |-> longer,
                 dedup |-> scorer.dedup, scored |-> scorer.scored]
  BY <1>1, <1>6 DEF ScorerRecord
<1>8. ScorerRecord(scorer')
  BY <1>1, <1>5, <1>7 DEF ScorerRecord
<1>9. QueueOK(scorer', Asked)
  <2> DEFINE left == scorer.active \ {a}
  <2>1. IsFiniteSet(left) /\ Cardinality(left) = Cardinality(scorer.active) - 1
    BY <1>1, FS_RemoveElement DEF QueueOK
  <2>2. next \notin left
    BY <1>1, <1>3 DEF QueueOK
  <2>3. IsFiniteSet(running) /\ Cardinality(running) = Cardinality(left) + 1
    BY <2>1, <2>2, FS_AddElement DEF running
  <2>4. Cardinality(running) = scorer.slots
    BY <1>1, <2>1, <2>3 DEF QueueOK
  <2>5. \A b \in running : \E c \in scorer.active : c.request = b.request /\ (c = a <=> b = next)
    BY <1>3, <2>2 DEF running
  <2>6. running \subseteq [request: Asked, packs: {0, 1, 2}]
    BY <1>1, <1>3 DEF QueueOK, running
  <2>7. \A b, c \in running : b.request.n = c.request.n => b = c
    <3> SUFFICES ASSUME NEW b \in running, NEW c \in running, b.request.n = c.request.n
                 PROVE  b = c
      OBVIOUS
    <3>1. b = next \/ b \in left
      BY DEF running
    <3>2. c = next \/ c \in left
      BY DEF running
    <3> QED
      BY <1>1, <1>3, <3>1, <3>2 DEF QueueOK
  <2>8. \A b \in running, i \in DOMAIN scorer.queue : b.request.n # scorer.queue[i].n
    BY <1>1, <2>5 DEF QueueOK
  <2> QED
    BY <1>1, <1>7, <2>3, <2>4, <2>6, <2>7, <2>8 DEF QueueOK
<1>10. RunsInItsEpoch(scorer')
  BY <1>1, <1>3, <1>7 DEF RunsInItsEpoch, running
<1>11. OneWorker => AloneOK(scorer')
  <2> SUFFICES ASSUME OneWorker PROVE AloneOK(scorer')
    OBVIOUS
  <2>1. scorer.active \ {a} = {}
    <3>1. IsFiniteSet(scorer.active \ {a}) /\ Cardinality(scorer.active \ {a}) = scorer.slots - 1
      BY <1>1, FS_RemoveElement DEF QueueOK
    <3>2. Cardinality(scorer.active \ {a}) \in Nat
      BY <3>1, FS_CardinalityType
    <3>3. Cardinality(scorer.active \ {a}) = 0
      BY <1>1, <3>1, <3>2 DEF OneWorker, QueueOK
    <3> QED
      BY <3>1, <3>3, FS_EmptySet
  <2>2. running = {next}
    BY <2>1 DEF running
  <2>3. Len(longer) = more
    BY <1>1, <1>2, <1>5 DEF AloneOK, more
  <2>4. \A i \in DOMAIN longer : longer[i] = a.request.n
    BY <1>1, <1>5 DEF AloneOK
  <2>5. KeyOf(scorer', a.request) = KeyOf(scorer, a.request)
    BY <1>7 DEF KeyOf
  <2> QED
    BY <1>1, <1>3, <1>7, <2>2, <2>3, <2>4, <2>5 DEF AloneOK
<1>12. UNCHANGED <<sent, epoch, answers, pending, line>>
  BY DEF ScorePack, rotationVars
<1>13. ScorerOK(scorer', Asked)
  BY <1>8, <1>9, <1>10, <1>11 DEF ScorerOK
<1> QED
  BY <1>1, <1>7, <1>12, <1>13 DEF ServiceInv, SentInv, ScorerInv, LaneInv, Asked

LEMMA ReleasedIs ==
  ASSUME NEW s, ScorerRecord(s), NEW a, NEW failed
  PROVE  Released(s, a, failed) =
           [up |-> s.up, boot |-> s.boot, queue |-> s.queue, active |-> s.active \ {a},
            slots |-> s.slots - 1, trace |-> s.trace, dedup |-> s.dedup, scored |-> s.scored]
<1> DEFINE left == s.active \ {a}
           free == s.slots - 1
           t == Released(s, a, failed)
<1>1. t = [s EXCEPT !.active = left, !.slots = free]
  BY DEF Released
<1> HIDE DEF left, free, t
<1>2. t = [up |-> s.up, boot |-> s.boot, queue |-> s.queue, active |-> left,
           slots |-> free, trace |-> s.trace, dedup |-> s.dedup, scored |-> s.scored]
  BY <1>1 DEF ScorerRecord
<1> QED
  BY <1>2 DEF left, free, t

\* The evaluator's result ends a job, and the drain starts what waited.
LEMMA FinishKeeps ==
  ASSUME ServiceInv, NEW a \in scorer.active, NEW scores, Finish(a, scores)
  PROVE  ServiceInv'
<1> DEFINE gatePass == scores[1] >= JobThreshold
           passes == gatePass /\ scores[2] >= JobThreshold
           key == KeyOf(scorer, a.request)
           records == scorer.dedup \cup {key}
           keys == Append(scorer.scored, key)
           released == Released(scorer, a, FALSE)
           done == [released EXCEPT !.dedup = records, !.scored = keys]
           answer == Answer(scorer, a.request, "200", IF passes THEN "none" ELSE "below_threshold",
                            IF passes THEN scores ELSE <<0, 0>>)
           next == Drain(done)
<1>1. /\ ScorerOK(scorer, Asked) /\ ScorerRecord(scorer) /\ RunsInItsEpoch(scorer)
      /\ (OneWorker => AloneOK(scorer)) /\ RequestsOK(Asked)
  <2>1. RequestsOK(Asked)
    BY NumberedRequests DEF ServiceInv, SentInv, Asked
  <2> QED
    BY <2>1 DEF ServiceInv, ScorerInv, ScorerOK
<1>2. released = [up |-> scorer.up, boot |-> scorer.boot, queue |-> scorer.queue,
                  active |-> scorer.active \ {a}, slots |-> scorer.slots - 1,
                  trace |-> scorer.trace, dedup |-> scorer.dedup, scored |-> scorer.scored]
  BY <1>1, ReleasedIs
<1>3. /\ scorer' = next.scorer /\ answers' = answers \cup {answer} \cup next.answers
      /\ a.packs = IF gatePass THEN 2 ELSE 1
      /\ UNCHANGED <<sent, epoch, pending, line>>
  <2>1. Recorded(scorer, a.request, passes) = records
    BY DEF Recorded
  <2>2. released.scored = scorer.scored
    <3> DEFINE left == scorer.active \ {a}
               free == scorer.slots - 1
    <3>1. released = [up |-> scorer.up, boot |-> scorer.boot, queue |-> scorer.queue,
                      active |-> left, slots |-> free, trace |-> scorer.trace,
                      dedup |-> scorer.dedup, scored |-> scorer.scored]
      BY <1>2
    <3> HIDE DEF left, free, released
    <3> QED
      BY <3>1
  <2> HIDE DEF released, records, key
  <2> QED
    BY <2>1, <2>2 DEF Finish, rotationVars, released, records, key
<1> HIDE DEF key, records, keys, released, next
<1>4. done = [up |-> scorer.up, boot |-> scorer.boot, queue |-> scorer.queue,
              active |-> scorer.active \ {a}, slots |-> scorer.slots - 1,
              trace |-> scorer.trace, dedup |-> records, scored |-> keys]
  <2> DEFINE left == scorer.active \ {a}
             free == scorer.slots - 1
  <2>1. released = [up |-> scorer.up, boot |-> scorer.boot, queue |-> scorer.queue,
                    active |-> left, slots |-> free,
                    trace |-> scorer.trace, dedup |-> scorer.dedup, scored |-> scorer.scored]
    BY <1>2
  <2> DEFINE t == done
  <2>2. t = [released EXCEPT !.dedup = records, !.scored = keys]
    OBVIOUS
  <2> HIDE DEF left, free, t
  <2>3. t = [up |-> scorer.up, boot |-> scorer.boot, queue |-> scorer.queue,
             active |-> left, slots |-> free,
             trace |-> scorer.trace, dedup |-> records, scored |-> keys]
    BY <2>1, <2>2
  <2> QED
    BY <2>3 DEF left, free, t
<1> HIDE DEF done
<1>5. keys \in Seq(records) /\ (OneWorker => \A i, j \in DOMAIN keys : keys[i] = keys[j] => i = j)
  <2> DEFINE scored == scorer.scored
             dedup == scorer.dedup
  <2>1. scored \in Seq(dedup) /\ records = dedup \cup {key} /\ keys = Append(scored, key)
    BY <1>1 DEF ScorerRecord, records, keys
  <2>2. OneWorker => key \notin dedup /\ \A i, j \in DOMAIN scored : scored[i] = scored[j] => i = j
    BY <1>1 DEF AloneOK, key
  <2> HIDE DEF scored, dedup
  <2>3. scored \in Seq(records) /\ key \in records
    BY <2>1
  <2>4. keys \in Seq(records)
    BY <2>1, <2>3
  <2>5. /\ Len(scored) \in Nat /\ DOMAIN scored = 1..Len(scored)
        /\ DOMAIN keys = 1..Len(scored) + 1
        /\ \A i \in 1..Len(scored) : keys[i] = scored[i] /\ scored[i] \in dedup
        /\ keys[Len(scored) + 1] = key
    BY <2>1, <2>3
  <2>6. ASSUME OneWorker, NEW i \in DOMAIN keys, NEW j \in DOMAIN keys, keys[i] = keys[j]
        PROVE  i = j
    <3>1. /\ i \in 1..Len(scored) \/ i = Len(scored) + 1
          /\ j \in 1..Len(scored) \/ j = Len(scored) + 1
      BY <2>5
    <3> QED
      BY <2>2, <2>5, <2>6, <3>1
  <2> QED
    BY <2>4, <2>6
<1>6. ScorerOK(done, Asked)
  BY <1>1, <1>4, <1>5, ReleasedKeeps
<1>7. /\ ScorerOK(next.scorer, Asked)
      /\ next.scorer.queue # <<>> => next.scorer.slots = Concurrency
      /\ \A b \in next.answers : AnswerOK(b)
  BY <1>1, <1>6, DrainKeeps DEF next
<1>8. AnswerOK(answer)
  <2>1. a.request.epoch = scorer.boot
    BY <1>1 DEF RunsInItsEpoch
  <2>2. OneWorker => OwnTrace(answer)
    <3> SUFFICES ASSUME OneWorker PROVE OwnTrace(answer)
      OBVIOUS
    <3>1. Len(scorer.trace) = a.packs /\ \A i \in DOMAIN scorer.trace : scorer.trace[i] = a.request.n
      BY <1>1 DEF AloneOK
    <3>2. answer.trace = scorer.trace /\ answer.request = a.request
          /\ (answer.reason = "none" => gatePass)
      BY DEF Answer
    <3> HIDE DEF answer, gatePass
    <3>3. answer.reason = "none" => Len(scorer.trace) = 2
      BY <1>3, <3>1, <3>2
    <3> QED
      BY <3>1, <3>2, <3>3 DEF OwnTrace, Range
  <2> QED
    BY <2>1, <2>2 DEF AnswerOK, Answer
<1> HIDE DEF answer
<1>9. \A b \in answers : AnswerOK(b)
  BY DEF ServiceInv, ScorerInv
<1> QED
  BY <1>3, <1>7, <1>8, <1>9 DEF ServiceInv, SentInv, ScorerInv, LaneInv, Asked

\* The reranker throws: the job ends with nothing recorded.
LEMMA ScoringFailsKeeps ==
  ASSUME ServiceInv, NEW a \in scorer.active, ScoringFails(a)
  PROVE  ServiceInv'
<1> DEFINE released == Released(scorer, a, TRUE)
           answer == Answer(scorer, a.request, "500", "none", <<0, 0>>)
           next == Drain(released)
<1>1. ScorerOK(scorer, Asked) /\ RequestsOK(Asked) /\ \A b \in answers : AnswerOK(b)
  <2>1. RequestsOK(Asked)
    BY NumberedRequests DEF ServiceInv, SentInv, Asked
  <2> QED
    BY <2>1 DEF ServiceInv, ScorerInv
<1>2. ScorerOK(released, Asked)
  <2>1. scorer.scored \in Seq(scorer.dedup) /\ ScorerRecord(scorer)
    BY <1>1 DEF ScorerOK, ScorerRecord
  <2>2. OneWorker => \A i, j \in DOMAIN scorer.scored : scorer.scored[i] = scorer.scored[j] => i = j
    BY <1>1 DEF ScorerOK, AloneOK
  <2>3. released = [up |-> scorer.up, boot |-> scorer.boot, queue |-> scorer.queue,
                    active |-> scorer.active \ {a}, slots |-> scorer.slots - 1,
                    trace |-> scorer.trace, dedup |-> scorer.dedup, scored |-> scorer.scored]
    BY <2>1, ReleasedIs
  <2> HIDE DEF released
  <2> QED
    BY <1>1, <2>1, <2>2, <2>3, ReleasedKeeps
<1> HIDE DEF released
<1>3. /\ ScorerOK(next.scorer, Asked)
      /\ next.scorer.queue # <<>> => next.scorer.slots = Concurrency
      /\ \A b \in next.answers : AnswerOK(b)
  BY <1>1, <1>2, DrainKeeps
<1>4. AnswerOK(answer)
  BY DEF AnswerOK, Answer
<1>5. /\ scorer' = next.scorer /\ answers' = answers \cup {answer} \cup next.answers
      /\ UNCHANGED <<sent, epoch, pending, line>>
  BY DEF ScoringFails, rotationVars, released
<1> HIDE DEF next, answer
<1> QED
  BY <1>1, <1>3, <1>4, <1>5 DEF ServiceInv, SentInv, ScorerInv, LaneInv, Asked

\* An answer that passes is for a job of the coordinator's present epoch.
LEMMA PassedIsOfTheEpoch ==
  ASSUME NEW result, NEW job, NEW waiting, NEW active, NEW health,
         ResultVerdict(result, job, waiting, active, health) = "ok"
  PROVE  job.epoch = active.epoch
<1> DEFINE proof == ProofVerdict(result, job, active)
           context == << <<job.epoch # active.epoch,   "EPOCH">>,
                         <<job.parent # active.parent, "PARENT">>,
                         <<job.corpus # active.corpus, "CORPUS">>,
                         <<job.bundle # active.bundle, "BUNDLE">>,
                         <<job.core # active.core,     "CORE">>,
                         <<job.policy # active.policy, "POLICY">> >>
           checks == << <<result.id # job.id,                       "SCORER_JOB_ID_MISMATCH">>,
                        <<job.id \notin waiting,                    "SCORER_JOB_NOT_OUTSTANDING">>,
                        <<~result.wellFormed,                       "SCORER_RESULT_MALFORMED">>,
                        <<ContextVerdict(job, active) # "ok",       "SCORER_STALE_CONTEXT">>,
                        <<result.health # health,                   "SCORER_HEALTH_MISMATCH">>,
                        <<proof # "ok",                             proof>>,
                        <<result.threshold # job.threshold,         "SCORER_THRESHOLD_ECHO_MISMATCH">>,
                        <<result.policy # job.policy,               "SCORER_POLICY_ECHO_MISMATCH">>,
                        <<~result.accepted,                         "SCORER_REJECTED">>,
                        <<LowerScore(result) < active.threshold,    "SCORER_BELOW_THRESHOLD">> >>
<1>1. Verdict(checks) = "ok"
  BY DEF ResultVerdict
<1>2. DOMAIN checks = 1..10 /\ DOMAIN context = 1..6
  OBVIOUS
<1>3. checks[6][1] <=> checks[6][2] # "ok"
  OBVIOUS
<1>4. \A i \in 1..10 : i # 6 => checks[i][2] # "ok"
  OBVIOUS
<1>5. checks[4][1] <=> Verdict(context) # "ok"
  BY DEF ContextVerdict
<1>6. \A i \in 1..6 : context[i][2] # "ok"
  OBVIOUS
<1>7. context[1][1] <=> job.epoch # active.epoch
  OBVIOUS
<1> HIDE DEF checks, context, proof
<1>8. ~checks[4][1]
  <2>1. \/ Verdict(checks) = "ok" /\ \A i \in 1..10 : ~checks[i][1]
        \/ \E i \in 1..10 : checks[i][1] /\ Verdict(checks) = checks[i][2]
    BY <1>2, VerdictIs, Zenon
  <2> QED
    BY <1>1, <1>3, <1>4, <2>1
<1>9. ~context[1][1]
  <2>1. \/ Verdict(context) = "ok" /\ \A i \in 1..6 : ~context[i][1]
        \/ \E i \in 1..6 : context[i][1] /\ Verdict(context) = context[i][2]
    BY <1>2, VerdictIs, Zenon
  <2> QED
    BY <1>5, <1>6, <1>8, <2>1
<1> QED
  BY <1>7, <1>9

\* What an answer puts in the lane was scored by a scorer booted for this epoch.
LEMMA ReceiveKeeps ==
  ASSUME ServiceInv, NEW a \in answers, Receive(a)
  PROVE  ServiceInv'
<1> DEFINE job == JobOf(a.request)
           item == [request |-> a.request, boot |-> a.boot]
           good == ResultVerdict(ResultBody(a), job, outstanding, ActiveContext, "fp32-cuda") = "ok"
<1>1. UNCHANGED <<sent, epoch, scorer, line>> /\ answers' \subseteq answers
  BY DEF Receive, rotationVars
<1>2. SentInv' /\ ScorerInv'
  BY <1>1 DEF ServiceInv, SentInv, ScorerInv, Asked
<1>3. pending' = pending \/ (a.status = "200" /\ good /\ pending' = Append(pending, item))
  BY DEF Receive
<1>4. CASE pending' = pending
  BY <1>1, <1>2, <1>4 DEF ServiceInv, LaneInv
<1>5. CASE a.status = "200" /\ good /\ pending' = Append(pending, item)
  <2>1. job.epoch = epoch
    <3>1. ActiveContext.epoch = epoch
      BY DEF ActiveContext
    <3> HIDE DEF job
    <3>2. job.epoch = ActiveContext.epoch
      BY <1>5, PassedIsOfTheEpoch
    <3> QED
      BY <3>1, <3>2
  <2>2. a.request.epoch = a.boot
    BY <1>5 DEF ServiceInv, ScorerInv, AnswerOK
  <2>3. item.boot = epoch
    BY <2>1, <2>2 DEF JobOf
  <2> HIDE DEF item
  <2>4. /\ Listed(Append(pending, item)) /\ Len(pending) \in Nat
        /\ DOMAIN pending = 1..Len(pending) /\ DOMAIN Append(pending, item) = 1..Len(pending) + 1
        /\ \A i \in 1..Len(pending) : Append(pending, item)[i] = pending[i]
        /\ Append(pending, item)[Len(pending) + 1] = item
    <3>1. Listed(pending)
      BY DEF ServiceInv, LaneInv
    <3> QED
      BY <3>1, ListedAppend
  <2>5. ASSUME NEW i \in DOMAIN pending' PROVE pending'[i].boot = epoch
    <3>1. i \in 1..Len(pending) \/ i = Len(pending) + 1
      BY <1>5, <2>4
    <3>2. CASE i \in 1..Len(pending)
      <4>1. pending'[i] = pending[i] /\ i \in DOMAIN pending
        BY <1>5, <2>4, <3>2
      <4> QED
        BY <4>1 DEF ServiceInv, LaneInv
    <3>3. CASE i = Len(pending) + 1
      BY <1>5, <2>3, <2>4, <3>3
    <3> QED
      BY <3>1, <3>2, <3>3
  <2> QED
    BY <1>1, <1>2, <1>5, <2>4, <2>5 DEF ServiceInv, LaneInv
<1> QED
  BY <1>3, <1>4, <1>5

\* The head of the lane leaves it, and may join the line of this epoch.
LEMMA LandKeeps ==
  ASSUME ServiceInv, Land
  PROVE  ServiceInv'
<1> DEFINE item == Head(pending)
           entry(units) == [epoch |-> epoch, request |-> item.request, boot |-> item.boot,
                            units |-> units]
<1>1. /\ UNCHANGED <<sent, epoch, scorer, answers>>
      /\ pending # <<>> /\ pending' = Tail(pending)
      /\ line' = line \/ \E units : line' = Append(line, entry(units))
  BY DEF Land, rotationVars
<1>2. /\ Listed(pending) /\ Listed(line)
      /\ \A i \in DOMAIN pending : pending[i].boot = epoch
      /\ \A i \in DOMAIN line : line[i].boot = line[i].epoch
  BY DEF ServiceInv, LaneInv
<1>3. /\ Listed(Tail(pending)) /\ Len(pending) \in Nat \ {0} /\ Head(pending) = pending[1]
      /\ DOMAIN pending = 1..Len(pending) /\ DOMAIN Tail(pending) = 1..Len(pending) - 1
      /\ \A i \in 1..Len(pending) - 1 : Tail(pending)[i] = pending[i + 1]
  BY <1>1, <1>2, ListedTail
<1>4. Listed(pending') /\ \A i \in DOMAIN pending' : pending'[i].boot = epoch
  BY <1>1, <1>2, <1>3
<1>5. item.boot = epoch
  BY <1>2, <1>3
<1>6. SentInv' /\ ScorerInv'
  BY <1>1 DEF ServiceInv, SentInv, ScorerInv, Asked
<1>7. CASE line' = line
  BY <1>1, <1>2, <1>4, <1>6, <1>7 DEF ServiceInv, LaneInv
<1>8. CASE \E units : line' = Append(line, entry(units))
  <2>1. PICK units : line' = Append(line, entry(units))
    BY <1>8
  <2> DEFINE l == entry(units)
  <2>2. l.boot = l.epoch
    BY <1>5
  <2> HIDE DEF l
  <2>3. /\ Listed(Append(line, l)) /\ Len(line) \in Nat
        /\ DOMAIN line = 1..Len(line) /\ DOMAIN Append(line, l) = 1..Len(line) + 1
        /\ \A i \in 1..Len(line) : Append(line, l)[i] = line[i]
        /\ Append(line, l)[Len(line) + 1] = l
    <3>1. Listed(line)
      BY <1>2
    <3> QED
      BY <3>1, ListedAppend
  <2>4. line' = Append(line, l)
    BY <2>1 DEF l
  <2>5. ASSUME NEW i \in DOMAIN line' PROVE line'[i].boot = line'[i].epoch
    <3>1. i \in 1..Len(line) \/ i = Len(line) + 1
      BY <2>3, <2>4
    <3>2. CASE i \in 1..Len(line)
      <4>1. line'[i] = line[i] /\ i \in DOMAIN line
        BY <2>3, <2>4, <3>2
      <4> QED
        BY <1>2, <4>1
    <3>3. CASE i = Len(line) + 1
      BY <2>2, <2>3, <2>4, <3>3
    <3> QED
      BY <3>1, <3>2, <3>3
  <2> QED
    BY <1>1, <1>4, <1>6, <2>3, <2>4, <2>5 DEF ServiceInv, LaneInv
<1> QED
  BY <1>1, <1>7, <1>8

\* A process that starts, or is gone, holds nothing.
LEMMA EmptyScorer ==
  ASSUME NEW s, NEW up, NEW boot \in 0..MaxEpoch + 1, NEW R,
         s = [up |-> up, boot |-> boot, queue |-> <<>>, active |-> {}, slots |-> 0,
              trace |-> <<>>, dedup |-> {}, scored |-> <<>>]
  PROVE  ScorerOK(s, R) /\ s.queue = <<>>
<1>1. /\ s.up = up /\ s.boot = boot /\ s.queue = <<>> /\ s.active = {} /\ s.slots = 0
      /\ s.trace = <<>> /\ s.dedup = {} /\ s.scored = <<>>
  OBVIOUS
<1>2. IsFiniteSet({}) /\ Cardinality({}) = 0
  BY FS_EmptySet
<1>3. ScorerRecord(s)
  <2>1. s = [up |-> s.up, boot |-> s.boot, queue |-> s.queue, active |-> s.active,
             slots |-> s.slots, trace |-> s.trace, dedup |-> s.dedup, scored |-> s.scored]
    BY <1>1
  <2> QED
    BY <1>1, <2>1 DEF ScorerRecord
<1>4. QueueOK(s, R)
  BY <1>1, <1>2, ServiceConstants DEF QueueOK
<1>5. RunsInItsEpoch(s) /\ AloneOK(s)
  BY <1>1 DEF RunsInItsEpoch, AloneOK
<1> QED
  BY <1>1, <1>3, <1>4, <1>5 DEF ScorerOK

LEMMA ProcessKeeps ==
  ASSUME ServiceInv, ScorerCrash \/ ScorerBoot
  PROVE  ServiceInv'
<1>1. UNCHANGED <<sent, epoch, answers, pending, line>>
  BY DEF ScorerCrash, ScorerBoot, rotationVars
<1>2. 0 \in 0..MaxEpoch + 1 /\ epoch \in 0..MaxEpoch + 1
  BY ServiceConstants DEF ServiceInv, SentInv
<1>3. ScorerOK(scorer', Asked) /\ scorer'.queue = <<>>
  <2>1. CASE ScorerCrash
    <3>1. scorer' = [up |-> FALSE, boot |-> 0, queue |-> <<>>, active |-> {}, slots |-> 0,
                     trace |-> <<>>, dedup |-> {}, scored |-> <<>>]
      BY <2>1 DEF ScorerCrash, Down, Booted
    <3> QED
      BY <1>2, <3>1, EmptyScorer
  <2>2. CASE ScorerBoot
    <3>1. scorer' = [up |-> TRUE, boot |-> epoch, queue |-> <<>>, active |-> {}, slots |-> 0,
                     trace |-> <<>>, dedup |-> {}, scored |-> <<>>]
      BY <2>2 DEF ScorerBoot, Booted
    <3> QED
      BY <1>2, <3>1, EmptyScorer
  <2> QED
    BY <2>1, <2>2
<1> QED
  BY <1>1, <1>3 DEF ServiceInv, SentInv, ScorerInv, LaneInv, Asked

LEMMA ListedEmpty == Listed(<<>>) /\ DOMAIN <<>> = {}
<1>1. DOMAIN <<>> = {}
  OBVIOUS
<1>2. Range(<<>>) = {}
  BY <1>1 DEF Range
<1> QED
  BY <1>1, <1>2 DEF Listed

\* The turn empties the lane when it changes the epoch.
LEMMA TurnKeeps ==
  ASSUME ServiceInv, NEW d, EndEpoch(d)
  PROVE  ServiceInv'
<1>1. /\ UNCHANGED <<sent, scorer, answers, line>> /\ epoch < MaxEpoch
      /\ \/ epoch' = epoch + 1 /\ pending' = <<>>
         \/ epoch' = epoch /\ pending' = pending
  BY DEF EndEpoch
<1>2. epoch' \in 0..MaxEpoch + 1
  BY <1>1, ServiceConstants DEF ServiceInv, SentInv
<1>3. Listed(pending') /\ \A i \in DOMAIN pending' : pending'[i].boot = epoch'
  BY <1>1, ListedEmpty DEF ServiceInv, LaneInv
<1> QED
  BY <1>1, <1>2, <1>3 DEF ServiceInv, SentInv, ScorerInv, LaneInv, Asked

LEMMA SendKeeps ==
  ASSUME ServiceInv, (\E patch \in Patches : Submit(patch)) \/ (\E n \in DOMAIN sent : Resend(n))
  PROVE  ServiceInv'
<1>1. CASE \E patch \in Patches : Submit(patch)
  <2>1. PICK patch \in Patches : Submit(patch)
    BY <1>1
  <2> DEFINE id == Cardinality({sent[n].id : n \in DOMAIN sent}) + 1
             number == Len(sent) + 1
             r == [n |-> number, id |-> id, epoch |-> epoch, parent |-> state, patch |-> patch]
  <2>2. /\ Enqueued(r) /\ sent' = Append(sent, r) /\ UNCHANGED <<epoch, pending, line>>
    BY <2>1 DEF Submit, rotationVars
  <2> HIDE DEF id, number
  <2>3. /\ r = [n |-> number, id |-> r.id, epoch |-> r.epoch, parent |-> r.parent, patch |-> r.patch]
        /\ r.epoch = epoch
    OBVIOUS
  <2> HIDE DEF r
  <2>4. r.epoch \in 0..MaxEpoch + 1
    BY <2>3 DEF ServiceInv, SentInv
  <2>5. SentInv' /\ ScorerInv'
    BY <2>2, <2>3, <2>4, EnqueuedKeeps DEF number
  <2> QED
    BY <2>2, <2>5 DEF ServiceInv, LaneInv
<1>2. CASE \E n \in DOMAIN sent : Resend(n)
  <2>1. PICK k \in DOMAIN sent : Resend(k)
    BY <1>2
  <2> DEFINE number == Len(sent) + 1
             r == [sent[k] EXCEPT !.n = number]
  <2>2. /\ Enqueued(r) /\ sent' = Append(sent, r) /\ UNCHANGED <<epoch, pending, line>>
    BY <2>1 DEF Resend, rotationVars
  <2>3. /\ sent[k] = [n |-> k, id |-> sent[k].id, epoch |-> sent[k].epoch,
                      parent |-> sent[k].parent, patch |-> sent[k].patch]
        /\ sent[k].epoch \in 0..MaxEpoch + 1
    BY DEF ServiceInv, SentInv, Numbered
  <2> HIDE DEF number
  <2>4. r = [n |-> number, id |-> sent[k].id, epoch |-> sent[k].epoch,
             parent |-> sent[k].parent, patch |-> sent[k].patch]
    BY <2>3
  <2> HIDE DEF r
  <2>5. /\ r = [n |-> number, id |-> r.id, epoch |-> r.epoch, parent |-> r.parent, patch |-> r.patch]
        /\ r.epoch = sent[k].epoch
    BY <2>4
  <2>6. SentInv' /\ ScorerInv'
    BY <2>2, <2>3, <2>5, EnqueuedKeeps DEF number
  <2> QED
    BY <2>2, <2>6 DEF ServiceInv, LaneInv
<1> QED
  BY <1>1, <1>2

LEMMA ServiceInit == ASSUME Init PROVE ServiceInv
<1>1. /\ epoch = 1 /\ pending = <<>> /\ line = <<>> /\ sent = <<>> /\ answers = {}
      /\ scorer = [up |-> TRUE, boot |-> 1, queue |-> <<>>, active |-> {}, slots |-> 0,
                   trace |-> <<>>, dedup |-> {}, scored |-> <<>>]
  BY DEF Init, Booted
<1>2. 1 \in 0..MaxEpoch + 1
  BY ServiceConstants
<1>3. ScorerOK(scorer, Asked) /\ scorer.queue = <<>>
  BY <1>1, <1>2, EmptyScorer
<1>4. SentInv /\ LaneInv
  BY <1>1, <1>2, ListedEmpty DEF SentInv, LaneInv, Numbered
<1> QED
  BY <1>1, <1>3, <1>4 DEF ServiceInv, ScorerInv

LEMMA ServiceStep == ASSUME ServiceInv, [Next]_vars PROVE ServiceInv'
<1>1. CASE (\E patch \in Patches : Submit(patch)) \/ (\E n \in DOMAIN sent : Resend(n))
  BY <1>1, SendKeeps
<1>2. CASE \E a \in scorer.active : ScorePack(a)
  BY <1>2, PackKeeps
<1>3. CASE \E a \in scorer.active, scores \in ScorePairs : Finish(a, scores)
  BY <1>3, FinishKeeps
<1>4. CASE \E a \in scorer.active : ScoringFails(a)
  BY <1>4, ScoringFailsKeeps
<1>5. CASE \E a \in answers : LoseAnswer(a)
  BY <1>5 DEF LoseAnswer, rotationVars, ServiceInv, SentInv, ScorerInv, LaneInv, Asked
<1>6. CASE \E a \in answers : Receive(a)
  BY <1>6, ReceiveKeeps
<1>7. CASE Land
  BY <1>7, LandKeeps
<1>8. CASE ScorerCrash \/ ScorerBoot
  BY <1>8, ProcessKeeps
<1>9. CASE \E d \in Deltas : EndEpoch(d)
  BY <1>9, TurnKeeps
<1>10. CASE \E e \in DOMAIN chain : FollowerApply(e)
  BY <1>10 DEF FollowerApply, rotationVars, ServiceInv, SentInv, ScorerInv, LaneInv, Asked
<1>11. CASE UNCHANGED vars
  BY <1>11 DEF vars, ServiceInv, SentInv, ScorerInv, LaneInv, Asked
<1> QED
  BY <1>1, <1>2, <1>3, <1>4, <1>5, <1>6, <1>7, <1>8, <1>9, <1>10, <1>11 DEF Next

LEMMA ServiceInvariance == Spec => []ServiceInv
<1>1. Init => ServiceInv
  BY ServiceInit
<1>2. ServiceInv /\ [Next]_vars => ServiceInv'
  BY ServiceStep
<1> QED
  BY <1>1, <1>2, PTL DEF Spec

(***************************************************************************)
(* The theorems                                                            *)
(***************************************************************************)
\* For any number of workers, a job waits only while every slot is taken by one
\* that runs, through refusals, rejections, throwing rerankers and crashes.
THEOREM QueueNeverStranded == Spec => []WaitsOnlyBehindRunning
<1>1. ServiceInv => WaitsOnlyBehindRunning
  BY DEF ServiceInv, ScorerInv, ScorerOK, QueueOK, WaitsOnlyBehindRunning
<1> QED
  BY <1>1, ServiceInvariance, PTL

\* With one worker the trace of an answer is of that answer's own job.
THEOREM TracesNeverMix == ASSUME OneWorker PROVE Spec => []TraceIsOwnJobs
<1>1. ServiceInv => TraceIsOwnJobs
  BY DEF ServiceInv, ScorerInv, AnswerOK, OwnTrace, TraceIsOwnJobs
<1> QED
  BY <1>1, ServiceInvariance, PTL

\* With one worker no submission is scored to its end twice between two boots.
THEOREM ScoredOnce == ASSUME OneWorker PROVE Spec => []OneScoringPerBoot
<1>1. ServiceInv => OneScoringPerBoot
  BY DEF ServiceInv, ScorerInv, ScorerOK, AloneOK, OneScoringPerBoot
<1> QED
  BY <1>1, ServiceInvariance, PTL

\* What landed was evaluated by a scorer that booted for the epoch it landed in.
THEOREM LandsOnItsContext == Spec => []LandedOnItsContext
<1>1. ServiceInv => LandedOnItsContext
  BY DEF ServiceInv, LaneInv, LandedOnItsContext, ArtifactOf, LoadedAt
<1> QED
  BY <1>1, ServiceInvariance, PTL

(***************************************************************************)
(* The line of landed advances                                             *)
(***************************************************************************)
\* f: the results of the strict application, one after the other.
Leads(f, l) ==
  f = [i \in 0..Len(l) |->
         IF i = 0 THEN Applied(FirstState)
         ELSE IF ~f[i - 1].ok THEN f[i - 1]
         ELSE ApplyPatch(f[i - 1].state, PatchOf(l[i].request), TRUE)]

LineInv == \E f : Leads(f, line) /\ f[Len(line)] = Applied(state)

LEMMA LeadsOnce ==
  ASSUME NEW f, NEW g, NEW l, Len(l) \in Nat, Leads(f, l), Leads(g, l)
  PROVE  f = g
<1> DEFINE n == Len(l)
           Differ == {i \in 0..n : f[i] # g[i]}
           Step(v, i) == IF ~v.ok THEN v ELSE ApplyPatch(v.state, PatchOf(l[i].request), TRUE)
<1>1. /\ f = [i \in 0..n |-> IF i = 0 THEN Applied(FirstState) ELSE Step(f[i - 1], i)]
      /\ g = [i \in 0..n |-> IF i = 0 THEN Applied(FirstState) ELSE Step(g[i - 1], i)]
  BY DEF Leads
<1>2. n \in Nat
  OBVIOUS
<1> HIDE DEF n, Step
<1>3. 0 \notin Differ
  BY <1>1, <1>2
<1>4. ASSUME NEW m \in 1..n, m - 1 \notin Differ
      PROVE  m \notin Differ
  <2>1. m - 1 \in 0..n /\ m \in 0..n /\ m # 0
    BY <1>2
  <2>2. f[m] = Step(f[m - 1], m) /\ g[m] = Step(g[m - 1], m)
    BY <1>1, <2>1
  <2>3. f[m - 1] = g[m - 1]
    BY <1>4, <2>1
  <2> QED
    BY <2>2, <2>3
<1>5. Differ = {}
  <2>1. Differ \subseteq 0..n
    OBVIOUS
  <2> HIDE DEF Differ
  <2> QED
    BY <1>2, <1>3, <1>4, <2>1, NoLeastException
<1>6. \A i \in 0..n : f[i] = g[i]
  BY <1>5
<1> QED
  BY <1>1, <1>6

\* A patch the live lane takes is one the strict application takes, with the same
\* result.
LEMMA LiveIsStrict ==
  ASSUME NEW s, NEW p, NEW threshold, LiveStep(s, p, threshold, TRUE).ok
  PROVE  ApplyPatch(s, p, TRUE) = Applied(LiveStep(s, p, threshold, TRUE).state)
<1> DEFINE live == LiveStep(s, p, threshold, TRUE)
           onto == ApplyOntoCurrent(s, p, TRUE)
<1>1. \A code : ~Failed(code).ok
  BY DEF Failed
<1>2. p.parent = s /\ live = AcceptStep(s, p, threshold, TRUE, TRUE, LiveCodes)
  BY <1>1 DEF LiveStep
<1>3. onto.ok /\ live = Applied(onto.state)
  BY <1>1, <1>2 DEF AcceptStep
<1>4. /\ onto = ResultOf(s, p, TRUE) /\ Len(p.writes) \in 1..4 /\ TypeValid(p)
      /\ ~TouchesHeader(p) /\ PolicyWriteChangesCompanion(s, p)
  BY <1>1, <1>3 DEF ApplyOntoCurrent
<1>5. onto = Applied(Written(s, p))
  BY <1>1, <1>3, <1>4 DEF ResultOf
<1>6. ApplyPatch(s, p, TRUE) = onto
  BY <1>2, <1>4 DEF ApplyPatch
<1>7. live.state = Written(s, p)
  <2>1. \A x : Applied(x).state = x
    BY DEF Applied
  <2> HIDE DEF live, onto
  <2>2. live.state = onto.state /\ onto.state = Written(s, p)
    BY <1>3, <1>5, <2>1
  <2> QED
    BY <2>2
<1> QED
  BY <1>5, <1>6, <1>7

LEMMA LandLeads ==
  ASSUME ServiceInv, LineInv, Land
  PROVE  LineInv'
<1> DEFINE request == Head(pending).request
           p == PatchOf(request)
           live == LiveStep(state, p, GainThreshold, TRUE)
<1>1. PICK f : Leads(f, line) /\ f[Len(line)] = Applied(state)
  BY DEF LineInv
<1>2. CASE UNCHANGED <<line, state>>
  BY <1>2 DEF LineInv, Leads
<1>3. CASE live.ok /\ state' = live.state /\ \E x : line' = Append(line, x) /\ x.request = request
  <2>1. PICK x : line' = Append(line, x) /\ x.request = request
    BY <1>3
  <2>2. PICK n : n = Len(line)
    OBVIOUS
  <2>3. /\ n \in Nat /\ Len(line') = n + 1
        /\ \A i \in 1..n : line'[i] = line[i]
        /\ line'[n + 1] = x
    <3>1. Listed(line)
      BY DEF ServiceInv, LaneInv
    <3> QED
      BY <2>1, <2>2, <3>1, ListedAppend DEF Listed
  <2> DEFINE Step(v, r) == IF ~v.ok THEN v ELSE ApplyPatch(v.state, PatchOf(r), TRUE)
             g == [i \in 0..n + 1 |-> IF i = n + 1 THEN Step(f[n], request) ELSE f[i]]
  <2>4. f = [i \in 0..n |-> IF i = 0 THEN Applied(FirstState) ELSE Step(f[i - 1], line[i].request)]
    BY <1>1, <2>2 DEF Leads
  <2>5. Step(f[n], request) = Applied(live.state)
    <3>1. f[n].ok /\ f[n].state = state
      BY <1>1, <2>2 DEF Applied
    <3>2. ApplyPatch(state, p, TRUE) = Applied(live.state)
      BY <1>3, LiveIsStrict
    <3> QED
      BY <3>1, <3>2
  <2> HIDE DEF Step, p, live, request
  <2>6. g = [i \in 0..n + 1 |-> IF i = 0 THEN Applied(FirstState)
                                ELSE Step(g[i - 1], line'[i].request)]
    <3> SUFFICES ASSUME NEW i \in 0..n + 1
                 PROVE  g[i] = IF i = 0 THEN Applied(FirstState)
                               ELSE Step(g[i - 1], line'[i].request)
      OBVIOUS
    <3>1. CASE i = n + 1
      <4>1. g[i] = Step(f[n], request) /\ g[i - 1] = f[n] /\ i # 0
        BY <2>3, <3>1
      <4> QED
        BY <2>1, <2>3, <3>1, <4>1
    <3>2. CASE i \in 1..n
      <4>1. g[i] = f[i] /\ g[i - 1] = f[i - 1] /\ i # 0 /\ i \in 0..n
        BY <2>3, <3>2
      <4>2. f[i] = Step(f[i - 1], line[i].request)
        BY <2>4, <4>1
      <4> QED
        BY <2>3, <3>2, <4>1, <4>2
    <3>3. CASE i = 0
      <4>1. g[0] = f[0] /\ 0 \in 0..n
        BY <2>3
      <4>2. f[0] = Applied(FirstState)
        BY <2>4, <4>1
      <4> QED
        BY <3>3, <4>1, <4>2
    <3> QED
      BY <2>3, <3>1, <3>2, <3>3
  <2>7. g[n + 1] = Applied(state')
    BY <1>3, <2>3, <2>5
  <2> HIDE DEF g
  <2>8. Leads(g, line')
    BY <2>3, <2>6 DEF Leads, Step
  <2> QED
    BY <2>3, <2>7, <2>8 DEF LineInv, Leads
<1>4. \/ UNCHANGED <<line, state>>
      \/ live.ok /\ state' = live.state /\ \E x : line' = Append(line, x) /\ x.request = request
  <2>1. \A e, b, u : [epoch |-> e, request |-> request, boot |-> b, units |-> u].request = request
    OBVIOUS
  <2> HIDE DEF request
  <2> QED
    BY <2>1 DEF Land, request
<1> QED
  BY <1>2, <1>3, <1>4

LEMMA LineInit == Init => LineInv
<1> SUFFICES ASSUME Init
             PROVE  LineInv
  OBVIOUS
<1> DEFINE f == [i \in 0..0 |-> Applied(FirstState)]
<1>1. line = <<>> /\ state = FirstState /\ Len(line) = 0
  BY DEF Init
<1>2. f[0] = Applied(FirstState) /\ DOMAIN f = {0}
  OBVIOUS
<1>3. Leads(f, line)
  BY <1>1 DEF Leads
<1> HIDE DEF f
<1> QED
  BY <1>1, <1>2, <1>3 DEF LineInv

LEMMA LineStep ==
  ASSUME ServiceInv, LineInv, [Next]_vars
  PROVE  LineInv'
<1>1. CASE Land
  BY <1>1, LandLeads
<1>2. CASE UNCHANGED <<line, state>>
  BY <1>2 DEF LineInv, Leads
<1>3. [Next]_vars => Land \/ UNCHANGED <<line, state>>
  BY DEF Next, vars, Submit, Resend, ScorePack, Finish, ScoringFails, LoseAnswer, Receive,
     ScorerCrash, ScorerBoot, EndEpoch, FollowerApply
<1> QED
  BY <1>1, <1>2, <1>3

\* Whatever the scorer, the coordinator's turns and the retries did, a replayer that
\* applies the landed advances strictly, one after the other, reaches the live state.
THEOREM LineAlwaysReplays == Spec => []LineReplays
<1>1. ServiceInv /\ LineInv => LineReplays
  <2> SUFFICES ASSUME ServiceInv, LineInv
               PROVE  LineReplays
    OBVIOUS
  <2>1. PICK f : Leads(f, line) /\ f[Len(line)] = Applied(state)
    BY DEF LineInv
  <2> DEFINE D == CHOOSE at : Leads(at, line)
  <2>2. Leads(D, line)
    BY <2>1
  <2>3. D = f
    <3>1. Len(line) \in Nat
      BY DEF ServiceInv, LaneInv, Listed
    <3> HIDE DEF D
    <3> QED
      BY <2>1, <2>2, <3>1, LeadsOnce
  <2>4. LineReplays <=> D[Len(line)] = Applied(state)
    BY DEF LineReplays, Leads
  <2> QED
    BY <2>1, <2>3, <2>4
<1>2. LineInv /\ ServiceInv /\ [Next]_vars => LineInv'
  BY LineStep
<1> QED
  BY <1>1, <1>2, LineInit, ServiceInvariance, PTL DEF Spec

(***************************************************************************)
(* The turns of the frontier                                               *)
(***************************************************************************)
FrontierInv ==
  /\ FrontierOK(frontier) /\ frontier.started
  /\ profile \in Profiles
  /\ epoch \in Nat \ {0}
  /\ ~rotationRefused

LEMMA CountedInEpoch ==
  ASSUME NEW s, Listed(s)
  PROVE  Cardinality(OfThisEpoch(s)) \in Nat
<1>1. DOMAIN s = 1..Len(s) /\ Len(s) \in Int
  BY DEF Listed
<1>2. IsFiniteSet(1..Len(s)) /\ OfThisEpoch(s) \in SUBSET (1..Len(s))
  BY <1>1, FS_Interval DEF OfThisEpoch
<1> QED
  BY <1>2, FS_Subset, FS_CardinalityType

\* The hidden queries a delta adds are the bridged ones.
LEMMA AddedIds ==
  ASSUME NEW d \in Deltas, NEW e \in 2..MaxEpoch, NEW docs,
         NEW bridged, bridged = Bridged(corpus, docs, LiveIn(e, d.queries), corpus.modelId, corpus.revision),
         bridged.ok,
         NEW gone, NEW delta, delta = BuildDelta(corpus, bridged.records, gone, e), delta.ok
  PROVE  HiddenIds(delta.added) \subseteq DOMAIN FamilyOf
<1>1. bridged.records = {DocRecord(doc, corpus) : doc \in docs}
                          \cup {QueryRecord(q, corpus) : q \in LiveIn(e, d.queries)}
  BY DEF Bridged, Failure
<1>2. delta.added \subseteq bridged.records
  BY DEF BuildDelta, Failure
<1> SUFFICES ASSUME NEW r \in delta.added, r.split = "eval_hidden"
             PROVE  r.id \in DOMAIN FamilyOf
  BY DEF HiddenIds
<1>3. r \notin {DocRecord(doc, corpus) : doc \in docs}
  BY DEF DocRecord
<1>4. PICK q \in LiveIn(e, d.queries) : r = QueryRecord(q, corpus)
  BY <1>1, <1>2, <1>3
<1>5. r.id = QueryId(q)
  BY <1>4 DEF QueryRecord
<1>6. \A q1 \in LiveIn(e, d.queries) : QueryId(q1) \in DOMAIN FamilyOf
  BY FrontierConstants
<1> QED
  BY <1>4, <1>5, <1>6

\* A turn is never refused: it prunes, refills and steps the frontier.
LEMMA Turned ==
  ASSUME ServiceInv, FrontierInv, NEW d \in Deltas, EndEpoch(d)
  PROVE  /\ epoch' = epoch + 1 /\ UNCHANGED <<profile, rotationRefused>>
         /\ \E ids, attempts : \E accepts \in Nat :
              /\ ids \subseteq DOMAIN FamilyOf
              /\ frontier' = StepEpoch(AddReserveIds(PruneFrontier(frontier, HiddenIds(corpus'.records)), ids),
                                       profile, epoch + 1, accepts, attempts)
<1> DEFINE docs == LiveIn(epoch + 1, d.docs)
           bridged == Bridged(corpus, docs, LiveIn(epoch + 1, d.queries), corpus.modelId, corpus.revision)
           gone == GoneIds(d)
           delta == BuildDelta(corpus, bridged.records, gone, epoch + 1)
           next == ApplyDelta(corpus, delta, TRUE)
           saved == PruneFrontier(frontier, HiddenIds(next.records))
           refilled == AddReserveIds(saved, HiddenIds(delta.added))
           accepts == Cardinality(OfThisEpoch(line))
           attempts == Cardinality(OfThisEpoch(sent))
<1>1. /\ epoch < MaxEpoch /\ bridged.ok /\ delta.ok /\ UNCHANGED profile
      /\ IF RestoreAccepted(saved, HiddenIds(next.records))
         THEN /\ epoch' = epoch + 1 /\ corpus' = next /\ UNCHANGED rotationRefused
              /\ frontier' = StepEpoch(refilled, profile, epoch + 1, accepts, attempts)
         ELSE rotationRefused' = TRUE
  BY DEF EndEpoch
<1>2. RestoreAccepted(saved, HiddenIds(next.records))
  <2> HIDE DEF next
  <2> QED
    BY PruneKeeps DEF FrontierInv
<1>3. HiddenIds(delta.added) \subseteq DOMAIN FamilyOf
  <2>1. epoch + 1 \in 2..MaxEpoch
    BY <1>1, ServiceConstants DEF FrontierInv
  <2> HIDE DEF docs, gone
  <2> QED
    BY <1>1, <2>1, AddedIds
<1>4. accepts \in Nat
  BY CountedInEpoch DEF ServiceInv, LaneInv
<1>5. corpus' = next
  BY <1>1, <1>2
<1> DEFINE ids == HiddenIds(delta.added)
<1> HIDE DEF delta, next, accepts, attempts
<1>6. /\ epoch' = epoch + 1 /\ UNCHANGED <<profile, rotationRefused>>
      /\ frontier' = StepEpoch(AddReserveIds(PruneFrontier(frontier, HiddenIds(corpus'.records)), ids),
                               profile, epoch + 1, accepts, attempts)
  BY <1>1, <1>2, <1>5
<1> HIDE DEF ids
<1> QED
  BY <1>3, <1>4, <1>6 DEF ids

\* What a turn does to the window.
Turns ==
  epoch' # epoch =>
    /\ Cardinality(ActiveIds(frontier')) >= Cardinality(KeptActive) - Cardinality(OfAge)
    /\ \A gone \in KeptActive \ ActiveIds(frontier'), stays \in KeptActive \cap ActiveIds(frontier') :
         frontier.active[gone] <= frontier.active[stays]

LEMMA TurnedWindow ==
  ASSUME ServiceInv, FrontierInv, NEW d \in Deltas, EndEpoch(d)
  PROVE  FrontierInv' /\ Turns
<1> DEFINE known == HiddenIds(corpus'.records)
<1>1. epoch' = epoch + 1 /\ UNCHANGED <<profile, rotationRefused>>
  BY Turned
<1>2. PICK ids, attempts :
        \E accepts \in Nat :
          /\ ids \subseteq DOMAIN FamilyOf
          /\ frontier' = StepEpoch(AddReserveIds(PruneFrontier(frontier, known), ids),
                                   profile, epoch + 1, accepts, attempts)
  BY Turned
<1>15. PICK accepts \in Nat :
         /\ ids \subseteq DOMAIN FamilyOf
         /\ frontier' = StepEpoch(AddReserveIds(PruneFrontier(frontier, known), ids),
                                  profile, epoch + 1, accepts, attempts)
  BY <1>2
<1> HIDE DEF known
<1>3. PICK saved : saved = PruneFrontier(frontier, known)
  OBVIOUS
<1>4. /\ FrontierOK(saved) /\ saved.started = frontier.started
      /\ ActiveIds(saved) = ActiveIds(frontier) \cap known
      /\ \A id \in ActiveIds(saved) : saved.active[id] = frontier.active[id]
  <2>1. FrontierOK(frontier)
    BY DEF FrontierInv
  <2> QED
    BY <1>3, <2>1, PruneKeeps
<1>5. PICK f : f = AddReserveIds(saved, ids)
  OBVIOUS
<1>6. FrontierOK(f) /\ f.started = saved.started /\ f.active = saved.active
  BY <1>4, <1>5, <1>15, RefillKeeps
<1>7. /\ ActiveIds(f) = KeptActive
      /\ \A id \in ActiveIds(f) : f.active[id] = frontier.active[id]
  BY <1>4, <1>6 DEF KeptActive, ActiveIds, known
<1>8. epoch + 1 \in Int /\ ProfileOK(profile) /\ f.started
  BY <1>4, <1>6, FrontierConstants DEF FrontierInv
<1>9. frontier' = LaterStep(f, profile, epoch + 1, accepts, attempts)
  BY <1>3, <1>5, <1>8, <1>15 DEF StepEpoch
<1>10. Aged(f, profile, epoch + 1) = OfAge
  BY <1>1, <1>7 DEF Aged, OfAge
<1>11. PICK g, aged : g = frontier' /\ aged = OfAge
  OBVIOUS
<1>12. /\ FrontierOK(g) /\ g.started = f.started
       /\ Cardinality(ActiveIds(g)) >= Cardinality(ActiveIds(f)) - Cardinality(aged)
       /\ \A gone \in ActiveIds(f) \ ActiveIds(g), stays \in ActiveIds(f) \cap ActiveIds(g) :
            f.active[gone] <= f.active[stays]
  BY <1>6, <1>8, <1>9, <1>10, <1>11, LaterStepKeeps
<1>13. Turns
  <2>1. Cardinality(ActiveIds(frontier')) >= Cardinality(KeptActive) - Cardinality(OfAge)
    BY <1>7, <1>11, <1>12
  <2>2. \A gone \in KeptActive \ ActiveIds(frontier'), stays \in KeptActive \cap ActiveIds(frontier') :
          frontier.active[gone] <= frontier.active[stays]
    BY <1>7, <1>11, <1>12
  <2> QED
    BY <2>1, <2>2 DEF Turns
<1>14. FrontierInv'
  <2>1. FrontierOK(frontier') /\ frontier'.started
    BY <1>8, <1>11, <1>12
  <2>2. FrontierOK(frontier)'
    <3>1. FrontierOK(g)
      BY <1>12
    <3> QED
      BY <1>11, <3>1 DEF FrontierOK, Exact, ActiveIds
  <2> QED
    BY <1>1, <2>1, <2>2 DEF FrontierInv
<1> QED
  BY <1>13, <1>14

LEMMA FrontierInit == Init => FrontierInv
<1> SUFFICES ASSUME Init
             PROVE  FrontierInv
  OBVIOUS
<1>1. /\ epoch = 1 /\ profile \in Profiles /\ rotationRefused = FALSE
      /\ frontier = StepEpoch(NewFrontier(HiddenIds(FirstRecords)), profile, 1, 0, 0)
  BY DEF Init
<1>2. FrontierOK(NewFrontier(HiddenIds(FirstRecords)))
  BY FrontierConstants, NewKeeps
<1>3. 1 \in Int /\ 0 \in Nat /\ ProfileOK(profile)
  BY <1>1, FrontierConstants
<1>4. FrontierOK(frontier) /\ frontier.started
  BY <1>1, <1>2, <1>3, StepKeeps
<1> QED
  BY <1>1, <1>4 DEF FrontierInv

LEMMA FrontierStep ==
  ASSUME ServiceInv, FrontierInv, [Next]_vars
  PROVE  FrontierInv' /\ Turns
<1>1. CASE \E d \in Deltas : EndEpoch(d)
  BY <1>1, TurnedWindow
<1>2. CASE UNCHANGED <<epoch, frontier, profile, rotationRefused>>
  BY <1>2 DEF FrontierInv, FrontierOK, Exact, ActiveIds, Turns
<1>3. (\E d \in Deltas : EndEpoch(d)) \/ UNCHANGED <<epoch, frontier, profile, rotationRefused>>
  BY DEF Next, vars, rotationVars, Submit, Resend, ScorePack, Finish, ScoringFails, LoseAnswer,
     Receive, Land, ScorerCrash, ScorerBoot, FollowerApply
<1> QED
  BY <1>1, <1>2, <1>3

LEMMA FrontierInvariance == Spec => [](ServiceInv /\ FrontierInv)
<1>1. ServiceInv /\ FrontierInv /\ [Next]_vars => FrontierInv'
  BY FrontierStep
<1> QED
  BY <1>1, FrontierInit, ServiceInvariance, PTL DEF Spec

\* No delta leaves the next epoch without a frontier: what the prune leaves names
\* only ids of the corpus it is restored with.
THEOREM RotationNeverRefused == Spec => []RotationCompletes
<1>1. FrontierInv => RotationCompletes
  BY DEF FrontierInv, RotationCompletes
<1> QED
  BY <1>1, FrontierInvariance, PTL

\* The pointer stays exact through every prune, refill and step of the controller.
THEOREM ReserveStaysExact == Spec => []ReserveExact
<1>1. FrontierInv => ReserveExact
  BY DEF FrontierInv, FrontierOK, ReserveExact
<1> QED
  BY <1>1, FrontierInvariance, PTL

\* Whatever the profile asks for, a turn loses at most the ids that reached their
\* age and those the corpus dropped.
THEOREM WindowKeepsItsSize == Spec => WindowShrinksOnlyByAge
<1>1. ServiceInv /\ FrontierInv /\ [Next]_vars =>
        [epoch' # epoch =>
           Cardinality(ActiveIds(frontier')) >= Cardinality(KeptActive) - Cardinality(OfAge)]_vars
  BY FrontierStep DEF Turns
<1> QED
  BY <1>1, FrontierInvariance, PTL DEF Spec, WindowShrinksOnlyByAge

\* No id is retired before one that was activated earlier.
THEOREM OldestRetireFirst == Spec => OldestLeaveFirst
<1>1. ServiceInv /\ FrontierInv /\ [Next]_vars =>
        [epoch' # epoch =>
           \A gone \in KeptActive \ ActiveIds(frontier'), stays \in KeptActive \cap ActiveIds(frontier') :
             frontier.active[gone] <= frontier.active[stays]]_vars
  BY FrontierStep DEF Turns
<1> QED
  BY <1>1, FrontierInvariance, PTL DEF Spec, OldestLeaveFirst

(***************************************************************************)
(* The root cache                                                          *)
(***************************************************************************)
\* Records that can be put in id order.
RecordsOK(R) ==
  /\ IsFiniteSet(R)
  /\ \A r \in R : r.id \in Int
  /\ \A r, s \in R : r.id = s.id => r = s

LeavesOK(S) ==
  /\ IsFiniteSet(S)
  /\ \A l \in S : l[2] \in Int
  /\ \A l, m \in S : l[2] = m[2] => l = m

LeafOrder(S) == {p \in S \X S : p[1][2] < p[2][2]}
LeavesOf(R) == {Leaf(r) : r \in R}

LEMMA LeavesOfRecords ==
  ASSUME NEW R, RecordsOK(R)
  PROVE  LeavesOK(LeavesOf(R))
<1> DEFINE f == [r \in R |-> Leaf(r)]
<1>1. \A r : Leaf(r)[2] = r.id
  BY DEF Leaf
<1>2. IsFiniteSet(LeavesOf(R))
  <2>1. f \in Surjection(R, LeavesOf(R))
    BY DEF LeavesOf, Surjection
  <2> HIDE DEF f
  <2> QED
    BY <2>1, FS_Surjection DEF RecordsOK
<1>3. \A l \in LeavesOf(R) : \E r \in R : l = Leaf(r)
  BY DEF LeavesOf
<1> QED
  BY <1>1, <1>2, <1>3 DEF LeavesOK, RecordsOK

LEMMA LeafOrderTotal ==
  ASSUME NEW S, LeavesOK(S)
  PROVE  StrictTotal(S, LeafOrder(S))
<1>1. \A l, m \in S : <<l, m>> \in LeafOrder(S) <=> l[2] < m[2]
  BY DEF LeafOrder
<1>2. \A l \in S : l[2] \in Int
  BY DEF LeavesOK
<1>3. \A l, m \in S : l # m => l[2] # m[2]
  BY DEF LeavesOK
<1> QED
  BY <1>1, <1>2, <1>3 DEF StrictTotal

\* A leaf stands behind as many leaves as have a lower id.
LEMMA InIdOrderAt ==
  ASSUME NEW S, LeavesOK(S)
  PROVE  /\ Cardinality(S) \in Nat
         /\ InIdOrder(S) \in [1..Cardinality(S) -> S]
         /\ \A i \in 1..Cardinality(S) : Rank(S, LeafOrder(S), InIdOrder(S)[i]) = i - 1
         /\ \A x \in S : /\ Rank(S, LeafOrder(S), x) + 1 \in 1..Cardinality(S)
                         /\ InIdOrder(S)[Rank(S, LeafOrder(S), x) + 1] = x
<1> DEFINE R == LeafOrder(S)
           UpTo(x) == {l \in S : l[2] <= x[2]}
           Below(x) == {l \in S : <<l, x>> \in R}
<1>1. PICK n \in Nat : n = Cardinality(S)
  BY FS_CardinalityType DEF LeavesOK
<1>2. StrictTotal(S, R) /\ IsFiniteSet(S)
  BY LeafOrderTotal DEF LeavesOK
<1>3. \A x \in S : Cardinality(UpTo(x)) = Rank(S, R, x) + 1
  <2> TAKE x \in S
  <2>1. \A l \in S : l[2] \in Int /\ (l[2] = x[2] => l = x) /\ (<<l, x>> \in R <=> l[2] < x[2])
    BY DEF LeavesOK, LeafOrder
  <2>2. UpTo(x) = Below(x) \cup {x} /\ x \notin Below(x)
    <3>1. \A l \in S : l[2] <= x[2] <=> (l[2] < x[2] \/ l = x)
      <4> TAKE l \in S
      <4>1. l[2] \in Int /\ x[2] \in Int /\ (l[2] = x[2] <=> l = x)
        BY <2>1
      <4> QED
        BY <4>1
    <3>2. \A l \in S : l \in Below(x) <=> l[2] < x[2]
      BY <2>1
    <3>3. \A l : l \in UpTo(x) <=> (l \in Below(x) \/ l = x)
      BY <3>1, <3>2
    <3>4. x \notin Below(x)
      BY <2>1
    <3> HIDE DEF UpTo, Below
    <3> QED
      BY <3>3, <3>4
  <2>3. IsFiniteSet(Below(x))
    <3>1. Below(x) \in SUBSET S
      OBVIOUS
    <3> HIDE DEF Below
    <3> QED
      BY <1>2, <3>1, FS_Subset
  <2>4. Rank(S, R, x) = Cardinality(Below(x))
    BY DEF Rank
  <2> HIDE DEF Below, UpTo
  <2> QED
    BY <2>2, <2>3, <2>4, FS_AddElement
<1>4. \A i \in 1..n : InIdOrder(S)[i] = CHOOSE x \in S : Cardinality(UpTo(x)) = i
  BY <1>1 DEF InIdOrder
<1>11. InIdOrder(S) = [i \in 1..n |-> CHOOSE x \in S : Cardinality(UpTo(x)) = i]
  BY <1>1 DEF InIdOrder
<1> HIDE DEF R, UpTo
<1>5. /\ \A x \in S : Rank(S, R, x) \in Nat /\ Rank(S, R, x) < n
      /\ \A x, y \in S : Rank(S, R, x) = Rank(S, R, y) => x = y
  BY <1>1, <1>2, Ranked
<1>6. \A i \in 1..n : \E x \in S : Rank(S, R, x) = i - 1
  <2>1. /\ Enumerated(S, R) \in [1..n -> S]
        /\ \A i \in 1..n : Rank(S, R, Enumerated(S, R)[i]) = i - 1
    BY <1>1, <1>2, EnumeratedOnto
  <2> QED
    BY <2>1
<1>7. \A i \in 1..n : InIdOrder(S)[i] \in S /\ Rank(S, R, InIdOrder(S)[i]) = i - 1
  <2> TAKE i \in 1..n
  <2>1. PICK x \in S : Rank(S, R, x) = i - 1
    BY <1>6
  <2>2. \A y \in S : Cardinality(UpTo(y)) = i <=> y = x
    <3> TAKE y \in S
    <3>1. Cardinality(UpTo(y)) = Rank(S, R, y) + 1 /\ Rank(S, R, y) \in Nat
      BY <1>3, <1>5
    <3> QED
      BY <1>5, <2>1, <3>1
  <2>3. InIdOrder(S)[i] = x
    BY <1>4, <2>2
  <2> QED
    BY <2>1, <2>3
<1>8. \A x \in S : Rank(S, R, x) + 1 \in 1..n
  BY <1>5
<1>9. \A x \in S : InIdOrder(S)[Rank(S, R, x) + 1] = x
  <2> TAKE x \in S
  <2>1. PICK i \in 1..n : i = Rank(S, R, x) + 1
    BY <1>8
  <2>2. Rank(S, R, InIdOrder(S)[i]) = i - 1 /\ i - 1 = Rank(S, R, x) /\ InIdOrder(S)[i] \in S
    BY <1>5, <1>7, <2>1
  <2>3. InIdOrder(S)[i] = x
    BY <1>5, <2>2
  <2> QED
    BY <2>1, <2>3
<1>10. InIdOrder(S) \in [1..n -> S]
  <2>1. DOMAIN InIdOrder(S) = 1..n /\ InIdOrder(S) = [i \in 1..n |-> InIdOrder(S)[i]]
    BY <1>11
  <2> QED
    BY <1>7, <2>1
<1> QED
  BY <1>1, <1>7, <1>8, <1>9, <1>10 DEF R

LEMMA InIdOrderHolds ==
  ASSUME NEW S, LeavesOK(S)
  PROVE  /\ InIdOrder(S) \in Seq(S) /\ Len(InIdOrder(S)) = Cardinality(S)
         /\ Range(InIdOrder(S)) = S
<1>1. PICK n \in Nat : n = Cardinality(S)
  BY InIdOrderAt
<1>2. PICK s : s = InIdOrder(S)
  OBVIOUS
<1>3. s \in [1..n -> S] /\ \A x \in S : \E i \in 1..n : s[i] = x
  BY <1>1, <1>2, InIdOrderAt
<1>4. s \in Seq(S) /\ Len(s) = n /\ DOMAIN s = 1..n
  BY <1>3
<1>5. Range(s) = S
  BY <1>3, <1>4 DEF Range
<1> QED
  BY <1>1, <1>2, <1>4, <1>5

\* New leaves with higher ids come behind the old ones.
LEMMA InIdOrderAppends ==
  ASSUME NEW S, NEW T, LeavesOK(S), LeavesOK(T), \A l \in S, m \in T : l[2] < m[2]
  PROVE  LeavesOK(S \cup T) /\ InIdOrder(S) \o InIdOrder(T) = InIdOrder(S \cup T)
<1> DEFINE U == S \cup T
           BelowS(x) == {l \in S : <<l, x>> \in LeafOrder(S)}
           BelowT(x) == {l \in T : <<l, x>> \in LeafOrder(T)}
           BelowU(x) == {l \in U : <<l, x>> \in LeafOrder(U)}
<1>1. S \cap T = {}
  BY DEF LeavesOK
<1>2. PICK n \in Nat : n = Cardinality(S)
  BY InIdOrderAt
<1>3. PICK m \in Nat : m = Cardinality(T)
  BY InIdOrderAt
<1>4. IsFiniteSet(U) /\ Cardinality(U) = n + m
  <2>1. IsFiniteSet(U) /\ Cardinality(U) = n + m - Cardinality(S \cap T)
    BY <1>2, <1>3, FS_Union DEF LeavesOK
  <2>2. Cardinality(S \cap T) = 0
    BY <1>1, FS_EmptySet
  <2> QED
    BY <2>1, <2>2
<1>5. LeavesOK(U)
  <2>1. \A l \in U : l[2] \in Int
    BY DEF LeavesOK
  <2>2. \A l, k \in U : l[2] = k[2] => l = k
    BY DEF LeavesOK
  <2> QED
    BY <1>4, <2>1, <2>2 DEF LeavesOK
<1>6. \A x \in S : Rank(U, LeafOrder(U), x) = Rank(S, LeafOrder(S), x)
  <2> TAKE x \in S
  <2>1. \A l \in U : l \in BelowU(x) <=> l \in BelowS(x)
    BY DEF LeafOrder, LeavesOK
  <2>2. BelowU(x) = BelowS(x)
    BY <2>1
  <2> QED
    BY <2>2 DEF Rank
<1>7. \A x \in T : Rank(U, LeafOrder(U), x) = n + Rank(T, LeafOrder(T), x)
  <2> TAKE x \in T
  <2>1. \A l : l \in BelowU(x) <=> l \in S \/ l \in BelowT(x)
    BY DEF LeafOrder
  <2>2. BelowU(x) = S \cup BelowT(x) /\ S \cap BelowT(x) = {} /\ BelowT(x) \in SUBSET T
    <3>1. BelowT(x) \in SUBSET T
      OBVIOUS
    <3> HIDE DEF BelowU, BelowT
    <3> QED
      BY <1>1, <2>1, <3>1
  <2>3. IsFiniteSet(BelowT(x)) /\ Cardinality(BelowT(x)) \in Nat
    BY <2>2, FS_Subset, FS_CardinalityType DEF LeavesOK
  <2>4. Rank(U, LeafOrder(U), x) = Cardinality(BelowU(x)) /\ Rank(T, LeafOrder(T), x) = Cardinality(BelowT(x))
    BY DEF Rank
  <2> HIDE DEF BelowU, BelowT, U
  <2>5. Cardinality(S \cup BelowT(x)) = n + Cardinality(BelowT(x)) - Cardinality(S \cap BelowT(x))
    BY <1>2, <2>3, FS_Union DEF LeavesOK
  <2>6. Cardinality(S \cap BelowT(x)) = 0
    BY <2>2, FS_EmptySet
  <2> QED
    BY <1>2, <2>2, <2>3, <2>4, <2>5, <2>6
<1>8. PICK s, t, u : s = InIdOrder(S) /\ t = InIdOrder(T) /\ u = InIdOrder(U)
  OBVIOUS
<1>9. /\ s \in [1..n -> S] /\ \A i \in 1..n : Rank(S, LeafOrder(S), s[i]) = i - 1
      /\ t \in [1..m -> T] /\ \A i \in 1..m : Rank(T, LeafOrder(T), t[i]) = i - 1
  BY <1>2, <1>3, <1>8, InIdOrderAt
<1>10. u \in [1..n + m -> U] /\ \A x \in U : u[Rank(U, LeafOrder(U), x) + 1] = x
  BY <1>4, <1>5, <1>8, InIdOrderAt
<1>11. \A i \in 1..n : u[i] = s[i]
  <2> TAKE i \in 1..n
  <2>1. s[i] \in S /\ s[i] \in U /\ Rank(U, LeafOrder(U), s[i]) = i - 1
    BY <1>6, <1>9
  <2>2. u[(i - 1) + 1] = s[i]
    BY <1>10, <2>1
  <2> QED
    BY <2>2
<1>12. \A i \in 1..m : u[n + i] = t[i]
  <2> TAKE i \in 1..m
  <2>1. t[i] \in T /\ t[i] \in U /\ Rank(U, LeafOrder(U), t[i]) = n + (i - 1)
    BY <1>7, <1>9
  <2>2. u[(n + (i - 1)) + 1] = t[i] /\ (n + (i - 1)) + 1 = n + i
    BY <1>10, <2>1
  <2> QED
    BY <2>2
<1>13. s \o t = u
  <2> HIDE DEF U
  <2>1. s \in Seq(U) /\ t \in Seq(U) /\ Len(s) = n /\ Len(t) = m
    BY <1>9 DEF U
  <2>2. PICK w : w = s \o t
    OBVIOUS
  <2>3. w \in Seq(U) /\ Len(w) = n + m
    <3>1. s \o t \in Seq(U) /\ Len(s \o t) = Len(s) + Len(t)
      BY <2>1
    <3> QED
      BY <2>1, <2>2, <3>1
  <2>4. \A i \in 1..n : w[i] = s[i]
    BY <2>1, <2>2
  <2>5. \A i \in 1..m : w[n + i] = t[i]
    BY <2>1, <2>2
  <2>6. \A i \in 1..n + m : u[i] = w[i]
    <3> TAKE i \in 1..n + m
    <3>1. CASE i <= n
      BY <1>11, <2>4, <3>1
    <3>2. CASE ~(i <= n)
      <4>1. i - n \in 1..m /\ n + (i - n) = i
        BY <3>2
      <4>2. u[n + (i - n)] = w[n + (i - n)]
        BY <1>12, <2>5, <4>1
      <4> QED
        BY <4>1, <4>2
    <3> QED
      BY <3>1, <3>2
  <2>7. w = [i \in 1..n + m |-> w[i]] /\ u = [i \in 1..n + m |-> u[i]]
    BY <1>10, <2>3
  <2> QED
    BY <2>2, <2>6, <2>7
<1> QED
  BY <1>5, <1>8, <1>13

\* The forests a growth goes through.
GrowsBy(f, forest, leaves, n) ==
  f = [k \in 0..n |-> IF k = 0 THEN forest ELSE AppendTree(f[k - 1], Tree(1, leaves[k]))]

LEMMA GrowsSome ==
  ASSUME NEW forest, NEW leaves, NEW n \in Nat
  PROVE  \E f : GrowsBy(f, forest, leaves, n)
<1> DEFINE Undefined == {m \in 0..n : ~\E f : GrowsBy(f, forest, leaves, m)}
<1>1. 0 \notin Undefined
  <2> DEFINE f == [k \in 0..0 |-> forest]
  <2>1. GrowsBy(f, forest, leaves, 0)
    BY DEF GrowsBy
  <2> QED
    BY <2>1
<1>2. ASSUME NEW m \in 1..n, m - 1 \notin Undefined
      PROVE  m \notin Undefined
  <2>1. PICK f : GrowsBy(f, forest, leaves, m - 1)
    BY <1>2
  <2> DEFINE g == [k \in 0..m |-> IF k = m THEN AppendTree(f[m - 1], Tree(1, leaves[m])) ELSE f[k]]
  <2>2. \A k \in 0..m - 1 : f[k] = IF k = 0 THEN forest ELSE AppendTree(f[k - 1], Tree(1, leaves[k]))
    BY <2>1 DEF GrowsBy
  <2>3. m \in Nat /\ m # 0 /\ DOMAIN g = 0..m
    OBVIOUS
  <2>4. \A k \in 0..m - 1 : g[k] = f[k]
    BY <2>3
  <2>5. g[m] = AppendTree(f[m - 1], Tree(1, leaves[m]))
    BY <2>3
  <2> HIDE DEF g
  <2>6. \A k \in 0..m : g[k] = IF k = 0 THEN forest ELSE AppendTree(g[k - 1], Tree(1, leaves[k]))
    <3> TAKE k \in 0..m
    <3>1. CASE k = m
      BY <2>3, <2>4, <2>5, <3>1
    <3>2. CASE k \in 1..m - 1
      <4>1. g[k] = f[k] /\ g[k - 1] = f[k - 1]
        BY <2>3, <2>4, <3>2
      <4> QED
        BY <2>2, <2>3, <3>2, <4>1
    <3>3. CASE k = 0
      BY <2>2, <2>3, <2>4, <3>3
    <3> QED
      BY <2>3, <3>1, <3>2, <3>3
  <2>7. g = [k \in 0..m |-> g[k]]
    BY DEF g
  <2>8. GrowsBy(g, forest, leaves, m)
    BY <2>6, <2>7 DEF GrowsBy
  <2> QED
    BY <2>8
<1>3. Undefined = {}
  <2>1. Undefined \subseteq 0..n
    OBVIOUS
  <2> HIDE DEF Undefined
  <2> QED
    BY <1>1, <1>2, <2>1, NoLeastException
<1> QED
  BY <1>3

\* A growth, its steps and where it ends.
Growth(f, forest, leaves, n) ==
  /\ f[0] = forest
  /\ \A k \in 1..n : f[k] = AppendTree(f[k - 1], Tree(1, leaves[k]))
  /\ Grown(forest, leaves) = f[n]

LEMMA GrowsTo ==
  ASSUME NEW forest, NEW leaves, NEW n \in Nat, Len(leaves) = n
  PROVE  \E f : Growth(f, forest, leaves, n)
<1> DEFINE D == CHOOSE f : GrowsBy(f, forest, leaves, n)
<1>1. Grown(forest, leaves) = D[n]
  BY DEF Grown, GrowsBy
<1>2. GrowsBy(D, forest, leaves, n)
  BY GrowsSome
<1> HIDE DEF D
<1>3. D[0] = forest
  BY <1>2 DEF GrowsBy
<1>4. \A k \in 1..n : D[k] = AppendTree(D[k - 1], Tree(1, leaves[k]))
  BY <1>2 DEF GrowsBy
<1> QED
  BY <1>1, <1>3, <1>4 DEF Growth

\* Growing by one sequence and then by another is growing by both.
LEMMA GrownConcat ==
  ASSUME NEW forest, NEW S, NEW a \in Seq(S), NEW b \in Seq(S)
  PROVE  Grown(forest, a \o b) = Grown(Grown(forest, a), b)
<1>0. Len(a) \in Nat /\ Len(b) \in Nat
  OBVIOUS
<1>1. PICK n, m, c : n = Len(a) /\ m = Len(b) /\ c = a \o b
  OBVIOUS
<1>2. /\ n \in Nat /\ m \in Nat /\ n + m \in Nat
      /\ c \in Seq(S) /\ Len(c) = n + m
      /\ \A k \in 1..n : c[k] = a[k]
      /\ \A k \in 1..m : c[n + k] = b[k]
  BY <1>0, <1>1
<1>10. PICK f : Growth(f, forest, a, n)
  BY <1>1, <1>2, GrowsTo
<1>11. PICK g : Growth(g, f[n], b, m)
  BY <1>1, <1>2, GrowsTo
<1>12. PICK h : Growth(h, forest, c, n + m)
  BY <1>1, <1>2, GrowsTo
<1>3. /\ f[0] = forest
      /\ \A k \in 1..n : f[k] = AppendTree(f[k - 1], Tree(1, a[k]))
      /\ Grown(forest, a) = f[n]
  BY <1>10 DEF Growth
<1>4. /\ g[0] = f[n]
      /\ \A k \in 1..m : g[k] = AppendTree(g[k - 1], Tree(1, b[k]))
      /\ Grown(f[n], b) = g[m]
  BY <1>11 DEF Growth
<1>5. /\ h[0] = forest
      /\ \A k \in 1..n + m : h[k] = AppendTree(h[k - 1], Tree(1, c[k]))
      /\ Grown(forest, c) = h[n + m]
  BY <1>12 DEF Growth
<1> DEFINE A == {k \in 0..n : h[k] # f[k]}
           B == {k \in 0..m : h[n + k] # g[k]}
<1>6. A = {}
  <2>1. A \subseteq 0..n /\ 0 \notin A
    BY <1>2, <1>3, <1>5
  <2>2. ASSUME NEW k \in 1..n, k - 1 \notin A
        PROVE  k \notin A
    <3>1. k \in 1..n + m /\ k - 1 \in 0..n
      BY <1>2
    <3>2. h[k - 1] = f[k - 1]
      BY <2>2, <3>1
    <3> QED
      BY <1>2, <1>3, <1>5, <3>1, <3>2
  <2> HIDE DEF A
  <2> QED
    BY <1>2, <2>1, <2>2, NoLeastException
<1>7. h[n] = f[n]
  BY <1>2, <1>6
<1>8. B = {}
  <2>1. B \subseteq 0..m /\ 0 \notin B
    BY <1>2, <1>4, <1>7
  <2>2. ASSUME NEW k \in 1..m, k - 1 \notin B
        PROVE  k \notin B
    <3>1. n + k \in 1..n + m /\ k - 1 \in 0..m /\ (n + k) - 1 = n + (k - 1)
      BY <1>2
    <3>2. h[n + (k - 1)] = g[k - 1]
      BY <2>2, <3>1
    <3>3. h[n + k] = AppendTree(h[n + (k - 1)], Tree(1, c[n + k]))
      BY <1>5, <3>1
    <3> QED
      BY <1>2, <1>4, <3>2, <3>3
  <2> HIDE DEF B
  <2> QED
    BY <1>2, <2>1, <2>2, NoLeastException
<1>9. h[n + m] = g[m]
  BY <1>2, <1>8
<1> QED
  BY <1>1, <1>3, <1>4, <1>5, <1>9

LEMMA LastIsGreatest ==
  ASSUME NEW S, LeavesOK(S), NEW s, s = InIdOrder(S), NEW l \in S
  PROVE  s # <<>> /\ Len(s) \in 1..Len(s) /\ s[Len(s)] \in S /\ l[2] <= s[Len(s)][2]
<1>1. PICK n : n = Cardinality(S)
  OBVIOUS
<1>2. n \in Nat /\ s \in [1..n -> S] /\ \A i \in 1..n : Rank(S, LeafOrder(S), s[i]) = i - 1
  BY <1>1, InIdOrderAt
<1>3. Rank(S, LeafOrder(S), l) + 1 \in 1..n
  BY <1>1, InIdOrderAt
<1>4. /\ \A x \in S : Rank(S, LeafOrder(S), x) \in Nat
      /\ \A x, y \in S : <<x, y>> \in LeafOrder(S) <=>
           Rank(S, LeafOrder(S), x) < Rank(S, LeafOrder(S), y)
  BY LeafOrderTotal, Ranked DEF LeavesOK
<1>5. n \in 1..n /\ Len(s) = n /\ s # <<>>
  BY <1>2, <1>3, <1>4
<1>6. s[n] \in S /\ Rank(S, LeafOrder(S), s[n]) = n - 1
  BY <1>2, <1>5
<1>7. ~(Rank(S, LeafOrder(S), s[n]) < Rank(S, LeafOrder(S), l))
  BY <1>2, <1>3, <1>4, <1>6
<1>8. ~(s[n][2] < l[2])
  BY <1>4, <1>6, <1>7 DEF LeafOrder
<1>9. s[n][2] \in Int /\ l[2] \in Int
  BY <1>6 DEF LeavesOK
<1> QED
  BY <1>5, <1>6, <1>8, <1>9

\* The records a change leaves: those whose id it names neither way, and the new
\* ones.
RecordsAfter(R, added, removed) == {r \in R : r.id \notin removed \cup IdsOf(added)} \cup added

LEMMA ChangedOK ==
  ASSUME NEW R, NEW added, NEW removed, RecordsOK(R), RecordsOK(added)
  PROVE  RecordsOK(RecordsAfter(R, added, removed))
<1> DEFINE Staying == {r \in R : r.id \notin removed \cup IdsOf(added)}
<1>1. Staying \in SUBSET R /\ \A r \in Staying, s \in added : r.id # s.id
  BY DEF IdsOf
<1>2. RecordsAfter(R, added, removed) = Staying \cup added
  BY DEF RecordsAfter
<1> HIDE DEF Staying
<1>3. IsFiniteSet(Staying \cup added)
  BY <1>1, FS_Subset, FS_Union DEF RecordsOK
<1>4. \A r \in Staying \cup added : r.id \in Int
  BY <1>1 DEF RecordsOK
<1>5. \A r, s \in Staying \cup added : r.id = s.id => r = s
  BY <1>1 DEF RecordsOK
<1> QED
  BY <1>2, <1>3, <1>4, <1>5 DEF RecordsOK

\* What a cache of records holds.
LEMMA CacheHolds ==
  ASSUME NEW R, NEW cache, cache = CacheOf(R)
  PROVE  /\ cache.leaves = InIdOrder(LeavesOf(R))
         /\ cache.forest = Grown(<<>>, InIdOrder(LeavesOf(R)))
  BY DEF CacheOf, CacheOfLeaves, ForestOf, LeavesOf

\* The root cache is always the one its records would be built into, whether the
\* change was appended to the forest or the leaves were merged and built again.
THEOREM CacheStaysTrue ==
  ASSUME NEW R, NEW added, NEW removed, RecordsOK(R), RecordsOK(added)
  PROVE  UpdatedCache(CacheOf(R), added, removed) = CacheOf(RecordsAfter(R, added, removed))
<1>1. PICK old, new, cache, U : /\ old = InIdOrder(LeavesOf(R)) /\ new = InIdOrder(LeavesOf(added))
                                /\ cache = CacheOf(R) /\ U = LeavesOf(RecordsAfter(R, added, removed))
  OBVIOUS
<1>2. cache.leaves = old /\ cache.forest = Grown(<<>>, old)
  BY <1>1, CacheHolds
<1>3. LeavesOK(LeavesOf(R)) /\ LeavesOK(LeavesOf(added))
  BY LeavesOfRecords
<1>4. \A r : Leaf(r)[2] = r.id
  BY DEF Leaf
<1>5. new = InIdOrder({Leaf(r) : r \in added})
  BY <1>1 DEF LeavesOf
<1>6. /\ old \in Seq(LeavesOf(R)) /\ Range(old) = LeavesOf(R)
      /\ new \in Seq(LeavesOf(added)) /\ Range(new) = LeavesOf(added)
  BY <1>1, <1>3, InIdOrderHolds
<1>7. CacheOf(RecordsAfter(R, added, removed)) = CacheOfLeaves(InIdOrder(U))
  BY <1>1 DEF CacheOf, LeavesOf
<1>8. CASE added = {} /\ removed = {}
  <2>1. RecordsAfter(R, added, removed) = R
    BY <1>8 DEF RecordsAfter, IdsOf
  <2> QED
    BY <1>8, <2>1 DEF UpdatedCache
<1>9. CASE ~(added = {} /\ removed = {}) /\ removed = {} /\ Behind(cache, added)
  <2>1. \A l \in LeavesOf(R), m \in LeavesOf(added) : l[2] < m[2]
    <3> TAKE l \in LeavesOf(R), m \in LeavesOf(added)
    <3>1. /\ old # <<>> /\ old[Len(old)] \in LeavesOf(R) /\ l[2] <= old[Len(old)][2]
      BY <1>1, <1>3, LastIsGreatest
    <3>2. PICK r \in added : m = Leaf(r)
      BY DEF LeavesOf
    <3>3. old[Len(old)][2] < r.id
      BY <1>2, <1>9, <3>1 DEF Behind
    <3>4. m[2] = r.id /\ m[2] \in Int /\ l[2] \in Int /\ old[Len(old)][2] \in Int
      BY <1>3, <1>4, <3>1, <3>2 DEF LeavesOK
    <3> QED
      BY <3>1, <3>3, <3>4
  <2>2. LeavesOf(R) \cup LeavesOf(added) = U
    <3>1. \A r \in R : r.id \notin IdsOf(added)
      <4> SUFFICES ASSUME NEW r \in R, NEW s \in added, r.id = s.id
                   PROVE  FALSE
        BY DEF IdsOf
      <4>1. Leaf(r) \in LeavesOf(R) /\ Leaf(s) \in LeavesOf(added)
        BY DEF LeavesOf
      <4>2. r.id < s.id /\ r.id \in Int
        BY <1>4, <2>1, <4>1 DEF RecordsOK
      <4> QED
        BY <4>2
    <3>2. RecordsAfter(R, added, removed) = R \cup added
      BY <1>9, <3>1 DEF RecordsAfter
    <3> QED
      BY <1>1, <3>2 DEF LeavesOf
  <2>3. old \o new = InIdOrder(U)
    BY <1>1, <1>3, <2>1, <2>2, InIdOrderAppends
  <2>4. Grown(Grown(<<>>, old), new) = Grown(<<>>, old \o new)
    <3>1. old \in Seq(U) /\ new \in Seq(U)
      BY <1>6, <2>2
    <3> QED
      BY <3>1, GrownConcat
  <2>5. UpdatedCache(cache, added, removed) =
          [leaves |-> cache.leaves \o new, forest |-> Grown(cache.forest, new),
           root |-> RootOfForest(Grown(cache.forest, new), Len(cache.leaves \o new))]
    BY <1>5, <1>9 DEF UpdatedCache
  <2>6. UpdatedCache(cache, added, removed) = CacheOfLeaves(old \o new)
    BY <1>2, <2>4, <2>5 DEF CacheOfLeaves, ForestOf
  <2> QED
    BY <1>1, <1>7, <2>3, <2>6
<1>10. CASE ~(added = {} /\ removed = {}) /\ ~(removed = {} /\ Behind(cache, added))
  <2> DEFINE Staying == {leaf \in Range(cache.leaves) : leaf[2] \notin removed \cup IdsOf(added)}
  <2>1. Staying \cup Range(new) = U
    <3>1. Staying = {leaf \in LeavesOf(R) : leaf[2] \notin removed \cup IdsOf(added)}
      BY <1>2, <1>6
    <3>2. \A l : l \in U <=> ((l \in LeavesOf(R) /\ l[2] \notin removed \cup IdsOf(added)) \/ l \in LeavesOf(added))
      BY <1>1, <1>4 DEF LeavesOf, RecordsAfter
    <3> HIDE DEF Staying
    <3> QED
      BY <1>6, <3>1, <3>2
  <2>2. UpdatedCache(cache, added, removed) = CacheOfLeaves(InIdOrder(Staying \cup Range(new)))
    BY <1>5, <1>10 DEF UpdatedCache
  <2> QED
    BY <1>1, <1>7, <2>1, <2>2
<1> QED
  BY <1>8, <1>9, <1>10

(***************************************************************************)
(* The chain of published deltas and its follower                          *)
(***************************************************************************)
\* The records of a delta can be put in id order.
LEMMA AddedRecords ==
  ASSUME NEW d \in Deltas, NEW e \in 2..MaxEpoch, NEW bridged,
         bridged = Bridged(corpus, LiveIn(e, d.docs), LiveIn(e, d.queries), corpus.modelId, corpus.revision),
         bridged.ok, NEW added, added \subseteq bridged.records,
         Cardinality(IdsOf(added)) = Cardinality(added)
  PROVE  RecordsOK(added)
<1> DEFINE docs == LiveIn(e, d.docs)
           queries == LiveIn(e, d.queries)
           F == [doc \in docs |-> DocRecord(doc, corpus)]
           G == [q \in queries |-> QueryRecord(q, corpus)]
           Docs == {DocRecord(doc, corpus) : doc \in docs}
           Queries == {QueryRecord(q, corpus) : q \in queries}
<1>1. bridged.records = Docs \cup Queries
  BY DEF Bridged, Failure
<1>2. IsFiniteSet(docs \cup queries) /\ \A i \in docs \cup queries : i.name \in Int /\ i.live \in Int
  BY CorpusConstants
<1>3. IsFiniteSet(docs) /\ IsFiniteSet(queries)
  BY <1>2, FS_Subset
<1>4. F \in Surjection(docs, Docs) /\ G \in Surjection(queries, Queries)
  BY DEF Surjection
<1>5. IsFiniteSet(Docs) /\ IsFiniteSet(Queries)
  <2> HIDE DEF F, G, docs, queries, Docs, Queries
  <2> QED
    BY <1>3, <1>4, FS_Surjection
<1>6. \A r \in Docs \cup Queries : r.id \in Int
  <2>1. \A doc \in docs : DocId(doc) \in Int
    BY <1>2 DEF DocId, LiveTailMemId, MemId
  <2>2. \A q \in queries : QueryId(q) \in Int
    BY <1>2 DEF QueryId, LiveTailQueryId, RawQueryId
  <2>3. \A doc : DocRecord(doc, corpus).id = DocId(doc)
    BY DEF DocRecord
  <2>4. \A q : QueryRecord(q, corpus).id = QueryId(q)
    BY DEF QueryRecord
  <2> HIDE DEF docs, queries
  <2> QED
    BY <2>1, <2>2, <2>3, <2>4
<1> HIDE DEF F, G, docs, queries, Docs, Queries
<1>7. IsFiniteSet(added) /\ \A r \in added : r.id \in Int
  <2>1. IsFiniteSet(Docs \cup Queries)
    BY <1>5, FS_Union
  <2> QED
    BY <1>1, <1>6, <2>1, FS_Subset
<1>8. \A r, s \in added : r.id = s.id => r = s
  <2> DEFINE id == [r \in added |-> r.id]
  <2>1. id \in Surjection(added, IdsOf(added))
    BY DEF Surjection, IdsOf
  <2>2. \A r \in added : id[r] = r.id
    OBVIOUS
  <2> HIDE DEF id
  <2>3. id \in Injection(added, IdsOf(added))
    BY <1>7, <2>1, FS_Surjection
  <2>4. \A r, s \in added : id[r] = id[s] => r = s
    BY <2>3 DEF Injection, IsInjective
  <2> QED
    BY <2>2, <2>4
<1> QED
  BY <1>7, <1>8 DEF RecordsOK

\* A published delta leads from one corpus of the chain to the next, and names
\* what it adds.
Linked(before, delta, after) ==
  /\ delta.previousRoot = before.root /\ delta.nextRoot = after.root
  /\ delta.modelId = "bge" /\ delta.revision = "revision"
  /\ Cardinality(IdsOf(delta.added)) = Cardinality(delta.added)
  /\ IdsOf(delta.added) = delta.addedIds
  /\ \A r \in delta.added : /\ r.split = ExpectedSplit(r.id)
                            /\ r.modelId = "bge" /\ r.revision = "revision"
  /\ after.records = RecordsAfter(before.records, delta.added, delta.removedIds)

ChainOK(c) ==
  /\ Listed(c) /\ Len(c) \in Nat \ {0} /\ DOMAIN c = 1..Len(c)
  /\ \A e \in DOMAIN c : RecordsOK(c[e].records) /\ c[e].root = CorpusRoot(c[e].records)
  /\ c[1].delta = {}
  /\ \A e \in 2..Len(c) : \E delta : c[e].delta = {delta} /\ Linked(c[e - 1], delta, c[e])

\* The coordinator's corpus is the last of the chain, and its cache is true.
CorpusOK(c, held) ==
  /\ held.records = c[Len(c)].records /\ held.root = c[Len(c)].root
  /\ held.cache = Present(CacheOf(held.records))
  /\ held.modelId = "bge" /\ held.revision = "revision"

ChainInv ==
  /\ ChainOK(chain) /\ CorpusOK(chain, corpus)
  /\ follower.cache = Absent /\ follower.modelId = "bge" /\ follower.revision = "revision"

\* A delta that fits its corpus says what becomes of it.
LEMMA FitsTells ==
  ASSUME NEW held, NEW delta, DeltaVerdict(held, delta, TRUE) = "ok"
  PROVE  /\ delta.previousRoot = held.root
         /\ delta.modelId = held.modelId /\ delta.revision = held.revision
         /\ Cardinality(IdsOf(delta.added)) = Cardinality(delta.added)
         /\ IdsOf(delta.added) = delta.addedIds
         /\ \A r \in delta.added : ~Misfit(r, held)
         /\ ContentsRoot(held, delta) = delta.nextRoot
<1> DEFINE checks ==
      << <<delta.previousRoot # held.root,                                 "CONTINUITY">>,
         <<delta.modelId # held.modelId \/ delta.revision # held.revision, "ENCODER_PIN">>,
         <<Cardinality(IdsOf(delta.added)) # Cardinality(delta.added),     "DUPLICATE_RECORD">>,
         <<IdsOf(delta.added) # delta.addedIds,                            "IDS_AND_RECORDS">>,
         <<\E r \in delta.added : Misfit(r, held),                         "MISFIT">>,
         <<held.cache.present /\ held.cache.value.root # held.root,        "CACHE_ROOT">> >>
<1>1. DeltaVerdict(held, delta, TRUE) =
        IF Refused(checks) THEN Verdict(checks)
        ELSE IF ContentsRoot(held, delta) # delta.nextRoot THEN "NEXT_ROOT" ELSE "ok"
  BY DEF DeltaVerdict
<1>2. DOMAIN checks = 1..6
  OBVIOUS
<1>3. \A i \in 1..6 : checks[i][2] # "ok"
  OBVIOUS
<1>4. /\ checks[1][1] <=> delta.previousRoot # held.root
      /\ checks[2][1] <=> (delta.modelId # held.modelId \/ delta.revision # held.revision)
      /\ checks[3][1] <=> Cardinality(IdsOf(delta.added)) # Cardinality(delta.added)
      /\ checks[4][1] <=> IdsOf(delta.added) # delta.addedIds
      /\ checks[5][1] <=> \E r \in delta.added : Misfit(r, held)
  OBVIOUS
<1> HIDE DEF checks
<1>5. Verdict(checks) = "ok" => ~Refused(checks)
  <2>1. Refused(checks) => \E i \in 1..6 : checks[i][1]
    BY <1>2 DEF Refused
  <2>2. \/ Verdict(checks) = "ok" /\ \A i \in 1..6 : ~checks[i][1]
        \/ \E i \in 1..6 : checks[i][1] /\ Verdict(checks) = checks[i][2]
    BY <1>2, VerdictIs
  <2> QED
    BY <1>3, <2>1, <2>2
<1>6. ~Refused(checks) /\ ContentsRoot(held, delta) = delta.nextRoot
  BY <1>1, <1>5
<1>7. \A i \in 1..6 : ~checks[i][1]
  BY <1>2, <1>6 DEF Refused
<1> QED
  BY <1>4, <1>6, <1>7

LEMMA FitsIf ==
  ASSUME NEW held, NEW delta, held.cache = Absent,
         delta.previousRoot = held.root,
         delta.modelId = held.modelId, delta.revision = held.revision,
         Cardinality(IdsOf(delta.added)) = Cardinality(delta.added),
         IdsOf(delta.added) = delta.addedIds,
         \A r \in delta.added : ~Misfit(r, held),
         ContentsRoot(held, delta) = delta.nextRoot
  PROVE  DeltaVerdict(held, delta, TRUE) = "ok"
<1> DEFINE checks ==
      << <<delta.previousRoot # held.root,                                 "CONTINUITY">>,
         <<delta.modelId # held.modelId \/ delta.revision # held.revision, "ENCODER_PIN">>,
         <<Cardinality(IdsOf(delta.added)) # Cardinality(delta.added),     "DUPLICATE_RECORD">>,
         <<IdsOf(delta.added) # delta.addedIds,                            "IDS_AND_RECORDS">>,
         <<\E r \in delta.added : Misfit(r, held),                         "MISFIT">>,
         <<held.cache.present /\ held.cache.value.root # held.root,        "CACHE_ROOT">> >>
<1>1. DeltaVerdict(held, delta, TRUE) =
        IF Refused(checks) THEN Verdict(checks)
        ELSE IF ContentsRoot(held, delta) # delta.nextRoot THEN "NEXT_ROOT" ELSE "ok"
  BY DEF DeltaVerdict
<1>2. DOMAIN checks = 1..6
  OBVIOUS
<1>3. ~held.cache.present
  BY DEF Absent
<1>4. ~checks[1][1] /\ ~checks[2][1] /\ ~checks[3][1] /\ ~checks[4][1] /\ ~checks[5][1] /\ ~checks[6][1]
  BY <1>3
<1> HIDE DEF checks
<1>5. \A i \in 1..6 : ~checks[i][1]
  <2> TAKE i \in 1..6
  <2>1. i = 1 \/ i = 2 \/ i = 3 \/ i = 4 \/ i = 5 \/ i = 6
    OBVIOUS
  <2> QED
    BY <1>4, <2>1
<1>6. ~Refused(checks)
  BY <1>2, <1>5 DEF Refused
<1> QED
  BY <1>1, <1>6

\* The corpus and the chain a turn leaves.
LEMMA TurnsChain ==
  ASSUME ServiceInv, FrontierInv, NEW d \in Deltas, EndEpoch(d)
  PROVE  \E bridged, delta :
           /\ bridged = Bridged(corpus, LiveIn(epoch + 1, d.docs), LiveIn(epoch + 1, d.queries),
                                corpus.modelId, corpus.revision)
           /\ bridged.ok /\ epoch + 1 \in 2..MaxEpoch
           /\ delta.added \subseteq bridged.records
           /\ DeltaVerdict(corpus, delta, TRUE) = "ok"
           /\ corpus' = ApplyDelta(corpus, delta, TRUE)
           /\ chain' = Append(chain, [records |-> corpus'.records, root |-> corpus'.root, delta |-> {delta}])
           /\ follower' = follower
<1> DEFINE bridged == Bridged(corpus, LiveIn(epoch + 1, d.docs), LiveIn(epoch + 1, d.queries),
                              corpus.modelId, corpus.revision)
           delta == BuildDelta(corpus, bridged.records, GoneIds(d), epoch + 1)
           next == ApplyDelta(corpus, delta, TRUE)
           saved == PruneFrontier(frontier, HiddenIds(next.records))
<1>1. /\ epoch < MaxEpoch /\ bridged.ok /\ delta.ok /\ DeltaVerdict(corpus, delta, TRUE) = "ok"
      /\ follower' = follower
      /\ IF RestoreAccepted(saved, HiddenIds(next.records))
         THEN /\ corpus' = next
              /\ chain' = Append(chain, [records |-> next.records, root |-> next.root, delta |-> {delta}])
         ELSE rotationRefused' = TRUE
  BY DEF EndEpoch
<1>2. RestoreAccepted(saved, HiddenIds(next.records))
  <2> HIDE DEF next
  <2> QED
    BY PruneKeeps DEF FrontierInv
<1>3. delta.added \subseteq bridged.records
  <2>1. delta.ok
    BY <1>1
  <2> HIDE DEF bridged
  <2> QED
    BY <2>1 DEF BuildDelta, Failure
<1>4. epoch + 1 \in 2..MaxEpoch
  BY <1>1, ServiceConstants DEF FrontierInv
<1>5. bridged = Bridged(corpus, LiveIn(epoch + 1, d.docs), LiveIn(epoch + 1, d.queries),
                        corpus.modelId, corpus.revision)
  OBVIOUS
<1> HIDE DEF delta, bridged
<1> QED
  BY <1>1, <1>2, <1>3, <1>4, <1>5

\* What applying a delta makes of a corpus.
LEMMA AppliedHolds ==
  ASSUME NEW held, NEW delta, NEW attach \in BOOLEAN, NEW next,
         IdsOf(delta.added) = delta.addedIds, next = ApplyDelta(held, delta, attach)
  PROVE  /\ next.records = RecordsAfter(held.records, delta.added, delta.removedIds)
         /\ next.root = delta.nextRoot
         /\ next.modelId = held.modelId /\ next.revision = held.revision
  BY DEF ApplyDelta, RecordsAfter

LEMMA ChainTurns ==
  ASSUME ServiceInv, FrontierInv, ChainInv, NEW d \in Deltas, EndEpoch(d)
  PROVE  ChainInv'
<1>1. PICK bridged, delta :
        /\ bridged = Bridged(corpus, LiveIn(epoch + 1, d.docs), LiveIn(epoch + 1, d.queries),
                             corpus.modelId, corpus.revision)
        /\ bridged.ok /\ epoch + 1 \in 2..MaxEpoch
        /\ delta.added \subseteq bridged.records
        /\ DeltaVerdict(corpus, delta, TRUE) = "ok"
        /\ corpus' = ApplyDelta(corpus, delta, TRUE)
        /\ chain' = Append(chain, [records |-> corpus'.records, root |-> corpus'.root, delta |-> {delta}])
        /\ follower' = follower
  BY TurnsChain
<1>2. PICK held, next, c, c2, n : /\ held = corpus /\ next = corpus' /\ c = chain /\ c2 = chain'
                                  /\ n = Len(chain)
  OBVIOUS
<1>3. ChainOK(c) /\ CorpusOK(c, held)
  BY <1>2 DEF ChainInv
<1>4. /\ delta.previousRoot = held.root
      /\ delta.modelId = "bge" /\ delta.revision = "revision"
      /\ Cardinality(IdsOf(delta.added)) = Cardinality(delta.added)
      /\ IdsOf(delta.added) = delta.addedIds
      /\ \A r \in delta.added : ~Misfit(r, held)
      /\ ContentsRoot(held, delta) = delta.nextRoot
  BY <1>1, <1>2, <1>3, FitsTells DEF CorpusOK
<1>5. RecordsOK(delta.added)
  BY <1>1, <1>4, AddedRecords
<1>6. n \in Nat \ {0} /\ DOMAIN c = 1..n /\ Listed(c) /\ Len(c) = n
  BY <1>2, <1>3 DEF ChainOK
<1>7. RecordsOK(held.records) /\ held.root = CorpusRoot(held.records)
  BY <1>3, <1>6 DEF ChainOK, CorpusOK
<1>8. /\ held.cache = Present(CacheOf(held.records)) /\ held.cache.present
      /\ held.cache.value = CacheOf(held.records)
      /\ held.modelId = "bge" /\ held.revision = "revision"
  BY <1>3 DEF CorpusOK, Present
<1>9. /\ next.records = RecordsAfter(held.records, delta.added, delta.removedIds)
      /\ next.root = delta.nextRoot
      /\ next.modelId = "bge" /\ next.revision = "revision"
      /\ next.cache = Present(UpdatedCache(held.cache.value, delta.added, delta.removedIds))
  <2>1. next = ApplyDelta(held, delta, TRUE) /\ IdsOf(delta.added) = delta.addedIds /\ TRUE \in BOOLEAN
    BY <1>1, <1>2, <1>4
  <2>2. /\ next.records = RecordsAfter(held.records, delta.added, delta.removedIds)
        /\ next.root = delta.nextRoot
        /\ next.modelId = held.modelId /\ next.revision = held.revision
    BY <2>1 DEF ApplyDelta, RecordsAfter
  <2>3. next.cache = Present(UpdatedCache(held.cache.value, delta.added, delta.removedIds))
    BY <1>8, <2>1 DEF ApplyDelta
  <2> QED
    BY <1>8, <2>2, <2>3
<1>10. RecordsOK(next.records)
  BY <1>5, <1>7, <1>9, ChangedOK
<1>11. UpdatedCache(held.cache.value, delta.added, delta.removedIds) = CacheOf(next.records)
  BY <1>5, <1>7, <1>8, <1>9, CacheStaysTrue
<1>12. next.root = CorpusRoot(next.records)
  BY <1>4, <1>8, <1>9, <1>11 DEF ContentsRoot, CorpusRoot
<1>13. PICK last : last = [records |-> next.records, root |-> next.root, delta |-> {delta}]
  OBVIOUS
<1>14. /\ last.records = next.records /\ last.root = next.root /\ last.delta = {delta}
  BY <1>13
<1>15. c2 = Append(c, last)
  BY <1>1, <1>2, <1>13
<1>16. /\ Listed(c2) /\ DOMAIN c2 = 1..n + 1 /\ Len(c2) = n + 1
       /\ \A e \in 1..n : c2[e] = c[e]
       /\ c2[n + 1] = last
  <2>1. c \in Seq(Range(c))
    BY <1>6 DEF Listed
  <2>2. Listed(c2)
    BY <1>6, <1>15, ListedAppend
  <2> QED
    BY <1>6, <1>15, <2>1, <2>2
<1>17. Linked(c[n], delta, last)
  <2>1. \A r \in delta.added : /\ r.split = ExpectedSplit(r.id)
                               /\ r.modelId = "bge" /\ r.revision = "revision"
    BY <1>4, <1>8 DEF Misfit
  <2>2. c[n].root = held.root /\ c[n].records = held.records
    BY <1>3, <1>6 DEF CorpusOK
  <2> QED
    BY <1>4, <1>9, <1>14, <2>1, <2>2 DEF Linked
<1>18. ChainOK(c2)
  <2>1. \A e \in 1..n + 1 : RecordsOK(c2[e].records) /\ c2[e].root = CorpusRoot(c2[e].records)
    <3> TAKE e \in 1..n + 1
    <3>1. CASE e \in 1..n
      BY <1>3, <1>6, <1>16, <3>1 DEF ChainOK
    <3>2. CASE e = n + 1
      BY <1>10, <1>12, <1>14, <1>16, <3>2
    <3> QED
      BY <1>6, <3>1, <3>2
  <2>2. c2[1].delta = {}
    <3>1. 1 \in 1..n
      BY <1>6
    <3> QED
      BY <1>3, <1>16, <3>1 DEF ChainOK
  <2>3. \A e \in 2..n + 1 : \E link : c2[e].delta = {link} /\ Linked(c2[e - 1], link, c2[e])
    <3> TAKE e \in 2..n + 1
    <3>1. CASE e \in 2..n
      <4>1. e \in 1..n /\ e - 1 \in 1..n
        BY <1>6, <3>1
      <4>2. \E link : c[e].delta = {link} /\ Linked(c[e - 1], link, c[e])
        BY <1>3, <1>6, <3>1 DEF ChainOK
      <4> QED
        BY <1>16, <4>1, <4>2
    <3>2. CASE e = n + 1
      <4>1. c2[e] = last /\ c2[e - 1] = c[n]
        BY <1>6, <1>16, <3>2
      <4> QED
        BY <1>14, <1>17, <4>1
    <3> QED
      BY <1>6, <3>1, <3>2
  <2>4. Len(c2) \in Nat \ {0} /\ DOMAIN c2 = 1..Len(c2)
    BY <1>6, <1>16
  <2> QED
    BY <1>16, <2>1, <2>2, <2>3, <2>4 DEF ChainOK
<1>19. CorpusOK(c2, next)
  BY <1>9, <1>11, <1>14, <1>16 DEF CorpusOK
<1>20. ChainOK(chain)' /\ CorpusOK(chain, corpus)'
  <2>1. ChainOK(chain') /\ CorpusOK(chain', corpus')
    BY <1>2, <1>18, <1>19
  <2> QED
    BY <2>1 DEF ChainOK, CorpusOK
<1> QED
  BY <1>1, <1>20 DEF ChainInv

LEMMA ChainInit == Init => ChainInv
<1> SUFFICES ASSUME Init
             PROVE  ChainInv
  OBVIOUS
<1>1. PICK cache, held, c : cache = CacheOf(FirstRecords) /\ held = corpus /\ c = chain
  OBVIOUS
<1>2. /\ held = Corpus(FirstRecords, Present(cache), "bge", "revision")
      /\ c = << [records |-> FirstRecords, root |-> held.root, delta |-> {}] >>
      /\ follower = [held EXCEPT !.cache = Absent]
  BY <1>1 DEF Init
<1>3. RecordsOK(FirstRecords)
  BY CorpusConstants DEF RecordsOK
<1>4. held = [records |-> FirstRecords, root |-> cache.root, cache |-> Present(cache),
              modelId |-> "bge", revision |-> "revision"]
  BY <1>2 DEF Corpus, Present
<1>5. /\ held.records = FirstRecords /\ held.root = CorpusRoot(FirstRecords)
      /\ held.cache = Present(CacheOf(held.records))
      /\ held.modelId = "bge" /\ held.revision = "revision"
  BY <1>1, <1>4 DEF CorpusRoot
<1>6. PICK first : first = [records |-> FirstRecords, root |-> held.root, delta |-> {}]
  OBVIOUS
<1>7. first.records = FirstRecords /\ first.root = held.root /\ first.delta = {} /\ c = <<first>>
  BY <1>2, <1>6
<1>8. Len(c) = 1 /\ DOMAIN c = 1..1 /\ c[1] = first /\ c \in Seq({first})
  BY <1>7
<1>9. Listed(c)
  BY <1>8, ListedIn
<1>10. ChainOK(c)
  <2>1. \A e \in DOMAIN c : RecordsOK(c[e].records) /\ c[e].root = CorpusRoot(c[e].records)
    BY <1>3, <1>5, <1>7, <1>8
  <2> QED
    BY <1>7, <1>8, <1>9, <2>1 DEF ChainOK
<1>11. CorpusOK(c, held)
  BY <1>5, <1>7, <1>8 DEF CorpusOK
<1>12. follower.cache = Absent /\ follower.modelId = "bge" /\ follower.revision = "revision"
  BY <1>2, <1>4
<1> QED
  BY <1>1, <1>10, <1>11, <1>12 DEF ChainInv

LEMMA ChainStep ==
  ASSUME ServiceInv, FrontierInv, ChainInv, [Next]_vars
  PROVE  ChainInv'
<1>1. CASE \E d \in Deltas : EndEpoch(d)
  BY <1>1, ChainTurns
<1>2. CASE \E e \in DOMAIN chain : FollowerApply(e)
  <2>1. PICK e \in DOMAIN chain : FollowerApply(e)
    BY <1>2
  <2>2. PICK delta \in chain[e].delta : follower' = ApplyDelta(follower, delta, FALSE) /\ UNCHANGED rotationVars
    BY <2>1 DEF FollowerApply
  <2>3. follower'.cache = Absent /\ follower'.modelId = follower.modelId /\ follower'.revision = follower.revision
    BY <2>2 DEF ApplyDelta
  <2> QED
    BY <2>2, <2>3 DEF ChainInv, ChainOK, CorpusOK, rotationVars
<1>3. CASE UNCHANGED <<chain, corpus, follower>>
  BY <1>3 DEF ChainInv, ChainOK, CorpusOK
<1>4. \/ \E d \in Deltas : EndEpoch(d)
      \/ \E e \in DOMAIN chain : FollowerApply(e)
      \/ UNCHANGED <<chain, corpus, follower>>
  BY DEF Next, vars, rotationVars, Submit, Resend, ScorePack, Finish, ScoringFails, LoseAnswer,
     Receive, Land, ScorerCrash, ScorerBoot
<1> QED
  BY <1>1, <1>2, <1>3, <1>4

LEMMA ChainInvariance == Spec => []ChainInv
<1>1. ServiceInv /\ FrontierInv /\ ChainInv /\ [Next]_vars => ChainInv'
  BY ChainStep
<1> QED
  BY <1>1, ChainInit, FrontierInvariance, PTL DEF Spec

\* Two corpora of the chain with the same root are the same: the hash has no
\* collision among them.
RootsTellCorporaApart ==
  \A i, j \in DOMAIN chain : chain[i].root = chain[j].root => chain[i].records = chain[j].records

\* The follower's corpus as a place in the chain.
LEMMA FollowerStaysOn ==
  ASSUME ServiceInv, FrontierInv, ChainInv, RootsTellCorporaApart, FollowerOnChain, [Next]_vars
  PROVE  FollowerOnChain'
<1>1. PICK at \in DOMAIN chain : follower.records = chain[at].records /\ follower.root = chain[at].root
  BY DEF FollowerOnChain
<1>2. CASE \E d \in Deltas : EndEpoch(d)
  <2>1. PICK d \in Deltas : EndEpoch(d)
    BY <1>2
  <2>2. PICK last : chain' = Append(chain, last) /\ follower' = follower
    BY <2>1, TurnsChain
  <2>3. chain \in Seq(Range(chain)) /\ at \in 1..Len(chain)
    BY DEF ChainInv, ChainOK, Listed
  <2>4. at \in DOMAIN chain' /\ chain'[at] = chain[at]
    <3>1. PICK c : c = chain
      OBVIOUS
    <3>2. at \in DOMAIN Append(c, last) /\ Append(c, last)[at] = c[at]
      BY <2>3, <3>1
    <3> QED
      BY <2>2, <3>1, <3>2
  <2> QED
    BY <1>1, <2>2, <2>4 DEF FollowerOnChain
<1>3. CASE \E e \in DOMAIN chain : FollowerApply(e)
  <2>1. PICK e \in DOMAIN chain : FollowerApply(e)
    BY <1>3
  <2>2. PICK delta \in chain[e].delta : /\ DeltaVerdict(follower, delta, TRUE) = "ok"
                                        /\ follower' = ApplyDelta(follower, delta, FALSE)
                                        /\ UNCHANGED rotationVars
    BY <2>1 DEF FollowerApply
  <2>3. DOMAIN chain = 1..Len(chain) /\ Len(chain) \in Nat /\ e # 1
    BY <2>2 DEF ChainInv, ChainOK
  <2>4. e \in 2..Len(chain) /\ e - 1 \in DOMAIN chain
    BY <2>3
  <2>5. Linked(chain[e - 1], delta, chain[e])
    BY <2>2, <2>4 DEF ChainInv, ChainOK
  <2>6. delta.previousRoot = follower.root /\ IdsOf(delta.added) = delta.addedIds
    BY <2>2, FitsTells
  <2>7. chain[e - 1].records = follower.records
    BY <1>1, <2>4, <2>5, <2>6 DEF RootsTellCorporaApart, Linked
  <2>8. PICK old, new : old = follower /\ new = follower'
    OBVIOUS
  <2>9. new.records = RecordsAfter(old.records, delta.added, delta.removedIds) /\ new.root = delta.nextRoot
    <3>1. new = ApplyDelta(old, delta, FALSE) /\ FALSE \in BOOLEAN
      BY <2>2, <2>8
    <3> QED
      BY <2>6, <3>1, AppliedHolds, ZenonT(40)
  <2>10. new.records = chain[e].records /\ new.root = chain[e].root
    BY <2>5, <2>7, <2>8, <2>9 DEF Linked
  <2>11. chain' = chain
    BY <2>2 DEF rotationVars
  <2> QED
    BY <2>8, <2>10, <2>11 DEF FollowerOnChain
<1>4. CASE UNCHANGED <<chain, corpus, follower>>
  BY <1>1, <1>4 DEF FollowerOnChain
<1>5. \/ \E d \in Deltas : EndEpoch(d)
      \/ \E e \in DOMAIN chain : FollowerApply(e)
      \/ UNCHANGED <<chain, corpus, follower>>
  BY DEF Next, vars, rotationVars, Submit, Resend, ScorePack, Finish, ScoringFails, LoseAnswer,
     Receive, Land, ScorerCrash, ScorerBoot
<1> QED
  BY <1>2, <1>3, <1>4, <1>5

\* Whatever deltas reach it in whatever order, the follower's corpus is one of the
\* chain, as long as a root names one corpus of it.
THEOREM FollowerStaysOnChain == Spec /\ []RootsTellCorporaApart => []FollowerOnChain
<1>1. Init => FollowerOnChain
  <2> SUFFICES ASSUME Init
               PROVE  FollowerOnChain
    OBVIOUS
  <2>1. PICK held, c : held = corpus /\ c = chain
    OBVIOUS
  <2>2. /\ held = Corpus(FirstRecords, Present(CacheOf(FirstRecords)), "bge", "revision")
        /\ c = << [records |-> FirstRecords, root |-> held.root, delta |-> {}] >>
        /\ follower = [held EXCEPT !.cache = Absent]
    BY <2>1 DEF Init
  <2>3. held.records = FirstRecords /\ follower.records = held.records /\ follower.root = held.root
    BY <2>2 DEF Corpus
  <2>4. 1 \in DOMAIN c /\ c[1].records = FirstRecords /\ c[1].root = held.root
    BY <2>2
  <2> QED
    BY <2>1, <2>3, <2>4 DEF FollowerOnChain
<1>2. ServiceInv /\ FrontierInv /\ ChainInv /\ RootsTellCorporaApart /\ FollowerOnChain /\ [Next]_vars
        => FollowerOnChain'
  BY FollowerStaysOn
<1> QED
  BY <1>1, <1>2, FrontierInvariance, ChainInvariance, PTL DEF Spec

LEMMA NeverStuck ==
  ASSUME ChainInv, FollowerOnChain
  PROVE  FollowerNeverStuck
<1> SUFFICES ASSUME follower.records # corpus.records
             PROVE  \E e \in DOMAIN chain : \E delta \in chain[e].delta :
                      /\ DeltaVerdict(follower, delta, TRUE) = "ok"
                      /\ ApplyDelta(follower, delta, FALSE).records # follower.records
  BY DEF FollowerNeverStuck
<1>1. PICK at \in DOMAIN chain : follower.records = chain[at].records /\ follower.root = chain[at].root
  BY DEF FollowerOnChain
<1>2. /\ DOMAIN chain = 1..Len(chain) /\ Len(chain) \in Nat \ {0}
      /\ chain[Len(chain)].records = corpus.records
  BY DEF ChainInv, ChainOK, CorpusOK
<1>3. PICK k \in DOMAIN chain : /\ chain[k].records = follower.records
                                /\ \A j \in DOMAIN chain : chain[j].records = follower.records => j <= k
  <2> DEFINE After == {Len(chain) - j : j \in {i \in DOMAIN chain : chain[i].records = follower.records}}
  <2>1. After \subseteq Nat /\ Len(chain) - at \in After
    BY <1>1, <1>2
  <2>2. PICK m \in After : \A j \in After : m <= j
    BY <2>1, LeastExists
  <2>3. PICK k \in DOMAIN chain : m = Len(chain) - k /\ chain[k].records = follower.records
    BY <2>2
  <2>4. \A j \in DOMAIN chain : chain[j].records = follower.records => m <= Len(chain) - j
    BY <2>2
  <2> HIDE DEF After
  <2>5. \A j \in DOMAIN chain : chain[j].records = follower.records => j <= k
    <3> TAKE j \in DOMAIN chain
    <3>1. ASSUME chain[j].records = follower.records
          PROVE  j <= k
      <4>1. Len(chain) - k <= Len(chain) - j
        BY <2>3, <2>4, <3>1
      <4>2. j \in Int /\ k \in Int /\ Len(chain) \in Int
        BY <1>2
      <4> QED
        BY <4>1, <4>2
    <3> QED
      BY <3>1
  <2> QED
    BY <2>3, <2>5
<1>4. k + 1 \in 2..Len(chain) /\ k + 1 \in DOMAIN chain /\ (k + 1) - 1 = k
  <2>1. k # Len(chain)
    BY <1>2, <1>3
  <2> QED
    BY <1>2, <2>1
<1>5. PICK delta : chain[k + 1].delta = {delta} /\ Linked(chain[k], delta, chain[k + 1])
  BY <1>4 DEF ChainInv, ChainOK
<1>6. PICK held, before, after : held = follower /\ before = chain[k] /\ after = chain[k + 1]
  OBVIOUS
<1>7. /\ held.records = before.records
      /\ held.root = before.root
      /\ held.cache = Absent /\ held.modelId = "bge" /\ held.revision = "revision"
      /\ after.root = CorpusRoot(after.records)
      /\ Linked(before, delta, after)
  <2>1. follower.root = chain[k].root
    BY <1>1, <1>3 DEF ChainInv, ChainOK
  <2> QED
    BY <1>3, <1>4, <1>5, <1>6, <2>1 DEF ChainInv, ChainOK
<1>8. after.records # held.records
  <2>1. ~(k + 1 <= k)
    BY <1>2
  <2> QED
    BY <1>3, <1>4, <1>6, <2>1
<1>9. ContentsRoot(held, delta) = delta.nextRoot
  <2>1. ContentsRoot(held, delta) = CorpusRoot(RecordsAfter(held.records, delta.added, delta.removedIds))
    BY <1>7 DEF ContentsRoot, RecordsAfter, Absent, Linked
  <2> QED
    BY <1>7, <2>1 DEF Linked
<1>10. DeltaVerdict(held, delta, TRUE) = "ok"
  <2>1. \A r \in delta.added : ~Misfit(r, held)
    BY <1>7 DEF Linked, Misfit
  <2> QED
    BY <1>7, <1>9, <2>1, FitsIf DEF Linked
<1>11. ApplyDelta(held, delta, FALSE).records = after.records
  <2>1. PICK next : next = ApplyDelta(held, delta, FALSE)
    OBVIOUS
  <2>2. next.records = RecordsAfter(held.records, delta.added, delta.removedIds)
    <3>1. IdsOf(delta.added) = delta.addedIds /\ FALSE \in BOOLEAN
      BY <1>7 DEF Linked
    <3> QED
      BY <2>1, <3>1, AppliedHolds
  <2> QED
    BY <1>7, <2>1, <2>2 DEF Linked
<1> QED
  BY <1>4, <1>5, <1>6, <1>8, <1>10, <1>11

\* A follower that is behind has a published delta to take: the roots published
\* from the coordinator's cache are the ones a follower builds without one.
THEOREM FollowerFindsTheNext == Spec /\ []RootsTellCorporaApart => []FollowerNeverStuck
<1>1. ChainInv /\ FollowerOnChain => FollowerNeverStuck
  BY NeverStuck
<1> QED
  BY <1>1, ChainInvariance, FollowerStaysOnChain, PTL
=============================================================================

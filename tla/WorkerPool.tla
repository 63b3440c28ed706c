----------------------------- MODULE WorkerPool -----------------------------
(***************************************************************************)
(* WorkerPool: the evaluator threads behind a bounded request queue        *)
(* (src/workers/pool.ts).  Every handler runs to completion on the main    *)
(* thread, so each is one action; what interleaves is calls of eval(),     *)
(* answers, thread failures and close().  A worker object is never reused: *)
(* a failed one is replaced by a new one.                                  *)
(***************************************************************************)
EXTENDS Naturals, Sequences, FiniteSets

CONSTANTS
  Requests,      \* calls of eval(), each with its own id
  Workers,       \* bound: the worker objects ever created
  FirstWorkers,  \* the pool the constructor spawns
  MaxQueueSize,  \* maxQueueSize
  MayClose       \* whether close() is called

ASSUME PoolAssumption ==
  /\ FirstWorkers \subseteq Workers
  /\ MaxQueueSize \in Nat
  /\ MayClose \in BOOLEAN

VARIABLES
  workers,  \* the pool; also the keys of the pending map
  spawned,  \* every worker object created so far
  threads,  \* the workers whose thread is running
  idle,
  pending,  \* worker -> the calls posted to it and not settled
  queue,
  outcome,  \* of each call: "new", "waiting" for its promise, or "settled"
  closed,
  doomed    \* the workers close() is terminating

vars == <<workers, spawned, threads, idle, pending, queue, outcome, closed, doomed>>

Init ==
  /\ workers = FirstWorkers
  /\ spawned = FirstWorkers
  /\ threads = FirstWorkers
  /\ idle = FirstWorkers
  /\ pending = [w \in Workers |-> {}]
  /\ queue = <<>>
  /\ outcome = [r \in Requests |-> "new"]
  /\ closed = FALSE
  /\ doomed = {}

\* _dispatch: a worker that has left the pool has no pending map, and the call
\* is dropped without a word.
Dispatch(w, r) ==
  pending' = IF w \in workers THEN [pending EXCEPT ![w] = @ \cup {r}] ELSE pending

Settle(R) == outcome' = [r \in Requests |-> IF r \in R THEN "settled" ELSE outcome[r]]

(***************************************************************************)
(* eval()                                                                  *)
(***************************************************************************)
Refuse(r) ==
  /\ outcome[r] = "new"
  /\ \/ closed
     \/ idle = {} /\ Len(queue) >= MaxQueueSize
  /\ Settle({r})
  /\ UNCHANGED <<workers, spawned, threads, idle, pending, queue, closed, doomed>>

StartAtOnce(r, w) ==
  /\ outcome[r] = "new" /\ ~closed /\ w \in idle
  /\ idle' = idle \ {w}
  /\ Dispatch(w, r)
  /\ outcome' = [outcome EXCEPT ![r] = "waiting"]
  /\ UNCHANGED <<workers, spawned, threads, queue, closed, doomed>>

Enqueue(r) ==
  /\ outcome[r] = "new" /\ ~closed
  /\ idle = {} /\ Len(queue) < MaxQueueSize
  /\ queue' = Append(queue, r)
  /\ outcome' = [outcome EXCEPT ![r] = "waiting"]
  /\ UNCHANGED <<workers, spawned, threads, idle, pending, closed, doomed>>

(***************************************************************************)
(* Worker events                                                           *)
(***************************************************************************)
\* Mutant: the worker goes idle even when it was given the next call.
AnswerAlwaysIdle(w, r) ==
  /\ w \in threads /\ w \in workers /\ r \in pending[w]
  /\ Settle({r})
  /\ idle' = idle \cup {w}
  /\ pending' = [pending EXCEPT ![w] = (@ \ {r}) \cup
                   IF queue = <<>> THEN {} ELSE {Head(queue)}]
  /\ queue' = IF queue = <<>> THEN queue ELSE Tail(queue)
  /\ UNCHANGED <<workers, spawned, threads, closed, doomed>>

\* _onMessage: settle the call, then take the oldest queued call or go idle.
Answer(w, r) ==
  /\ w \in threads /\ w \in workers /\ r \in pending[w]
  /\ Settle({r})
  /\ \/ /\ queue # <<>>
        /\ pending' = [pending EXCEPT ![w] = (@ \ {r}) \cup {Head(queue)}]
        /\ queue' = Tail(queue)
        /\ UNCHANGED idle
     \/ /\ queue = <<>>
        /\ pending' = [pending EXCEPT ![w] = @ \ {r}]
        /\ idle' = idle \cup {w}
        /\ UNCHANGED queue
  /\ UNCHANGED <<workers, spawned, threads, closed, doomed>>

\* Mutant: the failed worker stays on the idle stack.
ReplaceKeepingIdle(w, fresh) ==
  /\ workers' = (workers \ {w}) \cup {fresh}
  /\ idle' = idle \cup {fresh}

\* The failed worker leaves the pool and the idle stack; the new one joins both.
Replace(w, fresh) ==
  /\ workers' = (workers \ {w}) \cup {fresh}
  /\ idle' = (idle \ {w}) \cup {fresh}

\* Mutant: the calls of the failed worker are forgotten, not rejected.
WorkerErrorForgetting(w, fresh) ==
  /\ w \in threads /\ w \in workers /\ fresh \in Workers \ spawned
  /\ Replace(w, fresh)
  /\ spawned' = spawned \cup {fresh}
  /\ threads' = (threads \ {w}) \cup {fresh}
  /\ pending' = [pending EXCEPT ![w] = {}]
  /\ UNCHANGED <<queue, outcome, closed, doomed>>

\* _onWorkerError: reject the calls of the failed worker and spawn another.
\* The queue is not looked at, and neither is closed.
WorkerError(w, fresh) ==
  /\ w \in threads /\ w \in workers /\ fresh \in Workers \ spawned
  /\ Settle(pending[w])
  /\ Replace(w, fresh)
  /\ spawned' = spawned \cup {fresh}
  /\ threads' = (threads \ {w}) \cup {fresh}
  /\ pending' = [pending EXCEPT ![w] = {}]
  /\ UNCHANGED <<queue, closed, doomed>>

(***************************************************************************)
(* close()                                                                 *)
(***************************************************************************)
Close ==
  /\ MayClose /\ ~closed
  /\ closed' = TRUE
  /\ doomed' = workers
  /\ UNCHANGED <<workers, spawned, threads, idle, pending, queue, outcome>>

\* A terminated thread raises no error event; its calls stay pending.
Terminated(w) ==
  /\ w \in doomed \cap threads
  /\ threads' = threads \ {w}
  /\ UNCHANGED <<workers, spawned, idle, pending, queue, outcome, closed, doomed>>

Eval(r) == Refuse(r) \/ Enqueue(r) \/ \E w \in Workers : StartAtOnce(r, w)

Next ==
  \/ \E r \in Requests : Eval(r)
  \/ \E w \in Workers, r \in Requests : Answer(w, r)
  \/ \E w, fresh \in Workers : WorkerError(w, fresh)
  \/ Close
  \/ \E w \in Workers : Terminated(w)

Spec == Init /\ [][Next]_vars

\* worker.ts answers every request it receives, with a report or with the
\* error it caught.  Callers and failures owe nothing.
FairSpec == Spec /\ \A w \in Workers : WF_vars(\E r \in Requests : Answer(w, r))

(***************************************************************************)
(* Properties                                                              *)
(***************************************************************************)
Queued(r) == \E i \in DOMAIN queue : queue[i] = r

Running(r) == \E w \in workers : r \in pending[w]

TypeOK ==
  /\ workers \subseteq spawned /\ threads \subseteq spawned /\ idle \subseteq Workers
  /\ spawned \subseteq Workers
  /\ pending \in [Workers -> SUBSET Requests]
  /\ queue \in Seq(Requests)
  /\ outcome \in [Requests -> {"new", "waiting", "settled"}]
  /\ closed \in BOOLEAN
  /\ doomed \subseteq Workers

\* A call whose promise is open is in the queue or with a worker of the pool,
\* once: eval(), _onMessage and _onWorkerError hand it on without losing or
\* doubling it.
EveryCallInOnePlace ==
  /\ \A r \in Requests :
       outcome[r] = "waiting" <=> Queued(r) \/ Running(r)
  /\ \A r \in Requests : ~(Queued(r) /\ Running(r))
  /\ \A i, j \in DOMAIN queue : queue[i] = queue[j] => i = j
  /\ \A v, w \in workers : v # w => pending[v] \cap pending[w] = {}

\* The idle stack holds workers of the pool that run nothing, and a worker
\* never runs two calls at once.
IdleWorkersAreFree ==
  /\ idle \subseteq workers
  /\ \A w \in idle : pending[w] = {}
  /\ \A w \in workers : \A r, s \in pending[w] : r = s

\* A call that reached a worker settles, with an answer or with the error that
\* killed the worker, unless the pool is closed first.
RunningCallSettles ==
  \A r \in Requests : Running(r) ~> outcome[r] = "settled" \/ closed

\* "Requests are enqueued; free workers pick them up": a queued call leaves
\* the queue.
QueuedCallIsPickedUp ==
  \A r \in Requests : Queued(r) ~> ~Queued(r) \/ closed
=============================================================================

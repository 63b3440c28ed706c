-------------------------- MODULE WorkerPool_proofs --------------------------
(***************************************************************************)
(* The pool never loses, doubles or mixes up a call, for any number of     *)
(* calls, workers and replacements, with or without close().               *)
(***************************************************************************)
EXTENDS WorkerPool, TLAPS

\* Only a worker of the pool runs anything.
PoolRunsAll == \A w \in Workers \ workers : pending[w] = {}

IInv == TypeOK /\ PoolRunsAll /\ EveryCallInOnePlace /\ IdleWorkersAreFree

\* The constructor spawns idle workers and no call exists.
LEMMA PoolInit == Init => IInv
<1> SUFFICES ASSUME Init PROVE IInv
  OBVIOUS
<1>1. TypeOK
  <2>1. /\ pending \in [Workers -> SUBSET Requests]
        /\ outcome \in [Requests -> {"new", "waiting", "settled"}]
    BY DEF Init
  <2>2. queue \in Seq(Requests)
    BY DEF Init
  <2> QED
    BY <2>1, <2>2, PoolAssumption DEF Init, TypeOK
<1>2. \A r \in Requests : outcome[r] = "new" /\ ~Queued(r) /\ ~Running(r)
  BY PoolAssumption, SMTT(30) DEF Init, Queued, Running
<1>3. PoolRunsAll /\ IdleWorkersAreFree
  BY PoolAssumption, SMTT(30) DEF Init, PoolRunsAll, IdleWorkersAreFree
<1>4. EveryCallInOnePlace
  BY <1>2, PoolAssumption, SMTT(30) DEF Init, EveryCallInOnePlace
<1> QED
  BY <1>1, <1>3, <1>4 DEF IInv

\* eval() refuses the call.
LEMMA PoolRefuse ==
  ASSUME IInv, NEW r \in Requests, Refuse(r)
  PROVE  IInv'
BY SMTT(30) DEF IInv, TypeOK, PoolRunsAll, EveryCallInOnePlace, IdleWorkersAreFree,
   Queued, Running, Refuse, Settle

\* eval() hands the call to an idle worker.
LEMMA PoolStart ==
  ASSUME IInv, NEW r \in Requests, NEW w \in Workers, StartAtOnce(r, w)
  PROVE  IInv'
<1>1. w \in workers /\ pending[w] = {} /\ outcome[r] = "new"
  BY DEF IInv, IdleWorkersAreFree, StartAtOnce
<1>2. pending' = [pending EXCEPT ![w] = @ \cup {r}]
  BY <1>1 DEF StartAtOnce, Dispatch
<1>3. ~Queued(r) /\ ~Running(r)
  BY <1>1 DEF IInv, EveryCallInOnePlace, TypeOK
<1>4. TypeOK' /\ PoolRunsAll'
  BY <1>1, <1>2, SMTT(30) DEF IInv, TypeOK, PoolRunsAll, StartAtOnce
<1>5. IdleWorkersAreFree'
  BY <1>1, <1>2, SMTT(30) DEF IInv, TypeOK, IdleWorkersAreFree, StartAtOnce
<1>6. EveryCallInOnePlace'
  BY <1>1, <1>2, <1>3, SMTT(30) DEF IInv, TypeOK, EveryCallInOnePlace, Queued, Running,
     StartAtOnce
<1> QED
  BY <1>4, <1>5, <1>6 DEF IInv

\* eval() puts the call in the queue.
LEMMA PoolEnqueue ==
  ASSUME IInv, NEW r \in Requests, Enqueue(r)
  PROVE  IInv'
<1>1. ~Queued(r) /\ ~Running(r)
  BY DEF IInv, EveryCallInOnePlace, TypeOK, Enqueue
<1>2. TypeOK' /\ PoolRunsAll' /\ IdleWorkersAreFree'
  BY SMTT(30) DEF IInv, TypeOK, PoolRunsAll, IdleWorkersAreFree, Enqueue
<1>3. EveryCallInOnePlace'
  BY <1>1, SMTT(30) DEF IInv, TypeOK, EveryCallInOnePlace, Queued, Running, Enqueue
<1> QED
  BY <1>2, <1>3 DEF IInv

\* A worker answers and takes the next call or goes idle.
LEMMA PoolAnswer ==
  ASSUME IInv, NEW w \in Workers, NEW r \in Requests, Answer(w, r)
  PROVE  IInv'
<1>1. pending[w] = {r} /\ w \in workers /\ outcome[r] = "waiting" /\ ~Queued(r)
  BY DEF IInv, EveryCallInOnePlace, IdleWorkersAreFree, Running, Answer
<1>2. CASE queue # <<>>
  <2>1. /\ pending' = [pending EXCEPT ![w] = {Head(queue)}]
        /\ queue' = Tail(queue) /\ idle' = idle
    BY <1>1, <1>2 DEF Answer, IInv, TypeOK
  <2>2. /\ Head(queue) \in Requests /\ Queued(Head(queue)) /\ Head(queue) # r
        /\ ~Running(Head(queue))
    BY <1>1, <1>2 DEF IInv, TypeOK, Queued, EveryCallInOnePlace
  <2>3. TypeOK' /\ PoolRunsAll' /\ IdleWorkersAreFree'
    BY <1>1, <2>1, <2>2, SMTT(30) DEF IInv, TypeOK, PoolRunsAll, IdleWorkersAreFree,
       Answer, Settle
  <2>4. \A q \in Requests : Queued(q)' <=> Queued(q) /\ q # Head(queue)
    <3>1. /\ queue \in Seq(Requests) /\ Len(queue) \in Nat \ {0}
          /\ DOMAIN queue = 1..Len(queue) /\ Head(queue) = queue[1]
          /\ DOMAIN queue' = 1..(Len(queue) - 1)
          /\ \A i \in 1..(Len(queue) - 1) : queue'[i] = queue[i + 1]
      BY <1>2, <2>1 DEF IInv, TypeOK
    <3>2. \A i, j \in 1..Len(queue) : queue[i] = queue[j] => i = j
      BY <3>1 DEF IInv, EveryCallInOnePlace
    <3>3. TAKE q \in Requests
    <3>4. ASSUME Queued(q)' PROVE Queued(q) /\ q # Head(queue)
      <4>1. PICK i \in 1..(Len(queue) - 1) : queue[i + 1] = q
        BY <3>1, <3>4 DEF Queued
      <4>2. i + 1 \in 1..Len(queue) /\ i + 1 # 1
        BY <3>1
      <4> QED
        BY <3>1, <3>2, <4>1, <4>2 DEF Queued
    <3>5. ASSUME Queued(q), q # Head(queue) PROVE Queued(q)'
      <4>1. PICK i \in 1..Len(queue) : queue[i] = q
        BY <3>1, <3>5 DEF Queued
      <4>2. i - 1 \in 1..(Len(queue) - 1) /\ queue'[i - 1] = q
        BY <3>1, <3>5, <4>1
      <4> QED
        BY <3>1, <4>2 DEF Queued
    <3> QED
      BY <3>4, <3>5
  <2>5. \A q \in Requests : Running(q)' <=> (Running(q) /\ q # r) \/ q = Head(queue)
    <3>1. \A u \in workers : u # w => pending'[u] = pending[u] /\ r \notin pending[u]
      BY <1>1, <2>1 DEF IInv, TypeOK, EveryCallInOnePlace
    <3>2. pending'[w] = {Head(queue)} /\ workers' = workers /\ workers \subseteq Workers
      BY <2>1 DEF IInv, TypeOK, Answer
    <3>3. TAKE q \in Requests
    <3>4. Running(q)' <=> \E u \in workers : q \in pending'[u]
      BY <3>2 DEF Running
    <3>5. CASE q = Head(queue)
      BY <1>1, <3>2, <3>4, <3>5
    <3>6. CASE q # Head(queue) /\ q = r
      BY <3>1, <3>2, <3>4, <3>6
    <3>7. CASE q # Head(queue) /\ q # r
      BY <1>1, <3>1, <3>2, <3>4, <3>7 DEF Running
    <3> QED
      BY <3>5, <3>6, <3>7
  <2>6. \A i, j \in DOMAIN queue' : queue'[i] = queue'[j] => i = j
    BY <1>2, <2>1, SMTT(30) DEF IInv, TypeOK, EveryCallInOnePlace
  <2>7. \A v, u \in workers' : v # u => pending'[v] \cap pending'[u] = {}
    BY <1>1, <2>1, <2>2, SMTT(30) DEF IInv, TypeOK, EveryCallInOnePlace, Running, Answer
  <2>8. EveryCallInOnePlace'
    BY <1>1, <2>2, <2>4, <2>5, <2>6, <2>7, SMTT(30)
       DEF IInv, TypeOK, EveryCallInOnePlace, Answer, Settle
  <2> QED
    BY <2>3, <2>8 DEF IInv
<1>3. CASE queue = <<>>
  <2>1. /\ pending' = [pending EXCEPT ![w] = {}]
        /\ queue' = queue /\ idle' = idle \cup {w}
    BY <1>1, <1>3 DEF Answer, IInv, TypeOK
  <2>2. TypeOK' /\ PoolRunsAll' /\ IdleWorkersAreFree'
    BY <1>1, <2>1, SMTT(30) DEF IInv, TypeOK, PoolRunsAll, IdleWorkersAreFree, Answer,
       Settle
  <2>3. EveryCallInOnePlace'
    BY <1>1, <1>3, <2>1, SMTT(30) DEF IInv, TypeOK, EveryCallInOnePlace, Queued, Running,
       Answer, Settle
  <2> QED
    BY <2>2, <2>3 DEF IInv
<1> QED
  BY <1>2, <1>3

\* A failed worker is replaced.
LEMMA PoolError ==
  ASSUME IInv, NEW w \in Workers, NEW fresh \in Workers, WorkerError(w, fresh)
  PROVE  IInv'
<1>1. /\ fresh \notin workers /\ pending[fresh] = {} /\ fresh # w /\ w \in workers
      /\ workers' = (workers \ {w}) \cup {fresh}
      /\ idle' = (idle \ {w}) \cup {fresh}
      /\ pending' = [pending EXCEPT ![w] = {}]
      /\ queue' = queue
  BY DEF IInv, TypeOK, PoolRunsAll, WorkerError, Replace
<1>2. TypeOK' /\ PoolRunsAll' /\ IdleWorkersAreFree'
  BY <1>1, SMTT(30) DEF IInv, TypeOK, PoolRunsAll, IdleWorkersAreFree, WorkerError, Settle
<1>3. \A q \in Requests : Running(q)' <=> Running(q) /\ q \notin pending[w]
  BY <1>1, SMTT(30) DEF IInv, TypeOK, EveryCallInOnePlace, Running
<1>4. \A q \in pending[w] : Running(q) /\ ~Queued(q)
  BY <1>1 DEF IInv, TypeOK, EveryCallInOnePlace, Running
<1>5. \A v, u \in workers' : v # u => pending'[v] \cap pending'[u] = {}
  BY <1>1, SMTT(30) DEF IInv, TypeOK, EveryCallInOnePlace
<1>6. EveryCallInOnePlace'
  BY <1>1, <1>3, <1>4, <1>5, SMTT(30)
     DEF IInv, TypeOK, EveryCallInOnePlace, Queued, WorkerError, Settle
<1> QED
  BY <1>2, <1>6 DEF IInv

\* Every step of the pool keeps the invariant.
LEMMA PoolStep == IInv /\ [Next]_vars => IInv'
<1> SUFFICES ASSUME IInv, [Next]_vars PROVE IInv'
  OBVIOUS
<1>1. ASSUME NEW r \in Requests, Eval(r) PROVE IInv'
  BY <1>1, PoolRefuse, PoolEnqueue, PoolStart DEF Eval
<1>2. ASSUME NEW w \in Workers, NEW r \in Requests, Answer(w, r) PROVE IInv'
  BY <1>2, PoolAnswer
<1>3. ASSUME NEW w \in Workers, NEW fresh \in Workers, WorkerError(w, fresh) PROVE IInv'
  BY <1>3, PoolError
<1>4. CASE Close
  BY <1>4, SMTT(30) DEF IInv, TypeOK, PoolRunsAll, EveryCallInOnePlace,
     IdleWorkersAreFree, Queued, Running, Close
<1>5. ASSUME NEW w \in Workers, Terminated(w) PROVE IInv'
  BY <1>5, SMTT(30) DEF IInv, TypeOK, PoolRunsAll, EveryCallInOnePlace,
     IdleWorkersAreFree, Queued, Running, Terminated
<1>6. CASE UNCHANGED vars
  BY <1>6, SMTT(30) DEF IInv, TypeOK, PoolRunsAll, EveryCallInOnePlace,
     IdleWorkersAreFree, Queued, Running, vars
<1> QED
  BY <1>1, <1>2, <1>3, <1>4, <1>5, <1>6 DEF Next

\* eval(), _onMessage and _onWorkerError hand every open call on without losing
\* or doubling it, whatever fails and whenever close() comes.
THEOREM CallsStayInOnePlace == Spec => []EveryCallInOnePlace
<1>1. Spec => []IInv
  BY PoolInit, PoolStep, PTL DEF Spec
<1>2. IInv => EveryCallInOnePlace
  BY DEF IInv
<1> QED
  BY <1>1, <1>2, PTL

\* An idle worker runs nothing and no worker runs two calls.
THEOREM IdleWorkersStayFree == Spec => []IdleWorkersAreFree
<1>1. Spec => []IInv
  BY PoolInit, PoolStep, PTL DEF Spec
<1>2. IInv => IdleWorkersAreFree
  BY DEF IInv
<1> QED
  BY <1>1, <1>2, PTL
=============================================================================

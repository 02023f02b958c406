--------------------------- MODULE TaskThreadPool ---------------------------
(***************************************************************************)
(* TaskThreadPool (task_thread_pool.cpp): a fixed set of workers, each     *)
(* with its own queue, mutex and condition variable; Submit(key, task)     *)
(* always gives a key's tasks to the same worker, Submit(task) deals them  *)
(* out in turn; the destructor lets every worker drain its queue and joins *)
(* it.                                                                     *)
(*                                                                         *)
(* A critical section of a worker's mutex is one step.  notify_one comes   *)
(* after the unlock and is a step of its own; a wait may also end for no   *)
(* reason.  A task that throws is caught (lines 90-101) and ends like any  *)
(* other.  The pool has at least one worker: Connection runs the callback  *)
(* itself when it has none (connection.cpp:48).                            *)
(***************************************************************************)
EXTENDS Naturals, Sequences, Ascending

CONSTANTS NWorkers,   \* _workers.size()
          Callers,    \* threads that call Submit
          Tasks,      \* the tasks submitted, each once
          KeyOf,      \* a task's key, or NoKey for Submit(task)
          NoKey, NoTask

Workers == 0..(NWorkers - 1)

ASSUME PoolAssumption ==
  /\ NWorkers \in Nat \ {0}
  /\ NoKey \notin Nat /\ NoTask \notin Tasks
  /\ KeyOf \in [Tasks -> Nat \union {NoKey}]

VARIABLES
  queue,     \* Worker::tasks
  stopping,  \* Worker::stopping
  wpc,       \* a worker: "take" (has or wants the mutex), "wait", "run", "exited"
  current,   \* the task it runs
  next,      \* _next_worker
  cpc,       \* a caller: "idle", "push", "notify"
  ctask,     \* the task it submits
  target,    \* the worker it submits to
  fresh,     \* tasks not submitted yet
  late,      \* history: tasks pushed to a worker that was already stopping
  done,      \* history: tasks that ran to their end
  dpc,       \* the destructor: "alive", "stop", "notify", "join", "gone"
  dworker    \* the worker its loop is at

vars == <<queue, stopping, wpc, current, next, cpc, ctask, target, fresh, late, done, dpc, dworker>>

Init ==
  /\ queue = [w \in Workers |-> <<>>]
  /\ stopping = [w \in Workers |-> FALSE]
  /\ wpc = [w \in Workers |-> "take"]
  /\ current = [w \in Workers |-> NoTask]
  /\ next = 0
  /\ cpc = [c \in Callers |-> "idle"]
  /\ ctask = [c \in Callers |-> NoTask]
  /\ target = [c \in Callers |-> 0]
  /\ fresh = Tasks /\ late = {} /\ done = {}
  /\ dpc = "alive" /\ dworker = 0

-----------------------------------------------------------------------------
(* Submit.  What a call does to a pool that was destroyed under it is not   *)
(* modelled.                                                                *)

WorkerOf(t) == IF KeyOf[t] = NoKey THEN next % NWorkers ELSE KeyOf[t] % NWorkers

SubmitChoose(c) ==
  /\ cpc[c] = "idle" /\ dpc # "gone"
  /\ \E t \in fresh :
       /\ fresh' = fresh \ {t}
       /\ ctask' = [ctask EXCEPT ![c] = t]
       /\ target' = [target EXCEPT ![c] = WorkerOf(t)]
       /\ next' = IF KeyOf[t] = NoKey THEN next + 1 ELSE next
  /\ cpc' = [cpc EXCEPT ![c] = "push"]
  /\ UNCHANGED <<queue, stopping, wpc, current, late, done, dpc, dworker>>

(* Mutation: the task is put in front. *)
SubmitPushFront(c) ==
  /\ cpc[c] = "push" /\ dpc # "gone"
  /\ queue' = [queue EXCEPT ![target[c]] = <<ctask[c]>> \o @]
  /\ late' = IF stopping[target[c]] THEN late \union {ctask[c]} ELSE late
  /\ cpc' = [cpc EXCEPT ![c] = "notify"]
  /\ UNCHANGED <<stopping, wpc, current, next, ctask, target, fresh, done, dpc, dworker>>

(* Mutation: an early return leaves out the notify. *)
SubmitPushUnsaid(c) ==
  /\ cpc[c] = "push" /\ dpc # "gone"
  /\ queue' = [queue EXCEPT ![target[c]] = Append(@, ctask[c])]
  /\ late' = IF stopping[target[c]] THEN late \union {ctask[c]} ELSE late
  /\ cpc' = [cpc EXCEPT ![c] = "idle"]
  /\ UNCHANGED <<stopping, wpc, current, next, ctask, target, fresh, done, dpc, dworker>>

SubmitPush(c) ==
  /\ cpc[c] = "push" /\ dpc # "gone"
  /\ queue' = [queue EXCEPT ![target[c]] = Append(@, ctask[c])]
  /\ late' = IF stopping[target[c]] THEN late \union {ctask[c]} ELSE late
  /\ cpc' = [cpc EXCEPT ![c] = "notify"]
  /\ UNCHANGED <<stopping, wpc, current, next, ctask, target, fresh, done, dpc, dworker>>

(* condition.notify_one(): at most one worker waits on it. *)
Notify(w) == wpc' = [wpc EXCEPT ![w] = IF @ = "wait" THEN "take" ELSE @]

SubmitNotify(c) ==
  /\ cpc[c] = "notify" /\ dpc # "gone"
  /\ Notify(target[c])
  /\ cpc' = [cpc EXCEPT ![c] = "idle"]
  /\ ctask' = [ctask EXCEPT ![c] = NoTask]
  /\ target' = [target EXCEPT ![c] = 0]
  /\ UNCHANGED <<queue, stopping, current, next, fresh, late, done, dpc, dworker>>

Caller(c) == SubmitChoose(c) \/ SubmitPush(c) \/ SubmitNotify(c)

-----------------------------------------------------------------------------
(* _RunWorker. *)

WorkerWait(w) ==
  /\ wpc[w] = "take" /\ ~stopping[w] /\ queue[w] = <<>>
  /\ wpc' = [wpc EXCEPT ![w] = "wait"]
  /\ UNCHANGED <<queue, stopping, current, next, cpc, ctask, target, fresh, late, done, dpc, dworker>>

WorkerWakeUnasked(w) ==
  /\ wpc[w] = "wait"
  /\ wpc' = [wpc EXCEPT ![w] = "take"]
  /\ UNCHANGED <<queue, stopping, current, next, cpc, ctask, target, fresh, late, done, dpc, dworker>>

(* Mutation: a worker told to stop leaves its queue. *)
WorkerExitAtOnce(w) ==
  /\ wpc[w] = "take" /\ stopping[w]
  /\ wpc' = [wpc EXCEPT ![w] = "exited"]
  /\ UNCHANGED <<queue, stopping, current, next, cpc, ctask, target, fresh, late, done, dpc, dworker>>

WorkerExit(w) ==
  /\ wpc[w] = "take" /\ stopping[w] /\ queue[w] = <<>>
  /\ wpc' = [wpc EXCEPT ![w] = "exited"]
  /\ UNCHANGED <<queue, stopping, current, next, cpc, ctask, target, fresh, late, done, dpc, dworker>>

WorkerPop(w) ==
  /\ wpc[w] = "take" /\ queue[w] # <<>>
  /\ current' = [current EXCEPT ![w] = Head(queue[w])]
  /\ queue' = [queue EXCEPT ![w] = Tail(@)]
  /\ wpc' = [wpc EXCEPT ![w] = "run"]
  /\ UNCHANGED <<stopping, next, cpc, ctask, target, fresh, late, done, dpc, dworker>>

WorkerRun(w) ==
  /\ wpc[w] = "run"
  /\ done' = done \union {current[w]}
  /\ current' = [current EXCEPT ![w] = NoTask]
  /\ wpc' = [wpc EXCEPT ![w] = "take"]
  /\ UNCHANGED <<queue, stopping, next, cpc, ctask, target, fresh, late, dpc, dworker>>

WorkerStep(w) == WorkerWait(w) \/ WorkerExit(w) \/ WorkerPop(w) \/ WorkerRun(w)

-----------------------------------------------------------------------------
(* ~TaskThreadPool: a pass that stops and notifies, a pass that joins. *)

DtorBegin ==
  /\ dpc = "alive"
  /\ dpc' = "stop" /\ dworker' = 0
  /\ UNCHANGED <<queue, stopping, wpc, current, next, cpc, ctask, target, fresh, late, done>>

DtorStop ==
  /\ dpc = "stop"
  /\ stopping' = [stopping EXCEPT ![dworker] = TRUE]
  /\ dpc' = "notify"
  /\ UNCHANGED <<queue, wpc, current, next, cpc, ctask, target, fresh, late, done, dworker>>

(* Mutation: the destructor leaves out the notify. *)
DtorNotifyNobody ==
  /\ dpc = "notify"
  /\ IF dworker + 1 < NWorkers THEN dpc' = "stop" /\ dworker' = dworker + 1
                               ELSE dpc' = "join" /\ dworker' = 0
  /\ UNCHANGED <<queue, stopping, wpc, current, next, cpc, ctask, target, fresh, late, done>>

DtorNotify ==
  /\ dpc = "notify"
  /\ Notify(dworker)
  /\ IF dworker + 1 < NWorkers THEN dpc' = "stop" /\ dworker' = dworker + 1
                               ELSE dpc' = "join" /\ dworker' = 0
  /\ UNCHANGED <<queue, stopping, current, next, cpc, ctask, target, fresh, late, done>>

DtorJoin ==
  /\ dpc = "join" /\ wpc[dworker] = "exited"
  /\ IF dworker + 1 < NWorkers THEN dpc' = "join" /\ dworker' = dworker + 1
                               ELSE dpc' = "gone" /\ dworker' = 0
  /\ UNCHANGED <<queue, stopping, wpc, current, next, cpc, ctask, target, fresh, late, done>>

Dtor == DtorStop \/ DtorNotify \/ DtorJoin

Next == \/ \E c \in Callers : Caller(c)
        \/ \E w \in Workers : WorkerStep(w) \/ WorkerWakeUnasked(w)
        \/ DtorBegin \/ Dtor

Spec == Init /\ [][Next]_vars

(* Threads are scheduled and tasks end; nobody has to submit or to destroy  *)
(* the pool, and no wait has to end unasked.                                *)
Fairness == /\ \A c \in Callers : WF_vars(SubmitPush(c) \/ SubmitNotify(c))
            /\ \A w \in Workers : WF_vars(WorkerStep(w))
            /\ WF_vars(Dtor)
FairSpec == Spec /\ Fairness

-----------------------------------------------------------------------------
(* Type invariant. *)
TypeOK ==
  /\ queue \in [Workers -> Seq(Tasks)]
  /\ stopping \in [Workers -> BOOLEAN]
  /\ wpc \in [Workers -> {"take", "wait", "run", "exited"}]
  /\ current \in [Workers -> Tasks \union {NoTask}]
  /\ next \in Nat
  /\ cpc \in [Callers -> {"idle", "push", "notify"}]
  /\ ctask \in [Callers -> Tasks \union {NoTask}]
  /\ target \in [Callers -> Workers]
  /\ fresh \subseteq Tasks /\ late \subseteq Tasks /\ done \subseteq Tasks \union {NoTask}
  /\ dpc \in {"alive", "stop", "notify", "join", "gone"}
  /\ dworker \in Workers

(* A worker never sleeps on a reason to wake: if it waits while its queue   *)
(* holds a task or it is to stop, then a notify is on its way.              *)
Notified(w) == \/ \E c \in Callers : cpc[c] = "notify" /\ target[c] = w
               \/ dpc = "notify" /\ dworker = w
NoLostWakeup ==
  \A w \in Workers : wpc[w] = "wait" /\ (queue[w] # <<>> \/ stopping[w]) => Notified(w)

(* The destructor returns only after every task that was queued before its  *)
(* worker was told to stop has run (task_thread_pool.cpp:82).               *)
Queued(t) == t \notin fresh /\ \A c \in Callers : ~(cpc[c] = "push" /\ ctask[c] = t)
DestructorDrains ==
  dpc = "gone" => /\ \A w \in Workers : wpc[w] = "exited"
                  /\ \A t \in Tasks : Queued(t) /\ t \notin late => t \in done

(* Submit(key, task): the tasks of one key run one at a time, in the order  *)
(* they were submitted, each at most once.                                  *)
Keyed == {t \in Tasks : KeyOf[t] # NoKey}
UsedKeys == {KeyOf[t] : t \in Keyed}
(* What a queue holds of a key, in its order. *)
PlacesOf(s, k) == {i \in DOMAIN s : KeyOf[s[i]] = k}
OfKey(s, k) == LET at == CHOOSE l \in Listings(PlacesOf(s, k)) : TRUE
               IN  [j \in DOMAIN at |-> s[at[j]]]
Executor == INSTANCE KeyedExecutor WITH
  Tasks <- Keyed, Keys <- UsedKeys,
  pending <- [k \in UsedKeys |-> OfKey(queue[k % NWorkers], k)],
  active <- [k \in UsedKeys |->
               LET t == current[k % NWorkers]
               IN  IF t \in Keyed /\ KeyOf[t] = k THEN t ELSE NoTask],
  finished <- done \intersect Keyed
ImplementsKeyedExecutor == Executor!Spec

(* A task queued in time is run, and the destructor returns.                *)
TasksRun == \A t \in Tasks : (Queued(t) /\ t \notin late) ~> t \in done
DestructorReturns == (dpc = "stop") ~> (dpc = "gone")
=============================================================================

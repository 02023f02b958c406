------------------------------ MODULE PoolProofs ------------------------------
(***************************************************************************)
(* What TLAPS proves of TaskThreadPool, for every number of workers, every *)
(* set of callers and tasks, and every key.                                *)
(***************************************************************************)
EXTENDS TaskThreadPool, FiniteSetTheorems, SequenceTheorems, WellFoundedInduction, TLAPS

(* A caller that pushes has a task to push, and so does a worker that runs. *)
Submitting == \A c \in Callers : cpc[c] = "push" => ctask[c] \in Tasks
Working == \A w \in Workers : wpc[w] = "run" => current[w] \in Tasks

PoolType == TypeOK /\ Submitting /\ Working

LEMMA WorkerOfType == ASSUME TypeOK, NEW t \in Tasks PROVE WorkerOf(t) \in Workers
<1>1. \A n \in Nat : n % NWorkers \in Workers
  BY PoolAssumption DEF Workers
<1>2. KeyOf[t] # NoKey => KeyOf[t] \in Nat
  BY PoolAssumption
<1>3. next \in Nat
  BY DEF TypeOK
<1> QED BY <1>1, <1>2, <1>3 DEF WorkerOf

LEMMA PoolTypeInit == Init => PoolType
<1>1. 0 \in Workers
  BY PoolAssumption DEF Workers
<1> QED BY <1>1 DEF Init, PoolType, TypeOK, Submitting, Working

(* The first task of a queue, and the others. *)
LEMMA Popped ==
  ASSUME NEW s \in Seq(Tasks), s # <<>>
  PROVE  /\ Head(s) \in Tasks /\ Tail(s) \in Seq(Tasks)
         /\ \A i \in DOMAIN s : s[i] = Head(s) \/ \E j \in DOMAIN Tail(s) : Tail(s)[j] = s[i]
         /\ \A j \in DOMAIN Tail(s) : \E i \in DOMAIN s : s[i] = Tail(s)[j]
<1>1. /\ Head(s) \in Tasks /\ Tail(s) \in Seq(Tasks) /\ Len(Tail(s)) = Len(s) - 1
      /\ Head(s) = s[1] /\ \A j \in 1..Len(Tail(s)) : Tail(s)[j] = s[j + 1]
  BY HeadTailProperties
<1>2. DOMAIN s = 1..Len(s) /\ DOMAIN Tail(s) = 1..Len(Tail(s)) /\ Len(s) \in Nat
  BY <1>1, LenProperties
<1>3. ASSUME NEW i \in DOMAIN s, i # 1 PROVE \E j \in DOMAIN Tail(s) : Tail(s)[j] = s[i]
  <2>1. i - 1 \in DOMAIN Tail(s) /\ (i - 1) + 1 = i
    BY <1>1, <1>2, <1>3
  <2>2. Tail(s)[i - 1] = s[i]
    BY <1>1, <1>2, <2>1
  <2> QED BY <2>1, <2>2
<1>4. ASSUME NEW j \in DOMAIN Tail(s) PROVE \E i \in DOMAIN s : s[i] = Tail(s)[j]
  <2>1. j + 1 \in DOMAIN s
    BY <1>1, <1>2
  <2>2. s[j + 1] = Tail(s)[j]
    BY <1>1, <1>2
  <2> QED BY <2>1, <2>2
<1> QED BY <1>1, <1>3, <1>4

(* A task put at the end. *)
LEMMA Pushed ==
  ASSUME NEW s \in Seq(Tasks), NEW t \in Tasks
  PROVE  /\ Append(s, t) \in Seq(Tasks) /\ Append(s, t) # <<>>
         /\ \A i \in DOMAIN s : i \in DOMAIN Append(s, t) /\ Append(s, t)[i] = s[i]
         /\ \E i \in DOMAIN Append(s, t) : Append(s, t)[i] = t
         /\ \A i \in DOMAIN Append(s, t) : Append(s, t)[i] = t \/ (i \in DOMAIN s /\ Append(s, t)[i] = s[i])
<1>1. /\ Append(s, t) \in Seq(Tasks) /\ Append(s, t) # <<>> /\ Len(Append(s, t)) = Len(s) + 1
      /\ \A i \in 1..Len(s) : Append(s, t)[i] = s[i] /\ Append(s, t)[Len(s) + 1] = t
  BY AppendProperties
<1>2. /\ DOMAIN s = 1..Len(s) /\ DOMAIN Append(s, t) = 1..(Len(s) + 1) /\ Len(s) \in Nat
  BY <1>1, LenProperties
<1>3. Append(s, t)[Len(s) + 1] = t
  BY AppendProperties
<1>4. Len(s) + 1 \in DOMAIN Append(s, t) /\ \A i \in DOMAIN Append(s, t) : i = Len(s) + 1 \/ i \in DOMAIN s
  BY <1>2
<1> QED BY <1>1, <1>2, <1>3, <1>4

-----------------------------------------------------------------------------
LEMMA PoolTypeStep ==
  ASSUME PoolType, [Next]_vars
  PROVE  PoolType'
<1>0. TypeOK /\ Submitting /\ Working
  BY DEF PoolType
<1>z. 0 \in Workers /\ \A w \in Workers : w + 1 < NWorkers => w + 1 \in Workers
  BY PoolAssumption DEF Workers
<1> USE DEF PoolType, TypeOK, Submitting, Working
<1>1. ASSUME NEW c \in Callers, SubmitChoose(c) PROVE PoolType'
  <2>1. PICK t \in fresh : /\ fresh' = fresh \ {t} /\ ctask' = [ctask EXCEPT ![c] = t]
                           /\ target' = [target EXCEPT ![c] = WorkerOf(t)]
                           /\ next' = IF KeyOf[t] = NoKey THEN next + 1 ELSE next
    BY <1>1 DEF SubmitChoose
  <2>2. WorkerOf(t) \in Workers /\ t \in Tasks
    BY <1>0, WorkerOfType
  <2>3. next' \in Nat
    BY <1>0, <2>1
  <2> QED BY <1>0, <1>1, <2>1, <2>2, <2>3 DEF SubmitChoose
<1>2. ASSUME NEW c \in Callers, SubmitPush(c) PROVE PoolType'
  <2>1. target[c] \in Workers /\ ctask[c] \in Tasks
    BY <1>0, <1>2 DEF SubmitPush
  <2>2. Append(queue[target[c]], ctask[c]) \in Seq(Tasks)
    BY <1>0, <2>1, Pushed
  <2> QED BY <1>0, <1>2, <2>1, <2>2 DEF SubmitPush
<1>3. ASSUME NEW c \in Callers, SubmitNotify(c) PROVE PoolType'
  BY <1>0, <1>3, <1>z DEF SubmitNotify, Notify
<1>4. ASSUME NEW w \in Workers, WorkerWait(w) \/ WorkerWakeUnasked(w) \/ WorkerExit(w) PROVE PoolType'
  BY <1>0, <1>4 DEF WorkerWait, WorkerWakeUnasked, WorkerExit
<1>5. ASSUME NEW w \in Workers, WorkerPop(w) PROVE PoolType'
  <2>1. Head(queue[w]) \in Tasks /\ Tail(queue[w]) \in Seq(Tasks)
    BY <1>0, <1>5, Popped DEF WorkerPop
  <2> QED BY <1>0, <1>5, <2>1 DEF WorkerPop
<1>6. ASSUME NEW w \in Workers, WorkerRun(w) PROVE PoolType'
  BY <1>0, <1>6 DEF WorkerRun
<1>7. ASSUME DtorBegin \/ DtorStop PROVE PoolType'
  BY <1>0, <1>7, <1>z DEF DtorBegin, DtorStop
<1>8. ASSUME DtorNotify PROVE PoolType'
  BY <1>0, <1>8, <1>z DEF DtorNotify, Notify
<1>9. ASSUME DtorJoin PROVE PoolType'
  BY <1>0, <1>9, <1>z DEF DtorJoin
<1>10. CASE UNCHANGED vars
  BY <1>0, <1>10 DEF vars
<1> QED BY <1>1, <1>2, <1>3, <1>4, <1>5, <1>6, <1>7, <1>8, <1>9, <1>10
        DEF Next, Caller, WorkerStep, Dtor

(* The variables of the pool keep their types: no index leaves the vector   *)
(* of workers, whatever the keys (task_thread_pool.cpp:40-61).              *)
THEOREM PoolTypeCorrect == Spec => []TypeOK
<1>1. Spec => []PoolType
  BY PoolTypeInit, PoolTypeStep, PTL DEF Spec
<1>2. PoolType => TypeOK
  BY DEF PoolType
<1> QED BY <1>1, <1>2, PTL

-----------------------------------------------------------------------------
LEMMA WakeupStep ==
  ASSUME PoolType, NoLostWakeup, [Next]_vars
  PROVE  NoLostWakeup'
<1>0. /\ wpc \in [Workers -> {"take", "wait", "run", "exited"}] /\ target \in [Callers -> Workers]
      /\ cpc \in [Callers -> {"idle", "push", "notify"}] /\ queue \in [Workers -> Seq(Tasks)]
      /\ stopping \in [Workers -> BOOLEAN] /\ dworker \in Workers
  BY DEF PoolType, TypeOK
<1> USE DEF NoLostWakeup, Notified
<1>1. ASSUME NEW c \in Callers, SubmitChoose(c) PROVE NoLostWakeup'
  BY <1>0, <1>1 DEF SubmitChoose
<1>2. ASSUME NEW c \in Callers, SubmitPush(c) PROVE NoLostWakeup'
  <2>1. /\ cpc' = [cpc EXCEPT ![c] = "notify"] /\ UNCHANGED <<wpc, target, stopping, dpc, dworker>>
        /\ queue' = [queue EXCEPT ![target[c]] = Append(@, ctask[c])]
    BY <1>2 DEF SubmitPush
  <2> QED BY <1>0, <2>1
<1>3. ASSUME NEW c \in Callers, SubmitNotify(c) PROVE NoLostWakeup'
  BY <1>0, <1>3 DEF SubmitNotify, Notify
<1>4. ASSUME NEW w \in Workers, WorkerWait(w) \/ WorkerWakeUnasked(w) \/ WorkerExit(w) PROVE NoLostWakeup'
  BY <1>0, <1>4 DEF WorkerWait, WorkerWakeUnasked, WorkerExit
<1>5. ASSUME NEW w \in Workers, WorkerPop(w) \/ WorkerRun(w) PROVE NoLostWakeup'
  BY <1>0, <1>5 DEF WorkerPop, WorkerRun
<1>6. ASSUME DtorBegin \/ DtorStop PROVE NoLostWakeup'
  BY <1>0, <1>6 DEF DtorBegin, DtorStop
<1>7. ASSUME DtorNotify PROVE NoLostWakeup'
  BY <1>0, <1>7 DEF DtorNotify, Notify
<1>8. ASSUME DtorJoin PROVE NoLostWakeup'
  BY <1>0, <1>8 DEF DtorJoin
<1>9. CASE UNCHANGED vars
  BY <1>9 DEF vars
<1> QED BY <1>1, <1>2, <1>3, <1>4, <1>5, <1>6, <1>7, <1>8, <1>9
        DEF Next, Caller, WorkerStep, Dtor

(* No worker sleeps on a task or on the stop flag, although each notify     *)
(* comes after the unlock and another thread may come between               *)
(* (task_thread_pool.cpp:63-71, 20-27, 80).                                 *)
THEOREM WakeupsKept == Spec => []NoLostWakeup
<1>1. Init => PoolType /\ NoLostWakeup
  BY PoolTypeInit DEF Init, NoLostWakeup
<1>2. PoolType /\ NoLostWakeup /\ [Next]_vars => (PoolType /\ NoLostWakeup)'
  BY PoolTypeStep, WakeupStep
<1> QED BY <1>1, <1>2, PTL DEF Spec

-----------------------------------------------------------------------------
(* Where a task is, once a call of Submit began with it. *)
Waits(t, w) == \E i \in DOMAIN queue[w] : queue[w][i] = t
Pushing(t) == \E c \in Callers : cpc[c] = "push" /\ ctask[c] = t
Runs(t, w) == wpc[w] = "run" /\ current[w] = t
Located ==
  \A t \in Tasks : t \in fresh \/ Pushing(t) \/ t \in done \/ \E w \in Workers : Waits(t, w) \/ Runs(t, w)

(* What a worker that left had still in its queue came after it was told to. *)
OnlyLateLeft ==
  \A w \in Workers : wpc[w] = "exited" =>
    stopping[w] /\ \A t \in Tasks : Waits(t, w) => t \in late

(* The destructor has joined the workers before the one it is at. *)
Joined == /\ dpc = "join" => \A w \in Workers : w < dworker => wpc[w] = "exited"
          /\ dpc = "gone" => \A w \in Workers : wpc[w] = "exited"

DrainInv == Located /\ OnlyLateLeft /\ Joined

LEMMA DrainStep ==
  ASSUME PoolType, DrainInv, [Next]_vars
  PROVE  DrainInv'
<1>0. /\ wpc \in [Workers -> {"take", "wait", "run", "exited"}] /\ target \in [Callers -> Workers]
      /\ cpc \in [Callers -> {"idle", "push", "notify"}] /\ queue \in [Workers -> Seq(Tasks)]
      /\ stopping \in [Workers -> BOOLEAN] /\ dworker \in Workers
      /\ current \in [Workers -> Tasks \union {NoTask}] /\ ctask \in [Callers -> Tasks \union {NoTask}]
      /\ fresh \subseteq Tasks
  BY DEF PoolType, TypeOK
<1>n. NWorkers \in Nat /\ Workers = 0..(NWorkers - 1)
  BY PoolAssumption DEF Workers
<1>1. ASSUME NEW c \in Callers, SubmitChoose(c) PROVE DrainInv'
  <2>1. PICK t \in fresh : fresh' = fresh \ {t} /\ ctask' = [ctask EXCEPT ![c] = t]
    BY <1>1 DEF SubmitChoose
  <2>2. /\ cpc' = [cpc EXCEPT ![c] = "push"] /\ cpc[c] = "idle"
        /\ UNCHANGED <<queue, stopping, wpc, current, late, done, dpc, dworker>>
    BY <1>1 DEF SubmitChoose
  <2>5. Pushing(t)' /\ \A u \in Tasks : Pushing(u) => Pushing(u)'
    BY <1>0, <2>1, <2>2 DEF Pushing
  <2>6. \A u \in Tasks, w \in Workers : (Waits(u, w) => Waits(u, w)') /\ (Runs(u, w) => Runs(u, w)')
    BY <2>2 DEF Waits, Runs
  <2>3. Located'
    BY <2>1, <2>2, <2>5, <2>6 DEF DrainInv, Located
  <2>4. OnlyLateLeft' /\ Joined'
    BY <2>2 DEF DrainInv, OnlyLateLeft, Joined, Waits
  <2> QED BY <2>3, <2>4 DEF DrainInv
<1>2. ASSUME NEW c \in Callers, SubmitPush(c) PROVE DrainInv'
  <2>0. target[c] \in Workers /\ ctask[c] \in Tasks
    BY <1>0, <1>2 DEF SubmitPush, PoolType, Submitting
  <2>1. PICK w \in Workers, t \in Tasks : w = target[c] /\ t = ctask[c]
    BY <2>0
  <2>2. /\ \A i \in DOMAIN queue[w] : i \in DOMAIN Append(queue[w], t) /\ Append(queue[w], t)[i] = queue[w][i]
        /\ \E i \in DOMAIN Append(queue[w], t) : Append(queue[w], t)[i] = t
        /\ \A i \in DOMAIN Append(queue[w], t) :
             Append(queue[w], t)[i] = t \/ (i \in DOMAIN queue[w] /\ Append(queue[w], t)[i] = queue[w][i])
    <3>1. queue[w] \in Seq(Tasks)
      BY <1>0
    <3> QED BY <3>1, Pushed
  <2>3. /\ queue' = [queue EXCEPT ![w] = Append(@, t)]
        /\ late' = IF stopping[w] THEN late \union {t} ELSE late
        /\ cpc' = [cpc EXCEPT ![c] = "notify"]
        /\ UNCHANGED <<stopping, wpc, current, ctask, fresh, done, dpc, dworker>>
    BY <1>2, <2>1 DEF SubmitPush
  <2>4. queue'[w] = Append(queue[w], t) /\ \A v \in Workers : v # w => queue'[v] = queue[v]
    BY <1>0, <2>1, <2>3
  <2>a. \A u \in Tasks : Waits(u, w) => Waits(u, w)'
    BY <2>2, <2>4 DEF Waits
  <2>b. Waits(t, w)'
    BY <2>2, <2>4 DEF Waits
  <2>c. \A u \in Tasks : Waits(u, w)' => Waits(u, w) \/ u = t
    BY <2>2, <2>4 DEF Waits
  <2>d. \A v \in Workers, u \in Tasks : v # w => (Waits(u, v)' <=> Waits(u, v))
    BY <2>4 DEF Waits
  <2>5. /\ \A v \in Workers, u \in Tasks : Waits(u, v) => Waits(u, v)'
        /\ Waits(t, w)'
        /\ \A v \in Workers, u \in Tasks : Waits(u, v)' => Waits(u, v) \/ (u = t /\ v = w)
    BY <2>a, <2>b, <2>c, <2>d
  <2>6. \A u \in Tasks : Pushing(u) => u = t \/ Pushing(u)'
    BY <1>0, <2>1, <2>3 DEF Pushing
  <2>7. Located'
    <3>1. \A v \in Workers, u \in Tasks : Runs(u, v) => Runs(u, v)'
      BY <2>3 DEF Runs
    <3> QED BY <2>1, <2>3, <2>5, <2>6, <3>1 DEF DrainInv, Located
  <2>8. OnlyLateLeft'
    BY <2>1, <2>3, <2>5 DEF DrainInv, OnlyLateLeft
  <2> QED BY <2>3, <2>7, <2>8 DEF DrainInv, Joined
<1>3. ASSUME NEW c \in Callers, SubmitNotify(c) PROVE DrainInv'
  <2>1. /\ wpc' = [wpc EXCEPT ![target[c]] = IF @ = "wait" THEN "take" ELSE @]
        /\ cpc[c] = "notify" /\ cpc' = [cpc EXCEPT ![c] = "idle"] /\ ctask' = [ctask EXCEPT ![c] = NoTask]
        /\ UNCHANGED <<queue, stopping, current, fresh, late, done, dpc, dworker>>
    BY <1>3 DEF SubmitNotify, Notify
  <2>a. \A u \in Tasks : Pushing(u) => Pushing(u)'
    BY <1>0, <2>1 DEF Pushing
  <2>b. \A u \in Tasks, w \in Workers : (Waits(u, w) => Waits(u, w)') /\ (Runs(u, w) => Runs(u, w)')
    BY <1>0, <2>1 DEF Waits, Runs
  <2>2. Located'
    BY <2>1, <2>a, <2>b DEF DrainInv, Located
  <2>3. OnlyLateLeft' /\ Joined'
    BY <1>0, <2>1 DEF DrainInv, OnlyLateLeft, Joined, Waits
  <2> QED BY <2>2, <2>3 DEF DrainInv
<1>4. ASSUME NEW w \in Workers, WorkerWait(w) \/ WorkerWakeUnasked(w) PROVE DrainInv'
  <2>1. /\ \A v \in Workers : v # w => wpc'[v] = wpc[v]
        /\ wpc[w] \notin {"run", "exited"} /\ wpc'[w] \notin {"run", "exited"}
        /\ UNCHANGED <<queue, stopping, current, cpc, ctask, fresh, late, done, dpc, dworker>>
    BY <1>0, <1>4 DEF WorkerWait, WorkerWakeUnasked
  <2>2. Located'
    BY <2>1 DEF DrainInv, Located, Pushing, Waits, Runs
  <2>3. OnlyLateLeft' /\ Joined'
    BY <2>1 DEF DrainInv, OnlyLateLeft, Joined, Waits
  <2> QED BY <2>2, <2>3 DEF DrainInv
<1>5. ASSUME NEW w \in Workers, WorkerExit(w) PROVE DrainInv'
  <2>1. /\ \A v \in Workers : v # w => wpc'[v] = wpc[v]
        /\ wpc[w] = "take" /\ wpc'[w] = "exited" /\ stopping[w] /\ queue[w] = <<>>
        /\ UNCHANGED <<queue, stopping, current, cpc, ctask, fresh, late, done, dpc, dworker>>
    BY <1>0, <1>5 DEF WorkerExit
  <2>2. Located'
    BY <2>1 DEF DrainInv, Located, Pushing, Waits, Runs
  <2>3. \A t \in Tasks : ~Waits(t, w)
    BY <2>1 DEF Waits
  <2>4. OnlyLateLeft' /\ Joined'
    BY <2>1, <2>3 DEF DrainInv, OnlyLateLeft, Joined, Waits
  <2> QED BY <2>2, <2>4 DEF DrainInv
<1>6. ASSUME NEW w \in Workers, WorkerPop(w) PROVE DrainInv'
  <2>1. /\ wpc[w] = "take" /\ queue[w] # <<>> /\ queue[w] \in Seq(Tasks)
        /\ wpc'[w] = "run" /\ current'[w] = Head(queue[w]) /\ queue'[w] = Tail(queue[w])
        /\ \A v \in Workers : v # w => wpc'[v] = wpc[v] /\ current'[v] = current[v] /\ queue'[v] = queue[v]
        /\ UNCHANGED <<stopping, cpc, ctask, fresh, late, done, dpc, dworker>>
    BY <1>0, <1>6 DEF WorkerPop
  <2>2. \A i \in DOMAIN queue[w] :
          queue[w][i] = Head(queue[w]) \/ \E j \in DOMAIN Tail(queue[w]) : Tail(queue[w])[j] = queue[w][i]
    BY <2>1, Popped
  <2>3. \A t \in Tasks : Waits(t, w) => Runs(t, w)' \/ Waits(t, w)'
    BY <2>1, <2>2 DEF Waits, Runs
  <2>4. \A v \in Workers, t \in Tasks : v # w => (Waits(t, v)' <=> Waits(t, v)) /\ (Runs(t, v)' <=> Runs(t, v))
    BY <2>1 DEF Waits, Runs
  <2>5. \A t \in Tasks : ~Runs(t, w)
    BY <2>1 DEF Runs
  <2>6. Located'
    BY <2>1, <2>3, <2>4, <2>5 DEF DrainInv, Located, Pushing
  <2>7. OnlyLateLeft' /\ Joined'
    BY <2>1, <2>4 DEF DrainInv, OnlyLateLeft, Joined
  <2> QED BY <2>6, <2>7 DEF DrainInv
<1>7. ASSUME NEW w \in Workers, WorkerRun(w) PROVE DrainInv'
  <2>1. /\ wpc[w] = "run" /\ wpc'[w] = "take" /\ done' = done \union {current[w]}
        /\ \A v \in Workers : v # w => wpc'[v] = wpc[v] /\ current'[v] = current[v]
        /\ UNCHANGED <<queue, stopping, cpc, ctask, fresh, late, dpc, dworker>>
    BY <1>0, <1>7 DEF WorkerRun
  <2>2. Located'
    BY <2>1 DEF DrainInv, Located, Pushing, Waits, Runs
  <2>3. OnlyLateLeft' /\ Joined'
    BY <2>1 DEF DrainInv, OnlyLateLeft, Joined, Waits
  <2> QED BY <2>2, <2>3 DEF DrainInv
(* Steps of the destructor, which leaves the tasks where they are. *)
<1>d. ASSUME UNCHANGED <<queue, current, cpc, ctask, fresh, late, done>>,
             \A w \in Workers : stopping[w] => stopping'[w],
             \A w \in Workers : (wpc'[w] = "run" <=> wpc[w] = "run") /\ (wpc'[w] = "exited" <=> wpc[w] = "exited"),
             Joined'
      PROVE  DrainInv'
  <2>1. Located'
    BY <1>d DEF DrainInv, Located, Pushing, Waits, Runs
  <2>2. OnlyLateLeft'
    BY <1>d DEF DrainInv, OnlyLateLeft, Waits
  <2> QED BY <1>d, <2>1, <2>2 DEF DrainInv
<1>8. ASSUME DtorBegin \/ DtorStop PROVE DrainInv'
  <2>1. Joined'
    BY <1>8 DEF DtorBegin, DtorStop, Joined
  <2> QED BY <1>0, <1>8, <1>d, <2>1 DEF DtorBegin, DtorStop
<1>9. ASSUME DtorNotify PROVE DrainInv'
  <2>1. Joined'
    BY <1>9, <1>n DEF DtorNotify, Joined
  <2> QED BY <1>0, <1>9, <1>d, <2>1 DEF DtorNotify, Notify
<1>10. ASSUME DtorJoin PROVE DrainInv'
  <2>1. Joined'
    BY <1>0, <1>10, <1>n DEF DtorJoin, Joined, DrainInv
  <2> QED BY <1>10, <1>d, <2>1 DEF DtorJoin
<1>11. CASE UNCHANGED vars
  BY <1>11 DEF vars, DrainInv, Located, OnlyLateLeft, Joined, Pushing, Waits, Runs
<1> QED BY <1>1, <1>2, <1>3, <1>4, <1>5, <1>6, <1>7, <1>8, <1>9, <1>10, <1>11
        DEF Next, Caller, WorkerStep, Dtor

(* When the destructor returns all workers have left, and every task that   *)
(* was queued before its worker was told to stop has run, whoever submits   *)
(* while it works (task_thread_pool.cpp:18-36, 82).                         *)
THEOREM DestructorDrained == Spec => []DestructorDrains
<1>1. Init => PoolType /\ DrainInv
  BY PoolTypeInit DEF Init, DrainInv, Located, OnlyLateLeft, Joined
<1>2. PoolType /\ DrainInv /\ [Next]_vars => (PoolType /\ DrainInv)'
  BY PoolTypeStep, DrainStep
<1>3. DrainInv => DestructorDrains
  BY DEF DrainInv, Located, OnlyLateLeft, Joined, Pushing, Waits, Runs, DestructorDrains, Queued
<1> QED BY <1>1, <1>2, <1>3, PTL DEF Spec


-----------------------------------------------------------------------------
(* Sets of numbers and their listings. *)

(* Every set of numbers has a least. *)
LEMMA LeastOf ==
  ASSUME NEW S \in SUBSET Nat, S # {}
  PROVE  \E n \in S : \A m \in S : n <= m
<1> DEFINE T == {0..n : n \in S}
<1>1. \A n \in S : 0..n \in SUBSET Nat /\ IsFiniteSet(0..n)
  BY FS_Interval
<1>2. T \subseteq FiniteSubsetsOf(Nat) /\ T # {}
  BY <1>1 DEF FiniteSubsetsOf
<1>3. PICK X \in T : \A Y \in T : ~(<<Y, X>> \in StrictSubsetOrdering(Nat))
  BY <1>2, FS_StrictSubsetOrderingWellFounded, WFMin, Zenon
<1>4. PICK n \in S : X = 0..n
  OBVIOUS
<1>5. ASSUME NEW m \in S, m < n PROVE FALSE
  <2>1. 0..m \in T /\ 0..m \subseteq 0..n /\ 0..m # 0..n
    <3>1. n \in 0..n /\ n \notin 0..m
      BY <1>5
    <3> QED BY <1>5, <3>1
  <2> QED BY <2>1, <1>1, <1>3, <1>4 DEF StrictSubsetOrdering
<1> QED BY <1>5

(* A set that holds 0 and with a number the next holds them all. *)
LEMMA SetInduction ==
  ASSUME NEW S \in SUBSET Nat, 0 \in S, \A n \in S : n + 1 \in S
  PROVE  S = Nat
<1> SUFFICES ASSUME S # Nat PROVE FALSE
  OBVIOUS
<1>1. PICK n \in Nat \ S : \A m \in Nat \ S : n <= m
  BY LeastOf
<1>2. n # 0 /\ n - 1 \in Nat
  BY <1>1
<1>3. n - 1 \in S
  BY <1>1, <1>2
<1> QED BY <1>1, <1>2, <1>3

(* What enumerates S in ascending order is a listing of S. *)
Ascends(q, c, S) == /\ q \in [1..c -> S] /\ \A x \in S : \E i \in 1..c : q[i] = x
                    /\ \A i, j \in 1..c : i < j => q[i] < q[j]

LEMMA ListingOf ==
  ASSUME NEW S \in SUBSET Nat, NEW c \in Nat, NEW q, Ascends(q, c, S)
  PROVE  q \in Listings(S) /\ Cardinality(S) = c /\ IsFiniteSet(S)
<1>1. q \in Bijection(1..c, S)
  <2>1. q \in [1..c -> S] /\ \A x \in S : \E i \in 1..c : q[i] = x
    BY DEF Ascends
  <2>2. \A i, j \in 1..c : q[i] = q[j] => i = j
    <3> SUFFICES ASSUME NEW i \in 1..c, NEW j \in 1..c, q[i] = q[j], i # j PROVE FALSE
      OBVIOUS
    <3>1. i < j \/ j < i
      OBVIOUS
    <3>2. q[i] \in Nat /\ q[j] \in Nat
      BY <2>1
    <3> QED BY <3>1, <3>2 DEF Ascends
  <2> QED BY <2>1, <2>2 DEF Bijection, Injection, Surjection, IsInjective
<1>2. ExistsBijection(1..c, S)
  BY <1>1 DEF ExistsBijection
<1>3. Cardinality(S) = c /\ IsFiniteSet(S)
  BY <1>2, FS_CountingElements, FS_NatBijection
<1>4. DOMAIN q = 1..c
  BY DEF Ascends
<1> QED BY <1>3, <1>4 DEF Ascends, Listings

LEMMA ListingAscends ==
  ASSUME NEW S \in SUBSET Nat, IsFiniteSet(S), NEW q \in Listings(S)
  PROVE  Cardinality(S) \in Nat /\ Ascends(q, Cardinality(S), S)
BY FS_CardinalityType DEF Listings, Ascends

(* There is no other. *)
LEMMA ListingUnique ==
  ASSUME NEW S \in SUBSET Nat, IsFiniteSet(S), NEW p \in Listings(S), NEW q \in Listings(S)
  PROVE  p = q
<1> DEFINE c == Cardinality(S)
<1>1. c \in Nat /\ Ascends(p, c, S) /\ Ascends(q, c, S)
  BY ListingAscends
<1> HIDE DEF c
<1> SUFFICES ASSUME p # q PROVE FALSE
  OBVIOUS
<1>2. {i \in 1..c : p[i] # q[i]} # {}
  BY <1>1 DEF Ascends
<1>3. PICK i \in 1..c : p[i] # q[i] /\ \A j \in 1..c : p[j] # q[j] => i <= j
  <2>1. {j \in 1..c : p[j] # q[j]} \in SUBSET Nat
    BY <1>1
  <2> QED BY <1>2, <2>1, LeastOf
<1>4. \A j \in 1..c : j < i => p[j] = q[j]
  BY <1>3
<1>5. /\ \A j \in 1..c : p[j] \in Nat /\ q[j] \in Nat
      /\ p[i] \in S /\ q[i] \in S
  BY <1>1 DEF Ascends
<1>6. PICK j \in 1..c : q[j] = p[i]
  BY <1>1, <1>5 DEF Ascends
<1>7. PICK k \in 1..c : p[k] = q[i]
  BY <1>1, <1>5 DEF Ascends
<1>8. q[i] < p[i]
  <2>1. ~(j < i)
    <3> SUFFICES ASSUME j < i PROVE FALSE
      OBVIOUS
    <3>1. p[j] = p[i]
      BY <1>4, <1>6
    <3> QED BY <1>1, <1>5, <3>1 DEF Ascends
  <2>2. i < j
    BY <1>3, <1>6, <2>1
  <2> QED BY <1>1, <1>6, <2>2 DEF Ascends
<1>9. p[i] < q[i]
  <2>1. ~(k < i)
    <3> SUFFICES ASSUME k < i PROVE FALSE
      OBVIOUS
    <3>1. q[k] = q[i]
      BY <1>4, <1>7
    <3> QED BY <1>1, <1>5, <3>1 DEF Ascends
  <2>2. i < k
    BY <1>3, <1>7, <2>1
  <2> QED BY <1>1, <1>7, <2>2 DEF Ascends
<1> QED BY <1>5, <1>8, <1>9

(* A number above them all comes last. *)
LEMMA ListingExtended ==
  ASSUME NEW S \in SUBSET Nat, IsFiniteSet(S), NEW q \in Listings(S), NEW m \in Nat, \A x \in S : x < m
  PROVE  /\ Append(q, m) \in Listings(S \union {m})
         /\ q \in Seq(S) /\ Len(q) = Cardinality(S)
<1> DEFINE c == Cardinality(S)
           p == Append(q, m)
<1>1. c \in Nat /\ Ascends(q, c, S)
  BY ListingAscends
<1>2. q \in Seq(S) /\ Len(q) = c
  <2>1. q \in [1..c -> S]
    BY <1>1 DEF Ascends
  <2> QED BY <1>1, <2>1
<1>3. q \in Seq(Nat) /\ DOMAIN q = 1..c
  <2>1. q \in [1..c -> Nat] /\ DOMAIN q = 1..c
    BY <1>1 DEF Ascends
  <2> QED BY <1>1, <2>1
<1>4. /\ p \in Seq(Nat) /\ Len(p) = c + 1
      /\ \A i \in 1..c : p[i] = q[i]
      /\ p[c + 1] = m
  BY <1>2, <1>3, AppendProperties
<1>d. DOMAIN p = 1..(c + 1)
  BY <1>4, LenProperties
<1> HIDE DEF p, c
<1>5. p \in [1..(c + 1) -> S \union {m}]
  <2>1. \A i \in 1..(c + 1) : p[i] \in S \union {m}
    BY <1>1, <1>4 DEF Ascends
  <2> QED BY <1>4, <1>d, <2>1
<1>6. \A x \in S \union {m} : \E i \in 1..(c + 1) : p[i] = x
  BY <1>1, <1>4 DEF Ascends
<1>7. \A i, j \in 1..(c + 1) : i < j => p[i] < p[j]
  <2> SUFFICES ASSUME NEW i \in 1..(c + 1), NEW j \in 1..(c + 1), i < j PROVE p[i] < p[j]
    OBVIOUS
  <2>1. i \in 1..c /\ p[i] = q[i] /\ q[i] \in S
    BY <1>1, <1>4 DEF Ascends
  <2>2. CASE j \in 1..c
    BY <1>1, <1>4, <2>1, <2>2 DEF Ascends
  <2>3. CASE j = c + 1
    BY <1>4, <2>1, <2>3
  <2> QED BY <1>1, <2>2, <2>3
<1>8. Ascends(p, c + 1, S \union {m})
  BY <1>5, <1>6, <1>7 DEF Ascends
<1>9. p \in Listings(S \union {m})
  BY <1>1, <1>8, ListingOf
<1> QED BY <1>2, <1>9 DEF p, c

LEMMA EmptyListed == <<>> \in Listings({})
<1>1. Ascends(<<>>, 0, {})
  BY DEF Ascends
<1> QED BY <1>1, ListingOf

(* Every finite set of numbers can be listed. *)
LEMMA ListingExists ==
  ASSUME NEW n \in Nat, NEW S \in SUBSET (1..n)
  PROVE  Listings(S) # {} /\ IsFiniteSet(S) /\ S \in SUBSET Nat
<1> DEFINE B == {b \in Nat : \A R \in SUBSET (1..b) : Listings(R) # {}}
<1>f. \A b \in Nat : \A R \in SUBSET (1..b) : IsFiniteSet(R) /\ R \in SUBSET Nat
  <2> SUFFICES ASSUME NEW b \in Nat, NEW R \in SUBSET (1..b) PROVE IsFiniteSet(R) /\ R \in SUBSET Nat
    OBVIOUS
  <2>1. IsFiniteSet(1..b)
    BY FS_Interval
  <2>2. IsFiniteSet(R)
    BY <2>1, FS_Subset
  <2> QED BY <2>2
<1>1. 0 \in B
  <2>1. \A R \in SUBSET (1..0) : R = {}
    OBVIOUS
  <2> QED BY <2>1, EmptyListed
<1>2. ASSUME NEW b \in B PROVE b + 1 \in B
  <2> SUFFICES ASSUME NEW R \in SUBSET (1..(b + 1)) PROVE Listings(R) # {}
    OBVIOUS
  <2>1. CASE b + 1 \notin R
    <3>1. R \in SUBSET (1..b)
      BY <2>1
    <3> QED BY <3>1
  <2>2. CASE b + 1 \in R
    <3>1. R \ {b + 1} \in SUBSET (1..b) /\ (R \ {b + 1}) \union {b + 1} = R
      BY <2>2
    <3>2. PICK q : q \in Listings(R \ {b + 1})
      BY <3>1
    <3>3. \A x \in R \ {b + 1} : x < b + 1
      BY <3>1
    <3>5. IsFiniteSet(R \ {b + 1}) /\ R \ {b + 1} \in SUBSET Nat
      BY <1>f, <3>1
    <3>4. Append(q, b + 1) \in Listings((R \ {b + 1}) \union {b + 1})
      BY <3>2, <3>3, <3>5, ListingExtended
    <3> QED BY <3>1, <3>4
  <2> QED BY <2>1, <2>2
<1> HIDE DEF B
<1>3. B = Nat
  <2>1. B \in SUBSET Nat
    BY DEF B
  <2> QED BY <1>1, <1>2, <2>1, SetInduction
<1>4. n \in B
  BY <1>3
<1> QED BY <1>f, <1>4 DEF B


-----------------------------------------------------------------------------
(* What a queue holds of a key. *)

(* The listing a queue is projected with. *)
LEMMA PlacesListed ==
  ASSUME NEW s \in Seq(Tasks), NEW k
  PROVE  /\ PlacesOf(s, k) \in SUBSET Nat /\ IsFiniteSet(PlacesOf(s, k))
         /\ \E l \in Listings(PlacesOf(s, k)) : OfKey(s, k) = [j \in DOMAIN l |-> s[l[j]]]
<1>1. PlacesOf(s, k) \in SUBSET (1..Len(s)) /\ Len(s) \in Nat
  BY LenProperties DEF PlacesOf
<1>2. Listings(PlacesOf(s, k)) # {} /\ IsFiniteSet(PlacesOf(s, k)) /\ PlacesOf(s, k) \in SUBSET Nat
  BY <1>1, ListingExists
<1> QED BY <1>2 DEF OfKey

LEMMA OfKeyIs ==
  ASSUME NEW s \in Seq(Tasks), NEW k, NEW l \in Listings(PlacesOf(s, k))
  PROVE  OfKey(s, k) = [j \in DOMAIN l |-> s[l[j]]]
BY PlacesListed, ListingUnique

LEMMA OfKeyEmpty == ASSUME NEW k PROVE OfKey(<<>>, k) = <<>>
<1>1. PlacesOf(<<>>, k) = {}
  BY DEF PlacesOf
<1>2. OfKey(<<>>, k) = [j \in DOMAIN <<>> |-> <<>>[<<>>[j]]]
  <2>1. <<>> \in Seq(Tasks)
    OBVIOUS
  <2>2. <<>> \in Listings(PlacesOf(<<>>, k))
    BY <1>1, EmptyListed
  <2> QED BY <2>1, <2>2, OfKeyIs
<1> QED BY <1>2

(* The members of a projection. *)
LEMMA OfKeyMembers ==
  ASSUME NEW s \in Seq(Tasks), NEW k
  PROVE  /\ OfKey(s, k) \in Seq(Tasks)
         /\ \A i \in DOMAIN OfKey(s, k) : \E j \in DOMAIN s : OfKey(s, k)[i] = s[j]
<1>1. PICK l \in Listings(PlacesOf(s, k)) : OfKey(s, k) = [j \in DOMAIN l |-> s[l[j]]]
  BY PlacesListed
<1>2. Cardinality(PlacesOf(s, k)) \in Nat /\ Ascends(l, Cardinality(PlacesOf(s, k)), PlacesOf(s, k))
  BY PlacesListed, ListingAscends
<1>3. DOMAIN l = 1..Cardinality(PlacesOf(s, k)) /\ \A j \in DOMAIN l : l[j] \in DOMAIN s
  BY <1>2 DEF Ascends, PlacesOf
<1>4. \A j \in DOMAIN l : s[l[j]] \in Tasks
  BY <1>3
<1> QED BY <1>1, <1>2, <1>3, <1>4

(* A task that is put at the end of the queue. *)
LEMMA OfKeyPushed ==
  ASSUME NEW s \in Seq(Tasks), NEW t \in Tasks, NEW k
  PROVE  OfKey(Append(s, t), k) = IF KeyOf[t] = k THEN Append(OfKey(s, k), t) ELSE OfKey(s, k)
<1> DEFINE n == Len(s) + 1
           r == Append(s, t)
<1>1. /\ r \in Seq(Tasks) /\ Len(r) = n /\ n \in Nat /\ Len(s) \in Nat
      /\ DOMAIN s = 1..Len(s) /\ DOMAIN r = 1..n
      /\ \A i \in DOMAIN s : r[i] = s[i]
      /\ r[n] = t
  BY AppendProperties, LenProperties
<1>2. PICK l \in Listings(PlacesOf(s, k)) : OfKey(s, k) = [j \in DOMAIN l |-> s[l[j]]]
  BY PlacesListed
<1>3. PlacesOf(s, k) \in SUBSET Nat /\ IsFiniteSet(PlacesOf(s, k))
  BY PlacesListed
<1>4. Cardinality(PlacesOf(s, k)) \in Nat /\ Ascends(l, Cardinality(PlacesOf(s, k)), PlacesOf(s, k))
  BY <1>3, ListingAscends
<1>5. \A j \in DOMAIN l : l[j] \in DOMAIN s /\ l[j] \in Nat
  BY <1>4 DEF Ascends, PlacesOf
<1>6. OfKey(s, k) \in Seq(Tasks) /\ DOMAIN OfKey(s, k) = DOMAIN l
  BY <1>2, OfKeyMembers
<1>7. PlacesOf(r, k) = PlacesOf(s, k) \union IF KeyOf[t] = k THEN {n} ELSE {}
  BY <1>1 DEF PlacesOf
<1> HIDE DEF r, n
<1>8. CASE KeyOf[t] = k
  <2>1. /\ Append(l, n) \in Listings(PlacesOf(r, k))
        /\ l \in Seq(PlacesOf(s, k))
    <3>1. \A x \in PlacesOf(s, k) : x < n
      BY <1>1 DEF PlacesOf, n
    <3>2. Append(l, n) \in Listings(PlacesOf(s, k) \union {n}) /\ l \in Seq(PlacesOf(s, k))
      BY <1>1, <1>3, <3>1, ListingExtended
    <3> QED BY <1>7, <1>8, <3>2
  <2>2. l \in Seq(Nat) /\ DOMAIN l = 1..Len(l) /\ Len(l) \in Nat
    BY <1>3, <2>1, LenProperties
  <2>3. /\ DOMAIN Append(l, n) = 1..(Len(l) + 1)
        /\ \A j \in 1..Len(l) : Append(l, n)[j] = l[j]
        /\ Append(l, n)[Len(l) + 1] = n
    BY <1>1, <2>2, AppendProperties, LenProperties
  <2>4. OfKey(r, k) = [j \in DOMAIN Append(l, n) |-> r[Append(l, n)[j]]]
    <3>1. r \in Seq(Tasks) /\ Append(l, n) \in Listings(PlacesOf(r, k))
      BY <1>1, <2>1
    <3> DEFINE m == Append(l, n)
    <3>2. m \in Listings(PlacesOf(r, k))
      BY <3>1
    <3> HIDE DEF m
    <3>3. OfKey(r, k) = [j \in DOMAIN m |-> r[m[j]]]
      BY <3>1, <3>2, OfKeyIs
    <3> QED BY <3>3 DEF m
  <2>5. /\ Append(OfKey(s, k), t) \in Seq(Tasks) /\ Len(Append(OfKey(s, k), t)) = Len(l) + 1
        /\ \A j \in 1..Len(l) : Append(OfKey(s, k), t)[j] = OfKey(s, k)[j]
        /\ Append(OfKey(s, k), t)[Len(l) + 1] = t
    <3>1. Len(OfKey(s, k)) = Len(l)
      BY <1>6, <2>2
    <3>2. OfKey(s, k) \in Seq(Tasks) /\ t \in Tasks
      BY <1>6
    <3>4. /\ Append(OfKey(s, k), t) \in Seq(Tasks) /\ Len(Append(OfKey(s, k), t)) = Len(OfKey(s, k)) + 1
          /\ \A j \in 1..Len(OfKey(s, k)) : Append(OfKey(s, k), t)[j] = OfKey(s, k)[j]
          /\ Append(OfKey(s, k), t)[Len(OfKey(s, k)) + 1] = t
      BY <3>2, AppendProperties
    <3> QED BY <3>1, <3>4
  <2>6. \A j \in 1..(Len(l) + 1) : r[Append(l, n)[j]] = IF j = Len(l) + 1 THEN t ELSE OfKey(s, k)[j]
    <3> TAKE j \in 1..(Len(l) + 1)
    <3>1. CASE j = Len(l) + 1
      BY <1>1, <2>3, <3>1
    <3>2. CASE j \in 1..Len(l)
      <4>1. Append(l, n)[j] = l[j] /\ l[j] \in DOMAIN s /\ j # Len(l) + 1
        <5>1. Append(l, n)[j] = l[j]
          BY <2>3, <3>2
        <5>2. j \in DOMAIN l /\ j # Len(l) + 1
          BY <2>2, <3>2
        <5> QED BY <1>5, <5>1, <5>2
      <4>2. OfKey(s, k)[j] = s[l[j]]
        BY <1>2, <2>2, <3>2
      <4> QED BY <1>1, <4>1, <4>2
    <3> QED BY <2>2, <3>1, <3>2
  <2>7. OfKey(r, k) = Append(OfKey(s, k), t)
    <3>1. OfKey(r, k) \in Seq(Tasks)
      BY <1>1, OfKeyMembers
    <3>2. Len(OfKey(r, k)) = Len(l) + 1
      BY <2>2, <2>3, <2>4, <3>1, LenProperties
    <3>3. \A j \in 1..(Len(l) + 1) : OfKey(r, k)[j] = Append(OfKey(s, k), t)[j]
      <4> TAKE j \in 1..(Len(l) + 1)
      <4>1. OfKey(r, k)[j] = IF j = Len(l) + 1 THEN t ELSE OfKey(s, k)[j]
        BY <2>3, <2>4, <2>6
      <4>2. j = Len(l) + 1 \/ j \in 1..Len(l)
        BY <2>2
      <4> QED BY <2>5, <4>1, <4>2
    <3> QED BY <2>5, <3>1, <3>2, <3>3, SeqEqual
  <2> QED BY <1>8, <2>7 DEF r
<1>9. CASE KeyOf[t] # k
  <2>1. OfKey(r, k) = [j \in DOMAIN l |-> r[l[j]]]
    <3>1. r \in Seq(Tasks) /\ l \in Listings(PlacesOf(r, k))
      BY <1>1, <1>7, <1>9
    <3> QED BY <3>1, OfKeyIs
  <2>2. \A j \in DOMAIN l : r[l[j]] = s[l[j]]
    BY <1>1, <1>5
  <2> QED BY <1>2, <1>9, <2>1, <2>2 DEF r
<1> QED BY <1>8, <1>9

(* The oldest task is taken out of the queue. *)
LEMMA OfKeyPopped ==
  ASSUME NEW s \in Seq(Tasks), s # <<>>, NEW k
  PROVE  IF KeyOf[Head(s)] = k
           THEN /\ OfKey(s, k) # <<>> /\ Head(OfKey(s, k)) = Head(s)
                /\ OfKey(Tail(s), k) = Tail(OfKey(s, k))
           ELSE OfKey(Tail(s), k) = OfKey(s, k)
<1> DEFINE n == Len(s)
           r == Tail(s)
           S == PlacesOf(s, k)
           R == PlacesOf(r, k)
           c == Cardinality(S)
<1>1. /\ r \in Seq(Tasks) /\ Len(r) = n - 1 /\ n \in Nat \ {0}
      /\ Head(s) = s[1] /\ \A i \in 1..Len(r) : r[i] = s[i + 1]
  BY HeadTailProperties, EmptySeq, LenProperties
<1>2. DOMAIN s = 1..n /\ DOMAIN r = 1..(n - 1) /\ \A i \in 1..(n - 1) : r[i] = s[i + 1]
  BY <1>1, LenProperties
<1>3. PICK l \in Listings(S) : OfKey(s, k) = [j \in DOMAIN l |-> s[l[j]]]
  BY PlacesListed
<1>4. S \in SUBSET Nat /\ IsFiniteSet(S) /\ R \in SUBSET Nat /\ IsFiniteSet(R)
  BY <1>1, PlacesListed
<1>5. c \in Nat /\ Ascends(l, c, S)
  BY <1>4, ListingAscends
<1>6. /\ \A i : i \in S <=> i \in 1..n /\ KeyOf[s[i]] = k
      /\ \A i : i \in R <=> i \in 1..(n - 1) /\ i + 1 \in S
  <2>1. \A i : i \in S <=> i \in 1..n /\ KeyOf[s[i]] = k
    BY <1>2 DEF PlacesOf
  <2>2. \A i : i \in R <=> i \in 1..(n - 1) /\ KeyOf[r[i]] = k
    BY <1>2 DEF PlacesOf
  <2>3. \A i \in 1..(n - 1) : i + 1 \in 1..n /\ r[i] = s[i + 1]
    BY <1>1, <1>2
  <2> QED BY <2>1, <2>2, <2>3
<1> HIDE DEF n, r, S, R, c
<1>7. /\ DOMAIN l = 1..c /\ \A j \in 1..c : l[j] \in S /\ l[j] \in 1..n
      /\ \A i, j \in 1..c : i < j => l[i] < l[j]
      /\ \A x \in S : \E i \in 1..c : l[i] = x
  BY <1>5, <1>6 DEF Ascends
<1>8. OfKey(s, k) \in Seq(Tasks) /\ OfKey(r, k) \in Seq(Tasks) /\ Len(OfKey(s, k)) = c
  <2>1. OfKey(s, k) \in Seq(Tasks) /\ OfKey(r, k) \in Seq(Tasks)
    BY <1>1, OfKeyMembers
  <2> QED BY <1>3, <1>5, <1>7, <2>1, LenProperties
<1>9. CASE KeyOf[Head(s)] = k
  <2>1. 1 \in S
    BY <1>1, <1>6, <1>9
  <2>2. c > 0 /\ l[1] = 1
    <3>1. PICK i \in 1..c : l[i] = 1
      BY <1>7, <2>1
    <3>2. l[1] \in 1..n /\ ~(1 < i)
      BY <1>5, <1>7, <3>1
    <3> QED BY <1>5, <3>1, <3>2
  <2>3. OfKey(s, k) # <<>> /\ Head(OfKey(s, k)) = Head(s)
    <3>1. OfKey(s, k)[1] = s[1] /\ 1 \in DOMAIN OfKey(s, k)
      BY <1>3, <1>5, <1>7, <2>2
    <3>2. OfKey(s, k) # <<>>
      BY <3>1
    <3> QED BY <1>1, <1>8, <3>1, <3>2, HeadTailProperties
  <2> DEFINE m == [j \in 1..(c - 1) |-> l[j + 1] - 1]
  <2>4. Ascends(m, c - 1, R)
    <3>1. \A j \in 1..(c - 1) : m[j] \in R /\ m[j] + 1 = l[j + 1]
      <4> TAKE j \in 1..(c - 1)
      <4>1. j + 1 \in 1..c /\ 1 \in 1..c /\ 1 < j + 1
        BY <1>5
      <4>2. l[j + 1] \in S /\ l[j + 1] \in 1..n /\ l[j + 1] > 1
        BY <1>7, <2>2, <4>1
      <4>3. m[j] = l[j + 1] - 1 /\ m[j] \in 1..(n - 1) /\ m[j] + 1 = l[j + 1]
        BY <1>1, <4>2
      <4> HIDE DEF m
      <4> QED BY <1>6, <4>2, <4>3
    <3>2. \A x \in R : \E i \in 1..(c - 1) : m[i] = x
      <4> TAKE x \in R
      <4>1. x \in 1..(n - 1) /\ x + 1 \in S
        BY <1>6
      <4>2. PICK i \in 1..c : l[i] = x + 1
        BY <1>7, <4>1
      <4>3. i # 1 /\ i - 1 \in 1..(c - 1) /\ (i - 1) + 1 = i
        BY <1>5, <2>2, <4>1, <4>2
      <4>4. m[i - 1] = x
        BY <4>1, <4>2, <4>3
      <4> QED BY <4>3, <4>4
    <3>3. \A i, j \in 1..(c - 1) : i < j => m[i] < m[j]
      <4> SUFFICES ASSUME NEW i \in 1..(c - 1), NEW j \in 1..(c - 1), i < j PROVE m[i] < m[j]
        OBVIOUS
      <4>1. i + 1 \in 1..c /\ j + 1 \in 1..c /\ i + 1 < j + 1
        BY <1>5
      <4>2. l[i + 1] < l[j + 1] /\ l[i + 1] \in 1..n /\ l[j + 1] \in 1..n
        BY <1>7, <4>1
      <4> QED BY <4>2
    <3> QED BY <3>1, <3>2, <3>3 DEF Ascends
  <2>5. OfKey(r, k) = [j \in 1..(c - 1) |-> r[m[j]]]
    <3>1. c - 1 \in Nat
      BY <1>5, <2>2
    <3>2. m \in Listings(R) /\ DOMAIN m = 1..(c - 1)
      BY <1>4, <2>4, <3>1, ListingOf
    <3> HIDE DEF m
    <3>3. r \in Seq(Tasks) /\ m \in Listings(PlacesOf(r, k))
      BY <1>1, <3>2 DEF R
    <3>4. OfKey(r, k) = [j \in DOMAIN m |-> r[m[j]]]
      BY <3>3, OfKeyIs
    <3> QED BY <3>2, <3>4
  <2>6. \A j \in 1..(c - 1) : r[m[j]] = OfKey(s, k)[j + 1]
    <3> TAKE j \in 1..(c - 1)
    <3>1. j + 1 \in 1..c /\ m[j] \in R /\ m[j] + 1 = l[j + 1]
      <4>1. j + 1 \in 1..c /\ l[j + 1] \in 1..n
        BY <1>5, <1>7
      <4> QED BY <2>4, <4>1 DEF Ascends
    <3>2. r[m[j]] = s[l[j + 1]]
      BY <1>2, <1>6, <3>1 DEF n, r
    <3> QED BY <1>3, <1>7, <3>1, <3>2
  <2>7. OfKey(r, k) = Tail(OfKey(s, k))
    <3>1. /\ Tail(OfKey(s, k)) \in Seq(Tasks) /\ Len(Tail(OfKey(s, k))) = c - 1
          /\ \A j \in 1..(c - 1) : Tail(OfKey(s, k))[j] = OfKey(s, k)[j + 1]
      BY <1>8, <2>3, HeadTailProperties
    <3>2. Len(OfKey(r, k)) = c - 1
      BY <1>5, <1>8, <2>2, <2>5, LenProperties
    <3>3. \A j \in 1..(c - 1) : OfKey(r, k)[j] = Tail(OfKey(s, k))[j]
      <4> HIDE DEF m
      <4> QED BY <2>5, <2>6, <3>1
    <3> QED BY <1>8, <3>1, <3>2, <3>3, SeqEqual
  <2> QED BY <1>9, <2>3, <2>7 DEF r
<1>10. CASE KeyOf[Head(s)] # k
  <2>1. 1 \notin S
    BY <1>1, <1>6, <1>10
  <2> DEFINE m == [j \in 1..c |-> l[j] - 1]
  <2>2. \A j \in 1..c : l[j] - 1 \in R /\ (l[j] - 1) + 1 = l[j]
    <3> TAKE j \in 1..c
    <3>1. l[j] \in S /\ l[j] \in 1..n /\ l[j] # 1
      BY <1>7, <2>1
    <3>2. l[j] - 1 \in 1..(n - 1) /\ (l[j] - 1) + 1 = l[j]
      BY <1>1, <3>1
    <3> QED BY <1>6, <3>1, <3>2
  <2>4. Ascends(m, c, R)
    <3>2. \A x \in R : \E i \in 1..c : m[i] = x
      <4> TAKE x \in R
      <4>1. x \in 1..(n - 1) /\ x + 1 \in S
        BY <1>6
      <4>2. PICK i \in 1..c : l[i] = x + 1
        BY <1>7, <4>1
      <4> QED BY <4>1, <4>2
    <3>3. \A i, j \in 1..c : i < j => m[i] < m[j]
      <4> SUFFICES ASSUME NEW i \in 1..c, NEW j \in 1..c, i < j PROVE m[i] < m[j]
        OBVIOUS
      <4>2. l[i] < l[j] /\ l[i] \in 1..n /\ l[j] \in 1..n
        BY <1>7
      <4> QED BY <4>2
    <3> QED BY <2>2, <3>2, <3>3 DEF Ascends
  <2>5. OfKey(r, k) = [j \in 1..c |-> r[m[j]]]
    <3>2. m \in Listings(R) /\ DOMAIN m = 1..c
      BY <1>4, <1>5, <2>4, ListingOf
    <3> HIDE DEF m
    <3>3. r \in Seq(Tasks) /\ m \in Listings(PlacesOf(r, k))
      BY <1>1, <3>2 DEF R
    <3>4. OfKey(r, k) = [j \in DOMAIN m |-> r[m[j]]]
      BY <3>3, OfKeyIs
    <3> QED BY <3>2, <3>4
  <2>6. \A j \in 1..c : r[m[j]] = OfKey(s, k)[j]
    <3> TAKE j \in 1..c
    <3>1. m[j] \in R /\ m[j] + 1 = l[j]
      BY <2>2
    <3>2. r[m[j]] = s[l[j]]
      BY <1>2, <1>6, <3>1 DEF n, r
    <3> QED BY <1>3, <1>7, <3>1, <3>2
  <2>7. OfKey(r, k) = OfKey(s, k)
    <3>2. Len(OfKey(r, k)) = c
      BY <1>5, <1>8, <2>5, LenProperties
    <3> QED BY <1>8, <2>5, <2>6, <3>2, SeqEqual
  <2> QED BY <1>10, <2>7 DEF r
<1> QED BY <1>9, <1>10


-----------------------------------------------------------------------------
(* The pool as an executor of keys. *)

(* Tasks of a key are with the key's worker, in its queue, in its hands or  *)
(* on their way there; a worker that does not run has none in hand.         *)
InPlace(t, w) == KeyOf[t] # NoKey => KeyOf[t] % NWorkers = w
Placed ==
  /\ \A w \in Workers : \A t \in Tasks : Waits(t, w) => InPlace(t, w)
  /\ \A w \in Workers : IF wpc[w] = "run" THEN InPlace(current[w], w) ELSE current[w] = NoTask
  /\ \A c \in Callers : cpc[c] = "push" => InPlace(ctask[c], target[c])

(* A task that is fresh or being pushed, by one caller, is nowhere else. *)
Nowhere(t) == t \notin done /\ \A w \in Workers : ~Waits(t, w) /\ current[w] # t
Once ==
  /\ \A t \in Tasks : t \in fresh \/ Pushing(t) => Nowhere(t)
  /\ \A t \in fresh : ~Pushing(t)
  /\ \A c, d \in Callers : cpc[c] = "push" /\ cpc[d] = "push" /\ ctask[c] = ctask[d] => c = d

ExecutorInv == Placed /\ Once

Pend == [k \in UsedKeys |-> OfKey(queue[k % NWorkers], k)]
Act == [k \in UsedKeys |-> LET t == current[k % NWorkers]
                           IN  IF t \in Keyed /\ KeyOf[t] = k THEN t ELSE NoTask]
Fin == done \intersect Keyed
Mapped == [Executor!Next]_<<Pend, Act, Fin>>

LEMMA KeysPlaced ==
  /\ \A t \in Tasks : t \in Keyed <=> KeyOf[t] # NoKey
  /\ Keyed \subseteq Tasks /\ NoTask \notin Keyed
  /\ \A t \in Keyed : KeyOf[t] \in UsedKeys
  /\ \A k \in UsedKeys : k \in Nat /\ k # NoKey /\ k % NWorkers \in Workers
<1>1. \A n \in Nat : n % NWorkers \in Workers
  BY PoolAssumption DEF Workers
<1>2. /\ \A t \in Tasks : t \in Keyed <=> KeyOf[t] # NoKey
      /\ Keyed \subseteq Tasks /\ NoTask \notin Keyed
      /\ \A t \in Keyed : KeyOf[t] \in UsedKeys
  BY PoolAssumption DEF Keyed, UsedKeys
<1>3. \A k \in UsedKeys : k \in Nat /\ k # NoKey
  BY PoolAssumption DEF Keyed, UsedKeys
<1> QED BY <1>1, <1>2, <1>3

(* What a push and a pop do to the tasks that wait. *)
LEMMA WaitsPushed ==
  ASSUME NEW w \in Workers, NEW t \in Tasks, queue \in [Workers -> Seq(Tasks)],
         queue' = [queue EXCEPT ![w] = Append(@, t)]
  PROVE  \A u \in Tasks, v \in Workers : Waits(u, v)' <=> Waits(u, v) \/ (u = t /\ v = w)
<1>1. queue[w] \in Seq(Tasks) /\ queue'[w] = Append(queue[w], t)
      /\ \A v \in Workers : v # w => queue'[v] = queue[v]
  OBVIOUS
<1>2. /\ \A i \in DOMAIN queue[w] : i \in DOMAIN queue'[w] /\ queue'[w][i] = queue[w][i]
      /\ \E i \in DOMAIN queue'[w] : queue'[w][i] = t
      /\ \A i \in DOMAIN queue'[w] : queue'[w][i] = t \/ (i \in DOMAIN queue[w] /\ queue'[w][i] = queue[w][i])
  BY <1>1, Pushed
<1>3. \A u \in Tasks : Waits(u, w)' <=> Waits(u, w) \/ u = t
  BY <1>2 DEF Waits
<1>4. \A u \in Tasks, v \in Workers : v # w => (Waits(u, v)' <=> Waits(u, v))
  BY <1>1 DEF Waits
<1> QED BY <1>3, <1>4

LEMMA WaitsPopped ==
  ASSUME NEW w \in Workers, queue \in [Workers -> Seq(Tasks)], queue[w] # <<>>,
         queue' = [queue EXCEPT ![w] = Tail(@)]
  PROVE  /\ Head(queue[w]) \in Tasks /\ Waits(Head(queue[w]), w)
         /\ \A u \in Tasks, v \in Workers : Waits(u, v)' => Waits(u, v)
<1>1. queue[w] \in Seq(Tasks) /\ queue'[w] = Tail(queue[w])
      /\ \A v \in Workers : v # w => queue'[v] = queue[v]
  OBVIOUS
<1>2. /\ Head(queue[w]) \in Tasks /\ Head(queue[w]) = queue[w][1] /\ 1 \in DOMAIN queue[w]
  BY <1>1, HeadTailProperties, EmptySeq, LenProperties
<1>3. \A j \in DOMAIN queue'[w] : \E i \in DOMAIN queue[w] : queue[w][i] = queue'[w][j]
  BY <1>1, Popped
<1>4. \A u \in Tasks : Waits(u, w)' => Waits(u, w)
  BY <1>3 DEF Waits
<1>5. \A u \in Tasks, v \in Workers : v # w => (Waits(u, v)' <=> Waits(u, v))
  BY <1>1 DEF Waits
<1> QED BY <1>2, <1>4, <1>5 DEF Waits

LEMMA ExecutorInit == Init => ExecutorInv /\ Executor!Init
<1> SUFFICES ASSUME Init PROVE ExecutorInv /\ Executor!Init
  OBVIOUS
<1>1. \A t, w : w \in Workers => ~Waits(t, w)
  BY DEF Init, Waits
<1>2. ExecutorInv
  BY <1>1, PoolAssumption DEF Init, ExecutorInv, Placed, Once, Nowhere, Pushing
<1>3. Executor!Init
  BY OfKeyEmpty, KeysPlaced DEF Init, Executor!Init
<1> QED BY <1>2, <1>3

LEMMA ExecutorStep ==
  ASSUME PoolType, ExecutorInv, [Next]_vars
  PROVE  ExecutorInv' /\ Mapped
<1>0. /\ wpc \in [Workers -> {"take", "wait", "run", "exited"}] /\ target \in [Callers -> Workers]
      /\ cpc \in [Callers -> {"idle", "push", "notify"}] /\ queue \in [Workers -> Seq(Tasks)]
      /\ current \in [Workers -> Tasks \union {NoTask}] /\ ctask \in [Callers -> Tasks \union {NoTask}]
      /\ fresh \subseteq Tasks /\ done \subseteq Tasks \union {NoTask}
      /\ \A c \in Callers : cpc[c] = "push" => ctask[c] \in Tasks
      /\ \A w \in Workers : wpc[w] = "run" => current[w] \in Tasks
      /\ NoTask \notin Tasks
  BY PoolAssumption DEF PoolType, TypeOK, Submitting, Working
(* Steps that leave the tasks where they are. *)
<1>s. ASSUME UNCHANGED <<queue, current, done>>,
             \A w \in Workers : wpc'[w] = "run" <=> wpc[w] = "run",
             \A c \in Callers : cpc'[c] = "push" => cpc[c] = "push" /\ ctask'[c] = ctask[c] /\ target'[c] = target[c],
             fresh' = fresh
      PROVE  ExecutorInv' /\ Mapped
  <2>1. \A t \in Tasks, w \in Workers : Waits(t, w)' <=> Waits(t, w)
    BY <1>s DEF Waits
  <2>2. Placed'
    BY <1>0, <1>s, <2>1 DEF ExecutorInv, Placed
  <2>3. \A t \in Tasks : (Nowhere(t) => Nowhere(t)') /\ (Pushing(t)' => Pushing(t))
    BY <1>s, <2>1 DEF Nowhere, Pushing
  <2>4. Once'
    BY <1>0, <1>s, <2>3 DEF ExecutorInv, Once
  <2>5. UNCHANGED <<Pend, Act, Fin>>
    BY <1>s DEF Pend, Act, Fin
  <2> QED BY <2>2, <2>4, <2>5 DEF ExecutorInv, Mapped
<1>1. ASSUME NEW c \in Callers, SubmitChoose(c) PROVE ExecutorInv' /\ Mapped
  <2>1. PICK t \in fresh : /\ fresh' = fresh \ {t} /\ ctask' = [ctask EXCEPT ![c] = t]
                           /\ target' = [target EXCEPT ![c] = WorkerOf(t)]
    BY <1>1 DEF SubmitChoose
  <2>2. /\ cpc' = [cpc EXCEPT ![c] = "push"] /\ cpc[c] = "idle"
        /\ UNCHANGED <<queue, wpc, current, done>>
    BY <1>1 DEF SubmitChoose
  <2>3. InPlace(t, WorkerOf(t))
    BY DEF InPlace, WorkerOf
  <2>4. \A u \in Tasks, w \in Workers : Waits(u, w)' <=> Waits(u, w)
    BY <2>2 DEF Waits
  <2>5. Placed'
    <3>1. \A d \in Callers : cpc'[d] = "push" => InPlace(ctask'[d], target'[d])
      BY <1>0, <2>1, <2>2, <2>3 DEF ExecutorInv, Placed
    <3> QED BY <2>2, <2>4, <3>1 DEF ExecutorInv, Placed, InPlace
  <2>6. \A u \in Tasks : Nowhere(u) => Nowhere(u)'
    BY <2>2, <2>4 DEF Nowhere
  <2>7. \A u \in Tasks : Pushing(u)' => Pushing(u) \/ u = t
    BY <1>0, <2>1, <2>2 DEF Pushing
  <2>8. Nowhere(t) /\ ~Pushing(t) /\ t \in Tasks
    BY <1>0 DEF ExecutorInv, Once
  <2>9. \A u \in Tasks : u \in fresh' \/ Pushing(u)' => Nowhere(u)'
    BY <2>1, <2>6, <2>7, <2>8 DEF ExecutorInv, Once
  <2>10. /\ \A u \in fresh' : ~Pushing(u)'
         /\ \A d, e \in Callers : cpc'[d] = "push" /\ cpc'[e] = "push" /\ ctask'[d] = ctask'[e] => d = e
    <3>1. \A u \in fresh' : ~Pushing(u)'
      BY <1>0, <2>1, <2>7 DEF ExecutorInv, Once
    <3>2. \A d \in Callers : cpc[d] = "push" => ctask[d] # t
      BY <2>8 DEF Pushing
    <3>3. \A d \in Callers : d # c => ctask'[d] = ctask[d] /\ cpc'[d] = cpc[d]
      BY <1>0, <2>1, <2>2
    <3>4. ctask'[c] = t
      BY <1>0, <2>1
    <3>5. \A d, e \in Callers : cpc[d] = "push" /\ cpc[e] = "push" /\ ctask[d] = ctask[e] => d = e
      BY DEF ExecutorInv, Once
    <3> QED BY <3>1, <3>2, <3>3, <3>4, <3>5
  <2>11. Once'
    BY <2>9, <2>10 DEF Once
  <2>12. UNCHANGED <<Pend, Act, Fin>>
    BY <2>2 DEF Pend, Act, Fin
  <2> QED BY <2>5, <2>11, <2>12 DEF ExecutorInv, Mapped
<1>2. ASSUME NEW c \in Callers, SubmitPush(c) PROVE ExecutorInv' /\ Mapped
  <2>1. PICK w \in Workers, t \in Tasks : w = target[c] /\ t = ctask[c]
    BY <1>0, <1>2 DEF SubmitPush
  <2>2. /\ queue' = [queue EXCEPT ![w] = Append(@, t)] /\ cpc[c] = "push"
        /\ cpc' = [cpc EXCEPT ![c] = "notify"]
        /\ UNCHANGED <<wpc, current, ctask, target, fresh, done>>
    BY <1>2, <2>1 DEF SubmitPush
  <2>3. \A u \in Tasks, v \in Workers : Waits(u, v)' <=> Waits(u, v) \/ (u = t /\ v = w)
    BY <1>0, <2>2, WaitsPushed
  <2>4. InPlace(t, w) /\ Nowhere(t) /\ Pushing(t)
        /\ \A d \in Callers : cpc[d] = "push" /\ ctask[d] = t => d = c
    BY <2>1, <2>2 DEF ExecutorInv, Placed, Once, Pushing
  <2>5. Placed'
    <3>1. \A v \in Workers : \A u \in Tasks : Waits(u, v)' => InPlace(u, v)
      BY <2>3, <2>4 DEF ExecutorInv, Placed
    <3>2. \A d \in Callers : cpc'[d] = "push" => cpc[d] = "push" /\ d # c
      BY <1>0, <2>2
    <3> QED BY <2>2, <3>1, <3>2 DEF ExecutorInv, Placed, InPlace
  <2>6. \A u \in Tasks : Nowhere(u) /\ u # t => Nowhere(u)'
    BY <2>2, <2>3 DEF Nowhere
  <2>7. \A u \in Tasks : Pushing(u)' => Pushing(u)
    BY <1>0, <2>2 DEF Pushing
  <2>8. Once'
    <3>1. /\ \A d \in Callers : cpc'[d] = "push" => cpc[d] = "push" /\ d # c
          /\ ctask' = ctask /\ fresh' = fresh
      BY <1>0, <2>2
    <3>2. ~Pushing(t)' /\ t \notin fresh
      BY <2>4, <3>1 DEF Pushing, ExecutorInv, Once
    <3>3. \A u \in Tasks : u \in fresh' \/ Pushing(u)' => Nowhere(u)'
      BY <2>6, <2>7, <3>1, <3>2 DEF ExecutorInv, Once
    <3>4. \A u \in fresh' : ~Pushing(u)'
      BY <1>0, <2>7, <3>1 DEF ExecutorInv, Once
    <3>5. \A d, e \in Callers : cpc'[d] = "push" /\ cpc'[e] = "push" /\ ctask'[d] = ctask'[e] => d = e
      BY <3>1 DEF ExecutorInv, Once
    <3> QED BY <3>3, <3>4, <3>5 DEF Once
  <2>9. Act' = Act /\ Fin' = Fin
    BY <2>2 DEF Act, Fin
  <2>10. \A k \in UsedKeys : Pend'[k] = IF KeyOf[t] = k THEN Append(Pend[k], t) ELSE Pend[k]
    <3> TAKE k \in UsedKeys
    <3>1. k % NWorkers \in Workers /\ k # NoKey
      BY KeysPlaced
    <3>2. Pend[k] = OfKey(queue[k % NWorkers], k) /\ Pend'[k] = OfKey(queue'[k % NWorkers], k)
      BY DEF Pend
    <3>3. CASE k % NWorkers = w
      <4>1. queue'[w] = Append(queue[w], t) /\ queue[w] \in Seq(Tasks)
        BY <1>0, <2>2
      <4>2. OfKey(Append(queue[w], t), k) = IF KeyOf[t] = k THEN Append(OfKey(queue[w], k), t) ELSE OfKey(queue[w], k)
        BY <4>1, OfKeyPushed
      <4> QED BY <3>2, <3>3, <4>1, <4>2
    <3>4. CASE k % NWorkers # w
      <4>1. queue'[k % NWorkers] = queue[k % NWorkers]
        BY <1>0, <2>2, <3>1, <3>4
      <4>2. KeyOf[t] # k
        BY <2>4, <3>1, <3>4 DEF InPlace
      <4> QED BY <3>2, <4>1, <4>2
    <3> QED BY <3>3, <3>4
  <2>11. CASE t \in Keyed
    <3>1. KeyOf[t] \in UsedKeys
      BY <2>11, KeysPlaced
    <3>2. Pend' = [Pend EXCEPT ![KeyOf[t]] = Append(@, t)]
      BY <2>10, <3>1 DEF Pend
    <3>3. t \notin Fin /\ t # Act[KeyOf[t]]
      <4>1. t # NoTask /\ KeyOf[t] % NWorkers \in Workers
        BY <1>0, <3>1, KeysPlaced
      <4> QED BY <2>4, <3>1, <4>1 DEF Nowhere, Fin, Act
    <3>4. \A i \in DOMAIN Pend[KeyOf[t]] : Pend[KeyOf[t]][i] # t
      <4> SUFFICES ASSUME NEW i \in DOMAIN Pend[KeyOf[t]], Pend[KeyOf[t]][i] = t PROVE FALSE
        OBVIOUS
      <4>1. KeyOf[t] % NWorkers \in Workers
        BY <3>1, KeysPlaced
      <4>2. Pend[KeyOf[t]] = OfKey(queue[KeyOf[t] % NWorkers], KeyOf[t])
        BY <3>1 DEF Pend
      <4>3. queue[KeyOf[t] % NWorkers] \in Seq(Tasks)
        BY <1>0, <4>1
      <4>4. \E j \in DOMAIN queue[KeyOf[t] % NWorkers] : t = queue[KeyOf[t] % NWorkers][j]
        BY <4>2, <4>3, OfKeyMembers
      <4> QED BY <2>4, <4>1, <4>4 DEF Nowhere, Waits
    <3>5. Executor!Submit(t)
      BY <2>9, <3>2, <3>3, <3>4 DEF Executor!Submit, Executor!Unknown, Pend, Act, Fin
    <3> QED BY <2>5, <2>8, <2>11, <3>5 DEF ExecutorInv, Mapped, Executor!Next
  <2>12. CASE t \notin Keyed
    <3>1. Pend' = Pend
      <4>1. \A k \in UsedKeys : KeyOf[t] # k
        BY <2>12, KeysPlaced
      <4> QED BY <2>10, <4>1 DEF Pend
    <3> QED BY <2>5, <2>8, <2>9, <3>1 DEF ExecutorInv, Mapped
  <2> QED BY <2>11, <2>12
<1>3. ASSUME NEW c \in Callers, SubmitNotify(c) PROVE ExecutorInv' /\ Mapped
  <2>1. \A d \in Callers : cpc'[d] = "push" => cpc[d] = "push" /\ ctask'[d] = ctask[d] /\ target'[d] = target[d]
    BY <1>0, <1>3 DEF SubmitNotify
  <2>2. \A w \in Workers : wpc'[w] = "run" <=> wpc[w] = "run"
    BY <1>0, <1>3 DEF SubmitNotify, Notify
  <2> QED BY <1>3, <1>s, <2>1, <2>2 DEF SubmitNotify
<1>4. ASSUME NEW w \in Workers, WorkerWait(w) \/ WorkerWakeUnasked(w) \/ WorkerExit(w) PROVE ExecutorInv' /\ Mapped
  <2>1. \A v \in Workers : wpc'[v] = "run" <=> wpc[v] = "run"
    BY <1>0, <1>4 DEF WorkerWait, WorkerWakeUnasked, WorkerExit
  <2> QED BY <1>4, <1>s, <2>1 DEF WorkerWait, WorkerWakeUnasked, WorkerExit
<1>5. ASSUME NEW w \in Workers, WorkerPop(w) PROVE ExecutorInv' /\ Mapped
  <2>1. /\ wpc[w] = "take" /\ queue[w] # <<>> /\ queue[w] \in Seq(Tasks)
        /\ queue' = [queue EXCEPT ![w] = Tail(@)]
        /\ wpc' = [wpc EXCEPT ![w] = "run"] /\ current' = [current EXCEPT ![w] = Head(queue[w])]
        /\ UNCHANGED <<cpc, ctask, target, fresh, done>>
    BY <1>0, <1>5 DEF WorkerPop
  <2>2. PICK t \in Tasks : t = Head(queue[w]) /\ Waits(t, w)
    BY <1>0, <2>1, WaitsPopped
  <2>3. \A u \in Tasks, v \in Workers : Waits(u, v)' => Waits(u, v)
    BY <1>0, <2>1, WaitsPopped
  <2>4. /\ current'[w] = t /\ \A v \in Workers : v # w => current'[v] = current[v]
        /\ wpc'[w] = "run" /\ \A v \in Workers : v # w => wpc'[v] = wpc[v]
        /\ current[w] = NoTask /\ InPlace(t, w)
    BY <1>0, <2>1, <2>2 DEF ExecutorInv, Placed
  <2>5. Placed'
    <3>1. \A v \in Workers : IF wpc'[v] = "run" THEN InPlace(current'[v], v) ELSE current'[v] = NoTask
      BY <2>4 DEF ExecutorInv, Placed
    <3> QED BY <2>1, <2>3, <3>1 DEF ExecutorInv, Placed, InPlace
  <2>6. \A u \in Tasks : Nowhere(u) => Nowhere(u)'
    BY <2>1, <2>2, <2>3, <2>4 DEF Nowhere
  <2>7. Once'
    BY <1>0, <2>1, <2>6 DEF ExecutorInv, Once, Pushing
  <2>8. Fin' = Fin
    BY <2>1 DEF Fin
  <2>9. \A k \in UsedKeys : IF KeyOf[t] = k
          THEN Pend[k] # <<>> /\ Head(Pend[k]) = t /\ Pend'[k] = Tail(Pend[k])
          ELSE Pend'[k] = Pend[k]
    <3> TAKE k \in UsedKeys
    <3>1. k % NWorkers \in Workers /\ k # NoKey
      BY KeysPlaced
    <3>2. Pend[k] = OfKey(queue[k % NWorkers], k) /\ Pend'[k] = OfKey(queue'[k % NWorkers], k)
      BY DEF Pend
    <3>3. CASE k % NWorkers = w
      <4>1. queue'[w] = Tail(queue[w])
        BY <1>0, <2>1
      <4> QED BY <2>1, <2>2, <3>2, <3>3, <4>1, OfKeyPopped
    <3>4. CASE k % NWorkers # w
      <4>1. queue'[k % NWorkers] = queue[k % NWorkers]
        BY <1>0, <2>1, <3>1, <3>4
      <4>2. KeyOf[t] # k
        BY <2>4, <3>1, <3>4 DEF InPlace
      <4> QED BY <3>2, <4>1, <4>2
    <3> QED BY <3>3, <3>4
  <2>10. \A k \in UsedKeys : Act'[k] = IF KeyOf[t] = k THEN t ELSE Act[k]
    <3> TAKE k \in UsedKeys
    <3>1. k % NWorkers \in Workers /\ k # NoKey
      BY KeysPlaced
    <3>2. t \in Keyed <=> KeyOf[t] # NoKey
      BY KeysPlaced
    <3>3. CASE k % NWorkers = w
      <4>1. Act[k] = NoTask
        BY <2>4, <3>3, KeysPlaced DEF Act
      <4>2. Act'[k] = IF t \in Keyed /\ KeyOf[t] = k THEN t ELSE NoTask
        BY <2>4, <3>3 DEF Act
      <4> QED BY <3>1, <3>2, <4>1, <4>2
    <3>4. CASE k % NWorkers # w
      <4>1. current'[k % NWorkers] = current[k % NWorkers] /\ KeyOf[t] # k
        BY <2>4, <3>1, <3>4 DEF InPlace
      <4> QED BY <4>1 DEF Act
    <3> QED BY <3>3, <3>4
  <2>11. CASE t \in Keyed
    <3> DEFINE k == KeyOf[t]
    <3>1. k \in UsedKeys /\ k % NWorkers = w
      BY <2>4, <2>11, KeysPlaced DEF InPlace
    <3>2. Act[k] = NoTask
      BY <2>4, <3>1, KeysPlaced DEF Act
    <3>3. Pend' = [Pend EXCEPT ![k] = Tail(@)] /\ Pend[k] # <<>> /\ Head(Pend[k]) = t
      BY <2>9, <3>1 DEF Pend
    <3>4. Act' = [Act EXCEPT ![k] = t]
      BY <2>10, <3>1 DEF Act
    <3>5. Executor!Start(k)
      BY <2>8, <3>2, <3>3, <3>4 DEF Executor!Start, Pend, Act, Fin
    <3> QED BY <2>5, <2>7, <3>1, <3>5 DEF ExecutorInv, Mapped, Executor!Next
  <2>12. CASE t \notin Keyed
    <3>1. \A k \in UsedKeys : KeyOf[t] # k
      BY <2>12, KeysPlaced
    <3>2. Pend' = Pend
      BY <2>9, <3>1 DEF Pend
    <3>3. Act' = Act
      BY <2>10, <3>1 DEF Act
    <3> QED BY <2>5, <2>7, <2>8, <3>2, <3>3 DEF ExecutorInv, Mapped
  <2> QED BY <2>11, <2>12
<1>6. ASSUME NEW w \in Workers, WorkerRun(w) PROVE ExecutorInv' /\ Mapped
  <2>1. /\ wpc[w] = "run" /\ wpc' = [wpc EXCEPT ![w] = "take"] /\ done' = done \union {current[w]}
        /\ current' = [current EXCEPT ![w] = NoTask]
        /\ UNCHANGED <<queue, cpc, ctask, target, fresh>>
    BY <1>6 DEF WorkerRun
  <2>2. PICK t \in Tasks : t = current[w] /\ InPlace(t, w)
    BY <1>0, <2>1 DEF ExecutorInv, Placed
  <2>3. \A u \in Tasks, v \in Workers : Waits(u, v)' <=> Waits(u, v)
    BY <2>1 DEF Waits
  <2>4. /\ current'[w] = NoTask /\ \A v \in Workers : v # w => current'[v] = current[v]
        /\ wpc'[w] = "take" /\ \A v \in Workers : v # w => wpc'[v] = wpc[v]
    BY <1>0, <2>1
  <2>5. Placed'
    <3>1. \A v \in Workers : IF wpc'[v] = "run" THEN InPlace(current'[v], v) ELSE current'[v] = NoTask
      BY <2>4 DEF ExecutorInv, Placed
    <3> QED BY <2>1, <2>3, <3>1 DEF ExecutorInv, Placed, InPlace
  <2>6. \A u \in Tasks : Nowhere(u) => Nowhere(u)'
    BY <1>0, <2>1, <2>2, <2>3, <2>4 DEF Nowhere
  <2>7. Once'
    BY <1>0, <2>1, <2>6 DEF ExecutorInv, Once, Pushing
  <2>8. Pend' = Pend
    BY <2>1 DEF Pend
  <2>9. \A k \in UsedKeys : Act'[k] = IF KeyOf[t] = k THEN NoTask ELSE Act[k]
    <3> TAKE k \in UsedKeys
    <3>1. k % NWorkers \in Workers /\ k # NoKey
      BY KeysPlaced
    <3>3. CASE k % NWorkers = w
      <4>1. Act'[k] = NoTask
        BY <2>4, <3>3, KeysPlaced DEF Act
      <4>2. KeyOf[t] # k => Act[k] = NoTask
        BY <2>2, <3>3 DEF Act
      <4> QED BY <4>1, <4>2
    <3>4. CASE k % NWorkers # w
      <4>1. current'[k % NWorkers] = current[k % NWorkers] /\ KeyOf[t] # k
        BY <2>2, <2>4, <3>1, <3>4 DEF InPlace
      <4> QED BY <4>1 DEF Act
    <3> QED BY <3>3, <3>4
  <2>10. CASE t \in Keyed
    <3> DEFINE k == KeyOf[t]
    <3>1. k \in UsedKeys /\ k % NWorkers = w
      BY <2>2, <2>10, KeysPlaced DEF InPlace
    <3>2. Act[k] = t /\ t # NoTask
      BY <1>0, <2>2, <2>10, <3>1 DEF Act
    <3>3. Act' = [Act EXCEPT ![k] = NoTask]
      BY <2>9, <3>1 DEF Act
    <3>4. Fin' = Fin \union {t}
      BY <2>1, <2>2, <2>10 DEF Fin
    <3>5. Executor!Finish(k)
      BY <2>8, <3>2, <3>3, <3>4 DEF Executor!Finish, Pend, Act, Fin
    <3> QED BY <2>5, <2>7, <3>1, <3>5 DEF ExecutorInv, Mapped, Executor!Next
  <2>11. CASE t \notin Keyed
    <3>1. \A k \in UsedKeys : KeyOf[t] # k
      BY <2>11, KeysPlaced
    <3>2. Act' = Act
      BY <2>9, <3>1 DEF Act
    <3>3. Fin' = Fin
      BY <2>1, <2>2, <2>11 DEF Fin
    <3> QED BY <2>5, <2>7, <2>8, <3>2, <3>3 DEF ExecutorInv, Mapped
  <2> QED BY <2>10, <2>11
<1>7. ASSUME DtorBegin \/ DtorStop \/ DtorJoin PROVE ExecutorInv' /\ Mapped
  <2>1. UNCHANGED <<queue, current, done, wpc, cpc, ctask, target, fresh>>
    BY <1>7 DEF DtorBegin, DtorStop, DtorJoin
  <2> QED BY <1>s, <2>1
<1>8. ASSUME DtorNotify PROVE ExecutorInv' /\ Mapped
  <2>1. \A w \in Workers : wpc'[w] = "run" <=> wpc[w] = "run"
    BY <1>0, <1>8 DEF DtorNotify, Notify
  <2> QED BY <1>8, <1>s, <2>1 DEF DtorNotify
<1>9. CASE UNCHANGED vars
  BY <1>9, <1>s DEF vars
<1> QED BY <1>1, <1>2, <1>3, <1>4, <1>5, <1>6, <1>7, <1>8, <1>9
        DEF Next, Caller, WorkerStep, Dtor

(* The pool implements the executor it promises: tasks submitted under one  *)
(* key run one at a time, in the order they were queued and each at most    *)
(* once, whatever other keys share the worker and however callers, workers  *)
(* and destructor take turns (task_thread_pool.cpp:40-71, 74-109).          *)
THEOREM PoolIsKeyedExecutor == Spec => ImplementsKeyedExecutor
<1>1. Init => PoolType /\ ExecutorInv /\ Executor!Init
  BY PoolTypeInit, ExecutorInit
<1>2. PoolType /\ ExecutorInv /\ [Next]_vars => PoolType' /\ ExecutorInv' /\ [Executor!Next]_<<Pend, Act, Fin>>
  BY PoolTypeStep, ExecutorStep DEF Mapped
<1> QED BY <1>1, <1>2, PTL DEF Spec, ImplementsKeyedExecutor, Executor!Spec, Pend, Act, Fin

=============================================================================

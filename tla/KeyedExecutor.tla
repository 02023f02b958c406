---------------------------- MODULE KeyedExecutor ----------------------------
(***************************************************************************)
(* What TaskThreadPool promises its callers of Submit(key, task)           *)
(* (task_thread_pool.h): the tasks of one key run one at a time and in the *)
(* order they were submitted; a task runs at most once.  Tasks of          *)
(* different keys are unrelated.  A task submitted while the pool is being *)
(* destroyed may never run.                                                *)
(***************************************************************************)
EXTENDS Sequences

CONSTANTS Tasks, Keys, KeyOf, NoTask

VARIABLES pending,   \* by key, what waits, oldest first
          active,    \* by key, what runs
          finished   \* what has run

Init == /\ pending = [k \in Keys |-> <<>>]
        /\ active = [k \in Keys |-> NoTask]
        /\ finished = {}

Unknown(t) == /\ t \notin finished /\ t # active[KeyOf[t]]
              /\ \A i \in DOMAIN pending[KeyOf[t]] : pending[KeyOf[t]][i] # t

Submit(t) == /\ Unknown(t)
             /\ pending' = [pending EXCEPT ![KeyOf[t]] = Append(@, t)]
             /\ UNCHANGED <<active, finished>>

Start(k) == /\ active[k] = NoTask /\ pending[k] # <<>>
            /\ active' = [active EXCEPT ![k] = Head(pending[k])]
            /\ pending' = [pending EXCEPT ![k] = Tail(@)]
            /\ UNCHANGED finished

Finish(k) == /\ active[k] # NoTask
             /\ finished' = finished \union {active[k]}
             /\ active' = [active EXCEPT ![k] = NoTask]
             /\ UNCHANGED pending

Next == (\E t \in Tasks : Submit(t)) \/ (\E k \in Keys : Start(k) \/ Finish(k))

Spec == Init /\ [][Next]_<<pending, active, finished>>
=============================================================================

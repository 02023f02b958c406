---------------------------- MODULE DeadlineTimer ----------------------------
(***************************************************************************)
(* What a Timer of one-second ticks promises (timer.h): a task added with  *)
(* an expiry of n runs at the n-th tick from then on; refreshing it counts *)
(* anew; a cancelled task still ends at its tick and does not run.         *)
(***************************************************************************)
EXTENDS Naturals

CONSTANTS Ids, Delays, NoDeadline

VARIABLES left,    \* by task, the ticks that are left
          cancelled, \* the tasks that will not run
          fired    \* the tasks that ran in the last step

Init == /\ left = [i \in Ids |-> NoDeadline]
        /\ cancelled = {} /\ fired = {}

Known(i) == left[i] # NoDeadline

Add(i, n) == /\ ~Known(i)
             /\ left' = [left EXCEPT ![i] = n]
             /\ UNCHANGED cancelled /\ fired' = {}

Refresh(i, n) == /\ Known(i)
                 /\ left' = [left EXCEPT ![i] = n]
                 /\ UNCHANGED cancelled /\ fired' = {}

Cancel(i) == /\ Known(i)
             /\ cancelled' = cancelled \union {i}
             /\ UNCHANGED left /\ fired' = {}

Tick == LET due == {i \in Ids : left[i] = 1}
        IN  /\ left' = [i \in Ids |-> IF ~Known(i) \/ i \in due THEN NoDeadline
                                      ELSE left[i] - 1]
            /\ fired' = due \ cancelled
            /\ cancelled' = cancelled \ due

Other == fired' = {} /\ UNCHANGED <<left, cancelled>>

Next == \/ \E i \in Ids : Cancel(i) \/ \E n \in Delays : Add(i, n) \/ Refresh(i, n)
        \/ Tick \/ Other

Spec == Init /\ [][Next]_<<left, cancelled, fired>>
=============================================================================

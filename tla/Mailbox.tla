------------------------------- MODULE Mailbox -------------------------------
(***************************************************************************)
(* What EventLoop::RunTask promises (event_loop.h:30-32): a task given to  *)
(* the loop by another thread runs on the loop's thread, once, after all   *)
(* that were given before it; one the loop's own thread gives runs at once,*)
(* before what waits.                                                      *)
(***************************************************************************)
EXTENDS Sequences

CONSTANT Tasks

VARIABLES box,       \* what was given and has not run, oldest first
          executed   \* what has run, in order

Among(t, s) == \E i \in DOMAIN s : s[i] = t

Init == box = <<>> /\ executed = <<>>

Post(t) == /\ ~Among(t, box) /\ ~Among(t, executed)
           /\ box' = Append(box, t)
           /\ UNCHANGED executed

RunFirst == /\ box # <<>>
            /\ executed' = Append(executed, Head(box))
            /\ box' = Tail(box)

RunNow(t) == /\ ~Among(t, box) /\ ~Among(t, executed)
             /\ executed' = Append(executed, t)
             /\ UNCHANGED box

Next == RunFirst \/ \E t \in Tasks : Post(t) \/ RunNow(t)

Spec == Init /\ [][Next]_<<box, executed>>
=============================================================================

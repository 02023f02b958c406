----------------------------- MODULE LoopThread -----------------------------
(***************************************************************************)
(* LoopThread (loop_thread.cpp) around an EventLoop: the thread makes the  *)
(* loop on its stack, publishes its address, runs it and withdraws it; the *)
(* owner waits for the address, lets others post to the loop, and in the   *)
(* destructor stops it and joins the thread.                               *)
(*                                                                         *)
(* The members are initialised in the order loop_thread.h declares them,   *)
(* whatever the order of the initialiser list: the thread starts before    *)
(* _mutex, _cond_var and _exited are constructed.  Their construction is   *)
(* the owner's step OwnerConstruct, which a thread that is already using   *)
(* them does not notice: the mutex becomes free and nobody waits.  (That   *)
(* is undefined behaviour; this outcome is what zeroing the glibc objects  *)
(* gives.)  The mutex is therefore explicit.                               *)
(***************************************************************************)
EXTENDS EventLoop

VARIABLES
  tpc,       \* the thread: "make", "lock", "publish", "unlock", "loop",
             \* "relock", "withdraw", "reunlock", "destroy", "ended"
  published, \* _event_loop # nullptr
  exited,    \* _exited
  mutex,     \* who holds _mutex: "free", "thread", "owner"
  opc,       \* the owner: "construct", "lock", "check", "block", "wait",
             \* "have", "dlock", "dcheck", "dblock", "dwait", "stop", "write",
             \* "join", "gone"
  loopPtr    \* what GetEventLoop returned is not null

ltVars == <<tpc, published, exited, mutex, opc, loopPtr>>
vars == <<elVars, ltVars>>

Init ==
  /\ ELInit
  /\ tpc = "make" /\ published = FALSE /\ exited = FALSE
  /\ mutex = "free" /\ opc = "construct" /\ loopPtr = FALSE

-----------------------------------------------------------------------------
(* The thread. *)

(* EventLoop loop; *)
ThreadMake ==
  /\ tpc = "make"
  /\ tpc' = "lock"
  /\ UNCHANGED <<elVars, published, exited, mutex, opc, loopPtr>>

ThreadLock ==
  /\ tpc \in {"lock", "relock"} /\ mutex = "free"
  /\ mutex' = "thread"
  /\ tpc' = IF tpc = "lock" THEN "publish" ELSE "withdraw"
  /\ UNCHANGED <<elVars, published, exited, opc, loopPtr>>

(* notify_all() wakes the owner if it waits. *)
NotifyOwner ==
  opc' = IF opc = "wait" THEN "lock" ELSE IF opc = "dwait" THEN "dlock" ELSE opc

ThreadPublish ==
  /\ tpc = "publish"
  /\ published' = TRUE /\ NotifyOwner
  /\ tpc' = "unlock"
  /\ UNCHANGED <<elVars, exited, mutex, loopPtr>>

ThreadUnlock ==
  /\ tpc \in {"unlock", "reunlock"}
  /\ mutex' = "free"
  /\ tpc' = IF tpc = "unlock" THEN "loop" ELSE "destroy"
  /\ UNCHANGED <<elVars, published, exited, opc, loopPtr>>

(* loop.Start() and what it runs. *)
ThreadLoop == tpc = "loop" /\ LoopStep /\ UNCHANGED ltVars
ThreadLoopOther == tpc = "loop" /\ (LoopPollOther \/ LoopRunNow) /\ UNCHANGED ltVars

ThreadReturned ==
  /\ tpc = "loop" /\ lpc = "returned"
  /\ tpc' = "relock"
  /\ UNCHANGED <<elVars, published, exited, mutex, opc, loopPtr>>

ThreadWithdraw ==
  /\ tpc = "withdraw"
  /\ published' = FALSE /\ exited' = TRUE /\ NotifyOwner
  /\ tpc' = "reunlock"
  /\ UNCHANGED <<elVars, mutex, loopPtr>>

ThreadDestroy ==
  /\ tpc = "destroy"
  /\ tpc' = "ended"
  /\ UNCHANGED <<elVars, published, exited, mutex, opc, loopPtr>>

Thread == \/ ThreadMake \/ ThreadLock \/ ThreadPublish \/ ThreadUnlock \/ ThreadLoop
          \/ ThreadReturned \/ ThreadWithdraw \/ ThreadDestroy

-----------------------------------------------------------------------------
(* The owner: constructor, GetEventLoop, destructor. *)

OwnerConstruct ==
  /\ opc = "construct"
  /\ mutex' = "free" /\ exited' = FALSE
  /\ opc' = "lock"
  /\ UNCHANGED <<elVars, tpc, published, loopPtr>>

OwnerLock ==
  /\ opc \in {"lock", "dlock"} /\ mutex = "free"
  /\ mutex' = "owner"
  /\ opc' = IF opc = "lock" THEN "check" ELSE "dcheck"
  /\ UNCHANGED <<elVars, tpc, published, exited, loopPtr>>

(* The loop around wait: the test, and then the wait, under a mutex that    *)
(* may be shared with the thread by accident.                               *)
OwnerCheck ==
  /\ opc \in {"check", "dcheck"} /\ ~published /\ ~exited
  /\ opc' = IF opc = "check" THEN "block" ELSE "dblock"
  /\ UNCHANGED <<elVars, tpc, published, exited, mutex, loopPtr>>

OwnerWait ==
  /\ opc \in {"block", "dblock"}
  /\ mutex' = "free"
  /\ opc' = IF opc = "block" THEN "wait" ELSE "dwait"
  /\ UNCHANGED <<elVars, tpc, published, exited, loopPtr>>

OwnerGet ==
  /\ opc \in {"check", "dcheck"} /\ (published \/ exited)
  /\ loopPtr' = published
  /\ mutex' = "free"
  /\ opc' = IF opc = "check" THEN "have" ELSE IF published THEN "stop" ELSE "join"
  /\ UNCHANGED <<elVars, tpc, published, exited>>

(* A wait may end without a notify. *)
OwnerWakeUnasked ==
  /\ opc \in {"wait", "dwait"}
  /\ opc' = IF opc = "wait" THEN "lock" ELSE "dlock"
  /\ UNCHANGED <<elVars, tpc, published, exited, mutex, loopPtr>>

(* ~LoopThread begins when the threads that post have been joined: TcpServer *)
(* declares its business pool after its loop pool.                          *)
OwnerDestroy ==
  /\ opc = "have" /\ \A p \in Posters : ppc[p] = "idle"
  /\ opc' = "dlock"
  /\ UNCHANGED <<elVars, tpc, published, exited, mutex, loopPtr>>

OwnerStop ==
  /\ opc = "stop" /\ StopQuit
  /\ opc' = "write"
  /\ UNCHANGED <<tpc, published, exited, mutex, loopPtr>>

OwnerWrite ==
  /\ opc = "write" /\ StopWrite
  /\ opc' = "join"
  /\ UNCHANGED <<tpc, published, exited, mutex, loopPtr>>

OwnerJoin ==
  /\ opc = "join" /\ tpc = "ended"
  /\ opc' = "gone"
  /\ UNCHANGED <<elVars, tpc, published, exited, mutex, loopPtr>>

Owner == \/ OwnerConstruct \/ OwnerLock \/ OwnerCheck \/ OwnerWait \/ OwnerGet
         \/ OwnerStop \/ OwnerWrite \/ OwnerJoin

-----------------------------------------------------------------------------
(* The threads that were given the address. *)

PosterStart(p) == opc = "have" /\ loopPtr /\ PostBegin(p) /\ UNCHANGED ltVars
PosterStep(p) == (PostPush(p) \/ PostWrite(p)) /\ UNCHANGED ltVars

Next == \/ Thread \/ ThreadLoopOther
        \/ Owner \/ OwnerDestroy \/ OwnerWakeUnasked
        \/ \E p \in Posters : PosterStart(p) \/ PosterStep(p)

Spec == Init /\ [][Next]_vars

(* All threads are scheduled, and the mutex is not kept from a thread for   *)
(* ever.  No descriptor but the eventfd has to become ready, and no wait    *)
(* has to end unasked.                                                      *)
Fairness ==
  /\ WF_vars(Thread) /\ SF_vars(ThreadLock) /\ WF_vars(Owner) /\ SF_vars(OwnerLock)
  /\ \A p \in Posters : WF_vars(PosterStep(p))
FairSpec == Spec /\ Fairness

-----------------------------------------------------------------------------
(* Type invariant. *)
TypeOK ==
  /\ queue \in Seq(Tasks) /\ running \in Seq(Tasks) /\ executed \in Seq(Tasks)
  /\ efd \in BOOLEAN /\ quit \in BOOLEAN /\ active \in BOOLEAN
  /\ lpc \in {"made", "check", "poll", "handle", "swap", "run", "returned"}
  /\ ppc \in [Posters -> {"idle", "push", "write"}]
  /\ ptask \in [Posters -> Tasks \union {NoTask}]
  /\ \A p \in Posters : (ppc[p] = "push") <=> (ptask[p] # NoTask)
  /\ fresh \subseteq Tasks
  /\ tpc \in {"make", "lock", "publish", "unlock", "loop", "relock", "withdraw",
              "reunlock", "destroy", "ended"}
  /\ published \in BOOLEAN /\ exited \in BOOLEAN
  /\ mutex \in {"free", "thread", "owner"}
  /\ opc \in {"construct", "lock", "check", "block", "wait", "have", "dlock", "dcheck",
              "dblock", "dwait", "stop", "write", "join", "gone"}
  /\ loopPtr \in BOOLEAN

(* The loop never sleeps on a task: when it is in epoll_wait, or about to   *)
(* enter it, and the queue holds a task, the eventfd is readable or a       *)
(* poster is about to write it.                                             *)
NoLostWakeup ==
  lpc \in {"poll", "check"} /\ queue # <<>> =>
    efd \/ \E p \in Posters : ppc[p] = "write"

(* The address the owner and the posters hold is that of a live loop: the   *)
(* thread keeps it on its stack until the destructor calls Stop.            *)
PointerAlive ==
  loopPtr /\ opc \in {"have", "dlock", "dcheck", "dblock", "dwait", "stop"}
    => tpc \in {"unlock", "loop"}

(* Stop itself works on a live loop (event_loop.cpp:74-76: it wakes the     *)
(* loop's thread after telling it to quit).                                 *)
StopOnLiveLoop == opc = "write" => tpc # "ended"

(* Tasks run once, in the order they were queued, and what the loop's own   *)
(* thread gives runs at once.                                               *)
Box == INSTANCE Mailbox WITH box <- running \o queue
ImplementsMailbox == Box!Spec

(* A queued task runs, unless the loop is stopped first.                    *)
Holds(s, t) == \E i \in DOMAIN s : s[i] = t
TasksRun == \A t \in Tasks : Holds(queue, t) ~> (Holds(executed, t) \/ quit)

(* event_loop.h:42, "stops the event loop": once the destructor has a loop  *)
(* that is past the first line of Start, it stops it and returns.           *)
StopAfterStart == (opc = "stop" /\ lpc # "made") ~> (opc = "gone")

(* The same of a loop that was published (loop_thread.cpp:31-42). *)
DestructorReturns == (opc = "stop") ~> (opc = "gone")
=============================================================================

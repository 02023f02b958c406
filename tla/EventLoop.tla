------------------------------ MODULE EventLoop ------------------------------
(***************************************************************************)
(* EventLoop (event_loop.cpp): one thread waits in epoll, handles what is  *)
(* ready and runs the tasks other threads queued; AddTask queues under the *)
(* mutex and then writes the eventfd that ends the wait; Stop sets _quit   *)
(* and writes the eventfd.                                                 *)
(*                                                                         *)
(* A critical section of _queue_mutex is one step; the write to the        *)
(* eventfd comes after it and is another.  Only whether the eventfd's      *)
(* counter is zero matters: a read takes all of it.                        *)
(***************************************************************************)
EXTENDS Naturals, Sequences

CONSTANTS Posters,   \* other threads that call RunTask
          Tasks,     \* what they give, each once
          NoTask

ASSUME LoopAssumption == NoTask \notin Tasks

VARIABLES
  queue,     \* _tasks_queue
  efd,       \* the eventfd's counter is not zero
  quit,      \* _quit
  lpc,       \* the loop: "made", "check", "poll", "handle", "swap", "run", "returned"
  active,    \* the eventfd is among the channels of this turn
  running,   \* tasks of the swapped vector still to run
  executed,  \* history: the tasks run, in order
  ppc,       \* a poster: "idle", "push", "write"
  ptask,     \* the task it gives
  fresh      \* tasks not given yet

threadVars == <<lpc, active, running>>
posterVars == <<ppc, ptask>>
elVars == <<queue, efd, quit, threadVars, executed, posterVars, fresh>>

ELInit ==
  /\ queue = <<>> /\ efd = FALSE /\ quit = FALSE
  /\ lpc = "made" /\ active = FALSE /\ running = <<>> /\ executed = <<>>
  /\ ppc = [p \in Posters |-> "idle"] /\ ptask = [p \in Posters |-> NoTask]
  /\ fresh = Tasks

-----------------------------------------------------------------------------
(* RunTask from another thread, which is AddTask. *)

PostBegin(p) ==
  /\ ppc[p] = "idle"
  /\ \E t \in fresh : ptask' = [ptask EXCEPT ![p] = t] /\ fresh' = fresh \ {t}
  /\ ppc' = [ppc EXCEPT ![p] = "push"]
  /\ UNCHANGED <<queue, efd, quit, threadVars, executed>>

(* Mutation: the eventfd is not written. *)
PostPushSilent(p) ==
  /\ ppc[p] = "push"
  /\ queue' = Append(queue, ptask[p])
  /\ ptask' = [ptask EXCEPT ![p] = NoTask]
  /\ ppc' = [ppc EXCEPT ![p] = "idle"]
  /\ UNCHANGED <<efd, quit, threadVars, executed, fresh>>

PostPush(p) ==
  /\ ppc[p] = "push"
  /\ queue' = Append(queue, ptask[p])
  /\ ptask' = [ptask EXCEPT ![p] = NoTask]
  /\ ppc' = [ppc EXCEPT ![p] = "write"]
  /\ UNCHANGED <<efd, quit, threadVars, executed, fresh>>

PostWrite(p) ==
  /\ ppc[p] = "write"
  /\ efd' = TRUE
  /\ ppc' = [ppc EXCEPT ![p] = "idle"]
  /\ UNCHANGED <<queue, quit, threadVars, executed, ptask, fresh>>

-----------------------------------------------------------------------------
(* Start. *)

LoopStart ==
  /\ lpc = "made"
  /\ quit' = FALSE
  /\ lpc' = "check"
  /\ UNCHANGED <<queue, efd, active, running, executed, posterVars, fresh>>

LoopCheck ==
  /\ lpc = "check"
  /\ lpc' = IF quit THEN "returned" ELSE "poll"
  /\ UNCHANGED <<queue, efd, quit, active, running, executed, posterVars, fresh>>

(* epoll_wait returns: because of the eventfd, or of another descriptor or  *)
(* a signal, with the eventfd reported if it can be read.                   *)
Wake ==
  /\ lpc = "poll"
  /\ active' = efd
  /\ lpc' = "handle"
  /\ UNCHANGED <<queue, efd, quit, running, executed, posterVars, fresh>>
LoopPoll == efd /\ Wake
LoopPollOther == Wake

LoopHandle ==
  /\ lpc = "handle"
  /\ efd' = (efd /\ ~active)
  /\ active' = FALSE
  /\ lpc' = "swap"
  /\ UNCHANGED <<queue, quit, running, executed, posterVars, fresh>>

(* RunTask from the loop's own thread, in a handler or a task. *)
LoopRunNow ==
  /\ lpc \in {"handle", "run"}
  /\ \E t \in fresh : executed' = Append(executed, t) /\ fresh' = fresh \ {t}
  /\ UNCHANGED <<queue, efd, quit, threadVars, posterVars>>

(* Mutation: the vector is copied, not swapped. *)
LoopSwapCopy ==
  /\ lpc = "swap"
  /\ running' = queue
  /\ lpc' = "run"
  /\ UNCHANGED <<queue, efd, quit, active, executed, posterVars, fresh>>

LoopSwap ==
  /\ lpc = "swap"
  /\ running' = queue /\ queue' = <<>>
  /\ lpc' = "run"
  /\ UNCHANGED <<efd, quit, active, executed, posterVars, fresh>>

LoopRun ==
  /\ lpc = "run" /\ running # <<>>
  /\ executed' = Append(executed, Head(running))
  /\ running' = Tail(running)
  /\ UNCHANGED <<queue, efd, quit, lpc, active, posterVars, fresh>>

(* Mutation: the eventfd is emptied after the tasks. *)
LoopTurnDrains ==
  /\ lpc = "run" /\ running = <<>>
  /\ efd' = FALSE
  /\ lpc' = "check"
  /\ UNCHANGED <<queue, quit, active, running, executed, posterVars, fresh>>

(* Mutation: the loop makes one turn. *)
LoopTurnOnce ==
  /\ lpc = "run" /\ running = <<>>
  /\ lpc' = "returned"
  /\ UNCHANGED <<queue, efd, quit, active, running, executed, posterVars, fresh>>

LoopTurn ==
  /\ lpc = "run" /\ running = <<>>
  /\ lpc' = "check"
  /\ UNCHANGED <<queue, efd, quit, active, running, executed, posterVars, fresh>>

LoopStep == LoopStart \/ LoopCheck \/ LoopPoll \/ LoopHandle \/ LoopSwap \/ LoopRun \/ LoopTurn

-----------------------------------------------------------------------------
(* Stop, from another thread. *)

StopQuit ==
  /\ quit' = TRUE
  /\ UNCHANGED <<queue, efd, threadVars, executed, posterVars, fresh>>

(* Mutation: Stop does not wake the loop. *)
StopSilent == UNCHANGED elVars

StopWrite ==
  /\ efd' = TRUE
  /\ UNCHANGED <<queue, quit, threadVars, executed, posterVars, fresh>>
=============================================================================

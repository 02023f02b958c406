--------------------------- MODULE ConnectionProofs ---------------------------
(***************************************************************************)
(* What TLAPS proves of Connection for every number of segments and jobs,  *)
(* with and without the inactivity timer.                                  *)
(***************************************************************************)
EXTENDS Connection, FiniteSetTheorems, SequenceTheorems, TLAPS

-----------------------------------------------------------------------------
(* Sequences and tasks. *)

(* A batch that epoll returns is a sequence of its active channels. *)
LEMMA BatchType ==
  ASSUME NEW active \in SUBSET {"conn", "timer"}, NEW b \in SetToSeqs(active)
  PROVE  b \in Seq({"conn", "timer"})
<1>1. IsFiniteSet(active) /\ Cardinality(active) \in Nat
  <2>1. IsFiniteSet({"conn", "timer"})
    <3>1. IsFiniteSet({"conn"})
      BY FS_Singleton
    <3>2. IsFiniteSet({"conn"} \union {"timer"})
      BY <3>1, FS_AddElement
    <3> QED BY <3>2, {"conn", "timer"} = {"conn"} \union {"timer"}
  <2> QED BY <2>1, FS_Subset, FS_CardinalityType
<1>2. b \in [1..Cardinality(active) -> {"conn", "timer"}]
  BY DEF SetToSeqs
<1> QED BY <1>1, <1>2, IsASeq

(* The two parts of a sequence are sequences. *)
LEMMA Parted ==
  ASSUME NEW s \in Seq(Nat), NEW n \in 1..Len(s)
  PROVE  SubSeq(s, 1, n) \in Seq(Nat) /\ SubSeq(s, n + 1, Len(s)) \in Seq(Nat)
<1>1. Len(s) \in Nat /\ n \in Int /\ 1 \in Int /\ n + 1 \in Int /\ Len(s) \in Int /\ 1 <= n /\ n <= Len(s)
  BY LenProperties
<1>2. \A i \in 1..Len(s) : s[i] \in Nat
  BY ElementOfSeq
<1>3. \A i \in 1..n : s[i] \in Nat
  BY <1>1, <1>2
<1>4. \A i \in n + 1..Len(s) : s[i] \in Nat
  BY <1>1, <1>2
<1>5. SubSeq(s, 1, n) \in Seq(Nat)
  BY <1>1, <1>3, SubSeqProperties
<1>6. SubSeq(s, n + 1, Len(s)) \in Seq(Nat)
  BY <1>1, <1>4, SubSeqProperties
<1> QED BY <1>5, <1>6

(* The tasks the program posts are tasks. *)
LEMMA TaskTypes ==
  /\ \A op \in Ops : Simple(op) \in Tasks
  /\ \A n \in 0..MaxSegs : SendTask(n) \in Tasks
  /\ \A d \in Dones : DoneTask(d) \in Tasks
BY ConnectionAssumption DEF Simple, SendTask, DoneTask, Task, Tasks, Ops, Dones

-----------------------------------------------------------------------------
(* Type correctness. *)

(* The connection's own operations, which handlers and tasks share. *)
ConnType == 
  /\ state \in {"CONNECTING", "CONNECTED", "DISCONNECTING", "DISCONNECTED"}
  /\ events \subseteq {"IN", "OUT"} /\ poller \subseteq {"fd", "-1"}
  /\ timer \in {"none", "active", "cancelled"}
  /\ jobs \in Seq(Dones) /\ erasing \in BOOLEAN /\ closed \in Nat

LEMMA OperationTypes ==
  ASSUME ConnType
  PROVE  /\ Stay => ConnType'
         /\ \A t \in {"none", "active", "cancelled"} : ReleaseOpen(t) => ConnType'
         /\ Release => ConnType'
         /\ ReleaseAfterInput => ConnType'
         /\ FinishClose => ConnType'
         /\ CloseConn => ConnType'
         /\ \A d \in Dones : SubmitJob(d) /\ UNCHANGED state => ConnType'
<1> USE DEF ConnType, Stay, connVars, channelVars, endVars
<1>1. Stay => ConnType'
  OBVIOUS
<1>2. \A t \in {"none", "active", "cancelled"} : ReleaseOpen(t) => ConnType'
  BY DEF ReleaseOpen
<1>3. Release => ConnType'
  BY <1>1, <1>2 DEF Release
<1>4. \A d \in Dones : SubmitJob(d) /\ state' \in {"CONNECTING", "CONNECTED", "DISCONNECTING", "DISCONNECTED"} => ConnType'
  BY DEF SubmitJob, DisableRead, SetEvents
<1>5. ReleaseAfterInput => ConnType'
  BY <1>3, <1>4 DEF ReleaseAfterInput, Dones
<1>6. FinishClose => ConnType'
  BY <1>1, <1>3 DEF FinishClose, EnableWrite, SetEvents
<1>7. CloseConn => ConnType'
  BY <1>1, <1>2, <1>4 DEF CloseConn, EnableWrite, SetEvents, Dones
<1> QED BY <1>1, <1>2, <1>3, <1>4, <1>5, <1>6, <1>7

(* A response is made for a segment that ends a request: without this the   *)
(* branches of WorkerRespond do not cover every kind.                       *)
Answering == wpc = "respond" => resp \in 1..Len(sent) /\ sent[resp] # "more"

LEMMA AnsweringStep == TypeOK /\ Answering /\ [Next]_vars => Answering'
<1> SUFFICES ASSUME TypeOK, Answering, [Next]_vars PROVE Answering'
  OBVIOUS
<1> USE DEF Answering, TypeOK
<1>1. CASE PeerSend
  BY <1>1 DEF PeerSend, workerVars
<1>2. CASE WorkerParse
  BY <1>2 DEF WorkerParse, WorkerFrame, peerVars
<1>3. CASE UNCHANGED <<sent, resp>> /\ (wpc' = wpc \/ wpc' # "respond")
  BY <1>3
<1>4. WorkerPop \/ WorkerRespond \/ WorkerClear \/ WorkerClose \/ WorkerFinish
        => UNCHANGED <<sent, resp>> /\ wpc' # "respond"
  <2>1. WorkerPop \/ WorkerClear => UNCHANGED <<sent, resp>> /\ wpc' # "respond"
    BY DEF WorkerPop, WorkerClear, WorkerFrame, peerVars
  <2>2. WorkerRespond => UNCHANGED <<sent, resp>> /\ wpc' # "respond"
    BY DEF WorkerRespond, WorkerFrame, peerVars, Kinds
  <2>3. WorkerClose \/ WorkerFinish => UNCHANGED <<sent, resp>> /\ wpc' # "respond"
    BY DEF WorkerClose, WorkerFinish, WorkerFrame, peerVars
  <2> QED BY <2>1, <2>2, <2>3
<1>5. PeerFin \/ PeerReset \/ Poll \/ HandleConn \/ HandleTimer \/ SwapTasks \/ RunTask \/ TasksDone
         \/ Base \/ UNCHANGED vars => UNCHANGED <<sent, resp, wpc>>
  BY DEF PeerFin, PeerReset, Poll, PollWith, HandleTimer, SwapTasks, TasksDone, HandleConn, HandleClose,
         HandleReadData, HandleReadEnd, HandleWriteEmpty, HandleWriteSome, HandleWriteAgain,
         HandleWriteFails, HandleFreed, Handling, RunTask, RunSetInactive, RunEstablished, RunSend,
         RunClose, RunDone, Running, Base, AcceptSetInactive, AcceptEstablish, Erase, vars, peerVars, workerVars
<1> QED BY <1>1, <1>2, <1>3, <1>4, <1>5 DEF Next, Loop, AfterPoll, Worker

LEMMA TypeInit == Init => TypeOK /\ Answering
<1> SUFFICES ASSUME Init PROVE TypeOK
  BY DEF Init, Answering
<1>1. sent \in Seq(Kinds) /\ Len(sent) <= MaxSegs
  BY ConnectionAssumption DEF Init
<1>2. /\ out \in Seq(Nat) /\ delivered \in Seq(Nat)
      /\ batch \in Seq({"conn", "timer"})
      /\ running \in Seq(Tasks) /\ tasks \in Seq(Tasks) /\ jobs \in Seq(Dones)
  BY DEF Init
<1>3. taken <= got /\ got <= Len(sent) /\ resp \in 0..Len(sent)
  BY DEF Init
<1>4. fin \in BOOLEAN /\ rst \in BOOLEAN /\ table \in BOOLEAN /\ erasing \in BOOLEAN /\ expired \in BOOLEAN
  BY DEF Init
<1>5. /\ state \in {"CONNECTING", "CONNECTED", "DISCONNECTING", "DISCONNECTED"}
      /\ events \subseteq {"IN", "OUT"} /\ poller \subseteq {"fd", "-1"}
      /\ taken \in Nat /\ got \in Nat /\ closed \in Nat
      /\ timer \in {"none", "active", "cancelled"}
      /\ lpc \in {"poll", "batch", "tasks", "aborted"} /\ revents \subseteq {"IN", "OUT", "HUP"}
      /\ cur \in Dones /\ wpc \in {"idle", "parse", "respond", "clear", "close", "finish"}
      /\ bpc \in {"accepted", "establish", "done"}
  BY DEF Init, Dones
<1> QED BY <1>1, <1>2, <1>3, <1>4, <1>5 DEF TypeOK

LEMMA TypeStep == TypeOK /\ Answering /\ [Next]_vars => TypeOK'
<1> SUFFICES ASSUME TypeOK, Answering, [Next]_vars PROVE TypeOK'
  OBVIOUS
<1> USE DEF peerVars, bufferVars, outVars, loopVars, workerVars, baseVars
<1>c. ConnType
  BY DEF TypeOK, ConnType
<1>d. \A op \in Ops : Simple(op) \in Tasks
  BY TaskTypes
<1>1. CASE PeerSend
  <2>1. /\ sent' \in Seq(Kinds) /\ Len(sent') = Len(sent) + 1 /\ Len(sent') <= MaxSegs
        /\ UNCHANGED <<fin, rst, connVars, bufferVars, outVars, loopVars, tasks, workerVars, baseVars, expired>>
    BY <1>1, ConnectionAssumption DEF PeerSend, TypeOK
  <2>2. got <= Len(sent') /\ resp \in 0..Len(sent')
    BY <2>1 DEF TypeOK
  <2> QED BY <2>1, <2>2 DEF TypeOK, connVars, channelVars, endVars
<1>2. CASE PeerFin
  BY <1>2 DEF PeerFin, TypeOK, connVars, channelVars, endVars
<1>3. CASE PeerReset
  BY <1>3 DEF PeerReset, TypeOK, connVars, channelVars, endVars
<1>4. CASE Poll
  <2> PICK due \in SUBSET {"timer"} : PollWith(due)
    BY <1>4 DEF Poll
  <2>1. batch' \in Seq({"conn", "timer"})
    BY BatchType DEF PollWith
  <2>2. revents' \subseteq {"IN", "OUT", "HUP"}
    BY DEF PollWith, Ready, TypeOK
  <2> QED BY <2>1, <2>2 DEF PollWith, TypeOK, connVars, channelVars, endVars
<1>5. CASE HandleConn
  <2>1. CASE HandleClose
    <3>1. ConnType' BY <2>1, <1>c, OperationTypes DEF HandleClose
    <3> QED BY <2>1, <3>1 DEF HandleClose, Handling, TypeOK, ConnType
  <2>2. CASE HandleReadData
    <3>1. ConnType' BY <2>2, <1>c, OperationTypes DEF HandleReadData, Dones
    <3> QED BY <2>2, <3>1 DEF HandleReadData, Handling, TypeOK, ConnType
  <2>3. CASE HandleReadEnd
    <3>1. ConnType' BY <2>3, <1>c, OperationTypes DEF HandleReadEnd
    <3> QED BY <2>3, <3>1 DEF HandleReadEnd, Handling, TypeOK, ConnType
  <2>4. CASE HandleWriteEmpty
    <3>1. ConnType'
      BY <2>4, <1>c, OperationTypes
      DEF HandleWriteEmpty, DisableWrite, SetEvents, ConnType, endVars
    <3> QED BY <2>4, <3>1 DEF HandleWriteEmpty, Handling, TypeOK, ConnType
  <2>5. CASE HandleWriteSome
    <3>1. ConnType' BY <2>5, <1>c, OperationTypes DEF HandleWriteSome
    <3>2. out' \in Seq(Nat) /\ delivered' \in Seq(Nat)
      <4>1. PICK n \in 1..Len(out) : /\ delivered' = delivered \o SubSeq(out, 1, n)
                                     /\ out' = SubSeq(out, n + 1, Len(out))
        BY <2>5 DEF HandleWriteSome
      <4>2. out \in Seq(Nat) /\ delivered \in Seq(Nat)
        BY DEF TypeOK
      <4>3. SubSeq(out, 1, n) \in Seq(Nat) /\ SubSeq(out, n + 1, Len(out)) \in Seq(Nat)
        BY <4>2, Parted
      <4> QED BY <4>1, <4>2, <4>3, ConcatProperties
    <3>3. batch' = Tail(batch) /\ batch # <<>>
          /\ UNCHANGED <<peerVars, taken, revents, running, tasks, workerVars, baseVars, got, lpc, expired>>
      BY <2>5 DEF HandleWriteSome, Handling
    <3> QED BY <3>1, <3>2, <3>3 DEF TypeOK, ConnType
  <2>6. CASE HandleWriteAgain
    <3>1. ConnType' BY <2>6, <1>c, OperationTypes DEF HandleWriteAgain
    <3> QED BY <2>6, <3>1 DEF HandleWriteAgain, Handling, TypeOK, ConnType
  <2>7. CASE HandleWriteFails
    <3>1. ConnType' BY <2>7, <1>c, OperationTypes DEF HandleWriteFails
    <3> QED BY <2>7, <3>1 DEF HandleWriteFails, Handling, TypeOK, ConnType
  <2>8. CASE HandleFreed
    <3>1. ConnType' BY <2>8, <1>c, OperationTypes DEF HandleFreed
    <3> QED BY <2>8, <3>1 DEF HandleFreed, Handling, TypeOK, ConnType
  <2> QED BY <1>5, <2>1, <2>2, <2>3, <2>4, <2>5, <2>6, <2>7, <2>8 DEF HandleConn
<1>6. CASE HandleTimer
  <2>1. ConnType'
    BY <1>6, <1>c, OperationTypes DEF HandleTimer, ConnType, channelVars, endVars
  <2> QED BY <1>6, <2>1 DEF HandleTimer, Handling, TypeOK, ConnType
<1>7. CASE SwapTasks
  BY <1>7 DEF SwapTasks, TypeOK, connVars, channelVars, endVars
<1>8. CASE RunTask
  <2> USE DEF Running
  <2>1. CASE RunSetInactive
    <3>1. ConnType'
      BY <2>1, <1>c DEF RunSetInactive, ConnType, channelVars, endVars
    <3> QED BY <2>1, <3>1 DEF RunSetInactive, TypeOK, ConnType
  <2>2. CASE RunEstablished
    <3>1. ConnType'
      BY <2>2, <1>c, OperationTypes
      DEF RunEstablished, EnableRead, SetEvents, ConnType, endVars
    <3> QED BY <2>2, <3>1 DEF RunEstablished, TypeOK, ConnType
  <2>3. CASE RunSend
    <3>1. ConnType'
      BY <2>3, <1>c, OperationTypes
      DEF RunSend, EnableWrite, SetEvents, ConnType, channelVars, endVars
    <3>2. out' \in Seq(Nat) /\ delivered' \in Seq(Nat)
      <4>1. running # <<>> /\ running \in Seq(Tasks)
        BY <2>3 DEF RunSend, TypeOK
      <4>2. Head(running) \in Tasks
        BY <4>1, HeadTailProperties
      <4>3. Head(running).n \in Nat
        BY <4>2, ConnectionAssumption DEF Tasks
      <4>4. UNCHANGED outVars \/ (out' = Append(out, Head(running).n) /\ UNCHANGED delivered)
        BY <2>3 DEF RunSend
      <4>5. out \in Seq(Nat) /\ delivered \in Seq(Nat)
        BY DEF TypeOK
      <4>6. Append(out, Head(running).n) \in Seq(Nat)
        BY <4>3, <4>5, AppendProperties
      <4> QED BY <4>4, <4>5, <4>6 DEF outVars
    <3>3. running' = Tail(running) /\ running # <<>>
          /\ UNCHANGED <<peerVars, bufferVars, batch, revents, tasks, workerVars, baseVars, expired, lpc>>
      BY <2>3 DEF RunSend
    <3> QED BY <3>1, <3>2, <3>3 DEF TypeOK, ConnType
  <2>4. CASE RunClose
    <3>1. ConnType' BY <2>4, <1>c, OperationTypes DEF RunClose
    <3> QED BY <2>4, <3>1 DEF RunClose, TypeOK, ConnType
  <2>5. CASE RunDone
    <3>1. ConnType'
      BY <2>5, <1>c, OperationTypes
      DEF RunDone, EnableRead, SetEvents, ConnType, endVars
    <3> QED BY <2>5, <3>1 DEF RunDone, TypeOK, ConnType
  <2> QED BY <1>8, <2>1, <2>2, <2>3, <2>4, <2>5 DEF RunTask
<1>9. CASE TasksDone
  BY <1>9 DEF TasksDone, TypeOK, connVars, channelVars, endVars
<1>10. CASE Worker
  <2> USE DEF WorkerFrame, TypeOK, channelVars, endVars
  <2>1. CASE WorkerPop
    BY <2>1 DEF WorkerPop
  <2>2. CASE WorkerParse
    BY <2>2 DEF WorkerParse
  <2>3. CASE WorkerRespond
    <3>1. SendTask(resp) \in Tasks
      <4>1. resp \in 0..MaxSegs
        BY ConnectionAssumption
      <4> QED BY <4>1, TaskTypes
    <3>2. wpc' \in {"parse", "clear", "close"}
      BY <2>3 DEF WorkerRespond, Answering, Kinds
    <3>3. tasks' \in Seq(Tasks)
      BY <2>3, <3>1, AppendProperties DEF WorkerRespond
    <3>4. UNCHANGED <<taken, jobs, cur, resp, peerVars, state, channelVars, got, outVars, timer, endVars,
                      loopVars, baseVars, expired>>
      BY <2>3 DEF WorkerRespond
    <3> QED BY <3>2, <3>3, <3>4
  <2>4. CASE WorkerClear
    BY <2>4 DEF WorkerClear
  <2>5. CASE WorkerClose
    BY <2>5, <1>d DEF WorkerClose, Ops
  <2>6. CASE WorkerFinish
    BY <2>6, TaskTypes DEF WorkerFinish
  <2> QED BY <1>10, <2>1, <2>2, <2>3, <2>4, <2>5, <2>6 DEF Worker
<1>11. CASE Base
  <2> USE DEF TypeOK, connVars, channelVars, endVars
  <2>1. CASE AcceptSetInactive
    BY <2>1, <1>d DEF AcceptSetInactive, Ops
  <2>2. CASE AcceptEstablish
    BY <2>2, <1>d DEF AcceptEstablish, Ops
  <2>3. CASE Erase
    <3>1. /\ table' \in BOOLEAN
          /\ UNCHANGED <<peerVars, connVars, bufferVars, outVars, loopVars, tasks, workerVars, bpc, expired>>
      BY <2>3 DEF Erase
    <3> QED BY <3>1
  <2> QED BY <1>11, <2>1, <2>2, <2>3 DEF Base
<1>12. CASE UNCHANGED vars
  BY <1>12 DEF vars, TypeOK, connVars, channelVars, endVars
<1> QED
  BY <1>1, <1>2, <1>3, <1>4, <1>5, <1>6, <1>7, <1>8, <1>9, <1>10, <1>11, <1>12
  DEF Next, Loop, AfterPoll

(* Every variable keeps its type; in particular taken <= got <= Len(sent):  *)
(* no job consumes more than was read, no read more than was sent.          *)
THEOREM TypeCorrect == Spec => []TypeOK
BY TypeInit, TypeStep, AnsweringStep, PTL DEF Spec

-----------------------------------------------------------------------------
(* What a step does to the sub loop's queue.                                *)

HandlesEvent == HandleConn \/ HandleTimer
Posts(t) == tasks' = Append(tasks, t) /\ UNCHANGED running

LEMMA HandlersLeaveQueue ==
  HandlesEvent => lpc = "batch" /\ batch # <<>> /\ UNCHANGED <<running, tasks, workerVars, baseVars>>
BY DEF HandlesEvent, HandleConn, HandleClose, HandleReadData, HandleReadEnd, HandleWriteEmpty,
       HandleWriteSome, HandleWriteAgain, HandleWriteFails, HandleFreed, HandleTimer, Handling

LEMMA TasksLeaveQueue ==
  RunTask => /\ lpc = "tasks" /\ running # <<>> /\ running' = Tail(running)
             /\ UNCHANGED <<tasks, batch, workerVars, baseVars>>
BY DEF RunTask, RunSetInactive, RunEstablished, RunSend, RunClose, RunDone, Running

LEMMA WorkerPosts ==
  ASSUME TypeOK, Worker
  PROVE  /\ wpc # "idle" \/ jobs # <<>>
         /\ \/ UNCHANGED <<tasks, running>>
            \/ \E t \in Tasks : t.op \in {"send", "close", "done"} /\ Posts(t)
<1> USE DEF WorkerFrame, loopVars, Posts
<1>1. CASE WorkerPop
  BY <1>1 DEF WorkerPop
<1>2. CASE WorkerParse
  BY <1>2 DEF WorkerParse
<1>3. CASE WorkerRespond
  <2>1. resp \in 0..MaxSegs
    BY ConnectionAssumption DEF TypeOK
  <2>2. SendTask(resp) \in Tasks /\ SendTask(resp).op = "send"
    BY <2>1, TaskTypes DEF SendTask, Task
  <2> QED BY <1>3, <2>2 DEF WorkerRespond
<1>4. CASE WorkerClear
  BY <1>4 DEF WorkerClear
<1>5. CASE WorkerClose
  <2>1. Simple("close") \in Tasks /\ Simple("close").op = "close"
    BY TaskTypes DEF Simple, Task, Ops
  <2> QED BY <1>5, <2>1 DEF WorkerClose
<1>6. CASE WorkerFinish
  <2>1. DoneTask(cur) \in Tasks /\ DoneTask(cur).op = "done"
    BY TaskTypes DEF DoneTask, Task, TypeOK
  <2> QED BY <1>6, <2>1 DEF WorkerFinish
<1> QED BY <1>1, <1>2, <1>3, <1>4, <1>5, <1>6 DEF Worker

-----------------------------------------------------------------------------
(* Until the loop has run the first task the accept callback posts, nothing *)
(* but that callback leads to the connection: it is in no poller, no timer, *)
(* no worker's queue.  After that task no other of its kind comes.  So the  *)
(* inactivity timer is never set on a connection that was released.         *)

SetTask == Simple("setinactive")
UpTask  == Simple("established")
NoSetTask(q) == \A i \in 1..Len(q) : q[i].op # "setinactive"

Starting ==
  \/ bpc = "accepted" /\ running = <<>> /\ tasks = <<>>
  \/ bpc = "establish" /\ \/ running = <<>> /\ tasks = <<SetTask>>
                          \/ running = <<SetTask>> /\ tasks = <<>>
  \/ bpc = "done" /\ \/ running = <<>> /\ tasks = <<SetTask, UpTask>>
                     \/ running = <<SetTask>> /\ tasks = <<UpTask>>
                     \/ running = <<SetTask, UpTask>> /\ tasks = <<>>
Quiet == /\ state = "CONNECTING" /\ poller = {} /\ timer = "none"
         /\ jobs = <<>> /\ wpc = "idle" /\ batch = <<>>
         /\ running # <<>> => lpc = "tasks"
Started == bpc # "accepted" /\ NoSetTask(tasks) /\ NoSetTask(running)
Startup == (Starting /\ Quiet) \/ Started

LEMMA ShortQueues ==
  ASSUME NEW a, NEW b
  PROVE  Append(<<>>, b) = <<b>> /\ Append(<<a>>, b) = <<a, b>>
<1>1. <<>> \in Seq({a, b}) /\ <<a>> \in Seq({a, b}) /\ Len(<<a>>) = 1
  OBVIOUS
<1>2. /\ Append(<<>>, b) \in Seq({a, b}) /\ Len(Append(<<>>, b)) = 1 /\ Append(<<>>, b)[1] = b
      /\ Append(<<a>>, b) \in Seq({a, b}) /\ Len(Append(<<a>>, b)) = 2
      /\ Append(<<a>>, b)[1] = a /\ Append(<<a>>, b)[2] = b
  BY <1>1, AppendProperties
<1>3. <<b>> \in Seq({a, b}) /\ <<a, b>> \in Seq({a, b})
  OBVIOUS
<1>4. Append(<<>>, b) = <<b>>
  <2>1. Len(Append(<<>>, b)) = Len(<<b>>)
    BY <1>2
  <2>2. \A i \in 1..Len(Append(<<>>, b)) : Append(<<>>, b)[i] = <<b>>[i]
    BY <1>2
  <2> QED BY <1>2, <1>3, <2>1, <2>2, SeqEqual
<1>5. Append(<<a>>, b) = <<a, b>>
  <2>1. Len(Append(<<a>>, b)) = Len(<<a, b>>)
    BY <1>2
  <2>2. \A i \in 1..Len(Append(<<a>>, b)) : Append(<<a>>, b)[i] = <<a, b>>[i]
    <3>1. \A i \in 1..2 : i = 1 \/ i = 2
      OBVIOUS
    <3> QED BY <1>2, <3>1
  <2> QED BY <1>2, <1>3, <2>1, <2>2, SeqEqual
<1> QED BY <1>4, <1>5

LEMMA NoSetTaskKept ==
  ASSUME NEW q \in Seq(Tasks), NoSetTask(q)
  PROVE  /\ q # <<>> => NoSetTask(Tail(q)) /\ Head(q).op # "setinactive"
         /\ \A t \in Tasks : t.op # "setinactive" => NoSetTask(Append(q, t))
<1>1. q # <<>> => NoSetTask(Tail(q)) /\ Head(q).op # "setinactive"
  BY HeadTailProperties DEF NoSetTask
<1>2. \A t \in Tasks : t.op # "setinactive" => NoSetTask(Append(q, t))
  BY AppendProperties DEF NoSetTask
<1> QED BY <1>1, <1>2

LEMMA StartedKept ==
  ASSUME TypeOK, Started, [Next]_vars
  PROVE  Started'
<1> USE DEF Started
<1>0. tasks \in Seq(Tasks) /\ running \in Seq(Tasks)
  BY DEF TypeOK
<1>1. CASE bpc' # "accepted" /\ UNCHANGED <<tasks, running>>
  BY <1>1
<1>2. PeerSend \/ PeerFin \/ PeerReset \/ Poll \/ TasksDone \/ Erase \/ UNCHANGED vars
         => UNCHANGED <<bpc, tasks, running>>
  BY DEF PeerSend, PeerFin, PeerReset, Poll, PollWith, TasksDone, Erase, vars, loopVars, baseVars
<1>3. HandlesEvent => UNCHANGED <<bpc, tasks, running>>
  BY HandlersLeaveQueue DEF baseVars
<1>4. CASE SwapTasks
  BY <1>4 DEF SwapTasks, NoSetTask, baseVars
<1>5. CASE RunTask
  BY <1>0, <1>5, TasksLeaveQueue, NoSetTaskKept DEF baseVars
<1>6. CASE Worker
  <2>1. UNCHANGED bpc
    BY <1>6 DEF Worker, WorkerPop, WorkerParse, WorkerRespond, WorkerClear, WorkerClose, WorkerFinish,
                WorkerFrame, baseVars
  <2>2. CASE UNCHANGED <<tasks, running>>
    BY <2>1, <2>2
  <2>3. CASE \E t \in Tasks : t.op \in {"send", "close", "done"} /\ Posts(t)
    BY <1>0, <2>1, <2>3, NoSetTaskKept DEF Posts
  <2> QED BY <1>6, <2>2, <2>3, WorkerPosts
<1>7. CASE AcceptEstablish
  <2>1. UpTask \in Tasks /\ UpTask.op = "established"
    BY TaskTypes DEF UpTask, Simple, Task, Ops
  <2> QED BY <1>0, <1>7, <2>1, NoSetTaskKept DEF AcceptEstablish, UpTask, loopVars
<1>8. ~AcceptSetInactive
  BY DEF AcceptSetInactive
<1> QED
  BY <1>1, <1>2, <1>3, <1>4, <1>5, <1>6, <1>7, <1>8
  DEF Next, Loop, AfterPoll, HandlesEvent, Base

LEMMA StartingKept ==
  ASSUME TypeOK, Starting, Quiet, [Next]_vars
  PROVE  Startup'
<1> USE DEF Startup, Quiet
<1>0. SetTask.op = "setinactive" /\ UpTask.op = "established"
  BY DEF SetTask, UpTask, Simple, Task
<1>1. PeerSend \/ PeerFin \/ PeerReset \/ UNCHANGED vars => Startup'
  BY DEF PeerSend, PeerFin, PeerReset, vars, connVars, channelVars, loopVars, workerVars, baseVars, Starting
<1>2. CASE Poll
  <2> PICK due \in SUBSET {"timer"} : PollWith(due)
    BY <1>2 DEF Poll
  <2>1. due = {} /\ Ready = {}
    BY DEF PollWith, Ready
  <2>2. batch' \in SetToSeqs({})
    BY <2>1 DEF PollWith
  <2>3. Cardinality({}) = 0
    BY FS_EmptySet
  <2>4. batch' \in [1..0 -> {}]
    BY <2>2, <2>3 DEF SetToSeqs
  <2>5. batch' = <<>>
    BY <2>4, batch' \in Seq({}), IsASeq, LenProperties, EmptySeq
  <2> QED BY <2>5 DEF PollWith, Starting, connVars, channelVars, workerVars, baseVars
<1>3. ~HandlesEvent
  BY HandlersLeaveQueue
<1>4. CASE SwapTasks
  BY <1>4 DEF SwapTasks, Starting, connVars, channelVars, workerVars, baseVars
<1>5. CASE TasksDone
  BY <1>5 DEF TasksDone, Starting, connVars, channelVars, workerVars, baseVars
<1>6. CASE RunTask
  <2>1. Started'
    BY <1>0, <1>6, TasksLeaveQueue DEF Starting, Started, NoSetTask, baseVars
  <2> QED BY <2>1
<1>7. ~Worker
  BY WorkerPosts
<1>8. CASE Base
  <2> USE DEF Starting, connVars, channelVars, loopVars, workerVars
  <2>1. CASE AcceptSetInactive
    <3>1. tasks' = <<SetTask>>
      BY <2>1 DEF AcceptSetInactive, SetTask
    <3> QED BY <2>1, <3>1 DEF AcceptSetInactive
  <2>2. CASE AcceptEstablish
    <3>1. tasks' = Append(tasks, UpTask)
      BY <2>2 DEF AcceptEstablish, UpTask
    <3>a. Append(<<>>, UpTask) = <<UpTask>> /\ Append(<<SetTask>>, UpTask) = <<SetTask, UpTask>>
      BY ShortQueues
    <3>b. \/ running = <<>> /\ tasks = <<SetTask>>
          \/ running = <<SetTask>> /\ tasks = <<>>
      BY <2>2 DEF AcceptEstablish
    <3>2. \/ running = <<>> /\ tasks' = <<SetTask, UpTask>>
          \/ running = <<SetTask>> /\ tasks' = <<UpTask>>
      BY <3>1, <3>a, <3>b
    <3>3. /\ bpc' = "done"
          /\ UNCHANGED <<connVars, loopVars, workerVars>>
      BY <2>2 DEF AcceptEstablish
    <3>4. Starting'
      BY <3>2, <3>3
    <3> QED BY <3>3, <3>4
  <2>3. CASE Erase
    BY <2>3 DEF Erase
  <2> QED BY <1>8, <2>1, <2>2, <2>3 DEF Base
<1> QED BY <1>1, <1>2, <1>3, <1>4, <1>5, <1>6, <1>7, <1>8 DEF Next, Loop, AfterPoll, HandlesEvent

LEMMA StartupInit == Init => Startup
BY DEF Init, Startup, Starting, Quiet

LEMMA StartupStep == TypeOK /\ Startup /\ [Next]_vars => Startup'
BY StartingKept, StartedKept DEF Startup

-----------------------------------------------------------------------------
(* The release happens once. *)

(* What the connection's own operations do to it. *)
LEMMA OperationsReleaseOnce ==
  ASSUME ConnType, ReleasedOnce, UNCHANGED table
  PROVE  /\ Stay => ReleasedOnce'
         /\ \A t \in {"none", "active", "cancelled"} : Open /\ ReleaseOpen(t) => ReleasedOnce'
         /\ Release => ReleasedOnce'
         /\ ReleaseAfterInput => ReleasedOnce'
         /\ FinishClose => ReleasedOnce'
         /\ CloseConn => ReleasedOnce'
         /\ \A d \in Dones : SubmitJob(d) /\ UNCHANGED state => ReleasedOnce'
<1> USE DEF ConnType, ReleasedOnce, Open, Stay, connVars, channelVars, endVars
<1>1. Stay => ReleasedOnce'
  OBVIOUS
<1>2. \A t \in {"none", "active", "cancelled"} : Open /\ ReleaseOpen(t) => ReleasedOnce'
  BY DEF ReleaseOpen
<1>3. Release => ReleasedOnce'
  BY <1>1, <1>2 DEF Release
<1>4. \A d \in Dones : SubmitJob(d) /\ (Open <=> Open') => ReleasedOnce'
  BY DEF SubmitJob, DisableRead, SetEvents
<1>5. ReleaseAfterInput => ReleasedOnce'
  BY <1>3, <1>4 DEF ReleaseAfterInput, Dones
<1>6. FinishClose => ReleasedOnce'
  BY <1>1, <1>3 DEF FinishClose, EnableWrite, SetEvents
<1>7. CloseConn => ReleasedOnce'
  BY <1>1, <1>2, <1>4 DEF CloseConn, EnableWrite, SetEvents, Dones
<1> QED BY <1>1, <1>2, <1>3, <1>4, <1>5, <1>6, <1>7

LEMMA ReleasedOnceStep ==
  TypeOK /\ Startup /\ ReleasedOnce /\ [Next]_vars => ReleasedOnce'
<1> SUFFICES ASSUME TypeOK, Startup, ReleasedOnce, [Next]_vars PROVE ReleasedOnce'
  OBVIOUS
<1>c. ConnType
  BY DEF TypeOK, ConnType
<1>1. CASE UNCHANGED <<state, closed, table, erasing, poller, timer>>
  BY <1>1 DEF ReleasedOnce, Open
<1>2. PeerSend \/ PeerFin \/ PeerReset \/ Poll \/ SwapTasks \/ TasksDone \/ Worker
         \/ AcceptSetInactive \/ AcceptEstablish \/ UNCHANGED vars
         => UNCHANGED <<state, closed, table, erasing, poller, timer>>
  BY DEF PeerSend, PeerFin, PeerReset, Poll, PollWith, SwapTasks, TasksDone, Worker, WorkerPop,
         WorkerParse, WorkerRespond, WorkerClear, WorkerClose, WorkerFinish, WorkerFrame,
         AcceptSetInactive, AcceptEstablish, vars, connVars, channelVars, endVars, baseVars
<1>3. CASE HandleConn
  <2>1. UNCHANGED table
    BY <1>3, HandlersLeaveQueue DEF HandlesEvent, baseVars
  <2>2. CASE HandleWriteEmpty
    BY <1>c, <2>1, <2>2, OperationsReleaseOnce
    DEF HandleWriteEmpty, Open, DisableWrite, SetEvents, ReleasedOnce, ConnType, endVars
  <2>3. CASE HandleReadData
    BY <1>c, <2>1, <2>3, OperationsReleaseOnce DEF HandleReadData, Dones
  <2>4. HandleClose \/ HandleReadEnd \/ HandleWriteSome \/ HandleWriteAgain \/ HandleWriteFails
          \/ HandleFreed => Stay \/ ReleaseAfterInput \/ CloseConn
    BY DEF HandleClose, HandleReadEnd, HandleWriteSome, HandleWriteAgain, HandleWriteFails, HandleFreed
  <2> QED BY <1>c, <1>3, <2>1, <2>2, <2>3, <2>4, OperationsReleaseOnce DEF HandleConn
<1>4. CASE HandleTimer
  <2>1. UNCHANGED table
    BY <1>4, HandlersLeaveQueue DEF HandlesEvent, baseVars
  <2>2. CASE Open /\ ReleaseOpen("none")
    BY <1>c, <2>1, <2>2, OperationsReleaseOnce
  <2> QED BY <1>4, <2>1, <2>2 DEF HandleTimer, ReleasedOnce, Open, channelVars, endVars
<1>5. CASE RunTask
  <2>1. UNCHANGED table
    BY <1>5, TasksLeaveQueue DEF baseVars
  <2>2. CASE RunSetInactive
    <3>1. Open
      <4>1. running # <<>> /\ Head(running).op = "setinactive" /\ running \in Seq(Tasks)
        BY <2>2 DEF RunSetInactive, Running, TypeOK
      <4>2. ~Started
        BY <4>1, NoSetTaskKept DEF Started
      <4> QED BY <4>2 DEF Startup, Quiet, Open
    <3> QED BY <2>1, <2>2, <3>1 DEF RunSetInactive, ReleasedOnce, Open, channelVars, endVars
  <2>3. CASE RunEstablished
    BY <1>c, <2>1, <2>3, OperationsReleaseOnce
    DEF RunEstablished, EnableRead, SetEvents, ReleasedOnce, Open, endVars
  <2>4. CASE RunSend
    BY <1>c, <2>1, <2>4, OperationsReleaseOnce
    DEF RunSend, EnableWrite, SetEvents, ReleasedOnce, Open, channelVars, endVars
  <2>5. CASE RunClose
    BY <1>c, <2>1, <2>5, OperationsReleaseOnce DEF RunClose
  <2>6. CASE RunDone
    BY <1>c, <2>1, <2>6, OperationsReleaseOnce
    DEF RunDone, EnableRead, SetEvents, ReleasedOnce, Open, endVars
  <2> QED BY <1>5, <2>2, <2>3, <2>4, <2>5, <2>6 DEF RunTask
<1>6. CASE Erase
  BY <1>6 DEF Erase, ReleasedOnce, Open, connVars, channelVars, endVars
<1> QED BY <1>1, <1>2, <1>3, <1>4, <1>5, <1>6 DEF Next, Loop, AfterPoll, Base

(* Whoever asks for the release, and however often, the user's callback is  *)
(* called once, the server's table lets go only after it, and no poller or  *)
(* armed timer leads to a released connection.                              *)
THEOREM ReleaseHappensOnce == Spec => []ReleasedOnce
<1>1. Init => ReleasedOnce
  BY DEF Init, ReleasedOnce, Open
<1> QED
  BY <1>1, TypeInit, TypeStep, AnsweringStep, StartupInit, StartupStep, ReleasedOnceStep, PTL DEF Spec

-----------------------------------------------------------------------------
(* Work: a job that is queued, the message callback that runs, the done     *)
(* task that ends it.                                                       *)

Idle == jobs = <<>> /\ wpc = "idle" /\ ~Holding(tasks) /\ ~Holding(running)
HeldOnce(q) == \A i, j \in DOMAIN q : q[i].op = "done" /\ q[j].op = "done" => i = j
Finishing(q) == \E i \in DOMAIN q : q[i].op = "done" /\ q[i].done = "finish"

(* There is at most one piece of work.                                      *)
OneJob ==
  /\ Len(jobs) <= 1 /\ (jobs # <<>> => wpc = "idle")
  /\ jobs # <<>> \/ wpc # "idle" => ~Holding(tasks) /\ ~Holding(running)
  /\ Holding(tasks) => ~Holding(running)
  /\ HeldOnce(tasks) /\ HeldOnce(running)

InBatch == \E i \in DOMAIN batch : batch[i] = "conn"

Unwatched == state = "CONNECTING" => Idle /\ events = {} /\ poller = {} /\ revents = {}
WatchedIdle == ~rst /\ "IN" \in events => Idle
OneWhileConnected == ~rst /\ state = "CONNECTED" => OneJob
BatchIdle == lpc = "batch" /\ InBatch /\ "IN" \in revents => Idle
ResetSeen == "HUP" \in revents => rst
OnceInBatch == \A i, j \in DOMAIN batch : batch[i] = "conn" /\ batch[j] = "conn" => i = j
FinishesClosing ==
  state \in {"CONNECTING", "CONNECTED"} =>
    /\ \A i \in DOMAIN jobs : jobs[i] # "finish"
    /\ wpc # "idle" => cur # "finish"
    /\ ~Finishing(tasks) /\ ~Finishing(running)
RunningDone == lpc \in {"poll", "batch"} => running = <<>>

WorkInv == /\ Unwatched /\ WatchedIdle /\ OneWhileConnected /\ BatchIdle
           /\ ResetSeen /\ OnceInBatch /\ FinishesClosing /\ RunningDone

LEMMA WorkPosted ==
  ASSUME NEW q \in Seq(Tasks), NEW t \in Tasks
  PROVE  /\ Holding(Append(q, t)) <=> Holding(q) \/ t.op = "done"
         /\ HeldOnce(q) /\ (t.op # "done" \/ ~Holding(q)) => HeldOnce(Append(q, t))
         /\ Finishing(Append(q, t)) => Finishing(q) \/ (t.op = "done" /\ t.done = "finish")
<1>1. /\ \A i \in 1..Len(q) : Append(q, t)[i] = q[i]
      /\ Append(q, t)[Len(q) + 1] = t
      /\ Append(q, t) \in Seq(Tasks) /\ Len(Append(q, t)) = Len(q) + 1
  BY AppendProperties
<1>2. DOMAIN q = 1..Len(q) /\ DOMAIN Append(q, t) = 1..(Len(q) + 1) /\ Len(q) \in Nat
  BY <1>1, LenProperties
<1>3. /\ \A i \in DOMAIN Append(q, t) : (i = Len(q) + 1 /\ Append(q, t)[i] = t) \/ (i \in DOMAIN q /\ Append(q, t)[i] = q[i])
      /\ \A i \in DOMAIN q : i \in DOMAIN Append(q, t) /\ Append(q, t)[i] = q[i]
      /\ Len(q) + 1 \in DOMAIN Append(q, t)
  BY <1>1, <1>2
<1>4. Holding(Append(q, t)) <=> Holding(q) \/ t.op = "done"
  BY <1>1, <1>3 DEF Holding
<1>5. HeldOnce(q) /\ (t.op # "done" \/ ~Holding(q)) => HeldOnce(Append(q, t))
  BY <1>3 DEF HeldOnce, Holding
<1>6. Finishing(Append(q, t)) => Finishing(q) \/ (t.op = "done" /\ t.done = "finish")
  BY <1>3 DEF Finishing
<1> QED BY <1>4, <1>5, <1>6

LEMMA WorkTaken ==
  ASSUME NEW q \in Seq(Tasks), q # <<>>
  PROVE  /\ Holding(q) <=> Head(q).op = "done" \/ Holding(Tail(q))
         /\ HeldOnce(q) => HeldOnce(Tail(q)) /\ (Head(q).op = "done" => ~Holding(Tail(q)))
         /\ Finishing(Tail(q)) => Finishing(q)
         /\ Head(q).op = "done" /\ Head(q).done = "finish" => Finishing(q)
<1>1. /\ Tail(q) \in Seq(Tasks) /\ Len(Tail(q)) = Len(q) - 1 /\ Head(q) = q[1]
      /\ \A j \in 1..Len(Tail(q)) : Tail(q)[j] = q[j + 1]
  BY HeadTailProperties
<1>2. DOMAIN q = 1..Len(q) /\ DOMAIN Tail(q) = 1..Len(Tail(q)) /\ Len(q) \in Nat \ {0}
  BY <1>1, LenProperties, EmptySeq
<1>3. /\ 1 \in DOMAIN q /\ \A j \in DOMAIN Tail(q) : j + 1 \in DOMAIN q /\ j + 1 # 1 /\ Tail(q)[j] = q[j + 1]
      /\ \A i \in DOMAIN q : i = 1 \/ (i - 1 \in DOMAIN Tail(q) /\ Tail(q)[i - 1] = q[i])
      /\ \A i, j \in DOMAIN Tail(q) : i + 1 = j + 1 => i = j
  <2>1. 1 \in DOMAIN q /\ \A j \in DOMAIN Tail(q) : j + 1 \in DOMAIN q /\ j + 1 # 1 /\ Tail(q)[j] = q[j + 1]
    BY <1>1, <1>2
  <2>2. ASSUME NEW i \in DOMAIN q, i # 1 PROVE i - 1 \in DOMAIN Tail(q) /\ Tail(q)[i - 1] = q[i]
    <3>1. i - 1 \in DOMAIN Tail(q) /\ (i - 1) + 1 = i
      BY <1>1, <1>2, <2>2
    <3> QED BY <2>1, <3>1
  <2> QED BY <1>2, <2>1, <2>2
<1>4. Holding(q) <=> Head(q).op = "done" \/ Holding(Tail(q))
  <2>1. ASSUME Holding(q) PROVE Head(q).op = "done" \/ Holding(Tail(q))
    <3>1. PICK i \in DOMAIN q : q[i].op = "done"
      BY <2>1 DEF Holding
    <3>2. i = 1 \/ (i - 1 \in DOMAIN Tail(q) /\ Tail(q)[i - 1].op = "done")
      BY <1>3, <3>1
    <3> QED BY <1>1, <3>1, <3>2 DEF Holding
  <2>2. Head(q).op = "done" => Holding(q)
    BY <1>1, <1>3 DEF Holding
  <2>3. ASSUME NEW j \in DOMAIN Tail(q), Tail(q)[j].op = "done" PROVE Holding(q)
    BY <1>3, <2>3 DEF Holding
  <2> QED BY <2>1, <2>2, <2>3 DEF Holding
<1>5. HeldOnce(q) => HeldOnce(Tail(q)) /\ (Head(q).op = "done" => ~Holding(Tail(q)))
  <2>1. HeldOnce(q) => HeldOnce(Tail(q))
    BY <1>3 DEF HeldOnce
  <2>2. ASSUME HeldOnce(q), Head(q).op = "done", NEW j \in DOMAIN Tail(q), Tail(q)[j].op = "done" PROVE FALSE
    <3>1. j + 1 = 1
      BY <1>1, <1>3, <2>2 DEF HeldOnce
    <3> QED BY <1>3, <3>1
  <2> QED BY <2>1, <2>2 DEF Holding
<1>6. Finishing(Tail(q)) => Finishing(q)
  BY <1>3 DEF Finishing
<1>7. Head(q).op = "done" /\ Head(q).done = "finish" => Finishing(q)
  BY <1>1, <1>3 DEF Finishing
<1> QED BY <1>4, <1>5, <1>6, <1>7

LEMMA NothingHeld == ~Holding(<<>>) /\ HeldOnce(<<>>) /\ ~Finishing(<<>>)
  BY DEF Holding, HeldOnce, Finishing

(* The connection in a batch, of which the first is handled. *)
LEMMA BatchTaken ==
  ASSUME batch \in Seq({"conn", "timer"}), batch # <<>>, OnceInBatch, batch' = Tail(batch)
  PROVE  OnceInBatch' /\ (InBatch' => InBatch) /\ (Head(batch) = "conn" => InBatch /\ ~InBatch')
<1>1. /\ Tail(batch) \in Seq({"conn", "timer"}) /\ Len(Tail(batch)) = Len(batch) - 1 /\ Head(batch) = batch[1]
      /\ \A j \in 1..Len(Tail(batch)) : Tail(batch)[j] = batch[j + 1]
  BY HeadTailProperties
<1>2. DOMAIN batch = 1..Len(batch) /\ DOMAIN Tail(batch) = 1..Len(Tail(batch)) /\ Len(batch) \in Nat \ {0}
  BY <1>1, LenProperties, EmptySeq
<1>3. /\ 1 \in DOMAIN batch
      /\ \A j \in DOMAIN Tail(batch) : j + 1 \in DOMAIN batch /\ j + 1 # 1 /\ Tail(batch)[j] = batch[j + 1]
      /\ \A i, j \in DOMAIN Tail(batch) : i + 1 = j + 1 => i = j
  BY <1>1, <1>2
<1>4. \A i, j \in DOMAIN Tail(batch) : Tail(batch)[i] = "conn" /\ Tail(batch)[j] = "conn" => i = j
  BY <1>3 DEF OnceInBatch
<1>5. (\E i \in DOMAIN Tail(batch) : Tail(batch)[i] = "conn") => InBatch
  BY <1>3 DEF InBatch
<1>6. Head(batch) = "conn" => InBatch /\ ~\E i \in DOMAIN Tail(batch) : Tail(batch)[i] = "conn"
  BY <1>1, <1>3 DEF InBatch, OnceInBatch
<1> QED BY <1>4, <1>5, <1>6 DEF OnceInBatch, InBatch
-----------------------------------------------------------------------------
(* An operation leaves the jobs, and does not switch reading on, or gives   *)
(* one and switches it off.                                                 *)
Kept ==
  /\ jobs' = jobs /\ ("IN" \in events' => "IN" \in events) /\ state' # "CONNECTING"
  /\ state' = "CONNECTED" => state = "CONNECTED" /\ ("IN" \in events => "IN" \in events')
Given(d) ==
  /\ jobs' = Append(jobs, d) /\ "IN" \notin events' /\ state' # "CONNECTING"
  /\ state' = "CONNECTED" => state = "CONNECTED" /\ d # "finish"

LEMMA OperationEffects ==
  ASSUME ConnType
  PROVE  /\ \A t \in {"none", "active", "cancelled"} : ReleaseOpen(t) => Kept
         /\ state # "CONNECTING" =>
              /\ Stay => Kept
              /\ Release => Kept
              /\ FinishClose => Kept
              /\ ReleaseAfterInput => Kept \/ Given("release")
         /\ CloseConn => Kept \/ (Given("finish") /\ state' = "DISCONNECTING")
<1> USE DEF ConnType, Kept, Given, Stay, connVars, channelVars, endVars
<1>1. \A t \in {"none", "active", "cancelled"} : ReleaseOpen(t) => Kept
  BY DEF ReleaseOpen
<1>2. state # "CONNECTING" => (Stay => Kept)
  OBVIOUS
<1>3. state # "CONNECTING" => (Release => Kept)
  BY <1>1, <1>2 DEF Release
<1>4. state # "CONNECTING" => (FinishClose => Kept)
  BY <1>2, <1>3 DEF FinishClose, EnableWrite, SetEvents
<1>5. state # "CONNECTING" => (ReleaseAfterInput => Kept \/ Given("release"))
  <2>1. SubmitJob("release") /\ UNCHANGED state /\ state # "CONNECTING" => Given("release")
    BY DEF SubmitJob, DisableRead, SetEvents
  <2> QED BY <1>3, <2>1 DEF ReleaseAfterInput
<1>6. CloseConn => Kept \/ (Given("finish") /\ state' = "DISCONNECTING")
  <2>1. CASE state \in {"DISCONNECTED", "DISCONNECTING"} /\ Stay
    BY <2>1
  <2>2. CASE SubmitJob("finish") /\ state' = "DISCONNECTING"
    BY <2>2 DEF SubmitJob, DisableRead, SetEvents
  <2>3. CASE EnableWrite /\ state' = "DISCONNECTING" /\ UNCHANGED <<timer, jobs, endVars>>
    BY <2>3 DEF EnableWrite, SetEvents
  <2>4. CASE ReleaseOpen(timer)
    BY <1>1, <2>4
  <2> QED BY <2>1, <2>2, <2>3, <2>4 DEF CloseConn
<1> QED BY <1>1, <1>2, <1>3, <1>4, <1>5, <1>6

(* A handler gives a job when there is none, after a reset, or on a         *)
(* connection it closes.                                                    *)
LEMMA HandlerEffects ==
  ASSUME TypeOK, ReleasedOnce, WorkInv, HandleConn
  PROVE  Kept \/ \E d \in Dones : Given(d) /\ (Idle \/ rst \/ state' # "CONNECTED")
<1>c. ConnType
  BY DEF TypeOK, ConnType
<1>0. Handling("conn") /\ lpc = "batch" /\ batch # <<>> /\ Head(batch) = "conn"
  BY DEF HandleConn, HandleClose, HandleReadData, HandleReadEnd, HandleWriteEmpty, HandleWriteSome,
         HandleWriteAgain, HandleWriteFails, HandleFreed, Handling
<1>b. InBatch
  <2>1. batch[1] = "conn" /\ 1 \in DOMAIN batch
    BY <1>0 DEF TypeOK
  <2> QED BY <2>1 DEF InBatch
<1>u. revents # {} => state # "CONNECTING"
  BY DEF WorkInv, Unwatched
<1>1. CASE HandleClose
  <2>1. rst /\ state # "CONNECTING"
    BY <1>1, <1>u DEF HandleClose, WorkInv, ResetSeen
  <2> QED BY <1>c, <1>1, <2>1, OperationEffects DEF HandleClose, Dones
<1>2. CASE HandleReadData
  <2>1. Idle /\ state # "CONNECTING"
    BY <1>0, <1>2, <1>b, <1>u DEF HandleReadData, WorkInv, BatchIdle
  <2>2. Given("resume")
    BY <1>2, <2>1 DEF HandleReadData, SubmitJob, DisableRead, SetEvents, Given
  <2> QED BY <2>1, <2>2 DEF Dones
<1>3. CASE HandleReadEnd
  BY <1>c, <1>3, OperationEffects DEF HandleReadEnd, Dones
<1>4. CASE HandleWriteEmpty
  <2>1. state # "CONNECTING"
    BY <1>4, <1>u DEF HandleWriteEmpty
  <2>2. DisableWrite /\ UNCHANGED <<state, timer, jobs, endVars>> => Kept
    BY <2>1 DEF DisableWrite, SetEvents, Kept
  <2>3. ReleaseOpen(timer) => Kept
    BY <1>c, OperationEffects DEF ConnType
  <2> QED BY <1>4, <2>2, <2>3 DEF HandleWriteEmpty
<1>5. CASE HandleWriteSome \/ HandleWriteAgain
  <2>1. Stay /\ state # "CONNECTING"
    BY <1>5, <1>u DEF HandleWriteSome, HandleWriteAgain
  <2> QED BY <1>c, <2>1, OperationEffects
<1>6. CASE HandleWriteFails
  <2>1. ReleaseAfterInput /\ state # "CONNECTING" /\ (rst \/ state = "DISCONNECTED")
    BY <1>6, <1>u DEF HandleWriteFails, Open
  <2>2. state = "DISCONNECTED" /\ Given("release") => state' # "CONNECTED"
    BY DEF Given
  <2> QED BY <1>c, <2>1, <2>2, OperationEffects DEF Dones
<1>7. CASE HandleFreed
  <2>1. state # "CONNECTING" => Kept
    BY <1>c, <1>7, OperationEffects DEF HandleFreed
  <2>2. state # "CONNECTING"
    BY <1>7 DEF HandleFreed, Freed, ReleasedOnce, Open
  <2> QED BY <2>1, <2>2
<1> QED BY <1>1, <1>2, <1>3, <1>4, <1>5, <1>6, <1>7 DEF HandleConn
(* Each step keeps the invariant and leaves no connection deaf.             *)
Work == WorkInv /\ ReadsResume

LEMMA HandlersKeepWork ==
  ASSUME TypeOK, ReleasedOnce, Work, HandleConn
  PROVE  Work'
<1>0. /\ batch # <<>> /\ Head(batch) = "conn" /\ batch' = Tail(batch) /\ lpc = "batch"
      /\ lpc' \in {"batch", "aborted"}
      /\ UNCHANGED <<rst, revents, running, tasks, wpc, cur>>
  BY DEF HandleConn, HandleClose, HandleReadData, HandleReadEnd, HandleWriteEmpty, HandleWriteSome,
         HandleWriteAgain, HandleWriteFails, HandleFreed, Handling, peerVars, workerVars
<1>1. OnceInBatch' /\ ~InBatch'
  BY <1>0, BatchTaken DEF TypeOK, Work, WorkInv
<1>2. Kept \/ \E d \in Dones : Given(d) /\ (Idle \/ rst \/ state' # "CONNECTED")
  BY HandlerEffects DEF Work
<1>3. jobs \in Seq(Dones)
  BY DEF TypeOK
<1>4. Unwatched' /\ BatchIdle' /\ ResetSeen' /\ RunningDone'
  <2>1. state' # "CONNECTING"
    BY <1>2 DEF Kept, Given
  <2>2. RunningDone'
    BY <1>0 DEF Work, WorkInv, RunningDone
  <2> QED BY <1>0, <1>1, <2>1, <2>2 DEF Unwatched, BatchIdle, ResetSeen, Work, WorkInv
<1>5. CASE Kept
  <2>1. Idle' <=> Idle
    BY <1>0, <1>5 DEF Idle, Kept
  <2>2. WatchedIdle'
    BY <1>0, <1>5, <2>1 DEF WatchedIdle, Kept, Work, WorkInv
  <2>3. OneWhileConnected'
    BY <1>0, <1>5 DEF OneWhileConnected, OneJob, Kept, Work, WorkInv
  <2>4. FinishesClosing'
    BY <1>0, <1>5 DEF FinishesClosing, Kept, Work, WorkInv
  <2>5. ReadsResume'
    BY <1>0, <1>5 DEF ReadsResume, Kept, Work
  <2> QED BY <1>1, <1>4, <2>2, <2>3, <2>4, <2>5 DEF Work, WorkInv
<1>6. CASE \E d \in Dones : Given(d) /\ (Idle \/ rst \/ state' # "CONNECTED")
  <2> PICK d \in Dones : Given(d) /\ (Idle \/ rst \/ state' # "CONNECTED")
    BY <1>6
  <2>1. /\ jobs' = Append(jobs, d) /\ "IN" \notin events'
        /\ state' = "CONNECTED" => state = "CONNECTED" /\ d # "finish"
        /\ state' # "CONNECTING"
    BY DEF Given
  <2>2. /\ Append(jobs, d) # <<>> /\ (jobs = <<>> => Len(Append(jobs, d)) = 1)
        /\ \A i \in DOMAIN Append(jobs, d) : Append(jobs, d)[i] = d \/ (i \in DOMAIN jobs /\ Append(jobs, d)[i] = jobs[i])
    BY <1>3, AppendProperties
  <2>3. WatchedIdle' /\ ReadsResume'
    BY <2>1, <2>2 DEF WatchedIdle, ReadsResume
  <2>4. OneWhileConnected'
    <3>1. Idle => OneJob'
      <4>1. ASSUME Idle PROVE /\ Len(jobs') <= 1 /\ wpc' = "idle" /\ ~Holding(tasks)' /\ ~Holding(running)'
        BY <1>0, <2>1, <2>2, <4>1 DEF Idle
      <4>2. ASSUME Idle PROVE HeldOnce(tasks)' /\ HeldOnce(running)'
        BY <1>0, <4>2 DEF Idle, Holding, HeldOnce
      <4> QED BY <4>1, <4>2 DEF OneJob
    <3> QED BY <1>0, <2>1, <3>1 DEF OneWhileConnected
  <2>5. FinishesClosing'
    <3>1. ASSUME state' = "CONNECTED" PROVE \A i \in DOMAIN jobs' : jobs'[i] # "finish"
      BY <2>1, <2>2, <3>1 DEF Work, WorkInv, FinishesClosing
    <3>2. ASSUME state' = "CONNECTED" PROVE (wpc' # "idle" => cur' # "finish") /\ ~Finishing(tasks)' /\ ~Finishing(running)'
      BY <1>0, <2>1, <3>2 DEF Work, WorkInv, FinishesClosing
    <3> QED BY <2>1, <3>1, <3>2 DEF FinishesClosing
  <2> QED BY <1>1, <1>4, <2>3, <2>4, <2>5 DEF Work, WorkInv
<1> QED BY <1>2, <1>5, <1>6

LEMMA TimerKeepsWork ==
  ASSUME TypeOK, Work, HandleTimer
  PROVE  Work'
<1>0. /\ batch # <<>> /\ batch' = Tail(batch) /\ lpc = "batch" /\ lpc' = lpc
      /\ UNCHANGED <<rst, revents, running, tasks, wpc, cur>>
  BY DEF HandleTimer, Handling, peerVars, workerVars
<1>1. OnceInBatch' /\ (InBatch' => InBatch)
  BY <1>0, BatchTaken DEF TypeOK, Work, WorkInv
<1>2. /\ jobs' = jobs /\ (Idle' <=> Idle)
      /\ \/ state' = "DISCONNECTED" /\ events' = {}
         \/ UNCHANGED <<state, events, poller>>
  BY <1>0 DEF HandleTimer, ReleaseOpen, channelVars, Idle
<1>3. Unwatched' /\ WatchedIdle' /\ BatchIdle' /\ ResetSeen' /\ RunningDone'
  <2>1. Unwatched'
    BY <1>0, <1>2 DEF Work, WorkInv, Unwatched
  <2>2. WatchedIdle'
    BY <1>0, <1>2 DEF Work, WorkInv, WatchedIdle
  <2>3. BatchIdle' /\ ResetSeen' /\ RunningDone'
    BY <1>0, <1>1, <1>2 DEF Work, WorkInv, BatchIdle, ResetSeen, RunningDone
  <2> QED BY <2>1, <2>2, <2>3
<1>4. OneWhileConnected'
  BY <1>0, <1>2 DEF Work, WorkInv, OneWhileConnected, OneJob
<1>5. FinishesClosing' /\ ReadsResume'
  BY <1>0, <1>2 DEF Work, WorkInv, FinishesClosing, ReadsResume
<1> QED BY <1>1, <1>3, <1>4, <1>5 DEF Work, WorkInv

LEMMA PollKeepsWork ==
  ASSUME TypeOK, Work, Poll
  PROVE  Work'
<1> PICK due \in SUBSET {"timer"} : PollWith(due)
  BY DEF Poll
<1>0. /\ lpc = "poll" /\ lpc' = "batch" /\ revents' = Ready
      /\ batch' \in SetToSeqs(due \union (IF Ready # {} THEN {"conn"} ELSE {}))
      /\ UNCHANGED <<rst, state, events, poller, jobs, running, tasks, wpc, cur>>
  BY DEF PollWith, peerVars, connVars, channelVars, workerVars
<1>1. Idle' <=> Idle
  BY <1>0 DEF Idle
<1>2. OnceInBatch'
  <2>1. \A i, j \in DOMAIN batch' : i # j => batch'[i] # batch'[j]
    BY <1>0 DEF SetToSeqs
  <2> QED BY <2>1 DEF OnceInBatch
<1>3. Unwatched' /\ ResetSeen'
  <2>1. poller = {} => Ready = {}
    BY DEF Ready
  <2>2. "HUP" \in Ready => rst
    <3>1. "HUP" \notin {e \in events : e = "OUT" \/ Unread \/ fin}
      BY DEF TypeOK
    <3> QED BY <3>1 DEF Ready
  <2>3. Unwatched'
    BY <1>0, <1>1, <2>1 DEF Work, WorkInv, Unwatched
  <2> QED BY <1>0, <2>2, <2>3 DEF ResetSeen
<1>4. WatchedIdle' /\ BatchIdle'
  <2>1. "IN" \in Ready => ~rst /\ "IN" \in events
    BY DEF Ready
  <2> QED BY <1>0, <1>1, <2>1 DEF Work, WorkInv, WatchedIdle, BatchIdle
<1>5. OneWhileConnected'
  BY <1>0 DEF Work, WorkInv, OneWhileConnected, OneJob
<1>6. FinishesClosing' /\ ReadsResume' /\ RunningDone'
  BY <1>0 DEF Work, WorkInv, FinishesClosing, ReadsResume, RunningDone
<1> QED BY <1>2, <1>3, <1>4, <1>5, <1>6 DEF Work, WorkInv
LEMMA SwapKeepsWork ==
  ASSUME TypeOK, Work, SwapTasks
  PROVE  Work'
<1>0. /\ lpc = "batch" /\ running = <<>> /\ running' = tasks /\ tasks' = <<>> /\ lpc' = "tasks"
      /\ UNCHANGED <<rst, state, events, poller, jobs, batch, revents, wpc, cur>>
  BY DEF SwapTasks, peerVars, connVars, channelVars, workerVars, Work, WorkInv, RunningDone
<1>1. /\ ~Holding(running) /\ HeldOnce(running) /\ ~Finishing(running)
      /\ ~Holding(tasks)' /\ HeldOnce(tasks)' /\ ~Finishing(tasks)'
  BY <1>0, NothingHeld
<1>2. /\ Holding(running)' <=> Holding(tasks)
      /\ HeldOnce(running)' <=> HeldOnce(tasks)
      /\ Finishing(running)' <=> Finishing(tasks)
  BY <1>0
<1>3. (Idle' <=> Idle) /\ (OneJob => OneJob')
  BY <1>0, <1>1, <1>2 DEF Idle, OneJob
<1>4. Unwatched' /\ WatchedIdle' /\ BatchIdle' /\ ResetSeen' /\ RunningDone'
  BY <1>0, <1>3 DEF Work, WorkInv, Unwatched, WatchedIdle, BatchIdle, ResetSeen, RunningDone
<1>5. OneWhileConnected' /\ OnceInBatch'
  BY <1>0, <1>3 DEF Work, WorkInv, OneWhileConnected, OnceInBatch
<1>6. FinishesClosing' /\ ReadsResume'
  BY <1>0, <1>1, <1>2 DEF Work, WorkInv, FinishesClosing, ReadsResume
<1> QED BY <1>4, <1>5, <1>6 DEF Work, WorkInv

LEMMA TasksKeepWork ==
  ASSUME TypeOK, Work, RunTask
  PROVE  Work'
<1>c. ConnType
  BY DEF TypeOK, ConnType
<1>0. /\ running \in Seq(Tasks) /\ running # <<>> /\ running' = Tail(running)
      /\ lpc = "tasks" /\ lpc' \in {"tasks", "aborted"}
      /\ UNCHANGED <<rst, batch, revents, tasks, wpc, cur>>
  BY DEF TypeOK, RunTask, RunSetInactive, RunEstablished, RunSend, RunClose, RunDone, Running,
         peerVars, workerVars
<1>1. BatchIdle' /\ ResetSeen' /\ OnceInBatch' /\ RunningDone'
  BY <1>0 DEF Work, WorkInv, BatchIdle, ResetSeen, OnceInBatch, RunningDone
<1>2. /\ Holding(running) <=> Head(running).op = "done" \/ Holding(running)'
      /\ HeldOnce(running) => HeldOnce(running)' /\ (Head(running).op = "done" => ~Holding(running)')
      /\ Finishing(running)' => Finishing(running)
      /\ Head(running).op = "done" /\ Head(running).done = "finish" => Finishing(running)
  <2>1. /\ Holding(running) <=> Head(running).op = "done" \/ Holding(Tail(running))
        /\ HeldOnce(running) => HeldOnce(Tail(running)) /\ (Head(running).op = "done" => ~Holding(Tail(running)))
        /\ Finishing(Tail(running)) => Finishing(running)
        /\ Head(running).op = "done" /\ Head(running).done = "finish" => Finishing(running)
    BY <1>0, WorkTaken
  <2> QED BY <1>0, <2>1
<1>w. WorkInv /\ ReadsResume
  BY DEF Work
<1>3. CASE Head(running).op # "done" /\ jobs' = jobs /\ UNCHANGED <<state, events, poller>>
  <2>1. (Idle' <=> Idle) /\ (OneJob => OneJob')
    BY <1>0, <1>2, <1>3 DEF Idle, OneJob
  <2>2. Unwatched' /\ WatchedIdle' /\ OneWhileConnected'
    BY <1>0, <1>3, <1>w, <2>1 DEF WorkInv, Unwatched, WatchedIdle, OneWhileConnected
  <2>3. FinishesClosing' /\ ReadsResume'
    BY <1>0, <1>2, <1>3, <1>w DEF WorkInv, FinishesClosing, ReadsResume
  <2> QED BY <1>1, <2>2, <2>3 DEF Work, WorkInv
<1>4. CASE Kept
  <2>1. OneJob => OneJob'
    BY <1>0, <1>2, <1>4 DEF OneJob, Kept
  <2>2. Idle => Idle'
    BY <1>0, <1>2, <1>4 DEF Idle, Kept
  <2>3. Unwatched' /\ WatchedIdle' /\ OneWhileConnected' /\ FinishesClosing'
    BY <1>0, <1>2, <1>4, <1>w, <2>1, <2>2
    DEF WorkInv, Unwatched, WatchedIdle, OneWhileConnected, FinishesClosing, Kept
  <2>4. (ReadsResume \/ "IN" \in events \/ state' # "CONNECTED") /\
        (Head(running).op = "done" => "IN" \in events \/ state' # "CONNECTED") => ReadsResume'
    BY <1>0, <1>2, <1>4 DEF ReadsResume, Kept
  <2>5. (Head(running).op = "done" => "IN" \in events \/ state' # "CONNECTED") => Work'
    BY <1>1, <1>w, <2>3, <2>4 DEF Work, WorkInv
  <2>6. Head(running).op = "done" => "IN" \in events \/ state' # "CONNECTED"
    <3>1. SUFFICES ASSUME Head(running).op = "done" PROVE "IN" \in events \/ state' # "CONNECTED"
      OBVIOUS
    <3>2. RunDone
      BY <3>1 DEF RunTask, RunSetInactive, RunEstablished, RunSend, RunClose, Running
    <3>3. CASE Head(running).done = "finish"
      BY <1>2, <1>4, <1>w, <3>1, <3>3 DEF WorkInv, FinishesClosing, Kept
    <3>4. CASE Head(running).done = "release" /\ Release
      BY <3>4 DEF Release, ReleaseOpen, Stay, connVars
    <3>5. CASE Head(running).done = "resume" /\ state = "CONNECTED" /\ "IN" \notin events /\ EnableRead
      BY <1>4, <3>5 DEF EnableRead, SetEvents, Kept
    <3>6. CASE (state # "CONNECTED" \/ "IN" \in events) /\ Stay
      BY <3>6 DEF Stay, connVars
    <3> QED BY <3>2, <3>3, <3>4, <3>5, <3>6 DEF RunDone
  <2> QED BY <2>5, <2>6
<1>5. CASE RunSetInactive
  BY <1>3, <1>5 DEF RunSetInactive, Running, channelVars
<1>6. CASE RunEstablished
  <2>1. Head(running).op # "done"
    BY <1>6 DEF RunEstablished, Running
  <2>2. CASE Stay
    BY <1>3, <2>1, <2>2 DEF Stay, connVars, channelVars
  <2>3. CASE state = "CONNECTING" /\ state' = "CONNECTED" /\ EnableRead /\ UNCHANGED jobs
    <3>1. Idle /\ Idle'
      BY <1>0, <1>2, <1>w, <2>1, <2>3 DEF WorkInv, Unwatched, Idle
    <3>2. "IN" \in events'
      BY <2>3 DEF EnableRead, SetEvents
    <3>3. OneJob'
      <4>1. Len(jobs') <= 1
        BY <3>1 DEF Idle
      <4>2. HeldOnce(tasks)' /\ HeldOnce(running)'
        BY <3>1 DEF Idle, HeldOnce, Holding
      <4> QED BY <3>1, <4>1, <4>2 DEF OneJob, Idle
    <3>4. FinishesClosing'
      <4>1. ~Finishing(tasks)' /\ ~Finishing(running)'
        BY <3>1 DEF Idle, Finishing, Holding
      <4> QED BY <3>1, <4>1 DEF FinishesClosing, Idle
    <3> QED BY <1>1, <2>3, <3>1, <3>2, <3>3, <3>4
            DEF Work, WorkInv, Unwatched, WatchedIdle, OneWhileConnected, ReadsResume
  <2> QED BY <1>6, <2>2, <2>3 DEF RunEstablished
<1>7. CASE RunSend
  <2>1. Head(running).op # "done"
    BY <1>7 DEF RunSend, Running
  <2>2. CASE state = "CONNECTED" /\ EnableWrite /\ UNCHANGED <<state, jobs>>
    BY <1>4, <2>2 DEF EnableWrite, SetEvents, Kept
  <2> QED BY <1>3, <1>7, <2>1, <2>2 DEF RunSend, Stay, connVars, channelVars
<1>8. CASE RunClose
  <2>1. Head(running).op # "done"
    BY <1>8 DEF RunClose, Running
  <2>2. CASE Given("finish") /\ state' = "DISCONNECTING"
    <3>1. "IN" \notin events'
      BY <2>2 DEF Given
    <3> QED BY <1>1, <2>2, <3>1
            DEF Work, WorkInv, Unwatched, WatchedIdle, OneWhileConnected, FinishesClosing, ReadsResume
  <2> QED BY <1>4, <1>8, <1>c, <2>2, OperationEffects DEF RunClose
<1>9. CASE RunDone
  <2>1. Head(running).op = "done" /\ state # "CONNECTING"
    BY <1>2, <1>9, <1>w DEF RunDone, Running, WorkInv, Unwatched, Idle
  <2>2. CASE Head(running).done = "resume" /\ state = "CONNECTED" /\ EnableRead /\ UNCHANGED <<state, jobs>>
    <3>1. "IN" \in events' /\ state' = "CONNECTED"
      BY <2>2 DEF EnableRead, SetEvents
    <3>2. ~rst => OneJob
      BY <1>w, <2>2 DEF WorkInv, OneWhileConnected
    <3>3. ~rst => Idle' /\ OneJob'
      BY <1>0, <1>2, <2>1, <2>2, <3>2 DEF OneJob, Idle
    <3>4. FinishesClosing'
      BY <1>0, <1>2, <1>w, <2>2 DEF WorkInv, FinishesClosing
    <3> QED BY <1>0, <1>1, <3>1, <3>3, <3>4
            DEF Work, WorkInv, Unwatched, WatchedIdle, OneWhileConnected, ReadsResume
  <2> QED BY <1>4, <1>9, <1>c, <2>1, <2>2, OperationEffects DEF RunDone
<1> QED BY <1>5, <1>6, <1>7, <1>8, <1>9 DEF RunTask

LEMMA WorkerKeepsWork ==
  ASSUME TypeOK, Answering, Work, Worker
  PROVE  Work'
<1>0. /\ UNCHANGED <<rst, state, events, poller, batch, revents, lpc, running>>
      /\ jobs \in Seq(Dones) /\ tasks \in Seq(Tasks) /\ cur \in Dones
  BY DEF TypeOK, Worker, WorkerPop, WorkerParse, WorkerRespond, WorkerClear, WorkerClose, WorkerFinish,
         WorkerFrame, peerVars, channelVars, loopVars
<1>w. WorkInv /\ ReadsResume
  BY DEF Work
<1>1. ~Idle
  BY WorkerPosts DEF Idle
<1>2. Unwatched' /\ WatchedIdle' /\ BatchIdle' /\ ResetSeen' /\ OnceInBatch' /\ RunningDone'
  <2>1. state # "CONNECTING" /\ (rst \/ "IN" \notin events) /\ ~(lpc = "batch" /\ InBatch /\ "IN" \in revents)
    BY <1>1, <1>w DEF WorkInv, Unwatched, WatchedIdle, BatchIdle
  <2>2. (InBatch' <=> InBatch) /\ OnceInBatch'
    BY <1>0, <1>w DEF WorkInv, InBatch, OnceInBatch
  <2> QED BY <1>0, <1>w, <2>1, <2>2 DEF WorkInv, Unwatched, WatchedIdle, BatchIdle, ResetSeen, RunningDone
<1>3. ASSUME ~Idle', OneJob => OneJob',
             (\A i \in DOMAIN jobs : jobs[i] # "finish") /\ (wpc # "idle" => cur # "finish") /\ ~Finishing(tasks)
               => (\A i \in DOMAIN jobs' : jobs'[i] # "finish") /\ (wpc' # "idle" => cur' # "finish")
                    /\ ~Finishing(tasks)'
      PROVE  Work'
  <2>1. FinishesClosing'
    BY <1>0, <1>3, <1>w DEF WorkInv, FinishesClosing
  <2>2. OneWhileConnected'
    BY <1>0, <1>3, <1>w DEF WorkInv, OneWhileConnected
  <2>3. ReadsResume'
    BY <1>3 DEF ReadsResume, Idle
  <2> QED BY <1>2, <2>1, <2>2, <2>3 DEF Work, WorkInv
<1>4. CASE WorkerPop
  <2>1. /\ wpc = "idle" /\ jobs # <<>> /\ cur' = Head(jobs) /\ jobs' = Tail(jobs) /\ wpc' = "parse"
        /\ UNCHANGED tasks
    BY <1>4 DEF WorkerPop
  <2>2. Head(jobs) = jobs[1] /\ 1 \in DOMAIN jobs /\ Len(Tail(jobs)) = Len(jobs) - 1
    BY <1>0, <2>1, HeadTailProperties, LenProperties
  <2>3. \A i \in DOMAIN Tail(jobs) : i + 1 \in DOMAIN jobs /\ Tail(jobs)[i] = jobs[i + 1]
    BY <1>0, <2>1, HeadTailProperties, LenProperties
  <2>4. Len(jobs) <= 1 => Tail(jobs) = <<>>
    BY <1>0, <2>1, <2>2, HeadTailProperties, LenProperties, EmptySeq
  <2>5. OneJob => OneJob'
    BY <1>0, <2>1, <2>4 DEF OneJob
  <2>6. (\A i \in DOMAIN jobs : jobs[i] # "finish")
           => (\A i \in DOMAIN jobs' : jobs'[i] # "finish") /\ cur' # "finish"
    BY <2>1, <2>2, <2>3
  <2> QED BY <1>3, <2>1, <2>5, <2>6 DEF Idle
<1>5. CASE WorkerParse \/ WorkerClear
  <2>1. wpc # "idle" /\ wpc' # "idle" /\ UNCHANGED <<jobs, tasks, cur>>
    BY <1>5 DEF WorkerParse, WorkerClear
  <2>2. OneJob => OneJob'
    BY <1>0, <2>1 DEF OneJob
  <2> QED BY <1>3, <2>1, <2>2 DEF Idle
<1>6. ASSUME NEW t \in Tasks, t.op # "done", wpc # "idle", wpc' # "idle", UNCHANGED <<jobs, cur>>,
             tasks' = Append(tasks, t)
      PROVE  Work'
  <2>1. /\ Holding(tasks)' => Holding(tasks)
        /\ HeldOnce(tasks) => HeldOnce(tasks)'
        /\ Finishing(tasks)' => Finishing(tasks)
    BY <1>0, <1>6, WorkPosted
  <2>2. OneJob => OneJob'
    BY <1>0, <1>6, <2>1 DEF OneJob
  <2> QED BY <1>3, <1>6, <2>1, <2>2 DEF Idle
<1>7. CASE WorkerRespond
  <2>1. resp \in 0..MaxSegs
    BY ConnectionAssumption DEF TypeOK
  <2>2. SendTask(resp) \in Tasks /\ SendTask(resp).op = "send"
    BY <2>1, TaskTypes DEF SendTask, Task
  <2>3. wpc' \in {"parse", "clear", "close"}
    BY <1>7 DEF WorkerRespond, Answering, Kinds, TypeOK
  <2> QED BY <1>6, <1>7, <2>2, <2>3 DEF WorkerRespond
<1>8. CASE WorkerClose
  <2>1. Simple("close") \in Tasks /\ Simple("close").op = "close"
    BY TaskTypes DEF Simple, Task, Ops
  <2> QED BY <1>6, <1>8, <2>1 DEF WorkerClose
<1>9. CASE WorkerFinish
  <2>1. PICK t \in Tasks : t = DoneTask(cur) /\ t.op = "done" /\ t.done = cur
    BY <1>0, TaskTypes DEF DoneTask, Task
  <2>2. wpc = "finish" /\ wpc' = "idle" /\ tasks' = Append(tasks, t) /\ UNCHANGED <<jobs, cur>>
    BY <1>9, <2>1 DEF WorkerFinish
  <2>3. /\ Holding(tasks)'
        /\ HeldOnce(tasks) /\ ~Holding(tasks) => HeldOnce(tasks)'
        /\ Finishing(tasks)' => Finishing(tasks) \/ cur = "finish"
    BY <1>0, <2>1, <2>2, WorkPosted
  <2>4. OneJob => OneJob'
    BY <1>0, <2>2, <2>3 DEF OneJob
  <2> QED BY <1>3, <2>2, <2>3, <2>4 DEF Idle
<1> QED BY <1>4, <1>5, <1>7, <1>8, <1>9 DEF Worker

LEMMA OthersKeepWork ==
  ASSUME TypeOK, Work, PeerSend \/ PeerFin \/ PeerReset \/ TasksDone \/ Base \/ UNCHANGED vars
  PROVE  Work'
<1>w. WorkInv /\ ReadsResume
  BY DEF Work
<1>1. ASSUME rst => rst', lpc' \in {"poll", "batch"} => lpc' = lpc \/ running = <<>>,
             lpc' = "batch" => lpc = "batch",
             UNCHANGED <<state, events, poller, batch, revents, running, jobs, wpc, cur>>,
             tasks' = tasks \/ \E t \in Tasks : t.op # "done" /\ tasks' = Append(tasks, t)
      PROVE  Work'
  <2>1. /\ Holding(tasks)' <=> Holding(tasks)
        /\ HeldOnce(tasks) => HeldOnce(tasks)'
        /\ Finishing(tasks)' => Finishing(tasks)
    <3>0. tasks \in Seq(Tasks)
      BY DEF TypeOK
    <3>1. ASSUME NEW t \in Tasks, t.op # "done", tasks' = Append(tasks, t)
          PROVE  /\ Holding(tasks)' <=> Holding(tasks)
                 /\ HeldOnce(tasks) => HeldOnce(tasks)'
                 /\ Finishing(tasks)' => Finishing(tasks)
      BY <3>0, <3>1, WorkPosted
    <3> QED BY <1>1, <3>1
  <2>2. (Idle' <=> Idle) /\ (OneJob => OneJob')
    BY <1>1, <2>1 DEF Idle, OneJob
  <2>3. (InBatch' <=> InBatch) /\ OnceInBatch'
    BY <1>1, <1>w DEF WorkInv, InBatch, OnceInBatch
  <2>4. Unwatched' /\ WatchedIdle' /\ BatchIdle' /\ ResetSeen' /\ RunningDone'
    BY <1>1, <1>w, <2>2, <2>3 DEF WorkInv, Unwatched, WatchedIdle, BatchIdle, ResetSeen, RunningDone
  <2>5. OneWhileConnected' /\ FinishesClosing' /\ ReadsResume'
    BY <1>1, <1>w, <2>1, <2>2 DEF WorkInv, OneWhileConnected, FinishesClosing, ReadsResume
  <2> QED BY <2>3, <2>4, <2>5 DEF Work, WorkInv
<1>2. CASE PeerSend \/ PeerFin \/ PeerReset
  BY <1>1, <1>2 DEF PeerSend, PeerFin, PeerReset, connVars, channelVars, loopVars, workerVars
<1>3. CASE TasksDone
  BY <1>1, <1>3 DEF TasksDone, peerVars, connVars, channelVars, workerVars
<1>4. CASE AcceptSetInactive \/ AcceptEstablish
  <2>1. \A op \in {"setinactive", "established"} : Simple(op) \in Tasks /\ Simple(op).op # "done"
    BY TaskTypes DEF Simple, Task, Ops
  <2> QED BY <1>1, <1>4, <2>1 DEF AcceptSetInactive, AcceptEstablish, peerVars, connVars, channelVars,
                                  loopVars, workerVars
<1>5. CASE Erase
  BY <1>1, <1>5 DEF Erase, peerVars, connVars, channelVars, loopVars, workerVars
<1>6. CASE UNCHANGED vars
  BY <1>1, <1>6 DEF vars, peerVars, connVars, channelVars, loopVars, workerVars
<1> QED BY <1>2, <1>3, <1>4, <1>5, <1>6 DEF Base

LEMMA WorkInit == Init => Work
<1> SUFFICES ASSUME Init PROVE Work
  OBVIOUS
<1>1. Idle /\ OneJob
  BY NothingHeld DEF Init, Idle, OneJob
<1>2. WorkInv
  BY <1>1, NothingHeld DEF Init, WorkInv, Unwatched, WatchedIdle, OneWhileConnected, BatchIdle, InBatch,
     ResetSeen, OnceInBatch, FinishesClosing, RunningDone
<1> QED BY <1>2 DEF Init, Work, ReadsResume

LEMMA WorkStep == TypeOK /\ Answering /\ ReleasedOnce /\ Work /\ [Next]_vars => Work'
BY HandlersKeepWork, TimerKeepsWork, PollKeepsWork, SwapKeepsWork, TasksKeepWork, WorkerKeepsWork,
   OthersKeepWork DEF Next, Loop, AfterPoll

LEMMA WorkAlways == Spec => [](TypeOK /\ Work)
<1>1. Init => ReleasedOnce
  BY DEF Init, ReleasedOnce, Open
<1> QED
  BY <1>1, TypeInit, TypeStep, AnsweringStep, StartupInit, StartupStep, ReleasedOnceStep, WorkInit, WorkStep,
     PTL DEF Spec

(* The loop reads into the buffer of a connection only when no job for it   *)
(* is queued or runs: reading is off from Submit until the job's done task, *)
(* also when a Close or a reset comes in between (connection.cpp:31,        *)
(* 58-94).                                                                  *)
THEOREM BufferOfOneThread == Spec => []BufferHandedOver
<1>1. TypeOK /\ Work => BufferHandedOver
  <2> SUFFICES ASSUME TypeOK, Work, LoopReads PROVE jobs = <<>> /\ wpc = "idle"
    BY DEF BufferHandedOver
  <2>1. 1 \in DOMAIN batch /\ batch[1] = "conn"
    <3>1. batch \in Seq({"conn", "timer"}) /\ batch # <<>> /\ Head(batch) = "conn"
      BY DEF LoopReads, TypeOK
    <3>2. Len(batch) \in Nat \ {0} /\ DOMAIN batch = 1..Len(batch)
      BY <3>1, EmptySeq, LenProperties
    <3> QED BY <3>1, <3>2
  <2>2. InBatch
    BY <2>1 DEF InBatch
  <2> QED BY <2>2 DEF LoopReads, Work, WorkInv, BatchIdle, Idle
<1> QED BY <1>1, WorkAlways, PTL

(* A connected connection without work reads: whatever ended its last job   *)
(* switched reading on again (connection.cpp:82-93).                        *)
THEOREM ReadingResumes == Spec => []ReadsResume
<1>1. Work => ReadsResume
  BY DEF Work
<1> QED BY <1>1, WorkAlways, PTL
-----------------------------------------------------------------------------
(* While no job runs, each Send and Close task has a done task behind it.   *)
Covered(q) == \A i \in DOMAIN q : q[i].op \in {"send", "close"} => \E j \in DOMAIN q : i < j /\ q[j].op = "done"
RawCovered == wpc # "idle" \/ (Covered(tasks) /\ (Covered(running) \/ Holding(tasks)))

LEMMA CoveredPosted ==
  ASSUME NEW q \in Seq(Tasks), NEW t \in Tasks
  PROVE  /\ t.op = "done" => Covered(Append(q, t))
         /\ Covered(q) /\ t.op \notin {"send", "close"} => Covered(Append(q, t))
<1>1. /\ \A i \in 1..Len(q) : Append(q, t)[i] = q[i]
      /\ Append(q, t)[Len(q) + 1] = t
      /\ Append(q, t) \in Seq(Tasks) /\ Len(Append(q, t)) = Len(q) + 1
  BY AppendProperties
<1>2. DOMAIN q = 1..Len(q) /\ DOMAIN Append(q, t) = 1..(Len(q) + 1) /\ Len(q) \in Nat
  BY <1>1, LenProperties
<1>3. /\ \A i \in DOMAIN Append(q, t) : (i = Len(q) + 1 /\ Append(q, t)[i] = t)
                                          \/ (i \in DOMAIN q /\ i < Len(q) + 1 /\ Append(q, t)[i] = q[i])
      /\ \A i \in DOMAIN q : i \in DOMAIN Append(q, t) /\ Append(q, t)[i] = q[i]
      /\ Len(q) + 1 \in DOMAIN Append(q, t)
  BY <1>1, <1>2
<1>4. t.op = "done" => Covered(Append(q, t))
  BY <1>1, <1>3 DEF Covered
<1>5. ASSUME Covered(q), t.op \notin {"send", "close"} PROVE Covered(Append(q, t))
  <2> SUFFICES ASSUME NEW i \in DOMAIN Append(q, t), Append(q, t)[i].op \in {"send", "close"}
               PROVE  \E j \in DOMAIN Append(q, t) : i < j /\ Append(q, t)[j].op = "done"
    BY DEF Covered
  <2>1. i \in DOMAIN q /\ q[i].op \in {"send", "close"}
    BY <1>3, <1>5
  <2>2. PICK j \in DOMAIN q : i < j /\ q[j].op = "done"
    BY <1>5, <2>1 DEF Covered
  <2> QED BY <1>3, <2>2
<1> QED BY <1>4, <1>5

LEMMA CoveredTaken ==
  ASSUME NEW q \in Seq(Tasks), q # <<>>, Covered(q)
  PROVE  Covered(Tail(q))
<1>1. /\ Tail(q) \in Seq(Tasks) /\ Len(Tail(q)) = Len(q) - 1
      /\ \A j \in 1..Len(Tail(q)) : Tail(q)[j] = q[j + 1]
  BY HeadTailProperties
<1>2. DOMAIN q = 1..Len(q) /\ DOMAIN Tail(q) = 1..Len(Tail(q)) /\ Len(q) \in Nat \ {0}
  BY <1>1, LenProperties, EmptySeq
<1> SUFFICES ASSUME NEW i \in DOMAIN Tail(q), Tail(q)[i].op \in {"send", "close"}
             PROVE  \E j \in DOMAIN Tail(q) : i < j /\ Tail(q)[j].op = "done"
  BY DEF Covered
<1>3. i + 1 \in DOMAIN q /\ q[i + 1].op \in {"send", "close"}
  BY <1>1, <1>2
<1>4. PICK j \in DOMAIN q : i + 1 < j /\ q[j].op = "done"
  BY <1>3 DEF Covered
<1>5. j - 1 \in DOMAIN Tail(q) /\ (j - 1) + 1 = j /\ i < j - 1
  BY <1>1, <1>2, <1>4
<1>6. Tail(q)[j - 1] = q[j]
  BY <1>1, <1>2, <1>5
<1> QED BY <1>4, <1>5, <1>6

LEMMA RawCoveredStep == TypeOK /\ Answering /\ RawCovered /\ [Next]_vars => RawCovered'
<1> SUFFICES ASSUME TypeOK, Answering, RawCovered, [Next]_vars PROVE RawCovered'
  OBVIOUS
<1>0. tasks \in Seq(Tasks) /\ running \in Seq(Tasks)
  BY DEF TypeOK
<1>1. PeerSend \/ PeerFin \/ PeerReset \/ Poll \/ TasksDone \/ Erase \/ HandlesEvent \/ UNCHANGED vars
         => UNCHANGED <<tasks, running, wpc>>
  BY HandlersLeaveQueue
  DEF PeerSend, PeerFin, PeerReset, Poll, PollWith, TasksDone, Erase, vars, loopVars, workerVars
<1>2. UNCHANGED <<tasks, running, wpc>> => RawCovered'
  BY DEF RawCovered
<1>3. CASE SwapTasks
  <2>1. running' = tasks /\ tasks' = <<>> /\ wpc' = wpc
    BY <1>3 DEF SwapTasks, workerVars
  <2>2. Covered(<<>>)
    BY DEF Covered
  <2> QED BY <2>1, <2>2 DEF RawCovered
<1>4. CASE RunTask
  <2>1. running # <<>> /\ running' = Tail(running) /\ UNCHANGED <<tasks, wpc>>
    BY <1>4, TasksLeaveQueue DEF workerVars
  <2>2. Covered(running) => Covered(Tail(running))
    BY <1>0, <2>1, CoveredTaken
  <2> QED BY <2>1, <2>2 DEF RawCovered
<1>5. CASE WorkerFinish
  <2>1. PICK t \in Tasks : t = DoneTask(cur) /\ t.op = "done"
    BY TaskTypes DEF DoneTask, Task, TypeOK
  <2>2. tasks' = Append(tasks, t)
    BY <1>5, <2>1 DEF WorkerFinish
  <2>3. Covered(Append(tasks, t)) /\ Holding(Append(tasks, t))
    BY <1>0, <2>1, CoveredPosted, WorkPosted
  <2> QED BY <2>2, <2>3 DEF RawCovered
<1>6. WorkerPop \/ WorkerParse \/ WorkerRespond \/ WorkerClear \/ WorkerClose => wpc' # "idle"
  BY DEF WorkerPop, WorkerParse, WorkerRespond, WorkerClear, WorkerClose, Answering, Kinds, TypeOK
<1>7. CASE AcceptSetInactive \/ AcceptEstablish
  <2>1. PICK t \in Tasks : t.op \notin {"send", "close"} /\ tasks' = Append(tasks, t)
    <3>1. \A op \in {"setinactive", "established"} : Simple(op) \in Tasks /\ Simple(op).op = op
      BY TaskTypes DEF Simple, Task, Ops
    <3> QED BY <1>7, <3>1 DEF AcceptSetInactive, AcceptEstablish
  <2>2. UNCHANGED <<running, wpc>>
    BY <1>7 DEF AcceptSetInactive, AcceptEstablish, loopVars, workerVars
  <2>3. /\ Covered(tasks) => Covered(Append(tasks, t))
        /\ Holding(tasks) => Holding(Append(tasks, t))
    BY <1>0, <2>1, CoveredPosted, WorkPosted
  <2> QED BY <2>1, <2>2, <2>3 DEF RawCovered
<1> QED BY <1>1, <1>2, <1>3, <1>4, <1>5, <1>6, <1>7
        DEF Next, Loop, AfterPoll, Worker, Base, HandlesEvent, RawCovered

(* The tasks of Send and Close, which hold a raw pointer to the connection, *)
(* have run before its memory is given back: the done task posted behind    *)
(* them holds it (connection.cpp:82, 246-270).                              *)
THEOREM RawPointersAlive == Spec => []NoDanglingTask
<1>1. Init => ReleasedOnce /\ RawCovered
  BY DEF Init, ReleasedOnce, Open, RawCovered, Covered
<1>2. ReleasedOnce /\ RawCovered => NoDanglingTask
  <2> SUFFICES ASSUME ReleasedOnce, RawCovered, Freed PROVE NoDanglingTask
    BY DEF NoDanglingTask
  <2>1. ~Raw(tasks) /\ ~Raw(running)
    BY DEF Freed, RawCovered, Covered, Holding, Raw
  <2> QED BY <2>1 DEF Freed, ReleasedOnce, NoDanglingTask
<1> QED
  BY <1>1, <1>2, TypeInit, TypeStep, AnsweringStep, StartupInit, StartupStep, ReleasedOnceStep, RawCoveredStep,
     PTL DEF Spec

-----------------------------------------------------------------------------
(* The way of a response: from the segment that completes its request,      *)
(* through the worker, the loop's queue and _out_buffer, to the kernel.     *)
(* The swapped vector and the queue are one queue here: the swap moves      *)
(* nothing in it.                                                           *)

Queue == running \o tasks
Written == delivered \o out
Live == state \in {"CONNECTING", "CONNECTED"}
Queued(op) == \E k \in DOMAIN Queue : Queue[k].op = op
Sending(i) == \E k \in DOMAIN Queue : Queue[k].op = "send" /\ Queue[k].n = i
Ended == \E j \in 1..taken : Closer(sent[j])
Closing == wpc \in {"clear", "close"} \/ Queued("close")

(* While the connection lives, what was answered is on its way, in order:   *)
(* written, before what the queue sends, before what the worker answers;    *)
SendsOrdered ==
  \A k \in DOMAIN Queue : Queue[k].op = "send" =>
    /\ Owed(Queue[k].n) /\ Queue[k].n <= taken
    /\ wpc = "respond" => Queue[k].n < resp
    /\ \A w \in DOMAIN Written : Written[w] < Queue[k].n
    /\ \A l \in DOMAIN Queue : k < l /\ Queue[l].op = "send" => Queue[k].n < Queue[l].n
WrittenTaken ==
  \A w \in DOMAIN Written : Written[w] <= taken /\ (wpc = "respond" => Written[w] < resp)
RespondsNow == wpc = "respond" => resp = taken /\ Owed(resp)
(* none of it is missing, and without work none waits in the input buffer;  *)
NoneSkipped ==
  \A i \in 1..taken : Owed(i) =>
    InSeq(i, Written) \/ Sending(i) \/ (wpc = "respond" /\ i = resp)
NoneWaits ==
  jobs = <<>> /\ wpc \notin {"parse", "respond"} => \A i \in (taken + 1)..got : ~Owed(i)
(* a Close comes from the request that ends the connection, after which the *)
(* job reads no other, and sends nothing.                                   *)
ClosesAfter == /\ Closing => Ended
               /\ Ended => Closing \/ (wpc = "respond" /\ Closer(sent[resp]))
CloseLast ==
  \A k \in DOMAIN Queue : Queue[k].op = "close" =>
    /\ wpc = "finish" \/ \E l \in DOMAIN Queue : k < l /\ Queue[l].op = "done"
    /\ \A l \in DOMAIN Queue : k < l => Queue[l].op # "send"
Pipeline == /\ SendsOrdered /\ WrittenTaken /\ RespondsNow /\ NoneSkipped /\ NoneWaits
            /\ ClosesAfter /\ CloseLast

(* A connection that closes has written everything, and owes nothing more.  *)
Finished == /\ fin \/ \E j \in 1..Len(sent) : Closer(sent[j])
            /\ \A i \in 1..Len(sent) : Owed(i) => InSeq(i, Written)
            /\ state = "DISCONNECTED" => out = <<>>
(* Only a reset makes a job that ends in _Release.                          *)
NoRelease == /\ \A i \in DOMAIN jobs : jobs[i] # "release"
             /\ wpc # "idle" => cur # "release"
             /\ \A k \in DOMAIN Queue : Queue[k].op = "done" => Queue[k].done # "release"

FlowInv == /\ InOrder(delivered)
           /\ expired => ~Open
           /\ state = "CONNECTING" => got = 0
           /\ ~rst => /\ InOrder(Written)
                      /\ Live => Pipeline
                      /\ ~Live /\ ~expired => Finished
                      /\ Open => NoRelease

(* What steps do to the queue. *)
Shifts ==
  /\ 1 \in DOMAIN Queue /\ DOMAIN Queue \subseteq Nat /\ DOMAIN Queue' \subseteq Nat \ {0}
  /\ \A k \in DOMAIN Queue' : k + 1 \in DOMAIN Queue /\ Queue'[k] = Queue[k + 1]
  /\ \A k \in DOMAIN Queue : k # 1 => k - 1 \in DOMAIN Queue' /\ Queue'[k - 1] = Queue[k]
Grows(t) ==
  \E n \in Nat :
    /\ \A k \in DOMAIN Queue : k \in Nat /\ k < n /\ k \in DOMAIN Queue' /\ Queue'[k] = Queue[k]
    /\ n \in DOMAIN Queue' /\ Queue'[n] = t
    /\ \A k \in DOMAIN Queue' : k = n \/ k \in DOMAIN Queue

LEMMA QueueTypes ==
  ASSUME TypeOK
  PROVE  /\ Queue \in Seq(Tasks) /\ DOMAIN Queue = 1..Len(Queue) /\ Len(Queue) \in Nat
         /\ Written \in Seq(Nat) /\ DOMAIN Written = 1..Len(Written) /\ Len(Written) \in Nat
<1>1. running \in Seq(Tasks) /\ tasks \in Seq(Tasks) /\ delivered \in Seq(Nat) /\ out \in Seq(Nat)
  BY DEF TypeOK
<1>2. Queue \in Seq(Tasks) /\ Written \in Seq(Nat)
  BY <1>1, ConcatProperties DEF Queue, Written
<1> QED BY <1>2, LenProperties

LEMMA ElementTypes ==
  ASSUME TypeOK
  PROVE  /\ \A k \in DOMAIN Queue : Queue[k] \in Tasks /\ Queue[k].n \in Nat
         /\ \A w \in DOMAIN Written : Written[w] \in Nat
<1>1. \A k \in DOMAIN Queue : Queue[k] \in Tasks
  <2>1. Queue \in Seq(Tasks) /\ DOMAIN Queue = 1..Len(Queue)
    BY QueueTypes
  <2> QED BY <2>1, ElementOfSeq
<1>2. \A t \in Tasks : t.n \in Nat
  BY ConnectionAssumption DEF Tasks
<1>3. \A w \in DOMAIN Written : Written[w] \in Nat
  <2>1. Written \in Seq(Nat) /\ DOMAIN Written = 1..Len(Written)
    BY QueueTypes
  <2> QED BY <2>1, ElementOfSeq
<1> QED BY <1>1, <1>2, <1>3

LEMMA QueueOfBoth ==
  ASSUME TypeOK
  PROVE  /\ \A k \in DOMAIN Queue : \/ \E j \in DOMAIN running : Queue[k] = running[j]
                                    \/ \E j \in DOMAIN tasks : Queue[k] = tasks[j]
         /\ \A j \in DOMAIN running : \E k \in DOMAIN Queue : Queue[k] = running[j]
         /\ \A j \in DOMAIN tasks : \E k \in DOMAIN Queue : Queue[k] = tasks[j]
<1>1. running \in Seq(Tasks) /\ tasks \in Seq(Tasks)
  BY DEF TypeOK
<1>2. /\ Len(running) \in Nat /\ Len(tasks) \in Nat
      /\ DOMAIN running = 1..Len(running) /\ DOMAIN tasks = 1..Len(tasks)
  BY <1>1, LenProperties
<1>3. /\ DOMAIN Queue = 1..(Len(running) + Len(tasks))
      /\ \A k \in 1..(Len(running) + Len(tasks)) :
           Queue[k] = IF k <= Len(running) THEN running[k] ELSE tasks[k - Len(running)]
  BY <1>1, QueueTypes, ConcatProperties DEF Queue
<1>4. \A k \in DOMAIN Queue : k \in DOMAIN running \/ k - Len(running) \in DOMAIN tasks
  BY <1>2, <1>3
<1>5. \A j \in DOMAIN tasks : /\ j + Len(running) \in DOMAIN Queue /\ ~(j + Len(running) <= Len(running))
                              /\ (j + Len(running)) - Len(running) = j
  BY <1>2, <1>3
<1>6. \A j \in DOMAIN tasks : Queue[j + Len(running)] = tasks[j]
  BY <1>3, <1>5
<1>7. \A j \in DOMAIN running : j \in DOMAIN Queue /\ Queue[j] = running[j]
  BY <1>2, <1>3
<1>8. \A k \in DOMAIN Queue : k <= Len(running) \/ Queue[k] = tasks[k - Len(running)]
  BY <1>3
<1>9. \A k \in DOMAIN Queue : k <= Len(running) => k \in DOMAIN running
  BY <1>2, <1>3
<1>10. \A k \in DOMAIN Queue : ~(k <= Len(running)) => k - Len(running) \in DOMAIN tasks
  BY <1>2, <1>3
<1> QED BY <1>5, <1>6, <1>7, <1>8, <1>9, <1>10

LEMMA QueueHolds ==
  ASSUME TypeOK
  PROVE  /\ Queued("done") <=> Holding(running) \/ Holding(tasks)
         /\ Queued("send") \/ Queued("close") <=> Raw(running) \/ Raw(tasks)
BY QueueOfBoth DEF Queued, Holding, Raw

LEMMA QueueSteps ==
  ASSUME TypeOK
  PROVE  /\ running = <<>> /\ running' = tasks /\ tasks' = <<>> => Queue' = Queue
         /\ UNCHANGED <<running, tasks>> => Queue' = Queue
         /\ running # <<>> /\ running' = Tail(running) /\ tasks' = tasks =>
              Shifts /\ Queue[1] = Head(running) /\ Head(running) \in Tasks
         /\ \A t \in Tasks : Posts(t) => Grows(t)
<1>1. running \in Seq(Tasks) /\ tasks \in Seq(Tasks)
  BY DEF TypeOK
<1>2. running = <<>> /\ running' = tasks /\ tasks' = <<>> => Queue' = Queue
  BY <1>1, ConcatEmptySeq DEF Queue
<1>3. UNCHANGED <<running, tasks>> => Queue' = Queue
  BY DEF Queue
<1>4. ASSUME running # <<>>, running' = Tail(running), tasks' = tasks
      PROVE  Shifts /\ Queue[1] = Head(running) /\ Head(running) \in Tasks
  <2>1. /\ Len(running) \in Nat \ {0} /\ Len(tasks) \in Nat
        /\ running' \in Seq(Tasks) /\ Len(running') = Len(running) - 1
        /\ \A k \in 1..(Len(running) - 1) : running'[k] = running[k + 1]
        /\ Head(running) = running[1] /\ Head(running) \in Tasks
    BY <1>1, <1>4, HeadTailProperties, EmptySeq, LenProperties
  <2>2. /\ DOMAIN Queue = 1..(Len(running) + Len(tasks))
        /\ \A k \in 1..(Len(running) + Len(tasks)) :
             Queue[k] = IF k <= Len(running) THEN running[k] ELSE tasks[k - Len(running)]
    BY <1>1, ConcatProperties, QueueTypes DEF Queue
  <2>3. /\ Queue' \in Seq(Tasks) /\ Len(Queue') = Len(running) - 1 + Len(tasks)
        /\ \A k \in 1..(Len(running) - 1 + Len(tasks)) :
             Queue'[k] = IF k <= Len(running) - 1 THEN running'[k] ELSE tasks[k - (Len(running) - 1)]
    <3>1. Queue' = running' \o tasks
      BY <1>4 DEF Queue
    <3>2. Len(running' \o tasks) = Len(running') + Len(tasks) /\ running' \o tasks \in Seq(Tasks)
          /\ \A k \in 1..(Len(running') + Len(tasks)) :
               (running' \o tasks)[k] = IF k <= Len(running') THEN running'[k] ELSE tasks[k - Len(running')]
      BY <1>1, <2>1, ConcatProperties
    <3> QED BY <2>1, <3>1, <3>2
  <2>4. DOMAIN Queue' = 1..(Len(running) - 1 + Len(tasks))
    BY <2>3, LenProperties
  <2>5. \A k \in DOMAIN Queue' : k + 1 \in DOMAIN Queue
    BY <2>1, <2>2, <2>4
  <2>6. ASSUME NEW k \in DOMAIN Queue' PROVE Queue'[k] = Queue[k + 1]
    <3>1. CASE k <= Len(running) - 1
      BY <2>1, <2>2, <2>3, <2>4, <2>5, <3>1
    <3>2. CASE ~(k <= Len(running) - 1)
      <4>1. ~(k + 1 <= Len(running)) /\ (k + 1) - Len(running) = k - (Len(running) - 1)
        BY <2>1, <2>4, <3>2
      <4> QED BY <2>2, <2>3, <2>4, <2>5, <3>2, <4>1
    <3> QED BY <3>1, <3>2
  <2>7. \A k \in DOMAIN Queue : k # 1 => k - 1 \in DOMAIN Queue' /\ (k - 1) + 1 = k
    BY <2>1, <2>2, <2>4
  <2>8. 1 \in DOMAIN Queue /\ Queue[1] = running[1] /\ DOMAIN Queue \subseteq Nat /\ DOMAIN Queue' \subseteq Nat \ {0}
    BY <2>1, <2>2, <2>4
  <2>9. \A k \in DOMAIN Queue : k # 1 => Queue'[k - 1] = Queue[k]
    <3>1. \A k \in DOMAIN Queue : k # 1 => Queue'[k - 1] = Queue[(k - 1) + 1]
      BY <2>6, <2>7
    <3> QED BY <2>7, <3>1
  <2> QED BY <2>1, <2>5, <2>6, <2>7, <2>8, <2>9 DEF Shifts
<1>5. ASSUME NEW t \in Tasks, Posts(t) PROVE Grows(t)
  <2>1. Queue' = running \o Append(tasks, t)
    BY <1>5 DEF Queue, Posts
  <2>2. Queue' = Append(Queue, t)
    <3>1. Append(tasks, t) = tasks \o <<t>> /\ <<t>> \in Seq(Tasks)
      BY <1>1, AppendIsConcat
    <3>2. running \o (tasks \o <<t>>) = (running \o tasks) \o <<t>>
      BY <1>1, <3>1, ConcatAssociative
    <3>3. Append(Queue, t) = Queue \o <<t>>
      BY QueueTypes, AppendIsConcat
    <3> QED BY <2>1, <3>1, <3>2, <3>3 DEF Queue
  <2>3. Queue \in Seq(Tasks) /\ DOMAIN Queue = 1..Len(Queue) /\ Len(Queue) \in Nat
    BY QueueTypes
  <2>4. /\ Queue' \in Seq(Tasks) /\ Len(Queue') = Len(Queue) + 1
        /\ \A k \in 1..Len(Queue) : Queue'[k] = Queue[k]
        /\ Queue'[Len(Queue) + 1] = t
    BY <2>2, <2>3, AppendProperties
  <2>5. DOMAIN Queue' = 1..(Len(Queue) + 1)
    BY <2>4, LenProperties
  <2> QED BY <2>3, <2>4, <2>5 DEF Grows
<1> QED BY <1>2, <1>3, <1>4, <1>5

(* What is owed, and sequences of it.                                       *)
LEMMA OwedFrame ==
  ASSUME sent' = sent
  PROVE  /\ \A i : Owed(i)' <=> Owed(i)
         /\ InOrder(delivered)' <=> InOrder(delivered')
         /\ InOrder(Written)' <=> InOrder(Written')
BY DEF Owed, InOrder, InSeq

LEMMA OwedGrows ==
  ASSUME TypeOK, PeerSend
  PROVE  /\ Len(sent') = Len(sent) + 1 /\ Len(sent) \in Nat
         /\ \A i \in 1..Len(sent) : sent'[i] = sent[i]
         /\ \A i \in 1..Len(sent) : Owed(i)' <=> Owed(i)
         /\ InOrder(delivered) => InOrder(delivered)'
         /\ InOrder(Written) => InOrder(Written)'
<1>1. PICK kind \in Kinds : sent' = Append(sent, kind)
  BY DEF PeerSend
<1>2. /\ sent \in Seq(Kinds) /\ Len(sent') = Len(sent) + 1 /\ Len(sent) \in Nat
      /\ \A i \in 1..Len(sent) : sent'[i] = sent[i]
  BY <1>1, AppendProperties, LenProperties DEF TypeOK
<1>3. \A i \in 1..Len(sent) : Owed(i)' <=> Owed(i)
  <2> TAKE i \in 1..Len(sent)
  <2>1. i \in 1..Len(sent') /\ sent'[i] = sent[i] /\ \A j \in 1..(i - 1) : sent'[j] = sent[j]
    BY <1>2
  <2> QED BY <2>1 DEF Owed, Closer
<1>4. UNCHANGED <<delivered, out>> /\ Written' = Written
  BY DEF PeerSend, outVars, Written
<1>5. ASSUME NEW q, q \in {delivered, Written}, InOrder(q)
      PROVE  /\ \A k \in DOMAIN q : Owed(q[k])'
             /\ \A k \in DOMAIN q : \A i \in 1..q[k] : Owed(i)' => InSeq(i, q)
  <2>1. \A k \in DOMAIN q : q[k] \in 1..Len(sent)
    BY <1>5 DEF InOrder, Owed
  <2>2. \A k \in DOMAIN q : \A i \in 1..q[k] : i \in 1..Len(sent)
    BY <1>2, <2>1
  <2> QED BY <1>3, <1>5, <2>1, <2>2 DEF InOrder
<1>6. InOrder(delivered) => InOrder(delivered)'
  BY <1>4, <1>5 DEF InOrder, InSeq
<1>7. InOrder(Written) => InOrder(Written)'
  BY <1>4, <1>5 DEF InOrder, InSeq
<1> QED BY <1>2, <1>3, <1>6, <1>7

LEMMA OrderOfPrefix ==
  ASSUME NEW d \in Seq(Nat), NEW o \in Seq(Nat), InOrder(d \o o)
  PROVE  InOrder(d)
<1>1. /\ DOMAIN d = 1..Len(d) /\ Len(d) \in Nat /\ Len(o) \in Nat
      /\ DOMAIN (d \o o) = 1..(Len(d) + Len(o))
      /\ \A k \in 1..Len(d) : (d \o o)[k] = d[k] /\ d[k] \in Nat
  <2>1. d \o o \in Seq(Nat) /\ Len(d \o o) = Len(d) + Len(o)
        /\ \A i \in 1 .. Len(d) + Len(o) : (d \o o)[i] = IF i <= Len(d) THEN d[i] ELSE o[i - Len(d)]
    BY ConcatProperties
  <2>2. DOMAIN d = 1..Len(d) /\ Len(d) \in Nat /\ Len(o) \in Nat /\ DOMAIN (d \o o) = 1..Len(d \o o)
        /\ \A k \in 1..Len(d) : d[k] \in Nat
    BY <2>1, LenProperties, ElementOfSeq
  <2> QED BY <2>1, <2>2
<1>2. \A k \in DOMAIN d : k \in DOMAIN (d \o o)
  BY <1>1
<1>3. (\A k \in DOMAIN d : Owed(d[k])) /\ \A k, l \in DOMAIN d : k < l => d[k] < d[l]
  BY <1>1, <1>2 DEF InOrder
<1>4. ASSUME NEW k \in DOMAIN d, NEW i \in 1..d[k], Owed(i) PROVE InSeq(i, d)
  <2>1. PICK l \in DOMAIN (d \o o) : (d \o o)[l] = i
    BY <1>1, <1>2, <1>4 DEF InOrder, InSeq
  <2>2. ~(k < l)
    <3>1. k < l => d[k] < i
      BY <1>1, <1>2, <2>1 DEF InOrder
    <3> QED BY <1>1, <3>1
  <2>3. l \in DOMAIN d
    BY <1>1, <2>2
  <2> QED BY <1>1, <2>1, <2>3 DEF InSeq
<1> QED BY <1>3, <1>4 DEF InOrder

LEMMA InAppended ==
  ASSUME NEW q \in Seq(Nat), NEW n \in Nat, NEW i
  PROVE  InSeq(i, Append(q, n)) <=> InSeq(i, q) \/ i = n
<1>1. /\ DOMAIN q = 1..Len(q) /\ Len(q) \in Nat /\ DOMAIN Append(q, n) = 1..(Len(q) + 1)
      /\ \A k \in 1..Len(q) : Append(q, n)[k] = q[k]
      /\ Append(q, n)[Len(q) + 1] = n
  BY AppendProperties, LenProperties
<1>2. \A k \in DOMAIN Append(q, n) : k = Len(q) + 1 \/ k \in DOMAIN q
  BY <1>1
<1>3. (\A k \in DOMAIN q : k \in DOMAIN Append(q, n)) /\ Len(q) + 1 \in DOMAIN Append(q, n)
  BY <1>1
<1> QED BY <1>1, <1>2, <1>3 DEF InSeq

LEMMA OrderOfAppended ==
  ASSUME NEW q \in Seq(Nat), NEW n \in Nat, InOrder(q), Owed(n),
         \A k \in DOMAIN q : q[k] < n,
         \A i \in 1..n : Owed(i) => InSeq(i, q) \/ i = n
  PROVE  /\ InOrder(Append(q, n))
         /\ \A k \in DOMAIN Append(q, n) : Append(q, n)[k] = n \/ (k \in DOMAIN q /\ Append(q, n)[k] = q[k])
<1>1. /\ DOMAIN q = 1..Len(q) /\ Len(q) \in Nat /\ DOMAIN Append(q, n) = 1..(Len(q) + 1)
      /\ \A k \in 1..Len(q) : Append(q, n)[k] = q[k] /\ q[k] \in Nat
      /\ Append(q, n)[Len(q) + 1] = n
  BY AppendProperties, LenProperties, ElementOfSeq
<1>2. \A k \in DOMAIN Append(q, n) : k = Len(q) + 1 \/ (k \in DOMAIN q /\ k < Len(q) + 1)
  BY <1>1
<1>3. \A k \in DOMAIN q : k \in DOMAIN Append(q, n)
  BY <1>1
<1>4. Len(q) + 1 \in DOMAIN Append(q, n)
  BY <1>1
<1>5. \A i : InSeq(i, Append(q, n)) <=> InSeq(i, q) \/ i = n
  BY InAppended
<1>6. \A k \in DOMAIN Append(q, n) : Owed(Append(q, n)[k])
  BY <1>1, <1>2 DEF InOrder
<1>7. \A k, l \in DOMAIN Append(q, n) : k < l => Append(q, n)[k] < Append(q, n)[l]
  <2> SUFFICES ASSUME NEW k \in DOMAIN Append(q, n), NEW l \in DOMAIN Append(q, n), k < l
               PROVE  Append(q, n)[k] < Append(q, n)[l]
    OBVIOUS
  <2>1. k \in DOMAIN q
    BY <1>1, <1>2
  <2>2. CASE l \in DOMAIN q
    BY <1>1, <2>1, <2>2 DEF InOrder
  <2>3. CASE l = Len(q) + 1
    BY <1>1, <2>1, <2>3
  <2> QED BY <1>2, <2>2, <2>3
<1>8. ASSUME NEW k \in DOMAIN Append(q, n), NEW i \in 1..Append(q, n)[k], Owed(i)
      PROVE  InSeq(i, q) \/ i = n
  <2>1. CASE k = Len(q) + 1
    BY <1>1, <1>8, <2>1
  <2>2. CASE k \in DOMAIN q
    BY <1>1, <1>8, <2>2 DEF InOrder
  <2> QED BY <1>2, <2>1, <2>2
<1>9. \A k \in DOMAIN Append(q, n) : Append(q, n)[k] = n \/ (k \in DOMAIN q /\ Append(q, n)[k] = q[k])
  BY <1>1, <1>2
<1> QED BY <1>5, <1>6, <1>7, <1>8, <1>9 DEF InOrder

(* Work, of a connection that lives and was not reset. *)
LEMMA LiveWork ==
  ASSUME TypeOK, Work, ~rst, Live
  PROVE  /\ jobs # <<>> => wpc = "idle"
         /\ Len(jobs) <= 1
         /\ jobs # <<>> \/ wpc # "idle" => ~Queued("done")
<1>1. Len(jobs) <= 1 /\ (jobs # <<>> => wpc = "idle")
      /\ (jobs # <<>> \/ wpc # "idle" => ~Holding(tasks) /\ ~Holding(running))
  <2>1. CASE state = "CONNECTED"
    BY <2>1 DEF Work, WorkInv, OneWhileConnected, OneJob
  <2>2. CASE state = "CONNECTING"
    BY <2>2 DEF Work, WorkInv, Unwatched, Idle
  <2> QED BY <2>1, <2>2 DEF Live
<1> QED BY <1>1, QueueHolds

(* Without work there is nothing to send. *)
LEMMA IdleSendsNothing ==
  ASSUME TypeOK, RawCovered, Idle
  PROVE  ~Queued("send") /\ ~Queued("close")
<1>1. ~Raw(tasks) /\ ~Raw(running)
  BY DEF Idle, RawCovered, Covered, Holding, Raw
<1> QED BY <1>1, QueueHolds

(* Steps that send nothing and write nothing. *)
LEMMA PipelineKept ==
  ASSUME Pipeline, UNCHANGED <<sent, wpc, resp, taken>>, Written' = Written, Queue' = Queue, NoneWaits'
  PROVE  Pipeline'
<1>1. \A i : Owed(i)' <=> Owed(i)
  BY OwedFrame
<1>2. SendsOrdered'
  BY <1>1 DEF Pipeline, SendsOrdered
<1>3. WrittenTaken' /\ RespondsNow'
  BY <1>1 DEF Pipeline, WrittenTaken, RespondsNow
<1>4. NoneSkipped'
  BY <1>1 DEF Pipeline, NoneSkipped, InSeq, Sending
<1>5. ClosesAfter' /\ CloseLast'
  BY DEF Pipeline, ClosesAfter, CloseLast, Closing, Ended, Queued
<1> QED BY <1>2, <1>3, <1>4, <1>5 DEF Pipeline

LEMMA QueueShifts ==
  ASSUME Shifts, Queue[1].op \notin {"send", "close"}
  PROVE  /\ \A i : Sending(i)' <=> Sending(i)
         /\ Queued("close")' <=> Queued("close")
         /\ \A k \in DOMAIN Queue' : k \in Nat
<1>1. \A k \in DOMAIN Queue' : k \in Nat
  BY DEF Shifts
<1>2. ASSUME NEW k \in DOMAIN Queue, Queue[k].op \in {"send", "close"}
      PROVE  \E j \in DOMAIN Queue' : Queue'[j] = Queue[k]
  BY <1>2 DEF Shifts
<1>3. ASSUME NEW k \in DOMAIN Queue' PROVE \E j \in DOMAIN Queue : Queue[j] = Queue'[k]
  BY <1>3 DEF Shifts
<1>4. \A i : Sending(i)' <=> Sending(i)
  BY <1>2, <1>3 DEF Sending
<1>5. Queued("close")' <=> Queued("close")
  BY <1>2, <1>3 DEF Queued
<1> QED BY <1>1, <1>4, <1>5

LEMMA CloseLastShifts ==
  ASSUME CloseLast, wpc' = wpc, Shifts
  PROVE  CloseLast'
<1> SUFFICES ASSUME NEW k \in DOMAIN Queue', Queue'[k].op = "close"
             PROVE  /\ wpc = "finish" \/ \E l \in DOMAIN Queue' : k < l /\ Queue'[l].op = "done"
                    /\ \A l \in DOMAIN Queue' : k < l => Queue'[l].op # "send"
  BY DEF CloseLast
<1>1. k + 1 \in DOMAIN Queue /\ Queue'[k] = Queue[k + 1] /\ k \in Nat
  BY DEF Shifts
<1>2. \A l \in DOMAIN Queue' : k < l => k + 1 < l + 1 /\ l + 1 \in DOMAIN Queue /\ Queue'[l] = Queue[l + 1]
  BY DEF Shifts
<1>3. \A l \in DOMAIN Queue : k + 1 < l => k < l - 1 /\ l - 1 \in DOMAIN Queue' /\ Queue'[l - 1] = Queue[l]
  <2>1. \A l \in DOMAIN Queue : l \in Nat /\ (k + 1 < l => k < l - 1 /\ l # 1)
    BY <1>1 DEF Shifts
  <2> QED BY <2>1 DEF Shifts
<1>4. wpc = "finish" \/ \E l \in DOMAIN Queue : k + 1 < l /\ Queue[l].op = "done"
  BY <1>1 DEF CloseLast
<1>5. \A l \in DOMAIN Queue : k + 1 < l => Queue[l].op # "send"
  BY <1>1 DEF CloseLast
<1> QED BY <1>2, <1>3, <1>4, <1>5

LEMMA PipelineShifts ==
  ASSUME Pipeline, UNCHANGED <<sent, wpc, resp, taken>>, Written' = Written, NoneWaits',
         Shifts, Queue[1].op \notin {"send", "close"}
  PROVE  Pipeline'
<1>1. /\ \A i : Owed(i)' <=> Owed(i)
      /\ \A i : Sending(i)' <=> Sending(i)
      /\ Queued("close")' <=> Queued("close")
      /\ \A k \in DOMAIN Queue' : k \in Nat
  BY OwedFrame, QueueShifts
<1>2. SendsOrdered'
  <2> SUFFICES ASSUME NEW k \in DOMAIN Queue', Queue'[k].op = "send"
               PROVE  /\ Owed(Queue'[k].n) /\ Queue'[k].n <= taken
                      /\ wpc = "respond" => Queue'[k].n < resp
                      /\ \A w \in DOMAIN Written : Written[w] < Queue'[k].n
                      /\ \A l \in DOMAIN Queue' : k < l /\ Queue'[l].op = "send" => Queue'[k].n < Queue'[l].n
    BY <1>1 DEF SendsOrdered
  <2>1. k + 1 \in DOMAIN Queue /\ Queue'[k] = Queue[k + 1]
    BY DEF Shifts
  <2>2. \A l \in DOMAIN Queue' : k < l => k + 1 < l + 1 /\ l + 1 \in DOMAIN Queue /\ Queue'[l] = Queue[l + 1]
    BY <1>1 DEF Shifts
  <2> QED BY <1>1, <2>1, <2>2 DEF Pipeline, SendsOrdered
<1>3. WrittenTaken' /\ RespondsNow'
  BY <1>1 DEF Pipeline, WrittenTaken, RespondsNow
<1>4. NoneSkipped'
  BY <1>1 DEF Pipeline, NoneSkipped, InSeq
<1>5. ClosesAfter'
  BY <1>1 DEF Pipeline, ClosesAfter, Closing, Ended
<1>6. CloseLast'
  BY CloseLastShifts DEF Pipeline
<1> QED BY <1>2, <1>3, <1>4, <1>5, <1>6 DEF Pipeline

LEMMA QueueGrows ==
  ASSUME NEW t, Grows(t)
  PROVE  /\ \A i : Sending(i)' <=> Sending(i) \/ (t.op = "send" /\ t.n = i)
         /\ \A op : Queued(op)' <=> Queued(op) \/ t.op = op
<1>1. PICK n \in Nat :
        /\ \A k \in DOMAIN Queue : k \in Nat /\ k < n /\ k \in DOMAIN Queue' /\ Queue'[k] = Queue[k]
        /\ n \in DOMAIN Queue' /\ Queue'[n] = t
        /\ \A k \in DOMAIN Queue' : k = n \/ k \in DOMAIN Queue
  BY DEF Grows
<1>2. \A i : Sending(i)' <=> Sending(i) \/ (t.op = "send" /\ t.n = i)
  BY <1>1 DEF Sending
<1>3. \A op : Queued(op)' <=> Queued(op) \/ t.op = op
  BY <1>1 DEF Queued
<1> QED BY <1>2, <1>3

LEMMA PipelineGrows ==
  ASSUME Pipeline, UNCHANGED <<sent, resp, taken>>, Written' = Written, NoneWaits',
         NEW t, Grows(t), t.op \notin {"send", "close"},
         wpc' = wpc \/ (wpc = "finish" /\ wpc' = "idle" /\ t.op = "done")
  PROVE  Pipeline'
<1>0. PICK n \in Nat :
        /\ \A k \in DOMAIN Queue : k \in Nat /\ k < n /\ k \in DOMAIN Queue' /\ Queue'[k] = Queue[k]
        /\ n \in DOMAIN Queue' /\ Queue'[n] = t
        /\ \A k \in DOMAIN Queue' : k = n \/ k \in DOMAIN Queue
  BY DEF Grows
<1>1. /\ \A i : Owed(i)' <=> Owed(i)
      /\ \A i : Sending(i)' <=> Sending(i)
      /\ Queued("close")' <=> Queued("close")
      /\ wpc' = "respond" <=> wpc = "respond"
      /\ wpc' \in {"clear", "close"} <=> wpc \in {"clear", "close"}
  BY OwedFrame, QueueGrows
<1>2. \A k \in DOMAIN Queue' : Queue'[k].op \in {"send", "close"} => k \in DOMAIN Queue /\ Queue'[k] = Queue[k]
  BY <1>0
<1>3. SendsOrdered'
  BY <1>1, <1>2 DEF Pipeline, SendsOrdered
<1>4. WrittenTaken' /\ RespondsNow'
  BY <1>1 DEF Pipeline, WrittenTaken, RespondsNow
<1>5. NoneSkipped'
  BY <1>1 DEF Pipeline, NoneSkipped, InSeq
<1>6. ClosesAfter'
  BY <1>1 DEF Pipeline, ClosesAfter, Closing, Ended
<1>7. CloseLast'
  <2> SUFFICES ASSUME NEW k \in DOMAIN Queue', Queue'[k].op = "close"
               PROVE  /\ wpc' = "finish" \/ \E l \in DOMAIN Queue' : k < l /\ Queue'[l].op = "done"
                      /\ \A l \in DOMAIN Queue' : k < l => Queue'[l].op # "send"
    BY DEF CloseLast
  <2>1. k \in DOMAIN Queue /\ Queue[k].op = "close" /\ k < n
    BY <1>0, <1>2
  <2>2. /\ wpc = "finish" \/ \E l \in DOMAIN Queue : k < l /\ Queue[l].op = "done"
        /\ \A l \in DOMAIN Queue : k < l => Queue[l].op # "send"
    BY <2>1 DEF Pipeline, CloseLast
  <2>3. \A l \in DOMAIN Queue' : k < l => Queue'[l].op # "send"
    BY <1>2, <2>2
  <2>4. wpc' = "finish" \/ \E l \in DOMAIN Queue' : k < l /\ Queue'[l].op = "done"
    <3>1. CASE \E l \in DOMAIN Queue : k < l /\ Queue[l].op = "done"
      BY <1>0, <3>1
    <3>2. CASE wpc = "finish"
      BY <1>0, <2>1, <3>2
    <3> QED BY <2>2, <3>1, <3>2
  <2> QED BY <2>3, <2>4
<1> QED BY <1>3, <1>4, <1>5, <1>6, <1>7 DEF Pipeline

(* The worker takes from the input buffer what it answers next.             *)
LEMMA ParseKeepsPipeline ==
  ASSUME TypeOK, Work, ~rst, Live, Pipeline, WorkerParse
  PROVE  Pipeline'
<1>0. /\ wpc = "parse" /\ UNCHANGED <<sent, got, running, tasks, jobs, delivered, out>>
      /\ taken \in Nat /\ got \in Nat /\ taken <= got /\ got <= Len(sent) /\ Len(sent) \in Nat
  BY LenProperties DEF WorkerParse, WorkerFrame, peerVars, outVars, loopVars, TypeOK
<1>q. Queue' = Queue /\ Written' = Written
  BY <1>0 DEF Queue, Written
<1>o. \A i : Owed(i)' <=> Owed(i)
  BY <1>0, OwedFrame
<1>1. ~Queued("close")
  BY <1>0, LiveWork DEF Pipeline, CloseLast, Queued
<1>2. ~Ended
  BY <1>0, <1>1 DEF Pipeline, ClosesAfter, Closing
<1>3. CASE /\ \A i \in (taken + 1)..got : sent[i] = "more"
           /\ taken' \in {taken, got} /\ wpc' = "finish" /\ UNCHANGED resp
  <2>1. taken' \in Nat /\ taken <= taken' /\ taken' <= got
    BY <1>0, <1>3
  <2>2. \A i \in 1..taken' : i \in 1..taken \/ sent[i] = "more"
    BY <1>0, <1>3, <2>1
  <2>3. ~Ended'
    BY <1>0, <1>2, <2>2 DEF Ended, Closer
  <2>4. SendsOrdered' /\ WrittenTaken' /\ RespondsNow'
    <3>1. \A n \in Nat : n <= taken => n <= taken'
      BY <1>0, <2>1
    <3>2. \A k \in DOMAIN Queue : Queue[k].n \in Nat
      BY ElementTypes
    <3>3. \A w \in DOMAIN Written : Written[w] \in Nat
      BY ElementTypes
    <3> QED BY <1>0, <1>3, <1>o, <1>q, <3>1, <3>2, <3>3 DEF Pipeline, SendsOrdered, WrittenTaken, RespondsNow
  <2>5. NoneSkipped'
    <3>1. \A i \in 1..taken' : Owed(i) => i \in 1..taken
      BY <2>2 DEF Owed
    <3> QED BY <1>0, <1>3, <1>o, <1>q, <3>1 DEF Pipeline, NoneSkipped, Sending, InSeq
  <2>6. NoneWaits'
    <3>1. \A n \in Nat : taken <= n => \A i \in (n + 1)..got : i \in (taken + 1)..got
      BY <1>0
    <3>2. \A i \in (taken' + 1)..got : i \in (taken + 1)..got
      BY <2>1, <3>1
    <3> QED BY <1>0, <1>3, <1>o, <3>2 DEF NoneWaits, Owed
  <2>7. ClosesAfter' /\ CloseLast'
    BY <1>1, <1>3, <1>q, <2>3 DEF ClosesAfter, CloseLast, Closing, Queued
  <2> QED BY <2>4, <2>5, <2>6, <2>7 DEF Pipeline
<1>4. ASSUME NEW i \in (taken + 1)..got, sent[i] # "more", \A j \in (taken + 1)..(i - 1) : sent[j] = "more",
             taken' = i, resp' = i, wpc' = "respond"
      PROVE  Pipeline'
  <2>1. i \in Nat /\ i \in 1..Len(sent) /\ taken < i
    BY <1>0
  <2>2. \A j \in 1..(i - 1) : j \in 1..taken \/ sent[j] = "more"
    BY <1>0, <1>4
  <2>3. Owed(i)
    BY <1>2, <1>4, <2>1, <2>2 DEF Owed, Ended, Closer
  <2>4. SendsOrdered' /\ WrittenTaken' /\ RespondsNow'
    <3>1. \A n \in Nat : n <= taken => n <= i /\ n < i
      BY <1>0, <2>1
    <3>2. \A k \in DOMAIN Queue : Queue[k].n \in Nat
      BY ElementTypes
    <3>3. \A w \in DOMAIN Written : Written[w] \in Nat
      BY ElementTypes
    <3> QED BY <1>4, <1>o, <1>q, <2>3, <3>1, <3>2, <3>3 DEF Pipeline, SendsOrdered, WrittenTaken, RespondsNow
  <2>5. NoneSkipped'
    <3>1. \A j \in 1..i : Owed(j) => j \in 1..taken \/ j = i
      <4>1. \A j \in 1..i : j \in 1..(i - 1) \/ j = i
        BY <2>1
      <4> QED BY <2>2, <4>1 DEF Owed
    <3> QED BY <1>0, <1>4, <1>o, <1>q, <3>1 DEF Pipeline, NoneSkipped, Sending, InSeq
  <2>6. NoneWaits'
    BY <1>4 DEF NoneWaits
  <2>7. ClosesAfter'
    <3>1. ~Closing'
      BY <1>1, <1>4, <1>q DEF Closing, Queued
    <3>2. ASSUME Ended' PROVE Closer(sent'[resp'])
      <4>1. PICK j \in 1..i : Closer(sent[j])
        BY <1>0, <1>4, <3>2 DEF Ended, Closer
      <4>2. j = i
        <5>1. j \in 1..(i - 1) \/ j = i
          BY <2>1
        <5> QED BY <1>2, <2>2, <4>1, <5>1 DEF Ended, Closer
      <4> QED BY <1>0, <1>4, <4>1, <4>2
    <3> QED BY <1>4, <3>1, <3>2 DEF ClosesAfter, Closer
  <2>8. CloseLast'
    BY <1>1, <1>q DEF CloseLast, Queued
  <2> QED BY <2>4, <2>5, <2>6, <2>7, <2>8 DEF Pipeline
<1>5. CASE {i \in (taken + 1)..got : sent[i] # "more"} = {}
  <2>1. /\ \A i \in (taken + 1)..got : sent[i] = "more"
        /\ taken' \in {taken, got} /\ wpc' = "finish" /\ UNCHANGED resp
    BY <1>5 DEF WorkerParse
  <2> QED BY <1>3, <2>1
<1>6. CASE {i \in (taken + 1)..got : sent[i] # "more"} # {}
  <2>1. PICK i \in (taken + 1)..got : /\ sent[i] # "more"
                                      /\ \A j \in (taken + 1)..got : sent[j] # "more" => i <= j
                                      /\ taken' = i /\ resp' = i /\ wpc' = "respond"
    BY <1>6 DEF WorkerParse
  <2>2. \A j \in (taken + 1)..(i - 1) : j \in (taken + 1)..got /\ ~(i <= j)
    BY <1>0
  <2> QED BY <1>4, <2>1, <2>2
<1> QED BY <1>5, <1>6

LEMMA RespondKeepsPipeline ==
  ASSUME TypeOK, Answering, Work, ~rst, Live, Pipeline, WorkerRespond
  PROVE  Pipeline'
<1>0. /\ wpc = "respond" /\ UNCHANGED <<sent, got, running, jobs, delivered, out, taken, resp>>
      /\ taken \in Nat /\ got \in Nat /\ sent[resp] \in Kinds /\ sent[resp] # "more"
      /\ tasks' = Append(tasks, SendTask(resp))
  BY ElementOfSeq DEF WorkerRespond, WorkerFrame, peerVars, outVars, loopVars, TypeOK, Answering
<1>1. \/ sent[resp] = "keep" /\ wpc' = "parse"
      \/ Closer(sent[resp]) /\ wpc' \in {"clear", "close"}
  BY <1>0 DEF WorkerRespond, Kinds, Closer
<1>t. SendTask(resp) \in Tasks /\ SendTask(resp).op = "send" /\ SendTask(resp).n = resp
  <2>1. resp \in 0..MaxSegs
    BY ConnectionAssumption DEF TypeOK
  <2> QED BY <2>1, TaskTypes DEF SendTask, Task
<1>2. PICK t \in Tasks : t = SendTask(resp) /\ t.op = "send" /\ t.n = resp /\ Grows(t)
  BY <1>0, <1>t, QueueSteps DEF Posts
<1>3. PICK n \in Nat :
        /\ \A k \in DOMAIN Queue : k \in Nat /\ k < n /\ k \in DOMAIN Queue' /\ Queue'[k] = Queue[k]
        /\ n \in DOMAIN Queue' /\ Queue'[n] = t
        /\ \A k \in DOMAIN Queue' : k = n \/ k \in DOMAIN Queue
  BY <1>2 DEF Grows
<1>o. /\ \A i : Owed(i)' <=> Owed(i)
      /\ Written' = Written
      /\ \A i : Sending(i)' <=> Sending(i) \/ resp = i
      /\ Queued("close")' <=> Queued("close")
  BY <1>0, <1>2, OwedFrame, QueueGrows DEF Written
<1>4. ~Queued("close")
  BY <1>0, LiveWork DEF Pipeline, CloseLast, Queued
<1>5. resp = taken /\ Owed(resp)
  BY <1>0 DEF Pipeline, RespondsNow
<1>6. SendsOrdered'
  <2> SUFFICES ASSUME NEW k \in DOMAIN Queue', Queue'[k].op = "send"
               PROVE  /\ Owed(Queue'[k].n) /\ Queue'[k].n <= taken
                      /\ \A w \in DOMAIN Written : Written[w] < Queue'[k].n
                      /\ \A l \in DOMAIN Queue' : k < l /\ Queue'[l].op = "send" => Queue'[k].n < Queue'[l].n
    BY <1>0, <1>1, <1>o DEF SendsOrdered
  <2>1. CASE k = n
    <3>1. Owed(Queue'[k].n) /\ Queue'[k].n <= taken
      BY <1>0, <1>2, <1>3, <1>5, <2>1
    <3>2. \A w \in DOMAIN Written : Written[w] < Queue'[k].n
      BY <1>0, <1>2, <1>3, <2>1 DEF Pipeline, WrittenTaken
    <3>3. \A l \in DOMAIN Queue' : ~(k < l)
      BY <1>3, <2>1
    <3> QED BY <3>1, <3>2, <3>3
  <2>2. CASE k \in DOMAIN Queue
    <3>1. Queue'[k] = Queue[k]
      BY <1>3, <2>2
    <3>2. /\ Owed(Queue[k].n) /\ Queue[k].n <= taken /\ Queue[k].n < resp
          /\ \A w \in DOMAIN Written : Written[w] < Queue[k].n
          /\ \A l \in DOMAIN Queue : k < l /\ Queue[l].op = "send" => Queue[k].n < Queue[l].n
      BY <1>0, <2>2, <3>1 DEF Pipeline, SendsOrdered
    <3>3. \A l \in DOMAIN Queue' : k < l /\ Queue'[l].op = "send" => Queue'[k].n < Queue'[l].n
      BY <1>2, <1>3, <3>1, <3>2
    <3> QED BY <3>1, <3>2, <3>3
  <2> QED BY <1>3, <2>1, <2>2
<1>7. WrittenTaken' /\ RespondsNow'
  BY <1>0, <1>1, <1>o DEF Pipeline, WrittenTaken, RespondsNow
<1>8. NoneSkipped'
  BY <1>0, <1>1, <1>o DEF Pipeline, NoneSkipped, InSeq
<1>9. NoneWaits'
  <2>1. ASSUME Closer(sent[resp]), NEW i \in (taken + 1)..got PROVE ~Owed(i)
    <3>1. taken \in 1..(i - 1)
      BY <1>0, <1>5, <2>1 DEF Owed
    <3> QED BY <1>5, <2>1, <3>1 DEF Owed
  <2> QED BY <1>0, <1>1, <1>o, <2>1 DEF NoneWaits
<1>10. ClosesAfter'
  <2>1. Closer(sent[resp]) => Ended
    BY <1>5 DEF Ended, Owed
  <2>2. Ended' <=> Ended
    BY <1>0 DEF Ended
  <2>3. Ended => Closer(sent[resp])
    BY <1>0, <1>4 DEF Pipeline, ClosesAfter, Closing
  <2>4. Closing' <=> Closer(sent[resp])
    BY <1>1, <1>4, <1>o DEF Closing, Closer
  <2> QED BY <2>1, <2>2, <2>3, <2>4 DEF ClosesAfter
<1>11. CloseLast'
  BY <1>4, <1>o DEF CloseLast, Queued
<1> QED BY <1>6, <1>7, <1>8, <1>9, <1>10, <1>11 DEF Pipeline

LEMMA ClearKeepsPipeline ==
  ASSUME TypeOK, Pipeline, WorkerClear
  PROVE  Pipeline'
<1>0. /\ wpc = "clear" /\ wpc' = "close" /\ taken' = got
      /\ UNCHANGED <<sent, got, running, tasks, jobs, delivered, out, resp>>
      /\ taken \in Nat /\ got \in Nat /\ taken <= got
  BY DEF WorkerClear, WorkerFrame, peerVars, outVars, loopVars, TypeOK
<1>o. (\A i : Owed(i)' <=> Owed(i)) /\ Queue' = Queue /\ Written' = Written
  BY <1>0, OwedFrame DEF Queue, Written
<1>1. PICK j \in 1..taken : Closer(sent[j])
  BY <1>0 DEF Pipeline, ClosesAfter, Closing, Ended
<1>2. \A i \in 1..got : Owed(i) => i \in 1..taken
  <2>1. \A i \in 1..got : i \in 1..taken \/ j \in 1..(i - 1)
    BY <1>0
  <2> QED BY <1>1, <2>1 DEF Owed
<1>3. SendsOrdered' /\ WrittenTaken' /\ RespondsNow'
  <2>1. \A n \in Nat : n <= taken => n <= got
    BY <1>0
  <2>2. \A k \in DOMAIN Queue : Queue[k].n \in Nat
    BY ElementTypes
  <2>3. \A w \in DOMAIN Written : Written[w] \in Nat
    BY ElementTypes
  <2> QED BY <1>0, <1>o, <2>1, <2>2, <2>3 DEF Pipeline, SendsOrdered, WrittenTaken, RespondsNow
<1>4. NoneSkipped'
  BY <1>0, <1>o, <1>2 DEF Pipeline, NoneSkipped, Sending, InSeq
<1>5. NoneWaits'
  BY <1>0 DEF NoneWaits
<1>6. ClosesAfter'
  <2>1. j \in 1..got
    BY <1>0
  <2>2. Ended' /\ Closing'
    BY <1>0, <1>1, <2>1 DEF Ended, Closing
  <2> QED BY <2>2 DEF ClosesAfter
<1>7. CloseLast'
  BY <1>0, <1>o DEF Pipeline, CloseLast
<1> QED BY <1>3, <1>4, <1>5, <1>6, <1>7 DEF Pipeline

LEMMA CloseKeepsPipeline ==
  ASSUME TypeOK, Pipeline, WorkerClose
  PROVE  Pipeline'
<1>0. /\ wpc = "close" /\ wpc' = "finish"
      /\ UNCHANGED <<sent, got, running, jobs, delivered, out, resp, taken>>
      /\ tasks' = Append(tasks, Simple("close"))
  BY DEF WorkerClose, WorkerFrame, peerVars, outVars, loopVars
<1>1. PICK t \in Tasks : t = Simple("close") /\ t.op = "close" /\ Grows(t)
  <2>1. Simple("close") \in Tasks /\ Simple("close").op = "close"
    BY TaskTypes DEF Simple, Task, Ops
  <2> QED BY <1>0, <2>1, QueueSteps DEF Posts
<1>2. PICK n \in Nat :
        /\ \A k \in DOMAIN Queue : k \in Nat /\ k < n /\ k \in DOMAIN Queue' /\ Queue'[k] = Queue[k]
        /\ n \in DOMAIN Queue' /\ Queue'[n] = t
        /\ \A k \in DOMAIN Queue' : k = n \/ k \in DOMAIN Queue
  BY <1>1 DEF Grows
<1>o. /\ \A i : Owed(i)' <=> Owed(i)
      /\ Written' = Written
      /\ \A i : Sending(i)' <=> Sending(i)
  BY <1>0, <1>1, OwedFrame, QueueGrows DEF Written
<1>3. \A k \in DOMAIN Queue' : Queue'[k].op = "send" => k \in DOMAIN Queue /\ Queue'[k] = Queue[k]
  BY <1>1, <1>2
<1>4. SendsOrdered'
  BY <1>0, <1>o, <1>3 DEF Pipeline, SendsOrdered
<1>5. WrittenTaken' /\ RespondsNow'
  BY <1>0, <1>o DEF Pipeline, WrittenTaken, RespondsNow
<1>6. NoneSkipped' /\ NoneWaits'
  BY <1>0, <1>o DEF Pipeline, NoneSkipped, NoneWaits, InSeq
<1>7. ClosesAfter'
  <2>1. Ended
    BY <1>0 DEF Pipeline, ClosesAfter, Closing
  <2>2. Ended' /\ Closing'
    BY <1>0, <1>1, <1>2, <2>1 DEF Ended, Closing, Queued
  <2> QED BY <2>2 DEF ClosesAfter
<1>8. CloseLast'
  <2> SUFFICES ASSUME NEW k \in DOMAIN Queue', Queue'[k].op = "close", NEW l \in DOMAIN Queue', k < l
               PROVE  Queue'[l].op # "send"
    BY <1>0 DEF CloseLast
  <2>1. CASE l = n
    BY <1>1, <1>2, <2>1
  <2>2. CASE l \in DOMAIN Queue
    <3>1. k \in DOMAIN Queue /\ Queue[k].op = "close"
      BY <1>2, <2>2
    <3> QED BY <1>2, <2>2, <3>1 DEF Pipeline, CloseLast
  <2> QED BY <1>2, <2>1, <2>2
<1> QED BY <1>4, <1>5, <1>6, <1>7, <1>8 DEF Pipeline

LEMMA WorkerKeepsFlow ==
  ASSUME TypeOK, Answering, Work, FlowInv, Worker
  PROVE  FlowInv'
<1>0. /\ UNCHANGED <<sent, fin, rst, state, got, delivered, out, running, expired>>
      /\ jobs \in Seq(Dones) /\ cur \in Dones
  BY DEF Worker, WorkerPop, WorkerParse, WorkerRespond, WorkerClear, WorkerClose, WorkerFinish, WorkerFrame,
         peerVars, outVars, loopVars, TypeOK
<1>o. /\ Written' = Written /\ (\A i : Owed(i)' <=> Owed(i))
      /\ (InOrder(delivered)' <=> InOrder(delivered)) /\ (InOrder(Written)' <=> InOrder(Written))
  BY <1>0, OwedFrame DEF Written
<1>1. ASSUME ~rst, Live, Pipeline PROVE Pipeline'
  <2>1. CASE WorkerPop
    <3>1. /\ wpc = "idle" /\ jobs # <<>> /\ wpc' = "parse" /\ UNCHANGED <<taken, tasks, resp>>
      BY <2>1 DEF WorkerPop
    <3>2. Queue' = Queue
      BY <1>0, <3>1 DEF Queue
    <3>3. ~Queued("close")
      BY <1>1, <3>1, LiveWork DEF Pipeline, CloseLast, Queued
    <3>4. SendsOrdered' /\ WrittenTaken' /\ RespondsNow'
      BY <1>o, <3>1, <3>2, <1>1 DEF Pipeline, SendsOrdered, WrittenTaken, RespondsNow
    <3>5. NoneSkipped' /\ NoneWaits'
      BY <1>o, <3>1, <3>2, <1>1 DEF Pipeline, NoneSkipped, NoneWaits, InSeq, Sending
    <3>6. ClosesAfter' /\ CloseLast'
      BY <1>0, <3>1, <3>2, <3>3, <1>1 DEF Pipeline, ClosesAfter, CloseLast, Closing, Ended, Queued
    <3> QED BY <3>4, <3>5, <3>6 DEF Pipeline
  <2>2. CASE WorkerFinish
    <3>1. PICK t \in Tasks : t.op = "done" /\ Grows(t)
      <4>1. DoneTask(cur) \in Tasks /\ DoneTask(cur).op = "done"
        BY <1>0, TaskTypes DEF DoneTask, Task
      <4> QED BY <1>0, <2>2, <4>1, QueueSteps DEF WorkerFinish, Posts
    <3>2. /\ wpc = "finish" /\ wpc' = "idle" /\ UNCHANGED <<taken, jobs, resp>>
      BY <2>2 DEF WorkerFinish
    <3>3. NoneWaits'
      BY <1>0, <1>1, <1>o, <3>2 DEF Pipeline, NoneWaits
    <3> QED BY <1>0, <1>1, <1>o, <3>1, <3>2, <3>3, PipelineGrows
  <2> QED BY <1>1, <2>1, <2>2, ParseKeepsPipeline, RespondKeepsPipeline, ClearKeepsPipeline, CloseKeepsPipeline
          DEF Worker
<1>2. ASSUME NoRelease PROVE NoRelease'
  <2>1. \A i \in DOMAIN jobs : jobs[i] # "release"
    BY <1>2 DEF NoRelease
  <2>2. CASE WorkerPop
    <3>1. /\ jobs # <<>> /\ jobs' = Tail(jobs) /\ cur' = Head(jobs) /\ UNCHANGED tasks
      BY <2>2 DEF WorkerPop
    <3>2. Head(jobs) = jobs[1] /\ 1 \in DOMAIN jobs
      BY <1>0, <3>1, HeadTailProperties, LenProperties
    <3>3. \A i \in DOMAIN Tail(jobs) : i + 1 \in DOMAIN jobs /\ Tail(jobs)[i] = jobs[i + 1]
      BY <1>0, <3>1, HeadTailProperties, LenProperties
    <3>4. Queue' = Queue
      BY <1>0, <3>1 DEF Queue
    <3> QED BY <1>2, <3>1, <3>2, <3>3, <3>4 DEF NoRelease
  <2>3. CASE WorkerParse \/ WorkerClear
    <3>1. wpc # "idle" /\ UNCHANGED <<jobs, tasks, cur>>
      BY <2>3 DEF WorkerParse, WorkerClear
    <3>2. Queue' = Queue
      BY <1>0, <3>1 DEF Queue
    <3> QED BY <1>2, <3>1, <3>2 DEF NoRelease
  <2>4. ASSUME NEW t \in Tasks, Grows(t), t.op = "done" => t.done # "release", wpc # "idle", UNCHANGED <<jobs, cur>>
        PROVE  NoRelease'
    <3>1. \A k \in DOMAIN Queue' : Queue'[k] = t \/ (k \in DOMAIN Queue /\ Queue'[k] = Queue[k])
      BY <2>4 DEF Grows
    <3> QED BY <1>2, <2>4, <3>1 DEF NoRelease
  <2>5. CASE WorkerRespond
    <3>1. resp \in 0..MaxSegs
      BY ConnectionAssumption DEF TypeOK
    <3>2. SendTask(resp) \in Tasks /\ SendTask(resp).op = "send"
      BY <3>1, TaskTypes DEF SendTask, Task
    <3>3. Posts(SendTask(resp)) /\ wpc # "idle" /\ UNCHANGED <<jobs, cur>>
      BY <1>0, <2>5 DEF WorkerRespond, Posts
    <3> QED BY <2>4, <3>2, <3>3, QueueSteps
  <2>6. CASE WorkerClose
    <3>1. Simple("close") \in Tasks /\ Simple("close").op = "close"
      BY TaskTypes DEF Simple, Task, Ops
    <3>2. Posts(Simple("close")) /\ wpc # "idle" /\ UNCHANGED <<jobs, cur>>
      BY <1>0, <2>6 DEF WorkerClose, Posts
    <3> QED BY <2>4, <3>1, <3>2, QueueSteps
  <2>7. CASE WorkerFinish
    <3>1. DoneTask(cur) \in Tasks /\ DoneTask(cur).done = cur
      BY <1>0, TaskTypes DEF DoneTask, Task
    <3>2. Posts(DoneTask(cur)) /\ wpc # "idle" /\ UNCHANGED <<jobs, cur>>
      BY <1>0, <2>7 DEF WorkerFinish, Posts
    <3>3. cur # "release"
      BY <1>2, <3>2 DEF NoRelease
    <3> QED BY <2>4, <3>1, <3>2, <3>3, QueueSteps
  <2> QED BY <2>2, <2>3, <2>5, <2>6, <2>7 DEF Worker
<1>3. Finished => Finished'
  BY <1>0, <1>o DEF Finished, Closer, InSeq
<1>4. (Open' <=> Open) /\ (Live' <=> Live)
  BY <1>0 DEF Open, Live
<1> QED BY <1>0, <1>o, <1>1, <1>2, <1>3, <1>4 DEF FlowInv

-----------------------------------------------------------------------------
(* Steps that leave the way of the responses alone, whatever they do to the *)
(* connection's channel, timer and jobs.                                    *)
LEMMA FlowKept ==
  ASSUME TypeOK, FlowInv,
         UNCHANGED <<sent, rst, state, taken, wpc, resp, cur, delivered, out, expired>>,
         fin => fin', got' = got \/ state # "CONNECTING",
         \/ UNCHANGED <<jobs, got>>
         \/ \E d \in Dones : jobs' = Append(jobs, d) /\ (d = "release" => rst \/ ~Open),
         Queue' = Queue
  PROVE  FlowInv'
<1>o. /\ Written' = Written /\ (\A i : Owed(i)' <=> Owed(i))
      /\ (InOrder(delivered)' <=> InOrder(delivered)) /\ (InOrder(Written)' <=> InOrder(Written))
  BY OwedFrame DEF Written
<1>j. ASSUME NEW d \in Dones, jobs' = Append(jobs, d)
      PROVE  jobs' # <<>> /\ \A i \in DOMAIN jobs' : jobs'[i] = d \/ (i \in DOMAIN jobs /\ jobs'[i] = jobs[i])
  <2>0. jobs \in Seq(Dones)
    BY DEF TypeOK
  <2>1. /\ jobs' \in Seq(Dones) /\ jobs' # <<>> /\ Len(jobs') = Len(jobs) + 1
        /\ \A i \in 1..Len(jobs) : jobs'[i] = jobs[i]
        /\ jobs'[Len(jobs) + 1] = d
    BY <1>j, <2>0, AppendProperties
  <2>2. DOMAIN jobs' = 1..(Len(jobs) + 1) /\ DOMAIN jobs = 1..Len(jobs) /\ Len(jobs) \in Nat
    BY <2>0, <2>1, LenProperties
  <2> QED BY <2>1, <2>2
<1>1. ASSUME Pipeline PROVE Pipeline'
  <2>1. NoneWaits'
    <3>1. CASE UNCHANGED <<jobs, got>>
      BY <1>1, <1>o, <3>1 DEF Pipeline, NoneWaits
    <3>2. CASE jobs' # <<>>
      BY <3>2 DEF NoneWaits
    <3> QED BY <1>j, <3>1, <3>2
  <2> QED BY <1>1, <1>o, <2>1, PipelineKept
<1>2. ASSUME NoRelease, ~rst, Open PROVE NoRelease'
  BY <1>2, <1>j DEF NoRelease
<1>3. Finished => Finished'
  BY <1>o DEF Finished, Closer, InSeq
<1>4. (Open' <=> Open) /\ (Live' <=> Live)
  BY DEF Open, Live
<1>5. state' = "CONNECTING" => got' = 0
  BY DEF FlowInv
<1> QED BY <1>o, <1>1, <1>2, <1>3, <1>4, <1>5 DEF FlowInv

(* The connection begins to close, or is released, when all is written.     *)
LEMMA FlowCloses ==
  ASSUME TypeOK, FlowInv,
         UNCHANGED <<sent, fin, rst, delivered, out, wpc, cur, expired>>,
         state' \in {"DISCONNECTING", "DISCONNECTED"},
         ~rst /\ ~expired =>
           /\ fin \/ \E j \in 1..Len(sent) : Closer(sent[j])
           /\ \A i \in 1..Len(sent) : Owed(i) => InSeq(i, Written)
           /\ state' = "DISCONNECTED" => out = <<>>,
         expired => state' = "DISCONNECTED",
         ~rst /\ state' # "DISCONNECTED" => NoRelease'
  PROVE  FlowInv'
<1>o. /\ Written' = Written /\ (\A i : Owed(i)' <=> Owed(i))
      /\ (InOrder(delivered)' <=> InOrder(delivered)) /\ (InOrder(Written)' <=> InOrder(Written))
  BY OwedFrame DEF Written
<1>1. ~rst /\ ~expired => Finished'
  BY <1>o DEF Finished, Closer, InSeq
<1>2. ~Live' /\ state' # "CONNECTING" /\ (Open' => state' # "DISCONNECTED")
  BY DEF Live, Open
<1> QED BY <1>o, <1>1, <1>2 DEF FlowInv, Open

(* The timer releases it whatever is left. *)
LEMMA FlowExpires ==
  ASSUME TypeOK, FlowInv, UNCHANGED <<sent, rst, delivered, out>>, expired', state' = "DISCONNECTED"
  PROVE  FlowInv'
<1>1. /\ (InOrder(delivered)' <=> InOrder(delivered)) /\ (InOrder(Written)' <=> InOrder(Written))
  BY OwedFrame DEF Written
<1> QED BY <1>1 DEF FlowInv, Open, Live

(* After a reset only what was delivered matters. *)
LEMMA FlowReset ==
  ASSUME TypeOK, FlowInv, rst', UNCHANGED <<sent, delivered>>, expired' => ~Open',
         state' = "CONNECTING" => got' = 0
  PROVE  FlowInv'
<1>1. InOrder(delivered)' <=> InOrder(delivered)
  BY OwedFrame
<1> QED BY <1>1 DEF FlowInv

LEMMA OperationStates ==
  /\ Stay => UNCHANGED <<state, jobs>>
  /\ Release => state' = "DISCONNECTED" /\ UNCHANGED jobs
  /\ ReleaseAfterInput => \/ UNCHANGED state /\ jobs' = Append(jobs, "release")
                          \/ state' = "DISCONNECTED" /\ UNCHANGED jobs
  /\ FinishClose => \/ UNCHANGED <<state, jobs>>
                    \/ state' = "DISCONNECTED" /\ UNCHANGED jobs /\ out = <<>>
  /\ CloseConn => \/ state \in {"DISCONNECTED", "DISCONNECTING"} /\ UNCHANGED <<state, jobs>>
                  \/ /\ Live /\ state' \in {"DISCONNECTING", "DISCONNECTED"}
                     /\ state' = "DISCONNECTED" => out = <<>>
                     /\ jobs' = jobs \/ jobs' = Append(jobs, "finish")
BY DEF Stay, Release, ReleaseOpen, ReleaseAfterInput, FinishClose, CloseConn, SubmitJob, Live, connVars,
       channelVars

(* Jobs of a connection that is not released: another one may come.         *)
LEMMA NoReleaseKept ==
  ASSUME TypeOK, NoRelease, UNCHANGED <<wpc, cur>>, jobs' = jobs \/ jobs' = Append(jobs, "finish"),
         \A k \in DOMAIN Queue' : \E l \in DOMAIN Queue : Queue'[k] = Queue[l]
  PROVE  NoRelease'
<1>1. \A i \in DOMAIN jobs' : jobs'[i] = "finish" \/ (i \in DOMAIN jobs /\ jobs'[i] = jobs[i])
  <2>0. jobs \in Seq(Dones) /\ "finish" \in Dones
    BY DEF TypeOK, Dones
  <2>1. CASE jobs' = Append(jobs, "finish")
    <3>1. /\ jobs' \in Seq(Dones) /\ Len(jobs') = Len(jobs) + 1
          /\ \A i \in 1..Len(jobs) : jobs'[i] = jobs[i]
          /\ jobs'[Len(jobs) + 1] = "finish"
      BY <2>0, <2>1, AppendProperties
    <3>2. DOMAIN jobs' = 1..(Len(jobs) + 1) /\ DOMAIN jobs = 1..Len(jobs) /\ Len(jobs) \in Nat
      BY <2>0, <3>1, LenProperties
    <3> QED BY <3>1, <3>2
  <2> QED BY <2>1
<1>2. \A k \in DOMAIN Queue' : Queue'[k].op = "done" => Queue'[k].done # "release"
  BY DEF NoRelease
<1> QED BY <1>1, <1>2 DEF NoRelease

LEMMA HandlersKeepFlow ==
  ASSUME TypeOK, ReleasedOnce, Work, RawCovered, FlowInv, HandlesEvent
  PROVE  FlowInv'
<1>0. /\ UNCHANGED <<sent, fin, rst, taken, wpc, resp, cur, running, tasks>>
      /\ lpc = "batch" /\ batch # <<>>
  BY HandlersLeaveQueue
  DEF HandlesEvent, HandleConn, HandleClose, HandleReadData, HandleReadEnd, HandleWriteEmpty, HandleWriteSome,
      HandleWriteAgain, HandleWriteFails, HandleFreed, HandleTimer, Handling, peerVars, workerVars
<1>q. Queue' = Queue
  BY <1>0 DEF Queue
<1>b. HandleConn => InBatch
  <2>1. HandleConn => Head(batch) = "conn"
    BY DEF HandleConn, HandleClose, HandleReadData, HandleReadEnd, HandleWriteEmpty, HandleWriteSome,
           HandleWriteAgain, HandleWriteFails, HandleFreed, Handling
  <2>2. HandleConn => batch[1] = "conn" /\ 1 \in DOMAIN batch
    BY <1>0, <2>1 DEF TypeOK
  <2> QED BY <2>2 DEF InBatch
<1>u. revents # {} => state # "CONNECTING"
  BY DEF Work, WorkInv, Unwatched
<1>s. /\ Stay => UNCHANGED <<state, jobs>>
      /\ \A t : ReleaseOpen(t) => state' = "DISCONNECTED" /\ UNCHANGED jobs
  BY OperationStates DEF ReleaseOpen
<1>1. CASE HandleClose
  <2>1. rst /\ state # "CONNECTING" /\ ReleaseAfterInput /\ UNCHANGED <<got, outVars, expired>>
    BY <1>1, <1>u DEF HandleClose, Work, WorkInv, ResetSeen
  <2>2. state' = state \/ state' = "DISCONNECTED"
    BY <2>1, OperationStates
  <2> QED BY <1>0, <2>1, <2>2, FlowReset DEF outVars, FlowInv, Open
<1>2. CASE HandleReadData
  <2>1. /\ state # "CONNECTING" /\ jobs' = Append(jobs, "resume")
        /\ UNCHANGED <<state, delivered, out, expired>>
    BY <1>2, <1>u DEF HandleReadData, SubmitJob, outVars
  <2> QED BY <1>0, <1>q, <2>1, FlowKept DEF Dones
<1>3. CASE HandleReadEnd
  <2>1. /\ state # "CONNECTING" /\ CloseConn /\ UNCHANGED <<got, delivered, out, expired>>
        /\ "IN" \in revents /\ ((~Unread /\ fin) \/ rst \/ ~Open)
    BY <1>3, <1>u DEF HandleReadEnd, outVars
  <2>2. CASE rst
    <3>1. state' = state \/ state' \in {"DISCONNECTING", "DISCONNECTED"}
      BY <2>1, OperationStates
    <3>2. expired => state' = "DISCONNECTED"
      BY <2>1, OperationStates DEF FlowInv, Open, Live
    <3> QED BY <1>0, <2>1, <2>2, <3>1, <3>2, FlowReset DEF Open
  <2>3. CASE UNCHANGED <<state, jobs>>
    BY <1>0, <1>q, <2>1, <2>3, FlowKept
  <2>4. CASE ~rst /\ Live
    <3>1. Idle /\ fin /\ ~Unread
      BY <1>0, <1>3, <1>b, <2>1, <2>4 DEF HandleConn, Work, WorkInv, BatchIdle, Live, Open
    <3>2. got = Len(sent) /\ Len(sent) \in Nat /\ taken \in Nat /\ taken <= got
      BY <3>1, LenProperties DEF Unread, TypeOK
    <3>3. Pipeline /\ Open /\ ~expired /\ NoRelease
      BY <2>4 DEF FlowInv, Live, Open
    <3>4. \A i \in 1..Len(sent) : Owed(i) => InSeq(i, Written)
      <4>1. ~Queued("send") /\ wpc = "idle" /\ jobs = <<>>
        BY <3>1, IdleSendsNothing DEF Idle
      <4>2. \A i \in 1..taken : Owed(i) => InSeq(i, Written)
        BY <3>3, <4>1 DEF Pipeline, NoneSkipped, Sending, Queued
      <4>3. \A i \in (taken + 1)..got : ~Owed(i)
        BY <3>3, <4>1 DEF Pipeline, NoneWaits
      <4>4. \A i \in 1..Len(sent) : i \in 1..taken \/ i \in (taken + 1)..got
        BY <3>2
      <4> QED BY <4>2, <4>3, <4>4
    <3>5. /\ state' \in {"DISCONNECTING", "DISCONNECTED"} /\ (state' = "DISCONNECTED" => out = <<>>)
          /\ jobs' = jobs \/ jobs' = Append(jobs, "finish")
      BY <2>1, <2>4, OperationStates DEF Live
    <3>6. NoRelease'
      BY <1>0, <1>q, <3>3, <3>5, NoReleaseKept
    <3> QED BY <1>0, <2>1, <3>1, <3>3, <3>4, <3>5, <3>6, FlowCloses
  <2> QED BY <2>1, <2>2, <2>3, <2>4, OperationStates
<1>4. CASE HandleWriteEmpty
  <2>1. UNCHANGED <<got, delivered, out, expired>> /\ out = <<>>
    BY <1>4 DEF HandleWriteEmpty, outVars
  <2>2. CASE state = "DISCONNECTING" /\ ReleaseOpen(timer)
    <3>1. ~expired /\ (~rst => Finished)
      BY <2>2 DEF FlowInv, Open, Live
    <3> QED BY <1>0, <1>s, <2>1, <2>2, <3>1, FlowCloses DEF Finished
  <2>3. CASE UNCHANGED <<state, jobs>>
    BY <1>0, <1>q, <2>1, <2>3, FlowKept
  <2> QED BY <1>4, <2>2, <2>3 DEF HandleWriteEmpty
<1>5. CASE HandleWriteSome
  <2>1. UNCHANGED <<state, jobs, got, expired>> /\ ~rst
    BY <1>5, <1>s DEF HandleWriteSome
  <2>2. PICK n \in 1..Len(out) : /\ delivered' = delivered \o SubSeq(out, 1, n)
                                 /\ out' = SubSeq(out, n + 1, Len(out))
    BY <1>5 DEF HandleWriteSome
  <2>3. out \in Seq(Nat) /\ delivered \in Seq(Nat)
    BY DEF TypeOK
  <2>4. PICK a \in Seq(Nat), b \in Seq(Nat) : a = SubSeq(out, 1, n) /\ b = SubSeq(out, n + 1, Len(out)) /\ a \o b = out
    <3>1. Len(out) \in Nat /\ n \in 0..Len(out) /\ 1 \in 1..(Len(out) + 1) /\ Len(out) \in n..Len(out)
      BY <2>3, LenProperties
    <3>2. SubSeq(out, 1, n) \o SubSeq(out, n + 1, Len(out)) = SubSeq(out, 1, Len(out))
      BY <2>3, <3>1, ConcatAdjacentSubSeq
    <3>3. SubSeq(out, 1, n) \in Seq(Nat) /\ SubSeq(out, n + 1, Len(out)) \in Seq(Nat)
      BY <2>3, Parted
    <3>4. SubSeq(out, 1, Len(out)) = out
      BY <2>3, SubSeqFull
    <3> QED BY <3>2, <3>3, <3>4
  <2>5. Written' = Written /\ delivered' \in Seq(Nat) /\ out' \in Seq(Nat)
    <3>1. delivered' = delivered \o a /\ out' = b
      BY <2>2, <2>4
    <3>2. (delivered \o a) \o b = delivered \o (a \o b)
      BY <2>3, ConcatAssociative, SMTT(60)
    <3>3. delivered \o a \in Seq(Nat)
      BY <2>3, ConcatProperties
    <3> QED BY <2>4, <3>1, <3>2, <3>3 DEF Written
  <2>6. InOrder(delivered')
    <3>1. InOrder(delivered' \o out')
      BY <2>1, <2>5 DEF FlowInv, Written
    <3> QED BY <2>5, <3>1, OrderOfPrefix
  <2>7. InOrder(delivered)' /\ InOrder(Written)' /\ (\A i : Owed(i)' <=> Owed(i))
    BY <1>0, <2>1, <2>5, <2>6, OwedFrame DEF FlowInv
  <2>8. Live => Pipeline'
    <3>1. Live => Pipeline
      BY <2>1 DEF FlowInv
    <3>2. Pipeline => NoneWaits'
      BY <1>0, <2>1, <2>7 DEF Pipeline, NoneWaits
    <3> QED BY <1>0, <1>q, <2>5, <3>1, <3>2, PipelineKept
  <2>9. ~Live /\ ~expired => Finished'
    <3>1. Open
      BY <1>5 DEF HandleWriteSome
    <3> QED BY <1>0, <2>1, <2>5, <2>7, <3>1 DEF FlowInv, Finished, Open, Closer, InSeq
  <2>10. Open => NoRelease'
    BY <1>0, <1>q, <2>1 DEF FlowInv, NoRelease
  <2> QED BY <1>0, <2>1, <2>7, <2>8, <2>9, <2>10 DEF FlowInv, Open, Live
<1>6. CASE HandleWriteAgain
  BY <1>0, <1>q, <1>s, <1>6, FlowKept DEF HandleWriteAgain, outVars
<1>7. CASE HandleWriteFails
  <2>1. /\ out # <<>> /\ out' = <<>> /\ (rst \/ ~Open) /\ ReleaseAfterInput /\ UNCHANGED <<got, delivered, expired>>
        /\ state # "CONNECTING"
    BY <1>7, <1>u DEF HandleWriteFails
  <2>2. state' = state \/ state' = "DISCONNECTED"
    BY <2>1, OperationStates
  <2>3. CASE rst
    BY <1>0, <2>1, <2>2, <2>3, FlowReset DEF FlowInv, Open
  <2>4. CASE ~rst
    <3>1. state = "DISCONNECTED" /\ state' = "DISCONNECTED" /\ expired
      BY <2>1, <2>2, <2>4 DEF FlowInv, Finished, Open, Live
    <3>2. Written' = delivered
      BY <2>1, ConcatEmptySeq DEF Written, TypeOK
    <3>3. InOrder(delivered)' /\ InOrder(Written)'
      BY <1>0, <2>1, <3>2, OwedFrame DEF FlowInv
    <3> QED BY <1>0, <2>1, <3>1, <3>3 DEF FlowInv, Open, Live
  <2> QED BY <2>3, <2>4
<1>8. CASE HandleFreed
  BY <1>0, <1>q, <1>s, <1>8, FlowKept DEF HandleFreed, outVars
<1>9. CASE HandleTimer
  <2>1. UNCHANGED <<got, delivered, out>>
    BY <1>9 DEF HandleTimer, outVars
  <2>2. CASE timer = "active" /\ ReleaseOpen("none")
    BY <1>0, <1>9, <1>s, <2>1, <2>2, FlowExpires DEF HandleTimer
  <2>3. CASE timer # "active" /\ UNCHANGED <<state, jobs>>
    <3>1. expired' = expired
      BY <1>9, <2>3 DEF HandleTimer, TypeOK
    <3> QED BY <1>0, <1>q, <2>1, <2>3, <3>1, FlowKept
  <2>4. Open \/ timer # "active"
    BY DEF ReleasedOnce
  <2> QED BY <1>9, <2>2, <2>3, <2>4 DEF HandleTimer
<1> QED BY <1>1, <1>2, <1>3, <1>4, <1>5, <1>6, <1>7, <1>8, <1>9 DEF HandlesEvent, HandleConn

-----------------------------------------------------------------------------
(* The loop runs its tasks. *)

(* A task that writes nothing and closes nothing.                           *)
LEMMA FlowShifts ==
  ASSUME TypeOK, FlowInv,
         UNCHANGED <<sent, fin, rst, got, taken, wpc, resp, cur, delivered, out, jobs, expired>>,
         state' = state \/ (state = "CONNECTING" /\ state' = "CONNECTED"),
         Shifts, Queue[1].op \notin {"send", "close"} \/ ~Live
  PROVE  FlowInv'
<1>o. /\ Written' = Written /\ (\A i : Owed(i)' <=> Owed(i))
      /\ (InOrder(delivered)' <=> InOrder(delivered)) /\ (InOrder(Written)' <=> InOrder(Written))
  BY OwedFrame DEF Written
<1>1. ASSUME Live, Pipeline PROVE Pipeline'
  <2>1. NoneWaits'
    BY <1>1, <1>o DEF Pipeline, NoneWaits
  <2> QED BY <1>1, <1>o, <2>1, PipelineShifts
<1>2. ASSUME NoRelease PROVE NoRelease'
  <2>1. \A k \in DOMAIN Queue' : \E l \in DOMAIN Queue : Queue'[k] = Queue[l]
    BY DEF Shifts
  <2> QED BY <1>2, <2>1, NoReleaseKept
<1>3. Finished => Finished'
  BY <1>o DEF Finished, Closer, InSeq, Live
<1>4. (Open' <=> Open) /\ (Live' <=> Live)
  BY DEF Open, Live
<1> QED BY <1>o, <1>1, <1>2, <1>3, <1>4 DEF FlowInv

LEMMA SendKeepsPipeline ==
  ASSUME TypeOK, Pipeline, InOrder(Written), UNCHANGED <<sent, got, taken, wpc, resp, jobs, delivered>>,
         Shifts, NEW n \in Nat, Queue[1].op = "send", Queue[1].n = n, out' = Append(out, n)
  PROVE  Pipeline' /\ InOrder(Written)'
<1>1. \A i : Owed(i)' <=> Owed(i)
  BY OwedFrame
<1>t. taken \in Nat /\ resp \in Nat /\ Len(sent) \in Nat /\ Written \in Seq(Nat)
  BY QueueTypes, LenProperties DEF TypeOK
<1>e. /\ \A k \in DOMAIN Queue : Queue[k].n \in Nat
      /\ \A w \in DOMAIN Written : Written[w] \in Nat
  BY ElementTypes
<1>2. /\ Owed(n) /\ n <= taken /\ (wpc = "respond" => n < resp)
      /\ \A w \in DOMAIN Written : Written[w] < n
      /\ \A l \in DOMAIN Queue : 1 < l /\ Queue[l].op = "send" => n < Queue[l].n
  <2>1. 1 \in DOMAIN Queue
    BY DEF Shifts
  <2> QED BY <2>1 DEF Pipeline, SendsOrdered
<1>3. Written' = Append(Written, n)
  <2>1. delivered \in Seq(Nat) /\ out \in Seq(Nat) /\ <<n>> \in Seq(Nat)
    BY DEF TypeOK
  <2>2. Append(out, n) = out \o <<n>> /\ Append(Written, n) = Written \o <<n>>
    BY <1>t, <2>1, AppendIsConcat
  <2>3. (delivered \o out) \o <<n>> = delivered \o (out \o <<n>>)
    BY <2>1, ConcatAssociative, SMTT(60)
  <2> QED BY <2>2, <2>3 DEF Written
<1>q. \A l \in DOMAIN Queue : l \in Nat /\ (l = 1 \/ 1 < l)
  <2>1. DOMAIN Queue = 1..Len(Queue) /\ Len(Queue) \in Nat
    BY QueueTypes
  <2> QED BY <2>1
<1>4. \A i \in 1..n : Owed(i) => InSeq(i, Written) \/ i = n
  <2> TAKE i \in 1..n
  <2>1. i \in Nat /\ i \in 1..taken
    BY <1>2, <1>t
  <2>2. Sending(i) => i = n
    <3> SUFFICES ASSUME NEW k \in DOMAIN Queue, Queue[k].op = "send", Queue[k].n = i PROVE i = n
      BY DEF Sending
    <3>1. 1 < k => n < i
      BY <1>2
    <3> QED BY <1>q, <2>1, <3>1
  <2>3. wpc = "respond" => i # resp
    BY <1>2, <1>t, <2>1
  <2> QED BY <2>1, <2>2, <2>3 DEF Pipeline, NoneSkipped
<1>5. /\ InOrder(Append(Written, n))
      /\ \A i : InSeq(i, Append(Written, n)) <=> InSeq(i, Written) \/ i = n
      /\ \A w \in DOMAIN Append(Written, n) :
           Append(Written, n)[w] = n \/ (w \in DOMAIN Written /\ Append(Written, n)[w] = Written[w])
  <2>1. /\ Written \in Seq(Nat) /\ n \in Nat /\ InOrder(Written) /\ Owed(n)
        /\ \A k \in DOMAIN Written : Written[k] < n
        /\ \A i \in 1..n : Owed(i) => InSeq(i, Written) \/ i = n
    BY <1>2, <1>4, <1>t
  <2> QED BY <2>1, OrderOfAppended, InAppended
<1>6. InOrder(Written)' /\ (\A i : InSeq(i, Written)' <=> InSeq(i, Written) \/ i = n)
      /\ \A w \in DOMAIN Written' : Written'[w] = n \/ (w \in DOMAIN Written /\ Written'[w] = Written[w])
  BY <1>3, <1>5, OwedFrame DEF InSeq
<1>7. SendsOrdered'
  <2> SUFFICES ASSUME NEW k \in DOMAIN Queue', Queue'[k].op = "send"
               PROVE  /\ Owed(Queue'[k].n) /\ Queue'[k].n <= taken
                      /\ wpc = "respond" => Queue'[k].n < resp
                      /\ \A w \in DOMAIN Written' : Written'[w] < Queue'[k].n
                      /\ \A l \in DOMAIN Queue' : k < l /\ Queue'[l].op = "send" => Queue'[k].n < Queue'[l].n
    BY <1>1 DEF SendsOrdered
  <2>1. k + 1 \in DOMAIN Queue /\ Queue'[k] = Queue[k + 1] /\ k \in Nat /\ k + 1 # 1
    BY DEF Shifts
  <2>2. \A l \in DOMAIN Queue' : k < l => k + 1 < l + 1 /\ l + 1 \in DOMAIN Queue /\ Queue'[l] = Queue[l + 1]
    BY DEF Shifts
  <2>3. n < Queue[k + 1].n
    BY <1>2, <1>q, <2>1
  <2> QED BY <1>6, <2>1, <2>2, <2>3 DEF Pipeline, SendsOrdered
<1>8. WrittenTaken' /\ RespondsNow'
  BY <1>1, <1>2, <1>6 DEF Pipeline, WrittenTaken, RespondsNow
<1>s. ASSUME NEW k \in DOMAIN Queue, k # 1 PROVE \E l \in DOMAIN Queue' : Queue'[l] = Queue[k]
  BY <1>s DEF Shifts
<1>9. NoneSkipped'
  <2>1. \A i : Sending(i) => i = n \/ Sending(i)'
    BY <1>s DEF Sending
  <2> QED BY <1>1, <1>6, <2>1 DEF Pipeline, NoneSkipped
<1>10. NoneWaits'
  BY <1>1 DEF Pipeline, NoneWaits
<1>11. ClosesAfter'
  <2>1. Queued("close")' <=> Queued("close")
    <3>1. \A l \in DOMAIN Queue' : \E k \in DOMAIN Queue : Queue'[l] = Queue[k]
      BY DEF Shifts
    <3> QED BY <1>s, <3>1 DEF Queued
  <2> QED BY <2>1 DEF Pipeline, ClosesAfter, Closing, Ended
<1>12. CloseLast'
  BY CloseLastShifts DEF Pipeline
<1> QED BY <1>6, <1>7, <1>8, <1>9, <1>10, <1>11, <1>12 DEF Pipeline

LEMMA TasksKeepFlow ==
  ASSUME TypeOK, Work, RawCovered, FlowInv, RunTask
  PROVE  FlowInv'
<1>0. /\ UNCHANGED <<sent, fin, rst, got, taken, wpc, cur, resp, expired>>
      /\ running # <<>> /\ running' = Tail(running) /\ tasks' = tasks
  BY DEF RunTask, RunSetInactive, RunEstablished, RunSend, RunClose, RunDone, Running, peerVars, bufferVars,
         workerVars
<1>q. Shifts /\ Queue[1] = Head(running) /\ Head(running) \in Tasks /\ Queue[1].n \in Nat /\ 1 \in DOMAIN Queue
  <2>1. Shifts /\ Queue[1] = Head(running) /\ Head(running) \in Tasks
    BY <1>0, QueueSteps
  <2>2. 1 \in DOMAIN Queue
    BY <2>1 DEF Shifts
  <2> QED BY <2>1, <2>2, ElementTypes
<1>r. \A k \in DOMAIN Queue' : \E l \in DOMAIN Queue : Queue'[k] = Queue[l]
  BY <1>q DEF Shifts
<1>s. Stay => UNCHANGED <<state, jobs>>
  BY OperationStates
<1>e. Live => ~expired /\ (~rst => Pipeline /\ NoRelease /\ InOrder(Written))
  BY DEF FlowInv, Live, Open
<1>1. CASE RunSetInactive
  BY <1>0, <1>1, <1>q, FlowShifts DEF RunSetInactive, Running, outVars
<1>2. CASE RunEstablished
  <2>1. state' = state \/ (state = "CONNECTING" /\ state' = "CONNECTED")
    BY <1>2, <1>s DEF RunEstablished
  <2>2. UNCHANGED <<delivered, out, jobs>> /\ Head(running).op = "established"
    BY <1>2, <1>s DEF RunEstablished, Running, outVars
  <2> QED BY <1>0, <1>q, <2>1, <2>2, FlowShifts
<1>3. CASE RunSend
  <2>1. Head(running).op = "send" /\ UNCHANGED <<state, jobs, delivered>>
    BY <1>3, <1>s DEF RunSend, Running, outVars
  <2>2. CASE state # "CONNECTED" /\ UNCHANGED out
    <3>1. state # "CONNECTING"
      <4>1. Queued("send")
        BY <1>q, <2>1 DEF Queued
      <4> QED BY <4>1, IdleSendsNothing DEF Work, WorkInv, Unwatched
    <3> QED BY <1>0, <1>q, <2>1, <2>2, <3>1, FlowShifts DEF Live
  <2>3. CASE state = "CONNECTED" /\ out' = Append(out, Head(running).n)
    <3>1. Live /\ Live' /\ Open'
      BY <2>1, <2>3 DEF Live, Open
    <3>2. InOrder(delivered)'
      BY <1>0, <2>1, OwedFrame DEF FlowInv
    <3>3. ~rst => Pipeline' /\ InOrder(Written)'
      BY <1>0, <1>e, <1>q, <2>1, <2>3, <3>1, SendKeepsPipeline
    <3>4. ~rst => NoRelease'
      BY <1>0, <1>e, <1>r, <2>1, <3>1, NoReleaseKept
    <3> QED BY <1>0, <1>e, <2>1, <2>3, <3>1, <3>2, <3>3, <3>4 DEF FlowInv
  <2> QED BY <1>3, <2>2, <2>3 DEF RunSend, outVars
<1>4. CASE RunClose
  <2>1. Head(running).op = "close" /\ UNCHANGED <<delivered, out>> /\ CloseConn
    BY <1>4 DEF RunClose, Running, outVars
  <2>2. CASE state \in {"DISCONNECTED", "DISCONNECTING"} /\ UNCHANGED <<state, jobs>>
    BY <1>0, <1>q, <2>1, <2>2, FlowShifts DEF Live
  <2>3. CASE /\ Live /\ state' \in {"DISCONNECTING", "DISCONNECTED"} /\ (state' = "DISCONNECTED" => out = <<>>)
             /\ jobs' = jobs \/ jobs' = Append(jobs, "finish")
    <3>1. ASSUME ~rst
          PROVE  /\ \E j \in 1..Len(sent) : Closer(sent[j])
                 /\ \A i \in 1..Len(sent) : Owed(i) => InSeq(i, Written)
      <4>1. Pipeline /\ Queue[1].op = "close"
        BY <1>e, <1>q, <2>1, <2>3, <3>1
      <4>2. PICK j \in 1..taken : Closer(sent[j])
        BY <1>q, <4>1 DEF Pipeline, ClosesAfter, Closing, Queued, Ended
      <4>3. taken \in Nat /\ Len(sent) \in Nat /\ taken <= Len(sent)
        BY LenProperties DEF TypeOK
      <4>4. (wpc = "finish" \/ Queued("done")) /\ ~Queued("send")
        <5>1. \A l \in DOMAIN Queue : l = 1 \/ 1 < l
          BY QueueTypes
        <5> QED BY <1>q, <4>1, <5>1 DEF Pipeline, CloseLast, Queued
      <4>5. wpc # "respond"
        BY <2>3, <3>1, <4>4, LiveWork
      <4>6. \A i \in 1..Len(sent) : Owed(i) => i \in 1..taken
        <5> SUFFICES ASSUME NEW i \in 1..Len(sent), ~(i \in 1..taken) PROVE ~Owed(i)
          OBVIOUS
        <5>1. j \in 1..(i - 1)
          BY <4>3
        <5> QED BY <4>2, <5>1 DEF Owed
      <4>7. \A i \in 1..taken : Owed(i) => InSeq(i, Written)
        BY <4>1, <4>4, <4>5 DEF Pipeline, NoneSkipped, Sending, Queued
      <4>8. j \in 1..Len(sent)
        BY <4>3
      <4> QED BY <4>2, <4>6, <4>7, <4>8
    <3>2. ~rst => NoRelease'
      BY <1>0, <1>e, <1>r, <2>3, NoReleaseKept
    <3> QED BY <1>0, <1>e, <2>1, <2>3, <3>1, <3>2, FlowCloses
  <2> QED BY <2>1, <2>2, <2>3, OperationStates
<1>5. CASE RunDone
  <2>1. Head(running).op = "done" /\ UNCHANGED <<delivered, out>>
    BY <1>5 DEF RunDone, Running, outVars
  <2>2. CASE UNCHANGED <<state, jobs>>
    BY <1>0, <1>q, <2>1, <2>2, FlowShifts
  <2>3. CASE Head(running).done = "finish" /\ state' = "DISCONNECTED" /\ UNCHANGED jobs /\ out = <<>>
    <3>1. ~Live
      <4>1. 1 \in DOMAIN running /\ running[1] = Head(running)
        <5>1. running \in Seq(Tasks)
          BY DEF TypeOK
        <5>2. Len(running) \in Nat \ {0} /\ DOMAIN running = 1..Len(running)
          BY <1>0, <5>1, EmptySeq, LenProperties
        <5> QED BY <5>1, <5>2
      <4>2. Finishing(running)
        BY <2>1, <2>3, <4>1 DEF Finishing
      <4> QED BY <4>2 DEF Live, Work, WorkInv, FinishesClosing
    <3>2. ~rst /\ ~expired => Finished
      BY <3>1 DEF FlowInv
    <3> QED BY <1>0, <2>1, <2>3, <3>2, FlowCloses DEF Finished
  <2>4. CASE Head(running).done = "release" /\ Release
    <3>1. CASE ~Open
      <4>1. UNCHANGED <<state, jobs>>
        BY <1>s, <2>4, <3>1 DEF Release, Open
      <4> QED BY <2>2, <4>1
    <3>2. CASE Open
      <4>1. rst
        BY <1>q, <2>1, <2>4, <3>2 DEF FlowInv, NoRelease
      <4>2. state' = "DISCONNECTED"
        BY <2>4, OperationStates
      <4> QED BY <1>0, <2>1, <4>1, <4>2, FlowReset DEF Open
    <3> QED BY <3>1, <3>2
  <2>5. CASE Head(running).done = "finish" /\ FinishClose
    BY <2>2, <2>3, <2>5, OperationStates
  <2> QED BY <1>5, <1>s, <2>2, <2>4, <2>5 DEF RunDone
<1> QED BY <1>1, <1>2, <1>3, <1>4, <1>5 DEF RunTask

-----------------------------------------------------------------------------
(* The peer and the base loop. *)
LEMMA PeerSendKeepsFlow ==
  ASSUME TypeOK, FlowInv, PeerSend
  PROVE  FlowInv'
<1>0. /\ ~fin /\ ~rst /\ UNCHANGED <<fin, rst, state, got, taken, wpc, cur, resp, expired, delivered, out, running,
                                     tasks, jobs>>
  BY DEF PeerSend, connVars, bufferVars, outVars, loopVars, workerVars
<1>1. /\ Len(sent') = Len(sent) + 1 /\ Len(sent) \in Nat
      /\ \A i \in 1..Len(sent) : sent'[i] = sent[i]
      /\ \A i \in 1..Len(sent) : Owed(i)' <=> Owed(i)
      /\ InOrder(delivered) => InOrder(delivered)'
      /\ InOrder(Written) => InOrder(Written)'
  BY OwedGrows
<1>2. \A i : Owed(i) => i \in 1..Len(sent) /\ Owed(i)'
  BY <1>1 DEF Owed
<1>3. /\ Queue' = Queue /\ Written' = Written
      /\ taken \in Nat /\ got \in Nat /\ taken <= got /\ got <= Len(sent)
  BY <1>0 DEF Queue, Written, TypeOK
<1>4. \A i \in 1..got : i \in 1..Len(sent) /\ (i <= taken => i \in 1..taken)
  BY <1>1, <1>3
<1>5. \A i \in 1..taken : i \in 1..Len(sent)
  BY <1>1, <1>3
<1>6. \A i \in (taken + 1)..got : i \in 1..Len(sent)
  BY <1>1, <1>3
<1>7. ASSUME Pipeline PROVE Pipeline'
  <2>1. SendsOrdered' /\ WrittenTaken' /\ RespondsNow'
    BY <1>0, <1>2, <1>3, <1>7 DEF Pipeline, SendsOrdered, WrittenTaken, RespondsNow
  <2>2. NoneSkipped'
    BY <1>0, <1>1, <1>3, <1>5, <1>7 DEF Pipeline, NoneSkipped, Sending, InSeq
  <2>3. NoneWaits'
    BY <1>0, <1>1, <1>3, <1>6, <1>7 DEF Pipeline, NoneWaits
  <2>4. ClosesAfter' /\ CloseLast'
    <3>1. Ended' <=> Ended
      BY <1>0, <1>1, <1>5 DEF Ended
    <3>2. wpc = "respond" => sent'[resp] = sent[resp]
      BY <1>1, <1>2, <1>7 DEF Pipeline, RespondsNow
    <3> QED BY <1>0, <1>3, <1>7, <3>1, <3>2 DEF Pipeline, ClosesAfter, CloseLast, Closing, Queued
  <2> QED BY <2>1, <2>2, <2>3, <2>4 DEF Pipeline
<1>8. ASSUME Finished PROVE Finished'
  <2>1. PICK j \in 1..Len(sent) : Closer(sent[j])
    BY <1>0, <1>8 DEF Finished
  <2>2. j \in 1..Len(sent') /\ Closer(sent'[j])
    BY <1>1, <2>1
  <2>3. ASSUME NEW i \in 1..Len(sent'), Owed(i)' PROVE InSeq(i, Written)
    <3>1. CASE i \in 1..Len(sent)
      BY <1>1, <1>8, <2>3, <3>1 DEF Finished
    <3>2. CASE ~(i \in 1..Len(sent))
      <4>1. j \in 1..(i - 1)
        BY <1>1, <3>2
      <4> QED BY <2>2, <2>3, <4>1 DEF Owed
    <3> QED BY <3>1, <3>2
  <2> QED BY <1>0, <1>3, <1>8, <2>2, <2>3 DEF Finished, InSeq
<1>9. NoRelease => NoRelease'
  BY <1>0, <1>3 DEF NoRelease
<1> QED BY <1>0, <1>1, <1>7, <1>8, <1>9 DEF FlowInv, Open, Live

LEMMA AcceptKeepsFlow ==
  ASSUME TypeOK, FlowInv, AcceptSetInactive \/ AcceptEstablish
  PROVE  FlowInv'
<1>0. UNCHANGED <<sent, fin, rst, state, got, taken, wpc, cur, resp, expired, delivered, out, running, jobs>>
  BY DEF AcceptSetInactive, AcceptEstablish, peerVars, connVars, bufferVars, outVars, loopVars, workerVars
<1>1. PICK t \in Tasks : t.op \in {"setinactive", "established"} /\ Grows(t)
  <2>1. \A op \in {"setinactive", "established"} : Simple(op) \in Tasks /\ Simple(op).op = op
    BY TaskTypes DEF Simple, Task, Ops
  <2>2. \E op \in {"setinactive", "established"} : Posts(Simple(op))
    BY <1>0 DEF AcceptSetInactive, AcceptEstablish, Posts
  <2> QED BY <2>1, <2>2, QueueSteps
<1>o. /\ Written' = Written /\ (\A i : Owed(i)' <=> Owed(i))
      /\ (InOrder(delivered)' <=> InOrder(delivered)) /\ (InOrder(Written)' <=> InOrder(Written))
  BY <1>0, OwedFrame DEF Written
<1>2. ASSUME Pipeline PROVE Pipeline'
  <2>1. NoneWaits'
    BY <1>0, <1>2, <1>o DEF Pipeline, NoneWaits
  <2> QED BY <1>0, <1>1, <1>2, <1>o, <2>1, PipelineGrows
<1>3. ASSUME NoRelease PROVE NoRelease'
  <2>1. \A k \in DOMAIN Queue' : Queue'[k] = t \/ (k \in DOMAIN Queue /\ Queue'[k] = Queue[k])
    BY <1>1 DEF Grows
  <2> QED BY <1>0, <1>1, <1>3, <2>1 DEF NoRelease
<1>4. Finished => Finished'
  BY <1>0, <1>o DEF Finished, Closer, InSeq
<1> QED BY <1>0, <1>o, <1>2, <1>3, <1>4 DEF FlowInv, Open, Live

LEMMA OthersKeepFlow ==
  ASSUME TypeOK, Work, FlowInv,
         PeerFin \/ PeerReset \/ Poll \/ SwapTasks \/ TasksDone \/ Erase \/ UNCHANGED vars
  PROVE  FlowInv'
<1>1. CASE PeerReset
  <2>1. rst' /\ UNCHANGED <<sent, state, got, delivered, expired>>
    BY <1>1 DEF PeerReset, connVars, bufferVars, outVars
  <2> QED BY <2>1, FlowReset DEF FlowInv, Open
<1>2. CASE SwapTasks
  <2>1. UNCHANGED <<sent, fin, rst, state, taken, wpc, resp, cur, delivered, out, expired, jobs, got>>
    BY <1>2 DEF SwapTasks, peerVars, connVars, bufferVars, outVars, workerVars
  <2>2. Queue' = Queue
    BY <1>2, QueueSteps DEF SwapTasks, Work, WorkInv, RunningDone
  <2> QED BY <2>1, <2>2, FlowKept
<1>3. CASE PeerFin \/ Poll \/ TasksDone \/ Erase \/ UNCHANGED vars
  <2>1. /\ UNCHANGED <<sent, rst, state, taken, wpc, resp, cur, delivered, out, expired, jobs, got, running, tasks>>
        /\ fin => fin'
    <3> USE DEF peerVars, connVars, bufferVars, outVars, loopVars, workerVars
    <3>1. CASE PeerFin
      BY <3>1 DEF PeerFin
    <3>2. CASE Poll
      BY <3>2 DEF Poll, PollWith
    <3>3. CASE TasksDone \/ Erase
      BY <3>3 DEF TasksDone, Erase
    <3>4. CASE UNCHANGED vars
      BY <3>4 DEF vars
    <3> QED BY <1>3, <3>1, <3>2, <3>3, <3>4
  <2>2. Queue' = Queue
    BY <2>1, QueueSteps
  <2> QED BY <2>1, <2>2, FlowKept
<1> QED BY <1>1, <1>2, <1>3

LEMMA FlowInit == Init => FlowInv
<1> SUFFICES ASSUME Init PROVE FlowInv
  OBVIOUS
<1>1. /\ Queue = <<>> /\ Written = <<>> /\ Live /\ delivered = <<>> /\ got = 0 /\ taken = 0
      /\ ~expired /\ wpc = "idle" /\ jobs = <<>>
  BY ConcatEmptySeq DEF Init, Queue, Written, Live
<1>2. DOMAIN Queue = {} /\ DOMAIN Written = {} /\ DOMAIN jobs = {} /\ DOMAIN delivered = {}
  BY <1>1
<1>3. InOrder(delivered) /\ InOrder(Written) /\ NoRelease
  BY <1>1, <1>2 DEF InOrder, NoRelease
<1>4. Pipeline
  BY <1>1, <1>2 DEF Pipeline, SendsOrdered, WrittenTaken, RespondsNow, NoneSkipped, NoneWaits, ClosesAfter,
                    CloseLast, Closing, Ended, Queued
<1> QED BY <1>1, <1>3, <1>4 DEF FlowInv

LEMMA FlowStep == TypeOK /\ Answering /\ ReleasedOnce /\ Work /\ RawCovered /\ FlowInv /\ [Next]_vars => FlowInv'
BY HandlersKeepFlow, TasksKeepFlow, WorkerKeepsFlow, PeerSendKeepsFlow, AcceptKeepsFlow, OthersKeepFlow
DEF Next, Loop, AfterPoll, Base, HandlesEvent

LEMMA FlowAlways == Spec => [](TypeOK /\ FlowInv)
<1>1. Init => ReleasedOnce /\ RawCovered
  BY DEF Init, ReleasedOnce, Open, RawCovered, Covered
<1> QED
  BY <1>1, TypeInit, TypeStep, AnsweringStep, StartupInit, StartupStep, ReleasedOnceStep, WorkInit, WorkStep,
     RawCoveredStep, FlowInit, FlowStep, PTL DEF Spec

(* What the kernel was handed, and what waits in _out_buffer behind it, is  *)
(* the owed responses in the order of their requests, none skipped or       *)
(* repeated (http_server.cpp:188-235, connection.cpp:33-56, 246-260).       *)
THEOREM ResponsesKeepOrder == Spec => []ResponsesInOrder
<1>1. FlowInv => ResponsesInOrder
  BY DEF FlowInv, ResponsesInOrder, Written
<1> QED BY <1>1, FlowAlways, PTL

(* A connection released without a reset and without the inactivity timer   *)
(* was released after it had handed the kernel every response it owed       *)
(* (connection.cpp:33-56, 278-305).                                         *)
THEOREM CloseIsGraceful == Spec => []GracefulClose
<1>1. TypeOK /\ FlowInv => GracefulClose
  <2> SUFFICES ASSUME TypeOK, FlowInv, state = "DISCONNECTED", ~rst, ~expired
               PROVE  \A i \in 1..Len(sent) : Owed(i) => InSeq(i, delivered)
    BY DEF GracefulClose
  <2>1. Finished
    BY DEF FlowInv, Live
  <2>2. Written = delivered
    BY <2>1, ConcatEmptySeq DEF Finished, Written, TypeOK
  <2> QED BY <2>1, <2>2 DEF Finished
<1> QED BY <1>1, FlowAlways, PTL
=============================================================================

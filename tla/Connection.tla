----------------------------- MODULE Connection -----------------------------
(***************************************************************************)
(* The life of one HTTP connection, from the accept callback of TcpServer  *)
(* to its removal from the server's table (connection.cpp, tcp_server.cpp, *)
(* channel.cpp, poller.cpp and the message callback of http_server.cpp).   *)
(*                                                                         *)
(* Four parties touch the connection:                                      *)
(*   - the peer and the kernel (what is on the wire, FIN, RST);            *)
(*   - the sub loop that owns it: poll, handle the events of the batch,    *)
(*     run the tasks queued before the batch ended;                        *)
(*   - the business worker its id is keyed to: takes jobs in order, runs   *)
(*     the message callback on the input buffer, posts Send and Close back *)
(*     to the sub loop;                                                    *)
(*   - the base loop: accepts it, keeps the table that holds the last      *)
(*     shared_ptr, erases it.                                              *)
(*                                                                         *)
(* The sub loop's queue is a sequence AddTask appends to and one swap      *)
(* empties: the protocol of its mutex and eventfd is module EventLoop, that *)
(* of the worker's queue module TaskThreadPool.                            *)
(*                                                                         *)
(* Data.  What the peer sends is a sequence of segments, each of a kind:   *)
(*   "keep"   completes a request that keeps the connection;               *)
(*   "close"  completes a request that asks to close it;                   *)
(*   "bad"    completes what the parser answers with an error;             *)
(*   "more"   part of a request that a later segment completes.            *)
(* A response is the number of the segment that completed its request.     *)
(***************************************************************************)
EXTENDS Naturals, Sequences, SequencesExt

CONSTANTS MaxSegs,     \* bound: segments the peer sends
          MaxJobs,     \* bound: jobs of this connection a worker's queue holds
          InactiveOn   \* TcpServer::SetInactiveRelease(true, ...) was called

ASSUME ConnectionAssumption == /\ MaxSegs \in Nat
                               /\ MaxJobs \in Nat
                               /\ InactiveOn \in BOOLEAN

VARIABLES
  sent,      \* kinds of the segments the peer has sent
  fin,       \* the peer has shut down its sending side
  rst,       \* the peer has reset the connection
  state,     \* Connection::_state
  events,    \* Channel::_events
  poller,    \* keys of Poller::_channels that lead to this channel:
             \* "fd" its descriptor, "-1" the number of a closed socket
  got,       \* segments 1..got have been read into _in_buffer
  taken,     \* segments 1..taken have left _in_buffer
  out,       \* _out_buffer: the responses it holds
  delivered, \* the responses handed to the kernel
  timer,     \* the inactivity task: "none", "active", "cancelled"
  lpc,       \* where the sub loop is: "poll", "batch", "tasks", "aborted"
  batch,     \* activeChannels still to handle: "conn", "timer"
  revents,   \* Channel::_revents, as the last poll set it
  running,   \* tasks of the swapped vector still to run
  tasks,     \* EventLoop::_tasks_queue
  jobs,      \* this connection's jobs in the worker's queue, by their "done"
  wpc,       \* where the worker is in the message callback
  cur,       \* the "done" of the job it runs, or of its last one
  resp,      \* the segment the worker is answering
  bpc,       \* where the accept callback of the base loop is
  table,     \* TcpServer::_connections holds the connection
  erasing,   \* the base loop has a task to erase it
  closed,    \* how often closed_callback was called
  expired    \* the inactivity timer fired

peerVars   == <<sent, fin, rst>>
channelVars == <<events, poller>>
bufferVars == <<got, taken>>
outVars    == <<out, delivered>>
endVars    == <<erasing, closed>>
loopVars   == <<lpc, batch, revents, running>>
workerVars == <<wpc, cur, resp>>
baseVars   == <<bpc, table>>
connVars   == <<state, channelVars, timer, jobs, endVars>>
vars == <<peerVars, connVars, bufferVars, outVars, loopVars, tasks, workerVars, baseVars, expired>>

Kinds == {"keep", "close", "bad", "more"}
Dones == {"resume", "release", "finish"}
Task(op, n, done) == [op |-> op, n |-> n, done |-> done]
Simple(op)    == Task(op, 0, "resume")
SendTask(n)   == Task("send", n, "resume")
DoneTask(d)   == Task("done", 0, d)
Ops == {"setinactive", "established", "send", "close", "done"}
Tasks == [op : Ops, n : 0..MaxSegs, done : Dones]

Readable == got > taken          \* _in_buffer.GetReadableSize() > 0
Unread   == Len(sent) > got      \* bytes the kernel holds
Open     == state # "DISCONNECTED"   \* _Release closes the socket as it sets the state

Init ==
  /\ sent = <<>> /\ fin = FALSE /\ rst = FALSE
  /\ state = "CONNECTING" /\ events = {} /\ poller = {}
  /\ got = 0 /\ taken = 0 /\ out = <<>> /\ delivered = <<>>
  /\ timer = "none"
  /\ lpc = "poll" /\ batch = <<>> /\ revents = {} /\ running = <<>> /\ tasks = <<>>
  /\ jobs = <<>> /\ wpc = "idle" /\ cur = "resume" /\ resp = 0
  /\ bpc = "accepted" /\ table = TRUE /\ erasing = FALSE
  /\ closed = 0 /\ expired = FALSE

-----------------------------------------------------------------------------
(* The peer and the kernel. *)

PeerSend ==
  /\ ~fin /\ ~rst /\ Len(sent) < MaxSegs
  /\ \E k \in Kinds : sent' = Append(sent, k)
  /\ UNCHANGED <<fin, rst, connVars, bufferVars, outVars, loopVars, tasks, workerVars, baseVars, expired>>

PeerFin ==
  /\ ~fin /\ ~rst
  /\ fin' = TRUE
  /\ UNCHANGED <<sent, rst, connVars, bufferVars, outVars, loopVars, tasks, workerVars, baseVars, expired>>

PeerReset ==
  /\ ~rst
  /\ rst' = TRUE
  /\ UNCHANGED <<sent, fin, connVars, bufferVars, outVars, loopVars, tasks, workerVars, baseVars, expired>>

-----------------------------------------------------------------------------
(* The channel.  Every change of the event mask goes to Poller::AddChannel, *)
(* which stores the channel under whatever number its socket has: -1 once   *)
(* _Release has closed it.                                                  *)

SetEvents(E) ==
  /\ events' = E
  /\ poller' = poller \union {IF Open THEN "fd" ELSE "-1"}

EnableRead   == SetEvents(events \union {"IN"})
EnableWrite  == SetEvents(events \union {"OUT"})
DisableRead  == SetEvents(events \ {"IN"})
DisableWrite == SetEvents(events \ {"OUT"})

(* What epoll reports of the descriptor; EPOLLERR and EPOLLHUP lead to the  *)
(* same handler and are one event here.  Level triggered: it is reported    *)
(* again as long as it lasts, here while the worker's queue has room.       *)
Ready ==
  IF "fd" \notin poller THEN {}
  ELSE IF rst THEN (IF Len(jobs) < MaxJobs THEN {"HUP"} ELSE {})
  ELSE {e \in events : e = "OUT" \/ Unread \/ fin}

-----------------------------------------------------------------------------
(* Connection's own operations, as the sub loop runs them.  They are tail   *)
(* calls of the handlers and tasks below; each sets connVars and nothing    *)
(* else.                                                                    *)

Stay == UNCHANGED connVars

(* Mutation: the release does not tell the server. *)
ReleaseOpenUntold(timer_) ==
  /\ state' = "DISCONNECTED"
  /\ events' = {} /\ poller' = poller \ {"fd"}
  /\ timer' = IF timer_ = "active" THEN "cancelled" ELSE timer_
  /\ closed' = closed + 1
  /\ UNCHANGED <<erasing, jobs>>

(* _Release, in the loop's own thread: RunTask runs it at once. *)
ReleaseOpen(timer_) ==
  /\ state' = "DISCONNECTED"
  /\ events' = {} /\ poller' = poller \ {"fd"}
  /\ timer' = IF timer_ = "active" THEN "cancelled" ELSE timer_
  /\ closed' = closed + 1
  /\ erasing' = TRUE
  /\ UNCHANGED jobs

(* Mutation: _Release without its checks of the state. *)
ReleaseAgain == ReleaseOpen(timer)

Release ==
  \/ state = "DISCONNECTED" /\ Stay
  \/ state # "DISCONNECTED" /\ ReleaseOpen(timer)

(* Mutation: Submit without DisableRead. *)
SubmitJobReading(done) ==
  /\ jobs' = Append(jobs, done)
  /\ UNCHANGED <<channelVars, timer, endVars>>

(* The branch of _RunMessageCallback that has a pool and something to read. *)
SubmitJob(done) ==
  /\ DisableRead
  /\ jobs' = Append(jobs, done)
  /\ UNCHANGED <<timer, endVars>>

(* _HandleClose, and what _HandleWrite does after a failed send. *)
ReleaseAfterInput ==
  \/ Readable /\ SubmitJob("release") /\ UNCHANGED state
  \/ ~Readable /\ Release

(* finish_close looks at no state: it may run after the release. *)
FinishClose ==
  \/ out # <<>> /\ "OUT" \notin events /\ EnableWrite
                /\ UNCHANGED <<state, timer, jobs, endVars>>
  \/ out # <<>> /\ "OUT" \in events /\ Stay
  \/ out = <<>> /\ Release

(* Mutation: Close does not look at the output buffer. *)
CloseConnAbrupt ==
  \/ state \in {"DISCONNECTED", "DISCONNECTING"} /\ Stay
  \/ /\ state \in {"CONNECTING", "CONNECTED"}
     /\ \/ Readable /\ SubmitJob("finish") /\ state' = "DISCONNECTING"
        \/ ~Readable /\ ReleaseOpen(timer)

(* Connection::Close in the loop's thread.  _HandleRead calls it on FIN and *)
(* on a failed recv, the worker through the queue.                          *)
CloseConn ==
  \/ state \in {"DISCONNECTED", "DISCONNECTING"} /\ Stay
  \/ /\ state \in {"CONNECTING", "CONNECTED"}
     /\ \/ Readable /\ SubmitJob("finish") /\ state' = "DISCONNECTING"
        \/ /\ ~Readable /\ out # <<>>
           /\ EnableWrite
           /\ state' = "DISCONNECTING"
           /\ UNCHANGED <<timer, jobs, endVars>>
        \/ ~Readable /\ out = <<>> /\ ReleaseOpen(timer)

-----------------------------------------------------------------------------
(* The sub loop handles its batch. *)

(* epoll_wait returns: the connection if something is ready, the timer's    *)
(* descriptor if its task is due, in either order, or nothing but the       *)
(* eventfd that AddTask wrote.                                              *)
PollWith(due) ==
  /\ lpc = "poll"
  /\ timer = "none" => due = {}
  /\ LET active == due \union (IF Ready # {} THEN {"conn"} ELSE {})
     IN  /\ active # {} \/ tasks # <<>>
         /\ batch' \in SetToSeqs(active)
  /\ revents' = Ready
  /\ lpc' = "batch"
  /\ UNCHANGED <<peerVars, connVars, bufferVars, outVars, running, tasks, workerVars, baseVars,
                 expired>>

Poll == \E due \in SUBSET {"timer"} : PollWith(due)

Handling(e) ==
  /\ lpc = "batch" /\ batch # <<>> /\ Head(batch) = e
  /\ batch' = Tail(batch)
  /\ UNCHANGED <<peerVars, taken, revents, running, tasks, workerVars, baseVars>>

(* Mutation: the done task captures this instead of the shared_ptr. *)
FreedUnderDone == ~table /\ bpc = "done" /\ jobs = <<>> /\ wpc = "idle"

(* The last shared_ptr is gone: the table's, the accept callback's, a job's *)
(* or a done task's.  (A done task lives until its vector is run through,   *)
(* so the code frees no earlier than this.)                                 *)
Holding(q) == \E i \in DOMAIN q : q[i].op = "done"
Freed ==
  /\ ~table /\ bpc = "done"
  /\ jobs = <<>> /\ wpc = "idle"
  /\ ~Holding(tasks) /\ ~Holding(running)

(* Channel::HandleEvent runs the first of error, close, read, write that    *)
(* was reported, and returns.                                               *)
HandleClose ==
  /\ Handling("conn") /\ ~Freed
  /\ "HUP" \in revents
  /\ ReleaseAfterInput
  /\ UNCHANGED <<got, outVars, lpc, expired>>

(* Mutation: one more byte is counted than was received. *)
HandleReadDataOneMore ==
  /\ Handling("conn") /\ ~Freed
  /\ "HUP" \notin revents /\ "IN" \in revents
  /\ Open /\ Unread
  /\ got' \in (got + 1)..(Len(sent) + 1)
  /\ SubmitJob("resume")
  /\ UNCHANGED <<state, outVars, lpc, expired>>

(* Some of what the kernel holds is read and the callback submitted. *)
HandleReadData ==
  /\ Handling("conn") /\ ~Freed
  /\ "HUP" \notin revents /\ "IN" \in revents
  /\ Open /\ Unread
  /\ got' \in (got + 1)..Len(sent)
  /\ SubmitJob("resume")
  /\ UNCHANGED <<state, outVars, lpc, expired>>

(* recv returns 0 at the end of the stream, or fails. *)
HandleReadEnd ==
  /\ Handling("conn") /\ ~Freed
  /\ "HUP" \notin revents /\ "IN" \in revents
  /\ (~Unread /\ fin) \/ rst \/ ~Open
  /\ CloseConn
  /\ UNCHANGED <<got, outVars, lpc, expired>>

(* Mutation: an empty output buffer only ends the watch for writing. *)
HandleWriteEmptyStays ==
  /\ Handling("conn") /\ ~Freed
  /\ revents = {"OUT"}
  /\ out = <<>>
  /\ DisableWrite
  /\ UNCHANGED <<state, timer, jobs, endVars, got, outVars, lpc, expired>>

HandleWriteEmpty ==
  /\ Handling("conn") /\ ~Freed
  /\ revents = {"OUT"}
  /\ out = <<>>
  /\ \/ state = "DISCONNECTING" /\ ReleaseOpen(timer)
     \/ /\ state # "DISCONNECTING" /\ DisableWrite
        /\ UNCHANGED <<state, timer, jobs, endVars>>
  /\ UNCHANGED <<got, outVars, lpc, expired>>

(* Mutation: the remainder starts one response too early. *)
HandleWriteSomeTwice ==
  /\ Handling("conn") /\ ~Freed
  /\ revents = {"OUT"}
  /\ out # <<>> /\ Open /\ ~rst
  /\ \E n \in 1..Len(out) :
       /\ delivered' = delivered \o SubSeq(out, 1, n)
       /\ out' = SubSeq(out, n, Len(out))
  /\ Stay /\ UNCHANGED <<got, lpc, expired>>

(* send accepts the first n responses; what it leaves goes back in front. *)
HandleWriteSome ==
  /\ Handling("conn") /\ ~Freed
  /\ revents = {"OUT"}
  /\ out # <<>> /\ Open /\ ~rst
  /\ \E n \in 1..Len(out) :
       /\ delivered' = delivered \o SubSeq(out, 1, n)
       /\ out' = SubSeq(out, n + 1, Len(out))
  /\ Stay /\ UNCHANGED <<got, lpc, expired>>

(* send returned 0: the kernel's buffer is full again. *)
HandleWriteAgain ==
  /\ Handling("conn") /\ ~Freed
  /\ revents = {"OUT"}
  /\ out # <<>> /\ Open
  /\ Stay /\ UNCHANGED <<got, outVars, lpc, expired>>

(* send failed: what was read from _out_buffer is lost. *)
HandleWriteFails ==
  /\ Handling("conn") /\ ~Freed
  /\ revents = {"OUT"}
  /\ out # <<>> /\ (rst \/ ~Open)
  /\ out' = <<>>
  /\ ReleaseAfterInput
  /\ UNCHANGED <<got, delivered, lpc, expired>>

(* The channel in the batch was destroyed: HandleEvent runs on freed memory, *)
(* and the process goes on or not.                                          *)
HandleFreed ==
  /\ Handling("conn") /\ Freed
  /\ lpc' \in {"batch", "aborted"}
  /\ Stay /\ UNCHANGED <<got, outVars, expired>>

(* Timer::Tick drops the due task; if it was not cancelled its destructor   *)
(* releases the connection, whose CancelTimerTask no longer finds it.       *)
HandleTimer ==
  /\ Handling("timer")
  /\ \/ timer = "active" /\ Open /\ ReleaseOpen("none")
     \/ /\ timer # "active" \/ ~Open
        /\ timer' = "none" /\ UNCHANGED <<state, channelVars, jobs, endVars>>
  /\ expired' = (expired \/ timer = "active")
  /\ UNCHANGED <<got, outVars, lpc>>

HandleConn == HandleClose \/ HandleReadData \/ HandleReadEnd \/ HandleWriteEmpty
                \/ HandleWriteSome \/ HandleWriteAgain \/ HandleWriteFails \/ HandleFreed

-----------------------------------------------------------------------------
(* The sub loop runs its tasks. *)

SwapTasks ==
  /\ lpc = "batch" /\ batch = <<>>
  /\ running' = tasks /\ tasks' = <<>>
  /\ lpc' = "tasks"
  /\ UNCHANGED <<peerVars, connVars, bufferVars, outVars, batch, revents, workerVars, baseVars, expired>>

TasksDone ==
  /\ lpc = "tasks" /\ running = <<>>
  /\ lpc' = "poll"
  /\ UNCHANGED <<peerVars, connVars, bufferVars, outVars, batch, revents, running, tasks, workerVars,
                 baseVars, expired>>

Running(op) ==
  /\ lpc = "tasks" /\ running # <<>> /\ Head(running).op = op
  /\ running' = Tail(running)
  /\ UNCHANGED <<peerVars, bufferVars, batch, revents, tasks, workerVars, baseVars, expired>>

(* SetInactiveRelease(_inactive_release, ...): the id is new to the timer. *)
RunSetInactive ==
  /\ Running("setinactive")
  /\ timer' = IF InactiveOn THEN "active" ELSE timer
  /\ UNCHANGED <<state, channelVars, jobs, endVars, outVars, lpc>>

(* assert(_state == CONNECTING) ends the process otherwise. *)
RunEstablished ==
  /\ Running("established")
  /\ \/ /\ state = "CONNECTING"
        /\ state' = "CONNECTED" /\ EnableRead
        /\ UNCHANGED <<timer, jobs, endVars, lpc>>
     \/ state # "CONNECTING" /\ lpc' = "aborted" /\ Stay
  /\ UNCHANGED outVars

(* Mutation: Send does not start the watch for writing. *)
RunSendUnwatched ==
  /\ Running("send")
  /\ \/ state # "CONNECTED" /\ UNCHANGED outVars
     \/ /\ state = "CONNECTED"
        /\ out' = Append(out, Head(running).n) /\ UNCHANGED delivered
  /\ Stay /\ UNCHANGED lpc

RunSend ==
  /\ Running("send")
  /\ \/ state # "CONNECTED" /\ Stay /\ UNCHANGED outVars
     \/ /\ state = "CONNECTED"
        /\ out' = Append(out, Head(running).n)
        /\ \/ "OUT" \notin events /\ EnableWrite
           \/ "OUT" \in events /\ UNCHANGED channelVars
        /\ UNCHANGED <<state, delivered, timer, jobs, endVars>>
  /\ UNCHANGED lpc

RunClose == Running("close") /\ CloseConn /\ UNCHANGED <<outVars, lpc>>

(* Mutation: a job without a done leaves reading off. *)
RunDoneDeaf ==
  /\ Running("done")
  /\ \/ Head(running).done = "finish" /\ FinishClose
     \/ Head(running).done = "release" /\ Release
     \/ Head(running).done = "resume" /\ Stay
  /\ UNCHANGED <<outVars, lpc>>

(* The end of a job: its "done", or reading starts again. *)
RunDone ==
  /\ Running("done")
  /\ \/ Head(running).done = "finish" /\ FinishClose
     \/ Head(running).done = "release" /\ Release
     \/ /\ Head(running).done = "resume"
        /\ state = "CONNECTED" /\ "IN" \notin events
        /\ EnableRead
        /\ UNCHANGED <<state, timer, jobs, endVars>>
     \/ /\ Head(running).done = "resume"
        /\ state # "CONNECTED" \/ "IN" \in events
        /\ Stay
  /\ UNCHANGED <<outVars, lpc>>

RunTask == RunSetInactive \/ RunEstablished \/ RunSend \/ RunClose \/ RunDone

AfterPoll == HandleConn \/ HandleTimer \/ SwapTasks \/ RunTask \/ TasksDone
Loop == Poll \/ AfterPoll

-----------------------------------------------------------------------------
(* The business worker: the job of _RunMessageCallback around               *)
(* HttpServer::_OnMessage.                                                  *)

WorkerFrame ==
  UNCHANGED <<peerVars, state, channelVars, got, outVars, timer, endVars, loopVars,
              baseVars, expired>>

WorkerPop ==
  /\ wpc = "idle" /\ jobs # <<>>
  /\ cur' = Head(jobs) /\ jobs' = Tail(jobs)
  /\ wpc' = "parse"
  /\ UNCHANGED <<taken, tasks, resp>> /\ WorkerFrame

(* One turn of the loop: nothing to read; only part of a request, kept in   *)
(* the buffer or moved into the context; or a whole one.                    *)
WorkerParse ==
  /\ wpc = "parse"
  /\ LET whole == {i \in (taken + 1)..got : sent[i] # "more"}
     IN  \/ /\ whole = {}
            /\ taken' \in {taken, got}
            /\ wpc' = "finish" /\ UNCHANGED resp
         \/ \E i \in whole :
              /\ \A j \in whole : i <= j
              /\ taken' = i /\ resp' = i
              /\ wpc' = "respond"
  /\ UNCHANGED <<jobs, tasks, cur>> /\ WorkerFrame

(* SendResponse, after the handler. *)
WorkerRespond ==
  /\ wpc = "respond"
  /\ tasks' = Append(tasks, SendTask(resp))
  /\ wpc' = CASE sent[resp] = "keep"  -> "parse"
              [] sent[resp] = "close" -> "close"
              [] sent[resp] = "bad"   -> "clear"
  /\ UNCHANGED <<taken, jobs, cur, resp>> /\ WorkerFrame

WorkerClear ==
  /\ wpc = "clear"
  /\ taken' = got
  /\ wpc' = "close"
  /\ UNCHANGED <<jobs, tasks, cur, resp>> /\ WorkerFrame

WorkerClose ==
  /\ wpc = "close"
  /\ tasks' = Append(tasks, Simple("close"))
  /\ wpc' = "finish"
  /\ UNCHANGED <<taken, jobs, cur, resp>> /\ WorkerFrame

WorkerFinish ==
  /\ wpc = "finish"
  /\ tasks' = Append(tasks, DoneTask(cur))
  /\ wpc' = "idle"
  /\ UNCHANGED <<taken, jobs, cur, resp>> /\ WorkerFrame

Worker == WorkerPop \/ WorkerParse \/ WorkerRespond \/ WorkerClear \/ WorkerClose
            \/ WorkerFinish

-----------------------------------------------------------------------------
(* The base loop: the accept callback of TcpServer::Run and the task that   *)
(* _server_closed_callback gives it.                                        *)

AcceptSetInactive ==
  /\ bpc = "accepted"
  /\ tasks' = Append(tasks, Simple("setinactive"))
  /\ bpc' = "establish"
  /\ UNCHANGED <<peerVars, connVars, bufferVars, outVars, loopVars, workerVars, table, expired>>

AcceptEstablish ==
  /\ bpc = "establish"
  /\ tasks' = Append(tasks, Simple("established"))
  /\ bpc' = "done"
  /\ UNCHANGED <<peerVars, connVars, bufferVars, outVars, loopVars, workerVars, table, expired>>

Erase ==
  /\ bpc = "done" /\ erasing /\ table
  /\ table' = FALSE
  /\ UNCHANGED <<peerVars, connVars, bufferVars, outVars, loopVars, tasks, workerVars, bpc, expired>>

Base == AcceptSetInactive \/ AcceptEstablish \/ Erase

Next == PeerSend \/ PeerFin \/ PeerReset \/ Loop \/ Worker \/ Base

Spec == Init /\ [][Next]_vars

(* The threads keep running, and a peer that reads lets a send through      *)
(* again and again.  Nothing is assumed of what the peer sends, nor that    *)
(* the inactivity timer ever becomes due.                                   *)
Fairness ==
  /\ WF_vars(PollWith({}) \/ AfterPoll) /\ SF_vars(HandleWriteSome)
  /\ WF_vars(Worker) /\ WF_vars(Base)
FairSpec == Spec /\ Fairness

-----------------------------------------------------------------------------
(* Type invariant. *)
TypeOK ==
  /\ sent \in Seq(Kinds) /\ Len(sent) <= MaxSegs
  /\ fin \in BOOLEAN /\ rst \in BOOLEAN
  /\ state \in {"CONNECTING", "CONNECTED", "DISCONNECTING", "DISCONNECTED"}
  /\ events \subseteq {"IN", "OUT"} /\ poller \subseteq {"fd", "-1"}
  /\ taken \in Nat /\ got \in Nat /\ taken <= got /\ got <= Len(sent)
  /\ out \in Seq(Nat) /\ delivered \in Seq(Nat)
  /\ timer \in {"none", "active", "cancelled"}
  /\ lpc \in {"poll", "batch", "tasks", "aborted"}
  /\ batch \in Seq({"conn", "timer"}) /\ revents \subseteq {"IN", "OUT", "HUP"}
  /\ running \in Seq(Tasks) /\ tasks \in Seq(Tasks)
  /\ jobs \in Seq(Dones) /\ cur \in Dones
  /\ wpc \in {"idle", "parse", "respond", "clear", "close", "finish"}
  /\ resp \in 0..Len(sent)
  /\ bpc \in {"accepted", "establish", "done"}
  /\ table \in BOOLEAN /\ erasing \in BOOLEAN /\ expired \in BOOLEAN
  /\ closed \in Nat

-----------------------------------------------------------------------------
(* What a peer may expect.  A segment that completes a request is owed an   *)
(* answer, up to and including the first that ends the connection.          *)
Closer(k) == k \in {"close", "bad"}
Owed(i) == /\ i \in 1..Len(sent) /\ sent[i] # "more"
           /\ \A j \in 1..(i - 1) : ~Closer(sent[j])
InSeq(i, q) == \E k \in DOMAIN q : q[k] = i
InOrder(q) ==
  /\ \A k \in DOMAIN q : Owed(q[k])
  /\ \A k, l \in DOMAIN q : k < l => q[k] < q[l]
  /\ \A k \in DOMAIN q : \A i \in 1..q[k] : Owed(i) => InSeq(i, q)

(* What is handed to the kernel, and what waits in _out_buffer behind it,   *)
(* is the owed responses in the order of their requests, with none skipped, *)
(* repeated or made up: across jobs, pipelined requests, partial sends, and *)
(* Send and Close posted from another thread.                               *)
ResponsesInOrder == InOrder(delivered) /\ (~rst => InOrder(delivered \o out))

(* Connection::Close promises a graceful end (connection.cpp:278-305): a    *)
(* connection that was released without a reset and without the inactivity  *)
(* timer has answered everything it owed, including what the peer sent just *)
(* before its FIN.                                                          *)
GracefulClose ==
  state = "DISCONNECTED" /\ ~rst /\ ~expired =>
    \A i \in 1..Len(sent) : Owed(i) => InSeq(i, delivered)

(* _in_buffer has no lock.  The loop never writes to it (_HandleRead) while *)
(* a job for it is queued or runs: DisableRead before Submit, EnableRead    *)
(* only by the job's done task.                                             *)
LoopReads == /\ lpc = "batch" /\ batch # <<>> /\ Head(batch) = "conn"
             /\ "IN" \in revents /\ "HUP" \notin revents /\ Open
BufferHandedOver == LoopReads => jobs = <<>> /\ wpc = "idle"

(* No connection is left deaf: when it is connected and no job is queued,   *)
(* running or about to report, the loop watches for input.                  *)
ReadsResume ==
  state = "CONNECTED" /\ jobs = <<>> /\ wpc = "idle" /\ ~Holding(tasks) /\ ~Holding(running)
    => "IN" \in events

(* _Release runs its body once whoever asks for it (HUP, done tasks, timer, *)
(* Close): the user's closed_callback is called once, and the connection is *)
(* in no table, timer or poller before.                                     *)
ReleasedOnce ==
  /\ closed = (IF Open THEN 0 ELSE 1)
  /\ (~table \/ erasing) => ~Open
  /\ ~Open => "fd" \notin poller /\ timer # "active"

(* Send and Close post tasks that hold a raw this (connection.cpp:246-270). *)
(* None is left, and no timer or descriptor leads to it, once the last      *)
(* shared_ptr is gone: the worker's done task, posted after them, held one. *)
Raw(q) == \E i \in DOMAIN q : q[i].op \in {"send", "close"}
NoDanglingTask ==
  Freed => /\ ~Open
           /\ ~Raw(tasks) /\ ~Raw(running)
           /\ "fd" \notin poller /\ timer # "active"

(* channel.cpp:75-76: after a callback that may destroy the channel, it is  *)
(* not touched again.  A channel still in the batch is alive.               *)
BatchAlive == lpc = "batch" /\ (\E i \in DOMAIN batch : batch[i] = "conn") => ~Freed

-----------------------------------------------------------------------------
(* A connection that began to close is released, if the peer's FIN does not *)
(* come in between: the responses still held are flushed first.             *)
CloseCompletes == (state = "DISCONNECTING") ~> (state = "DISCONNECTED" \/ fin)

(* The same without that condition, as connection.cpp:286-287 has it.       *)
CloseTerminates == (state = "DISCONNECTING") ~> (state = "DISCONNECTED")

(* A request that was sent whole is answered, unless the peer stops         *)
(* sending, resets, or the timer strikes first.                             *)
RequestsAnswered ==
  \A i \in 1..MaxSegs :
    Owed(i) ~> (InSeq(i, delivered) \/ fin \/ rst \/ expired)

(* After a reset the connection is released, erased and, with its last job, *)
(* destroyed.                                                               *)
ResetReclaims == rst ~> Freed
=============================================================================

# MosaicRestored in TLA+

This directory holds TLA+ models of MosaicRestored, a mosaic-restoration web application on a
C++ HTTP server of its own, with the TLC runs that check them and the TLAPS proofs about them.
Paths below are relative to the repository (`src/...`); `HS` stands for
`src/extensions/HttpServer`.  `PROJECT.json` maps every definition of every module to the lines
it models.

    tlc -workers 2 -config connection_safety.cfg MCConnection     # a run
    tlapm ConnectionProofs.tla                                    # the proofs of one module

## 1. The system

A browser page uploads a picture to the restore server (`src/app/server.cpp`), a program on the
HTTP server library `HS`; the server forwards it over a local socket to a Python service
(`src/app/serving/mosaic.py`) that runs the model.  `src/app/loop.sh` starts and stops the
processes.  After a restoration the service notifies the user over WeChat
(`serving/wechat/`).  The library is a multi-reactor: one base loop accepts, sub loops own
connections, business threads run the message callback.

| Part | State it keeps | Operations | Hard behaviour | What makes it correct |
|---|---|---|---|---|
| Connection (`HS/src/server/connection.cpp`) | state, two buffers, flags of inactive release | event handlers, `Established`, `Send`, `Close`, `_Release`, `SetInactiveRelease`, `_RunMessageCallback` | three threads work on it without a lock; a done task carries the rest of a close; FIN, RST, partial sends | responses in order, none lost on a graceful close; buffer owned by one thread; released once; nothing points at it after |
| Channel, Poller | event mask, map from descriptor to channel | `Enable*`, `Disable*`, `HandleEvent`, `AddChannel`, `Poll` | level triggering; a batch of raw pointers; order of the branches | no event hides another for ever; no destroyed channel in a batch |
| EventLoop | task queue, eventfd, `_quit` | `Start`, `RunTask`, `AddTask`, `Stop` | wake-ups between check and wait; `Stop` before `Start` | tasks run once and in order; no sleep on a task; `Stop` stops |
| LoopThread, LoopThreadPool | pointer to a loop on the thread's stack, `_exited`, mutex and condition | constructor, `GetEventLoop`, destructor | lifetime of that loop; order of construction | the pointer given out is alive; both wait loops end |
| TaskThreadPool | a queue, a flag, a condition per worker | `Submit` (two), worker loop, destructor | lost wake-ups; submit against stop | per-key FIFO, one at a time; drains; destructor returns |
| Timer | wheel, `_taskMap`, `_taskVersionMap` | add, refresh, cancel, find, tick | lazy deletion by version; multiples of the wheel | every deadline kept to the tick |
| TcpServer, Acceptor | table of connections, id counter | `Run`, accept callback, erase, `AddTimerTask` | erased by one thread, used by others | erased once, last |
| HttpServer (`_OnMessage`), HttpContext | parser state, request | request line, headers, body, `Reset` | resumes at any byte; pipelining; errors in the middle | result does not depend on how bytes are cut |
| Buffer | ring of bytes, two indices, size | read, write, `ReadLine`, grow | wrap-around, growth while wrapped | a FIFO of bytes |
| Restore server (`server.cpp`), Python service (`mosaic.py`) | connections and their deadline, a queue per worker, the exchange with the service | accept, handler, curl, answer, expiry | service absent, slow, cut off; curl's limit against the connection's deadline; kept connections | each answer goes to its request, in time |
| WeChat client (`user.py`, `message.py`) | cached access token, shared by threads | construct, refresh, send, retry | the token expires between check and use; a refresh ends the others' token | one message; one retry, which ends |
| loop.sh | pid file, two processes | start, restart, stop, status | killed half way, stale pid file, SIGTERM ignored | stop leaves none, start makes no second one, strangers are spared, it ends |
| Page (`app.js`) | chosen picture, object URLs, result panel, link, button | choose, clear, restore with three awaits | an answer comes after the selection changed | no URL leaks; a busy panel ends; the comparison belongs together |
| Request targets (`http_context.cpp`, `http_server.cpp`, `utils.cpp`) | -- | split, decode, check a path, find a file, forward a query | escapes at the end, `..`, empty parts | a path is decoded once and leads where it is checked to lead |
| Socket, Any, Log, HttpResponse, styles | -- | system calls, containers, text | -- | not modelled: no protocol of their own |

How they interact: a sub loop gets work by three channels, epoll events, the tasks others queue
(`RunTask`) and its timer.  A business worker gets jobs from the loop (`Submit`, keyed by the
connection's id) and answers with tasks (`Send`, `Close`, the done task).  The base loop gives
the loop `SetInactiveRelease` and `Established` and takes back a task that erases the
connection.  Everything that changes a connection's state or its event mask runs on its loop;
`_in_buffer` is handed to the worker and back by switching reading off and on.  The application
is one handler on a worker, which blocks in curl until the service answers; the page's request,
its connection, the job and the service's work are four states of one restoration.

## 2. The modules

| Module | Models | Checked or used by |
|---|---|---|
| `Connection` | a connection from accept to destruction: peer, sub loop, worker, base loop | `MCConnection`, `ConnectionProofs` |
| `ConnectionProofs` | theorems about `Connection` | tlapm |
| `KeyedExecutor` | the promise of `Submit(key, task)` | refined by `TaskThreadPool` |
| `Ascending` | a finite set of numbers as an ascending sequence | extended by `TaskThreadPool`, `TimerWheel`, `Services` |
| `TaskThreadPool` | workers, submitters and destructor at the grain of critical sections and notifies | `MCTaskThreadPool`, `PoolProofs` |
| `Mailbox` | the promise of `RunTask` | refined by `LoopThread` |
| `EventLoop` | loop turn, queue, eventfd, `_quit`; actions only | extended by `LoopThread` |
| `LoopThread` | thread, publication, owner, posters around an `EventLoop` | `MCLoopThread`, `LoopProofs` |
| `DeadlineTimer` | the promise of the timer | refined by `Inactivity` |
| `TimerWheel` | wheel, versions, tick; operations only | extended by `Inactivity` |
| `Inactivity` | inactive release of connections on that wheel | `MCInactivity`, `TimerProofs` |
| `ByteQueue` | the promise of a Buffer | refined by `Buffer` |
| `Buffer` | the ring of bytes with its growth | extended by `HttpServer` |
| `HttpServer` | parser and message callback on a Buffer, bytes arriving in pieces | `MCHttpServer`, `HttpProofs` |
| `HttpProofs` | theorems about `Buffer` and `HttpServer` | tlapm |
| `RequestTarget` | path and query of a target, static files, the forwarded query | `MCRequestTarget`, `TargetProofs` |
| `Page` | the page, with any server: `PageSpec` | extended by `RestoreApp`; `AppProofs` |
| `RestoreServer` | connections, workers and handler of the restore server, and the service | extended by `RestoreApp` |
| `RestoreApp` | page, server and service composed | `MCRestoreApp`, `AppProofs` |
| `Notifier` | the service's notifications and the shared token | `MCNotifier`, `ServingProofs` |
| `Services` | `loop.sh` and the processes it starts and stops | run as it is; `ServingProofs` |
| `AppProofs`, `LoopProofs`, `PoolProofs`, `ServingProofs`, `TargetProofs`, `TimerProofs` | theorems | tlapm |

Each module has mutated forms of some actions next to the originals, marked "Mutation".  They
are in no next-state relation.  Each is a bug the code might have had, and the property it
stands for is violated when it takes the original's place.

### Connection

State and code: `state` is `_state`; `events` is the channel's mask; `poller` the keys of
`Poller::_channels` that lead to the channel (`"-1"` when it was registered after its socket was
closed); `batch` is what is left of `activeChannels` and `revents` the mask poll stored in the
channel; `tasks` and `running` are the loop's queue and the vector it swapped out; `jobs` is this
connection's part of its worker's queue, each named by the `done` callback it ends with:
`"resume"` for none, `"release"` for `_HandleClose` and a failed write, `"finish"` for
`finish_close` of `Close`.  `table` and `erasing` are the server's table and the base loop's task.

Data: the peer's bytes are segments that complete a request (`keep`, `close`, `bad`) or do not
(`more`).  `got` and `taken` are positions in that sequence: what the loop has read, and what the
worker has consumed.  A response is the number of the segment that completed its request, so
order, loss and duplication are all visible.  A send takes any number of whole responses; a
response cut in the middle is one that stays, since what matters is that the rest goes back in
front of the buffer.

Actions: one for each branch a handler can take.  `HandleReadData`, `HandleReadEnd`,
`HandleWrite*`, `HandleClose` follow the order of branches in `Channel::HandleEvent`.  Operations
the handlers call in the loop's thread (`CloseConn`, `Release`, `SubmitJob`, `FinishClose`) are
operators and part of the calling step, because `RunTask` runs at once there.  The worker's job
has one step for each task it posts, so the loop may run between them.  `Freed` says that no
`shared_ptr` is left, those captured by jobs and done tasks included.

Simplifications: reactor threads and business threads are both at least one, as the application
configures them; EPOLLERR and EPOLLHUP, which lead to the same calls, are one event; an
exception that escapes the message callback (`connection.cpp:71-80`) does not occur, because
`_OnMessage` catches what the handlers throw; the loop's queue is atomic, which module
`EventLoop` justifies; done tasks free their pointer as they run, the code when their vector is
cleared, which is later and only weakens `Freed`.

### TaskThreadPool, KeyedExecutor

A critical section is one step; `notify_one`, which the code calls after unlocking, is another;
waits may end without a notify.  Callers submit keyed and unkeyed tasks, also while the destructor
runs.  `late` collects tasks pushed to a worker already told to stop, for which the code promises
nothing.  The refinement projects each worker's queue on the keys, so unkeyed tasks disappear.

### EventLoop, LoopThread, Mailbox

`AddTask` is two steps, queue and eventfd; a turn of the loop is check, wait, handle, swap, run.
`LoopThread` adds the mutex explicitly, because the members of the class are initialised in the
order of declaration: `_thread` starts before `_mutex`, `_cond_var` and `_exited` are
constructed.  `OwnerConstruct` is that construction; before it the zeroed objects behave as an
unlocked mutex and no waiters, and the step may undo what the thread did.  This is undefined
behaviour in C++; the model takes the outcome the glibc types give.

### TimerWheel, DeadlineTimer, Inactivity

A tick handles its whole slot in one step, in order: nodes behind one that ended the task no
longer count, since its version is gone.  Versions restart at 1 when a task ends.  `Users` says
who calls the public `SetInactiveRelease` after accept: nobody (as the application), only while
the id is known to the timer, or anybody at any time.

### Buffer, ByteQueue

`cells`, `readIndex`, `writeIndex` and `size` are the members of the class; `call`, `answer` and
`ok` record the last call for the refinement, whose mapping is `bytes <- Content`, the cells from
the read index up and round to the write index.  `WriteInPlace` and `WriteGrown` are the two ways
through `_HaveSpace`, `WriteFails` the allocation that throws.  A copy of bytes one by one is a
single step (`Put`), as a Buffer is used by one thread at a time, which `BufferHandedOver` in
`Connection` is about.

### HttpServer

One connection, its `HttpContext` and the loop of `_OnMessage`.  A byte is a carriage return, a
newline or a token for the visible text of a line; `Lines` says what the regular
expression finds in a request line and what the server has under its path.  `Arrive` is
`_HandleRead` with any number of the bytes still to come.  Each line or body the parser takes is
a step, so that `ReadLine` and `Read` are those of `Buffer`; falling from one stage of
`ParseRequest` to the next is the next step's guard on `accept`.  `Respond` and `RespondError`
are the rest of a turn of the loop.  After `Close` the callback runs once more for what is left in
the buffer, as `finish_close` has it, with answers dropped.

`Expected` says what the client may expect from the messages of the script alone, without
the bytes: `RequestsFramed` and `AllAnswered` compare the parser with it for every way to cut the bytes.
`Connection` abstracts from all this to segments that complete a request or do not.

### RequestTarget

Here text is the subject, so it is a sequence of character codes.  A client writes a target piece
by piece and asks for it at any length with GET, HEAD or POST.  `Uri` and `QueryParams` are what
`_ParseRequestLine` takes from a target, `IsStaticResource` and `HandlerStatus` what
`_HandleRequest` decides.  The constructor enters `Methods` in the table of handlers with empty
lists, and the application adds handlers for POST only: a GET that finds no file is answered 404,
and a method the table does not have, as HEAD, 405.  `ForwardedUrl` is the loop of `ForwardRestoreRequest`, with
`UrlEncode` for `curl_easy_escape`, which escapes the same characters; the names of the forwarded
parameters are one letter long.  `Walk` is what the kernel does with a path, in a file system
given by its directories and files: a name under what is no directory leads `Nowhere`, as does the
same name behind it.  `IsFile` passes the path as a C string, so the kernel sees it as far as its
first NUL (`CString`), while `IsValidPath` counts the levels of all of it.  The assumption on the
constants is that directories stand in directories, no path is a file and a directory, and the
root of the site is a directory below the root of the file system, where `..` would lead nowhere
else.

`DecodedOnce` compares the parser with `Reading`, which is written without the decoder: it says for each
position of a text by itself what it contributes, given the set of `Escapes`, where an escape is a
percent sign with two characters that `HexDigit` writes (or their lower case).  A decoder that
drops a stray percent sign, accepts one too close to the end, or decodes before it cuts at `?`,
`&` or `=` differs from it, and so does a path that is decoded twice, which is the mutant
(`UriTwice`).

### Page, RestoreServer, RestoreApp

`Page` has the variables of `app.js` under their names.  `live` are the object URLs made and not
revoked, `blobs` what each was made of.  `calls` are the calls of `restoreImage`, each at one of its
awaits: `reading` the file, `sent`, `head` (a good answer whose body is still to come), `error` (a
bad one).  `Choose`, `ClearAll` and `Click` run between any two of them.  `PageNext` leaves the
server's part open; that is the abstract specification `PageSpec`.

`RestoreServer` takes the library as the other modules have it: `Receive` is a request parsed on
a connection and submitted to the worker of its id, `Respond` is `SendResponse` from the worker,
which is dropped when the connection was released, `Expire` is the inactivity timer, which
nothing refreshes (`inactivity_refresh`), so that `age` counts from the accept.  The handler is
the steps `HandlerStart`, `CurlFails`, `CurlConnects`, `CurlReturns`, `CurlBroken`,
`CurlTimesOut`.  Of the service one sees that it has begun (`running`), is `finished` with a status, or was
`lost` with its process.  A unit of time is 300 s: curl's limit is 2 and the deadline 3
(`server.cpp:222, 13`); what the code bounds by less takes no time, so `Tick` waits for it.
500 stands for the service's 422, 500 and 502.  A crash of the server closes its connections; an
answer that was sent may still be read.

`RestoreApp` joins them: call `n` of the page is request `n` of the server.

### Notifier

A step is a request or an answer of one thread, or a read or write of `_cached_access_token`
between them.  The messaging service accepts one token; issuing one ends the one before.
`disturbed` is a history variable: a failure, an expiry, or another thread's refresh while the
notification ran.  Tokens nobody holds are issued again, so that the state is finite without a
bound on refreshes.  `USER_ID` is taken to be set.

### Services

Processes of the user have a number and a kind.  A viewer is one whose command line contains
the path of a service without being one (`gdb .../mosaic_server`, an editor of `mosaic.py`):
`pgrep -f`, which the script runs on either path, finds it as well (`Naming`, `Matching`), and the script
signals it.  `Residents` are the kinds of the process that runs before the script does, `Newcomers`
those of the ones that start later.  A number that is free may be given out again; `reused` records
that a service or viewer ended while the pid file, the list of pgrep or the variables of the
script had its number (`AtHand`).  The script is a sequence of stages which may end between any two of them
(`ScriptDies`); `stop_pid` is `StopGone`, `StopAsk` and `StopForce`, and a signalled process takes
any time to end, or forever when it was only asked.  `status` changes nothing and is left out.

## 3. The runs

| Run | Question | Bounds | Result |
|---|---|---|---|
| `connection_safety` | can the four parties disturb responses, buffer, release or lifetime | 2 segments, 2 queued jobs | holds, about 1.1 million states |
| `connection_liveness` | do closes end, requests get answers, resets free memory | 1 segment, 2 queued jobs | holds, about 57 000 states |
| `connection_fin_livelock` | does a close end whatever the peer does | 1 segment | violated |
| `pool` | is the pool a keyed executor, without lost wake-ups, with a destructor that drains and returns | 2 workers, 2 callers, 3 tasks | holds, about 42 000 states |
| `loop_thread` | is the loop a mailbox, without lost wake-ups, alive while posted to | 2 posters, 3 tasks | holds, about 8 000 states |
| `inactivity` | does the wheel keep deadlines | 2 ids, wheel of 2, timeouts 1 and 4, 2 versions | holds, about 94 000 states |
| `inactivity_refresh` | is only an inactive connection released | 1 id, wheel of 3 | violated |
| `http` | does each request get its answer however the bytes are cut, and is the buffer a queue | 2 messages of 8 kinds, capacity 3, lines of at most 3 | holds, about 149 000 states |
| `app` | do answers go to their requests, in time, and is the page sound through crashes, timeouts and a user who goes on | 2 calls, 2 choices of 2 pictures (one empty), 2 connections, 1 worker, 1 crash | holds, about 336 000 states |
| `notify` | is a notification that nothing disturbs delivered, none twice, and do all end | 2 notifications, 6 tokens | holds, about 7 000 states |
| `services` | does `loop.sh` stop what it started, never start a second one, spare others and end | 6 process numbers, 2 calls, a viewer of both paths, and a stranger or a viewer of the server that starts later | holds, about 999 000 states |
| `targets` | does a target lead where the checks say, and the query arrive | 5 starts, each followed by up to 4 pieces, of 11 in a path and 8 in a query | holds, about 227 000 states |

Why the bounds are enough.  Two segments give pipelining (two in one read), a read while a
job for the first is over or still to report, an error or close before another request, and a
request split in two.  Two queued jobs give a job behind a running one and one behind that; the
loop is made to wait only in one place, `Ready`, where a reset would otherwise submit jobs
for ever (`MaxJobs`; see hazards).  Liveness needs one segment, for which every close path
already exists.  Two workers and three tasks, two with the same key, give order within a
key, a busy worker and an idle one.  In the wheel a timeout of 1 ends at the next tick and one of
4 is two whole turns of a wheel of 2, the boundary the round count is about; two versions let a
task be refreshed once with its old node still in the wheel.

In `http` two messages give a request behind another in one arrival, one that is cut at any
byte, and one behind an error or a close; their kinds are a request without headers, one whose body
holds a newline and a line, one whose body is an empty line and which closes, HTTP/1.0 with and
without keep-alive, a header without a colon, `chunked`, and a header that is too long.  With a
capacity of 3 the ring wraps, grows while it is wrapped, and grows again, to 32 cells; `MaxSize`
(64) is never reached.

In `app` one worker makes the second request wait behind the first whatever its connection, two
connections allow both a kept one and a new one, and the page may choose twice, so that a late
answer meets another picture, none, or another call.  One crash is of either process; after it the
other requests still run.  Two notifications end each other's tokens; three were checked once
(683 000 states) with the same result.  Six numbers of processes are two services left by a
start that was killed, two new ones, a foreign process and a viewer; two calls of the script give a start or stop
after one that was killed at any step.  Behind the starts four pieces reach `..` behind an empty part
or a missing directory, an escape in the middle and at the end, a percent sign made by an escape with
two characters behind it that look like digits, an escaped question mark, and a separator, a plus
or a percent sign in a name or a value.

`CHECK_DEADLOCK FALSE` stands where the system stops: a freed connection with a peer that is
done, a destroyed pool, an ended thread, a wheel whose versions are used up, a script that has been sent,
a user and a caller that are done.

### Fairness

Threads that can run do run: weak fairness of the loop's, the workers', the base loop's, the
callers' and the destructor's steps.  Nothing is assumed of the peer, of the timer becoming due,
of spurious wake-ups or of who submits.  `SF(HandleWriteSome)` says that the kernel accepts
bytes again and again from a socket that keeps polling writable, that is, the peer
reads: without it a client that never reads holds its connection for ever, which the
code leaves to the inactivity timer.  `SF` of the two `Lock` actions in `LoopThread` says that
a mutex free again and again is got in the end.

In `RestoreApp` the browser and the network go on with what they can go on with, a closed
connection is noticed, the workers run, timers expire and time passes; nothing is assumed of the user and
of the service, which may take for ever, so that `RestoreEnds` rests on curl's limit.  In
`Notifier` a thread's step ends, because every request has a timeout of 10 s (`user.py:36`,
`message.py:24`).  In `Services` the shell runs and the kernel ends what gets SIGKILL; a process
that gets SIGTERM may stay for ever.

### What the violated runs show

- `connection_fin_livelock`: after a FIN with responses still to send, reading stays on; the end
  of the stream is reported in every turn, the read branch of `HandleEvent` returns before the
  write branch (`channel.cpp:89-93`), and the loop spins without sending or releasing.
- `inactivity_refresh`: every branch of `HandleEvent` for the events epoll reports returns before
  `eventAction` (`channel.cpp:77-103`), so no activity ever refreshes the timer and an active
  connection is released when its first timeout is over.

`CloseCompletes` is, in a passing run, the first promise with the condition under which the code
keeps it.

### Promises that no run lists

The modules state five more promises which the code does not keep.  They are in no run, to keep
the runs few; adding the definition to the cfg shows the counterexample.

- `BatchAlive` (invariant, `connection_safety.cfg`): every channel in a batch is alive.  The timer of a loop
  may release a connection that comes later in the same batch and the base loop drop the
  last pointer; `HandleEvent` then runs on freed memory (`event_loop.cpp:61`; `channel.cpp:75-76`).
- `DestructorReturns` (property, `loop_thread.cfg`): `Start` begins by clearing `_quit`
  (`event_loop.cpp:56`) after the address was published; a `Stop` in between is undone and the
  destructor joins for ever.  `StopAfterStart`, which is checked, has the condition.
- `StopOnLiveLoop` (invariant, `loop_thread.cfg`): between the two lines of `Stop` the loop may see `_quit`,
  return and end with its thread's stack; the eventfd is then written on a dead object.
- `LimitKept` (invariant, `http.cfg` with `Messages <- LimitMessages`): while a line is
  incomplete its limit is compared with all unread bytes, the CR included (`http_context.cpp:21,
  123`), afterwards with the text alone (38, 147).  A line of exactly the limit is accepted whole
  and answered 414 when it is cut before its LF.
- `ComparisonMatches` (invariant, `app.cfg`): the comparison shows an original and its own restoration
  (`app.js:101-118`).  `restoreImage` does not look whether the selection changed while it
  waited, so a late answer is compared with the picture chosen since, or with none.

## 4. What is proved

The theorems hold for every value of the constants that satisfies the assumption of their module:
any number of segments, jobs, posters, workers, calls, connections, notifications, any capacity.
Each rests on an inductive invariant that adds to the property what the steps need; TLC checked
each of them before it was proved.

`ConnectionProofs`, of a connection and its three threads:

- `TypeCorrect`.  `TypeOK` is not inductive, because `WorkerRespond` looks up the kind of the
  segment it answers and leaves `wpc` undefined for a kind `more`.  `Answering` adds that a worker
  about to respond has a segment that completes a request.
- `ReleaseHappensOnce`: `ReleasedOnce`.  Each caller of `_Release` looks at the state first, except
  the timer set-up, which makes the timer active whatever the state.  So one must know that the
  set-up task is not behind the release.  `Startup` says so: until that task has run (`Starting`)
  the connection is `CONNECTING` and in no poller, timer, batch or job (`Quiet`), so nothing can
  release it; after it (`Started`) no set-up task is queued.
- `BufferOfOneThread` and `ReadingResumes`: `BufferHandedOver` and `ReadsResume`.  Both follow from
  what is outstanding (`WorkInv`).  Work is a queued job, a callback that runs, or a done task.  A
  connection that watches for input and was not reset has none (`WatchedIdle`), nor one whose
  reading is about to be handled (`BatchIdle`); a connected one has at most one
  (`OneWhileConnected`); and only a closing one has a job that ends in `finish_close`
  (`FinishesClosing`).  A reset breaks the count, since EPOLLHUP cannot be masked, and the
  invariant says until when it holds.
- `RawPointersAlive`: `NoDanglingTask`.  `Send` and `Close` capture `this` alone.  `RawCovered` says
  that while no job runs each of their tasks has a done task behind it, whose `shared_ptr`
  keeps the connection alive until then.

- `ResponsesKeepOrder` and `CloseIsGraceful`: `ResponsesInOrder` and `GracefulClose`, by `FlowInv`, which
  follows a response through the worker, the loop's tasks, the output buffer and the kernel.
  `Pipeline` holds while the connection can still write and says of each stage what it has of the
  responses owed: sends stand in the order of their requests, nothing owed before the worker's
  position is missing, and a task `Close` is behind every send.  `Finished` is what is left of it
  when the connection closes: everything owed is written.  `NoRelease` says that only a reset makes
  a job that releases.  A reset ends all three, and the properties only promise order after one.

`HttpProofs`, of the ring of bytes and the parser on it:

- `BufferTypeCorrect`: the indices stay inside the vector.
- `BufferIsQueue`: `BufferSpec => ImplementsByteQueue`.  The type invariant is inductive and enough.
  `Fwd` and `Gap` are the sum and the difference of indices on the ring; `FwdIs` and `GapIs` say
  what they are without `%`.  `PutAppends` is the core: bytes put behind the content of a ring that
  has room for them make it hold the content with them; both ways to write follow from it, and
  `AdvanceStep` is the same for reads.  `http` checks the refinement on the calls the parser makes,
  the theorem has it for every sequence of calls.
- `HttpTypeCorrect`, and `HttpUsesQueue`: `Spec => ImplementsByteQueue` for the server.  The types
  need `BodyBound`, that what is left of a body is not negative.
- `RequestsAreFramed` and `AllAreAnswered`: `RequestsFramed` and `AllAnswered`, for every script of
  messages, cut, capacity and limit.  `After[i]` is what the messages from the i-th on come to, and
  `FromHeader(m, h)` what follows in `m` from its header `h` on.  `HttpInv` says at each stage of the
  parser that what is in the buffer, followed by what has not arrived, is exactly what such a place in
  the script leaves, and that the request holds what comes before it: `AtLine`, `AtHeaders`,
  `AtBody`, `AtEnd`; in the stage `"error"` the message at hand is one that is to be refused.  `Waiting` says
  that the callback returned only because a line or a body has no end in the buffer, from which
  `AllAnswered` follows when nothing is to come.  `Answered` relates the answers to the script, and
  `Phases` the stage to the turn of `_OnMessage`.  The core are `LineRead` and `BodyRead`: of bytes that
  begin with a line, or a body, some have come; then a read takes the line, or the body, and leaves
  what follows, or it finds no end.  `TailsExist`, by induction over the number of messages, says that
  a text made of parts has such tails; `SetInduction` is derived from the well-founded order of finite
  sets.  The invariant was checked on the instance of `http` before it was proved.
  The theorems rest on `ClientAssumption`, what a client may send: no line feed inside a line, no
  empty header, a body of the length that is said when the message is good, and not both kinds of
  connection; and on `HttpAssumption`, a limit that is larger than a line of one text and its CR, since at the
  limit the code does not keep its promise (`LimitKept`).

`PoolProofs`, of the pool of workers:

- `PoolTypeCorrect`, with what a caller about to push and a worker that runs have in hand.
- `WakeupsKept`: `NoLostWakeup`, which is inductive on the types: a worker sleeps on a task or a
  stop flag only while a notify for it is still to come.
- `DestructorDrained`: `DestructorDrains`.  A task is at every moment fresh, being pushed, in a queue,
  run or done (`Located`); what is left with a worker that ended came after its stop
  (`OnlyLateLeft`); the destructor has joined all workers before the one it is at (`Joined`).

- `PoolIsKeyedExecutor`: `Spec => ImplementsKeyedExecutor`.  `ExecutorInv` says that tasks of a key
  are only with its worker (`Placed`) and that a task that is fresh or being pushed is nowhere else
  (`Once`).  The mapping takes from a worker's queue the tasks of each key in their order, `OfKey`, by
  the ascending sequence of their places (`Ascending`).  `OfKeyPushed` and `OfKeyPopped` say what a
  push and a pop do to it; they rest on `ListingExists` and `ListingUnique`, that a finite set of
  numbers has one such sequence, which is proved by well-founded induction on its subsets.

`LoopProofs`, of a loop in its thread:

- `LoopTypeCorrect`.
- `LoopWakeupsKept`: `NoLostWakeup`.  `WakeInv` is wider: from the push on, a queued task has its
  wake-up written, about to be written, or the loop in a stage before the swap.
- `AddressAlive`: `PointerAlive`.  Until `Stop` the thread has not left its loop (`NotLeft`), a
  published address is of a living loop, and what `GetEventLoop` returned is the published one,
  although the members the two threads share may be constructed late.
- `LoopIsMailbox`: `Spec => ImplementsMailbox`.  The mailbox's content is the swapped vector followed by
  the queue; `MailInv` says that a task that is fresh or being pushed is nowhere else, so that
  none is run twice.

`AppProofs`, of a restoration from the page to the service:

- `UrlsSound` and `BusyEnds` of the page with any server: `ObjectUrlsSound` by `UrlInv`, which
  relates what is shown, what is kept and what is revoked; `BusyHasRequest` by `CallsSound`, that a
  call in flight has a picture.
- `AppImplementsPage`: `Spec => PageSpec`.  Each step of page, server and service is a step of the page
  or leaves the page alone; `AppUrlsSound` and `AppBusyEnds` follow without another proof.
- `AppTypeCorrect`, with what a busy worker has (`Working`).
- `InTime`: `AnsweredInTime` for every limit of curl and every deadline.  `TimeInv`: what curl has
  waited is at least what has passed on the connection since the handler began.
- `AnswersSound`: `AnswersMatch`.  `OrderInv`: a job stands in the queue of its connection's worker and
  the connection waits for it, with no answer yet (`JobsWaited`); there is one job for a
  connection and one answer on it.  `MadeInv`: a request has one job at most, a request that
  was not sent is unknown to the server, the service knows nothing of a job that did not begin,
  and a good answer is one the service made.

`ServingProofs`, of the notifications: `LoneDelivered` and `MessageOnce`, from one invariant.  A notification that nothing
disturbed holds the token that is accepted once it has refreshed (`Known`), and the messages
it sent are those its stage says (`Counted`).

`TimerProofs`, of the wheel and the inactive release on it:

- `InactivityTypes`.
- `OneNodeWaits` and `TimerKeepsDeadlines`: `OneNodeCounts` and `KeepsDeadlines`, for every size of the
  wheel and every timeout.  `WheelInv`: a task in the map has one node that counts, which comes up
  after its rounds and its distance from the pointer (`KnownDue`, `DueIn`); other nodes are older
  (`NodesOld`); an id without a task begins at version 0 (`UnknownFresh`).  These two theorems have
  the hypothesis `Guarded == Users # "any"`, that an id is not added again after its task ended.
  The program keeps it: ids are not given twice, and `SetInactiveRelease` is called once
  for a connection, when it is accepted.  An id added again would restart its versions and might
  find an old node of the same version (`timer.cpp:106`; section 5).

`ServingProofs`, of the service script:

- `ServicesTypeCorrect`.
- `StrangersAreSpared`: `StrangersSpared`, by `NamesSound`: every number the script has at hand is
  a service's or a viewer's (of either path), free, or one that was taken over after its service or
  viewer ended while the script had it.
- `StopIsComplete` and `NoSecondService`: `StopLeavesNothing` and `OneOfEach`, by `LeftInv`, which says
  for every stage of a call where the services still running are: in the pid file (`OnlyNamed`),
  in the list that is worked off (`OnlyFound`), or the ones just started (`OnlyStarted`,
  `Recorded`), one of each (`OneLeft`).  It holds when `pgrep` is installed or no start was killed
  before it wrote the file, the condition both properties have.

`TargetProofs`, of targets, for every text, file system, table of routes and list of forwarded
names.  Here the properties are about what folds and a recursive function compute.  The induction
theorems and the theorems about folds of the library take an operator as a parameter, which the
provers cannot instantiate, so the module has its own: `LeastOf` takes the least number of a set
from the well-founded order of finite sets, which is a theorem about a set, and `SetInduction` and
`SeqInduction` follow for sets of numbers and of sequences.  A fold with operation `op` is the last
value of a table of its partial results; `FoldTableExists`, `OneFolds` and `FoldedAppend` say that
there is one such table and what one element more does to it, with `op` as a function, and each
operator of the model has a lemma `...Append` from them (`SplitAppend`, `EncodeAppend`,
`ParamsOfAppend`, `LevelOfAppend`, `WalkAppend`).

- `TargetTypeCorrect`.
- `PathDecodedOnce`: `DecodedOnce`, by `DecodeReads`: decoding a text is reading it.  `from` of
  `UrlDecode` runs from the left and skips over escapes, the fold of `Reading` takes one position
  after the other.  The induction says that what was read of the first `k` characters, with what
  the decoder makes of the `Rest`, is what it makes of the whole; `Rest` steps over the digits of an
  escape that is under way, which is sound because no escape begins within another
  (`EscapesApart`), and the two agree on what an escape is (`EscapeIs`, `DigitsOf`).  `ParamsRead`, by
  induction over the parts of the query, says that the table of parameters has the names that were
  read, each with its last value.
- `ParametersForwarded`: `QueryForwarded`.  The induction is over the list of names: what has been
  written is a list of pairs whose split and decoded form is the table of the parameters taken so
  far (`FirstForwarded`, `NextForwarded`, `AllForwarded`), because nothing encoded holds `&`, `=`
  or `?` (`PairIs`); a name that is listed twice is sent twice with the same value.  That encoding
  and decoding gives a text back is `DecodeEncode`: `DecodeEncoded` decodes one encoded byte in
  front of any text, and `DecodeShift` says that what stands before a place has no effect on the
  decoding from there.
- `FilesServedExactly`: `ServedExactly`, by `LevelWalk`: after each part of a path the count of levels
  and the walk agree (`Fine`): either the walk is in a directory that is the root or below, at a
  depth that is the level, or it has met a name that does not exist, from where no file is
  reached.  A path that counts as valid stays inside; one that stays inside and reaches a file
  counts as valid.  A path that ends in a slash counts as its `index.html` does (`FileLevel`).
  Behind a NUL the count goes on with what the kernel does not see; it may refuse there, which is
  why the second half of the property leaves such paths out, but misses nothing that stands before
  (`CutShort`).

The proof found a flaw of the model: `Level` was a `CASE` whose guards overlapped for a `..` after the
path had left the root, so that its value was not determined.  It is an `IF` now, in the order of
the code's tests.

Model-checked only:

- all liveness (`CloseCompletes`, `RequestsAnswered`, `ResetReclaims`, `TasksRun`, `DestructorReturns`,
  `StopAfterStart`, `RestoreEnds`, `NotificationsEnd`, `ScriptEnds`).  Liveness under fairness and
  `ENABLED` are out of the prover's reach.

The type invariants of most modules are in no run, because the theorems have them for every
instance.

## 5. Hazards no run covers

`PROJECT.json` lists all hazards at their lines.  Those without a property:

- a batch of channels holds raw pointers while the base loop may destroy a connection
  (`event_loop.cpp:61`): `BatchAlive` above;
- the timer task is added before `Established` runs, and a tick in between would meet the
  assertion at `connection.cpp:190`: the model has the outcome (`lpc = "aborted"`), no property
  forbids it;
- `finish_close` after a release registers the closed channel under descriptor -1
  (`connection.cpp:288`; `poller` holds `"-1"`), where it stays;
- the thread of a `LoopThread` starts before the members it uses are constructed
  (`loop_thread.h:10`): with `OwnerConstruct` late, `GetEventLoop` of the model may wait for ever;
- `_HandleRead` ignores a failed `Write` (`connection.cpp:31`), so the parser would go on behind a
  gap; `WriteFails` of `Buffer` is the failure, which `HttpServer` leaves out;
- the limit of a line is tested in two ways (`http_context.cpp:21`): `LimitKept` above.

Covered in part, with the condition in the property:

- a request that waits on its worker behind another of up to 600 s, or comes late on a kept
  connection, may miss the deadline (`server.cpp:222`); `AnsweredInTime` is about handlers that begin
  early enough;
- a number in the pid file that another process got is signalled (`loop.sh:124`);
  `StrangersSpared` excludes it, as it excludes a number that was a viewer's when `pgrep` listed it,
  since nothing looks again whose the number is; and a process that names `mosaic_server` or
  `mosaic.py` on its command line is signalled for what it is (`loop.sh:186-187`);
- without `pgrep` nothing finds the services of a start that was killed (`loop.sh:237`);
- an id added twice to the timer starts its versions again (`timer.cpp:106`); the public
  `SetInactiveRelease` called at any time (`Users = "any"`) does that, this program does not;
- a late answer is compared with the picture chosen since (`app.js:262`): `ComparisonMatches` above.

## 6. Not modelled, and what is left

Not modelled:

- `Acceptor`, `Socket`, `Any`, `Log`: system calls, a container and text, with no protocol of their
  own.  What `Recv` and `Send` return, and the accept callback, are in `Connection`.
- The formatting of `HttpResponse`, the regular expressions of routes and request lines (given by
  what they match), the layout of the page, its status line and sliders, `status` of `loop.sh`, the
  model's numerics.
- `SwitchProtocol` and `TcpServer::AddTimerTask`, which no caller in this program uses; `SetContext`,
  whose one use is the fresh context that `HttpServer` begins with.

Left to do:

1. `ServerTable`: many connections of one server: the two counters of ids (`tcp_server.h:13`), round
   robin, and the mode without a business pool.
2. What the parser does at the limit of a line, as a property with its proof.

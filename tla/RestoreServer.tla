---------------------------- MODULE RestoreServer ----------------------------
(***************************************************************************)
(* The restore server, server.cpp on the HTTP server library, and the      *)
(* Python service behind it, mosaic.py: connections with the deadline of   *)
(* the server, the business workers that run the handler and wait in curl  *)
(* for as long as the service takes, and a service that may be absent,     *)
(* slow, failing or killed.                                                *)
(*                                                                         *)
(* Time passes in units of 300 s: CurlTimeout is CURLOPT_TIMEOUT and       *)
(* Deadline is RESTORE_PROXY_INACTIVE_TIMEOUT, counted from the accept,    *)
(* because no activity refreshes it (Inactivity).  All that takes less     *)
(* than a unit, CURLOPT_CONNECTTIMEOUT included, takes no time.            *)
(***************************************************************************)
EXTENDS Naturals, Sequences

CONSTANTS Requests, NoRequest, MaxConns, Workers, CurlTimeout, Deadline,
          MaxCrashes   \* bound: crashes of either process

ASSUME ServerAssumption ==
  /\ NoRequest \notin Requests
  /\ MaxConns \in Nat /\ Workers \in Nat \ {0}
  /\ CurlTimeout \in Nat \ {0} /\ Deadline \in Nat \ {0} /\ MaxCrashes \in Nat

Conns == 1..MaxConns              \* _id of a connection
WorkerOf(c) == c % Workers        \* Submit(_id, ...)

VARIABLES conns,    \* "unused", "open", "closed"
          age,      \* time since the accept
          using,    \* the request the client waits for on it
          wire,     \* answers sent on it: [request, status]
          queue,    \* per worker: its jobs, [request, conn, empty]
          stage,    \* per worker: "idle", "connect", "exchange", "respond"
          spent,    \* per worker: time in curl_easy_perform
          began,    \* history, per worker: the connection's age when its handler began
          result,   \* per worker: the status the handler has set
          service,  \* per request: "none", "running", "finished", "lost"
          upstream, \* per request: the status of the service's answer
          up,       \* the service runs
          crashes

connVars == <<conns, age, using, wire>>
workerVars == <<queue, stage, spent, began, result>>
serviceVars == <<service, upstream, up, crashes>>
serverVars == <<connVars, workerVars, serviceVars>>

WorkerIds == 0..(Workers - 1)
Waiting(w) == stage[w] \in {"connect", "exchange"}
Job(w) == Head(queue[w])

ServerInit ==
  /\ conns = [c \in Conns |-> "unused"] /\ age = [c \in Conns |-> 0]
  /\ using = [c \in Conns |-> NoRequest] /\ wire = [c \in Conns |-> <<>>]
  /\ queue = [w \in WorkerIds |-> <<>>] /\ stage = [w \in WorkerIds |-> "idle"]
  /\ spent = [w \in WorkerIds |-> 0] /\ began = [w \in WorkerIds |-> 0]
  /\ result = [w \in WorkerIds |-> 0]
  /\ service = [r \in Requests |-> "none"] /\ upstream = [r \in Requests |-> 0]
  /\ up = TRUE /\ crashes = 0

-----------------------------------------------------------------------------
(* Connections. *)

(* A request arrives whole on a connection that is kept alive, or a new one *)
(* is accepted for it; its job goes to the worker of the connection.        *)
Receive(r, c, empty) ==
  /\ \/ conns[c] = "open" /\ using[c] = NoRequest /\ wire[c] = <<>>
     \/ conns[c] = "unused" /\ \A d \in 1..(c - 1) : conns[d] # "unused"
  /\ conns' = [conns EXCEPT ![c] = "open"]
  /\ using' = [using EXCEPT ![c] = r]
  /\ queue' = [queue EXCEPT ![WorkerOf(c)] =
                 Append(@, [request |-> r, conn |-> c, empty |-> empty])]
  /\ UNCHANGED <<age, wire, stage, spent, began, result, serviceVars>>

(* The client takes the next answer on the connection for its request. *)
Deliver(c) ==
  /\ wire[c] # <<>> /\ using[c] # NoRequest
  /\ wire' = [wire EXCEPT ![c] = Tail(@)]
  /\ using' = [using EXCEPT ![c] = NoRequest]
  /\ UNCHANGED <<conns, age, workerVars, serviceVars>>

(* The connection is closed and the client sees no answer. *)
GiveUp(c) ==
  /\ conns[c] = "closed" /\ using[c] # NoRequest
  /\ using' = [using EXCEPT ![c] = NoRequest] /\ wire' = [wire EXCEPT ![c] = <<>>]
  /\ UNCHANGED <<conns, age, workerVars, serviceVars>>

CloseConn(c) ==
  /\ conns[c] = "open"
  /\ conns' = [conns EXCEPT ![c] = "closed"] /\ age' = [age EXCEPT ![c] = 0]
  /\ UNCHANGED <<using, wire, workerVars, serviceVars>>

(* The deadline is over: the timer releases the connection. *)
Expire(c) == age[c] = Deadline /\ CloseConn(c)

-----------------------------------------------------------------------------
(* The handler of /api/restore, in the worker's thread. *)

HandlerStart(w) ==
  /\ stage[w] = "idle" /\ queue[w] # <<>>
  /\ \/ /\ Job(w).empty
        /\ stage' = [stage EXCEPT ![w] = "respond"]
        /\ result' = [result EXCEPT ![w] = 400]
     \/ /\ ~Job(w).empty
        /\ stage' = [stage EXCEPT ![w] = "connect"]
        /\ UNCHANGED result
  /\ began' = [began EXCEPT ![w] = age[Job(w).conn]]
  /\ UNCHANGED <<queue, spent, connVars, serviceVars>>

(* The handler has what it will answer. *)
Decide(w, status) ==
  /\ stage' = [stage EXCEPT ![w] = "respond"]
  /\ result' = [result EXCEPT ![w] = status]
  /\ spent' = [spent EXCEPT ![w] = 0]
  /\ UNCHANGED <<queue, began, connVars, serviceVars>>

(* No handle, a parameter that cannot be encoded, no connection. *)
CurlFails(w) == stage[w] = "connect" /\ Decide(w, 502)

CurlConnects(w) ==
  /\ stage[w] = "connect" /\ up
  /\ stage' = [stage EXCEPT ![w] = "exchange"]
  /\ service' = [service EXCEPT ![Job(w).request] = "running"]
  /\ UNCHANGED <<queue, spent, began, result, connVars, upstream, up, crashes>>

CurlReturns(w) ==
  /\ stage[w] = "exchange" /\ service[Job(w).request] = "finished"
  /\ Decide(w, upstream[Job(w).request])

(* The service ended under the exchange. *)
CurlBroken(w) ==
  /\ stage[w] = "exchange" /\ service[Job(w).request] = "lost"
  /\ Decide(w, 502)

(* Mutation: the exchange goes on behind the answer. *)
CurlTimesOutTwice(w) ==
  /\ stage[w] = "exchange" /\ spent[w] = CurlTimeout
  /\ service[Job(w).request] # "lost"
  /\ spent' = [spent EXCEPT ![w] = 0]
  /\ LET job == Job(w)
     IN  wire' = IF conns[job.conn] = "open"
                   THEN [wire EXCEPT ![job.conn] = Append(@, [request |-> job.request, status |-> 502])]
                   ELSE wire
  /\ UNCHANGED <<queue, stage, began, result, conns, age, using, serviceVars>>

CurlTimesOut(w) ==
  /\ stage[w] = "exchange" /\ spent[w] = CurlTimeout
  /\ Decide(w, 502)

(* SendResponse: what is sent on a connection that is closed is dropped. *)
Respond(w) ==
  /\ stage[w] = "respond"
  /\ LET job == Job(w)
     IN  wire' = IF conns[job.conn] = "open"
                   THEN [wire EXCEPT ![job.conn] = Append(@, [request |-> job.request, status |-> result[w]])]
                   ELSE wire
  /\ queue' = [queue EXCEPT ![w] = Tail(@)]
  /\ stage' = [stage EXCEPT ![w] = "idle"]
  /\ began' = [began EXCEPT ![w] = 0] /\ result' = [result EXCEPT ![w] = 0]
  /\ UNCHANGED <<conns, age, using, spent, serviceVars>>

WorkerStep(w) == \/ HandlerStart(w) \/ CurlFails(w) \/ CurlConnects(w) \/ CurlReturns(w)
                 \/ CurlBroken(w) \/ CurlTimesOut(w) \/ Respond(w)

-----------------------------------------------------------------------------
(* The Python service, from the body of a request to its answer: the        *)
(* restored picture, or a failure: 422 for a parameter out of range, 500    *)
(* without a token or when the picture cannot be saved, 502 when the model  *)
(* fails.  Nobody tells them apart, and 500 stands for all three.           *)
Finish(r, status) ==
  /\ service[r] = "running"
  /\ service' = [service EXCEPT ![r] = "finished"]
  /\ upstream' = [upstream EXCEPT ![r] = status]
  /\ UNCHANGED <<up, crashes, connVars, workerVars>>

ServiceCrash ==
  /\ up /\ crashes < MaxCrashes
  /\ up' = FALSE /\ crashes' = crashes + 1
  /\ service' = [r \in Requests |-> IF service[r] = "running" THEN "lost" ELSE service[r]]
  /\ UNCHANGED <<upstream, connVars, workerVars>>

ServiceRestart == ~up /\ up' = TRUE /\ UNCHANGED <<service, upstream, crashes, connVars, workerVars>>

(* The server ends and starts again: its sockets are closed, its jobs gone. *)
(* What was sent may still reach the client.                                *)
ServerCrash ==
  /\ crashes < MaxCrashes /\ crashes' = crashes + 1
  /\ conns' = [c \in Conns |-> IF conns[c] = "open" THEN "closed" ELSE conns[c]]
  /\ age' = [c \in Conns |-> 0]
  /\ queue' = [w \in WorkerIds |-> <<>>] /\ stage' = [w \in WorkerIds |-> "idle"]
  /\ spent' = [w \in WorkerIds |-> 0] /\ began' = [w \in WorkerIds |-> 0]
  /\ result' = [w \in WorkerIds |-> 0]
  /\ UNCHANGED <<using, wire, service, upstream, up>>

(* Mutation: curl has no limit. *)
TickUnlimited ==
  /\ \A c \in Conns : conns[c] = "open" => age[c] < Deadline
  /\ \A w \in WorkerIds : \/ stage[w] = "idle" /\ queue[w] = <<>>
                          \/ stage[w] = "exchange"
  /\ age' = [c \in Conns |-> IF conns[c] = "open" THEN age[c] + 1 ELSE age[c]]
  /\ spent' = [w \in WorkerIds |-> IF stage[w] = "exchange" /\ spent[w] < CurlTimeout - 1 THEN spent[w] + 1 ELSE spent[w]]
  /\ UNCHANGED <<conns, using, wire, queue, stage, began, result, serviceVars>>

(* A unit of time: no timer is passed that is due, and what takes no time   *)
(* is done first.                                                           *)
Tick ==
  /\ \A c \in Conns : conns[c] = "open" => age[c] < Deadline
  /\ \A w \in WorkerIds : \/ stage[w] = "idle" /\ queue[w] = <<>>
                          \/ stage[w] = "exchange" /\ spent[w] < CurlTimeout
  /\ age' = [c \in Conns |-> IF conns[c] = "open" THEN age[c] + 1 ELSE age[c]]
  /\ spent' = [w \in WorkerIds |-> IF stage[w] = "exchange" THEN spent[w] + 1 ELSE spent[w]]
  /\ UNCHANGED <<conns, using, wire, queue, stage, began, result, serviceVars>>

ServiceStep(r) == \E s \in {200, 500} : Finish(r, s)

ServerSteps == \/ \E w \in WorkerIds : WorkerStep(w)
               \/ \E c \in Conns : Expire(c) \/ CloseConn(c)
               \/ \E r \in Requests : ServiceStep(r)
               \/ ServiceCrash \/ ServiceRestart \/ ServerCrash \/ Tick

-----------------------------------------------------------------------------
(* Type invariant. *)
Statuses == {200, 400, 500, 502}
ServerTypeOK ==
  /\ conns \in [Conns -> {"unused", "open", "closed"}]
  /\ age \in [Conns -> 0..Deadline]
  /\ using \in [Conns -> Requests \union {NoRequest}]
  /\ wire \in [Conns -> Seq([request : Requests, status : Statuses])]
  /\ queue \in [WorkerIds -> Seq([request : Requests, conn : Conns, empty : BOOLEAN])]
  /\ stage \in [WorkerIds -> {"idle", "connect", "exchange", "respond"}]
  /\ spent \in [WorkerIds -> 0..CurlTimeout] /\ began \in [WorkerIds -> 0..Deadline]
  /\ result \in [WorkerIds -> Statuses \union {0}]
  /\ service \in [Requests -> {"none", "running", "finished", "lost"}]
  /\ upstream \in [Requests -> Statuses \union {0}]
  /\ up \in BOOLEAN /\ crashes \in 0..MaxCrashes

(* The answer a client takes for its request is the answer to that request, *)
(* and a good one only if the service made it: no timeout, crash or close   *)
(* leaves an answer on a connection for the request that comes next         *)
(* (server.cpp:252-283).                                                    *)
AnswersMatch ==
  \A c \in Conns : \A i \in DOMAIN wire[c] :
    /\ conns[c] = "open" => wire[c][i].request = using[c]
    /\ wire[c][i].status = 200 =>
         service[wire[c][i].request] = "finished" /\ upstream[wire[c][i].request] = 200

(* A request whose connection is young enough when its handler begins is    *)
(* answered before the deadline closes the connection: the limit of curl is *)
(* below the deadline of the server, whatever the service does              *)
(* (server.cpp:13, 222).                                                    *)
AnsweredInTime ==
  \A w \in WorkerIds :
    stage[w] # "idle" /\ began[w] + CurlTimeout < Deadline => age[Job(w).conn] < Deadline
=============================================================================

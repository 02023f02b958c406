----------------------------- MODULE Inactivity -----------------------------
(***************************************************************************)
(* The release of inactive connections: Connection::SetInactiveRelease,    *)
(* Channel::HandleEvent and Connection::_HandleEvent on the timer of a     *)
(* loop.  TcpServer calls SetInactiveRelease once for each connection, as  *)
(* it accepts it; the method is public, and Users says how else it is      *)
(* called: "never", only while a task of the connection is "timed" (so     *)
(* that no id is added to the timer twice), or at "any" time.              *)
(***************************************************************************)
EXTENDS TimerWheel

CONSTANTS Timeouts,    \* the seconds SetInactiveRelease is given
          Users,       \* how SetInactiveRelease is called after accept
          MaxVersion,  \* bound: the versions an id goes through
          NoDeadline

ASSUME InactivityAssumption == /\ Timeouts \subseteq Nat \ {0}
                               /\ Users \in {"never", "timed", "any"}
                               /\ NoDeadline \notin Nat

VARIABLES conn,      \* by id, "new", "up", "released"
          on,        \* the connections with _inactive_release
          limit,     \* history: the timeout last asked for
          idle       \* history: ticks since the last event, or since then

vars == <<wheelVars, conn, on, limit, idle>>

Init ==
  /\ WheelInit
  /\ conn = [c \in Ids |-> "new"] /\ on = {}
  /\ limit = [c \in Ids |-> 0] /\ idle = [c \in Ids |-> 0]

Room(c) == versions[c] < MaxVersion

Enable(c, t) ==
  /\ IF Find(c) THEN Refresh(c, t) ELSE Add(c, t)
  /\ on' = on \union {c}
  /\ limit' = [limit EXCEPT ![c] = t] /\ idle' = [idle EXCEPT ![c] = 0]

Accept(c, t) ==
  /\ conn[c] = "new" /\ Room(c)
  /\ Enable(c, t)
  /\ conn' = [conn EXCEPT ![c] = "up"]

SetAgain(c, t) ==
  /\ conn[c] = "up" /\ Room(c)
  /\ Users = "any" \/ (Users = "timed" /\ Find(c))
  /\ Enable(c, t)
  /\ UNCHANGED conn

Disable(c) ==
  /\ Users # "never" /\ conn[c] = "up"
  /\ Cancel(c)
  /\ on' = on \ {c}
  /\ UNCHANGED <<conn, limit, idle>>

(* HandleEvent returns after the first of the error, close, read and write  *)
(* branches; what is left for eventAction is an event that is none of them. *)
Reported == {"ERR", "HUP", "IN", "RDHUP", "PRI", "OUT"}
ReachesEventAction(revents) == revents \intersect Reported = {}

(* An event that does not end the connection.                               *)
Event(c) ==
  /\ conn[c] = "up" /\ Room(c)
  /\ \E revents \in {{"IN"}, {"OUT"}, {"IN", "OUT"}} :
       IF ReachesEventAction(revents) /\ c \in on
       THEN Refresh(c, 0)
       ELSE fired' = {} /\ UNCHANGED <<tick, wheel, versions, known, alive, expire>>
  /\ idle' = [idle EXCEPT ![c] = 0]
  /\ UNCHANGED <<conn, on, limit>>

(* _Release for another reason than the timer. *)
Close(c) ==
  /\ conn[c] = "up"
  /\ IF c \in on THEN Cancel(c)
     ELSE fired' = {} /\ UNCHANGED <<tick, wheel, versions, known, alive, expire>>
  /\ conn' = [conn EXCEPT ![c] = "released"]
  /\ idle' = [idle EXCEPT ![c] = 0]
  /\ UNCHANGED <<on, limit>>

(* A tick releases the connections whose task ran; counting of idle time    *)
(* stops at the longest timeout.                                            *)
Longest == CHOOSE t \in Timeouts : \A u \in Timeouts : u <= t
Second ==
  /\ Tick
  /\ conn' = [c \in Ids |-> IF c \in fired' THEN "released" ELSE conn[c]]
  /\ idle' = [c \in Ids |-> IF conn[c] = "up" /\ idle[c] < Longest THEN idle[c] + 1
                             ELSE idle[c]]
  /\ UNCHANGED <<on, limit>>

Next == \/ \E c \in Ids : Disable(c) \/ Event(c) \/ Close(c)
        \/ \E c \in Ids, t \in Timeouts : Accept(c, t) \/ SetAgain(c, t)
        \/ Second

Spec == Init /\ [][Next]_vars

-----------------------------------------------------------------------------
(* Type invariant. *)
TypeOK ==
  /\ tick \in Slots /\ wheel \in [Slots -> Seq(Nodes)]
  /\ versions \in [Ids -> Nat] /\ expire \in [Ids -> Nat]
  /\ known \subseteq Ids /\ alive \subseteq known /\ fired \subseteq Ids
  /\ conn \in [Ids -> {"new", "up", "released"}] /\ on \subseteq Ids
  /\ limit \in [Ids -> Nat] /\ idle \in [Ids -> Nat]

(* A task in the map is waited for by exactly one node, that of its current *)
(* version; an id without a task by none.                                   *)
Counting(i) == {p \in UNION {{s} \X DOMAIN wheel[s] : s \in Slots} :
                  /\ wheel[p[1]][p[2]].id = i
                  /\ wheel[p[1]][p[2]].version = versions[i]}
OneNodeCounts == \A i \in Ids : Cardinality(Counting(i)) = IF i \in known THEN 1 ELSE 0

(* The wheel seen as deadlines: the ticks left until a task's node counts.  *)
TicksTo(s) == IF s > tick THEN s - tick ELSE s + WheelSize - tick
Deadline(i) == LET p == CHOOSE p \in Counting(i) : TRUE
               IN  TicksTo(p[1]) + wheel[p[1]][p[2]].rounds * WheelSize
Deadlines == INSTANCE DeadlineTimer WITH
  Delays <- Timeouts,
  left <- [i \in Ids |-> IF i \in known THEN Deadline(i) ELSE NoDeadline],
  cancelled <- known \ alive

(* The wheel keeps every deadline to the tick, over any number of turns and *)
(* refreshes, and runs exactly the tasks that were not cancelled.           *)
KeepsDeadlines == Deadlines!Spec

(* connection.h:60, connection.cpp:169: a connection is released by its     *)
(* timer only if nothing happened on it for the timeout.                    *)
OnlyInactiveReleased ==
  [][\A c \in Ids : c \in fired' => idle[c] + 1 >= limit[c]]_vars
=============================================================================

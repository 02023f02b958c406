----------------------------- MODULE TimerWheel -----------------------------
(***************************************************************************)
(* Timer (timer.cpp): a wheel of slots the tick pointer moves over once a  *)
(* second, a map from ids to tasks and a map from ids to the version of    *)
(* the node that counts.  Refreshing a task leaves its old node in the     *)
(* wheel and pushes one with the next version; a node whose version is not *)
(* the current one is dropped when its slot comes up.  A task runs when    *)
(* the map lets go of it.  All of it happens on the loop's thread.         *)
(*                                                                         *)
(* An id that is in neither map has version 0 here: the first use of       *)
(* ++_taskVersionMap[id] gives 1.  The actions of tasks are the clients':  *)
(* none of this program's adds, refreshes or removes a task of its own id  *)
(* while it runs.                                                          *)
(***************************************************************************)
EXTENDS Naturals, Sequences, FiniteSets, Ascending

CONSTANTS Ids, WheelSize

ASSUME WheelAssumption == WheelSize \in Nat \ {0}

VARIABLES tick,     \* _tick
          wheel,    \* _timeWheel
          versions, \* _taskVersionMap
          known,    \* the ids in _taskMap
          alive,    \* those whose TimerTask::_isActive
          expire,   \* TimerTask::_expireTime
          fired     \* history: the tasks that ran in the last step

wheelVars == <<tick, wheel, versions, known, alive, expire, fired>>

Slots == 0..(WheelSize - 1)
Nodes == [id : Ids, version : Nat, rounds : Nat]

WheelInit ==
  /\ tick = 0
  /\ wheel = [s \in Slots |-> <<>>]
  /\ versions = [i \in Ids |-> 0]
  /\ known = {} /\ alive = {} /\ expire = [i \in Ids |-> 0]
  /\ fired = {}

(* Mutation: a timeout that is a multiple of the wheel gets a round more. *)
PushLate(i, n) ==
  /\ versions' = [versions EXCEPT ![i] = @ + 1]
  /\ wheel' = [wheel EXCEPT ![(tick + n) % WheelSize] =
                 Append(@, [id |-> i, version |-> versions[i] + 1, rounds |-> n \div WheelSize])]

(* Mutation: a task that is refreshed keeps its version. *)
PushSameVersion(i, n) ==
  /\ versions' = [versions EXCEPT ![i] = 1]
  /\ wheel' = [wheel EXCEPT ![(tick + n) % WheelSize] =
                 Append(@, [id |-> i, version |-> 1, rounds |-> (n - 1) \div WheelSize])]

(* The node of a task due in n ticks, under the next version of its id. *)
Push(i, n) ==
  /\ versions' = [versions EXCEPT ![i] = @ + 1]
  /\ wheel' = [wheel EXCEPT ![(tick + n) % WheelSize] =
                 Append(@, [id |-> i, version |-> versions[i] + 1,
                            rounds |-> (n - 1) \div WheelSize])]

(* Replacing a task that is still active destroys it, and so runs it. *)
Add(i, n) ==
  LET e == IF n = 0 THEN 1 ELSE n
  IN  /\ Push(i, e)
      /\ expire' = [expire EXCEPT ![i] = e]
      /\ known' = known \union {i} /\ alive' = alive \union {i}
      /\ fired' = {i} \intersect alive
      /\ UNCHANGED tick

(* n = 0 stands for the expiry the task was added with. *)
Refresh(i, n) ==
  IF i \in known
  THEN /\ Push(i, IF n = 0 THEN expire[i] ELSE n)
       /\ fired' = {}
       /\ UNCHANGED <<tick, known, alive, expire>>
  ELSE fired' = {} /\ UNCHANGED <<tick, wheel, versions, known, alive, expire>>

Cancel(i) ==
  /\ alive' = alive \ {i}
  /\ fired' = {}
  /\ UNCHANGED <<tick, wheel, versions, known, expire>>

Find(i) == i \in known

(* One turn of the loop over the slot the pointer reaches, as a whole.  A   *)
(* node counts while its version is the current one, which it no longer is  *)
(* behind a node that ended the task.  Those that stay keep their order.    *)
Tick ==
  LET now   == (tick + 1) % WheelSize
      slot  == wheel[now]
      Ends(j)  == slot[j].rounds = 0 /\ slot[j].version = versions[slot[j].id]
      Stays(j) == /\ slot[j].rounds > 0 /\ slot[j].version = versions[slot[j].id]
                  /\ \A k \in 1..(j - 1) : ~(slot[k].id = slot[j].id /\ Ends(k))
      ended == {slot[j].id : j \in {k \in DOMAIN slot : Ends(k)}}
  IN  /\ tick' = now
      /\ \E kept \in Listings({j \in DOMAIN slot : Stays(j)}) :
           wheel' = [wheel EXCEPT ![now] =
                       [j \in DOMAIN kept |-> [slot[kept[j]] EXCEPT !.rounds = @ - 1]]]
      /\ versions' = [i \in Ids |-> IF i \in ended THEN 0 ELSE versions[i]]
      /\ known' = known \ ended
      /\ alive' = alive \ ended
      /\ fired' = ended \intersect alive
      /\ UNCHANGED expire
=============================================================================

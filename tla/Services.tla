------------------------------ MODULE Services ------------------------------
(***************************************************************************)
(* loop.sh, which starts and stops the Python service and the C++ server:  *)
(* the pid file, the search by command line, the signals, and a script     *)
(* that may itself be killed between any two steps.  One script runs at a  *)
(* time.                                                                   *)
(*                                                                         *)
(* Pids is what kill and pgrep see: a process of the user has a kind, and  *)
(* the number of one that ended is free for the next.  A viewer is a       *)
(* process whose command line names the path of a service, or of both,     *)
(* without being one: an editor, a debugger, a copy.                       *)
(***************************************************************************)
EXTENDS Naturals, Sequences, FiniteSets, Ascending

CONSTANTS MaxPids,       \* bound: numbers of processes
          MaxCommands,   \* bound: times the script is called
          MaxForeign,    \* bound: foreign processes that start
          Residents,     \* kinds of the one that runs before
          Newcomers      \* kinds of those that start

Viewers == {"python viewer", "cpp viewer", "viewer of both"}

ASSUME ServicesAssumption == MaxPids \in Nat \ {0} /\ MaxCommands \in Nat /\ MaxForeign \in Nat
ASSUME ForeignAssumption == Residents \union Newcomers \subseteq {"other"} \union Viewers

Pids == 1..MaxPids
NoPid == 0

VARIABLES process,     \* kind of each pid: "free", "other", or of Service or Viewers
          top,         \* the highest number given out
          signal,      \* sent to it: "none", "TERM", "KILL"
          pgrep,       \* pgrep is installed
          pidFile,     \* [python, cpp], NoPid for none; both for no file
          stage,       \* of the script
          undoing,     \* start stops the services again, to fail
          command,     \* "stop" or "start", which restart is too
          todo,        \* what stop_pid is still called with
          waiting,     \* inside the loop of stop_pid
          started,     \* python_pid and cpp_pid of start_services
          commands, foreign,
          orphaned,    \* history: a start was killed before it wrote the pid file
          reused       \* history: pids of services and viewers that ended while the
                       \* script, or its pid file, had them

vars == <<process, top, signal, pgrep, pidFile, stage, undoing, command, todo, waiting,
          started, commands, foreign, orphaned, reused>>
script == <<stage, undoing, command, todo, waiting, started>>
machine == <<process, top, signal, pgrep, foreign, reused>>

Service == {"python", "cpp"}
(* Whose command lines name PYTHON_SERVICE and CPP_SERVICE. *)
Naming == [python |-> {"python", "python viewer", "viewer of both"},
           cpp |-> {"cpp", "cpp viewer", "viewer of both"}]
Unknown == [python |-> NoPid, cpp |-> NoPid]
Stages == {"none", "stop listed", "stop cpp", "stop python", "remove",
           "launch python", "launch cpp", "write", "check"}

Init ==
  /\ top = 1
  /\ \E kind \in Residents : process = [p \in Pids |-> IF p <= top THEN kind ELSE "free"]
  /\ signal = [p \in Pids |-> "none"]
  /\ pgrep \in BOOLEAN /\ pidFile = Unknown
  /\ stage = "none" /\ undoing = FALSE /\ command = "stop" /\ todo = <<>> /\ waiting = FALSE
  /\ started = Unknown /\ commands = 0 /\ foreign = 0
  /\ orphaned = FALSE /\ reused = [p \in Pids |-> FALSE]

-----------------------------------------------------------------------------
(* Processes. *)

Running(p) == p # NoPid /\ process[p] # "free"
(* A new process takes the next number, or any that is free again. *)
Starts(p, kind) == /\ process[p] = "free" /\ p <= top + 1
                   /\ top' = IF p > top THEN p ELSE top
                   /\ process' = [process EXCEPT ![p] = kind] /\ UNCHANGED signal
Send(p, sig) == signal' = [signal EXCEPT ![p] = sig]

(* The script, or a later one through the pid file, has the number at hand. *)
AtHand(p) == \/ \E kind \in Service : p = pidFile[kind] \/ p = started[kind]
             \/ \E i \in DOMAIN todo : todo[i] = p

(* A process ends, signalled or not: a service that gets SIGTERM may take   *)
(* its time, as long as requests are open.                                  *)
Ends(p) ==
  /\ process[p] # "free"
  /\ process' = [process EXCEPT ![p] = "free"] /\ Send(p, "none")
  /\ reused' = [reused EXCEPT ![p] = @ \/ (process[p] # "other" /\ AtHand(p))]
  /\ UNCHANGED <<top, pgrep, foreign, pidFile, script, commands, orphaned>>

ForeignStarts(p) ==
  /\ foreign < MaxForeign /\ foreign' = foreign + 1
  /\ \E kind \in Newcomers : Starts(p, kind)
  /\ UNCHANGED <<pgrep, reused, pidFile, script, commands, orphaned>>

-----------------------------------------------------------------------------
(* stop_services. *)

(* Mutation: a pattern that is too short. *)
MatchingAll(kind) == {p \in Pids : process[p] # "free"}
(* What pgrep -f finds for CPP_SERVICE and PYTHON_SERVICE. *)
Matching(kind) == {p \in Pids : process[p] \in Naming[kind]}
Found(kind) == IF pgrep THEN Listings(Matching(kind)) ELSE {<<>>}

(* Mutation: the server is forgotten. *)
ListedPython == <<pidFile.python>>
(* load_pids, and stop_pid for what it read. *)
Listed == <<pidFile.cpp, pidFile.python>>

(* Mutation: a start without a pid file has nothing to stop. *)
CallTrusting ==
  /\ stage = "none" /\ commands < MaxCommands /\ commands' = commands + 1
  /\ command' \in {"stop", "start"} /\ todo' = Listed
  /\ stage' = IF command' = "start" /\ pidFile = Unknown THEN "launch python" ELSE "stop listed"
  /\ UNCHANGED <<undoing, waiting, started, machine, pidFile, orphaned>>

(* loop.sh stop, and start or restart. *)
CallScript ==
  /\ stage = "none" /\ commands < MaxCommands /\ commands' = commands + 1
  /\ command' \in {"stop", "start"}
  /\ stage' = "stop listed" /\ todo' = Listed
  /\ UNCHANGED <<undoing, waiting, started, machine, pidFile, orphaned>>

(* stop_pid: nothing runs under the number, *)
StopGone ==
  /\ todo # <<>> /\ ~Running(Head(todo))
  /\ todo' = Tail(todo) /\ waiting' = FALSE
  /\ UNCHANGED <<stage, undoing, command, started, machine, pidFile, commands, orphaned>>

(* or it is asked to end, *)
StopAsk ==
  /\ todo # <<>> /\ Running(Head(todo)) /\ ~waiting /\ waiting' = TRUE
  /\ IF signal[Head(todo)] = "none" THEN Send(Head(todo), "TERM") ELSE UNCHANGED signal
  /\ UNCHANGED <<stage, undoing, command, todo, started, process, top, pgrep, foreign, reused,
                 pidFile, commands, orphaned>>

(* Mutation: waits until it has ended. *)
StopForceNever == FALSE /\ UNCHANGED vars

(* and after 25 times 0.2 s is made to; the script does not wait for that. *)
StopForce ==
  /\ todo # <<>> /\ Running(Head(todo)) /\ waiting /\ waiting' = FALSE
  /\ Send(Head(todo), "KILL") /\ todo' = Tail(todo)
  /\ UNCHANGED <<stage, undoing, command, started, process, top, pgrep, foreign, reused,
                 pidFile, commands, orphaned>>

(* stop_matching_processes, for the server and then for the service. *)
StopMatching ==
  /\ todo = <<>>
  /\ \/ stage = "stop listed" /\ stage' = "stop cpp" /\ todo' \in Found("cpp")
     \/ stage = "stop cpp" /\ stage' = "stop python" /\ todo' \in Found("python")
     \/ stage = "stop python" /\ stage' = "remove" /\ UNCHANGED todo
  /\ UNCHANGED <<undoing, command, waiting, started, machine, pidFile, commands, orphaned>>

Exit == /\ stage' = "none" /\ undoing' = FALSE /\ command' = "stop"
        /\ todo' = <<>> /\ waiting' = FALSE /\ started' = Unknown

RemoveFile ==
  /\ stage = "remove" /\ pidFile' = Unknown
  /\ IF command = "stop" \/ undoing
       THEN Exit
       ELSE stage' = "launch python" /\ UNCHANGED <<undoing, command, todo, waiting, started>>
  /\ UNCHANGED <<machine, commands, orphaned>>

-----------------------------------------------------------------------------
(* start_services. *)

(* require_services or resolve_python fails. *)
CannotLaunch ==
  /\ stage = "launch python" /\ Exit
  /\ UNCHANGED <<machine, pidFile, commands, orphaned>>

Launch(kind, p) ==
  /\ Starts(p, kind)
  /\ started' = [started EXCEPT ![kind] = p]
  /\ UNCHANGED <<undoing, command, todo, waiting, pgrep, foreign, reused, pidFile, commands, orphaned>>

LaunchPython(p) == stage = "launch python" /\ stage' = "launch cpp" /\ Launch("python", p)
LaunchCpp(p) == stage = "launch cpp" /\ stage' = "write" /\ Launch("cpp", p)

WriteFile ==
  /\ stage = "write" /\ stage' = "check" /\ pidFile' = started
  /\ UNCHANGED <<undoing, command, todo, waiting, started, machine, commands, orphaned>>

(* A second later. *)
CheckBoth ==
  /\ stage = "check"
  /\ IF Running(started.python) /\ Running(started.cpp)
       THEN Exit
       ELSE /\ undoing' = TRUE /\ stage' = "stop listed" /\ todo' = Listed
            /\ UNCHANGED <<command, waiting, started>>
  /\ UNCHANGED <<machine, pidFile, commands, orphaned>>

(* The script is killed, or a command of it fails (set -e). *)
ScriptDies ==
  /\ stage # "none" /\ Exit
  /\ orphaned' = (orphaned \/ stage \in {"launch cpp", "write"})
  /\ UNCHANGED <<machine, pidFile, commands>>

ScriptStep == \/ StopGone \/ StopAsk \/ StopForce \/ StopMatching \/ RemoveFile
              \/ CannotLaunch \/ (\E p \in Pids : LaunchPython(p) \/ LaunchCpp(p))
              \/ WriteFile \/ CheckBoth

Next == \/ CallScript \/ ScriptStep \/ ScriptDies
        \/ \E p \in Pids : Ends(p) \/ ForeignStarts(p)

(* The shell runs on, and the kernel ends what gets SIGKILL; no process is *)
(* assumed to end that is only asked to.                                   *)
Fairness == /\ WF_vars(ScriptStep)
            /\ \A p \in Pids : WF_vars(signal[p] = "KILL" /\ Ends(p))
Spec == Init /\ [][Next]_vars /\ Fairness

-----------------------------------------------------------------------------
(* Type invariant. *)
TypeOK ==
  /\ process \in [Pids -> Service \union Viewers \union {"free", "other"}]
  /\ top \in 0..MaxPids /\ signal \in [Pids -> {"none", "TERM", "KILL"}]
  /\ pgrep \in BOOLEAN /\ undoing \in BOOLEAN /\ waiting \in BOOLEAN /\ orphaned \in BOOLEAN
  /\ {pidFile, started} \subseteq [python : Pids \union {NoPid}, cpp : Pids \union {NoPid}]
  /\ stage \in Stages /\ command \in {"stop", "start"}
  /\ todo \in Seq(Pids \union {NoPid})
  /\ commands \in 0..MaxCommands /\ foreign \in 0..MaxForeign
  /\ reused \in [Pids -> BOOLEAN]

(* The services that nothing has forced to end. *)
Left(kind) == {p \in Pids : process[p] = kind /\ signal[p] # "KILL"}

(* When the services have been stopped none is left, also after starts that *)
(* were killed half way and services that died: what the pid file does not  *)
(* name pgrep finds, and without pgrep nothing but a start that was killed  *)
(* before it wrote the file leaves one behind (loop.sh:181-189, 203-207).   *)
StopLeavesNothing ==
  stage \in {"remove", "launch python"} /\ (pgrep \/ ~orphaned) =>
    \A kind \in Service : Left(kind) = {}

(* There are never two of a service: the server binds its port with         *)
(* SO_REUSEPORT, so a second one would not fail but take half of the        *)
(* requests (loop.sh:209-256, socket.cpp:284-293).                          *)
OneOfEach ==
  pgrep \/ ~orphaned => \A kind \in Service : Cardinality(Left(kind)) <= 1

(* The script signals no foreign process, except one that names             *)
(* mosaic_server or mosaic.py on its command line, which pgrep -f cannot    *)
(* tell from the service, or has the number of a service or of such a       *)
(* process that ended after the number was put into the pid file or the     *)
(* list of pgrep: between that and the signal nothing looks again whose the *)
(* number is (loop.sh:124-187).                                             *)
StrangersSpared ==
  \A p \in Pids : process[p] = "other" /\ ~reused[p] => signal[p] = "none"

(* The script ends, also when a service takes no notice of SIGTERM          *)
(* (loop.sh:156-164).                                                       *)
ScriptEnds == stage # "none" ~> stage = "none"
=============================================================================

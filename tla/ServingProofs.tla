--------------------------- MODULE ServingProofs ---------------------------
(***************************************************************************)
(* What TLAPS proves of what serves the restorations: of Notifier, for     *)
(* every number of notifications, and of Services, for any number of       *)
(* processes, calls of the script and foreign processes.                   *)
(***************************************************************************)
EXTENDS Notifier, Services, FiniteSetTheorems, SequenceTheorems, TLAPS

-----------------------------------------------------------------------------
(* Notifications. *)

Places == {"unused", "refresh", "store", "send", "sent"} \union Over
Errcodes == {Ok, BadToken, Rejected, Unsent}

(* What is known of each notification: a token it was just issued, or sends  *)
(* a second time with, is the valid one unless something disturbed it; what  *)
(* was delivered is what an answer was sent for.                             *)
Fresh(n) == ~disturbed[n] => token[n] = valid
Known(n) ==
  /\ at[n] = "unused" => ~retried[n]
  /\ at[n] = "store" => Fresh(n) /\ token[n] # NoToken
  /\ at[n] = "send" /\ retried[n] => Fresh(n)
  /\ at[n] = "sent" /\ answer[n] = BadToken /\ retried[n] => disturbed[n]
  /\ at[n] = "sent" /\ answer[n] = Rejected => disturbed[n]
  /\ at[n] = "failed" /\ configured => disturbed[n]
Counted(n) ==
  /\ messages[n] <= 1
  /\ at[n] \in {"unused", "refresh", "store", "send"} => messages[n] = 0
  /\ at[n] = "sent" /\ answer[n] = BadToken => messages[n] = 0
  /\ at[n] = "sent" /\ answer[n] = Ok => messages[n] = 1
  /\ at[n] = "delivered" => messages[n] = 1
  /\ at[n] = "sent" => answer[n] # Unsent

NotifierInv == NotifierTypeOK /\ \A n \in Notifications : Known(n) /\ Counted(n)

LEMMA Codes == /\ Ok # BadToken /\ Ok # Rejected /\ Ok # Unsent
               /\ BadToken # Rejected /\ BadToken # Unsent /\ Rejected # Unsent
BY DEF Ok, BadToken, Rejected, Unsent

LEMMA SomeToken == (CHOOSE t \in Tokens : TRUE) \in Tokens
<1>1. Tokens # {}
  BY NotifierAssumption, FS_EmptySet
<1> QED BY <1>1

LEMMA NotifierInitInv == NotifierInit => NotifierInv
<1> SUFFICES ASSUME NotifierInit PROVE NotifierInv
  OBVIOUS
<1>1. {env, cached, valid} \subseteq Tokens \union {NoToken}
  BY SomeToken DEF NotifierInit
<1>2. NotifierTypeOK
  BY <1>1 DEF NotifierInit, NotifierTypeOK
<1>3. \A n \in Notifications : Known(n) /\ Counted(n)
  BY DEF NotifierInit, Known, Counted, Over
<1> QED BY <1>2, <1>3 DEF NotifierInv

(* Type correctness of one step. *)
LEMMA NotifierTypeStep ==
  ASSUME NotifierTypeOK, [NotifierNext]_notifierVars
  PROVE  NotifierTypeOK'
<1> USE DEF NotifierTypeOK, fixed, service, local
<1>1. ASSUME NEW n \in Notifications, Begin(n) PROVE NotifierTypeOK'
  BY <1>1 DEF Begin, Go
<1>2. ASSUME NEW n \in Notifications, CannotRefresh(n) PROVE NotifierTypeOK'
  BY <1>2 DEF CannotRefresh, Leave, Go, Over
<1>3. ASSUME NEW n \in Notifications, Issue(n) PROVE NotifierTypeOK'
  <2>1. NewToken \in Tokens
    BY <1>3 DEF Issue, NewToken, Unheld
  <2> QED BY <1>3, <2>1 DEF Issue, Go, Disturb
<1>4. ASSUME NEW n \in Notifications, Store(n) PROVE NotifierTypeOK'
  BY <1>4 DEF Store, Go
<1>5. ASSUME NEW n \in Notifications, RefreshFails(n) PROVE NotifierTypeOK'
  BY <1>5 DEF RefreshFails, Leave, Go, Disturb, Over
<1>6. ASSUME NEW n \in Notifications, Post(n) PROVE NotifierTypeOK'
  BY <1>6 DEF Post, Go
<1>7. ASSUME NEW n \in Notifications, Refuse(n) PROVE NotifierTypeOK'
  BY <1>7 DEF Refuse, Go, Disturb
<1>8. ASSUME NEW n \in Notifications, Garble(n) PROVE NotifierTypeOK'
  BY <1>8 DEF Garble, Disturb
<1>9. ASSUME NEW n \in Notifications, SendFails(n) PROVE NotifierTypeOK'
  BY <1>9 DEF SendFails, Leave, Go, Disturb, Over
<1>10. ASSUME NEW n \in Notifications, Accepted(n) PROVE NotifierTypeOK'
  BY <1>10 DEF Accepted, Leave, Go, Over
<1>11. ASSUME NEW n \in Notifications, Retry(n) PROVE NotifierTypeOK'
  BY <1>11 DEF Retry, Go
<1>12. ASSUME NEW n \in Notifications, NotSent(n) PROVE NotifierTypeOK'
  BY <1>12 DEF NotSent, Leave, Go, Over
<1>13. ASSUME Expire PROVE NotifierTypeOK'
  BY <1>13 DEF Expire, Disturb
<1>14. ASSUME UNCHANGED notifierVars PROVE NotifierTypeOK'
  BY <1>14 DEF notifierVars
<1> QED BY <1>1, <1>2, <1>3, <1>4, <1>5, <1>6, <1>7, <1>8, <1>9, <1>10, <1>11, <1>12, <1>13, <1>14
        DEF NotifierNext, Step

(* One step keeps what is known of a notification m: a step of its own,     *)
(* a step of another, or an expiry.                                         *)
LEMMA KnownStep ==
  ASSUME NotifierInv, [NotifierNext]_notifierVars, NEW m \in Notifications
  PROVE  Known(m)' /\ Counted(m)'
<1>0. /\ NotifierTypeOK /\ Known(m) /\ Counted(m)
      /\ messages \in [Notifications -> Nat]
  BY DEF NotifierInv, NotifierTypeOK
<1> USE DEF Known, Counted, Fresh, NotifierTypeOK, fixed, service, local
<1>1. ASSUME NEW n \in Notifications, Begin(n) PROVE Known(m)' /\ Counted(m)'
  BY <1>0, <1>1 DEF Begin, Go
<1>2. ASSUME NEW n \in Notifications, CannotRefresh(n) PROVE Known(m)' /\ Counted(m)'
  BY <1>0, <1>2 DEF CannotRefresh, Leave, Go
<1>3. ASSUME NEW n \in Notifications, Issue(n) PROVE Known(m)' /\ Counted(m)'
  <2>1. NewToken \in Tokens /\ NewToken # NoToken
    BY <1>3, NotifierAssumption DEF Issue, NewToken, Unheld
  <2>2. CASE m = n
    BY <1>0, <1>3, <2>1, <2>2 DEF Issue, Go, Disturb, Notifying
  <2>3. CASE m # n
    BY <1>0, <1>3, <2>1, <2>3 DEF Issue, Go, Disturb, Notifying, Over
  <2> QED BY <2>2, <2>3
<1>4. ASSUME NEW n \in Notifications, Store(n) PROVE Known(m)' /\ Counted(m)'
  BY <1>0, <1>4 DEF Store, Go
<1>5. ASSUME NEW n \in Notifications, RefreshFails(n) PROVE Known(m)' /\ Counted(m)'
  BY <1>0, <1>5 DEF RefreshFails, Leave, Go, Disturb, Notifying, Over
<1>6. ASSUME NEW n \in Notifications, Post(n) PROVE Known(m)' /\ Counted(m)'
  BY <1>0, <1>6, Codes DEF Post, Go
<1>7. ASSUME NEW n \in Notifications, Refuse(n) PROVE Known(m)' /\ Counted(m)'
  BY <1>0, <1>7, Codes DEF Refuse, Go, Disturb, Notifying, Over
<1>8. ASSUME NEW n \in Notifications, Garble(n) PROVE Known(m)' /\ Counted(m)'
  BY <1>0, <1>8, Codes DEF Garble, Disturb, Notifying, Over
<1>9. ASSUME NEW n \in Notifications, SendFails(n) PROVE Known(m)' /\ Counted(m)'
  BY <1>0, <1>9, Codes DEF SendFails, Leave, Go, Disturb, Notifying, Over
<1>10. ASSUME NEW n \in Notifications, Accepted(n) PROVE Known(m)' /\ Counted(m)'
  BY <1>0, <1>10, Codes DEF Accepted, Leave, Go
<1>11. ASSUME NEW n \in Notifications, Retry(n) PROVE Known(m)' /\ Counted(m)'
  BY <1>0, <1>11, Codes DEF Retry, Go
<1>12. ASSUME NEW n \in Notifications, NotSent(n) PROVE Known(m)' /\ Counted(m)'
  BY <1>0, <1>12, Codes DEF NotSent, Leave, Go
<1>13. ASSUME Expire PROVE Known(m)' /\ Counted(m)'
  BY <1>0, <1>13 DEF Expire, Disturb, Notifying, Over
<1>14. ASSUME UNCHANGED notifierVars PROVE Known(m)' /\ Counted(m)'
  BY <1>0, <1>14 DEF notifierVars
<1> QED BY <1>1, <1>2, <1>3, <1>4, <1>5, <1>6, <1>7, <1>8, <1>9, <1>10, <1>11, <1>12, <1>13, <1>14
        DEF NotifierNext, Step

LEMMA NotifierInvariant == NotifierSpec => []NotifierInv
<1>1. NotifierInv /\ [NotifierNext]_notifierVars => NotifierInv'
  BY NotifierTypeStep, KnownStep DEF NotifierInv
<1> QED BY <1>1, NotifierInitInv, PTL DEF NotifierSpec

(* Every variable keeps its type. *)
THEOREM TypeCorrect == NotifierSpec => []NotifierTypeOK
BY NotifierInvariant, PTL DEF NotifierInv

(* A notification that nothing disturbs fails only without an id and a      *)
(* secret, whatever token the cache or the environment holds                *)
(* (user.py:24-27, 66-82).                                                  *)
THEOREM LoneDelivered == NotifierSpec => []LoneNotificationDelivered
<1>1. NotifierInv => LoneNotificationDelivered
  BY DEF NotifierInv, Known, LoneNotificationDelivered, NotifierTypeOK
<1> QED BY <1>1, NotifierInvariant, PTL

(* No message is sent twice, and every one that is reported was sent        *)
(* (user.py:61-82).                                                         *)
THEOREM MessageOnce == NotifierSpec => []OneMessage
<1>1. NotifierInv => OneMessage
  BY DEF NotifierInv, Counted, OneMessage
<1> QED BY <1>1, NotifierInvariant, PTL

-----------------------------------------------------------------------------
(* The service script. *)

Kinds == Service \union Viewers \union {"free", "other"}
Numbers == Pids \union {NoPid}

USE DEF Kinds, Service, Viewers, Numbers

(* Foreign processes are no services, and a service is found by its name. *)
LEMMA ForeignKinds == \A kind \in Residents \union Newcomers : kind \in {"other"} \union Viewers
BY ForeignAssumption

LEMMA NamesService == \A kind \in Service : kind \in Naming[kind] /\ Naming[kind] \subseteq Service \union Viewers
<1>1. /\ Naming["python"] = {"python", "python viewer", "viewer of both"}
      /\ Naming["cpp"] = {"cpp", "cpp viewer", "viewer of both"}
  BY DEF Naming
<1> QED BY <1>1

-----------------------------------------------------------------------------
(* Type correctness.  The commands are counted to their bound. *)

LEMMA ListingType ==
  ASSUME NEW kind, NEW q \in Found(kind)
  PROVE  /\ q \in Seq(Numbers)
         /\ \A i \in DOMAIN q : q[i] \in Matching(kind)
         /\ pgrep => \A p \in Matching(kind) : \E i \in DOMAIN q : q[i] = p
<1>1. CASE ~pgrep
  BY <1>1 DEF Found
<1>2. CASE pgrep
  <2>1. IsFiniteSet(Pids) /\ Matching(kind) \in SUBSET Pids
    BY ServicesAssumption, FS_Interval DEF Matching, Pids
  <2>2. Cardinality(Matching(kind)) \in Nat
    BY <2>1, FS_Subset, FS_CardinalityType
  <2>3. /\ q \in [1..Cardinality(Matching(kind)) -> Matching(kind)]
        /\ \A p \in Matching(kind) : \E i \in DOMAIN q : q[i] = p
    BY <1>2 DEF Found, Listings
  <2>4. q \in Seq(Matching(kind))
    BY <2>2, <2>3, SeqDef
  <2> QED BY <2>1, <2>3, <2>4, SeqDef
<1> QED BY <1>1, <1>2

LEMMA UnknownType == Unknown \in [python : Numbers, cpp : Numbers]
BY DEF Unknown

LEMMA ServicesTypeInit == Init => TypeOK
<1> SUFFICES ASSUME Init PROVE TypeOK
  OBVIOUS
<1>1. <<>> \in Seq(Numbers)
  OBVIOUS
<1>2. top \in 0..MaxPids
  BY ServicesAssumption DEF Init
<1>3. commands \in 0..MaxCommands /\ foreign \in 0..MaxForeign
  BY ServicesAssumption DEF Init
<1>4. process \in [Pids -> Kinds] /\ signal \in [Pids -> {"none", "TERM", "KILL"}]
      /\ reused \in [Pids -> BOOLEAN]
  <2>1. PICK kind \in Residents : process = [p \in Pids |-> IF p <= top THEN kind ELSE "free"]
    BY DEF Init
  <2>2. kind \in Kinds
    BY ForeignKinds
  <2> QED BY <2>1, <2>2 DEF Init
<1> QED BY <1>1, <1>2, <1>3, <1>4, UnknownType DEF Init, TypeOK, Stages

(* One lemma for the processes, one for the script.  *)
LEMMA MachineTypes ==
  ASSUME TypeOK
  PROVE  /\ \A p \in Pids, kind \in Kinds : Starts(p, kind) =>
              process' \in [Pids -> Kinds] /\ top' \in 0..MaxPids /\ signal' = signal
         /\ \A p \in Pids, sig \in {"none", "TERM", "KILL"} : Send(p, sig) =>
              signal' \in [Pids -> {"none", "TERM", "KILL"}]
<1>1. \A p \in Pids : p \in 0..MaxPids
  BY ServicesAssumption DEF Pids
<1> QED BY <1>1 DEF TypeOK, Starts, Send

LEMMA TodoTypes ==
  ASSUME TypeOK
  PROVE  /\ Listed \in Seq(Numbers) /\ <<>> \in Seq(Numbers)
         /\ todo # <<>> => Tail(todo) \in Seq(Numbers) /\ Head(todo) \in Numbers
<1>1. todo \in Seq(Numbers) /\ {pidFile.cpp, pidFile.python} \subseteq Numbers
  BY DEF TypeOK
<1>2. Listed \in Seq(Numbers) /\ <<>> \in Seq(Numbers)
  BY <1>1 DEF Listed
<1> QED BY <1>1, <1>2, HeadTailProperties

LEMMA ServicesTypeStep == TypeOK /\ [Next]_vars => TypeOK'
<1> SUFFICES ASSUME TypeOK, [Next]_vars PROVE TypeOK'
  OBVIOUS
<1> USE DEF machine
<1>0. Exit => /\ stage' \in Stages /\ command' \in {"stop", "start"} /\ undoing' \in BOOLEAN
              /\ waiting' \in BOOLEAN /\ todo' \in Seq(Numbers)
              /\ started' \in [python : Numbers, cpp : Numbers]
  <2>1. Exit => started' \in [python : Numbers, cpp : Numbers]
    BY UnknownType DEF Exit
  <2>2. Exit => todo' \in Seq(Numbers)
    BY TodoTypes DEF Exit
  <2> QED BY <2>1, <2>2 DEF Exit, Stages
<1>1. CASE CallScript
  <2>1. commands' \in 0..MaxCommands
    <3>1. commands' = commands + 1 /\ commands < MaxCommands
      BY <1>1 DEF CallScript
    <3>2. commands \in 0..MaxCommands
      BY DEF TypeOK
    <3> QED BY <3>1, <3>2, ServicesAssumption
  <2>2. todo' \in Seq(Numbers)
    BY <1>1, TodoTypes DEF CallScript
  <2> QED BY <1>1, <2>1, <2>2 DEF CallScript, TypeOK, Stages
<1>2. CASE StopGone \/ StopForce \/ StopAsk
  <2>1. todo' \in Seq(Numbers) /\ waiting' \in BOOLEAN
    BY <1>2, TodoTypes DEF StopGone, StopForce, StopAsk, TypeOK
  <2>2. StopForce \/ StopAsk => Head(todo) \in Pids
    BY TodoTypes DEF StopForce, StopAsk, Running
  <2>3. signal' \in [Pids -> {"none", "TERM", "KILL"}]
    BY <1>2, <2>2, MachineTypes DEF StopGone, StopForce, StopAsk, TypeOK
  <2> QED BY <1>2, <2>1, <2>3 DEF StopGone, StopForce, StopAsk, TypeOK
<1>3. CASE StopMatching
  <2>1. todo' \in Seq(Numbers)
    BY <1>3, ListingType DEF StopMatching, TypeOK
  <2> QED BY <1>3, <2>1 DEF StopMatching, TypeOK, Stages
<1>4. CASE RemoveFile \/ CannotLaunch
  BY <1>0, <1>4, UnknownType DEF RemoveFile, CannotLaunch, TypeOK, Stages
<1>5. ASSUME NEW p \in Pids, LaunchPython(p) \/ LaunchCpp(p) PROVE TypeOK'
  <2>1. process' \in [Pids -> Kinds] /\ top' \in 0..MaxPids /\ signal' = signal
    BY <1>5, MachineTypes DEF LaunchPython, LaunchCpp, Launch, Kinds, Service
  <2>2. started' \in [python : Numbers, cpp : Numbers]
    BY <1>5 DEF LaunchPython, LaunchCpp, Launch, TypeOK
  <2> QED BY <1>5, <2>1, <2>2 DEF LaunchPython, LaunchCpp, Launch, TypeOK, Stages, Kinds
<1>6. CASE WriteFile
  BY <1>6 DEF WriteFile, TypeOK, Stages
<1>7. CASE CheckBoth
  BY <1>0, <1>7, TodoTypes DEF CheckBoth, TypeOK, Stages
<1>8. CASE ScriptDies
  BY <1>0, <1>8 DEF ScriptDies, TypeOK
<1>9. ASSUME NEW p \in Pids, Ends(p) PROVE TypeOK'
  BY <1>9, MachineTypes DEF Ends, script, TypeOK, Kinds, Service
<1>10. ASSUME NEW p \in Pids, ForeignStarts(p) PROVE TypeOK'
  <2>1. process' \in [Pids -> Kinds] /\ top' \in 0..MaxPids /\ signal' = signal
    <3>1. PICK kind \in Newcomers : Starts(p, kind)
      BY <1>10 DEF ForeignStarts
    <3>2. kind \in Kinds
      BY ForeignKinds
    <3> QED BY <3>1, <3>2, MachineTypes
  <2>2. /\ foreign < MaxForeign /\ foreign' = foreign + 1
        /\ UNCHANGED <<pgrep, reused, pidFile, script, commands, orphaned>>
    BY <1>10 DEF ForeignStarts
  <2>3. foreign' \in 0..MaxForeign
    <3>1. foreign \in 0..MaxForeign
      BY DEF TypeOK
    <3> QED BY <2>2, <3>1, ServicesAssumption
  <2> QED BY <2>1, <2>2, <2>3 DEF script, TypeOK
<1>11. CASE UNCHANGED vars
  BY <1>11 DEF vars, TypeOK
<1> QED BY <1>1, <1>2, <1>3, <1>4, <1>5, <1>6, <1>7, <1>8, <1>9, <1>10, <1>11
        DEF Next, ScriptStep

(* The variables of the script and of the processes keep their types; in    *)
(* particular nothing but a number of a process or none is signalled.       *)
THEOREM ServicesTypeCorrect == Spec => []TypeOK
BY ServicesTypeInit, ServicesTypeStep, PTL DEF Spec

-----------------------------------------------------------------------------
(* Strangers: a number the script has at hand, or has signalled, is that of *)
(* a service or a viewer, or was when the script came by it.                *)

NoStranger(p) == process[p] \in Service \union Viewers \/ reused[p]
NamesSound == \A p \in Pids : AtHand(p) \/ signal[p] # "none" => NoStranger(p)

(* What the steps do to the list of numbers.                                *)
LEMMA TodoShrinks ==
  ASSUME TypeOK, todo # <<>>
  PROVE  /\ \A i \in DOMAIN Tail(todo) : \E j \in DOMAIN todo : todo[j] = Tail(todo)[i]
         /\ \A i \in DOMAIN todo : todo[i] = Head(todo) \/ \E j \in DOMAIN Tail(todo) : Tail(todo)[j] = todo[i]
         /\ \E i \in DOMAIN todo : todo[i] = Head(todo)
<1>1. todo \in Seq(Numbers)
  BY DEF TypeOK
<1>2. /\ Len(todo) \in Nat \ {0} /\ DOMAIN todo = 1..Len(todo) /\ Tail(todo) \in Seq(Numbers)
      /\ Len(Tail(todo)) = Len(todo) - 1 /\ \A i \in 1..Len(Tail(todo)) : Tail(todo)[i] = todo[i + 1]
      /\ Head(todo) = todo[1]
  BY <1>1, HeadTailProperties, EmptySeq, LenProperties
<1>3. DOMAIN Tail(todo) = 1..(Len(todo) - 1)
  BY <1>2, LenProperties
<1>4. \A i \in 1..(Len(todo) - 1) : i + 1 \in 1..Len(todo)
  BY <1>2
<1>5. \A i \in 1..Len(todo) : i = 1 \/ (i - 1 \in 1..(Len(todo) - 1) /\ (i - 1) + 1 = i)
  BY <1>2
<1>6. 1 \in 1..Len(todo)
  BY <1>2
<1> QED BY <1>2, <1>3, <1>4, <1>5, <1>6

LEMMA TodoListed ==
  ASSUME todo' = Listed
  PROVE  \A i \in DOMAIN todo' : todo'[i] \in {pidFile.cpp, pidFile.python}
BY DEF Listed

LEMMA NothingToDo == todo = <<>> => \A i \in DOMAIN todo : FALSE
<1> SUFFICES ASSUME todo = <<>> PROVE \A i \in DOMAIN todo : FALSE
  OBVIOUS
<1>1. todo \in Seq(Numbers) /\ Len(todo) = 0
  BY EmptySeq
<1>2. DOMAIN todo = 1..0
  BY <1>1, LenProperties
<1> QED BY <1>2

LEMMA ListedNames ==
  ASSUME TypeOK, todo' = Listed
  PROVE  \A kind \in Service : \E i \in DOMAIN todo' : todo'[i] = pidFile[kind]
<1>1. Listed = <<pidFile.cpp, pidFile.python>>
  BY DEF Listed
<1>2. /\ 1 \in DOMAIN Listed /\ Listed[1] = pidFile.cpp
      /\ 2 \in DOMAIN Listed /\ Listed[2] = pidFile.python
  BY <1>1
<1> QED BY <1>2

LEMMA NamesSoundInit == Init => NamesSound
BY DEF Init, NamesSound, AtHand, Unknown, NoPid, Pids

LEMMA NamesSoundStep == TypeOK /\ NamesSound /\ [Next]_vars => NamesSound'
<1> SUFFICES ASSUME TypeOK, NamesSound, [Next]_vars PROVE NamesSound'
  OBVIOUS
<1> USE DEF NamesSound
<1>a. ASSUME UNCHANGED <<process, reused>>,
             \A p \in Pids : AtHand(p)' \/ signal'[p] # "none" => AtHand(p) \/ signal[p] # "none" \/ NoStranger(p)
      PROVE  NamesSound'
  BY <1>a DEF NoStranger
<1>b. \A p \in Pids : p # NoPid
  BY ServicesAssumption DEF Pids, NoPid
<1>c. UNCHANGED <<pidFile, started>> /\ (todo' = todo \/ todo' = <<>>) => \A p \in Pids : AtHand(p)' => AtHand(p)
  BY DEF AtHand
<1>d. Exit => \A p \in Pids : AtHand(p)' => p \in {pidFile'.python, pidFile'.cpp}
  BY <1>b DEF Exit, Unknown, AtHand
<1>1. CASE CallScript
  <2>1. \A p \in Pids : AtHand(p)' => AtHand(p)
    BY <1>1, TodoListed DEF CallScript, AtHand
  <2> QED BY <1>1, <1>a, <2>1 DEF CallScript, machine
<1>2. CASE StopGone \/ StopForce \/ StopAsk
  <2>1. todo # <<>> /\ UNCHANGED <<pidFile, started, process, reused>>
    BY <1>2 DEF StopGone, StopForce, StopAsk, machine
  <2>2. \A p \in Pids : AtHand(p)' => AtHand(p)
    <3>1. todo' = todo \/ todo' = Tail(todo)
      BY <1>2 DEF StopGone, StopForce, StopAsk
    <3> QED BY <2>1, <3>1, TodoShrinks DEF AtHand
  <2>3. \A p \in Pids : signal'[p] # "none" => signal[p] # "none" \/ AtHand(p)
    <3>1. AtHand(Head(todo))
      BY <2>1, TodoShrinks DEF AtHand
    <3>2. \A p \in Pids : signal'[p] = signal[p] \/ p = Head(todo)
      BY <1>2 DEF StopGone, StopForce, StopAsk, machine, Send, TypeOK
    <3> QED BY <3>1, <3>2
  <2> QED BY <1>a, <2>1, <2>2, <2>3
<1>3. CASE StopMatching
  <2>1. UNCHANGED <<pidFile, started, process, reused, signal>>
    BY <1>3 DEF StopMatching, machine
  <2>2. (todo' = todo) \/ \E kind \in Service : todo' \in Found(kind)
    BY <1>3 DEF StopMatching
  <2>3. ASSUME NEW p \in Pids, NEW kind \in Service, todo' \in Found(kind), AtHand(p)'
        PROVE  AtHand(p) \/ NoStranger(p)
    <3>1. \A i \in DOMAIN todo' : NoStranger(todo'[i])
      <4>1. \A i \in DOMAIN todo' : todo'[i] \in Matching(kind)
        BY <2>3, ListingType
      <4> QED BY <4>1, NamesService DEF Matching, NoStranger
    <3> QED BY <2>1, <2>3, <3>1 DEF AtHand
  <2> QED BY <1>a, <1>c, <2>1, <2>2, <2>3
<1>4. CASE RemoveFile \/ CannotLaunch
  <2>1. \A p \in Pids : AtHand(p)' => AtHand(p)
    <3>1. pidFile' = pidFile \/ (pidFile'.python = NoPid /\ pidFile'.cpp = NoPid)
      <4>1. Unknown.python = NoPid /\ Unknown.cpp = NoPid
        BY DEF Unknown
      <4> QED BY <1>4, <4>1 DEF RemoveFile, CannotLaunch
    <3>2. CASE Exit
      BY <1>b, <1>d, <3>1, <3>2 DEF AtHand
    <3>3. CASE ~Exit
      <4>1. todo' = todo /\ started' = started
        BY <1>4, <3>3 DEF RemoveFile, CannotLaunch
      <4> QED BY <1>b, <3>1, <4>1 DEF AtHand
    <3> QED BY <3>2, <3>3
  <2> QED BY <1>4, <1>a, <2>1 DEF RemoveFile, CannotLaunch, machine
<1>5. ASSUME NEW p \in Pids, LaunchPython(p) \/ LaunchCpp(p) PROVE NamesSound'
  <2>1. PICK kind \in Service : Launch(kind, p)
    BY <1>5 DEF LaunchPython, LaunchCpp
  <2>2. /\ process[p] = "free" /\ process' = [process EXCEPT ![p] = kind]
        /\ UNCHANGED <<reused, signal, pidFile, todo>> /\ started' = [started EXCEPT ![kind] = p]
    BY <2>1 DEF Launch, Starts
  <2>3. \A x \in Pids : AtHand(x)' => AtHand(x) \/ x = p
    BY <2>2 DEF AtHand, TypeOK
  <2>4. \A x \in Pids : x # p => process'[x] = process[x]
    BY <2>2 DEF TypeOK
  <2>5. process'[p] = kind
    BY <2>2 DEF TypeOK
  <2> QED BY <2>2, <2>3, <2>4, <2>5 DEF NoStranger
<1>6. CASE WriteFile
  <2>1. \A p \in Pids : AtHand(p)' => AtHand(p)
    BY <1>6 DEF WriteFile, AtHand
  <2> QED BY <1>6, <1>a, <2>1 DEF WriteFile, machine
<1>7. CASE CheckBoth
  <2>1. \A p \in Pids : AtHand(p)' => AtHand(p)
    <3>1. CASE Exit
      BY <1>7, <1>d, <3>1 DEF CheckBoth, AtHand
    <3>2. CASE ~Exit
      BY <1>7, <3>2, TodoListed DEF CheckBoth, AtHand
    <3> QED BY <3>1, <3>2
  <2> QED BY <1>7, <1>a, <2>1 DEF CheckBoth, machine
<1>8. CASE ScriptDies
  <2>1. \A p \in Pids : AtHand(p)' => AtHand(p)
    BY <1>8, <1>d DEF ScriptDies, AtHand
  <2> QED BY <1>8, <1>a, <2>1 DEF ScriptDies, machine
<1>9. ASSUME NEW p \in Pids, Ends(p) PROVE NamesSound'
  <2>1. \A x \in Pids : AtHand(x)' <=> AtHand(x)
    BY <1>9 DEF Ends, script, AtHand
  <2>2. \A x \in Pids : x # p => UNCHANGED <<process[x], signal[x], reused[x]>>
    BY <1>9 DEF Ends, Send, TypeOK
  <2>3. signal'[p] = "none" /\ (process[p] # "other" /\ AtHand(p) => reused'[p]) /\ (reused[p] => reused'[p])
    BY <1>9 DEF Ends, Send, TypeOK
  <2> QED BY <2>1, <2>2, <2>3 DEF NoStranger
<1>10. ASSUME NEW p \in Pids, ForeignStarts(p) PROVE NamesSound'
  <2>1. \A x \in Pids : (AtHand(x)' <=> AtHand(x)) /\ UNCHANGED <<signal, reused>>
    BY <1>10 DEF ForeignStarts, Starts, script, AtHand
  <2>2. \A x \in Pids : x # p => process'[x] = process[x]
    BY <1>10 DEF ForeignStarts, Starts, TypeOK
  <2>3. process[p] = "free"
    BY <1>10 DEF ForeignStarts, Starts
  <2> QED BY <2>1, <2>2, <2>3 DEF NoStranger
<1>11. CASE UNCHANGED vars
  <2>1. \A p \in Pids : AtHand(p)' => AtHand(p)
    BY <1>11 DEF vars, AtHand
  <2> QED BY <1>11, <1>a, <2>1 DEF vars
<1> QED BY <1>1, <1>2, <1>3, <1>4, <1>5, <1>6, <1>7, <1>8, <1>9, <1>10, <1>11
        DEF Next, ScriptStep

(* The script signals no stranger: a foreign process it signals names one   *)
(* of the services on its command line, or has the number of a service or   *)
(* of such a process that ended after the script had come by the number     *)
(* (loop.sh:124-187).                                                       *)
THEOREM StrangersAreSpared == Spec => []StrangersSpared
<1>1. NamesSound => StrangersSpared
  BY DEF NamesSound, NoStranger, StrangersSpared
<1> QED BY <1>1, ServicesTypeInit, ServicesTypeStep, NamesSoundInit, NamesSoundStep, PTL DEF Spec

-----------------------------------------------------------------------------
(* Where the services are that nothing forced to end, at each stage of the  *)
(* script, while no start was killed before it wrote the pid file or pgrep  *)
(* finds them all the same.                                                 *)

Sure == pgrep \/ ~orphaned
Waiting(p) == \E i \in DOMAIN todo : todo[i] = p
None(kind) == Left(kind) = {}

OnlyNamed ==
  ~pgrep /\ ~orphaned => \A kind \in Service : \A p \in Left(kind) :
    /\ stage = "none" => p = pidFile[kind]
    /\ stage = "stop listed" => p = pidFile[kind] /\ Waiting(p)
    /\ stage \notin {"stop cpp", "stop python"}
OnlyFound ==
  pgrep => /\ stage = "stop cpp" => \A p \in Left("cpp") : Waiting(p)
           /\ stage = "stop python" => None("cpp") /\ \A p \in Left("python") : Waiting(p)
OnlyStarted ==
  Sure => /\ stage \in {"remove", "launch python"} => None("python") /\ None("cpp")
          /\ stage = "launch cpp" => None("cpp")
          /\ stage \in {"launch cpp", "write", "check"} =>
               \A kind \in Service : \A p \in Left(kind) : p = started[kind]
OneLeft == Sure => \A kind \in Service : \A p, q \in Left(kind) : p = q
Recorded == stage = "check" => pidFile = started

LeftInv == OnlyNamed /\ OnlyFound /\ OnlyStarted /\ OneLeft /\ Recorded

LEMMA LeftInvInit == Init => LeftInv
<1> SUFFICES ASSUME Init PROVE LeftInv
  OBVIOUS
<1>1. \A kind \in Service : Left(kind) = {}
  <2>1. PICK kind \in Residents : process = [p \in Pids |-> IF p <= top THEN kind ELSE "free"]
    BY DEF Init
  <2>2. kind \notin Service
    BY ForeignKinds
  <2> QED BY <2>1, <2>2 DEF Left
<1> QED BY <1>1 DEF Init, LeftInv, OnlyNamed, OnlyFound, OnlyStarted, OneLeft, Recorded

(* A service that nothing forced to end runs. *)
LEMMA LeftRuns == \A kind \in Service : \A p \in Left(kind) : p # NoPid /\ process[p] # "free"
BY ServicesAssumption DEF Left, Pids, NoPid

LEMMA LeftInvStep == TypeOK /\ LeftInv /\ [Next]_vars => LeftInv'
<1> SUFFICES ASSUME TypeOK, LeftInv, [Next]_vars PROVE LeftInv'
  OBVIOUS
<1> USE DEF LeftInv, OnlyNamed, OnlyFound, OnlyStarted, OneLeft, Recorded, Sure, None
<1>a. UNCHANGED machine => \A kind \in Service : Left(kind)' = Left(kind)
  BY DEF machine, Left
<1>1. CASE CallScript
  <2>1. UNCHANGED <<pgrep, orphaned, pidFile, started>> /\ stage = "none" /\ stage' = "stop listed"
        /\ \A kind \in Service : Left(kind)' = Left(kind)
    BY <1>1, <1>a DEF CallScript, machine
  <2>2. \A kind \in Service : \E i \in DOMAIN todo' : todo'[i] = pidFile[kind]
    BY <1>1, ListedNames DEF CallScript
  <2>3. OnlyNamed'
    BY <2>1, <2>2 DEF Waiting
  <2>4. OnlyFound' /\ OnlyStarted' /\ Recorded'
    BY <2>1
  <2>5. OneLeft'
    BY <2>1
  <2> QED BY <2>3, <2>4, <2>5
<1>2. CASE StopGone \/ StopForce \/ StopAsk
  <2>1. todo # <<>> /\ UNCHANGED <<pidFile, started, process, stage, pgrep, orphaned>>
    BY <1>2 DEF StopGone, StopForce, StopAsk, machine
  <2>2. \A kind \in Service : Left(kind)' \subseteq Left(kind)
    BY <1>2, <2>1 DEF StopGone, StopForce, StopAsk, machine, Send, TypeOK, Left
  <2>3. \A kind \in Service : \A p \in Left(kind)' : Waiting(p) => Waiting(p)'
    <3> SUFFICES ASSUME NEW kind \in Service, NEW p \in Left(kind)', Waiting(p) PROVE Waiting(p)'
      OBVIOUS
    <3>1. p # Head(todo) => \E i \in DOMAIN Tail(todo) : Tail(todo)[i] = p
      BY <2>1, TodoShrinks DEF Waiting
    <3>2. CASE StopAsk
      BY <3>2 DEF StopAsk, Waiting
    <3>3. CASE StopGone
      <4>1. p # Head(todo) /\ todo' = Tail(todo)
        BY <2>2, <3>3, LeftRuns DEF StopGone, Running
      <4> QED BY <3>1, <4>1 DEF Waiting
    <3>4. CASE StopForce
      <4>1. Head(todo) \in Pids /\ todo' = Tail(todo)
        BY <3>4, TodoTypes DEF StopForce, Running
      <4>2. signal'[Head(todo)] = "KILL"
        BY <3>4, <4>1 DEF StopForce, Send, TypeOK
      <4>3. p # Head(todo)
        BY <4>2 DEF Left
      <4> QED BY <3>1, <4>1, <4>3 DEF Waiting
    <3> QED BY <1>2, <3>2, <3>3, <3>4
  <2> QED BY <2>1, <2>2, <2>3
<1>3. CASE StopMatching
  <2>1. UNCHANGED <<pidFile, started, process, pgrep, orphaned>> /\ todo = <<>>
        /\ \A kind \in Service : Left(kind)' = Left(kind)
    BY <1>3, <1>a DEF StopMatching, machine
  <2>2. \A p : ~Waiting(p)
    BY <2>1, NothingToDo DEF Waiting
  <2>3. \A kind \in Service : pgrep /\ todo' \in Found(kind) => \A p \in Left(kind) : Waiting(p)'
    <3> SUFFICES ASSUME NEW kind \in Service, pgrep, todo' \in Found(kind), NEW p \in Left(kind)
                 PROVE  Waiting(p)'
      OBVIOUS
    <3>1. p \in Matching(kind)
      BY NamesService DEF Left, Matching
    <3>2. \A x \in Matching(kind) : \E i \in DOMAIN todo' : todo'[i] = x
      BY ListingType
    <3> QED BY <3>1, <3>2 DEF Waiting
  <2>4. CASE stage = "stop listed"
    <3>1. stage' = "stop cpp" /\ todo' \in Found("cpp")
      BY <1>3, <2>4 DEF StopMatching
    <3> QED BY <2>1, <2>2, <2>3, <2>4, <3>1
  <2>5. CASE stage = "stop cpp"
    <3>1. stage' = "stop python" /\ todo' \in Found("python")
      BY <1>3, <2>5 DEF StopMatching
    <3> QED BY <2>1, <2>2, <2>3, <2>5, <3>1
  <2>6. CASE stage = "stop python"
    <3>1. stage' = "remove"
      BY <1>3, <2>6 DEF StopMatching
    <3> QED BY <2>1, <2>2, <2>6, <3>1
  <2> QED BY <1>3, <2>4, <2>5, <2>6 DEF StopMatching
<1>4. CASE RemoveFile \/ CannotLaunch
  <2>1. stage \in {"remove", "launch python"} /\ stage' \in {"none", "launch python"}
        /\ UNCHANGED <<pgrep, orphaned>> /\ \A kind \in Service : Left(kind)' = Left(kind)
    BY <1>4, <1>a DEF RemoveFile, CannotLaunch, Exit, machine
  <2> QED BY <2>1
<1>5. ASSUME NEW p \in Pids, LaunchPython(p) \/ LaunchCpp(p) PROVE LeftInv'
  <2>1. /\ UNCHANGED <<reused, signal, pidFile, todo, pgrep, orphaned>>
        /\ \/ stage = "launch python" /\ stage' = "launch cpp" /\ Launch("python", p)
           \/ stage = "launch cpp" /\ stage' = "write" /\ Launch("cpp", p)
    BY <1>5 DEF LaunchPython, LaunchCpp, Launch, Starts
  <2>2. ASSUME NEW kind \in Service, Launch(kind, p), None(kind)
        PROVE  /\ \A x \in Left(kind)' : x = p
               /\ \A other \in Service : other # kind => Left(other)' \subseteq Left(other)
               /\ started'[kind] = p /\ \A other \in Service : other # kind => started'[other] = started[other]
    <3>1. process'[p] = kind /\ \A x \in Pids : x # p => process'[x] = process[x]
      BY <2>2 DEF Launch, Starts, TypeOK
    <3>2. signal' = signal /\ started' = [started EXCEPT ![kind] = p]
      BY <2>2 DEF Launch, Starts
    <3>3. \A x \in Left(kind)' : x = p
      BY <2>2, <3>1, <3>2 DEF Left
    <3>4. ASSUME NEW other \in Service, other # kind PROVE Left(other)' \subseteq Left(other)
      BY <3>1, <3>2, <3>4 DEF Left
    <3>5. started \in [python : Numbers, cpp : Numbers]
      BY DEF TypeOK
    <3>6. started'[kind] = p /\ \A other \in Service : other # kind => started'[other] = started[other]
      BY <3>2, <3>5
    <3> QED BY <3>3, <3>4, <3>6
  <2>3. CASE stage = "launch python" /\ stage' = "launch cpp" /\ Launch("python", p)
    BY <2>1, <2>2, <2>3
  <2>4. CASE stage = "launch cpp" /\ stage' = "write" /\ Launch("cpp", p)
    BY <2>1, <2>2, <2>4
  <2> QED BY <2>1, <2>3, <2>4
<1>6. CASE WriteFile
  <2>1. /\ stage = "write" /\ stage' = "check" /\ pidFile' = started /\ started' = started
        /\ UNCHANGED <<pgrep, orphaned>> /\ \A kind \in Service : Left(kind)' = Left(kind)
    BY <1>6, <1>a DEF WriteFile, machine
  <2> QED BY <2>1
<1>7. CASE CheckBoth
  <2>1. /\ stage = "check" /\ pidFile = started
        /\ UNCHANGED <<pgrep, orphaned, pidFile>> /\ \A kind \in Service : Left(kind)' = Left(kind)
    BY <1>7, <1>a DEF CheckBoth, machine
  <2>2. \/ stage' = "none"
        \/ stage' = "stop listed" /\ todo' = Listed
    BY <1>7 DEF CheckBoth, Exit
  <2>3. todo' = Listed => \A kind \in Service : \E i \in DOMAIN todo' : todo'[i] = pidFile[kind]
    BY ListedNames
  <2>4. CASE stage' = "none"
    BY <2>1, <2>4
  <2>5. CASE stage' = "stop listed" /\ todo' = Listed
    <3>1. OnlyNamed'
      BY <2>1, <2>3, <2>5 DEF Waiting
    <3>2. OnlyFound' /\ OnlyStarted' /\ Recorded'
      BY <2>1, <2>5
    <3>3. OneLeft'
      BY <2>1
    <3> QED BY <3>1, <3>2, <3>3
  <2> QED BY <2>2, <2>4, <2>5
<1>8. CASE ScriptDies
  <2>1. /\ stage' = "none" /\ stage # "none" /\ orphaned' = (orphaned \/ stage \in {"launch cpp", "write"})
        /\ UNCHANGED <<pgrep, pidFile>> /\ \A kind \in Service : Left(kind)' = Left(kind)
    BY <1>8, <1>a DEF ScriptDies, Exit, machine
  <2>2. stage \in Stages /\ orphaned \in BOOLEAN
    BY DEF TypeOK
  <2>3. CASE ~pgrep /\ ~orphaned'
    <3>1. stage \in {"stop listed", "stop cpp", "stop python", "remove", "launch python", "check"} /\ ~orphaned
      BY <2>1, <2>2, <2>3 DEF Stages
    <3>2. \A kind \in Service : \A p \in Left(kind) : p = pidFile[kind]
      BY <2>3, <3>1
    <3> QED BY <2>1, <2>3, <3>1, <3>2
  <2>4. CASE pgrep \/ orphaned'
    BY <2>1, <2>4
  <2> QED BY <2>2, <2>3, <2>4
<1>9. ASSUME NEW p \in Pids, Ends(p) PROVE LeftInv'
  <2>1. UNCHANGED <<pgrep, orphaned, pidFile, started, stage, todo>>
    BY <1>9 DEF Ends, script
  <2>2. \A kind \in Service : Left(kind)' \subseteq Left(kind)
    <3>1. process'[p] = "free" /\ \A x \in Pids : x # p => process'[x] = process[x] /\ signal'[x] = signal[x]
      BY <1>9 DEF Ends, Send, TypeOK
    <3> QED BY <3>1 DEF Left
  <2>3. \A x : Waiting(x)' <=> Waiting(x)
    BY <2>1 DEF Waiting
  <2> QED BY <2>1, <2>2, <2>3
<1>10. ASSUME NEW p \in Pids, ForeignStarts(p) PROVE LeftInv'
  <2>1. UNCHANGED <<pgrep, orphaned, pidFile, started, stage, todo>>
    BY <1>10 DEF ForeignStarts, script
  <2>2. \A kind \in Service : Left(kind)' \subseteq Left(kind)
    <3>1. process'[p] \notin Service /\ \A x \in Pids : x # p => process'[x] = process[x]
      <4>1. PICK kind \in Newcomers : Starts(p, kind)
        BY <1>10 DEF ForeignStarts
      <4>2. kind \notin Service
        BY ForeignKinds
      <4> QED BY <4>1, <4>2 DEF Starts, TypeOK
    <3>2. signal' = signal
      BY <1>10 DEF ForeignStarts, Starts
    <3> QED BY <3>1, <3>2 DEF Left
  <2>3. \A x : Waiting(x)' <=> Waiting(x)
    BY <2>1 DEF Waiting
  <2> QED BY <2>1, <2>2, <2>3
<1>11. CASE UNCHANGED vars
  <2>1. UNCHANGED <<pgrep, orphaned, pidFile, started, stage, todo>> /\ \A kind \in Service : Left(kind)' = Left(kind)
    BY <1>11, <1>a DEF vars, machine
  <2>2. \A x : Waiting(x)' <=> Waiting(x)
    BY <2>1 DEF Waiting
  <2> QED BY <2>1, <2>2
<1> QED BY <1>1, <1>2, <1>3, <1>4, <1>5, <1>6, <1>7, <1>8, <1>9, <1>10, <1>11
        DEF Next, ScriptStep

LEMMA LeftInvHolds == Spec => [](TypeOK /\ LeftInv)
BY ServicesTypeInit, ServicesTypeStep, LeftInvInit, LeftInvStep, PTL DEF Spec

(* A script that stopped the services left none that nothing forced to end  *)
(* (loop.sh:181-189, 203-207).                                              *)
THEOREM StopIsComplete == Spec => []StopLeavesNothing
<1>1. LeftInv => StopLeavesNothing
  BY DEF LeftInv, OnlyStarted, Sure, None, StopLeavesNothing
<1> QED BY <1>1, LeftInvHolds, PTL

(* No start makes a second service of a kind (loop.sh:209-256).             *)
THEOREM NoSecondService == Spec => []OneOfEach
<1>1. LeftInv => OneOfEach
  <2> SUFFICES ASSUME LeftInv, Sure, NEW kind \in Service PROVE Cardinality(Left(kind)) <= 1
    BY DEF OneOfEach, Sure
  <2>1. CASE Left(kind) = {}
    BY <2>1, FS_EmptySet
  <2>2. ASSUME NEW p \in Left(kind) PROVE Cardinality(Left(kind)) <= 1
    <3>1. Left(kind) = {p}
      BY <2>2 DEF LeftInv, OneLeft
    <3>2. Cardinality({p}) = 1
      BY FS_Singleton
    <3> QED BY <3>1, <3>2
  <2> QED BY <2>1, <2>2
<1> QED BY <1>1, LeftInvHolds, PTL

=============================================================================

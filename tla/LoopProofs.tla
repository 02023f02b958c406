------------------------------ MODULE LoopProofs ------------------------------
(***************************************************************************)
(* What TLAPS proves of LoopThread, for every set of posters and of tasks. *)
(***************************************************************************)
EXTENDS LoopThread, SequenceTheorems, TLAPS

-----------------------------------------------------------------------------
(* The type invariant, flags and the rest. *)
Flags == /\ efd \in BOOLEAN /\ quit \in BOOLEAN /\ active \in BOOLEAN
         /\ published \in BOOLEAN /\ exited \in BOOLEAN /\ loopPtr \in BOOLEAN

LEMMA LoopTypeInit == Init => TypeOK
<1>1. Init => Flags
  BY Zenon DEF Init, ELInit, Flags
<1>2. <<>> \in Seq(Tasks)
  BY EmptySeq
<1>3. Init => TypeOK
  BY <1>1, <1>2, LoopAssumption DEF Init, ELInit, TypeOK, Flags
<1> QED BY <1>3

LEMMA ThreadTypes ==
  ASSUME TypeOK, Thread \/ ThreadLoopOther
  PROVE  TypeOK'
<1> USE DEF TypeOK, elVars, threadVars, posterVars, ltVars
<1>1. ASSUME ThreadMake \/ ThreadLock \/ ThreadUnlock \/ ThreadReturned \/ ThreadDestroy PROVE TypeOK'
  BY <1>1 DEF ThreadMake, ThreadLock, ThreadUnlock, ThreadReturned, ThreadDestroy
<1>2. ASSUME ThreadPublish \/ ThreadWithdraw PROVE TypeOK'
  <2>1. Flags'
    BY <1>2, Zenon DEF Flags, ThreadPublish, ThreadWithdraw, NotifyOwner
  <2> QED BY <1>2, <2>1 DEF Flags, ThreadPublish, ThreadWithdraw, NotifyOwner
<1>3. ASSUME LoopStart \/ LoopCheck \/ Wake \/ LoopHandle \/ LoopTurn, UNCHANGED ltVars PROVE TypeOK'
  <2>1. Flags'
    BY <1>3, Zenon DEF Flags, LoopStart, LoopCheck, Wake, LoopHandle, LoopTurn
  <2> QED BY <1>3, <2>1 DEF Flags, LoopStart, LoopCheck, Wake, LoopHandle, LoopTurn
<1>4. ASSUME LoopSwap, UNCHANGED ltVars PROVE TypeOK'
  BY <1>4 DEF LoopSwap
<1>5. ASSUME LoopRun, UNCHANGED ltVars PROVE TypeOK'
  <2>1. Head(running) \in Tasks /\ Tail(running) \in Seq(Tasks)
    BY <1>5, HeadTailProperties DEF LoopRun
  <2>2. Append(executed, Head(running)) \in Seq(Tasks)
    BY <2>1, AppendProperties
  <2> QED BY <1>5, <2>1, <2>2 DEF LoopRun
<1>6. ASSUME LoopRunNow, UNCHANGED ltVars PROVE TypeOK'
  <2>1. PICK t \in fresh : executed' = Append(executed, t) /\ fresh' = fresh \ {t}
    BY <1>6 DEF LoopRunNow
  <2>2. Append(executed, t) \in Seq(Tasks)
    BY <2>1, AppendProperties
  <2> QED BY <1>6, <2>1, <2>2 DEF LoopRunNow
<1> QED BY <1>1, <1>2, <1>3, <1>4, <1>5, <1>6
        DEF Thread, ThreadLoop, ThreadLoopOther, LoopStep, LoopPoll, LoopPollOther

LEMMA OwnerTypes ==
  ASSUME TypeOK, Owner \/ OwnerDestroy \/ OwnerWakeUnasked
  PROVE  TypeOK'
<1> USE DEF TypeOK, elVars, threadVars, posterVars, ltVars
<1>1. ASSUME OwnerConstruct \/ OwnerLock \/ OwnerCheck \/ OwnerWait \/ OwnerGet PROVE TypeOK'
  <2>1. Flags'
    BY <1>1, Zenon DEF Flags, OwnerConstruct, OwnerLock, OwnerCheck, OwnerWait, OwnerGet
  <2> QED BY <1>1, <2>1 DEF Flags, OwnerConstruct, OwnerLock, OwnerCheck, OwnerWait, OwnerGet
<1>2. ASSUME OwnerStop \/ OwnerWrite PROVE TypeOK'
  <2>1. Flags'
    BY <1>2, Zenon DEF Flags, OwnerStop, OwnerWrite, StopQuit, StopWrite
  <2> QED BY <1>2, <2>1 DEF Flags, OwnerStop, OwnerWrite, StopQuit, StopWrite
<1>3. ASSUME OwnerJoin \/ OwnerDestroy \/ OwnerWakeUnasked PROVE TypeOK'
  BY <1>3 DEF OwnerJoin, OwnerDestroy, OwnerWakeUnasked
<1> QED BY <1>1, <1>2, <1>3 DEF Owner

LEMMA PosterTypes ==
  ASSUME TypeOK, NEW p \in Posters, PosterStart(p) \/ PosterStep(p)
  PROVE  TypeOK'
<1> USE LoopAssumption DEF TypeOK, elVars, threadVars, posterVars, ltVars
<1>1. ASSUME PostBegin(p), UNCHANGED ltVars PROVE TypeOK'
  <2>1. PICK t \in fresh : ptask' = [ptask EXCEPT ![p] = t] /\ fresh' = fresh \ {t}
    BY <1>1 DEF PostBegin
  <2>2. t \in Tasks /\ t # NoTask
    BY <2>1
  <2> QED BY <1>1, <2>1, <2>2 DEF PostBegin
<1>2. ASSUME PostPush(p), UNCHANGED ltVars PROVE TypeOK'
  <2>1. ptask[p] \in Tasks
    BY <1>2 DEF PostPush
  <2>2. Append(queue, ptask[p]) \in Seq(Tasks)
    BY <2>1, AppendProperties
  <2> QED BY <1>2, <2>1, <2>2 DEF PostPush
<1>3. ASSUME PostWrite(p), UNCHANGED ltVars PROVE TypeOK'
  BY <1>3 DEF PostWrite
<1> QED BY <1>1, <1>2, <1>3 DEF PosterStart, PosterStep

LEMMA LoopTypeStep == TypeOK /\ [Next]_vars => TypeOK'
<1>1. TypeOK /\ UNCHANGED vars => TypeOK'
  BY DEF TypeOK, vars, elVars, threadVars, posterVars, ltVars
<1> QED BY <1>1, ThreadTypes, OwnerTypes, PosterTypes DEF Next

(* The variables of the loop and of its thread keep their types; a poster   *)
(* has a task exactly until it has queued it (event_loop.cpp:83-93).        *)
THEOREM LoopTypeCorrect == Spec => []TypeOK
  BY LoopTypeInit, LoopTypeStep, PTL DEF Spec

-----------------------------------------------------------------------------
(* A task that is queued has its wake-up on the way, from the push until    *)
(* the loop empties the eventfd to take it.                                 *)
WakeInv ==
  lpc \in {"made", "check", "poll", "run"} /\ queue # <<>> =>
    efd \/ \E p \in Posters : ppc[p] = "write"

LEMMA WakeStep ==
  ASSUME TypeOK, WakeInv, [Next]_vars
  PROVE  WakeInv'
<1>0. ppc \in [Posters -> {"idle", "push", "write"}]
  BY DEF TypeOK
<1> USE DEF WakeInv, elVars, threadVars, posterVars, ltVars
<1>1. ASSUME LoopStep \/ LoopPollOther \/ LoopRunNow PROVE WakeInv'
  BY <1>1 DEF LoopStep, LoopPoll, LoopPollOther, LoopStart, LoopCheck, Wake, LoopHandle, LoopSwap,
              LoopRun, LoopTurn, LoopRunNow
<1>2. ASSUME NEW p \in Posters, PostBegin(p) PROVE WakeInv'
  BY <1>0, <1>2 DEF PostBegin
<1>3. ASSUME NEW p \in Posters, PostPush(p) PROVE WakeInv'
  BY <1>0, <1>3 DEF PostPush
<1>4. ASSUME NEW p \in Posters, PostWrite(p) PROVE WakeInv'
  BY <1>0, <1>4 DEF PostWrite
<1>5. ASSUME StopQuit \/ StopWrite PROVE WakeInv'
  BY <1>5 DEF StopQuit, StopWrite
<1>6. ASSUME UNCHANGED elVars PROVE WakeInv'
  BY <1>6
<1>7. ASSUME Thread \/ ThreadLoopOther PROVE WakeInv'
  BY <1>1, <1>6, <1>7 DEF Thread, ThreadMake, ThreadLock, ThreadPublish, ThreadUnlock, ThreadLoop,
     ThreadReturned, ThreadWithdraw, ThreadDestroy, ThreadLoopOther
<1>8. ASSUME Owner \/ OwnerDestroy \/ OwnerWakeUnasked PROVE WakeInv'
  BY <1>5, <1>6, <1>8 DEF Owner, OwnerConstruct, OwnerLock, OwnerCheck, OwnerWait, OwnerGet,
     OwnerStop, OwnerWrite, OwnerJoin, OwnerDestroy, OwnerWakeUnasked
<1>9. ASSUME NEW p \in Posters, PosterStart(p) \/ PosterStep(p) PROVE WakeInv'
  BY <1>2, <1>3, <1>4, <1>9 DEF PosterStart, PosterStep
<1>10. ASSUME UNCHANGED vars PROVE WakeInv'
  BY <1>6, <1>10 DEF vars
<1> QED BY <1>7, <1>8, <1>9, <1>10 DEF Next

(* The loop never enters epoll_wait, or stays in it, with a task queued and *)
(* no wake-up on the way (event_loop.cpp:31-41, 56-71, 83-93).              *)
THEOREM LoopWakeupsKept == Spec => []NoLostWakeup
<1>1. Init => TypeOK /\ WakeInv
  BY LoopTypeInit DEF Init, ELInit, WakeInv
<1>2. TypeOK /\ WakeInv /\ [Next]_vars => (TypeOK /\ WakeInv)'
  BY LoopTypeStep, WakeStep
<1>3. WakeInv => NoLostWakeup
  BY DEF WakeInv, NoLostWakeup
<1> QED BY <1>1, <1>2, <1>3, PTL DEF Spec

-----------------------------------------------------------------------------
(* Until the destructor tells the loop to stop, the thread has not left it, *)
(* and an address that was given out is the published one.                  *)
BeforeStop == {"construct", "lock", "check", "block", "wait", "have", "dlock", "dcheck", "dblock",
               "dwait", "stop"}
NotLeft == opc \in BeforeStop =>
             ~quit /\ lpc # "returned" /\ tpc \in {"make", "lock", "publish", "unlock", "loop"}
PublishedAlive == published => tpc \in {"unlock", "loop", "relock", "withdraw"}
GivenPublished == opc \in BeforeStop /\ loopPtr => published

AddressInv == NotLeft /\ PublishedAlive /\ GivenPublished

LEMMA AddressStep ==
  ASSUME TypeOK, AddressInv, [Next]_vars
  PROVE  AddressInv'
<1> USE DEF AddressInv, NotLeft, PublishedAlive, GivenPublished, BeforeStop, elVars, threadVars,
            posterVars, ltVars
<1>1. ASSUME ThreadMake \/ ThreadLock \/ ThreadUnlock \/ ThreadReturned \/ ThreadDestroy PROVE AddressInv'
  BY <1>1 DEF ThreadMake, ThreadLock, ThreadUnlock, ThreadReturned, ThreadDestroy
<1>2. ASSUME ThreadPublish \/ ThreadWithdraw PROVE AddressInv'
  BY <1>2 DEF ThreadPublish, ThreadWithdraw, NotifyOwner
<1>3. ASSUME ThreadLoop \/ ThreadLoopOther PROVE AddressInv'
  BY <1>3 DEF ThreadLoop, ThreadLoopOther, LoopStep, LoopPoll, LoopPollOther, LoopStart, LoopCheck,
              Wake, LoopHandle, LoopSwap, LoopRun, LoopTurn, LoopRunNow
<1>4. ASSUME OwnerConstruct \/ OwnerLock \/ OwnerCheck \/ OwnerWait \/ OwnerGet PROVE AddressInv'
  BY <1>4 DEF OwnerConstruct, OwnerLock, OwnerCheck, OwnerWait, OwnerGet, TypeOK
<1>5. ASSUME OwnerStop \/ OwnerWrite \/ OwnerJoin PROVE AddressInv'
  BY <1>5 DEF OwnerStop, OwnerWrite, OwnerJoin, StopQuit, StopWrite
<1>6. ASSUME OwnerDestroy \/ OwnerWakeUnasked PROVE AddressInv'
  BY <1>6 DEF OwnerDestroy, OwnerWakeUnasked
<1>7. ASSUME NEW p \in Posters, PosterStart(p) \/ PosterStep(p) PROVE AddressInv'
  BY <1>7 DEF PosterStart, PosterStep, PostBegin, PostPush, PostWrite
<1>8. ASSUME UNCHANGED vars PROVE AddressInv'
  BY <1>8 DEF vars
<1> QED BY <1>1, <1>2, <1>3, <1>4, <1>5, <1>6, <1>7, <1>8 DEF Next, Thread, Owner

(* Whoever got an address from GetEventLoop may post to it until the        *)
(* destructor calls Stop (loop_thread.cpp:5-42).                            *)
THEOREM AddressAlive == Spec => []PointerAlive
<1>1. Init => TypeOK /\ AddressInv
  BY LoopTypeInit DEF Init, ELInit, AddressInv, NotLeft, PublishedAlive, GivenPublished, BeforeStop
<1>2. TypeOK /\ AddressInv /\ [Next]_vars => (TypeOK /\ AddressInv)'
  BY LoopTypeStep, AddressStep
<1>3. AddressInv => PointerAlive
  BY DEF AddressInv, NotLeft, PublishedAlive, GivenPublished, BeforeStop, PointerAlive
<1> QED BY <1>1, <1>2, <1>3, PTL DEF Spec

-----------------------------------------------------------------------------
(* What a sequence holds. *)
LEMMA HoldsAppended ==
  ASSUME NEW s \in Seq(Tasks), NEW t \in Tasks
  PROVE  \A u : Holds(Append(s, t), u) => Holds(s, u) \/ u = t
<1>1. /\ \A i \in 1..Len(s) : Append(s, t)[i] = s[i]
      /\ Append(s, t)[Len(s) + 1] = t
      /\ Append(s, t) \in Seq(Tasks) /\ Len(Append(s, t)) = Len(s) + 1
  BY AppendProperties
<1>2. DOMAIN s = 1..Len(s) /\ DOMAIN Append(s, t) = 1..(Len(s) + 1) /\ Len(s) \in Nat
  BY <1>1, LenProperties
<1>3. \A i \in DOMAIN Append(s, t) : i = Len(s) + 1 \/ i \in DOMAIN s
  BY <1>2
<1> QED BY <1>1, <1>2, <1>3 DEF Holds

LEMMA HoldsPopped ==
  ASSUME NEW s \in Seq(Tasks), s # <<>>
  PROVE  /\ Head(s) \in Tasks /\ Tail(s) \in Seq(Tasks) /\ Holds(s, Head(s))
         /\ \A u : Holds(Tail(s), u) => Holds(s, u)
<1>1. /\ Head(s) \in Tasks /\ Tail(s) \in Seq(Tasks) /\ Len(Tail(s)) = Len(s) - 1
      /\ Head(s) = s[1] /\ \A j \in 1..Len(Tail(s)) : Tail(s)[j] = s[j + 1]
  BY HeadTailProperties
<1>2. DOMAIN s = 1..Len(s) /\ DOMAIN Tail(s) = 1..Len(Tail(s)) /\ Len(s) \in Nat \ {0}
  BY <1>1, LenProperties, EmptySeq
<1>3. 1 \in DOMAIN s /\ \A j \in DOMAIN Tail(s) : j + 1 \in DOMAIN s
  BY <1>1, <1>2
<1> QED BY <1>1, <1>2, <1>3 DEF Holds

LEMMA HoldsJoined ==
  ASSUME NEW r \in Seq(Tasks), NEW s \in Seq(Tasks)
  PROVE  \A u : Holds(r \o s, u) => Holds(r, u) \/ Holds(s, u)
<1>1. /\ r \o s \in Seq(Tasks) /\ Len(r \o s) = Len(r) + Len(s)
      /\ \A i \in 1 .. Len(r) + Len(s) : (r \o s)[i] = IF i <= Len(r) THEN r[i] ELSE s[i - Len(r)]
  BY ConcatProperties
<1>2. /\ DOMAIN r = 1..Len(r) /\ DOMAIN s = 1..Len(s) /\ DOMAIN (r \o s) = 1..(Len(r) + Len(s))
      /\ Len(r) \in Nat /\ Len(s) \in Nat
  BY <1>1, LenProperties
<1>3. ASSUME NEW i \in DOMAIN (r \o s)
      PROVE  \/ i \in DOMAIN r /\ (r \o s)[i] = r[i]
             \/ (i - Len(r)) \in DOMAIN s /\ (r \o s)[i] = s[i - Len(r)]
  BY <1>1, <1>2
<1> QED BY <1>3 DEF Holds

(* The queue behind the running vector, as one sequence. *)
LEMMA JoinedPopped ==
  ASSUME NEW r \in Seq(Tasks), NEW s \in Seq(Tasks), r # <<>>
  PROVE  r \o s # <<>> /\ Head(r \o s) = Head(r) /\ Tail(r \o s) = Tail(r) \o s
<1>1. /\ r \o s \in Seq(Tasks) /\ Len(r \o s) = Len(r) + Len(s)
      /\ \A i \in 1 .. Len(r) + Len(s) : (r \o s)[i] = IF i <= Len(r) THEN r[i] ELSE s[i - Len(r)]
  BY ConcatProperties
<1>2. Len(r) \in Nat \ {0} /\ Len(s) \in Nat
  BY EmptySeq, LenProperties
<1>3. r \o s # <<>>
  BY <1>1, <1>2, EmptySeq
<1>4. /\ Tail(r) \in Seq(Tasks) /\ Len(Tail(r)) = Len(r) - 1
      /\ \A i \in 1 .. Len(Tail(r)) : Tail(r)[i] = r[i + 1]
  BY HeadTailProperties
<1>5. /\ Tail(r \o s) \in Seq(Tasks) /\ Len(Tail(r \o s)) = Len(r) + Len(s) - 1
      /\ \A i \in 1 .. Len(Tail(r \o s)) : Tail(r \o s)[i] = (r \o s)[i + 1]
  BY <1>1, <1>3, HeadTailProperties
<1>6. /\ Tail(r) \o s \in Seq(Tasks) /\ Len(Tail(r) \o s) = Len(Tail(r)) + Len(s)
      /\ \A i \in 1 .. Len(Tail(r)) + Len(s) :
           (Tail(r) \o s)[i] = IF i <= Len(Tail(r)) THEN Tail(r)[i] ELSE s[i - Len(Tail(r))]
  BY <1>4, ConcatProperties
<1>7. Head(r \o s) = Head(r)
  BY <1>1, <1>2, <1>3
<1>8. Len(Tail(r \o s)) = Len(Tail(r) \o s)
  BY <1>2, <1>4, <1>5, <1>6
<1>9. ASSUME NEW i \in 1 .. Len(Tail(r \o s)) PROVE Tail(r \o s)[i] = (Tail(r) \o s)[i]
  <2>1. i + 1 \in 1 .. Len(r) + Len(s) /\ i \in 1 .. Len(Tail(r)) + Len(s) /\ i \in Nat
    BY <1>2, <1>4, <1>5, <1>9
  <2>2. Tail(r \o s)[i] = (r \o s)[i + 1]
    BY <1>5, <1>9
  <2>3. CASE i <= Len(Tail(r))
    <3>1. i + 1 <= Len(r) /\ i \in 1 .. Len(Tail(r))
      BY <1>2, <1>4, <2>1, <2>3
    <3> QED BY <1>1, <1>4, <1>6, <2>1, <2>2, <2>3, <3>1
  <2>4. CASE ~(i <= Len(Tail(r)))
    <3>1. ~(i + 1 <= Len(r)) /\ (i + 1) - Len(r) = i - Len(Tail(r))
      BY <1>2, <1>4, <2>1, <2>4
    <3> QED BY <1>1, <1>6, <2>1, <2>2, <2>4, <3>1
  <2> QED BY <2>3, <2>4
<1>10. Tail(r \o s) = Tail(r) \o s
  BY <1>5, <1>6, <1>8, <1>9, SeqEqual
<1> QED BY <1>3, <1>7, <1>10

-----------------------------------------------------------------------------
(* A task that nobody pushed, or that is being pushed, is nowhere yet, and  *)
(* no two posters push the same.                                            *)
Absent(t) == ~Holds(running, t) /\ ~Holds(queue, t) /\ ~Holds(executed, t)
Pushes(p) == ppc[p] = "push"
SwapsOut == lpc # "run" => running = <<>>
FreshAbsent == \A t \in fresh : Absent(t)
PushedAbsent == \A p \in Posters : Pushes(p) => ptask[p] \notin fresh /\ Absent(ptask[p])
PushedOnce == \A p, q \in Posters : Pushes(p) /\ Pushes(q) /\ ptask[p] = ptask[q] => p = q

MailInv == SwapsOut /\ FreshAbsent /\ PushedAbsent /\ PushedOnce
(* Steps that leave the loop's vectors and what was pushed alone.           *)
LEMMA QuietStep ==
  ASSUME MailInv, UNCHANGED <<queue, running, executed, fresh, ptask>>,
         \A p \in Posters : Pushes(p)' => Pushes(p), lpc' # "run" => lpc # "run" \/ running = <<>>
  PROVE  MailInv'
<1>1. \A t : Absent(t) => Absent(t)'
  BY DEF Absent, Holds
<1>2. SwapsOut'
  BY DEF MailInv, SwapsOut
<1>3. FreshAbsent' /\ PushedAbsent'
  BY <1>1 DEF MailInv, FreshAbsent, PushedAbsent
<1>4. PushedOnce'
  BY DEF MailInv, PushedOnce
<1> QED BY <1>2, <1>3, <1>4 DEF MailInv

LEMMA MailLoopStep ==
  ASSUME TypeOK, MailInv, LoopStep \/ Wake \/ LoopRunNow
  PROVE  /\ MailInv'
         /\ [Box!Next]_<<running \o queue, executed>>
<1> DEFINE Mapped == [Box!Next]_<<running \o queue, executed>>
<1>0. /\ queue \in Seq(Tasks) /\ running \in Seq(Tasks) /\ executed \in Seq(Tasks)
      /\ fresh \subseteq Tasks
  BY DEF TypeOK
<1>1. ASSUME LoopStart \/ LoopCheck \/ Wake \/ LoopHandle \/ LoopTurn PROVE MailInv' /\ Mapped
  <2>1. /\ UNCHANGED <<queue, running, executed, fresh, ppc, ptask>>
        /\ lpc' # "run" /\ (lpc # "run" \/ running = <<>>)
    BY <1>1 DEF LoopStart, LoopCheck, Wake, LoopHandle, LoopTurn, posterVars
  <2>2. MailInv'
    BY <2>1, QuietStep DEF Pushes
  <2> QED BY <2>1, <2>2
<1>2. ASSUME LoopSwap PROVE MailInv' /\ Mapped
  <2>1. /\ running = <<>> /\ running' = queue /\ queue' = <<>> /\ lpc' = "run"
        /\ UNCHANGED <<executed, fresh, ppc, ptask>>
    BY <1>2 DEF LoopSwap, posterVars, MailInv, SwapsOut
  <2>2. \A t : Absent(t) => Absent(t)'
    BY <2>1 DEF Absent, Holds
  <2>3. MailInv'
    BY <2>1, <2>2 DEF MailInv, SwapsOut, FreshAbsent, PushedAbsent, PushedOnce, Pushes
  <2>4. queue \o <<>> = queue /\ <<>> \o queue = queue
    BY <1>0, ConcatEmptySeq
  <2>5. (running \o queue)' = running \o queue
    BY <2>1, <2>4
  <2> QED BY <2>1, <2>3, <2>5
<1>3. ASSUME LoopRun PROVE MailInv' /\ Mapped
  <2>1. /\ lpc = "run" /\ running # <<>> /\ executed' = Append(executed, Head(running))
        /\ running' = Tail(running) /\ UNCHANGED <<queue, lpc, fresh, ppc, ptask>>
    BY <1>3 DEF LoopRun, posterVars
  <2>2. Head(running) \in Tasks /\ Holds(running, Head(running)) /\ \A u : Holds(Tail(running), u) => Holds(running, u)
    BY <1>0, <2>1, HoldsPopped
  <2>3. \A u : Holds(Append(executed, Head(running)), u) => Holds(executed, u) \/ u = Head(running)
    BY <1>0, <2>2, HoldsAppended
  <2>4. \A u : Holds(running', u) => Holds(running, u)
    BY <2>1, <2>2 DEF Holds
  <2>5. \A u : Holds(executed', u) => Holds(executed, u) \/ u = Head(running)
    BY <2>1, <2>3 DEF Holds
  <2>6. \A u : Absent(u) => Absent(u)'
    <3>1. \A u : Holds(queue', u) => Holds(queue, u)
      BY <2>1 DEF Holds
    <3> QED BY <2>2, <2>4, <2>5, <3>1 DEF Absent, Holds
  <2>7. MailInv'
    BY <2>1, <2>6 DEF MailInv, SwapsOut, FreshAbsent, PushedAbsent, PushedOnce, Pushes
  <2>8. /\ running \o queue # <<>> /\ Head(running \o queue) = Head(running)
        /\ Tail(running \o queue) = Tail(running) \o queue
    BY <1>0, <2>1, JoinedPopped
  <2>9. Box!RunFirst
    BY <2>1, <2>8 DEF Box!RunFirst
  <2> QED BY <2>7, <2>9 DEF Box!Next
<1>4. ASSUME LoopRunNow PROVE MailInv' /\ Mapped
  <2>1. PICK t \in fresh : executed' = Append(executed, t) /\ fresh' = fresh \ {t}
    BY <1>4 DEF LoopRunNow
  <2>2. UNCHANGED <<queue, running, lpc, ppc, ptask>>
    BY <1>4 DEF LoopRunNow, threadVars, posterVars
  <2>3. t \in Tasks /\ Absent(t)
    BY <1>0, <2>1 DEF MailInv, FreshAbsent
  <2>4. \A u : Holds(Append(executed, t), u) => Holds(executed, u) \/ u = t
    BY <1>0, <2>3, HoldsAppended
  <2>5. \A u : Absent(u) /\ u # t => Absent(u)'
    <3>1. \A u : Holds(executed', u) => Holds(executed, u) \/ u = t
      BY <2>1, <2>4 DEF Holds
    <3>2. \A u : (Holds(queue', u) => Holds(queue, u)) /\ (Holds(running', u) => Holds(running, u))
      BY <2>2 DEF Holds
    <3> QED BY <3>1, <3>2 DEF Absent, Holds
  <2>6. MailInv'
    BY <2>1, <2>2, <2>5 DEF MailInv, SwapsOut, FreshAbsent, PushedAbsent, PushedOnce, Pushes
  <2>7. ~Holds(running \o queue, t)
    BY <1>0, <2>3, HoldsJoined DEF Absent
  <2>8. Box!RunNow(t)
    BY <2>1, <2>2, <2>3, <2>7 DEF Box!RunNow, Box!Among, Absent, Holds
  <2> QED BY <2>3, <2>6, <2>8 DEF Box!Next
<1> QED BY <1>1, <1>2, <1>3, <1>4 DEF LoopStep, LoopPoll

LEMMA MailPostStep ==
  ASSUME TypeOK, MailInv, NEW p \in Posters, PostBegin(p) \/ PostPush(p) \/ PostWrite(p)
  PROVE  /\ MailInv'
         /\ [Box!Next]_<<running \o queue, executed>>
<1> DEFINE Mapped == [Box!Next]_<<running \o queue, executed>>
<1>0. /\ queue \in Seq(Tasks) /\ running \in Seq(Tasks) /\ executed \in Seq(Tasks)
      /\ fresh \subseteq Tasks /\ ptask \in [Posters -> Tasks \union {NoTask}]
      /\ ppc \in [Posters -> {"idle", "push", "write"}]
      /\ \A q \in Posters : (ppc[q] = "push") <=> (ptask[q] # NoTask)
  BY DEF TypeOK
<1>1. ASSUME PostBegin(p) PROVE MailInv' /\ Mapped
  <2>1. PICK t \in fresh : ptask' = [ptask EXCEPT ![p] = t] /\ fresh' = fresh \ {t}
    BY <1>1 DEF PostBegin
  <2>2. /\ ppc' = [ppc EXCEPT ![p] = "push"]
        /\ UNCHANGED <<queue, running, lpc, executed>>
    BY <1>1 DEF PostBegin, threadVars
  <2>3. \A u : Absent(u) => Absent(u)'
    BY <2>2 DEF Absent, Holds
  <2>4. /\ ptask'[p] = t /\ Absent(t)
        /\ \A q \in Posters : q # p => (Pushes(q)' <=> Pushes(q)) /\ ptask'[q] = ptask[q]
    BY <1>0, <2>1, <2>2 DEF Pushes, MailInv, FreshAbsent
  <2>5. FreshAbsent' /\ SwapsOut'
    BY <2>1, <2>2, <2>3 DEF MailInv, FreshAbsent, SwapsOut
  <2>6. PushedAbsent'
    BY <2>1, <2>3, <2>4 DEF MailInv, PushedAbsent
  <2>7. PushedOnce'
    BY <2>1, <2>4 DEF MailInv, PushedOnce, PushedAbsent
  <2> QED BY <2>2, <2>5, <2>6, <2>7 DEF MailInv
<1>2. ASSUME PostPush(p) PROVE MailInv' /\ Mapped
  <2>1. PICK t \in Tasks : t = ptask[p]
    BY <1>0, <1>2 DEF PostPush
  <2>2. /\ ppc[p] = "push" /\ ppc' = [ppc EXCEPT ![p] = "write"] /\ ptask' = [ptask EXCEPT ![p] = NoTask]
        /\ queue' = Append(queue, t) /\ UNCHANGED <<running, lpc, executed, fresh>>
    BY <1>2, <2>1 DEF PostPush, threadVars
  <2>3. t \notin fresh /\ Absent(t)
    BY <2>1, <2>2 DEF MailInv, PushedAbsent, Pushes
  <2>4. \A u : Holds(Append(queue, t), u) => Holds(queue, u) \/ u = t
    BY <1>0, HoldsAppended
  <2>5. \A u : Absent(u) /\ u # t => Absent(u)'
    <3>1. \A u : Holds(queue', u) => Holds(queue, u) \/ u = t
      BY <2>2, <2>4 DEF Holds
    <3>2. \A u : (Holds(executed', u) => Holds(executed, u)) /\ (Holds(running', u) => Holds(running, u))
      BY <2>2 DEF Holds
    <3> QED BY <3>1, <3>2 DEF Absent, Holds
  <2>6. /\ ~Pushes(p)'
        /\ \A q \in Posters : q # p => (Pushes(q)' <=> Pushes(q)) /\ ptask'[q] = ptask[q]
    BY <1>0, <2>2 DEF Pushes
  <2>7. \A q \in Posters : Pushes(q) /\ q # p => ptask[q] # t
    BY <2>1, <2>2 DEF MailInv, PushedOnce, Pushes
  <2>8. FreshAbsent' /\ SwapsOut'
    BY <2>2, <2>3, <2>5 DEF MailInv, FreshAbsent, SwapsOut
  <2>9. PushedAbsent'
    BY <2>2, <2>5, <2>6, <2>7 DEF MailInv, PushedAbsent
  <2>10. PushedOnce'
    BY <2>6 DEF MailInv, PushedOnce
  <2>11. ~Holds(running \o queue, t)
    BY <1>0, <2>3, HoldsJoined DEF Absent
  <2>12. running \o Append(queue, t) = Append(running \o queue, t)
    <3>1. <<t>> \in Seq(Tasks) /\ running \o queue \in Seq(Tasks)
      BY <1>0, ConcatProperties
    <3>2. Append(queue, t) = queue \o <<t>> /\ Append(running \o queue, t) = (running \o queue) \o <<t>>
      BY <1>0, <3>1, AppendIsConcat
    <3>3. (running \o queue) \o <<t>> = running \o (queue \o <<t>>)
      BY <1>0, <3>1, ConcatAssociative
    <3> QED BY <3>2, <3>3
  <2>13. Box!Post(t)
    BY <2>2, <2>3, <2>11, <2>12 DEF Box!Post, Box!Among, Absent, Holds
  <2> QED BY <2>8, <2>9, <2>10, <2>13 DEF MailInv, Box!Next
<1>3. ASSUME PostWrite(p) PROVE MailInv' /\ Mapped
  <2>1. /\ UNCHANGED <<queue, running, lpc, executed, fresh, ptask>>
        /\ ppc' = [ppc EXCEPT ![p] = "idle"]
    BY <1>3 DEF PostWrite, threadVars
  <2>2. \A q \in Posters : Pushes(q)' => Pushes(q)
    BY <1>0, <2>1 DEF Pushes
  <2>3. lpc # "run" \/ lpc' = "run"
    BY <2>1
  <2>4. MailInv'
    BY <2>1, <2>2, <2>3, QuietStep
  <2> QED BY <2>1, <2>4
<1> QED BY <1>1, <1>2, <1>3

LEMMA MailStep ==
  ASSUME TypeOK, MailInv, [Next]_vars
  PROVE  /\ MailInv'
         /\ [Box!Next]_<<running \o queue, executed>>
<1> DEFINE Mapped == [Box!Next]_<<running \o queue, executed>>
<1>1. ASSUME UNCHANGED <<queue, threadVars, executed, posterVars, fresh>> PROVE MailInv' /\ Mapped
  <2>1. UNCHANGED <<queue, running, lpc, executed, fresh, ppc, ptask>>
    BY <1>1 DEF threadVars, posterVars
  <2>2. MailInv'
    BY <2>1, QuietStep DEF Pushes
  <2> QED BY <2>1, <2>2
<1>2. ASSUME UNCHANGED elVars PROVE MailInv' /\ Mapped
  BY <1>1, <1>2 DEF elVars
<1>3. ASSUME StopQuit \/ StopWrite PROVE MailInv' /\ Mapped
  BY <1>1, <1>3 DEF StopQuit, StopWrite
<1>4. ASSUME Thread \/ ThreadLoopOther PROVE MailInv' /\ Mapped
  BY <1>2, <1>4, MailLoopStep DEF Thread, ThreadMake, ThreadLock, ThreadPublish, ThreadUnlock, ThreadLoop,
     ThreadReturned, ThreadWithdraw, ThreadDestroy, ThreadLoopOther, LoopPollOther
<1>5. ASSUME Owner \/ OwnerDestroy \/ OwnerWakeUnasked PROVE MailInv' /\ Mapped
  BY <1>2, <1>3, <1>5 DEF Owner, OwnerConstruct, OwnerLock, OwnerCheck, OwnerWait, OwnerGet,
     OwnerStop, OwnerWrite, OwnerJoin, OwnerDestroy, OwnerWakeUnasked
<1>6. ASSUME NEW p \in Posters, PosterStart(p) \/ PosterStep(p) PROVE MailInv' /\ Mapped
  BY <1>6, MailPostStep DEF PosterStart, PosterStep
<1>7. ASSUME UNCHANGED vars PROVE MailInv' /\ Mapped
  BY <1>2, <1>7 DEF vars
<1> QED BY <1>4, <1>5, <1>6, <1>7 DEF Next

(* Every step of the loop, its thread, its owner and the posters is a step  *)
(* of the mailbox or leaves it alone: tasks run once, in the order in which *)
(* they were queued, and the loop's own at once (event_loop.cpp:87-115).    *)
THEOREM LoopIsMailbox == Spec => ImplementsMailbox
<1>1. Init => TypeOK /\ MailInv /\ Box!Init
  <2>1. Init => Box!Init
    <3>1. <<>> \o <<>> = <<>>
      BY EmptySeq, ConcatEmptySeq
    <3> QED BY <3>1 DEF Init, ELInit, Box!Init
  <2>2. Init => MailInv
    BY DEF Init, ELInit, MailInv, SwapsOut, FreshAbsent, PushedAbsent, PushedOnce, Absent, Pushes, Holds
  <2> QED BY <2>1, <2>2, LoopTypeInit
<1>2. TypeOK /\ MailInv /\ [Next]_vars => (TypeOK /\ MailInv)'
  BY LoopTypeStep, MailStep
<1>3. TypeOK /\ MailInv /\ [Next]_vars => [Box!Next]_<<running \o queue, executed>>
  BY MailStep
<1> QED BY <1>1, <1>2, <1>3, PTL DEF Spec, ImplementsMailbox, Box!Spec
=============================================================================

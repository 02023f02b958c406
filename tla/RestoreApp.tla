----------------------------- MODULE RestoreApp -----------------------------
(***************************************************************************)
(* The application from end to end: the page, the restore server and the   *)
(* Python service.  A call of restoreImage is a request of the server; its *)
(* steps are those of both.                                                *)
(***************************************************************************)
EXTENDS Page, RestoreServer

CONSTANT EmptyPictures   \* image files without a byte

ASSUME AppAssumption == Requests = Calls /\ EmptyPictures \subseteq Pictures

vars == <<pageVars, serverVars>>

Init == PageInit /\ ServerInit

UserStep == User /\ UNCHANGED serverVars

(* fetch sends the request on a connection of the browser, *)
Send(n) == /\ FileRead(n)
           /\ \E c \in Conns : Receive(n, c, calls[n].picture \in EmptyPictures)

(* or the file cannot be read, or no connection can be made. *)
CannotSend(n) == calls[n].at = "reading" /\ Fail(n) /\ UNCHANGED serverVars

(* The head of the answer, which the page looks at, *)
HeadArrives(n, c) ==
  /\ using[c] = n /\ wire[c] # <<>>
  /\ Answered(n, Head(wire[c]).status = 200)
  /\ UNCHANGED serverVars

(* and its body. *)
BodyArrives(n, c) ==
  /\ using[c] = n
  /\ \/ calls[n].at = "head" /\ Complete(n)
     \/ calls[n].at = "error" /\ Fail(n)
  /\ Deliver(c)

(* fetch, or the reading of the body, throws. *)
CutOff(n, c) == using[c] = n /\ calls[n].at # "reading" /\ Fail(n) /\ GiveUp(c)

CallStep(n) == \/ Send(n) \/ CannotSend(n)
               \/ \E c \in Conns : HeadArrives(n, c) \/ BodyArrives(n, c) \/ CutOff(n, c)

Next == \/ UserStep
        \/ \E n \in Calls : CallStep(n)
        \/ ServerSteps /\ UNCHANGED pageVars

(* The browser and the network go on with what they can go on with, the     *)
(* workers run, timers expire and time passes.  Nothing is assumed of the   *)
(* user, of crashes and of the service, which may take for ever.            *)
Fairness ==
  /\ \A n \in Calls : WF_vars(CallStep(n))
  /\ \A w \in WorkerIds : WF_vars(WorkerStep(w) /\ UNCHANGED pageVars)
  /\ \A c \in Conns : WF_vars(Expire(c) /\ UNCHANGED pageVars)
  /\ WF_vars(Tick /\ UNCHANGED pageVars)

Spec == Init /\ [][Next]_vars /\ Fairness

-----------------------------------------------------------------------------
TypeOK == PageTypeOK /\ ServerTypeOK

(* Every call of restoreImage ends, and with it the busy panel, however     *)
(* slow, absent or broken the service is (app.js:231-280, server.cpp:221).  *)
RestoreEnds == \A n \in Calls : InFlight(n) ~> calls[n].at = "done"
=============================================================================

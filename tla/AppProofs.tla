------------------------------ MODULE AppProofs ------------------------------
(***************************************************************************)
(* What TLAPS proves of Page, with any server and any number of calls and  *)
(* pictures; of the application, RestoreApp, which implements it, for      *)
(* every number of calls, connections, workers and crashes; and of the     *)
(* answers of the restore server: they come before the deadline of the     *)
(* connection, and to the request they are for.                            *)
(***************************************************************************)
EXTENDS RestoreApp, SequenceTheorems, TLAPS

-----------------------------------------------------------------------------
(* Type correctness. *)

Blob == [of : Pictures, restored : BOOLEAN]
Call == [at : Stages, picture : Pictures \union {Nothing}, current : BOOLEAN]

LEMMA MadeType ==
  ASSUME blobs \in Seq(Blob), NEW p \in Pictures
  PROVE  \A b \in {Made(p, FALSE), Made(p, TRUE)} : b \in Seq(Blob) /\ Len(b) = Len(blobs) + 1
<1>1. [of |-> p, restored |-> FALSE] \in Blob /\ [of |-> p, restored |-> TRUE] \in Blob
  BY DEF Blob
<1> QED BY <1>1, AppendProperties DEF Made

LEMMA PanelType ==
  \A what \in {"placeholder", "busy"} :
    Panel(what) \in [shows : {"placeholder", "busy", "comparison"}, before : Nat, after : Nat]
BY DEF Panel, None

(* A call that is in flight has a picture. *)
CallsSound == \A n \in Calls : InFlight(n) => calls[n].picture \in Pictures

PageType == PageTypeOK /\ CallsSound

LEMMA PageTypeInit == PageInit => PageType
<1> SUFFICES ASSUME PageInit PROVE PageType
  OBVIOUS
<1>1. CallsSound
  BY DEF PageInit, CallsSound, InFlight
<1>2. calls \in [Calls -> Call]
  BY DEF PageInit, Call, Stages
<1>3. blobs \in Seq(Blob) /\ live \subseteq 1..Len(blobs)
  BY DEF PageInit
<1> QED BY <1>1, <1>2, <1>3, PanelType DEF PageInit, PageType, PageTypeOK, None, Blob, Call

LEMMA UrlsGrow ==
  ASSUME NEW n \in Nat, NEW S \in SUBSET (1..n), NEW T
  PROVE  (S \ T) \union {n + 1} \subseteq 1..(n + 1)
<1> SUFFICES ASSUME NEW x \in (S \ T) \union {n + 1} PROVE x \in 1..(n + 1)
  OBVIOUS
<1>1. CASE x \in S \ T
  <2>1. x \in 1..n
    BY <1>1
  <2> QED BY <2>1
<1> QED BY <1>1

LEMMA CallsOver ==
  ASSUME calls \in [Calls -> Call], CallsSound, NEW n \in Calls, calls' = Over(n)
  PROVE  calls' \in [Calls -> Call] /\ CallsSound'
BY DEF Over, Call, CallsSound, InFlight, Stages

LEMMA CallsMove ==
  ASSUME calls \in [Calls -> Call], CallsSound, NEW n \in Calls, InFlight(n),
         NEW to \in {"sent", "head", "error"}, calls' = Move(n, to)
  PROVE  calls' \in [Calls -> Call] /\ CallsSound'
BY DEF Move, Call, CallsSound, InFlight, Stages

LEMMA CallsOutdated ==
  ASSUME calls \in [Calls -> Call], CallsSound, calls' = Outdated
  PROVE  calls' \in [Calls -> Call] /\ CallsSound'
<1>1. ASSUME NEW n \in Calls
      PROVE  /\ calls'[n] = [calls[n] EXCEPT !.current = FALSE]
             /\ calls'[n] \in Call /\ calls'[n].at = calls[n].at
             /\ calls'[n].picture = calls[n].picture
  <2>1. calls'[n] = [calls[n] EXCEPT !.current = FALSE] /\ calls[n] \in Call
    BY DEF Outdated
  <2>2. \A c \in Call : /\ [c EXCEPT !.current = FALSE] \in Call
                        /\ [c EXCEPT !.current = FALSE].at = c.at
                        /\ [c EXCEPT !.current = FALSE].picture = c.picture
    BY DEF Call
  <2> QED BY <2>1, <2>2
<1>2. calls' \in [Calls -> Call]
  BY <1>1 DEF Outdated
<1>3. CallsSound'
  BY <1>1 DEF CallsSound, InFlight
<1> QED BY <1>2, <1>3

LEMMA PageTypeStep ==
  ASSUME PageType, [PageNext]_pageVars
  PROVE  PageType'
<1>0. /\ selectedFile \in Pictures \union {Nothing}
      /\ inputUrl \in Nat /\ resultUrl \in Nat /\ downloadLink \in Nat
      /\ blobs \in Seq(Blob) /\ live \subseteq 1..Len(blobs)
      /\ resultBody \in [shows : {"placeholder", "busy", "comparison"}, before : Nat, after : Nat]
      /\ restoreEnabled \in BOOLEAN /\ calls \in [Calls -> Call] /\ CallsSound
  BY DEF PageType, PageTypeOK, Blob, Call
<1>n. Len(blobs) \in Nat /\ NewUrl \in Nat /\ NewUrl = Len(blobs) + 1
  BY <1>0 DEF NewUrl
<1>e. None \in Nat
  BY DEF None
<1> DEFINE Typed == 
      /\ selectedFile' \in Pictures \union {Nothing}
      /\ inputUrl' \in Nat /\ resultUrl' \in Nat /\ downloadLink' \in Nat
      /\ blobs' \in Seq(Blob) /\ live' \subseteq 1..Len(blobs')
      /\ resultBody' \in [shows : {"placeholder", "busy", "comparison"}, before : Nat, after : Nat]
      /\ restoreEnabled' \in BOOLEAN /\ calls' \in [Calls -> Call] /\ CallsSound'
<1>t. Typed => PageType'
  BY DEF PageType, PageTypeOK, Blob, Call
<1>m. ASSUME NEW p \in Pictures, NEW r \in {Made(p, FALSE), Made(p, TRUE)}, blobs' = r,
             NEW T, live' = (live \ T) \union {NewUrl}
      PROVE  blobs' \in Seq(Blob) /\ live' \subseteq 1..Len(blobs')
  BY <1>0, <1>n, <1>m, MadeType, UrlsGrow
<1>1. ASSUME NEW p \in Pictures, Choose(p) PROVE Typed
  <2>1. /\ blobs' = Made(p, FALSE) /\ live' = (live \ {inputUrl, resultUrl}) \union {NewUrl}
        /\ calls' = Outdated
    BY <1>1 DEF Choose
  <2>2. calls' \in [Calls -> Call] /\ CallsSound'
    BY <1>0, <2>1, CallsOutdated
  <2>3. blobs' \in Seq(Blob) /\ live' \subseteq 1..Len(blobs')
    BY <1>m, <2>1
  <2> QED BY <1>0, <1>n, <1>e, <1>1, <2>2, <2>3, PanelType DEF Choose
<1>2. ASSUME ClearAll PROVE Typed
  <2>2. calls' \in [Calls -> Call] /\ CallsSound'
    BY <1>0, <1>2, CallsOutdated DEF ClearAll
  <2> QED BY <1>0, <1>e, <1>2, <2>2, PanelType DEF ClearAll
<1>3. ASSUME NEW n \in Calls, Click(n) PROVE Typed
  <2>1. selectedFile \in Pictures
    BY <1>0, <1>3 DEF Click
  <2>2. [at |-> "reading", picture |-> selectedFile, current |-> TRUE] \in Call
    BY <2>1 DEF Call, Stages
  <2>3. calls' \in [Calls -> Call]
    BY <1>0, <1>3, <2>2 DEF Click
  <2>4. CallsSound'
    BY <1>0, <1>3, <2>1 DEF Click, CallsSound, InFlight
  <2> QED BY <1>0, <1>e, <1>3, <2>3, <2>4, PanelType DEF Click
<1>4. ASSUME NEW n \in Calls, FileRead(n) PROVE Typed
  <2>1. calls' \in [Calls -> Call] /\ CallsSound'
    BY <1>0, <1>4, CallsMove DEF FileRead, InFlight
  <2> QED BY <1>0, <1>4, <2>1 DEF FileRead
<1>5. ASSUME NEW n \in Calls, NEW ok \in BOOLEAN, Answered(n, ok) PROVE Typed
  <2>1. calls' \in [Calls -> Call] /\ CallsSound'
    BY <1>0, <1>5, CallsMove DEF Answered, InFlight
  <2> QED BY <1>0, <1>5, <2>1 DEF Answered
<1>6. ASSUME NEW n \in Calls, Complete(n) PROVE Typed
  <2>1. calls[n].picture \in Pictures
    BY <1>0, <1>6 DEF Complete, CallsSound, InFlight
  <2>2. /\ blobs' = Made(calls[n].picture, TRUE) /\ live' = (live \ {resultUrl}) \union {NewUrl}
        /\ calls' = Over(n)
    BY <1>6 DEF Complete
  <2>3. blobs' \in Seq(Blob) /\ live' \subseteq 1..Len(blobs')
    BY <1>m, <2>1, <2>2
  <2>4. calls' \in [Calls -> Call] /\ CallsSound'
    BY <1>0, <2>2, CallsOver
  <2>5. resultBody' \in [shows : {"placeholder", "busy", "comparison"}, before : Nat, after : Nat]
    BY <1>0, <1>n, <1>6 DEF Complete
  <2> QED BY <1>0, <1>n, <1>6, <2>3, <2>4, <2>5 DEF Complete
<1>7. ASSUME NEW n \in Calls, Fail(n) PROVE Typed
  <2>1. calls' \in [Calls -> Call] /\ CallsSound'
    BY <1>0, <1>7, CallsOver DEF Fail
  <2> QED BY <1>0, <1>7, <2>1, PanelType DEF Fail
<1>8. ASSUME UNCHANGED pageVars PROVE Typed
  BY <1>0, <1>8 DEF pageVars, CallsSound, InFlight
<1> QED BY <1>t, <1>1, <1>2, <1>3, <1>4, <1>5, <1>6, <1>7, <1>8 DEF PageNext, User

(* Every variable of the page keeps its type, whatever the user does and    *)
(* the server answers.                                                      *)
THEOREM PageTypeCorrect == PageSpec => []PageTypeOK
<1>1. PageType => PageTypeOK
  BY DEF PageType
<1> QED BY <1>1, PageTypeInit, PageTypeStep, PTL DEF PageSpec

-----------------------------------------------------------------------------
(* Object URLs: the panel and the link show what the page keeps. *)

UrlInv ==
  /\ UrlsExact
  /\ inputUrl = resultUrl => inputUrl = None
  /\ downloadLink \in {None, resultUrl}
  /\ IF resultBody.shows = "comparison"
       THEN resultBody.before = inputUrl /\ resultBody.after = resultUrl
       ELSE resultBody.before = None /\ resultBody.after = None

LEMMA UrlInvInit == PageInit => UrlInv
BY DEF PageInit, UrlInv, UrlsExact, Panel, None

LEMMA UrlInvStep ==
  ASSUME PageType, UrlInv, [PageNext]_pageVars
  PROVE  UrlInv'
<1> USE DEF UrlInv, UrlsExact, Panel, None
<1>0. /\ Len(blobs) \in Nat /\ NewUrl = Len(blobs) + 1
      /\ inputUrl \in Nat /\ resultUrl \in Nat /\ live \subseteq 1..Len(blobs)
  BY DEF NewUrl, PageType, PageTypeOK
<1>a. inputUrl < NewUrl /\ resultUrl < NewUrl /\ NewUrl # 0
  BY <1>0
<1>1. ASSUME NEW p \in Pictures, Choose(p) PROVE UrlInv'
  BY <1>a, <1>1 DEF Choose
<1>2. CASE ClearAll
  BY <1>2 DEF ClearAll
<1>3. ASSUME NEW n \in Calls, Click(n) PROVE UrlInv'
  BY <1>3 DEF Click
<1>4. ASSUME NEW n \in Calls, FileRead(n) PROVE UrlInv'
  BY <1>4 DEF FileRead
<1>5. ASSUME NEW n \in Calls, NEW ok \in BOOLEAN, Answered(n, ok) PROVE UrlInv'
  BY <1>5 DEF Answered
<1>6. ASSUME NEW n \in Calls, Complete(n) PROVE UrlInv'
  BY <1>0, <1>a, <1>6 DEF Complete
<1>7. ASSUME NEW n \in Calls, Fail(n) PROVE UrlInv'
  BY <1>7 DEF Fail
<1>8. CASE UNCHANGED pageVars
  BY <1>8 DEF pageVars
<1> QED BY <1>1, <1>2, <1>3, <1>4, <1>5, <1>6, <1>7, <1>8 DEF PageNext, User

LEMMA UrlInvSuffices == UrlInv => ObjectUrlsSound
BY DEF UrlInv, ObjectUrlsSound, UrlsExact, NothingRevokedShown

(* No object URL leaks and none that was revoked is shown, for any number   *)
(* of pictures, restorations and late answers (app.js:182-220, 262-268).    *)
THEOREM UrlsSound == PageSpec => []ObjectUrlsSound
<1>1. PageInit => PageType /\ UrlInv
  BY PageTypeInit, UrlInvInit
<1>2. PageType /\ UrlInv /\ [PageNext]_pageVars => (PageType /\ UrlInv)'
  BY PageTypeStep, UrlInvStep
<1> QED BY <1>1, <1>2, UrlInvSuffices, PTL DEF PageSpec

-----------------------------------------------------------------------------
(* The busy panel. *)

LEMMA BusyStep ==
  ASSUME PageType, BusyHasRequest, [PageNext]_pageVars
  PROVE  BusyHasRequest'
<1> USE DEF BusyHasRequest, InFlight, Panel, PageType, PageTypeOK
<1>1. ASSUME NEW p \in Pictures, Choose(p) PROVE BusyHasRequest'
  BY <1>1 DEF Choose
<1>2. CASE ClearAll
  BY <1>2 DEF ClearAll
<1>3. ASSUME NEW n \in Calls, Click(n) PROVE BusyHasRequest'
  <2>1. calls'[n] = [at |-> "reading", picture |-> selectedFile, current |-> TRUE]
    BY <1>3 DEF Click
  <2> QED BY <1>3, <2>1 DEF Click
<1>4. ASSUME NEW n \in Calls, calls[n].at \in {"reading", "sent"},
             NEW to \in {"sent", "head", "error"}, calls' = Move(n, to),
             UNCHANGED <<resultBody, selectedFile>>
      PROVE  BusyHasRequest'
  BY <1>4 DEF Move
<1>5. ASSUME NEW n \in Calls, FileRead(n) PROVE BusyHasRequest'
  BY <1>4, <1>5 DEF FileRead
<1>6. ASSUME NEW n \in Calls, NEW ok \in BOOLEAN, Answered(n, ok) PROVE BusyHasRequest'
  BY <1>4, <1>6 DEF Answered
<1>7. ASSUME NEW n \in Calls, Complete(n) PROVE BusyHasRequest'
  BY <1>7 DEF Complete
<1>8. ASSUME NEW n \in Calls, Fail(n) PROVE BusyHasRequest'
  BY <1>8 DEF Fail
<1>9. CASE UNCHANGED pageVars
  BY <1>9 DEF pageVars
<1> QED BY <1>1, <1>2, <1>3, <1>5, <1>6, <1>7, <1>8, <1>9 DEF PageNext, User

(* A busy panel has a request in flight for the picture that is chosen, in  *)
(* whatever order calls of restoreImage end (app.js:235-238, 270-279).      *)
THEOREM BusyEnds == PageSpec => []BusyHasRequest
<1>1. PageInit => PageType /\ BusyHasRequest
  BY PageTypeInit DEF PageInit, BusyHasRequest, Panel
<1>2. PageType /\ BusyHasRequest /\ [PageNext]_pageVars => (PageType /\ BusyHasRequest)'
  BY PageTypeStep, BusyStep
<1> QED BY <1>1, <1>2, PTL DEF PageSpec

-----------------------------------------------------------------------------
(* The page of the application is the page with any server. *)

LEMMA PageStep == Next => [PageNext]_pageVars
<1>1. UserStep => User
  BY DEF UserStep
<1>2. ASSUME NEW n \in Calls, CallStep(n)
      PROVE  FileRead(n) \/ Complete(n) \/ Fail(n) \/ \E ok \in BOOLEAN : Answered(n, ok)
  <2>1. \A c \in Conns : HeadArrives(n, c) => \E ok \in BOOLEAN : Answered(n, ok)
    <3> SUFFICES ASSUME NEW c \in Conns, HeadArrives(n, c)
                 PROVE  Answered(n, TRUE) \/ Answered(n, FALSE)
      OBVIOUS
    <3>1. CASE Head(wire[c]).status = 200
      BY <3>1 DEF HeadArrives, Answered
    <3>2. CASE Head(wire[c]).status # 200
      BY <3>2 DEF HeadArrives, Answered
    <3> QED BY <3>1, <3>2
  <2> QED BY <1>2, <2>1 DEF CallStep, Send, CannotSend, BodyArrives, CutOff
<1> QED BY <1>1, <1>2 DEF Next, PageNext

(* The application implements the page: what is proved of the page with any *)
(* server holds of it (app.js:182-280).                                     *)
THEOREM AppImplementsPage == Spec => PageSpec
<1>1. [Next]_vars => [PageNext]_pageVars
  BY PageStep DEF vars, pageVars
<1> QED BY <1>1, PTL DEF Spec, PageSpec, Init

(* No object URL leaks and none that was revoked is shown                   *)
(* (app.js:182-220, 262-268).                                               *)
THEOREM AppUrlsSound == Spec => []ObjectUrlsSound
BY AppImplementsPage, UrlsSound, PTL

(* A busy panel has a request in flight for the picture that is chosen      *)
(* (app.js:235-238, 270-279).                                               *)
THEOREM AppBusyEnds == Spec => []BusyHasRequest
BY AppImplementsPage, BusyEnds, PTL

-----------------------------------------------------------------------------
(* Types of the server. *)

Answer == [request : Requests, status : Statuses]
JobSet == [request : Requests, conn : Conns, empty : BOOLEAN]

(* A worker that is not idle has a job, and one that responds a status. *)
Working ==
  /\ \A w \in WorkerIds : /\ stage[w] # "idle" => queue[w] # <<>>
                          /\ stage[w] = "respond" => result[w] \in Statuses
  /\ \A r \in Requests : service[r] = "finished" => upstream[r] \in Statuses

ServerType == ServerTypeOK /\ Working

LEMMA ServerTypeInit == ServerInit => ServerType
<1> SUFFICES ASSUME ServerInit PROVE ServerType
  OBVIOUS
<1>1. /\ wire \in [Conns -> Seq(Answer)] /\ queue \in [WorkerIds -> Seq(JobSet)]
      /\ Working
  BY DEF ServerInit, Working
<1>2. age \in [Conns -> 0..Deadline] /\ spent \in [WorkerIds -> 0..CurlTimeout]
      /\ began \in [WorkerIds -> 0..Deadline] /\ crashes \in 0..MaxCrashes
  BY ServerAssumption DEF ServerInit
<1> QED BY <1>1, <1>2 DEF ServerInit, ServerType, ServerTypeOK, Answer, JobSet

LEMMA WorkerOfType == \A c \in Conns : WorkerOf(c) \in WorkerIds
BY ServerAssumption DEF Conns, WorkerOf, WorkerIds

LEMMA JobType ==
  ASSUME ServerType, NEW w \in WorkerIds, queue[w] # <<>>
  PROVE  /\ Job(w) \in JobSet /\ Job(w).request \in Requests /\ Job(w).conn \in Conns
         /\ Tail(queue[w]) \in Seq(JobSet)
<1>1. queue[w] \in Seq(JobSet)
  BY DEF ServerType, ServerTypeOK, JobSet
<1>2. Head(queue[w]) \in JobSet /\ Tail(queue[w]) \in Seq(JobSet)
  BY <1>1, HeadTailProperties
<1> QED BY <1>2 DEF Job, JobSet

LEMMA SentType ==
  ASSUME ServerType, NEW c \in Conns, NEW r \in Requests, NEW s \in Statuses
  PROVE  [wire EXCEPT ![c] = Append(@, [request |-> r, status |-> s])] \in [Conns -> Seq(Answer)]
<1>1. wire[c] \in Seq(Answer) /\ wire \in [Conns -> Seq(Answer)]
  BY DEF ServerType, ServerTypeOK, Answer
<1>2. [request |-> r, status |-> s] \in Answer
  BY DEF Answer
<1>3. Append(wire[c], [request |-> r, status |-> s]) \in Seq(Answer)
  BY <1>1, <1>2, AppendProperties
<1> QED BY <1>1, <1>3

(* The steps of the server: the requests and answers that the page's calls  *)
(* make it take, and its own.                                               *)
ServerNext ==
  \/ \E r \in Requests, c \in Conns, e \in BOOLEAN : Receive(r, c, e)
  \/ \E c \in Conns : Deliver(c) \/ GiveUp(c)
  \/ ServerSteps

LEMMA ServerStep == [Next]_vars => [ServerNext]_serverVars
<1>1. ASSUME NEW n \in Calls, CallStep(n) PROVE [ServerNext]_serverVars
  <2>1. ASSUME Send(n) PROVE ServerNext
    <3>1. PICK c \in Conns : Receive(n, c, calls[n].picture \in EmptyPictures)
      BY <2>1 DEF Send
    <3>2. n \in Requests
      BY AppAssumption
    <3>3. (calls[n].picture \in EmptyPictures) \in BOOLEAN
      OBVIOUS
    <3> QED BY <3>1, <3>2, <3>3 DEF ServerNext
  <2>2. ASSUME NEW c \in Conns, HeadArrives(n, c) \/ BodyArrives(n, c) \/ CutOff(n, c)
        PROVE  [ServerNext]_serverVars
    BY <2>2 DEF HeadArrives, BodyArrives, CutOff, ServerNext
  <2> QED BY <1>1, <2>1, <2>2 DEF CallStep, CannotSend
<1> QED BY <1>1 DEF Next, UserStep, ServerNext, vars

LEMMA ServerTypeStep ==
  ASSUME ServerType, [ServerNext]_serverVars
  PROVE  ServerType'
<1>0. /\ conns \in [Conns -> {"unused", "open", "closed"}] /\ age \in [Conns -> 0..Deadline]
      /\ using \in [Conns -> Requests \union {NoRequest}] /\ wire \in [Conns -> Seq(Answer)]
      /\ queue \in [WorkerIds -> Seq(JobSet)]
      /\ stage \in [WorkerIds -> {"idle", "connect", "exchange", "respond"}]
      /\ spent \in [WorkerIds -> 0..CurlTimeout] /\ began \in [WorkerIds -> 0..Deadline]
      /\ result \in [WorkerIds -> Statuses \union {0}]
      /\ service \in [Requests -> {"none", "running", "finished", "lost"}]
      /\ upstream \in [Requests -> Statuses \union {0}]
      /\ up \in BOOLEAN /\ crashes \in 0..MaxCrashes /\ Working
  BY DEF ServerType, ServerTypeOK, Answer, JobSet
<1> DEFINE Typed ==
      /\ conns' \in [Conns -> {"unused", "open", "closed"}] /\ age' \in [Conns -> 0..Deadline]
      /\ using' \in [Conns -> Requests \union {NoRequest}] /\ wire' \in [Conns -> Seq(Answer)]
      /\ queue' \in [WorkerIds -> Seq(JobSet)]
      /\ stage' \in [WorkerIds -> {"idle", "connect", "exchange", "respond"}]
      /\ spent' \in [WorkerIds -> 0..CurlTimeout] /\ began' \in [WorkerIds -> 0..Deadline]
      /\ result' \in [WorkerIds -> Statuses \union {0}]
      /\ service' \in [Requests -> {"none", "running", "finished", "lost"}]
      /\ upstream' \in [Requests -> Statuses \union {0}]
      /\ up' \in BOOLEAN /\ crashes' \in 0..MaxCrashes /\ Working'
<1>t. Typed => ServerType'
  BY DEF ServerType, ServerTypeOK, Answer, JobSet
<1>n. 0 \in 0..Deadline /\ 0 \in 0..CurlTimeout /\ {200, 400, 500, 502} \subseteq Statuses
  BY ServerAssumption DEF Statuses
<1>d. ASSUME NEW w \in WorkerIds, stage[w] # "idle", NEW s \in Statuses, Decide(w, s)
      PROVE  Typed
  BY <1>0, <1>n, <1>d DEF Decide, Working, connVars, serviceVars
<1>1. ASSUME NEW r \in Requests, NEW c \in Conns, NEW e \in BOOLEAN, Receive(r, c, e)
      PROVE  Typed
  <2> DEFINE j == [request |-> r, conn |-> c, empty |-> e]
             w == WorkerOf(c)
  <2>1. w \in WorkerIds /\ j \in JobSet /\ queue[w] \in Seq(JobSet)
    BY <1>0, WorkerOfType DEF JobSet
  <2>2. queue' = [queue EXCEPT ![w] = Append(@, j)]
    BY <1>1 DEF Receive
  <2> HIDE DEF w, j
  <2>3. Append(queue[w], j) \in Seq(JobSet) /\ Append(queue[w], j) # <<>>
    BY <2>1, AppendProperties
  <2>4. queue' \in [WorkerIds -> Seq(JobSet)] /\ Working'
    <3>1. queue' \in [WorkerIds -> Seq(JobSet)]
      BY <1>0, <2>1, <2>2, <2>3
    <3>2. UNCHANGED <<stage, result, service, upstream>>
      BY <1>1 DEF Receive, serviceVars
    <3>3. \A v \in WorkerIds : queue[v] # <<>> => queue'[v] # <<>>
      BY <1>0, <2>1, <2>2, <2>3
    <3> QED BY <1>0, <3>1, <3>2, <3>3 DEF Working
  <2> QED BY <1>0, <1>1, <2>4 DEF Receive, serviceVars
<1>2. ASSUME NEW c \in Conns, Deliver(c) PROVE Typed
  <2>1. Tail(wire[c]) \in Seq(Answer)
    BY <1>0, <1>2, HeadTailProperties DEF Deliver
  <2> QED BY <1>0, <1>2, <2>1 DEF Deliver, workerVars, serviceVars, Working
<1>3. ASSUME NEW c \in Conns, GiveUp(c) PROVE Typed
  BY <1>0, <1>3 DEF GiveUp, workerVars, serviceVars, Working
<1>4. ASSUME NEW c \in Conns, CloseConn(c) PROVE Typed
  BY <1>0, <1>n, <1>4 DEF CloseConn, workerVars, serviceVars, Working
<1>5. ASSUME NEW w \in WorkerIds, HandlerStart(w) PROVE Typed
  <2>1. Job(w).conn \in Conns
    BY <1>5, JobType DEF HandlerStart
  <2>2. began' \in [WorkerIds -> 0..Deadline] /\ queue[w] # <<>>
    BY <1>0, <1>5, <2>1 DEF HandlerStart
  <2>3. CASE Job(w).empty
    <3>1. result' = [result EXCEPT ![w] = 400] /\ stage' = [stage EXCEPT ![w] = "respond"]
      BY <1>5, <2>3 DEF HandlerStart
    <3> QED BY <1>0, <1>n, <1>5, <2>2, <3>1 DEF HandlerStart, connVars, serviceVars, Working
  <2>4. CASE ~Job(w).empty
    <3>1. result' = result /\ stage' = [stage EXCEPT ![w] = "connect"]
      BY <1>5, <2>4 DEF HandlerStart
    <3> QED BY <1>0, <1>n, <1>5, <2>2, <3>1 DEF HandlerStart, connVars, serviceVars, Working
  <2> QED BY <2>3, <2>4
<1>6. ASSUME NEW w \in WorkerIds, CurlFails(w) PROVE Typed
  BY <1>6, <1>d, <1>n DEF CurlFails
<1>7. ASSUME NEW w \in WorkerIds, CurlConnects(w) PROVE Typed
  <2>1. Job(w).request \in Requests
    BY <1>7, JobType DEF CurlConnects, ServerType, Working
  <2> QED BY <1>0, <1>7, <2>1 DEF CurlConnects, connVars, Working
<1>8. ASSUME NEW w \in WorkerIds, CurlReturns(w) PROVE Typed
  <2>1. Job(w).request \in Requests
    BY <1>8, JobType DEF CurlReturns, ServerType, Working
  <2>2. upstream[Job(w).request] \in Statuses
    BY <1>0, <1>8, <2>1 DEF CurlReturns, Working
  <2> QED BY <1>8, <1>d, <2>2 DEF CurlReturns
<1>9. ASSUME NEW w \in WorkerIds, CurlBroken(w) \/ CurlTimesOut(w) PROVE Typed
  BY <1>9, <1>d, <1>n DEF CurlBroken, CurlTimesOut
<1>10. ASSUME NEW w \in WorkerIds, Respond(w) PROVE Typed
  <2>1. queue[w] # <<>>
    BY <1>10 DEF Respond, ServerType, Working
  <2>2. Job(w).request \in Requests /\ Job(w).conn \in Conns /\ Tail(queue[w]) \in Seq(JobSet)
    BY <2>1, JobType
  <2>5. result[w] \in Statuses
    BY <1>0, <1>10 DEF Respond, Working
  <2>3. wire' \in [Conns -> Seq(Answer)]
    BY <1>0, <1>10, <2>5, <2>2, SentType DEF Respond
  <2>4. queue' \in [WorkerIds -> Seq(JobSet)] /\ Working'
    <3>1. queue' = [queue EXCEPT ![w] = Tail(@)] /\ stage' = [stage EXCEPT ![w] = "idle"]
          /\ result' = [result EXCEPT ![w] = 0] /\ UNCHANGED <<service, upstream>>
      BY <1>10 DEF Respond, serviceVars
    <3>2. queue' \in [WorkerIds -> Seq(JobSet)]
      BY <1>0, <2>2, <3>1
    <3> QED BY <1>0, <3>1, <3>2 DEF Working
  <2>6. /\ stage' = [stage EXCEPT ![w] = "idle"]
        /\ began' = [began EXCEPT ![w] = 0] /\ result' = [result EXCEPT ![w] = 0]
        /\ UNCHANGED <<conns, age, using, spent, serviceVars>>
    BY <1>10 DEF Respond
  <2> QED BY <1>0, <1>n, <2>3, <2>4, <2>6 DEF serviceVars
<1>11. ASSUME NEW r \in Requests, NEW s \in {200, 500}, Finish(r, s) PROVE Typed
  BY <1>0, <1>n, <1>11 DEF Finish, connVars, workerVars, Working
<1>12. ASSUME ServiceCrash PROVE Typed
  <2>1. crashes' \in 0..MaxCrashes
    BY <1>0, <1>12, ServerAssumption DEF ServiceCrash
  <2> QED BY <1>0, <1>12, <2>1 DEF ServiceCrash, connVars, workerVars, Working
<1>13. ASSUME ServiceRestart PROVE Typed
  BY <1>0, <1>13 DEF ServiceRestart, connVars, workerVars, Working
<1>14. ASSUME ServerCrash PROVE Typed
  <2>1. crashes' \in 0..MaxCrashes
    BY <1>0, <1>14, ServerAssumption DEF ServerCrash
  <2>2. queue' \in [WorkerIds -> Seq(JobSet)]
    BY <1>14 DEF ServerCrash
  <2>3. Working'
    BY <1>0, <1>14 DEF ServerCrash, Working
  <2> QED BY <1>0, <1>n, <1>14, <2>1, <2>2, <2>3 DEF ServerCrash
<1>15. ASSUME Tick PROVE Typed
  <2>1. age' \in [Conns -> 0..Deadline]
    BY <1>0, <1>15, ServerAssumption DEF Tick
  <2>2. spent' \in [WorkerIds -> 0..CurlTimeout]
    <3>1. \A w \in WorkerIds : stage[w] = "exchange" => spent[w] < CurlTimeout
      BY <1>15 DEF Tick
    <3>2. spent' = [w \in WorkerIds |-> IF stage[w] = "exchange" THEN spent[w] + 1 ELSE spent[w]]
      BY <1>15 DEF Tick
    <3> QED BY <1>0, <3>1, <3>2, ServerAssumption
  <2> QED BY <1>0, <1>15, <2>1, <2>2 DEF Tick, serviceVars, Working
<1>16. ASSUME UNCHANGED serverVars PROVE Typed
  BY <1>0, <1>16 DEF serverVars, connVars, workerVars, serviceVars, Working
<1> QED BY <1>t, <1>1, <1>2, <1>3, <1>4, <1>5, <1>6, <1>7, <1>8, <1>9, <1>10, <1>11, <1>12,
           <1>13, <1>14, <1>15, <1>16
        DEF ServerNext, ServerSteps, WorkerStep, ServiceStep, Expire

(* Every variable of the application keeps its type. *)
THEOREM AppTypeCorrect == Spec => []TypeOK
<1>1. Init => ServerType
  BY ServerTypeInit DEF Init
<1>2. ServerType /\ [Next]_vars => ServerType'
  BY ServerStep, ServerTypeStep
<1>3. ServerType => ServerTypeOK
  BY DEF ServerType
<1>4. Spec => []PageTypeOK
  BY AppImplementsPage, PageTypeCorrect, PTL
<1> QED BY <1>1, <1>2, <1>3, <1>4, PTL DEF Spec, TypeOK

-----------------------------------------------------------------------------
(* The time a handler takes bounds what its connection has aged. *)

TimeInv ==
  \A w \in WorkerIds :
    /\ stage[w] # "exchange" => spent[w] = 0
    /\ stage[w] = "connect" => age[Job(w).conn] <= began[w]
    /\ stage[w] = "exchange" => age[Job(w).conn] <= began[w] + spent[w]
    /\ stage[w] = "respond" => age[Job(w).conn] <= began[w] + CurlTimeout

LEMMA TimeInitial == ServerInit => TimeInv
BY DEF ServerInit, TimeInv

LEMMA TimeFrame ==
  ASSUME ServerType, TimeInv, UNCHANGED <<stage, spent, began>>,
         \A w \in WorkerIds : stage[w] # "idle" => Job(w)' = Job(w),
         \A c \in Conns : age'[c] \in Nat /\ age'[c] <= age[c]
  PROVE  TimeInv'
<1>1. \A w \in WorkerIds : stage[w] # "idle" => Job(w).conn \in Conns
  BY JobType DEF ServerType, Working
<1>2. /\ \A c \in Conns : age[c] \in Nat
      /\ \A w \in WorkerIds : began[w] \in Nat /\ spent[w] \in Nat
  BY ServerAssumption DEF ServerType, ServerTypeOK
<1>3. \A w \in WorkerIds : stage[w] # "idle" =>
        Job(w)'.conn \in Conns /\ age'[Job(w)'.conn] <= age[Job(w).conn]
  BY <1>1
<1> SUFFICES ASSUME NEW w \in WorkerIds
             PROVE  (/\ stage[w] # "exchange" => spent[w] = 0
                     /\ stage[w] = "connect" => age[Job(w).conn] <= began[w]
                     /\ stage[w] = "exchange" => age[Job(w).conn] <= began[w] + spent[w]
                     /\ stage[w] = "respond" => age[Job(w).conn] <= began[w] + CurlTimeout)'
  BY DEF TimeInv
<1> QED BY <1>1, <1>2, <1>3, ServerAssumption DEF TimeInv

LEMMA TimeStep ==
  ASSUME ServerType, TimeInv, [ServerNext]_serverVars
  PROVE  TimeInv'
<1>0. /\ stage \in [WorkerIds -> {"idle", "connect", "exchange", "respond"}]
      /\ \A c \in Conns : age[c] \in Nat
      /\ \A w \in WorkerIds : began[w] \in Nat /\ spent[w] \in 0..CurlTimeout
      /\ age \in [Conns -> 0..Deadline] /\ spent \in [WorkerIds -> 0..CurlTimeout]
      /\ began \in [WorkerIds -> 0..Deadline] /\ queue \in [WorkerIds -> Seq(JobSet)]
      /\ CurlTimeout \in Nat
  <2>1. /\ age \in [Conns -> 0..Deadline] /\ spent \in [WorkerIds -> 0..CurlTimeout]
        /\ began \in [WorkerIds -> 0..Deadline] /\ queue \in [WorkerIds -> Seq(JobSet)]
        /\ stage \in [WorkerIds -> {"idle", "connect", "exchange", "respond"}]
    BY DEF ServerType, ServerTypeOK, JobSet
  <2>2. Deadline \in Nat /\ CurlTimeout \in Nat
    BY ServerAssumption
  <2> QED BY <2>1, <2>2
<1>j. \A w \in WorkerIds : queue[w] # <<>> => Job(w).conn \in Conns
  BY JobType
<1>q. \A w \in WorkerIds : stage[w] # "idle" => queue[w] # <<>> /\ Job(w).conn \in Conns
  BY <1>j DEF ServerType, Working
<1>f. ASSUME UNCHANGED <<queue, stage, spent, began>>,
             \A c \in Conns : age'[c] \in Nat /\ age'[c] <= age[c]
      PROVE  TimeInv'
  <2>1. UNCHANGED <<stage, spent, began>> /\ \A w \in WorkerIds : Job(w)' = Job(w)
    BY <1>f DEF Job
  <2>2. \A w \in WorkerIds : stage[w] # "idle" => Job(w)' = Job(w)
    BY <2>1
  <2> QED BY <1>f, <2>1, <2>2, TimeFrame
(* A step of one worker that leaves the connections and the queues alone. *)
<1>s. ASSUME NEW w \in WorkerIds, UNCHANGED <<age, queue>>,
             \A v \in WorkerIds \ {w} : /\ stage'[v] = stage[v] /\ spent'[v] = spent[v]
                                        /\ began'[v] = began[v],
             (/\ stage[w] # "exchange" => spent[w] = 0
              /\ stage[w] = "connect" => age[Job(w).conn] <= began[w]
              /\ stage[w] = "exchange" => age[Job(w).conn] <= began[w] + spent[w]
              /\ stage[w] = "respond" => age[Job(w).conn] <= began[w] + CurlTimeout)'
      PROVE  TimeInv'
  BY <1>s DEF TimeInv, Job
<1>d. ASSUME NEW w \in WorkerIds, stage[w] \in {"connect", "exchange"}, NEW s, Decide(w, s)
      PROVE  TimeInv'
  <2>1. /\ UNCHANGED <<age, queue, began>>
        /\ stage'[w] = "respond" /\ spent'[w] = 0
        /\ \A v \in WorkerIds \ {w} : stage'[v] = stage[v] /\ spent'[v] = spent[v]
    BY <1>0, <1>d DEF Decide, connVars
  <2>2. age[Job(w).conn] <= began[w] + CurlTimeout
    <3>1. age[Job(w).conn] \in Nat /\ began[w] \in Nat /\ spent[w] \in 0..CurlTimeout
      BY <1>0, <1>q, <1>d
    <3>2. age[Job(w).conn] <= began[w] \/ age[Job(w).conn] <= began[w] + spent[w]
      BY <1>d DEF TimeInv
    <3> QED BY <1>0, <3>1, <3>2
  <2> QED BY <2>1, <2>2, <1>s DEF Job
<1>1. ASSUME NEW r \in Requests, NEW c \in Conns, NEW e \in BOOLEAN, Receive(r, c, e)
      PROVE  TimeInv'
  <2> DEFINE j == [request |-> r, conn |-> c, empty |-> e]
             w == WorkerOf(c)
  <2>1. w \in WorkerIds /\ j \in JobSet /\ queue[w] \in Seq(JobSet)
    BY <1>0, WorkerOfType DEF JobSet
  <2>2. queue' = [queue EXCEPT ![w] = Append(@, j)]
    BY <1>1 DEF Receive
  <2>3. UNCHANGED <<age, stage, spent, began>>
    BY <1>1 DEF Receive
  <2> HIDE DEF w, j
  <2>4. queue[w] # <<>> => Head(Append(queue[w], j)) = Head(queue[w])
    BY <2>1
  <2>5. \A v \in WorkerIds : stage[v] # "idle" => Job(v)' = Job(v)
    BY <1>0, <1>q, <2>1, <2>2, <2>4 DEF Job
  <2> QED BY <1>0, <2>3, <2>5, TimeFrame
<1>2. ASSUME NEW c \in Conns, Deliver(c) \/ GiveUp(c) PROVE TimeInv'
  BY <1>0, <1>2, <1>f DEF Deliver, GiveUp, workerVars
<1>4. ASSUME NEW c \in Conns, CloseConn(c) PROVE TimeInv'
  <2>1. \A d \in Conns : age'[d] \in Nat /\ age'[d] <= age[d]
    BY <1>0, <1>4 DEF CloseConn
  <2> QED BY <1>4, <2>1, <1>f DEF CloseConn, workerVars
<1>5. ASSUME NEW w \in WorkerIds, HandlerStart(w) PROVE TimeInv'
  <2>1. /\ UNCHANGED <<age, queue, spent>> /\ stage'[w] \in {"connect", "respond"}
        /\ began'[w] = age[Job(w).conn]
        /\ \A v \in WorkerIds \ {w} : stage'[v] = stage[v] /\ began'[v] = began[v]
    BY <1>0, <1>5 DEF HandlerStart, connVars
  <2>2. spent[w] = 0 /\ age[Job(w).conn] \in Nat
    BY <1>0, <1>j, <1>5 DEF HandlerStart, TimeInv
  <2>3. Job(w)' = Job(w)
    BY <2>1 DEF Job
  <2>4. /\ stage'[w] \in {"connect", "respond"} /\ spent'[w] = 0
        /\ age'[Job(w)'.conn] = began'[w] /\ began'[w] \in Nat
        /\ began'[w] <= began'[w] + CurlTimeout
    BY <1>0, <2>1, <2>2, <2>3
  <2> QED BY <2>1, <2>4, <1>s
<1>6. ASSUME NEW w \in WorkerIds, CurlFails(w) \/ CurlBroken(w) \/ CurlTimesOut(w) PROVE TimeInv'
  BY <1>6, <1>d DEF CurlFails, CurlBroken, CurlTimesOut
<1>7. ASSUME NEW w \in WorkerIds, CurlConnects(w) PROVE TimeInv'
  <2>1. /\ UNCHANGED <<age, queue, spent, began>> /\ stage'[w] = "exchange"
        /\ \A v \in WorkerIds \ {w} : stage'[v] = stage[v]
    BY <1>0, <1>7 DEF CurlConnects, connVars
  <2>2. age[Job(w).conn] <= began[w] + spent[w]
    <3>1. age[Job(w).conn] <= began[w] /\ spent[w] = 0
      BY <1>7 DEF CurlConnects, TimeInv
    <3>2. age[Job(w).conn] \in Nat /\ began[w] \in Nat
      BY <1>0, <1>q, <1>7 DEF CurlConnects
    <3> QED BY <3>1, <3>2
  <2> QED BY <2>1, <2>2, <1>s DEF Job
<1>8. ASSUME NEW w \in WorkerIds, CurlReturns(w) PROVE TimeInv'
  BY <1>8, <1>d DEF CurlReturns
<1>9. ASSUME NEW w \in WorkerIds, Respond(w) PROVE TimeInv'
  <2>1. /\ UNCHANGED <<age, spent>> /\ stage'[w] = "idle" /\ spent[w] = 0
        /\ \A v \in WorkerIds \ {w} : /\ stage'[v] = stage[v] /\ began'[v] = began[v]
                                      /\ queue'[v] = queue[v]
    BY <1>0, <1>9 DEF Respond, TimeInv
  <2> QED BY <2>1 DEF TimeInv, Job
<1>10. ASSUME NEW r \in Requests, NEW s \in {200, 500}, Finish(r, s) PROVE TimeInv'
  BY <1>0, <1>10, <1>f DEF Finish, connVars, workerVars
<1>11. ASSUME ServiceCrash \/ ServiceRestart PROVE TimeInv'
  BY <1>0, <1>11, <1>f DEF ServiceCrash, ServiceRestart, connVars, workerVars
<1>12. ASSUME ServerCrash PROVE TimeInv'
  BY <1>12 DEF ServerCrash, TimeInv
<1>13. ASSUME Tick PROVE TimeInv'
  <2>1. /\ UNCHANGED <<queue, stage, began>>
        /\ queue' = queue /\ stage' = stage /\ began' = began
        /\ \A w \in WorkerIds : stage[w] \in {"idle", "exchange"}
        /\ \A c \in Conns : age'[c] = age[c] \/ age'[c] = age[c] + 1
        /\ \A w \in WorkerIds : spent'[w] = IF stage[w] = "exchange" THEN spent[w] + 1 ELSE spent[w]
    BY <1>13 DEF Tick
  <2> SUFFICES ASSUME NEW w \in WorkerIds
               PROVE  (/\ stage[w] # "exchange" => spent[w] = 0
                       /\ stage[w] = "connect" => age[Job(w).conn] <= began[w]
                       /\ stage[w] = "exchange" => age[Job(w).conn] <= began[w] + spent[w]
                       /\ stage[w] = "respond" => age[Job(w).conn] <= began[w] + CurlTimeout)'
    BY DEF TimeInv
  <2>2. CASE stage[w] = "idle"
    BY <2>1, <2>2 DEF TimeInv
  <2>3. CASE stage[w] = "exchange"
    <3> DEFINE c == Job(w).conn
    <3>1. c \in Conns /\ Job(w)' = Job(w) /\ age[c] <= began[w] + spent[w]
      BY <1>q, <2>1, <2>3 DEF TimeInv, Job
    <3> HIDE DEF c
    <3>a. age[c] \in Nat /\ began[w] \in Nat /\ spent[w] \in Nat
      BY <1>0, <3>1
    <3>b. spent'[w] = spent[w] + 1 /\ (age'[c] = age[c] \/ age'[c] = age[c] + 1)
      BY <2>1, <2>3, <3>1
    <3>2. age'[c] <= began[w] + spent'[w]
      BY <3>1, <3>a, <3>b
    <3> QED BY <2>1, <2>3, <3>1, <3>2 DEF c
  <2> QED BY <2>1, <2>2, <2>3
<1>14. ASSUME UNCHANGED serverVars PROVE TimeInv'
  BY <1>0, <1>14, <1>f DEF serverVars, connVars, workerVars
<1> QED BY <1>1, <1>2, <1>4, <1>5, <1>6, <1>7, <1>8, <1>9, <1>10, <1>11, <1>12, <1>13, <1>14
        DEF ServerNext, ServerSteps, WorkerStep, ServiceStep, Expire

(* The server answers before its deadline whatever the service does         *)
(* (server.cpp:13, 221-222).                                                *)
THEOREM InTime == Spec => []AnsweredInTime
<1>1. Init => ServerType /\ TimeInv
  BY ServerTypeInit, TimeInitial DEF Init
<1>2. ServerType /\ TimeInv /\ [Next]_vars => (ServerType /\ TimeInv)'
  BY ServerStep, ServerTypeStep, TimeStep
<1>3. ServerType /\ TimeInv => AnsweredInTime
  <2> SUFFICES ASSUME ServerType, TimeInv, NEW w \in WorkerIds,
                      stage[w] # "idle", began[w] + CurlTimeout < Deadline
               PROVE  age[Job(w).conn] < Deadline
    BY DEF AnsweredInTime
  <2>1. queue[w] # <<>>
    BY DEF ServerType, Working
  <2>2. Job(w).conn \in Conns
    BY <2>1, JobType
  <2>3. /\ age[Job(w).conn] \in Nat /\ began[w] \in Nat /\ spent[w] \in 0..CurlTimeout
        /\ stage[w] \in {"connect", "exchange", "respond"}
        /\ CurlTimeout \in Nat /\ Deadline \in Nat
    BY <2>2, ServerAssumption DEF ServerType, ServerTypeOK
  <2>4. age[Job(w).conn] <= began[w] \/ age[Job(w).conn] <= began[w] + spent[w]
        \/ age[Job(w).conn] <= began[w] + CurlTimeout
    BY <2>3 DEF TimeInv
  <2> QED BY <2>3, <2>4
<1> QED BY <1>1, <1>2, <1>3, PTL DEF Spec
-----------------------------------------------------------------------------
(* One request at a time on a connection: a job in a queue is for a         *)
(* connection that was accepted and, while it is open, for the request its  *)
(* client waits for, which has no answer yet.                               *)

Waited(j) ==
  /\ conns[j.conn] # "unused"
  /\ conns[j.conn] = "open" => using[j.conn] = j.request /\ wire[j.conn] = <<>>

JobsWaited ==
  \A w \in WorkerIds : \A i \in 1..Len(queue[w]) :
    WorkerOf(queue[w][i].conn) = w /\ Waited(queue[w][i])

OneJobEach ==
  \A w \in WorkerIds : \A i, k \in 1..Len(queue[w]) :
    queue[w][i].conn = queue[w][k].conn => i = k

OneAnswer ==
  \A c \in Conns :
    /\ conns[c] = "unused" => using[c] = NoRequest /\ wire[c] = <<>>
    /\ conns[c] = "open" => \/ wire[c] = <<>>
                            \/ Len(wire[c]) = 1 /\ wire[c][1].request = using[c]

OrderInv == JobsWaited /\ OneJobEach /\ OneAnswer

(* A call of the page makes its request once; the service sees the request  *)
(* of a job when the handler has connected, and a good answer is one that   *)
(* the service has made and will not change.                                *)

Fresh(n) == calls[n].at \in {"unused", "reading"}
Good(r) == service[r] = "finished" /\ upstream[r] = 200

OneJobPerRequest ==
  \A w, v \in WorkerIds : \A i \in 1..Len(queue[w]), k \in 1..Len(queue[v]) :
    queue[w][i].request = queue[v][k].request => w = v /\ i = k

FreshUnknown ==
  \A r \in Requests : Fresh(r) =>
    /\ service[r] = "none"
    /\ \A w \in WorkerIds : \A i \in 1..Len(queue[w]) : queue[w][i].request # r

NotBegun ==
  \A w \in WorkerIds : \A i \in 1..Len(queue[w]) :
    i > 1 \/ stage[w] \in {"idle", "connect"} => service[queue[w][i].request] = "none"

GoodIsMade ==
  /\ \A w \in WorkerIds : stage[w] = "respond" /\ result[w] = 200 => Good(Job(w).request)
  /\ \A c \in Conns : \A i \in 1..Len(wire[c]) :
       wire[c][i].status = 200 => Good(wire[c][i].request)

MadeInv == OneJobPerRequest /\ FreshUnknown /\ NotBegun /\ GoodIsMade
-----------------------------------------------------------------------------
LEMMA Jobs ==
  ASSUME ServerType, NEW w \in WorkerIds
  PROVE  /\ queue[w] \in Seq(JobSet) /\ Len(queue[w]) \in Nat
         /\ \A i \in 1..Len(queue[w]) :
              /\ queue[w][i] \in JobSet
              /\ queue[w][i].conn \in Conns /\ queue[w][i].request \in Requests
         /\ stage[w] # "idle" => Len(queue[w]) >= 1 /\ 1 \in 1..Len(queue[w]) /\ Job(w) = queue[w][1]
<1>1. queue[w] \in Seq(JobSet) /\ (stage[w] # "idle" => queue[w] # <<>>)
  BY DEF ServerType, ServerTypeOK, JobSet, Working
<1>2. \A i \in 1..Len(queue[w]) : queue[w][i] \in JobSet
  BY <1>1, ElementOfSeq
<1> QED BY <1>1, <1>2, LenProperties, EmptySeq DEF JobSet, Job

LEMMA Appended ==
  ASSUME NEW S, NEW q \in Seq(S), NEW e \in S
  PROVE  /\ Len(Append(q, e)) = Len(q) + 1 /\ Append(q, e)[Len(q) + 1] = e
         /\ \A i \in 1..Len(q) : Append(q, e)[i] = q[i]
         /\ \A i \in 1..Len(Append(q, e)) : i \in 1..Len(q) \/ i = Len(q) + 1
BY AppendProperties, LenProperties

LEMMA Shifted ==
  ASSUME NEW S, NEW q \in Seq(S), q # <<>>
  PROVE  \A i \in 1..Len(Tail(q)) : i + 1 \in 2..Len(q) /\ Tail(q)[i] = q[i + 1]
BY HeadTailProperties, LenProperties

LEMMA OrderInitial == ServerInit => OrderInv
BY DEF ServerInit, OrderInv, JobsWaited, OneJobEach, OneAnswer

LEMMA OrderFrame ==
  ASSUME OrderInv, UNCHANGED <<conns, using, wire, queue>>
  PROVE  OrderInv'
BY DEF OrderInv, JobsWaited, OneJobEach, OneAnswer, Waited

LEMMA ReceiveOrder ==
  ASSUME ServerType, OrderInv, NEW r \in Requests, NEW c \in Conns, NEW e \in BOOLEAN,
         Receive(r, c, e)
  PROVE  OrderInv'
<1> DEFINE j == [request |-> r, conn |-> c, empty |-> e]
           w == WorkerOf(c)
<1>0. /\ conns \in [Conns -> {"unused", "open", "closed"}]
      /\ using \in [Conns -> Requests \union {NoRequest}] /\ queue \in [WorkerIds -> Seq(JobSet)]
  BY DEF ServerType, ServerTypeOK, JobSet
<1>1. w \in WorkerIds /\ j \in JobSet /\ queue[w] \in Seq(JobSet)
      /\ j.conn = c /\ j.request = r /\ w = WorkerOf(c)
  BY <1>0, WorkerOfType DEF JobSet
<1>2. /\ queue' = [queue EXCEPT ![w] = Append(@, j)] /\ wire' = wire
      /\ conns' = [conns EXCEPT ![c] = "open"] /\ using' = [using EXCEPT ![c] = r]
      /\ conns[c] = "unused" \/ (conns[c] = "open" /\ using[c] = NoRequest /\ wire[c] = <<>>)
  <2>1. queue' = [queue EXCEPT ![w] = Append(@, j)]
    BY DEF Receive
  <2>2. conns[c] = "unused" \/ (conns[c] = "open" /\ using[c] = NoRequest /\ wire[c] = <<>>)
    BY DEF Receive
  <2> QED BY <2>1, <2>2 DEF Receive
<1> HIDE DEF w, j
<1>3. wire[c] = <<>>
  BY <1>2 DEF OrderInv, OneAnswer
<1>4. \A v \in WorkerIds : \A i \in 1..Len(queue[v]) :
        queue[v][i].conn # c /\ queue[v][i].conn \in Conns
  <2> SUFFICES ASSUME NEW v \in WorkerIds, NEW i \in 1..Len(queue[v]), queue[v][i].conn = c
               PROVE  FALSE
    BY Jobs
  <2>1. Waited(queue[v][i])
    BY DEF OrderInv, JobsWaited
  <2>2. queue[v][i].request \in Requests
    BY Jobs
  <2> QED BY <1>2, <2>1, <2>2, ServerAssumption DEF Waited
<1>5. /\ Len(queue'[w]) = Len(queue[w]) + 1 /\ queue'[w][Len(queue[w]) + 1] = j
      /\ \A i \in 1..Len(queue[w]) : queue'[w][i] = queue[w][i]
      /\ \A i \in 1..Len(queue'[w]) : i \in 1..Len(queue[w]) \/ i = Len(queue[w]) + 1
      /\ \A v \in WorkerIds \ {w} : queue'[v] = queue[v]
  BY <1>0, <1>1, <1>2, Appended
<1>6. \A v \in WorkerIds : \A i \in 1..Len(queue'[v]) :
        \/ v = w /\ i = Len(queue[w]) + 1 /\ queue'[v][i] = j
        \/ i \in 1..Len(queue[v]) /\ queue'[v][i] = queue[v][i]
  BY <1>5
<1>7. Waited(j)'
  BY <1>0, <1>1, <1>2, <1>3 DEF Waited
<1>8. JobsWaited'
  <2> SUFFICES ASSUME NEW v \in WorkerIds, NEW i \in 1..Len(queue'[v])
               PROVE  WorkerOf(queue'[v][i].conn) = v /\ Waited(queue[v][i])'
    BY DEF JobsWaited
  <2>1. CASE v = w /\ i = Len(queue[w]) + 1 /\ queue'[v][i] = j
    <3>1. Waited(queue[v][i])'
      BY <2>1, <1>7 DEF Waited
    <3> QED BY <1>1, <2>1, <3>1
  <2>2. CASE i \in 1..Len(queue[v]) /\ queue'[v][i] = queue[v][i]
    <3> DEFINE k == queue[v][i]
    <3>1. WorkerOf(k.conn) = v /\ Waited(k) /\ k.conn # c /\ k.conn \in Conns
      BY <2>2, <1>4 DEF OrderInv, JobsWaited
    <3>2. Waited(queue[v][i])'
      BY <1>0, <1>2, <2>2, <3>1 DEF Waited
    <3> QED BY <2>2, <3>1, <3>2
  <2> QED BY <1>6, <2>1, <2>2
<1>9. OneJobEach'
  <2> SUFFICES ASSUME NEW v \in WorkerIds, NEW i \in 1..Len(queue'[v]), NEW k \in 1..Len(queue'[v]),
                      queue'[v][i].conn = queue'[v][k].conn
               PROVE  i = k
    BY DEF OneJobEach
  <2>1. \A n \in 1..Len(queue[v]) : queue[v][n].conn # j.conn
    BY <1>1, <1>4
  <2>2. \A n, m \in 1..Len(queue[v]) : queue[v][n].conn = queue[v][m].conn => n = m
    BY DEF OrderInv, OneJobEach
  <2>3. \/ v = w /\ i = Len(queue[w]) + 1 /\ queue'[v][i] = j
        \/ i \in 1..Len(queue[v]) /\ queue'[v][i] = queue[v][i]
    BY <1>6
  <2>4. \/ v = w /\ k = Len(queue[w]) + 1 /\ queue'[v][k] = j
        \/ k \in 1..Len(queue[v]) /\ queue'[v][k] = queue[v][k]
    BY <1>6
  <2> QED BY <2>1, <2>2, <2>3, <2>4
<1>10. OneAnswer'
  BY <1>0, <1>2, <1>3 DEF OrderInv, OneAnswer
<1> QED BY <1>8, <1>9, <1>10 DEF OrderInv

LEMMA RespondOrder ==
  ASSUME ServerType, OrderInv, NEW w \in WorkerIds, Respond(w)
  PROVE  OrderInv'
<1> DEFINE j == Job(w)
           a == [request |-> j.request, status |-> result[w]]
<1>0. /\ wire \in [Conns -> Seq(Answer)] /\ queue \in [WorkerIds -> Seq(JobSet)]
  BY DEF ServerType, ServerTypeOK, JobSet, Answer
<1>1. 1 \in 1..Len(queue[w]) /\ j = queue[w][1] /\ j.conn \in Conns /\ queue[w] # <<>>
  BY Jobs, EmptySeq DEF Respond
<1>2. /\ queue' = [queue EXCEPT ![w] = Tail(@)] /\ conns' = conns /\ using' = using
      /\ wire' = IF conns[j.conn] = "open" THEN [wire EXCEPT ![j.conn] = Append(@, a)] ELSE wire
      /\ a.request = j.request
  BY DEF Respond
<1> HIDE DEF j, a
<1>3. WorkerOf(j.conn) = w /\ Waited(j)
  BY <1>1 DEF OrderInv, JobsWaited
<1>4. \A v \in WorkerIds : \A i \in 1..Len(queue'[v]) :
        \E k \in 1..Len(queue[v]) : /\ queue'[v][i] = queue[v][k]
                                    /\ IF v = w THEN k = i + 1 ELSE k = i
  BY <1>0, <1>1, <1>2, Shifted
<1>5. \A c \in Conns : c # j.conn => wire'[c] = wire[c]
  BY <1>0, <1>2
<1>6. \A v \in WorkerIds : \A i \in 1..Len(queue'[v]) :
        /\ WorkerOf(queue'[v][i].conn) = v /\ Waited(queue'[v][i])
        /\ queue'[v][i].conn \in Conns /\ queue'[v][i].conn # j.conn
  <2> SUFFICES ASSUME NEW v \in WorkerIds, NEW i \in 1..Len(queue'[v])
               PROVE  /\ WorkerOf(queue'[v][i].conn) = v /\ Waited(queue'[v][i])
                      /\ queue'[v][i].conn \in Conns /\ queue'[v][i].conn # j.conn
    OBVIOUS
  <2>1. PICK k \in 1..Len(queue[v]) : /\ queue'[v][i] = queue[v][k]
                                      /\ IF v = w THEN k = i + 1 ELSE k = i
    BY <1>4
  <2>2. WorkerOf(queue[v][k].conn) = v /\ Waited(queue[v][k]) /\ queue[v][k].conn \in Conns
    BY Jobs DEF OrderInv, JobsWaited
  <2>3. CASE v # w
    BY <1>3, <2>1, <2>2, <2>3
  <2>4. CASE v = w
    <3>1. k # 1
      BY <2>1, <2>4
    <3>2. queue[w][k].conn # j.conn
      BY <1>1, <2>4, <3>1 DEF OrderInv, OneJobEach
    <3> QED BY <2>1, <2>2, <2>4, <3>2
  <2> QED BY <2>3, <2>4
<1>7. JobsWaited'
  <2> SUFFICES ASSUME NEW v \in WorkerIds, NEW i \in 1..Len(queue'[v])
               PROVE  WorkerOf(queue'[v][i].conn) = v /\ Waited(queue[v][i])'
    BY DEF JobsWaited
  <2> DEFINE k == queue'[v][i]
  <2>1. WorkerOf(k.conn) = v /\ Waited(k) /\ wire'[k.conn] = wire[k.conn]
    BY <1>5, <1>6
  <2>2. conns' = conns /\ using' = using
    BY <1>2
  <2>3. Waited(queue[v][i])'
    BY <2>1, <2>2 DEF Waited
  <2> QED BY <2>1, <2>3
<1>8. OneJobEach'
  <2> SUFFICES ASSUME NEW v \in WorkerIds, NEW i \in 1..Len(queue'[v]), NEW k \in 1..Len(queue'[v]),
                      queue'[v][i].conn = queue'[v][k].conn
               PROVE  i = k
    BY DEF OneJobEach
  <2>1. PICK m \in 1..Len(queue[v]) : /\ queue'[v][i] = queue[v][m]
                                      /\ IF v = w THEN m = i + 1 ELSE m = i
    BY <1>4
  <2>2. PICK n \in 1..Len(queue[v]) : /\ queue'[v][k] = queue[v][n]
                                      /\ IF v = w THEN n = k + 1 ELSE n = k
    BY <1>4
  <2>3. m = n
    BY <2>1, <2>2 DEF OrderInv, OneJobEach
  <2> QED BY <2>1, <2>2, <2>3
<1>9. OneAnswer'
  <2> SUFFICES ASSUME NEW c \in Conns
               PROVE  (/\ conns[c] = "unused" => using[c] = NoRequest /\ wire[c] = <<>>
                       /\ conns[c] = "open" => \/ wire[c] = <<>>
                                               \/ Len(wire[c]) = 1 /\ wire[c][1].request = using[c])'
    BY DEF OneAnswer
  <2>1. CASE c = j.conn /\ conns[j.conn] = "open"
    <3>1. wire[c] = <<>> /\ using[c] = j.request
      BY <1>3, <2>1 DEF Waited
    <3>2. wire'[c] = Append(<<>>, a)
      BY <1>0, <1>1, <1>2, <2>1, <3>1
    <3>3. Len(wire'[c]) = 1 /\ wire'[c][1] = a
      BY <3>2
    <3> QED BY <1>2, <2>1, <3>1, <3>3
  <2>2. CASE ~(c = j.conn /\ conns[j.conn] = "open")
    <3>1. wire'[c] = wire[c]
      BY <1>2, <1>5, <2>2
    <3> QED BY <1>2, <3>1 DEF OrderInv, OneAnswer
  <2> QED BY <2>1, <2>2
<1> QED BY <1>7, <1>8, <1>9 DEF OrderInv

LEMMA OrderStep ==
  ASSUME ServerType, OrderInv, [ServerNext]_serverVars
  PROVE  OrderInv'
<1>0. /\ conns \in [Conns -> {"unused", "open", "closed"}] /\ wire \in [Conns -> Seq(Answer)]
      /\ using \in [Conns -> Requests \union {NoRequest}]
  BY DEF ServerType, ServerTypeOK, Answer
<1>1. ASSUME NEW c \in Conns, Deliver(c) PROVE OrderInv'
  <2>1. /\ wire' = [wire EXCEPT ![c] = Tail(@)] /\ using' = [using EXCEPT ![c] = NoRequest]
        /\ conns' = conns /\ queue' = queue /\ wire[c] # <<>>
    BY <1>1 DEF Deliver, workerVars
  <2>2. conns[c] = "open" => Tail(wire[c]) = <<>>
    <3> SUFFICES ASSUME conns[c] = "open" PROVE Tail(wire[c]) = <<>>
      OBVIOUS
    <3>1. Len(wire[c]) = 1 /\ wire[c] \in Seq(Answer)
      BY <1>0, <2>1 DEF OrderInv, OneAnswer
    <3>2. Tail(wire[c]) \in Seq(Answer) /\ Len(Tail(wire[c])) = 0
      BY <2>1, <3>1, HeadTailProperties
    <3> QED BY <3>2, EmptySeq
  <2>3. conns[c] # "unused"
    BY <2>1 DEF OrderInv, OneAnswer
  <2>4. OneAnswer'
    BY <1>0, <2>1, <2>2, <2>3 DEF OrderInv, OneAnswer
  <2>5. JobsWaited'
    <3> SUFFICES ASSUME NEW v \in WorkerIds, NEW i \in 1..Len(queue[v])
                 PROVE  WorkerOf(queue[v][i].conn) = v /\ Waited(queue[v][i])'
      BY <2>1 DEF JobsWaited
    <3>1. WorkerOf(queue[v][i].conn) = v /\ Waited(queue[v][i]) /\ queue[v][i].conn \in Conns
      BY Jobs DEF OrderInv, JobsWaited
    <3>2. Waited(queue[v][i])'
      BY <1>0, <2>1, <3>1 DEF Waited
    <3> QED BY <3>1, <3>2
  <2> QED BY <2>1, <2>4, <2>5 DEF OrderInv, OneJobEach
<1>2. ASSUME NEW c \in Conns, GiveUp(c) \/ CloseConn(c) PROVE OrderInv'
  <2>1. /\ queue' = queue /\ conns[c] # "unused" /\ conns'[c] = "closed"
        /\ \A d \in Conns : d # c => /\ conns'[d] = conns[d] /\ wire'[d] = wire[d]
                                     /\ using'[d] = using[d]
    BY <1>0, <1>2 DEF GiveUp, CloseConn, workerVars
  <2>2. OneAnswer'
    BY <2>1 DEF OrderInv, OneAnswer
  <2>3. JobsWaited'
    <3> SUFFICES ASSUME NEW v \in WorkerIds, NEW i \in 1..Len(queue[v])
                 PROVE  WorkerOf(queue[v][i].conn) = v /\ Waited(queue[v][i])'
      BY <2>1 DEF JobsWaited
    <3>1. WorkerOf(queue[v][i].conn) = v /\ Waited(queue[v][i]) /\ queue[v][i].conn \in Conns
      BY Jobs DEF OrderInv, JobsWaited
    <3>2. Waited(queue[v][i])'
      BY <2>1, <3>1 DEF Waited
    <3> QED BY <3>1, <3>2
  <2> QED BY <2>1, <2>2, <2>3 DEF OrderInv, OneJobEach
<1>3. ASSUME NEW w \in WorkerIds,
             HandlerStart(w) \/ CurlFails(w) \/ CurlConnects(w) \/ CurlReturns(w)
             \/ CurlBroken(w) \/ CurlTimesOut(w)
      PROVE  OrderInv'
  <2>1. UNCHANGED <<conns, using, wire, queue>>
    BY <1>3 DEF HandlerStart, CurlFails, CurlConnects, CurlReturns, CurlBroken, CurlTimesOut,
                Decide, connVars
  <2> QED BY <2>1, OrderFrame
<1>4. ASSUME (\E r \in Requests : ServiceStep(r)) \/ ServiceCrash \/ ServiceRestart \/ Tick
      PROVE  OrderInv'
  <2>1. UNCHANGED <<conns, using, wire, queue>>
    BY <1>4 DEF ServiceStep, Finish, ServiceCrash, ServiceRestart, Tick, connVars, workerVars
  <2> QED BY <2>1, OrderFrame
<1>5. ASSUME ServerCrash PROVE OrderInv'
  <2>1. /\ \A w \in WorkerIds : queue'[w] = <<>>
        /\ \A c \in Conns : conns'[c] = IF conns[c] = "open" THEN "closed" ELSE conns[c]
        /\ using' = using /\ wire' = wire
    BY <1>5 DEF ServerCrash
  <2>2. OneAnswer'
    BY <2>1 DEF OrderInv, OneAnswer
  <2>3. JobsWaited' /\ OneJobEach'
    BY <2>1 DEF JobsWaited, OneJobEach
  <2> QED BY <2>2, <2>3 DEF OrderInv
<1>6. ASSUME UNCHANGED serverVars PROVE OrderInv'
  BY <1>6, OrderFrame DEF serverVars, connVars, workerVars
<1> QED BY <1>1, <1>2, <1>3, <1>4, <1>5, <1>6, ReceiveOrder, RespondOrder
        DEF ServerNext, ServerSteps, WorkerStep, Expire
-----------------------------------------------------------------------------
(* The steps of the server under the page: a request is received once. *)
AppServerNext ==
  \/ \E r \in Requests, c \in Conns, e \in BOOLEAN : Receive(r, c, e) /\ Fresh(r) /\ ~Fresh(r)'
  \/ \E c \in Conns : Deliver(c) \/ GiveUp(c)
  \/ ServerSteps

LEMMA AppServerStep ==
  ASSUME PageTypeOK, [Next]_vars
  PROVE  [AppServerNext]_serverVars /\ \A r \in Requests : Fresh(r)' => Fresh(r)
<1>0. calls \in [Calls -> [at : Stages, picture : Pictures \union {Nothing}, current : BOOLEAN]]
      /\ Requests = Calls
  BY AppAssumption DEF PageTypeOK
<1>1. \A r \in Requests : Fresh(r)' => Fresh(r)
  <2> SUFFICES ASSUME NEW r \in Calls, calls'[r].at \in {"unused", "reading"}
               PROVE  calls[r].at \in {"unused", "reading"}
    BY <1>0 DEF Fresh
  <2>1. ASSUME NEW n \in Calls, FileRead(n) PROVE calls[r].at \in {"unused", "reading"}
    BY <1>0, <2>1 DEF FileRead, Move
  <2>2. ASSUME NEW n \in Calls, Complete(n) \/ Fail(n) PROVE calls[r].at \in {"unused", "reading"}
    <3>1. calls' = Over(n)
      BY <2>2 DEF Complete, Fail
    <3>2. r # n => calls'[r] = calls[r]
      BY <1>0, <3>1 DEF Over
    <3>3. r = n => calls'[r].at = "done"
      BY <1>0, <3>1 DEF Over
    <3> QED BY <3>2, <3>3
  <2>3. ASSUME NEW n \in Calls, NEW ok \in BOOLEAN, Answered(n, ok)
        PROVE  calls[r].at \in {"unused", "reading"}
    BY <1>0, <2>3 DEF Answered, Move
  <2>4. ASSUME NEW n \in Calls, Click(n) PROVE calls[r].at \in {"unused", "reading"}
    BY <1>0, <2>4 DEF Click
  <2>5. ASSUME ClearAll \/ \E p \in Pictures : Choose(p) PROVE calls[r].at \in {"unused", "reading"}
    <3>1. calls' = Outdated
      BY <2>5 DEF ClearAll, Choose
    <3>2. Outdated[r].at = calls[r].at
      BY <1>0 DEF Outdated
    <3> QED BY <3>1, <3>2
  <2>6. ASSUME UNCHANGED pageVars PROVE calls[r].at \in {"unused", "reading"}
    BY <2>6 DEF pageVars
  <2>7. [PageNext]_pageVars
    BY PageStep DEF vars, pageVars
  <2> QED BY <2>1, <2>2, <2>3, <2>4, <2>5, <2>6, <2>7 DEF PageNext, User
<1>2. ASSUME NEW n \in Calls, CallStep(n) PROVE [AppServerNext]_serverVars
  <2>1. ASSUME Send(n) PROVE AppServerNext
    <3>1. PICK c \in Conns : Receive(n, c, calls[n].picture \in EmptyPictures)
      BY <2>1 DEF Send
    <3>2. n \in Requests /\ (calls[n].picture \in EmptyPictures) \in BOOLEAN
      BY <1>0
    <3>3. Fresh(n) /\ ~Fresh(n)'
      BY <1>0, <2>1 DEF Send, FileRead, Move, Fresh
    <3> QED BY <3>1, <3>2, <3>3 DEF AppServerNext
  <2>2. ASSUME NEW c \in Conns, HeadArrives(n, c) \/ BodyArrives(n, c) \/ CutOff(n, c)
        PROVE  [AppServerNext]_serverVars
    BY <2>2 DEF HeadArrives, BodyArrives, CutOff, AppServerNext
  <2> QED BY <1>2, <2>1, <2>2 DEF CallStep, CannotSend
<1>3. [AppServerNext]_serverVars
  BY <1>2 DEF Next, UserStep, AppServerNext, vars
<1> QED BY <1>1, <1>3

LEMMA Answers ==
  ASSUME ServerType, NEW c \in Conns
  PROVE  /\ wire[c] \in Seq(Answer)
         /\ \A i \in 1..Len(wire[c]) : wire[c][i] \in Answer /\ wire[c][i].request \in Requests
<1>1. wire[c] \in Seq(Answer)
  BY DEF ServerType, ServerTypeOK, Answer
<1>2. \A i \in 1..Len(wire[c]) : wire[c][i] \in Answer
  BY <1>1, ElementOfSeq
<1> QED BY <1>1, <1>2 DEF Answer

LEMMA MadeInitial == Init => MadeInv
BY DEF Init, ServerInit, MadeInv, OneJobPerRequest, FreshUnknown, NotBegun, GoodIsMade

LEMMA MadeFrame ==
  ASSUME ServerType, MadeInv, queue' = queue, GoodIsMade',
         \A r \in Requests : Fresh(r)' => Fresh(r),
         \A r \in Requests : service[r] = "none" => service'[r] = "none",
         \A w \in WorkerIds : stage'[w] \in {"idle", "connect"} => stage[w] \in {"idle", "connect"}
  PROVE  MadeInv'
<1>1. OneJobPerRequest'
  BY DEF MadeInv, OneJobPerRequest
<1>2. FreshUnknown'
  <2> SUFFICES ASSUME NEW r \in Requests, Fresh(r)'
               PROVE  /\ service'[r] = "none"
                      /\ \A w \in WorkerIds : \A i \in 1..Len(queue[w]) : queue[w][i].request # r
    BY DEF FreshUnknown
  <2> QED BY DEF MadeInv, FreshUnknown
<1>3. NotBegun'
  <2> SUFFICES ASSUME NEW w \in WorkerIds, NEW i \in 1..Len(queue[w]),
                      i > 1 \/ stage'[w] \in {"idle", "connect"}
               PROVE  service'[queue[w][i].request] = "none"
    BY DEF NotBegun
  <2>1. queue[w][i].request \in Requests /\ service[queue[w][i].request] = "none"
    BY Jobs DEF MadeInv, NotBegun
  <2> QED BY <2>1
<1> QED BY <1>1, <1>2, <1>3 DEF MadeInv

LEMMA GoodFrame ==
  ASSUME ServerType, GoodIsMade, queue' = queue, stage' = stage, result' = result, wire' = wire,
         \A r \in Requests : Good(r) => Good(r)'
  PROVE  GoodIsMade'
<1>1. \A w \in WorkerIds : stage[w] = "respond" => Job(w)' = Job(w) /\ Job(w).request \in Requests
  <2> SUFFICES ASSUME NEW w \in WorkerIds, stage[w] = "respond"
               PROVE  Job(w)' = Job(w) /\ Job(w).request \in Requests
    OBVIOUS
  <2>1. Job(w).request \in Requests
    BY Jobs
  <2> QED BY <2>1 DEF Job
<1>2. ASSUME NEW w \in WorkerIds, stage[w] = "respond", result[w] = 200
      PROVE  Good(Job(w).request)'
  <2>1. Good(Job(w).request) /\ Job(w).request \in Requests /\ Job(w)' = Job(w)
    BY <1>1, <1>2 DEF GoodIsMade
  <2> QED BY <2>1 DEF Good
<1>3. ASSUME NEW c \in Conns, NEW i \in 1..Len(wire[c]), wire[c][i].status = 200
      PROVE  Good(wire[c][i].request)'
  <2>1. Good(wire[c][i].request) /\ wire[c][i].request \in Requests
    BY <1>3, Answers DEF GoodIsMade
  <2> QED BY <2>1 DEF Good
<1> QED BY <1>2, <1>3 DEF GoodIsMade
-----------------------------------------------------------------------------
LEMMA ReceiveMade ==
  ASSUME ServerType, MadeInv, NEW r \in Requests, NEW c \in Conns, NEW e \in BOOLEAN,
         Receive(r, c, e), Fresh(r), ~Fresh(r)', \A q \in Requests : Fresh(q)' => Fresh(q)
  PROVE  MadeInv'
<1> DEFINE j == [request |-> r, conn |-> c, empty |-> e]
           w == WorkerOf(c)
<1>0. queue \in [WorkerIds -> Seq(JobSet)]
  BY DEF ServerType, ServerTypeOK, JobSet
<1>1. w \in WorkerIds /\ j \in JobSet /\ queue[w] \in Seq(JobSet) /\ j.request = r
  BY <1>0, WorkerOfType DEF JobSet
<1>2. queue' = [queue EXCEPT ![w] = Append(@, j)]
      /\ stage' = stage /\ result' = result /\ wire' = wire
      /\ service' = service /\ upstream' = upstream
  BY DEF Receive, serviceVars
<1> HIDE DEF w, j
<1>3. /\ Len(queue'[w]) = Len(queue[w]) + 1 /\ queue'[w][Len(queue[w]) + 1] = j
      /\ \A i \in 1..Len(queue[w]) : queue'[w][i] = queue[w][i]
      /\ \A i \in 1..Len(queue'[w]) : i \in 1..Len(queue[w]) \/ i = Len(queue[w]) + 1
      /\ \A v \in WorkerIds \ {w} : queue'[v] = queue[v]
  BY <1>0, <1>1, <1>2, Appended
<1>4. \A v \in WorkerIds : \A i \in 1..Len(queue'[v]) :
        \/ v = w /\ i = Len(queue[w]) + 1 /\ queue'[v][i] = j
        \/ i \in 1..Len(queue[v]) /\ queue'[v][i] = queue[v][i]
  BY <1>3
<1>5. /\ service[r] = "none"
      /\ \A v \in WorkerIds : \A i \in 1..Len(queue[v]) : queue[v][i].request # r
  BY DEF MadeInv, FreshUnknown
<1>6. OneJobPerRequest'
  <2> SUFFICES ASSUME NEW u \in WorkerIds, NEW v \in WorkerIds,
                      NEW i \in 1..Len(queue'[u]), NEW k \in 1..Len(queue'[v]),
                      queue'[u][i].request = queue'[v][k].request
               PROVE  u = v /\ i = k
    BY DEF OneJobPerRequest
  <2>0. \A x \in WorkerIds : \A n \in 1..Len(queue'[x]) :
          queue'[x][n] = j => x = w /\ n = Len(queue[w]) + 1
    <3> SUFFICES ASSUME NEW x \in WorkerIds, NEW n \in 1..Len(queue'[x]), queue'[x][n] = j,
                        n \in 1..Len(queue[x]), queue'[x][n] = queue[x][n]
                 PROVE  FALSE
      BY <1>4
    <3> QED BY <1>1, <1>5
  <2>1. CASE queue'[u][i] = j /\ queue'[v][k] = j
    BY <2>0, <2>1
  <2>2. CASE queue'[u][i] # j /\ queue'[v][k] # j
    <3>1. /\ i \in 1..Len(queue[u]) /\ queue'[u][i] = queue[u][i]
          /\ k \in 1..Len(queue[v]) /\ queue'[v][k] = queue[v][k]
      BY <1>4, <2>2
    <3> QED BY <3>1 DEF MadeInv, OneJobPerRequest
  <2>3. CASE queue'[u][i] # j /\ queue'[v][k] = j
    BY <1>1, <1>4, <1>5, <2>3
  <2>4. CASE queue'[u][i] = j /\ queue'[v][k] # j
    BY <1>1, <1>4, <1>5, <2>4
  <2> QED BY <2>1, <2>2, <2>3, <2>4
<1>7. FreshUnknown'
  <2> SUFFICES ASSUME NEW q \in Requests, Fresh(q)'
               PROVE  /\ service'[q] = "none"
                      /\ \A v \in WorkerIds : \A i \in 1..Len(queue'[v]) : queue'[v][i].request # q
    BY DEF FreshUnknown
  <2>1. Fresh(q) /\ q # r
    OBVIOUS
  <2> QED BY <1>1, <1>2, <1>4, <2>1 DEF MadeInv, FreshUnknown
<1>8. NotBegun'
  <2> SUFFICES ASSUME NEW v \in WorkerIds, NEW i \in 1..Len(queue'[v]),
                      i > 1 \/ stage'[v] \in {"idle", "connect"}
               PROVE  service'[queue'[v][i].request] = "none"
    BY DEF NotBegun
  <2> QED BY <1>1, <1>2, <1>4, <1>5 DEF MadeInv, NotBegun
<1>9. GoodIsMade'
  <2>1. ASSUME NEW v \in WorkerIds, stage[v] = "respond" PROVE Job(v)' = Job(v)
    <3>1. 1 \in 1..Len(queue[v]) /\ queue[v] \in Seq(JobSet) /\ queue[v] # <<>>
      BY <2>1, Jobs, EmptySeq
    <3>2. v # w => queue'[v] = queue[v]
      BY <1>3
    <3>3. v = w => queue'[v] = Append(queue[v], j)
      BY <1>0, <1>1, <1>2
    <3>4. Head(Append(queue[v], j)) = Head(queue[v])
      BY <1>1, <3>1
    <3> QED BY <3>2, <3>3, <3>4 DEF Job
  <2>2. ASSUME NEW v \in WorkerIds, stage'[v] = "respond", result'[v] = 200
        PROVE  Good(Job(v).request)'
    <3>1. stage[v] = "respond" /\ Good(Job(v).request)
      BY <1>2, <2>2 DEF MadeInv, GoodIsMade
    <3>2. Job(v)' = Job(v)
      BY <2>1, <3>1
    <3> QED BY <1>2, <3>1, <3>2 DEF Good
  <2>3. ASSUME NEW d \in Conns, NEW i \in 1..Len(wire'[d]), wire'[d][i].status = 200
        PROVE  Good(wire[d][i].request)'
    BY <1>2, <2>3 DEF MadeInv, GoodIsMade, Good
  <2> QED BY <2>2, <2>3 DEF GoodIsMade
<1> QED BY <1>6, <1>7, <1>8, <1>9 DEF MadeInv

LEMMA RespondMade ==
  ASSUME ServerType, MadeInv, NEW w \in WorkerIds, Respond(w),
         \A q \in Requests : Fresh(q)' => Fresh(q)
  PROVE  MadeInv'
<1> DEFINE j == Job(w)
           a == [request |-> j.request, status |-> result[w]]
<1>0. /\ wire \in [Conns -> Seq(Answer)] /\ queue \in [WorkerIds -> Seq(JobSet)]
      /\ result[w] \in Statuses /\ stage \in [WorkerIds -> {"idle", "connect", "exchange", "respond"}]
      /\ result \in [WorkerIds -> Statuses \union {0}]
  BY DEF Respond, ServerType, ServerTypeOK, JobSet, Answer, Working
<1>1. 1 \in 1..Len(queue[w]) /\ j = queue[w][1] /\ j.conn \in Conns /\ j.request \in Requests
      /\ queue[w] # <<>>
  BY Jobs, EmptySeq DEF Respond
<1>2. /\ queue' = [queue EXCEPT ![w] = Tail(@)] /\ stage[w] = "respond"
      /\ stage' = [stage EXCEPT ![w] = "idle"] /\ result' = [result EXCEPT ![w] = 0]
      /\ service' = service /\ upstream' = upstream
      /\ wire' = IF conns[j.conn] = "open" THEN [wire EXCEPT ![j.conn] = Append(@, a)] ELSE wire
      /\ a.request = j.request /\ a.status = result[w]
  BY DEF Respond, serviceVars
<1>a. a \in Answer
  BY <1>0, <1>1 DEF Answer
<1> HIDE DEF j, a
<1>3. \A v \in WorkerIds : \A i \in 1..Len(queue'[v]) :
        \E k \in 1..Len(queue[v]) : /\ queue'[v][i] = queue[v][k]
                                    /\ IF v = w THEN k = i + 1 ELSE k = i
  BY <1>0, <1>1, <1>2, Shifted
<1>4. OneJobPerRequest'
  <2> SUFFICES ASSUME NEW u \in WorkerIds, NEW v \in WorkerIds,
                      NEW i \in 1..Len(queue'[u]), NEW k \in 1..Len(queue'[v]),
                      queue'[u][i].request = queue'[v][k].request
               PROVE  u = v /\ i = k
    BY DEF OneJobPerRequest
  <2>1. PICK m \in 1..Len(queue[u]) : /\ queue'[u][i] = queue[u][m]
                                      /\ IF u = w THEN m = i + 1 ELSE m = i
    BY <1>3
  <2>2. PICK n \in 1..Len(queue[v]) : /\ queue'[v][k] = queue[v][n]
                                      /\ IF v = w THEN n = k + 1 ELSE n = k
    BY <1>3
  <2>3. u = v /\ m = n
    BY <2>1, <2>2 DEF MadeInv, OneJobPerRequest
  <2> QED BY <2>1, <2>2, <2>3
<1>5. FreshUnknown'
  <2> SUFFICES ASSUME NEW q \in Requests, Fresh(q)'
               PROVE  /\ service'[q] = "none"
                      /\ \A v \in WorkerIds : \A i \in 1..Len(queue'[v]) : queue'[v][i].request # q
    BY DEF FreshUnknown
  <2> QED BY <1>2, <1>3 DEF MadeInv, FreshUnknown
<1>6. NotBegun'
  <2> SUFFICES ASSUME NEW v \in WorkerIds, NEW i \in 1..Len(queue'[v]),
                      i > 1 \/ stage'[v] \in {"idle", "connect"}
               PROVE  service[queue'[v][i].request] = "none"
    BY <1>2 DEF NotBegun
  <2>1. PICK k \in 1..Len(queue[v]) : /\ queue'[v][i] = queue[v][k]
                                      /\ IF v = w THEN k = i + 1 ELSE k = i
    BY <1>3
  <2>2. CASE v = w
    <3>1. k > 1
      BY <2>1, <2>2
    <3> QED BY <2>1, <2>2, <3>1 DEF MadeInv, NotBegun
  <2>3. CASE v # w
    <3>1. k = i /\ stage'[v] = stage[v]
      BY <1>0, <1>2, <2>1, <2>3
    <3> QED BY <2>1, <2>3, <3>1 DEF MadeInv, NotBegun
  <2> QED BY <2>2, <2>3
<1>7. GoodIsMade'
  <2>1. ASSUME NEW v \in WorkerIds, stage'[v] = "respond", result'[v] = 200
        PROVE  Good(Job(v).request)'
    <3>1. v # w /\ stage[v] = "respond" /\ result[v] = 200 /\ queue'[v] = queue[v]
      BY <1>0, <1>2, <2>1
    <3>2. Good(Job(v).request) /\ Job(v)' = Job(v)
      BY <3>1 DEF MadeInv, GoodIsMade, Job
    <3> QED BY <1>2, <3>2 DEF Good
  <2>2. result[w] = 200 => Good(j.request)
    BY <1>2 DEF MadeInv, GoodIsMade, j
  <2>3. ASSUME NEW d \in Conns, NEW i \in 1..Len(wire'[d])
        PROVE  wire'[d][i] = a \/ (i \in 1..Len(wire[d]) /\ wire'[d][i] = wire[d][i])
    <3>1. CASE d = j.conn /\ conns[j.conn] = "open"
      <4>1. wire'[d] = Append(wire[d], a) /\ wire[d] \in Seq(Answer)
        BY <1>0, <1>1, <1>2, <3>1
      <4> QED BY <1>a, <2>3, <4>1, Appended
    <3>2. CASE ~(d = j.conn /\ conns[j.conn] = "open")
      <4>1. wire'[d] = wire[d]
        BY <1>0, <1>2, <3>2
      <4> QED BY <2>3, <4>1
    <3> QED BY <3>1, <3>2
  <2>4. ASSUME NEW d \in Conns, NEW i \in 1..Len(wire'[d]), wire'[d][i].status = 200
        PROVE  Good(wire[d][i].request)'
    <3>1. Good(wire'[d][i].request)
      BY <1>2, <2>2, <2>3, <2>4 DEF MadeInv, GoodIsMade
    <3> QED BY <1>2, <3>1 DEF Good
  <2> QED BY <2>1, <2>4 DEF GoodIsMade
<1> QED BY <1>4, <1>5, <1>6, <1>7 DEF MadeInv
LEMMA MadeStep ==
  ASSUME ServerType, MadeInv, [AppServerNext]_serverVars,
         \A r \in Requests : Fresh(r)' => Fresh(r)
  PROVE  MadeInv'
<1>0. /\ wire \in [Conns -> Seq(Answer)] /\ queue \in [WorkerIds -> Seq(JobSet)]
      /\ stage \in [WorkerIds -> {"idle", "connect", "exchange", "respond"}]
      /\ result \in [WorkerIds -> Statuses \union {0}]
      /\ service \in [Requests -> {"none", "running", "finished", "lost"}]
      /\ upstream \in [Requests -> Statuses \union {0}]
  BY DEF ServerType, ServerTypeOK, JobSet, Answer
<1>g. GoodIsMade
  BY DEF MadeInv
<1>j. \A w \in WorkerIds : stage[w] # "idle" =>
        1 \in 1..Len(queue[w]) /\ Job(w) = queue[w][1] /\ Job(w).request \in Requests
  BY Jobs
(* What leaves the workers and the answers alone and undoes no finished request. *)
<1>f. ASSUME queue' = queue, stage' = stage, result' = result, wire' = wire,
             \A r \in Requests : service[r] = "none" => service'[r] = "none",
             \A r \in Requests : Good(r) => Good(r)'
      PROVE  MadeInv'
  <2>1. GoodIsMade'
    BY <1>f, <1>g, GoodFrame
  <2>2. \A w \in WorkerIds : stage'[w] \in {"idle", "connect"} => stage[w] \in {"idle", "connect"}
    BY <1>f
  <2> QED BY <1>f, <2>1, <2>2, MadeFrame
(* One worker's step to another stage. *)
<1>s. ASSUME NEW w \in WorkerIds, queue' = queue, wire' = wire, service' = service,
             upstream' = upstream,
             \A v \in WorkerIds \ {w} : stage'[v] = stage[v] /\ result'[v] = result[v],
             stage'[w] = "connect" => stage[w] = "idle", stage'[w] # "idle",
             stage'[w] = "respond" /\ result'[w] = 200 => Good(Job(w).request)
      PROVE  MadeInv'
  <2>1. GoodIsMade'
    <3>1. ASSUME NEW v \in WorkerIds, stage'[v] = "respond", result'[v] = 200
          PROVE  Good(Job(v).request)'
      <4>1. Good(Job(v).request)
        BY <1>g, <1>s, <3>1 DEF GoodIsMade
      <4> QED BY <1>s, <4>1 DEF Good, Job
    <3>2. ASSUME NEW c \in Conns, NEW i \in 1..Len(wire[c]), wire[c][i].status = 200
          PROVE  Good(wire[c][i].request)'
      BY <1>g, <1>s, <3>2 DEF GoodIsMade, Good
    <3> QED BY <1>s, <3>1, <3>2 DEF GoodIsMade
  <2>2. \A v \in WorkerIds : stage'[v] \in {"idle", "connect"} => stage[v] \in {"idle", "connect"}
    BY <1>s
  <2>3. \A r \in Requests : service[r] = "none" => service'[r] = "none"
    BY <1>s
  <2> QED BY <1>s, <2>1, <2>2, <2>3, MadeFrame
<1>d. ASSUME NEW w \in WorkerIds, NEW s, Decide(w, s), s = 200 => Good(Job(w).request)
      PROVE  MadeInv'
  <2>1. /\ queue' = queue /\ wire' = wire /\ service' = service /\ upstream' = upstream
        /\ \A v \in WorkerIds \ {w} : stage'[v] = stage[v] /\ result'[v] = result[v]
        /\ stage'[w] = "respond" /\ result'[w] = s
    BY <1>0, <1>d DEF Decide, connVars, serviceVars
  <2> QED BY <1>d, <2>1, <1>s
<1>1. ASSUME NEW r \in Requests, NEW c \in Conns, NEW e \in BOOLEAN,
             Receive(r, c, e) /\ Fresh(r) /\ ~Fresh(r)'
      PROVE  MadeInv'
  BY <1>1, ReceiveMade
<1>2. ASSUME NEW c \in Conns, Deliver(c) \/ GiveUp(c) PROVE MadeInv'
  <2>1. /\ queue' = queue /\ stage' = stage /\ result' = result /\ service' = service
        /\ upstream' = upstream
    BY <1>2 DEF Deliver, GiveUp, workerVars, serviceVars
  <2>2. \A d \in Conns : \A i \in 1..Len(wire'[d]) :
          \E k \in 1..Len(wire[d]) : wire'[d][i] = wire[d][k]
    <3>1. CASE Deliver(c)
      <4>1. wire' = [wire EXCEPT ![c] = Tail(@)] /\ wire[c] # <<>>
        BY <3>1 DEF Deliver
      <4>2. \A i \in 1..Len(Tail(wire[c])) : i + 1 \in 2..Len(wire[c]) /\ Tail(wire[c])[i] = wire[c][i + 1]
        BY <1>0, <4>1, Shifted
      <4>3. \A i \in 1..Len(wire'[c]) : \E k \in 1..Len(wire[c]) : wire'[c][i] = wire[c][k]
        BY <1>0, <4>1, <4>2
      <4>4. \A d \in Conns : d # c => wire'[d] = wire[d]
        BY <1>0, <4>1
      <4> QED BY <4>3, <4>4
    <3>2. CASE GiveUp(c)
      <4>1. wire' = [wire EXCEPT ![c] = <<>>]
        BY <3>2 DEF GiveUp
      <4> QED BY <1>0, <4>1
    <3> QED BY <1>2, <3>1, <3>2
  <2>3. GoodIsMade'
    <3>1. ASSUME NEW v \in WorkerIds, stage[v] = "respond", result[v] = 200
          PROVE  Good(Job(v).request)'
      <4>1. Good(Job(v).request)
        BY <1>g, <3>1 DEF GoodIsMade
      <4> QED BY <2>1, <4>1 DEF Good, Job
    <3>2. ASSUME NEW d \in Conns, NEW i \in 1..Len(wire'[d]), wire'[d][i].status = 200
          PROVE  Good(wire[d][i].request)'
      <4>0. PICK k \in 1..Len(wire[d]) : wire'[d][i] = wire[d][k]
        BY <2>2, <3>2
      <4>1. Good(wire'[d][i].request)
        BY <1>g, <3>2, <4>0 DEF GoodIsMade
      <4> QED BY <2>1, <4>1 DEF Good
    <3> QED BY <2>1, <3>1, <3>2 DEF GoodIsMade
  <2>4. /\ \A r \in Requests : service[r] = "none" => service'[r] = "none"
        /\ \A v \in WorkerIds : stage'[v] \in {"idle", "connect"} => stage[v] \in {"idle", "connect"}
    BY <2>1
  <2> QED BY <2>1, <2>3, <2>4, MadeFrame
<1>3. ASSUME (\E c \in Conns : CloseConn(c)) \/ ServiceRestart \/ Tick \/ UNCHANGED serverVars
      PROVE  MadeInv'
  <2>1. /\ queue' = queue /\ stage' = stage /\ result' = result /\ wire' = wire
        /\ service' = service /\ upstream' = upstream
    BY <1>3 DEF CloseConn, ServiceRestart, Tick, serverVars, connVars, workerVars, serviceVars
  <2>2. \A r \in Requests : Good(r) => Good(r)'
    BY <2>1 DEF Good
  <2> QED BY <2>1, <2>2, <1>f
<1>4. ASSUME NEW w \in WorkerIds, HandlerStart(w) PROVE MadeInv'
  <2>1. /\ queue' = queue /\ wire' = wire /\ service' = service /\ upstream' = upstream
        /\ stage[w] = "idle"
        /\ \/ stage' = [stage EXCEPT ![w] = "respond"] /\ result' = [result EXCEPT ![w] = 400]
           \/ stage' = [stage EXCEPT ![w] = "connect"] /\ result' = result
    BY <1>4 DEF HandlerStart, connVars, serviceVars
  <2>2. /\ \A v \in WorkerIds \ {w} : stage'[v] = stage[v] /\ result'[v] = result[v]
        /\ stage'[w] # "idle"
        /\ ~(stage'[w] = "respond" /\ result'[w] = 200)
    BY <1>0, <2>1
  <2> QED BY <2>1, <2>2, <1>s
<1>5. ASSUME NEW w \in WorkerIds, CurlFails(w) \/ CurlBroken(w) \/ CurlTimesOut(w) PROVE MadeInv'
  <2>1. Decide(w, 502)
    BY <1>5 DEF CurlFails, CurlBroken, CurlTimesOut
  <2> QED BY <2>1, <1>d
<1>6. ASSUME NEW w \in WorkerIds, CurlReturns(w) PROVE MadeInv'
  <2>1. Decide(w, upstream[Job(w).request]) /\ service[Job(w).request] = "finished"
    BY <1>6 DEF CurlReturns
  <2> QED BY <2>1, <1>d DEF Good
<1>7. ASSUME NEW w \in WorkerIds, CurlConnects(w) PROVE MadeInv'
  <2> DEFINE r == Job(w).request
  <2>1. /\ queue' = queue /\ wire' = wire /\ upstream' = upstream /\ result' = result
        /\ stage[w] = "connect" /\ stage' = [stage EXCEPT ![w] = "exchange"]
        /\ service' = [service EXCEPT ![r] = "running"]
    BY <1>7 DEF CurlConnects, connVars
  <2>2. 1 \in 1..Len(queue[w]) /\ r = queue[w][1].request /\ r \in Requests
    BY <1>j, <2>1
  <2> HIDE DEF r
  <2>3. service[r] = "none"
    BY <2>1, <2>2 DEF MadeInv, NotBegun
  <2>4. \A q \in Requests : Good(q) => q # r /\ Good(q)'
    BY <1>0, <2>1, <2>3 DEF Good
  <2>5. OneJobPerRequest'
    BY <2>1 DEF MadeInv, OneJobPerRequest
  <2>6. FreshUnknown'
    <3> SUFFICES ASSUME NEW q \in Requests, Fresh(q)'
                 PROVE  /\ service'[q] = "none"
                        /\ \A v \in WorkerIds : \A i \in 1..Len(queue[v]) : queue[v][i].request # q
      BY <2>1 DEF FreshUnknown
    <3>1. /\ service[q] = "none"
          /\ \A v \in WorkerIds : \A i \in 1..Len(queue[v]) : queue[v][i].request # q
      BY DEF MadeInv, FreshUnknown
    <3>2. q # r
      BY <2>2, <3>1
    <3> QED BY <1>0, <2>1, <3>1, <3>2
  <2>7. NotBegun'
    <3> SUFFICES ASSUME NEW v \in WorkerIds, NEW i \in 1..Len(queue[v]),
                        i > 1 \/ stage'[v] \in {"idle", "connect"}
                 PROVE  service'[queue[v][i].request] = "none"
      BY <2>1 DEF NotBegun
    <3>1. ~(v = w /\ i = 1)
      BY <1>0, <2>1
    <3>2. queue[v][i].request # r
      BY <2>2, <3>1 DEF MadeInv, OneJobPerRequest
    <3>3. service[queue[v][i].request] = "none" /\ queue[v][i].request \in Requests
      BY <1>0, <2>1, Jobs DEF MadeInv, NotBegun
    <3> QED BY <1>0, <2>1, <3>2, <3>3
  <2>8. GoodIsMade'
    <3>1. ASSUME NEW v \in WorkerIds, stage'[v] = "respond", result'[v] = 200
          PROVE  Good(Job(v).request)'
      <4>1. stage[v] = "respond" /\ result[v] = 200
        BY <1>0, <2>1, <3>1
      <4>2. Good(Job(v).request) /\ Job(v).request \in Requests /\ Job(v)' = Job(v)
        BY <1>g, <1>j, <2>1, <4>1 DEF GoodIsMade, Job
      <4>3. service'[Job(v).request] = "finished" /\ upstream'[Job(v).request] = 200
        BY <2>4, <4>2 DEF Good
      <4> QED BY <4>2, <4>3 DEF Good
    <3>2. ASSUME NEW c \in Conns, NEW i \in 1..Len(wire[c]), wire[c][i].status = 200
          PROVE  Good(wire[c][i].request)'
      <4>1. Good(wire[c][i].request) /\ wire[c][i].request \in Requests
        BY <1>g, <3>2, Answers DEF GoodIsMade
      <4> QED BY <2>1, <2>4, <4>1 DEF Good
    <3> QED BY <2>1, <3>1, <3>2 DEF GoodIsMade
  <2> QED BY <2>5, <2>6, <2>7, <2>8 DEF MadeInv
<1>8. ASSUME (\E r \in Requests : ServiceStep(r)) \/ ServiceCrash PROVE MadeInv'
  <2>1. /\ queue' = queue /\ stage' = stage /\ result' = result /\ wire' = wire
    BY <1>8 DEF ServiceStep, Finish, ServiceCrash, connVars, workerVars
  <2>2. \A q \in Requests : /\ service[q] = "none" => service'[q] = "none"
                            /\ Good(q) => Good(q)'
    <3>1. ASSUME NEW r \in Requests, ServiceStep(r), NEW q \in Requests
          PROVE  /\ service[q] = "none" => service'[q] = "none"
                 /\ Good(q) => Good(q)'
      BY <1>0, <3>1 DEF ServiceStep, Finish, Good
    <3>2. ASSUME ServiceCrash, NEW q \in Requests
          PROVE  /\ service[q] = "none" => service'[q] = "none"
                 /\ Good(q) => Good(q)'
      BY <1>0, <3>2 DEF ServiceCrash, Good
    <3> QED BY <1>8, <3>1, <3>2
  <2> QED BY <2>1, <2>2, <1>f
<1>9. ASSUME NEW w \in WorkerIds, Respond(w) PROVE MadeInv'
  BY <1>9, RespondMade
<1>10. ASSUME ServerCrash PROVE MadeInv'
  <2>1. /\ \A w \in WorkerIds : queue'[w] = <<>> /\ stage'[w] = "idle"
        /\ wire' = wire /\ service' = service /\ upstream' = upstream
    BY <1>10 DEF ServerCrash
  <2>2. OneJobPerRequest' /\ NotBegun'
    BY <2>1 DEF OneJobPerRequest, NotBegun
  <2>3. FreshUnknown'
    BY <2>1 DEF MadeInv, FreshUnknown
  <2>4. GoodIsMade'
    <3>1. ASSUME NEW c \in Conns, NEW i \in 1..Len(wire[c]), wire[c][i].status = 200
          PROVE  Good(wire[c][i].request)'
      BY <1>g, <2>1, <3>1 DEF GoodIsMade, Good
    <3> QED BY <2>1, <3>1 DEF GoodIsMade
  <2> QED BY <2>2, <2>3, <2>4 DEF MadeInv
<1> QED BY <1>1, <1>2, <1>3, <1>4, <1>5, <1>6, <1>7, <1>8, <1>9, <1>10
        DEF AppServerNext, ServerSteps, WorkerStep, Expire

(* The client takes for a request the answer to that request, and a good    *)
(* one only if the service made it (server.cpp:252-283).                    *)
THEOREM AnswersSound == Spec => []AnswersMatch
<1> DEFINE Inv == ServerType /\ OrderInv /\ MadeInv
<1>1. Init => Inv
  BY ServerTypeInit, OrderInitial, MadeInitial DEF Init
<1>2. PageTypeOK /\ Inv /\ [Next]_vars => Inv'
  BY ServerStep, AppServerStep, ServerTypeStep, OrderStep, MadeStep
<1>3. Inv => AnswersMatch
  <2> SUFFICES ASSUME Inv, NEW c \in Conns, NEW i \in DOMAIN wire[c]
               PROVE  /\ conns[c] = "open" => wire[c][i].request = using[c]
                      /\ wire[c][i].status = 200 =>
                           /\ service[wire[c][i].request] = "finished"
                           /\ upstream[wire[c][i].request] = 200
    BY DEF AnswersMatch
  <2>1. i \in 1..Len(wire[c])
    BY Answers, LenProperties
  <2>2. conns[c] = "open" => wire[c][i].request = using[c]
    <3> SUFFICES ASSUME conns[c] = "open" PROVE wire[c][i].request = using[c]
      OBVIOUS
    <3>1. wire[c] = <<>> \/ (Len(wire[c]) = 1 /\ wire[c][1].request = using[c])
      BY DEF OrderInv, OneAnswer
    <3>2. wire[c] # <<>>
      BY <2>1
    <3> QED BY <2>1, <3>1, <3>2
  <2> QED BY <2>1, <2>2 DEF MadeInv, GoodIsMade, Good
<1>4. Spec => []PageTypeOK
  BY AppImplementsPage, PageTypeCorrect, PTL
<1> QED BY <1>1, <1>2, <1>3, <1>4, PTL DEF Spec
=============================================================================

-------------------------------- MODULE Page --------------------------------
(***************************************************************************)
(* The page of the application, app.js: the chosen picture, the object     *)
(* URLs made for it and for its restoration, the result panel, the         *)
(* download link and the restore button.  restoreImage is asynchronous: it *)
(* gives up the thread at each await, and the user may choose another      *)
(* picture, start again or ask for a second restoration in between.        *)
(*                                                                         *)
(* An object URL is a number, given out once; blobs says what it was made  *)
(* of.  The status line, the sliders and the layout are left out, and so   *)
(* is the input panel, which always shows inputUrl.                        *)
(***************************************************************************)
EXTENDS Naturals, Sequences

CONSTANTS Pictures,
          Nothing,    \* null, for selectedFile
          MaxCalls,   \* bound: calls of restoreImage
          MaxChoices  \* bound: pictures chosen

ASSUME PageAssumption == /\ Nothing \notin Pictures
                         /\ MaxCalls \in Nat /\ MaxChoices \in Nat

Calls == 1..MaxCalls
None == 0     \* null, for a URL

VARIABLES selectedFile, inputUrl, resultUrl,
          blobs,          \* what each URL was made of: [of, restored]
          live,           \* URLs made and not revoked
          resultBody,     \* the result panel: [shows, before, after]
          downloadLink,   \* the URL it leads to
          restoreEnabled, \* restoreButton is not disabled
          calls           \* each call of restoreImage: [at, picture, current]

pageVars == <<selectedFile, inputUrl, resultUrl, blobs, live, resultBody,
              downloadLink, restoreEnabled, calls>>

Stages == {"unused", "reading", "sent", "head", "error", "done"}
InFlight(n) == calls[n].at \in {"reading", "sent", "head", "error"}

Panel(what) == [shows |-> what, before |-> None, after |-> None]

PageInit ==
  /\ selectedFile = Nothing /\ inputUrl = None /\ resultUrl = None
  /\ blobs = <<>> /\ live = {}
  /\ resultBody = Panel("placeholder") /\ downloadLink = None
  /\ restoreEnabled = FALSE
  /\ calls = [n \in Calls |-> [at |-> "unused", picture |-> Nothing, current |-> FALSE]]

NewUrl == Len(blobs) + 1
Made(p, restored) == Append(blobs, [of |-> p, restored |-> restored])
Choices == Len(SelectSeq(blobs, LAMBDA b : ~b.restored))
Move(n, to) == [calls EXCEPT ![n].at = to]
Over(n) == [calls EXCEPT ![n] = [at |-> "done", picture |-> Nothing, current |-> FALSE]]
(* current is a history variable: the selection is still the one of the click. *)
Outdated == [n \in Calls |-> [calls[n] EXCEPT !.current = FALSE]]

-----------------------------------------------------------------------------
(* The user. *)

(* A file that is no image changes nothing but the status line. *)
Choose(p) ==
  /\ Choices < MaxChoices
  /\ selectedFile' = p /\ blobs' = Made(p, FALSE)
  /\ inputUrl' = NewUrl /\ resultUrl' = None
  /\ live' = (live \ {inputUrl, resultUrl}) \union {NewUrl}
  /\ resultBody' = Panel("placeholder") /\ downloadLink' = None
  /\ restoreEnabled' = TRUE /\ calls' = Outdated

(* clearButton is enabled while a picture is chosen. *)
ClearAll ==
  /\ selectedFile # Nothing
  /\ selectedFile' = Nothing /\ inputUrl' = None /\ resultUrl' = None
  /\ live' = live \ {inputUrl, resultUrl}
  /\ resultBody' = Panel("placeholder") /\ downloadLink' = None
  /\ restoreEnabled' = FALSE /\ calls' = Outdated
  /\ UNCHANGED blobs

(* restoreImage up to its first await, the reading of the file. *)
Click(n) ==
  /\ restoreEnabled /\ selectedFile # Nothing
  /\ calls[n].at = "unused" /\ \A m \in 1..(n - 1) : calls[m].at # "unused"
  /\ restoreEnabled' = FALSE
  /\ resultBody' = Panel("busy") /\ downloadLink' = None
  /\ calls' = [calls EXCEPT ![n] = [at |-> "reading", picture |-> selectedFile, current |-> TRUE]]
  /\ UNCHANGED <<selectedFile, inputUrl, resultUrl, blobs, live>>

-----------------------------------------------------------------------------
(* restoreImage goes on. *)

FileRead(n) ==
  /\ calls[n].at = "reading" /\ calls' = Move(n, "sent")
  /\ UNCHANGED <<selectedFile, inputUrl, resultUrl, blobs, live, resultBody,
                 downloadLink, restoreEnabled>>

(* The head of the answer: response.ok or not. *)
Answered(n, ok) ==
  /\ calls[n].at = "sent" /\ calls' = Move(n, IF ok THEN "head" ELSE "error")
  /\ UNCHANGED <<selectedFile, inputUrl, resultUrl, blobs, live, resultBody,
                 downloadLink, restoreEnabled>>

(* Mutation: the URL of the result before is not revoked. *)
CompleteKeeping(n) ==
  /\ calls[n].at = "head" /\ calls' = Over(n)
  /\ blobs' = Made(calls[n].picture, TRUE) /\ resultUrl' = NewUrl
  /\ live' = live \union {NewUrl}
  /\ resultBody' = [shows |-> "comparison", before |-> inputUrl, after |-> NewUrl]
  /\ downloadLink' = NewUrl
  /\ restoreEnabled' = (selectedFile # Nothing)
  /\ UNCHANGED <<selectedFile, inputUrl>>

(* The body of a good answer has come. *)
Complete(n) ==
  /\ calls[n].at = "head" /\ calls' = Over(n)
  /\ blobs' = Made(calls[n].picture, TRUE) /\ resultUrl' = NewUrl
  /\ live' = (live \ {resultUrl}) \union {NewUrl}
  /\ resultBody' = [shows |-> "comparison", before |-> inputUrl, after |-> NewUrl]
  /\ downloadLink' = NewUrl
  /\ restoreEnabled' = (selectedFile # Nothing)
  /\ UNCHANGED <<selectedFile, inputUrl>>

(* Mutation: the panel is left as it is. *)
FailQuietly(n) ==
  /\ InFlight(n) /\ calls' = Over(n)
  /\ restoreEnabled' = (selectedFile # Nothing)
  /\ UNCHANGED <<selectedFile, inputUrl, resultUrl, blobs, live, resultBody, downloadLink>>

(* Mutation: a call that fails tries again. *)
FailRetry(n) ==
  /\ InFlight(n) /\ calls' = Move(n, "reading")
  /\ UNCHANGED <<selectedFile, inputUrl, resultUrl, blobs, live, resultBody,
                 downloadLink, restoreEnabled>>

(* The catch clause: an answer that is not ok, or an await that throws. *)
Fail(n) ==
  /\ InFlight(n) /\ calls' = Over(n)
  /\ resultBody' = Panel("placeholder")
  /\ restoreEnabled' = (selectedFile # Nothing)
  /\ UNCHANGED <<selectedFile, inputUrl, resultUrl, blobs, live, downloadLink>>

User == \/ \E p \in Pictures : Choose(p)
        \/ ClearAll
        \/ \E n \in Calls : Click(n)

PageNext == \/ User
            \/ \E n \in Calls : \/ FileRead(n) \/ Complete(n) \/ Fail(n)
                                \/ \E ok \in BOOLEAN : Answered(n, ok)

(* The page with any server. *)
PageSpec == PageInit /\ [][PageNext]_pageVars

-----------------------------------------------------------------------------
(* Type invariant. *)
PageTypeOK ==
  /\ selectedFile \in Pictures \union {Nothing}
  /\ inputUrl \in Nat /\ resultUrl \in Nat /\ downloadLink \in Nat
  /\ blobs \in Seq([of : Pictures, restored : BOOLEAN])
  /\ live \subseteq 1..Len(blobs)
  /\ resultBody \in [shows : {"placeholder", "busy", "comparison"}, before : Nat, after : Nat]
  /\ restoreEnabled \in BOOLEAN
  /\ calls \in [Calls -> [at : Stages, picture : Pictures \union {Nothing}, current : BOOLEAN]]

(* The URLs that are not revoked are the two the page keeps, whatever was   *)
(* chosen, cleared and answered in which order: none leaks, and neither the *)
(* comparison nor the link leads to one that was revoked (app.js:182-220,   *)
(* 262-268).                                                                *)
UrlsExact == live = {inputUrl, resultUrl} \ {None}
NothingRevokedShown ==
  {resultBody.before, resultBody.after, downloadLink} \subseteq live \union {None}
ObjectUrlsSound == UrlsExact /\ NothingRevokedShown

(* A panel that says it is busy has a request that will end it, made for    *)
(* the picture that is chosen (app.js:235-238, 270-279).                    *)
BusyHasRequest ==
  resultBody.shows = "busy" =>
    \E n \in Calls : InFlight(n) /\ calls[n].current /\ calls[n].picture = selectedFile

(* app.js:101,110,118: the comparison shows an original image before and    *)
(* its restored image after.  Not so when an answer comes after the         *)
(* selection has changed.                                                   *)
ComparisonMatches ==
  resultBody.shows = "comparison" =>
    /\ resultBody.before # None
    /\ blobs[resultBody.before].of = blobs[resultBody.after].of
=============================================================================

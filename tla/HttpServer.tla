----------------------------- MODULE HttpServer -----------------------------
(***************************************************************************)
(* The parser of requests (http_context.cpp) and the message callback      *)
(* around it (HttpServer::_OnMessage), on a Buffer: bytes arrive in pieces *)
(* cut anywhere, and the parser goes on where it stopped.                  *)
(*                                                                         *)
(* A byte of the model is a carriage return, a newline, or a text that     *)
(* stands for the visible part of a line; a line's length is counted in    *)
(* these.  Lines gives the request lines the regular expression matches,   *)
(* with their method, version and what the server has under their path.    *)
(* Values of headers are in the names: "length" is Content-Length of       *)
(* BodyLength, "keepalive" and "close" are Connection's two, "chunked" is  *)
(* Transfer-Encoding; "field" is any other and "nocolon" is not a header.  *)
(***************************************************************************)
EXTENDS Buffer, SequencesExt

CONSTANTS Messages,   \* what a client may send: [line, headers, body]
          MaxMessages,
          Lines,      \* [text -> [method, version, target]]
          Return,     \* the carriage return
          BodyLength, MaxLine

Headers == {"length", "keepalive", "close", "chunked", "field"}

(* The limit of a line is larger than a line of one text and its CR: what   *)
(* happens at the limit is LimitKept's, below.                              *)
ASSUME HttpAssumption ==
  /\ Return \in Bytes \ {Newline} /\ MaxLine \in Nat \ {0, 1} /\ BodyLength \in Nat \ {0}
  /\ MaxMessages \in Nat
  /\ Lines \in [DOMAIN Lines -> [method : STRING, version : {"1.0", "1.1"},
                                 target : {"file", "route", "nothing"}]]

VARIABLES script,   \* the messages the client sends
          rest,     \* their bytes that have not arrived
          accept,   \* _accept_status: "line", "headers", "body", "accepted", "error"
          status,   \* _response_status
          request,  \* _request
          phase,    \* _OnMessage: "idle", "turn" (at its loop), "parse", "closed"
          closing,  \* Close was called
          answers   \* history: what was sent

contextVars == <<accept, status, request>>
vars == <<bufferVars, script, rest, contextVars, phase, closing, answers>>

CRLF == <<Return, Newline>>
Render(m) == m.line \o CRLF \o FlattenSeq([i \in DOMAIN m.headers |-> m.headers[i] \o CRLF])
               \o CRLF \o m.body

Requests  == [line : Seq(Bytes), headers : SUBSET Headers, body : Seq(Bytes)]
NoRequest == [line |-> <<>>, headers |-> {}, body |-> <<>>]

Init ==
  /\ BufferInit
  /\ \E n \in 1..MaxMessages : script \in [1..n -> Messages]
  /\ rest = FlattenSeq([i \in DOMAIN script |-> Render(script[i])])
  /\ accept = "line" /\ status = 200 /\ request = NoRequest
  /\ phase = "idle" /\ closing = FALSE /\ answers = <<>>

-----------------------------------------------------------------------------
(* The loop reads what has come into the input buffer and submits the       *)
(* callback; it does not read again before that has ended (Connection).     *)
Arrive ==
  /\ phase = "idle"
  /\ \E n \in 1..Len(rest) :
       /\ Write(SubSeq(rest, 1, n))
       /\ rest' = SubSeq(rest, n + 1, Len(rest))
  /\ phase' = "turn"
  /\ UNCHANGED <<script, contextVars, closing, answers>>

Quiet == IF closing THEN "closed" ELSE "idle"

TurnBegins ==
  /\ phase = "turn"
  /\ phase' = IF ReadableSize > 0 THEN "parse" ELSE Quiet
  /\ UNCHANGED <<bufferVars, script, rest, contextVars, closing, answers>>

-----------------------------------------------------------------------------
(* HttpContext::ParseRequest falls through from one stage to the next.      *)

Parsing(stage) ==
  /\ phase = "parse" /\ accept = stage
  /\ UNCHANGED <<script, rest, closing, answers>>

(* The callback returns: more has to come. *)
WaitForMore == phase' = Quiet /\ UNCHANGED contextVars

Refuse(s) == /\ accept' = "error" /\ status' = s
             /\ UNCHANGED <<request, phase>>

Text(line) == IF line[Len(line)] = Return THEN SubSeq(line, 1, Len(line) - 1) ELSE line
Known(text, names) == Len(text) = 1 /\ text[1] \in names

(* ReadLine returns nothing for a line that is not complete, and for an     *)
(* empty one, which it takes.                                               *)
NoLine == /\ answer' = <<>>
          /\ \/ ReadableSize' <= MaxLine /\ WaitForMore
             \/ ReadableSize' > MaxLine /\ Refuse(414)

ParseRequestLine ==
  /\ Parsing("line")
  /\ ReadLine(FALSE)
  /\ \/ NoLine
     \/ /\ answer' # <<>>
        /\ LET text == Text(answer')
           IN  \/ Len(text) > MaxLine /\ Refuse(414)
               \/ Len(text) <= MaxLine /\ ~Known(text, DOMAIN Lines) /\ Refuse(400)
               \/ /\ Len(text) <= MaxLine /\ Known(text, DOMAIN Lines)
                  /\ request' = [request EXCEPT !.line = text]
                  /\ accept' = "headers"
                  /\ UNCHANGED <<status, phase>>

(* One header, or the line that ends them.  The value of a header that is   *)
(* given again replaces the first.                                          *)
SetHeader(h) ==
  request' = [request EXCEPT !.headers =
                {h} \union (IF h \in {"keepalive", "close"} THEN @ \ {"keepalive", "close"} ELSE @)]

ParseHeader ==
  /\ Parsing("headers")
  /\ ReadLine(FALSE)
  /\ \/ NoLine
     \/ /\ answer' # <<>>
        /\ LET text == Text(answer')
           IN  \/ text = <<>> /\ accept' = "body" /\ UNCHANGED <<status, request, phase>>
               \/ Len(text) > MaxLine /\ Refuse(414)
               \/ text # <<>> /\ Len(text) <= MaxLine /\ ~Known(text, Headers) /\ Refuse(400)
               \/ /\ Len(text) <= MaxLine /\ Known(text, Headers)
                  /\ SetHeader(text[1])
                  /\ UNCHANGED <<accept, status, phase>>

GetBodyLength == IF "length" \in request.headers THEN BodyLength ELSE 0

(* Mutation: a body whose last byte is the last that came is not complete. *)
ParseBodyLate ==
  /\ Parsing("body")
  /\ LET left == GetBodyLength - Len(request.body)
     IN  \/ /\ "chunked" \in request.headers
            /\ Refuse(501) /\ UNCHANGED bufferVars
         \/ /\ "chunked" \notin request.headers
            /\ Read(IF ReadableSize > left \/ left = 0 THEN left ELSE ReadableSize)
            /\ request' = [request EXCEPT !.body = @ \o answer']
            /\ \/ (ReadableSize > left \/ left = 0) /\ accept' = "accepted" /\ UNCHANGED phase
               \/ ReadableSize <= left /\ left > 0 /\ UNCHANGED accept /\ phase' = Quiet
            /\ UNCHANGED status

ParseBody ==
  /\ Parsing("body")
  /\ LET left == GetBodyLength - Len(request.body)
     IN  \/ /\ "chunked" \in request.headers
            /\ Refuse(501) /\ UNCHANGED bufferVars
         \/ /\ "chunked" \notin request.headers
            /\ Read(IF ReadableSize >= left THEN left ELSE ReadableSize)
            /\ request' = [request EXCEPT !.body = @ \o answer']
            /\ \/ ReadableSize >= left /\ accept' = "accepted" /\ UNCHANGED phase
               \/ ReadableSize < left /\ UNCHANGED accept /\ phase' = Quiet
            /\ UNCHANGED status

-----------------------------------------------------------------------------
(* The answer. *)

(* _HandleRequest: a file, a route's handler, which may throw, or none. *)
Statuses(r) ==
  LET line == Lines[r.line[1]]
  IN  CASE line.target = "file" /\ line.method \in {"GET", "HEAD"} -> {200, 500}
        [] line.method \notin {"GET", "POST", "PUT", "DELETE"}     -> {405}
        [] line.target = "route"                                   -> {200, 500}
        [] OTHER                                                   -> {404}

(* _GetErrorResponse has three pages. *)
ErrorPage(s) == IF s \in {404, 405} THEN s ELSE 500

IsKeepAlive(r) == \/ "keepalive" \in r.headers
                  \/ "close" \notin r.headers /\ Lines[r.line[1]].version = "1.1"

(* Mutation: a request's headers stay for the next one. *)
ResetLine == accept' = "line" /\ status' = 200 /\ request' = [request EXCEPT !.line = <<>>, !.body = <<>>]

Reset == accept' = "line" /\ status' = 200 /\ request' = NoRequest

(* Send drops what is sent after Close. *)
SendResponse(a) == answers' = IF closing THEN answers ELSE Append(answers, a)

(* Close runs the callback once more for what is left (Connection). *)
CloseConn == /\ phase' = IF ~closing /\ ReadableSize' > 0 THEN "turn" ELSE "closed"
             /\ closing' = TRUE

Respond ==
  /\ phase = "parse" /\ accept = "accepted"
  /\ \E s \in Statuses(request) : SendResponse([status |-> s, reason |-> s, request |-> request])
  /\ Reset /\ UNCHANGED <<bufferVars, script, rest>>
  /\ \/ IsKeepAlive(request) /\ phase' = "turn" /\ UNCHANGED closing
     \/ ~IsKeepAlive(request) /\ CloseConn

RespondError ==
  /\ phase = "parse" /\ accept = "error"
  /\ SendResponse([status |-> ErrorPage(status), reason |-> status, request |-> NoRequest])
  /\ Reset /\ Clear /\ CloseConn
  /\ UNCHANGED <<script, rest>>

OnMessage == TurnBegins \/ ParseRequestLine \/ ParseHeader \/ ParseBody \/ Respond \/ RespondError

Next == Arrive \/ OnMessage

Spec == Init /\ [][Next]_vars

-----------------------------------------------------------------------------
(* Type invariant. *)
TypeOK ==
  /\ BufferTypeOK
  /\ rest \in Seq(Bytes)
  /\ accept \in {"line", "headers", "body", "accepted", "error"}
  /\ status \in {200, 400, 414, 501}
  /\ request \in Requests
  /\ phase \in {"idle", "turn", "parse", "closed"} /\ closing \in BOOLEAN
  /\ answers \in Seq([status : Nat, reason : Nat, request : Requests])

-----------------------------------------------------------------------------
(* What the client of a script may expect, from its messages and not from   *)
(* their bytes: an answer to each, up to the first that is refused or that  *)
(* closes the connection.                                                   *)
Meant(m) == [line |-> m.line, headers |-> {m.headers[i][1] : i \in DOMAIN m.headers},
             body |-> m.body]
Good(m) == /\ Known(m.line, DOMAIN Lines)
           /\ \A i \in DOMAIN m.headers : Known(m.headers[i], Headers \ {"chunked"})

(* A client ends its lines and no others, gives a body the length it says,  *)
(* and does not ask for both kinds of connection.                           *)
Has(m, h) == \E i \in DOMAIN m.headers : m.headers[i] = <<h>>
ASSUME ClientAssumption ==
  \A m \in Messages :
    /\ m.line \in Seq(Bytes \ {Newline}) /\ m.body \in Seq(Bytes)
    /\ m.headers \in Seq(Seq(Bytes \ {Newline}) \ {<<>>})
    /\ Good(m) => Len(m.body) = IF Has(m, "length") THEN BodyLength ELSE 0
    /\ ~(Has(m, "keepalive") /\ Has(m, "close"))

Outcome(m) == IF Good(m) THEN Meant(m) ELSE NoRequest
Ends(m) == Good(m) => ~IsKeepAlive(Meant(m))
Expected == LET open == {i \in DOMAIN script : \A j \in 1..(i - 1) : ~Ends(script[j])}
            IN  [i \in open |-> Outcome(script[i])]

(* The requests found are the ones that were sent, each with its headers    *)
(* and body, whatever the cuts and however many come together.              *)
RequestsFramed ==
  /\ Len(answers) <= Len(Expected)
  /\ \A i \in DOMAIN answers : answers[i].request = Expected[i]

(* When all has arrived and the callback has returned, all are answered: no *)
(* request waits in the buffer for bytes that need not come.                *)
AllAnswered ==
  rest = <<>> /\ phase \in {"idle", "closed"} => Len(answers) = Len(Expected)

(* http_context.cpp:24-26, 38-40: 414 is the answer to a line longer than   *)
(* the limit.                                                               *)
Short(m) == Len(m.line) <= MaxLine /\ \A i \in DOMAIN m.headers : Len(m.headers[i]) <= MaxLine
LimitKept ==
  \A i \in DOMAIN answers : Short(script[i]) => answers[i].reason # 414
=============================================================================

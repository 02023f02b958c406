---------------------------- MODULE RequestTarget ----------------------------
(***************************************************************************)
(* What the HTTP server makes of the target of a request: its path and     *)
(* query (http_context.cpp), the static file or the handler it leads to    *)
(* (http_server.cpp, utils.cpp), and the query that the restore server     *)
(* sends on to the Python service (server.cpp).                            *)
(*                                                                         *)
(* A text is a sequence of character codes.  A client writes a target      *)
(* piece by piece and asks for it at any length.                           *)
(***************************************************************************)
EXTENDS Integers, Sequences, SequencesExt

CONSTANTS PathPieces, QueryPieces, Starts, MaxPieces,   \* bounds: the texts
          Root, Dirs, Files,  \* the file system: paths, as sequences of names
          Routes,             \* the paths each of Methods has a handler for
          ForwardedParams     \* forwarded_params, in their order

Codes == 0..255
Text == Seq(Codes)
Paths == Seq(Text)
Methods == {"GET", "POST", "PUT", "DELETE"}   \* what the server begins with

(* The root of the site is a directory, but not the root of the file system. *)
ASSUME TargetAssumption ==
  /\ MaxPieces \in Nat /\ PathPieces \union QueryPieces \union Starts \subseteq Text
  /\ ForwardedParams \in Seq(Text) /\ Routes \in [Methods -> SUBSET Text]
  /\ Dirs \subseteq Paths /\ <<>> \in Dirs /\ \A d \in Dirs \ {<<>>} : Front(d) \in Dirs
  /\ Root \in Dirs \ {<<>>} /\ Files \subseteq Paths /\ Files \intersect Dirs = {}

VARIABLES text, pieces,
          answer   \* to the last request: [method, status, file], file <<>> for none

vars == <<text, pieces, answer>>

Slash == 47   Dot == 46   Percent == 37   Plus == 43   Space == 32
Question == 63   Ampersand == 38   Equals == 61   Nul == 0
Index == <<105, 110, 100, 101, 120>>   \* index.html

-----------------------------------------------------------------------------
(* utils.cpp *)

Split(s, delimiter) ==
  FoldLeft(LAMBDA parts, ch : IF ch = delimiter THEN Append(parts, <<>>)
                              ELSE [parts EXCEPT ![Len(parts)] = Append(@, ch)],
           << <<>> >>, s)

IsAlnum(ch) == ch \in (48..57) \union (65..90) \union (97..122)
Unreserved(ch) == IsAlnum(ch) \/ ch \in {45, 95, Dot, 126}

HexDigit(n) == IF n < 10 THEN 48 + n ELSE 55 + n
HexValue(ch) == CASE ch \in 48..57 -> ch - 48 [] ch \in 65..70 -> ch - 55
                  [] ch \in 97..102 -> ch - 87 [] OTHER -> -1

Encoded(ch, spaceAsPlus) ==
  IF Unreserved(ch) THEN <<ch>>
  ELSE IF ch = Space /\ spaceAsPlus THEN <<Plus>>
  ELSE <<Percent, HexDigit(ch \div 16), HexDigit(ch % 16)>>

UrlEncode(s, spaceAsPlus) ==
  FoldLeft(LAMBDA result, ch : result \o Encoded(ch, spaceAsPlus), <<>>, s)

IsEscape(s, i) == /\ s[i] = Percent /\ i + 2 <= Len(s)
                  /\ HexValue(s[i + 1]) >= 0 /\ HexValue(s[i + 2]) >= 0

UrlDecode(s, plusAsSpace) ==
  LET from[i \in 1..(Len(s) + 1)] ==
        IF i > Len(s) THEN <<>>
        ELSE IF IsEscape(s, i)
               THEN <<16 * HexValue(s[i + 1]) + HexValue(s[i + 2])>> \o from[i + 3]
               ELSE <<IF s[i] = Plus /\ plusAsSpace THEN Space ELSE s[i]>> \o from[i + 1]
  IN  from[1]

(* The level after a part, -1 once a part led above the root. *)
Level(level, part) ==
  IF level = -1 \/ part \in {<<>>, <<Dot>>} THEN level
  ELSE IF part = <<Dot, Dot>> THEN level - 1 ELSE level + 1

(* Mutation: only where the path ends counts. *)
IsValidPathAtEnd(path) ==
  /\ path # <<>> /\ path[1] = Slash
  /\ FoldLeft(LAMBDA level, part : IF part \in {<<>>, <<Dot>>} THEN level
                                   ELSE IF part = <<Dot, Dot>> THEN level - 1 ELSE level + 1,
              0, Split(path, Slash)) >= 0

IsValidPath(path) ==
  /\ path # <<>> /\ path[1] = Slash
  /\ FoldLeft(Level, 0, Split(path, Slash)) # -1

-----------------------------------------------------------------------------
(* http_context.cpp: the path and the query of a target. *)

Cut(s, ch) == LET i == SelectInSeq(s, LAMBDA c : c = ch)
              IN  IF i = 0 THEN <<s, <<>>>> ELSE <<SubSeq(s, 1, i - 1), SubSeq(s, i + 1, Len(s))>>

(* Mutation: the path is decoded again. *)
UriTwice(target) == UrlDecode(UrlDecode(Cut(target, Question)[1], FALSE), FALSE)

Uri(target) == UrlDecode(Cut(target, Question)[1], FALSE)

(* A later parameter replaces an earlier one of the same name. *)
Put(params, key, value) ==
  [k \in DOMAIN params \union {key} |-> IF k = key THEN value ELSE params[k]]

AddParam(params, param) ==
  IF param = <<>> THEN params
  ELSE LET cut == Cut(param, Equals)
       IN  Put(params, UrlDecode(cut[1], TRUE), UrlDecode(cut[2], TRUE))

QueryParams(target) ==
  FoldLeft(AddParam, <<>>, Split(Cut(target, Question)[2], Ampersand))

-----------------------------------------------------------------------------
(* server.cpp: AppendQueryParam, in the loop of ForwardRestoreRequest.      *)
(* curl_easy_escape encodes as UrlEncode does, a space as %20.              *)

(* Mutation: names and values are appended as they are. *)
AppendUnescaped(url, key, value) ==
  url \o <<IF Contains(url, Question) THEN Ampersand ELSE Question>>
      \o key \o <<Equals>> \o value

AppendQueryParam(url, key, value) ==
  url \o <<IF Contains(url, Question) THEN Ampersand ELSE Question>>
      \o UrlEncode(key, FALSE) \o <<Equals>> \o UrlEncode(value, FALSE)

ForwardedUrl(target) ==
  LET params == QueryParams(target)
  IN  FoldLeft(LAMBDA url, key : IF key \in DOMAIN params
                                   THEN AppendQueryParam(url, key, params[key]) ELSE url,
               <<Slash>>, ForwardedParams)

-----------------------------------------------------------------------------
(* The file system (external): a path is walked from a directory. *)
Nowhere == << <<-1>> >>
Step(at, name) ==
  IF at \notin Dirs THEN Nowhere
  ELSE IF name \in {<<>>, <<Dot>>} THEN at
  ELSE IF name = <<Dot, Dot>> THEN IF at = <<>> THEN at ELSE Front(at)
  ELSE Append(at, name)
Walk(names) == FoldLeft(Step, Root, names)

(* http_server.cpp *)

(* static_root + request.uri, and index.html for what ends in a slash. *)
FilePath(uri) == IF Last(uri) = Slash THEN uri \o Index ELSE uri

(* A system call takes a text as far as its first NUL. *)
CString(s) == Cut(s, Nul)[1]
Names(uri) == Split(CString(FilePath(uri)), Slash)

IsStaticResource(method, uri) ==
  /\ method \in {"GET", "HEAD"} /\ IsValidPath(uri) /\ Walk(Names(uri)) \in Files

(* _FindHandler and _GetErrorResponse. *)
HandlerStatus(method, uri) ==
  IF method \notin Methods THEN 405
  ELSE IF uri \in Routes[method] THEN 200 ELSE 404

Request(method) ==
  LET uri == Uri(text)
  IN  \/ /\ IsStaticResource(method, uri)
         /\ \E status \in {200, 500} :   \* read, or not readable
              answer' = [method |-> method, status |-> status, file |-> Walk(Names(uri))]
      \/ /\ ~IsStaticResource(method, uri)
         /\ answer' = [method |-> method, status |-> HandlerStatus(method, uri), file |-> <<>>]

HandleRequest ==
  /\ answer.method = "" /\ \E method \in {"GET", "HEAD", "POST"} : Request(method)
  /\ UNCHANGED <<text, pieces>>

-----------------------------------------------------------------------------
Unanswered == [method |-> "", status |-> 0, file |-> <<>>]

Write == /\ pieces < MaxPieces /\ pieces' = pieces + 1
         /\ \E piece \in IF Contains(text, Question) THEN QueryPieces ELSE PathPieces :
              text' = text \o piece
         /\ answer' = Unanswered

Init == text \in Starts /\ pieces = 0 /\ answer = Unanswered

Next == Write \/ HandleRequest

Spec == Init /\ [][Next]_vars

-----------------------------------------------------------------------------
(* Type invariant. *)
TypeOK == /\ text \in Text /\ pieces \in 0..MaxPieces
          /\ answer \in [method : {"", "GET", "HEAD", "POST"}, status : Nat, file : Paths]

(* Where the path leads, from the root of the site and without leaving it   *)
(* on the way.                                                              *)
Inside(names) == \A n \in 0..Len(names) : IsPrefix(Root, Walk(SubSeq(names, 1, n)))

LeadsToFile(uri) == /\ uri # <<>> /\ uri[1] = Slash
                    /\ Inside(Names(uri)) /\ Walk(Names(uri)) \in Files

(* A GET or HEAD is answered with a file only if its path leads to that file *)
(* without leaving the root, and always if it does, except for a path with  *)
(* a NUL: counting levels is as good as walking, whether or not the         *)
(* directories on the way exist (utils.cpp:323-353,                         *)
(* http_server.cpp:200-230).                                                *)
ServedExactly ==
  answer.method \in {"GET", "HEAD"} =>
    LET uri == Uri(text)
    IN  /\ answer.file # <<>> => LeadsToFile(uri) /\ answer.file = Walk(Names(uri))
        /\ LeadsToFile(uri) /\ ~Contains(uri, Nul) => answer.file # <<>>

(* What a text says, read off it character by character: an escape is a     *)
(* percent sign with two digits and says one character, the digits of an    *)
(* escape nothing more, and every other character, a stray percent sign     *)
(* too, says itself.                                                        *)
DigitIs(ch, n) == ch = HexDigit(n) \/ (n >= 10 /\ ch = HexDigit(n) + 32)   \* or lower case
DigitOf(ch) == CHOOSE n \in 0..15 : DigitIs(ch, n)
Escapes(s) == {i \in 1..(Len(s) - 2) :
                 s[i] = Percent /\ \A j \in {i + 1, i + 2} : \E n \in 0..15 : DigitIs(s[j], n)}
Says(s, plusAsSpace, i) ==
  IF {i - 1, i - 2} \intersect Escapes(s) # {} THEN <<>>
  ELSE IF i \in Escapes(s) THEN <<16 * DigitOf(s[i + 1]) + DigitOf(s[i + 2])>>
  ELSE <<IF s[i] = Plus /\ plusAsSpace THEN Space ELSE s[i]>>
Reading(s, plusAsSpace) ==
  FoldLeft(LAMBDA read, said : read \o said, <<>>, [i \in 1..Len(s) |-> Says(s, plusAsSpace, i)])

(* The path, and each name and value of the query, are decoded once, from   *)
(* what was sent: an escape that an escape made is left alone, a percent    *)
(* sign without two digits stands for itself wherever it is, and a          *)
(* separator that was escaped separates nothing.  Of several values of a    *)
(* name the last counts (utils.cpp:251-276, http_context.cpp:52-84).        *)
DecodedOnce ==
  LET cut == Cut(text, Question)
      parts == Split(cut[2], Ampersand)
      sent == {k \in DOMAIN parts : parts[k] # <<>>}
      name == [k \in sent |-> Reading(Cut(parts[k], Equals)[1], TRUE)]
      value == [k \in sent |-> Reading(Cut(parts[k], Equals)[2], TRUE)]
      params == QueryParams(text)
  IN  /\ Uri(text) = Reading(cut[1], FALSE)
      /\ DOMAIN params = {name[k] : k \in sent}
      /\ \A k \in sent :
           (\A m \in sent : m > k => name[m] # name[k]) => params[name[k]] = value[k]

(* The service reads the parameters that the client sent, of those that are *)
(* forwarded, whatever characters they hold and however badly the query is  *)
(* written (server.cpp:119-140, 155-166; http_context.cpp:52-84).           *)
QueryForwarded ==
  LET sent == QueryParams(text) received == QueryParams(ForwardedUrl(text))
  IN  /\ DOMAIN received = DOMAIN sent \intersect ToSet(ForwardedParams)
      /\ \A key \in DOMAIN received : received[key] = sent[key]
=============================================================================

---------------------------- MODULE MCHttpServer ----------------------------
EXTENDS HttpServer

CONSTANTS cr, nl, zero

MCLines == [get11  |-> [method |-> "GET", version |-> "1.1", target |-> "file"],
            post11 |-> [method |-> "POST", version |-> "1.1", target |-> "route"],
            head10 |-> [method |-> "HEAD", version |-> "1.0", target |-> "route"]]

Message(line, headers, body) == [line |-> line, headers |-> headers, body |-> body]

(* A body may look like anything, a line or an end of headers included. *)
MCMessages ==
  { Message(<<"get11">>, <<>>, <<>>),
    Message(<<"post11">>, <<<<"length">>>>, <<nl, "get11">>),
    Message(<<"post11">>, <<<<"length">>, <<"close">>>>, <<cr, nl>>),
    Message(<<"head10">>, <<<<"field">>>>, <<>>),
    Message(<<"head10">>, <<<<"keepalive">>>>, <<>>),
    Message(<<"nocolon">>, <<>>, <<>>),
    Message(<<"post11">>, <<<<"chunked">>>>, <<>>),
    Message(<<"get11">>, <<<<"field", "field", "field", "field">>>>, <<>>) }

(* One whose header is as long as a line may be. *)
LimitMessages == {Message(<<"get11">>, <<<<"field", "field", "field">>>>, <<>>)}
=============================================================================

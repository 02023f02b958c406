------------------------------ MODULE Notifier ------------------------------
(***************************************************************************)
(* The notifications of the Python service, wechat/user.py and             *)
(* wechat/message.py, called by mosaic.py after a restoration: each runs   *)
(* in a thread of its own, and all share _cached_access_token.             *)
(*                                                                         *)
(* The messaging service (external) knows one token at a time: issuing one *)
(* ends the one before, and a token ends by itself.  A token is issued     *)
(* that nobody holds any more, so Tokens is finite without a bound on how  *)
(* often one is issued.                                                    *)
(***************************************************************************)
EXTENDS Naturals, FiniteSets

CONSTANTS MaxNotifications,   \* bound: notifications
          Tokens, NoToken

ASSUME NotifierAssumption ==
  /\ MaxNotifications \in Nat /\ NoToken \notin Tokens /\ IsFiniteSet(Tokens)
  /\ Cardinality(Tokens) >= MaxNotifications + 3

Notifications == 1..MaxNotifications

VARIABLES configured, \* APP_ID and APP_SECRET are set
          env,        \* ACCESS_TOKEN
          cached,     \* _cached_access_token
          valid,      \* the token the messaging service accepts
          at,         \* where each notification is
          token,      \* its token_info.access_token
          retried,    \* it sends for the second time
          answer,     \* the errcode that is under way to it
          messages,   \* how often its message reached the user
          disturbed   \* history: a failure, an expiry or another's refresh during it

notifierVars == <<configured, env, cached, valid, at, token, retried, answer, messages, disturbed>>

Ok == "0"
BadToken == "40001, 42001"
Rejected == "another"       \* and -1, when the answer has no errcode
Unsent == ""

Over == {"delivered", "failed"}
Notifying(n) == at[n] \notin Over \union {"unused"}

NotifierInit ==
  /\ configured \in BOOLEAN /\ cached = NoToken
  /\ LET first == CHOOSE t \in Tokens : TRUE
     IN  env \in {NoToken, first} /\ valid \in {NoToken, first}
  /\ at = [n \in Notifications |-> "unused"]
  /\ token = [n \in Notifications |-> NoToken]
  /\ retried = [n \in Notifications |-> FALSE] /\ answer = [n \in Notifications |-> Unsent]
  /\ messages = [n \in Notifications |-> 0] /\ disturbed = [n \in Notifications |-> FALSE]

Go(n, where) == at' = [at EXCEPT ![n] = where]
Leave(n, where) == /\ Go(n, where) /\ token' = [token EXCEPT ![n] = NoToken]
                   /\ retried' = [retried EXCEPT ![n] = FALSE]
                   /\ answer' = [answer EXCEPT ![n] = Unsent]
Disturb(S) == disturbed' = [n \in Notifications |-> disturbed[n] \/ (n \in S /\ Notifying(n))]
service == <<valid, messages>>
local == <<token, retried, answer>>
fixed == <<configured, env>>

-----------------------------------------------------------------------------
(* User(): a token of an earlier refresh, one that is configured, or a new one. *)
Begin(n) ==
  /\ at[n] = "unused" /\ \A m \in 1..(n - 1) : at[m] # "unused"
  /\ IF cached = NoToken /\ env = NoToken
       THEN Go(n, "refresh") /\ UNCHANGED token
       ELSE /\ Go(n, "send")
            /\ token' = [token EXCEPT ![n] = IF cached # NoToken THEN cached ELSE env]
  /\ UNCHANGED <<fixed, cached, retried, answer, disturbed, service>>

(* refresh_access_token: without an id and a secret there is nothing to ask with. *)
CannotRefresh(n) ==
  /\ at[n] = "refresh" /\ ~configured /\ Leave(n, "failed")
  /\ UNCHANGED <<fixed, cached, disturbed, service>>

Unheld == Tokens \ ({env, cached, valid} \union {token[m] : m \in Notifications})
NewToken == CHOOSE t \in Unheld : TRUE

(* The service issues a token; its answer is under way. *)
Issue(n) ==
  /\ at[n] = "refresh" /\ configured
  /\ Unheld # {} /\ valid' = NewToken /\ token' = [token EXCEPT ![n] = NewToken]
  /\ Go(n, "store") /\ Disturb(Notifications \ {n})
  /\ UNCHANGED <<fixed, cached, retried, answer, messages>>

(* The thread stores it: a later one that was stored in between is lost. *)
Store(n) ==
  /\ at[n] = "store" /\ Go(n, "send") /\ cached' = token[n]
  /\ UNCHANGED <<fixed, disturbed, local, service>>

(* The request, or its answer, is lost or refused. *)
RefreshFails(n) ==
  /\ at[n] \in {"refresh", "store"} /\ configured
  /\ Leave(n, "failed") /\ Disturb({n})
  /\ UNCHANGED <<fixed, cached, service>>

-----------------------------------------------------------------------------
(* Message.send_message: the service handles the request, *)
Post(n) ==
  /\ at[n] = "send" /\ Go(n, "sent")
  /\ IF token[n] = valid
       THEN /\ messages' = [messages EXCEPT ![n] = @ + 1]
            /\ answer' = [answer EXCEPT ![n] = Ok]
       ELSE answer' = [answer EXCEPT ![n] = BadToken] /\ UNCHANGED messages
  /\ UNCHANGED <<fixed, cached, valid, token, retried, disturbed>>

(* or rejects it for another reason, *)
Refuse(n) ==
  /\ at[n] = "send" /\ Go(n, "sent") /\ answer' = [answer EXCEPT ![n] = Rejected]
  /\ Disturb({n})
  /\ UNCHANGED <<fixed, cached, token, retried, service>>

(* or its answer is not understood: it may have sent the message. *)
Garble(n) ==
  /\ at[n] = "sent" /\ answer[n] = Ok
  /\ answer' = [answer EXCEPT ![n] = Rejected] /\ Disturb({n})
  /\ UNCHANGED <<fixed, cached, at, token, retried, service>>

(* requests raises: no connection, no answer in time, an answer that is no JSON. *)
SendFails(n) ==
  /\ at[n] \in {"send", "sent"} /\ Leave(n, "failed") /\ Disturb({n})
  /\ UNCHANGED <<fixed, cached, service>>

(* send_message of User takes the answer. *)
Accepted(n) ==
  /\ at[n] = "sent" /\ answer[n] = Ok /\ Leave(n, "delivered")
  /\ UNCHANGED <<fixed, cached, disturbed, service>>

(* Mutation: any rejection is taken for a bad token. *)
RetryAny(n) ==
  /\ at[n] = "sent" /\ answer[n] # Ok /\ ~retried[n]
  /\ Go(n, "refresh") /\ retried' = [retried EXCEPT ![n] = TRUE]
  /\ answer' = [answer EXCEPT ![n] = Unsent]
  /\ UNCHANGED <<fixed, cached, token, disturbed, service>>

(* Mutation: retries for as long as the token is bad. *)
RetryAgain(n) ==
  /\ at[n] = "sent" /\ answer[n] = BadToken
  /\ Go(n, "refresh") /\ retried' = [retried EXCEPT ![n] = TRUE]
  /\ answer' = [answer EXCEPT ![n] = Unsent]
  /\ UNCHANGED <<fixed, cached, token, disturbed, service>>

(* Mutation: reads the token again instead of refreshing it. *)
RetryCached(n) ==
  /\ at[n] = "sent" /\ answer[n] = BadToken /\ ~retried[n]
  /\ Go(n, "send") /\ retried' = [retried EXCEPT ![n] = TRUE]
  /\ token' = [token EXCEPT ![n] = IF cached # NoToken THEN cached ELSE env]
  /\ answer' = [answer EXCEPT ![n] = Unsent]
  /\ UNCHANGED <<fixed, cached, disturbed, service>>

Retry(n) ==
  /\ at[n] = "sent" /\ answer[n] = BadToken /\ ~retried[n]
  /\ Go(n, "refresh") /\ retried' = [retried EXCEPT ![n] = TRUE]
  /\ answer' = [answer EXCEPT ![n] = Unsent]
  /\ UNCHANGED <<fixed, cached, token, disturbed, service>>

NotSent(n) ==
  /\ at[n] = "sent"
  /\ answer[n] = Rejected \/ (answer[n] = BadToken /\ retried[n])
  /\ Leave(n, "failed")
  /\ UNCHANGED <<fixed, cached, disturbed, service>>

-----------------------------------------------------------------------------
(* The token ends by itself. *)
Expire ==
  /\ valid # NoToken /\ valid' = NoToken /\ Disturb(Notifications)
  /\ UNCHANGED <<fixed, cached, at, messages, local>>

Step(n) == \/ CannotRefresh(n) \/ Issue(n) \/ Store(n) \/ RefreshFails(n)
           \/ Post(n) \/ Refuse(n) \/ SendFails(n)
           \/ Accepted(n) \/ Retry(n) \/ NotSent(n)

NotifierNext ==
  \/ \E n \in Notifications : Begin(n) \/ Step(n) \/ Garble(n)
  \/ Expire

(* A thread runs on, and a request ends: requests.post and requests.get    *)
(* have a timeout of 10 s.                                                 *)
NotifierSpec ==
  /\ NotifierInit /\ [][NotifierNext]_notifierVars
  /\ \A n \in Notifications : WF_notifierVars(Step(n))

-----------------------------------------------------------------------------
(* Type invariant, with what a notification holds at each stage. *)
NotifierTypeOK ==
  /\ configured \in BOOLEAN
  /\ {env, cached, valid} \subseteq Tokens \union {NoToken}
  /\ at \in [Notifications -> {"unused", "refresh", "store", "send", "sent"} \union Over]
  /\ token \in [Notifications -> Tokens \union {NoToken}]
  /\ retried \in [Notifications -> BOOLEAN] /\ disturbed \in [Notifications -> BOOLEAN]
  /\ answer \in [Notifications -> {Ok, BadToken, Rejected, Unsent}]
  /\ messages \in [Notifications -> Nat]

(* A notification that no failure, no expiry and no other notification's    *)
(* refresh disturbs reaches the user, whatever stale token is configured or *)
(* was left in the cache by earlier ones (user.py:24-27, 66-82).            *)
LoneNotificationDelivered ==
  \A n \in Notifications : at[n] = "failed" /\ ~disturbed[n] => ~configured

(* The user gets no message twice, and every one that is reported to be     *)
(* accepted: the retry follows an answer that says that nothing was sent    *)
(* (user.py:61-82).                                                         *)
OneMessage ==
  \A n \in Notifications : /\ messages[n] <= 1
                           /\ at[n] = "delivered" => messages[n] = 1

(* Every notification ends: notifications that end each other's tokens do   *)
(* not go on for ever (user.py:84-95).                                      *)
NotificationsEnd == \A n \in Notifications : Notifying(n) ~> at[n] \in Over
=============================================================================

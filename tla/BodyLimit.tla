------------------------------ MODULE BodyLimit ------------------------------
(***************************************************************************)
(* RequestBodyLimitMiddleware: a request body is buffered up to a limit and *)
(* then replayed to the application as one message.  The client sends and   *)
(* leaves as it likes, the server hands its bytes on in pieces; bytes are   *)
(* counted, their content is left out.  Server and application are modelled *)
(* from the ASGI messages the middleware exchanges with them.               *)
(***************************************************************************)
EXTENDS Naturals

CONSTANTS
  Limits,   \* what REFERENCE_ETA_MAX_REQUEST_BYTES may be set to
  Invalid,  \* a setting or a header that is no number in range
  None,     \* no header, no answer
  MaxBody   \* bound: bytes a client sends

ASSUME LimitsAssumption ==
  /\ Limits \subseteq Nat \cup {Invalid} /\ Invalid \notin Nat /\ None \notin Nat
  /\ Invalid # None /\ MaxBody \in Nat

Declared == 0 .. MaxBody + 1 \cup {None, Invalid}

VARIABLES
  limit,     \* the setting
  method,    \* the method is one of _BODY_METHODS
  declared,  \* Content-Length
  chunked,   \* a Transfer-Encoding header is there
  sent,      \* bytes the client has sent
  finished,  \* the client has sent all of its body
  gone,      \* the client has disconnected
  taken,     \* bytes the server has handed on
  stage,        \* the middleware: "start", "receive", "app", "end"
  body,      \* bytes buffered
  seen,      \* what the application received as the body, None before
  last,      \* the last message the application received
  status     \* the answer

client == <<method, declared, chunked>>
wire == <<sent, finished, gone>>
bodyVars == <<limit, client, wire, taken, stage, body, seen, last, status>>

BodyInit ==
  /\ limit \in Limits
  /\ method \in BOOLEAN /\ declared \in Declared /\ chunked \in BOOLEAN
  /\ sent = 0 /\ finished = FALSE /\ gone = FALSE /\ taken = 0
  /\ stage = "start" /\ body = 0 /\ seen = None /\ last = "none" /\ status = None

Passed == ~method /\ declared = None /\ ~chunked

----------------------------------------------------------------------------
(* The client. *)
Send ==
  /\ ~finished /\ ~gone
  /\ \E n \in 1 .. 2 : sent + n <= MaxBody /\ sent' = sent + n
  /\ finished' \in BOOLEAN
  /\ UNCHANGED <<limit, client, gone, taken, stage, body, seen, last, status>>

Finish ==
  /\ ~finished /\ ~gone /\ finished' = TRUE
  /\ UNCHANGED <<limit, client, sent, gone, taken, stage, body, seen, last, status>>

Leave ==
  /\ ~gone /\ gone' = TRUE
  /\ UNCHANGED <<limit, client, sent, finished, taken, stage, body, seen, last, status>>

(* What the server may hand on: n more bytes, and whether more are to come. *)
Message(n, more) ==
  /\ taken + n <= sent /\ (n > 0 \/ finished)
  /\ more <=> ~(finished /\ taken + n = sent)

----------------------------------------------------------------------------
Reply(code) == status' = code /\ stage' = "end"
(* A mutant: a body of exactly the limit is refused. *)
AtLimit(n) == n >= limit

TooLong(n) == n > limit

(* The checks before the body: setting, header, declared length. *)
Begin ==
  /\ stage = "start"
  /\ \/ Passed /\ stage' = "app" /\ UNCHANGED status
     \/ ~Passed /\ limit = Invalid /\ Reply(503)
     \/ ~Passed /\ limit # Invalid /\ declared = Invalid /\ Reply(400)
     \/ /\ ~Passed /\ limit # Invalid /\ declared \in Nat
        /\ TooLong(declared) /\ Reply(413)
     \/ /\ ~Passed /\ limit # Invalid /\ declared # Invalid
        /\ declared \in Nat => ~TooLong(declared)
        /\ stage' = "receive" /\ UNCHANGED status
  /\ UNCHANGED <<limit, client, wire, taken, body, seen, last>>

(* A mutant: the length is looked at before a piece is added. *)
ReceiveUnchecked ==
  /\ stage = "receive" /\ ~TooLong(body)
  /\ \E n \in 0 .. sent - taken, more \in BOOLEAN :
       /\ Message(n, more)
       /\ taken' = taken + n
       /\ body' = body + n
       /\ stage' = IF more THEN "receive" ELSE "app"
  /\ UNCHANGED <<limit, client, wire, seen, last, status>>

Receive ==
  /\ stage = "receive"
  /\ \E n \in 0 .. sent - taken, more \in BOOLEAN :
       /\ Message(n, more)
       /\ taken' = taken + n
       /\ body' = body + n
       /\ \/ TooLong(body') /\ Reply(413)
          \/ ~TooLong(body') /\ more /\ UNCHANGED <<stage, status>>
          \/ ~TooLong(body') /\ ~more /\ stage' = "app" /\ UNCHANGED status
  /\ UNCHANGED <<limit, client, wire, seen, last>>

(* A mutant: a disconnect is not looked for. *)
IgnoresDisconnect == stage = "receive" /\ gone /\ UNCHANGED bodyVars

(* The client left in the middle of the body: no answer. *)
Disconnected ==
  /\ stage = "receive" /\ gone
  /\ stage' = "end"
  /\ UNCHANGED <<limit, client, wire, taken, body, seen, last, status>>

(* The application receives: the buffered body once, a disconnect afterwards. *)
Replayed(n) == IF last = "none" THEN n = body /\ last' = "body" ELSE n = 0 /\ last' = "disconnect"

AppReceive ==
  /\ stage = "app" /\ last # "disconnect"
  /\ \E n \in 0 .. MaxBody :
       /\ \/ ~Passed /\ Replayed(n) /\ UNCHANGED taken
          \/ Passed /\ gone /\ n = 0 /\ last' = "disconnect" /\ UNCHANGED taken
          \/ /\ Passed /\ \E more \in BOOLEAN : Message(n, more) /\ last' = IF more THEN "part" ELSE "body"
             /\ last # "body" /\ taken' = taken + n
       /\ seen' = IF last' = "disconnect" THEN seen ELSE n + IF seen = None THEN 0 ELSE seen
  /\ UNCHANGED <<limit, client, wire, stage, body, status>>

(* It answers once it has the whole body or the client is gone. *)
AppAnswer ==
  /\ stage = "app" /\ last \in {"body", "disconnect"}
  /\ Reply(200)
  /\ UNCHANGED <<limit, client, wire, taken, body, seen, last>>

Serve == Begin \/ Receive \/ Disconnected \/ AppReceive \/ AppAnswer
BodyNext == Send \/ Finish \/ Leave \/ Serve

BodySpec == BodyInit /\ [][BodyNext]_bodyVars

(* The server takes its steps; of the client nothing is assumed: there is no *)
(* limit on the time a body may take.                                        *)
BodyFairness == WF_bodyVars(Serve)

----------------------------------------------------------------------------
(* The application is called only after the body ended within the limit, and   *)
(* what it receives as the body is all of it, once: neither what came before a *)
(* disconnect nor a body the client was still sending.                         *)
WholeBodyOrNone ==
  /\ stage = "app" /\ ~Passed => finished /\ body = sent /\ sent <= limit
  /\ last = "body" => seen = sent

(* A request is refused for its size only if it declared or sent more than the  *)
(* limit; a body of exactly the limit is taken.                                 *)
RefusedForSize ==
  status = 413 => limit # Invalid /\ (sent > limit \/ (declared \in Nat /\ declared > limit))

(* A request comes to an end, and is answered unless the client left, once its   *)
(* client has ended the body, has left, or has sent more than the limit: a body  *)
(* too long is refused in the middle, without waiting for its end.  A client     *)
(* that stops in the middle of a shorter body holds its request (see README).    *)
Exceeded == ~Passed /\ limit # Invalid /\ sent > limit
BodyRequestEnds ==
  finished \/ gone \/ Exceeded ~> stage = "end" /\ (status # None \/ gone)

=============================================================================

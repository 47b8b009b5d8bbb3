---------------------------- MODULE BodyLimitProofs ----------------------------
(***************************************************************************)
(* BodyLimit for any limit and any body: what reaches the application is   *)
(* the whole body, and only what is too long is refused as too long.       *)
(***************************************************************************)
EXTENDS BodyLimit, TLAPS

Types ==
  /\ limit \in Nat \union {Invalid} /\ declared \in Declared /\ finished \in BOOLEAN
  /\ sent \in Nat /\ taken \in Nat /\ body \in Nat /\ taken <= sent
  /\ stage \in {"start", "receive", "app", "end"}
  /\ seen \in Nat \union {None} /\ last \in {"none", "part", "body", "disconnect"}

(***************************************************************************)
(* The inductive invariant: what is buffered, and what an application that *)
(* is passed through has seen, keep up with what the server handed on; the *)
(* middleware goes on to the body with a valid limit only, and from there  *)
(* to the application with all of it only.                                 *)
(***************************************************************************)
Counted ==
  /\ Types
  /\ ~Passed => body = taken
  /\ stage = "start" => taken = 0
  /\ stage \in {"start", "receive"} => last = "none"
  /\ stage = "receive" => ~Passed /\ limit # Invalid
  /\ stage = "app" /\ ~Passed => limit # Invalid /\ finished /\ taken = sent /\ body <= limit
  /\ last = "none" => seen = None /\ (Passed => taken = 0)
  /\ Passed /\ last = "part" => seen = taken
  /\ last = "body" => finished /\ seen = sent
  /\ RefusedForSize

\* What comes before the body, and whatever the client does, keeps that.
LEMMA BeforeTheBody ==
  ASSUME Counted, Send \/ Finish \/ Leave \/ Begin \/ Disconnected
  PROVE  Counted'
<1> USE LimitsAssumption DEF LimitsAssumption, Counted, Types, Passed, RefusedForSize, client, wire
<1>1. CASE Send
  BY <1>1 DEF Send
<1>2. CASE Finish
  BY <1>2 DEF Finish
<1>3. CASE Leave
  BY <1>3 DEF Leave
<1>4. CASE Begin
  BY <1>4 DEF Begin, Reply, TooLong
<1>5. CASE Disconnected
  BY <1>5 DEF Disconnected
<1> QED
  BY <1>1, <1>2, <1>3, <1>4, <1>5

\* A piece of the body is buffered, or it makes the body too long.
LEMMA ReceiveKeeps == ASSUME Counted, Receive PROVE Counted'
<1> USE LimitsAssumption DEF LimitsAssumption, Counted, Types, Passed, RefusedForSize, client, wire
<1>1. PICK n \in 0..(sent - taken), more \in BOOLEAN :
        /\ Message(n, more)
        /\ taken' = taken + n
        /\ body' = body + n
        /\ \/ TooLong(body') /\ Reply(413)
           \/ ~TooLong(body') /\ more /\ UNCHANGED <<stage, status>>
           \/ ~TooLong(body') /\ ~more /\ stage' = "app" /\ UNCHANGED status
  BY DEF Receive
<1>2. /\ body' = taken' /\ taken' <= sent /\ taken' \in Nat
      /\ ~more => finished /\ taken' = sent
  BY <1>1 DEF Receive, Message
<1>3. CASE TooLong(body') /\ Reply(413)
  BY <1>2, <1>3 DEF Receive, TooLong, Reply
<1>4. CASE ~TooLong(body') /\ more /\ UNCHANGED <<stage, status>>
  BY <1>2, <1>4 DEF Receive
<1>5. CASE ~TooLong(body') /\ ~more /\ stage' = "app" /\ UNCHANGED status
  BY <1>2, <1>5 DEF Receive, TooLong
<1> QED
  BY <1>1, <1>3, <1>4, <1>5

\* The application is handed the buffered body once, or what the server hands on.
LEMMA AppKeeps == ASSUME Counted, AppReceive \/ AppAnswer PROVE Counted'
<1> USE LimitsAssumption DEF LimitsAssumption, Counted, Types, Passed, RefusedForSize, client, wire
<1>1. CASE AppAnswer
  BY <1>1 DEF AppAnswer, Reply
<1>2. CASE AppReceive
  <2>1. PICK n \in 0..MaxBody :
          /\ \/ ~Passed /\ Replayed(n) /\ UNCHANGED taken
             \/ Passed /\ gone /\ n = 0 /\ last' = "disconnect" /\ UNCHANGED taken
             \/ /\ Passed
                /\ \E more \in BOOLEAN :
                     Message(n, more) /\ last' = IF more THEN "part" ELSE "body"
                /\ last # "body" /\ taken' = taken + n
          /\ seen' = IF last' = "disconnect" THEN seen
                     ELSE n + IF seen = None THEN 0 ELSE seen
    BY <1>2 DEF AppReceive
  <2>2. /\ UNCHANGED <<limit, client, wire, stage, body, status>>
        /\ stage = "app" /\ last # "disconnect"
    BY <1>2 DEF AppReceive
  <2>3. CASE ~Passed /\ Replayed(n) /\ UNCHANGED taken
    BY <2>1, <2>2, <2>3 DEF Replayed
  <2>4. CASE Passed /\ last' = "disconnect" /\ UNCHANGED taken
    BY <2>1, <2>2, <2>4
  <2>5. CASE /\ Passed /\ last # "body" /\ taken' = taken + n
             /\ \E more \in BOOLEAN :
                  Message(n, more) /\ last' = IF more THEN "part" ELSE "body"
    <3>1. /\ seen' = taken' /\ taken' \in Nat /\ taken' <= sent
          /\ last' \in {"part", "body"}
          /\ last' = "body" => finished /\ taken' = sent
      BY <2>1, <2>2, <2>5 DEF Message
    <3> QED
      BY <2>2, <2>5, <3>1
  <2> QED
    BY <2>1, <2>3, <2>4, <2>5
<1> QED
  BY <1>1, <1>2

\* Every step keeps the invariant, however the client cuts its body into pieces and
\* whenever it leaves.
LEMMA CountedInvariant == BodySpec => []Counted
<1>1. BodyInit => Counted
  <2> SUFFICES ASSUME BodyInit PROVE Counted
    OBVIOUS
  <2>1. limit \in Nat \union {Invalid} /\ status # 413
    BY LimitsAssumption DEF LimitsAssumption, BodyInit
  <2>2. sent \in Nat /\ taken \in Nat /\ body \in Nat /\ taken <= sent
    BY DEF BodyInit
  <2>3. finished \in BOOLEAN /\ declared \in Declared /\ seen \in Nat \union {None}
    BY DEF BodyInit
  <2>4. Types
    BY <2>1, <2>2, <2>3 DEF BodyInit, Types
  <2> QED
    BY <2>1, <2>4 DEF BodyInit, Counted, RefusedForSize
<1>2. Counted /\ [BodyNext]_bodyVars => Counted'
  <2>1. ASSUME Counted, UNCHANGED bodyVars PROVE Counted'
    BY <2>1 DEF bodyVars, client, wire, Counted, Types, Passed, RefusedForSize
  <2> QED
    BY <2>1, BeforeTheBody, ReceiveKeeps, AppKeeps DEF BodyNext, Serve
<1> QED
  BY <1>1, <1>2, PTL DEF BodySpec

\* The application is called with a body that ended within the limit, and receives
\* all of it.
THEOREM WholeBody == BodySpec => []WholeBodyOrNone
<1>1. Counted => WholeBodyOrNone
  BY DEF Counted, Types, WholeBodyOrNone
<1> QED
  BY <1>1, CountedInvariant, PTL

\* Only a body, or a declared length, above the limit is refused with 413.
THEOREM RefusalsForSize == BodySpec => []RefusedForSize
<1>1. Counted => RefusedForSize
  BY DEF Counted
<1> QED
  BY <1>1, CountedInvariant, PTL

=============================================================================

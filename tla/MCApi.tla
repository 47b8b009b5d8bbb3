-------------------------------- MODULE MCApi --------------------------------
(* One worker of the API, in two parts that share no state: the requests of  *)
(* its threads for a model, and the body of one request in the middleware.   *)
EXTENDS Serving, BodyLimit

CONSTANT Starts  \* what the pointer names at first, up to bundles that are alike
VARIABLE subject \* which part moves

apiVars == <<vars, bodyVars, subject>>

NoModels == Init /\ current = NoBundle /\ dir = [b \in Bundles |-> "absent"]
NoBody ==
  /\ limit = Invalid /\ method = FALSE /\ declared = None /\ chunked = FALSE
  /\ sent = 0 /\ finished = FALSE /\ gone = FALSE /\ taken = 0
  /\ stage = "end" /\ body = 0 /\ seen = None /\ last = "none" /\ status = None

ApiInit ==
  \/ subject = "models" /\ Init /\ current \in Starts /\ NoBody
  \/ subject = "body" /\ NoModels /\ BodyInit

ApiNext ==
  \/ subject = "models" /\ Next /\ UNCHANGED <<subject, bodyVars>>
  \/ subject = "body" /\ BodyNext /\ UNCHANGED <<subject, vars>>

ApiSpec == ApiInit /\ [][ApiNext]_apiVars /\ Fairness /\ BodyFairness

=============================================================================

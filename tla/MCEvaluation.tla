---------------------------- MODULE MCEvaluation ----------------------------
(* The programs of the evaluation, one kind at a time: the rolling replay,  *)
(* an experiment, the snapshots of a day, a route search, the cohort        *)
(* scripts.  They share files and no state; the others stay at a fixed      *)
(* state.                                                                   *)
EXTENDS RollingReplay, Experiment, Snapshots, RouteSearch, Cohorts

\* An interval that holds its target with room to spare, one that just misses
\* it, and one whose quantiles cross.
SomeCases == {
  [q10 |-> 1, q50 |-> 4, q90 |-> 9, target |-> 5],
  [q10 |-> 2, q50 |-> 3, q90 |-> 4, target |-> 5],
  [q10 |-> 6, q50 |-> 8, q90 |-> 3, target |-> 0]}
SomeScores == <<2, -4, 0, 2, 1>>

\* The fractions of the configurations, others that leave small or empty parts, and two
\* that meet integers exactly.
SomeFractions ==
  {<<60, 15, 10>>, <<50, 20, 15>>, <<96, 2, 1>>, <<2, 4, 90>>, <<20, 20, 20>>}

\* Four tasks each: accepted before the first delivery or in the middle of the day,
\* delivered one by one or the first two at once.  Of the places, 0 and 2 are equally
\* far from 1.
SomePlaces == {0, 1, 2, 4}
SomeDays ==
  LET days == {[i \in 1..4 |-> [accept |-> a[i], delivery |-> t[i], place |-> p[i]]] :
                 a \in {f \in [1..4 -> {0, 2}] : f[1] = 0},
                 t \in {<<1, 2, 3, 4>>, <<2, 2, 3, 4>>},
                 p \in [1..4 -> SomePlaces]}
  IN  {d \in days : \A i \in 1..4 : d[i].accept <= d[i].delivery}

\* Travel times that differ by direction, windows that open late or close early.
SomeStops == 1..4
TravelTimes ==
  LET points == 0..4
      times(f(_, _)) ==
        [p \in points \X points |-> IF p[1] = p[2] THEN 0 ELSE 1 + f(p[1], p[2])]
  IN  {times(LAMBDA x, y : (3 * x + 5 * y) % 7), times(LAMBDA x, y : (x * x + 3 * y) % 9)}
SomeRoutes == [
  travel : TravelTimes,
  opens : {<<0, 0, 0, 0>>, <<0, 8, 0, 0>>},
  closes : {<<20, 20, 20, 20>>, <<6, 20, 4, 20>>, <<9, 9, 9, 9>>, <<20, 3, 20, 10>>},
  service : {<<1, 1, 1, 1>>, <<0, 2, 1, 0>>},
  conflict : {<<FALSE, TRUE, FALSE, FALSE>>}]

\* Two cities with four courier-days each.  The seeds agree on the order of the second
\* city and differ on that of the first, by which day of it comes first.
SomeCourierDays == {1, 2} \X (1 .. 4)
From(k) == [d \in SomeCourierDays |-> IF d[1] = 1 THEN (d[2] + k) % 4 ELSE d[2]]
SomeRanks ==
  {[s \in Stages |-> CASE s = "confirmatory" -> From(1) [] s = "development" -> From(2)
                      [] OTHER -> From(0)]}

\* Two days of the first city fail the pilot's filters, one of them those of the later
\* scripts as well.
SomeKeeps ==
  {[s \in Stages |->
      SomeCourierDays \ IF s = "pilot" THEN {<<1, 4>>, <<1, 3>>} ELSE {<<1, 3>>}]}

VARIABLE subject \* what runs

evaluationVars == <<vars, experimentVars, dayVars, searchVars, cohortsVars>>

ReplayIdle == Init /\ ~delayed
ExperimentIdle ==
  /\ program = "pipeline" /\ stage = "error"
  /\ dates = 1 /\ shares = <<60, 15, 10>> /\ splits = 2
  /\ cuts = <<0, 0, 0>> /\ block = 0 /\ basis = <<{}>>
  /\ base = {} /\ rcot = {} /\ gate = {} /\ chosen = {}
  /\ made = {} /\ outcome = Undecided
DayIdle ==
  /\ builder = "closed_set" /\ day = <<>> /\ stride = 1
  /\ index = 0 /\ snapshot = NoSnapshot
SearchIdle ==
  /\ kind = "plane" /\ route = CHOOSE r \in Instances : TRUE
  /\ step = "greedy" /\ order = <<>> /\ clock = 0
  /\ start = <<>> /\ pass = 0 /\ cut = <<0, 2>> /\ improved = FALSE

CohortsIdle ==
  CohortsInit /\ rank = (CHOOSE r \in Ranks : TRUE) /\ kept = (CHOOSE k \in Keeps : TRUE)

EvaluationInit ==
  \/ /\ subject = "replay"
     /\ Init /\ ExperimentIdle /\ DayIdle /\ SearchIdle /\ CohortsIdle
  \/ /\ subject = "experiment"
     /\ ReplayIdle /\ ExperimentInit /\ DayIdle /\ SearchIdle /\ CohortsIdle
  \/ /\ subject = "day"
     /\ ReplayIdle /\ ExperimentIdle /\ DayInit /\ SearchIdle /\ CohortsIdle
  \/ /\ subject = "search"
     /\ ReplayIdle /\ ExperimentIdle /\ DayIdle /\ SearchInit /\ CohortsIdle
  \/ /\ subject = "cohorts"
     /\ ReplayIdle /\ ExperimentIdle /\ DayIdle /\ SearchIdle /\ CohortsInit

ReplayStep ==
  /\ subject = "replay" /\ Next
  /\ UNCHANGED <<subject, experimentVars, dayVars, searchVars, cohortsVars>>
ExperimentStep ==
  /\ subject = "experiment" /\ ExperimentNext
  /\ UNCHANGED <<subject, vars, dayVars, searchVars, cohortsVars>>
DayStep ==
  /\ subject = "day" /\ DayNext
  /\ UNCHANGED <<subject, vars, experimentVars, searchVars, cohortsVars>>
SearchStep ==
  /\ subject = "search" /\ SearchNext
  /\ UNCHANGED <<subject, vars, experimentVars, dayVars, cohortsVars>>
CohortsStep ==
  /\ subject = "cohorts" /\ CohortsNext
  /\ UNCHANGED <<subject, vars, experimentVars, dayVars, searchVars>>

EvaluationNext == ReplayStep \/ ExperimentStep \/ DayStep \/ SearchStep \/ CohortsStep

EvaluationSpec == EvaluationInit /\ [][EvaluationNext]_<<evaluationVars, subject>>

=============================================================================

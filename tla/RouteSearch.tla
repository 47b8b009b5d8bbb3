------------------------------ MODULE RouteSearch ------------------------------
(***************************************************************************)
(* The orders that the route replay compares                               *)
(* (src/src/reference_eta/decisions/amazon_replay.py): a greedy order and  *)
(* the two-opt search that starts from it, on stops in the plane           *)
(* (time_window_aware_order, two_opt_local_search) or on a matrix of       *)
(* historical travel times with a return to the station                    *)
(* (amazon_time_window_order, amazon_two_opt).                             *)
(***************************************************************************)
EXTENDS Integers, Sequences, FiniteSets

CONSTANTS
  Instances, \* routes: records [travel, opens, closes, service, conflict]
  Stops,     \* the stops to be delivered, 1..n
  Station,   \* where a route starts: current, station_id
  MaxPasses  \* max_passes

Points == Stops \union {Station}

ASSUME SearchAssumption ==
  /\ IsFiniteSet(Stops)
  /\ Instances \subseteq
       [travel : [Points \X Points -> Int],
        opens : [Stops -> Int], closes : [Stops -> Int], service : [Stops -> Int],
        conflict : [Stops -> BOOLEAN]]

VARIABLES
  kind,     \* "plane" or "matrix"
  route,    \* the instance
  step,     \* "greedy", "two_opt", "end"
  order,    \* the greedy order being built, then the best one
  clock,    \* elapsed while the greedy order is built
  start,    \* initial_order
  pass,     \* passes begun
  cut,      \* i and j of the loops
  improved

searchVars == <<kind, route, step, order, clock, start, pass, cut, improved>>

Later(a, b) == IF a > b THEN a ELSE b

SearchInit ==
  /\ kind \in {"plane", "matrix"} /\ route \in Instances
  /\ step = "greedy" /\ order = <<>> /\ clock = 0
  /\ start = <<>> /\ pass = 0 /\ cut = <<0, 2>> /\ improved = FALSE

-----------------------------------------------------------------------------
(* evaluate_order, evaluate_amazon_matrix_order *)

Here(o) == IF o = <<>> THEN Station ELSE o[Len(o)]

\* Arrival at a stop of r, never before its window opens.
Arrive(r, t, from, stop) == Later(t + r.travel[<<from, stop>>], r.opens[stop])

\* What has come of an order when its next stop is served.
Serve(k, r, was, from, stop) ==
  LET at == Arrive(r, was.time, from, stop)
      late == Later(at - r.closes[stop], 0)
      broken == late > 0 \/ (k = "matrix" /\ r.conflict[stop])
  IN  [time |-> at + r.service[stop],
       violations |-> was.violations + IF broken THEN 1 ELSE 0,
       lateness |-> was.lateness + late]

\* The time after all stops of o, the violations and the lateness on the way.
Run(k, r, o) ==
  LET after[n \in 0..Len(o)] ==
        IF n = 0 THEN [time |-> 0, violations |-> 0, lateness |-> 0]
        ELSE Serve(k, r, after[n - 1], IF n = 1 THEN Station ELSE o[n - 1], o[n])
  IN  after[Len(o)]

\* completion_minutes + 250 * violations + 5 * lateness; the matrix route returns.
Objective(k, r, o) ==
  Run(k, r, o).time + 250 * Run(k, r, o).violations + 5 * Run(k, r, o).lateness
    + IF k = "matrix" THEN r.travel[<<Here(o), Station>>] ELSE 0

\* objective(order)
Cost(o) == Objective(kind, route, o)

-----------------------------------------------------------------------------
Left == {s \in Stops : \A k \in 1..Len(order) : order[k] # s}

\* travel + lateness_penalty * lateness, the wait for a window left out
GreedyScore(s) ==
  LET leg == route.travel[<<Here(order), s>>]
  IN  leg + 5 * Later(clock + leg - route.closes[s], 0)

\* The nearest by score; min takes any of equals here.
Greedy ==
  /\ step = "greedy"
  /\ \E s \in Left :
       /\ \A other \in Left : GreedyScore(s) <= GreedyScore(other)
       /\ order' = Append(order, s)
       /\ clock' = Arrive(route, clock, Here(order), s) + route.service[s]
  /\ UNCHANGED <<kind, route, step, start, pass, cut, improved>>

StartTwoOpt ==
  /\ step = "greedy" /\ Left = {}
  /\ step' = "two_opt" /\ start' = order
  /\ pass' = 1 /\ cut' = <<0, 2>> /\ improved' = FALSE
  /\ UNCHANGED <<kind, route, order, clock>>

\* best[:i] + list(reversed(best[i:j])) + best[j:]
Turned(o, i, j) ==
  [k \in 1..Len(o) |-> IF k > i /\ k <= j THEN o[i + j + 1 - k] ELSE o[k]]

\* A mutant: range(i + 2, len(best)), the last stop stays where it is.
LastShort(o) == Len(o) - 1

\* the last j of range(i + 2, len(best) + 1)
LastCut(o) == Len(o)

\* One candidate: taken at once when it is better.
TryTurn ==
  /\ step = "two_opt"
  /\ cut[1] < Len(order) - 1 /\ cut[2] <= LastCut(order)
  /\ LET candidate == Turned(order, cut[1], cut[2])
     IN  IF Cost(candidate) < Cost(order)
         THEN order' = candidate /\ improved' = TRUE
         ELSE UNCHANGED <<order, improved>>
  /\ cut' = IF cut[2] < LastCut(order) THEN <<cut[1], cut[2] + 1>> ELSE <<cut[1] + 1, cut[1] + 3>>
  /\ UNCHANGED <<kind, route, step, clock, start, pass>>

\* The loops are done: another pass after an improvement, at most max_passes.
EndPass ==
  /\ step = "two_opt"
  /\ cut[1] >= Len(order) - 1 \/ cut[2] > LastCut(order)
  /\ IF improved /\ pass < MaxPasses
     THEN /\ pass' = pass + 1 /\ cut' = <<0, 2>> /\ improved' = FALSE
          /\ UNCHANGED step
     ELSE step' = "end" /\ UNCHANGED <<pass, cut, improved>>
  /\ UNCHANGED <<kind, route, order, clock, start>>

SearchNext == Greedy \/ StartTwoOpt \/ TryTurn \/ EndPass

SearchSpec == SearchInit /\ [][SearchNext]_searchVars

-----------------------------------------------------------------------------
(* properties *)

\* The search always holds an order of all the stops that is no worse than the greedy
\* one, and when it ends before max_passes is used up, turning any segment of
\* its order makes nothing better: the candidates taken in the middle of a pass
\* leave none unexamined.
SearchSound ==
  step # "greedy" =>
    /\ {order[k] : k \in 1..Len(order)} = Stops /\ Len(order) = Cardinality(Stops)
    /\ Cost(order) <= Cost(start)
    /\ step = "end" /\ ~improved =>
         \A i, j \in 0..Len(order) :
           i + 2 <= j => Cost(Turned(order, i, j)) >= Cost(order)

=============================================================================

------------------------------- MODULE Snapshots -------------------------------
(***************************************************************************)
(* The snapshots of one courier's day: build_closed_set_snapshots          *)
(* (src/src/reference_eta/data/lade.py) and _build_v2_snapshots            *)
(* (src/scripts/run_lade_v2_development.py and, the same text,             *)
(* run_lade_v2_final_confirmation.py).  A loop over the delivered tasks    *)
(* takes the moment of a delivery as the query time and describes the      *)
(* route as it is then known; what happens later is the label.             *)
(*                                                                         *)
(* Coordinates are points of a line, so that distances add up exactly; an  *)
(* aoi_id is a point.  Tasks delivered at the same moment keep one order.  *)
(***************************************************************************)
EXTENDS Integers, Sequences, FiniteSets, FiniteSetsExt, Functions

CONSTANTS
  Days,    \* the groups: sequences of tasks [accept, delivery, place]
  Places,  \* the points tasks lie at
  Strides, \* the values of snapshot_stride
  Service, \* service_minutes of a task
  Delays   \* by how much later deliveries may come, in the properties

Task == [accept : Nat, delivery : Nat, place : Places]

\* group.sort_values("delivery_time"); no delivery precedes its acceptance (lines 44-45).
IsDay(d) ==
  /\ d \in Seq(Task)
  /\ \A i, j \in DOMAIN d : i < j => d[i].delivery <= d[j].delivery
  /\ \A i \in DOMAIN d : d[i].accept <= d[i].delivery

ASSUME DaysAssumption ==
  /\ \A d \in Days : IsDay(d)
  /\ Places \subseteq Int /\ Strides \subseteq Nat \ {0} /\ Service \in Nat
  /\ Delays \subseteq Nat

VARIABLES
  builder, \* the function that runs
  day,     \* group, sorted by delivery_time
  stride,  \* snapshot_stride
  index,   \* completed_index, from 0
  snapshot \* the last row appended

dayVars == <<builder, day, stride, index, snapshot>>

NoSnapshot == [query |-> -1]

DayInit ==
  /\ builder \in {"closed_set", "v2_development", "v2_final"}
  /\ day \in Days /\ stride \in Strides
  /\ index = 0 /\ snapshot = NoSnapshot

-----------------------------------------------------------------------------
(* distances *)

Count(I) == Cardinality(I)

Distance(p, q) == IF p < q THEN q - p ELSE p - q

\* _path_distance_km
PathDistance(s) ==
  FoldFunction(LAMBDA x, y : x + y, 0, [i \in 1..(Len(s) - 1) |-> Distance(s[i], s[i + 1])])

\* min(remaining, key = ...): the first of the nearest
Nearest(d, R, p) ==
  CHOOSE i \in R : \A j \in R :
    \/ Distance(p, d[i].place) < Distance(p, d[j].place)
    \/ Distance(p, d[i].place) = Distance(p, d[j].place) /\ i <= j

\* One turn of the loop: to the nearest of the remaining tasks.
Visit(d, w) ==
  LET i == Nearest(d, w.remaining, w.position)
  IN  [position |-> d[i].place, remaining |-> w.remaining \ {i},
       total |-> w.total + Distance(w.position, d[i].place)]

\* _nearest_neighbor_path_distance_km: the tasks R of d from the point p
NearestNeighborPath(d, R, p) ==
  LET walk[k \in 0..Count(R)] ==
        IF k = 0 THEN [position |-> p, remaining |-> R, total |-> 0]
        ELSE Visit(d, walk[k - 1])
  IN  walk[Count(R)].total

-----------------------------------------------------------------------------
(* what is known at the query time t of the day d *)

\* A mutant: every task not yet delivered is visible, accepted or not.
NotYetDelivered(d, t) == {i \in DOMAIN d : d[i].delivery > t}

Completed(d, t) == {i \in DOMAIN d : d[i].delivery <= t}
Visible(d, t) == {i \in DOMAIN d : d[i].accept <= t /\ d[i].delivery > t}

\* The completed tasks are the first rows of the sorted day, the last one is where
\* the courier is.
\* A mutant: the path runs on to the task that is delivered next.
PathAhead(d, t) == [k \in 1..(Count(Completed(d, t)) + 1) |-> d[k].place]

Path(d, t) == [k \in 1..Count(Completed(d, t)) |-> d[k].place]
Current(d, t) == d[Count(Completed(d, t))].place
DayStart(d) == Min({d[i].accept : i \in DOMAIN d} \union {d[i].delivery : i \in DOMAIN d})

\* The last three completed tasks: their workload, and the time they took.
Pace(recent) ==
  IF Len(recent) < 2 THEN <<>>
  ELSE <<PathDistance([k \in DOMAIN recent |-> recent[k].place]) + (Len(recent) - 1) * Service,
         recent[Len(recent)].delivery - recent[1].delivery>>

\* A mutant: the last three tasks end with the one that is delivered next.
PaceAhead(d, t) ==
  LET next == Count(Completed(d, t)) + 1
  IN  Pace(SubSeq(d, Max({1, next - 2}), next))

RecentPace(d, t) ==
  LET done == Count(Completed(d, t))
  IN  Pace(SubSeq(d, Max({1, done - 2}), done))

\* How often f takes each value: what a sum, mean, percentile, spread or entropy of its
\* values depends on.
Tally(f) == [v \in Range(f) |-> Count({i \in DOMAIN f : f[i] = v})]

Transitions(s) == Count({i \in 1..(Len(s) - 1) : s[i] # s[i + 1]})

BaseFeatures(d, t) ==
  LET done == Completed(d, t)
      open == Visible(d, t)
      worked == PathDistance(Path(d, t)) + Count(done) * Service
      left == NearestNeighborPath(d, open, Current(d, t)) + Count(open) * Service
  IN  [elapsed |-> t - DayStart(d),
       completed_task_count |-> Count(done), remaining_task_count |-> Count(open),
       completed_workload |-> worked, remaining_workload |-> left,
       recent_pace |-> RecentPace(d, t),
       pending |-> Tally([i \in open |-> d[i].place]),
       aoi_transitions |-> Transitions(Path(d, t))]

\* Events of the last w minutes: route_accept_count, route_completion_count and
\* visible_accept_count
Events(d, t, w) ==
  <<Count({i \in DOMAIN d : d[i].accept <= t /\ d[i].accept > t - w}),
    Count({i \in DOMAIN d : d[i].delivery <= t /\ d[i].delivery > t - w}),
    Count({i \in Visible(d, t) : d[i].accept > t - w})>>

EventFeatures(d, t) ==
  LET done == Completed(d, t)
      open == Visible(d, t)
  IN  [gaps |-> [k \in 1..(Count(done) - 1) |-> d[k + 1].delivery - d[k].delivery],
       ages |-> Tally([i \in open |-> t - d[i].accept]),
       recent |-> Events(d, t, 1), older |-> Events(d, t, 2),
       distances |-> Tally([i \in open |-> Distance(Current(d, t), d[i].place)])]

Features(d, t) ==
  [base |-> BaseFeatures(d, t),
   events |-> IF builder = "closed_set" THEN <<>> ELSE EventFeatures(d, t)]

-----------------------------------------------------------------------------
(* the loop *)

QueryTime == day[index + 1].delivery
InLoop == Len(day) >= 4 /\ index < Len(day) - 1

\* target_next_minutes and target_route_remaining_minutes
Targets(d, t) ==
  LET finishes == {d[i].delivery : i \in Visible(d, t)}
  IN  <<Min(finishes) - t, Max(finishes) - t>>

Describe(kind) ==
  /\ builder = kind /\ InLoop
  /\ Visible(day, QueryTime) # {}
  /\ snapshot' = [query |-> QueryTime, features |-> Features(day, QueryTime),
                  targets |-> Targets(day, QueryTime)]
  /\ index' = index + stride
  /\ UNCHANGED <<builder, day, stride>>

\* The closed-set builder also lists the visible tasks by actual_rank.
ClosedSetSnapshot == Describe("closed_set")
DevelopmentSnapshot == Describe("v2_development")
FinalSnapshot == Describe("v2_final")

\* No visible task: continue.
NothingVisible ==
  /\ InLoop /\ Visible(day, QueryTime) = {}
  /\ index' = index + stride
  /\ UNCHANGED <<builder, day, stride, snapshot>>

DayNext == ClosedSetSnapshot \/ DevelopmentSnapshot \/ FinalSnapshot \/ NothingVisible

DaySpec == DayInit /\ [][DayNext]_dayVars

-----------------------------------------------------------------------------
(* properties *)

Accepted(d, t) == {i \in DOMAIN d : d[i].accept <= t}

\* The known tasks in their order, and the day that has no others.
Listings(d, t) ==
  {q \in Bijection(1..Count(Accepted(d, t)), Accepted(d, t)) :
     \A j, k \in DOMAIN q : j < k => q[j] < q[k]}
Listed(d, q) == [k \in DOMAIN q |-> d[q[k]]]

\* The visible tasks of d are delivered in another order.
Reordered(d, p) ==
  [i \in DOMAIN d |->
     IF i \in DOMAIN p THEN [d[i] EXCEPT !.accept = d[p[i]].accept, !.place = d[p[i]].place]
     ELSE d[i]]

\* From row k on, what is still to be delivered after t comes s later.
Postponed(d, t, k, s) ==
  [i \in DOMAIN d |->
     IF i >= k /\ d[i].delivery > t THEN [d[i] EXCEPT !.delivery = @ + s] ELSE d[i]]

\* The days that differ from d after time t only: the deliveries still to come are
\* later, all or the last of them, and the tasks not yet accepted may not exist.
LaterThan(d, t) ==
  LET postponed == {Postponed(d, t, k, s) : k \in DOMAIN d, s \in Delays}
  IN  postponed \union {Listed(e, q) : e \in postponed, q \in Listings(d, t)}

\* And those in which the visible tasks are delivered in another order besides.
SameUntil(d, t) ==
  UNION {LaterThan(Reordered(d, p), t) : p \in Bijection(Visible(d, t), Visible(d, t))}

\* The same features, or all but the length of the nearest-neighbour path.
SameBut(r, s) ==
  /\ DOMAIN r = DOMAIN s
  /\ \A x \in DOMAIN r \ {"remaining_workload"} : r[x] = s[x]
AllButWalk(f, g) == f.events = g.events /\ SameBut(f.base, g.base)

\* "Later accepted tasks are excluded from features" (lade.py:204), and no feature is
\* a function of when the visible tasks are delivered: with other delivery times and
\* without the later tasks, every feature of a row is what it was.
TimesUnseen ==
  snapshot # NoSnapshot =>
    \A d \in LaterThan(day, snapshot.query) : Features(d, snapshot.query) = snapshot.features

\* Nor, but for remaining_workload, of the order they are delivered in: neither the
\* next stop nor the time to it or to the end of the route shows in the row.
OthersFromPast ==
  snapshot # NoSnapshot =>
    \A d \in SameUntil(day, snapshot.query) :
      AllButWalk(Features(d, snapshot.query), snapshot.features)

\* "Actual delivery timestamps are used only for target duration and route-order
\* labels" (lade.py:205-206): no feature at all depends on that order.  The
\* nearest-neighbour walk does: of equally near tasks it takes the one that will be
\* delivered first.
FeaturesFromPast ==
  snapshot # NoSnapshot =>
    \A d \in SameUntil(day, snapshot.query) : Features(d, snapshot.query) = snapshot.features

=============================================================================

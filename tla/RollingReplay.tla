---------------------------- MODULE RollingReplay ----------------------------
(***************************************************************************)
(* RollingConformalReplay.replay                                           *)
(* (src/src/reference_eta/models/rolling_calibration.py): predictions in   *)
(* the order of their times, each corrected by a quantile of the scores in *)
(* a rolling window.  With delayed labels a score waits in a heap until    *)
(* its outcome is known; otherwise it enters the window at once.           *)
(***************************************************************************)
EXTENDS Integers, Sequences, FiniteSets

CONSTANTS
  WindowSize,     \* window_size
  InitialScores,  \* initial_scores, a sequence
  TargetNum, TargetDen,  \* target_coverage, as a fraction
  Cases,          \* the rows a prediction may have: q10, q50, q90, target
  Steps,          \* bound: the number of predictions
  MaxTime         \* bound: the last prediction time

ASSUME ReplayAssumption ==
  /\ WindowSize \in Nat \ {0}
  /\ InitialScores \in Seq(Int)
  /\ TargetNum \in Nat \ {0} /\ TargetDen \in Nat /\ TargetNum < TargetDen
  /\ Cases \subseteq [q10 : Int, q50 : Int, q90 : Int, target : Int]
  /\ Steps \in Nat /\ MaxTime \in Nat

VARIABLES
  delayed,  \* are prediction_times and label_available_times given?
  phase,    \* "next": at the head of the loop; "release": in its body
  now,      \* current_ns
  past,     \* of each prediction made: its score and when its label arrives
  pending,  \* the heap: predictions whose label has not been used
  window,   \* scores, the deque: entries name the prediction they come from
  released, \* released_count
  row       \* the last row of the result

vars == <<delayed, phase, now, past, pending, window, released, row>>

Larger(x, y) == IF x > y THEN x ELSE y
Smaller(x, y) == IF x < y THEN x ELSE y
CeilDiv(a, b) == (a + b - 1) \div b

Made == Len(past)

-----------------------------------------------------------------------------
(* the window *)

\* deque(maxlen = window_size): the oldest entry makes room.
Push(w, e) == IF Len(w) < WindowSize THEN Append(w, e) ELSE Append(Tail(w), e)

LastOf(s) ==
  IF Len(s) <= WindowSize THEN s
  ELSE SubSeq(s, Len(s) - WindowSize + 1, Len(s))

Entry(i) == [id |-> i, score |-> past[i].score]
InitialEntries ==
  [j \in 1..Len(InitialScores) |-> [id |-> 0, score |-> InitialScores[j]]]

Init ==
  /\ delayed \in BOOLEAN
  /\ phase = "next" /\ now = 0
  /\ past = <<>> /\ pending = {}
  /\ window = LastOf(InitialEntries)
  /\ released = 0
  /\ row = [step |-> 0]

\* The next prediction: prediction_times are nondecreasing.
NextPrediction ==
  /\ phase = "next" /\ Made < Steps
  /\ phase' = "release"
  /\ now' \in now..MaxTime
  /\ released' = 0
  /\ UNCHANGED <<delayed, past, pending, window, row>>

\* Mutants: labels are used whenever they arrive; a label that arrives at this very moment is left for later.
DueAlways == pending
DueBefore == {i \in pending : past[i].avail < now}

Due == {i \in pending : past[i].avail <= now}

\* A mutant: labels leave the heap in the order of their predictions.
ByPrediction(i) == \A j \in pending : i <= j

\* The top of the heap: labels ordered by their time, then by their prediction.
First(i) ==
  \A j \in pending : \/ past[i].avail < past[j].avail
                     \/ past[i].avail = past[j].avail /\ i <= j

\* while pending and pending[0][0] <= current_ns: pop and append
Release ==
  /\ phase = "release"
  /\ \E i \in Due :
       /\ First(i)
       /\ pending' = pending \ {i}
       /\ window' = Push(window, Entry(i))
  /\ released' = released + 1
  /\ UNCHANGED <<delayed, phase, now, past, row>>

-----------------------------------------------------------------------------
(* the correction *)

\* The rank, from 0, that np.quantile(values, level, method="higher") takes of n
\* values, for level = min(ceil((n + 1) * target_coverage) / n, 1).
LevelOfN(n) == Smaller(CeilDiv((n + 1) * TargetNum, TargetDen), n)

\* A mutant: the plain quantile at target_coverage, without the correction for
\* the size of the sample.
PlainRank(n) == ((n - 1) * TargetNum) \div TargetDen

Rank(n) == CeilDiv((n - 1) * LevelOfN(n), n)

AtMost(w, c) == {j \in 1..Len(w) : w[j].score <= c}
Below(w, c) == {j \in 1..Len(w) : w[j].score < c}
ScoresOf(w) == {w[j].score : j \in 1..Len(w)}

\* c is the score of that rank; an empty window corrects nothing.
IsCorrection(w, c) ==
  IF w = <<>> THEN c = 0
  ELSE /\ Cardinality(Below(w, c)) <= Rank(Len(w))
       /\ Cardinality(AtMost(w, c)) > Rank(Len(w))

\* nonconformity of the raw interval
Score(r) == Larger(r.q10 - r.target, r.target - r.q90)

\* A mutant: the median is not kept inside the interval.
UpperUnordered(r, c) == r.q90 + c

Median(r) == Larger(r.q50, 0)
Lower(r, c) == Smaller(Larger(r.q10 - c, 0), Median(r))
Upper(r, c) == Larger(Larger(r.q90 + c, 0), Median(r))

-----------------------------------------------------------------------------
\* No due label is left: the interval is corrected, compared with its target and
\* recorded; then the score of this prediction goes to the heap or the window.
Predict ==
  /\ phase = "release"
  /\ Due = {}
  /\ \E r \in Cases, c \in ScoresOf(window) \union {0},
        avail \in now..(MaxTime + 1) :
       /\ IsCorrection(window, c)
       /\ delayed \/ avail = now
       /\ row' = [step |-> Made + 1, in |-> r, correction |-> c,
                  lower |-> Lower(r, c), upper |-> Upper(r, c)]
       /\ past' = Append(past, [avail |-> avail, score |-> Score(r)])
       /\ \/ /\ delayed
             /\ pending' = pending \union {Made + 1}
             /\ UNCHANGED window
          \/ /\ ~delayed
             /\ window' = Push(window, [id |-> Made + 1, score |-> Score(r)])
             /\ UNCHANGED pending
  /\ phase' = "next"
  /\ UNCHANGED <<delayed, now, released>>

Next == NextPrediction \/ Release \/ Predict

Spec == Init /\ [][Next]_vars

-----------------------------------------------------------------------------
(* properties *)

Past == [avail : Int, score : Int]
WindowEntry == [id : Nat, score : Int]

\* The types, and the window never outgrows window_size.
TypeOK ==
  /\ delayed \in BOOLEAN
  /\ phase \in {"next", "release"}
  /\ now \in Nat
  /\ past \in Seq(Past)
  /\ pending \subseteq 1..Made
  /\ window \in Seq(WindowEntry)
  /\ Len(window) <= WindowSize
  /\ released \in Nat

\* "A prediction's nonconformity score enters the rolling calibration window only
\* after its outcome availability time" (rolling_calibration.py:13): whatever
\* the window holds was known when the current prediction is made.
NoLookAhead ==
  \A j \in 1..Len(window) : window[j].id # 0 =>
    /\ window[j].id <= Made
    /\ past[window[j].id].avail <= now

\* The window a prediction is corrected by.
Settled == phase = "release" /\ Due = {}

\* Labels in the order they become known, those of one moment in the order of
\* their predictions.
Known == {i \in 1..Made : past[i].avail <= now}
KnownSooner(i, j) ==
  past[i].avail < past[j].avail \/ (past[i].avail = past[j].avail /\ i < j)
EntriesOf(o) == [k \in 1..Len(o) |-> Entry(o[k])]

\* The window is what sorting everything that is known by now would give: its
\* last window_size scores.  The heap loses, repeats and reorders nothing, and
\* a label whose time has come is not left for a later prediction.
WindowIsLatest ==
  Settled => \E o \in [1..Cardinality(Known) -> Known] :
    /\ \A j, k \in 1..Len(o) : j < k => KnownSooner(o[j], o[k])
    /\ window = LastOf(InitialEntries \o EntriesOf(o))

\* The correction exists, and the scores of the window it covers are enough for
\* the finite-sample guarantee of split conformal prediction: at least
\* (n + 1) * target_coverage of n of them, or all.
CoversTarget ==
  Settled /\ window # <<>> =>
    LET n == Len(window)
    IN  /\ \E c \in ScoresOf(window) : IsCorrection(window, c)
        /\ \A c \in ScoresOf(window) : IsCorrection(window, c) =>
             LET q == Cardinality(AtMost(window, c))
             IN  q = n \/ q * TargetDen >= (n + 1) * TargetNum

\* Clipping at 0 and at the median never orders the interval wrongly, and never
\* loses a target that the correction covers.
IntervalHolds ==
  row.step > 0 =>
    /\ 0 <= row.lower /\ row.lower <= Median(row.in) /\ Median(row.in) <= row.upper
    /\ row.in.target >= 0 /\ Score(row.in) <= row.correction =>
         row.lower <= row.in.target /\ row.in.target <= row.upper

=============================================================================

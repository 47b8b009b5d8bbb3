----------------------------- MODULE ReplayProofs -----------------------------
(***************************************************************************)
(* The sequential programs of the evaluation: RollingReplay for any window *)
(* size, initial scores, target coverage and predictions, RouteSearch for  *)
(* any stops, travel times and windows, and Snapshots for any days.        *)
(***************************************************************************)
EXTENDS RollingReplay, RouteSearch, Snapshots, SequenceTheorems, FiniteSetTheorems,
        WellFoundedInduction, TLAPS

-----------------------------------------------------------------------------
(***************************************************************************)
(* The rolling calibration: its types, that nothing unknown enters the     *)
(* window, and that a clipped interval is ordered and loses no covered     *)
(* target.                                                                 *)
(***************************************************************************)

\* Every entry of v is e or an entry of w.
FromOr(v, w, e) ==
  \A j \in 1..Len(v) : v[j] = e \/ \E k \in 1..Len(w) : v[j] = w[k]

\* What the deque becomes: one entry more or as many, the new one at the end, the
\* others in their order.
LEMMA PushEntry ==
  ASSUME NEW w \in Seq(WindowEntry), NEW e \in WindowEntry,
         Len(w) <= WindowSize, NEW v, v = Push(w, e)
  PROVE  /\ v \in Seq(WindowEntry)
         /\ Len(v) <= WindowSize
         /\ FromOr(v, w, e)
<1> USE ReplayAssumption DEF ReplayAssumption
<1>1. CASE Len(w) < WindowSize
  BY <1>1 DEF Push, FromOr
<1>2. CASE Len(w) = WindowSize
  <2>1. w # <<>> /\ Tail(w) \in Seq(WindowEntry) /\ Len(Tail(w)) = Len(w) - 1
    BY <1>2
  <2>2. \A j \in 1..Len(Tail(w)) : Tail(w)[j] = w[j + 1] /\ j + 1 \in 1..Len(w)
    BY <2>1
  <2> QED
    BY <1>2, <2>1, <2>2 DEF Push, FromOr
<1> QED
  BY <1>1, <1>2

\* The initial scores as entries of the window, which come from no prediction.
LEMMA InitialAreEntries ==
  /\ InitialEntries \in Seq(WindowEntry)
  /\ \A j \in 1..Len(InitialEntries) : InitialEntries[j].id = 0
<1>1. \A j \in 1..Len(InitialScores) : InitialScores[j] \in Int
  BY ReplayAssumption, ElementOfSeq DEF ReplayAssumption
<1>2. \A j \in 1..Len(InitialScores) :
        [id |-> 0, score |-> InitialScores[j]] \in WindowEntry
  BY <1>1 DEF WindowEntry
<1>3. Len(InitialScores) \in Nat
  BY ReplayAssumption, LenProperties DEF ReplayAssumption
<1>4. InitialEntries \in Seq(WindowEntry) /\ Len(InitialEntries) = Len(InitialScores)
  BY <1>2, <1>3, IsASeq DEF InitialEntries
<1> QED
  BY <1>4 DEF InitialEntries

\* The initial window is a part of the initial scores, at most window_size long.
LEMMA InitialWindow ==
  ASSUME NEW w, w = LastOf(InitialEntries)
  PROVE  /\ w \in Seq(WindowEntry)
         /\ Len(w) <= WindowSize
         /\ \A j \in 1..Len(w) : w[j].id = 0
<1> DEFINE s == InitialEntries
<1>1. /\ s \in Seq(WindowEntry)
      /\ \A j \in 1..Len(s) : s[j].id = 0
  BY InitialAreEntries
<1>2. WindowSize \in Nat \ {0} /\ Len(s) \in Nat
  BY <1>1, ReplayAssumption, LenProperties DEF ReplayAssumption
<1> HIDE DEF s
<1>3. CASE Len(s) <= WindowSize
  BY <1>1, <1>3 DEF LastOf, s
<1>4. CASE Len(s) > WindowSize
  <2> DEFINE m == Len(s) - WindowSize + 1
  <2>1. w = SubSeq(s, m, Len(s)) /\ m \in 1..Len(s)
    BY <1>2, <1>4 DEF LastOf, s
  <2>2. /\ w \in Seq(WindowEntry)
        /\ Len(w) = WindowSize
        /\ \A j \in 1..Len(w) : w[j] = s[m + j - 1] /\ m + j - 1 \in 1..Len(s)
    BY <1>1, <1>2, <2>1, SubSeqProperties
  <2> QED
    BY <1>1, <1>2, <2>2
<1> QED
  BY <1>2, <1>3, <1>4

\* The score of a row is an integer.
LEMMA ScoreType == \A r \in Cases : Score(r) \in Int
  BY ReplayAssumption DEF ReplayAssumption, Score, Larger

\* What a due label becomes in the window.
LEMMA DueEntry ==
  ASSUME TypeOK, NEW i \in Due
  PROVE  /\ i \in 1..Made /\ past[i].avail \in Int
         /\ past[i].avail <= now
         /\ Entry(i) \in WindowEntry /\ Entry(i).id = i
<1>1. i \in 1..Made /\ past[i].avail <= now
  BY DEF Due, TypeOK
<1>2. past[i] \in Past
  BY <1>1, ElementOfSeq DEF TypeOK, Made
<1>3. i \in Nat
  BY <1>1
<1> QED
  BY <1>1, <1>2, <1>3 DEF Past, Entry, WindowEntry

\* What the prediction after Made others leaves behind.
LEMMA PastGrows ==
  ASSUME TypeOK, NEW r \in Cases, NEW avail \in Int,
         past' = Append(past, [avail |-> avail, score |-> Score(r)])
  PROVE  /\ past' \in Seq(Past)
         /\ Made \in Nat /\ Made' = Made + 1
         /\ \A i \in 1..Made : past'[i] = past[i]
         /\ past'[Made + 1].avail = avail
         /\ [id |-> Made + 1, score |-> Score(r)] \in WindowEntry
<1> DEFINE e == [avail |-> avail, score |-> Score(r)]
<1>1. e \in Past
  BY ScoreType DEF Past
<1>2. past \in Seq(Past) /\ Len(past) \in Nat
  BY LenProperties DEF TypeOK
<1>3. e.avail = avail
  OBVIOUS
<1> HIDE DEF e
<1>4. /\ Append(past, e) \in Seq(Past)
      /\ Len(Append(past, e)) = Len(past) + 1
      /\ \A i \in 1..Len(past) : Append(past, e)[i] = past[i]
      /\ Append(past, e)[Len(past) + 1] = e
  BY <1>1, <1>2, AppendProperties
<1>5. past' = Append(past, e)
  BY DEF e
<1>6. [id |-> Made + 1, score |-> Score(r)] \in WindowEntry
  BY <1>2, ScoreType DEF WindowEntry, Made
<1> QED
  BY <1>2, <1>3, <1>4, <1>5, <1>6 DEF Made

\* Every step keeps the types, and the window within window_size.
THEOREM TypeCorrect == Spec => []TypeOK
<1>1. Init => TypeOK
  BY InitialWindow DEF Init, TypeOK, Made
<1>2. TypeOK /\ [Next]_vars => TypeOK'
  <2> SUFFICES ASSUME TypeOK, [Next]_vars PROVE TypeOK'
    OBVIOUS
  <2>0. now \in Nat /\ MaxTime \in Nat /\ Made \in Nat
    BY ReplayAssumption, LenProperties DEF ReplayAssumption, TypeOK, Made
  <2>1. CASE NextPrediction
    BY <2>0, <2>1 DEF NextPrediction, TypeOK, Made
  <2>2. CASE Release
    <3>1. PICK i \in Due : pending' = pending \ {i} /\ window' = Push(window, Entry(i))
      BY <2>2 DEF Release
    <3>2. Entry(i) \in WindowEntry
      BY <3>1, DueEntry
    <3>3. window' \in Seq(WindowEntry) /\ Len(window') <= WindowSize
      BY <3>1, <3>2, PushEntry DEF TypeOK
    <3>4. Made' = Made
      BY <2>2 DEF Release, Made
    <3>5. pending' \subseteq 1..Made'
      BY <3>1, <3>4 DEF TypeOK
    <3> QED
      BY <2>2, <3>3, <3>5 DEF Release, TypeOK
  <2>3. CASE Predict
    <3>1. PICK r \in Cases, avail \in now..(MaxTime + 1) :
            /\ past' = Append(past, [avail |-> avail, score |-> Score(r)])
            /\ \/ pending' = pending \union {Made + 1} /\ UNCHANGED window
               \/ /\ window' = Push(window, [id |-> Made + 1, score |-> Score(r)])
                  /\ UNCHANGED pending
      BY <2>3 DEF Predict
    <3>2. /\ past' \in Seq(Past)
          /\ Made' = Made + 1
          /\ [id |-> Made + 1, score |-> Score(r)] \in WindowEntry
      BY <2>0, <3>1, PastGrows
    <3>3. 1..Made \subseteq 1..Made' /\ Made + 1 \in 1..Made'
      BY <2>0, <3>2
    <3>4. pending' \subseteq 1..Made'
      BY <3>1, <3>3 DEF TypeOK
    <3>5. window' \in Seq(WindowEntry) /\ Len(window') <= WindowSize
      BY <3>1, <3>2, PushEntry DEF TypeOK
    <3> QED
      BY <2>3, <3>2, <3>4, <3>5 DEF Predict, TypeOK
  <2>4. CASE UNCHANGED vars
    BY <2>4 DEF vars, TypeOK, Made
  <2> QED
    BY <2>1, <2>2, <2>3, <2>4 DEF Next
<1> QED
  BY <1>1, <1>2, PTL DEF Spec

\* No prediction is corrected by the score of an outcome that is not yet known,
\* its own included.
THEOREM NeverLooksAhead == Spec => []NoLookAhead
<1>1. Init => NoLookAhead
  BY InitialWindow DEF Init, NoLookAhead
<1>2. TypeOK /\ NoLookAhead /\ [Next]_vars => NoLookAhead'
  <2> SUFFICES ASSUME TypeOK, NoLookAhead, [Next]_vars PROVE NoLookAhead'
    OBVIOUS
  <2>0. /\ now \in Nat /\ MaxTime \in Nat /\ Made \in Nat
        /\ window \in Seq(WindowEntry) /\ Len(window) <= WindowSize
    BY ReplayAssumption, LenProperties DEF ReplayAssumption, TypeOK, Made
  <2>1. ASSUME NEW j \in 1..Len(window), window[j].id # 0
        PROVE  window[j].id \in 1..Made /\ past[window[j].id].avail \in Int
    <3>1. window[j] \in WindowEntry
      BY <2>0, ElementOfSeq
    <3>2. window[j].id \in 1..Made
      BY <2>0, <2>1, <3>1 DEF WindowEntry, NoLookAhead
    <3>3. past[window[j].id] \in Past
      BY <3>2, ElementOfSeq DEF TypeOK, Made
    <3> QED
      BY <3>2, <3>3 DEF Past
  <2>2. CASE NextPrediction
    <3>1. now <= now' /\ now' \in Int /\ past' = past /\ window' = window
      BY <2>0, <2>2 DEF NextPrediction
    <3> QED
      BY <2>0, <2>1, <3>1 DEF NoLookAhead, Made
  <2>3. CASE Release
    <3>1. PICK i \in Due : window' = Push(window, Entry(i))
      BY <2>3 DEF Release
    <3>2. /\ i \in 1..Made /\ past[i].avail <= now
          /\ Entry(i) \in WindowEntry /\ Entry(i).id = i
      BY <3>1, DueEntry
    <3>3. FromOr(window', window, Entry(i))
      BY <2>0, <3>1, <3>2, PushEntry
    <3>4. past' = past /\ now' = now /\ Made' = Made
      BY <2>3 DEF Release, Made
    <3> QED
      BY <3>2, <3>3, <3>4 DEF NoLookAhead, FromOr
  <2>4. CASE Predict
    <3>1. PICK r \in Cases, avail \in now..(MaxTime + 1) :
            /\ past' = Append(past, [avail |-> avail, score |-> Score(r)])
            /\ \/ UNCHANGED window
               \/ /\ window' = Push(window, [id |-> Made + 1, score |-> Score(r)])
                  /\ avail = now
      BY <2>4 DEF Predict
    <3> DEFINE e == [id |-> Made + 1, score |-> Score(r)]
    <3>2. /\ Made' = Made + 1
          /\ \A i \in 1..Made : past'[i] = past[i]
          /\ past'[Made + 1].avail = avail
          /\ e \in WindowEntry /\ e.id = Made + 1
      <4>1. avail \in Int
        BY <2>0
      <4>2. e.id = Made + 1
        OBVIOUS
      <4> QED
        BY <3>1, <4>1, <4>2, PastGrows
    <3>3. now' = now
      BY <2>4 DEF Predict
    <3>4. ASSUME NEW j \in 1..Len(window), window[j].id # 0
          PROVE  /\ window[j].id <= Made'
                 /\ past'[window[j].id].avail <= now'
      BY <2>0, <2>1, <3>2, <3>3, <3>4 DEF NoLookAhead
    <3> HIDE DEF e
    <3>5. CASE UNCHANGED window
      BY <3>4, <3>5 DEF NoLookAhead
    <3>6. CASE window' = Push(window, e) /\ avail = now
      <4>1. FromOr(window', window, e)
        BY <2>0, <3>2, <3>6, PushEntry
      <4>2. e.id <= Made' /\ past'[e.id].avail <= now'
        BY <2>0, <3>2, <3>3, <3>6
      <4> QED
        BY <3>4, <4>1, <4>2 DEF NoLookAhead, FromOr
    <3> QED
      BY <3>1, <3>5, <3>6 DEF e
  <2>5. CASE UNCHANGED vars
    BY <2>5 DEF vars, NoLookAhead, Made
  <2> QED
    BY <2>2, <2>3, <2>4, <2>5 DEF Next
<1> QED
  BY <1>1, <1>2, TypeCorrect, PTL DEF Spec

\* Clipping an interval at 0 and at its median, whatever the correction, even one
\* that is negative or an interval whose quantiles cross.
LEMMA ClippingIsSafe ==
  ASSUME NEW r \in [q10 : Int, q50 : Int, q90 : Int, target : Int], NEW c \in Int
  PROVE  /\ 0 <= Lower(r, c) /\ Lower(r, c) <= Median(r) /\ Median(r) <= Upper(r, c)
         /\ r.target >= 0 /\ Score(r) <= c =>
              Lower(r, c) <= r.target /\ r.target <= Upper(r, c)
  BY DEF Lower, Upper, Median, Score, Larger, Smaller

\* Every row of the result has an ordered, nonnegative interval, and one whose
\* correction covers the score of its outcome holds the outcome.
THEOREM IntervalsHold == Spec => []IntervalHolds
<1>1. Init => IntervalHolds
  BY DEF Init, IntervalHolds
<1>2. TypeOK /\ IntervalHolds /\ [Next]_vars => IntervalHolds'
  <2> SUFFICES ASSUME TypeOK, IntervalHolds, [Next]_vars PROVE IntervalHolds'
    OBVIOUS
  <2>1. CASE UNCHANGED row
    BY <2>1 DEF IntervalHolds
  <2>2. CASE Predict
    <3>1. PICK r \in Cases, c \in ScoresOf(window) \union {0} :
            row' = [step |-> Made + 1, in |-> r, correction |-> c,
                    lower |-> Lower(r, c), upper |-> Upper(r, c)]
      BY <2>2 DEF Predict
    <3>2. c \in Int
      <4>1. \A j \in 1..Len(window) : window[j] \in WindowEntry
        BY ElementOfSeq DEF TypeOK
      <4> QED
        BY <4>1 DEF ScoresOf, WindowEntry
    <3>3. r \in [q10 : Int, q50 : Int, q90 : Int, target : Int]
      BY ReplayAssumption DEF ReplayAssumption
    <3> QED
      BY <3>1, <3>2, <3>3, ClippingIsSafe DEF IntervalHolds
  <2> QED
    BY <2>1, <2>2 DEF Next, NextPrediction, Release, vars
<1> QED
  BY <1>1, <1>2, TypeCorrect, PTL DEF Spec

-----------------------------------------------------------------------------
(***************************************************************************)
(* The correction: its rank, and that some score of the window has it.     *)
(***************************************************************************)

LEMMA ProductsGrow ==
  ASSUME NEW a \in Nat, NEW b \in Nat, NEW c \in Nat, a <= b
  PROVE  a * c <= b * c
<1>1. PICK k \in Nat : b = a + k
  <2>1. b - a \in Nat /\ b = a + (b - a)
    OBVIOUS
  <2> QED
    BY <2>1
<1>2. b * c = a * c + k * c /\ k * c \in Nat /\ a * c \in Nat
  BY <1>1
<1> QED
  BY <1>2

\* Division rounded up is the least number whose product with b reaches a.
LEMMA CeilDivIsLeast ==
  ASSUME NEW a \in Nat, NEW b \in Nat \ {0}
  PROVE  /\ CeilDiv(a, b) \in Nat
         /\ a <= CeilDiv(a, b) * b
         /\ \A m \in Nat : a <= m * b => CeilDiv(a, b) <= m
<1> DEFINE x == a + b - 1
           q == x \div b
           r == x % b
<1>1. x \in Nat /\ q \in Nat /\ r \in Nat /\ r < b /\ x = b * q + r
  OBVIOUS
<1>2. CeilDiv(a, b) = q /\ x = a + b - 1
  BY DEF CeilDiv
<1> HIDE DEF x, q, r
<1>3. q * b = b * q /\ q * b \in Nat
  BY <1>1
<1>4. a <= q * b
  BY <1>1, <1>2, <1>3
<1>5. ASSUME NEW m \in Nat, a <= m * b PROVE q <= m
  <2> SUFFICES ASSUME m + 1 <= q PROVE FALSE
    BY <1>1
  <2>1. (m + 1) * b <= q * b
    BY <1>1, ProductsGrow
  <2>2. (m + 1) * b = m * b + b /\ m * b \in Nat
    OBVIOUS
  <2> QED
    BY <1>1, <1>2, <1>3, <1>5, <2>1, <2>2
<1> QED
  BY <1>1, <1>2, <1>4, <1>5

\* The rank is one of the window's, and it leaves the level's number of scores or
\* more at or below it.
LEMMA RankOfLevel ==
  ASSUME NEW n \in Nat \ {0}
  PROVE  /\ Rank(n) \in 0..(n - 1)
         /\ LevelOfN(n) \in Nat /\ LevelOfN(n) <= Rank(n) + 1
         /\ LevelOfN(n) = n \/ LevelOfN(n) * TargetDen >= (n + 1) * TargetNum
<1> DEFINE k == CeilDiv((n + 1) * TargetNum, TargetDen)
           l == LevelOfN(n)
           r == Rank(n)
<1>1. /\ (n + 1) * TargetNum \in Nat /\ TargetDen \in Nat \ {0}
      /\ k \in Nat /\ (n + 1) * TargetNum <= k * TargetDen
  <2>1. (n + 1) * TargetNum \in Nat /\ TargetDen \in Nat \ {0}
    BY ReplayAssumption DEF ReplayAssumption
  <2> QED
    BY <2>1, CeilDivIsLeast
<1>2. l \in Nat /\ l <= n /\ (l = n \/ l = k)
  BY <1>1 DEF LevelOfN, Smaller
<1>3. r = CeilDiv((n - 1) * l, n)
  BY DEF Rank
<1> HIDE DEF k, l, r
<1>4. (n - 1) * l \in Nat
  BY <1>2
<1>5. r \in Nat /\ (n - 1) * l <= r * n /\ \A m \in Nat : (n - 1) * l <= m * n => r <= m
  BY <1>3, <1>4, CeilDivIsLeast
<1>6. r <= n - 1
  <2>1. l * (n - 1) <= n * (n - 1)
    BY <1>2, ProductsGrow
  <2>2. (n - 1) * l <= (n - 1) * n
    BY <1>2, <2>1
  <2> QED
    BY <1>5, <2>2
<1>7. l <= r + 1
  <2> SUFFICES ASSUME r + 1 <= l - 1 PROVE FALSE
    BY <1>2, <1>5
  <2>1. l - 1 \in Nat
    BY <1>2, <1>5
  <2>2. (r + 1) * n <= (l - 1) * n
    BY <1>5, <2>1, ProductsGrow
  <2>3. /\ (r + 1) * n = r * n + n /\ (l - 1) * n = l * n - n
        /\ (n - 1) * l = l * n - l /\ r * n \in Nat /\ l * n \in Nat
    BY <1>2, <1>5
  <2> QED
    BY <1>2, <1>5, <2>2, <2>3
<1> QED
  BY <1>1, <1>2, <1>5, <1>6, <1>7 DEF l, r

\* A nonempty set of numbers up to n has a least and a largest one.
LEMMA LeastOf ==
  ASSUME NEW T, T \subseteq Nat, T # {}
  PROVE  \E t \in T : \A u \in T : t <= u
<1>1. PICK t \in T : \A u \in T : ~(<<u, t>> \in OpToRel(<, Nat))
  BY WFMin, NatLessThanWellFounded
<1>2. \A u \in T : ~(u < t)
  BY <1>1 DEF OpToRel
<1> QED
  BY <1>2

LEMMA LargestOf ==
  ASSUME NEW n \in Nat, NEW T, T \subseteq 0..n, T # {}
  PROVE  \E t \in T : \A u \in T : u <= t
<1> DEFINE D == {n - t : t \in T}
<1>1. D \subseteq Nat /\ D # {}
  <2>1. \A t \in T : n - t \in Nat
    OBVIOUS
  <2> QED
    BY <2>1
<1>2. PICK d \in D : \A e \in D : d <= e
  BY <1>1, LeastOf
<1>3. PICK t \in T : d = n - t
  BY <1>2
<1>4. ASSUME NEW u \in T PROVE u <= t
  <2>1. n - t <= n - u
    BY <1>2, <1>3
  <2> QED
    BY <2>1
<1> QED
  BY <1>4

LEMMA IntervalSize ==
  ASSUME NEW n \in Nat
  PROVE  IsFiniteSet(1..n) /\ Cardinality(1..n) = n
<1>1. /\ IsFiniteSet(1..n)
      /\ Cardinality(1..n) = IF 1 > n THEN 0 ELSE n - 1 + 1
  BY FS_Interval
<1> QED
  BY <1>1

LEMMA ScoresAreInts ==
  ASSUME NEW w \in Seq(WindowEntry)
  PROVE  /\ Len(w) \in Nat /\ (w # <<>> => Len(w) # 0)
         /\ \A j \in 1..Len(w) : w[j].score \in Int
<1>1. \A j \in 1..Len(w) : w[j] \in WindowEntry
  BY ElementOfSeq
<1> QED
  BY <1>1, LenProperties, EmptySeq DEF WindowEntry

\* How many entries of w have at most the score c, for c one of its scores: from 1
\* to all of them, and the more the larger c is.
LEMMA AtMostGrows ==
  ASSUME NEW w \in Seq(WindowEntry), NEW c \in ScoresOf(w)
  PROVE  /\ c \in Int
         /\ IsFiniteSet(AtMost(w, c)) /\ Cardinality(AtMost(w, c)) \in 0..Len(w)
         /\ \A d \in ScoresOf(w) : c < d =>
              Cardinality(AtMost(w, c)) < Cardinality(AtMost(w, d))
<1>1. Len(w) \in Nat /\ \A j \in 1..Len(w) : w[j].score \in Int
  BY ScoresAreInts
<1>2. IsFiniteSet(1..Len(w)) /\ Cardinality(1..Len(w)) = Len(w)
  BY <1>1, IntervalSize
<1>3. c \in Int
  BY <1>1 DEF ScoresOf
<1>4. /\ IsFiniteSet(AtMost(w, c)) /\ Cardinality(AtMost(w, c)) \in Nat
      /\ Cardinality(AtMost(w, c)) <= Len(w)
  BY <1>2, FS_Subset, FS_CardinalityType DEF AtMost
<1>5. ASSUME NEW d \in ScoresOf(w), c < d
      PROVE  Cardinality(AtMost(w, c)) < Cardinality(AtMost(w, d))
  <2>1. d \in Int /\ \E j \in 1..Len(w) : d = w[j].score
    BY <1>1 DEF ScoresOf
  <2>2. AtMost(w, c) \subseteq AtMost(w, d) /\ AtMost(w, c) # AtMost(w, d)
    BY <1>1, <1>3, <1>5, <2>1 DEF AtMost
  <2>3. IsFiniteSet(AtMost(w, d)) /\ Cardinality(AtMost(w, d)) \in Nat
    BY <1>2, FS_Subset, FS_CardinalityType DEF AtMost
  <2>4. /\ Cardinality(AtMost(w, c)) <= Cardinality(AtMost(w, d))
        /\ Cardinality(AtMost(w, c)) # Cardinality(AtMost(w, d))
    BY <2>2, <2>3, FS_Subset
  <2> QED
    BY <1>4, <2>3, <2>4
<1>6. Cardinality(AtMost(w, c)) \in 0..Len(w)
  BY <1>1, <1>4
<1> QED
  BY <1>3, <1>4, <1>5, <1>6

\* Of scores picked out of a nonempty window one is the largest.
LEMMA LargestScore ==
  ASSUME NEW w \in Seq(WindowEntry), NEW S, S \subseteq ScoresOf(w), S # {}
  PROVE  \E c \in S : \A d \in S : d <= c
<1> DEFINE T == {Cardinality(AtMost(w, c)) : c \in S}
<1>1. T \subseteq 0..Len(w) /\ T # {} /\ Len(w) \in Nat
  BY AtMostGrows, LenProperties
<1>2. PICK t \in T : \A u \in T : u <= t
  BY <1>1, LargestOf
<1>3. PICK c \in S : t = Cardinality(AtMost(w, c))
  BY <1>2
<1>4. ASSUME NEW d \in S PROVE d <= c
  <2>1. /\ c \in Int /\ d \in Int
        /\ Cardinality(AtMost(w, c)) \in Int /\ Cardinality(AtMost(w, d)) \in Int
        /\ c < d => Cardinality(AtMost(w, c)) < Cardinality(AtMost(w, d))
    BY AtMostGrows
  <2>2. Cardinality(AtMost(w, d)) <= Cardinality(AtMost(w, c))
    BY <1>2, <1>3
  <2> QED
    BY <2>1, <2>2
<1> QED
  BY <1>4

\* A nonempty window always has a score of the rank: the smallest that more than
\* Rank entries reach.
LEMMA CorrectionExists ==
  ASSUME NEW w \in Seq(WindowEntry), w # <<>>
  PROVE  \E c \in ScoresOf(w) : IsCorrection(w, c)
<1> DEFINE n == Len(w)
           S == {c \in ScoresOf(w) : Cardinality(AtMost(w, c)) > Rank(n)}
           T == {Cardinality(AtMost(w, c)) : c \in S}
<1>1. n \in Nat \ {0} /\ \A j \in 1..n : w[j].score \in Int
  BY ScoresAreInts
<1>2. Rank(n) \in 0..(n - 1)
  BY <1>1, RankOfLevel
<1>3. S # {}
  <2>1. w[1].score \in ScoresOf(w)
    BY <1>1 DEF ScoresOf
  <2>2. PICK c \in ScoresOf(w) : \A d \in ScoresOf(w) : d <= c
    BY <2>1, LargestScore
  <2>3. AtMost(w, c) = 1..n
    BY <2>2 DEF AtMost, ScoresOf
  <2>4. Cardinality(AtMost(w, c)) = n
    BY <1>1, <2>3, IntervalSize
  <2>5. Cardinality(AtMost(w, c)) > Rank(n)
    BY <1>1, <1>2, <2>4
  <2> QED
    BY <2>2, <2>5
<1>4. T \subseteq Nat /\ T # {}
  BY <1>1, <1>3, AtMostGrows
<1>5. PICK t \in T : \A u \in T : t <= u
  BY <1>4, LeastOf
<1>6. PICK c \in S : t = Cardinality(AtMost(w, c))
  BY <1>5
<1>7. c \in ScoresOf(w) /\ c \in Int /\ Cardinality(AtMost(w, c)) > Rank(n)
  BY <1>6, AtMostGrows
<1>8. Cardinality(Below(w, c)) <= Rank(n)
  <2> DEFINE L == {d \in ScoresOf(w) : d < c}
  <2>1. CASE L = {}
    <3>1. Below(w, c) = {}
      BY <2>1 DEF Below, ScoresOf
    <3> QED
      BY <1>2, <3>1, FS_EmptySet
  <2>2. CASE L # {}
    <3>1. PICK d \in L : \A e \in L : e <= d
      BY <2>2, LargestScore
    <3>2. Below(w, c) \subseteq AtMost(w, d)
      BY <3>1 DEF Below, AtMost, ScoresOf
    <3>3. /\ IsFiniteSet(AtMost(w, d)) /\ Cardinality(AtMost(w, d)) \in Int
          /\ Cardinality(AtMost(w, d)) < Cardinality(AtMost(w, c))
          /\ Cardinality(AtMost(w, c)) \in Int
      BY <1>7, <3>1, AtMostGrows
    <3>4. d \notin S
      <4> SUFFICES ASSUME d \in S PROVE FALSE
        OBVIOUS
      <4>1. Cardinality(AtMost(w, c)) <= Cardinality(AtMost(w, d))
        BY <1>5, <1>6
      <4> QED
        BY <3>3, <4>1
    <3>5. Cardinality(AtMost(w, d)) <= Rank(n)
      BY <1>2, <3>1, <3>3, <3>4
    <3>6. Cardinality(Below(w, c)) <= Cardinality(AtMost(w, d))
      BY <3>2, <3>3, FS_Subset
    <3>7. Cardinality(Below(w, c)) \in Nat
      BY <3>2, <3>3, FS_Subset, FS_CardinalityType
    <3> QED
      BY <1>2, <3>3, <3>5, <3>6, <3>7
  <2> QED
    BY <2>1, <2>2
<1> QED
  BY <1>7, <1>8 DEF IsCorrection

\* Whatever the window holds, a correction exists, and it covers as many of its
\* scores as the finite-sample guarantee asks for.
THEOREM CorrectionsCover == Spec => []CoversTarget
<1>1. TypeOK => CoversTarget
  <2> SUFFICES ASSUME TypeOK, window # <<>>
      PROVE  LET n == Len(window)
             IN  /\ \E c \in ScoresOf(window) : IsCorrection(window, c)
                 /\ \A c \in ScoresOf(window) : IsCorrection(window, c) =>
                      LET q == Cardinality(AtMost(window, c))
                      IN  q = n \/ q * TargetDen >= (n + 1) * TargetNum
    BY DEF CoversTarget
  <2>1. window \in Seq(WindowEntry) /\ Len(window) \in Nat \ {0}
    BY LenProperties, EmptySeq DEF TypeOK
  <2>2. ASSUME NEW c \in ScoresOf(window), IsCorrection(window, c)
        PROVE  LET q == Cardinality(AtMost(window, c))
               IN  \/ q = Len(window)
                   \/ q * TargetDen >= (Len(window) + 1) * TargetNum
    <3> DEFINE n == Len(window)
               q == Cardinality(AtMost(window, c))
               l == LevelOfN(n)
    <3>1. q \in 0..n /\ q > Rank(n)
      BY <2>1, <2>2, AtMostGrows DEF IsCorrection
    <3>2. /\ Rank(n) \in 0..(n - 1) /\ l \in Nat /\ l <= Rank(n) + 1
          /\ l = n \/ l * TargetDen >= (n + 1) * TargetNum
      BY <2>1, RankOfLevel
    <3>3. q \in Nat /\ l <= q
      BY <2>1, <3>1, <3>2
    <3>4. l * TargetDen <= q * TargetDen
      BY <3>2, <3>3, ReplayAssumption, ProductsGrow DEF ReplayAssumption
    <3>5. /\ l * TargetDen \in Nat /\ q * TargetDen \in Nat
          /\ (n + 1) * TargetNum \in Nat /\ n \in Nat
      BY <2>1, <3>2, <3>3, ReplayAssumption DEF ReplayAssumption
    <3> HIDE DEF n, q, l
    <3>6. q = n \/ q * TargetDen >= (n + 1) * TargetNum
      BY <3>1, <3>2, <3>3, <3>4, <3>5
    <3> QED
      BY <3>6 DEF n, q
  <2> QED
    BY <2>1, <2>2, CorrectionExists
<1> QED
  BY <1>1, TypeCorrect, PTL

-----------------------------------------------------------------------------
(***************************************************************************)
(* The window and the heap.  Merged says that what has left the heap, put  *)
(* in the order in which it became known, is what the window was filled    *)
(* from, and that it is all known, and sooner than what is in the heap.    *)
(***************************************************************************)

Used == (1..Made) \ pending

Filled(o) ==
  /\ o \in Seq(Nat) /\ Len(o) = Cardinality(Used)
  /\ \A k \in 1..Len(o) : o[k] \in Used
  /\ \A j, k \in 1..Len(o) : j < k => KnownSooner(o[j], o[k])
  /\ window = LastOf(InitialEntries \o EntriesOf(o))

Merged ==
  /\ \E o \in Seq(Nat) : Filled(o)
  /\ \A i \in Used : past[i].avail <= now
  /\ \A i \in Used, j \in pending : KnownSooner(i, j)
  /\ ~delayed => pending = {}

\* Pushing onto the last entries of u gives the last entries of u and the new one.
LEMMA LastOfAppend ==
  ASSUME NEW u \in Seq(WindowEntry), NEW e \in WindowEntry
  PROVE  LastOf(Append(u, e)) = Push(LastOf(u), e)
<1> USE ReplayAssumption DEF ReplayAssumption
<1> DEFINE n == Len(u)
           ws == WindowSize
           v == Append(u, e)
           s == LastOf(u)
<1>1. n \in Nat /\ ws \in Nat \ {0}
  BY LenProperties
<1>2. /\ v \in Seq(WindowEntry) /\ Len(v) = n + 1
      /\ \A k \in 1..n : v[k] = u[k]
      /\ v[n + 1] = e
  BY AppendProperties
<1>3. CASE n < ws
  BY <1>1, <1>2, <1>3 DEF LastOf, Push
<1>4. CASE n >= ws
  <2>1. /\ s \in Seq(WindowEntry) /\ Len(s) = ws
        /\ \A k \in 1..ws : s[k] = u[n - ws + k]
    <3>1. CASE n = ws
      <4>1. s = u
        <5>1. Len(u) <= WindowSize
          BY <1>1, <3>1
        <5> QED
          BY <5>1, Zenon DEF LastOf
      <4>2. \A k \in 1..ws : n - ws + k = k
        BY <1>1, <3>1
      <4> HIDE DEF s
      <4> QED
        BY <3>1, <4>1, <4>2
    <3>2. CASE n > ws
      <4>1. s = SubSeq(u, n - ws + 1, n)
        BY <1>1, <3>2 DEF LastOf
      <4>2. n - ws + 1 \in 1..n /\ \A k \in 1..n : u[k] \in WindowEntry
        BY <1>1, <3>2, ElementOfSeq
      <4>3. /\ SubSeq(u, n - ws + 1, n) \in Seq(WindowEntry)
            /\ Len(SubSeq(u, n - ws + 1, n)) = ws
            /\ \A k \in 1..ws : SubSeq(u, n - ws + 1, n)[k] = u[n - ws + 1 + k - 1]
        BY <1>1, <4>2, SubSeqProperties
      <4>4. \A k \in 1..ws : n - ws + 1 + k - 1 = n - ws + k
        BY <1>1
      <4> HIDE DEF s
      <4> QED
        BY <4>1, <4>3, <4>4
    <3> QED
      BY <1>1, <1>4, <3>1, <3>2
  <2> DEFINE l == SubSeq(v, n - ws + 2, n + 1)
             r == Append(Tail(s), e)
  <2> HIDE DEF v, s, n
  <2>2. LastOf(v) = l
    <3>1. Len(v) > ws /\ Len(v) - ws + 1 = n - ws + 2
      BY <1>1, <1>2, <1>4
    <3>2. LastOf(v) = SubSeq(v, Len(v) - ws + 1, Len(v))
      <4>1. ~(Len(v) <= WindowSize)
        BY <1>1, <1>2, <3>1
      <4> QED
        BY <4>1, Zenon DEF LastOf
    <3> QED
      BY <1>2, <3>1, <3>2
  <2> HIDE DEF ws
  <2>3. /\ l \in Seq(WindowEntry) /\ Len(l) = ws
        /\ \A k \in 1..ws : l[k] = v[n - ws + 1 + k]
    <3>1. n - ws + 2 \in 1..(n + 1) /\ \A k \in 1..(n + 1) : v[k] \in WindowEntry
      BY <1>1, <1>2, <1>4, ElementOfSeq
    <3>2. /\ l \in Seq(WindowEntry) /\ Len(l) = ws
          /\ \A k \in 1..ws : l[k] = v[n - ws + 2 + k - 1]
      <4> DEFINE a == n - ws + 2
                 z == n + 1
      <4>1. a \in Int /\ z \in Int /\ a <= z /\ z - a + 1 = ws
        BY <1>1, <1>4
      <4>2. \A k \in a..z : v[k] \in WindowEntry
        BY <1>1, <1>4, <3>1
      <4> HIDE DEF a, z
      <4>3. /\ SubSeq(v, a, z) \in Seq(WindowEntry)
            /\ Len(SubSeq(v, a, z)) = IF a <= z THEN z - a + 1 ELSE 0
            /\ \A k \in 1..(z - a + 1) : SubSeq(v, a, z)[k] = v[a + k - 1]
        BY <4>1, <4>2, SubSeqProperties
      <4>4. l = SubSeq(v, a, z)
        BY DEF l, a, z
      <4> HIDE DEF l
      <4>5. /\ l \in Seq(WindowEntry) /\ Len(l) = ws
            /\ \A k \in 1..ws : l[k] = v[a + k - 1]
        BY <4>1, <4>3, <4>4
      <4> QED
        BY <4>5 DEF a
    <3>3. \A k \in 1..ws : n - ws + 2 + k - 1 = n - ws + 1 + k
      BY <1>1
    <3> HIDE DEF l
    <3> QED
      BY <3>2, <3>3
  <2>4. s # <<>>
    BY <1>1, <2>1, EmptySeq
  <2>5. /\ Tail(s) \in Seq(WindowEntry) /\ Len(Tail(s)) = ws - 1
        /\ \A k \in 1..(ws - 1) : Tail(s)[k] = s[k + 1]
    BY <1>1, <2>1, <2>4, HeadTailProperties
  <2>6. /\ r \in Seq(WindowEntry) /\ Len(r) = ws
        /\ \A k \in 1..(ws - 1) : r[k] = s[k + 1]
        /\ r[ws] = e
    <3>1. /\ r \in Seq(WindowEntry) /\ Len(r) = ws - 1 + 1
          /\ \A k \in 1..(ws - 1) : r[k] = Tail(s)[k]
          /\ r[ws - 1 + 1] = e
      BY <2>5, AppendProperties
    <3> QED
      BY <1>1, <2>5, <3>1
  <2> HIDE DEF l, r
  <2>7. ASSUME NEW k \in 1..ws PROVE l[k] = r[k]
    <3>1. CASE k = ws
      BY <1>1, <1>2, <2>3, <2>6, <3>1
    <3>2. CASE k < ws
      <4>1. k \in 1..(ws - 1) /\ k + 1 \in 1..ws /\ n - ws + (k + 1) \in 1..n
        BY <1>1, <1>4, <3>2
      <4>2. r[k] = u[n - ws + (k + 1)]
        BY <2>1, <2>6, <4>1
      <4>3. l[k] = v[n - ws + (k + 1)]
        <5>1. n - ws + 1 + k = n - ws + (k + 1)
          BY <1>1
        <5> QED
          BY <2>3, <5>1
      <4> QED
        BY <1>2, <4>1, <4>2, <4>3
    <3> QED
      BY <1>1, <3>1, <3>2
  <2>8. l = r
    BY <2>3, <2>6, <2>7, SeqEqual
  <2>9. Push(s, e) = r
    BY <2>1 DEF Push, ws, r
  <2> QED
    BY <2>2, <2>8, <2>9 DEF v, s
<1> QED
  BY <1>1, <1>3, <1>4

\* The entries of the predictions o under the past h.
RowsOf(h, o) == [k \in 1..Len(o) |-> [id |-> o[k], score |-> h[o[k]].score]]

\* They are entries of a window; one more prediction is one more entry.
LEMMA RowsGrow ==
  ASSUME NEW h \in Seq(Past), NEW o \in Seq(Nat),
         \A k \in 1..Len(o) : o[k] \in 1..Len(h),
         NEW i \in 1..Len(h), NEW e, e = [id |-> i, score |-> h[i].score]
  PROVE  /\ e \in WindowEntry
         /\ RowsOf(h, o) \in Seq(WindowEntry)
         /\ RowsOf(h, Append(o, i)) = Append(RowsOf(h, o), e)
<1> DEFINE f(j) == [id |-> j, score |-> h[j].score]
<1>1. Len(h) \in Nat /\ Len(o) \in Nat /\ i \in Nat
  BY LenProperties
<1>2. \A j \in 1..Len(h) : f(j) \in WindowEntry
  <2>1. \A j \in 1..Len(h) : h[j] \in Past /\ j \in Nat
    BY <1>1, ElementOfSeq
  <2> QED
    BY <2>1 DEF Past, WindowEntry
<1>3. ASSUME NEW p \in Seq(Nat), \A k \in 1..Len(p) : p[k] \in 1..Len(h)
      PROVE  /\ RowsOf(h, p) \in Seq(WindowEntry) /\ Len(RowsOf(h, p)) = Len(p)
             /\ \A k \in 1..Len(p) : RowsOf(h, p)[k] = f(p[k])
  <2>1. Len(p) \in Nat /\ \A k \in 1..Len(p) : f(p[k]) \in WindowEntry
    BY <1>2, <1>3, LenProperties
  <2> QED
    BY <2>1, IsASeq DEF RowsOf
<1>4. e = f(i) /\ e \in WindowEntry
  BY <1>2
<1> HIDE DEF f
<1> DEFINE p == Append(o, i)
           l == RowsOf(h, p)
           r == Append(RowsOf(h, o), e)
<1>5. /\ p \in Seq(Nat) /\ Len(p) = Len(o) + 1
      /\ \A k \in 1..Len(o) : p[k] = o[k]
      /\ p[Len(o) + 1] = i
  BY <1>1, AppendProperties
<1> HIDE DEF p
<1>6. ASSUME NEW k \in 1..Len(p) PROVE p[k] \in 1..Len(h)
  <2>1. CASE k = Len(o) + 1
    BY <1>5, <2>1
  <2>2. CASE k # Len(o) + 1
    <3>1. k \in 1..Len(o)
      BY <1>1, <1>5, <2>2
    <3> QED
      BY <1>5, <3>1
  <2> QED
    BY <2>1, <2>2
<1>7. /\ l \in Seq(WindowEntry) /\ Len(l) = Len(o) + 1
      /\ \A k \in 1..(Len(o) + 1) : l[k] = f(p[k])
  BY <1>3, <1>5, <1>6
<1>8. /\ RowsOf(h, o) \in Seq(WindowEntry) /\ Len(RowsOf(h, o)) = Len(o)
      /\ \A k \in 1..Len(o) : RowsOf(h, o)[k] = f(o[k])
  BY <1>3
<1>9. /\ r \in Seq(WindowEntry) /\ Len(r) = Len(o) + 1
      /\ \A k \in 1..Len(o) : r[k] = RowsOf(h, o)[k]
      /\ r[Len(o) + 1] = e
  BY <1>4, <1>8, AppendProperties
<1> HIDE DEF l, r
<1>10. ASSUME NEW k \in 1..(Len(o) + 1) PROVE l[k] = r[k]
  <2>1. CASE k = Len(o) + 1
    BY <1>4, <1>5, <1>7, <1>9, <2>1
  <2>2. CASE k # Len(o) + 1
    <3>1. k \in 1..Len(o)
      BY <1>1, <2>2
    <3> QED
      BY <1>5, <1>7, <1>8, <1>9, <3>1
  <2> QED
    BY <2>1, <2>2
<1>11. l = r
  BY <1>7, <1>9, <1>10, SeqEqual
<1> QED
  BY <1>4, <1>8, <1>11 DEF l, r, p

\* What the past holds of the predictions that were made stays.
PastStays ==
  /\ past \in Seq(Past) /\ past' \in Seq(Past) /\ Made <= Made'
  /\ \A i \in 1..Made : past'[i] = past[i]

LEMMA FilledStays ==
  ASSUME PastStays, UNCHANGED window, Used' = Used, NEW o, Filled(o)
  PROVE  Filled(o)'
<1>1. /\ o \in Seq(Nat) /\ Len(o) \in Nat /\ Made \in Nat
      /\ \A k \in 1..Len(o) : o[k] \in 1..Made
  BY LenProperties DEF Filled, Used, PastStays, Made
<1>2. EntriesOf(o)' = EntriesOf(o)
  BY <1>1 DEF EntriesOf, Entry, PastStays
<1>3. ASSUME NEW j \in 1..Len(o), NEW k \in 1..Len(o), j < k
      PROVE  KnownSooner(o[j], o[k])'
  <2>1. KnownSooner(o[j], o[k])
    BY <1>3 DEF Filled
  <2>2. o[j] \in 1..Made /\ o[k] \in 1..Made
    BY <1>1
  <2> QED
    BY <2>1, <2>2 DEF KnownSooner, PastStays
<1> QED
  BY <1>1, <1>2, <1>3 DEF Filled, InitialEntries, LastOf

\* One more prediction that became known after all the others enters the window.
LEMMA FilledGrows ==
  ASSUME PastStays, NEW o, Filled(o), NEW i \in 1..Made', i \notin Used,
         Used' = Used \union {i}, window' = Push(window, Entry(i)'),
         \A u \in Used : KnownSooner(u, i)'
  PROVE  Filled(Append(o, i))'
<1> DEFINE p == Append(o, i)
<1>1. /\ o \in Seq(Nat) /\ Len(o) \in Nat /\ Made \in Nat /\ Made' \in Nat
      /\ \A k \in 1..Len(o) : o[k] \in 1..Made
  BY LenProperties DEF Filled, Used, PastStays, Made
<1>2. \A k \in 1..Len(o) : o[k] \in 1..Made'
  BY <1>1 DEF PastStays
<1>3. EntriesOf(o)' = EntriesOf(o)
  BY <1>1 DEF EntriesOf, Entry, PastStays
<1>4. /\ p \in Seq(Nat) /\ Len(p) = Len(o) + 1
      /\ \A k \in 1..Len(o) : p[k] = o[k]
      /\ p[Len(o) + 1] = i
  BY <1>1, AppendProperties
<1> HIDE DEF p
<1>5. Len(p) = Cardinality(Used)'
  <2>1. IsFiniteSet(Used)
    BY <1>1, IntervalSize, FS_Subset DEF Used
  <2>2. Cardinality(Used \union {i}) = Cardinality(Used) + 1
    BY <2>1, FS_AddElement
  <2> QED
    BY <1>4, <2>2 DEF Filled
<1>6. \A k \in 1..Len(p) : p[k] \in Used'
  BY <1>1, <1>4 DEF Filled
<1>7. ASSUME NEW j \in 1..Len(p), NEW k \in 1..Len(p), j < k
      PROVE  KnownSooner(p[j], p[k])'
  <2>1. j \in 1..Len(o) /\ p[j] = o[j] /\ o[j] \in Used
    BY <1>1, <1>4, <1>7 DEF Filled
  <2>2. CASE k = Len(o) + 1
    BY <1>4, <2>1, <2>2
  <2>3. CASE k \in 1..Len(o)
    <3>1. KnownSooner(o[j], o[k]) /\ p[k] = o[k]
      BY <1>4, <1>7, <2>1, <2>3 DEF Filled
    <3>2. o[j] \in 1..Made /\ o[k] \in 1..Made
      BY <1>1, <2>1, <2>3
    <3> QED
      BY <2>1, <3>1, <3>2 DEF KnownSooner, PastStays
  <2> QED
    BY <1>1, <1>4, <2>2, <2>3
<1>8. window' = LastOf(InitialEntries \o EntriesOf(p)')
  <2> DEFINE e == Entry(i)'
             u == InitialEntries \o EntriesOf(o)
  <2>1. /\ e = [id |-> i, score |-> past'[i].score]
        /\ EntriesOf(o)' = RowsOf(past', o) /\ EntriesOf(p)' = RowsOf(past', p)
    BY DEF Entry, EntriesOf, RowsOf
  <2>2. /\ e \in WindowEntry
        /\ EntriesOf(o)' \in Seq(WindowEntry)
        /\ EntriesOf(p)' = Append(EntriesOf(o)', e)
    BY <1>1, <1>2, <2>1, RowsGrow DEF PastStays, Made, p
  <2>3. u \in Seq(WindowEntry)
    BY <1>3, <2>2, InitialAreEntries, ConcatProperties
  <2> HIDE DEF e
  <2>4. InitialEntries \o Append(EntriesOf(o), e) = Append(u, e)
    <3>1. EntriesOf(o) \in Seq(WindowEntry) /\ <<e>> \in Seq(WindowEntry)
      BY <1>3, <2>2
    <3>2. Append(EntriesOf(o), e) = EntriesOf(o) \o <<e>>
      BY <2>2, <3>1, AppendIsConcat
    <3>3. Append(u, e) = u \o <<e>>
      BY <2>2, <2>3, AppendIsConcat
    <3> QED
      BY <3>1, <3>2, <3>3, InitialAreEntries, ConcatAssociative
  <2>5. LastOf(Append(u, e)) = Push(LastOf(u), e)
    BY <2>2, <2>3, LastOfAppend
  <2>6. window = LastOf(u)
    BY DEF Filled
  <2> QED
    BY <1>3, <2>2, <2>4, <2>5, <2>6 DEF e
<1> QED
  BY <1>4, <1>5, <1>6, <1>7, <1>8 DEF Filled, p, LastOf, InitialEntries

\* Of any past, an entry of it.
LEMMA PastEntry ==
  ASSUME TypeOK, NEW i \in 1..Made
  PROVE  past[i].avail \in Int /\ i \in Nat
<1>1. past[i] \in Past
  BY ElementOfSeq DEF TypeOK, Made
<1> QED
  BY <1>1 DEF Past

\* At the first prediction the window is filled from the initial scores alone.
LEMMA MergedStarts == ASSUME Init PROVE Merged
<1>1. Used = {} /\ pending = {} /\ past = <<>>
  BY DEF Init, Used, Made
<1>2. EntriesOf(<<>>) = <<>>
  BY DEF EntriesOf
<1>3. InitialEntries \o EntriesOf(<<>>) = InitialEntries
  BY <1>2, InitialAreEntries, ConcatEmptySeq
<1>4. Filled(<<>>)
  <2>1. <<>> \in Seq(Nat) /\ Len(<<>>) = 0 /\ 1..Len(<<>>) = {}
    OBVIOUS
  <2>2. Cardinality(Used) = 0
    BY <1>1, FS_EmptySet
  <2>3. window = LastOf(InitialEntries \o EntriesOf(<<>>))
    BY <1>3 DEF Init
  <2> QED
    BY <2>1, <2>2, <2>3 DEF Filled
<1>5. <<>> \in Seq(Nat)
  OBVIOUS
<1> QED
  BY <1>1, <1>4, <1>5 DEF Merged

\* Time goes on.
LEMMA MergedNext == ASSUME TypeOK, Merged, NextPrediction PROVE Merged'
<1>1. UNCHANGED <<delayed, past, pending, window>> /\ now \in Int /\ now' \in Int /\ now <= now'
  BY ReplayAssumption DEF ReplayAssumption, TypeOK, NextPrediction
<1>2. Used' = Used /\ PastStays
  BY <1>1, LenProperties DEF Used, Made, PastStays, TypeOK
<1>3. PICK o \in Seq(Nat) : Filled(o)
  BY DEF Merged
<1>4. Filled(o)'
  BY <1>1, <1>2, <1>3, FilledStays
<1>5. \A i \in Used : past[i].avail \in Int
  BY PastEntry DEF Used
<1> QED
  BY <1>1, <1>2, <1>4, <1>5 DEF Merged, KnownSooner

\* The top of the heap is sooner than all that stays in it.
LEMMA MergedRelease == ASSUME TypeOK, Merged, Release PROVE Merged'
<1>1. PICK i \in Due : /\ First(i) /\ pending' = pending \ {i}
                       /\ window' = Push(window, Entry(i))
  BY DEF Release
<1>2. UNCHANGED <<delayed, now, past>> /\ Made' = Made
  BY DEF Release, Made
<1>3. i \in pending /\ i \in 1..Made /\ past[i].avail <= now /\ pending \subseteq 1..Made
  BY <1>1 DEF Due, TypeOK
<1>4. Used' = Used \union {i} /\ i \notin Used
  BY <1>1, <1>2, <1>3 DEF Used
<1>5. PastStays
  BY <1>2, LenProperties DEF PastStays, Made, TypeOK
<1>6. PICK o \in Seq(Nat) : Filled(o)
  BY DEF Merged
<1>7. \A u \in Used : KnownSooner(u, i)'
  BY <1>2, <1>3 DEF Merged, KnownSooner
<1>8. window' = Push(window, Entry(i)')
  BY <1>1, <1>2 DEF Entry
<1>9. Filled(Append(o, i))'
  BY <1>2, <1>3, <1>4, <1>5, <1>6, <1>7, <1>8, FilledGrows
<1>10. Append(o, i) \in Seq(Nat)
  BY <1>3
<1>11. ASSUME NEW j \in pending' PROVE KnownSooner(i, j)'
  <2>1. /\ j \in pending /\ j # i /\ j \in 1..Made
        /\ past[i].avail \in Int /\ past[j].avail \in Int
        /\ i \in Int /\ j \in Int
    <3>1. j \in pending /\ j # i
      BY <1>1, <1>11
    <3>2. i \in 1..Made /\ j \in 1..Made
      BY <1>3, <3>1
    <3> QED
      BY <3>1, <3>2, PastEntry
  <2> QED
    BY <1>1, <1>2, <2>1 DEF First, KnownSooner
<1>12. ASSUME NEW u \in Used, NEW j \in pending' PROVE KnownSooner(u, j)'
  BY <1>1, <1>2, <1>12 DEF Merged, KnownSooner
<1> QED
  BY <1>1, <1>2, <1>3, <1>4, <1>9, <1>10, <1>11, <1>12 DEF Merged

\* A new prediction is later than all that is known, in the heap or in the window.
LEMMA MergedPredict == ASSUME TypeOK, Merged, Predict PROVE Merged'
<1>1. PICK r \in Cases, avail \in now..(MaxTime + 1) :
        /\ delayed \/ avail = now
        /\ past' = Append(past, [avail |-> avail, score |-> Score(r)])
        /\ \/ delayed /\ pending' = pending \union {Made + 1} /\ UNCHANGED window
           \/ /\ ~delayed /\ UNCHANGED pending
              /\ window' = Push(window, [id |-> Made + 1, score |-> Score(r)])
  BY DEF Predict
<1>2. UNCHANGED <<delayed, now>> /\ now \in Nat /\ avail \in Int /\ now <= avail
  BY <1>1, ReplayAssumption DEF ReplayAssumption, Predict, TypeOK
<1>3. /\ past' \in Seq(Past) /\ Made \in Nat /\ Made' = Made + 1
      /\ \A i \in 1..Made : past'[i] = past[i]
      /\ past'[Made + 1].avail = avail /\ past'[Made + 1].score = Score(r)
  <2> DEFINE e == [avail |-> avail, score |-> Score(r)]
  <2>1. past \in Seq(Past) /\ e \in Past /\ e.avail = avail /\ e.score = Score(r)
    BY <1>2, ScoreType DEF TypeOK, Past
  <2>2. past' = Append(past, e) /\ Len(past) \in Nat
    BY <1>1, <2>1, LenProperties
  <2> HIDE DEF e
  <2> QED
    BY <2>1, <2>2, AppendProperties DEF Made
<1>0. PICK m \in Nat : m = Made + 1
  BY <1>3
<1>4. PastStays
  BY <1>3 DEF PastStays, TypeOK
<1>5. PICK o \in Seq(Nat) : Filled(o)
  BY DEF Merged
<1>6. /\ pending \subseteq 1..Made /\ Made + 1 \notin 1..Made
      /\ 1..Made' = 1..Made \union {Made + 1}
  BY <1>3 DEF TypeOK
<1>7. ASSUME NEW u \in Used
      PROVE  /\ u \in 1..Made /\ past'[u].avail <= now /\ u < Made + 1
             /\ past'[u].avail \in Int
             /\ KnownSooner(u, m)'
  <2>1. u \in 1..Made /\ past[u].avail <= now
    BY <1>7 DEF Used, Merged
  <2>2. past[u].avail \in Int
    BY <2>1, PastEntry
  <2>3. past'[u].avail <= avail /\ u < Made + 1 /\ past'[u].avail \in Int
    BY <1>2, <1>3, <2>1, <2>2
  <2>4. KnownSooner(u, m)'
    BY <1>0, <1>2, <1>3, <2>3 DEF KnownSooner
  <2> QED
    BY <1>3, <2>1, <2>3, <2>4
<1>8. ASSUME NEW u \in Used, NEW j \in pending PROVE KnownSooner(u, j)'
  <2>1. u \in 1..Made /\ j \in 1..Made /\ KnownSooner(u, j)
    BY <1>6, <1>8 DEF Used, Merged
  <2> QED
    BY <1>3, <2>1 DEF KnownSooner
<1>9. CASE delayed
  <2>1. pending' = pending \union {Made + 1} /\ UNCHANGED window
    BY <1>1, <1>9
  <2>2. Used' = Used
    BY <1>6, <2>1 DEF Used
  <2>3. Filled(o)'
    BY <1>4, <1>5, <2>1, <2>2, FilledStays
  <2> QED
    BY <1>0, <1>2, <1>5, <1>7, <1>8, <1>9, <2>1, <2>2, <2>3 DEF Merged
<1>10. CASE ~delayed
  <2>1. /\ pending = {} /\ pending' = {} /\ avail = now
        /\ window' = Push(window, [id |-> Made + 1, score |-> Score(r)])
    BY <1>1, <1>10 DEF Merged
  <2>2. Used' = Used \union {m} /\ m \notin Used /\ m \in 1..Made'
    BY <1>0, <1>6, <2>1 DEF Used
  <2>3. Entry(m)' = [id |-> Made + 1, score |-> Score(r)]
    BY <1>0, <1>3 DEF Entry
  <2>4. Filled(Append(o, m))'
    BY <1>4, <1>5, <1>7, <2>1, <2>2, <2>3, FilledGrows
  <2>5. Append(o, m) \in Seq(Nat)
    BY <1>5
  <2>6. \A u \in Used' : past'[u].avail <= now'
    BY <1>0, <1>2, <1>3, <1>7, <2>1, <2>2
  <2> QED
    BY <1>2, <1>10, <2>1, <2>4, <2>5, <2>6 DEF Merged
<1> QED
  BY <1>9, <1>10

\* Every step keeps the window in step with the heap.
LEMMA MergedInvariant == Spec => []Merged
<1>1. TypeOK /\ Merged /\ [Next]_vars => Merged'
  <2>1. ASSUME TypeOK, Merged, UNCHANGED vars PROVE Merged'
    <3>1. PICK o \in Seq(Nat) : Filled(o)
      BY <2>1 DEF Merged
    <3>2. PastStays /\ Used' = Used /\ UNCHANGED <<delayed, now, past, pending, window>>
      BY <2>1, LenProperties DEF vars, PastStays, TypeOK, Made, Used
    <3>3. Filled(o)'
      BY <3>1, <3>2, FilledStays
    <3> QED
      BY <2>1, <3>2, <3>3 DEF Merged, KnownSooner
  <2> QED
    BY <2>1, MergedNext, MergedRelease, MergedPredict DEF Next
<1> QED
  BY <1>1, MergedStarts, TypeCorrect, PTL DEF Spec

\* When a prediction is made the window holds the last window_size of everything
\* that is known by then, in the order in which it became known.
THEOREM WindowsAreLatest == Spec => []WindowIsLatest
<1>1. TypeOK /\ Merged => WindowIsLatest
  <2> SUFFICES ASSUME TypeOK, Merged, Settled
      PROVE  \E o \in [1..Cardinality(Known) -> Known] :
               /\ \A j, k \in 1..Len(o) : j < k => KnownSooner(o[j], o[k])
               /\ window = LastOf(InitialEntries \o EntriesOf(o))
    BY DEF WindowIsLatest
  <2>1. Known = Used
    <3>1. \A i \in pending : i \in 1..Made /\ ~(past[i].avail <= now)
      BY DEF Settled, Due, TypeOK
    <3> QED
      BY <3>1 DEF Known, Used, Merged
  <2>2. PICK o \in Seq(Nat) : Filled(o)
    BY DEF Merged
  <2>3. o \in [1..Cardinality(Known) -> Known]
    <3>1. o \in [1..Len(o) -> Nat] /\ Len(o) = Cardinality(Known)
      BY <2>1, <2>2, LenProperties DEF Filled
    <3>2. \A k \in 1..Len(o) : o[k] \in Known
      BY <2>1, <2>2 DEF Filled
    <3> QED
      BY <3>1, <3>2
  <2> QED
    BY <2>2, <2>3 DEF Filled
<1> QED
  BY <1>1, TypeCorrect, MergedInvariant, PTL

-----------------------------------------------------------------------------
(***************************************************************************)
(* The route search: what an order costs is a number, a turned segment     *)
(* leaves an order of the same stops, and a pass that improves nothing has *)
(* examined every turn.                                                    *)
(***************************************************************************)

Outcomes == [time : Int, violations : Int, lateness : Int]

\* f is what has come of o after each of its first m stops.
RunsTo(k, r, o, f, m) ==
  f = [n \in 0..m |->
         IF n = 0 THEN [time |-> 0, violations |-> 0, lateness |-> 0]
         ELSE Serve(k, r, f[n - 1], IF n = 1 THEN Station ELSE o[n - 1], o[n])]

\* Serving a stop of the route adds numbers to numbers.
LEMMA ServeType ==
  ASSUME NEW k, NEW r \in Instances, NEW was \in Outcomes,
         NEW from \in Points, NEW stop \in Stops
  PROVE  Serve(k, r, was, from, stop) \in Outcomes
<1>1. /\ r.travel[<<from, stop>>] \in Int
      /\ r.opens[stop] \in Int /\ r.closes[stop] \in Int /\ r.service[stop] \in Int
  <2>1. /\ r.travel \in [Points \X Points -> Int]
        /\ r.opens \in [Stops -> Int] /\ r.closes \in [Stops -> Int]
        /\ r.service \in [Stops -> Int]
    BY SearchAssumption DEF SearchAssumption
  <2>2. <<from, stop>> \in Points \X Points
    BY DEF Points
  <2> QED
    BY <2>1, <2>2
<1>2. was.time \in Int /\ was.violations \in Int /\ was.lateness \in Int
  BY DEF Outcomes
<1> DEFINE at == Arrive(r, was.time, from, stop)
           late == Later(at - r.closes[stop], 0)
           broken == late > 0 \/ (k = "matrix" /\ r.conflict[stop])
<1>3. at \in Int
  BY <1>1, <1>2 DEF Arrive, Later
<1>4. late \in Int
  BY <1>1, <1>3 DEF Later
<1>5. was.violations + (IF broken THEN 1 ELSE 0) \in Int
  BY <1>2
<1>6. /\ at + r.service[stop] \in Int
      /\ was.lateness + late \in Int
  BY <1>1, <1>2, <1>3, <1>4
<1>7. Serve(k, r, was, from, stop) =
        [time |-> at + r.service[stop],
         violations |-> was.violations + (IF broken THEN 1 ELSE 0),
         lateness |-> was.lateness + late]
  BY Zenon DEF Serve
<1> HIDE DEF at, late, broken
<1> QED
  BY <1>5, <1>6, <1>7 DEF Outcomes

\* An order can be followed stop by stop to its end.
LEMMA RunExists ==
  ASSUME NEW k, NEW r, NEW o \in Seq(Stops)
  PROVE  \E f : RunsTo(k, r, o, f, Len(o))
<1> DEFINE Reach(m) == \E f : RunsTo(k, r, o, f, m)
           Missed == {m \in Nat : ~Reach(m)}
           Zero == [time |-> 0, violations |-> 0, lateness |-> 0]
<1>1. Missed = {}
  <2> SUFFICES ASSUME Missed # {} PROVE FALSE
    OBVIOUS
  <2>1. PICK m \in Missed : \A u \in Missed : m <= u
    BY LeastOf
  <2>2. m \in Nat /\ ~Reach(m)
    OBVIOUS
  <2>3. CASE m = 0
    <3> DEFINE f == [n \in 0..0 |-> Zero]
    <3>1. RunsTo(k, r, o, f, 0)
      BY DEF RunsTo
    <3> QED
      BY <2>2, <2>3, <3>1
  <2>4. CASE m > 0
    <3>1. m - 1 \in Nat /\ m - 1 \notin Missed
      BY <2>1, <2>2, <2>4
    <3>2. PICK g : RunsTo(k, r, o, g, m - 1)
      BY <3>1
    <3> DEFINE Leg(n, h) ==
                 Serve(k, r, h, IF n = 1 THEN Station ELSE o[n - 1], o[n])
               f == [n \in 0..m |-> IF n = m THEN Leg(m, g[m - 1]) ELSE g[n]]
               body == [n \in 0..m |-> IF n = 0 THEN Zero ELSE Leg(n, f[n - 1])]
    <3>3. \A n \in 0..(m - 1) : g[n] = IF n = 0 THEN Zero ELSE Leg(n, g[n - 1])
      BY <3>2 DEF RunsTo
    <3> HIDE DEF Leg, Zero
    <3>4. \A n \in 0..m : f[n] = IF n = m THEN Leg(m, g[m - 1]) ELSE g[n]
      OBVIOUS
    <3>5. \A n \in 0..m : f[n] = IF n = 0 THEN Zero ELSE Leg(n, f[n - 1])
      BY <2>2, <2>4, <3>3, <3>4
    <3>6. f = body
      BY <3>5
    <3>7. RunsTo(k, r, o, f, m)
      BY <3>6 DEF RunsTo, Leg, Zero
    <3> QED
      BY <2>2, <3>7
  <2> QED
    BY <2>2, <2>3, <2>4
<1>2. Len(o) \in Nat
  BY LenProperties
<1> QED
  BY <1>1, <1>2

\* Run is such a function's last value.
LEMMA RunIsLast ==
  ASSUME NEW k, NEW r, NEW o \in Seq(Stops)
  PROVE  \E f : RunsTo(k, r, o, f, Len(o)) /\ Run(k, r, o) = f[Len(o)]
<1> DEFINE f == CHOOSE g : RunsTo(k, r, o, g, Len(o))
<1>1. RunsTo(k, r, o, f, Len(o))
  BY RunExists
<1>2. Run(k, r, o) = f[Len(o)]
  BY DEF Run, RunsTo
<1> QED
  BY <1>1, <1>2

LEMMA RunType ==
  ASSUME NEW k, NEW r \in Instances, NEW o \in Seq(Stops)
  PROVE  Run(k, r, o) \in Outcomes
<1>1. PICK f : RunsTo(k, r, o, f, Len(o)) /\ Run(k, r, o) = f[Len(o)]
  BY RunIsLast
<1> DEFINE Odd == {n \in 0..Len(o) : f[n] \notin Outcomes}
           Leg(n, h) == Serve(k, r, h, IF n = 1 THEN Station ELSE o[n - 1], o[n])
           Zero == [time |-> 0, violations |-> 0, lateness |-> 0]
<1>2. Len(o) \in Nat
  BY LenProperties
<1>3. \A n \in 0..Len(o) : f[n] = IF n = 0 THEN Zero ELSE Leg(n, f[n - 1])
  BY <1>1 DEF RunsTo
<1>4. Zero \in Outcomes
  BY DEF Outcomes
<1>5. ASSUME NEW n \in 1..Len(o), NEW h \in Outcomes PROVE Leg(n, h) \in Outcomes
  <2>1. o[n] \in Stops
    BY <1>2, ElementOfSeq
  <2>2. (IF n = 1 THEN Station ELSE o[n - 1]) \in Points
    <3>1. n # 1 => n - 1 \in 1..Len(o)
      BY <1>2
    <3>2. n # 1 => o[n - 1] \in Stops
      BY <3>1, ElementOfSeq
    <3> QED
      BY <3>2 DEF Points
  <2> QED
    BY <2>1, <2>2, ServeType
<1> HIDE DEF Leg, Zero
<1>6. Odd = {}
  <2> SUFFICES ASSUME Odd # {} PROVE FALSE
    OBVIOUS
  <2>1. Odd \subseteq Nat
    BY <1>2
  <2>2. PICK m \in Odd : \A u \in Odd : m <= u
    BY <2>1, LeastOf
  <2>3. m \in 0..Len(o) /\ f[m] \notin Outcomes
    OBVIOUS
  <2>4. m # 0
    BY <1>3, <1>4, <2>3
  <2>5. m - 1 \in 0..Len(o) /\ m \in 1..Len(o) /\ m - 1 \notin Odd
    BY <1>2, <2>1, <2>2, <2>3, <2>4
  <2>6. f[m - 1] \in Outcomes
    BY <2>5
  <2>7. f[m] = Leg(m, f[m - 1])
    BY <1>3, <2>3, <2>4
  <2> QED
    BY <1>5, <2>3, <2>5, <2>6, <2>7
<1> QED
  BY <1>1, <1>2, <1>6

\* The objective of an order is an integer, whatever is replayed.
LEMMA ObjectiveType ==
  ASSUME NEW k, NEW r \in Instances, NEW o \in Seq(Stops)
  PROVE  Objective(k, r, o) \in Int
<1>1. /\ Run(k, r, o).time \in Int
      /\ Run(k, r, o).violations \in Int
      /\ Run(k, r, o).lateness \in Int
  BY RunType DEF Outcomes
<1>2. Here(o) \in Points
  <2>1. o # <<>> => Len(o) \in 1..Len(o)
    BY LenProperties, EmptySeq
  <2> QED
    BY <2>1, ElementOfSeq DEF Here, Points
<1>3. r.travel[<<Here(o), Station>>] \in Int
  <2>1. r.travel \in [Points \X Points -> Int]
    BY SearchAssumption DEF SearchAssumption
  <2>2. <<Here(o), Station>> \in Points \X Points
    BY <1>2 DEF Points
  <2> QED
    BY <2>1, <2>2
<1>4. (IF k = "matrix" THEN r.travel[<<Here(o), Station>>] ELSE 0) \in Int
  BY <1>3
<1> DEFINE a == Run(k, r, o).time
           b == Run(k, r, o).violations
           c == Run(k, r, o).lateness
           d == IF k = "matrix" THEN r.travel[<<Here(o), Station>>] ELSE 0
<1>5. Objective(k, r, o) = a + 250 * b + 5 * c + d
  BY Zenon DEF Objective
<1> HIDE DEF a, b, c, d
<1>6. a + 250 * b + 5 * c + d \in Int
  <2>1. a \in Int /\ b \in Int /\ c \in Int /\ d \in Int
    BY <1>1, <1>4 DEF a, b, c, d
  <2> QED
    BY <2>1
<1> QED
  BY <1>5, <1>6

\* An order of distinct stops.
Distinct(o) ==
  o \in Seq(Stops) /\ \A a, b \in 1..Len(o) : o[a] = o[b] => a = b

StopsOf(o) == {o[k] : k \in 1..Len(o)}

\* The turns of this pass that the loops have been at: all at the end.
Tried(i, j) ==
  step = "end" \/ i < cut[1] \/ (i = cut[1] /\ j < cut[2])

\* As long as a pass has improved nothing, no turn that it has tried is better than
\* the order it still holds; and the loops, which skip the pairs that would turn
\* less than two stops, reach every other one.
Searched ==
  /\ route \in Instances
  /\ step \in {"greedy", "two_opt", "end"}
  /\ Distinct(order)
  /\ cut \in Nat \X Nat /\ cut[1] + 2 <= cut[2]
  /\ cut[2] <= Len(order) \/ cut[2] = cut[1] + 2
  /\ improved \in BOOLEAN
  /\ step # "greedy" =>
       /\ {order[k] : k \in 1..Len(order)} = Stops
       /\ start \in Seq(Stops) /\ Cost(order) <= Cost(start)
       /\ ~improved =>
            \A i, j \in 0..Len(order) :
              i + 2 <= j /\ Tried(i, j) => Cost(Turned(order, i, j)) >= Cost(order)

\* Turning a segment of an order leaves an order of the same stops.
LEMMA TurnedKeeps ==
  ASSUME NEW o, Distinct(o), NEW i \in Nat, NEW j \in Nat, i < j, j <= Len(o),
         NEW t, t = Turned(o, i, j)
  PROVE  /\ Distinct(t) /\ Len(t) = Len(o)
         /\ StopsOf(t) = StopsOf(o)
<1> DEFINE at(k) == IF k > i /\ k <= j THEN i + j + 1 - k ELSE k
<1>1. o \in Seq(Stops) /\ Len(o) \in Nat
  BY LenProperties DEF Distinct
<1>2. \A k \in 1..Len(o) : at(k) \in 1..Len(o) /\ at(at(k)) = k
  BY <1>1
<1>3. \A k \in 1..Len(o) : t[k] = o[at(k)]
  BY DEF Turned
<1>4. t = [k \in 1..Len(o) |-> t[k]]
  BY DEF Turned
<1> HIDE DEF at
<1>5. \A k \in 1..Len(o) : t[k] \in Stops
  BY <1>1, <1>2, <1>3, ElementOfSeq
<1>6. t \in Seq(Stops) /\ Len(t) = Len(o)
  BY <1>1, <1>4, <1>5, IsASeq
<1>7. \A a, b \in 1..Len(o) : t[a] = t[b] => a = b
  <2> SUFFICES ASSUME NEW a \in 1..Len(o), NEW b \in 1..Len(o), t[a] = t[b]
      PROVE  a = b
    OBVIOUS
  <2>1. at(a) = at(b)
    BY <1>2, <1>3 DEF Distinct
  <2> QED
    BY <1>2, <2>1
<1>8. \A k \in 1..Len(o) : t[at(k)] = o[k]
  BY <1>2, <1>3
<1> QED
  BY <1>2, <1>3, <1>6, <1>7, <1>8 DEF Distinct, StopsOf

\* The stop that is added is not yet in the order.
LEMMA GreedyKeeps ==
  ASSUME Distinct(order), NEW s \in Left
  PROVE  Distinct(Append(order, s))
<1> DEFINE o == Append(order, s)
<1>1. order \in Seq(Stops) /\ Len(order) \in Nat
  BY LenProperties DEF Distinct
<1>2. s \in Stops /\ \A k \in 1..Len(order) : order[k] # s
  BY DEF Left
<1>3. /\ o \in Seq(Stops) /\ Len(o) = Len(order) + 1
      /\ \A k \in 1..Len(order) : o[k] = order[k]
      /\ o[Len(order) + 1] = s
  BY <1>1, <1>2, AppendProperties
<1> HIDE DEF o
<1>4. \A k \in 1..Len(o) : k \in 1..Len(order) \/ k = Len(order) + 1
  BY <1>1, <1>3
<1>5. \A a, b \in 1..Len(o) : o[a] = o[b] => a = b
  BY <1>2, <1>3, <1>4 DEF Distinct
<1> QED
  BY <1>3, <1>5 DEF Distinct, o

\* What turning stops of the order held can cost, in any of its positions.
LEMMA CostType ==
  ASSUME route \in Instances, NEW o \in Seq(Stops)
  PROVE  Cost(o) \in Int
  BY ObjectiveType DEF Cost

LEMMA SearchStarts == SearchInit => Searched
<1> SUFFICES ASSUME SearchInit PROVE Searched
  OBVIOUS
<1>1. order = <<>> /\ Len(order) = 0 /\ order \in Seq(Stops)
  BY EmptySeq DEF SearchInit
<1>2. Distinct(order)
  BY <1>1 DEF Distinct
<1>3. /\ cut \in Nat \X Nat /\ cut[1] + 2 <= cut[2]
      /\ cut[2] = cut[1] + 2
  BY DEF SearchInit
<1>4. improved \in BOOLEAN /\ step = "greedy" /\ route \in Instances
  BY Zenon DEF SearchInit
<1> QED
  BY <1>2, <1>3, <1>4, Zenon DEF Searched

LEMMA SearchedGreedy == ASSUME Searched, Greedy PROVE Searched'
<1>1. PICK s \in Left : order' = Append(order, s)
  BY DEF Greedy
<1>2. Distinct(order')
  BY <1>1, GreedyKeeps DEF Searched
<1>3. /\ UNCHANGED <<route, step, cut, improved>> /\ step = "greedy"
      /\ Len(order') = Len(order) + 1 /\ Len(order) \in Nat
  <2>1. order \in Seq(Stops) /\ s \in Stops
    BY DEF Searched, Distinct, Left
  <2> QED
    BY <1>1, <2>1, LenProperties, AppendProperties DEF Greedy
<1>4. cut[2] <= Len(order') \/ cut[2] = cut[1] + 2
  BY <1>3 DEF Searched
<1> QED
  BY <1>2, <1>3, <1>4 DEF Searched, Distinct

LEMMA SearchedStart == ASSUME Searched, StartTwoOpt PROVE Searched'
<1>1. /\ UNCHANGED <<kind, route, order>> /\ step' = "two_opt" /\ start' = order
      /\ cut' = <<0, 2>> /\ improved' = FALSE
  BY DEF StartTwoOpt
<1>2. order \in Seq(Stops) /\ Len(order) \in Nat
  BY LenProperties DEF Searched, Distinct
<1>3. {order[k] : k \in 1..Len(order)} = Stops
  <2>1. \A s \in Stops : \E k \in 1..Len(order) : order[k] = s
    BY DEF StartTwoOpt, Left
  <2>2. \A k \in 1..Len(order) : order[k] \in Stops
    BY <1>2, ElementOfSeq
  <2> QED
    BY <2>1, <2>2
<1>4. Cost(order) \in Int /\ Cost(order)' = Cost(start)'
  BY <1>1, <1>2, CostType DEF Searched, Cost
<1>5. \A i, j \in 0..Len(order) : i + 2 <= j => ~Tried(i, j)'
  BY <1>1, <1>2 DEF Tried
<1>6. Cost(order)' <= Cost(start)'
  <2>1. Cost(order)' = Cost(order)
    BY <1>1 DEF Cost
  <2> QED
    BY <1>4, <2>1
<1>7. /\ cut' \in Nat \X Nat /\ cut'[1] + 2 <= cut'[2]
      /\ cut'[2] = cut'[1] + 2
  BY <1>1
<1>8. route' \in Instances /\ Distinct(order') /\ improved' \in BOOLEAN
  BY <1>1, Zenon DEF Searched
<1>9. {order'[k] : k \in 1..Len(order')} = Stops /\ start' \in Seq(Stops)
  BY <1>1, <1>2, <1>3
<1>10. \A i, j \in 0..Len(order') : ~(i + 2 <= j /\ Tried(i, j)')
  BY <1>1, <1>5
<1> QED
  BY <1>1, <1>6, <1>7, <1>8, <1>9, <1>10, Zenon DEF Searched

\* A candidate that is better is taken, and the pass has improved; one that is not
\* joins the turns that have been tried.
LEMMA SearchedTurn == ASSUME Searched, TryTurn PROVE Searched'
<1> DEFINE n == Len(order)
           i == cut[1]
           j == cut[2]
           candidate == Turned(order, i, j)
<1>1. /\ UNCHANGED <<kind, route, step, start>> /\ step = "two_opt"
      /\ i < n - 1 /\ j <= n
      /\ cut' = IF j < n THEN <<i, j + 1>> ELSE <<i + 1, i + 3>>
      /\ \/ /\ Cost(candidate) < Cost(order) /\ order' = candidate /\ improved' = TRUE
         \/ ~(Cost(candidate) < Cost(order)) /\ UNCHANGED <<order, improved>>
  BY DEF TryTurn, LastCut
<1>2. /\ Distinct(order) /\ order \in Seq(Stops) /\ n \in Nat
      /\ start \in Seq(Stops) /\ route \in Instances
      /\ i \in Nat /\ j \in Nat /\ i + 2 <= j
      /\ {order[k] : k \in 1..Len(order)} = Stops
  <2>1. Distinct(order) /\ step # "greedy" /\ cut \in Nat \X Nat /\ i + 2 <= j
    BY <1>1 DEF Searched
  <2>2. order \in Seq(Stops) /\ n \in Nat
    BY <2>1, LenProperties DEF Distinct
  <2> QED
    BY <2>1, <2>2, Zenon DEF Searched
<1>0. improved \in BOOLEAN /\ i < n - 1 /\ j <= n
  BY <1>1 DEF Searched
<1>3. /\ Distinct(candidate) /\ Len(candidate) = n
      /\ {candidate[k] : k \in 1..Len(candidate)} = Stops
  <2> HIDE DEF i, j, n
  <2>1. i < j /\ j <= n
    BY <1>0, <1>2
  <2>2. Distinct(order) /\ i \in Nat /\ j \in Nat /\ j <= Len(order)
    BY <1>2, <2>1 DEF n
  <2>3. PICK t : t = candidate
    OBVIOUS
  <2>4. /\ Distinct(t) /\ Len(t) = Len(order)
        /\ StopsOf(t) = StopsOf(order)
    BY <2>1, <2>2, <2>3, TurnedKeeps
  <2> HIDE DEF candidate
  <2> QED
    BY <1>2, <2>3, <2>4 DEF n, StopsOf
<1>4. /\ Cost(order) \in Int /\ Cost(candidate) \in Int /\ Cost(start) \in Int
      /\ Cost(order) <= Cost(start)
  <2>1. candidate \in Seq(Stops)
    BY <1>3 DEF Distinct
  <2>2. Cost(order) <= Cost(start)
    BY <1>1 DEF Searched
  <2> HIDE DEF candidate
  <2> QED
    BY <1>2, <2>1, <2>2, CostType
<1>5. /\ cut' \in Nat \X Nat /\ cut'[1] + 2 <= cut'[2]
      /\ cut'[2] <= n \/ cut'[2] = cut'[1] + 2
      /\ \A a, b \in 0..n :
           a + 2 <= b /\ (a < cut'[1] \/ (a = cut'[1] /\ b < cut'[2])) =>
             a < i \/ (a = i /\ b < j) \/ (a = i /\ b = j)
  <2> HIDE DEF i, j, n
  <2>1. CASE j < n
    <3>1. cut' = <<i, j + 1>>
      BY <1>1, <2>1
    <3>2. cut' \in Nat \X Nat /\ cut'[1] = i /\ cut'[2] = j + 1
      BY <1>2, <3>1
    <3> QED
      BY <1>2, <2>1, <3>2
  <2>2. CASE ~(j < n)
    <3>1. cut' = <<i + 1, i + 3>>
      BY <1>1, <2>2
    <3>2. cut' \in Nat \X Nat /\ cut'[1] = i + 1 /\ cut'[2] = i + 3
      BY <1>2, <3>1
    <3> QED
      BY <1>0, <1>2, <2>2, <3>2
  <2> QED
    BY <2>1, <2>2
<1>6. ASSUME NEW a \in 0..n, NEW b \in 0..n, a + 2 <= b, Tried(a, b)'
      PROVE  Tried(a, b) \/ (a = i /\ b = j)
  BY <1>1, <1>2, <1>5, <1>6 DEF Tried
<1>7. CASE /\ Cost(candidate) < Cost(order) /\ order' = candidate /\ improved' = TRUE
  <2>1. Cost(order)' <= Cost(start)'
    <3>1. Cost(order)' = Cost(candidate) /\ Cost(start)' = Cost(start)
      BY <1>1, <1>7 DEF Cost
    <3> HIDE DEF candidate
    <3> QED
      BY <1>4, <1>7, <3>1
  <2>2. /\ route' \in Instances /\ step' = "two_opt" /\ Distinct(order')
        /\ improved' \in BOOLEAN /\ start' \in Seq(Stops)
        /\ {order'[k] : k \in 1..Len(order')} = Stops /\ Len(order') = n
    BY <1>1, <1>2, <1>3, <1>7
  <2> HIDE DEF candidate, i, j, n
  <2> QED
    BY <1>5, <1>7, <2>1, <2>2, Zenon DEF Searched
<1>8. CASE ~(Cost(candidate) < Cost(order)) /\ UNCHANGED <<order, improved>>
  <2>1. /\ Cost(order)' = Cost(order) /\ Cost(start)' = Cost(start)
        /\ \A a, b : Cost(Turned(order, a, b))' = Cost(Turned(order, a, b))
    BY <1>1, <1>8 DEF Cost, Turned
  <2>2. Cost(order)' <= Cost(start)'
    BY <1>4, <2>1
  <2>3. Cost(candidate) >= Cost(order)
    <3> HIDE DEF candidate
    <3> QED
      BY <1>4, <1>8
  <2>4. ASSUME ~improved', NEW a \in 0..n, NEW b \in 0..n, a + 2 <= b, Tried(a, b)'
        PROVE  Cost(Turned(order, a, b))' >= Cost(order)'
    <3>1. Cost(Turned(order, a, b)) >= Cost(order)
      <4>1. CASE Tried(a, b)
        <5>1. ~improved /\ step # "greedy"
          BY <1>1, <1>8, <2>4
        <5> QED
          BY <2>4, <4>1, <5>1, Zenon DEF Searched
      <4>2. CASE a = i /\ b = j
        BY <2>3, <4>2
      <4> QED
        BY <1>6, <2>4, <4>1, <4>2
    <3> QED
      BY <2>1, <3>1, Zenon
  <2>5. /\ route' \in Instances /\ step' = "two_opt" /\ Distinct(order')
        /\ improved' \in BOOLEAN /\ start' \in Seq(Stops)
        /\ {order'[k] : k \in 1..Len(order')} = Stops /\ Len(order') = n
    BY <1>0, <1>1, <1>2, <1>8, Zenon
  <2> HIDE DEF candidate, i, j, n
  <2> QED
    BY <1>5, <2>2, <2>4, <2>5, Zenon DEF Searched
<1> QED
  BY <1>1, <1>7, <1>8

LEMMA SearchedPass == ASSUME Searched, EndPass PROVE Searched'
<1> DEFINE n == Len(order)
<1>1. /\ UNCHANGED <<kind, route, order, start>> /\ step = "two_opt"
      /\ cut[1] >= n - 1 \/ cut[2] > n
  BY DEF EndPass, LastCut
<1>2. /\ Distinct(order) /\ n \in Nat /\ cut \in Nat \X Nat
      /\ cut[1] + 2 <= cut[2] /\ (cut[2] <= n \/ cut[2] = cut[1] + 2)
  <2>1. Distinct(order) /\ cut \in Nat \X Nat
    BY DEF Searched
  <2>2. n \in Nat
    BY <2>1, LenProperties DEF Distinct
  <2> QED
    BY <2>1, <2>2, Zenon DEF Searched
<1>3. /\ Cost(order)' = Cost(order) /\ Cost(start)' = Cost(start)
      /\ \A a, b : Cost(Turned(order, a, b))' = Cost(Turned(order, a, b))
  BY <1>1 DEF Cost, Turned
<1>4. /\ route' \in Instances /\ Distinct(order') /\ start' \in Seq(Stops)
      /\ {order'[k] : k \in 1..Len(order')} = Stops
      /\ Cost(order)' <= Cost(start)'
  BY <1>1, <1>3, Zenon DEF Searched
<1>5. CASE step' = "two_opt" /\ cut' = <<0, 2>> /\ improved' = FALSE
  <2>1. /\ cut' \in Nat \X Nat /\ cut'[1] + 2 <= cut'[2]
        /\ cut'[2] = cut'[1] + 2
    <3>1. cut' = <<0, 2>>
      BY <1>5
    <3> QED
      BY <3>1
  <2>2. \A a, b \in 0..Len(order') : ~(a + 2 <= b /\ Tried(a, b)')
    BY <1>1, <1>2, <1>5 DEF Tried
  <2>3. improved' \in BOOLEAN
    BY <1>5, Zenon
  <2> QED
    BY <1>4, <1>5, <2>1, <2>2, <2>3, Zenon DEF Searched
<1>6. CASE step' = "end" /\ UNCHANGED <<cut, improved>>
  <2>1. \A a, b \in 0..n : a + 2 <= b => Tried(a, b)
    BY <1>1, <1>2 DEF Tried
  <2>2. ~improved' =>
          \A a, b \in 0..n :
            a + 2 <= b => Cost(Turned(order, a, b))' >= Cost(order)'
    <3>1. ~improved => \A a, b \in 0..n :
            a + 2 <= b => Cost(Turned(order, a, b)) >= Cost(order)
      BY <1>1, <2>1, Zenon DEF Searched
    <3> QED
      BY <1>3, <1>6, <3>1, Zenon
  <2>3. /\ cut' \in Nat \X Nat /\ cut'[1] + 2 <= cut'[2]
        /\ cut'[2] <= Len(order') \/ cut'[2] = cut'[1] + 2
        /\ improved' \in BOOLEAN
    BY <1>1, <1>2, <1>6, Zenon DEF Searched
  <2> QED
    BY <1>1, <1>4, <1>6, <2>2, <2>3, Zenon DEF Searched
<1> QED
  BY <1>1, <1>5, <1>6, Zenon DEF EndPass

\* Every step keeps the search where it can still vouch for what it has tried.
LEMMA SearchedInvariant == SearchSpec => []Searched
<1>1. Searched /\ [SearchNext]_searchVars => Searched'
  <2> SUFFICES ASSUME Searched, [SearchNext]_searchVars PROVE Searched'
    OBVIOUS
  <2>1. CASE UNCHANGED searchVars
    BY <2>1 DEF searchVars, Searched, Distinct, Cost, Turned, Tried
  <2> QED
    BY <2>1, SearchedGreedy, SearchedStart, SearchedTurn, SearchedPass DEF SearchNext
<1> QED
  BY <1>1, SearchStarts, PTL DEF SearchSpec

\* From any start, on any route, the search holds an order of all the stops that
\* is no worse than the greedy one; an end before its passes are used up is one
\* that no turn improves.
THEOREM SearchAlwaysSound == SearchSpec => []SearchSound
<1>1. Searched => SearchSound
  <2> SUFFICES ASSUME Searched, step # "greedy" PROVE SearchSound
    BY DEF SearchSound
  <2>1. /\ Distinct(order) /\ {order[k] : k \in 1..Len(order)} = Stops
        /\ Cost(order) <= Cost(start)
    BY DEF Searched
  <2>2. Len(order) = Cardinality(Stops)
    <3>1. order \in Seq(Stops) /\ Len(order) \in Nat /\ order \in [1..Len(order) -> Stops]
      BY <2>1, LenProperties DEF Distinct
    <3>2. \A s \in Stops : \E k \in 1..Len(order) : order[k] = s
      BY <2>1
    <3>3. order \in Bijection(1..Len(order), Stops)
      <4>1. order \in Injection(1..Len(order), Stops)
        BY <2>1, <3>1, Zenon DEF Distinct, Injection, IsInjective
      <4>2. order \in Surjection(1..Len(order), Stops)
        BY <3>1, <3>2, Zenon DEF Surjection
      <4> QED
        BY <4>1, <4>2, Zenon DEF Bijection
    <3>4. IsFiniteSet(1..Len(order)) /\ Cardinality(1..Len(order)) = Len(order)
      BY <3>1, IntervalSize
    <3> QED
      BY <3>3, <3>4, FS_Bijection DEF ExistsBijection
  <2>3. step = "end" /\ ~improved =>
          \A i, j \in 0..Len(order) :
            i + 2 <= j => Cost(Turned(order, i, j)) >= Cost(order)
    <3>1. step = "end" => \A i, j \in 0..Len(order) : Tried(i, j)
      BY DEF Tried
    <3> QED
      BY <3>1, Zenon DEF Searched
  <2> QED
    BY <2>1, <2>2, <2>3, Zenon DEF SearchSound
<1> QED
  BY <1>1, SearchedInvariant, PTL

-----------------------------------------------------------------------------
(***************************************************************************)
(* The snapshots: their features are a function of what is known at the    *)
(* query time.  Two days look alike at a time t when the same tasks are    *)
(* completed, in the same order, and their tasks accepted by then can be   *)
(* paired so that partners are equal but for a delivery after t; nothing   *)
(* is asked of the tasks accepted later.                                   *)
(***************************************************************************)

\* q pairs the tasks of d accepted by t with those of e.
Pairs(q, d, e, t) ==
  /\ q \in Bijection(Accepted(d, t), Accepted(e, t))
  /\ \A i \in Accepted(d, t) :
       /\ e[q[i]].accept = d[i].accept /\ e[q[i]].place = d[i].place
       /\ i \in Visible(d, t) <=> q[i] \in Visible(e, t)

LookAlike(d, e, t) ==
  /\ Completed(d, t) = Completed(e, t) /\ Completed(d, t) # {}
  /\ \A k \in Completed(d, t) : e[k] = d[k]
  /\ \E q : Pairs(q, d, e, t)

\* No two points are equally far from a third, so that the nearest task is always a
\* matter of the place.
NoTies == \A p, q, r \in Places : Distance(p, q) = Distance(p, r) => q = r

\* The visible tasks are paired in their order, which breaks ties between the nearest.
InOrder(d, e, t) ==
  \E q : /\ Pairs(q, d, e, t)
         /\ \A i, j \in Visible(d, t) : i < j => q[i] < q[j]

\* min of numbers.
LEMMA LeastIsMin ==
  ASSUME NEW T, T \subseteq Nat, T # {}
  PROVE  Min(T) \in T /\ \A u \in T : Min(T) <= u
  BY LeastOf DEF Min

\* Distances are numbers that can be compared.
LEMMA DistanceType == \A p, q \in Places : Distance(p, q) \in Nat
  BY DaysAssumption DEF DaysAssumption, Distance

\* The rows of a day.
LEMMA DayRows ==
  ASSUME NEW d, IsDay(d)
  PROVE  /\ Len(d) \in Nat /\ DOMAIN d = 1..Len(d)
         /\ IsFiniteSet(DOMAIN d)
         /\ \A i \in DOMAIN d : /\ d[i] \in Task /\ d[i].accept \in Nat
                                /\ d[i].delivery \in Nat /\ d[i].place \in Places
                                /\ d[i].accept <= d[i].delivery
<1>1. d \in Seq(Task)
  BY DEF IsDay
<1>2. Len(d) \in Nat /\ DOMAIN d = 1..Len(d)
  BY <1>1, LenProperties
<1>3. \A i \in DOMAIN d : d[i] \in Task
  BY <1>1, <1>2, ElementOfSeq
<1>4. IsFiniteSet(DOMAIN d)
  BY <1>2, IntervalSize
<1> QED
  BY <1>2, <1>3, <1>4 DEF Task, IsDay

\* The completed tasks are the first rows of the sorted day.
LEMMA CompletedFirst ==
  ASSUME NEW d, IsDay(d), NEW t \in Nat
  PROVE  /\ Count(Completed(d, t)) \in Nat
         /\ Completed(d, t) = 1..Count(Completed(d, t))
<1> DEFINE C == Completed(d, t)
<1>1. Len(d) \in Nat /\ DOMAIN d = 1..Len(d) /\ \A i \in DOMAIN d : d[i].delivery \in Nat
  BY DayRows
<1>2. C = {i \in 1..Len(d) : d[i].delivery <= t}
  BY <1>1 DEF Completed
<1> HIDE DEF C
<1>3. \E m \in Nat : C = 1..m
  <2>1. CASE C = {}
    <3>1. C = 1..0
      BY <2>1
    <3> QED
      BY <3>1
  <2>2. CASE C # {}
    <3>1. C \subseteq 0..Len(d)
      BY <1>1, <1>2
    <3>2. PICK m \in C : \A u \in C : u <= m
      BY <1>1, <2>2, <3>1, LargestOf
    <3>3. m \in 1..Len(d) /\ d[m].delivery <= t
      BY <1>2
    <3>4. ASSUME NEW i \in 1..m PROVE i \in C
      <4>1. i \in 1..Len(d)
        BY <1>1, <3>3
      <4>2. i = m \/ i < m
        BY <1>1, <3>3
      <4>3. d[i].delivery <= d[m].delivery
        BY <1>1, <3>3, <4>1, <4>2 DEF IsDay
      <4> QED
        BY <1>1, <1>2, <3>3, <4>1, <4>3
    <3>5. C = 1..m
      BY <1>1, <1>2, <3>2, <3>3, <3>4
    <3> QED
      BY <1>1, <3>3, <3>5
  <2> QED
    BY <2>1, <2>2
<1>4. PICK m \in Nat : C = 1..m
  BY <1>3
<1>5. Count(C) = m
  BY <1>4, IntervalSize DEF Count
<1> QED
  BY <1>4, <1>5 DEF C

\* A bijection also pairs parts that it maps onto each other, and so counts them
\* equal.
LEMMA PartsPair ==
  ASSUME NEW S, NEW T, NEW q \in Bijection(S, T), NEW A, NEW B, A \subseteq S, B \subseteq T,
         \A i \in S : i \in A <=> q[i] \in B,
         NEW r, r = [i \in A |-> q[i]]
  PROVE  r \in Bijection(A, B)
<1>1. /\ q \in [S -> T] /\ \A i, j \in S : q[i] = q[j] => i = j
      /\ \A j \in T : \E i \in S : q[i] = j
  BY DEF Bijection, Injection, Surjection, IsInjective
<1>2. r \in [A -> B] /\ \A i \in A : r[i] = q[i]
  BY <1>1
<1>3. \A i, j \in A : r[i] = r[j] => i = j
  BY <1>1, <1>2
<1>4. \A j \in B : \E i \in A : r[i] = j
  BY <1>1, <1>2
<1> QED
  BY <1>2, <1>3, <1>4 DEF Bijection, Injection, Surjection, IsInjective

LEMMA PartsCount ==
  ASSUME NEW S, IsFiniteSet(S), NEW T, NEW q \in Bijection(S, T),
         NEW A, NEW B, A \subseteq S, B \subseteq T,
         \A i \in S : i \in A <=> q[i] \in B
  PROVE  Count(A) = Count(B)
<1> DEFINE r == [i \in A |-> q[i]]
<1>1. r \in Bijection(A, B)
  <2> HIDE DEF r
  <2>1. r = [i \in A |-> q[i]]
    BY DEF r
  <2> QED
    BY <2>1, PartsPair
<1>2. IsFiniteSet(A) /\ ExistsBijection(A, B)
  BY <1>1, FS_Subset DEF ExistsBijection
<1> QED
  BY <1>2, FS_Bijection DEF Count

\* What is the same for partners occurs equally often.
LEMMA TalliesAgree ==
  ASSUME NEW S, IsFiniteSet(S), NEW T, NEW q \in Bijection(S, T),
         NEW f, DOMAIN f = S, NEW g, DOMAIN g = T,
         \A i \in S : f[i] = g[q[i]]
  PROVE  Tally(f) = Tally(g)
<1>1. q \in [S -> T] /\ \A j \in T : \E i \in S : q[i] = j
  BY DEF Bijection, Injection, Surjection
<1>2. Range(f) = Range(g)
  <2>1. Range(f) = {f[i] : i \in S} /\ Range(g) = {g[i] : i \in T}
    BY DEF Range
  <2> QED
    BY <1>1, <2>1
<1>3. ASSUME NEW v \in Range(f)
      PROVE  Count({i \in DOMAIN f : f[i] = v}) = Count({i \in DOMAIN g : g[i] = v})
  <2> DEFINE A == {i \in S : f[i] = v}
             B == {i \in T : g[i] = v}
  <2>1. A \subseteq S /\ B \subseteq T /\ \A i \in S : i \in A <=> q[i] \in B
    BY <1>1
  <2> HIDE DEF A, B
  <2>2. Count(A) = Count(B)
    BY <2>1, PartsCount
  <2> QED
    BY <2>2 DEF A, B
<1> QED
  BY <1>2, <1>3 DEF Tally

\* What the features take from the completed tasks.
LEMMA SameCompleted ==
  ASSUME NEW d, NEW e, IsDay(d), IsDay(e), NEW t \in Nat, LookAlike(d, e, t)
  PROVE  \E m \in Nat \ {0} :
           /\ Completed(d, t) = 1..m /\ Completed(e, t) = 1..m
           /\ Count(Completed(d, t)) = m /\ Count(Completed(e, t)) = m
           /\ \A k \in 1..m : /\ d[k] = e[k] /\ k \in DOMAIN d /\ k \in DOMAIN e
                              /\ d[k].delivery <= t
<1> DEFINE m == Count(Completed(d, t))
<1>1. m \in Nat /\ Completed(d, t) = 1..m
  BY CompletedFirst
<1>2. Completed(e, t) = Completed(d, t) /\ Completed(d, t) # {}
      /\ \A k \in Completed(d, t) : d[k] = e[k]
  BY DEF LookAlike
<1>3. \A k \in Completed(d, t) : k \in DOMAIN d /\ d[k].delivery <= t
  BY DEF Completed
<1>4. \A k \in Completed(e, t) : k \in DOMAIN e
  BY DEF Completed
<1> HIDE DEF m
<1>5. m # 0
  BY <1>1, <1>2
<1> QED
  BY <1>1, <1>2, <1>3, <1>4, <1>5 DEF m

\* The way so far, and where the courier is.
LEMMA SamePath ==
  ASSUME NEW d, NEW e, IsDay(d), IsDay(e), NEW t \in Nat, LookAlike(d, e, t)
  PROVE  /\ Path(d, t) = Path(e, t)
         /\ Current(d, t) = Current(e, t) /\ Current(d, t) \in Places
<1>1. PICK m \in Nat \ {0} :
        /\ Count(Completed(d, t)) = m /\ Count(Completed(e, t)) = m
        /\ \A k \in 1..m : d[k] = e[k] /\ k \in DOMAIN d
  BY SameCompleted
<1>2. m \in 1..m
  OBVIOUS
<1>3. Path(d, t) = [k \in 1..m |-> d[k].place] /\ Path(e, t) = [k \in 1..m |-> e[k].place]
  BY <1>1 DEF Path
<1>4. Current(d, t) = d[m].place /\ Current(e, t) = e[m].place
  BY <1>1 DEF Current
<1>5. d[m].place \in Places
  BY <1>1, <1>2, DayRows
<1> QED
  BY <1>1, <1>2, <1>3, <1>4, <1>5

\* The last three of m tasks, or all of them, begin at one of them.
LEMMA RecentStart ==
  ASSUME NEW m \in Nat \ {0}
  PROVE  Max({1, m - 2}) \in 1..m
<1> DEFINE T == {1, m - 2}
<1>1. \E x \in T : \A y \in T : x >= y
  <2>1. CASE m <= 3
    BY <2>1
  <2>2. CASE m > 3
    BY <2>2
  <2> QED
    BY <2>1, <2>2
<1>2. Max(T) \in T /\ \A y \in T : Max(T) >= y
  BY <1>1 DEF Max
<1> QED
  BY <1>2

\* The pace over these tasks.
LEMMA SamePace ==
  ASSUME NEW d, NEW e, IsDay(d), IsDay(e), NEW t \in Nat, LookAlike(d, e, t)
  PROVE  RecentPace(d, t) = RecentPace(e, t)
<1>1. PICK m \in Nat \ {0} :
        /\ Count(Completed(d, t)) = m /\ Count(Completed(e, t)) = m
        /\ \A k \in 1..m : d[k] = e[k] /\ k \in DOMAIN d /\ k \in DOMAIN e
  BY SameCompleted
<1> DEFINE a == Max({1, m - 2})
<1>2. a \in 1..m
  BY RecentStart
<1> HIDE DEF a
<1>3. /\ d \in Seq(Task) /\ e \in Seq(Task) /\ m \in 1..Len(d) /\ m \in 1..Len(e)
      /\ Len(d) \in Nat /\ Len(e) \in Nat
  BY <1>1, DayRows DEF IsDay
<1>4. /\ SubSeq(d, a, m) \in Seq(Task) /\ Len(SubSeq(d, a, m)) = m - a + 1
      /\ \A k \in 1..(m - a + 1) : SubSeq(d, a, m)[k] = d[a + k - 1]
  <2>1. a \in 1..Len(d) /\ a <= m
    BY <1>2, <1>3
  <2>2. \A k \in a..m : d[k] \in Task
    BY <1>1, <1>2, DayRows
  <2> QED
    BY <1>1, <1>2, <2>1, <2>2, SubSeqProperties
<1>5. /\ SubSeq(e, a, m) \in Seq(Task) /\ Len(SubSeq(e, a, m)) = m - a + 1
      /\ \A k \in 1..(m - a + 1) : SubSeq(e, a, m)[k] = e[a + k - 1]
  <2>1. a \in 1..Len(e) /\ a <= m
    BY <1>2, <1>3
  <2>2. \A k \in a..m : e[k] \in Task
    BY <1>1, <1>2, DayRows
  <2> QED
    BY <1>1, <1>2, <2>1, <2>2, SubSeqProperties
<1>6. \A k \in 1..(m - a + 1) : a + k - 1 \in 1..m
  BY <1>2
<1>7. SubSeq(d, a, m) = SubSeq(e, a, m)
  <2>1. \A k \in 1..Len(SubSeq(d, a, m)) : SubSeq(d, a, m)[k] = SubSeq(e, a, m)[k]
    BY <1>1, <1>4, <1>5, <1>6
  <2> QED
    BY <1>4, <1>5, <2>1, SeqEqual
<1> QED
  BY <1>1, <1>7 DEF RecentPace, a

\* The moment the day starts is known: it is no later than the first delivery.
LEMMA StartKnown ==
  ASSUME NEW d, NEW e, IsDay(d), IsDay(e), NEW t \in Nat, LookAlike(d, e, t)
  PROVE  DayStart(d) = DayStart(e)
<1> DEFINE Times(f) == {f[i].accept : i \in DOMAIN f} \union {f[i].delivery : i \in DOMAIN f}
<1>1. PICK m \in Nat \ {0} :
        /\ Completed(d, t) = 1..m /\ Completed(e, t) = 1..m
        /\ \A k \in 1..m : /\ d[k] = e[k] /\ k \in DOMAIN d /\ k \in DOMAIN e
                           /\ d[k].delivery <= t
  BY SameCompleted
<1>2. 1 \in 1..m
  OBVIOUS
<1>3. PICK q : Pairs(q, d, e, t)
  BY DEF LookAlike
<1>4. /\ q \in [Accepted(d, t) -> Accepted(e, t)]
      /\ \A j \in Accepted(e, t) : \E i \in Accepted(d, t) : q[i] = j
      /\ \A i \in Accepted(d, t) : e[q[i]].accept = d[i].accept
  BY <1>3 DEF Pairs, Bijection, Injection, Surjection
<1>5. Times(d) \subseteq Nat /\ Times(e) \subseteq Nat
  BY DayRows
<1>6. d[1].delivery \in Times(d) /\ d[1].delivery \in Times(e) /\ d[1].delivery <= t
  BY <1>1, <1>2
<1>7. /\ Min(Times(d)) \in Times(d) /\ \A x \in Times(d) : Min(Times(d)) <= x
      /\ Min(Times(e)) \in Times(e) /\ \A x \in Times(e) : Min(Times(e)) <= x
  <2> HIDE DEF Times
  <2> QED
    BY <1>5, <1>6, LeastIsMin
<1>8. ASSUME NEW x \in Times(d), x <= t PROVE x \in Times(e)
  <2>1. CASE \E i \in DOMAIN d : x = d[i].accept
    <3>1. PICK i \in DOMAIN d : x = d[i].accept
      BY <2>1
    <3>2. i \in Accepted(d, t)
      BY <1>8, <3>1 DEF Accepted
    <3>3. q[i] \in DOMAIN e /\ e[q[i]].accept = x
      BY <1>4, <3>1, <3>2 DEF Accepted
    <3> QED
      BY <3>3
  <2>2. CASE \E i \in DOMAIN d : x = d[i].delivery
    <3>1. PICK i \in DOMAIN d : x = d[i].delivery
      BY <2>2
    <3>2. i \in Completed(d, t)
      BY <1>8, <3>1 DEF Completed
    <3> QED
      BY <1>1, <3>1, <3>2
  <2> QED
    BY <2>1, <2>2
<1>9. ASSUME NEW x \in Times(e), x <= t PROVE x \in Times(d)
  <2>1. CASE \E i \in DOMAIN e : x = e[i].accept
    <3>1. PICK j \in DOMAIN e : x = e[j].accept
      BY <2>1
    <3>2. j \in Accepted(e, t)
      BY <1>9, <3>1 DEF Accepted
    <3>3. PICK i \in Accepted(d, t) : q[i] = j
      BY <1>4, <3>2
    <3>4. i \in DOMAIN d /\ d[i].accept = x
      BY <1>4, <3>1, <3>3 DEF Accepted
    <3> QED
      BY <3>4
  <2>2. CASE \E i \in DOMAIN e : x = e[i].delivery
    <3>1. PICK i \in DOMAIN e : x = e[i].delivery
      BY <2>2
    <3>2. i \in Completed(e, t)
      BY <1>9, <3>1 DEF Completed
    <3> QED
      BY <1>1, <3>1, <3>2
  <2> QED
    BY <2>1, <2>2
<1>10. DayStart(d) = Min(Times(d)) /\ DayStart(e) = Min(Times(e))
  BY DEF DayStart
<1> HIDE DEF Times
<1> DEFINE a == Min(Times(d))
           b == Min(Times(e))
<1>11. a \in Nat /\ b \in Nat /\ a <= t /\ b <= t
  <2>1. a \in Nat /\ b \in Nat /\ d[1].delivery \in Nat
    BY <1>5, <1>6, <1>7
  <2>2. a <= d[1].delivery /\ b <= d[1].delivery
    BY <1>6, <1>7
  <2> QED
    BY <1>6, <2>1, <2>2
<1>12. a \in Times(e) /\ b \in Times(d)
  BY <1>7, <1>8, <1>9, <1>11
<1>13. a <= b /\ b <= a
  BY <1>7, <1>12
<1> QED
  BY <1>10, <1>11, <1>13

\* The pairing of the accepted tasks pairs the visible ones.
LEMMA VisiblePair ==
  ASSUME NEW d, NEW e, IsDay(d), NEW t \in Nat, NEW q, Pairs(q, d, e, t),
         NEW r, r = [i \in Visible(d, t) |-> q[i]]
  PROVE  /\ r \in Bijection(Visible(d, t), Visible(e, t))
         /\ \A i \in Visible(d, t) :
              d[i].accept = e[r[i]].accept /\ d[i].place = e[r[i]].place
<1>1. /\ q \in Bijection(Accepted(d, t), Accepted(e, t))
      /\ \A i \in Accepted(d, t) : i \in Visible(d, t) <=> q[i] \in Visible(e, t)
      /\ \A i \in Accepted(d, t) : d[i].accept = e[q[i]].accept /\ d[i].place = e[q[i]].place
  BY DEF Pairs
<1>2. Visible(d, t) \subseteq Accepted(d, t) /\ Visible(e, t) \subseteq Accepted(e, t)
  BY DEF Visible, Accepted
<1>3. r \in Bijection(Visible(d, t), Visible(e, t))
  BY <1>1, <1>2, PartsPair
<1> QED
  BY <1>1, <1>2, <1>3

\* The sets of tasks that are counted are finite.
LEMMA DayParts ==
  ASSUME NEW d, IsDay(d), NEW t
  PROVE  /\ IsFiniteSet(Accepted(d, t)) /\ IsFiniteSet(Visible(d, t))
         /\ Visible(d, t) \subseteq DOMAIN d /\ Accepted(d, t) \subseteq DOMAIN d
<1>1. Accepted(d, t) \subseteq DOMAIN d /\ Visible(d, t) \subseteq DOMAIN d
  BY DEF Accepted, Visible
<1> QED
  BY <1>1, DayRows, FS_Subset

\* As many tasks are visible, and as many were accepted since any earlier time.
LEMMA SameCounts ==
  ASSUME NEW d, NEW e, IsDay(d), IsDay(e), NEW t \in Nat, LookAlike(d, e, t)
  PROVE  /\ Count(Visible(d, t)) = Count(Visible(e, t))
         /\ \A w \in Nat : Events(d, t, w) = Events(e, t, w)
<1>1. PICK q : Pairs(q, d, e, t)
  BY DEF LookAlike
<1>2. /\ q \in Bijection(Accepted(d, t), Accepted(e, t))
      /\ \A i \in Accepted(d, t) : /\ i \in Visible(d, t) <=> q[i] \in Visible(e, t)
                                /\ d[i].accept = e[q[i]].accept
  BY <1>1 DEF Pairs
<1>3. /\ Visible(d, t) \subseteq Accepted(d, t) /\ Visible(e, t) \subseteq Accepted(e, t)
      /\ IsFiniteSet(Accepted(d, t))
  BY DayParts DEF Visible, Accepted
<1>4. \A i \in Accepted(d, t) : q[i] \in Accepted(e, t)
  BY <1>2 DEF Bijection, Injection
<1>5. Count(Visible(d, t)) = Count(Visible(e, t))
  BY <1>2, <1>3, PartsCount
<1>6. ASSUME NEW w \in Nat PROVE Events(d, t, w) = Events(e, t, w)
  <2> DEFINE Since(f) == {i \in DOMAIN f : f[i].accept <= t /\ f[i].accept > t - w}
             Delivered(f) == {i \in DOMAIN f : f[i].delivery <= t /\ f[i].delivery > t - w}
             Opened(f) == {i \in Visible(f, t) : f[i].accept > t - w}
  <2>1. Count(Since(d)) = Count(Since(e))
    <3>1. Since(d) \subseteq Accepted(d, t) /\ Since(e) \subseteq Accepted(e, t)
      BY DEF Accepted
    <3>2. \A i \in Accepted(d, t) : i \in Since(d) <=> q[i] \in Since(e)
      BY <1>2, <1>4 DEF Accepted
    <3> HIDE DEF Accepted
    <3> QED
      BY <1>2, <1>3, <3>1, <3>2, PartsCount
  <2>2. Count(Opened(d)) = Count(Opened(e))
    <3>1. Opened(d) \subseteq Accepted(d, t) /\ Opened(e) \subseteq Accepted(e, t)
      BY <1>3
    <3>2. \A i \in Accepted(d, t) : i \in Opened(d) <=> q[i] \in Opened(e)
      BY <1>2
    <3> HIDE DEF Opened
    <3> QED
      BY <1>2, <1>3, <3>1, <3>2, PartsCount
  <2>3. Delivered(d) = Delivered(e)
    <3>1. Delivered(d) = {i \in Completed(d, t) : d[i].delivery > t - w}
      BY DEF Completed
    <3>2. Delivered(e) = {i \in Completed(e, t) : e[i].delivery > t - w}
      BY DEF Completed
    <3> QED
      BY <3>1, <3>2 DEF LookAlike
  <2>4. Events(d, t, w) = <<Count(Since(d)), Count(Delivered(d)), Count(Opened(d))>>
    BY DEF Events
  <2>5. Events(e, t, w) = <<Count(Since(e)), Count(Delivered(e)), Count(Opened(e))>>
    BY DEF Events
  <2> QED
    BY <2>1, <2>2, <2>3, <2>4, <2>5
<1> QED
  BY <1>5, <1>6

\* The places, ages and distances of the visible tasks.
PlacesOf(d, t) == Tally([i \in Visible(d, t) |-> d[i].place])
AgesOf(d, t) == Tally([i \in Visible(d, t) |-> t - d[i].accept])
DistancesOf(d, t, x) == Tally([i \in Visible(d, t) |-> Distance(x, d[i].place)])

LEMMA SameTallies ==
  ASSUME NEW d, NEW e, IsDay(d), IsDay(e), NEW t \in Nat, LookAlike(d, e, t)
  PROVE  /\ PlacesOf(d, t) = PlacesOf(e, t) /\ AgesOf(d, t) = AgesOf(e, t)
         /\ \A x : DistancesOf(d, t, x) = DistancesOf(e, t, x)
<1>1. PICK q : Pairs(q, d, e, t)
  BY DEF LookAlike
<1>2. PICK r : r = [i \in Visible(d, t) |-> q[i]]
  OBVIOUS
<1>3. /\ r \in Bijection(Visible(d, t), Visible(e, t))
      /\ \A i \in Visible(d, t) :
           d[i].accept = e[r[i]].accept /\ d[i].place = e[r[i]].place
  BY <1>1, <1>2, VisiblePair
<1>4. /\ IsFiniteSet(Visible(d, t))
      /\ \A i \in Visible(d, t) : r[i] \in Visible(e, t)
  BY <1>3, DayParts DEF Bijection, Injection
<1>5. ASSUME NEW f, DOMAIN f = Visible(d, t), NEW g, DOMAIN g = Visible(e, t),
             \A i \in Visible(d, t) : f[i] = g[r[i]]
      PROVE  Tally(f) = Tally(g)
  BY <1>3, <1>4, <1>5, TalliesAgree
<1>6. ASSUME NEW f, f = [i \in Visible(d, t) |-> d[i].place],
             NEW g, g = [i \in Visible(e, t) |-> e[i].place]
      PROVE  Tally(f) = Tally(g)
  BY <1>3, <1>4, <1>5, <1>6
<1>7. ASSUME NEW f, f = [i \in Visible(d, t) |-> t - d[i].accept],
             NEW g, g = [i \in Visible(e, t) |-> t - e[i].accept]
      PROVE  Tally(f) = Tally(g)
  BY <1>3, <1>4, <1>5, <1>7
<1>8. ASSUME NEW x, NEW f, f = [i \in Visible(d, t) |-> Distance(x, d[i].place)],
             NEW g, g = [i \in Visible(e, t) |-> Distance(x, e[i].place)]
      PROVE  Tally(f) = Tally(g)
  BY <1>3, <1>4, <1>5, <1>8
<1>9. ASSUME NEW x PROVE DistancesOf(d, t, x) = DistancesOf(e, t, x)
  BY <1>8 DEF DistancesOf
<1> QED
  BY <1>6, <1>7, <1>9 DEF PlacesOf, AgesOf

\* Of the remaining tasks there is a nearest, and of these a first.
LEMMA NearestIsNearest ==
  ASSUME NEW d, IsDay(d), NEW R, R \subseteq DOMAIN d, R # {}, NEW p \in Places
  PROVE  /\ Nearest(d, R, p) \in R
         /\ \A j \in R : Distance(p, d[Nearest(d, R, p)].place) <= Distance(p, d[j].place)
         /\ \A j \in R : Distance(p, d[Nearest(d, R, p)].place) = Distance(p, d[j].place)
                            => Nearest(d, R, p) <= j
<1> DEFINE Far(i) == Distance(p, d[i].place)
<1>1. \A i \in R : Far(i) \in Nat
  BY DayRows, DistanceType
<1>2. R \subseteq Nat
  BY DayRows
<1> HIDE DEF Far
<1>3. PICK a \in R : \A j \in R : Far(a) <= Far(j)
  <2> DEFINE Fars == {Far(i) : i \in R}
  <2>1. Fars \subseteq Nat /\ Fars # {}
    BY <1>1
  <2>2. PICK x \in Fars : \A y \in Fars : x <= y
    BY <2>1, LeastOf
  <2> QED
    BY <2>2
<1> DEFINE Closest == {i \in R : Far(i) = Far(a)}
<1>4. PICK i \in Closest : \A j \in Closest : i <= j
  <2>1. Closest \subseteq Nat /\ Closest # {}
    BY <1>2
  <2> HIDE DEF Closest
  <2> QED
    BY <2>1, LeastOf
<1>5. i \in R /\ \A j \in R : Far(i) < Far(j) \/ (Far(i) = Far(j) /\ i <= j)
  <2>1. i \in R /\ Far(i) = Far(a)
    BY <1>4
  <2>2. ASSUME NEW j \in R PROVE Far(i) < Far(j) \/ (Far(i) = Far(j) /\ i <= j)
    <3>1. Far(i) <= Far(j) /\ Far(i) \in Nat /\ Far(j) \in Nat
      BY <1>1, <1>3, <2>1
    <3>2. CASE Far(i) = Far(j)
      <4>1. j \in Closest
        BY <2>1, <3>2
      <4> QED
        BY <1>4, <3>2, <4>1
    <3> QED
      BY <3>1, <3>2
  <2> QED
    BY <2>1, <2>2
<1>6. \E c \in R : \A j \in R :
        \/ Distance(p, d[c].place) < Distance(p, d[j].place)
        \/ Distance(p, d[c].place) = Distance(p, d[j].place) /\ c <= j
  BY <1>5 DEF Far
<1>7. /\ Nearest(d, R, p) \in R
      /\ \A j \in R :
           \/ Distance(p, d[Nearest(d, R, p)].place) < Distance(p, d[j].place)
           \/ /\ Distance(p, d[Nearest(d, R, p)].place) = Distance(p, d[j].place)
              /\ Nearest(d, R, p) <= j
  BY <1>6 DEF Nearest
<1> DEFINE c == Nearest(d, R, p)
<1>8. c \in R /\ \A j \in R : Far(c) < Far(j) \/ (Far(c) = Far(j) /\ c <= j)
  BY <1>7 DEF Far
<1> HIDE DEF c
<1>9. \A j \in R : Far(c) <= Far(j) /\ (Far(c) = Far(j) => c <= j)
  BY <1>1, <1>8
<1> QED
  BY <1>8, <1>9 DEF Far, c

\* f is where the walk over the tasks R of d from the point p is after each of its
\* first n turns.
WalksTo(d, R, p, f, n) ==
  f = [k \in 0..n |-> IF k = 0 THEN [position |-> p, remaining |-> R, total |-> 0]
                      ELSE Visit(d, f[k - 1])]

\* The walk can be followed for any number of turns.
LEMMA WalkExists ==
  ASSUME NEW d, NEW R, NEW p, NEW n \in Nat
  PROVE  \E f : WalksTo(d, R, p, f, n)
<1> DEFINE Reach(m) == \E f : WalksTo(d, R, p, f, m)
           Missed == {m \in Nat : ~Reach(m)}
           Outset == [position |-> p, remaining |-> R, total |-> 0]
<1>1. Missed = {}
  <2> SUFFICES ASSUME Missed # {} PROVE FALSE
    OBVIOUS
  <2>1. PICK m \in Missed : \A u \in Missed : m <= u
    BY LeastOf
  <2>2. m \in Nat /\ ~Reach(m)
    OBVIOUS
  <2>3. CASE m = 0
    <3> DEFINE f == [k \in 0..0 |-> Outset]
    <3>1. WalksTo(d, R, p, f, 0)
      BY DEF WalksTo
    <3> QED
      BY <2>2, <2>3, <3>1
  <2>4. CASE m > 0
    <3>1. m - 1 \in Nat /\ m - 1 \notin Missed
      BY <2>1, <2>2, <2>4
    <3>2. PICK g : WalksTo(d, R, p, g, m - 1)
      BY <3>1
    <3> DEFINE f == [k \in 0..m |-> IF k = m THEN Visit(d, g[m - 1]) ELSE g[k]]
               body == [k \in 0..m |-> IF k = 0 THEN Outset ELSE Visit(d, f[k - 1])]
    <3>3. \A k \in 0..(m - 1) : g[k] = IF k = 0 THEN Outset ELSE Visit(d, g[k - 1])
      BY <3>2 DEF WalksTo
    <3> HIDE DEF Outset
    <3>4. \A k \in 0..m : f[k] = IF k = m THEN Visit(d, g[m - 1]) ELSE g[k]
      OBVIOUS
    <3>5. \A k \in 0..m : f[k] = IF k = 0 THEN Outset ELSE Visit(d, f[k - 1])
      BY <2>2, <2>4, <3>3, <3>4
    <3>6. f = body
      BY <3>5
    <3>7. WalksTo(d, R, p, f, m)
      BY <3>6 DEF WalksTo, Outset
    <3> QED
      BY <2>2, <3>7
  <2> QED
    BY <2>2, <2>3, <2>4
<1> QED
  BY <1>1

\* NearestNeighborPath is the total of such a walk.
LEMMA PathIsWalk ==
  ASSUME NEW d, NEW R, NEW p, Count(R) \in Nat
  PROVE  \E f : /\ WalksTo(d, R, p, f, Count(R))
                /\ NearestNeighborPath(d, R, p) = f[Count(R)].total
<1> DEFINE f == CHOOSE g : WalksTo(d, R, p, g, Count(R))
<1>1. WalksTo(d, R, p, f, Count(R))
  BY WalkExists
<1>2. NearestNeighborPath(d, R, p) = f[Count(R)].total
  BY DEF NearestNeighborPath, WalksTo
<1> QED
  BY <1>1, <1>2

\* Two walks, v over tasks of d and w over tasks of e, that have come equally far:
\* the tasks they still have to visit lie at the same places, and in the same order
\* if there may be ties.
Abreast(d, e, v, w) ==
  /\ v.position = w.position /\ v.position \in Places /\ v.total = w.total
  /\ v.remaining \subseteq DOMAIN d /\ w.remaining \subseteq DOMAIN e
  /\ \E b \in Bijection(v.remaining, w.remaining) :
       /\ \A i \in v.remaining : d[i].place = e[b[i]].place
       /\ NoTies \/ \A i, j \in v.remaining : i < j => b[i] < b[j]

\* One more turn leaves them abreast: both go to the same place, and the partner of
\* the task that one of them visited takes the place of the one the other visited.
LEMMA VisitAbreast ==
  ASSUME NEW d, NEW e, IsDay(d), IsDay(e), NEW v, NEW w, Abreast(d, e, v, w),
         v.remaining # {}
  PROVE  Abreast(d, e, Visit(d, v), Visit(e, w))
<1> DEFINE S == v.remaining
           T == w.remaining
           p == v.position
<1>1. /\ w.position = p /\ p \in Places /\ v.total = w.total
      /\ S \subseteq DOMAIN d /\ T \subseteq DOMAIN e
  BY DEF Abreast
<1>2. PICK b \in Bijection(S, T) :
        /\ \A i \in S : d[i].place = e[b[i]].place
        /\ NoTies \/ \A i, j \in S : i < j => b[i] < b[j]
  BY DEF Abreast
<1>3. /\ b \in [S -> T] /\ \A i, j \in S : b[i] = b[j] => i = j
      /\ \A j \in T : \E i \in S : b[i] = j
  BY <1>2 DEF Bijection, Injection, Surjection, IsInjective
<1>4. S # {} /\ T # {}
  BY <1>3
<1> HIDE DEF S, T, p
<1> DEFINE x == Nearest(d, S, p)
           y == Nearest(e, T, p)
<1>5. /\ x \in S /\ \A j \in S : Distance(p, d[x].place) <= Distance(p, d[j].place)
      /\ \A j \in S : Distance(p, d[x].place) = Distance(p, d[j].place) => x <= j
  BY <1>1, <1>4, NearestIsNearest
<1>6. /\ y \in T /\ \A j \in T : Distance(p, e[y].place) <= Distance(p, e[j].place)
      /\ \A j \in T : Distance(p, e[y].place) = Distance(p, e[j].place) => y <= j
  BY <1>1, <1>4, NearestIsNearest
<1> HIDE DEF x, y
<1>7. /\ d[x].place = e[y].place /\ d[x].place \in Places
      /\ ~NoTies => b[x] = y
  <2>1. PICK z \in S : b[z] = y
    BY <1>3, <1>6
  <2>2. d[z].place = e[y].place /\ e[b[x]].place = d[x].place /\ b[x] \in T
    BY <1>2, <1>3, <1>5, <2>1
  <2>3. /\ Distance(p, d[x].place) <= Distance(p, e[y].place)
        /\ Distance(p, e[y].place) <= Distance(p, d[x].place)
    BY <1>5, <1>6, <2>1, <2>2
  <2>4. d[x].place \in Places /\ e[y].place \in Places
    BY <1>1, <1>5, <1>6, DayRows
  <2>5. Distance(p, d[x].place) \in Nat /\ Distance(p, e[y].place) \in Nat
    BY <1>1, <2>4, DistanceType
  <2>6. Distance(p, d[x].place) = Distance(p, e[y].place)
    BY <2>3, <2>5
  <2>7. CASE NoTies
    BY <1>1, <2>4, <2>6, <2>7 DEF NoTies
  <2>8. CASE ~NoTies
    <3>1. Distance(p, d[z].place) = Distance(p, d[x].place)
      BY <2>2, <2>6
    <3>2. x <= z
      BY <1>1, <1>5, <2>1, <2>5, <2>6, <3>1
    <3>3. y <= b[x]
      BY <1>1, <1>6, <2>2, <2>5, <2>6
    <3>4. x \in Nat /\ z \in Nat /\ y \in Nat /\ b[x] \in Nat
      BY <1>1, <1>5, <1>6, <2>1, <2>2, DayRows
    <3>5. x < z => b[x] < y
      BY <1>2, <1>5, <2>1, <2>8
    <3>6. x = z
      BY <3>2, <3>3, <3>4, <3>5
    <3> QED
      BY <2>1, <2>2, <2>4, <2>8, <3>6
  <2> QED
    BY <2>7, <2>8
<1> DEFINE c == [i \in S \ {x} |-> IF b[i] = y THEN b[x] ELSE b[i]]
<1>8. \A i \in S \ {x} : c[i] = IF b[i] = y THEN b[x] ELSE b[i]
  OBVIOUS
<1>9. c \in Bijection(S \ {x}, T \ {y})
  <2>1. \A i \in S \ {x} : c[i] \in T \ {y}
    BY <1>3, <1>5, <1>8
  <2>2. c \in [S \ {x} -> T \ {y}]
    BY <2>1
  <2> HIDE DEF c
  <2>3. \A i, j \in S \ {x} : c[i] = c[j] => i = j
    BY <1>3, <1>5, <1>8
  <2>4. ASSUME NEW j \in T \ {y} PROVE \E i \in S \ {x} : c[i] = j
    <3>1. PICK i \in S : b[i] = j
      BY <1>3
    <3>2. CASE i # x
      BY <1>8, <3>1, <3>2
    <3>3. CASE i = x
      <4>1. PICK z \in S : b[z] = y
        BY <1>3, <1>6
      <4>2. z # x
        BY <3>1, <3>3, <4>1
      <4> QED
        BY <1>8, <3>1, <3>3, <4>1, <4>2
    <3> QED
      BY <3>2, <3>3
  <2> QED
    BY <2>2, <2>3, <2>4 DEF Bijection, Injection, Surjection, IsInjective
<1>10. \A i \in S \ {x} : d[i].place = e[c[i]].place
  BY <1>2, <1>3, <1>5, <1>7, <1>8
<1>11. NoTies \/ \A i, j \in S \ {x} : i < j => c[i] < c[j]
  <2> SUFFICES ASSUME ~NoTies, NEW i \in S \ {x}, NEW j \in S \ {x}, i < j
               PROVE  c[i] < c[j]
    OBVIOUS
  <2>1. c[i] = b[i] /\ c[j] = b[j]
    BY <1>3, <1>5, <1>7, <1>8
  <2> QED
    BY <1>2, <2>1
<1> HIDE DEF c
<1>12. Visit(d, v) = [position |-> d[x].place, remaining |-> S \ {x},
                      total |-> v.total + Distance(p, d[x].place)]
  BY DEF Visit, S, p, x
<1>13. Visit(e, w) = [position |-> e[y].place, remaining |-> T \ {y},
                      total |-> w.total + Distance(p, e[y].place)]
  BY <1>1 DEF Visit, T, y
<1> QED
  BY <1>1, <1>7, <1>9, <1>10, <1>11, <1>12, <1>13 DEF Abreast

\* The nearest-neighbour paths over the visible tasks are equally long.
LEMMA SameWalk ==
  ASSUME NEW d, NEW e, IsDay(d), IsDay(e), NEW t \in Nat, LookAlike(d, e, t),
         NoTies \/ InOrder(d, e, t), NEW p \in Places
  PROVE  NearestNeighborPath(d, Visible(d, t), p) = NearestNeighborPath(e, Visible(e, t), p)
<1> DEFINE S == Visible(d, t)
           T == Visible(e, t)
           n == Count(S)
           Outset(R) == [position |-> p, remaining |-> R, total |-> 0]
<1>1. n \in Nat /\ Count(T) = n
  <2>1. Cardinality(S) \in Nat
    BY DayParts, FS_CardinalityType
  <2> QED
    BY <2>1, SameCounts DEF Count
<1>2. S \subseteq DOMAIN d /\ T \subseteq DOMAIN e /\ IsFiniteSet(S)
  BY DayParts
<1>3. \E b \in Bijection(S, T) :
        /\ \A i \in S : d[i].place = e[b[i]].place
        /\ NoTies \/ \A i, j \in S : i < j => b[i] < b[j]
  <2>1. PICK q : /\ Pairs(q, d, e, t)
                 /\ NoTies \/ \A i, j \in Visible(d, t) : i < j => q[i] < q[j]
    BY DEF LookAlike, InOrder
  <2>2. PICK r : r = [i \in Visible(d, t) |-> q[i]]
    OBVIOUS
  <2>3. /\ r \in Bijection(Visible(d, t), Visible(e, t))
        /\ \A i \in Visible(d, t) : d[i].place = e[r[i]].place
    BY <2>1, <2>2, VisiblePair
  <2>4. NoTies \/ \A i, j \in Visible(d, t) : i < j => r[i] < r[j]
    BY <2>1, <2>2
  <2> QED
    BY <2>3, <2>4
<1> HIDE DEF S, T
<1>4. PICK f : WalksTo(d, S, p, f, n) /\ NearestNeighborPath(d, S, p) = f[n].total
  BY <1>1, PathIsWalk
<1>5. PICK g : WalksTo(e, T, p, g, n) /\ NearestNeighborPath(e, T, p) = g[n].total
  BY <1>1, PathIsWalk
<1> HIDE DEF n
<1>6. /\ \A k \in 0..n : f[k] = IF k = 0 THEN Outset(S) ELSE Visit(d, f[k - 1])
      /\ \A k \in 0..n : g[k] = IF k = 0 THEN Outset(T) ELSE Visit(e, g[k - 1])
  BY <1>4, <1>5 DEF WalksTo
<1> DEFINE Good(k) == /\ Abreast(d, e, f[k], g[k])
                      /\ IsFiniteSet(f[k].remaining)
                      /\ Cardinality(f[k].remaining) = n - k
<1>7. Good(0)
  <2>1. f[0] = Outset(S) /\ g[0] = Outset(T)
    BY <1>1, <1>6
  <2>2. Abreast(d, e, Outset(S), Outset(T))
    BY <1>2, <1>3 DEF Abreast
  <2>3. Cardinality(S) = n
    BY DEF n, Count
  <2> QED
    BY <1>1, <1>2, <2>1, <2>2, <2>3
<1> HIDE DEF Outset
<1>8. ASSUME NEW k \in 1..n, Good(k - 1) PROVE Good(k)
  <2> DEFINE v == f[k - 1]
             w == g[k - 1]
             x == Nearest(d, v.remaining, v.position)
  <2>1. k \in 0..n /\ k # 0 /\ n - (k - 1) > 0 /\ n - (k - 1) - 1 = n - k
    BY <1>1
  <2>2. f[k] = Visit(d, v) /\ g[k] = Visit(e, w)
    BY <1>6, <2>1
  <2>3. /\ Abreast(d, e, v, w) /\ IsFiniteSet(v.remaining)
        /\ Cardinality(v.remaining) = n - (k - 1)
    BY <1>8
  <2> HIDE DEF v, w
  <2>4. v.remaining # {}
    BY <2>1, <2>3, FS_EmptySet
  <2>5. Abreast(d, e, f[k], g[k])
    BY <2>2, <2>3, <2>4, VisitAbreast
  <2>6. x \in v.remaining
    <3>1. v.position \in Places /\ v.remaining \subseteq DOMAIN d
      BY <2>3 DEF Abreast
    <3> QED
      BY <2>4, <3>1, NearestIsNearest
  <2> HIDE DEF x
  <2>7. f[k].remaining = v.remaining \ {x}
    BY <2>2 DEF Visit, x
  <2>8. /\ IsFiniteSet(v.remaining \ {x})
        /\ Cardinality(v.remaining \ {x}) =
             IF x \in v.remaining THEN Cardinality(v.remaining) - 1
             ELSE Cardinality(v.remaining)
    BY <2>3, FS_RemoveElement
  <2>9. Cardinality(v.remaining \ {x}) = Cardinality(v.remaining) - 1
    BY <2>6, <2>8, Zenon
  <2>10. Cardinality(f[k].remaining) = n - k
    BY <2>1, <2>3, <2>7, <2>9
  <2> QED
    BY <2>5, <2>7, <2>8, <2>10
<1> HIDE DEF Good
<1> DEFINE Bad == {k \in 0..n : ~Good(k)}
<1>9. Bad = {}
  <2> SUFFICES ASSUME Bad # {} PROVE FALSE
    OBVIOUS
  <2>1. PICK k \in Bad : \A u \in Bad : k <= u
    <3>1. Bad \subseteq Nat
      BY <1>1
    <3> HIDE DEF Bad
    <3> QED
      BY <3>1, LeastOf
  <2>2. k \in 0..n /\ ~Good(k)
    OBVIOUS
  <2>3. k # 0
    BY <1>7, <2>2
  <2>4. k \in 1..n /\ k - 1 \in 0..n /\ ~(k <= k - 1)
    BY <1>1, <2>2, <2>3
  <2>5. Good(k - 1)
    BY <2>1, <2>4
  <2> QED
    BY <1>8, <2>2, <2>4, <2>5
<1>10. f[n].total = g[n].total
  <2>1. n \in 0..n
    BY <1>1
  <2>2. Good(n)
    BY <1>9, <2>1
  <2> QED
    BY <2>2 DEF Good, Abreast
<1> QED
  BY <1>4, <1>5, <1>10 DEF S, T

\* The features of all three builders.
LEMMA SameBase ==
  ASSUME NEW d, NEW e, IsDay(d), IsDay(e), NEW t \in Nat, LookAlike(d, e, t)
  PROVE  /\ SameBut(BaseFeatures(d, t), BaseFeatures(e, t))
         /\ NoTies \/ InOrder(d, e, t) => BaseFeatures(d, t) = BaseFeatures(e, t)
<1>1. Count(Completed(d, t)) = Count(Completed(e, t))
  BY DEF LookAlike
<1>2. /\ Path(d, t) = Path(e, t)
      /\ Current(d, t) = Current(e, t) /\ Current(d, t) \in Places
  BY SamePath
<1>3. NoTies \/ InOrder(d, e, t) =>
        NearestNeighborPath(d, Visible(d, t), Current(d, t)) =
          NearestNeighborPath(e, Visible(e, t), Current(e, t))
  BY <1>2, SameWalk
<1>4. Count(Visible(d, t)) = Count(Visible(e, t))
  BY SameCounts
<1>5. PlacesOf(d, t) = PlacesOf(e, t)
  BY SameTallies
<1>6. RecentPace(d, t) = RecentPace(e, t) /\ DayStart(d) = DayStart(e)
  BY SamePace, StartKnown
<1>7. SameBut(BaseFeatures(d, t), BaseFeatures(e, t))
  BY <1>1, <1>2, <1>4, <1>5, <1>6 DEF BaseFeatures, PlacesOf, SameBut
<1> QED
  BY <1>1, <1>2, <1>3, <1>4, <1>5, <1>6, <1>7 DEF BaseFeatures, PlacesOf

\* Those that only the V2 builders add.
LEMMA SameEvents ==
  ASSUME NEW d, NEW e, IsDay(d), IsDay(e), NEW t \in Nat, LookAlike(d, e, t)
  PROVE  EventFeatures(d, t) = EventFeatures(e, t)
<1> DEFINE Gaps(f, m) == [k \in 1..(m - 1) |-> f[k + 1].delivery - f[k].delivery]
<1>1. PICK m \in Nat \ {0} :
        /\ Count(Completed(d, t)) = m /\ Count(Completed(e, t)) = m
        /\ \A k \in 1..m : d[k] = e[k]
  BY SameCompleted
<1>2. Gaps(d, m) = Gaps(e, m)
  <2>1. \A k \in 1..(m - 1) : k \in 1..m /\ k + 1 \in 1..m
    OBVIOUS
  <2>2. \A k \in 1..(m - 1) : d[k] = e[k] /\ d[k + 1] = e[k + 1]
    BY <1>1, <2>1
  <2> QED
    BY <2>2
<1>3. AgesOf(d, t) = AgesOf(e, t) /\ \A x : DistancesOf(d, t, x) = DistancesOf(e, t, x)
  BY SameTallies
<1>4. Events(d, t, 1) = Events(e, t, 1) /\ Events(d, t, 2) = Events(e, t, 2)
  BY SameCounts
<1>5. Current(d, t) = Current(e, t)
  BY SamePath
<1>6. EventFeatures(d, t) =
        [gaps |-> Gaps(d, m), ages |-> AgesOf(d, t), recent |-> Events(d, t, 1),
         older |-> Events(d, t, 2), distances |-> DistancesOf(d, t, Current(d, t))]
  BY <1>1 DEF EventFeatures, AgesOf, DistancesOf
<1>7. EventFeatures(e, t) =
        [gaps |-> Gaps(e, m), ages |-> AgesOf(e, t), recent |-> Events(e, t, 1),
         older |-> Events(e, t, 2), distances |-> DistancesOf(e, t, Current(e, t))]
  BY <1>1 DEF EventFeatures, AgesOf, DistancesOf
<1> HIDE DEF Gaps
<1> QED
  BY <1>2, <1>3, <1>4, <1>5, <1>6, <1>7

\* Two days that look alike at a time have the same features then, whatever is
\* delivered later and in whichever order; only the length of the nearest-neighbour
\* path needs that there are no ties, or that they are broken alike.
THEOREM KnownTasksDecide ==
  ASSUME NEW d, NEW e, IsDay(d), IsDay(e), NEW t \in Nat, LookAlike(d, e, t)
  PROVE  /\ AllButWalk(Features(d, t), Features(e, t))
         /\ NoTies \/ InOrder(d, e, t) => Features(d, t) = Features(e, t)
<1>1. /\ SameBut(BaseFeatures(d, t), BaseFeatures(e, t))
      /\ NoTies \/ InOrder(d, e, t) => BaseFeatures(d, t) = BaseFeatures(e, t)
  BY SameBase
<1>2. EventFeatures(d, t) = EventFeatures(e, t)
  BY SameEvents
<1>3. AllButWalk(Features(d, t), Features(e, t))
  BY <1>1, <1>2 DEF Features, AllButWalk
<1> QED
  BY <1>1, <1>2, <1>3 DEF Features

\* The days that the properties compare with look alike at t: first those that
\* deliver the visible tasks in another order,
LEMMA ReorderedAlike ==
  ASSUME NEW d, IsDay(d), NEW t \in Nat, Completed(d, t) # {},
         NEW p \in Bijection(Visible(d, t), Visible(d, t)), NEW e, e = Reordered(d, p)
  PROVE  /\ IsDay(e) /\ LookAlike(e, d, t)
         /\ Accepted(e, t) = Accepted(d, t) /\ Completed(e, t) = Completed(d, t)
<1> DEFINE V == Visible(d, t)
<1>1. /\ p \in [V -> V] /\ \A i, j \in V : p[i] = p[j] => i = j
      /\ \A j \in V : \E i \in V : p[i] = j
  BY DEF Bijection, Injection, Surjection, IsInjective
<1>2. /\ Len(d) \in Nat /\ DOMAIN d = 1..Len(d)
      /\ \A i \in DOMAIN d : /\ d[i] \in Task /\ d[i].accept \in Nat
                             /\ d[i].delivery \in Nat /\ d[i].place \in Places
                             /\ d[i].accept <= d[i].delivery
  BY DayRows
<1>3. \A i \in V : i \in DOMAIN d /\ d[i].accept <= t /\ d[i].delivery > t
  BY DEF Visible
<1>4. /\ DOMAIN e = DOMAIN d
      /\ \A i \in V : e[i] = [d[i] EXCEPT !.accept = d[p[i]].accept, !.place = d[p[i]].place]
      /\ \A i \in DOMAIN d \ V : e[i] = d[i]
  BY <1>1, <1>3 DEF Reordered
<1>5. \A i \in DOMAIN d : i \notin V => (d[i].accept <= t <=> d[i].delivery <= t)
  BY <1>2 DEF Visible
<1> HIDE DEF V
<1>6. ASSUME NEW i \in V
      PROVE  /\ e[i].accept = d[p[i]].accept /\ e[i].place = d[p[i]].place
             /\ e[i].delivery = d[i].delivery
             /\ p[i] \in V /\ p[i] \in DOMAIN d
             /\ e[i] \in Task /\ e[i].accept <= t
  <2>1. p[i] \in V /\ p[i] \in DOMAIN d /\ i \in DOMAIN d /\ d[p[i]].accept <= t
    BY <1>1, <1>3
  <2>2. /\ d[i] \in [accept : Nat, delivery : Nat, place : Places]
        /\ d[p[i]].accept \in Nat /\ d[p[i]].place \in Places
    BY <1>2, <2>1 DEF Task
  <2>3. e[i] = [d[i] EXCEPT !.accept = d[p[i]].accept, !.place = d[p[i]].place]
    BY <1>4
  <2> QED
    BY <2>1, <2>2, <2>3 DEF Task
<1>8. \A i \in DOMAIN d : /\ e[i] \in Task /\ e[i].delivery = d[i].delivery
                          /\ e[i].accept <= e[i].delivery
  <2>1. ASSUME NEW i \in V PROVE e[i] \in Task /\ e[i].delivery = d[i].delivery
                                 /\ e[i].accept <= e[i].delivery
    <3>1. e[i].accept \in Nat /\ e[i].accept <= t /\ d[i].delivery \in Nat /\ d[i].delivery > t
      BY <1>2, <1>3, <1>6, <2>1
    <3> QED
      BY <1>6, <2>1, <3>1
  <2>2. ASSUME NEW i \in DOMAIN d, i \notin V
        PROVE e[i] \in Task /\ e[i].delivery = d[i].delivery /\ e[i].accept <= e[i].delivery
    BY <1>2, <1>4, <2>2
  <2> QED
    BY <2>1, <2>2
<1>9. IsDay(e)
  <2>1. e \in Seq(Task)
    <3>1. e = [i \in 1..Len(d) |-> e[i]]
      BY <1>2, <1>4 DEF Reordered
    <3>2. \A i \in 1..Len(d) : e[i] \in Task
      BY <1>2, <1>8
    <3> QED
      BY <1>2, <3>1, <3>2, IsASeq
  <2>2. \A i, j \in DOMAIN e : i < j => e[i].delivery <= e[j].delivery
    <3> SUFFICES ASSUME NEW i \in DOMAIN d, NEW j \in DOMAIN d, i < j
                 PROVE  e[i].delivery <= e[j].delivery
      BY <1>4
    <3>1. d[i].delivery <= d[j].delivery
      BY DEF IsDay
    <3> QED
      BY <1>8, <3>1
  <2>3. \A i \in DOMAIN e : e[i].accept <= e[i].delivery
    BY <1>4, <1>8
  <2> QED
    BY <2>1, <2>2, <2>3 DEF IsDay
<1>10. Accepted(e, t) = Accepted(d, t)
  <2>1. \A i \in DOMAIN d : e[i].accept <= t <=> d[i].accept <= t
    BY <1>3, <1>4, <1>6
  <2> QED
    BY <1>4, <2>1 DEF Accepted
<1>11. Completed(e, t) = Completed(d, t)
  BY <1>4, <1>8 DEF Completed
<1>12. Visible(e, t) = V
  <2>1. \A i \in DOMAIN d : e[i].accept <= t <=> d[i].accept <= t
    BY <1>3, <1>4, <1>6
  <2> QED
    BY <1>4, <1>8, <2>1 DEF Visible, V
<1>13. \A k \in Completed(e, t) : d[k] = e[k]
  <2>1. \A k \in Completed(d, t) : k \in DOMAIN d /\ k \notin V
    BY <1>2 DEF Completed, Visible, V
  <2> QED
    BY <1>4, <1>11, <2>1
<1>14. V \subseteq Accepted(d, t)
  BY <1>3 DEF Accepted
<1> DEFINE K == Accepted(d, t)
           q == [i \in K |-> IF i \in V THEN p[i] ELSE i]
<1> HIDE DEF K
<1>15. \A i \in K : q[i] = IF i \in V THEN p[i] ELSE i
  OBVIOUS
<1>16. Pairs(q, e, d, t)
  <2>1. V \subseteq K
    BY <1>14 DEF K
  <2>2. q \in [K -> K]
    BY <1>1, <2>1
  <2> HIDE DEF q
  <2>3. \A i, j \in K : q[i] = q[j] => i = j
    BY <1>1, <1>15
  <2>4. \A j \in K : \E i \in K : q[i] = j
    <3>1. ASSUME NEW j \in V PROVE \E i \in K : q[i] = j
      BY <1>1, <1>15, <2>1, <3>1
    <3>2. ASSUME NEW j \in K, j \notin V PROVE \E i \in K : q[i] = j
      BY <1>15, <3>2
    <3> QED
      BY <3>1, <3>2
  <2>5. q \in Bijection(K, K)
    BY <2>2, <2>3, <2>4 DEF Bijection, Injection, Surjection, IsInjective
  <2>6. \A i \in K : i \in DOMAIN d
    BY DEF K, Accepted
  <2>7. \A i \in K : /\ d[q[i]].accept = e[i].accept /\ d[q[i]].place = e[i].place
                     /\ i \in V <=> q[i] \in V
    <3>1. ASSUME NEW i \in V, i \in K
          PROVE  /\ d[q[i]].accept = e[i].accept /\ d[q[i]].place = e[i].place
                 /\ q[i] \in V
      BY <1>6, <1>15, <3>1
    <3>2. ASSUME NEW i \in K, i \notin V
          PROVE  /\ d[q[i]].accept = e[i].accept /\ d[q[i]].place = e[i].place
                 /\ q[i] \notin V
      BY <1>4, <1>15, <2>6, <3>2
    <3> QED
      BY <3>1, <3>2
  <2>8. q \in Bijection(Accepted(e, t), Accepted(d, t)) /\ Accepted(e, t) = K
    BY <1>10, <2>5 DEF K
  <2> QED
    BY <1>12, <2>7, <2>8 DEF Pairs, V
<1>17. LookAlike(e, d, t)
  BY <1>11, <1>13, <1>16 DEF LookAlike
<1> QED
  BY <1>9, <1>10, <1>11, <1>17

\* then those without the tasks not yet accepted: the listing keeps the completed
\* tasks, which come first, where they are.
LEMMA ListedAlike ==
  ASSUME NEW d, IsDay(d), NEW t \in Nat, Completed(d, t) # {},
         NEW n \in Nat, NEW l \in Bijection(1..n, Accepted(d, t)),
         \A j, k \in DOMAIN l : j < k => l[j] < l[k],
         NEW e, e = Listed(d, l)
  PROVE  IsDay(e) /\ LookAlike(e, d, t) /\ InOrder(e, d, t)
<1> DEFINE K == Accepted(d, t)
           m == Count(Completed(d, t))
<1>1. /\ l \in [1..n -> K] /\ \A i, j \in 1..n : l[i] = l[j] => i = j
      /\ \A j \in K : \E i \in 1..n : l[i] = j
  BY DEF Bijection, Injection, Surjection, IsInjective
<1>2. /\ Len(d) \in Nat /\ DOMAIN d = 1..Len(d)
      /\ \A i \in DOMAIN d : /\ d[i] \in Task /\ d[i].accept \in Nat /\ d[i].delivery \in Nat
                             /\ d[i].accept <= d[i].delivery
  BY DayRows
<1>3. m \in Nat /\ Completed(d, t) = 1..m
  BY CompletedFirst
<1>4. \A i \in K : i \in DOMAIN d /\ i \in Nat /\ d[i].accept <= t
  BY <1>2 DEF Accepted
<1>5. \A i \in 1..m : i \in K /\ d[i].delivery <= t
  <2>1. \A i \in 1..m : i \in DOMAIN d /\ d[i].delivery <= t
    BY <1>3 DEF Completed
  <2> QED
    BY <1>2, <2>1 DEF Accepted
<1>6. DOMAIN e = 1..n /\ \A k \in 1..n : e[k] = d[l[k]]
  BY <1>1 DEF Listed
<1>7. \A j, k \in 1..n : j < k => l[j] < l[k]
  BY <1>1
<1>8. \A i \in DOMAIN d : d[i].delivery <= t => i \in 1..m
  BY <1>3 DEF Completed
<1> HIDE DEF K, m
<1>9. \A k \in 1..n : l[k] \in K /\ l[k] \in Nat /\ l[k] \in DOMAIN d
  BY <1>1, <1>4
<1> DEFINE Moved == {k \in 1..m : ~(k \in 1..n /\ l[k] = k)}
<1>10. Moved = {}
  <2> SUFFICES ASSUME Moved # {} PROVE FALSE
    OBVIOUS
  <2>1. PICK k \in Moved : \A u \in Moved : k <= u
    <3>1. Moved \subseteq Nat
      BY <1>3
    <3> HIDE DEF Moved
    <3> QED
      BY <3>1, LeastOf
  <2>2. k \in 1..m /\ ~(k \in 1..n /\ l[k] = k)
    OBVIOUS
  <2>3. PICK j \in 1..n : l[j] = k
    BY <1>1, <1>5, <2>2
  <2>4. j # k
    BY <2>2, <2>3
  <2>5. CASE j < k
    <3>1. j \in 1..m /\ j \notin Moved
      BY <1>3, <2>1, <2>2, <2>3, <2>5
    <3>2. l[j] = j
      BY <3>1
    <3> QED
      BY <2>3, <2>4, <3>2
  <2>6. CASE j > k
    <3>1. k \in 1..n
      BY <1>3, <2>2, <2>3, <2>6
    <3>2. l[k] < k /\ l[k] \in K /\ l[k] \in Nat
      BY <1>7, <1>9, <2>3, <2>6, <3>1
    <3>3. l[k] \in 1..m
      BY <1>2, <1>3, <1>4, <2>2, <3>2
    <3>4. l[k] \notin Moved
      BY <1>3, <2>1, <2>2, <3>2
    <3>5. l[k] \in 1..n /\ l[l[k]] = l[k]
      BY <3>3, <3>4
    <3>6. l[k] = k
      BY <1>1, <3>1, <3>5
    <3> QED
      BY <2>2, <3>1, <3>6
  <2> QED
    BY <1>3, <2>2, <2>3, <2>4, <2>5, <2>6
<1>11. \A k \in 1..m : k \in 1..n /\ l[k] = k /\ e[k] = d[k]
  BY <1>6, <1>10
<1>12. IsDay(e)
  <2>1. e \in Seq(Task)
    <3>1. e = [k \in 1..n |-> e[k]]
      BY <1>1 DEF Listed
    <3>2. \A k \in 1..n : e[k] \in Task
      BY <1>2, <1>6, <1>9
    <3> QED
      BY <3>1, <3>2, IsASeq
  <2>2. ASSUME NEW j \in 1..n, NEW k \in 1..n, j < k PROVE e[j].delivery <= e[k].delivery
    <3>1. l[j] < l[k] /\ l[j] \in DOMAIN d /\ l[k] \in DOMAIN d
      BY <1>7, <1>9, <2>2
    <3> QED
      BY <1>6, <3>1 DEF IsDay
  <2>3. \A k \in 1..n : e[k].accept <= e[k].delivery
    BY <1>2, <1>6, <1>9
  <2> QED
    BY <1>6, <2>1, <2>2, <2>3 DEF IsDay
<1>13. Completed(e, t) = 1..m
  <2>1. \A k \in 1..m : k \in DOMAIN e /\ e[k].delivery <= t
    BY <1>5, <1>6, <1>11
  <2>2. ASSUME NEW k \in 1..n, e[k].delivery <= t PROVE k \in 1..m
    <3>1. l[k] \in 1..m
      BY <1>6, <1>8, <1>9, <2>2
    <3>2. l[k] \in 1..n /\ l[l[k]] = l[k]
      BY <1>11, <3>1
    <3>3. l[k] = k
      BY <1>1, <3>2
    <3> QED
      BY <3>1, <3>3
  <2> QED
    BY <1>6, <2>1, <2>2 DEF Completed
<1>14. Accepted(e, t) = 1..n
  <2>1. \A k \in 1..n : e[k].accept <= t
    BY <1>4, <1>6, <1>9
  <2> QED
    BY <1>6, <2>1 DEF Accepted
<1>15. Pairs(l, e, d, t)
  <2>1. l \in Bijection(Accepted(e, t), Accepted(d, t))
    BY <1>14
  <2>2. ASSUME NEW k \in 1..n PROVE k \in Visible(e, t) <=> l[k] \in Visible(d, t)
    BY <1>6, <1>9 DEF Visible
  <2> QED
    BY <1>6, <1>14, <2>1, <2>2 DEF Pairs
<1>16. InOrder(e, d, t)
  <2>1. \A k \in Visible(e, t) : k \in 1..n
    BY <1>6 DEF Visible
  <2> QED
    BY <1>7, <1>15, <2>1 DEF InOrder
<1> QED
  BY <1>3, <1>11, <1>12, <1>13, <1>15, <1>16 DEF LookAlike, m

\* Every snapshot is the features of the day at the delivery of one of its tasks.
Described ==
  /\ day \in Days /\ stride \in Strides /\ index \in Nat
  /\ snapshot # NoSnapshot =>
       \E i \in DOMAIN day : /\ snapshot.query = day[i].delivery
                             /\ snapshot.features = Features(day, day[i].delivery)

\* Each turn of the loop describes the day or leaves the last row alone.
LEMMA DescribedInvariant == DaySpec => []Described
<1>1. DayInit => Described
  BY DEF DayInit, Described
<1>2. Described /\ [DayNext]_dayVars => Described'
  <2> SUFFICES ASSUME Described, [DayNext]_dayVars PROVE Described'
    OBVIOUS
  <2>1. day \in Days /\ stride \in Strides /\ index \in Nat
    BY DEF Described
  <2>2. stride \in Nat /\ IsDay(day) /\ Len(day) \in Nat /\ DOMAIN day = 1..Len(day)
    BY <2>1, DaysAssumption, DayRows DEF DaysAssumption
  <2>3. ASSUME NEW name, Describe(name) PROVE Described'
    <3>1. index + 1 \in DOMAIN day /\ index + stride \in Nat
      BY <2>1, <2>2, <2>3 DEF Describe, InLoop
    <3>2. /\ snapshot'.query = day[index + 1].delivery
          /\ snapshot'.features = Features(day, day[index + 1].delivery)
          /\ builder' = builder /\ day' = day /\ stride' = stride /\ index' = index + stride
      BY <2>3 DEF Describe, QueryTime
    <3> QED
      BY <2>1, <3>1, <3>2 DEF Described, Features
  <2>4. CASE NothingVisible
    <3>1. index' \in Nat /\ UNCHANGED <<builder, day, stride, snapshot>>
      BY <2>1, <2>2, <2>4 DEF NothingVisible
    <3> QED
      BY <3>1 DEF Described, Features
  <2>5. CASE UNCHANGED dayVars
    BY <2>5 DEF dayVars, Described, Features
  <2> QED
    BY <2>3, <2>4, <2>5 DEF DayNext, ClosedSetSnapshot, DevelopmentSnapshot, FinalSnapshot
<1> QED
  BY <1>1, <1>2, PTL DEF DaySpec

\* What a row of the snapshots is made from.
LEMMA DescribedDay ==
  ASSUME Described, snapshot # NoSnapshot
  PROVE  /\ IsDay(day) /\ snapshot.query \in Nat /\ Completed(day, snapshot.query) # {}
         /\ snapshot.features = Features(day, snapshot.query)
<1>1. PICK i \in DOMAIN day : /\ snapshot.query = day[i].delivery
                              /\ snapshot.features = Features(day, day[i].delivery)
  BY DEF Described
<1>2. IsDay(day)
  BY DaysAssumption DEF DaysAssumption, Described
<1>3. day[i].delivery \in Nat
  BY <1>2, DayRows
<1>4. i \in Completed(day, day[i].delivery)
  BY <1>3 DEF Completed
<1> QED
  BY <1>1, <1>2, <1>3, <1>4

\* A day without the tasks accepted after t.
LEMMA LaterIgnored ==
  ASSUME NEW d, IsDay(d), NEW t \in Nat, Completed(d, t) # {}, NEW l \in Listings(d, t)
  PROVE  Features(Listed(d, l), t) = Features(d, t)
<1> DEFINE n == Count(Accepted(d, t))
           e == Listed(d, l)
<1>1. n \in Nat
  BY DayParts, FS_CardinalityType DEF Count
<1>2. l \in Bijection(1..n, Accepted(d, t)) /\ \A j, k \in DOMAIN l : j < k => l[j] < l[k]
  BY DEF Listings
<1> HIDE DEF n, e
<1>3. IsDay(e) /\ LookAlike(e, d, t) /\ InOrder(e, d, t)
  BY <1>1, <1>2, ListedAlike DEF e
<1> QED
  BY <1>3, KnownTasksDecide DEF e

\* A day whose deliveries from row k on come later.
LEMMA PostponedAlike ==
  ASSUME NEW d, IsDay(d), NEW t \in Nat, Completed(d, t) # {},
         NEW k \in DOMAIN d, NEW s \in Delays, NEW e, e = Postponed(d, t, k, s)
  PROVE  /\ IsDay(e) /\ LookAlike(e, d, t) /\ InOrder(e, d, t)
         /\ Accepted(e, t) = Accepted(d, t) /\ Completed(e, t) = Completed(d, t)
<1>1. /\ Len(d) \in Nat /\ DOMAIN d = 1..Len(d) /\ s \in Nat
      /\ \A i \in DOMAIN d : /\ d[i] \in Task /\ d[i].accept \in Nat
                             /\ d[i].delivery \in Nat /\ d[i].accept <= d[i].delivery
  BY DayRows, DaysAssumption DEF DaysAssumption
<1>2. /\ DOMAIN e = DOMAIN d
      /\ \A i \in DOMAIN d :
           e[i] = IF i >= k /\ d[i].delivery > t THEN [d[i] EXCEPT !.delivery = @ + s] ELSE d[i]
  BY DEF Postponed
<1>3. ASSUME NEW i \in DOMAIN d
      PROVE  /\ e[i] \in Task /\ e[i].accept = d[i].accept /\ e[i].place = d[i].place
             /\ e[i].accept <= e[i].delivery
             /\ e[i].delivery = IF i >= k /\ d[i].delivery > t THEN d[i].delivery + s
                                ELSE d[i].delivery
  <2>1. CASE i >= k /\ d[i].delivery > t
    <3>1. d[i] \in [accept : Nat, delivery : Nat, place : Places] /\ d[i].delivery + s \in Nat
      BY <1>1 DEF Task
    <3>2. e[i] = [d[i] EXCEPT !.delivery = @ + s]
      BY <1>2, <2>1
    <3> QED
      BY <1>1, <2>1, <3>1, <3>2 DEF Task
  <2>2. CASE ~(i >= k /\ d[i].delivery > t)
    <3>1. e[i] = d[i]
      BY <1>2, <2>2
    <3> QED
      BY <1>1, <2>2, <3>1
  <2> QED
    BY <2>1, <2>2
<1>4. \A i \in DOMAIN d : e[i].delivery <= t <=> d[i].delivery <= t
  BY <1>1, <1>3
<1>5. IsDay(e)
  <2>1. e \in Seq(Task)
    <3>1. e = [i \in 1..Len(d) |-> e[i]]
      BY <1>1, <1>2 DEF Postponed
    <3>2. \A i \in 1..Len(d) : e[i] \in Task
      BY <1>1, <1>3
    <3> QED
      BY <1>1, <3>1, <3>2, IsASeq
  <2>2. ASSUME NEW i \in DOMAIN d, NEW j \in DOMAIN d, i < j
        PROVE  e[i].delivery <= e[j].delivery
    <3>1. d[i].delivery <= d[j].delivery /\ d[i].delivery \in Nat /\ d[j].delivery \in Nat
      BY <1>1, <2>2 DEF IsDay
    <3>2. k \in Nat /\ i \in Nat /\ j \in Nat
      BY <1>1
    <3> QED
      BY <1>1, <1>3, <2>2, <3>1, <3>2
  <2> QED
    BY <1>2, <1>3, <2>1, <2>2 DEF IsDay
<1>6. Accepted(e, t) = Accepted(d, t)
  BY <1>2, <1>3 DEF Accepted
<1>7. Completed(e, t) = Completed(d, t)
  BY <1>2, <1>4 DEF Completed
<1>8. Visible(e, t) = Visible(d, t)
  <2>1. \A i \in DOMAIN d : e[i].delivery > t <=> d[i].delivery > t
    BY <1>1, <1>3
  <2> QED
    BY <1>2, <1>3, <2>1 DEF Visible
<1>9. \A i \in Completed(e, t) : d[i] = e[i]
  <2>1. \A i \in Completed(d, t) : i \in DOMAIN d /\ ~(d[i].delivery > t)
    BY <1>1 DEF Completed
  <2> QED
    BY <1>2, <1>7, <2>1
<1> DEFINE K == Accepted(d, t)
           q == [i \in K |-> i]
<1>10. \A i \in K : i \in DOMAIN d
  BY DEF Accepted
<1> HIDE DEF K
<1>11. q \in Bijection(K, K) /\ \A i \in K : q[i] = i
  BY DEF Bijection, Injection, Surjection, IsInjective
<1> HIDE DEF q
<1>12. Pairs(q, e, d, t)
  <2>1. q \in Bijection(Accepted(e, t), Accepted(d, t))
    BY <1>6, <1>11 DEF K
  <2>2. \A i \in K : /\ d[q[i]].accept = e[i].accept /\ d[q[i]].place = e[i].place
                     /\ i \in Visible(e, t) <=> q[i] \in Visible(d, t)
    BY <1>3, <1>8, <1>10, <1>11
  <2> QED
    BY <1>6, <2>1, <2>2 DEF Pairs, K
<1>13. InOrder(e, d, t)
  <2>1. Visible(e, t) \subseteq K
    BY <1>8 DEF Visible, Accepted, K
  <2>2. \A i, j \in Visible(e, t) : i < j => q[i] < q[j]
    BY <1>11, <2>1
  <2> QED
    BY <1>12, <2>2 DEF InOrder
<1> QED
  BY <1>5, <1>6, <1>7, <1>9, <1>12, <1>13 DEF LookAlike

\* A day that differs after t only in the times of its deliveries and the tasks still
\* to be accepted has the same features.
LEMMA LaterAlike ==
  ASSUME NEW d, IsDay(d), NEW t \in Nat, Completed(d, t) # {}, NEW e \in LaterThan(d, t)
  PROVE  Features(e, t) = Features(d, t)
<1>1. ASSUME NEW k \in DOMAIN d, NEW s \in Delays, NEW f, f = Postponed(d, t, k, s)
      PROVE  /\ IsDay(f) /\ Completed(f, t) # {} /\ Accepted(f, t) = Accepted(d, t)
             /\ Features(f, t) = Features(d, t)
  <2>1. /\ IsDay(f) /\ LookAlike(f, d, t) /\ InOrder(f, d, t)
        /\ Accepted(f, t) = Accepted(d, t) /\ Completed(f, t) = Completed(d, t)
    BY <1>1, PostponedAlike
  <2> QED
    BY <2>1, KnownTasksDecide
<1>2. ASSUME NEW k \in DOMAIN d, NEW s \in Delays, NEW f, f = Postponed(d, t, k, s),
             NEW l \in Listings(d, t)
      PROVE  Features(Listed(f, l), t) = Features(f, t)
  <2>1. IsDay(f) /\ Completed(f, t) # {} /\ l \in Listings(f, t)
    BY <1>1, <1>2 DEF Listings
  <2> QED
    BY <2>1, LaterIgnored
<1>3. \/ \E k \in DOMAIN d, s \in Delays : e = Postponed(d, t, k, s)
      \/ \E k \in DOMAIN d, s \in Delays, l \in Listings(d, t) :
           e = Listed(Postponed(d, t, k, s), l)
  BY DEF LaterThan
<1> QED
  BY <1>1, <1>2, <1>3

\* And so has one whose visible tasks come in another order, but for the walk.
LEMMA SameUntilAlike ==
  ASSUME NEW d, IsDay(d), NEW t \in Nat, Completed(d, t) # {}, NEW e \in SameUntil(d, t)
  PROVE  AllButWalk(Features(e, t), Features(d, t))
<1>1. PICK p \in Bijection(Visible(d, t), Visible(d, t)) : e \in LaterThan(Reordered(d, p), t)
  BY DEF SameUntil
<1>2. PICK f : f = Reordered(d, p)
  OBVIOUS
<1>3. IsDay(f) /\ LookAlike(f, d, t) /\ Completed(f, t) # {}
  BY <1>2, ReorderedAlike
<1>4. AllButWalk(Features(f, t), Features(d, t))
  BY <1>3, KnownTasksDecide
<1>5. Features(e, t) = Features(f, t)
  BY <1>1, <1>2, <1>3, LaterAlike
<1> QED
  BY <1>4, <1>5

\* TimesUnseen: no feature of a snapshot, the nearest-neighbour path included, depends
\* on how late the remaining deliveries come or on the tasks accepted after its query
\* time, for all days, places, strides, delays and builders.
THEOREM TimesAlwaysUnseen == DaySpec => []TimesUnseen
<1>1. Described => TimesUnseen
  <2> SUFFICES ASSUME Described, snapshot # NoSnapshot,
                      NEW e \in LaterThan(day, snapshot.query)
               PROVE  Features(e, snapshot.query) = snapshot.features
    BY DEF TimesUnseen
  <2> QED
    BY DescribedDay, LaterAlike
<1> QED
  BY <1>1, DescribedInvariant, PTL

\* OthersFromPast: nor does any but remaining_workload depend on the order in which
\* the visible tasks are delivered.
THEOREM OthersAlwaysFromPast == DaySpec => []OthersFromPast
<1>1. Described => OthersFromPast
  <2> SUFFICES ASSUME Described, snapshot # NoSnapshot,
                      NEW e \in SameUntil(day, snapshot.query)
               PROVE  AllButWalk(Features(e, snapshot.query), snapshot.features)
    BY DEF OthersFromPast
  <2> QED
    BY DescribedDay, SameUntilAlike
<1> QED
  BY <1>1, DescribedInvariant, PTL
=============================================================================

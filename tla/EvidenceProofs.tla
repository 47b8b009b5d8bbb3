---------------------------- MODULE EvidenceProofs ----------------------------
(***************************************************************************)
(* The data that a claim rests on: the cohorts stay apart, for all sets of *)
(* days, hash ranks and quotas; within a cohort every fit, choice and      *)
(* prediction rests on the past alone, for every number of dates, every    *)
(* choice of fractions and every number of cross-fitting blocks.           *)
(***************************************************************************)
EXTENDS Cohorts, Experiment, FiniteSetTheorems, TLAPS

(***************************************************************************)
(* Cohorts.  What makes the development cohort safe is the lemma           *)
(* ConfirmatoryCovered: the days the confirmatory script really took,      *)
(* whatever part of the pilot it excluded, are either the pilot's or among *)
(* those the V2 scripts recompute, because a smaller pool can only move a  *)
(* day forward in the order of its city.                                   *)
(***************************************************************************)

(* What a cohort is made of: days of the selection of its script. *)
Made(s, c) ==
  c # NoFile =>
    /\ s = "pilot" => c.days \subseteq PilotSel(c.total)
    /\ s = "confirmatory" => c.days \subseteq Taken(CourierDays \ c.prior, "confirmatory", c.total)
    /\ s = "development" => c.days \subseteq DevelopmentSel(c.total)
    /\ s = "final" => c.days \subseteq FinalSel(c.total)

OriginInv ==
  /\ \A s \in Stages : Made(s, csv[s]) /\ Made(s, job[s])
  /\ Made("final", evaluated)

LEMMA QuotaIsInt == ASSUME NEW c \in Cities, NEW total \in Nat
                    PROVE  Quota(c, total) \in Int
  BY CohortsAssumption DEF Quota

LEMMA SelectionsFromDays ==
  ASSUME NEW total
  PROVE  /\ PilotSel(total) \subseteq CourierDays /\ DevelopmentSel(total) \subseteq CourierDays
         /\ FinalSel(total) \subseteq CourierDays
         /\ \A pool, s : Taken(pool, s, total) \subseteq pool
  BY DEF PilotSel, DevelopmentSel, FinalSel, DevelopmentPool, FinalPool, ConfirmatoryPool, Taken

(* A day outside the pool that was taken away keeps its place, or moves forward. *)
LEMMA TakenFromLess ==
  ASSUME NEW big, NEW small \in SUBSET big, big \subseteq CourierDays, NEW s, NEW total \in Nat
  PROVE  Taken(big, s, total) \cap small \subseteq Taken(small, s, total)
<1> SUFFICES ASSUME NEW d \in Taken(big, s, total), d \in small
             PROVE  d \in Taken(small, s, total)
  OBVIOUS
<1>1. IsFiniteSet(Ahead(d, big, s)) /\ Ahead(d, small, s) \subseteq Ahead(d, big, s)
  <2>1. IsFiniteSet(big)
    BY CohortsAssumption, FS_Subset
  <2>2. Ahead(d, big, s) \subseteq big /\ Ahead(d, small, s) \subseteq Ahead(d, big, s)
    BY DEF Ahead
  <2> QED
    BY <2>1, <2>2, FS_Subset
<1>2. /\ Cardinality(Ahead(d, big, s)) \in Nat /\ Cardinality(Ahead(d, small, s)) \in Nat
      /\ Cardinality(Ahead(d, small, s)) <= Cardinality(Ahead(d, big, s))
  BY <1>1, FS_Subset, FS_CardinalityType
<1>3. Quota(d[1], total) \in Int
  <2>1. d[1] \in Cities
    BY CohortsAssumption
  <2> QED
    BY <2>1, QuotaIsInt
<1>4. Cardinality(Ahead(d, big, s)) < Quota(d[1], total)
  BY DEF Taken
<1>5. Cardinality(Ahead(d, small, s)) < Quota(d[1], total)
  BY <1>2, <1>3, <1>4
<1> QED
  BY <1>5 DEF Taken

LEMMA ConfirmatoryCovered ==
  ASSUME NEW total \in Nat, NEW prior \in SUBSET PilotSel(total)
  PROVE  Taken(CourierDays \ prior, "confirmatory", total)
           \subseteq PilotSel(total) \cup ConfirmatorySel(total)
<1>1. /\ ConfirmatoryPool(total) \subseteq CourierDays \ prior
      /\ Taken(CourierDays \ prior, "confirmatory", total) \subseteq CourierDays
  BY SelectionsFromDays DEF ConfirmatoryPool
<1>2. Taken(CourierDays \ prior, "confirmatory", total) \cap ConfirmatoryPool(total)
        \subseteq Taken(ConfirmatoryPool(total), "confirmatory", total)
  BY <1>1, TakenFromLess
<1> QED
  BY <1>1, <1>2 DEF ConfirmatorySel, ConfirmatoryPool

(* The selections the V2 scripts compute have no day in common. *)
LEMMA SelectionsApart ==
  ASSUME NEW total
  PROVE  /\ (PilotSel(total) \cup ConfirmatorySel(total)) \cap DevelopmentSel(total) = {}
         /\ (PilotSel(total) \cup ConfirmatorySel(total) \cup DevelopmentSel(total))
              \cap FinalSel(total) = {}
<1>1. /\ ConfirmatorySel(total) \subseteq ConfirmatoryPool(total)
      /\ DevelopmentSel(total) \subseteq DevelopmentPool(total)
      /\ FinalSel(total) \subseteq FinalPool(total)
  BY SelectionsFromDays DEF ConfirmatorySel, DevelopmentSel, FinalSel
<1> QED
  BY <1>1 DEF ConfirmatoryPool, DevelopmentPool, FinalPool

(* The ranks never change, so neither do the selections. *)
LEMMA SelectionsStay ==
  ASSUME UNCHANGED rank
  PROVE  /\ \A pool, s, total : Taken(pool, s, total)' = Taken(pool, s, total)
         /\ \A total : /\ PilotSel(total)' = PilotSel(total)
                       /\ DevelopmentSel(total)' = DevelopmentSel(total)
                       /\ FinalSel(total)' = FinalSel(total)
  BY DEF PilotSel, DevelopmentSel, FinalSel, FinalPool, DevelopmentPool,
         ConfirmatoryPool, ConfirmatorySel, Taken, Ahead

LEMMA MadeStays == ASSUME UNCHANGED rank
                   PROVE  \A s, c : Made(s, c)' <=> Made(s, c)
<1> SUFFICES ASSUME NEW s, NEW c
             PROVE  Made(s, c)' <=> Made(s, c)
  OBVIOUS
<1>1. /\ PilotSel(c.total)' = PilotSel(c.total)
      /\ Taken(CourierDays \ c.prior, "confirmatory", c.total)'
           = Taken(CourierDays \ c.prior, "confirmatory", c.total)
      /\ DevelopmentSel(c.total)' = DevelopmentSel(c.total)
      /\ FinalSel(c.total)' = FinalSel(c.total)
  BY SelectionsStay
<1> QED
  BY <1>1 DEF Made

LEMMA NothingMade == \A s : Made(s, NoFile)
  BY DEF Made

-----------------------------------------------------------------------------
LEMMA StartTyped ==
  ASSUME CohortsTypeOK, NEW s \in Stages, NEW total \in Totals, NEW sel \in SUBSET CourierDays,
         NEW prior \in SUBSET CourierDays,
         Ready(s, total), Start(s, total, sel, prior)
  PROVE  CohortsTypeOK'
<1>1. [days |-> sel \cap kept[s], total |-> total, whole |-> TRUE,
       prior |-> prior] \in Cohort
  BY DEF Cohort
<1>2. job' \in [Stages -> Cohort \cup {NoFile}]
  BY <1>1 DEF Start, CohortsTypeOK
<1>3. saved' \subseteq {t \in Stages : job'[t] # NoFile}
  <2>1. s \notin saved
    BY DEF CohortsTypeOK, Ready
  <2> QED
    BY <2>1 DEF CohortsTypeOK, Start
<1>4. starts' \in 0 .. MaxStarts
  BY JobsAssumption DEF CohortsTypeOK, Start, Ready
<1> QED
  BY <1>2, <1>3, <1>4 DEF CohortsTypeOK, Start, benchmark

(* Type correctness: every cohort, job and report the scripts leave has its type. *)
THEOREM CohortsTyped == CohortsSpec => []CohortsTypeOK
<1>1. CohortsInit => CohortsTypeOK
  <2> SUFFICES ASSUME CohortsInit
               PROVE  CohortsTypeOK
    OBVIOUS
  <2>1. starts \in 0 .. MaxStarts /\ deaths \in 0 .. MaxDeaths
    BY JobsAssumption DEF CohortsInit
  <2> QED
    BY <2>1 DEF CohortsInit, CohortsTypeOK
<1>2. CohortsTypeOK /\ [CohortsNext]_cohortsVars => CohortsTypeOK'
  <2> SUFFICES ASSUME CohortsTypeOK, [CohortsNext]_cohortsVars
               PROVE  CohortsTypeOK'
    OBVIOUS
  <2>1. ASSUME NEW total \in Totals, StartPilot(total)
        PROVE  CohortsTypeOK'
    BY <2>1, StartTyped, SelectionsFromDays DEF StartPilot, Stages
  <2>2. ASSUME NEW total \in Totals, StartDevelopment(total)
        PROVE  CohortsTypeOK'
    BY <2>2, StartTyped, SelectionsFromDays DEF StartDevelopment, Stages
  <2>3. ASSUME NEW total \in Totals, StartFinal(total)
        PROVE  CohortsTypeOK'
    BY <2>3, StartTyped, SelectionsFromDays DEF StartFinal, Stages
  <2>4. ASSUME NEW total \in Totals, NEW exclude \in BOOLEAN, StartConfirmatory(total, exclude)
        PROVE  CohortsTypeOK'
    <3> DEFINE prior == IF exclude THEN csv["pilot"].days ELSE {}
    <3>1. prior \in SUBSET CourierDays
      BY <2>4 DEF StartConfirmatory, CohortsTypeOK, Cohort, Stages
    <3>2. Taken(CourierDays \ prior, "confirmatory", total) \in SUBSET CourierDays
      BY SelectionsFromDays
    <3>3. /\ Ready("confirmatory", total)
          /\ Start("confirmatory", total, Taken(CourierDays \ prior, "confirmatory", total), prior)
      BY <2>4 DEF StartConfirmatory
    <3> HIDE DEF prior
    <3> QED
      BY <3>1, <3>2, <3>3, StartTyped DEF Stages
  <2>5. ASSUME NEW s \in Stages, Save(s)
        PROVE  CohortsTypeOK'
    BY <2>5 DEF Save, CohortsTypeOK, counters, benchmark
  <2>6. ASSUME NEW s \in Stages, WriteReport(s)
        PROVE  CohortsTypeOK'
    BY <2>6 DEF WriteReport, CohortsTypeOK, counters, benchmark
  <2>7. ASSUME NEW s \in Stages, Die(s)
        PROVE  CohortsTypeOK'
    <3>1. csv' \in [Stages -> Cohort \cup {NoFile}]
      <4>1. job[s] \in Cohort
        BY <2>7 DEF Die, CohortsTypeOK
      <4>2. \A part \in SUBSET job[s].days : Truncated(job[s], part) \in Cohort
        BY <4>1 DEF Cohort, Truncated
      <4> QED
        BY <2>7, <4>2 DEF Die, CohortsTypeOK
    <3>2. deaths' \in 0 .. MaxDeaths
      BY <2>7, JobsAssumption DEF Die, CohortsTypeOK
    <3>3. saved' \subseteq {t \in Stages : job'[t] # NoFile}
      BY <2>7 DEF Die, CohortsTypeOK
    <3>4. job' \in [Stages -> Cohort \cup {NoFile}]
      BY <2>7 DEF Die, CohortsTypeOK
    <3> QED
      BY <2>7, <3>1, <3>2, <3>3, <3>4 DEF Die, CohortsTypeOK, benchmark
  <2>8. ASSUME NEW s \in Stages, Remove(s)
        PROVE  CohortsTypeOK'
    BY <2>8 DEF Remove, CohortsTypeOK, counters, benchmark
  <2>9. CASE Evaluate
    BY <2>9 DEF Evaluate, CohortsTypeOK, counters, Stages
  <2>10. CASE UNCHANGED cohortsVars
    BY <2>10 DEF cohortsVars, CohortsTypeOK, benchmark
  <2> QED
    BY <2>1, <2>2, <2>3, <2>4, <2>5, <2>6, <2>7, <2>8, <2>9, <2>10 DEF CohortsNext
<1> QED
  BY <1>1, <1>2, PTL DEF CohortsSpec

-----------------------------------------------------------------------------
(* A script that starts takes days of its selection and touches nothing else. *)
LEMMA StartMade ==
  ASSUME CohortsTypeOK, OriginInv, NEW s \in Stages, NEW total, NEW sel, NEW prior,
         Start(s, total, sel, prior),
         Made(s, [days |-> sel \cap kept[s], total |-> total, whole |-> TRUE,
                  prior |-> prior])
  PROVE  OriginInv'
<1> DEFINE c == [days |-> sel \cap kept[s], total |-> total, whole |-> TRUE,
                 prior |-> prior]
<1>1. UNCHANGED <<rank, kept, csv, evaluated>> /\ job' = [job EXCEPT ![s] = c]
  BY DEF Start, benchmark
<1>2. Made(s, c)
  OBVIOUS
<1>3. job'[s] = c /\ \A t \in Stages \ {s} : job'[t] = job[t]
  BY <1>1 DEF CohortsTypeOK
<1> HIDE DEF c
<1>4. Made(s, job[s])'
  BY <1>1, <1>2, <1>3, MadeStays
<1>5. \A t \in Stages \ {s} : Made(t, job[t])'
  BY <1>1, <1>3, MadeStays, NothingMade DEF OriginInv
<1>6. \A t \in Stages : Made(t, csv[t])'
  BY <1>1, MadeStays, NothingMade DEF OriginInv
<1>7. Made("final", evaluated)'
  BY <1>1, MadeStays, NothingMade DEF OriginInv
<1> QED
  BY <1>4, <1>5, <1>6, <1>7 DEF OriginInv

THEOREM OriginKnown == CohortsSpec => []OriginInv
<1>1. CohortsInit => OriginInv
  BY DEF CohortsInit, OriginInv, Made, Stages
<1>2. CohortsTypeOK /\ OriginInv /\ [CohortsNext]_cohortsVars => OriginInv'
  <2> SUFFICES ASSUME CohortsTypeOK, OriginInv, [CohortsNext]_cohortsVars
               PROVE  OriginInv'
    OBVIOUS
  <2>1. ASSUME NEW total \in Totals, StartPilot(total)
        PROVE  OriginInv'
    BY <2>1, StartMade DEF StartPilot, Made, Stages
  <2>2. ASSUME NEW total \in Totals, StartDevelopment(total)
        PROVE  OriginInv'
    BY <2>2, StartMade DEF StartDevelopment, Made, Stages
  <2>3. ASSUME NEW total \in Totals, StartFinal(total)
        PROVE  OriginInv'
    BY <2>3, StartMade DEF StartFinal, Made, Stages
  <2>4. ASSUME NEW total \in Totals, NEW exclude \in BOOLEAN, StartConfirmatory(total, exclude)
        PROVE  OriginInv'
    <3> DEFINE prior == IF exclude THEN csv["pilot"].days ELSE {}
    <3>1. Start("confirmatory", total, Taken(CourierDays \ prior, "confirmatory", total), prior)
      BY <2>4 DEF StartConfirmatory
    <3> HIDE DEF prior
    <3> QED
      BY <3>1, StartMade DEF Made, Stages
  <2>5. ASSUME NEW s \in Stages, Save(s)
        PROVE  OriginInv'
    <3>1. UNCHANGED <<rank, job, evaluated>>
          /\ csv'[s] = job[s] /\ \A t \in Stages \ {s} : csv'[t] = csv[t]
      BY <2>5 DEF Save, CohortsTypeOK, benchmark
    <3>2. \A t \in Stages : Made(t, csv[t])' /\ Made(t, job[t])'
      BY <3>1, MadeStays, NothingMade DEF OriginInv
    <3>3. Made("final", evaluated)'
      BY <3>1, MadeStays, NothingMade DEF OriginInv
    <3> QED
      BY <3>2, <3>3 DEF OriginInv
  <2>6. ASSUME NEW s \in Stages, WriteReport(s)
        PROVE  OriginInv'
    <3>1. UNCHANGED <<rank, csv, evaluated>>
          /\ \A t \in Stages : job'[t] \in {job[t], NoFile}
      BY <2>6 DEF WriteReport, CohortsTypeOK, benchmark
    <3>2. \A t \in Stages : Made(t, csv[t])' /\ Made(t, job[t])'
      BY <3>1, MadeStays, NothingMade DEF OriginInv
    <3>3. Made("final", evaluated)'
      BY <3>1, MadeStays, NothingMade DEF OriginInv
    <3> QED
      BY <3>2, <3>3 DEF OriginInv
  <2>7. ASSUME NEW s \in Stages, Die(s)
        PROVE  OriginInv'
    <3>1. UNCHANGED <<rank, evaluated>>
          /\ \A t \in Stages : job'[t] \in {job[t], NoFile}
      BY <2>7 DEF Die, CohortsTypeOK, benchmark
    <3>2. \A t \in Stages : Made(t, job[t])'
      BY <3>1, MadeStays, NothingMade DEF OriginInv
    <3>3. \A t \in Stages : Made(t, csv[t])'
      <4>1. CASE csv' = csv
        BY <4>1, <3>1, MadeStays, NothingMade DEF OriginInv
      <4>2. CASE \E part \in SUBSET job[s].days :
                   csv' = [csv EXCEPT ![s] = Truncated(job[s], part)]
        <5>1. PICK part \in SUBSET job[s].days :
                   csv' = [csv EXCEPT ![s] = Truncated(job[s], part)]
          BY <4>2
        <5>2. csv'[s] = Truncated(job[s], part) /\ \A t \in Stages \ {s} : csv'[t] = csv[t]
          BY <5>1 DEF CohortsTypeOK
        <5>3. /\ csv'[s].days \subseteq job[s].days /\ csv'[s].total = job[s].total
              /\ csv'[s].prior = job[s].prior
          BY <5>2 DEF Truncated
        <5>4. Made(s, job[s]) /\ job[s] # NoFile
          BY <2>7 DEF Die, OriginInv
        <5>5. Made(s, csv[s])'
          BY <5>3, <5>4, <3>1, SelectionsStay DEF Made
        <5>6. \A t \in Stages \ {s} : Made(t, csv[t])'
          BY <5>2, <3>1, MadeStays, NothingMade DEF OriginInv
        <5> QED
          BY <5>5, <5>6
      <4> QED
        BY <2>7, <4>1, <4>2 DEF Die
    <3>4. Made("final", evaluated)'
      BY <3>1, MadeStays, NothingMade DEF OriginInv
    <3> QED
      BY <3>2, <3>3, <3>4 DEF OriginInv
  <2>8. ASSUME NEW s \in Stages, Remove(s)
        PROVE  OriginInv'
    <3>1. UNCHANGED <<rank, job, evaluated>>
          /\ \A t \in Stages : csv'[t] \in {csv[t], NoFile}
      BY <2>8 DEF Remove, CohortsTypeOK, benchmark
    <3>2. \A t \in Stages : Made(t, csv[t])' /\ Made(t, job[t])'
      BY <3>1, MadeStays, NothingMade DEF OriginInv
    <3>3. Made("final", evaluated)'
      BY <3>1, MadeStays, NothingMade DEF OriginInv
    <3> QED
      BY <3>2, <3>3 DEF OriginInv
  <2>9. ASSUME Evaluate \/ UNCHANGED cohortsVars
        PROVE  OriginInv'
    <3>1. UNCHANGED <<rank, job, csv>> /\ evaluated' \in {csv["final"], evaluated}
      BY <2>9 DEF Evaluate, cohortsVars, benchmark
    <3>2. \A t \in Stages : Made(t, csv[t])' /\ Made(t, job[t])'
      BY <3>1, MadeStays, NothingMade DEF OriginInv
    <3>3. Made("final", evaluated)'
      BY <3>1, MadeStays DEF OriginInv, Stages
    <3> QED
      BY <3>2, <3>3 DEF OriginInv
  <2> QED
    BY <2>1, <2>2, <2>3, <2>4, <2>5, <2>6, <2>7, <2>8, <2>9 DEF CohortsNext
<1> QED
  BY <1>1, <1>2, CohortsTyped, PTL DEF CohortsSpec

(* Isolation follows from the origin of every cohort. *)
LEMMA MadeApart ==
  ASSUME NEW c \in Cohort, NEW d \in Cohort, c # NoFile, d # NoFile, c.total = d.total,
         FollowsPilot(c),
         \/ (Made("pilot", c) \/ Made("confirmatory", c)) /\ Made("development", d)
         \/ (Made("pilot", c) \/ Made("confirmatory", c) \/ Made("development", c))
               /\ Made("final", d)
  PROVE  c.days \cap d.days = {}
<1>1. c.total \in Nat
  BY CohortsAssumption DEF Cohort
<1>2. Taken(CourierDays \ c.prior, "confirmatory", c.total)
        \subseteq PilotSel(c.total) \cup ConfirmatorySel(c.total)
  BY <1>1, ConfirmatoryCovered DEF FollowsPilot
<1> QED
  BY <1>2, SelectionsApart DEF Made

(* The cohorts of one size stay apart in every behaviour of the scripts, and *)
(* what the final benchmark ran on stays apart from all that is made later.  *)
THEOREM CohortsIsolated == CohortsSpec => []Isolated
<1>1. CohortsTypeOK /\ OriginInv => Isolated
  <2> SUFFICES ASSUME CohortsTypeOK, OriginInv
               PROVE  Isolated
    OBVIOUS
  <2>1. \A s \in Stages : csv[s] \in Cohort \cup {NoFile} /\ evaluated \in Cohort \cup {NoFile}
    BY DEF CohortsTypeOK
  <2>2. \A s \in Stages : Made(s, csv[s]) /\ Made("final", evaluated)
    BY DEF OriginInv
  <2>3. ASSUME NEW s \in {"pilot", "confirmatory"}
        PROVE  Apart(csv[s], csv["development"])
    BY <2>1, <2>2, MadeApart DEF Apart, Overlap, Stages
  <2>4. ASSUME NEW s \in Stages \ {"final"}
        PROVE  Apart(csv[s], csv["final"]) /\ Apart(csv[s], evaluated)
    BY <2>1, <2>2, MadeApart DEF Apart, Overlap, Stages
  <2> QED
    BY <2>3, <2>4 DEF Isolated
<1> QED
  BY <1>1, CohortsTyped, OriginKnown, PTL

(* What the report vouches for, when the runner has removed the files of the    *)
(* final cohort before its script started.                                      *)
Vouched ==
  /\ report # NoFile => csv["final"] = report /\ job["final"] = NoFile
  /\ "final" \in saved => csv["final"] = job["final"]
  /\ "final" \in cleared => report = NoFile /\ job["final"] = NoFile
  /\ evaluated = vouched

(* Made by its runner, which removes the report, the final cohort the benchmark *)
(* runs on is the one whose normalisation reported PASS, whatever is killed,    *)
(* rerun or run beside it.                                                      *)
THEOREM EvaluatedReported ==
  ASSUME "final" \in ByRunner, "report" \notin Stuck
  PROVE  CohortsSpec => []EvaluatedAsReported
<1>1. CohortsInit => Vouched
  BY DEF CohortsInit, Vouched
<1>2. CohortsTypeOK /\ Vouched /\ [CohortsNext]_cohortsVars => Vouched'
  <2> SUFFICES ASSUME CohortsTypeOK, Vouched, [CohortsNext]_cohortsVars
               PROVE  Vouched'
    OBVIOUS
  <2> USE DEF benchmark, Stages
  <2>1. ASSUME NEW s \in Stages, NEW total, NEW sel, NEW prior,
               Ready(s, total), Start(s, total, sel, prior)
        PROVE  Vouched'
    BY <2>1 DEF Ready, Start, Vouched, CohortsTypeOK
  <2>2. ASSUME NEW s \in Stages, Save(s)
        PROVE  Vouched'
    BY <2>2 DEF Save, Vouched, CohortsTypeOK
  <2>3. ASSUME NEW s \in Stages, WriteReport(s)
        PROVE  Vouched'
    BY <2>3 DEF WriteReport, Vouched, CohortsTypeOK
  <2>4. ASSUME NEW s \in Stages, Die(s)
        PROVE  Vouched'
    BY <2>4 DEF Die, Vouched, CohortsTypeOK
  <2>5. ASSUME NEW s \in Stages, Remove(s)
        PROVE  Vouched'
    BY <2>5 DEF Remove, Vouched, CohortsTypeOK
  <2>6. CASE Evaluate \/ UNCHANGED cohortsVars
    BY <2>6 DEF Evaluate, cohortsVars, Vouched
  <2> QED
    BY <2>1, <2>2, <2>3, <2>4, <2>5, <2>6
    DEF CohortsNext, StartPilot, StartConfirmatory, StartDevelopment, StartFinal
<1>3. Vouched => EvaluatedAsReported
  BY DEF Vouched, EvaluatedAsReported
<1> QED
  BY <1>1, <1>2, <1>3, CohortsTyped, PTL DEF CohortsSpec

-----------------------------------------------------------------------------
(***************************************************************************)
(* Experiment.  The invariant bounds the dates behind everything that is   *)
(* fitted by the last cut before it is used.                               *)
(***************************************************************************)

ExperimentStages ==
  {"split", "cross_fit", "oof", "fit", "choose", "calibrate", "test", "decide", "claim",
   "end", "error"}

Types ==
  /\ program \in Programs /\ stage \in ExperimentStages
  /\ dates \in Nat /\ splits \in Nat /\ block \in Nat
  /\ cuts \in Int \X Int \X Int
  /\ basis \in [1..dates -> SUBSET Int]

CutsRight ==
  stage \notin {"split", "error"} =>
    /\ 0 < cuts[1] /\ cuts[1] < cuts[2]
    /\ cuts[2] < cuts[3] /\ cuts[3] < dates

BasisPast == \A d \in 1..dates : basis[d] \subseteq 1..(d - 1)

\* Before calibration nothing depends on a date after the second cut, before the
\* test nothing on a date after the third.
FittedPast ==
  /\ stage \notin {"split", "error"} =>
       /\ rcot \subseteq 1..cuts[2] /\ gate \subseteq 1..cuts[2]
       /\ base \subseteq 1..cuts[3] /\ chosen \subseteq 1..cuts[3]
       /\ stage \in {"cross_fit", "oof", "fit", "choose", "calibrate"} =>
            base \subseteq 1..cuts[2] /\ chosen \subseteq 1..cuts[2]
  /\ stage = "split" => rcot = {} /\ gate = {} /\ base = {} /\ chosen = {}

Past(p) ==
  \A d \in p.on : \A e \in p.by : e < d \/ (d \in Validation /\ e \in Validation)
MadePast == /\ \A p \in made : Past(p)
            /\ stage = "split" => made = {}

OutcomeRight ==
  /\ stage \in {"split", "cross_fit", "oof", "fit", "choose", "error"} => outcome = Undecided
  /\ stage \in {"calibrate", "test", "decide", "claim"} =>
       /\ outcome.kind = "choice" /\ outcome.challenger \in BOOLEAN
       /\ outcome.challenger /\ program \in {"catboost", "v2_final"} => outcome.tail # NoTail
  /\ ClaimSawTail

Dated == Types /\ CutsRight /\ BasisPast /\ FittedPast /\ MadePast /\ OutcomeRight

-----------------------------------------------------------------------------
LEMMA MinMax == ASSUME NEW a \in Int, NEW b \in Int
                PROVE  /\ Greater(a, b) \in Int /\ Greater(a, b) >= a /\ Greater(a, b) >= b
                       /\ Greater(a, b) \in {a, b}
                       /\ Lesser(a, b) \in Int /\ Lesser(a, b) <= a /\ Lesser(a, b) <= b
                       /\ Lesser(a, b) \in {a, b}
  BY DEF Greater, Lesser

(* A comparison with nan is false. *)
LEMMA WithinSawTail == ASSUME NEW t, NEW percent, Within(t, percent)
                       PROVE  t # NoTail
  BY DEF Within

(* The m blocks lie inside the training dates, one after another. *)
LEMMA BlocksInTrain ==
  ASSUME NEW n \in Nat, cuts[1] = n, NEW m \in Nat \ {0}, NEW b \in Nat
  PROVE  /\ BlockStart(m, b) \in Nat
         /\ b <= m => BlockStart(m, b) <= n
<1> DEFINE q == n \div m
           r == n % m
<1>1. q \in Nat /\ r \in Nat /\ r < m /\ n = m * q + r
  OBVIOUS
<1>2. b * q \in Nat /\ m * q \in Nat
  BY <1>1
<1>3. BlockStart(m, b) = b * q + Lesser(b, r)
  BY DEF BlockStart
<1>4. Lesser(b, r) \in Nat /\ Lesser(b, r) <= r
  BY <1>1 DEF Lesser
<1>5. b <= m => b * q <= m * q
  <2> SUFFICES ASSUME b <= m PROVE b * q <= m * q
    OBVIOUS
  <2>1. PICK k \in Nat : m = b + k
    <3>1. m - b \in Nat /\ m = b + (m - b)
      OBVIOUS
    <3> QED
      BY <3>1
  <2>2. m * q = b * q + k * q /\ k * q \in Nat
    BY <2>1, <1>1
  <2> HIDE DEF q
  <2> QED
    BY <2>2, <1>2
<1> HIDE DEF q, r
<1> QED
  BY <1>1, <1>2, <1>3, <1>4, <1>5

(* Rows of the first k dates depend on the first k dates only. *)
LEMMA LearnsPast ==
  ASSUME dates \in Nat, BasisPast, NEW k \in Int, k <= dates, NEW D \in SUBSET (1..k)
  PROVE  Learns(D) \subseteq 1..k
<1> SUFFICES ASSUME NEW e \in Learns(D), e \notin D
             PROVE  e \in 1..k
  OBVIOUS
<1>1. PICK d \in D : e \in basis[d]
  BY DEF Learns
<1>2. d \in 1..dates /\ e \in 1..(d - 1)
  BY <1>1 DEF BasisPast
<1> QED
  BY <1>2

(* What the partitions are once the cuts are right. *)
LEMMA PartitionsAre ==
  ASSUME Types, 0 < cuts[1], cuts[1] < cuts[2], cuts[2] < cuts[3], cuts[3] < dates
  PROVE  /\ cuts[1] \in Int /\ cuts[2] \in Int /\ cuts[3] \in Int
         /\ Train = 1..cuts[1]
         /\ Validation = (cuts[1] + 1)..cuts[2]
         /\ Calibration = (cuts[2] + 1)..cuts[3]
         /\ Test = (cuts[3] + 1)..dates
  BY DEF Types, Train, Validation, Calibration, Test, Lesser

(* After an exception nothing but the stage has changed. *)
LEMMA RaiseKeeps == ASSUME Dated, Raise, outcome = Undecided
                    PROVE  Dated'
<1> USE DEF Raise, inputs, fitted
<1>1. Types'
  BY DEF Dated, Types, ExperimentStages
<1>2. BasisPast' /\ MadePast'
  BY DEF Dated, BasisPast, MadePast, Past, Validation
<1>3. CutsRight' /\ FittedPast'
  BY DEF CutsRight, FittedPast
<1>4. OutcomeRight'
  BY DEF OutcomeRight, ClaimSawTail, Undecided
<1> QED
  BY <1>1, <1>2, <1>3, <1>4 DEF Dated

LEMMA SplitKeeps == ASSUME Dated, Split PROVE Dated'
<1> USE DEF Split, inputs, fitted
<1>1. PICK k1 \in 0..dates, k2 \in 0..dates, k3 \in 0..dates :
        NoneEmpty(Cuts(k1, k2, k3)) /\ cuts' = Cuts(k1, k2, k3)
  BY DEF DateCounts
<1>2. /\ cuts' \in Int \X Int \X Int
      /\ 0 < cuts'[1] /\ cuts'[1] < cuts'[2] /\ cuts'[2] < cuts'[3] /\ cuts'[3] < dates
  <2> DEFINE c1 == Greater(1, k1)
             c2 == Greater(c1 + 1, k2)
             c3 == Lesser(Greater(c2 + 1, k3), dates - 1)
  <2>1. dates \in Int /\ cuts' = <<c1, c2, c3>>
    BY <1>1 DEF Dated, Types, Cuts
  <2>2. k1 \in Int /\ k2 \in Int /\ k3 \in Int
    BY ONLY <1>1, <2>1
  <2>3. c1 \in Int /\ c1 >= 1
    BY ONLY <2>2 DEF Greater
  <2>4. c2 \in Int /\ c2 >= c1 + 1
    <3> HIDE DEF c1
    <3>1. c1 + 1 \in Int
      BY ONLY <2>3
    <3> QED
      BY ONLY <2>2, <3>1, MinMax
  <2>5. c3 \in Int
    <3> HIDE DEF c2
    <3>1. c2 + 1 \in Int /\ dates - 1 \in Int
      BY ONLY <2>1, <2>4
    <3>2. Greater(c2 + 1, k3) \in Int
      BY ONLY <2>2, <3>1, MinMax
    <3> QED
      BY ONLY <3>1, <3>2, MinMax
  <2>6. NoneEmpty(<<c1, c2, c3>>)
    BY <1>1, <2>1
  <2> HIDE DEF c1, c2, c3
  <2>7. c1 < Lesser(c2, dates) /\ c2 < c3 /\ c3 < dates
    BY <2>6 DEF NoneEmpty
  <2>8. cuts'[1] = c1 /\ cuts'[2] = c2 /\ cuts'[3] = c3 /\ cuts' \in Int \X Int \X Int
    BY <2>1, <2>3, <2>4, <2>5
  <2> QED
    BY <2>3, <2>4, <2>5, <2>7, <2>8
<1>3. Types'
  BY <1>2 DEF Dated, Types, ExperimentStages
<1>4. CutsRight' /\ BasisPast' /\ MadePast'
  BY <1>2 DEF Dated, CutsRight, BasisPast, MadePast, Past, Validation
<1>5. FittedPast'
  BY DEF Dated, FittedPast
<1>6. OutcomeRight'
  BY DEF Dated, OutcomeRight, ClaimSawTail, Undecided
<1> QED
  BY <1>3, <1>4, <1>5, <1>6 DEF Dated

LEMMA CrossFitKeeps == ASSUME Dated, CrossFit PROVE Dated'
<1> USE DEF CrossFit, inputs, fitted
<1>1. CrossFitSplits \in Nat \ {0} /\ cuts[1] \in Nat
  BY DEF Dated, Types, CrossFitSplits, Greater, Lesser
<1>2. BlockStart(CrossFitSplits, block) \in Nat
  BY <1>1, BlocksInTrain DEF Dated, Types
<1>3. basis' \in [1..dates -> SUBSET Int]
  BY <1>2 DEF Dated, Types, Earlier
<1>4. Types'
  BY <1>3 DEF Dated, Types, ExperimentStages
<1>5. BasisPast'
  <2> SUFFICES ASSUME NEW d \in 1..dates PROVE basis'[d] \subseteq 1..(d - 1)
    BY DEF BasisPast
  <2>1. CASE d \in Block(CrossFitSplits, block)
    <3>1. basis'[d] = 1..BlockStart(CrossFitSplits, block)
      BY <2>1 DEF Earlier
    <3>2. BlockStart(CrossFitSplits, block) + 1 <= d
      <4>1. BlockStart(CrossFitSplits, block + 1) \in Nat
        <5>1. block + 1 \in Nat
          BY DEF Dated, Types
        <5> QED
          BY <1>1, <5>1, BlocksInTrain
      <4> QED
        BY <2>1, <1>2, <4>1 DEF Block
    <3> QED
      BY <1>2, <3>1, <3>2
  <2>2. CASE d \notin Block(CrossFitSplits, block)
    BY <2>2 DEF Dated, BasisPast
  <2> QED
    BY <2>1, <2>2
<1>6. CutsRight' /\ FittedPast' /\ MadePast'
  BY DEF Dated, CutsRight, FittedPast, MadePast, Past, Validation
<1>7. OutcomeRight'
  BY DEF Dated, OutcomeRight, ClaimSawTail
<1> QED
  BY <1>4, <1>5, <1>6, <1>7 DEF Dated

LEMMA FitReferenceKeeps == ASSUME Dated, FitReference PROVE Dated'
<1> USE DEF FitReference, inputs, fitted
<1>1. /\ 0 < cuts[1] /\ cuts[1] < cuts[2] /\ cuts[2] < cuts[3] /\ cuts[3] < dates
      /\ Types
  BY DEF Dated, CutsRight
<1>2. Train = 1..cuts[1] /\ cuts[1] \in Int
  BY <1>1, PartitionsAre
<1>3. basis' \in [1..dates -> SUBSET Int]
  BY <1>2 DEF Dated, Types
<1>4. Types'
  BY <1>3 DEF Dated, Types, ExperimentStages
<1>5. BasisPast'
  <2> SUFFICES ASSUME NEW d \in 1..dates PROVE basis'[d] \subseteq 1..(d - 1)
    BY DEF BasisPast
  <2>1. CASE d \in Train
    BY <2>1 DEF Dated, BasisPast
  <2>2. CASE d \notin Train
    <3>1. basis'[d] = 1..cuts[1] /\ cuts[1] < d
      BY <2>2, <1>2
    <3> QED
      BY <3>1, <1>2
  <2> QED
    BY <2>1, <2>2
<1>6. CutsRight' /\ FittedPast' /\ MadePast'
  BY DEF Dated, CutsRight, FittedPast, MadePast, Past, Validation
<1>7. OutcomeRight'
  BY DEF Dated, OutcomeRight, ClaimSawTail
<1> QED
  BY <1>4, <1>5, <1>6, <1>7 DEF Dated

LEMMA OutOfFoldKeeps == ASSUME Dated, OutOfFold PROVE Dated'
<1> USE DEF OutOfFold, inputs, fitted
<1> DEFINE b == BlockStart(OofSplits, block)
           e == BlockStart(OofSplits, block + 1)
<1>1. /\ 0 < cuts[1] /\ cuts[1] < cuts[2] /\ cuts[2] < cuts[3] /\ cuts[3] < dates
      /\ cuts[1] \in Nat /\ cuts[2] \in Int /\ cuts[3] \in Int /\ dates \in Nat /\ block \in Nat
  BY DEF Dated, Types, CutsRight
<1>2. OofSplits \in Nat \ {0}
  BY DEF Dated, Types, OofSplits, Greater, Lesser
<1>3. b \in Nat /\ e \in Nat /\ b <= cuts[1] /\ e <= cuts[1]
  <2>1. OofSplits \in Nat \ {0} /\ cuts[1] \in Nat /\ block \in Nat /\ block + 1 \in Nat
    BY <1>1, <1>2
  <2>2. block <= OofSplits /\ block + 1 <= OofSplits
    BY <2>1 DEF OutOfFold
  <2>3. BlockStart(OofSplits, block) \in Nat /\ BlockStart(OofSplits, block) <= cuts[1]
    BY <2>1, <2>2, BlocksInTrain
  <2>4. BlockStart(OofSplits, block + 1) \in Nat /\ BlockStart(OofSplits, block + 1) <= cuts[1]
    BY <2>1, <2>2, BlocksInTrain
  <2> QED
    BY <2>3, <2>4
<1>4. Types' /\ CutsRight' /\ BasisPast' /\ OutcomeRight'
  BY DEF Dated, Types, ExperimentStages, CutsRight, BasisPast, OutcomeRight, ClaimSawTail
<1>5. CASE UNCHANGED <<made, gate>>
  BY <1>4, <1>5 DEF Dated, FittedPast, MadePast, Past, Validation
<1>6. CASE /\ made' = made \union {Predictions(b + 1..e, Learns(1..b))}
           /\ gate' = gate \union Learns(1..b) \union Learns(b + 1..e)
  <2> HIDE DEF b, e
  <2>1. Learns(1..b) \subseteq 1..b
    <3>1. 1..b \in SUBSET (1..b) /\ b \in Int /\ b <= dates
      BY <1>1, <1>3
    <3> QED
      BY <1>1, <3>1, LearnsPast DEF Dated
  <2>2. Learns(b + 1..e) \subseteq 1..e
    <3>1. b + 1..e \in SUBSET (1..e) /\ e \in Int /\ e <= dates
      BY <1>1, <1>3
    <3> QED
      BY <1>1, <3>1, LearnsPast DEF Dated
  <2>3. gate' \subseteq 1..cuts[2]
    BY <1>1, <1>3, <1>6, <2>1, <2>2 DEF Dated, FittedPast
  <2>4. FittedPast'
    BY <2>3 DEF Dated, FittedPast
  <2>5. MadePast'
    <3>1. Past(Predictions(b + 1..e, Learns(1..b)))
      BY <1>3, <2>1 DEF Past, Predictions
    <3> QED
      BY <1>6, <3>1 DEF Dated, MadePast, Past, Validation
  <2> QED
    BY <1>4, <2>4, <2>5 DEF Dated
<1> QED
  BY <1>5, <1>6 DEF Earlier, Block

(* What the partitions are, and that the cuts are in order, wherever models are used. *)
LEMMA Cut ==
  ASSUME Dated, stage \notin {"split", "error"}
  PROVE  /\ cuts[1] \in Int /\ cuts[2] \in Int /\ cuts[3] \in Int /\ dates \in Nat
         /\ 0 < cuts[1] /\ cuts[1] < cuts[2] /\ cuts[2] < cuts[3] /\ cuts[3] < dates
         /\ Train = 1..cuts[1] /\ Validation = (cuts[1] + 1)..cuts[2]
         /\ Calibration = (cuts[2] + 1)..cuts[3] /\ Test = (cuts[3] + 1)..dates
<1>1. /\ 0 < cuts[1] /\ cuts[1] < cuts[2] /\ cuts[2] < cuts[3] /\ cuts[3] < dates
      /\ Types /\ dates \in Nat
  BY DEF Dated, CutsRight, Types
<1> QED
  BY <1>1, PartitionsAre

LEMMA DevelopmentLearns ==
  ASSUME Dated, stage \notin {"split", "error"}, NEW D \in SUBSET (Train \union Validation)
  PROVE  Learns(D) \subseteq 1..cuts[2] /\ Learns(D) \subseteq 1..cuts[3]
<1>1. D \in SUBSET (1..cuts[2]) /\ cuts[2] \in Int /\ cuts[2] <= dates /\ dates \in Nat
  BY Cut
<1>2. Learns(D) \subseteq 1..cuts[2]
  BY <1>1, LearnsPast DEF Dated
<1> QED
  BY <1>2, Cut

(* What the validation rows have a part in may predict them. *)
LEMMA ValidationPast ==
  ASSUME Dated, stage \notin {"split", "error"}, NEW by \in SUBSET (1..cuts[2])
  PROVE  Past(Predictions(Validation, by))
<1>1. cuts[1] \in Int /\ cuts[2] \in Int /\ Validation = (cuts[1] + 1)..cuts[2]
  BY Cut
<1>2. \A d \in (cuts[1] + 1)..cuts[2], e \in by : e < d \/ e \in (cuts[1] + 1)..cuts[2]
  BY <1>1
<1> QED
  BY <1>1, <1>2 DEF Past, Predictions

LEMMA FitKeeps ==
  ASSUME Dated, NEW on \in SUBSET (Train \union Validation), Fit(on)
  PROVE  Dated'
<1> USE DEF Fit, inputs
<1>1. rcot' \subseteq 1..cuts[2]
  BY DevelopmentLearns
<1>2. base' \subseteq 1..cuts[2] /\ base' \subseteq 1..cuts[3]
  <2>1. stage = "fit" /\ base' = Train
    OBVIOUS
  <2>2. /\ cuts[1] \in Int /\ cuts[2] \in Int /\ cuts[3] \in Int
        /\ cuts[1] < cuts[2] /\ cuts[2] < cuts[3] /\ Train = 1..cuts[1]
    BY <2>1, Cut
  <2> QED
    BY ONLY <2>1, <2>2
<1>3. Types' /\ CutsRight' /\ BasisPast' /\ OutcomeRight'
  BY DEF Dated, Types, ExperimentStages, CutsRight, BasisPast, OutcomeRight, ClaimSawTail
<1>4. FittedPast'
  BY <1>1, <1>2 DEF Dated, FittedPast
<1>5. MadePast'
  <2>1. Past(Predictions(Validation, Train)) /\ Past(Predictions(Validation, Learns(on)))
    BY <1>1, <1>2, ValidationPast
  <2> QED
    BY <2>1 DEF Dated, MadePast, Past, Validation
<1> QED
  BY <1>3, <1>4, <1>5 DEF Dated

LEMMA ChooseKeeps ==
  ASSUME Dated, NEW by, by \subseteq rcot \union gate, NEW challenger \in BOOLEAN, NEW tail,
         Choose(by, challenger, tail), stage' \in {"calibrate", "test"},
         challenger /\ program \in {"catboost", "v2_final"} => tail # NoTail
  PROVE  Dated'
<1> USE DEF Choose, inputs
<1>1. chosen' \subseteq 1..cuts[2]
  <2>1. base \subseteq 1..cuts[2] /\ rcot \subseteq 1..cuts[2] /\ gate \subseteq 1..cuts[2]
    BY DEF Dated, FittedPast
  <2>2. Validation \subseteq 1..cuts[2]
    BY Cut
  <2> QED
    BY <2>1, <2>2
<1>2. chosen' \subseteq 1..cuts[3] /\ base \subseteq 1..cuts[3]
  BY <1>1, Cut DEF Dated, FittedPast
<1>3. Types' /\ CutsRight' /\ BasisPast'
  BY DEF Dated, Types, ExperimentStages, CutsRight, BasisPast
<1>7. MadePast'
  <2>1. Past(Predictions(Validation, chosen'))
    BY <1>1, ValidationPast
  <2> QED
    BY <2>1 DEF Dated, MadePast, Past, Validation
<1>4. FittedPast'
  BY <1>1, <1>2 DEF Dated, FittedPast
<1>5. outcome'.kind = "choice" /\ outcome'.challenger = challenger /\ outcome'.tail = tail
  BY DEF Choice
<1>6. OutcomeRight'
  BY <1>5 DEF OutcomeRight, ClaimSawTail
<1> QED
  BY <1>3, <1>4, <1>6, <1>7 DEF Dated

LEMMA ChoicesKeep == ASSUME Dated, ChooseChampion \/ ChooseGate \/ ChooseCandidate PROVE Dated'
<1>1. ASSUME ChooseChampion PROVE Dated'
  <2>1. PICK m \in Measured : Choose(IF Promoted(m) THEN rcot ELSE {}, Promoted(m), NoTail)
    BY <1>1 DEF ChooseChampion
  <2>2. Promoted(m) \in BOOLEAN
    BY DEF Promoted
  <2>3. program = "pipeline" /\ stage' = "calibrate"
    BY <1>1 DEF ChooseChampion
  <2>4. (IF Promoted(m) THEN rcot ELSE {}) \subseteq rcot \union gate
    OBVIOUS
  <2> QED
    BY <2>1, <2>2, <2>3, <2>4, ChooseKeeps
<1>2. ASSUME ChooseGate PROVE Dated'
  <2>1. PICK m \in Measured, active \in BOOLEAN :
          Choose(gate \union rcot, Promoted(m) /\ active, NoTail)
    BY <1>2 DEF ChooseGate
  <2>2. (Promoted(m) /\ active) \in BOOLEAN
    OBVIOUS
  <2>3. program = "gated" /\ stage' = "test"
    BY <1>2 DEF ChooseGate
  <2> QED
    BY <2>1, <2>2, <2>3, ChooseKeeps
<1>3. ASSUME ChooseCandidate PROVE Dated'
  <2>1. PICK tail \in TailErrors : Choose(IF Within(tail, 2) THEN rcot ELSE {}, Within(tail, 2), tail)
    BY <1>3 DEF ChooseCandidate
  <2>2. Within(tail, 2) \in BOOLEAN
    BY DEF Within
  <2>3. stage' = "test"
    BY <1>3 DEF ChooseCandidate
  <2>4. Within(tail, 2) => tail # NoTail
    BY WithinSawTail
  <2>5. (IF Within(tail, 2) THEN rcot ELSE {}) \subseteq rcot \union gate
    OBVIOUS
  <2> QED
    BY <2>1, <2>2, <2>3, <2>4, <2>5, ChooseKeeps
<1> QED
  BY <1>1, <1>2, <1>3

LEMMA FitCityBaseKeeps == ASSUME Dated, FitCityBase PROVE Dated'
<1> USE DEF FitCityBase, inputs
<1>1. chosen' \subseteq 1..cuts[2] /\ chosen' \subseteq 1..cuts[3]
  BY DevelopmentLearns
<1>2. base' \subseteq 1..cuts[2] /\ base' \subseteq 1..cuts[3]
  BY Cut
<1>3. Types' /\ CutsRight' /\ BasisPast' /\ MadePast'
  BY DEF Dated, Types, ExperimentStages, CutsRight, BasisPast, MadePast, Past, Validation
<1>4. FittedPast'
  BY <1>1, <1>2 DEF Dated, FittedPast
<1>5. outcome'.kind = "choice" /\ outcome'.challenger = TRUE
  BY DEF Choice
<1>6. OutcomeRight'
  BY <1>5 DEF OutcomeRight, ClaimSawTail
<1> QED
  BY <1>3, <1>4, <1>6 DEF Dated

LEMMA RefitV2Keeps == ASSUME Dated, RefitV2 PROVE Dated'
<1> USE DEF RefitV2, inputs
<1>1. chosen' \subseteq 1..cuts[2] /\ base' \subseteq 1..cuts[2]
      /\ chosen' \subseteq 1..cuts[3] /\ base' \subseteq 1..cuts[3]
  <2>1. chosen' = TrainDev /\ base' = TrainDev
    OBVIOUS
  <2>2. TrainDev \subseteq 1..cuts[2] /\ TrainDev \subseteq 1..cuts[3]
    BY Cut DEF TrainDev
  <2> QED
    BY <2>1, <2>2
<1>2. Types' /\ CutsRight' /\ BasisPast' /\ MadePast'
  BY DEF Dated, Types, ExperimentStages, CutsRight, BasisPast, MadePast, Past, Validation
<1>3. FittedPast'
  BY <1>1 DEF Dated, FittedPast
<1>4. PICK gain \in {0, 1}, tail \in TailErrors :
        outcome' = Choice(gain >= 1 /\ Within(tail, 2), tail)
  OBVIOUS
<1>5. /\ outcome'.kind = "choice" /\ outcome'.tail = tail
      /\ outcome'.challenger = (gain >= 1 /\ Within(tail, 2))
  BY <1>4 DEF Choice
<1>6. OutcomeRight'
  BY <1>5, WithinSawTail DEF OutcomeRight, ClaimSawTail
<1> QED
  BY <1>2, <1>3, <1>6 DEF Dated

LEMMA CalibrateKeeps ==
  ASSUME Dated, NEW baseToo \in BOOLEAN, Calibrate(baseToo)
  PROVE  Dated'
<1> USE DEF Calibrate, inputs
<1>1. chosen \subseteq 1..cuts[2] /\ chosen \subseteq 1..cuts[3] /\ base \subseteq 1..cuts[3]
  BY DEF Dated, FittedPast
<1>2. chosen' \subseteq 1..cuts[3] /\ base' \subseteq 1..cuts[3]
  <2>1. Calibration \subseteq 1..cuts[3]
    BY Cut
  <2> QED
    BY <1>1, <2>1
<1>3. Types' /\ CutsRight' /\ BasisPast'
  BY DEF Dated, Types, ExperimentStages, CutsRight, BasisPast
<1>4. FittedPast'
  BY <1>2 DEF Dated, FittedPast
<1>5. MadePast'
  <2>1. Past(Predictions(Calibration, chosen))
    BY <1>1, Cut DEF Past, Predictions
  <2> QED
    BY <2>1 DEF Dated, MadePast, Past, Validation
<1>6. OutcomeRight'
  BY DEF Dated, OutcomeRight, ClaimSawTail
<1> QED
  BY <1>3, <1>4, <1>5, <1>6 DEF Dated

LEMMA PredictTestKeeps == ASSUME Dated, PredictTest PROVE Dated'
<1> USE DEF PredictTest, inputs, fitted
<1>1. chosen \subseteq 1..cuts[3] /\ base \subseteq 1..cuts[3]
  BY DEF Dated, FittedPast
<1>2. Types' /\ CutsRight' /\ BasisPast' /\ FittedPast'
  BY DEF Dated, Types, ExperimentStages, CutsRight, BasisPast, FittedPast
<1>3. MadePast'
  <2>1. Past(Predictions(Test, chosen)) /\ Past(Predictions(Test, base))
    BY <1>1, Cut DEF Past, Predictions
  <2> QED
    BY <2>1 DEF Dated, MadePast, Past, Validation
<1>4. OutcomeRight'
  BY DEF Dated, OutcomeRight, ClaimSawTail
<1> QED
  BY <1>2, <1>3, <1>4 DEF Dated

LEMMA DecideKeeps == ASSUME Dated, Decide PROVE Dated'
<1> USE DEF Decide, inputs, fitted
<1>1. Types' /\ CutsRight' /\ BasisPast' /\ FittedPast' /\ MadePast'
  BY DEF Dated, Types, ExperimentStages, CutsRight, BasisPast, FittedPast, MadePast, Past, Validation
<1>2. OutcomeRight'
  <2>1. outcome'.kind = "decision"
    OBVIOUS
  <2> QED
    BY <2>1 DEF OutcomeRight, ClaimSawTail
<1> QED
  BY <1>1, <1>2 DEF Dated

LEMMA ClaimKeeps ==
  ASSUME Dated, NEW supported, NEW tail, Claim(supported, tail),
         supported => /\ program # "gated" => tail # NoTail
                      /\ program \in {"catboost", "v2_final"} => outcome.challenger
  PROVE  Dated'
<1> USE DEF Claim, inputs, fitted
<1>1. Types' /\ CutsRight' /\ BasisPast' /\ FittedPast' /\ MadePast'
  BY DEF Dated, Types, ExperimentStages, CutsRight, BasisPast, FittedPast, MadePast, Past, Validation
<1>2. /\ outcome'.kind = "claim" /\ outcome'.test = tail /\ outcome'.validation = outcome.tail
      /\ outcome'.supported = supported
  OBVIOUS
<1>3. outcome.challenger /\ program \in {"catboost", "v2_final"} => outcome.tail # NoTail
  BY DEF Dated, OutcomeRight
<1>4. OutcomeRight'
  BY <1>2, <1>3 DEF OutcomeRight, ClaimSawTail
<1> QED
  BY <1>1, <1>4 DEF Dated

LEMMA ClaimsKeep ==
  ASSUME Dated, ClaimGated \/ ClaimCandidate \/ ClaimCityBase \/ ReportDevelopment \/ ClaimFinal
  PROVE  Dated'
<1>1. ASSUME ClaimGated PROVE Dated'
  <2>1. PICK gain \in Gains, ci \in BOOLEAN, tail \in TailErrors :
          Claim(outcome.challenger /\ gain > 0 /\ ci, tail)
    BY <1>1 DEF ClaimGated
  <2>2. program = "gated"
    BY <1>1 DEF ClaimGated
  <2> QED
    BY <2>1, <2>2, ClaimKeeps
<1>2. ASSUME ClaimCandidate PROVE Dated'
  <2>1. PICK gain \in Gains, ci \in BOOLEAN, tail \in TailErrors :
          Claim(outcome.challenger /\ gain > 0 /\ ci /\ Within(tail, 2), tail)
    BY <1>2 DEF ClaimCandidate
  <2> QED
    BY <2>1, ClaimKeeps, WithinSawTail
<1>3. ASSUME ClaimCityBase PROVE Dated'
  <2>1. PICK gain \in Gains, ci \in BOOLEAN, tail \in TailErrors :
          Claim(gain > 0 /\ ci /\ Within(tail, 2), tail)
    BY <1>3 DEF ClaimCityBase
  <2>2. program = "citybase"
    BY <1>3 DEF ClaimCityBase
  <2> QED
    BY <2>1, <2>2, ClaimKeeps, WithinSawTail
<1>4. ASSUME ReportDevelopment PROVE Dated'
  <2>1. PICK tail \in TailErrors : Claim(FALSE, tail)
    BY <1>4 DEF ReportDevelopment
  <2> QED
    BY <2>1, ClaimKeeps
<1>5. ASSUME ClaimFinal PROVE Dated'
  <2>1. PICK gain \in Gains, ci \in BOOLEAN, tail \in TailErrors :
          Claim(outcome.challenger /\ gain >= 1 /\ ci /\ Within(tail, 2), tail)
    BY <1>5 DEF ClaimFinal
  <2> QED
    BY <2>1, ClaimKeeps, WithinSawTail
<1> QED
  BY <1>1, <1>2, <1>3, <1>4, <1>5

-----------------------------------------------------------------------------
LEMMA ExperimentStart == ASSUME ExperimentInit PROVE Dated
<1> USE DEF ExperimentInit
<1>1. Types
  BY ExperimentAssumption DEF Types, ExperimentStages, Programs
<1>2. BasisPast /\ MadePast /\ CutsRight /\ FittedPast
  BY DEF BasisPast, MadePast, CutsRight, FittedPast
<1>3. OutcomeRight
  BY DEF OutcomeRight, ClaimSawTail, Undecided
<1> QED
  BY <1>1, <1>2, <1>3 DEF Dated

LEMMA ExperimentStep == ASSUME Dated, [ExperimentNext]_experimentVars PROVE Dated'
<1>1. ASSUME Split PROVE Dated'
  BY <1>1, SplitKeeps
<1>2. ASSUME SplitFails \/ CrossFitFails \/ OutOfFoldFails PROVE Dated'
  <2>1. Raise /\ outcome = Undecided
    BY <1>2 DEF SplitFails, CrossFitFails, OutOfFoldFails, Dated, OutcomeRight
  <2> QED
    BY <2>1, RaiseKeeps
<1>3. ASSUME CrossFit PROVE Dated'
  BY <1>3, CrossFitKeeps
<1>4. ASSUME FitReference PROVE Dated'
  BY <1>4, FitReferenceKeeps
<1>5. ASSUME OutOfFold PROVE Dated'
  BY <1>5, OutOfFoldKeeps
<1>6. ASSUME FitGate PROVE Dated'
  <2> USE <1>6 DEF FitGate, inputs, fitted
  <2>1. Types' /\ CutsRight' /\ BasisPast' /\ FittedPast'
    BY DEF Dated, Types, ExperimentStages, CutsRight, BasisPast, FittedPast
  <2>2. MadePast' /\ OutcomeRight'
    BY DEF Dated, MadePast, Past, Validation, OutcomeRight, ClaimSawTail
  <2> QED
    BY <2>1, <2>2 DEF Dated
<1>7. ASSUME FitExperts \/ FitCandidates \/ FitV2 PROVE Dated'
  <2>1. \E on \in SUBSET (Train \union Validation) : Fit(on)
    BY <1>7 DEF FitExperts, FitCandidates, FitV2
  <2> QED
    BY <2>1, FitKeeps
<1>8. ASSUME ChooseChampion \/ ChooseGate \/ ChooseCandidate PROVE Dated'
  BY <1>8, ChoicesKeep
<1>9. ASSUME FitCityBase PROVE Dated'
  BY <1>9, FitCityBaseKeeps
<1>10. ASSUME RefitV2 PROVE Dated'
  BY <1>10, RefitV2Keeps
<1>11. ASSUME CalibrateChampion \/ CalibrateOffsets PROVE Dated'
  <2>1. Calibrate(FALSE) \/ Calibrate(TRUE)
    BY <1>11 DEF CalibrateChampion, CalibrateOffsets
  <2> QED
    BY <2>1, CalibrateKeeps
<1>12. ASSUME PredictTest \/ Decide PROVE Dated'
  BY <1>12, PredictTestKeeps, DecideKeeps
<1>13. ASSUME ClaimGated \/ ClaimCandidate \/ ClaimCityBase \/ ReportDevelopment \/ ClaimFinal
       PROVE  Dated'
  BY <1>13, ClaimsKeep
<1>14. ASSUME UNCHANGED experimentVars PROVE Dated'
  <2> USE <1>14 DEF experimentVars, inputs, fitted
  <2>1. Types' /\ CutsRight' /\ BasisPast' /\ FittedPast'
    BY DEF Dated, Types, CutsRight, BasisPast, FittedPast
  <2>2. MadePast' /\ OutcomeRight'
    <3>1. ClaimSawTail'
      BY DEF Dated, OutcomeRight, ClaimSawTail
    <3> QED
      BY <3>1 DEF Dated, MadePast, Past, Validation, OutcomeRight
  <2> QED
    BY <2>1, <2>2 DEF Dated
<1> QED
  BY <1>1, <1>2, <1>3, <1>4, <1>5, <1>6, <1>7, <1>8, <1>9, <1>10, <1>11, <1>12, <1>13,
     <1>14 DEF ExperimentNext

\* The bounds hold at every moment.
THEOREM Bounded == ExperimentSpec => []Dated
<1>1. ExperimentInit => Dated
  BY ExperimentStart
<1>2. Dated /\ [ExperimentNext]_experimentVars => Dated'
  BY ExperimentStep
<1> QED
  BY <1>1, <1>2, PTL DEF ExperimentSpec

\* The split (data/split.py) puts every date into exactly one of four nonempty
\* partitions, in the order of time, for every number of dates and all fractions.
THEOREM SplitsInOrder == ExperimentSpec => []SplitInOrder
<1>1. Dated => SplitInOrder
  <2> SUFFICES ASSUME Dated, stage \notin {"split", "error"}
               PROVE  /\ \A i \in 1..4 : Parts[i] # {}
                      /\ \A d \in 1..dates : \E i \in 1..4 : d \in Parts[i]
                      /\ \A i, j \in 1..4 : i < j => \A d \in Parts[i], e \in Parts[j] : d < e
    BY DEF SplitInOrder
  <2>1. /\ 0 < cuts[1] /\ cuts[1] < cuts[2] /\ cuts[2] < cuts[3] /\ cuts[3] < dates
        /\ Types
    BY DEF Dated, CutsRight
  <2>2. /\ Parts[1] = 1..cuts[1] /\ Parts[2] = (cuts[1] + 1)..cuts[2]
        /\ Parts[3] = (cuts[2] + 1)..cuts[3] /\ Parts[4] = (cuts[3] + 1)..dates
        /\ cuts[1] \in Int /\ cuts[2] \in Int /\ cuts[3] \in Int /\ dates \in Int
    BY <2>1, PartitionsAre DEF Parts, Types
  <2>3. /\ 1 \in Parts[1] /\ cuts[2] \in Parts[2] /\ cuts[3] \in Parts[3] /\ dates \in Parts[4]
    BY <2>1, <2>2
  <2>4. \A i \in 1..4 : Parts[i] # {}
    BY <2>3
  <2>5. \A d \in 1..dates : \E i \in 1..4 : d \in Parts[i]
    BY <2>1, <2>2
  <2>6. \A i, j \in 1..4 : i < j => \A d \in Parts[i], e \in Parts[j] : d < e
    <3> SUFFICES ASSUME NEW i \in 1..4, NEW j \in 1..4, i < j, NEW d \in Parts[i], NEW e \in Parts[j]
                 PROVE  d < e
      OBVIOUS
    <3>1. /\ i = 1 \/ i = 2 \/ i = 3
          /\ j = 2 \/ j = 3 \/ j = 4
      OBVIOUS
    <3>2. /\ i = 1 => d \in Int /\ d <= cuts[1]
          /\ i = 2 => d \in Int /\ d <= cuts[2]
          /\ i = 3 => d \in Int /\ d <= cuts[3]
      <4>1. i = 1 => d \in Int /\ d <= cuts[1]
        BY <2>2
      <4>2. i = 2 => d \in Int /\ d <= cuts[2]
        BY <2>2
      <4>3. i = 3 => d \in Int /\ d <= cuts[3]
        BY <2>2
      <4> QED
        BY <4>1, <4>2, <4>3
    <3>3. /\ j = 2 => e \in Int /\ cuts[1] < e
          /\ j = 3 => e \in Int /\ cuts[2] < e
          /\ j = 4 => e \in Int /\ cuts[3] < e
      <4>1. j = 2 => e \in Int /\ cuts[1] < e
        BY <2>2
      <4>2. j = 3 => e \in Int /\ cuts[2] < e
        BY <2>2
      <4>3. j = 4 => e \in Int /\ cuts[3] < e
        BY <2>2
      <4> QED
        BY <4>1, <4>2, <4>3
    <3>4. cuts[1] \in Int /\ cuts[2] \in Int /\ cuts[3] \in Int
      BY <2>2
    <3>5. i < j
      OBVIOUS
    <3> QED
      BY ONLY <2>1, <3>1, <3>2, <3>3, <3>4, <3>5
  <2> QED
    BY <2>4, <2>5, <2>6
<1> QED
  BY <1>1, Bounded, PTL

\* No reference feature (features/rcot.py) and no out-of-fold, calibrated or reported
\* prediction rests on its own date or a later one, but for validation rows predicted
\* by what was stopped early or chosen by validation rows.
THEOREM AllFromThePast == ExperimentSpec => []FromThePast
<1>1. Dated => FromThePast
  <2> SUFFICES ASSUME Dated PROVE FromThePast
    OBVIOUS
  <2>1. \A d \in 1..dates : \A e \in basis[d] : e < d
    BY DEF Dated, Types, BasisPast
  <2>2. \A p \in made : \A d \in p.on : \A e \in p.by :
          e < d \/ (d \in Validation /\ e \in Validation)
    BY DEF Dated, MadePast, Past
  <2> QED
    BY <2>1, <2>2 DEF FromThePast
<1> QED
  BY <1>1, Bounded, PTL

\* No claim is supported by a tail guardrail that saw no tail rows.
THEOREM ClaimsSawTail == ExperimentSpec => []ClaimSawTail
<1>1. Dated => ClaimSawTail
  BY DEF Dated, OutcomeRight
<1> QED
  BY <1>1, Bounded, PTL

===============================================================================

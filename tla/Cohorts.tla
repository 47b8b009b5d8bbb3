------------------------------- MODULE Cohorts -------------------------------
(***************************************************************************)
(* The four LaDe-D cohorts (pilot, confirmatory, V2 development, V2 final   *)
(* confirmation).  Each has a script that ranks the courier-days of the raw *)
(* data by a seeded hash, takes a quota per city, normalises the rows and   *)
(* writes a CSV and then a report.  The scripts share no lock and no        *)
(* manifest: the confirmatory one reads which days to exclude from the      *)
(* pilot's CSV, the two V2 scripts recompute the earlier selections from    *)
(* the seeds, and only the final one compares itself with the CSVs.         *)
(*                                                                          *)
(* A courier-day is a pair <<city, key>>; cities are numbered in the order  *)
(* of --cities.  Parsing, row filters and counters are abstracted to the    *)
(* set kept[s] of days of which at least four rows survive in script s.     *)
(***************************************************************************)
EXTENDS Naturals, FiniteSets

CONSTANTS
  CourierDays, \* the courier-days of the raw data, pairs <<city, key>>
  NCities,   \* how many cities are asked for
  Totals,    \* the values of --max-courier-days that are tried
  Ranks,     \* the possible hash ranks: each gives a number to every day per script
  Keeps,     \* the possible outcomes of normalisation: the days each script keeps
  ByRunner,  \* the V2 stages started by their .ps1 runner, which removes their files first
  Stuck,     \* of "csv" and "report", what the runner may fail to remove, unnoticed
  NoFile,    \* no CSV, no report, or no script running
  MaxJobs,   \* bound: scripts that run at the same time
  MaxStarts, \* bound: scripts started in all
  MaxDeaths  \* bound: scripts killed in all

Cities == 1 .. NCities
Stages == {"pilot", "confirmatory", "development", "final"}

ASSUME CohortsAssumption ==
  /\ NCities \in Nat \ {0}
  /\ IsFiniteSet(CourierDays) /\ \A d \in CourierDays : d[1] \in Cities
  /\ Totals \subseteq Nat
  /\ Ranks \subseteq [Stages -> [CourierDays -> Nat]]
  /\ Keeps \subseteq [Stages -> SUBSET CourierDays]
  /\ ByRunner \subseteq {"development", "final"} /\ Stuck \subseteq {"csv", "report"}

ASSUME JobsAssumption == MaxJobs \in Nat /\ MaxStarts \in Nat /\ MaxDeaths \in Nat

VARIABLES
  rank,      \* the hash rank of every day under the seed of each script
  kept,      \* the days that survive the normalisation of each script
  csv,       \* the normalised CSV of each cohort
  job,       \* the output a running script is about to write
  saved,     \* the scripts whose CSV is written and whose report is not
  cleared,   \* the stages whose runner has removed their files and not started them yet
  report,    \* the cohort that the report of the final one, status PASS, is about
  evaluated, \* the cohort the final benchmark ran on
  vouched,   \* the one the report it read is about
  starts,    \* how many scripts were started
  deaths     \* how many were killed

counters == <<starts, deaths>>
benchmark == <<evaluated, vouched>>
cohortsVars == <<rank, kept, csv, job, saved, cleared, report, evaluated, vouched, starts, deaths>>

Cohort == [days : SUBSET CourierDays, total : Totals, whole : BOOLEAN,
           prior : SUBSET CourierDays]     \* confirmatory: the days it excluded

----------------------------------------------------------------------------
(* divmod over the cities: the first ones take the remainder. *)
Quota(c, total) == total \div NCities + IF c <= total % NCities THEN 1 ELSE 0

Ahead(d, pool, s) == {e \in pool : e[1] = d[1] /\ rank[s][e] < rank[s][d]}

(* The first days of every city in the order of the stage's hash. *)
Taken(pool, s, total) ==
  {d \in pool : Cardinality(Ahead(d, pool, s)) < Quota(d[1], total)}

Enough(pool, total) ==
  \A c \in Cities : Cardinality({d \in pool : d[1] = c}) >= Quota(c, total)

(* A mutant: the confirmatory selection is recomputed without exclude=pilot. *)
ConfirmatoryPoolWithPilot(total) == CourierDays

(* The earlier selections as the V2 scripts recompute them. *)
PilotSel(total) == Taken(CourierDays, "pilot", total)
ConfirmatoryPool(total) == CourierDays \ PilotSel(total)
ConfirmatorySel(total) == Taken(ConfirmatoryPool(total), "confirmatory", total)
DevelopmentPool(total) == ConfirmatoryPool(total) \ ConfirmatorySel(total)
DevelopmentSel(total) == Taken(DevelopmentPool(total), "development", total)
FinalPool(total) == DevelopmentPool(total) \ DevelopmentSel(total)
FinalSel(total) == Taken(FinalPool(total), "final", total)

----------------------------------------------------------------------------
CohortsInit ==
  /\ rank \in Ranks /\ kept \in Keeps
  /\ csv = [s \in Stages |-> NoFile]
  /\ job = [s \in Stages |-> NoFile]
  /\ saved = {} /\ cleared = {} /\ report = NoFile
  /\ evaluated = NoFile /\ vouched = NoFile
  /\ starts = 0 /\ deaths = 0

(* --max-courier-days must reach every city. *)
Ready(s, total) ==
  /\ job[s] = NoFile /\ starts < MaxStarts
  /\ s \in ByRunner => s \in cleared
  /\ Cardinality({t \in Stages : job[t] # NoFile}) < MaxJobs
  /\ total >= NCities

(* A script has read its inputs, passed its checks and normalised. *)
Start(s, total, sel, prior) ==
  /\ job' = [job EXCEPT ![s] = [days |-> sel \cap kept[s], total |-> total, whole |-> TRUE,
                                prior |-> prior]]
  /\ starts' = starts + 1
  /\ cleared' = cleared \ {s}
  /\ UNCHANGED <<rank, kept, csv, saved, report, benchmark, deaths>>

StartPilot(total) ==
  /\ Ready("pilot", total) /\ Enough(CourierDays, total)
  /\ PilotSel(total) \cap kept["pilot"] # {}
  /\ Start("pilot", total, PilotSel(total), {})

(* Takes what there is when a city has too few days, and may write no day. *)
StartConfirmatory(total, exclude) ==
  /\ Ready("confirmatory", total)
  /\ exclude => csv["pilot"] # NoFile
  /\ LET prior == IF exclude THEN csv["pilot"].days ELSE {}
     IN Start("confirmatory", total, Taken(CourierDays \ prior, "confirmatory", total), prior)

StartDevelopment(total) ==
  /\ Ready("development", total)
  /\ Enough(CourierDays, total) /\ Enough(ConfirmatoryPool(total), total)
  /\ Enough(DevelopmentPool(total), total)
  /\ DevelopmentSel(total) \cap kept["development"] # {}
  /\ Start("development", total, DevelopmentSel(total), {})

(* Refuses to go on when a selected day is in one of the three earlier CSVs. *)
StartFinal(total) ==
  /\ Ready("final", total)
  /\ \A s \in Stages \ {"final"} : csv[s] # NoFile
  /\ Enough(CourierDays, total) /\ Enough(ConfirmatoryPool(total), total)
  /\ Enough(DevelopmentPool(total), total) /\ Enough(FinalPool(total), total)
  /\ \A s \in Stages \ {"final"} : FinalSel(total) \cap csv[s].days = {}
  /\ FinalSel(total) \cap kept["final"] # {}
  /\ Start("final", total, FinalSel(total), {})

Save(s) ==
  /\ job[s] # NoFile /\ s \notin saved
  /\ csv' = [csv EXCEPT ![s] = job[s]]
  /\ saved' = saved \cup {s}
  /\ UNCHANGED <<rank, kept, job, cleared, report, benchmark, counters>>

WriteReport(s) ==
  /\ s \in saved
  /\ report' = IF s = "final" THEN job[s] ELSE report
  /\ job' = [job EXCEPT ![s] = NoFile]
  /\ saved' = saved \ {s}
  /\ UNCHANGED <<rank, kept, csv, cleared, benchmark, counters>>

Truncated(c, part) == [days |-> part, total |-> c.total, whole |-> FALSE, prior |-> c.prior]

(* The script is killed: before the CSV, in the middle of it, or before the report. *)
Die(s) ==
  /\ job[s] # NoFile
  /\ deaths < MaxDeaths /\ deaths' = deaths + 1
  /\ \/ csv' = csv
     \/ /\ s \notin saved
        /\ \E part \in SUBSET job[s].days :
             csv' = [csv EXCEPT ![s] = Truncated(job[s], part)]
  /\ job' = [job EXCEPT ![s] = NoFile]
  /\ saved' = saved \ {s}
  /\ UNCHANGED <<rank, kept, cleared, report, benchmark, starts>>

(* A mutant: the report of the cohort before stays. *)
RemoveCsv(s) ==
  /\ s \in {"development", "final"} /\ job[s] = NoFile
  /\ csv' = [csv EXCEPT ![s] = NoFile]
  /\ cleared' = cleared \cup ({s} \cap ByRunner)
  /\ UNCHANGED <<rank, kept, job, saved, report, benchmark, counters>>

(* The runner of the V2 cohorts removes the CSV and the report before it starts; *)
(* Remove-Item -ErrorAction SilentlyContinue may leave a file and say nothing.    *)
Remove(s) ==
  /\ s \in {"development", "final"} /\ job[s] = NoFile
  /\ \/ csv' = [csv EXCEPT ![s] = NoFile]
     \/ "csv" \in Stuck /\ UNCHANGED csv
  /\ \/ report' = IF s = "final" THEN NoFile ELSE report
     \/ "report" \in Stuck /\ UNCHANGED report
  /\ cleared' = cleared \cup ({s} \cap ByRunner)
  /\ UNCHANGED <<rank, kept, job, saved, benchmark, counters>>

(* The final benchmark trusts the report and reads the CSV beside it. *)
Evaluate ==
  /\ report # NoFile /\ csv["final"] # NoFile /\ csv["final"].days # {}
  /\ evaluated' = csv["final"] /\ vouched' = report
  /\ UNCHANGED <<rank, kept, csv, job, saved, cleared, report, counters>>

CohortsNext ==
  \/ \E total \in Totals : StartPilot(total) \/ StartDevelopment(total) \/ StartFinal(total)
  \/ \E total \in Totals, exclude \in BOOLEAN : StartConfirmatory(total, exclude)
  \/ \E s \in Stages : Save(s) \/ WriteReport(s) \/ Die(s) \/ Remove(s)
  \/ Evaluate

CohortsSpec == CohortsInit /\ [][CohortsNext]_cohortsVars

----------------------------------------------------------------------------
CohortsTypeOK ==
  /\ rank \in Ranks /\ kept \in Keeps
  /\ csv \in [Stages -> Cohort \cup {NoFile}]
  /\ job \in [Stages -> Cohort \cup {NoFile}]
  /\ saved \subseteq {s \in Stages : job[s] # NoFile}
  /\ cleared \subseteq ByRunner
  /\ report \in Cohort \cup {NoFile}
  /\ evaluated \in Cohort \cup {NoFile} /\ vouched \in Cohort \cup {NoFile}
  /\ starts \in 0 .. MaxStarts /\ deaths \in 0 .. MaxDeaths

(* The confirmatory cohort left out nothing but days the pilot had selected. *)
FollowsPilot(c) == c.prior \subseteq PilotSel(c.total)

Overlap(c, d) == c # NoFile /\ d # NoFile /\ c.days \cap d.days # {}
Apart(c, d) == Overlap(c, d) /\ c.total = d.total => ~FollowsPilot(c)

(* The V2 development cohort shares no courier-day with the pilot and the     *)
(* confirmatory one, nor the final cohort with any of the three, when all     *)
(* were asked for the same number of days: although the development script    *)
(* compares itself with no file and recomputes the confirmatory selection     *)
(* with another exclusion than the one it was made with, and whatever was     *)
(* rerun, killed or truncated in between.                                     *)
Isolated ==
  /\ Apart(csv["pilot"], csv["development"])
  /\ Apart(csv["confirmatory"], csv["development"])
  /\ \A s \in Stages \ {"final"} : Apart(csv[s], csv["final"]) /\ Apart(csv[s], evaluated)

(* The CSV the final benchmark reads and the report that lets it go on, which it *)
(* copies into its summary as cohort_integrity, are two files it never compares;  *)
(* yet the cohort it ran on is the one the report is about, whole and compared    *)
(* with the earlier ones: if the runner starts the normalisation and has removed  *)
(* the report, wherever it is killed; and not if it is started by hand (README).  *)
EvaluatedAsReported == evaluated = vouched

=============================================================================

------------------------------ MODULE Experiment ------------------------------
(***************************************************************************)
(* From dated snapshots to a decision or a claim: the split               *)
(* (src/src/reference_eta/data/split.py), the cross-fitted reference       *)
(* features (features/rcot.py), and the five programs that fit, choose,    *)
(* calibrate and test on the partitions: scripts/run_pipeline.py,          *)
(* run_gated_rcot_experiment.py, run_catboost_lade_challenger.py,          *)
(* run_catboost_citybase_confirmatory.py and run_lade_v2_development.py    *)
(* with run_lade_v2_final_confirmation.py.                                 *)
(*                                                                         *)
(* Rows are reduced to their dates 1..dates, in order.  Everything fitted  *)
(* is reduced to the dates it depends on: those whose rows it was fitted   *)
(* on, and those by which it was chosen.                                   *)
(***************************************************************************)
EXTENDS Integers, FiniteSets

CONSTANTS
  MaxDates,   \* bound: the number of distinct work dates
  Fractions,  \* train, validation and calibration fractions, in per cent
  Splits      \* the values of n_splits

ASSUME ExperimentAssumption ==
  /\ MaxDates \in Nat
  /\ Fractions \subseteq Nat \X Nat \X Nat
  /\ Splits \subseteq Nat

VARIABLES
  program,  \* the program that runs
  stage,    \* the step it takes next; "error" after an exception
  dates,    \* len(ordered_dates)
  shares,   \* the fractions
  splits,   \* n_splits
  cuts,     \* cut1, cut2, cut3
  block,    \* block_index of the loop over date_blocks
  basis,    \* of each row's date: the dates behind its reference features
  base,     \* the dates behind the model without reference features,
  rcot,     \* behind the model with them,
  gate,     \* behind the gate between the two,
  chosen,   \* and behind what was chosen
  made,     \* calibrated and reported predictions: on these dates, by those
  outcome   \* release_decision, or what the claim rests on

inputs == <<program, dates, shares, splits>>
fitted == <<base, rcot, gate, chosen>>
experimentVars == <<inputs, stage, cuts, block, basis, fitted, made, outcome>>

Programs == {"pipeline", "gated", "catboost", "citybase", "v2_development", "v2_final"}
UsesRcot == {"pipeline", "gated", "catboost"}

Greater(a, b) == IF a > b THEN a ELSE b
Lesser(a, b) == IF a < b THEN a ELSE b

Undecided == [kind |-> "none"]

ExperimentInit ==
  /\ program \in Programs /\ stage = "split"
  /\ dates \in 1..MaxDates /\ shares \in Fractions /\ splits \in Splits
  /\ cuts = <<0, 0, 0>> /\ block = 0
  /\ basis = [d \in 1..dates |-> {}]
  /\ base = {} /\ rcot = {} /\ gate = {} /\ chosen = {}
  /\ made = {} /\ outcome = Undecided

Raise ==
  /\ stage' = "error"
  /\ UNCHANGED <<inputs, cuts, block, basis, fitted, made, outcome>>

-----------------------------------------------------------------------------
(* grouped_temporal_split *)

\* int(n * fraction): the product of floats may fall just short of an integer.
DateCounts(p) ==
  {k \in 0..dates : k = (dates * p) \div 100 \/ (k + 1) * 100 = dates * p}

Train == 1..Lesser(cuts[1], dates)
Validation == (cuts[1] + 1)..Lesser(cuts[2], dates)
Calibration == (cuts[2] + 1)..cuts[3]
Test == (cuts[3] + 1)..dates
Parts == <<Train, Validation, Calibration, Test>>

\* A mutant: parts that are empty are returned.
CutsUnchecked(c) == TRUE

\* Are the four slices of ordered_dates nonempty?
NoneEmpty(c) ==
  /\ c[1] < Lesser(c[2], dates)
  /\ c[2] < c[3] /\ c[3] < dates

Cuts(k1, k2, k3) ==
  LET c1 == Greater(1, k1)
      c2 == Greater(c1 + 1, k2)
  IN  <<c1, c2, Lesser(Greater(c2 + 1, k3), dates - 1)>>

Split ==
  /\ stage = "split" /\ dates >= 8
  /\ \E k1 \in DateCounts(shares[1]), k2 \in DateCounts(shares[1] + shares[2]),
        k3 \in DateCounts(shares[1] + shares[2] + shares[3]) :
       LET c == Cuts(k1, k2, k3)
       IN  /\ NoneEmpty(c)
           /\ cuts' = c
  /\ stage' = IF program \in UsesRcot THEN "cross_fit" ELSE "fit"
  /\ UNCHANGED <<inputs, block, basis, fitted, made, outcome>>

\* Fewer than eight dates, or an empty part: ValueError.
SplitFails ==
  /\ stage = "split"
  /\ \/ dates < 8
     \/ \E k1 \in DateCounts(shares[1]), k2 \in DateCounts(shares[1] + shares[2]),
           k3 \in DateCounts(shares[1] + shares[2] + shares[3]) :
          ~NoneEmpty(Cuts(k1, k2, k3))
  /\ Raise

-----------------------------------------------------------------------------
(* np.array_split(ordered_dates of train, m), used by the two loops *)

BlockStart(m, b) ==
  LET n == cuts[1]
  IN  b * (n \div m) + Lesser(b, n % m)
Block(m, b) == (BlockStart(m, b) + 1)..BlockStart(m, b + 1)

\* A mutant: the block that is held out is part of its own history.
BlocksUpTo(m, b) == 1..BlockStart(m, b + 1)

\* np.concatenate(date_blocks[:block_index])
Earlier(m, b) == 1..BlockStart(m, b)

\* Everything rows of these dates depend on, their reference features included.
Learns(D) == D \union UNION {basis[d] : d \in D}

Predictions(D, by) == [on |-> D, by |-> by]

CrossFitSplits == Greater(2, Lesser(splits, cuts[1]))

\* One round of fit_transform_cross_fitted: the first block gets neutral features,
\* the others the curves of strictly earlier dates.
CrossFit ==
  /\ stage = "cross_fit" /\ cuts[1] >= 2 /\ block < CrossFitSplits
  /\ basis' = [d \in 1..dates |->
       IF d \in Block(CrossFitSplits, block) THEN Earlier(CrossFitSplits, block)
       ELSE basis[d]]
  /\ block' = block + 1
  /\ UNCHANGED <<inputs, stage, cuts, fitted, made, outcome>>

\* "Temporal RCOT cross-fitting requires at least two work dates"
CrossFitFails ==
  /\ stage = "cross_fit" /\ cuts[1] < 2
  /\ Raise

\* The loop has ended: the curves are fitted on all of train and used for the rows
\* of the other partitions.  The gated experiment runs on these saved partitions.
FitReference ==
  /\ stage = "cross_fit" /\ cuts[1] >= 2 /\ block = CrossFitSplits
  /\ basis' = [d \in 1..dates |-> IF d \in Train THEN basis[d] ELSE Train]
  /\ block' = 0
  /\ stage' = IF program = "gated" THEN "oof" ELSE "fit"
  /\ UNCHANGED <<inputs, cuts, fitted, made, outcome>>

-----------------------------------------------------------------------------
(* run_gated_rcot_experiment.py: out-of-fold predictions of the two experts *)

OofSplits == Greater(3, Lesser(splits, cuts[1]))

\* A block with too little history is skipped, and so is the first.
OutOfFold ==
  /\ stage = "oof" /\ cuts[1] >= 3 /\ block < OofSplits
  /\ \/ /\ block > 0
        /\ LET history == Earlier(OofSplits, block)
               held == Block(OofSplits, block)
           IN  /\ made' = made \union {Predictions(held, Learns(history))}
               /\ gate' = gate \union Learns(history) \union Learns(held)
     \/ UNCHANGED <<made, gate>>
  /\ block' = block + 1
  /\ UNCHANGED <<inputs, stage, cuts, basis, base, rcot, chosen, outcome>>

OutOfFoldFails ==
  /\ stage = "oof"
  /\ \/ cuts[1] < 3
     \/ block = OofSplits \* no part, or fewer than 40 rows
  /\ Raise

FitGate ==
  /\ stage = "oof" /\ cuts[1] >= 3 /\ block = OofSplits
  /\ gate # {}
  /\ stage' = "fit"
  /\ UNCHANGED <<inputs, cuts, block, basis, fitted, made, outcome>>

-----------------------------------------------------------------------------
(* fitting, choosing, calibrating, testing *)

\* One model without reference features and one with them, or with more features; the
\* errors of both on the validation rows are reported.
Fit(on) ==
  /\ stage = "fit"
  /\ base' = Train /\ rcot' = Learns(on)
  /\ made' = made \union {Predictions(Validation, Train), Predictions(Validation, Learns(on))}
  /\ stage' = "choose"
  /\ UNCHANGED <<inputs, cuts, block, basis, gate, chosen, outcome>>

FitExperts == program \in {"pipeline", "gated"} /\ Fit(Train)

\* The three candidates stop early by the validation rows (eval_set, use_best_model).
FitCandidates == program = "catboost" /\ Fit(Train \union Validation)

FitV2 == program \in {"v2_development", "v2_final"} /\ Fit(Train)

\* evaluate_rcot_promotion, its measures in per mille; without tail rows the gain is 0.
Measured == [average : {-11, -10, 0, 5}, tail : {0, 20}, worst : {50, 51}]
Promoted(m) ==
  /\ m.average >= -10
  /\ m.average >= 5 \/ m.tail >= 20
  /\ m.worst <= 50

\* Mean errors of baseline and challenger on the tail rows: nan when there are none.
NoTail == <<>>
TailErrors == {NoTail, <<100, 102>>, <<100, 103>>}

\* A mutant: the comparison the other way round, true of nan.
WithinUnlessGreater(t, percent) ==
  ~(t # NoTail /\ t[2] * 100 > t[1] * (100 + percent))

\* challenger <= baseline * 1.02: false of nan.
Within(t, percent) ==
  t # NoTail /\ t[2] * 100 <= t[1] * (100 + percent)

\* The challenger, or the baseline; tail: what a tail guardrail compared on validation.
Choice(challenger, tail) == [kind |-> "choice", challenger |-> challenger, tail |-> tail]

\* What is chosen by its errors on the validation rows is reported with them.
Choose(by, challenger, tail) ==
  /\ stage = "choose"
  /\ chosen' = Validation \union base \union by
  /\ made' = made \union {Predictions(Validation, chosen')}
  /\ outcome' = Choice(challenger, tail)
  /\ UNCHANGED <<inputs, cuts, block, basis, base, rcot, gate>>

\* The quantile champion of the pipeline, by whose validation scores its policy is chosen.
ChooseChampion ==
  /\ program = "pipeline"
  /\ \E m \in Measured : Choose(IF Promoted(m) THEN rcot ELSE {}, Promoted(m), NoTail)
  /\ stage' = "calibrate"

\* The best parameters of the gate that would be promoted and are active on 2 to 98 per
\* cent of the rows, or the baseline.
ChooseGate ==
  /\ program = "gated"
  /\ \E m \in Measured, active \in BOOLEAN :
       Choose(gate \union rcot, Promoted(m) /\ active, NoTail)
  /\ stage' = "test"

\* The best candidate within the tail guardrail, or the baseline.
ChooseCandidate ==
  /\ program = "catboost"
  /\ \E tail \in TailErrors :
       Choose(IF Within(tail, 2) THEN rcot ELSE {}, Within(tail, 2), tail)
  /\ stage' = "test"

\* The model is fixed in advance and stops early by the validation rows.
FitCityBase ==
  /\ program = "citybase" /\ stage = "fit"
  /\ base' = Train /\ chosen' = Learns(Train \union Validation)
  /\ outcome' = Choice(TRUE, NoTail)
  /\ stage' = "calibrate"
  /\ UNCHANGED <<inputs, cuts, block, basis, rcot, gate, made>>

\* pd.concat([train, validation]): both V2 models are refitted on it; whether they
\* showed a signal on validation is recorded.
TrainDev == Train \union Validation

RefitV2 ==
  /\ program \in {"v2_development", "v2_final"} /\ stage = "choose"
  /\ \E gain \in {0, 1}, tail \in TailErrors :
       outcome' = Choice(gain >= 1 /\ Within(tail, 2), tail)
  /\ base' = TrainDev /\ chosen' = TrainDev
  /\ stage' = "calibrate"
  /\ UNCHANGED <<inputs, cuts, block, basis, rcot, gate, made>>

\* What was chosen predicts the calibration rows and is corrected by them.
Calibrate(baseToo) ==
  /\ stage = "calibrate"
  /\ made' = made \union {Predictions(Calibration, chosen)}
  /\ chosen' = chosen \union Calibration
  /\ base' = IF baseToo THEN base \union Calibration ELSE base
  /\ stage' = "test"
  /\ UNCHANGED <<inputs, cuts, block, basis, rcot, gate, outcome>>

\* The conformal correction of the champion's interval.
CalibrateChampion == program = "pipeline" /\ Calibrate(FALSE)

\* The median residual of both models.
CalibrateOffsets ==
  program \in {"citybase", "v2_development", "v2_final"} /\ Calibrate(TRUE)

PredictTest ==
  /\ stage = "test"
  /\ made' = made \union {Predictions(Test, chosen), Predictions(Test, base)}
  /\ stage' = IF program = "pipeline" THEN "decide" ELSE "claim"
  /\ UNCHANGED <<inputs, cuts, block, basis, fitted, outcome>>

-----------------------------------------------------------------------------
(* run_pipeline.py: the release decision *)

Policies == {"q50_eta", "q90_eta", "tail_risk", "reliability_adjusted_priority"}

\* validation_policy_scores, or the policy specified for too few tail events
Candidates(enough) == IF enough THEN Policies ELSE {"tail_risk"}

\* the checks of evaluate_system_release
Checks == {"finite_predictions", "nonnegative_predictions", "coverage_within_tolerance",
  "zero_quantile_crossing", "minimum_test_rows", "champion_predictive_quality",
  "decision_noninferior_to_random", "minimum_test_tail_events"}

ReleaseGate(failed, promoted) ==
  IF failed # {} THEN "ITERATE_SYSTEM"
  ELSE IF promoted THEN "PASS_RCOT_CHAMPION" ELSE "PASS_BASELINE_CHAMPION"

Decide ==
  /\ stage = "decide"
  /\ \E failed \in {{}} \union {{c} : c \in Checks}, enough \in BOOLEAN :
     \E policy \in Candidates(enough) :
       outcome' = [kind |-> "decision",
         release_gate |-> ReleaseGate(failed, outcome.challenger),
         rcot_promotion_gate |-> IF outcome.challenger THEN "PROMOTE" ELSE "HOLD",
         quantile_champion |-> IF outcome.challenger THEN "with_rcot" ELSE "without_rcot",
         decision_champion |-> policy]
  /\ stage' = "end"
  /\ UNCHANGED <<inputs, cuts, block, basis, fitted, made>>

-----------------------------------------------------------------------------
(* the claim of the other programs, from their test rows *)

\* The reports are written; tail: the errors on the tail rows of the test partition.
Claim(supported, tail) ==
  /\ stage = "claim"
  /\ outcome' = [kind |-> "claim", supported |-> supported,
                 validation |-> outcome.tail, test |-> tail]
  /\ stage' = "end"
  /\ UNCHANGED <<inputs, cuts, block, basis, fitted, made>>

\* relative_mae_improvement in per cent
Gains == {-1, 0, 1}

\* ci: is ci_upper below 0?  There is no tail guardrail on the test rows.
ClaimGated ==
  /\ program = "gated"
  /\ \E gain \in Gains, ci \in BOOLEAN, tail \in TailErrors :
       Claim(outcome.challenger /\ gain > 0 /\ ci, tail)

ClaimCandidate ==
  /\ program = "catboost"
  /\ \E gain \in Gains, ci \in BOOLEAN, tail \in TailErrors :
       Claim(outcome.challenger /\ gain > 0 /\ ci /\ Within(tail, 2), tail)

ClaimCityBase ==
  /\ program = "citybase"
  /\ \E gain \in Gains, ci \in BOOLEAN, tail \in TailErrors :
       Claim(gain > 0 /\ ci /\ Within(tail, 2), tail)

\* The development cohort supports no claim.
ReportDevelopment ==
  /\ program = "v2_development"
  /\ \E tail \in TailErrors : Claim(FALSE, tail)

\* minimum_relative_mae_improvement is 1 per cent
ClaimFinal ==
  /\ program = "v2_final"
  /\ \E gain \in Gains, ci \in BOOLEAN, tail \in TailErrors :
       Claim(outcome.challenger /\ gain >= 1 /\ ci /\ Within(tail, 2), tail)

ExperimentNext ==
  \/ Split \/ SplitFails \/ CrossFit \/ CrossFitFails \/ FitReference
  \/ OutOfFold \/ OutOfFoldFails \/ FitGate
  \/ FitExperts \/ FitCandidates \/ FitV2 \/ FitCityBase
  \/ ChooseChampion \/ ChooseGate \/ ChooseCandidate \/ RefitV2
  \/ CalibrateChampion \/ CalibrateOffsets \/ PredictTest \/ Decide
  \/ ClaimGated \/ ClaimCandidate \/ ClaimCityBase \/ ReportDevelopment \/ ClaimFinal

ExperimentSpec == ExperimentInit /\ [][ExperimentNext]_experimentVars

-----------------------------------------------------------------------------
(* properties *)

\* The four partitions that the split returns are nonempty, every date is in exactly
\* one, and each lies after those before it: courier_id + work_date groups never
\* straddle partitions.
SplitInOrder ==
  stage \notin {"split", "error"} =>
    /\ \A i \in 1..4 : Parts[i] # {}
    /\ \A d \in 1..dates : \E i \in 1..4 : d \in Parts[i]
    /\ \A i, j \in 1..4 : i < j => \A d \in Parts[i], e \in Parts[j] : d < e

\* "Each block is transformed only with strictly earlier dates" (rcot.py:288): nothing
\* in a row's reference features, and nothing behind an out-of-fold, calibrated or
\* reported prediction (the fit of its model, the choice of that model, its
\* calibration, the features of all the rows these used), is of the row's own
\* date or a later one.  Only the validation rows are predicted, and reported, by what
\* was stopped early or chosen by them: such numbers are of the selection and no test
\* of what was selected; but no calibration or test row has a part in them either.
FromThePast ==
  /\ \A d \in 1..dates : \A e \in basis[d] : e < d
  /\ \A p \in made : \A d \in p.on : \A e \in p.by :
       e < d \/ (d \in Validation /\ e \in Validation)

\* A program with a tail guardrail never supports a claim for which there were no
\* tail rows: the guardrail compares nan, and no check looks for it.
ClaimSawTail ==
  outcome.kind = "claim" /\ outcome.supported =>
    /\ program # "gated" => outcome.test # NoTail
    /\ program \in {"catboost", "v2_final"} => outcome.validation # NoTail

=============================================================================

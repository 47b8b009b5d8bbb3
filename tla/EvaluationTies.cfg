\* Rolling replay: four predictions at times 0 to 2 over a window of four scores,
\* filled at first with the last of five initial ones; half of the outcomes are to
\* be covered.  Experiments of up to eleven dates.  Days of four tasks.  Routes of
\* four stops, with more passes than a search needs.  Cohorts of two cities with four
\* days each: quotas 1 + 1 or 2 + 1, the larger total enough for the pilot and the
\* confirmatory cohort only; the final one made by its runner, which may leave the CSV.
CONSTANTS
  WindowSize = 4
  InitialScores <- SomeScores
  TargetNum = 1
  TargetDen = 2
  Cases <- SomeCases
  Steps = 4
  MaxTime = 2
  MaxDates = 11
  Fractions <- SomeFractions
  Splits = {2, 3, 5}
  Days <- SomeDays
  Places <- SomePlaces
  Strides = {1, 3}
  Service = 2
  Delays = {0, 1}
  Instances <- SomeRoutes
  Stops <- SomeStops
  Station = 0
  MaxPasses = 8
  CourierDays <- SomeCourierDays
  NCities = 2
  Totals = {2, 3}
  Ranks <- SomeRanks
  Keeps <- SomeKeeps
  ByRunner = {"final"}
  Stuck = {"csv"}
  NoFile = NoFile
  MaxJobs = 2
  MaxStarts = 5
  MaxDeaths = 1
SPECIFICATION EvaluationSpec
INVARIANTS
  FeaturesFromPast
CHECK_DEADLOCK FALSE

# Verification of reference-state-last-mile-eta

TLA+ models of the parts of this repository whose correctness depends on order,
concurrency or failure; TLC configurations that check them on small instances;
and proofs, checked by TLAPS, that the main properties hold for every value of
the constants. Paths below are relative to the repository root.

## 1. The system

The repository trains ETA models for last-mile delivery, publishes them as
immutable serving bundles, serves them over HTTP, and validates a release by a
chain of scripts.

    scripts/release.py ── release.lock ──> steps, one process each (process_control.py)
          └─> scripts/run_pipeline.py ── <namespace>.lock
                 data -> features -> models -> calibration -> gates -> manifests
                 └─ publish.lock ──> artifacts/serving_bundles/<digest>/
                                     artifacts/current_bundle.json
                                                │ (files only, no lock)
                                     serving/api.py: pointer -> cache -> answer

The parts share no memory. They meet in the file system: lock files, the bundle
store, and the outputs of a run.

### Inventory

| Component | State | Operations | What is hard |
|---|---|---|---|
| Exclusive file lock (`locking.py`) | the lock file, its owner metadata and age; a token per owner | acquire, stale check, release | check-then-unlink, empty metadata, dead owners, reused pids, deadlines |
| Bundle publication (`run_pipeline.py:77-214`, `io.py`) | bundle directories, temporary directories, the pointer | heal, copy, rename, switch, prune | crashes and errors between any two steps, retention, removal under readers |
| Serving (`serving/api.py`) | one-slot cache and its lock, `app.state`, each request's identity | preload, read pointer, verify, load, answer, refuse | publishers change the store between any two reads; threads share cache and `app.state` |
| Rolling calibration (`models/rolling_calibration.py`) | window of scores, heap of pending labels | release labels, correct, record | labels arrive late and out of order; finite-sample rank; clipping |
| Step runner (`release.py`, `process_control.py`) | the attempt's process tree, deadline, flags | start, poll, deadline, interrupt, terminate, retry | a process may end at any moment, ignore signals or leave descendants |
| Pipeline run (`run_pipeline.py:221-813`, `provenance/run.py`) | run outputs, namespaces, manifest, nested locks | clean, run, write, publish | name collisions between namespaces, lock order, a crash before the manifest |
| Request body limit (`serving/body_limit.py`) | buffered body, last message replayed | receive, refuse, replay | limit boundary, wrong Content-Length, disconnects |
| Temporal split (`data/split.py`) | none | split | truncated fractions, empty or overlapping parts |
| Reference features (`features/rcot.py`) | fitted curves | fit, transform, cross-fit | a row's own or a later label reaching its features |
| Offline experiments (`run_gated_rcot_experiment.py`, `run_catboost_*.py`, `run_lade_v2_*.py`) | what each model, choice and correction was fitted on | fit, choose, calibrate, test, claim | a test row behind a choice; a guardrail that compares nan |
| Release gates (`evaluation/release.py`) | none | decide | a decision the API refuses |
| LaDe snapshots (`data/lade.py`, `_build_v2_snapshots`) | a courier's day, the query time | describe, label | a feature that depends on what happens later |
| LaDe cohorts (`normalize_lade_*.py`) | four CSVs and reports | select, exclude, compare, write, rerun | scripts share no lock and no manifest; a confirmation day seen in development |
| Route replay (`decisions/amazon_replay.py`) | an order of stops | greedy order, two-opt | the order stays a permutation, the search ends in a local optimum |
| Split conformal calibration (`models/calibration.py`) | correction | fit, transform | as rolling calibration |
| Triage (`decisions/triage.py`, `sensitivity.py`) | none | rank under capacity | ties, capacity at its limit |
| Manifests and handoff (`build_release_manifest.py`, `verify_*`, `build_release_candidate_handoff.py`) | digests of files | build, verify, rebuild | files that change between build and verification |
| LaDe audits (`audit_lade_*.py`, sample generator) | none | statistics | - |
| Models, features, metrics, drift | floating-point arrays | fit, predict | numerics |
| Configuration, synthetic data, reports, CLI, tasks | none | validate, format, start others | - |
| SQL marts, `infra/` | none here | queries, launchers | - |

What makes each of the modelled components correct:

- lock: nobody holds it with another owner until a process ends, a file ages or a
  pid check fails; only who judged a file stale, or was overtaken in the middle of
  its release, removes another's file; acquire returns; a dead owner does not block
  its host.
- publication: the pointer names a complete bundle at every moment; the newest
  bundles stay; nothing of a failed publication remains.
- serving: an answer is computed by a verified bundle that was current during
  the request, and says so in its header; concurrent requests load once; every
  request ends.
- calibration: no score is used before its label was available; the window is
  exactly the latest known scores; the correction has the finite-sample rank;
  clipping loses nothing.
- runner: a step passes only by itself; an attempt still there when the next one
  begins has been killed (POSIX); the release ends.
- pipeline run: a bundle and a manifest are of one run; what a run reports as
  published is what the servers find; a run touches the outputs of its own
  directory only and alone; no runs wait for each other in a circle.
- body limit: the application gets the whole body or nothing; only bodies above
  the limit are refused for their size; a request ends once its client has ended
  it, left or exceeded the limit.
- experiments: nothing behind a prediction is from its date or a later one, but
  where validation rows are predicted by what they selected; a claim with a tail
  guardrail has seen tail rows.
- cohorts: the V2 cohorts share no courier-day with the earlier ones; the cohort
  the benchmark ran on is the one its report is about.
- snapshots: the features are a function of what was known at the query time.

The hazards of the code, each at its line with the properties aimed at it, are
listed in `PROJECT.json`.

## 2. Modules

| Module | Models | Used by |
|---|---|---|
| `FileLock` | `ExclusiveFileLock` | `MCFileLock`, `FileLockProofs` |
| `BundleStore` | what publication promises to readers (abstract) | `BundlePublish` implements it, `PipelineRun` and `Serving` use its operations |
| `BundlePublish` | `_publish_serving_bundle` | `BundlePublishProofs` |
| `PipelineRun` | `run_pipeline.py` as processes that meet, and the verifier that removes their outputs | `MCPipelineRun`, `PipelineRunProofs` |
| `Serving` | the model cache and the request path of one worker | `MCApi`, `ServingProofs` |
| `BodyLimit` | `RequestBodyLimitMiddleware` | `MCApi`, `BodyLimitProofs` |
| `StepRunner` | `_run_step`, the step loops, `terminate_process_tree` | `StepRunnerProofs` |
| `Cohorts` | the four LaDe cohort scripts and the final benchmark's reading of them | `MCEvaluation`, `EvidenceProofs` |
| `RollingReplay` | `RollingConformalReplay.replay` | `MCEvaluation`, `ReplayProofs` |
| `Experiment` | split, cross-fitting, and the programs that fit, choose, calibrate, test and decide | `MCEvaluation`, `EvidenceProofs` |
| `Snapshots` | the three snapshot builders | `MCEvaluation`, `ReplayProofs` |
| `RouteSearch` | greedy orders and two-opt searches of the route replay | `MCEvaluation`, `ReplayProofs` |

How they compose:

- `BundleStore` is the interface between those who publish and those who serve.
  `BundlePublish`, one publication in detail with crashes between any two file
  operations, instantiates it with `INSTANCE BundleStore WITH` and has its
  specification as the property `ImplementsStore`. `PipelineRun`, whole runs, makes
  its changes of the store by the operations of `BundleStore`, and `Serving` takes
  them as the environment, so it is checked against everything any number of
  publishers may do.
- `PipelineRun` and `BundlePublish` assume locks that exclude. `FileLock` says when
  they do not; neither the double take-over of `lock_race` nor a live owner judged
  dead is in the other two. What they take from it besides is that the lock of a
  dead owner may be taken over, and may as well time the next run out.
- The programs of the evaluation share files and no state. `MCEvaluation` puts their five
  modules in one specification, in which `subject` says which of them runs and the
  others stay at a fixed state. `MCApi` does the same with the two parts of an API
  worker, `Serving` and `BodyLimit`, and the fairness of both.

Definitions named as mutants (`UnreadableIsStale`, `RetireByAgeOnly`, ...) are
plausible faults of the definition that follows them. No specification uses
them; each makes the property it belongs to fail, which shows that the property
depends on that definition. No module declares a RECURSIVE operator: recursion is
by recursive functions and folds.

### FileLock

`file` is the file at the lock's path: its creator, whether its metadata is
written, whether it is older than `stale_after_seconds`. `pc` has a location
between any two system calls of `acquire`, `_is_stale` and `release`: create
(`OpenCreates`, `OpenFindsFile`), stat (`StatFile`), read (`ReadMetadata`), the
pid check (`CheckPid`), unlink (`UnlinkStale`), the deadline (`CheckDeadline`),
the write (`WriteMetadata`, `WriteRaises`), and the two steps of release. A token
is represented by its owner, which is enough because a process that has created
a file has no earlier file left. Processes die (`Stop`), their pids are given to
others (`ReusePid`), files age (`FileAges`), and the pid check misses a process that
runs (`PidErrors`), each of which a constant switches on. The last happens on Windows
when `tasklist` fails or prints no row for the pid (`locking.py:27-28, 33`), elsewhere
when `kill` raises an `OSError` of another kind (51-52); `disturbed` records it like a
death. `robbed` records whose file was removed by another, `overtaken` who was robbed
between the two steps of its own release: that one then removes whatever stands at
the path, and the property excuses nobody else. Not modelled: errors of `open` other
than an existing file, NFS semantics, metadata written by another program.

### BundleStore, BundlePublish

The store is `dir` (each bundle absent, partial or complete) and `current`. A
publication takes one step per observable operation: check and heal the
bundle's directory (`CheckFinal`), make the temporary directory (`MakeTemp`),
copy everything (`CopyAll`), rename (`Replace`), switch the pointer
(`WritePointer`), visit every directory (`ScanOne`), choose (`ScanDone`) and
remove (`RetireOne`) old bundles, return (`Finish`). It may raise (`Fail`) or die
(`Crash`) before any of them. Removing a directory has two visible steps.
`stamp` is the directory's modification time, which a rename keeps; a bundle
published again keeps its old one. A bundle of another package version is
complete for its readers but not `Usable` for the publisher, which removes it.
The contents of files, the digest and the manifest's format are abstracted to
"complete".

### Serving

One API worker, which may be replaced by another (`Restart`). Each thread's request reads the pointer (`ReadPointer`), checks
the directory (`IsDir`), looks in the cache under its lock (`Lookup`), verifies
(`Verify`), loads (`LoadModels`), records the identity (`SetMetadata`) and
answers (`Answer`) or is refused (`Refuse`); between any two of these publishers
and other threads move. `Servable` stands for the release decision, the policy
and the runtime versions, `Allowed` for the deployment pins. The preload of the
lifespan handler is the first request; `StartupFails` covers both settings of
`REFERENCE_ETA_FAIL_STARTUP_IF_NOT_READY`. Not modelled: the fallback to
artifacts in the root directory (`api.py:330-336`), errors caused by the payload,
the batch limit, what is predicted. The cache has one slot (`api.py:290`): a request
that read an old pointer makes the worker load the old bundle again after the new
one. What the lock excludes is loading a bundle that is cached already
(`NoRepeatedLoad`).

### PipelineRun

A process starts a run (`Start`) for the root outputs or a namespace, takes the
lock of that name (`Acquire`) or is turned away (`TimeOut`), removes the outputs of the
run before it file by file (`Clean`), writes its own in order (`Write`), publishes if it
is a root run (`Install`, `Switch`, `Prune` under the publish lock) and writes the
manifest (`WriteManifest`). It may raise (`Fail`) or die (`Die`) before any of these. A
file is reduced to the run that wrote it; `models`, `extra` (what only the advanced mode
writes) and `decision` stand for the outputs before, between and at the point
where the decision is written. Lock files are per name, so a namespace called
`publish` shares its lock with publication; the run uses one here.

A namespaced run removes its directories with `rmtree(ignore_errors=True)`
(`run_pipeline.py:225-226`): the namespaces in `Sticky` are those of which something may
stay, and a run goes on with it. A root run fails on what it cannot remove. Acquiring is
one step. The lock of a dead owner may be taken, or may time the run out: without
metadata, or from another host, it is stale only by age, and never if its pid is in use
again.

`Verified` namespaces are those of `verify_base_without_torch.py`, which removes them in
`finally` without a lock, also after its run was turned away (`Tidy`): any process that
is asked for such a namespace is a verifier. `Exposed` names the directories
this reaches and a namespace called `data`; `ManifestTrue` and `OwnOutputsOnly` are about
the other directories. What happens in a verifier's is shown by `pipeline_verifier`; a
root run removes `artifacts/data` (243-245) although a run of that namespace, under
another lock, may be writing it. `ManifestTrue` does not say of a `Sticky` directory that
nothing stale is listed: the `rglob` of the manifest (257-258) finds what `rmtree` left.
Not modelled: a namespace called `serving_bundles`, whose run would remove all
bundles; `verify_reproducibility.py`, which does the same to a namespace of its own with
two runs in a row and a removal before the first.

### BodyLimit

Client, server, middleware and application of one request. The client sends,
ends its body or leaves at any moment (`Send`, `Finish`, `Leave`), or does nothing more;
the server hands on what has arrived in pieces; the middleware checks the setting and
the headers (`Begin`), buffers (`Receive`, `Disconnected`) and replays (`AppReceive`).
Bytes are counted. Requests without a body and headers pass through (`Passed`). Server
and application are external: what they may do is taken from the ASGI messages the
middleware exchanges with them. Neither the middleware nor the way the repository starts
uvicorn bounds the time a body may take, so `BodyRequestEnds` is about clients that end their
body, leave, or send more than the limit: a client that stops in the middle of a shorter
body holds its request for as long as the connection stands.

### RollingReplay

One pass of the loop is `NextPrediction`, then `Release` once per due label, then
`Predict`. Times and scores are integers; the target coverage is a fraction.
`IsCorrection` is `np.quantile(method="higher")` stated by counting: the score
of rank `ceil((n - 1) * level)`. Floating-point rounding of `level` is
abstracted. For the coverages the project uses (0.7, 0.8, 0.9, 0.95) and windows
below 2000 the rank computed in floating point is the one of the fraction, by
enumeration. The rank is the finite-sample one or one above it, so the
guarantee holds and may be conservative. The columns that only report counts or
format times are left out.

### Experiment

Rows are reduced to their dates, and everything fitted to the set of dates it
depends on, transitively: a model's rows, the reference features of these rows,
the rows a choice was made by. `Split` is `grouped_temporal_split` with the truncation
of floating-point products (`DateCounts` allows both results where the exact product is
an integer). `CrossFit` is one round of the cross-fitting loop, `OutOfFold` one of the
gated experiment's; the actions after them are the steps of one program each
(`ChooseChampion`, `RefitV2`, `ClaimFinal`, ...). Measures are representatives on
both sides of their thresholds; the mean error without tail rows is nan
(`NoTail`), for which every comparison is false. `Decide` is the release decision.

`made` records every prediction that is used or reported, those of the validation rows
included. The programs stop models early by the validation rows, choose among models and
policies by them, and report the error of the chosen one on the same rows
(`run_catboost_lade_challenger.py:298-300, 380-381`, `run_pipeline.py:606-628, 739`). Such a
number is a measure of the selection and no test. `FromThePast` lets exactly these
pairs pass, a validation row predicted by what validation rows selected, and
nothing else: no calibration or test row, and no row before or after the validation
part.

### Snapshots

A loop over the deliveries of a day. `Features` are what each builder computes at the
query time, with distances on a line and each statistic over a set of tasks replaced by
how often each value occurs (`Tally`), which determines it. `Visit` is one turn of the
loop of the nearest-neighbour path. A day is sorted by delivery and no delivery precedes
its acceptance (`IsDay`), so the completed tasks are its first rows.

Three properties compare the features of a row with those of other days that look
the same at its query time. `LaterThan` are the days on which the deliveries still to
come, all or the last of them, are later (`Postponed`), and the tasks not yet
accepted may be missing (`Listed`): no feature changes (`TimesUnseen`). A feature computed
from the target, or from a task accepted later, would. `SameUntil` are those in which the
visible tasks are in addition delivered in another order (`Reordered`): no feature but
`remaining_workload` changes (`OthersFromPast`). That one does (`FeaturesFromPast`, run
`evaluation_ties`): the nearest-neighbour walk (`lade.py:159-170`) takes the first of the
nearest tasks, and the rows are in the order of delivery. The places 0, 1, 2 and 4 have
such ties. On coordinates rounded to a grid, exact ties between different places
do occur in the computed distances; tasks at equal coordinates are one place and harmless.
Without ties the walk is a function of what is visible as well (`KnownTasksDecide`,
section 4). Not modelled: the normalisation of the raw frame (`lade.py:21-104`),
weather, congestion and package columns.

### RouteSearch

`Greedy` appends the stop of least score; stops of equal score are chosen among freely,
because the code takes `min` over a set of identifiers. `TryTurn` is one iteration of the
inner loop, `EndPass` the end of a pass. Times and penalties are integers, so `<` needs
no tolerance; in the code a turn must gain more than 1e-9, and the order the search ends
with is one that no turn improves by more. `kind` distinguishes the search in the
plane from the one on a matrix of travel times with a return to the station. Not
modelled: the nearest-neighbour orders, which are `Greedy` without windows, and the
loader.

### Cohorts

`StartPilot`, ..., `StartFinal` are the scripts up to their output: ranks, quotas, the
exclusion each makes and its checks. `Save` and `WriteReport` write the CSV and the
report; `Die` kills a script before, in the middle of, or after its CSV; `Remove` is the
deletion of both by hand or by the PowerShell runner of the V2 cohorts, after which the
runner starts the script; `Evaluate` is the final benchmark, which trusts the report and
reads the CSV beside it. `ByRunner` says which of the V2 scripts are started by their
runner only, `Stuck` what its `Remove-Item -ErrorAction SilentlyContinue` may leave. Filters
are reduced to the set of days that survive them (`kept`). The model shows four things the
properties have to make room for: the confirmatory script takes fewer days than its
quota without an error and may write none; its exclusion is optional (the default is no
CSV); with different `--max-courier-days` the selections may overlap; and a script
started by hand leaves the report of an earlier run beside the CSV it is writing. The V2
development script compares its selection with no CSV, although its report calls the
cohort fully disjoint. `Isolated` states what remains of the separation: equal totals,
and a confirmatory cohort that excluded nothing but days the pilot had selected.
`EvaluatedAsReported` is about the pair of files the benchmark reads without comparing
them: it holds behind a runner that has removed the report. Of a script started by hand
over earlier files and killed in its CSV it does not hold: the benchmark then reads a
truncated CSV under the earlier report (with `ByRunner` empty TLC finds a trace of
fourteen steps).

### StepRunner

`leader` is the process of the attempt, `child` stands for everything it has
started in its group. Processes end when and how they like (`LeaderEnds`,
`ChildEnds`), also between the poll, the deadline check and the signal, or not at all:
a process that was killed is `doomed` and may still be there when the second wait of
`terminate_process_tree` times out (`Reap`; `process_control.py:58-59, 83-86`). On Windows
the signals may be refused (`LeaveAlone`), the kill may raise (`KillRaises`), and a log
that a survivor holds open ends the release (`LogHeldOpen`). The runner's flags are those
of the code. `KeyboardInterrupt` is caught only in the sleep (`InterruptSleep`);
anywhere else (`InterruptElsewhere`) the runner is gone and terminates nobody. `orphans`
records what still runs of attempts that were told to end, and whether it has been
killed. The order of the steps is `1..NSteps`; what they do is left out.

## 3. What is checked

| Run | Properties | Result |
|---|---|---|
| `lock` | types, `ExclusiveUntilDisturbed`, `OwnerKeepsFile`, `AcquireReturns`, `DeadOwnerRecovered` | hold |
| `lock_race` | `MutualExclusion` | violated |
| `publish` | types, `PointerNamesComplete`, `NewestKept`, `TempOnlyOfDead`, `SettledClean`, `ImplementsStore` | hold |
| `publish_rmtree` | `PointerNamesComplete` | violated |
| `pipeline` | types, `BundleOfOneRun`, `ManifestTrue`, `PublishedIsCurrent`, `NoCircularWait`, `OwnOutputsOnly` | hold |
| `pipeline_verifier` | `LockedOutputs` | violated |
| `api` | types and lock discipline, `AnswersFromCurrent`, `HeaderNamesBundle`, `RequestEnds`; `WholeBodyOrNone`, `RefusedForSize`, `BodyRequestEnds` | hold |
| `serving_keeps` | `KeepsServing` | violated |
| `steps` | types, `PassedByItself`, `OverlapIsDying`, `ReleaseEnds` | hold |
| `steps_tree` | `NoDescendantLeft` | violated |
| `evaluation` | `NoLookAhead`, `WindowIsLatest`, `CoversTarget`, `IntervalHolds`; `SplitInOrder`, `FromThePast`, `ClaimSawTail`; `TimesUnseen`, `OthersFromPast`; `SearchSound`; `Isolated`, `EvaluatedAsReported` | hold |
| `evaluation_ties` | `FeaturesFromPast` | violated |

The six violated properties are statements of the repository that the code does
not meet:

- `lock_race`. `acquire` judges a file stale and then unlinks the path
  (`locking.py:120-122`). Two waiters that both judged the file of a process that
  has exited: the first unlinks it and creates its own, the second unlinks that
  one. Both hold the lock. No crash is needed: a holder that releases and exits
  while a waiter is between reading its metadata and checking its pid is
  enough. README.md:196 calls the lock exclusive.
- `publish_rmtree`. A damaged bundle directory that cannot be removed completely
  (`run_pipeline.py:155` ignores errors) is taken for the bundle by the next line,
  and the pointer is switched to it.
- `serving_keeps`. The pipeline publishes whatever its gates decided; a bundle
  the worker must refuse makes requests fail although a verified model is in
  memory, against README.md:198-199.
- `steps_tree`. A descendant that outlives the leader is not signalled again,
  and on Windows never killed; docs/WINDOWS_RUNBOOK.md:24-26 promises
  `taskkill /T /F`, which nothing calls.
- `pipeline_verifier`. `verify_base_without_torch.py:41-44` removes the outputs in
  `finally` without the lock, also when its run was turned away because another one is
  at work on them. README.md:196 says locks guard pipeline operations.
- `evaluation_ties`. `lade.py:205-206` says that delivery timestamps are used for labels
  only; of equally near tasks the walk behind `remaining_workload` takes the one
  delivered first (166, rows sorted at 222).

### Bounds

- `lock`: three processes, two on one host. The races are between a judge, an
  owner and a third that creates in between; two hosts give both staleness rules.
- `publish`: four versions, two retained, one bundle of another package version,
  two publishers of which each may die. Four installs fill the retention and
  prune twice; a version can be published again after others, and after it was
  pruned.
- `api`: two threads, so that one waits for the lock while the other loads;
  three bundles, of which one may not be served; two switches of the pointer, which
  may return to an earlier bundle; a limit of two bytes, bodies up to four in pieces,
  declared lengths on both sides of the limit, missing and invalid, and an invalid setting.
- `pipeline`: two processes, both of which run the root pipeline and the same
  verifier; one also uses a namespace called `publish`, the other one that `rmtree` may
  not empty; three runs, one fault. A fault leaves files and locks that a later run
  meets while another process is between any two of its steps. `pipeline_verifier` has two
  runs and no fault.
- `evaluation`: the replay has four predictions over a window of four, initially
  full, and labels at most one after the last time: every order of four labels
  occurs and every score of the initial window can be displaced. A target of 1/2
  makes the rank with the finite-sample correction differ from the plain one at
  this size. Experiments have up to eleven dates, three more than the split
  accepts, with the fractions of the configurations and others that leave parts
  empty, and two to five blocks. Days have four tasks, the least from which a
  snapshot is made, two of which may be accepted later or delivered together, on places
  with ties, and deliveries that may come later.
  Routes have four stops on two asymmetric matrices, with more passes than any
  search uses.
  Cohorts have two cities with four days, totals that give equal and unequal quotas and
  of which the larger is enough for two cohorts only; five starts, which is one of
  each script and a rerun; two scripts at a time, one killed. The final script is
  started by its runner, whose removal may leave the CSV.
- `steps`: three steps, the middle one retryable, both platforms, both settings
  of `REFERENCE_ETA_IGNORE_INTERRUPT`.

Runs say `CHECK_DEADLOCK FALSE` because the systems really stop: processes exit,
publishers die, bounds on time, switches and installs are reached, a release is
over.

### Fairness

- `FileLock`: a live process takes its next step, a deadline passes. Nobody must
  leave the critical section, and nothing is assumed of crashes or ageing.
- `Serving`: a thread that can run does. The lookup has strong fairness: a
  `threading.Lock` does not queue its waiters, and `RequestEnds` assumes that it
  does not pass over one of them for ever.
- `BodyLimit`: middleware, server and application go on. Nothing is assumed of the
  client.
- `StepRunner`: the runner runs and time passes. No process of a step must end, not even
  one that was killed.

`PipelineRun` has no liveness property: a run lasts as long as its work, and a lock it
waits for times out.

## 4. What is proved

All proofs hold for every value of the constants that satisfies the module's
assumption; conditions beyond that are in the statement. The bounds of the runs
(numbers of runs, starts, faults, dates) are constants of which nothing but their
type is assumed.

| Theorem | Says | Argument |
|---|---|---|
| `FileLockProofs!TypeCorrect`, `OwnerKeepsItsFile` | `TypeOK`, `OwnerKeepsFile` | the second is inductive with the first: each step at the path either belongs to the owner or marks it as robbed; a release removes only what is its own, unless it was overtaken |
| `FileLockProofs!ExclusionUntilDisturbed` | `ExclusiveUntilDisturbed` | `Undisturbed`: as long as nothing has died or aged and no pid check has failed nobody judges a file stale, so nobody is robbed; with `OwnerKeepsFile`, two owners would both own the one file |
| `FileLockProofs!ExclusionWithoutFaults` | `MutualExclusion`, if no process ends, no file ages and the pid check sees every living process (`PidErrors` is FALSE) | `disturbed` stays false |
| `BundlePublishProofs!TypeCorrect` | `TypeOK` | - |
| `BundlePublishProofs!PointerAlwaysComplete` | `PointerNamesComplete`, if rmtree leaves nothing | `Sound`: the pointer's target is complete, and what each step is about to rename, name or remove is complete, complete and not current respectively |
| `BundlePublishProofs!PublishImplementsStore` | `ImplementsStore`, if rmtree leaves nothing | under `Sound` each step is an operation of `BundleStore` or leaves it unchanged |
| `BundlePublishProofs!NewestAlwaysKept` | `NewestKept`, whatever rmtree leaves | `Stamped`: installations have distinct times, so a bundle with n newer ones is at least n installations old (`NewerBound`, by an injection into an interval), and only those with `Keep` newer ones are retired |
| `BundlePublishProofs!TempAlwaysOfDead` | `TempOnlyOfDead`, if rmtree does not fail | inductive with `TypeOK`: who leaves `copy` or `replace` alive has renamed or removed the directory |
| `BundlePublishProofs!SettledAlwaysClean` | `SettledClean`, if rmtree does not fail | `Tidied`: what the scan and the retirement no longer have to visit is usable, and what retirement no longer has to visit is few; `NewestAreFew` counts the bundles with fewer than `Keep` newer ones from the oldest of them |
| `BodyLimitProofs!WholeBody`, `RefusalsForSize` | `WholeBodyOrNone`, `RefusedForSize`, for any limit, declaration and pieces | `Counted`: buffered is what was taken, and the application is called when all that was sent is taken |
| `ServingProofs!TypeCorrect` | `TypeOK` with the lock discipline | with `Typed`: past `ReadPointer` a request holds a bundle id |
| `ServingProofs!AnswersAreCurrent`, `HeadersNameBundles`, `ServesOnlyServable`, `LoadsAreNotRepeated` | `AnswersFromCurrent`, `HeaderNamesBundle`, `OnlyServable`, `NoRepeatedLoad` | `Honest`: what each request has read, was handed and has recorded was current during it and verified by this worker; the thread that verifies or loads is the one that holds the lock, so nobody fills the cache before it |
| `ReplayProofs!TypeCorrect`, `NeverLooksAhead`, `IntervalsHold` | `TypeOK`, `NoLookAhead`, `IntervalHolds` | entries enter by `PushEntry`, past labels never change (`PastGrows`), clipping keeps order and cover (`ClippingIsSafe`) |
| `ReplayProofs!CorrectionsCover` | `CoversTarget`, for any target coverage and window | `RankOfLevel`: the rank is one of the window's and reaches the level; `CorrectionExists`: the least score with more than that many at or below it has it |
| `ReplayProofs!WindowsAreLatest` | `WindowIsLatest`, for any number of predictions and label times | `Merged`: some order of the labels that left the heap, each sooner than the next, fills the window, and all of them are known and sooner than what is in the heap; `LastOfAppend`: the last entries of a sequence grow as the deque does |
| `ReplayProofs!SearchAlwaysSound` | `SearchSound`, for any stops, travel times and windows | `Searched`, below; `TurnedKeeps`: a turn permutes the order; `ObjectiveType`: an order's cost is a number, by a least counterexample along its stops |
| `ReplayProofs!KnownTasksDecide` | two days that look alike at a time have the same features then: all but `remaining_workload` on any places, all of them without ties or if the visible tasks are paired in their order | `LookAlike`: equal completed tasks, and a bijection of the tasks accepted by then that keeps places and times of acceptance; below |
| `ReplayProofs!TimesAlwaysUnseen`, `OthersAlwaysFromPast` | `TimesUnseen`, `OthersFromPast`, for any days, places, delays and builders | `Described`: a snapshot is the features of the day at one of its deliveries; `PostponedAlike`, `ListedAlike`, `ReorderedAlike`: the days compared look alike |
| `StepRunnerProofs!TypeCorrect` | `TypeOK` | flags, processes and progress are each inductive |
| `StepRunnerProofs!StepsPassByThemselves` | `PassedByItself` | `Remembered`: from the signal to the next attempt of the step a flag is set, and a step passes only with both flags clear |
| `StepRunnerProofs!OverlapsAreDying` | `OverlapIsDying`, for any steps | who leaves `terminate_process_tree` with a living leader has passed the kill, which on POSIX reaches the group |
| `PipelineRunProofs!TypeCorrect` | `TypeOK` | - |
| `PipelineRunProofs!BundlesOfOneRun`, `ManifestsTrue`, `ReportsWhatIsServed`, `OutputsAreOwn` | `BundleOfOneRun`, `ManifestTrue`, `PublishedIsCurrent`, `OwnOutputsOnly`, for any processes, namespaces and verifiers | `IInv` (`RunsKeepApart`), below |
| `PipelineRunProofs!NobodyWaitsInACircle` | `NoCircularWait` | who waits and is waited for holds a lock, so it waits for the publish lock; two such in a row would make the second the holder of that lock, which `IInv` says is past waiting for it |
| `EvidenceProofs!CohortsTyped` | `CohortsTypeOK` | - |
| `EvidenceProofs!EvaluatedReported` | `EvaluatedAsReported`, if the runner starts the final script and its removal of the report does not fail | `Vouched`: as long as the report is there, the CSV is the one it is about and no final script runs |
| `EvidenceProofs!CohortsIsolated` | `Isolated`, for any data, ranks, filters and totals | `OriginInv` (`OriginKnown`): what each CSV and each running script's days were taken from; `ConfirmatoryCovered`: whatever days of the pilot the confirmatory script left out, what it took is the pilot's or recomputed by the V2 scripts, because a smaller pool only moves a day forward |
| `EvidenceProofs!SplitsInOrder` | `SplitInOrder`, for any number of dates and any fractions | `CutsRight`: the clamped cuts are strictly increasing |
| `EvidenceProofs!AllFromThePast` | `FromThePast` with its exception, for any number of dates and blocks | `Dated` (`Bounded`), below; `BlockStart` is monotone |
| `EvidenceProofs!ClaimsSawTail` | `ClaimSawTail` | `OutcomeRight`: a challenger chosen under a tail guardrail has seen tail rows, and that choice stays to the claim |

Why the strengthenings are needed: `PointerNamesComplete` says nothing of a
publication half-way, which could then rename an incomplete directory or prune
the current bundle. `PassedByItself` says nothing of the flags, without which
a signalled process that answers 0 would pass. `BundleOfOneRun` says nothing of
the root outputs a bundle is about to be made of: `Origin`, `Holds` and `Progress`
say that a file carries a run of its directory, that a run at work holds the lock
of its outputs, and that what lies there is its own as far as it has got.
`FromThePast` says nothing of what the next prediction will be made by:
`FittedPast` bounds each model, gate and choice by the cut after which it is first
used. `Isolated` says nothing of where a CSV's days came from. `WindowIsLatest`
speaks of moments when no due label is left; `Merged` says at every moment which labels
the window has seen. `SettledClean` speaks of the end of a publication; `Tidied` says how
far it has got. `SearchSound` speaks of the end of a search; `Searched` says that as long as
a pass has improved nothing, none of the turns it has tried (`Tried`) is better than the
order it still holds, and that the loops skip only the pairs that would turn
less than two stops.

`KnownTasksDecide` is about days of any length, with the visible tasks delivered at any
later times and any tasks accepted later. Sums and counts over a set do not depend on which
rows hold its tasks, so a bijection is enough (`PartsCount`, `TalliesAgree`); what depends on
an order is taken from the completed tasks, which are the same rows. The start of the day is a
minimum over all tasks, but no later than the first delivery (`StartKnown`). The
nearest-neighbour path is the one feature that walks over the visible tasks: `VisitAbreast`
takes the two walks one turn further, to the same place, and repairs the pairing of what is
left when the two have visited tasks that were not partners.

Two properties of `PipelineRun` leave out the directories in `Exposed`, for which they do
not hold: the one called `data`, which root runs remove, and that of a verifier which
several processes run, because a verifier removes it without the lock. What goes wrong
there is said in section 2. The root outputs are never
exposed, so what is published rests on no such condition.

Only model-checked: liveness (`AcquireReturns`, `DeadOwnerRecovered`, `ReleaseEnds`,
`RequestEnds`, `BodyRequestEnds`), because liveness under fairness is beyond the prover. Every safety property
of a passing run is proved. Proved and in no run: `OnlyServable` and `NoRepeatedLoad` of
`Serving`, `TypeOK` of `RollingReplay`, `CohortsTypeOK`.

## 5. What is left, and what is not modelled

Worth doing next, in this order:

1. The legacy fallback of the API to artifacts in the root directory, and the
   policy fields of a bundle.
2. `verify_reproducibility.py` as a second kind of verifier with two runs in a row.

Not modelled:

- Model training, feature numerics, metrics, drift: floating-point results that
  neither TLC nor the provers can decide, in code without state that steps
  interleave on. `Experiment` models what they depend on.
- Split conformal calibration and triage: one quantile, one sort and prefix per
  call. Their rows are in `Experiment`, the rank and clipping in `RollingReplay`.
- Manifests and handoff: hashing, archive and SBOM formats, sequential input and
  output on a tree that nothing else writes.
- LaDe audits, configuration, synthetic data, reports, CLI, tasks, SQL and
  launchers: statistics, formatting and starting of the other parts.

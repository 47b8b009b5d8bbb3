------------------------------ MODULE StepRunner ------------------------------
(***************************************************************************)
(* The release chain (src/scripts/release.py): steps run one after another,*)
(* each in a process group of its own under a deadline, with one retry     *)
(* after a timeout for some.  terminate_process_tree                       *)
(* (src/src/reference_eta/process_control.py) ends an attempt that is late *)
(* or interrupted.                                                         *)
(*                                                                         *)
(* An attempt is the process the runner starts (the leader) and, standing  *)
(* for all it may start itself, one descendant in its group.               *)
(***************************************************************************)
EXTENDS Naturals

CONSTANTS
  NSteps,      \* number of steps
  Retryable    \* the steps with retry_on_timeout

ASSUME RunnerAssumption ==
  /\ NSteps \in Nat \ {0}
  /\ Retryable \subseteq 1..NSteps

VARIABLES
  platform,     \* os.name
  ignoring,     \* REFERENCE_ETA_IGNORE_INTERRUPT
  pc,           \* where the runner is
  step, attempt,
  late,         \* has the deadline of this attempt passed?
  timedOut, interrupted,
  leader,       \* the process of this attempt: "none", "up", "doomed" or "down"
  code,         \* its return code
  child,        \* its descendant
  passed,       \* steps reported as PASS
  orphans,      \* auxiliary: what still runs of the attempts that
                \* terminate_process_tree was to end and has returned from:
                \* which attempt, which process, whether it has been killed
  signalled     \* auxiliary: steps whose last attempt was sent a signal

runner == <<platform, ignoring>>
progress == <<step, attempt, passed, orphans>>
processes == <<leader, code, child>>
flags == <<late, timedOut, interrupted>>
vars == <<platform, ignoring, pc, step, attempt, late, timedOut, interrupted,
          leader, code, child, passed, orphans, signalled>>

Ended == {"released", "failed", "aborted"}
Watching == {"poll", "deadline", "sleep"}
Running(s) == s \in {"up", "doomed"}

Init ==
  /\ platform \in {"posix", "nt"} /\ ignoring \in BOOLEAN
  /\ pc = "spawn" /\ step = 1 /\ attempt = 1
  /\ late = FALSE /\ timedOut = FALSE /\ interrupted = FALSE
  /\ leader = "none" /\ code = "none" /\ child = "none"
  /\ passed = {} /\ orphans = {} /\ signalled = {}

-----------------------------------------------------------------------------
(* _run_step *)

\* Popen, in a session or group of its own.
StartAttempt ==
  /\ pc = "spawn"
  /\ leader' = "up" /\ code' = "none" /\ child' = "none"
  /\ late' = FALSE /\ timedOut' = FALSE /\ interrupted' = FALSE
  /\ pc' = "poll"
  /\ signalled' = signalled \ {step}
  /\ UNCHANGED <<runner, progress>>

\* while process.poll() is None
Poll ==
  /\ pc = "poll"
  /\ pc' = IF leader = "down" THEN "collect" ELSE "deadline"
  /\ UNCHANGED <<runner, progress, processes, flags, signalled>>

\* A mutant: the loop waits for the process however late it is.
NoDeadline ==
  /\ pc = "deadline"
  /\ pc' = "sleep"
  /\ UNCHANGED <<runner, progress, processes, flags, signalled>>

\* The deadline is looked at whether or not interrupts are ignored.
CheckDeadline ==
  /\ pc = "deadline"
  /\ \/ late /\ timedOut' = TRUE /\ pc' = "term"
     \/ ~late /\ pc' = "sleep" /\ UNCHANGED timedOut
  /\ UNCHANGED <<runner, progress, processes, late, interrupted, signalled>>

Sleep ==
  /\ pc = "sleep"
  /\ pc' = "poll"
  /\ UNCHANGED <<runner, progress, processes, flags, signalled>>

\* KeyboardInterrupt while asleep: ignored, or the attempt is terminated.
InterruptSleep ==
  /\ pc = "sleep" /\ ~ignoring
  /\ interrupted' = TRUE
  /\ pc' = "term"
  /\ UNCHANGED <<runner, progress, processes, late, timedOut, signalled>>

\* Anywhere else nothing catches it: the runner leaves, releases its lock, and
\* terminates nobody.
InterruptElsewhere ==
  /\ pc \notin Ended \union {"sleep"}
  /\ pc' = "aborted"
  /\ UNCHANGED <<runner, progress, processes, flags, signalled>>

-----------------------------------------------------------------------------
(* terminate_process_tree *)

Doom(s) == IF s = "up" THEN "doomed" ELSE s

\* A process that has ended by now is left alone; otherwise the whole group is
\* asked to end (SIGTERM, CTRL_BREAK) and may or may not do so.  On Windows
\* neither CTRL_BREAK nor terminate() may be possible: the function returns.
AskToEnd ==
  /\ pc' = "grace"
  /\ signalled' = signalled \union {step}
  /\ leader' \in {leader, Doom(leader)}
  /\ child' \in {child, Doom(child)}
LeaveAlone == pc' = "collect" /\ UNCHANGED <<leader, child, signalled>>
Terminate ==
  /\ pc = "term"
  /\ \/ leader # "down" /\ AskToEnd
     \/ (leader = "down" \/ platform = "nt") /\ LeaveAlone
  /\ UNCHANGED <<runner, progress, code, flags>>

\* process.wait(timeout=grace_seconds): only the leader is waited for.
Grace ==
  /\ pc = "grace"
  /\ \/ leader = "down" /\ pc' = "collect"
     \/ leader # "down" /\ pc' = "kill"
  /\ UNCHANGED <<runner, progress, processes, flags, signalled>>

\* A mutant: whoever has not answered SIGTERM is left running.
KillNobody ==
  /\ pc = "kill"
  /\ pc' = "collect"
  /\ UNCHANGED <<runner, progress, processes, flags, signalled>>

\* SIGKILL reaches the whole group on POSIX, process.kill() the leader on Windows.
Kill ==
  /\ pc = "kill"
  /\ pc' = "reap"
  /\ leader' = Doom(leader)
  /\ child' = IF platform = "posix" THEN Doom(child) ELSE child
  /\ UNCHANGED <<runner, progress, code, flags, signalled>>

\* On Windows process.kill() may raise for a process that is still there, and
\* nothing catches that: the runner leaves.
KillRaises ==
  /\ pc = "kill" /\ platform = "nt"
  /\ leader # "down"
  /\ pc' = "aborted"
  /\ UNCHANGED <<runner, progress, processes, flags, signalled>>

\* The second wait returns when the process has ended or when it times out; that
\* the process has not ended makes no difference.
Reap ==
  /\ pc = "reap"
  /\ pc' = "collect"
  /\ UNCHANGED <<runner, progress, processes, flags, signalled>>

-----------------------------------------------------------------------------
(* the outcome of an attempt *)

\* What runs on of an attempt.
Survivors ==
  {[step |-> step, attempt |-> attempt, who |-> "leader", is |-> r] :
     r \in {leader} \cap {"up", "doomed"}} \union
  {[step |-> step, attempt |-> attempt, who |-> "child", is |-> r] :
     r \in {child} \cap {"up", "doomed"}}
StopsTerminated ==
  orphans' = IF timedOut \/ interrupted THEN orphans \union Survivors
             ELSE orphans

\* Mutants: the return code is looked at before the timeout; every step that is
\* late is tried again.
SucceededByCode == code = "ok"
RetryAnyStep == timedOut /\ attempt < 2

Succeeded == ~timedOut /\ code = "ok"
RetryDue == timedOut /\ step \in Retryable /\ attempt < 2

\* On Windows the log of an attempt cannot be removed while one of its processes
\* holds it open: the error is none that the release expects.
LogHeldOpen ==
  /\ pc = "collect" /\ platform = "nt"
  /\ Survivors # {}
  /\ pc' = "aborted"
  /\ StopsTerminated
  /\ UNCHANGED <<runner, step, attempt, passed, processes, flags, signalled>>

Fail ==
  /\ pc = "collect"
  /\ interrupted \/ (~Succeeded /\ ~RetryDue)
  /\ pc' = "failed"
  /\ StopsTerminated
  /\ UNCHANGED <<runner, step, attempt, passed, processes, flags, signalled>>

Retry ==
  /\ pc = "collect"
  /\ ~interrupted /\ ~Succeeded /\ RetryDue
  /\ attempt' = attempt + 1
  /\ pc' = "spawn"
  /\ StopsTerminated
  /\ UNCHANGED <<runner, step, passed, processes, flags, signalled>>

\* A step that passes is followed by the next; after the last the release is done.
Pass ==
  /\ pc = "collect"
  /\ ~interrupted /\ Succeeded
  /\ passed' = passed \union {step}
  /\ \/ step < NSteps /\ step' = step + 1 /\ attempt' = 1 /\ pc' = "spawn"
     \/ step = NSteps /\ pc' = "released" /\ UNCHANGED <<step, attempt>>
  /\ UNCHANGED <<runner, orphans, processes, flags, signalled>>

-----------------------------------------------------------------------------
(* the processes and time *)

\* A process that is up ends when and how it likes; one that was signalled may
\* still end with 0.
LeaderEnds ==
  /\ Running(leader)
  /\ leader' = "down"
  /\ code' \in {"ok", "bad"}
  /\ UNCHANGED <<runner, progress, pc, flags, child, signalled>>

ChildStarts ==
  /\ leader = "up" /\ child = "none"
  /\ child' = "up"
  /\ UNCHANGED <<runner, progress, pc, flags, leader, code, signalled>>

ChildEnds ==
  /\ Running(child)
  /\ child' = "none"
  /\ UNCHANGED <<runner, progress, pc, flags, leader, code, signalled>>

OrphanEnds ==
  /\ \E o \in orphans : orphans' = orphans \ {o}
  /\ UNCHANGED <<runner, step, attempt, passed, pc, processes, flags, signalled>>

DeadlinePasses ==
  /\ pc \in Watching /\ ~late
  /\ late' = TRUE
  /\ UNCHANGED <<runner, progress, pc, processes, timedOut, interrupted, signalled>>

RunnerStep ==
  \/ StartAttempt \/ Poll \/ CheckDeadline \/ Sleep
  \/ Terminate \/ Grace \/ Kill \/ Reap \/ Fail \/ Retry \/ Pass

Next ==
  \/ StartAttempt \/ Poll \/ CheckDeadline \/ Sleep
  \/ InterruptSleep \/ InterruptElsewhere
  \/ Terminate \/ Grace \/ Kill \/ KillRaises \/ Reap
  \/ LogHeldOpen \/ Fail \/ Retry \/ Pass
  \/ LeaderEnds \/ ChildStarts \/ ChildEnds \/ OrphanEnds \/ DeadlinePasses

(***************************************************************************)
(* The runner runs and time passes.  Nothing makes the process of a step   *)
(* end, not even that it was killed: every wait of the runner is bounded.  *)
(***************************************************************************)
Fairness ==
  /\ WF_vars(RunnerStep)
  /\ WF_vars(DeadlinePasses)

Spec == Init /\ [][Next]_vars
FairSpec == Spec /\ Fairness

-----------------------------------------------------------------------------
(* properties *)

FlagsOK ==
  /\ ignoring \in BOOLEAN
  /\ late \in BOOLEAN /\ timedOut \in BOOLEAN /\ interrupted \in BOOLEAN

ProcessesOK ==
  /\ leader \in {"none", "up", "doomed", "down"}
  /\ code \in {"none", "ok", "bad"}
  /\ code = "none" <=> leader # "down"
  /\ child \in {"none", "up", "doomed"}

ProgressOK ==
  /\ platform \in {"posix", "nt"}
  /\ pc \in Watching \union Ended \union
            {"spawn", "term", "grace", "kill", "reap", "collect"}
  /\ step \in 1..NSteps /\ attempt \in 1..2
  /\ attempt = 2 => step \in Retryable
  /\ orphans \subseteq [step : 1..NSteps, attempt : 1..2,
                        who : {"leader", "child"}, is : {"up", "doomed"}]
  /\ passed \subseteq 1..NSteps
  /\ signalled \subseteq 1..NSteps

\* A return code belongs to a process that has ended, a second attempt to a step
\* that may be retried.
TypeOK == FlagsOK /\ ProcessesOK /\ ProgressOK

\* A step is reported as PASS only if its last attempt ended by itself: one that
\* was told to end does not pass, even if it answers with return code 0; and the
\* steps pass in order, all of them before the release is completed.
PassedByItself ==
  /\ passed \cap signalled = {}
  /\ passed = IF pc = "released" THEN 1..NSteps ELSE 1..(step - 1)

\* A retry, or a later run of the release, may start while a process of an ended
\* attempt is still running and writing the same outputs: the waits of
\* terminate_process_tree are bounded.  But on POSIX a leader that is still there
\* has been killed, and so has everything in its group.  (On Windows the system
\* may refuse the signals, and no descendant is killed; on POSIX a descendant
\* whose leader ended on SIGTERM is not either: NoDescendantLeft.)
OverlapIsDying ==
  platform = "posix" =>
    \A o \in orphans : o.who = "leader" =>
      /\ o.is = "doomed"
      /\ \A c \in orphans :
           c.step = o.step /\ c.attempt = o.attempt => c.is = "doomed"

\* docs/WINDOWS_RUNBOOK.md:24-26 "On interruption or step timeout, the release
\* watchdog attempts `taskkill /T /F` so descendant Python, LightGBM, and PyTorch
\* processes are not left running."
\* (None is, then, of an attempt that could be signalled at all.)
NoDescendantLeft ==
  \A o \in orphans : o.who = "child" => o.step \notin signalled

\* Whatever the processes of its steps do, the release ends.
ReleaseEnds == <>(pc \in Ended)

=============================================================================

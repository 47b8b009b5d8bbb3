--------------------------- MODULE StepRunnerProofs ---------------------------
(***************************************************************************)
(* StepRunner for any number of steps, whichever of them may be retried.   *)
(***************************************************************************)
EXTENDS StepRunner, TLAPS

USE DEF runner, progress, processes, flags

\* Every step keeps the flags Boolean.
LEMMA FlagsInvariant == Spec => []FlagsOK
<1> USE DEF FlagsOK
<1>1. Init => FlagsOK
  BY DEF Init
<1>2. FlagsOK /\ [Next]_vars => FlagsOK'
  BY DEF Next, vars, StartAttempt, Poll, CheckDeadline, Sleep, InterruptSleep, InterruptElsewhere, Terminate, AskToEnd, LeaveAlone, Grace, Kill, KillRaises, Reap, LogHeldOpen, Fail, Retry, Pass, LeaderEnds, ChildStarts, ChildEnds, OrphanEnds, DeadlinePasses
<1> QED
  BY <1>1, <1>2, PTL DEF Spec

\* Every step keeps the processes in their states: a process has a return code
\* exactly if it has ended.
LEMMA ProcessesInvariant == Spec => []ProcessesOK
<1> USE DEF ProcessesOK
<1>1. Init => ProcessesOK
  BY DEF Init
<1>2. ProcessesOK /\ [Next]_vars => ProcessesOK'
  BY DEF Next, vars, StopsTerminated, Survivors, Running, Doom, StartAttempt, Poll, CheckDeadline, Sleep, InterruptSleep, InterruptElsewhere, Terminate, AskToEnd, LeaveAlone, Grace, Kill, KillRaises, Reap, LogHeldOpen, Fail, Retry, Pass, LeaderEnds, ChildStarts, ChildEnds, OrphanEnds, DeadlinePasses
<1> QED
  BY <1>1, <1>2, PTL DEF Spec

\* What is left of the attempts an attempt joins is described as they are.
LEMMA OrphansTyped == ProgressOK /\ StopsTerminated =>
  orphans' \subseteq [step : 1..NSteps, attempt : 1..2,
                     who : {"leader", "child"}, is : {"up", "doomed"}]
BY DEF ProgressOK, StopsTerminated, Survivors

\* Every step keeps the runner within its steps: only one that may be retried has
\* a second attempt.
LEMMA ProgressInvariant == Spec => []ProgressOK
<1> USE RunnerAssumption DEF RunnerAssumption, ProgressOK, Watching, Ended
<1>1. Init => ProgressOK
  BY DEF Init
<1>2. ProgressOK /\ [Next]_vars => ProgressOK'
  <2> SUFFICES ASSUME ProgressOK, [Next]_vars PROVE ProgressOK'
    OBVIOUS
  <2>1. CASE StartAttempt \/ Poll \/ CheckDeadline \/ Sleep
    BY <2>1 DEF StartAttempt, Poll, CheckDeadline, Sleep
  <2>2. CASE InterruptSleep \/ InterruptElsewhere
    BY <2>2 DEF InterruptSleep, InterruptElsewhere
  <2>3. CASE Terminate \/ Grace \/ Kill \/ Reap
    BY <2>3 DEF Terminate, AskToEnd, LeaveAlone, Grace, Kill, Reap
  <2>4. CASE LogHeldOpen \/ Fail \/ KillRaises
    BY <2>4, OrphansTyped DEF LogHeldOpen, Fail, KillRaises
  <2>5. CASE Retry
    BY <2>5, OrphansTyped DEF Retry, RetryDue
  <2>6. CASE Pass
    BY <2>6 DEF Pass
  <2>7. CASE LeaderEnds \/ ChildStarts \/ ChildEnds \/ OrphanEnds \/ DeadlinePasses
    BY <2>7 DEF LeaderEnds, ChildStarts, ChildEnds, OrphanEnds, DeadlinePasses
  <2>8. CASE UNCHANGED vars
    BY <2>8 DEF vars
  <2> QED
    BY <2>1, <2>2, <2>3, <2>4, <2>5, <2>6, <2>7, <2>8 DEF Next
<1> QED
  BY <1>1, <1>2, PTL DEF Spec

\* Every step keeps the variables in their types; a return code belongs to a
\* process that has ended, a second attempt to a step with a retry.
THEOREM TypeCorrect == Spec => []TypeOK
<1>1. FlagsOK /\ ProcessesOK /\ ProgressOK => TypeOK
  BY DEF TypeOK
<1> QED
  BY <1>1, FlagsInvariant, ProcessesInvariant, ProgressInvariant, PTL

(***************************************************************************)
(* What PassedByItself rests on: from the signal until the next attempt of *)
(* the step starts, the runner remembers in timedOut or interrupted that   *)
(* it has told the process to end.                                         *)
(***************************************************************************)
Remembered ==
  /\ PassedByItself
  /\ pc \in {"term", "grace", "kill", "reap"} => timedOut \/ interrupted
  /\ step \in signalled => timedOut \/ interrupted
  /\ signalled \subseteq 1..step

\* Every step of the runner, the processes and time keeps that memory.
LEMMA RememberedInvariant == Spec => []Remembered
<1> USE DEF PassedByItself
<1>1. Init => Remembered
  BY DEF Init, Remembered
<1>2. TypeOK /\ Remembered /\ [Next]_vars => Remembered'
  <2> SUFFICES ASSUME TypeOK, Remembered, [Next]_vars PROVE Remembered'
    OBVIOUS
  <2> USE RunnerAssumption DEF RunnerAssumption, Remembered
  <2>0. step \in 1..NSteps /\ step \in Nat
    BY DEF TypeOK, ProgressOK
  <2>1. CASE StartAttempt
    BY <2>0, <2>1 DEF StartAttempt
  <2>2. CASE Poll \/ Sleep
    BY <2>0, <2>2 DEF Poll, Sleep
  <2>3. CASE CheckDeadline
    BY <2>0, <2>3 DEF CheckDeadline
  <2>4. CASE InterruptSleep
    BY <2>0, <2>4 DEF InterruptSleep
  <2>5. CASE InterruptElsewhere
    BY <2>0, <2>5 DEF InterruptElsewhere, Ended
  <2>6. CASE Terminate
    <3>1. pc = "term" /\ pc' \in {"collect", "grace"}
      BY <2>6 DEF Terminate, AskToEnd, LeaveAlone
    <3>2. signalled' \subseteq signalled \union {step}
      BY <2>6 DEF Terminate, AskToEnd, LeaveAlone
    <3>3. step \notin passed /\ signalled \subseteq 1..step
      BY <2>0, <3>1
    <3>4. timedOut \/ interrupted
      BY <3>1
    <3>5. UNCHANGED <<step, passed, timedOut, interrupted>>
      BY <2>6 DEF Terminate
    <3>6. PassedByItself'
      BY <3>1, <3>2, <3>3, <3>5
    <3>7. (signalled \subseteq 1..step)'
      BY <2>0, <3>2, <3>3, <3>5
    <3> QED
      BY <3>4, <3>5, <3>6, <3>7
  <2>7. CASE Grace \/ Kill \/ Reap
    BY <2>0, <2>7 DEF Grace, Kill, Reap
  <2>8. CASE LogHeldOpen \/ Fail \/ Retry \/ KillRaises
    BY <2>0, <2>8 DEF LogHeldOpen, Fail, Retry, KillRaises
  <2>9. CASE Pass
    <3>1. step \notin signalled /\ ~timedOut /\ ~interrupted
      BY <2>9 DEF Pass, Succeeded
    <3>2. passed = 1..(step - 1) /\ passed' = 1..step
      BY <2>0, <2>9 DEF Pass
    <3>3. passed' \cap signalled' = {}
      BY <2>9, <3>1 DEF Pass
    <3>4. CASE step < NSteps /\ step' = step + 1 /\ pc' = "spawn"
      BY <2>0, <2>9, <3>2, <3>3, <3>4 DEF Pass
    <3>5. CASE step = NSteps /\ pc' = "released" /\ step' = step
      BY <2>0, <2>9, <3>1, <3>2, <3>3, <3>5 DEF Pass
    <3> QED
      BY <2>9, <3>4, <3>5 DEF Pass
  <2>10. CASE LeaderEnds \/ ChildStarts \/ ChildEnds \/ OrphanEnds \/ DeadlinePasses
    BY <2>0, <2>10 DEF LeaderEnds, ChildStarts, ChildEnds, OrphanEnds, DeadlinePasses
  <2>11. CASE UNCHANGED vars
    BY <2>11 DEF vars
  <2> QED
    BY <2>1, <2>2, <2>3, <2>4, <2>5, <2>6, <2>7, <2>8, <2>9, <2>10, <2>11
    DEF Next
<1> QED
  BY <1>1, <1>2, TypeCorrect, PTL DEF Spec

\* No step passes whose last attempt the runner told to end, and no release is
\* completed that skipped a step.
THEOREM StepsPassByThemselves == Spec => []PassedByItself
<1>1. Remembered => PassedByItself
  BY DEF Remembered
<1> QED
  BY <1>1, RememberedInvariant, PTL

(***************************************************************************)
(* What OverlapIsDying rests on.  On POSIX, terminate_process_tree returns *)
(* with the leader down, or after SIGKILL has reached the leader and its   *)
(* descendant; and the orphans are of earlier attempts, so that those of   *)
(* one attempt join together.                                              *)
(***************************************************************************)
Earlier(o) == o.step < step \/ (o.step = step /\ o.attempt < attempt)
Collected ==
  /\ OverlapIsDying
  /\ platform = "posix" /\ pc \in {"reap", "collect"} =>
       leader # "up" /\ (leader = "doomed" => child # "up")
  /\ pc \notin Ended => \A o \in orphans : Earlier(o)

\* On POSIX the process of an attempt that still runs when the next one starts has
\* been killed, with its group, however long it takes to die.
THEOREM OverlapsAreDying == Spec => []OverlapIsDying
<1>1. Init => Collected
  BY DEF Init, Collected, OverlapIsDying
<1>2. TypeOK /\ Collected /\ [Next]_vars => Collected'
  <2> SUFFICES ASSUME TypeOK, Collected, [Next]_vars PROVE Collected'
    OBVIOUS
  <2> USE DEF Collected, OverlapIsDying, Earlier, Ended
  <2>1. CASE StartAttempt \/ Poll \/ CheckDeadline \/ Sleep
    BY <2>1 DEF StartAttempt, Poll, CheckDeadline, Sleep
  <2>2. CASE InterruptSleep \/ InterruptElsewhere
    BY <2>2 DEF InterruptSleep, InterruptElsewhere
  <2>3. CASE Terminate
    BY <2>3 DEF Terminate, AskToEnd, LeaveAlone
  <2>4. CASE Grace \/ Kill \/ KillRaises \/ Reap
    BY <2>4 DEF Grace, Kill, KillRaises, Reap, Doom
  <2>5. CASE LogHeldOpen \/ Fail \/ Retry
    <3>1. pc = "collect" /\ StopsTerminated
          /\ UNCHANGED <<platform, leader, child, step>>
      BY <2>5 DEF LogHeldOpen, Fail, Retry
    <3>2. OverlapIsDying'
      <4> SUFFICES ASSUME platform = "posix"
                   PROVE  \A o \in orphans' : o.who = "leader" =>
                            /\ o.is = "doomed"
                            /\ \A c \in orphans' :
                                 c.step = o.step /\ c.attempt = o.attempt
                                   => c.is = "doomed"
        BY <3>1
      <4> DEFINE New == orphans' \ orphans
      <4>1. \A o \in New : o \in Survivors
        BY <3>1 DEF StopsTerminated
      <4>2. \A o \in New : /\ o.step = step /\ o.attempt = attempt
                           /\ o.who = "leader" => o.is = "doomed"
        BY <3>1, <4>1 DEF Survivors
      <4>3. \A o \in New : o.who = "leader" =>
              \A c \in New : c.is = "doomed"
        BY <3>1, <4>1 DEF Survivors
      <4>4. \A o \in orphans, c \in New :
              ~(c.step = o.step /\ c.attempt = o.attempt)
        <5>1. \A o \in orphans : Earlier(o) /\ o.step \in Nat /\ o.attempt \in Nat
          BY <3>1, RunnerAssumption DEF TypeOK, ProgressOK
        <5>2. step \in Nat /\ attempt \in Nat
          BY RunnerAssumption DEF TypeOK, ProgressOK
        <5> QED
          BY <4>2, <5>1, <5>2
      <4> QED
        BY <4>2, <4>3, <4>4
    <3>3. (platform = "posix" /\ pc \in {"reap", "collect"} =>
             leader # "up" /\ (leader = "doomed" => child # "up"))'
      BY <3>1
    <3>4. (pc \notin Ended => \A o \in orphans : Earlier(o))'
      <4>1. CASE LogHeldOpen \/ Fail
        BY <4>1 DEF LogHeldOpen, Fail
      <4>2. CASE Retry
        BY <4>2 DEF Retry, RetryDue, StopsTerminated, Survivors, TypeOK,
                    ProgressOK
      <4> QED
        BY <2>5, <4>1, <4>2
    <3> QED
      BY <3>2, <3>3, <3>4
  <2>6. CASE Pass
    BY <2>6, RunnerAssumption DEF Pass, TypeOK, ProgressOK
  <2>7. CASE LeaderEnds \/ ChildStarts \/ ChildEnds \/ OrphanEnds \/ DeadlinePasses
    BY <2>7 DEF LeaderEnds, ChildStarts, ChildEnds, OrphanEnds, DeadlinePasses
  <2>8. CASE UNCHANGED vars
    BY <2>8 DEF vars
  <2> QED
    BY <2>1, <2>2, <2>3, <2>4, <2>5, <2>6, <2>7, <2>8 DEF Next
<1>3. Collected => OverlapIsDying
  BY DEF Collected
<1> QED
  BY <1>1, <1>2, <1>3, TypeCorrect, PTL DEF Spec

=============================================================================

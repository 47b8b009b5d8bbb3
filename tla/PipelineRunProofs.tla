-------------------------- MODULE PipelineRunProofs --------------------------
(***************************************************************************)
(* PipelineRun for any processes, namespaces and number of runs: types,    *)
(* that runs leave each other's outputs alone, that bundles are of one run *)
(* and manifests true, that what a root run reports as published is what   *)
(* the servers find, and that nobody waits in a circle.                    *)
(***************************************************************************)
EXTENDS PipelineRun, TLAPS

Working == Steps \ {"idle", "lock", "tidy"}
Writing == Working \ {"clean"}
Publishing == {"publish", "install", "switch", "prune"}

(* Run numbers are used once, and files and locks carry those of runs that were   *)
(* started, a file that of a run of its directory; a run that is not over has     *)
(* written no manifest.                                                           *)
Origin ==
  /\ \A p \in Procs : run[p] # NoRun => run[p] <= started /\ Dir(p) \in Uses[p]
  /\ \A p, q \in Procs : run[p] = run[q] /\ run[p] # NoRun => p = q
  /\ \A o \in Places : out[o] # Absent => out[o] <= started /\ place[out[o]] = o[1]
  /\ \A l \in Locks : lock[l] # NoRun => lock[l] <= started
Unlisted ==
  \A p \in Procs : run[p] # NoRun /\ pc[p] # "tidy" =>
    \A n \in Dirs : out[<<n, "manifest">>] # run[p]

(* A run that works holds the lock of its outputs, one that publishes the publish  *)
(* lock besides; a run at the lock holds none.  Only verifiers tidy.               *)
Holds ==
  \A p \in Procs : /\ pc[p] \in Working => lock[LockName(Dir(p))] = run[p]
                   /\ pc[p] = "tidy" => Dir(p) \in Verified
HoldsOnly ==
  \A p \in Procs, l \in Locks : run[p] # NoRun /\ lock[l] = run[p] =>
    /\ pc[p] \in Working
    /\ l = LockName(Dir(p)) \/ (l = "publish" /\ pc[p] \in {"install", "switch", "prune"})

(* What lies in the directory of a run that writes, if nobody else removes files   *)
(* there: its own outputs, and what rmtree may have left.                          *)
Written(p) ==
  /\ pc[p] \in Writing /\ Dir(p) \notin Sticky =>
       /\ out[<<Dir(p), "manifest">>] = Absent
       /\ \A f \in Outputs : out[<<Dir(p), f>>] \in {Absent, run[p]}
  /\ pc[p] \in Writing \ {"models"} => out[<<Dir(p), "models">>] = run[p]
  /\ pc[p] \in Writing \ {"models", "extra", "decision"} => out[<<Dir(p), "decision">>] = run[p]
Progressed(p) ==
  /\ Dir(p) \notin Exposed => Written(p)
  /\ pc[p] \in Publishing => Dir(p) = Root
Progress == \A p \in Procs : Progressed(p)
Picked == \A p \in Procs : pc[p] = "switch" => picked[run[p]] = <<run[p], run[p]>>

IInv == /\ TypeOK /\ Origin /\ Unlisted /\ Holds /\ HoldsOnly /\ Progress /\ Picked
        /\ BundleOfOneRun /\ ManifestTrue /\ PublishedIsCurrent

-----------------------------------------------------------------------------
(* NoRun and Absent are no runs, and the directories have locks. *)
LEMMA Constants == /\ NoRun \notin Runs /\ Absent \notin Runs /\ NoBundle \notin Bundles
                   /\ \A n \in Dirs : LockName(n) \in Locks
                   /\ "publish" \in Locks /\ LockName(Root) # "publish"
                   /\ Runs \subseteq Nat /\ Root \in Dirs
                   /\ Root \notin Exposed /\ Root \notin Sticky
BY PipelineAssumption DEF PipelineAssumption, Runs, Dirs, Locks, LockName, Exposed

LEMMA UnlockedTyped == ASSUME TypeOK, NEW r
                       PROVE  Unlocked(r) \in [Locks -> Runs \cup {NoRun}]
BY DEF TypeOK, Unlocked

LEMMA EndTyped == ASSUME TypeOK, NEW p \in Procs, run[p] # NoRun, NEW how \in Results, End(p, how)
                  PROVE  /\ lock' \in [Locks -> Runs \cup {NoRun}]
                         /\ run' \in [Procs -> Runs \cup {NoRun}]
                         /\ pc' \in [Procs -> Steps]
                         /\ result' \in [Runs -> Results]
                         /\ \A q \in Procs : run'[q] = NoRun <=> pc'[q] = "idle"
<1>1. result' \in [Runs -> Results]
  BY DEF End, TypeOK
<1>2. lock' \in [Locks -> Runs \cup {NoRun}]
  BY UnlockedTyped DEF End
<1>3. CASE Dir(p) \in Verified
  BY <1>1, <1>2, <1>3 DEF End, TypeOK, Goto, Steps
<1>4. CASE Dir(p) \notin Verified
  BY <1>1, <1>2, <1>4 DEF End, TypeOK, Goto, Steps
<1> QED
  BY <1>3, <1>4

(* Starting needs its own lemma: the run number is new. *)
LEMMA StartTyped == ASSUME TypeOK, NEW p \in Procs, NEW n \in Dirs, Start(p, n) PROVE TypeOK'
<1>1. started' \in Runs /\ started' \in 0 .. MaxRuns /\ started' # NoRun
  BY Constants, PipelineAssumption DEF Start, TypeOK, Runs, PipelineAssumption
<1>2. run' \in [Procs -> Runs \cup {NoRun}] /\ pc' \in [Procs -> Steps]
  BY <1>1 DEF Start, TypeOK, Goto, Steps
<1>3. place' \in [Runs -> Dirs] /\ result' \in [Runs -> Results]
  BY <1>1 DEF Start, TypeOK, Results
<1>4. \A q \in Procs : run'[q] = NoRun <=> pc'[q] = "idle"
  BY <1>1 DEF Start, TypeOK, Goto
<1> QED
  BY <1>1, <1>2, <1>3, <1>4 DEF Start, TypeOK, store

LEMMA AfterFiles == \A n, f, g : <<f, g>> \in After(n) =>
                      /\ f \in Outputs
                      /\ g \in Steps /\ g \notin {"idle", "tidy", "lock", "clean"}
BY DEF After, Outputs, Files, Steps

-----------------------------------------------------------------------------
(* The variables keep their types, and a process is idle exactly while it has no run. *)
LEMMA StepTyped == ASSUME TypeOK, NEW p \in Procs, Step(p) \/ Fail(p) \/ Die(p) PROVE TypeOK'
<1>1. ASSUME NEW l \in Locks, Acquire(p, l)
      PROVE  TypeOK'
  <2>1. lock' \in [Locks -> Runs \cup {NoRun}]
    BY <1>1 DEF Acquire, Wanted, At, TypeOK
  <2>2. pc' \in [Procs -> Steps] /\ pc'[p] # "idle" /\ pc[p] # "idle"
    BY <1>1 DEF Acquire, Wanted, At, Goto, TypeOK, Steps
  <2>3. \A q \in Procs : run'[q] = NoRun <=> pc'[q] = "idle"
    BY <1>1, <2>2 DEF Acquire, Goto, TypeOK
  <2> QED
    BY <1>1, <2>1, <2>2, <2>3 DEF Acquire, TypeOK, store
<1>2. ASSUME NEW l \in Locks, TimeOut(p, l)
      PROVE  TypeOK'
  <2>1. run[p] # NoRun
    BY <1>2 DEF TimeOut, Wanted, At
  <2>2. "blocked" \in Results
    BY DEF Results
  <2> QED
    BY <1>2, <2>1, <2>2, EndTyped DEF TimeOut, TypeOK, store
<1>3. CASE Clean(p)
  <2>1. out' \in [Places -> Runs \cup {Absent}]
    BY <1>3 DEF Clean, Remove, TypeOK
  <2>2. pc' \in [Procs -> Steps] /\ \A q \in Procs : run'[q] = NoRun <=> pc'[q] = "idle"
    BY <1>3 DEF Clean, At, Goto, TypeOK, Steps, Files, Outputs
  <2> QED
    BY <1>3, <2>1, <2>2 DEF Clean, TypeOK, store
<1>4. CASE Install(p)
  <2>1. picked' \in [Runs -> Bundles \cup {NoBundle}]
    BY <1>4 DEF Install, TypeOK
  <2>2. dir' \in [Bundles -> {"absent", "partial", "complete"}] /\ current' = current
    BY <1>4 DEF Install, TypeOK, Store!Install
  <2>3. pc' \in [Procs -> Steps] /\ \A q \in Procs : run'[q] = NoRun <=> pc'[q] = "idle"
    BY <1>4 DEF Install, At, Goto, TypeOK, Steps
  <2> QED
    BY <1>4, <2>1, <2>2, <2>3 DEF Install, TypeOK
<1>5. CASE Switch(p)
  <2>1. current' \in Bundles \cup {NoBundle} /\ dir' = dir
    BY <1>5 DEF Switch, At, TypeOK, Store!Switch
  <2>2. pc' \in [Procs -> Steps] /\ \A q \in Procs : run'[q] = NoRun <=> pc'[q] = "idle"
    BY <1>5 DEF Switch, At, Goto, TypeOK, Steps
  <2> QED
    BY <1>5, <2>1, <2>2 DEF Switch, TypeOK
<1>6. CASE Prune(p)
  <2>1. dir' \in [Bundles -> {"absent", "partial", "complete"}] /\ current' = current
    BY <1>6 DEF Prune, TypeOK, Store!BeginRemove, Store!EndRemove, store
  <2>2. lock' \in [Locks -> Runs \cup {NoRun}]
    BY <1>6 DEF Prune, TypeOK
  <2>3. pc' \in [Procs -> Steps] /\ \A q \in Procs : run'[q] = NoRun <=> pc'[q] = "idle"
    BY <1>6 DEF Prune, At, Goto, TypeOK, Steps, Files
  <2> QED
    BY <1>6, <2>1, <2>2, <2>3 DEF Prune, TypeOK
<1>7. CASE WriteManifest(p)
  <2>1. run[p] \in Runs
    BY <1>7 DEF WriteManifest, At, TypeOK
  <2>2. Dir(p) \in Dirs
    BY <2>1 DEF TypeOK, Dir
  <2>3. out' \in [Places -> Runs \cup {Absent}]
    BY <1>7, <2>1 DEF WriteManifest, TypeOK
  <2>4. [f \in Outputs |-> out[<<Dir(p), f>>]] \in [Outputs -> Runs \cup {Absent}]
    BY <2>2 DEF TypeOK, Places, Files
  <2>5. listed' \in [Runs -> [Outputs -> Runs \cup {Absent}]]
    BY <1>7, <2>1, <2>4 DEF WriteManifest, TypeOK
  <2>6. "done" \in Results /\ run[p] # NoRun /\ End(p, "done")
    BY <1>7 DEF WriteManifest, At, Results
  <2> QED
    BY <1>7, <2>3, <2>5, <2>6, EndTyped DEF WriteManifest, TypeOK, store
<1>8. CASE Tidy(p)
  <2>1. out' \in [Places -> Runs \cup {Absent}]
    BY <1>8 DEF Tidy, Remove, TypeOK
  <2>2. /\ pc' \in [Procs -> Steps] /\ run' \in [Procs -> Runs \cup {NoRun}]
        /\ \A q \in Procs : run'[q] = NoRun <=> pc'[q] = "idle"
    BY <1>8 DEF Tidy, Goto, TypeOK, Steps
  <2> QED
    BY <1>8, <2>1, <2>2 DEF Tidy, TypeOK, store
<1>9. ASSUME NEW next, Write(p, next)
      PROVE  TypeOK'
  <2>1. run[p] \in Runs /\ next \in Steps \ {"idle"} /\ pc[p] # "idle"
    BY <1>9, AfterFiles DEF Write, TypeOK
  <2>2. out' \in [Places -> Runs \cup {Absent}]
    BY <1>9, <2>1 DEF Write, TypeOK
  <2>3. pc' \in [Procs -> Steps] /\ \A q \in Procs : run'[q] = NoRun <=> pc'[q] = "idle"
    BY <1>9, <2>1 DEF Write, Goto, TypeOK
  <2> QED
    BY <1>9, <2>2, <2>3 DEF Write, TypeOK, store
<1>10. CASE Fail(p)
  <2>1. "failed" \in Results /\ faults' \in 0 .. MaxFaults
    BY <1>10, PipelineAssumption DEF Fail, Results, TypeOK, PipelineAssumption
  <2> QED
    BY <1>10, <2>1, EndTyped DEF Fail, TypeOK, store
<1>11. CASE Die(p)
  <2>1. faults' \in 0 .. MaxFaults
    BY <1>11, PipelineAssumption DEF Die, TypeOK, PipelineAssumption
  <2>2. result' \in [Runs -> Results]
    BY <1>11 DEF Die, TypeOK, Results
  <2>3. /\ pc' \in [Procs -> Steps] /\ run' \in [Procs -> Runs \cup {NoRun}]
        /\ \A q \in Procs : run'[q] = NoRun <=> pc'[q] = "idle"
    BY <1>11 DEF Die, Goto, TypeOK, Steps
  <2> QED
    BY <1>11, <2>1, <2>2, <2>3 DEF Die, TypeOK, store
<1> QED
  BY <1>1, <1>2, <1>3, <1>4, <1>5, <1>6, <1>7, <1>8, <1>9, <1>10, <1>11 DEF Step

THEOREM TypeCorrect == Spec => []TypeOK
<1>1. Init => TypeOK
  BY Constants, PipelineAssumption
  DEF Init, TypeOK, Places, Steps, Results, PipelineAssumption
<1>2. TypeOK /\ [Next]_vars => TypeOK'
  <2>1. CASE UNCHANGED vars
    BY <2>1 DEF vars, TypeOK, store
  <2>2. ASSUME TypeOK, NEW p \in Procs, NEW n \in Dirs, Start(p, n)
        PROVE  TypeOK'
    BY <2>2, StartTyped
  <2> QED
    BY <2>1, <2>2, StepTyped DEF Next
<1> QED
  BY <1>1, <1>2, PTL DEF Spec


-----------------------------------------------------------------------------
(* What a step of p may touch: its own directory, exposed ones when it removes    *)
(* files, its own program counter, locks that are free or its own.                *)
LEMMA SweptOwn == ASSUME NEW n, NEW o \in Swept(n)
                  PROVE  o[1] = n \/ o[1] \in Exposed
BY DEF Swept, Exposed

OutStep(p) ==
  \A o \in Places : out'[o] # out[o] =>
    /\ pc[p] \in Working \cup {"tidy"} /\ run[p] # NoRun
    /\ o[1] = Dir(p) \/ o[1] \in Exposed
    /\ out'[o] # Absent => /\ o[1] = Dir(p) /\ out'[o] = run[p] /\ pc[p] \in Writing
                           /\ o[2] = "manifest" => WriteManifest(p)

LEMMA OutEffects ==
  ASSUME TypeOK, NEW p \in Procs, Step(p) \/ Fail(p) \/ Die(p)
  PROVE  OutStep(p)
<1> SUFFICES ASSUME NEW o \in Places, out'[o] # out[o]
             PROVE  /\ pc[p] \in Working \cup {"tidy"} /\ run[p] # NoRun
                    /\ o[1] = Dir(p) \/ o[1] \in Exposed
                    /\ out'[o] # Absent =>
                         /\ o[1] = Dir(p) /\ out'[o] = run[p] /\ pc[p] \in Writing
                         /\ o[2] = "manifest" => WriteManifest(p)
  BY DEF OutStep
<1>1. CASE Clean(p)
  BY <1>1, SweptOwn DEF Clean, Remove, At, TypeOK, Working, Steps
<1>2. CASE Tidy(p)
  BY <1>2 DEF Tidy, Remove, At, TypeOK
<1>3. CASE WriteManifest(p)
  BY <1>3 DEF WriteManifest, At, TypeOK, Writing, Working, Steps, Files
<1>4. ASSUME NEW next, Write(p, next)
      PROVE  /\ o[1] = Dir(p) /\ pc[p] \in Writing /\ run[p] # NoRun
             /\ out'[o] = run[p] /\ o[2] # "manifest"
  <2>1. pc[p] \in Outputs
    BY <1>4, AfterFiles DEF Write
  <2> QED
    BY <1>4, <2>1 DEF Write, TypeOK, Writing, Working, Steps, Files, Outputs
<1> QED
  BY <1>1, <1>2, <1>3, <1>4
  DEF Step, Acquire, TimeOut, Install, Switch, Prune, Fail, Die, Writing

LEMMA ProcEffects ==
  ASSUME TypeOK, NEW p \in Procs, Step(p) \/ Fail(p) \/ Die(p)
  PROVE  /\ \A q \in Procs \ {p} : run'[q] = run[q] /\ pc'[q] = pc[q]
         /\ run'[p] = run[p] \/ run'[p] = NoRun
         /\ place' = place /\ started' = started /\ run[p] \in Runs
<1>1. place' = place /\ started' = started
  BY DEF Step, Acquire, TimeOut, Clean, Install, Switch, Prune, WriteManifest, Tidy, Write, Fail, Die
<1>2. run[p] \in Runs
  BY DEF Step, Acquire, TimeOut, Clean, Install, Switch, Prune, WriteManifest, Tidy, Write,
         Fail, Die, At, Wanted, TypeOK
<1>3. \A q \in Procs \ {p} : pc'[q] = pc[q]
  BY DEF Step, Acquire, TimeOut, Clean, Install, Switch, Prune, WriteManifest, Tidy, Write,
         Fail, Die, End, Goto, TypeOK
<1>4. \A q \in Procs \ {p} : run'[q] = run[q]
  BY DEF Step, Acquire, TimeOut, Clean, Install, Switch, Prune, WriteManifest, Tidy, Write,
         Fail, Die, End, TypeOK
<1>5. run'[p] = run[p] \/ run'[p] = NoRun
  BY DEF Step, Acquire, TimeOut, Clean, Install, Switch, Prune, WriteManifest, Tidy, Write,
         Fail, Die, End, TypeOK
<1> QED
  BY <1>1, <1>2, <1>3, <1>4, <1>5

LEMMA LockEffects ==
  ASSUME TypeOK, NEW p \in Procs, Step(p) \/ Fail(p) \/ Die(p), NEW l \in Locks, lock'[l] # lock[l]
  PROVE  \/ lock[l] = run[p] /\ lock'[l] = NoRun
         \/ Free(l) /\ lock'[l] = run[p] /\ Acquire(p, l)
<1>1. ASSUME NEW m \in Locks, Acquire(p, m)
      PROVE  Free(l) /\ lock'[l] = run[p] /\ Acquire(p, l)
  <2>1. m = l
    BY <1>1 DEF Acquire, TypeOK
  <2> QED
    BY <1>1, <2>1 DEF Acquire, TypeOK
<1>2. \A how : End(p, how) => lock[l] = run[p] /\ lock'[l] = NoRun
  BY DEF End, Unlocked
<1>3. CASE Prune(p)
  BY <1>3 DEF Prune, TypeOK
<1> QED
  BY <1>1, <1>2, <1>3
  DEF Step, TimeOut, Clean, Install, Switch, WriteManifest, Tidy, Write, Fail, Die

(* Two runs that work, or of which one tidies, never share a directory that is not  *)
(* exposed.                                                                        *)
LEMMA NeverShared ==
  ASSUME IInv, NEW p \in Procs, NEW q \in Procs, p # q,
         pc[p] \in Working \cup {"tidy"}, pc[q] \in Working
  PROVE  Dir(p) # Dir(q) \/ Dir(q) \in Exposed
<1>1. run[p] # NoRun /\ run[q] # NoRun
  BY DEF IInv, TypeOK, Working
<1>2. CASE pc[p] \in Working
  BY <1>1, <1>2 DEF IInv, Holds, Origin
<1>3. CASE pc[p] = "tidy"
  BY <1>1, <1>3 DEF IInv, Holds, Origin, Exposed
<1> QED
  BY <1>2, <1>3


-----------------------------------------------------------------------------
LEMMA OriginStays ==
  ASSUME IInv, NEW p \in Procs, Step(p) \/ Fail(p) \/ Die(p)
  PROVE  Origin'
<1>1. /\ \A q \in Procs : run'[q] = run[q] \/ run'[q] = NoRun
      /\ place' = place /\ started' = started /\ run[p] \in Runs /\ run[p] # NoRun
  BY ProcEffects, Constants DEF IInv
<1>2. \A q \in Procs : run'[q] # NoRun => run'[q] <= started' /\ Dir(q)' \in Uses[q]
  BY <1>1 DEF IInv, Origin, Dir
<1>3. \A q, r \in Procs : run'[q] = run'[r] /\ run'[q] # NoRun => q = r
  BY <1>1 DEF IInv, Origin
<1>4. \A o \in Places : out'[o] # Absent => out'[o] <= started' /\ place'[out'[o]] = o[1]
  <2> SUFFICES ASSUME NEW o \in Places, out'[o] # Absent
               PROVE  out'[o] <= started /\ place[out'[o]] = o[1]
    BY <1>1
  <2>1. CASE out'[o] = out[o]
    BY <2>1 DEF IInv, Origin
  <2>2. CASE out'[o] # out[o]
    <3>1. o[1] = Dir(p) /\ out'[o] = run[p]
      BY <2>2, OutEffects DEF IInv, OutStep
    <3> QED
      BY <1>1, <3>1 DEF IInv, Origin, Dir
  <2> QED
    BY <2>1, <2>2
<1>5. \A l \in Locks : lock'[l] # NoRun => lock'[l] <= started'
  <2> SUFFICES ASSUME NEW l \in Locks, lock'[l] # NoRun
               PROVE  lock'[l] <= started
    BY <1>1
  <2>1. lock'[l] = lock[l] \/ lock'[l] = run[p]
    BY LockEffects DEF IInv
  <2> QED
    BY <1>1, <2>1 DEF IInv, Origin
<1> QED
  BY <1>2, <1>3, <1>4, <1>5 DEF Origin

LEMMA UnlistedStays ==
  ASSUME IInv, NEW p \in Procs, Step(p) \/ Fail(p) \/ Die(p)
  PROVE  Unlisted'
<1> SUFFICES ASSUME NEW q \in Procs, run'[q] # NoRun, pc'[q] # "tidy", NEW n \in Dirs
             PROVE  out'[<<n, "manifest">>] # run'[q]
  BY DEF Unlisted
<1> DEFINE o == <<n, "manifest">>
<1>1. /\ o \in Places /\ run[p] \in Runs /\ run[p] # NoRun /\ Absent \notin Runs
      /\ run'[q] = run[q] /\ run[q] \in Runs
  BY ProcEffects, Constants DEF IInv, TypeOK, Places, Files
<1>2. CASE q # p
  <2>1. pc[q] # "tidy" /\ run[q] # run[p]
    BY <1>1, <1>2, ProcEffects DEF IInv, Origin
  <2>2. out[o] # run[q]
    BY <1>1, <2>1 DEF IInv, Unlisted
  <2>3. out'[o] # out[o] => out'[o] = Absent \/ out'[o] = run[p]
    <3> HIDE DEF o
    <3> QED
      BY <1>1, OutEffects DEF IInv, OutStep
  <2> QED
    BY <1>1, <2>1, <2>2, <2>3
<1>3. CASE q = p
  <2>1. pc[p] # "tidy"
    <3> SUFFICES ASSUME pc[p] = "tidy"
                 PROVE  FALSE
      OBVIOUS
    <3>1. Tidy(p) \/ Die(p)
      BY AfterFiles DEF Step, Acquire, TimeOut, Wanted, Clean, Install, Switch, Prune, WriteManifest,
         Write, Fail, At, Outputs
    <3>2. run'[p] = NoRun \/ pc'[p] = "tidy"
      BY <3>1 DEF Tidy, Die, IInv, TypeOK
    <3> QED
      BY <1>3, <3>2
  <2>2. ~WriteManifest(p)
    BY <1>1, <1>3 DEF IInv, TypeOK, WriteManifest, End, Goto
  <2>3. out'[o] # out[o] => out'[o] = Absent
    <3>1. o[2] = "manifest"
      OBVIOUS
    <3> HIDE DEF o
    <3> QED
      BY <1>1, <2>2, <3>1, OutEffects DEF IInv, OutStep
  <2> QED
    BY <1>1, <1>3, <2>1, <2>3 DEF IInv, Unlisted
<1> QED
  BY <1>2, <1>3

(* The lock of a run that works is held by a living run: nobody takes it. *)
LEMMA OthersHold ==
  ASSUME IInv, NEW p \in Procs, Step(p) \/ Fail(p) \/ Die(p), NEW q \in Procs, q # p
  PROVE  /\ pc'[q] \in Working => lock'[LockName(Dir(q)')] = run'[q]
         /\ pc'[q] = "tidy" => Dir(q)' \in Verified
<1>1. run'[q] = run[q] /\ pc'[q] = pc[q] /\ Dir(q)' = Dir(q) /\ run[p] # NoRun
  BY ProcEffects, Constants DEF IInv, Dir
<1>2. ASSUME pc[q] \in Working
      PROVE  lock'[LockName(Dir(q))] = run[q]
  <2>1. run[q] # NoRun /\ run[q] # run[p] /\ lock[LockName(Dir(q))] = run[q]
    BY <1>1, <1>2 DEF IInv, TypeOK, Working, Holds, Origin
  <2>2. Dir(q) \in Dirs
    BY <2>1 DEF IInv, TypeOK, Dir
  <2>3. LockName(Dir(q)) \in Locks /\ ~Free(LockName(Dir(q)))
    BY <2>1, <2>2, Constants DEF Free, Live
  <2> QED
    BY <2>1, <2>3, LockEffects DEF IInv
<1> QED
  BY <1>1, <1>2 DEF IInv, Holds

LEMMA HoldsStays ==
  ASSUME IInv, NEW p \in Procs, Step(p) \/ Fail(p) \/ Die(p)
  PROVE  Holds'
<1>0. /\ run[p] # NoRun /\ run[p] \in Runs /\ Dir(p) \in Dirs /\ LockName(Dir(p)) \in Locks
      /\ run'[p] = run[p] => Dir(p)' = Dir(p)
  BY ProcEffects, Constants DEF IInv, TypeOK, Dir
<1> DEFINE Good == /\ pc'[p] \in Working => lock'[LockName(Dir(p)')] = run'[p]
                   /\ pc'[p] = "tidy" => Dir(p)' \in Verified
<1>1. ASSUME NEW l \in Locks, Acquire(p, l)
      PROVE  Good
  <2>1. pc'[p] \in Working /\ lock' = [lock EXCEPT ![l] = run[p]] /\ run'[p] = run[p]
    BY <1>1 DEF Acquire, Goto, IInv, TypeOK, Working, Steps
  <2>2. l = LockName(Dir(p)) \/ (l = "publish" /\ pc[p] \in Working)
    BY <1>1 DEF Acquire, Wanted, At, Working, Steps
  <2>3. lock'[LockName(Dir(p))] = run[p]
    BY <1>0, <2>1, <2>2 DEF IInv, TypeOK, Holds
  <2> QED
    BY <1>0, <2>1, <2>3 DEF Working
<1>2. ASSUME NEW how, End(p, how)
      PROVE  Good
  <2>1. CASE Dir(p) \in Verified
    BY <1>0, <1>2, <2>1 DEF End, Goto, IInv, TypeOK, Working
  <2>2. CASE Dir(p) \notin Verified
    BY <1>0, <1>2, <2>2 DEF End, Goto, IInv, TypeOK, Working
  <2> QED
    BY <2>1, <2>2
<1>3. ASSUME Die(p)
      PROVE  Good
  BY <1>3 DEF Die, Goto, IInv, TypeOK, Working
<1>4. ASSUME Prune(p)
      PROVE  Good
  <2>1. pc[p] \in Working /\ Dir(p) = Root /\ run'[p] = run[p]
    BY <1>4 DEF Prune, At, IInv, Progress, Progressed, Publishing, Working, Steps
  <2>2. lock[LockName(Root)] = run[p]
    BY <2>1 DEF IInv, Holds
  <2>3. lock'[LockName(Root)] = lock[LockName(Root)]
    BY <1>0, <1>4, <2>1, Constants DEF Prune, IInv, TypeOK
  <2>4. pc'[p] # "tidy"
    BY <1>4 DEF Prune, At, Goto, IInv, TypeOK
  <2> QED
    BY <1>0, <2>1, <2>2, <2>3, <2>4
<1>5. ASSUME Tidy(p)
      PROVE  Good
  BY <1>0, <1>5 DEF Tidy, At, Goto, IInv, TypeOK, Working, Holds
<1>6. ASSUME NEW next, Write(p, next)
      PROVE  Good
  <2>1. pc[p] \in Working /\ run' = run /\ lock' = lock
    BY <1>6, AfterFiles DEF Write, Working, Steps, Files, Outputs
  <2>2. pc'[p] # "tidy"
    BY <1>6, AfterFiles DEF Write, Goto, IInv, TypeOK
  <2> QED
    BY <1>0, <2>1, <2>2 DEF IInv, Holds
<1>7. ASSUME Clean(p) \/ Install(p) \/ Switch(p)
      PROVE  Good
  <2>1. pc[p] \in Working /\ run' = run /\ lock' = lock
    BY <1>7 DEF Clean, Install, Switch, At, Working, Steps
  <2>2. pc'[p] # "tidy"
    BY <1>7 DEF Clean, Install, Switch, At, Goto, IInv, TypeOK
  <2> QED
    BY <1>0, <2>1, <2>2 DEF IInv, Holds
<1>8. Good
  BY <1>1, <1>2, <1>3, <1>4, <1>5, <1>6, <1>7 DEF Step, TimeOut, WriteManifest, Fail
<1> QED
  BY <1>8, OthersHold DEF Holds


LEMMA HoldsOnlyStays ==
  ASSUME IInv, NEW p \in Procs, Step(p) \/ Fail(p) \/ Die(p)
  PROVE  HoldsOnly'
<1> DEFINE Own(l, q, step) ==
      l = LockName(Dir(q)) \/ (l = "publish" /\ step \in {"install", "switch", "prune"})
<1>0. \A q \in Procs : run'[q] # NoRun => Dir(q)' = Dir(q)
  BY ProcEffects DEF IInv, Dir
<1> SUFFICES ASSUME NEW q \in Procs, NEW l \in Locks, run'[q] # NoRun, lock'[l] = run'[q]
             PROVE  pc'[q] \in Working /\ Own(l, q, pc'[q])
  BY <1>0 DEF HoldsOnly
<1>1. /\ run'[q] = run[q] /\ run[q] # NoRun /\ run[p] # NoRun
      /\ q # p => pc'[q] = pc[q] /\ run[q] # run[p]
      /\ run[q] \in Runs /\ Dir(q) \in Dirs
  <2>1. run'[q] = run[q] /\ (q # p => pc'[q] = pc[q]) /\ run[p] \in Runs
    BY ProcEffects DEF IInv
  <2>2. run[q] # NoRun /\ run[p] # NoRun
    BY <2>1, Constants
  <2>3. run[q] \in Runs
    BY <2>2 DEF IInv, TypeOK
  <2>4. Dir(q) \in Dirs
    BY <2>3 DEF IInv, TypeOK, Dir
  <2>5. q # p => run[q] # run[p]
    BY <2>2 DEF IInv, Origin
  <2> QED
    BY <2>1, <2>2, <2>3, <2>4, <2>5
<1>2. ASSUME lock[l] = run[q]
      PROVE  pc[q] \in Working /\ Own(l, q, pc[q])
  BY <1>1, <1>2 DEF IInv, HoldsOnly
<1>3. CASE q # p
  <2>1. lock[l] = run[q]
    BY <1>1, <1>3, LockEffects DEF IInv
  <2> QED
    BY <1>1, <1>2, <1>3, <2>1
<1>4. ASSUME q = p, NEW m \in Locks, Acquire(p, m)
      PROVE  pc'[p] \in Working /\ Own(l, p, pc'[p])
  <2>1. l = m \/ lock[l] = run[p]
    BY <1>1, <1>4 DEF Acquire, IInv, TypeOK
  <2>2. CASE At(p, "lock")
    <3>1. m = LockName(Dir(p)) /\ pc'[p] = "clean"
      BY <1>4, <2>2 DEF Acquire, Wanted, At, Goto, IInv, TypeOK
    <3>2. pc[p] \notin Working
      BY <2>2 DEF At, Working
    <3> QED
      BY <1>2, <1>4, <2>1, <3>1, <3>2 DEF Working, Steps
  <2>3. CASE ~At(p, "lock")
    <3>1. m = "publish" /\ pc'[p] = "install" /\ pc[p] = "publish"
      BY <1>4, <2>3 DEF Acquire, Wanted, At, Goto, IInv, TypeOK
    <3> QED
      BY <1>2, <1>4, <2>1, <3>1 DEF Working, Steps
  <2> QED
    BY <2>2, <2>3
<1>5. CASE q = p /\ \A m \in Locks : ~Acquire(p, m)
  <2>1. lock[l] = run[p] /\ pc[p] \in Working /\ Own(l, p, pc[p])
    BY <1>1, <1>2, <1>5, LockEffects DEF IInv
  <2>2. \A how : ~End(p, how)
    BY <1>1, <1>5 DEF End, Unlocked
  <2>3. ~Die(p) /\ ~Tidy(p)
    BY <1>1, <1>5, <2>1 DEF Die, Tidy, At, Working, IInv, TypeOK
  <2>4. CASE Clean(p)
    <3>1. pc[p] = "clean" /\ pc'[p] \in {"clean", "models"}
      BY <2>4 DEF Clean, At, Goto, IInv, TypeOK
    <3> QED
      BY <1>5, <2>1, <3>1 DEF Working, Steps, Files, Outputs
  <2>5. CASE Install(p) \/ Switch(p)
    <3>1. pc[p] \in {"install", "switch"} /\ pc'[p] \in {"switch", "prune"}
      BY <2>5 DEF Install, Switch, At, Goto, IInv, TypeOK
    <3> QED
      BY <1>5, <2>1, <3>1 DEF Working, Steps
  <2>6. CASE Prune(p)
    <3>1. CASE pc' = pc
      BY <1>5, <2>1, <3>1
    <3>2. CASE pc' # pc
      <4>1. pc'[p] = "manifest" /\ lock'["publish"] # run[p]
        BY <1>1, <2>6, <3>2, Constants DEF Prune, Goto, IInv, TypeOK
      <4> QED
        BY <1>1, <1>5, <2>1, <4>1 DEF Working, Steps, Files
    <3> QED
      BY <3>1, <3>2
  <2>7. ASSUME NEW next, Write(p, next)
        PROVE  pc'[p] \in Working /\ Own(l, p, pc'[p])
    <3>1. pc'[p] = next /\ pc[p] \in Outputs /\ next \in Working
      BY <2>7, AfterFiles DEF Write, Goto, IInv, TypeOK, Working
    <3>2. l = LockName(Dir(p))
      BY <2>1, <3>1 DEF Outputs
    <3> QED
      BY <3>1, <3>2
  <2> QED
    BY <1>5, <2>2, <2>3, <2>4, <2>5, <2>6, <2>7 DEF Step, TimeOut, WriteManifest, Fail
<1> QED
  BY <1>3, <1>4, <1>5

-----------------------------------------------------------------------------
(* Nobody changes the files of another run that writes. *)
LEMMA OthersProgress ==
  ASSUME IInv, NEW p \in Procs, Step(p) \/ Fail(p) \/ Die(p), NEW q \in Procs, q # p
  PROVE  Progressed(q)'
<1>1. run'[q] = run[q] /\ pc'[q] = pc[q] /\ Dir(q)' = Dir(q)
  BY ProcEffects DEF IInv, Dir
<1>2. ASSUME pc[q] \in Working, Dir(q) \notin Exposed, NEW f \in Files
      PROVE  out'[<<Dir(q), f>>] = out[<<Dir(q), f>>]
  <2>1. Dir(q) \in Dirs
    BY <1>2 DEF IInv, TypeOK, Working, Dir
  <2>2. <<Dir(q), f>> \in Places
    BY <2>1, <1>2 DEF Places
  <2> QED
    BY <1>2, <2>2, OutEffects, NeverShared DEF IInv, OutStep
<1>3. Progressed(q)
  BY DEF IInv, Progress
<1>4. CASE pc[q] \in Writing /\ Dir(q) \notin Exposed
  <2>1. pc[q] \in Working /\ Outputs \subseteq Files /\ "manifest" \in Files
        /\ "models" \in Files /\ "decision" \in Files
    BY <1>4 DEF Writing, Files, Outputs
  <2> QED
    BY <1>1, <1>2, <1>3, <1>4, <2>1 DEF Progressed, Written
<1>5. CASE pc[q] \notin Writing \/ Dir(q) \in Exposed
  BY <1>1, <1>3, <1>5 DEF Progressed, Written, Writing, Working, Steps
<1> QED
  BY <1>4, <1>5

LEMMA OwnProgress ==
  ASSUME IInv, NEW p \in Procs, Step(p) \/ Fail(p) \/ Die(p)
  PROVE  Progressed(p)'
<1>0. /\ run[p] # NoRun /\ run[p] \in Runs /\ Dir(p) \in Dirs
      /\ run'[p] = run[p] => Dir(p)' = Dir(p)
      /\ Progressed(p)
  BY ProcEffects, Constants DEF IInv, TypeOK, Dir, Progress
<1>1. ASSUME pc'[p] \notin Writing
      PROVE  Progressed(p)'
  BY <1>1 DEF Progressed, Publishing, Written, Writing, Working, Steps, Files, Outputs
<1>2. ASSUME NEW how, End(p, how) \/ Die(p) \/ Tidy(p)
      PROVE  pc'[p] \notin Writing
  BY <1>2 DEF End, Die, Tidy, At, Goto, IInv, TypeOK, Writing, Working
<1>3. CASE Clean(p)
  <2>1. CASE pc' = pc
    BY <1>1, <1>3, <2>1 DEF Clean, At, Writing, Working
  <2>2. CASE /\ pc'[p] = "models" /\ out' = out /\ run' = run
             /\ Dir(p) \in Sticky \/ \A o \in Swept(Dir(p)) : out[o] = Absent
    <3>1. Dir(p) \notin Sticky => \A f \in Files : out'[<<Dir(p), f>>] = Absent
      BY <2>2 DEF Swept
    <3> QED
      BY <1>0, <2>2, <3>1 DEF Progressed, Publishing, Written, Writing, Files, Outputs
  <2> QED
    BY <1>3, <2>1, <2>2 DEF Clean, Goto, IInv, TypeOK
<1>4. ASSUME NEW l \in Locks, Acquire(p, l)
      PROVE  Progressed(p)'
  <2>1. out' = out /\ run' = run
        /\ (pc'[p] = "clean" \/ (pc[p] = "publish" /\ pc'[p] = "install"))
    BY <1>4 DEF Acquire, Wanted, At, Goto, IInv, TypeOK
  <2> QED
    BY <1>0, <2>1 DEF Progressed, Publishing, Written, Writing, Working, Steps
<1>5. CASE Install(p) \/ Switch(p) \/ Prune(p)
  <2>1. /\ out' = out /\ run' = run /\ pc[p] \in {"install", "switch", "prune"}
        /\ pc'[p] \in {"switch", "prune", "manifest"}
    BY <1>5 DEF Install, Switch, Prune, At, Goto, IInv, TypeOK
  <2> QED
    BY <1>0, <2>1 DEF Progressed, Publishing, Written, Writing, Working, Steps, Files
<1>6. ASSUME NEW next, Write(p, next)
      PROVE  Progressed(p)'
  <2>1. /\ run' = run /\ pc'[p] = next /\ <<pc[p], next>> \in After(Dir(p)) /\ pc[p] \in Outputs
        /\ out' = [out EXCEPT ![<<Dir(p), pc[p]>>] = run[p]]
    BY <1>6, AfterFiles DEF Write, Goto, IInv, TypeOK
  <2>2. \A f \in Files : <<Dir(p), f>> \in Places
    BY <1>0 DEF Places
  <2>3. \A f \in Files : out'[<<Dir(p), f>>] = IF f = pc[p] THEN run[p] ELSE out[<<Dir(p), f>>]
    BY <2>1, <2>2 DEF IInv, TypeOK, Files
  <2>4. pc[p] \in Writing /\ Outputs \subseteq Files /\ "manifest" \in Files \ Outputs
    BY <2>1 DEF Writing, Working, Steps, Files, Outputs
  <2>5. ASSUME Written(p), Dir(p) \notin Sticky
        PROVE  /\ out'[<<Dir(p), "manifest">>] = Absent
               /\ \A f \in Outputs : out'[<<Dir(p), f>>] \in {Absent, run[p]}
    BY <2>1, <2>3, <2>4, <2>5 DEF Written
  <2>6. Written(p) => next # "models" /\ out'[<<Dir(p), "models">>] = run[p]
    BY <1>0, <2>1, <2>3, <2>4 DEF Written, After, Outputs
  <2>7. Written(p) /\ next \notin {"extra", "decision"} => out'[<<Dir(p), "decision">>] = run[p]
    BY <1>0, <2>1, <2>3, <2>4 DEF Written, After, Outputs, Writing
  <2>8. next \in Publishing => Dir(p) = Root
    BY <2>1 DEF After, Publishing
  <2>9. Written(p) => Written(p)'
    BY <1>0, <2>1, <2>5, <2>6, <2>7 DEF Written
  <2> QED
    BY <1>0, <2>1, <2>8, <2>9 DEF Progressed
<1> QED
  BY <1>1, <1>2, <1>3, <1>4, <1>5, <1>6 DEF Step, TimeOut, WriteManifest, Fail

(* A root run that publishes finds its own files. *)
LEMMA PicksOwn ==
  ASSUME IInv, NEW p \in Procs, Install(p)
  PROVE  /\ Dir(p) = Root
         /\ picked' = [picked EXCEPT ![run[p]] = <<run[p], run[p]>>]
         /\ dir' = [dir EXCEPT ![<<run[p], run[p]>>] = "complete"]
         /\ current' = current /\ <<run[p], run[p]>> \in Bundles
<1>1. Dir(p) = Root
  BY DEF Install, At, IInv, Progress, Progressed, Publishing
<1>2. out[<<Root, "models">>] = run[p] /\ out[<<Root, "decision">>] = run[p]
  BY <1>1, Constants DEF Install, At, IInv, Progress, Progressed, Written, Writing, Working, Steps
<1> QED
  BY <1>1, <1>2 DEF Install, Store!Install

LEMMA PickedStays ==
  ASSUME IInv, NEW p \in Procs, Step(p) \/ Fail(p) \/ Die(p)
  PROVE  Picked'
<1> SUFFICES ASSUME NEW q \in Procs, pc'[q] = "switch"
             PROVE  picked'[run'[q]] = <<run'[q], run'[q]>>
  BY DEF Picked
<1>1. CASE Install(p)
  <2>1. run' = run /\ run[p] \in Runs /\ (q = p \/ pc[q] = "switch")
    BY <1>1 DEF Install, At, Goto, IInv, TypeOK
  <2>2. run[q] \in Runs
    BY <2>1 DEF IInv, TypeOK
  <2>3. q = p \/ run[q] # run[p]
    BY <2>2, Constants DEF IInv, Origin
  <2> QED
    BY <1>1, <2>1, <2>2, <2>3, PicksOwn DEF IInv, TypeOK, Picked
<1>2. CASE ~Install(p)
  <2>1. picked' = picked
    BY <1>2 DEF Step, Acquire, TimeOut, Clean, Switch, Prune, WriteManifest, Tidy, Write, Fail, Die
  <2>2. pc[q] = "switch"
    BY <1>2 DEF Step, Acquire, TimeOut, Clean, Switch, Prune, WriteManifest, Tidy, Write,
                Fail, Die, End, Goto, After, IInv, TypeOK
  <2>3. run'[q] = run[q]
    <3>1. run'[q] # NoRun
      BY StepTyped DEF IInv, TypeOK
    <3> QED
      BY <3>1, ProcEffects DEF IInv
  <2> QED
    BY <2>1, <2>2, <2>3 DEF IInv, Picked
<1> QED
  BY <1>1, <1>2

LEMMA BundlesStay ==
  ASSUME IInv, NEW p \in Procs, Step(p) \/ Fail(p) \/ Die(p)
  PROVE  BundleOfOneRun'
<1>1. CASE Install(p)
  <2>1. \A b \in Bundles : dir'[b] = IF b = <<run[p], run[p]>> THEN "complete" ELSE dir[b]
    BY <1>1, PicksOwn DEF IInv, TypeOK
  <2>2. current' = current
    BY <1>1, PicksOwn
  <2> QED
    BY <2>1, <2>2 DEF BundleOfOneRun, IInv
<1>2. CASE Switch(p)
  BY <1>2 DEF Switch, Store!Switch, At, BundleOfOneRun, IInv, Picked
<1>3. CASE Prune(p)
  <2>1. /\ current' = current
        /\ \A b \in Bundles : dir'[b] # "absent" => dir[b] # "absent"
    BY <1>3 DEF Prune, Store!BeginRemove, Store!EndRemove, store, IInv, TypeOK
  <2> QED
    BY <2>1 DEF BundleOfOneRun, IInv
<1> QED
  BY <1>1, <1>2, <1>3
  DEF Step, Acquire, TimeOut, Clean, WriteManifest, Tidy, Write, Fail, Die, store,
      BundleOfOneRun, IInv

(* Only a root run under the root lock moves the pointer, and no step takes apart  *)
(* the bundle it names.                                                            *)
LEMMA PublishedStays ==
  ASSUME IInv, NEW p \in Procs, Step(p) \/ Fail(p) \/ Die(p)
  PROVE  PublishedIsCurrent'
<1> SUFFICES ASSUME NEW q \in Procs, pc'[q] \in {"prune", "manifest"}, Dir(q)' = Root
             PROVE  current' = <<run'[q], run'[q]>> /\ dir'[current'] = "complete"
  BY DEF PublishedIsCurrent
<1>1. /\ run'[q] = run[q] /\ Dir(q) = Root /\ run[q] \in Runs
      /\ q # p => pc'[q] = pc[q]
  <2>1. run'[q] = run[q]
    BY ProcEffects, Constants DEF IInv, TypeOK, Step, Acquire, TimeOut, Clean, Install, Switch, Prune,
       WriteManifest, Tidy, Write, Fail, Die, End, Goto
  <2>2. run[q] # NoRun
    BY <2>1, ProcEffects, Constants DEF IInv, TypeOK, Step, Acquire, TimeOut, Clean, Install, Switch,
       Prune, WriteManifest, Tidy, Write, Fail, Die, End, Goto
  <2> QED
    BY <2>1, <2>2, ProcEffects DEF IInv, TypeOK, Dir
<1>2. CASE Switch(p)
  <2>1. pc[p] = "switch" /\ pc'[p] = "prune" /\ run[p] # NoRun
    BY <1>2 DEF Switch, At, Goto, IInv, TypeOK
  <2>2. Dir(p) = Root
    BY <2>1 DEF IInv, Progress, Progressed, Publishing
  <2>3. q = p
    <3>1. ASSUME q # p
          PROVE  FALSE
      <4>1. pc[q] \in Working /\ pc[p] \in Working
        BY <1>1, <2>1, <3>1 DEF Working, Steps, Files
      <4> QED
        BY <1>1, <2>2, <3>1, <4>1, NeverShared, Constants
    <3> QED
      BY <3>1
  <2>4. current' = <<run[p], run[p]>> /\ dir[<<run[p], run[p]>>] = "complete" /\ dir' = dir
    BY <1>2, <2>1 DEF Switch, Store!Switch, IInv, Picked
  <2> QED
    BY <1>1, <2>3, <2>4
<1>3. CASE ~Switch(p)
  <2>1. pc[q] \in {"prune", "manifest"}
    BY <1>1, <1>3 DEF Step, Acquire, TimeOut, Clean, Install, Prune, WriteManifest, Tidy, Write,
                      Fail, Die, End, Goto, After, At, IInv, TypeOK
  <2>2. current = <<run[q], run[q]>> /\ current \in Bundles /\ dir[current] = "complete"
    BY <1>1, <2>1 DEF IInv, PublishedIsCurrent, Bundles
  <2>3. current' = current /\ (dir'[current] = dir[current] \/ dir'[current] = "complete")
    <3>1. CASE Install(p)
      BY <2>2, <3>1, PicksOwn DEF IInv, TypeOK
    <3>2. CASE Prune(p)
      BY <2>2, <3>2 DEF Prune, Store!BeginRemove, Store!EndRemove, store, IInv, TypeOK
    <3> QED
      BY <1>3, <3>1, <3>2
      DEF Step, Acquire, TimeOut, Clean, WriteManifest, Tidy, Write, Fail, Die, store
  <2> QED
    BY <1>1, <2>2, <2>3
<1> QED
  BY <1>2, <1>3

LEMMA ManifestsStay ==
  ASSUME IInv, NEW p \in Procs, Step(p) \/ Fail(p) \/ Die(p)
  PROVE  ManifestTrue'
<1> SUFFICES ASSUME NEW n \in Dirs \ Exposed
             PROVE  ManifestTrueAt(n)'
  BY DEF ManifestTrue
<1>0. /\ run[p] \in Runs /\ run[p] # NoRun /\ ManifestTrueAt(n)
      /\ <<n, "manifest">> \in Places /\ \A f \in Outputs : <<n, f>> \in Places
  BY ProcEffects, Constants DEF IInv, ManifestTrue, Places, Files
<1>1. CASE WriteManifest(p) /\ n = Dir(p)
  <2>1. pc[p] \in Writing \ {"models", "extra", "decision"}
    BY <1>1 DEF WriteManifest, At, Writing, Working, Steps, Files
  <2>2. /\ n \notin Sticky => \A f \in Outputs : out[<<n, f>>] \in {Absent, run[p]}
        /\ out[<<n, "models">>] = run[p] /\ out[<<n, "decision">>] = run[p]
    BY <1>1, <2>1 DEF IInv, Progress, Progressed, Written
  <2>3. out'[<<n, "manifest">>] = run[p] /\ \A f \in Outputs : out'[<<n, f>>] = out[<<n, f>>]
    BY <1>0, <1>1 DEF WriteManifest, IInv, TypeOK, Outputs
  <2>4. listed'[run[p]] = [f \in Outputs |-> out[<<n, f>>]]
    BY <1>0, <1>1 DEF WriteManifest, IInv, TypeOK
  <2> QED
    BY <2>2, <2>3, <2>4 DEF ManifestTrueAt, Outputs
<1>2. CASE ~(WriteManifest(p) /\ n = Dir(p))
  <2> SUFFICES ASSUME out'[<<n, "manifest">>] # Absent
               PROVE  /\ out'[<<n, "manifest">>] = out[<<n, "manifest">>]
                      /\ listed'[out[<<n, "manifest">>]] = listed[out[<<n, "manifest">>]]
                      /\ n \notin Sticky =>
                           \A f \in Outputs : out'[<<n, f>>] \in {Absent, out[<<n, f>>]}
    BY <1>0 DEF ManifestTrueAt
  <2>1. out'[<<n, "manifest">>] = out[<<n, "manifest">>]
    <3> DEFINE o == <<n, "manifest">>
    <3>1. o \in Places /\ o[1] = n /\ o[2] = "manifest"
      BY <1>0
    <3> HIDE DEF o
    <3>2. out'[o] # out[o] => out'[o] = Absent
      BY <1>2, <3>1, OutEffects DEF IInv, OutStep
    <3> QED
      BY <3>2 DEF o
  <2>2. listed'[out[<<n, "manifest">>]] = listed[out[<<n, "manifest">>]]
    <3>1. CASE WriteManifest(p)
      <4>1. pc[p] # "tidy"
        BY <3>1 DEF WriteManifest, At
      <4>2. out[<<n, "manifest">>] # run[p]
        BY <1>0, <4>1 DEF IInv, Unlisted
      <4>3. out[<<n, "manifest">>] \in Runs
        BY <1>0, <2>1 DEF IInv, TypeOK
      <4> QED
        BY <1>0, <3>1, <4>2, <4>3 DEF WriteManifest, IInv, TypeOK
    <3> QED
      BY <3>1 DEF Step, Acquire, TimeOut, Clean, Install, Switch, Prune, Tidy, Write, Fail, Die
  <2>3. ASSUME n \notin Sticky, NEW f \in Outputs
        PROVE  out'[<<n, f>>] \in {Absent, out[<<n, f>>]}
    <3> SUFFICES ASSUME out'[<<n, f>>] # out[<<n, f>>], out'[<<n, f>>] # Absent
                 PROVE  FALSE
      OBVIOUS
    <3>1. n = Dir(p) /\ pc[p] \in Writing
      <4> DEFINE o == <<n, f>>
      <4>1. o \in Places /\ o[1] = n /\ out'[o] # out[o] /\ out'[o] # Absent
        BY <1>0
      <4> HIDE DEF o
      <4> QED
        BY <4>1, OutEffects DEF IInv, OutStep
    <3> QED
      BY <2>1, <2>3, <3>1 DEF IInv, Progress, Progressed, Written
  <2> QED
    BY <2>1, <2>2, <2>3
<1> QED
  BY <1>1, <1>2

-----------------------------------------------------------------------------
LEMMA StartStays == ASSUME IInv, NEW p \in Procs, NEW n \in Dirs, Start(p, n) PROVE IInv'
<1>1. TypeOK'
  BY StartTyped DEF IInv
<1>2. started' = started + 1 /\ started \in Nat /\ started' \in Runs /\ started' # NoRun
  BY Constants, PipelineAssumption DEF Start, IInv, TypeOK, Runs, PipelineAssumption
<1>3. /\ run'[p] = started' /\ pc'[p] = "lock"
      /\ \A q \in Procs \ {p} : run'[q] = run[q] /\ pc'[q] = pc[q]
      /\ \A r \in Runs : r # started' => place'[r] = place[r]
      /\ place'[started'] = n
      /\ UNCHANGED <<lock, out, listed, picked, dir, current>> /\ n \in Uses[p]
  BY <1>2 DEF Start, IInv, TypeOK, Goto, store
<1>4. \A q \in Procs : run[q] # NoRun => run[q] \in Runs /\ run[q] # started' /\ run[q] <= started'
  <2>1. \A q \in Procs : run[q] # NoRun => run[q] \in Runs /\ run[q] <= started
    BY DEF IInv, TypeOK, Origin
  <2>2. \A r \in Runs : r <= started => r # started' /\ r <= started'
    BY <1>2 DEF Runs
  <2> QED
    BY <2>1, <2>2
<1>5. /\ \A q \in Procs \ {p} : run[q] # NoRun => Dir(q)' = Dir(q)
      /\ Dir(p)' = n
  BY <1>2, <1>3, <1>4 DEF Dir
<1>10. Origin'
  <2>1. \A q \in Procs : run'[q] # NoRun => run'[q] <= started' /\ Dir(q)' \in Uses[q]
    <3>1. started' <= started'
      BY <1>2
    <3> QED
      BY <3>1, <1>3, <1>4, <1>5 DEF IInv, Origin
  <2>2. \A q, r \in Procs : run'[q] = run'[r] /\ run'[q] # NoRun => q = r
    BY <1>3, <1>4 DEF IInv, Origin
  <2>3. \A o \in Places : out'[o] # Absent => out'[o] <= started' /\ place'[out'[o]] = o[1]
    BY <1>2, <1>3, Constants DEF IInv, Origin, TypeOK, Runs
  <2>4. \A l \in Locks : lock'[l] # NoRun => lock'[l] <= started'
    BY <1>2, <1>3, Constants DEF IInv, Origin, TypeOK, Runs
  <2> QED
    BY <2>1, <2>2, <2>3, <2>4 DEF Origin
<1>6. \A q \in Procs : pc'[q] \notin {"idle", "lock"} =>
        q # p /\ pc[q] = pc'[q] /\ run'[q] = run[q] /\ run[q] # NoRun /\ Dir(q)' = Dir(q)
  <2>1. \A q \in Procs : pc'[q] \notin {"idle", "lock"} => q # p /\ pc[q] # "idle"
    BY <1>3
  <2> QED
    BY <1>3, <1>5, <2>1 DEF IInv, TypeOK
<1>7. Holds'
  BY <1>3, <1>6 DEF IInv, Holds, Working
<1>8. HoldsOnly'
  <2> SUFFICES ASSUME NEW q \in Procs, NEW l \in Locks, run'[q] # NoRun, lock[l] = run'[q]
               PROVE  /\ pc'[q] \in Working
                      /\ \/ l = LockName(Dir(q)')
                         \/ l = "publish" /\ pc'[q] \in {"install", "switch", "prune"}
    BY <1>3 DEF HoldsOnly
  <2>1. q # p
    BY <1>2, <1>3 DEF IInv, Origin
  <2> QED
    BY <1>3, <1>5, <2>1 DEF IInv, HoldsOnly
<1>9. Progress' /\ Picked'
  <2>1. Writing \cup Publishing \cup {"switch"} \subseteq Steps \ {"idle", "lock"}
    BY DEF Writing, Working, Steps, Publishing
  <2>2. Progress'
    BY <1>3, <1>6, <2>1 DEF IInv, Progress, Progressed, Written
  <2>3. Picked'
    BY <1>3, <1>6, <2>1 DEF IInv, Picked
  <2> QED
    BY <2>2, <2>3
<1>11. Unlisted'
  <2> SUFFICES ASSUME NEW q \in Procs, run'[q] # NoRun, pc'[q] # "tidy", NEW n1 \in Dirs
               PROVE  out[<<n1, "manifest">>] # run'[q]
    BY <1>3 DEF Unlisted
  <2>1. <<n1, "manifest">> \in Places
    BY DEF Places, Files
  <2>2. CASE q = p
    <3>1. out[<<n1, "manifest">>] # Absent => out[<<n1, "manifest">>] <= started
      BY <2>1 DEF IInv, Origin
    <3> QED
      BY <1>2, <1>3, <2>1, <2>2, <3>1, Constants DEF IInv, TypeOK
  <2>3. CASE q # p
    BY <1>3, <2>3 DEF IInv, Unlisted
  <2> QED
    BY <2>2, <2>3
<1>12. BundleOfOneRun' /\ ManifestTrue'
  BY <1>3 DEF IInv, BundleOfOneRun, ManifestTrue, ManifestTrueAt
<1>13. PublishedIsCurrent'
  BY <1>3, <1>6 DEF IInv, PublishedIsCurrent
<1> QED
  BY <1>1, <1>10, <1>7, <1>8, <1>9, <1>11, <1>12, <1>13 DEF IInv

(* The invariant: a run that works holds its lock, and so nobody else writes in    *)
(* its directory unless that is exposed.                                           *)
THEOREM RunsKeepApart == Spec => []IInv
<1>1. Init => IInv
  <2> SUFFICES ASSUME Init
               PROVE  IInv
    OBVIOUS
  <2>1. TypeOK
    BY Constants, PipelineAssumption
    DEF Init, TypeOK, Places, Steps, Results, PipelineAssumption
  <2>2. Origin /\ Unlisted /\ Holds /\ HoldsOnly /\ BundleOfOneRun
    BY Constants DEF Init, Origin, Unlisted, Holds, HoldsOnly, BundleOfOneRun, Working, Steps
  <2>3. Progress /\ Picked /\ PublishedIsCurrent
    BY DEF Init, Progress, Progressed, Written, Picked, PublishedIsCurrent, Working, Writing,
           Steps, Publishing
  <2>4. ManifestTrue
    BY DEF Init, ManifestTrue, ManifestTrueAt, Places, Files
  <2> QED
    BY <2>1, <2>2, <2>3, <2>4 DEF IInv
<1>2. IInv /\ [Next]_vars => IInv'
  <2> SUFFICES ASSUME IInv, [Next]_vars
               PROVE  IInv'
    OBVIOUS
  <2>1. CASE UNCHANGED vars
    BY <2>1 DEF vars, store, IInv, TypeOK, Origin, Unlisted, Holds, HoldsOnly, Progress, Progressed,
       Written, Picked, BundleOfOneRun, ManifestTrue, ManifestTrueAt, PublishedIsCurrent, Dir
  <2>2. ASSUME NEW p \in Procs, Step(p) \/ Fail(p) \/ Die(p)
        PROVE  IInv'
    <3>1. TypeOK'
      BY <2>2, StepTyped DEF IInv
    <3>2. Progress'
      BY <2>2, OwnProgress, OthersProgress DEF Progress
    <3> QED
      BY <2>2, <3>1, <3>2, OriginStays, UnlistedStays, HoldsStays, HoldsOnlyStays, PickedStays,
         BundlesStay, ManifestsStay, PublishedStays DEF IInv
  <2> QED
    BY <2>1, <2>2, StartStays DEF Next
<1> QED
  BY <1>1, <1>2, PTL DEF Spec

(* The bundles the servers find are each of one run, whatever becomes of           *)
(* namespaces and verifiers.                                                       *)
THEOREM BundlesOfOneRun == Spec => []BundleOfOneRun
BY RunsKeepApart, PTL DEF IInv

(* Outside the exposed namespaces manifests list the outputs of their run, and     *)
(* where rmtree removes what it should, what they list stays so or goes.           *)
THEOREM ManifestsTrue == Spec => []ManifestTrue
BY RunsKeepApart, PTL DEF IInv

(* What a root run reports as published is what the servers find.                  *)
THEOREM ReportsWhatIsServed == Spec => []PublishedIsCurrent
BY RunsKeepApart, PTL DEF IInv

(* No run touches the outputs of another; only files of exposed namespaces go      *)
(* without their lock.                                                             *)
THEOREM OutputsAreOwn == Spec => OwnOutputsOnly
<1> DEFINE Own == \A p \in Procs : Writes(p) =>
                    \A o \in Changed : o[1] \notin Exposed => o[1] = Dir(p) /\ Alone(p)
<1>1. IInv => Own
  <2> SUFFICES ASSUME IInv, NEW p \in Procs, Step(p), NEW o \in Places, out'[o] # out[o],
                      o[1] \notin Exposed
               PROVE  o[1] = Dir(p) /\ Alone(p)
    BY DEF Writes, Changed
  <2>1. o[1] = Dir(p) /\ pc[p] \in Working \cup {"tidy"}
    BY OutEffects DEF IInv, OutStep
  <2>2. \A q \in Procs \ {p} : AtWork(q) => pc[q] \in Working
    BY DEF AtWork, IInv, TypeOK, Working
  <2> QED
    BY <2>1, <2>2, NeverShared DEF Alone
<1> QED
  BY <1>1, RunsKeepApart, PTL DEF OwnOutputsOnly

(* A run that waits at the lock of its outputs holds none, and one that waits at    *)
(* the publish lock is of the root outputs and does not hold that lock.  So in any  *)
(* set of processes one at least waits for none of them.                            *)
THEOREM NobodyWaitsInACircle == Spec => []NoCircularWait
<1>1. IInv => NoCircularWait
  <2> SUFFICES ASSUME IInv, NEW S \in (SUBSET Procs) \ {{}},
                      \A p \in S : \E q \in S : WaitsFor(p, q)
               PROVE  FALSE
    BY DEF NoCircularWait
  <2>1. \A p, q \in S : WaitsFor(p, q) => pc[q] \in Working
    BY DEF WaitsFor, IInv, HoldsOnly
  <2>2. \A p, q \in S : WaitsFor(p, q) => \E l \in Locks : Wanted(p, l) /\ lock[l] = run[q]
    BY DEF WaitsFor
  <2>3. PICK p \in S : TRUE
    <3>1. S # {}
      OBVIOUS
    <3> QED
      BY <3>1
  <2>4. PICK q \in S : WaitsFor(p, q)
    BY <2>3
  <2>5. PICK r \in S : WaitsFor(q, r)
    BY <2>4
  <2>6. PICK t \in S : WaitsFor(r, t)
    BY <2>5
  <2>7. pc[q] = "publish" /\ pc[r] = "publish" /\ run[r] # NoRun
    BY <2>1, <2>4, <2>5, <2>6 DEF WaitsFor, Wanted, At, Working
  <2>8. lock["publish"] = run[r]
    BY <2>5, <2>7 DEF WaitsFor, Wanted, At
  <2>9. Dir(r) = Root
    BY <2>7 DEF IInv, Progress, Progressed, Publishing
  <2> QED
    BY <2>7, <2>8, <2>9, Constants DEF IInv, HoldsOnly
<1> QED
  BY <1>1, RunsKeepApart, PTL

=============================================================================

----------------------------- MODULE PipelineRun -----------------------------
(***************************************************************************)
(* scripts/run_pipeline.py as the processes of one machine run it: under    *)
(* the lock of its namespace a run removes the outputs of the run before    *)
(* it, writes its own, publishes a serving bundle (root outputs only, under *)
(* a second lock) and ends with a manifest of what it wrote.  Runs fail,    *)
(* die and meet each other.  What is computed is abstracted to the run that *)
(* wrote a file; the steps inside a publication are those of BundlePublish, *)
(* of which only the effect on the store (BundleStore) is seen here.  Locks *)
(* exclude here; when they do not is FileLock's subject.                    *)
(***************************************************************************)
EXTENDS Naturals, FiniteSets

CONSTANTS
  Procs,     \* process slots
  Root,      \* the outputs of a run without --output-namespace
  Names,     \* namespaces in use
  Verified,  \* that of verify_base_without_torch.py
  Uses,      \* the outputs each process may be asked for
  Sticky,    \* namespaces of which rmtree(ignore_errors=True) may leave files
  Absent, NoRun, NoBundle,
  MaxRuns,   \* bound: runs started in all
  MaxFaults  \* bound: runs that die or fail by an error of their own

Runs == 1 .. MaxRuns
Dirs == Names \cup {Root}
Outputs == {"models", "extra", "decision"}
Files == Outputs \cup {"manifest"}
Places == Dirs \X Files
Bundles == Runs \X Runs        \* the runs the models and the decision of a bundle are from

LockName(n) == IF n = Root THEN "root" ELSE n
Locks == {LockName(n) : n \in Dirs} \cup {"publish"}

ASSUME PipelineAssumption ==
  /\ Verified \subseteq Names /\ Sticky \subseteq Names /\ Root \notin Names
  /\ Uses \in [Procs -> SUBSET Dirs]
  /\ Absent \notin Nat /\ NoRun \notin Nat /\ NoBundle \notin Bundles
  /\ MaxRuns \in Nat /\ MaxFaults \in Nat

VARIABLES
  lock,    \* artifacts/.locks/<name>.lock: the run whose process made it
  out,     \* the run that wrote the file of this name
  listed,  \* what the manifest of a run says of its outputs
  run,     \* the run a process executes
  place,   \* where a run puts its outputs
  pc,      \* what a process does next
  picked,  \* the bundle a run publishes
  dir, current,  \* the store the servers read
  result,  \* how a run ended
  started, faults

store == <<dir, current>>
vars == <<lock, out, listed, run, place, pc, picked, dir, current, result, started, faults>>

Store == INSTANCE BundleStore WITH
  Bundles <- Bundles, NoBundle <- NoBundle, dir <- dir, current <- current

----------------------------------------------------------------------------
Live(r) == \E p \in Procs : run[p] = r

(* A mutant: every lock may be taken over. *)
FreeSoon(l) == TRUE

(* A lock may be taken if there is none or its owner no longer runs. *)
Free(l) == lock[l] = NoRun \/ ~Live(lock[l])

(* Mutants: a root run removes the namespaces too; the old manifest stays. *)
SweptEverything(n) == IF n = Root THEN Places ELSE {n} \X Files
SweptOutputs(n) == {n} \X Outputs

(* What a run removes before it starts: a namespaced run its two directories,  *)
(* a root run its files and the directory called data.                         *)
Swept(n) == ({n} \cup IF n = Root THEN Names \cap {"data"} ELSE {}) \X Files

At(p, step) == run[p] # NoRun /\ pc[p] = step
Dir(p) == place[run[p]]
Goto(p, step) == pc' = [pc EXCEPT ![p] = step]
Unlocked(r) == [l \in Locks |-> IF lock[l] = r THEN NoRun ELSE lock[l]]

(* A mutant: the verifier keeps its step. *)
EndOfRun(p, how) ==
  /\ result' = [result EXCEPT ![run[p]] = how]
  /\ lock' = Unlocked(run[p])
  /\ run' = [run EXCEPT ![p] = NoRun]
  /\ UNCHANGED pc

(* The run is over; a verifier still has its outputs to remove. *)
End(p, how) ==
  /\ result' = [result EXCEPT ![run[p]] = how]
  /\ lock' = Unlocked(run[p])
  /\ IF Dir(p) \in Verified
       THEN Goto(p, "tidy") /\ UNCHANGED run
       ELSE Goto(p, "idle") /\ run' = [run EXCEPT ![p] = NoRun]

----------------------------------------------------------------------------
Init ==
  /\ lock = [l \in Locks |-> NoRun]
  /\ out = [o \in Places |-> Absent]
  /\ listed = [r \in Runs |-> [f \in Outputs |-> Absent]]
  /\ run = [p \in Procs |-> NoRun]
  /\ place = [r \in Runs |-> Root]
  /\ pc = [p \in Procs |-> "idle"]
  /\ picked = [r \in Runs |-> NoBundle]
  /\ dir = [b \in Bundles |-> "absent"] /\ current = NoBundle
  /\ result = [r \in Runs |-> "none"]
  /\ started = 0 /\ faults = 0

Start(p, n) ==
  /\ run[p] = NoRun /\ n \in Uses[p]
  /\ started < MaxRuns /\ started' = started + 1
  /\ run' = [run EXCEPT ![p] = started']
  /\ place' = [place EXCEPT ![started'] = n]
  /\ result' = [result EXCEPT ![started'] = "running"]
  /\ Goto(p, "lock")
  /\ UNCHANGED <<lock, out, listed, picked, store, faults>>

(* l is the lock of the run at "lock", the publish lock at "publish". *)
Wanted(p, l) == \/ At(p, "lock") /\ l = LockName(Dir(p))
                \/ At(p, "publish") /\ l = "publish"

Acquire(p, l) ==
  /\ Wanted(p, l) /\ Free(l)
  /\ lock' = [lock EXCEPT ![l] = run[p]]
  /\ Goto(p, IF pc[p] = "lock" THEN "clean" ELSE "install")
  /\ UNCHANGED <<out, listed, run, place, picked, store, result, started, faults>>

(* LockTimeoutError: a living run has the lock; or a dead one left it behind and *)
(* it does not look stale yet (no metadata, another host) or ever (a reused pid). *)
TimeOut(p, l) ==
  /\ Wanted(p, l) /\ lock[l] # NoRun
  /\ End(p, "blocked")
  /\ UNCHANGED <<out, listed, place, picked, store, started, faults>>

(* File by file.  A namespaced run ignores every error and goes on with what it   *)
(* could not remove; a root run goes on only when nothing is left.                *)
Remove(o) == out[o] # Absent /\ out' = [out EXCEPT ![o] = Absent]

Clean(p) ==
  /\ At(p, "clean")
  /\ \/ (\E o \in Swept(Dir(p)) : Remove(o)) /\ UNCHANGED pc
     \/ /\ Dir(p) \in Sticky \/ \A o \in Swept(Dir(p)) : out[o] = Absent
        /\ Goto(p, "models")
        /\ UNCHANGED out
  /\ UNCHANGED <<lock, listed, run, place, picked, store, result, started, faults>>

(* A mutant: a namespaced run publishes as well. *)
AfterAnywhere(n) ==
  {<<"models", "extra">>, <<"models", "decision">>, <<"extra", "decision">>,
   <<"decision", "publish">>}

(* The order of the outputs; only the advanced mode writes the extra ones. *)
After(n) ==
  {<<"models", "extra">>, <<"models", "decision">>, <<"extra", "decision">>,
   <<"decision", IF n = Root THEN "publish" ELSE "manifest">>}

Write(p, next) ==
  /\ run[p] # NoRun /\ <<pc[p], next>> \in After(Dir(p))
  /\ out' = [out EXCEPT ![<<Dir(p), pc[p]>>] = run[p]]
  /\ Goto(p, next)
  /\ UNCHANGED <<lock, listed, run, place, picked, store, result, started, faults>>

(* The bundle is made of what lies in the root outputs, whatever the gates said. *)
(* No two runs write the same bytes here: BundlePublish has republication.       *)
Install(p) ==
  /\ At(p, "install")
  /\ LET b == <<out[<<Root, "models">>], out[<<Root, "decision">>]>>
     IN /\ b \in Bundles /\ Store!Install(b)
        /\ picked' = [picked EXCEPT ![run[p]] = b]
  /\ Goto(p, "switch")
  /\ UNCHANGED <<lock, out, listed, run, place, result, started, faults>>

Switch(p) ==
  /\ At(p, "switch")
  /\ Store!Switch(picked[run[p]])
  /\ Goto(p, "prune")
  /\ UNCHANGED <<lock, out, listed, run, place, picked, result, started, faults>>

(* A mutant: the current bundle is not exempt, and ruins stay. *)
PruneByAge(p) ==
  /\ At(p, "prune")
  /\ \/ \E b \in Bundles : dir[b] = "complete" /\ dir' = [dir EXCEPT ![b] = "partial"]
                           /\ UNCHANGED <<current, pc, lock>>
     \/ Goto(p, "manifest") /\ lock' = [lock EXCEPT !["publish"] = NoRun] /\ UNCHANGED store
  /\ UNCHANGED <<out, listed, run, place, picked, result, started, faults>>

(* Retention takes bundles apart, whichever BundlePublish retires; no ruin stays. *)
Prune(p) ==
  /\ At(p, "prune")
  /\ \/ (\E b \in Bundles : Store!BeginRemove(b) \/ Store!EndRemove(b)) /\ UNCHANGED <<pc, lock>>
     \/ /\ \A b \in Bundles : dir[b] # "partial"
        /\ Goto(p, "manifest")
        /\ lock' = [lock EXCEPT !["publish"] = IF @ = run[p] THEN NoRun ELSE @]
        /\ UNCHANGED store
  /\ UNCHANGED <<out, listed, run, place, picked, result, started, faults>>

WriteManifest(p) ==
  /\ At(p, "manifest")
  /\ listed' = [listed EXCEPT ![run[p]] = [f \in Outputs |-> out[<<Dir(p), f>>]]]
  /\ out' = [out EXCEPT ![<<Dir(p), "manifest">>] = run[p]]
  /\ End(p, "done")
  /\ UNCHANGED <<place, picked, store, started, faults>>

(* A verifier removes the outputs of its namespace, without their lock: whether   *)
(* its run made them or was turned away by the one that did.                      *)
Tidy(p) ==
  /\ At(p, "tidy")
  /\ \/ (\E o \in {Dir(p)} \X Files : Remove(o)) /\ UNCHANGED <<run, pc>>
     \/ /\ Dir(p) \in Sticky \/ \A o \in {Dir(p)} \X Files : out[o] = Absent
        /\ Goto(p, "idle") /\ run' = [run EXCEPT ![p] = NoRun]
        /\ UNCHANGED out
  /\ UNCHANGED <<lock, listed, place, picked, store, result, started, faults>>

(* An exception in the work of a run: its locks are released. *)
Fail(p) ==
  /\ run[p] # NoRun /\ pc[p] \notin {"lock", "tidy"}
  /\ faults < MaxFaults /\ faults' = faults + 1
  /\ End(p, "failed")
  /\ UNCHANGED <<out, listed, place, picked, store, started>>

(* A process is killed: its lock files stay. *)
Die(p) ==
  /\ run[p] # NoRun
  /\ faults < MaxFaults /\ faults' = faults + 1
  /\ result' = [result EXCEPT ![run[p]] = IF pc[p] = "tidy" THEN @ ELSE "dead"]
  /\ run' = [run EXCEPT ![p] = NoRun] /\ Goto(p, "idle")
  /\ UNCHANGED <<lock, out, listed, place, picked, store, started>>

Step(p) ==
  \/ \E l \in Locks : Acquire(p, l) \/ TimeOut(p, l)
  \/ Clean(p) \/ Install(p) \/ Switch(p) \/ Prune(p) \/ WriteManifest(p) \/ Tidy(p)
  \/ \E next \in Files \cup {"publish"} : Write(p, next)

Next == \E p \in Procs :
  Step(p) \/ Fail(p) \/ Die(p) \/ \E n \in Dirs : Start(p, n)

Spec == Init /\ [][Next]_vars

----------------------------------------------------------------------------
Steps == {"idle", "lock", "clean", "install", "publish", "switch", "prune", "tidy"} \cup Files
Results == {"none", "running", "done", "failed", "dead", "blocked"}

TypeOK ==
  /\ lock \in [Locks -> Runs \cup {NoRun}]
  /\ out \in [Places -> Runs \cup {Absent}]
  /\ listed \in [Runs -> [Outputs -> Runs \cup {Absent}]]
  /\ run \in [Procs -> Runs \cup {NoRun}]
  /\ place \in [Runs -> Dirs]
  /\ pc \in [Procs -> Steps]
  /\ picked \in [Runs -> Bundles \cup {NoBundle}]
  /\ dir \in [Bundles -> {"absent", "partial", "complete"}]
  /\ current \in Bundles \cup {NoBundle}
  /\ result \in [Runs -> Results]
  /\ \A p \in Procs : run[p] = NoRun <=> pc[p] = "idle"
  /\ started \in 0 .. MaxRuns /\ faults \in 0 .. MaxFaults

(* Every bundle the servers can find, and the one the pointer names, has its   *)
(* models and its decision from one and the same run, whatever other runs      *)
(* met it, died beside it or took its locks over.                              *)
BundleOfOneRun == \A b \in Bundles : dir[b] # "absent" \/ current = b => b[1] = b[2]

(* Namespaces whose files others remove without the lock: that of a verifier      *)
(* which several processes may run, and one called data, which is a directory of  *)
(* the root outputs.                                                              *)
Exposed ==
  {n \in Verified : \E p, q \in Procs : p # q /\ n \in Uses[p] /\ n \in Uses[q]}
    \cup (Names \cap {"data"})

(* A manifest lists the outputs of the run that wrote it, all of them and, unless *)
(* rmtree left some, none of an earlier run; and then, as long as it is there,    *)
(* every file it lists is as it was or has been removed: a later run that dies    *)
(* half-way leaves no manifest beside its own files.                              *)
ManifestTrueAt(n) ==
  LET r == out[<<n, "manifest">>] IN r # Absent =>
    /\ listed[r]["models"] = r /\ listed[r]["decision"] = r
    /\ n \notin Sticky => /\ listed[r]["extra"] \in {r, Absent}
                          /\ \A f \in Outputs : out[<<n, f>>] \in {Absent, listed[r][f]}
ManifestTrue == \A n \in Dirs \ Exposed : ManifestTrueAt(n)

(* A run changes the outputs of its own directory only, and not while another run *)
(* of it is at work: no run removes what a sibling writes (_clean_run_outputs),   *)
(* and no run that lost its lock, or never had it, goes on.                       *)
AtWork(p) == run[p] # NoRun /\ pc[p] \notin {"lock", "tidy"}
Changed == {o \in Places : out'[o] # out[o]}
Writes(p) == out' # out /\ Step(p)
Alone(p) == \A q \in Procs \ {p} : AtWork(q) => Dir(q) # Dir(p)
OwnOutputsOnly ==
  [][\A p \in Procs : Writes(p) =>
       \A o \in Changed : o[1] \notin Exposed => o[1] = Dir(p) /\ Alone(p)]_vars

(* What a root run reports as published is what the servers find: from the switch *)
(* to the end of the run, which puts the pointer into run_summary.json, the       *)
(* pointer names the bundle of this run's files, and the bundle is complete.      *)
PublishedIsCurrent ==
  \A p \in Procs : pc[p] \in {"prune", "manifest"} /\ Dir(p) = Root =>
    current = <<run[p], run[p]>> /\ dir[current] = "complete"

(* Runs take the publish lock inside their own, and namespaces may be called      *)
(* anything; still no processes wait in a circle for each other's locks.          *)
WaitsFor(p, q) == \E l \in Locks : Wanted(p, l) /\ run[q] # NoRun /\ lock[l] = run[q]
NoCircularWait ==
  \A S \in (SUBSET Procs) \ {{}} : \E p \in S : \A q \in S : ~WaitsFor(p, q)

----------------------------------------------------------------------------
(* What the repository says of the runs and does not hold; see README.            *)

(* README.md:196 "Pipeline and publish operations use cross-platform exclusive    *)
(* locks": nobody else changes outputs while a run is at work on them.            *)
LockedOutputs ==
  [][\A p \in Procs : Writes(p) => Alone(p)]_vars

=============================================================================

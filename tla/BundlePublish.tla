---------------------------- MODULE BundlePublish ----------------------------
(***************************************************************************)
(* _publish_serving_bundle (src/scripts/run_pipeline.py): under            *)
(* publish.lock a pipeline process copies the artifacts of its run into a  *)
(* temporary directory, renames that to serving_bundles/<digest>, points   *)
(* current_bundle.json at it and prunes old bundles.  A process may raise  *)
(* or die between any two of these steps.                                  *)
(*                                                                         *)
(* publish.lock excludes publishers here; FileLock says when it does.      *)
(***************************************************************************)
EXTENDS Integers, FiniteSets

CONSTANTS
  Bundles,        \* bundle ids: digests of the artifacts they hold
  NoBundle,       \* no pointer file
  Foreign,        \* bundles that another version of the package published
  Publishers,     \* pipeline processes
  NoProc,         \* nobody
  Retain,         \* the argument retain
  MaxInstalls,    \* bound: how many directories the processes rename into place
  RmtreeMayFail   \* may rmtree(ignore_errors=True) leave files behind?

ASSUME PublishAssumption ==
  /\ IsFiniteSet(Bundles) /\ NoBundle \notin Bundles
  /\ Foreign \subseteq Bundles
  /\ NoProc \notin Publishers
  /\ Retain \in Int /\ MaxInstalls \in Nat
  /\ RmtreeMayFail \in BOOLEAN

VARIABLES
  dir,            \* serving_bundles/<id>: "absent", "partial" or "complete"
  current,        \* the bundle id in current_bundle.json
  stamp,          \* st_mtime_ns of each bundle directory, also of one that is gone
  clock,          \* the latest stamp given
  tmp,            \* serving_bundles/.<id>.<pid>.tmp of each process
  lock,           \* owner of publish.lock
  dead,           \* processes that died
  pc, job, todo,  \* of the owner: its step, its bundle, directories to visit
  settled         \* auxiliary: the last publication ran to its end

store == <<dir, current>>
procVars == <<lock, dead, pc, job, todo, settled>>
vars == <<dir, current, stamp, clock, tmp, lock, dead, pc, job, todo, settled>>

Store == INSTANCE BundleStore WITH
  Bundles <- Bundles, NoBundle <- NoBundle, dir <- dir, current <- current

Present == {b \in Bundles : dir[b] # "absent"}

\* _serving_bundle_is_complete: all files match the manifest, and the provenance
\* is of this version of the package.
Usable(b) == dir[b] = "complete" /\ b \notin Foreign

Init ==
  /\ dir = [b \in Bundles |-> IF b \in Foreign THEN "complete" ELSE "absent"]
  /\ current \in Foreign \union {NoBundle}
  /\ stamp = [b \in Bundles |-> 0]
  /\ clock = 0
  /\ tmp = [p \in Publishers |-> "absent"]
  /\ lock = NoProc
  /\ dead = {}
  /\ pc = "idle"
  /\ job = NoBundle
  /\ todo = {}
  /\ settled = FALSE

-----------------------------------------------------------------------------
(* one publication *)

\* The lock is free or its owner died; the artifacts of the run are all there,
\* their provenance is compatible, and their digest is the id of bundle b.
Begin(p, b) ==
  /\ p \in Publishers \ dead
  /\ lock = NoProc \/ lock \in dead
  /\ b \in Bundles \ Foreign
  /\ clock < MaxInstalls \/ Usable(b)
  /\ lock' = p
  /\ pc' = "check"
  /\ job' = b
  /\ todo' = {}
  /\ settled' = FALSE
  /\ UNCHANGED <<store, stamp, clock, tmp, dead>>

Running == lock \in Publishers \ dead
At(l) == Running /\ pc = l

\* rmtree(path, ignore_errors=True) ends: what it leaves of the directory.
RmtreeLeaves == IF RmtreeMayFail THEN {"absent", "partial"} ELSE {"absent"}

\* A mutant: any directory in the bundle's place will do.
CheckExistsOnly ==
  /\ At("check")
  /\ pc' = IF job \in Present THEN "pointer" ELSE "mktemp"
  /\ UNCHANGED <<store, stamp, clock, tmp, lock, dead, job, todo, settled>>

\* A complete bundle of the same content is reused; an incomplete one is first
\* removed.  Whatever could not be removed stands in for the new bundle.
CheckFinal ==
  /\ At("check")
  /\ IF job \in Present /\ ~Usable(job)
     THEN \E left \in RmtreeLeaves :
            /\ dir' = [dir EXCEPT ![job] = left]
            /\ pc' = IF left = "absent" THEN "mktemp" ELSE "pointer"
     ELSE /\ pc' = IF job \in Present THEN "pointer" ELSE "mktemp"
          /\ UNCHANGED dir
  /\ UNCHANGED <<current, stamp, clock, tmp, lock, dead, job, todo, settled>>

\* What an earlier publication left there is removed first; if that fails, mkdir
\* raises (Fail).
MakeTemp ==
  /\ At("mktemp")
  /\ tmp' = [tmp EXCEPT ![lock] = "partial"]
  /\ pc' = "copy"
  /\ UNCHANGED <<store, stamp, clock, lock, dead, job, todo, settled>>

\* atomic_copy of each artifact, and the manifest last.
CopyAll ==
  /\ At("copy")
  /\ tmp' = [tmp EXCEPT ![lock] = "complete"]
  /\ pc' = "replace"
  /\ UNCHANGED <<store, stamp, clock, lock, dead, job, todo, settled>>

\* os.replace: atomic, and it keeps the mtime of the temporary directory.  Under
\* the lock nothing stands at the target; another OSError is a Fail.
Replace ==
  /\ At("replace")
  /\ dir[job] = "absent"
  /\ dir' = [dir EXCEPT ![job] = tmp[lock]]
  /\ clock' = clock + 1
  /\ stamp' = [stamp EXCEPT ![job] = clock + 1]
  /\ tmp' = [tmp EXCEPT ![lock] = "absent"]
  /\ pc' = "pointer"
  /\ UNCHANGED <<current, lock, dead, job, todo, settled>>

\* A mutant: the pruning leaves out directories it cannot use.
VisitUsableOnly == {b \in Present : Usable(b)}

VisitAll == Present

\* The pointer file is replaced atomically; then every bundle directory is visited.
WritePointer ==
  /\ At("pointer")
  /\ current' = job
  /\ pc' = "scan"
  /\ todo' = VisitAll
  /\ UNCHANGED <<dir, stamp, clock, tmp, lock, dead, job, settled>>

-----------------------------------------------------------------------------
(* pruning *)

\* rmtree of a directory, one step to the first file and one to the last.
Rmtree(b) ==
  \/ /\ dir[b] = "complete"
     /\ dir' = [dir EXCEPT ![b] = "partial"]
     /\ UNCHANGED todo
  \/ /\ dir[b] = "partial"
     /\ \E left \in RmtreeLeaves : dir' = [dir EXCEPT ![b] = left]
     /\ todo' = todo \ {b}

ScanOne ==
  /\ At("scan")
  /\ \E b \in todo :
       IF Usable(b)
       THEN /\ todo' = todo \ {b}
            /\ UNCHANGED dir
       ELSE Rmtree(b)
  /\ UNCHANGED <<current, stamp, clock, tmp, lock, dead, pc, job, settled>>

Keep == IF Retain > 1 THEN Retain ELSE 1
Newer(b) == {c \in Bundles : Usable(c) /\ stamp[c] > stamp[b]}

\* Mutants: the newest are retired, or the published bundle is not spared.
RetireNewest ==
  {b \in Bundles : /\ Usable(b) /\ b # job
                   /\ Cardinality({c \in Bundles : Usable(c) /\ stamp[c] < stamp[b]})
                        >= Keep}
RetireByAgeOnly == {b \in Bundles : Usable(b) /\ Cardinality(Newer(b)) >= Keep}

\* compatible_bundles[max(retain, 1):], newest first, without the new bundle.
Retired == {b \in Bundles : /\ Usable(b) /\ b # job
                            /\ Cardinality(Newer(b)) >= Keep}

ScanDone ==
  /\ At("scan") /\ todo = {}
  /\ todo' = Retired
  /\ pc' = "retire"
  /\ UNCHANGED <<store, stamp, clock, tmp, lock, dead, job, settled>>

RetireOne ==
  /\ At("retire")
  /\ \E b \in todo : Rmtree(b)
  /\ UNCHANGED <<current, stamp, clock, tmp, lock, dead, pc, job, settled>>

\* A mutant: the lock is released before the pruning is done.
FinishEarly ==
  /\ At("retire")
  /\ lock' = NoProc
  /\ pc' = "idle"
  /\ job' = NoBundle
  /\ settled' = TRUE
  /\ UNCHANGED <<store, stamp, clock, tmp, dead, todo>>

\* The publication returns and releases the lock.
Finish ==
  /\ At("retire") /\ todo = {}
  /\ lock' = NoProc
  /\ pc' = "idle"
  /\ job' = NoBundle
  /\ settled' = TRUE
  /\ UNCHANGED <<store, stamp, clock, tmp, dead, todo>>

-----------------------------------------------------------------------------
(* failures *)

\* A mutant: the temporary directory is left behind.
FailKeepsTemp == UNCHANGED tmp

\* except BaseException, around the copies and the rename: the temporary
\* directory goes.
FailCleansTemp ==
  IF pc \in {"copy", "replace"}
  THEN \E left \in RmtreeLeaves : tmp' = [tmp EXCEPT ![lock] = left]
  ELSE UNCHANGED tmp

\* Any step raises (a copy, the injected fault before the pointer, a stat): the
\* exception releases the lock.
Fail ==
  /\ Running
  /\ FailCleansTemp
  /\ lock' = NoProc
  /\ pc' = "idle"
  /\ job' = NoBundle
  /\ todo' = {}
  /\ UNCHANGED <<store, stamp, clock, dead, settled>>

\* The process dies: nothing is cleaned up and its lock file stays.
Crash ==
  /\ Running
  /\ dead' = dead \union {lock}
  /\ pc' = "idle"
  /\ job' = NoBundle
  /\ todo' = {}
  /\ UNCHANGED <<store, stamp, clock, tmp, lock, settled>>

Next ==
  \/ \E p \in Publishers, b \in Bundles : Begin(p, b)
  \/ CheckFinal \/ MakeTemp \/ CopyAll \/ Replace \/ WritePointer
  \/ ScanOne \/ ScanDone \/ RetireOne \/ Finish
  \/ Fail \/ Crash

Spec == Init /\ [][Next]_vars

-----------------------------------------------------------------------------
(* properties *)

\* The types, and what belongs together: there is a job between Begin and the
\* end, under a lock, and directories to visit only while pruning.
TypeOK ==
  /\ dir \in [Bundles -> {"absent", "partial", "complete"}]
  /\ current \in Bundles \union {NoBundle}
  /\ stamp \in [Bundles -> Nat]
  /\ clock \in Nat
  /\ tmp \in [Publishers -> {"absent", "partial", "complete"}]
  /\ lock \in Publishers \union {NoProc}
  /\ dead \subseteq Publishers
  /\ pc \in {"idle", "check", "mktemp", "copy", "replace", "pointer", "scan",
             "retire"}
  /\ job \in (Bundles \ Foreign) \union {NoBundle}
  /\ todo \subseteq Bundles
  /\ settled \in BOOLEAN
  /\ job = NoBundle <=> pc = "idle"
  /\ pc # "idle" => lock \in Publishers \ dead
  /\ pc \notin {"scan", "retire"} => todo = {}

\* Whatever step a publisher raises or dies at, current_bundle.json names a
\* bundle that is whole (run_pipeline.py:128 "Publish a complete immutable
\* serving bundle and atomically switch the pointer").
PointerNamesComplete == Store!PointerNamesComplete

\* A publication is, step by step, one of the promised operations on the store
\* or invisible to the servers.
ImplementsStore == Store!Spec

\* A bundle outlives the installation of Keep - 1 later ones, whoever crashes or
\* raises meanwhile: a server that has read the pointer has that long to load
\* what it names.
NewestKept ==
  \A b \in Bundles \ Foreign :
    stamp[b] # 0 /\ stamp[b] > clock - Keep => dir[b] = "complete"

\* A temporary directory outlives its publication only if the process died: an
\* exception leaves none behind.
TempOnlyOfDead ==
  \A p \in Publishers : tmp[p] # "absent" =>
    p \in dead \/ (p = lock /\ pc \in {"copy", "replace"})

\* After a publication has run to its end no partial bundle and no bundle of
\* another version is left, and at most Keep + 1 bundles are: the Keep newest
\* and the published one.
SettledClean ==
  settled => /\ \A b \in Bundles : dir[b] # "absent" => Usable(b)
             /\ Cardinality(Present) <= Keep + 1

=============================================================================

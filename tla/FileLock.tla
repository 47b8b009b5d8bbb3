------------------------------ MODULE FileLock ------------------------------
(***************************************************************************)
(* ExclusiveFileLock (src/src/reference_eta/locking.py): processes exclude *)
(* one another by creating one lock file with O_CREAT | O_EXCL.  A         *)
(* contender that finds the file there decides in three separate system    *)
(* calls (stat, read, kill 0) whether its owner is gone, and removes it BY *)
(* PATH in a fourth.  The third is not exact: it can take a living owner   *)
(* for dead.                                                               *)
(*                                                                         *)
(* The random token of an acquisition is represented by the process that   *)
(* created the file: a process acquires one lock at a time, and a file it  *)
(* created earlier cannot exist any more once it has created a new one.    *)
(***************************************************************************)
EXTENDS Naturals

CONSTANTS
  Procs,        \* operating-system processes that use the lock, one pid each
  NoProc,       \* not a process
  HostOf,       \* the host each process runs on
  Crashers,     \* processes that may die at any step
  Quitters,     \* processes that may exit once they are outside the lock
  Ageing,       \* may a lock file grow older than stale_after_seconds?
  PidReuse,     \* may the pid of a dead process be given to another program?
  PidErrors,    \* may the check of a living pid fail, and so find nobody?
  WriteErrors   \* may writing the metadata raise (disk full, interrupt)?

ASSUME LockAssumption ==
  /\ NoProc \notin Procs
  /\ Crashers \subseteq Procs
  /\ Quitters \subseteq Procs
  /\ {Ageing, PidReuse, PidErrors, WriteErrors} \subseteq BOOLEAN

VARIABLES
  file,         \* the lock file: its creator, whether its metadata is written,
                \* and whether its mtime is older than stale_after_seconds
  pc,           \* where each process is in acquire / release
  late,         \* has the deadline of the acquire call passed?
  sawOld,       \* what the stat of _is_stale found
  suspect,      \* the pid read from the metadata
  pidUp,        \* does kill(pid, 0) find a process?
  robbed,       \* auxiliary: owners whose file someone else removed
  overtaken,    \* auxiliary: those robbed between the two steps of release
  disturbed     \* auxiliary: a process has ended, a lock file has aged, or the
                \* check of a living pid has failed

lockVars == <<file, pc, late, sawOld, suspect, pidUp>>
auxVars == <<robbed, overtaken, disturbed>>
vars ==
  <<file, pc, late, sawOld, suspect, pidUp, robbed, overtaken, disturbed>>

NoFile == [owner |-> NoProc, written |-> FALSE, old |-> FALSE]
NewFile(p) == [owner |-> p, written |-> FALSE, old |-> FALSE]
Exists == file # NoFile

PC == {"idle", "open", "stat", "meta", "kill", "unlink", "deadline",
       "write", "hold", "relunlink", "stopped"}
Trying(p) == pc[p] \in {"open", "stat", "meta", "kill", "unlink", "deadline"}
InUse(p) == pc[p] \in {"write", "hold", "relunlink"}

Goto(p, l) == pc' = [pc EXCEPT ![p] = l]

Init ==
  /\ file = NoFile
  /\ pc = [p \in Procs |-> "idle"]
  /\ late = [p \in Procs |-> FALSE]
  /\ sawOld = [p \in Procs |-> FALSE]
  /\ suspect = [p \in Procs |-> NoProc]
  /\ pidUp = [p \in Procs |-> TRUE]
  /\ robbed = {}
  /\ overtaken = {}
  /\ disturbed = FALSE

(***************************************************************************)
(* unlink(path) by p: whoever's file stands at the path goes.              *)
(***************************************************************************)
Victims(p) == {q \in Procs \ {p} : file.owner = q /\ InUse(q)}
UnlinkPath == file' = NoFile

\* For the auxiliary variables: vs lose their file, p is done with its own.
Rob(vs, p) ==
  /\ robbed' = (robbed \union vs) \ {p}
  /\ overtaken' =
       (overtaken \union {q \in vs : pc[q] = "relunlink"}) \ {p}

-----------------------------------------------------------------------------
(* acquire *)

\* acquire(): deadline = now + timeout_seconds; with timeout_seconds = 0 it has
\* passed from the start.
Acquire(p) ==
  /\ pc[p] = "idle"
  /\ Goto(p, "open")
  /\ \E l \in BOOLEAN : late' = [late EXCEPT ![p] = l]
  /\ UNCHANGED <<file, sawOld, suspect, pidUp, auxVars>>

DeadlinePasses(p) ==
  /\ Trying(p) /\ ~late[p]
  /\ late' = [late EXCEPT ![p] = TRUE]
  /\ UNCHANGED <<file, pc, sawOld, suspect, pidUp, auxVars>>

\* os.open(O_CREAT | O_EXCL) succeeds: the file exists, still empty.
OpenCreates(p) ==
  /\ pc[p] = "open"
  /\ ~Exists
  /\ file' = NewFile(p)
  /\ Goto(p, "write")
  /\ UNCHANGED <<late, sawOld, suspect, pidUp, auxVars>>

OpenFindsFile(p) ==
  /\ pc[p] = "open"
  /\ Exists
  /\ Goto(p, "stat")
  /\ UNCHANGED <<file, late, sawOld, suspect, pidUp, auxVars>>

\* _is_stale: the age is taken by one system call ...
StatFile(p) ==
  /\ pc[p] = "stat"
  /\ \/ /\ ~Exists
        /\ Goto(p, "deadline")
        /\ UNCHANGED sawOld
     \/ /\ Exists
        /\ Goto(p, "meta")
        /\ sawOld' = [sawOld EXCEPT ![p] = file.old]
  /\ UNCHANGED <<file, late, suspect, pidUp, auxVars>>

\* a mutant: metadata that cannot be read makes the file stale at any age
UnreadableIsStale(p) ==
  /\ pc[p] = "meta"
  /\ ~file.written
  /\ Goto(p, "unlink")
  /\ UNCHANGED suspect

\* ... the metadata by another, which may meet another file or none.  A file
\* with no readable metadata is judged by the age found before.
Unreadable(p) ==
  /\ pc[p] = "meta"
  /\ ~file.written
  /\ Goto(p, IF sawOld[p] THEN "unlink" ELSE "deadline")
  /\ UNCHANGED suspect

\* a mutant: the owner of a local lock is judged by the age of its file
LocalJudgedByAge(p) ==
  /\ pc[p] = "meta"
  /\ file.written
  /\ HostOf[file.owner] = HostOf[p]
  /\ Goto(p, IF sawOld[p] THEN "unlink" ELSE "deadline")
  /\ UNCHANGED suspect

\* The owner ran on this host: its pid decides, whatever the age.
LocalOwner(p) ==
  /\ pc[p] = "meta"
  /\ file.written
  /\ HostOf[file.owner] = HostOf[p]
  /\ Goto(p, "kill")
  /\ suspect' = [suspect EXCEPT ![p] = file.owner]

\* The owner ran on another host: the age decides.
RemoteOwner(p) ==
  /\ pc[p] = "meta"
  /\ file.written
  /\ HostOf[file.owner] # HostOf[p]
  /\ Goto(p, IF sawOld[p] THEN "unlink" ELSE "deadline")
  /\ UNCHANGED suspect

ReadMetadata(p) ==
  /\ Unreadable(p) \/ LocalOwner(p) \/ RemoteOwner(p)
  /\ sawOld' = [sawOld EXCEPT ![p] = FALSE]
  /\ UNCHANGED <<file, late, pidUp, auxVars>>

\* _pid_is_running(pid).  A living process may be missed: tasklist cannot be
\* started or lists no row for it, or kill(pid, 0) raises an OSError other than
\* ProcessLookupError and PermissionError; the answer is then False.
CheckPid(p) ==
  /\ pc[p] = "kill"
  /\ \/ ~pidUp[suspect[p]] /\ Goto(p, "unlink") /\ UNCHANGED disturbed
     \/ pidUp[suspect[p]] /\ Goto(p, "deadline") /\ UNCHANGED disturbed
     \/ /\ PidErrors /\ pidUp[suspect[p]]
        /\ Goto(p, "unlink")
        /\ disturbed' = TRUE
  /\ suspect' = [suspect EXCEPT ![p] = NoProc]
  /\ UNCHANGED <<file, late, sawOld, pidUp, robbed, overtaken>>

\* The stale file goes and the loop continues, with no look at the deadline.
UnlinkStale(p) ==
  /\ pc[p] = "unlink"
  /\ UnlinkPath
  /\ Rob(Victims(p), p)
  /\ Goto(p, "open")
  /\ UNCHANGED <<late, sawOld, suspect, pidUp, disturbed>>

\* a mutant: the loop never gives up
NeverGivesUp(p) ==
  /\ pc[p] = "deadline"
  /\ Goto(p, "open")
  /\ UNCHANGED late

\* Past the deadline LockTimeoutError leaves acquire; before it the contender
\* sleeps poll_seconds and tries again.
GiveUpOrSleep(p) ==
  /\ pc[p] = "deadline"
  /\ Goto(p, IF late[p] THEN "idle" ELSE "open")
  /\ late' = [late EXCEPT ![p] = FALSE]

CheckDeadline(p) ==
  /\ GiveUpOrSleep(p)
  /\ UNCHANGED <<file, sawOld, suspect, pidUp, auxVars>>

\* a mutant: the metadata is written by path instead of by descriptor
MetadataByPath(p) == file' = [file EXCEPT !.written = TRUE, !.old = FALSE]

\* os.write and os.fsync go to the descriptor: if the file has been removed from
\* the path meanwhile, whatever stands there now is not touched.
MetadataByDescriptor(p) ==
  file' = IF file.owner = p
          THEN [file EXCEPT !.written = TRUE, !.old = FALSE]
          ELSE file

WriteMetadata(p) ==
  /\ pc[p] = "write"
  /\ MetadataByDescriptor(p)
  /\ Goto(p, "hold")
  /\ late' = [late EXCEPT ![p] = FALSE]
  /\ UNCHANGED <<sawOld, suspect, pidUp, auxVars>>

\* The write or the fsync raises: the descriptor is closed, the exception leaves
\* acquire, _token stays None and the file stays, with or without its metadata.
WriteRaises(p) ==
  /\ WriteErrors
  /\ pc[p] = "write"
  /\ MetadataByDescriptor(p) \/ UNCHANGED file
  /\ Goto(p, "idle")
  /\ late' = [late EXCEPT ![p] = FALSE]
  /\ Rob({}, p)
  /\ UNCHANGED <<sawOld, suspect, pidUp, disturbed>>

-----------------------------------------------------------------------------
(* release *)

\* a mutant: release compares no tokens
ReleaseUnread(p) ==
  /\ pc[p] = "hold"
  /\ Goto(p, "relunlink")
  /\ UNCHANGED <<file, late, sawOld, suspect, pidUp, auxVars>>

\* release() first reads the metadata and compares tokens ...
ReleaseRead(p) ==
  /\ pc[p] = "hold"
  /\ \/ /\ file.owner = p /\ file.written
        /\ Goto(p, "relunlink")
        /\ UNCHANGED <<robbed, overtaken>>
     \/ /\ ~(file.owner = p /\ file.written)
        /\ Goto(p, "idle")
        /\ Rob({}, p)
  /\ UNCHANGED <<file, late, sawOld, suspect, pidUp, disturbed>>

\* ... and then removes the file, whichever it is by now.  (Only a process
\* overtaken since it compared the tokens is excused for robbing another.)
ReleaseUnlink(p) ==
  /\ pc[p] = "relunlink"
  /\ UnlinkPath
  /\ Rob(IF p \in overtaken THEN Victims(p) ELSE {}, p)
  /\ Goto(p, "idle")
  /\ UNCHANGED <<late, sawOld, suspect, pidUp, disturbed>>

-----------------------------------------------------------------------------
(* the environment *)

\* A process ends, in the middle of anything (Crashers) or after it has left the
\* lock (Quitters).  Its pid is then unknown to kill(pid, 0).
Stop(p) ==
  /\ \/ p \in Crashers /\ pc[p] # "stopped"
     \/ p \in Quitters /\ pc[p] = "idle"
  /\ Goto(p, "stopped")
  /\ pidUp' = [pidUp EXCEPT ![p] = FALSE]
  /\ late' = [late EXCEPT ![p] = FALSE]
  /\ sawOld' = [sawOld EXCEPT ![p] = FALSE]
  /\ suspect' = [suspect EXCEPT ![p] = NoProc]
  /\ Rob({}, p)
  /\ disturbed' = TRUE
  /\ UNCHANGED file

\* The system gives the pid of a dead process to an unrelated program.
ReusePid(p) ==
  /\ PidReuse
  /\ pc[p] = "stopped" /\ ~pidUp[p]
  /\ pidUp' = [pidUp EXCEPT ![p] = TRUE]
  /\ UNCHANGED <<file, pc, late, sawOld, suspect, auxVars>>

FileAges ==
  /\ Ageing
  /\ Exists /\ ~file.old
  /\ file' = [file EXCEPT !.old = TRUE]
  /\ disturbed' = TRUE
  /\ UNCHANGED <<pc, late, sawOld, suspect, pidUp, robbed, overtaken>>

-----------------------------------------------------------------------------
AcquireStep(p) ==
  \/ OpenCreates(p) \/ OpenFindsFile(p) \/ StatFile(p) \/ ReadMetadata(p)
  \/ CheckPid(p) \/ UnlinkStale(p) \/ CheckDeadline(p) \/ WriteMetadata(p)

Next ==
  \/ \E p \in Procs :
       \/ Acquire(p) \/ DeadlinePasses(p)
       \/ OpenCreates(p) \/ OpenFindsFile(p) \/ StatFile(p) \/ ReadMetadata(p)
       \/ CheckPid(p) \/ UnlinkStale(p) \/ CheckDeadline(p)
       \/ WriteMetadata(p) \/ WriteRaises(p)
       \/ ReleaseRead(p) \/ ReleaseUnlink(p)
       \/ Stop(p) \/ ReusePid(p)
  \/ FileAges

(***************************************************************************)
(* A process inside acquire or release keeps running until it stops, and   *)
(* time passes.  Nobody has to call acquire, and the body of the with      *)
(* statement (pc = "hold") may take as long as it likes.                   *)
(***************************************************************************)
Fairness ==
  \A p \in Procs :
    /\ WF_vars(AcquireStep(p))
    /\ WF_vars(ReleaseUnlink(p))
    /\ WF_vars(DeadlinePasses(p))

Spec == Init /\ [][Next]_vars
FairSpec == Spec /\ Fairness

-----------------------------------------------------------------------------
(* properties *)

TypeOK ==
  /\ file \in {NoFile} \union [owner : Procs, written : BOOLEAN, old : BOOLEAN]
  /\ pc \in [Procs -> PC]
  /\ late \in [Procs -> BOOLEAN]
  /\ sawOld \in [Procs -> BOOLEAN]
  /\ suspect \in [Procs -> Procs \union {NoProc}]
  /\ pidUp \in [Procs -> BOOLEAN]
  /\ robbed \subseteq Procs
  /\ overtaken \subseteq Procs
  /\ disturbed \in BOOLEAN

\* What "exclusive lock" means (README.md:196-197): two processes are never
\* inside the with statement at once.
MutualExclusion ==
  \A p, q \in Procs : pc[p] = "hold" /\ pc[q] = "hold" => p = q

\* Exclusion holds as long as no process that uses the lock has ended, no lock
\* file has outlived stale_after_seconds and no check of a living pid has failed
\* (locking.py:27-28, 33, 51-52): until then _is_stale never answers True,
\* whatever the interleaving of stat, read, kill, unlink with creations, writes
\* and releases.
ExclusiveUntilDisturbed == ~disturbed => MutualExclusion

\* From the creation of the file to the unlink of release, the file at the path
\* is the owner's, with its metadata once written, unless the owner was robbed;
\* and only two unlinks can rob it: that of a contender that judged a file
\* stale, and that of a releaser which lost its own file between comparing the
\* tokens and removing the path.  The release of a process whose file had gone
\* before it compared the tokens removes nobody's file.
OwnerKeepsFile ==
  \A p \in Procs : InUse(p) /\ p \notin robbed =>
    /\ file.owner = p
    /\ pc[p] # "write" => file.written

\* A caller of acquire does not wait for ever: it gets the lock, gives up, dies,
\* or finds a stale file to recover (which it then retries after, however late).
AcquireReturns ==
  \A p \in Procs : Trying(p) ~> (~Trying(p) \/ pc[p] = "unlink")

\* The lock of a process that died holding it does not block its host: once a
\* contender of that host tries, the file goes (or the contender dies, or the
\* dead owner's pid has been given to another program).
OwnerDied ==
  Exists /\ file.written /\ pc[file.owner] = "stopped" /\ ~pidUp[file.owner]
DeadOwnerRecovered ==
  \A p \in Procs :
    (OwnerDied /\ HostOf[p] = HostOf[file.owner] /\ pc[p] = "open")
      ~> (~OwnerDied \/ pc[p] = "stopped")

=============================================================================

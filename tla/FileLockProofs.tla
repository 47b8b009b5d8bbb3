--------------------------- MODULE FileLockProofs ---------------------------
(***************************************************************************)
(* Safety of FileLock for every set of processes, every assignment of      *)
(* hosts and every combination of crashes, ageing and write errors.        *)
(***************************************************************************)
EXTENDS FileLock, TLAPS

USE LockAssumption


-----------------------------------------------------------------------------
(* Type correctness *)

\* Every variable keeps its type.
THEOREM TypeCorrect == Spec => []TypeOK
<1>1. Init => TypeOK
  BY DEF Init, TypeOK, PC
<1>2. TypeOK /\ [Next]_vars => TypeOK'
  <2> SUFFICES ASSUME TypeOK, [Next]_vars PROVE TypeOK'
    OBVIOUS
  <2> USE DEF TypeOK, PC, Goto, auxVars, NoFile, NewFile
  <2>1. ASSUME NEW p \in Procs, Acquire(p) PROVE TypeOK'
    BY <2>1 DEF Acquire
  <2>2. ASSUME NEW p \in Procs, DeadlinePasses(p) PROVE TypeOK'
    BY <2>2 DEF DeadlinePasses
  <2>3. ASSUME NEW p \in Procs, OpenCreates(p) PROVE TypeOK'
    BY <2>3 DEF OpenCreates
  <2>4. ASSUME NEW p \in Procs, OpenFindsFile(p) PROVE TypeOK'
    BY <2>4 DEF OpenFindsFile
  <2>5. ASSUME NEW p \in Procs, StatFile(p) PROVE TypeOK'
    BY <2>5 DEF StatFile, Exists
  <2>6. ASSUME NEW p \in Procs, ReadMetadata(p) PROVE TypeOK'
    BY <2>6 DEF ReadMetadata, Unreadable, LocalOwner, RemoteOwner
  <2>7. ASSUME NEW p \in Procs, CheckPid(p) PROVE TypeOK'
    <3>1. Goto(p, "unlink") \/ Goto(p, "deadline")
      BY <2>7 DEF CheckPid
    <3>2. disturbed' \in BOOLEAN
      BY <2>7 DEF CheckPid
    <3> QED
      BY <2>7, <3>1, <3>2 DEF CheckPid
  <2>8. ASSUME NEW p \in Procs, UnlinkStale(p) PROVE TypeOK'
    BY <2>8 DEF UnlinkStale, UnlinkPath, Victims, Rob
  <2>9. ASSUME NEW p \in Procs, CheckDeadline(p) PROVE TypeOK'
    BY <2>9 DEF CheckDeadline, GiveUpOrSleep
  <2>10. ASSUME NEW p \in Procs, WriteMetadata(p) PROVE TypeOK'
    BY <2>10 DEF WriteMetadata, MetadataByDescriptor
  <2>11. ASSUME NEW p \in Procs, WriteRaises(p) PROVE TypeOK'
    BY <2>11 DEF WriteRaises, MetadataByDescriptor, Rob
  <2>12. ASSUME NEW p \in Procs, ReleaseRead(p) PROVE TypeOK'
    BY <2>12 DEF ReleaseRead, Rob
  <2>13. ASSUME NEW p \in Procs, ReleaseUnlink(p) PROVE TypeOK'
    BY <2>13 DEF ReleaseUnlink, UnlinkPath, Victims, Rob
  <2>14. ASSUME NEW p \in Procs, Stop(p) PROVE TypeOK'
    BY <2>14 DEF Stop, Rob
  <2>15. ASSUME NEW p \in Procs, ReusePid(p) PROVE TypeOK'
    BY <2>15 DEF ReusePid
  <2>16. ASSUME FileAges PROVE TypeOK'
    BY <2>16 DEF FileAges, Exists
  <2>17. ASSUME UNCHANGED vars PROVE TypeOK'
    BY <2>17 DEF vars
  <2> QED
    BY <2>1, <2>2, <2>3, <2>4, <2>5, <2>6, <2>7, <2>8, <2>9, <2>10, <2>11,
       <2>12, <2>13, <2>14, <2>15, <2>16, <2>17 DEF Next
<1>3. QED
  BY <1>1, <1>2, PTL DEF Spec

-----------------------------------------------------------------------------
(* The owner and its file *)

\* What is left of a robbed owner: nothing at the path; and if it is about to
\* remove the path all the same, it compared the tokens before it was robbed.
RobbedHasNothing ==
  \A p \in Procs : p \in robbed =>
    /\ InUse(p)
    /\ file.owner # p
    /\ pc[p] = "relunlink" => p \in overtaken

\* Between creating the file and unlinking it, a process that nobody robbed owns
\* the file at the path; only a contender that judged a file stale, and a
\* releaser robbed after it compared the tokens, can rob.  The invariant needs
\* RobbedHasNothing: a releaser that is not in overtaken was not robbed either,
\* so the file it removes is its own.
THEOREM OwnerKeepsItsFile == Spec => []OwnerKeepsFile
<1> DEFINE Inv == OwnerKeepsFile /\ RobbedHasNothing
<1>1. Init => Inv
  BY DEF Init, OwnerKeepsFile, RobbedHasNothing, InUse
<1>2. TypeOK /\ Inv /\ [Next]_vars => Inv'
  <2> SUFFICES ASSUME TypeOK, Inv, [Next]_vars PROVE Inv'
    OBVIOUS
  <2> USE DEF TypeOK, OwnerKeepsFile, RobbedHasNothing, InUse, PC, Goto,
              auxVars, NoFile, NewFile
  <2>1. ASSUME NEW p \in Procs, Acquire(p) PROVE Inv'
    BY <2>1 DEF Acquire
  <2>2. ASSUME NEW p \in Procs, DeadlinePasses(p) PROVE Inv'
    BY <2>2 DEF DeadlinePasses
  <2>3. ASSUME NEW p \in Procs, OpenCreates(p) PROVE Inv'
    BY <2>3 DEF OpenCreates, Exists
  <2>4. ASSUME NEW p \in Procs, OpenFindsFile(p) PROVE Inv'
    BY <2>4 DEF OpenFindsFile
  <2>5. ASSUME NEW p \in Procs, StatFile(p) PROVE Inv'
    BY <2>5 DEF StatFile, Exists
  <2>6. ASSUME NEW p \in Procs, ReadMetadata(p) PROVE Inv'
    BY <2>6 DEF ReadMetadata, Unreadable, LocalOwner, RemoteOwner
  <2>7. ASSUME NEW p \in Procs, CheckPid(p) PROVE Inv'
    BY <2>7 DEF CheckPid
  <2>8. ASSUME NEW p \in Procs, UnlinkStale(p) PROVE Inv'
    BY <2>8 DEF UnlinkStale, UnlinkPath, Victims, Rob
  <2>9. ASSUME NEW p \in Procs, CheckDeadline(p) PROVE Inv'
    BY <2>9 DEF CheckDeadline, GiveUpOrSleep
  <2>10. ASSUME NEW p \in Procs, WriteMetadata(p) PROVE Inv'
    BY <2>10 DEF WriteMetadata, MetadataByDescriptor
  <2>11. ASSUME NEW p \in Procs, WriteRaises(p) PROVE Inv'
    <3>1. \/ UNCHANGED file
          \/ file.owner = p /\ file' = [file EXCEPT !.written = TRUE, !.old = FALSE]
      BY <2>11 DEF WriteRaises, MetadataByDescriptor
    <3>2. /\ pc[p] = "write" /\ pc' = [pc EXCEPT ![p] = "idle"]
          /\ robbed' = robbed \ {p} /\ overtaken' = overtaken \ {p}
      BY <2>11 DEF WriteRaises, Rob
    <3>3. file'.owner = file.owner /\ (file.written => file'.written)
      BY <3>1
    <3>4. OwnerKeepsFile'
      BY <3>2, <3>3
    <3>5. RobbedHasNothing'
      BY <3>2, <3>3
    <3> QED
      BY <3>4, <3>5
  <2>12. ASSUME NEW p \in Procs, ReleaseRead(p) PROVE Inv'
    BY <2>12 DEF ReleaseRead, Rob
  <2>13. ASSUME NEW p \in Procs, ReleaseUnlink(p) PROVE Inv'
    BY <2>13 DEF ReleaseUnlink, UnlinkPath, Victims, Rob
  <2>14. ASSUME NEW p \in Procs, Stop(p) PROVE Inv'
    BY <2>14 DEF Stop, Rob
  <2>15. ASSUME NEW p \in Procs, ReusePid(p) PROVE Inv'
    BY <2>15 DEF ReusePid
  <2>16. ASSUME FileAges PROVE Inv'
    BY <2>16 DEF FileAges, Exists
  <2>17. ASSUME UNCHANGED vars PROVE Inv'
    BY <2>17 DEF vars
  <2> QED
    BY <2>1, <2>2, <2>3, <2>4, <2>5, <2>6, <2>7, <2>8, <2>9, <2>10, <2>11,
       <2>12, <2>13, <2>14, <2>15, <2>16, <2>17 DEF Next
<1>3. Inv => OwnerKeepsFile
  OBVIOUS
<1>4. QED
  BY <1>1, <1>2, <1>3, TypeCorrect, PTL DEF Spec

-----------------------------------------------------------------------------
(* Mutual exclusion until a process ends, a file ages or a pid check fails *)

\* What holds while nothing has been disturbed: no process is about to remove
\* a file as stale, and nothing it has read could make it do so.
Undisturbed ==
  ~disturbed =>
    /\ robbed = {}
    /\ ~file.old
    /\ \A p \in Procs :
         /\ pc[p] \notin {"unlink", "stopped"}
         /\ pc[p] = "kill" => suspect[p] \in Procs
         /\ pidUp[p]
         /\ ~sawOld[p]

LEMMA UndisturbedInvariant == Spec => []Undisturbed
<1>1. Init => Undisturbed
  BY DEF Init, Undisturbed, NoFile
<1>2. TypeOK /\ OwnerKeepsFile /\ Undisturbed /\ [Next]_vars => Undisturbed'
  <2> SUFFICES ASSUME TypeOK, OwnerKeepsFile, Undisturbed, [Next]_vars
               PROVE  Undisturbed'
    OBVIOUS
  <2> USE DEF TypeOK, Undisturbed, PC, Goto, auxVars, NoFile, NewFile
  <2>1. ASSUME NEW p \in Procs, Acquire(p) PROVE Undisturbed'
    BY <2>1 DEF Acquire
  <2>2. ASSUME NEW p \in Procs, DeadlinePasses(p) PROVE Undisturbed'
    BY <2>2 DEF DeadlinePasses
  <2>3. ASSUME NEW p \in Procs, OpenCreates(p) PROVE Undisturbed'
    BY <2>3 DEF OpenCreates, Exists
  <2>4. ASSUME NEW p \in Procs, OpenFindsFile(p) PROVE Undisturbed'
    BY <2>4 DEF OpenFindsFile
  <2>5. ASSUME NEW p \in Procs, StatFile(p) PROVE Undisturbed'
    BY <2>5 DEF StatFile, Exists
  <2>6. ASSUME NEW p \in Procs, ReadMetadata(p) PROVE Undisturbed'
    BY <2>6 DEF ReadMetadata, Unreadable, LocalOwner, RemoteOwner
  <2>7. ASSUME NEW p \in Procs, CheckPid(p) PROVE Undisturbed'
    BY <2>7 DEF CheckPid
  <2>8. ASSUME NEW p \in Procs, UnlinkStale(p) PROVE Undisturbed'
    BY <2>8 DEF UnlinkStale, UnlinkPath, Victims, Rob
  <2>9. ASSUME NEW p \in Procs, CheckDeadline(p) PROVE Undisturbed'
    BY <2>9 DEF CheckDeadline, GiveUpOrSleep
  <2>10. ASSUME NEW p \in Procs, WriteMetadata(p) PROVE Undisturbed'
    BY <2>10 DEF WriteMetadata, MetadataByDescriptor
  <2>11. ASSUME NEW p \in Procs, WriteRaises(p) PROVE Undisturbed'
    BY <2>11 DEF WriteRaises, MetadataByDescriptor, Rob
  <2>12. ASSUME NEW p \in Procs, ReleaseRead(p) PROVE Undisturbed'
    BY <2>12 DEF ReleaseRead, Rob
  <2>13. ASSUME NEW p \in Procs, ReleaseUnlink(p) PROVE Undisturbed'
    BY <2>13 DEF ReleaseUnlink, UnlinkPath, Victims, Rob,
                   OwnerKeepsFile, InUse
  <2>14. ASSUME NEW p \in Procs, Stop(p) PROVE Undisturbed'
    BY <2>14 DEF Stop, Rob
  <2>15. ASSUME NEW p \in Procs, ReusePid(p) PROVE Undisturbed'
    BY <2>15 DEF ReusePid
  <2>16. ASSUME FileAges PROVE Undisturbed'
    BY <2>16 DEF FileAges, Exists
  <2>17. ASSUME UNCHANGED vars PROVE Undisturbed'
    BY <2>17 DEF vars
  <2> QED
    BY <2>1, <2>2, <2>3, <2>4, <2>5, <2>6, <2>7, <2>8, <2>9, <2>10, <2>11,
       <2>12, <2>13, <2>14, <2>15, <2>16, <2>17 DEF Next
<1>3. QED
  BY <1>1, <1>2, TypeCorrect, OwnerKeepsItsFile, PTL DEF Spec

\* Two processes hold the lock at once only after some process that uses the
\* lock has ended, some lock file has outlived stale_after_seconds, or the check
\* of some living pid has failed.
THEOREM ExclusionUntilDisturbed == Spec => []ExclusiveUntilDisturbed
<1>1. TypeOK /\ OwnerKeepsFile /\ Undisturbed => ExclusiveUntilDisturbed
  BY DEF OwnerKeepsFile, Undisturbed, ExclusiveUntilDisturbed, MutualExclusion,
         InUse
<1>2. QED
  BY <1>1, TypeCorrect, OwnerKeepsItsFile, UndisturbedInvariant, PTL

\* When no process ever ends, no file ages and every check of a living pid finds
\* it, the lock is exclusive for good.
COROLLARY ExclusionWithoutFaults ==
  ASSUME Crashers = {}, Quitters = {}, Ageing = FALSE, PidErrors = FALSE
  PROVE  Spec => []MutualExclusion
<1>1. Init => ~disturbed
  BY DEF Init
<1>2. ~disturbed /\ [Next]_vars => ~disturbed'
  <2> SUFFICES ASSUME ~disturbed, [Next]_vars PROVE ~disturbed'
    OBVIOUS
  <2> USE DEF auxVars
  <2>1. ASSUME NEW p \in Procs,
               \/ Acquire(p) \/ DeadlinePasses(p)
               \/ OpenCreates(p) \/ OpenFindsFile(p) \/ StatFile(p)
               \/ ReadMetadata(p) \/ CheckPid(p) \/ UnlinkStale(p)
               \/ CheckDeadline(p) \/ WriteMetadata(p) \/ WriteRaises(p)
               \/ ReleaseRead(p) \/ ReleaseUnlink(p) \/ ReusePid(p)
        PROVE  ~disturbed'
    BY <2>1 DEF Acquire, DeadlinePasses, OpenCreates, OpenFindsFile, StatFile,
       ReadMetadata, CheckPid, UnlinkStale, CheckDeadline, WriteMetadata,
       WriteRaises, ReleaseRead, ReleaseUnlink, ReusePid
  <2>2. \A p \in Procs : ~Stop(p)
    BY DEF Stop
  <2>3. ~FileAges
    BY DEF FileAges
  <2>4. CASE UNCHANGED vars
    BY <2>4 DEF vars
  <2> QED
    BY <2>1, <2>2, <2>3, <2>4 DEF Next
<1>3. ExclusiveUntilDisturbed /\ ~disturbed => MutualExclusion
  BY DEF ExclusiveUntilDisturbed
<1>4. QED
  BY <1>1, <1>2, <1>3, ExclusionUntilDisturbed, PTL DEF Spec

=============================================================================

-------------------------- MODULE BundlePublishProofs --------------------------
(***************************************************************************)
(* BundlePublish for any bundles, publishers and retention: its types, the *)
(* completeness of the bundle that the pointer names, that it implements   *)
(* BundleStore, that it retains the newest bundles, and what it leaves     *)
(* behind: temporary directories only of the dead, and after a whole       *)
(* publication nothing that could not be served.  All but the first and    *)
(* the fourth suppose that rmtree removes what it is told to;              *)
(* BundlePublishRmtree.cfg shows that the pointer needs it.                *)
(***************************************************************************)
EXTENDS BundlePublish, FiniteSetTheorems, WellFoundedInduction, TLAPS

\* Every step keeps the variables in their types, and the job, the lock and the
\* directories to visit in step with one another.
THEOREM TypeCorrect == Spec => []TypeOK
<1>1. Init => TypeOK
  <2> SUFFICES ASSUME Init PROVE TypeOK
    OBVIOUS
  <2>1. dir \in [Bundles -> {"absent", "partial", "complete"}]
    BY DEF Init
  <2>2. current \in Bundles \union {NoBundle}
    BY PublishAssumption DEF PublishAssumption, Init
  <2>3. /\ stamp \in [Bundles -> Nat]
        /\ tmp \in [Publishers -> {"absent", "partial", "complete"}]
    BY DEF Init
  <2> QED
    BY <2>1, <2>2, <2>3 DEF Init, TypeOK
<1>2. TypeOK /\ [Next]_vars => TypeOK'
  <2> SUFFICES ASSUME TypeOK, [Next]_vars PROVE TypeOK'
    OBVIOUS
  <2> USE PublishAssumption DEF PublishAssumption, TypeOK
  <2>1. ASSUME NEW p \in Publishers, NEW b \in Bundles, Begin(p, b)
        PROVE  TypeOK'
    BY <2>1 DEF Begin, store
  <2>2. CASE CheckFinal
    BY <2>2 DEF CheckFinal, At, Running, RmtreeLeaves
  <2>3. CASE MakeTemp
    BY <2>3 DEF MakeTemp, At, Running, store
  <2>4. CASE CopyAll
    BY <2>4 DEF CopyAll, At, Running, store
  <2>5. CASE Replace
    BY <2>5 DEF Replace, At, Running
  <2>6. CASE WritePointer
    BY <2>6 DEF WritePointer, At, Running, VisitAll, Present
  <2>7. CASE ScanOne
    BY <2>7 DEF ScanOne, At, Running, Rmtree, RmtreeLeaves
  <2>8. CASE ScanDone
    BY <2>8 DEF ScanDone, At, Running, Retired, store
  <2>9. CASE RetireOne
    BY <2>9 DEF RetireOne, At, Running, Rmtree, RmtreeLeaves
  <2>10. CASE Finish
    BY <2>10 DEF Finish, At, Running, store
  <2>11. CASE Fail
    BY <2>11 DEF Fail, Running, FailCleansTemp, RmtreeLeaves, store
  <2>12. CASE Crash
    BY <2>12 DEF Crash, Running, store
  <2>13. CASE UNCHANGED vars
    BY <2>13 DEF vars
  <2> QED
    BY <2>1, <2>2, <2>3, <2>4, <2>5, <2>6, <2>7, <2>8, <2>9, <2>10, <2>11,
       <2>12, <2>13 DEF Next
<1> QED
  BY <1>1, <1>2, PTL DEF Spec

(***************************************************************************)
(* The inductive invariant behind the pointer.  PointerNamesComplete alone *)
(* is not inductive: it says nothing of the bundle that is about to be     *)
(* named, nor of what the pruning may still visit.                         *)
(***************************************************************************)
Sound ==
  /\ PointerNamesComplete
  /\ pc = "replace" => tmp[lock] = "complete"
  /\ pc = "pointer" => dir[job] = "complete"
  /\ pc \in {"scan", "retire"} => current = job
  /\ pc = "retire" => job \notin todo

\* The three facts every step below rests on: what is being healed or pruned is
\* never what the pointer names.
LEMMA SpareTheCurrent ==
  ASSUME TypeOK, Sound
  PROVE  /\ pc = "check" /\ job \in Present /\ ~Usable(job) =>
              dir[job] = "partial" /\ job # current
         /\ pc = "scan" => \A b \in todo : ~Usable(b) => b # current
         /\ pc = "retire" => \A b \in todo : b # current
<1> USE DEF TypeOK, Sound, PointerNamesComplete, Store!PointerNamesComplete
<1>1. pc # "idle" => job \in Bundles \ Foreign /\ job # NoBundle
  OBVIOUS
<1>2. ASSUME pc = "check", job \in Present, ~Usable(job)
      PROVE  dir[job] = "partial" /\ job # current
  BY <1>1, <1>2 DEF Present, Usable
<1>3. ASSUME pc = "scan", NEW b \in todo, ~Usable(b) PROVE b # current
  BY <1>1, <1>3 DEF Usable
<1>4. ASSUME pc = "retire", NEW b \in todo PROVE b # current
  BY <1>1, <1>4
<1> QED
  BY <1>2, <1>3, <1>4

\* Init and every step of the publication, of an exception or of a crash keep
\* the invariant, if rmtree removes what it is told to.
LEMMA SoundInvariant ==
  ASSUME ~RmtreeMayFail
  PROVE  Spec => []Sound
<1> USE DEF PointerNamesComplete, Store!PointerNamesComplete
<1>1. Init => Sound
  BY PublishAssumption DEF PublishAssumption, Init, Sound
<1>2. TypeOK /\ Sound /\ [Next]_vars => Sound'
  <2> SUFFICES ASSUME TypeOK, Sound, [Next]_vars PROVE Sound'
    OBVIOUS
  <2> USE PublishAssumption DEF PublishAssumption, Sound
  <2>0. pc # "idle" => job \in Bundles \ Foreign /\ job # NoBundle
    BY DEF TypeOK
  <2>1. ASSUME NEW p \in Publishers, NEW b \in Bundles, Begin(p, b)
        PROVE  Sound'
    BY <2>1 DEF Begin, store
  <2>2. CASE CheckFinal
    BY <2>0, <2>2, SpareTheCurrent
    DEF CheckFinal, At, Present, Usable, RmtreeLeaves, TypeOK
  <2>3. CASE MakeTemp
    BY <2>3 DEF MakeTemp, At, store
  <2>4. CASE CopyAll
    BY <2>4 DEF CopyAll, At, Running, store, TypeOK
  <2>5. CASE Replace
    BY <2>0, <2>5 DEF Replace, At, TypeOK
  <2>6. CASE WritePointer
    BY <2>6 DEF WritePointer, At
  <2>7. CASE ScanOne
    BY <2>7, SpareTheCurrent DEF ScanOne, At, Rmtree, RmtreeLeaves, TypeOK
  <2>8. CASE ScanDone
    BY <2>8 DEF ScanDone, At, Retired, store
  <2>9. CASE RetireOne
    BY <2>9, SpareTheCurrent DEF RetireOne, At, Rmtree, RmtreeLeaves, TypeOK
  <2>10. CASE Finish
    BY <2>10 DEF Finish, store
  <2>11. CASE Fail
    BY <2>11 DEF Fail, store
  <2>12. CASE Crash
    BY <2>12 DEF Crash, store
  <2>13. CASE UNCHANGED vars
    BY <2>13 DEF vars
  <2> QED
    BY <2>1, <2>2, <2>3, <2>4, <2>5, <2>6, <2>7, <2>8, <2>9, <2>10, <2>11,
       <2>12, <2>13 DEF Next
<1> QED
  BY <1>1, <1>2, TypeCorrect, PTL DEF Spec

\* However many publishers raise or die at whatever step, the pointer names a
\* complete bundle, if rmtree removes what it is told to.
THEOREM PointerAlwaysComplete ==
  ASSUME ~RmtreeMayFail
  PROVE  Spec => []PointerNamesComplete
<1>1. Sound => PointerNamesComplete
  BY DEF Sound
<1> QED
  BY <1>1, SoundInvariant, PTL

\* Under the same condition the servers see only the operations of BundleStore:
\* bundles appear whole, the pointer moves between whole bundles, and only a
\* bundle that it does not name is taken apart.
THEOREM PublishImplementsStore ==
  ASSUME ~RmtreeMayFail
  PROVE  Spec => ImplementsStore
<1>1. Init => Store!Init
  BY PublishAssumption DEF PublishAssumption, Init, Store!Init
<1>2. TypeOK /\ Sound /\ [Next]_vars => [Store!Next]_store
  <2> SUFFICES ASSUME TypeOK, Sound, [Next]_vars PROVE [Store!Next]_store
    OBVIOUS
  <2>0. pc # "idle" => job \in Bundles \ Foreign /\ job # NoBundle
    BY DEF TypeOK
  <2>1. CASE UNCHANGED store
    BY <2>1
  <2>2. CASE CheckFinal
    <3>1. CASE dir' = dir
      BY <2>2, <3>1 DEF CheckFinal, store
    <3>2. CASE dir' # dir
      <4>1. dir[job] = "partial" /\ dir' = [dir EXCEPT ![job] = "absent"]
        BY <2>2, <3>2, SpareTheCurrent DEF CheckFinal, At, RmtreeLeaves
      <4> QED
        BY <2>0, <2>2, <4>1
        DEF CheckFinal, At, Store!Next, Store!EndRemove
    <3> QED
      BY <3>1, <3>2
  <2>3. CASE Replace
    BY <2>0, <2>3 DEF Replace, At, Sound, Store!Next, Store!Install
  <2>4. CASE WritePointer
    BY <2>0, <2>4 DEF WritePointer, At, Sound, Store!Next, Store!Switch
  <2>5. ASSUME NEW b \in todo, b # current, Rmtree(b), UNCHANGED current
        PROVE  Store!Next
    BY <2>5 DEF Rmtree, RmtreeLeaves, TypeOK,
                Store!Next, Store!BeginRemove, Store!EndRemove
  <2>6. CASE ScanOne
    BY <2>5, <2>6, SpareTheCurrent DEF ScanOne, At, store
  <2>7. CASE RetireOne
    BY <2>5, <2>7, SpareTheCurrent DEF RetireOne, At
  <2>8. ASSUME \/ \E p \in Publishers, b \in Bundles : Begin(p, b)
               \/ MakeTemp \/ CopyAll \/ ScanDone \/ Finish \/ Fail \/ Crash
               \/ UNCHANGED vars
        PROVE  UNCHANGED store
    BY <2>8 DEF Begin, MakeTemp, CopyAll, ScanDone, Finish, Fail, Crash, vars,
                store
  <2> QED
    BY <2>1, <2>2, <2>3, <2>4, <2>6, <2>7, <2>8 DEF Next
<1> QED
  BY <1>1, <1>2, TypeCorrect, SoundInvariant, PTL
  DEF Spec, ImplementsStore, Store!Spec, store, Store!storeVars

(***************************************************************************)
(* What NewestKept rests on: no two bundles were installed at once, and    *)
(* what is to be retired has Keep later ones.                              *)
(***************************************************************************)
Stamped ==
  /\ \A b \in Bundles : stamp[b] <= clock
  /\ \A b, c \in Bundles : stamp[b] = stamp[c] /\ stamp[b] # 0 => b = c
  /\ pc = "replace" => tmp[lock] = "complete"
  /\ pc = "retire" => \A b \in todo : stamp[b] <= clock - Keep
  /\ NewestKept

\* A bundle with n newer ones was installed at least n installations ago.
LEMMA NewerBound ==
  ASSUME TypeOK, Stamped, NEW b \in Bundles
  PROVE  Cardinality(Newer(b)) <= clock - stamp[b]
<1> DEFINE after == (stamp[b] + 1)..clock
           when == [c \in Newer(b) |-> stamp[c]]
<1>1. stamp[b] \in Nat /\ clock \in Nat /\ stamp[b] <= clock
  BY DEF TypeOK, Stamped
<1>2. \A c \in Newer(b) : c \in Bundles /\ stamp[c] \in after /\ stamp[c] # 0
  BY <1>1 DEF Newer, TypeOK, Stamped
<1>3. when \in [Newer(b) -> after]
  BY <1>2
<1>4. \A c, d \in Newer(b) : when[c] = when[d] => c = d
  BY <1>2 DEF Stamped
<1>5. when \in Injection(Newer(b), after)
  BY <1>3, <1>4 DEF Injection, IsInjective
<1>6. IsFiniteSet(after) /\ Cardinality(after) = clock - stamp[b]
  <2>1. stamp[b] + 1 \in Int /\ clock \in Int
    BY <1>1
  <2>2. /\ IsFiniteSet(after)
        /\ Cardinality(after) = IF stamp[b] + 1 > clock THEN 0
                                ELSE clock - (stamp[b] + 1) + 1
    BY <2>1, FS_Interval
  <2> QED
    BY <1>1, <2>2
<1>7. Cardinality(Newer(b)) <= Cardinality(after)
  BY <1>5, <1>6, FS_Injection
<1> QED
  BY <1>6, <1>7

\* Every step keeps that, even if rmtree leaves files behind.
LEMMA StampedInvariant == Spec => []Stamped
<1> USE DEF NewestKept
<1>0. Keep \in Nat
  BY PublishAssumption DEF PublishAssumption, Keep
<1>1. Init => Stamped
  BY DEF Init, Stamped
<1>2. TypeOK /\ Stamped /\ [Next]_vars => Stamped'
  <2> SUFFICES ASSUME TypeOK, Stamped, [Next]_vars PROVE Stamped'
    OBVIOUS
  <2> USE <1>0, PublishAssumption DEF PublishAssumption, Stamped
  <2>0. /\ pc # "idle" => job \in Bundles \ Foreign
        /\ clock \in Nat /\ stamp \in [Bundles -> Nat] /\ todo \subseteq Bundles
        /\ dir \in [Bundles -> {"absent", "partial", "complete"}]
    BY DEF TypeOK
  <2>1. ASSUME NEW p \in Publishers, NEW b \in Bundles, Begin(p, b)
        PROVE  Stamped'
    BY <2>1 DEF Begin, store
  <2>2. CASE CheckFinal
    BY <2>0, <2>2 DEF CheckFinal, At, Usable
  <2>3. CASE MakeTemp
    BY <2>3 DEF MakeTemp, store
  <2>4. CASE CopyAll
    BY <2>4 DEF CopyAll, At, Running, store, TypeOK
  <2>5. CASE Replace
    BY <2>0, <2>5 DEF Replace, At
  <2>6. CASE WritePointer
    BY <2>6 DEF WritePointer
  <2>7. CASE ScanOne
    BY <2>0, <2>7 DEF ScanOne, At, Rmtree, Usable
  <2>8. CASE ScanDone
    <3>1. \A b \in Retired : stamp[b] <= clock - Keep
      <4> SUFFICES ASSUME NEW b \in Retired PROVE stamp[b] <= clock - Keep
        OBVIOUS
      <4>1. b \in Bundles /\ Cardinality(Newer(b)) >= Keep
        BY DEF Retired
      <4>2. Cardinality(Newer(b)) <= clock - stamp[b]
        BY <4>1, NewerBound
      <4>3. Cardinality(Newer(b)) \in Nat
        BY FS_Subset, FS_CardinalityType DEF Newer
      <4> QED
        BY <2>0, <4>1, <4>2, <4>3
    <3> QED
      BY <2>8, <3>1 DEF ScanDone, store, Keep
  <2>9. CASE RetireOne
    BY <2>0, <2>9 DEF RetireOne, At, Rmtree
  <2>10. CASE Finish
    BY <2>10 DEF Finish, store
  <2>11. CASE Fail
    BY <2>11 DEF Fail, store
  <2>12. CASE Crash
    BY <2>12 DEF Crash, store
  <2>13. CASE UNCHANGED vars
    BY <2>13 DEF vars
  <2> QED
    BY <2>1, <2>2, <2>3, <2>4, <2>5, <2>6, <2>7, <2>8, <2>9, <2>10, <2>11,
       <2>12, <2>13 DEF Next
<1> QED
  BY <1>1, <1>2, TypeCorrect, PTL DEF Spec

\* A bundle is pruned only after Keep later ones were installed, whoever raises or
\* dies meanwhile, and even if rmtree leaves files behind.
THEOREM NewestAlwaysKept == Spec => []NewestKept
<1>1. Stamped => NewestKept
  BY DEF Stamped
<1> QED
  BY <1>1, StampedInvariant, PTL

\* Whichever of the copies or the rename raises, no live process leaves a temporary
\* directory behind, if rmtree removes what it is told to.
THEOREM TempAlwaysOfDead ==
  ASSUME ~RmtreeMayFail
  PROVE  Spec => []TempOnlyOfDead
<1>1. Init => TempOnlyOfDead
  BY DEF Init, TempOnlyOfDead
<1>2. TypeOK /\ TempOnlyOfDead /\ [Next]_vars => TempOnlyOfDead'
  <2> SUFFICES ASSUME TypeOK, TempOnlyOfDead, [Next]_vars PROVE TempOnlyOfDead'
    OBVIOUS
  <2> USE PublishAssumption DEF PublishAssumption, TempOnlyOfDead
  <2>0. /\ tmp \in [Publishers -> {"absent", "partial", "complete"}]
        /\ pc # "idle" => lock \in Publishers \ dead
    BY DEF TypeOK
  <2>1. ASSUME NEW p \in Publishers, NEW b \in Bundles, Begin(p, b)
        PROVE  TempOnlyOfDead'
    BY <2>0, <2>1 DEF Begin
  <2>2. CASE MakeTemp \/ CopyAll
    BY <2>0, <2>2 DEF MakeTemp, CopyAll, At
  <2>3. CASE Replace
    BY <2>0, <2>3 DEF Replace, At
  <2>4. CASE Fail
    BY <2>0, <2>4 DEF Fail, FailCleansTemp, RmtreeLeaves
  <2>5. CASE Crash
    BY <2>0, <2>5 DEF Crash
  <2>6. CASE \/ CheckFinal \/ WritePointer \/ ScanOne \/ ScanDone
             \/ RetireOne \/ Finish \/ UNCHANGED vars
    BY <2>6
    DEF CheckFinal, WritePointer, ScanOne, ScanDone, RetireOne, Finish, At, vars
  <2> QED
    BY <2>1, <2>2, <2>3, <2>4, <2>5, <2>6 DEF Next
<1> QED
  BY <1>1, <1>2, TypeCorrect, PTL DEF Spec

(***************************************************************************)
(* What SettledClean rests on: the scan has dealt with every directory it  *)
(* no longer has to visit, and so has the retirement, after which the Keep *)
(* newest and the published bundle remain.                                 *)
(***************************************************************************)
Tidied ==
  /\ settled => pc = "idle"
  /\ \A b \in Present \ Foreign : stamp[b] # 0
  /\ pc \in {"scan", "retire"} => \A b \in Present \ todo : Usable(b)
  /\ pc = "retire" => Cardinality(Present \ todo) <= Keep + 1
  /\ SettledClean

\* Of the bundles with distinct stamps fewer than Keep newer ones have at most Keep:
\* all the others are newer than the oldest of them.
LEMMA NewestAreFew ==
  ASSUME TypeOK, Stamped, \A b \in Present \ Foreign : stamp[b] # 0
  PROVE  Cardinality({b \in Bundles : Usable(b) /\ Cardinality(Newer(b)) < Keep})
           <= Keep
<1> DEFINE S == {b \in Bundles : Usable(b) /\ Cardinality(Newer(b)) < Keep}
<1>1. Keep \in Nat
  BY PublishAssumption DEF PublishAssumption, Keep
<1>2. IsFiniteSet(S) /\ Cardinality(S) \in Nat
  BY PublishAssumption, FS_Subset, FS_CardinalityType DEF PublishAssumption
<1>3. CASE S = {}
  BY <1>1, <1>3, FS_EmptySet
<1>4. CASE S # {}
  <2> DEFINE T == {stamp[b] : b \in S}
  <2>1. T \subseteq Nat /\ T # {}
    BY <1>4 DEF TypeOK
  <2>2. PICK t \in T : \A u \in T : ~(<<u, t>> \in OpToRel(<, Nat))
    BY <2>1, WFMin, NatLessThanWellFounded
  <2>3. PICK m \in S : stamp[m] = t
    BY <2>2
  <2>4. S \ {m} \subseteq Newer(m)
    <3> SUFFICES ASSUME NEW c \in S, c # m PROVE c \in Newer(m)
      OBVIOUS
    <3>1. /\ c \in Present \ Foreign /\ m \in Bundles /\ Usable(c)
          /\ stamp[c] \in Nat /\ stamp[m] \in Nat
      BY DEF Usable, Present, TypeOK
    <3>2. stamp[c] # stamp[m]
      BY <3>1 DEF Stamped
    <3>3. ~(stamp[c] < stamp[m])
      BY <2>2, <2>3, <3>1 DEF OpToRel
    <3> QED
      BY <3>1, <3>2, <3>3 DEF Newer
  <2>5. IsFiniteSet(Newer(m)) /\ Cardinality(Newer(m)) < Keep
    BY PublishAssumption, FS_Subset DEF PublishAssumption, Newer
  <2>6. /\ Cardinality(S \ {m}) <= Cardinality(Newer(m))
        /\ Cardinality(Newer(m)) \in Nat
    BY <2>4, <2>5, FS_Subset, FS_CardinalityType
  <2>7. Cardinality(S \ {m}) = Cardinality(S) - 1
    BY <1>2, <2>3, FS_RemoveElement
  <2> QED
    BY <1>1, <1>2, <2>5, <2>6, <2>7
<1> QED
  BY <1>3, <1>4

\* However the bundles came there, a publication that runs to its end leaves no
\* partial or foreign bundle and at most Keep + 1, if rmtree removes what it is told
\* to.
THEOREM SettledAlwaysClean ==
  ASSUME ~RmtreeMayFail
  PROVE  Spec => []SettledClean
<1> USE PublishAssumption DEF PublishAssumption
<1>1. Init => Tidied
  BY DEF Init, Tidied, SettledClean, Present
<1>2. TypeOK /\ Stamped /\ Tidied /\ [Next]_vars => Tidied'
  <2> SUFFICES ASSUME TypeOK, Stamped, Tidied, [Next]_vars PROVE Tidied'
    OBVIOUS
  <2>0. /\ pc # "idle" => job \in Bundles \ Foreign /\ job # NoBundle
        /\ clock \in Nat /\ stamp \in [Bundles -> Nat] /\ todo \subseteq Bundles
        /\ dir \in [Bundles -> {"absent", "partial", "complete"}]
        /\ job = NoBundle <=> pc = "idle"
    BY DEF TypeOK
  <2>1. ASSUME NEW p \in Publishers, NEW b \in Bundles, Begin(p, b)
        PROVE  Tidied'
    BY <2>1 DEF Begin, store, Tidied, SettledClean, Present
  <2>2. CASE CheckFinal
    BY <2>0, <2>2
    DEF CheckFinal, At, Tidied, SettledClean, Present, RmtreeLeaves
  <2>3. CASE MakeTemp \/ CopyAll
    BY <2>3 DEF MakeTemp, CopyAll, At, store, Tidied, SettledClean, Present
  <2>4. CASE Replace
    BY <2>0, <2>4 DEF Replace, At, Tidied, SettledClean, Present
  <2>5. CASE WritePointer
    BY <2>5 DEF WritePointer, At, VisitAll, Tidied, SettledClean, Present
  <2>6. CASE ScanOne
    BY <2>0, <2>6
    DEF ScanOne, At, Rmtree, RmtreeLeaves, Tidied, SettledClean, Present, Usable
  <2>7. CASE ScanDone
    <3> DEFINE S == {b \in Bundles : Usable(b) /\ Cardinality(Newer(b)) < Keep}
    <3>1. \A b \in Present : Usable(b)
      BY <2>7 DEF ScanDone, At, Tidied
    <3>2. \A b \in Bundles : Cardinality(Newer(b)) \in Nat /\ Keep \in Nat
      BY FS_Subset, FS_CardinalityType DEF Newer, Keep
    <3>3. Present \ Retired \subseteq S \union {job}
      BY <3>1, <3>2 DEF Retired, Present
    <3>4. IsFiniteSet(S) /\ Cardinality(S) \in Nat /\ Cardinality(S) <= Keep
      BY NewestAreFew, FS_Subset, FS_CardinalityType DEF Tidied
    <3> HIDE DEF S
    <3>5. /\ IsFiniteSet(S \union {job})
          /\ Cardinality(S \union {job}) <= Cardinality(S) + 1
      <4>1. /\ IsFiniteSet(S \union {job})
            /\ \/ Cardinality(S \union {job}) = Cardinality(S)
               \/ Cardinality(S \union {job}) = Cardinality(S) + 1
        BY <3>4, FS_AddElement, Zenon
      <4> QED
        BY <3>4, <4>1
    <3>6. Cardinality(Present \ Retired) <= Cardinality(S \union {job})
      BY <3>3, <3>5, FS_Subset
    <3>7. /\ Cardinality(Present \ Retired) \in Nat
          /\ Cardinality(S \union {job}) \in Nat /\ Keep \in Nat
      BY <3>3, <3>5, FS_Subset, FS_CardinalityType DEF Keep
    <3>8. Cardinality(Present \ Retired) <= Keep + 1
      BY <3>4, <3>5, <3>6, <3>7
    <3>9. Present' = Present /\ todo' = Retired /\ Keep' = Keep
      BY <2>7 DEF ScanDone, store, Present, Keep
    <3> QED
      BY <2>7, <3>1, <3>8, <3>9
      DEF ScanDone, At, store, Tidied, SettledClean, Present, Usable
  <2>8. CASE RetireOne
    <3>1. PICK b \in todo : Rmtree(b)
      BY <2>8 DEF RetireOne
    <3>2. (Present \ todo)' = Present \ todo
      BY <2>0, <3>1, <2>8 DEF RetireOne, Rmtree, RmtreeLeaves, Present
    <3>3. \A c \in Present \ todo : dir'[c] = dir[c]
      BY <2>0, <3>1 DEF Rmtree, Present
    <3>4. Present' \subseteq Present
      BY <2>0, <3>1 DEF Rmtree, RmtreeLeaves, Present
    <3> QED
      BY <2>8, <3>2, <3>3, <3>4
      DEF RetireOne, At, Tidied, SettledClean, Usable, Keep
  <2>9. CASE Finish
    BY <2>9 DEF Finish, At, store, Tidied, SettledClean, Present, Usable, Keep
  <2>10. CASE Fail
    BY <2>10 DEF Fail, store, Tidied, SettledClean, Present, Usable, Keep
  <2>11. CASE Crash
    BY <2>11 DEF Crash, store, Tidied, SettledClean, Present, Usable, Keep
  <2>12. CASE UNCHANGED vars
    BY <2>12 DEF vars, Tidied, SettledClean, Present, Usable, Keep
  <2> QED
    BY <2>1, <2>2, <2>3, <2>4, <2>5, <2>6, <2>7, <2>8, <2>9, <2>10, <2>11,
       <2>12 DEF Next
<1>3. Tidied => SettledClean
  BY DEF Tidied
<1> QED
  BY <1>1, <1>2, <1>3, TypeCorrect, StampedInvariant, PTL DEF Spec

=============================================================================

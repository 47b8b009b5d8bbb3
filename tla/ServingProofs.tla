---------------------------- MODULE ServingProofs ----------------------------
(***************************************************************************)
(* Serving for any threads, any bundles and any publishers that keep to    *)
(* BundleStore.                                                            *)
(***************************************************************************)
EXTENDS Serving, TLAPS

USE DEF store, worker, Goto, At

Reading == {"isdir", "lookup", "verify", "load"}
Handed == {"meta", "predict", "answered"}

(***************************************************************************)
(* The types, and what LoadModels needs to keep them: the pointer a        *)
(* request goes on with names a bundle that the pins allow.                *)
(***************************************************************************)
Typed ==
  /\ TypeOK
  /\ \A t \in Threads : pc[t] \in Reading => ptr[t] \in Allowed

\* The publishers change nothing of a request but its window, which grows.
LEMMA PublishKeeps ==
  ASSUME TypeOK, NEW b \in Bundles, Publish(b)
  PROVE  /\ window' \in [Threads -> SUBSET BundleOrNone]
         /\ \A t \in Threads : /\ window[t] \subseteq window'[t]
                               /\ ~Ended(t) /\ current' # current => b \in window'[t]
         /\ current' # current => current' = b
  BY DEF TypeOK, Publish, BundleOrNone, Store!Install, Store!Switch,
         Store!BeginRemove, Store!EndRemove

\* Every step of a thread, of the publishers and of the worker keeps the types.
LEMMA TypedInvariant == Spec => []Typed
<1> USE ServingAssumption DEF ServingAssumption
<1>1. Init => Typed
  <2> SUFFICES ASSUME Init PROVE Typed
    OBVIOUS
  <2>1. /\ dir \in [Bundles -> {"absent", "partial", "complete"}]
        /\ current \in BundleOrNone
    BY DEF Init, Store!Init, BundleOrNone
  <2>2. switches \in 0..MaxSwitches
    BY DEF Init
  <2>3. up \in BOOLEAN
    BY DEF Init
  <2>4. /\ cache \in BundleOrNone /\ app \in BundleOrNone /\ left = {}
        /\ loadLock = NoThread /\ loaded = {}
        /\ pc = [t \in Threads |-> "idle"]
        /\ ptr \in [Threads -> BundleOrNone] /\ got \in [Threads -> BundleOrNone]
        /\ header \in [Threads -> BundleOrNone] /\ used \in [Threads -> BundleOrNone]
        /\ window \in [Threads -> SUBSET BundleOrNone]
    BY DEF Init, BundleOrNone
  <2> QED
    BY <2>1, <2>2, <2>3, <2>4 DEF Typed, TypeOK, PC, Reading
<1>2. Typed /\ [Next]_vars => Typed'
  <2> SUFFICES ASSUME Typed, [Next]_vars PROVE Typed'
    OBVIOUS
  <2> USE DEF Typed, TypeOK
  <2>1. ASSUME NEW b \in Bundles, Publish(b) PROVE Typed'
    <3>1. dir' \in [Bundles -> {"absent", "partial", "complete"}]
          /\ current' \in BundleOrNone /\ left' \subseteq BundleOrNone
      BY <2>1 DEF Publish, Store!Install, Store!Switch, Store!BeginRemove,
                  Store!EndRemove, BundleOrNone
    <3>2. switches' \in 0..MaxSwitches
      BY <2>1 DEF Publish
    <3> QED
      BY <2>1, <3>1, <3>2, PublishKeeps DEF Publish
  <2>2. ASSUME NEW t \in Threads, Arrive(t) PROVE Typed'
    BY <2>2 DEF Arrive, Forget, Ended, PC, BundleOrNone, Reading
  <2>3. ASSUME NEW t \in Threads, ReadPointer(t) PROVE Typed'
    BY <2>3 DEF ReadPointer, PC, BundleOrNone, Reading
  <2>4. ASSUME NEW t \in Threads, IsDir(t) PROVE Typed'
    BY <2>4 DEF IsDir, PC, BundleOrNone, Reading
  <2>5. ASSUME NEW t \in Threads, Lookup(t) PROVE Typed'
    BY <2>5 DEF Lookup, TakeLock, PC, BundleOrNone, Reading
  <2>6. ASSUME NEW t \in Threads, Verify(t) PROVE Typed'
    BY <2>6 DEF Verify, ReleaseLock, PC, BundleOrNone, Reading
  <2>7. ASSUME NEW t \in Threads, LoadModels(t) PROVE Typed'
    BY <2>7 DEF LoadModels, ReleaseLock, PC, BundleOrNone, Reading
  <2>8. ASSUME NEW t \in Threads, SetMetadata(t) \/ Refuse(t) PROVE Typed'
    BY <2>8 DEF SetMetadata, Refuse, PC, BundleOrNone, Reading
  <2>9. ASSUME NEW t \in Threads, Answer(t) PROVE Typed'
    <3>1. up' \in BOOLEAN
      BY <2>9 DEF Answer
    <3> QED
      BY <2>9, <3>1 DEF Answer, HandedModel, PC, BundleOrNone, Reading
  <2>10. ASSUME NEW t \in Threads, StartupFails(t) PROVE Typed'
    BY <2>10 DEF StartupFails, Forget, PC, BundleOrNone, Reading
  <2>11. CASE Restart
    BY <2>11 DEF Restart, PC, BundleOrNone, Reading
  <2>12. CASE UNCHANGED vars
    BY <2>12 DEF vars
  <2> QED
    BY <2>1, <2>2, <2>3, <2>4, <2>5, <2>6, <2>7, <2>8, <2>9, <2>10, <2>11,
       <2>12 DEF Next
<1> QED
  BY <1>1, <1>2, PTL DEF Spec

\* The variables keep their types, and the load lock is held exactly by the thread
\* that verifies or loads.
THEOREM TypeCorrect == Spec => []TypeOK
<1>1. Typed => TypeOK
  BY DEF Typed
<1> QED
  BY <1>1, TypedInvariant, PTL

(***************************************************************************)
(* What each request and the cache know of bundles: nothing that is handed *)
(* on was not verified by this worker, and nothing was current only before *)
(* the request arrived.                                                    *)
(***************************************************************************)
RequestHonest(t) ==
  /\ ~Ended(t) => current \in window[t]
  /\ pc[t] \in Reading => ptr[t] \in window[t]
  /\ At(t, "load") => ptr[t] \in Servable
  /\ pc[t] \in {"verify", "load"} => cache # ptr[t]
  /\ pc[t] \in Handed =>
       got[t] \in Servable \cap Allowed \cap window[t] \cap loaded
  /\ pc[t] \in {"predict", "answered"} => header[t] = got[t]
  /\ At(t, "answered") => used[t] = got[t]
  /\ At(t, "refused") => header[t] \in loaded \union {NoBundle}

CacheHonest ==
  /\ cache \in (Servable \cap loaded) \union {NoBundle}
  /\ app \in loaded \union {NoBundle}

Honest == CacheHonest /\ \A t \in Threads : RequestHonest(t)

\* Every step keeps it: a bundle enters the cache verified, by the one thread that
\* holds the lock.
LEMMA HonestInvariant == Spec => []Honest
<1> USE ServingAssumption DEF ServingAssumption
<1>1. Init => Honest
  BY DEF Init, Honest, CacheHonest, RequestHonest, Ended, Reading, Handed
<1>2. Typed /\ Honest /\ [Next]_vars => Honest'
  <2> SUFFICES ASSUME Typed, Honest, [Next]_vars PROVE Honest'
    OBVIOUS
  <2> USE DEF Honest, CacheHonest, RequestHonest, Ended, Reading, Handed
  <2>0. /\ pc \in [Threads -> PC] /\ window \in [Threads -> SUBSET BundleOrNone]
        /\ ptr \in [Threads -> BundleOrNone] /\ got \in [Threads -> BundleOrNone]
        /\ header \in [Threads -> BundleOrNone] /\ used \in [Threads -> BundleOrNone]
        /\ \A t \in Threads : /\ pc[t] \in {"verify", "load"} <=> loadLock = t
                              /\ pc[t] \in Reading => ptr[t] \in Allowed
    BY DEF Typed, TypeOK
  <2>1. ASSUME NEW b \in Bundles, Publish(b) PROVE Honest'
    <3>1. CacheHonest'
      BY <2>1 DEF Publish
    <3>2. ASSUME NEW t \in Threads PROVE RequestHonest(t)'
      BY <2>0, <2>1, <3>2, PublishKeeps DEF Publish, Typed
    <3> QED
      BY <3>1, <3>2
  <2>2. ASSUME NEW t \in Threads, Arrive(t) PROVE Honest'
    BY <2>0, <2>2 DEF Arrive, Forget
  <2>3. ASSUME NEW t \in Threads, ReadPointer(t) PROVE Honest'
    BY <2>0, <2>3 DEF ReadPointer
  <2>4. ASSUME NEW t \in Threads, IsDir(t) PROVE Honest'
    BY <2>0, <2>4 DEF IsDir
  <2>5. ASSUME NEW t \in Threads, Lookup(t) PROVE Honest'
    BY <2>0, <2>5 DEF Lookup, CacheHit, TakeLock
  <2>6. ASSUME NEW t \in Threads, Verify(t) PROVE Honest'
    BY <2>0, <2>6 DEF Verify, Verified
  <2>7. ASSUME NEW t \in Threads, LoadModels(t) PROVE Honest'
    BY <2>0, <2>7 DEF LoadModels
  <2>8. ASSUME NEW t \in Threads, SetMetadata(t) \/ Answer(t) \/ Refuse(t)
        PROVE  Honest'
    BY <2>0, <2>8 DEF SetMetadata, Answer, Refuse, HandedModel
  <2>9. ASSUME NEW t \in Threads, StartupFails(t) PROVE Honest'
    BY <2>0, <2>9 DEF StartupFails, Forget
  <2>10. CASE Restart
    BY <2>10 DEF Restart
  <2>11. CASE UNCHANGED vars
    BY <2>11 DEF vars
  <2> QED
    BY <2>1, <2>2, <2>3, <2>4, <2>5, <2>6, <2>7, <2>8, <2>9, <2>10, <2>11
    DEF Next
<1> QED
  BY <1>1, <1>2, TypedInvariant, PTL DEF Spec

\* An answer is computed by a bundle the pointer named during the request.
THEOREM AnswersAreCurrent == Spec => []AnswersFromCurrent
<1>1. Honest => AnswersFromCurrent
  BY DEF Honest, RequestHonest, AnswersFromCurrent, Handed
<1> QED
  BY <1>1, HonestInvariant, PTL

\* The header of an answer names the bundle that computed it, that of a refusal one
\* this worker has verified, or none.
THEOREM HeadersNameBundles == Spec => []HeaderNamesBundle
<1>1. Honest => HeaderNamesBundle
  BY DEF Honest, RequestHonest, HeaderNamesBundle
<1> QED
  BY <1>1, HonestInvariant, PTL

\* The cache and the answers hold only bundles the worker may serve.
THEOREM ServesOnlyServable == Spec => []OnlyServable
<1>1. Honest => OnlyServable
  BY DEF Honest, CacheHonest, RequestHonest, OnlyServable, Handed
<1> QED
  BY <1>1, HonestInvariant, PTL

\* No load ends that finds its own bundle cached.
THEOREM LoadsAreNotRepeated == Spec => NoRepeatedLoad
<1>1. Honest => \A t \in Threads : Loaded(t) => cache # ptr[t]
  BY DEF Honest, RequestHonest, Loaded
<1> QED
  BY <1>1, HonestInvariant, PTL DEF Spec, NoRepeatedLoad

=============================================================================

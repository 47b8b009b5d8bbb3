------------------------------- MODULE Serving -------------------------------
(***************************************************************************)
(* The model cache of one API worker (src/src/reference_eta/serving/api.py)*)
(* reading a bundle store that publishers change under it.  Handlers run   *)
(* in a thread pool: each reads the pointer, then under one lock looks the *)
(* bundle up in a one-slot cache and, on a miss, verifies and loads it     *)
(* from disk file by file; it then records the bundle's identity for the   *)
(* response headers and computes the answer.                               *)
(***************************************************************************)
EXTENDS Naturals

CONSTANTS
  Bundles, NoBundle,  \* as in BundleStore
  Threads,            \* threads of the worker's pool
  NoThread,           \* nobody
  Servable,           \* bundles whose release decision, policy and runtime
                      \* versions this worker accepts
  Allowed,            \* bundles the deployment pins let through
  MaxSwitches,        \* bound: how often the pointer moves
  Rollback            \* may the pointer return to a bundle it has left?

ASSUME ServingAssumption ==
  /\ NoBundle \notin Bundles
  /\ NoThread \notin Threads
  /\ Servable \subseteq Bundles /\ Allowed \subseteq Bundles
  /\ MaxSwitches \in Nat /\ Rollback \in BOOLEAN

VARIABLES
  dir, current,       \* the store
  left, switches,     \* bundles the pointer has left (without Rollback), and
                      \* the number of its switches
  up,                 \* has the lifespan startup finished?
  cache,              \* _ARTIFACT_CACHE_KEY and _VALUE
  loadLock,           \* owner of _ARTIFACT_CACHE_LOCK
  app,                \* app.state.bundle_id
  pc,                 \* of each thread's request: its step;
  ptr,                \* the bundle id it read;
  got,                \* the bundle it was handed;
  header,             \* its request.state.bundle_id;
  used,               \* what computed its answer;
  window,             \* auxiliary: the pointer's values during the request
  loaded              \* auxiliary: bundles loaded since the worker started

store == <<dir, current, left, switches>>
worker == <<up, cache, loadLock, app, loaded>>
vars == <<dir, current, left, switches, up, cache, loadLock, app,
          pc, ptr, got, header, used, window, loaded>>

Store == INSTANCE BundleStore

PC == {"idle", "pointer", "isdir", "lookup", "verify", "load", "meta",
       "predict", "failed", "answered", "refused"}
BundleOrNone == Bundles \union {NoBundle}

At(t, l) == pc[t] = l
Ended(t) == pc[t] \in {"idle", "answered", "refused"}
Goto(t, l) == pc' = [pc EXCEPT ![t] = l]

Init ==
  /\ Store!Init
  /\ left = {} /\ switches = 0
  /\ up = FALSE /\ cache = NoBundle /\ loadLock = NoThread /\ app = NoBundle
  /\ pc = [t \in Threads |-> "idle"]
  /\ ptr = [t \in Threads |-> NoBundle] /\ got = [t \in Threads |-> NoBundle]
  /\ header = [t \in Threads |-> NoBundle] /\ used = [t \in Threads |-> NoBundle]
  /\ window = [t \in Threads |-> {}]
  /\ loaded = {}

-----------------------------------------------------------------------------
(* the publishers: operations of BundleStore *)

Publish(b) ==
  /\ \/ Store!Install(b) /\ UNCHANGED <<left, switches, window>>
     \/ /\ switches < MaxSwitches
        /\ b # current /\ (b \in left => Rollback)
        /\ Store!Switch(b)
        /\ left' = IF Rollback THEN {} ELSE left \union {current}
        /\ switches' = switches + 1
        /\ window' = [t \in Threads |->
                        IF Ended(t) THEN window[t] ELSE window[t] \union {b}]
     \/ Store!BeginRemove(b) /\ UNCHANGED <<left, switches, window>>
     \/ Store!EndRemove(b) /\ UNCHANGED <<left, switches, window>>
  /\ UNCHANGED <<worker, pc, ptr, got, header, used>>

-----------------------------------------------------------------------------
(* _load_artifacts *)

\* What was found out for an earlier request is of no use to the next.
Forget(t) ==
  /\ ptr' = [ptr EXCEPT ![t] = NoBundle] /\ got' = [got EXCEPT ![t] = NoBundle]
  /\ header' = [header EXCEPT ![t] = NoBundle]
  /\ used' = [used EXCEPT ![t] = NoBundle]

\* A request arrives; while the worker starts, the only one is the preload of
\* the lifespan handler.
Arrive(t) ==
  /\ Ended(t)
  /\ up \/ \A s \in Threads : At(s, "idle")
  /\ Goto(t, "pointer")
  /\ window' = [window EXCEPT ![t] = {current}]
  /\ Forget(t)
  /\ UNCHANGED <<store, worker>>

\* Without a pointer there is nothing to serve; the deployment pins come next.
ReadPointer(t) ==
  /\ At(t, "pointer")
  /\ ptr' = [ptr EXCEPT ![t] = current]
  /\ Goto(t, IF current \in Allowed THEN "isdir" ELSE "failed")
  /\ UNCHANGED <<store, worker, got, header, used, window>>

IsDir(t) ==
  /\ At(t, "isdir")
  /\ Goto(t, IF dir[ptr[t]] # "absent" THEN "lookup" ELSE "failed")
  /\ UNCHANGED <<store, worker, ptr, got, header, used, window>>

-----------------------------------------------------------------------------
(* _load_artifacts_for_manifest *)

\* Mutants: whatever is cached is returned; the lock is not held over the load.
HitAnyKey(t) == cache # NoBundle
TakeNoLock(t) == UNCHANGED loadLock

CacheHit(t) == cache = ptr[t]
TakeLock(t) == loadLock' = t

\* Under the lock: a hit returns at once, a miss keeps the lock and loads.
Lookup(t) ==
  /\ At(t, "lookup")
  /\ loadLock = NoThread
  /\ IF CacheHit(t)
     THEN /\ got' = [got EXCEPT ![t] = cache]
          /\ Goto(t, "meta")
          /\ UNCHANGED loadLock
     ELSE /\ Goto(t, "verify")
          /\ TakeLock(t)
          /\ UNCHANGED got
  /\ UNCHANGED <<store, up, cache, app, loaded, ptr, header, used, window>>

\* The manifest and every file match their digests, and the decision and the
\* provenance are acceptable.
Verified(b) == dir[b] = "complete" /\ b \in Servable

\* A mutant: an exception leaves the lock taken.
KeepLock == UNCHANGED loadLock

ReleaseLock == loadLock' = NoThread

Verify(t) ==
  /\ At(t, "verify")
  /\ IF Verified(ptr[t])
     THEN Goto(t, "load") /\ UNCHANGED loadLock
     ELSE Goto(t, "failed") /\ ReleaseLock
  /\ UNCHANGED <<store, up, cache, app, loaded, ptr, got, header, used, window>>

\* The models are read by other opens than the ones that were checked: of a
\* bundle being removed some may be gone.
MayLoad(b) == dir[b] # "absent"
MayFail(b) == dir[b] # "complete"

LoadModels(t) ==
  /\ At(t, "load")
  /\ \/ /\ MayLoad(ptr[t])
        /\ cache' = ptr[t]
        /\ loaded' = loaded \union {ptr[t]}
        /\ got' = [got EXCEPT ![t] = ptr[t]]
        /\ Goto(t, "meta")
     \/ /\ MayFail(ptr[t])
        /\ Goto(t, "failed")
        /\ UNCHANGED <<cache, loaded, got>>
  /\ ReleaseLock
  /\ UNCHANGED <<store, up, app, ptr, header, used, window>>

-----------------------------------------------------------------------------
(* the handler *)

\* _set_request_metadata: the identity goes to the request and to the
\* application, which every thread shares.
SetMetadata(t) ==
  /\ At(t, "meta")
  /\ header' = [header EXCEPT ![t] = got[t]]
  /\ app' = got[t]
  /\ Goto(t, "predict")
  /\ UNCHANGED <<store, up, cache, loadLock, loaded, ptr, got, used, window>>

\* A mutant: the prediction takes the model that is in the cache by then.
CachedModel(t) == cache

HandedModel(t) == got[t]

\* _predict_many(snapshots, bundle=bundle) and the response; the first request
\* of all is the preload, after which the worker serves.
Answer(t) ==
  /\ At(t, "predict")
  /\ used' = [used EXCEPT ![t] = HandedModel(t)]
  /\ up' = TRUE
  /\ Goto(t, "answered")
  /\ UNCHANGED <<store, cache, loadLock, app, loaded, ptr, got, header, window>>

\* The handler raised: /ready and the others answer 503, 500 or "not_ready", and
\* the telemetry middleware, finding no identity on the request, falls back to
\* the application's.
Refuse(t) ==
  /\ up /\ At(t, "failed")
  /\ header' = [header EXCEPT ![t] = app]
  /\ Goto(t, "refused")
  /\ UNCHANGED <<store, worker, ptr, got, used, window>>

\* A failed preload is recorded and the worker serves all the same, unless it was
\* told to exit (REFERENCE_ETA_FAIL_STARTUP_IF_NOT_READY=1) and is started again.
StartupFails(t) ==
  /\ ~up /\ At(t, "failed")
  /\ up' \in BOOLEAN
  /\ Goto(t, "idle")
  /\ window' = [window EXCEPT ![t] = {}]
  /\ Forget(t)
  /\ UNCHANGED <<store, cache, loadLock, app, loaded>>

\* The worker process is replaced, whatever its threads were doing.
Restart ==
  /\ up
  /\ up' = FALSE /\ cache' = NoBundle /\ loadLock' = NoThread
  /\ app' = NoBundle
  /\ pc' = [t \in Threads |-> "idle"]
  /\ ptr' = [t \in Threads |-> NoBundle] /\ got' = [t \in Threads |-> NoBundle]
  /\ header' = [t \in Threads |-> NoBundle] /\ used' = [t \in Threads |-> NoBundle]
  /\ window' = [t \in Threads |-> {}]
  /\ loaded' = {}
  /\ UNCHANGED store

RequestStep(t) ==
  \/ ReadPointer(t) \/ IsDir(t) \/ Verify(t) \/ LoadModels(t)
  \/ SetMetadata(t) \/ Answer(t) \/ Refuse(t) \/ StartupFails(t)

Next ==
  \/ \E b \in Bundles : Publish(b)
  \/ \E t \in Threads :
       \/ Arrive(t) \/ ReadPointer(t) \/ IsDir(t) \/ Lookup(t) \/ Verify(t)
       \/ LoadModels(t) \/ SetMetadata(t) \/ Answer(t) \/ Refuse(t)
       \/ StartupFails(t)
  \/ Restart

(***************************************************************************)
(* A thread that is not waiting runs; the lock, whose waiters Python does  *)
(* not queue, is assumed not to pass one of them over for ever.            *)
(***************************************************************************)
Fairness ==
  \A t \in Threads : WF_vars(RequestStep(t)) /\ SF_vars(Lookup(t))

Spec == Init /\ [][Next]_vars
FairSpec == Spec /\ Fairness

-----------------------------------------------------------------------------
(* properties *)

\* The types; and the lock is held exactly by the thread that verifies or loads.
TypeOK ==
  /\ dir \in [Bundles -> {"absent", "partial", "complete"}]
  /\ current \in BundleOrNone
  /\ left \subseteq BundleOrNone
  /\ switches \in 0..MaxSwitches
  /\ up \in BOOLEAN
  /\ cache \in BundleOrNone
  /\ loadLock \in Threads \union {NoThread}
  /\ app \in BundleOrNone
  /\ pc \in [Threads -> PC]
  /\ ptr \in [Threads -> BundleOrNone] /\ got \in [Threads -> BundleOrNone]
  /\ header \in [Threads -> BundleOrNone] /\ used \in [Threads -> BundleOrNone]
  /\ window \in [Threads -> SUBSET BundleOrNone]
  /\ loaded \subseteq Bundles
  /\ \A t \in Threads :
       pc[t] \in {"verify", "load"} <=> loadLock = t

\* An answer comes from a bundle that the pointer named at some moment of its
\* own request: requests that follow one another never go back in time.
AnswersFromCurrent ==
  \A t \in Threads : At(t, "answered") => used[t] \in window[t]

\* X-Bundle-ID of an answer names the bundle that computed it, whatever the
\* other threads load or record meanwhile, and that of a refusal names a bundle
\* this worker has verified, or none.
HeaderNamesBundle ==
  \A t \in Threads :
    /\ At(t, "answered") => header[t] = used[t]
    /\ At(t, "refused") => header[t] \in loaded \union {NoBundle}

\* Neither an answer nor the cache ever holds a bundle the worker must refuse
\* (README.md:203 "Unreleased bundles are rejected by default").
OnlyServable ==
  /\ cache \in Servable \union {NoBundle}
  /\ \A t \in Threads : At(t, "answered") =>
       used[t] \in Servable \cap Allowed

Loaded(t) == At(t, "load") /\ pc'[t] = "meta"

\* Concurrent first requests load a bundle once: no load ends that finds its own
\* bundle in the cache already.
NoRepeatedLoad == [][\A t \in Threads : Loaded(t) => cache # ptr[t]]_vars

\* README.md:198-199 "keeps the previously verified in-memory model until a
\* complete replacement is available": no request fails to get a model while
\* the worker holds one it has verified.
GetsNoModel(t) == pc[t] # "failed" /\ pc'[t] = "failed"
KeepsServing ==
  [][\A t \in Threads : GetsNoModel(t) => cache = NoBundle]_vars

\* Every request is answered or refused, or the worker is replaced: no path
\* through the cache keeps the lock.
RequestEnds == \A t \in Threads : ~Ended(t) ~> Ended(t)

=============================================================================

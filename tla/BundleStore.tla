----------------------------- MODULE BundleStore -----------------------------
(***************************************************************************)
(* What publication promises to the servers: a set of content-addressed    *)
(* bundle directories and a pointer, current_bundle.json, such that        *)
(*   - a bundle appears in its place complete, all at once;                *)
(*   - the pointer moves, all at once, to a complete bundle;               *)
(*   - only a bundle the pointer does not name is taken apart.             *)
(* BundlePublish implements it; Serving reads it.                          *)
(***************************************************************************)
CONSTANTS
  Bundles,      \* bundle ids: digests of the artifacts they hold
  NoBundle      \* no pointer file

VARIABLES
  dir,          \* serving_bundles/<id>: "absent", "partial" or "complete"
  current       \* the bundle id in current_bundle.json

storeVars == <<dir, current>>

Init ==
  /\ dir \in [Bundles -> {"absent", "complete"}]
  /\ current \in Bundles \union {NoBundle}
  /\ current \in Bundles => dir[current] = "complete"

Install(b) ==
  /\ dir[b] = "absent"
  /\ dir' = [dir EXCEPT ![b] = "complete"]
  /\ UNCHANGED current

Switch(b) ==
  /\ dir[b] = "complete"
  /\ current' = b
  /\ UNCHANGED dir

\* rmtree takes a directory apart file by file.
BeginRemove(b) ==
  /\ b # current
  /\ dir[b] = "complete"
  /\ dir' = [dir EXCEPT ![b] = "partial"]
  /\ UNCHANGED current

EndRemove(b) ==
  /\ dir[b] = "partial"
  /\ dir' = [dir EXCEPT ![b] = "absent"]
  /\ UNCHANGED current

Next ==
  \E b \in Bundles : Install(b) \/ Switch(b) \/ BeginRemove(b) \/ EndRemove(b)

Spec == Init /\ [][Next]_storeVars

\* The pointer never names a bundle that is missing or incomplete
\* (docs/operations.md: "Failed or partial publication must not be treated as a
\* valid serving bundle").
PointerNamesComplete == current # NoBundle => dir[current] = "complete"

=============================================================================

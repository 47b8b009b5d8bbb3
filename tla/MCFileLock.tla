----------------------------- MODULE MCFileLock -----------------------------
(* FileLock on small sets of processes, two hosts at most.                  *)
EXTENDS FileLock

CONSTANTS p1, p2, p3

OneHost == [p \in Procs |-> "h1"]
TwoHosts == [p \in Procs |-> IF p = p3 THEN "h2" ELSE "h1"]

=============================================================================

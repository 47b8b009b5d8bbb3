---------------------------- MODULE MCPipelineRun ----------------------------
(* Two processes: both run the root pipeline and the same verifier; one also a  *)
(* namespace that has the name of another lock, the other one that rmtree does  *)
(* not empty for certain.                                                       *)
EXTENDS PipelineRun, TLC

CONSTANTS p1, p2

MCUses == (p1 :> {Root, "publish", "check"}) @@ (p2 :> {Root, "check", "lade"})
AllUses == [p \in Procs |-> Dirs]
=============================================================================

--------------------------- MODULE MCWorkflowRuntime ---------------------------
(* Instances of WorkflowRuntime for TLC.                                   *)
EXTENDS WorkflowRuntime, TLC

(* The first declared task depends on the second: declaration order and    *)
(* dependency order disagree.                                              *)
ReversedDeps == 1 :> {2} @@ 2 :> {}

NoDeps == [t \in Task |-> {}]

EventSymmetry == Permutations(Event)
=============================================================================

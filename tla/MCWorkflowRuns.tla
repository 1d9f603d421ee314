--------------------------- MODULE MCWorkflowRuns ---------------------------
(* Instances of WorkflowRuns for TLC; the constants are given in the cfgs. *)
EXTENDS WorkflowRuns
=============================================================================

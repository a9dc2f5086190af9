---------------------------- MODULE MCLegacyWorkflow ----------------------------
(* The instance of LegacyWorkflow for TLC.                                 *)
EXTENDS LegacyWorkflow
=============================================================================

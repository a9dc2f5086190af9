----------------------------- MODULE MCPublication -----------------------------
(* Instances of Publication for TLC.                                       *)
EXTENDS Publication, TLC
=============================================================================

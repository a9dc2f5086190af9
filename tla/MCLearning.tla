------------------------------ MODULE MCLearning ------------------------------
(* Instances of Learning for TLC.                                          *)
EXTENDS Learning, TLC

(* Threads differ in nothing but their name.                               *)
Threads == Permutations(Thread)
=============================================================================

------------------------------- MODULE MCTask -------------------------------
(* Task for TLC.                                                           *)
EXTENDS Task, TLC

Symmetry == Permutations(Tasks) \cup Permutations(Locks)
=============================================================================

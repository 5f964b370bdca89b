------------------------------ MODULE MCMutex ------------------------------
(* Mutex for TLC.                                                          *)
EXTENDS Mutex, TLC

Symmetry == Permutations(Tasks) \cup Permutations(Objects)
=============================================================================

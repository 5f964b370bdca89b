------------------------------- MODULE MCShim -------------------------------
(* Shim for TLC.                                                           *)
EXTENDS Shim, TLC

\* Sound for liveness too: of these values the states of a semaphore and of the
\* bridge contain only got and put, which do not change there.
Symmetry ==
  Permutations(Items) \cup Permutations(STasks) \cup Permutations(Sems) \cup Permutations(Stacks)
=============================================================================

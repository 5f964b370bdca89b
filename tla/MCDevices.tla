----------------------------- MODULE MCDevices -----------------------------
(* Devices for TLC.                                                        *)
EXTENDS Devices, TLC

\* Control blocks are taken from anywhere in their tables, so that they are
\* interchangeable as the tasks are.
Symmetry ==
  Permutations(Tasks) \cup Permutations(Opns) \cup Permutations(Reqs) \cup Permutations(Pair)
=============================================================================

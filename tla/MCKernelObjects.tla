--------------------------- MODULE MCKernelObjects ---------------------------
(* KernelObjects for TLC.                                                  *)
EXTENDS KernelObjects, TLC

CONSTANTS m1, m2

\* A message that fills one unit and one that needs two.
MC_msgsz == m1 :> 1 @@ m2 :> 3

\* All bits, without clearing and with; either bit, and only that is cleared.
MC_Modes == {{}, {"CLR"}, {"ORW", "BITCLR"}}

Symmetry == Permutations(Tasks) \cup Permutations(Bits)
=============================================================================

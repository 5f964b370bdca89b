----------------------------- MODULE SyncObjects -----------------------------
(***************************************************************************)
(* The objects at which tasks meet: semaphores, event flags and rendezvous *)
(* ports, over the tasks and control blocks in k.  KernelObjects adds the  *)
(* others and the specification.                                           *)
(***************************************************************************)
EXTENDS Naturals

CONSTANTS
  Tasks, Objects, NUM_TSKPRI,
  MaxSem,                       \* semaphores
  Bits, Modes, NULL,            \* event flags
  Few, MaxSize, MaxRdv,         \* rendezvous: its tasks, and bounds
  RdvWrap                       \* numbers of a caller

ASSUME SyncAssumption ==
  /\ NUM_TSKPRI \in Nat \ {0} /\ NULL \notin Tasks
  /\ MaxSem \in Nat \ {0} /\ MaxSize \in Nat /\ MaxRdv \in Nat
  /\ RdvWrap \in Nat \ {0, 1}

VARIABLE k

Gcb == INSTANCE Wait
Sem == INSTANCE Semaphore
Flg == INSTANCE EventFlag
Por == INSTANCE Rendezvous WITH Tasks <- Few
=============================================================================

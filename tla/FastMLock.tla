------------------------------ MODULE FastMLock ------------------------------
(***************************************************************************)
(* The fast multi-lock of libtk: the bits of a word are locks, and an event *)
(* flag wakes those who found a bit set.  Device management uses it for    *)
(* LockDM and LockREG.                                                     *)
(***************************************************************************)
EXTENDS Naturals, Sequences, FiniteSets

CONSTANTS
  Tasks, lock_id,
  Nos           \* numbers of the locks in use, 0 among them

VARIABLES
  k,            \* the kernel's tasks and event flags
  l             \* wai, flg, and where a task is with which lock

K == INSTANCE EventFlag WITH Objects <- {lock_id}, NUM_TSKPRI <- 1, Bits <- Nos,
                             Modes <- {{"ORW", "BITCLR"}}

\* CreateMLock.
CreateMLock ==
  /\ k = [tcb |-> [t \in Tasks |-> [state |-> "READY", priority |-> 0, wid |-> lock_id,
                                    wercd |-> "E_OK", waiptn |-> {}, wfmode |-> {}, flgptn |-> {}]],
          gcb |-> [o \in {lock_id} |-> [objid |-> TRUE, tpri |-> TRUE, wmul |-> TRUE,
                                        flgptn |-> {}, wait_queue |-> << >>]]]
  /\ l = [wai |-> 0, flg |-> {}, pc |-> [t \in Tasks |-> "out"], no |-> [t \in Tasks |-> 0]]

At(t, a, b) == l.pc[t] = a /\ l' = [l EXCEPT !.pc[t] = b]

-----------------------------------------------------------------------------
(* MLockTmo: one step for every access to the lock's words                 *)

INC(t, n) ==
  /\ l.pc[t] = "out"
  /\ l' = [l EXCEPT !.wai = @ + 1, !.pc[t] = "try", !.no[t] = n]
  /\ UNCHANGED k

BTS(t) ==
  LET n == l.no[t]
  IN  /\ l.pc[t] = "try"
      /\ l' = [l EXCEPT !.flg = @ \cup {n}, !.pc[t] = IF n \in l.flg THEN "wait" ELSE "got"]
      /\ UNCHANGED k

MLockTmo(t) ==
  \/ At(t, "wait", "woken") /\ K!tk_wai_flg(t, lock_id, {l.no[t]}, {"ORW", "BITCLR"})
  \/ k.tcb[t].state = "READY" /\ At(t, "woken", "try") /\ UNCHANGED k

\* The time limit is over while the task waits.
Timeout(t) == K!knl_wait_release_ng(t, "E_TMOUT") /\ At(t, "woken", "failed")

DEC(t) ==
  /\ l.pc[t] \in {"got", "failed"}
  /\ l' = [l EXCEPT !.wai = @ - 1, !.pc[t] = IF l.pc[t] = "got" THEN "in" ELSE "out"]
  /\ UNCHANGED k

-----------------------------------------------------------------------------
(* MUnlock                                                                 *)

BR(t) ==
  /\ l.pc[t] = "in"
  /\ l' = [l EXCEPT !.flg = @ \ {l.no[t]}, !.pc[t] = "check"]
  /\ UNCHANGED k

\* Mutant: the event is set only when several tasks are on their way.
MUnlock_Alone(t) ==
  \/ At(t, "check", IF l.wai <= 1 THEN "out" ELSE "set") /\ UNCHANGED k
  \/ At(t, "set", "out") /\ K!tk_set_flg(lock_id, {l.no[t]})

\* The event is set when any task is on its way to any lock.
MUnlock(t) ==
  \/ At(t, "check", IF l.wai = 0 THEN "out" ELSE "set") /\ UNCHANGED k
  \/ At(t, "set", "out") /\ K!tk_set_flg(lock_id, {l.no[t]})

Next ==
  \E t \in Tasks :
    \/ \E n \in Nos : INC(t, n)
    \/ BTS(t) \/ MLockTmo(t) \/ Timeout(t) \/ DEC(t) \/ BR(t) \/ MUnlock(t)

-----------------------------------------------------------------------------

\* A lock belongs to one task at most, and nobody sleeps for a lock that is
\* free, unless another task is about to take it, to wake it or to find out
\* that it must.
Passed ==
  \A n \in Nos :
    LET On(labels) == {t \in Tasks : l.no[t] = n /\ l.pc[t] \in labels}
    IN  /\ Cardinality(On({"got", "in"})) = IF n \in l.flg THEN 1 ELSE 0
        /\ \A t \in On({"woken"}) :
             k.tcb[t].state = "WAIT" /\ n \notin l.flg =>
               \/ On({"try", "check", "set"}) # {}
               \/ \E u \in On({"woken"}) : k.tcb[u].state = "READY"
=============================================================================

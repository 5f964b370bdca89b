------------------------------ MODULE FastLock ------------------------------
(***************************************************************************)
(* The fast lock of libtk: a counter, and a semaphore only for those who   *)
(* find it taken.  The counter changes with interrupts disabled; between   *)
(* that and the kernel call a task may be preempted.                       *)
(***************************************************************************)
EXTENDS Naturals, Integers, Sequences, FiniteSets

CONSTANTS Tasks, lock_id

VARIABLES
  k,          \* the kernel's tasks and semaphores
  l           \* cnt, and where in Lock and Unlock a task is

K == INSTANCE Semaphore WITH Objects <- {lock_id}, NUM_TSKPRI <- 2, MaxSem <- 1

\* CreateLock: no token.
CreateLock ==
  /\ k \in [tcb : [Tasks -> [state : {"READY"}, priority : 0 .. 1, cnt : {1},
                             wid : {lock_id}, wercd : {"E_OK"}]],
            gcb : {[o \in {lock_id} |->
                     [objid |-> TRUE, tpri |-> TRUE, cnt |-> FALSE, semcnt |-> 0,
                      maxsem |-> 1, wait_queue |-> << >>]]}]
  /\ l = [cnt |-> -1, pc |-> [t \in Tasks |-> "out"]]

Goto(t, m) == l' = [l EXCEPT !.pc[t] = m]

\* Lock: the first goes in, the others wait.  Lock does not look at what tk_wai_sem
\* returns: a task whose wait tk_rel_wai ended would go in beside the holder.
\* Precondition: nobody calls tk_rel_wai for a task that waits for a lock, and the
\* lock is not deleted meanwhile.
Inc(t) ==
  /\ l.pc[t] = "out"
  /\ l' = [cnt |-> l.cnt + 1, pc |-> [l.pc EXCEPT ![t] = IF l.cnt + 1 > 0 THEN "wait" ELSE "in"]]
  /\ UNCHANGED k

Lock(t) ==
  \/ l.pc[t] = "wait" /\ K!tk_wai_sem(t, lock_id, 1, FALSE) /\ Goto(t, "woken")
  \/ l.pc[t] = "woken" /\ k.tcb[t].state = "READY" /\ Goto(t, "in") /\ UNCHANGED k

\* Unlock: whoever leaves others behind signals.
Dec(t) ==
  /\ l.pc[t] = "in"
  /\ l' = [cnt |-> l.cnt - 1, pc |-> [l.pc EXCEPT ![t] = IF l.cnt > 0 THEN "signal" ELSE "out"]]
  /\ UNCHANGED k

Unlock(t) == l.pc[t] = "signal" /\ K!tk_sig_sem(lock_id, 1) /\ Goto(t, "out")

Next == \E t \in Tasks : Inc(t) \/ Lock(t) \/ Dec(t) \/ Unlock(t)

-----------------------------------------------------------------------------

\* The lock is with one task, on its way to one, or free: of a task inside, a
\* signal that is due, a token and a task that was woken there is one when the
\* counter says taken, and none when it says free.
Passed ==
  Cardinality({t \in Tasks : \/ l.pc[t] \in {"in", "signal"}
                             \/ l.pc[t] = "woken" /\ k.tcb[t].state = "READY"})
    + k.gcb[lock_id].semcnt = IF l.cnt >= 0 \/ \E t \in Tasks : l.pc[t] = "signal" THEN 1 ELSE 0
=============================================================================

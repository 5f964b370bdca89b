------------------------------- MODULE ShimSem -------------------------------
(***************************************************************************)
(* The semaphores of the FreeRTOS shim: shim_queue.c on top of the         *)
(* kernel's semaphores (module Semaphore).                                 *)
(*                                                                         *)
(* cnt is the count FreeRTOS callers see; it changes with interrupts       *)
(* disabled.  The kernel semaphore only carries notifications: its tokens  *)
(* may lag.  A task can be interrupted or preempted between its own        *)
(* critical section and the kernel call, so these are separate steps; an   *)
(* interrupt handler does both in one.                                     *)
(***************************************************************************)
EXTENDS Naturals, Sequences, FiniteSets

CONSTANTS
  Tasks,      \* the tasks
  Takers,     \* those that take the semaphore
  Givers,     \* those that give it
  sem_id,     \* the kernel semaphore behind it
  max_cnt,    \* limit of the count; 1: a binary semaphore
  Alternate   \* tasks of one priority exist and may alternate (tk_rot_rdq)

VARIABLES
  k,          \* the kernel's tasks and semaphores
  cnt,        \* the authoritative count
  pc          \* where in a call of the shim a task is

K == INSTANCE Semaphore WITH Objects <- {sem_id}, NUM_TSKPRI <- Cardinality(Tasks),
                             MaxSem <- max_cnt

-----------------------------------------------------------------------------

Asleep(t) == k.tcb[t].state = "WAIT"

\* A handle is used between xQueueGenericCreate and vQueueDelete.
Exists == k.gcb[sem_id].objid

\* Task t may run: every other task inside a call sleeps or has no higher
\* priority.  A task that is not inside a call may be busy elsewhere.
Runs(t) ==
  \A u \in Tasks :
    pc[u] # "idle" /\ ~Asleep(u) => k.tcb[t].priority <= k.tcb[u].priority

\* Task t runs from label l to label m of its call.
At(t, l, m) == Runs(t) /\ pc[t] = l /\ pc' = [pc EXCEPT ![t] = m]

\* sem_init: no token, whatever the initial count.
xQueueGenericCreate(init_cnt) ==
  /\ \A t \in Tasks : pc[t] = "idle"
  /\ K!tk_cre_sem(sem_id, FALSE, FALSE, 0, max_cnt)
  /\ cnt' = init_cnt
  /\ UNCHANGED pc

\* Sleeping tasks return with an error.  Precondition: nobody else is inside a
\* call.
vQueueDelete ==
  /\ \A t \in Tasks : pc[t] = "idle" \/ Asleep(t)
  /\ K!tk_del_sem(sem_id)
  /\ cnt' = 0
  /\ UNCHANGED pc

\* tk_sig_sem(sem_id, 1); E_QOVR is ignored.
Signal ==
  \/ K!tk_sig_sem(sem_id, 1)
  \/ k.gcb[sem_id].semcnt = k.gcb[sem_id].maxsem /\ UNCHANGED k

\* Mutant: nobody is told about the new count.
sem_give_Silent(t) ==
  /\ Exists /\ cnt < max_cnt
  /\ cnt' = cnt + 1
  /\ At(t, "idle", "idle")
  /\ UNCHANGED k

\* A task gives: the count first, the notification second.
sem_give(t) ==
  /\ Exists /\ cnt < max_cnt
  /\ cnt' = cnt + 1
  /\ At(t, "idle", "signal")
  /\ UNCHANGED k

\* Mutant: the giver signals only once nobody waits any more.
sem_give_signal_Late(t) ==
  /\ \A u \in Tasks : ~Asleep(u)
  /\ At(t, "signal", "idle")
  /\ Signal
  /\ UNCHANGED cnt

sem_give_signal(t) == At(t, "signal", "idle") /\ Signal /\ UNCHANGED cnt

\* sem_give in an interrupt handler.
xQueueGenericSendFromISR ==
  /\ Exists /\ cnt < max_cnt
  /\ cnt' = cnt + 1
  /\ Signal
  /\ UNCHANGED pc

xQueueReceiveFromISR ==
  /\ cnt > 0
  /\ cnt' = cnt - 1
  /\ UNCHANGED <<k, pc>>

\* The fast path takes the count; without one the task goes on to wait.
xQueueSemaphoreTake(t) ==
  /\ Exists
  /\ IF cnt > 0 THEN cnt' = cnt - 1 /\ At(t, "idle", "consume")
                ELSE cnt' = cnt /\ At(t, "idle", "wait")
  /\ UNCHANGED k

\* "Consume one stale notification if present."
Consume(t) ==
  /\ At(t, "consume", "idle")
  /\ K!tk_wai_sem(t, sem_id, 1, TRUE)
  /\ UNCHANGED cnt

\* The slow path calls tk_wai_sem and may block there.
SlowPath(t) ==
  /\ At(t, "wait", "recheck")
  /\ K!tk_wai_sem(t, sem_id, 1, FALSE)
  /\ UNCHANGED cnt

\* The time limit of a sleeping task is over.
Timeout(t) == K!knl_wait_release_ng(t, "E_TMOUT") /\ UNCHANGED <<cnt, pc>>

\* tk_wai_sem returned: give up after an error, take the count, or wait again.
Recheck(t) ==
  /\ ~Asleep(t)
  /\ \/ k.tcb[t].wercd # "E_OK" /\ cnt' = cnt /\ At(t, "recheck", "idle")
     \/ k.tcb[t].wercd = "E_OK" /\ cnt > 0 /\ cnt' = cnt - 1 /\ At(t, "recheck", "idle")
     \/ k.tcb[t].wercd = "E_OK" /\ cnt = 0 /\ cnt' = cnt /\ At(t, "recheck", "wait")
  /\ UNCHANGED k

-----------------------------------------------------------------------------

\* The semaphore is not created yet.
Init ==
  /\ k \in [tcb : [Tasks -> [state : {"READY"}, priority : 0 .. Cardinality(Tasks) - 1,
                             cnt : {1}, wid : {sem_id}, wercd : {"E_OK"}]],
            gcb : [{sem_id} -> [objid : {FALSE}, tpri : {FALSE}, cnt : {FALSE},
                                semcnt : {0}, maxsem : {1}, wait_queue : {<< >>}]]]
  /\ Alternate \/ \A t, u \in Tasks : k.tcb[t].priority = k.tcb[u].priority => t = u
  /\ cnt = 0
  /\ pc = [t \in Tasks |-> "idle"]

\* What task t does once it is inside a call.
Step(t) == sem_give_signal(t) \/ Consume(t) \/ SlowPath(t) \/ Recheck(t)

Next ==
  \/ \E init_cnt \in 0 .. max_cnt : xQueueGenericCreate(init_cnt)
  \/ vQueueDelete
  \/ \E t \in Givers : sem_give(t)
  \/ \E t \in Takers : xQueueSemaphoreTake(t) \/ Timeout(t)
  \/ \E t \in Tasks : Step(t)
  \/ xQueueGenericSendFromISR
  \/ xQueueReceiveFromISR

-----------------------------------------------------------------------------
(* Properties                                                              *)

\* "E_QOVR harmless", "the sleeping task rechecks cnt": nobody sleeps on a
\* semaphore that could be taken, unless another task is still inside a call
\* and will signal or take it.
NoTakerForgotten ==
  \A t \in Tasks : Asleep(t) /\ cnt > 0 =>
    \E u \in Tasks : pc[u] # "idle" /\ ~Asleep(u)

=============================================================================

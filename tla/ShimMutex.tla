----------------------------- MODULE ShimMutex -----------------------------
(***************************************************************************)
(* The recursive mutexes of the FreeRTOS shim: shim_queue.c on top of a    *)
(* kernel mutex with priority inheritance (module Mutex).                  *)
(*                                                                         *)
(* owner_task and depth shadow the kernel's holder.  They are read without *)
(* a lock and written after the kernel gave the mutex away, respectively   *)
(* before it is given back, so kernel call and shadow are separate steps.  *)
(***************************************************************************)
EXTENDS Naturals, Sequences, FiniteSets

CONSTANTS
  Tasks, NULL,
  mtx_id,       \* the kernel mutex
  MaxDepth      \* bound on the depth of recursion

VARIABLES
  k,            \* the kernel's tasks and mutexes
  s             \* the shadow; held is what each task has taken and not given

K == INSTANCE Mutex WITH Objects <- {mtx_id}, Attributes <- {"INHERIT"},
                         AllowCycle <- FALSE, NUM_TSKPRI <- 2

Ready(t) == k.tcb[t].state = "READY"

Goto(t, l) == [s EXCEPT !.at[t] = l]

\* Created by the first user; the shadow starts empty.
xQueueCreateMutex ==
  K!tk_cre_mtx(mtx_id, "INHERIT", 0) /\ UNCHANGED s

\* xQueueSemaphoreTake: the owner only counts, everybody else asks the kernel.
TakeMutexRecursive(t) ==
  /\ s.at[t] = "idle" /\ Ready(t)
  /\ \/ /\ s.owner_task = t /\ s.depth < MaxDepth
        /\ s' = [s EXCEPT !.depth = @ + 1, !.held[t] = @ + 1]
        /\ UNCHANGED k
     \/ s.owner_task # t /\ K!tk_loc_mtx(t, mtx_id) /\ s' = Goto(t, "locked")

\* tk_loc_mtx returned, with E_OK to the task that has the mutex.
Own(t) ==
  /\ s.at[t] = "locked" /\ Ready(t)
  /\ s' = IF k.gcb[mtx_id].mtxtsk = t
          THEN [Goto(t, "idle") EXCEPT !.owner_task = t, !.depth = 1, !.held[t] = 1]
          ELSE Goto(t, "idle")
  /\ UNCHANGED k

\* Mutant: the kernel mutex is released before the shadow is cleared.
GiveMutexRecursive_Early(t) ==
  /\ s.at[t] = "idle" /\ Ready(t) /\ s.held[t] > 0
  /\ s.depth > 0
  /\ \/ s.depth = 1 /\ K!tk_unl_mtx(t, mtx_id) /\ s' = [s EXCEPT !.held[t] = @ - 1, !.depth = @ - 1]
     \/ s.depth > 1 /\ UNCHANGED k /\ s' = [s EXCEPT !.held[t] = @ - 1, !.depth = @ - 1]

\* xQueueGiveMutexRecursive, called by a task that has taken the mutex.
GiveMutexRecursive(t) ==
  /\ s.at[t] = "idle" /\ Ready(t) /\ s.held[t] > 0
  /\ s.depth > 0
  /\ LET given == [s EXCEPT !.held[t] = @ - 1, !.depth = @ - 1]
     IN  s' = IF s.depth > 1 THEN given
              ELSE [given EXCEPT !.owner_task = NULL, !.at[t] = "unlock"]
  /\ UNCHANGED k

Unlock(t) == s.at[t] = "unlock" /\ K!tk_unl_mtx(t, mtx_id) /\ s' = Goto(t, "idle")

Timeout(t) == K!knl_wait_release_ng(t, "E_TMOUT") /\ UNCHANGED s

\* Precondition: a task is not deleted while owner_task names it.  The kernel
\* passes the mutex on, but nobody clears the shadow.
vTaskDelete(t) == s.owner_task # t /\ K!tk_ter_tsk(t) /\ s' = Goto(t, "idle")

Restart(t) == K!tk_sta_tsk(t) /\ UNCHANGED s

\* Any task may have its own priority changed.
vTaskPrioritySet(t, pri) == K!tk_chg_pri(t, pri) /\ UNCHANGED s

Init ==
  /\ K!Init
  /\ s = [owner_task |-> NULL, depth |-> 0, held |-> [t \in Tasks |-> 0],
          at |-> [t \in Tasks |-> "idle"]]

Next ==
  \/ xQueueCreateMutex
  \/ \E t \in Tasks :
       \/ TakeMutexRecursive(t) \/ Own(t) \/ GiveMutexRecursive(t) \/ Unlock(t)
       \/ Timeout(t) \/ vTaskDelete(t) \/ Restart(t)
       \/ \E pri \in 0 .. 1 : vTaskPrioritySet(t, pri)

\* Whoever owner_task names holds the kernel mutex and has taken it depth
\* times, and nobody else believes to hold it; a kernel holder that is not
\* named is about to write the shadow or to unlock.
OwnerExact ==
  LET h == k.gcb[mtx_id].mtxtsk
  IN  /\ s.owner_task # NULL => s.owner_task = h /\ s.depth = s.held[h]
      /\ \A t \in Tasks : s.held[t] > 0 <=> s.owner_task = t
      /\ h # NULL /\ s.owner_task = NULL => s.at[h] \in {"locked", "unlock"}
=============================================================================

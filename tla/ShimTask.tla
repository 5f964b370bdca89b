------------------------------ MODULE ShimTask ------------------------------
(***************************************************************************)
(* The tasks and task notifications of the FreeRTOS shim: shim_task.c on   *)
(* top of the kernel's tasks and semaphores (module Semaphore).            *)
(*                                                                         *)
(* s_tasks maps kernel tasks to what the shim keeps for them.  A creator   *)
(* is preempted between finding a free entry and writing to it, and a      *)
(* notifier between writing the value and signalling the semaphore.        *)
(***************************************************************************)
EXTENDS Naturals, Sequences, FiniteSets

CONSTANTS
  Tasks,          \* task IDs of the kernel
  Creators,       \* tasks outside the table that create and delete tasks
  SHIM_TASK_MAX,  \* number of entries
  Sems,           \* semaphore IDs of the kernel
  Stacks,         \* what heap_caps_malloc may return
  NULL

VARIABLES
  k,              \* the kernel's tasks and semaphores
  s               \* the table, the resources in use and where every task is

K == INSTANCE Semaphore WITH Objects <- Sems, NUM_TSKPRI <- 1, MaxSem <- 1

Entries == 1 .. SHIM_TASK_MAX

\* notify_val is abstracted to whether any bit is set.  news, which the code
\* does not have, says that the value was set and not read or cleared since.
FreeEntry == [tsk_id |-> NULL, notify_sem |-> NULL, stack |-> NULL,
              notify_val |-> FALSE, news |-> FALSE]

Idle == [pc |-> "idle", e |-> NULL, sem |-> NULL, stack |-> NULL, id |-> NULL]

Goto(c, l) == [s EXCEPT !.at[c].pc = l]

Leave(r, t) == [r EXCEPT !.at[t] = Idle]

FreeSems == {o \in Sems : ~k.gcb[o].objid}

-----------------------------------------------------------------------------
(* Creating and deleting tasks                                             *)

\* The first free entry; it is not reserved.  Without one the call fails.
alloc_task_entry(c) ==
  /\ s.at[c].pc = "idle"
  /\ \E e \in Entries :
       /\ s.s_tasks[e].tsk_id = NULL /\ \A f \in 1 .. e - 1 : s.s_tasks[f].tsk_id # NULL
       /\ s' = [s EXCEPT !.at[c] = [Idle EXCEPT !.pc = "acquire", !.e = e]]
  /\ UNCHANGED k

\* Semaphore, stack and kernel task, or none of them: what was acquired before
\* a failure is given back.
Acquire(c) ==
  /\ s.at[c].pc = "acquire"
  /\ \/ \E o \in FreeSems, m \in Stacks \ s.stacks, t \in Tasks \ s.exists :
          /\ K!tk_cre_sem(o, FALSE, FALSE, 0, 1)
          /\ s' = [s EXCEPT !.stacks = @ \cup {m}, !.exists = @ \cup {t},
                            !.at[c] = [@ EXCEPT !.pc = "record", !.sem = o, !.stack = m, !.id = t]]
     \/ /\ FreeSems = {} \/ s.stacks = Stacks \/ s.exists = Tasks
        /\ s' = Leave(s, c)
        /\ UNCHANGED k

\* The entry is written; notify_val and tls keep what the last task left there.
Record(c) ==
  LET a == s.at[c]
  IN  /\ a.pc = "record"
      /\ s' = [Goto(c, "start") EXCEPT
                 !.s_tasks[a.e] = [@ EXCEPT !.tsk_id = a.id, !.notify_sem = a.sem,
                                            !.stack = a.stack, !.news = FALSE]]
      /\ UNCHANGED k

\* tk_sta_tsk cannot fail on the task that was just created.
Start(c) == s.at[c].pc = "start" /\ K!tk_sta_tsk(s.at[c].id) /\ s' = Leave(s, c)

\* vTaskDelete(NULL): the task ends; its entry, semaphore and stack stay until
\* somebody deletes it.
vTaskDeleteSelf(t) ==
  s.at[t].pc = "idle" /\ k.tcb[t].state = "READY" /\ K!tk_ter_tsk(t) /\ UNCHANGED s

\* vTaskDelete(h).  Precondition: a task is not deleted between its write of a
\* notification and its signal (notify_signal).  The code does not see to that,
\* and the notified task would then sleep beside its value.
vTaskDelete(c, e) ==
  LET id == s.s_tasks[e].tsk_id
  IN  /\ s.at[c].pc = "idle" /\ id # NULL
      /\ s.at[id].pc # "signal"
      /\ \/ K!tk_ter_tsk(id)
         \/ k.tcb[id].state = "DORMANT" /\ UNCHANGED k
      /\ s' = [Leave(s, id) EXCEPT !.exists = @ \ {id},
                                   !.at[c] = [Idle EXCEPT !.pc = "delete", !.e = e]]

\* Mutant: the semaphore is forgotten.
Release_KeepSem(c) ==
  LET e == s.at[c].e
  IN  /\ s.at[c].pc = "delete"
      /\ UNCHANGED k
      /\ s' = [Leave(s, c) EXCEPT !.stacks = @ \ {s.s_tasks[e].stack},
                                  !.s_tasks[e] = [FreeEntry EXCEPT !.notify_val = s.s_tasks[e].notify_val]]

\* Semaphore and stack go, then the entry is free.
Release(c) ==
  LET e == s.at[c].e
  IN  /\ s.at[c].pc = "delete"
      /\ K!tk_del_sem(s.s_tasks[e].notify_sem)
      /\ s' = [Leave(s, c) EXCEPT !.stacks = @ \ {s.s_tasks[e].stack},
                                  !.s_tasks[e] = [FreeEntry EXCEPT !.notify_val = s.s_tasks[e].notify_val]]

-----------------------------------------------------------------------------
(* Notifications                                                           *)

\* The critical section of notify_signal: eSetBits with a bit that is 1, or
\* eSetValueWithOverwrite.
Written(r, e, setbits, val) ==
  [r EXCEPT !.s_tasks[e].notify_val = val \/ (setbits /\ @), !.s_tasks[e].news = TRUE]

Writes == {<<TRUE, TRUE>>, <<FALSE, TRUE>>, <<FALSE, FALSE>>}

\* tk_sig_sem(e->notify_sem, 1); E_QOVR and E_NOEXS are ignored.
Signal(e) ==
  LET o == s.s_tasks[e].notify_sem
  IN  IF o # NULL /\ k.gcb[o].objid /\ k.gcb[o].semcnt = 0 THEN K!tk_sig_sem(o, 1) ELSE UNCHANGED k

\* xTaskNotify: first the value, then, in another step, the signal.
notify_signal(t, e, setbits, val) ==
  /\ s.at[t].pc = "idle" /\ k.tcb[t].state = "READY"
  /\ s.s_tasks[e].notify_sem # NULL
  /\ s' = [Written(s, e, setbits, val) EXCEPT !.at[t] = [Idle EXCEPT !.pc = "signal", !.e = e]]
  /\ UNCHANGED k

Signalled(t) == s.at[t].pc = "signal" /\ Signal(s.at[t].e) /\ s' = Leave(s, t)

\* xTaskNotifyGive, also from an interrupt handler: only the signal.
xTaskNotifyGive(e) == s.s_tasks[e].notify_sem # NULL /\ Signal(e) /\ UNCHANGED s

xTaskNotifyFromISR(e, setbits, val) ==
  s.s_tasks[e].notify_sem # NULL /\ Signal(e) /\ s' = Written(s, e, setbits, val)

\* The entry of the calling task.
find_by_tk_id(t) ==
  {e \in Entries : s.s_tasks[e].tsk_id = t /\ \A f \in 1 .. e - 1 : s.s_tasks[f].tsk_id # t}

\* Bits may be cleared first.
xTaskNotifyWait(t, clr_entry) ==
  /\ s.at[t].pc = "idle"
  /\ \E e \in find_by_tk_id(t) :
       /\ s.s_tasks[e].notify_sem # NULL
       /\ K!tk_wai_sem(t, s.s_tasks[e].notify_sem, 1, FALSE)
       /\ s' = [s EXCEPT !.at[t] = [Idle EXCEPT !.pc = "waited", !.e = e],
                         !.s_tasks[e] = IF clr_entry THEN [@ EXCEPT !.notify_val = FALSE, !.news = FALSE]
                                                     ELSE @]

ulTaskNotifyTake(t) == xTaskNotifyWait(t, FALSE)

\* The value is read, and cleared if asked for; after an error it is not.
Read(t, clr_exit) ==
  LET e == s.at[t].e
      ok == k.tcb[t].wercd = "E_OK"
  IN  /\ s.at[t].pc = "waited" /\ k.tcb[t].state = "READY"
      /\ s' = [Leave(s, t) EXCEPT
                 !.s_tasks[e] = IF ok THEN [@ EXCEPT !.notify_val = @ /\ ~clr_exit, !.news = FALSE] ELSE @]
      /\ UNCHANGED k

Timeout(t) == s.at[t].pc = "waited" /\ K!knl_wait_release_ng(t, "E_TMOUT") /\ UNCHANGED s

-----------------------------------------------------------------------------

Init ==
  \E o \in Sems :
    /\ k = [tcb |-> [t \in Tasks |-> [state |-> "DORMANT", priority |-> 0, cnt |-> 1, wid |-> o,
                                      wercd |-> "E_OK"]],
            gcb |-> [p \in Sems |-> [objid |-> FALSE, tpri |-> FALSE, cnt |-> FALSE, semcnt |-> 0,
                                     maxsem |-> 1, wait_queue |-> << >>]]]
    /\ s = [s_tasks |-> [e \in Entries |-> FreeEntry], exists |-> {}, stacks |-> {},
            at |-> [t \in Tasks \cup Creators |-> Idle]]

Next ==
  \/ \E c \in Creators :
       \/ alloc_task_entry(c) \/ Acquire(c) \/ Record(c) \/ Start(c) \/ Release(c)
       \/ \E e \in Entries : vTaskDelete(c, e)
  \/ \E t \in Tasks :
       \/ vTaskDeleteSelf(t) \/ Signalled(t) \/ Timeout(t) \/ ulTaskNotifyTake(t)
       \/ \E e \in Entries, bv \in Writes : notify_signal(t, e, bv[1], bv[2])
       \/ \E clr \in BOOLEAN : xTaskNotifyWait(t, clr) \/ Read(t, clr)
  \/ \E e \in Entries : \/ xTaskNotifyGive(e)
                        \/ \E bv \in Writes : xTaskNotifyFromISR(e, bv[1], bv[2])

-----------------------------------------------------------------------------
(* Properties                                                              *)

\* "The table is protected by a critical section (DI/EI) since task creation
\* can happen from multiple tasks": a task that was started has an entry, no
\* two entries name one task, and every kernel task, semaphore and stack in use
\* belongs to one entry or to one creator that is about to fill an entry in.
TableExact ==
  LET used  == {e \in Entries : s.s_tasks[e].tsk_id # NULL}
      under == {c \in Creators : s.at[c].pc = "record"}
      going == {s.at[c].e : c \in {d \in Creators : s.at[d].pc = "delete"}}
  IN  /\ \A t \in Tasks : k.tcb[t].state # "DORMANT" => Cardinality(find_by_tk_id(t)) = 1
      /\ \A e, f \in used : s.s_tasks[e].tsk_id = s.s_tasks[f].tsk_id => e = f
      /\ s.exists = {s.s_tasks[e].tsk_id : e \in used \ going} \cup {s.at[c].id : c \in under}
      /\ Sems \ FreeSems = {s.s_tasks[e].notify_sem : e \in used} \cup {s.at[c].sem : c \in under}
      /\ s.stacks = {s.s_tasks[e].stack : e \in used} \cup {s.at[c].stack : c \in under}

\* No notification is missed: a task does not sleep beside a value it has not
\* seen, unless the task that wrote it is about to signal.
NothingMissed ==
  \A t \in Tasks : \A e \in find_by_tk_id(t) :
    k.tcb[t].state = "WAIT" /\ s.s_tasks[e].news =>
      \E u \in Tasks : s.at[u].pc = "signal" /\ s.at[u].e = e
=============================================================================

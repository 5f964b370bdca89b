-------------------------------- MODULE Task --------------------------------
(***************************************************************************)
(* Task management, task synchronisation, the ready queue, the kernel lock *)
(* and the dispatcher of the micro T-Kernel: task.c, task.h, ready_queue.h,*)
(* task_manage.c, task_sync.c, wait.c, klock.c and the dispatch part of    *)
(* cpu_cntl.c / cpu_status.h.                                              *)
(*                                                                         *)
(* One system call is one action: its critical section runs with           *)
(* interrupts disabled on a single core.  The kernel state is the record   *)
(* k, threaded through operators named after the functions of the source.  *)
(* A call comes from the running task, and then ends with                  *)
(* END_CRITICAL_SECTION, or from an interrupt handler, and then ends with  *)
(* the exit of the interrupt.                                              *)
(***************************************************************************)
EXTENDS Queue, FiniteSets

CONSTANTS
  Tasks,        \* the control blocks of knl_tcb_table
  NoTask,       \* the NULL pointer of type TCB*
  NUM_TSKPRI,   \* number of priorities, 0 (highest) .. NUM_TSKPRI - 1
  Locks,        \* the OBJLOCKs of the system
  NoLock,       \* not inside knl_LockOBJ .. knl_UnlockOBJ
  INT_MAX,      \* limit of wupcnt and suscnt
  IniPri,       \* bound: the priorities tasks are created with
  IsrSus,       \* interrupt handlers suspend even the last ready task
  TerRunning    \* tk_ter_tsk is applied to the task in execution

ASSUME ConstantsAssumption ==
  /\ NoTask \notin Tasks
  /\ NoLock \notin Locks
  /\ NUM_TSKPRI \in Nat \ {0}
  /\ INT_MAX \in Nat \ {0}
  /\ IniPri \subseteq 0 .. NUM_TSKPRI - 1
  /\ IsrSus \in BOOLEAN
  /\ TerRunning \in BOOLEAN

VARIABLE k      \* the kernel's variables, a member of Kernel

Pri == 0 .. NUM_TSKPRI - 1

TaskState ==
  {"NONEXIST", "READY", "WAIT", "SUSPEND", "WAITSUS", "DORMANT"}

\* The test (state & TS_WAIT) != 0.
Waiting == {"WAIT", "WAITSUS"}

\* knl_task_alive(state).
knl_task_alive == {"READY", "WAIT", "SUSPEND", "WAITSUS"}

TCB == [state : TaskState, priority : Pri, ipriority : Pri,
        wupcnt : 0 .. INT_MAX, suscnt : 0 .. INT_MAX,
        klocked : BOOLEAN, klockwait : BOOLEAN,
        wspec : {"SLP", "DLY"},      \* why the task waits
        wtmeb : BOOLEAN,             \* its timer event is in the timer queue
        loc : Locks \cup {NoLock}]   \* the lock it is working on

\* A control block on knl_free_tcb.
NoTCB == [state |-> "NONEXIST", priority |-> 0, ipriority |-> 0,
          wupcnt |-> 0, suscnt |-> 0, klocked |-> FALSE, klockwait |-> FALSE,
          wspec |-> "SLP", wtmeb |-> FALSE, loc |-> NoLock]

Kernel ==
  [tcb : [Tasks -> TCB],
   tskque : [Pri -> Seq(Tasks)],        \* knl_ready_queue
   bitmap : SUBSET Pri,
   top_priority : 0 .. NUM_TSKPRI,
   klocktsk : Tasks \cup {NoTask},
   lock : [Locks -> [held : BOOLEAN, wtskq : Seq(Tasks)]],
   schedtsk : Tasks \cup {NoTask},      \* task which should be executed
   ctxtsk : Tasks \cup {NoTask},        \* task in execution
   dispatch_disabled : BOOLEAN,
   idle : BOOLEAN]                      \* no code but the wfi loop executes

\* Every variable of the kernel has its type.
TypeOK == k \in Kernel

-----------------------------------------------------------------------------
(* ready_queue.h                                                           *)

\* The first non-empty priority at or after pos.
calc_top_priority(bitmap, pos) ==
  IF \E p \in bitmap : p >= pos
  THEN CHOOSE p \in bitmap : p >= pos /\ \A q \in bitmap : q >= pos => p <= q
  ELSE NUM_TSKPRI

ready_queue_top(s) ==
  IF s.klocktsk # NoTask THEN s.klocktsk
  ELSE IF s.top_priority = NUM_TSKPRI THEN NoTask
  ELSE Head(s.tskque[s.top_priority])

\* Mutant: the bit is only set for a task that becomes the first of all.
Enqueue_TopBit(s, t, q) ==
  LET p == s.tcb[t].priority
  IN  [s EXCEPT !.tskque[p] = q,
                !.bitmap = IF p < s.top_priority THEN @ \cup {p} ELSE @,
                !.klocktsk = IF s.tcb[t].klocked THEN t ELSE @,
                !.top_priority = IF p < @ THEN p ELSE @]

\* The part insert and insert_top share: the queue becomes q.
Enqueue(s, t, q) ==
  LET p == s.tcb[t].priority
  IN  [s EXCEPT !.tskque[p] = q,
                !.bitmap = @ \cup {p},
                !.klocktsk = IF s.tcb[t].klocked THEN t ELSE @,
                !.top_priority = IF p < @ THEN p ELSE @]

\* Mutant: the entry is linked at the head of its queue.
ready_queue_insert_AtHead(s, t) ==
  Enqueue(s, t, InsertBefore(s.tskque[s.tcb[t].priority], 1, t))

ready_queue_insert(s, t) ==
  Enqueue(s, t, QueInsert(s.tskque[s.tcb[t].priority], t))

ready_queue_insert_top(s, t) ==
  Enqueue(s, t, InsertBefore(s.tskque[s.tcb[t].priority], 1, t))

\* Mutants: the klockwait test is missing; klocktsk is not reset.
ready_queue_delete_NoKlockwait(s, t) ==
  LET p == s.tcb[t].priority
      q == QueRemove(s.tskque[p], t)
      B == IF q = << >> THEN s.bitmap \ {p} ELSE s.bitmap
  IN  [s EXCEPT !.klocktsk = IF @ = t THEN NoTask ELSE @,
                !.tskque[p] = q,
                !.bitmap = B,
                !.top_priority = calc_top_priority(B, 0)]

ready_queue_delete_KeepKlocktsk(s, t) ==
  IF s.tcb[t].klockwait
  THEN [s EXCEPT !.tcb[t].klockwait = FALSE,
                 !.lock[s.tcb[t].loc].wtskq = QueRemove(@, t)]
  ELSE [ready_queue_delete_NoKlockwait(s, t) EXCEPT !.klocktsk = s.klocktsk]

\* A task waiting for the kernel lock is READY but queued on the lock.
ready_queue_delete(s, t) ==
  LET p  == s.tcb[t].priority
      s1 == [s EXCEPT !.klocktsk = IF @ = t THEN NoTask ELSE @]
      q  == QueRemove(s.tskque[p], t)
  IN  IF s.tcb[t].klockwait
      THEN [s1 EXCEPT !.tcb[t].klockwait = FALSE,
                      !.lock[s.tcb[t].loc].wtskq = QueRemove(@, t)]
      ELSE IF q # << >>
      THEN [s1 EXCEPT !.tskque[p] = q]
      ELSE [s1 EXCEPT !.tskque[p] = q,
                      !.bitmap = @ \ {p},
                      !.top_priority =
                        IF p # @ THEN @
                        ELSE calc_top_priority(s.bitmap \ {p}, p)]

ready_queue_rotate(s, p) ==
  IF s.tskque[p] = << >> THEN s
  ELSE [s EXCEPT !.tskque[p] = QueInsert(Tail(@), Head(@))]

-----------------------------------------------------------------------------
(* task.c, task.h                                                          *)

knl_reschedule(s) == [s EXCEPT !.schedtsk = ready_queue_top(s)]

knl_make_dormant(s, t) ==
  [s EXCEPT !.tcb[t] =
     [@ EXCEPT !.state = "DORMANT", !.priority = s.tcb[t].ipriority,
               !.wupcnt = 0, !.suscnt = 0,
               !.klockwait = FALSE, !.klocked = FALSE, !.loc = NoLock]]

\* Mutant: a task of the top priority counts as a new top task.
knl_make_ready_SamePriority(s, t) ==
  LET s1 == ready_queue_insert([s EXCEPT !.tcb[t].state = "READY"], t)
  IN  IF s.tcb[t].priority <= s.top_priority
      THEN [s1 EXCEPT !.schedtsk = t]
      ELSE s1

knl_make_ready(s, t) ==
  LET s1 == ready_queue_insert([s EXCEPT !.tcb[t].state = "READY"], t)
  IN  IF s.tcb[t].priority < s.top_priority
      THEN [s1 EXCEPT !.schedtsk = t]
      ELSE s1

knl_make_non_ready(s, t) ==
  LET s1 == ready_queue_delete(s, t)
  IN  IF s.schedtsk = t THEN knl_reschedule(s1) ELSE s1

\* Neither sleeping nor delayed tasks have a chg_pri_hook.
knl_change_task_priority(s, t, p) ==
  IF s.tcb[t].state = "READY"
  THEN knl_reschedule(ready_queue_insert(
         [ready_queue_delete(s, t) EXCEPT !.tcb[t].priority = p], t))
  ELSE [s EXCEPT !.tcb[t].priority = p]

knl_rotate_ready_queue(s, p) == knl_reschedule(ready_queue_rotate(s, p))

knl_rotate_ready_queue_run(s) ==
  IF s.schedtsk = NoTask THEN s
  ELSE knl_rotate_ready_queue(s, s.top_priority)

-----------------------------------------------------------------------------
(* wait.c, wait.h                                                          *)

\* Mutant: the end of a wait forgets that the task is suspended too.
knl_make_non_wait_Suspended(s, t) == knl_make_ready(s, t)

knl_make_non_wait(s, t) ==
  IF s.tcb[t].state = "WAIT" THEN knl_make_ready(s, t)
  ELSE [s EXCEPT !.tcb[t].state = "SUSPEND"]

\* knl_timer_delete of the task's timer event.
knl_timer_delete(s, t) == [s EXCEPT !.tcb[t].wtmeb = FALSE]

knl_wait_release(s, t) == knl_make_non_wait(knl_timer_delete(s, t), t)

\* The task in execution starts to wait; tmo: the wait has a time limit.
knl_make_wait(s, wspec, tmo) ==
  LET t  == s.ctxtsk
      s1 == CASE s.tcb[t].state = "READY" ->
                   [knl_make_non_ready(s, t) EXCEPT !.tcb[t].state = "WAIT"]
              [] s.tcb[t].state = "SUSPEND" ->
                   [s EXCEPT !.tcb[t].state = "WAITSUS"]
              [] OTHER -> s
  IN  [s1 EXCEPT !.tcb[t] = [@ EXCEPT !.wspec = wspec, !.wtmeb = tmo]]

-----------------------------------------------------------------------------
(* Dispatching: cpu_status.h, cpu_cntl.c                                   *)

\* End of a critical section of the task in execution: knl_dispatch raises
\* the software interrupt, or waits in its wfi loop while no task is ready.
END_CRITICAL_SECTION(s) ==
  IF s.ctxtsk = s.schedtsk \/ s.dispatch_disabled THEN s
  ELSE IF s.schedtsk = NoTask THEN [s EXCEPT !.idle = TRUE]
  ELSE [s EXCEPT !.ctxtsk = s.schedtsk]

\* Exit of the outermost interrupt: switch, unless no task is ready; the
\* wfi loop of knl_dispatch ends as soon as there is one.
rtos_int_exit(s) ==
  IF s.dispatch_disabled \/ s.schedtsk = NoTask THEN s
  ELSE [s EXCEPT !.ctxtsk = s.schedtsk, !.idle = FALSE]

\* Give up the context of the task in execution for good.
knl_force_dispatch(s) ==
  LET s1 == [s EXCEPT !.ctxtsk = NoTask, !.dispatch_disabled = FALSE]
  IN  IF s.schedtsk = NoTask THEN [s1 EXCEPT !.idle = TRUE]
      ELSE rtos_int_exit(s1)

\* Code of the task in execution is running, outside the kernel lock.
InTask == k.ctxtsk # NoTask /\ ~k.idle /\ k.tcb[k.ctxtsk].loc = NoLock

\* A call of the task in execution, and of a task or an interrupt handler.
TaskCall(s) == InTask /\ k' = END_CRITICAL_SECTION(s)
Call(s)     == TaskCall(s) \/ k' = rtos_int_exit(s)

\* CHECK_DISPATCH: the call may block.
MayBlock == InTask /\ ~k.dispatch_disabled

-----------------------------------------------------------------------------
(* task_manage.c                                                           *)

\* Any free control block may be the first of knl_free_tcb.
tk_cre_tsk(t, pri) ==
  /\ k.tcb[t].state = "NONEXIST"
  /\ Call(knl_make_dormant([k EXCEPT !.tcb[t].ipriority = pri], t))

\* The fields of a free control block are not read before tk_cre_tsk sets them.
knl_del_tsk(s, t) == [s EXCEPT !.tcb[t] = NoTCB]

tk_del_tsk(t) ==
  /\ k.tcb[t].state = "DORMANT"
  /\ Call(knl_del_tsk(k, t))

tk_sta_tsk(t) ==
  /\ k.tcb[t].state = "DORMANT"
  /\ Call(knl_make_ready(k, t))

\* Mutant: a task that is stopped while it waits keeps its timer event.
knl_ter_tsk_KeepTimer(s, t) ==
  IF s.tcb[t].state = "READY" THEN knl_make_non_ready(s, t) ELSE s

\* The tasks of this module own no mutex.
knl_ter_tsk(s, t) ==
  CASE s.tcb[t].state = "READY"   -> knl_make_non_ready(s, t)
    [] s.tcb[t].state \in Waiting -> knl_timer_delete(s, t)
    [] OTHER                      -> s

tk_ext_tsk ==
  LET t == k.ctxtsk
  IN  /\ InTask
      /\ k' = knl_force_dispatch(knl_make_dormant(knl_ter_tsk(k, t), t))

tk_exd_tsk ==
  LET t == k.ctxtsk
  IN  /\ InTask
      /\ k' = knl_force_dispatch(knl_del_tsk(knl_ter_tsk(k, t), t))

\* CHK_SELF is 0: the code does not refuse the task in execution.
tk_ter_tsk(t) ==
  /\ k.tcb[t].state \in knl_task_alive
  /\ ~k.tcb[t].klocked
  /\ t = k.ctxtsk => TerRunning
  /\ Call(knl_make_dormant(knl_ter_tsk(k, t), t))

tk_chg_pri(t, pri) ==
  /\ k.tcb[t].state # "NONEXIST"
  /\ Call(knl_change_task_priority(k, t, pri))

\* TPRI_RUN rotates the caller's priority in a task, the running priority
\* in a handler; an explicit priority works in both.
tk_rot_rdq ==
  \/ \E pri \in Pri : Call(knl_rotate_ready_queue(k, pri))
  \/ InTask /\ TaskCall(knl_rotate_ready_queue(k, k.tcb[k.ctxtsk].priority))
  \/ k' = rtos_int_exit(knl_rotate_ready_queue_run(k))

\* A reference call, or any call that returns an error: it changes nothing
\* but ends its critical section.
tk_ref_tsk == TaskCall(k)

tk_rel_wai(t) ==
  /\ k.tcb[t].state \in Waiting
  /\ Call(knl_wait_release(k, t))

-----------------------------------------------------------------------------
(* task_sync.c                                                             *)

tk_sus_tsk(t) ==
  LET s1 == [k EXCEPT !.tcb[t].suscnt = @ + 1]
      s2 == CASE k.tcb[t].state = "READY" ->
                   [knl_make_non_ready(s1, t) EXCEPT !.tcb[t].state = "SUSPEND"]
              [] k.tcb[t].state = "WAIT" ->
                   [s1 EXCEPT !.tcb[t].state = "WAITSUS"]
              [] OTHER -> s1
  IN  /\ k.tcb[t].state \in knl_task_alive
      /\ ~(t = k.ctxtsk /\ k.dispatch_disabled)
      /\ k.tcb[t].suscnt < INT_MAX
      /\ \/ TaskCall(s2)
         \/ /\ IsrSus \/ k.idle \/ t # k.ctxtsk \/ s2.schedtsk # NoTask
            /\ k' = rtos_int_exit(s2)

\* What tk_rsm_tsk and tk_frsm_tsk do once the nesting count is zero.
Resume(s, t) ==
  IF s.tcb[t].state = "SUSPEND" THEN knl_make_ready(s, t)
  ELSE [s EXCEPT !.tcb[t].state = "WAIT"]

tk_rsm_tsk(t) ==
  LET s1 == [k EXCEPT !.tcb[t].suscnt = @ - 1]
  IN  /\ k.tcb[t].state \in {"SUSPEND", "WAITSUS"}
      /\ Call(IF s1.tcb[t].suscnt = 0 THEN Resume(s1, t) ELSE s1)

tk_frsm_tsk(t) ==
  /\ k.tcb[t].state \in {"SUSPEND", "WAITSUS"}
  /\ Call(Resume([k EXCEPT !.tcb[t].suscnt = 0], t))

tk_slp_tsk(tmo) ==
  LET t == k.ctxtsk
  IN  /\ MayBlock
      /\ TaskCall(IF k.tcb[t].wupcnt > 0
                  THEN [k EXCEPT !.tcb[t].wupcnt = @ - 1]
                  ELSE knl_make_wait(k, "SLP", tmo))

\* Mutants: the wake-up of a suspended sleeping task is counted; the counter
\* has no limit.
tk_wup_tsk_OnlyWait(t) ==
  /\ k.tcb[t].state \in knl_task_alive
  /\ IF k.tcb[t].state = "WAIT" /\ k.tcb[t].wspec = "SLP"
     THEN Call(knl_wait_release(k, t))
     ELSE /\ k.tcb[t].wupcnt < INT_MAX
          /\ Call([k EXCEPT !.tcb[t].wupcnt = @ + 1])

tk_wup_tsk_NoLimit(t) ==
  /\ k.tcb[t].state \in knl_task_alive
  /\ IF k.tcb[t].state \in Waiting /\ k.tcb[t].wspec = "SLP"
     THEN Call(knl_wait_release(k, t))
     ELSE /\ k.tcb[t].wupcnt < INT_MAX + 1
          /\ Call([k EXCEPT !.tcb[t].wupcnt = @ + 1])

tk_wup_tsk(t) ==
  /\ k.tcb[t].state \in knl_task_alive
  /\ IF k.tcb[t].state \in Waiting /\ k.tcb[t].wspec = "SLP"
     THEN Call(knl_wait_release(k, t))
     ELSE /\ k.tcb[t].wupcnt < INT_MAX
          /\ Call([k EXCEPT !.tcb[t].wupcnt = @ + 1])

tk_can_wup(t) ==
  /\ k.tcb[t].state \notin {"NONEXIST", "DORMANT"}
  /\ Call([k EXCEPT !.tcb[t].wupcnt = 0])

tk_dly_tsk == MayBlock /\ TaskCall(knl_make_wait(k, "DLY", TRUE))

\* The timer handler runs the callback of an expired timer event, which it
\* has taken out of the timer queue.
knl_wait_release_tmout(t) ==
  /\ k.tcb[t].wtmeb
  /\ k' = rtos_int_exit(knl_make_non_wait(knl_timer_delete(k, t), t))

-----------------------------------------------------------------------------
(* cpuctl.c                                                                *)

tk_dis_dsp == InTask /\ k' = [k EXCEPT !.dispatch_disabled = TRUE]

\* Mutant: the dispatch put off while dispatching was disabled is forgotten.
tk_ena_dsp_NoDispatch == InTask /\ k' = [k EXCEPT !.dispatch_disabled = FALSE]

tk_ena_dsp == TaskCall([k EXCEPT !.dispatch_disabled = FALSE])

-----------------------------------------------------------------------------
(* klock.c                                                                 *)

\* One turn of the retry loop: the first, or the one after the task left
\* the lock's queue without the lock.
knl_LockOBJ(l) ==
  LET t  == k.ctxtsk
      s1 == [k EXCEPT !.tcb[t].loc = l]
  IN  /\ t # NoTask /\ ~k.idle /\ ~k.dispatch_disabled
      /\ k.tcb[t].loc \in {NoLock, l} /\ ~k.tcb[t].klocked
      /\ k' = END_CRITICAL_SECTION(
           IF ~k.lock[l].held
           THEN [s1 EXCEPT !.lock[l].held = TRUE,
                           !.tcb[t] = [@ EXCEPT !.klocked = TRUE],
                           !.klocktsk = t]
           ELSE knl_reschedule(
             [ready_queue_delete(s1, t) EXCEPT
                !.tcb[t].klockwait = TRUE,
                !.lock[l].wtskq = QueInsert(@, t)]))

knl_UnlockOBJ ==
  LET t  == k.ctxtsk
      l  == k.tcb[t].loc
      s1 == [k EXCEPT !.tcb[t] = [@ EXCEPT !.klocked = FALSE, !.loc = NoLock],
                      !.klocktsk = NoTask]
      u  == Head(k.lock[l].wtskq)
  IN  /\ t # NoTask /\ ~k.idle /\ k.tcb[t].klocked
      /\ k' = END_CRITICAL_SECTION(knl_reschedule(
           IF k.lock[l].wtskq = << >>
           THEN [s1 EXCEPT !.lock[l].held = FALSE]
           ELSE ready_queue_insert_top(
             [s1 EXCEPT !.lock[l].wtskq = Tail(@),
                        !.tcb[u] = [@ EXCEPT !.klockwait = FALSE, !.klocked = TRUE]],
             u)))

-----------------------------------------------------------------------------

\* knl_task_initialize.
knl_task_initialize ==
  [tcb |-> [t \in Tasks |-> NoTCB],
   tskque |-> [p \in Pri |-> << >>], bitmap |-> {},
   top_priority |-> NUM_TSKPRI, klocktsk |-> NoTask,
   lock |-> [l \in Locks |-> [held |-> FALSE, wtskq |-> << >>]],
   schedtsk |-> NoTask, ctxtsk |-> NoTask,
   dispatch_disabled |-> FALSE, idle |-> FALSE]

\* The kernel's main function creates and starts the initial task and
\* dispatches it.
Init ==
  \E t \in Tasks, pri \in Pri :
    k = knl_force_dispatch(knl_make_ready(knl_make_dormant(
          [knl_task_initialize EXCEPT !.tcb[t].ipriority = pri], t), t))

Next ==
  \/ \E t \in Tasks : \/ \E pri \in IniPri : tk_cre_tsk(t, pri)
                      \/ tk_del_tsk(t)
                      \/ tk_sta_tsk(t)
                      \/ tk_ter_tsk(t)
                      \/ \E pri \in Pri : tk_chg_pri(t, pri)
                      \/ tk_rel_wai(t)
                      \/ tk_sus_tsk(t)
                      \/ tk_rsm_tsk(t)
                      \/ tk_frsm_tsk(t)
                      \/ tk_wup_tsk(t)
                      \/ tk_can_wup(t)
                      \/ knl_wait_release_tmout(t)
  \/ tk_ext_tsk
  \/ tk_exd_tsk
  \/ tk_rot_rdq
  \/ tk_ref_tsk
  \/ \E tmo \in BOOLEAN : tk_slp_tsk(tmo)
  \/ tk_dly_tsk
  \/ tk_dis_dsp
  \/ tk_ena_dsp
  \/ \E l \in Locks : knl_LockOBJ(l)
  \/ knl_UnlockOBJ

Spec == Init /\ [][Next]_k

-----------------------------------------------------------------------------
(* Properties                                                              *)

\* The ready queue of a priority holds exactly the READY tasks of that
\* priority, each once, apart from those parked on a kernel lock; the bitmap
\* and top_priority, which ready_queue_insert and ready_queue_delete maintain
\* incrementally, agree with the queues.
ReadyQueueExact ==
  /\ \A p \in Pri :
       /\ Injective(k.tskque[p])
       /\ \A t \in Tasks : t \in Elems(k.tskque[p]) <=>
            /\ k.tcb[t].state = "READY"
            /\ ~k.tcb[t].klockwait
            /\ k.tcb[t].priority = p
  /\ \A p \in Pri : p \in k.bitmap <=> k.tskque[p] # << >>
  /\ \A p \in k.bitmap : k.top_priority <= p
  /\ k.top_priority \in k.bitmap \cup {NUM_TSKPRI}

\* knl_schedtsk is the first task of the highest non-empty priority, although
\* knl_make_ready and knl_make_non_ready update it without a full search; a
\* READY holder of a kernel lock is the only other task it may name.  The code
\* does not choose between these two by a rule: a task that becomes ready above
\* the holder runs at once, and the next reschedule returns to the holder.
SchedTop ==
  \/ k.schedtsk = IF k.top_priority = NUM_TSKPRI THEN NoTask
                  ELSE Head(k.tskque[k.top_priority])
  \/ /\ k.schedtsk # NoTask
     /\ k.tcb[k.schedtsk].state = "READY"
     /\ k.tcb[k.schedtsk].klocked

\* What klock.c says of the kernel lock, "Locked task is the highest run
\* priority", and ready_queue.h of its top, "If there is a task at kernel lock,
\* that is the highest priority task": a READY holder is the scheduled task.
LockHolderFirst == k.klocktsk # NoTask => k.schedtsk = k.klocktsk

\* No dispatch is forgotten: with dispatching enabled the task in execution
\* is the scheduled one, or no task is READY, on every path through the end of
\* a critical section, the exit of an interrupt and knl_force_dispatch.
NoMissedDispatch ==
  ~k.dispatch_disabled =>
    /\ k.schedtsk # NoTask => k.ctxtsk = k.schedtsk
    /\ k.idle => k.schedtsk = NoTask

\* A kernel lock in use belongs to exactly one task, which is neither waiting
\* nor terminated, and the tasks queued on it are the READY ones parked in
\* knl_LockOBJ, whatever suspends, terminates or re-prioritises them meanwhile.
LocksExact ==
  /\ \A l \in Locks :
       /\ Injective(k.lock[l].wtskq)
       /\ \A t \in Tasks : t \in Elems(k.lock[l].wtskq) <=>
            k.tcb[t].klockwait /\ k.tcb[t].loc = l
       /\ k.lock[l].held <=> \E t \in Tasks : k.tcb[t].klocked /\ k.tcb[t].loc = l
       /\ ~k.lock[l].held => k.lock[l].wtskq = << >>
  /\ \A t \in Tasks :
       /\ k.tcb[t].klockwait => /\ k.tcb[t].state = "READY"
                                /\ ~k.tcb[t].klocked
                                /\ k.tcb[t].loc # NoLock
       /\ k.tcb[t].klocked => /\ k.tcb[t].state \in {"READY", "SUSPEND"}
                              /\ k.tcb[t].loc # NoLock
       /\ \A u \in Tasks :
            (k.tcb[t].klocked /\ k.tcb[u].klocked /\ k.tcb[t].loc = k.tcb[u].loc)
              => t = u

\* The kernel-locked task the ready queue favours is READY and holds a lock.
KlocktskReady ==
  k.klocktsk # NoTask => /\ k.tcb[k.klocktsk].state = "READY"
                         /\ k.tcb[k.klocktsk].klocked

\* What the reference and debug calls report of a task; "-" is no wait.
td_lst_tsk == {t \in Tasks : k.tcb[t].state # "NONEXIST"}

td_ref_tsk(t) ==
  LET b == k.tcb[t]
  IN  [tskstat |-> IF b.state = "READY" /\ t = k.ctxtsk THEN "RUN" ELSE b.state,
       tskwait |-> IF b.state \in Waiting THEN b.wspec ELSE "-",
       tskpri |-> b.priority, wupcnt |-> b.wupcnt, suscnt |-> b.suscnt]

\* A task is suspended exactly as long as its nesting count says, through
\* every mix of suspension with waits, releases, timeouts and termination.
SuspendNesting ==
  \A t \in td_lst_tsk :
    (k.tcb[t].suscnt > 0 <=> k.tcb[t].state \in {"SUSPEND", "WAITSUS"})

\* No wake-up request is lost: a task never sleeps in tk_slp_tsk while a
\* request for it is queued.
NoLostWakeup ==
  \A t \in Tasks :
    td_ref_tsk(t).tskwait = "SLP" => td_ref_tsk(t).wupcnt = 0

\* A timeout cannot race a release: the timer event of a task that no longer
\* waits is out of the timer queue (knl_wait_release_tmout does not look at
\* the state again), and a delayed task always has one.
TimerMatchesWait ==
  \A t \in Tasks :
    /\ k.tcb[t].wtmeb => k.tcb[t].state \in Waiting
    /\ td_ref_tsk(t).tskwait = "DLY" => k.tcb[t].wtmeb

\* Tasks of one priority run first come, first served: in a step that leaves
\* two tasks in the same ready queue, one overtakes the other only when the
\* overtaken one is moved to the end (rotation, or a priority set again).
Before(q, a, b) == \E i, j \in DOMAIN q : i < j /\ q[i] = a /\ q[j] = b

FifoStep ==
  \A p \in Pri : k'.tskque[p] # k.tskque[p] =>
    \A a, b \in Tasks :
      Before(k.tskque[p], a, b) /\ Before(k'.tskque[p], b, a)
        => a = k'.tskque[p][Len(k'.tskque[p])]

FifoOrder == [][FifoStep]_k

\* What task.h says of knl_make_non_ready: it makes the task "non-executable";
\* a task whose code executes is READY.
RunningExecutable ==
  ~k.idle /\ k.ctxtsk # NoTask => td_ref_tsk(k.ctxtsk).tskstat = "RUN"
=============================================================================

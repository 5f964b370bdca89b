-------------------------------- MODULE Mutex --------------------------------
(***************************************************************************)
(* Mutexes with priority inheritance and priority ceilings: mutex.c, and   *)
(* what task.c and task_manage.c do with the priorities of their holders.  *)
(* A change of priority travels along the chain of holders: the holder of  *)
(* the mutex a task waits for may itself wait for another one.             *)
(***************************************************************************)
EXTENDS Wait, FiniteSetsExt

CONSTANTS
  NULL,         \* mtxtsk of a free mutex, wid of a task that does not wait
  Attributes,   \* the attributes tk_cre_mtx is called with
  AllowCycle    \* tasks may wait for each other in a circle

VARIABLE k      \* tasks and mutexes, a member of Kernel

TCB == [state : {"READY", "WAIT", "DORMANT"},
        priority : Pri, bpriority : Pri,   \* current and base priority
        mtxlist : SUBSET Objects,          \* the mutexes the task has locked
        wid : Objects \cup {NULL}, wercd : Error]

MTXCB == [objid : BOOLEAN, mtxatr : Attributes, ceilpri : Pri,
          mtxtsk : Tasks \cup {NULL}, wait_queue : Seq(Tasks)]

Kernel == [tcb : [Tasks -> TCB], gcb : [Objects -> MTXCB]]

\* What a call returned is not read again once its task goes on.
Fresh(s) ==
  FoldSet(LAMBDA t, r :
            IF r.tcb[t].state = "WAIT" THEN r
            ELSE [r EXCEPT !.tcb[t] = [@ EXCEPT !.wercd = "E_OK", !.wid = NULL]],
          s, Tasks)

\* A control block that is not in use, and what its fields are not read for.
FreeMutex == [objid |-> FALSE, mtxatr |-> CHOOSE a \in Attributes : TRUE,
              ceilpri |-> 0, mtxtsk |-> NULL, wait_queue |-> << >>]

\* Bound: every task is created with the lowest priority.
ipriority == NUM_TSKPRI - 1

-----------------------------------------------------------------------------
(* Priorities                                                              *)

mtx_waited(s, m) == s.gcb[m].wait_queue # << >>

mtx_head_pri(s, m) == s.tcb[Head(s.gcb[m].wait_queue)].priority

\* The priorities that mutex m lends to its holder: one or none.
Lent(s, m) ==
  CASE s.gcb[m].mtxatr = "CEILING" -> {s.gcb[m].ceilpri}
    [] s.gcb[m].mtxatr = "INHERIT" /\ mtx_waited(s, m) -> {mtx_head_pri(s, m)}
    [] OTHER -> {}

\* The highest priority among pri and those the mutexes in held lend.
Highest(s, pri, held) == Min({pri} \cup UNION {Lent(s, m) : m \in held})

\* A state, and the change of a priority that is still to be made in it: none,
\* or of task tsk to pri.
Change == [s : Kernel, tsk : Tasks \cup {NULL}, pri : Pri]

Done(s) == [s |-> s, tsk |-> NULL, pri |-> 0]

\* The priority of task t, which gave up a mutex or lost a waiter, is due to
\* be set again.
reset_priority(s, t) ==
  LET newpri == Highest(s, s.tcb[t].bpriority, s.tcb[t].mtxlist)
  IN  IF newpri = s.tcb[t].priority THEN Done(s)
      ELSE [s |-> s, tsk |-> t, pri |-> newpri]

\* Mutant: the holder is only raised, never lowered again.
mtx_chg_pri_Raise(s, t, oldpri) ==
  LET m == s.tcb[t].wid
      h == s.gcb[m].mtxtsk
      q == knl_gcb_change_priority(s, t)
  IN  IF s.gcb[m].mtxatr = "INHERIT" /\ s.tcb[h].priority > s.tcb[t].priority
      THEN [s |-> q, tsk |-> h, pri |-> s.tcb[t].priority] ELSE Done(q)

\* The hook of a waiter whose priority changed; every attribute but TFIFO.  It
\* may ask for a change of the holder's.
mtx_chg_pri(s, t, oldpri) ==
  LET m == s.tcb[t].wid
      h == s.gcb[m].mtxtsk
      q == knl_gcb_change_priority(s, t)
  IN  IF s.gcb[m].mtxatr # "INHERIT" THEN Done(q)
      ELSE IF s.tcb[h].priority > s.tcb[t].priority
      THEN [s |-> q, tsk |-> h, pri |-> s.tcb[t].priority]
      ELSE IF s.tcb[h].priority = oldpri THEN reset_priority(q, h)
      ELSE Done(q)

\* One change; a task that does not wait only moves within the ready queue.
ChangeOne(c) ==
  LET s1 == [c.s EXCEPT !.tcb[c.tsk].priority = c.pri]
      t  == c.s.tcb[c.tsk]
  IN  IF t.state = "WAIT" /\ c.s.gcb[t.wid].mtxatr # "TFIFO"
      THEN mtx_chg_pri(s1, c.tsk, t.priority) ELSE Done(s1)

\* The recursion of knl_change_task_priority and the hook along the holders.
Settle[c \in Change] == IF c.tsk = NULL THEN c.s ELSE Settle[ChangeOne(c)]

knl_change_task_priority(s, t, pri) == Settle[[s |-> s, tsk |-> t, pri |-> pri]]

\* Task t gives up mutex m.
knl_release_mutex(s, t, m) ==
  Settle[reset_priority([s EXCEPT !.tcb[t].mtxlist = @ \ {m}], t)]

\* The hook of a waiter that gave up; TA_INHERIT only.
mtx_rel_wai(s, t) ==
  LET m == s.tcb[t].wid
      h == s.gcb[m].mtxtsk
  IN  IF s.gcb[m].mtxatr = "INHERIT" /\ s.tcb[h].priority = s.tcb[t].priority
      THEN Settle[reset_priority(s, h)] ELSE s

-----------------------------------------------------------------------------
(* The system calls                                                        *)

tk_cre_mtx(m, atr, ceilpri) ==
  /\ ~k.gcb[m].objid
  /\ atr # "CEILING" => ceilpri = 0
  /\ k' = [Fresh(k) EXCEPT !.gcb[m] =
             [objid |-> TRUE, mtxatr |-> atr, ceilpri |-> ceilpri,
              mtxtsk |-> NULL, wait_queue |-> << >>]]

\* Task t gets mutex m; a ceiling raises its priority.
Lock(s, m, t) ==
  LET s1 == [s EXCEPT !.gcb[m].mtxtsk = t, !.tcb[t].mtxlist = @ \cup {m}]
  IN  IF s.gcb[m].mtxatr = "CEILING" /\ s.tcb[t].priority > s.gcb[m].ceilpri
      THEN knl_change_task_priority(s1, t, s.gcb[m].ceilpri) ELSE s1

\* Mutant: the mutex goes to the last of the queue.
Pass_Last(s, m) ==
  LET q == s.gcb[m].wait_queue
  IN  IF q = << >> THEN [s EXCEPT !.gcb[m].mtxtsk = NULL]
      ELSE Lock(knl_wait_release_ok(s, q[Len(q)]), m, q[Len(q)])

\* A mutex that was given up goes to the first waiter, if there is one.
Pass(s, m) ==
  IF mtx_waited(s, m)
  THEN LET t == Head(s.gcb[m].wait_queue) IN Lock(knl_wait_release_ok(s, t), m, t)
  ELSE [s EXCEPT !.gcb[m].mtxtsk = NULL]

tk_del_mtx(m) ==
  LET s == IF k.gcb[m].mtxtsk = NULL THEN Fresh(k)
           ELSE knl_release_mutex(Fresh(k), k.gcb[m].mtxtsk, m)
  IN  /\ k.gcb[m].objid
      /\ k' = [knl_wait_delete(s, m) EXCEPT !.gcb[m] = FreeMutex]

\* The holder of m waits, directly or through others, for task t.
WaitsFor(m, t) ==
  LET via[n \in Nat, x \in Objects] ==
        LET h == k.gcb[x].mtxtsk
        IN  /\ h # NULL
            /\ \/ h = t
               \/ n > 0 /\ k.tcb[h].state = "WAIT" /\ via[n - 1, k.tcb[h].wid]
  IN  via[Cardinality(Tasks), m]

\* Polling changes nothing and is left out.
tk_loc_mtx(t, m) ==
  LET g == k.gcb[m]
      h == g.mtxtsk
      s == IF g.mtxatr = "INHERIT" /\ k.tcb[h].priority > k.tcb[t].priority
           THEN knl_change_task_priority(Fresh(k), h, k.tcb[t].priority) ELSE Fresh(k)
  IN  /\ k.tcb[t].state = "READY"
      /\ g.objid /\ h # t
      /\ g.mtxatr = "CEILING" => k.tcb[t].bpriority >= g.ceilpri
      /\ \/ h = NULL /\ k' = Lock(Fresh(k), m, t)
         \/ /\ h # NULL
            /\ (~AllowCycle) => ~WaitsFor(m, t)
            /\ k' = [s EXCEPT
                       !.gcb[m].wait_queue = QueueFor(s, @, t, g.mtxatr # "TFIFO"),
                       !.tcb[t] = [@ EXCEPT !.state = "WAIT", !.wid = m,
                                            !.wercd = "E_TMOUT"]]

tk_unl_mtx(t, m) ==
  /\ k.tcb[t].state = "READY"
  /\ k.gcb[m].objid /\ k.gcb[m].mtxtsk = t
  /\ k' = Pass(knl_release_mutex(Fresh(k), t, m), m)

-----------------------------------------------------------------------------
(* wait.c, task_manage.c                                                   *)

\* knl_wait_release_tmout, and tk_rel_wai through knl_wait_release_ng.
knl_wait_release_ng(t, ercd) ==
  /\ k.tcb[t].state = "WAIT"
  /\ k' = mtx_rel_wai(knl_wait_release(Fresh(k), t, ercd), t)

\* The mutexes of a task that ends are passed on one after the other.
knl_signal_all_mutex(s, t) ==
  FoldSet(LAMBDA m, r : Pass(r, m), s, s.tcb[t].mtxlist)

\* The hook of a terminated waiter runs while its state is still TS_WAIT.
knl_ter_tsk(s, t) ==
  knl_signal_all_mutex(
    IF s.tcb[t].state = "WAIT"
    THEN mtx_rel_wai([s EXCEPT !.gcb[s.tcb[t].wid].wait_queue = QueRemove(@, t)], t)
    ELSE s, t)

\* tk_ter_tsk and, for a READY task, tk_ext_tsk.
tk_ter_tsk(t) ==
  /\ k.tcb[t].state # "DORMANT"
  /\ k' = [knl_ter_tsk(Fresh(k), t) EXCEPT
             !.tcb[t] = [state |-> "DORMANT", priority |-> ipriority,
                         bpriority |-> ipriority, mtxlist |-> {}, wid |-> NULL,
                         wercd |-> "E_OK"]]

tk_sta_tsk(t) ==
  /\ k.tcb[t].state = "DORMANT"
  /\ k' = [Fresh(k) EXCEPT !.tcb[t].state = "READY"]

\* The ceiling mutexes that task t holds or waits for.
Ceilings(s, t) ==
  {m \in s.tcb[t].mtxlist \cup {o \in Objects : t \in Waiters(s, o)} :
     s.gcb[m].mtxatr = "CEILING"}

\* E_ILUSE: a priority above the ceiling of a mutex is refused.
knl_chg_pri_mutex(s, t, pri) == \A m \in Ceilings(s, t) : pri >= s.gcb[m].ceilpri

tk_chg_pri(t, pri) ==
  /\ knl_chg_pri_mutex(k, t, pri)
  /\ k' = knl_change_task_priority([Fresh(k) EXCEPT !.tcb[t].bpriority = pri], t,
                                   Highest(k, pri, k.tcb[t].mtxlist))

-----------------------------------------------------------------------------

Init ==
  k = [tcb |-> [t \in Tasks |->
                  [state |-> "READY", priority |-> ipriority, bpriority |-> ipriority,
                   mtxlist |-> {}, wid |-> NULL, wercd |-> "E_OK"]],
       gcb |-> [m \in Objects |-> FreeMutex]]

Next ==
  \/ \E m \in Objects :
       \/ \E atr \in Attributes, pri \in Pri : tk_cre_mtx(m, atr, pri)
       \/ tk_del_mtx(m)
       \/ \E t \in Tasks : tk_loc_mtx(t, m) \/ tk_unl_mtx(t, m)
  \/ \E t \in Tasks : \/ \E e \in {"E_TMOUT", "E_RLWAI"} : knl_wait_release_ng(t, e)
                      \/ tk_ter_tsk(t)
                      \/ tk_sta_tsk(t)
                      \/ \E pri \in Pri : tk_chg_pri(t, pri)

Spec == Init /\ [][Next]_k

-----------------------------------------------------------------------------
(* Properties                                                              *)

\* What the reference and debug calls report.
td_lst_mtx == {m \in Objects : k.gcb[m].objid}
td_mtx_que(m) == k.gcb[m].wait_queue
tk_ref_mtx(m) == [htsk |-> k.gcb[m].mtxtsk, wtsk |-> knl_wait_tskid(td_mtx_que(m))]
td_ref_mtx(m) == tk_ref_mtx(m)

\* The state has its type, and a mutex is in the list of its holder and in no
\* other.
TypeOK ==
  /\ k \in Kernel
  /\ \A m \in Objects, t \in Tasks :
       m \in k.tcb[t].mtxlist <=> m \in td_lst_mtx /\ td_ref_mtx(m).htsk = t

\* The wait queues hold exactly the waiters, in priority order where the
\* attribute asks for it, also after inheritance changed the priority of a
\* waiter; nobody waits for a free mutex.
QueuesExact ==
  \A m \in Objects :
    /\ QueueExact(k, m, k.gcb[m].mtxatr # "TFIFO")
    /\ tk_ref_mtx(m).htsk = NULL => tk_ref_mtx(m).wtsk = {}

\* "Set the highest priority between listed below": the current priority of
\* every task is the highest of its base priority and what the mutexes it has
\* locked lend it.  The code maintains it by local repairs: raising on a new
\* waiter, lowering when a waiter leaves, changes, times out or is killed.
PriorityExact ==
  \A t \in Tasks :
    k.tcb[t].priority = Highest(k, k.tcb[t].bpriority, k.tcb[t].mtxlist)

\* No task holds or waits for a ceiling mutex with a base priority above the
\* ceiling, whatever tk_chg_pri is asked for meanwhile.
CeilingRespected ==
  \A t \in Tasks : \A m \in Ceilings(k, t) : k.tcb[t].bpriority >= k.gcb[m].ceilpri

\* A mutex with waiters passes to the first of them, however its holder loses
\* it, and that task, no other, returns from tk_loc_mtx with E_OK.
HandOverStep ==
  \A m \in Objects :
    LET q == k.gcb[m].wait_queue
    IN  /\ (/\ q # << >> /\ k'.gcb[m].objid
            /\ k'.gcb[m].mtxtsk # k.gcb[m].mtxtsk) => k'.gcb[m].mtxtsk = Head(q)
        /\ \A t \in Elems(q) :
             k'.tcb[t].state = "READY" /\ k'.tcb[t].wercd = "E_OK"
               <=> k'.gcb[m].mtxtsk = t

HandOver == [][HandOverStep]_k

\* What wait.h says of knl_wait_cancel, by which tk_ter_tsk ends a wait:
\* "Remove the task from the timer queue and the wait queue."
DormantUnlinked ==
  \A t \in Tasks, m \in Objects :
    k.tcb[t].state = "DORMANT" => t \notin Elems(k.gcb[m].wait_queue)
=============================================================================

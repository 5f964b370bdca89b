------------------------------ MODULE Semaphore ------------------------------
(***************************************************************************)
(* Counting semaphores: semaphore.c.  A task asks for several resources at *)
(* once; with TA_FIRST only the first of the queue is served, with TA_CNT  *)
(* any waiter whose request can be met.                                    *)
(***************************************************************************)
EXTENDS Wait, Integers, FiniteSets

CONSTANT MaxSem     \* bound: the largest maxsem and request

VARIABLE k          \* tasks and semaphores, a member of Kernel

TCB == [state : {"READY", "WAIT", "DORMANT"}, priority : Pri,
        cnt : 1 .. MaxSem,             \* winfo.sem.cnt
        wid : Objects, wercd : Error]

SEMCB == [objid : BOOLEAN, tpri : BOOLEAN,
          cnt : BOOLEAN,               \* TA_CNT
          semcnt : 0 .. MaxSem, maxsem : 1 .. MaxSem, wait_queue : Seq(Tasks)]

Kernel == [tcb : [Tasks -> TCB], gcb : [Objects -> SEMCB]]

\* What the reference and debug calls report.
td_lst_sem == {o \in Objects : k.gcb[o].objid}
td_sem_que(o) == k.gcb[o].wait_queue
tk_ref_sem(o) == [wtsk |-> knl_wait_tskid(td_sem_que(o)), semcnt |-> k.gcb[o].semcnt]
td_ref_sem(o) == tk_ref_sem(o)

\* Control blocks, counts and limits have their types; the count stays between
\* zero and the limit given to tk_cre_sem.
TypeOK ==
  /\ k \in Kernel
  /\ \A o \in td_lst_sem : td_ref_sem(o).semcnt <= k.gcb[o].maxsem

-----------------------------------------------------------------------------

tk_cre_sem(o, tpri, cnt, isemcnt, maxsem) ==
  /\ ~k.gcb[o].objid
  /\ isemcnt <= maxsem
  /\ k' = [k EXCEPT !.gcb[o] =
             [objid |-> TRUE, tpri |-> tpri, cnt |-> cnt,
              semcnt |-> isemcnt, maxsem |-> maxsem, wait_queue |-> << >>]]

\* The other fields of a free control block are not read again.
tk_del_sem(o) ==
  /\ k.gcb[o].objid
  /\ k' = [knl_wait_delete(k, o) EXCEPT
             !.gcb[o] = [@ EXCEPT !.objid = FALSE, !.semcnt = 0, !.maxsem = 1]]

\* Mutant: a request that cannot be met does not stop the scan of TA_FIRST.
ServeOne_Skip(acc, t) ==
  LET o == acc.s.tcb[t].wid
      s == acc.s
  IN  IF s.gcb[o].semcnt < s.tcb[t].cnt THEN acc
      ELSE [acc EXCEPT !.s = [knl_wait_release_ok(s, t)
                                EXCEPT !.gcb[o].semcnt = @ - s.tcb[t].cnt]]

\* One turn of the loop over the queue: serve task t if the count suffices.
ServeOne(acc, t) ==
  LET o == acc.s.tcb[t].wid
      s == acc.s
  IN  IF acc.stop THEN acc
      ELSE IF s.gcb[o].semcnt < s.tcb[t].cnt
      THEN [acc EXCEPT !.stop = ~s.gcb[o].cnt]
      ELSE [acc EXCEPT !.s = [knl_wait_release_ok(s, t)
                                EXCEPT !.gcb[o].semcnt = @ - s.tcb[t].cnt]]

\* The loop of tk_sig_sem and sem_chg_pri.
Serve(s, o) ==
  LET q == s.gcb[o].wait_queue
      after[i \in 0 .. Len(q)] ==
        IF i = 0 THEN [s |-> s, stop |-> FALSE] ELSE ServeOne(after[i - 1], q[i])
  IN  after[Len(q)].s

\* Mutant: the limit is compared with the count alone.
tk_sig_sem_Limit(o, cnt) ==
  /\ k.gcb[o].objid
  /\ k.gcb[o].semcnt < k.gcb[o].maxsem
  /\ k' = Serve([k EXCEPT !.gcb[o].semcnt = @ + cnt], o)

tk_sig_sem(o, cnt) ==
  /\ k.gcb[o].objid
  /\ cnt <= k.gcb[o].maxsem - k.gcb[o].semcnt
  /\ k' = Serve([k EXCEPT !.gcb[o].semcnt = @ + cnt], o)

\* The hook of a waiter that gave up.
sem_rel_wai(s, o) == IF s.gcb[o].cnt THEN s ELSE Serve(s, o)

\* The hook of a waiter whose priority changed; TA_TPRI only.
sem_chg_pri(s, t) == sem_rel_wai(knl_gcb_change_priority(s, t), s.tcb[t].wid)

\* pol: TMO_POL; it returns E_TMOUT instead of waiting.
tk_wai_sem(t, o, cnt, pol) ==
  /\ k.tcb[t].state = "READY"
  /\ k.gcb[o].objid
  /\ cnt <= k.gcb[o].maxsem
  /\ IF /\ k.gcb[o].cnt \/ knl_gcb_top_of_wait_queue(k, o, t) = t
        /\ k.gcb[o].semcnt >= cnt
     THEN k' = [k EXCEPT !.gcb[o].semcnt = @ - cnt, !.tcb[t].wercd = "E_OK"]
     ELSE k' = IF pol THEN [k EXCEPT !.tcb[t].wercd = "E_TMOUT"]
               ELSE knl_gcb_make_wait([k EXCEPT !.tcb[t].cnt = cnt], t, o)

-----------------------------------------------------------------------------
(* What happens to a task that waits: wait.c, task_manage.c                *)

\* knl_wait_release_tmout, and tk_rel_wai through knl_wait_release_ng.
knl_wait_release_ng(t, ercd) ==
  /\ k.tcb[t].state = "WAIT"
  /\ k' = sem_rel_wai(knl_wait_release(k, t, ercd), k.tcb[t].wid)

\* What a terminated task asked for, and what its call returned, are not read again.
tk_ter_tsk(t) ==
  LET s == IF k.tcb[t].state = "WAIT"
           THEN sem_rel_wai(knl_wait_release(k, t, "E_RLWAI"), k.tcb[t].wid) ELSE k
  IN  /\ k.tcb[t].state # "DORMANT"
      /\ k' = [s EXCEPT !.tcb[t] = [@ EXCEPT !.state = "DORMANT", !.cnt = 1, !.wercd = "E_OK"]]

tk_sta_tsk(t) ==
  /\ k.tcb[t].state = "DORMANT"
  /\ k' = [k EXCEPT !.tcb[t].state = "READY"]

\* Mutant: a waiter keeps its place in the queue.
tk_chg_pri_Stay(t, pri) == k' = [k EXCEPT !.tcb[t].priority = pri]

tk_chg_pri(t, pri) ==
  LET s == [k EXCEPT !.tcb[t].priority = pri]
  IN  k' = IF k.tcb[t].state = "WAIT" /\ k.gcb[k.tcb[t].wid].tpri
           THEN sem_chg_pri(s, t) ELSE s

-----------------------------------------------------------------------------

Init ==
  k \in [tcb : [Tasks -> [state : {"READY"}, priority : Pri, cnt : {1},
                          wid : Objects, wercd : {"E_OK"}]],
         gcb : {[o \in Objects |->
                  [objid |-> FALSE, tpri |-> FALSE, cnt |-> FALSE, semcnt |-> 0,
                   maxsem |-> 1, wait_queue |-> << >>]]}]

Next ==
  \/ \E o \in Objects :
       \/ \E tpri, cnt \in BOOLEAN, i \in 0 .. MaxSem, m \in 1 .. MaxSem :
            tk_cre_sem(o, tpri, cnt, i, m)
       \/ tk_del_sem(o)
       \/ \E n \in 1 .. MaxSem : tk_sig_sem(o, n)
       \/ \E t \in Tasks, n \in 1 .. MaxSem, pol \in BOOLEAN : tk_wai_sem(t, o, n, pol)
  \/ \E t \in Tasks : \/ \E e \in {"E_TMOUT", "E_RLWAI"} : knl_wait_release_ng(t, e)
                      \/ tk_ter_tsk(t)
                      \/ tk_sta_tsk(t)
                      \/ \E pri \in Pri : tk_chg_pri(t, pri)

Spec == Init /\ [][Next]_k

-----------------------------------------------------------------------------
(* Properties                                                              *)

\* No wake-up is lost: nobody who could be served waits.  With TA_FIRST that
\* is the first of the queue, also after the one before it gave up or moved
\* back; with TA_CNT it is every waiter.
NoServableWaiter ==
  \A o \in td_lst_sem :
    LET q == td_sem_que(o)
    IN  \A i \in DOMAIN q :
          k.gcb[o].cnt \/ i = 1 => tk_ref_sem(o).semcnt < k.tcb[q[i]].cnt

\* The tasks that a step takes out of the queue with E_OK.
Served(o) == {t \in Waiters(k, o) : k'.tcb[t].state = "READY" /\ k'.tcb[t].wercd = "E_OK"}

\* The resources that the tasks in S asked for, each a pair of a task and a number.
Asked(s, S) == {u \in S \X (1 .. MaxSem) : u[2] <= s.tcb[u[1]].cnt}

\* Resources are neither lost nor made up: what a step adds to the count and
\* hands to waiters is what tk_sig_sem returned or tk_wai_sem took, also when
\* one signal serves several waiters or a timeout makes others servable.
ConservedStep ==
  \A o \in Objects : k.gcb[o].objid /\ k'.gcb[o].objid =>
    LET d == k'.gcb[o].semcnt - k.gcb[o].semcnt + Cardinality(Asked(k, Served(o)))
    IN  \/ d = 0
        \/ d > 0 /\ tk_sig_sem(o, d)
        \/ d < 0 /\ \E t \in Tasks : tk_wai_sem(t, o, -d, FALSE)

\* With TA_FIRST nobody is served before a task ahead of it in the queue,
\* whether a signal, a timeout, a termination or a priority change serves it;
\* only a change of the priority of one of the two may reorder them.
NoOvertakingStep ==
  \A o \in Objects : k.gcb[o].objid /\ ~k.gcb[o].cnt =>
    LET q == k.gcb[o].wait_queue
    IN  \A i, j \in DOMAIN q : i < j /\ q[j] \in Served(o)
          => \/ k'.tcb[q[i]].state # "WAIT"
             \/ \E t \in {q[i], q[j]}, pri \in Pri : tk_chg_pri(t, pri)
=============================================================================

------------------------------- MODULE MemPool -------------------------------
(***************************************************************************)
(* Variable-size memory pools: mempool.c, over the areas of Area.          *)
(***************************************************************************)
EXTENDS Wait, Area

LOCAL INSTANCE FiniteSetsExt

CONSTANTS
  PoolSizes,    \* bound: the sizes of the pools, as tk_cre_mpl rounds them
  BlockSizes    \* bound: the sizes of blocks that are asked for

VARIABLE k      \* tasks, pools and blocks in use

\* blksz is WINFO_MPL: the size a task waits for.
TCB == [state : {"READY", "WAIT", "DORMANT"}, priority : Pri, wid : Objects,
        wercd : Error, blksz : Nat]

\* mem has mplsz, areaque and freeque of a pool that exists.
MPLCB == [objid : BOOLEAN, tpri : BOOLEAN, wait_queue : Seq(Tasks),
          mem : UNION {Pool(n) : n \in PoolSizes}]

\* held are the blocks the application has, with the sizes they were asked
\* for in multiples of the rounding.
TypeOK ==
  /\ k.tcb \in [Tasks -> TCB] /\ k.gcb \in [Objects -> MPLCB]
  /\ \A o \in Objects : k.held[o] \subseteq Nat \X Nat

NoPool == [objid |-> FALSE, tpri |-> FALSE, wait_queue |-> << >>,
           mem |-> InitPool(Min(PoolSizes))]

\* The last of the queues has the largest areas.
knl_MaxFreeSize(p) == IF p.freeque = << >> THEN 0 ELSE p.freeque[Len(p.freeque)].size

\* What a call returned is not read again once its task goes on.
Fresh(s) ==
  [s EXCEPT !.tcb = [t \in Tasks |-> IF @[t].state = "WAIT" THEN @[t]
                                     ELSE [@[t] EXCEPT !.wercd = "E_OK", !.blksz = 0]]]

-----------------------------------------------------------------------------

tk_cre_mpl(o, tpri, mplsz) ==
  /\ ~k.gcb[o].objid
  /\ k' = [Fresh(k) EXCEPT !.gcb[o] = [objid |-> TRUE, tpri |-> tpri, wait_queue |-> << >>,
                                mem |-> InitPool(mplsz)]]

tk_del_mpl(o) ==
  /\ k.gcb[o].objid
  /\ k' = [knl_wait_delete(Fresh(k), o) EXCEPT !.gcb[o] = NoPool, !.held[o] = {}]

\* The position of the queue a block comes from, past the end if there is none.
Found(s, o, blksz) == knl_searchFreeArea(s.gcb[o].mem, blksz)

knl_get_blk(s, o, blksz) ==
  LET p == s.gcb[o].mem
      i == Found(s, o, blksz)
  IN  [s EXCEPT !.gcb[o].mem = TakeArea(p, i, blksz),
                !.held[o] = @ \cup {<<Head(p.freeque[i].same), blksz>>}]

\* The first waiter gets its block if there is one.
WakeOne(s, o) ==
  LET q == s.gcb[o].wait_queue
      blksz == s.tcb[Head(q)].blksz
  IN  IF q = << >> \/ blksz > knl_MaxFreeSize(s.gcb[o].mem) THEN s
      ELSE knl_wait_release_ok(knl_get_blk(s, o, blksz), Head(q))

\* The loop ends at the first waiter that cannot be served.
knl_mpl_wakeup(s, o) ==
  LET round[n \in Nat] == IF n = 0 THEN s ELSE WakeOne(round[n - 1], o)
  IN  round[Len(s.gcb[o].wait_queue)]

\* A block larger than the pool is an error.
tk_get_mpl(t, o, size, pol) ==
  LET blksz == roundSize(size)
  IN  /\ k.tcb[t].state = "READY"
      /\ k.gcb[o].objid
      /\ blksz <= k.gcb[o].mem.memsz
      /\ k' = IF /\ knl_gcb_top_of_wait_queue(k, o, t) = t
                 /\ Found(k, o, blksz) <= Len(k.gcb[o].mem.freeque)
              THEN knl_get_blk(Fresh(k), o, blksz)
              ELSE IF pol THEN Fresh(k)
              ELSE knl_gcb_make_wait([Fresh(k) EXCEPT !.tcb[t].blksz = blksz], t, o)

knl_rel_blk(s, o, h) ==
  [s EXCEPT !.gcb[o].mem = FreeArea(@, h[1]), !.held[o] = @ \ {h}]

tk_rel_mpl(o, h) ==
  /\ k.gcb[o].objid /\ h \in k.held[o]
  /\ k' = knl_mpl_wakeup(knl_rel_blk(Fresh(k), o, h), o)

-----------------------------------------------------------------------------
(* What happens to a task that waits: wait.c, task_manage.c                *)

mpl_rel_wai(s, t) == knl_mpl_wakeup(s, s.tcb[t].wid)

mpl_chg_pri(s, t) == knl_mpl_wakeup(knl_gcb_change_priority(s, t), s.tcb[t].wid)

knl_wait_release_ng(t, ercd) ==
  /\ k.tcb[t].state = "WAIT"
  /\ k' = mpl_rel_wai(knl_wait_release(Fresh(k), t, ercd), t)

tk_ter_tsk(t) ==
  LET s == IF k.tcb[t].state = "WAIT"
           THEN mpl_rel_wai(knl_wait_release(Fresh(k), t, "E_RLWAI"), t) ELSE Fresh(k)
  IN  /\ k.tcb[t].state # "DORMANT"
      /\ k' = Fresh([s EXCEPT !.tcb[t].state = "DORMANT"])

tk_sta_tsk(t) ==
  /\ k.tcb[t].state = "DORMANT"
  /\ k' = [Fresh(k) EXCEPT !.tcb[t].state = "READY"]

tk_chg_pri(t, pri) ==
  LET s == [Fresh(k) EXCEPT !.tcb[t].priority = pri]
  IN  k' = IF k.tcb[t].state = "WAIT" /\ k.gcb[k.tcb[t].wid].tpri
           THEN mpl_chg_pri(s, t) ELSE s

-----------------------------------------------------------------------------

Init ==
  k \in [tcb : [Tasks -> [state : {"READY"}, priority : Pri, wid : Objects,
                          wercd : {"E_OK"}, blksz : {0}]],
         gcb : {[o \in Objects |-> NoPool]},
         held : {[o \in Objects |-> {}]}]

Next ==
  \/ \E o \in Objects :
       \/ \E tpri \in BOOLEAN, n \in PoolSizes : tk_cre_mpl(o, tpri, n)
       \/ tk_del_mpl(o)
       \/ \E t \in Tasks, size \in BlockSizes, pol \in BOOLEAN : tk_get_mpl(t, o, size, pol)
       \/ \E h \in k.held[o] : tk_rel_mpl(o, h)
  \/ \E t \in Tasks : \/ \E e \in {"E_TMOUT", "E_RLWAI"} : knl_wait_release_ng(t, e)
                      \/ tk_ter_tsk(t)
                      \/ tk_sta_tsk(t)
                      \/ \E pri \in Pri : tk_chg_pri(t, pri)

Spec == Init /\ [][Next]_k

-----------------------------------------------------------------------------
(* Properties                                                              *)

\* What the reference and debug calls report of a pool.
td_lst_mpl == {o \in Objects : k.gcb[o].objid}
td_mpl_que(o) == k.gcb[o].wait_queue
tk_ref_mpl(o) ==
  LET fq == k.gcb[o].mem.freeque
  IN  [wtsk |-> knl_wait_tskid(td_mpl_que(o)),
       frsz |-> MapThenSumSet(LAMBDA i : fq[i].size * Len(fq[i].same), DOMAIN fq),
       maxsz |-> knl_MaxFreeSize(k.gcb[o].mem)]
td_ref_mpl(o) == tk_ref_mpl(o)

\* The areas of a pool agree with the blocks the application has, and the free
\* size that is reported is what these and the headers leave of the pool.
AreasExact ==
  \A o \in Objects :
    LET p == k.gcb[o].mem
    IN  /\ AreasConsistent(p, k.held[o])
        /\ tk_ref_mpl(o).frsz = p.memsz - QUEUESZ * (Cardinality(p.areaque) - 1)
                                - MapThenSumSet(LAMBDA a : AreaSize(p, a), p.use)

\* Nobody waits first for a block that the pool could give it, whatever made
\* the space or took away the task before it.
NoServableWaiter ==
  \A o \in td_lst_mpl : \A t \in td_ref_mpl(o).wtsk : k.tcb[t].blksz > td_ref_mpl(o).maxsz
=============================================================================

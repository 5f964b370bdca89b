------------------------------- MODULE MemPfix -------------------------------
(***************************************************************************)
(* Fixed-size memory pools: mempfix.c.  The blocks of a pool that were     *)
(* never handed out lie above unused; the others, once returned, are       *)
(* linked through their own memory, which their user may overwrite in      *)
(* between.  A call holds the lock of its pool (knl_LockOBJ) from its      *)
(* check to its end or until it waits, so a call is one step.              *)
(***************************************************************************)
EXTENDS Wait, FiniteSets

CONSTANTS
  NULL,         \* no block, end of the free list
  DATA,         \* what the user of a block writes into it
  MaxBlocks     \* bound: the largest mpfcnt

VARIABLE k      \* tasks, pools, links and blocks in use, a member of Kernel

Blocks == 0 .. MaxBlocks - 1

TCB == [state : {"READY", "WAIT", "DORMANT"}, priority : Pri,
        wid : Objects, wercd : Error]

MPFCB == [objid : BOOLEAN, tpri : BOOLEAN, mpfcnt : 0 .. MaxBlocks,
          frbcnt : 0 .. MaxBlocks,         \* number of free blocks
          unused : 0 .. MaxBlocks,         \* the first block never handed out
          freelist : Blocks \cup {NULL}, wait_queue : Seq(Tasks)]

\* next holds the first word of each block: a link, or what its user wrote.
\* held is the set of blocks that the application has and did not return.
Kernel == [tcb : [Tasks -> TCB], gcb : [Objects -> MPFCB],
           next : [Objects -> [Blocks -> Blocks \cup {NULL, DATA}]],
           held : [Objects -> SUBSET Blocks]]

NoPool == [objid |-> FALSE, tpri |-> FALSE, mpfcnt |-> 0, frbcnt |-> 0,
           unused |-> 0, freelist |-> NULL, wait_queue |-> << >>]

\* Control blocks and links have their types, and no pool has more free blocks
\* than blocks.
TypeOK == k \in Kernel /\ \A o \in Objects : k.gcb[o].frbcnt <= k.gcb[o].mpfcnt

\* What a call returned is not read again once its task goes on.
Fresh(s) ==
  [s EXCEPT !.tcb = [t \in Tasks |-> IF @[t].state = "WAIT" THEN @[t]
                                     ELSE [@[t] EXCEPT !.wercd = "E_OK"]]]

-----------------------------------------------------------------------------

tk_cre_mpf(o, tpri, mpfcnt) ==
  /\ ~k.gcb[o].objid
  /\ k' = [Fresh(k) EXCEPT !.gcb[o] = [NoPool EXCEPT !.objid = TRUE, !.tpri = tpri,
                                              !.mpfcnt = mpfcnt, !.frbcnt = mpfcnt]]

\* The memory goes back to the kernel with everything that was in it.
tk_del_mpf(o) ==
  /\ k.gcb[o].objid
  /\ k' = [knl_wait_delete(Fresh(k), o) EXCEPT !.gcb[o] = NoPool, !.held[o] = {},
                                        !.next[o] = [b \in Blocks |-> DATA]]

\* Block b belongs to the application, which writes to it.
HandOut(s, o, b) == [s EXCEPT !.held[o] = @ \cup {b}, !.next[o][b] = DATA]

\* The first block of the free list, or else the next one never used.
Take(s, o) ==
  LET g == s.gcb[o]
      r == [s EXCEPT !.gcb[o].frbcnt = @ - 1]
  IN  IF g.freelist # NULL
      THEN HandOut([r EXCEPT !.gcb[o].freelist = s.next[o][g.freelist]], o, g.freelist)
      ELSE HandOut([r EXCEPT !.gcb[o].unused = @ + 1], o, g.unused)

\* pol: TMO_POL; it returns E_TMOUT instead of waiting.
tk_get_mpf(t, o, pol) ==
  /\ k.tcb[t].state = "READY"
  /\ k.gcb[o].objid
  /\ k' = IF k.gcb[o].frbcnt > 0 THEN Take(Fresh(k), o)
          ELSE IF pol THEN Fresh(k)
          ELSE knl_gcb_make_wait(Fresh(k), t, o)

\* A block that is returned goes to the first waiter, or into the free list.
tk_rel_mpf(o, b) ==
  LET q == k.gcb[o].wait_queue
  IN  /\ k.gcb[o].objid /\ b \in k.held[o]
      /\ IF q # << >> THEN k' = HandOut(knl_wait_release_ok(Fresh(k), Head(q)), o, b)
         ELSE k' = [Fresh(k) EXCEPT !.next[o][b] = k.gcb[o].freelist, !.held[o] = @ \ {b},
                             !.gcb[o] = [@ EXCEPT !.freelist = b,
                                                  !.frbcnt = k.gcb[o].frbcnt + 1]]

-----------------------------------------------------------------------------
(* What happens to a task that waits: wait.c, task_manage.c                *)

\* knl_wait_release_tmout, and tk_rel_wai through knl_wait_release_ng; a pool
\* has no hook for them.
knl_wait_release_ng(t, ercd) ==
  /\ k.tcb[t].state = "WAIT"
  /\ k' = knl_wait_release(Fresh(k), t, ercd)

tk_ter_tsk(t) ==
  LET s == IF k.tcb[t].state = "WAIT" THEN knl_wait_release(Fresh(k), t, "E_RLWAI") ELSE Fresh(k)
  IN  /\ k.tcb[t].state # "DORMANT"
      /\ k' = Fresh([s EXCEPT !.tcb[t].state = "DORMANT"])

tk_sta_tsk(t) ==
  /\ k.tcb[t].state = "DORMANT"
  /\ k' = [Fresh(k) EXCEPT !.tcb[t].state = "READY"]

\* The hook, knl_mpf_chg_pri, with TA_TPRI.
tk_chg_pri(t, pri) ==
  LET s == [Fresh(k) EXCEPT !.tcb[t].priority = pri]
  IN  k' = IF k.tcb[t].state = "WAIT" /\ k.gcb[k.tcb[t].wid].tpri
           THEN knl_gcb_change_priority(s, t) ELSE s

-----------------------------------------------------------------------------

Init ==
  k \in [tcb : [Tasks -> [state : {"READY"}, priority : Pri, wid : Objects,
                          wercd : {"E_OK"}]],
         gcb : {[o \in Objects |-> NoPool]},
         next : {[o \in Objects |-> [b \in Blocks |-> DATA]]},
         held : {[o \in Objects |-> {}]}]

Next ==
  \/ \E o \in Objects :
       \/ \E tpri \in BOOLEAN, n \in 1 .. MaxBlocks : tk_cre_mpf(o, tpri, n)
       \/ tk_del_mpf(o)
       \/ \E t \in Tasks, pol \in BOOLEAN : tk_get_mpf(t, o, pol)
       \/ \E b \in Blocks : tk_rel_mpf(o, b)
  \/ \E t \in Tasks : \/ \E e \in {"E_TMOUT", "E_RLWAI"} : knl_wait_release_ng(t, e)
                      \/ tk_ter_tsk(t)
                      \/ tk_sta_tsk(t)
                      \/ \E pri \in Pri : tk_chg_pri(t, pri)

Spec == Init /\ [][Next]_k

-----------------------------------------------------------------------------
(* Properties                                                              *)

\* What the reference and debug calls report of a pool.
td_lst_mpf == {o \in Objects : k.gcb[o].objid}
td_mpf_que(o) == k.gcb[o].wait_queue
tk_ref_mpf(o) == [wtsk |-> knl_wait_tskid(td_mpf_que(o)), frbcnt |-> k.gcb[o].frbcnt]
td_ref_mpf(o) == tk_ref_mpf(o)

\* The blocks that can be reached from b through the links.
Reach(o, b) ==
  LET r[n \in 0 .. MaxBlocks] ==
        IF n = 0 THEN {b} \cap Blocks
        ELSE r[n - 1] \cup ({k.next[o][c] : c \in r[n - 1]} \cap Blocks)
  IN  r[MaxBlocks]

\* Every block of a pool is in the free list, never used, or in the hands of
\* the application, and only one of these: no block is lost or handed out
\* twice, although the list runs through memory the application writes to.
\* frbcnt, which decides whether a task waits, is the number of the free ones.
BlocksExact ==
  \A o \in td_lst_mpf :
    LET g     == k.gcb[o]
        free  == Reach(o, g.freelist)
        fresh == {b \in Blocks : g.unused <= b /\ b < g.mpfcnt}
    IN  /\ free \cup fresh \cup k.held[o] = {b \in Blocks : b < g.mpfcnt}
        /\ free \cap fresh = {} /\ (free \cup fresh) \cap k.held[o] = {}
        /\ tk_ref_mpf(o).frbcnt = Cardinality(free) + Cardinality(fresh)

\* Nobody waits for a pool that has a free block.
NoServableWaiter == \A o \in td_lst_mpf : td_ref_mpf(o).wtsk # {} => td_ref_mpf(o).frbcnt = 0
=============================================================================

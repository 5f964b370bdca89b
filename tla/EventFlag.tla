------------------------------ MODULE EventFlag ------------------------------
(***************************************************************************)
(* Event flags: eventflag.c.  A pattern is the set of its bits that are 1. *)
(* A wait mode is a subset of {"ORW", "CLR", "BITCLR"}.                    *)
(***************************************************************************)
EXTENDS Wait

CONSTANTS
  Bits,         \* the bits of a pattern
  Modes         \* the wait modes in use

VARIABLE k      \* tasks and event flags, a member of Kernel

\* winfo.flg, and the pattern returned through p_flgptn.
TCB == [state : {"READY", "WAIT", "DORMANT"}, priority : Pri, wid : Objects,
        wercd : Error, waiptn : SUBSET Bits, wfmode : Modes \cup {{}},
        flgptn : SUBSET Bits]

FLGCB == [objid : BOOLEAN, tpri : BOOLEAN,
          wmul : BOOLEAN,               \* TA_WMUL
          flgptn : SUBSET Bits, wait_queue : Seq(Tasks)]

Kernel == [tcb : [Tasks -> TCB], gcb : [Objects -> FLGCB]]

\* What a call returned is not read again once its task goes on.
Fresh(s) ==
  [s EXCEPT !.tcb = [t \in Tasks |->
                       IF @[t].state = "WAIT" THEN @[t]
                       ELSE [@[t] EXCEPT !.wercd = "E_OK", !.waiptn = {},
                                         !.wfmode = {}, !.flgptn = {}]]]

-----------------------------------------------------------------------------

knl_eventflag_cond(flgptn, waiptn, wfmode) ==
  IF "ORW" \in wfmode THEN flgptn \cap waiptn # {} ELSE waiptn \subseteq flgptn

\* What a satisfied wait leaves of the pattern.
Cleared(flgptn, waiptn, wfmode) ==
  IF "CLR" \in wfmode THEN {}
  ELSE IF "BITCLR" \in wfmode THEN flgptn \ waiptn
  ELSE flgptn

tk_cre_flg(o, tpri, wmul, iflgptn) ==
  /\ ~k.gcb[o].objid
  /\ k' = [Fresh(k) EXCEPT !.gcb[o] =
             [objid |-> TRUE, tpri |-> tpri, wmul |-> wmul, flgptn |-> iflgptn,
              wait_queue |-> << >>]]

\* The pattern of a free control block is not read again.
tk_del_flg(o) ==
  /\ k.gcb[o].objid
  /\ k' = [knl_wait_delete(Fresh(k), o) EXCEPT
             !.gcb[o] = [@ EXCEPT !.objid = FALSE, !.flgptn = {}]]

\* Mutants: the scan ends with the first task released with TWF_BITCLR; every
\* waiter sees the pattern as it was set.
Release_Stop(acc, t) ==
  LET s == acc.s
      w == s.tcb[t]
      f == s.gcb[w.wid].flgptn
      g == Cleared(f, w.waiptn, w.wfmode)
  IN  IF acc.stop \/ ~knl_eventflag_cond(f, w.waiptn, w.wfmode) THEN acc
      ELSE [s |-> [knl_wait_release_ok(s, t) EXCEPT
                     !.gcb[w.wid].flgptn = g, !.tcb[t].flgptn = f],
            stop |-> w.wfmode \cap {"CLR", "BITCLR"} # {}]

Release_Shared(acc, t) ==
  LET s == acc.s
      w == s.tcb[t]
      f == s.gcb[w.wid].flgptn
  IN  IF ~knl_eventflag_cond(f, w.waiptn, w.wfmode) THEN acc
      ELSE [acc EXCEPT !.s = [knl_wait_release_ok(s, t) EXCEPT !.tcb[t].flgptn = f]]

\* One turn of the loop of tk_set_flg.
Release(acc, t) ==
  LET s == acc.s
      w == s.tcb[t]
      f == s.gcb[w.wid].flgptn
      g == Cleared(f, w.waiptn, w.wfmode)
  IN  IF acc.stop \/ ~knl_eventflag_cond(f, w.waiptn, w.wfmode) THEN acc
      ELSE [s |-> [knl_wait_release_ok(s, t) EXCEPT
                     !.gcb[w.wid].flgptn = g, !.tcb[t].flgptn = f],
            stop |-> g = {} /\ w.wfmode \cap {"CLR", "BITCLR"} # {}]

\* The loop over the queue.
ReleaseAll(s, o) ==
  LET q == s.gcb[o].wait_queue
      after[i \in 0 .. Len(q)] ==
        IF i = 0 THEN [s |-> s, stop |-> FALSE] ELSE Release(after[i - 1], q[i])
  IN  after[Len(q)].s

tk_set_flg(o, setptn) ==
  /\ k.gcb[o].objid
  /\ k' = ReleaseAll([Fresh(k) EXCEPT !.gcb[o].flgptn = @ \cup setptn], o)

tk_clr_flg(o, clrptn) ==
  /\ k.gcb[o].objid
  /\ k' = [Fresh(k) EXCEPT !.gcb[o].flgptn = @ \cap clrptn]

\* E_OBJ: without TA_WMUL only one task may wait.
SingleWait(o) == k.gcb[o].wmul \/ k.gcb[o].wait_queue = << >>

\* Polling without success changes nothing and is left out.
tk_wai_flg(t, o, waiptn, wfmode) ==
  LET f == k.gcb[o].flgptn
  IN  /\ k.tcb[t].state = "READY"
      /\ k.gcb[o].objid
      /\ waiptn # {}
      /\ SingleWait(o)
      /\ k' = IF knl_eventflag_cond(f, waiptn, wfmode)
              THEN [Fresh(k) EXCEPT !.tcb[t].flgptn = f,
                                    !.gcb[o].flgptn = Cleared(f, waiptn, wfmode)]
              ELSE knl_gcb_make_wait(
                     [Fresh(k) EXCEPT !.tcb[t].waiptn = waiptn,
                                      !.tcb[t].wfmode = wfmode], t, o)

-----------------------------------------------------------------------------
(* wait.c, task_manage.c: event flags have no hook for a waiter that leaves *)

knl_wait_release_ng(t, ercd) ==
  /\ k.tcb[t].state = "WAIT"
  /\ k' = knl_wait_release(Fresh(k), t, ercd)

tk_ter_tsk(t) ==
  LET s == IF k.tcb[t].state = "WAIT" THEN knl_wait_release(k, t, "E_RLWAI") ELSE k
  IN  /\ k.tcb[t].state # "DORMANT"
      /\ k' = Fresh([s EXCEPT !.tcb[t].state = "DORMANT"])

tk_sta_tsk(t) ==
  /\ k.tcb[t].state = "DORMANT"
  /\ k' = [Fresh(k) EXCEPT !.tcb[t].state = "READY"]

\* flg_chg_pri, the hook of a TA_TPRI flag, only sorts the queue again.
tk_chg_pri(t, pri) ==
  LET s == [Fresh(k) EXCEPT !.tcb[t].priority = pri]
  IN  k' = IF k.tcb[t].state = "WAIT" /\ k.gcb[k.tcb[t].wid].tpri
           THEN knl_gcb_change_priority(s, t) ELSE s

-----------------------------------------------------------------------------

Init ==
  \E o \in Objects :
    k \in [tcb : [Tasks -> [state : {"READY"}, priority : Pri, wid : {o},
                            wercd : {"E_OK"}, waiptn : {{}}, wfmode : {{}},
                            flgptn : {{}}]],
           gcb : {[p \in Objects |-> [objid |-> FALSE, tpri |-> FALSE,
                                      wmul |-> FALSE, flgptn |-> {},
                                      wait_queue |-> << >>]]}]

Next ==
  \/ \E o \in Objects, p \in SUBSET Bits :
       \/ \E tpri, wmul \in BOOLEAN : tk_cre_flg(o, tpri, wmul, p)
       \/ tk_set_flg(o, p)
       \/ tk_clr_flg(o, p)
       \/ \E t \in Tasks, m \in Modes : tk_wai_flg(t, o, p, m)
  \/ \E o \in Objects : tk_del_flg(o)
  \/ \E t \in Tasks : \/ \E e \in {"E_TMOUT", "E_RLWAI"} : knl_wait_release_ng(t, e)
                      \/ tk_ter_tsk(t)
                      \/ tk_sta_tsk(t)
                      \/ \E pri \in Pri : tk_chg_pri(t, pri)

-----------------------------------------------------------------------------
(* Properties                                                              *)

\* What the reference and debug calls report.
td_lst_flg == {o \in Objects : k.gcb[o].objid}
td_flg_que(o) == k.gcb[o].wait_queue
tk_ref_flg(o) == [wtsk |-> knl_wait_tskid(td_flg_que(o)), flgptn |-> k.gcb[o].flgptn]
td_ref_flg(o) == tk_ref_flg(o)

\* The state has its type; without TA_WMUL at most one task waits.
TypeOK ==
  /\ k \in Kernel
  /\ \A o \in td_lst_flg : k.gcb[o].wmul \/ Elems(td_flg_que(o)) = td_ref_flg(o).wtsk

\* Nobody waits for a condition that holds: one call of tk_set_flg finds every
\* waiter it satisfies, also behind one that clears part of the pattern.
NoSatisfiedWaiter ==
  \A o \in td_lst_flg, t \in Tasks :
    t \in Waiters(k, o) =>
      ~knl_eventflag_cond(tk_ref_flg(o).flgptn, k.tcb[t].waiptn, k.tcb[t].wfmode)

\* The tasks that a step releases with E_OK.
Released(o) == {t \in Waiters(k, o) : k'.tcb[t].state = "READY" /\ k'.tcb[t].wercd = "E_OK"}

\* An event is consumed once: of two tasks that one step releases, the later in
\* the queue does not see the bits that the earlier one clears, each is shown a
\* pattern that satisfies it, and the bits are gone afterwards.
ConsumedOnceStep ==
  \A o \in Objects :
    LET q    == k.gcb[o].wait_queue
        w(t) == k.tcb[t]
    IN  \A i \in DOMAIN q : q[i] \in Released(o) =>
          /\ knl_eventflag_cond(k'.tcb[q[i]].flgptn, w(q[i]).waiptn, w(q[i]).wfmode)
          /\ LET gone == k'.tcb[q[i]].flgptn
                           \ Cleared(k'.tcb[q[i]].flgptn, w(q[i]).waiptn, w(q[i]).wfmode)
             IN  /\ k'.gcb[o].flgptn \cap gone = {}
                 /\ \A j \in DOMAIN q : j > i /\ q[j] \in Released(o) =>
                      k'.tcb[q[j]].flgptn \cap gone = {}
=============================================================================

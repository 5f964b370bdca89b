------------------------------ MODULE Rendezvous ------------------------------
(***************************************************************************)
(* Rendezvous ports: rendezvous.c.  A caller meets an accepting task whose *)
(* pattern has a bit in common with its own and then waits for the reply;  *)
(* the accepting task answers, or forwards the call to another port, by    *)
(* the number of the rendezvous.  Numbers are handed to the application,   *)
(* which may use one late or twice.                                        *)
(***************************************************************************)
EXTENDS Wait, FiniteSetsExt

CONSTANTS
  NULL,         \* no port
  Bits,         \* the bits of the patterns
  MaxSize,      \* bound: the sizes of messages
  MaxRdv,       \* bound: rendezvous of one task
  RdvWrap       \* the numbers of one caller; 2^16 in the code

VARIABLE k      \* tasks, ports and the numbers that were handed out

Patterns == SUBSET Bits \ {{}}

Size == 0 .. MaxSize

\* wspec tells a waiting caller ("cal"), an accepting task ("acp") and a caller
\* in a rendezvous ("rdv") apart.  The high half of a rendezvous number is a
\* counter, wrdvno, which wraps, the low half the caller.
\* room is the size of the buffer that came with the call.
TCB == [state : {"READY", "WAIT", "DORMANT"}, priority : Pri,
        wid : Objects \cup {NULL}, wercd : Error, wspec : {"cal", "acp", "rdv"},
        ptn : SUBSET Bits, wrdvno : 0 .. RdvWrap - 1, rdvno : 0 .. RdvWrap - 1,
        maxrmsz : Size, room : Size]

\* wait_queue is call_queue.
PORCB == [objid : BOOLEAN, tpri : BOOLEAN, wait_queue : Seq(Tasks),
          accept_queue : Seq(Tasks), maxcmsz : Size, maxrmsz : Size]

\* met counts the rendezvous of a caller; known are the rendezvous that tasks
\* accepted, each with its number and which of its caller's it was.
TypeOK ==
  /\ k.tcb \in [Tasks -> TCB] /\ k.gcb \in [Objects -> PORCB]
  /\ k.met \in [Tasks -> 0 .. MaxRdv]
  /\ k.known \subseteq [tskid : Tasks, no : 0 .. RdvWrap - 1, nth : 1 .. MaxRdv]

NoPort == [objid |-> FALSE, tpri |-> FALSE, wait_queue |-> << >>,
           accept_queue |-> << >>, maxcmsz |-> 0, maxrmsz |-> 0]

\* What a call returned, and its parameters, are not read again once its task
\* goes on.
Fresh(s) ==
  [s EXCEPT !.tcb =
     [t \in Tasks |->
        IF @[t].state = "WAIT" THEN @[t]
        ELSE [@[t] EXCEPT !.wercd = "E_OK", !.wid = NULL, !.wspec = "cal", !.ptn = {},
                          !.rdvno = 0, !.maxrmsz = 0, !.room = 0]]]

-----------------------------------------------------------------------------

tk_cre_por(o, tpri, maxcmsz, maxrmsz) ==
  /\ ~k.gcb[o].objid
  /\ k' = [Fresh(k) EXCEPT
             !.gcb[o] = [NoPort EXCEPT !.objid = TRUE, !.tpri = tpri,
                                       !.maxcmsz = maxcmsz, !.maxrmsz = maxrmsz]]

\* knl_wait_delete for both queues; callers in a rendezvous stay in it.
tk_del_por(o) ==
  LET waiting == Elems(k.gcb[o].wait_queue) \cup Elems(k.gcb[o].accept_queue)
      s == Fresh(k)
  IN  /\ k.gcb[o].objid
      /\ k' = [s EXCEPT !.gcb[o] = NoPort,
                        !.tcb = [t \in Tasks |->
                                   IF t \in waiting
                                   THEN [@[t] EXCEPT !.state = "READY", !.wercd = "E_DLT"]
                                   ELSE @[t]]]

\* knl_wait_release: out of whichever queue the task is in.
Release(s, t, ercd) ==
  LET w == s.tcb[t]
      r == [s EXCEPT !.tcb[t].state = "READY", !.tcb[t].wercd = ercd]
  IN  CASE w.wspec = "cal" -> [r EXCEPT !.gcb[w.wid].wait_queue = QueRemove(@, t)]
        [] w.wspec = "acp" -> [r EXCEPT !.gcb[w.wid].accept_queue = QueRemove(@, t)]
        [] w.wspec = "rdv" -> r

\* The first task of queue q whose pattern meets ptn: a set of at most one.
FirstMatch(s, q, ptn) ==
  LET hits == {i \in DOMAIN q : s.tcb[q[i]].ptn \cap ptn # {}}
  IN  {q[i] : i \in {j \in hits : \A h \in hits : j <= h}}

\* knl_gen_rdvno; the accepting task learns the number.
knl_gen_rdvno(s, t) ==
  [s EXCEPT !.tcb[t].wrdvno = IF @ + 1 = RdvWrap THEN 0 ELSE @ + 1, !.met[t] = @ + 1,
            !.known = @ \cup {[tskid |-> t, no |-> s.tcb[t].wrdvno, nth |-> s.met[t] + 1]}]

\* Caller t waits for the end of a rendezvous of port o.
Meet(s, t, o) ==
  [knl_gen_rdvno(s, t) EXCEPT
     !.tcb[t] = [@ EXCEPT !.state = "WAIT", !.wspec = "rdv", !.wid = NULL,
                          !.rdvno = s.tcb[t].wrdvno, !.maxrmsz = s.gcb[o].maxrmsz, !.wercd = "E_TMOUT"]]

\* The caller's buffer has room for its message and for the reply.  With
\* TMO_POL a call that meets nobody changes nothing; so does tk_acp_por.
tk_cal_por(t, o, calptn, cmsgsz) ==
  LET g == k.gcb[o]
      s == [Fresh(k) EXCEPT !.tcb[t].ptn = calptn,
                            !.tcb[t].room = Max({cmsgsz, g.maxrmsz})]
      found == FirstMatch(k, g.accept_queue, calptn)
  IN  /\ k.tcb[t].state = "READY" /\ k.met[t] < MaxRdv
      /\ g.objid /\ cmsgsz <= g.maxcmsz
      /\ \/ \E a \in found : k' = Meet(Release(s, a, "E_OK"), t, o)
         \/ /\ found = {}
            /\ k' = knl_gcb_make_wait([s EXCEPT !.tcb[t].wspec = "cal"], t, o)

\* The caller changes from its queue into the rendezvous without being released.
tk_acp_por(t, o, acpptn) ==
  LET g == k.gcb[o]
      found == FirstMatch(k, g.wait_queue, acpptn)
  IN  /\ k.tcb[t].state = "READY"
      /\ g.objid
      /\ \/ \E c \in found : /\ k.met[c] < MaxRdv
                             /\ k' = Meet(Release(Fresh(k), c, "E_OK"), c, o)
         \/ /\ found = {}
            /\ k' = [Fresh(k) EXCEPT
                        !.tcb[t] = [@ EXCEPT !.state = "WAIT", !.wspec = "acp", !.wid = o,
                                             !.ptn = acpptn, !.wercd = "E_TMOUT"],
                        !.gcb[o].accept_queue = QueInsert(@, t)]

\* r is the number of the rendezvous its caller is in; otherwise E_OBJ.
InRendezvous(r) ==
  LET w == k.tcb[r.tskid]
  IN  w.state = "WAIT" /\ w.wspec = "rdv" /\ w.rdvno = r.no

\* Mutant: the replies of the new port may be larger.
MayForward_Any(r, o, cmsgsz) ==
  k.gcb[o].objid /\ cmsgsz <= k.gcb[o].maxcmsz /\ InRendezvous(r)

\* Neither the message nor a reply of the new port may exceed the old replies.
MayForward(r, o, cmsgsz) ==
  /\ k.gcb[o].objid /\ cmsgsz <= k.gcb[o].maxcmsz
  /\ InRendezvous(r)
  /\ k.gcb[o].maxrmsz <= k.tcb[r.tskid].maxrmsz
  /\ cmsgsz <= k.tcb[r.tskid].maxrmsz

tk_fwd_por(r, o, calptn, cmsgsz) ==
  LET c == r.tskid
      found == FirstMatch(k, k.gcb[o].accept_queue, calptn)
  IN  /\ MayForward(r, o, cmsgsz)
      /\ k.met[c] < MaxRdv
      /\ \/ \E a \in found : k' = Meet(Release(Fresh(k), a, "E_OK"), c, o)
         \/ /\ found = {}
            /\ k' = knl_gcb_make_wait([Fresh(k) EXCEPT !.tcb[c].wspec = "cal",
                                                       !.tcb[c].ptn = calptn], c, o)

tk_rpl_rdv(r, rmsgsz) ==
  /\ InRendezvous(r)
  /\ rmsgsz <= k.tcb[r.tskid].maxrmsz
  /\ k' = Release(Fresh(k), r.tskid, "E_OK")

-----------------------------------------------------------------------------
(* What happens to a task that waits: wait.c, task_manage.c                *)

\* A rendezvous itself has no time limit.
knl_wait_release_ng(t, ercd) ==
  /\ k.tcb[t].state = "WAIT"
  /\ ercd = "E_TMOUT" => k.tcb[t].wspec # "rdv"
  /\ k' = Release(Fresh(k), t, ercd)

tk_ter_tsk(t) ==
  LET s == IF k.tcb[t].state = "WAIT" THEN Release(Fresh(k), t, "E_RLWAI") ELSE Fresh(k)
  IN  /\ k.tcb[t].state # "DORMANT"
      /\ k' = Fresh([s EXCEPT !.tcb[t].state = "DORMANT"])

tk_sta_tsk(t) ==
  /\ k.tcb[t].state = "DORMANT"
  /\ k' = [Fresh(k) EXCEPT !.tcb[t].state = "READY"]

\* The hook, cal_chg_pri; accept queues are first-in first-out.
tk_chg_pri(t, pri) ==
  LET s == [Fresh(k) EXCEPT !.tcb[t].priority = pri]
      w == k.tcb[t]
  IN  k' = IF w.state = "WAIT" /\ w.wspec = "cal" /\ k.gcb[w.wid].tpri
           THEN knl_gcb_change_priority(s, t) ELSE s

-----------------------------------------------------------------------------

Init ==
  k \in [tcb : [Tasks -> [state : {"READY"}, priority : Pri, wid : {NULL},
                          wercd : {"E_OK"}, wspec : {"cal"}, ptn : {{}}, wrdvno : {0},
                          rdvno : {0}, maxrmsz : {0}, room : {0}]],
         gcb : {[o \in Objects |-> NoPort]},
         met : {[t \in Tasks |-> 0]}, known : {{}}]

Next ==
  \/ \E o \in Objects :
       \/ \E tpri \in BOOLEAN, n \in Size : tk_cre_por(o, tpri, MaxSize, n)
       \/ tk_del_por(o)
       \/ \E t \in Tasks, ptn \in Patterns : \/ \E sz \in Size : tk_cal_por(t, o, ptn, sz)
                                             \/ tk_acp_por(t, o, ptn)
       \/ \E r \in k.known, ptn \in Patterns, sz \in Size : tk_fwd_por(r, o, ptn, sz)
  \/ \E r \in k.known, sz \in Size : tk_rpl_rdv(r, sz)
  \/ \E t \in Tasks : \/ \E e \in {"E_TMOUT", "E_RLWAI"} : knl_wait_release_ng(t, e)
                      \/ tk_ter_tsk(t)
                      \/ tk_sta_tsk(t)
                      \/ \E pri \in Pri : tk_chg_pri(t, pri)

Spec == Init /\ [][Next]_k

-----------------------------------------------------------------------------
(* Properties                                                              *)

\* What the reference and debug calls report of a port.
td_lst_por == {o \in Objects : k.gcb[o].objid}
td_cal_que(o) == k.gcb[o].wait_queue
td_acp_que(o) == k.gcb[o].accept_queue
tk_ref_por(o) == [wtsk |-> knl_wait_tskid(td_cal_que(o)), atsk |-> knl_wait_tskid(td_acp_que(o)),
                  maxcmsz |-> k.gcb[o].maxcmsz, maxrmsz |-> k.gcb[o].maxrmsz]
td_ref_por(o) == tk_ref_por(o)

\* Both queues of a port hold exactly the tasks that wait there.
QueuesExact ==
  \A o \in Objects :
    LET g == k.gcb[o]
        waiting(w) == {t \in Waiters(k, o) : k.tcb[t].wspec = w}
    IN  /\ Injective(g.wait_queue) /\ Elems(g.wait_queue) = waiting("cal")
        /\ Injective(g.accept_queue) /\ Elems(g.accept_queue) = waiting("acp")
        /\ g.tpri => Sorted(g.wait_queue, Priorities(k))

\* A caller and an accepting task whose patterns meet do not wait side by side.
NoMatchWaits ==
  \A o \in td_lst_por : tk_ref_por(o).wtsk # {} /\ tk_ref_por(o).atsk # {} =>
    \A c \in Elems(td_cal_que(o)), a \in Elems(td_acp_que(o)) :
      k.tcb[c].ptn \cap k.tcb[a].ptn = {}

\* A caller is answered in the rendezvous it is in and in no other: a number
\* that is used late, twice, or after a forward reaches nobody.  A number that is
\* RdvWrap rendezvous old is excepted, the caller has it again.  No reply is
\* larger than the buffer that came with the call, through whatever ports it was
\* forwarded.
Paired ==
  \A t \in Tasks : k.tcb[t].state = "WAIT" =>
    /\ k.tcb[t].wspec = "rdv" =>
         /\ LET recent == {q \in k.known : q.tskid = t /\ k.met[t] - q.nth < RdvWrap}
            IN  {r.nth : r \in {q \in recent : InRendezvous(q)}} = {k.met[t]}
         /\ k.tcb[t].maxrmsz <= k.tcb[t].room
    /\ k.tcb[t].wspec = "cal" => td_ref_por(k.tcb[t].wid).maxrmsz <= k.tcb[t].room
=============================================================================

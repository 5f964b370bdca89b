------------------------------- MODULE Mailbox -------------------------------
(***************************************************************************)
(* Mailboxes: mailbox.c and mailbox.h.  A mailbox holds no copies: the     *)
(* messages are linked through their first word, and the sender may not    *)
(* touch or send a message that is still linked.                           *)
(***************************************************************************)
EXTENDS Wait, FiniteSets

LOCAL INSTANCE FiniteSetsExt

CONSTANTS
  Messages,     \* the memory areas used as messages
  NULL,         \* no message
  MaxMsgPri     \* bound: the largest message priority

VARIABLE k      \* tasks, mailboxes and messages, a member of Kernel

\* msg: what the last call handed over through ppk_msg.
TCB == [state : {"READY", "WAIT", "DORMANT"}, priority : Pri, wid : Objects,
        wercd : Error, msg : Messages \cup {NULL}]

MBXCB == [objid : BOOLEAN, tpri : BOOLEAN,
          mpri : BOOLEAN,               \* TA_MPRI
          headmsg : Messages \cup {NULL}, mq_tail : Messages \cup {NULL},
          wait_queue : Seq(Tasks)]

T_MSG == [nextmsg : Messages \cup {NULL}, msgpri : 1 .. MaxMsgPri]

Kernel == [tcb : [Tasks -> TCB], gcb : [Objects -> MBXCB], mem : [Messages -> T_MSG]]

\* What a call returned is not read again once its task goes on.
Fresh(s) ==
  FoldSet(LAMBDA t, r :
            IF r.tcb[t].state = "WAIT" THEN r
            ELSE [r EXCEPT !.tcb[t] = [@ EXCEPT !.wercd = "E_OK", !.msg = NULL]],
          s, Tasks)

\* The messages found by following the links from the head of mailbox o, as
\* far as there are places for them to be different.
Chain(s, o) ==
  LET N == 1 .. Cardinality(Messages) + 1
      at[i \in N] == IF i = 1 THEN s.gcb[o].headmsg
                     ELSE LET m == at[i - 1] IN IF m = NULL THEN NULL ELSE s.mem[m].nextmsg
  IN  SelectSeq([i \in N |-> at[i]], LAMBDA m : m # NULL)

Linked(s) == UNION {Elems(Chain(s, o)) : o \in {p \in Objects : s.gcb[p].objid}}

-----------------------------------------------------------------------------

tk_cre_mbx(o, tpri, mpri) ==
  /\ ~k.gcb[o].objid
  /\ k' = [Fresh(k) EXCEPT !.gcb[o] =
             [@ EXCEPT !.objid = TRUE, !.tpri = tpri, !.mpri = mpri,
                       !.headmsg = NULL, !.wait_queue = << >>]]

tk_del_mbx(o) ==
  /\ k.gcb[o].objid
  /\ k' = [knl_wait_delete(Fresh(k), o) EXCEPT !.gcb[o].objid = FALSE]

\* Link message m in the order of message priorities, after equal ones.
knl_queue_insert_mpri(s, o, m) ==
  LET q == Chain(s, o)
      i == TpriPosition(q, [x \in Messages |-> s.mem[x].msgpri], s.mem[m].msgpri)
      s1 == [s EXCEPT !.mem[m].nextmsg = IF i > Len(q) THEN NULL ELSE q[i]]
  IN  IF i = 1 THEN [s1 EXCEPT !.gcb[o].headmsg = m]
      ELSE [s1 EXCEPT !.mem[q[i - 1]].nextmsg = m]

\* Mutant: the link that the message had the last time is kept.
AppendMsg_Link(s, o, m) ==
  LET s1 == [s EXCEPT !.gcb[o].mq_tail = m]
  IN  IF s.gcb[o].headmsg = NULL THEN [s1 EXCEPT !.gcb[o].headmsg = m]
      ELSE [s1 EXCEPT !.mem[s.gcb[o].mq_tail].nextmsg = m]

\* Link message m at the end.  mq_tail is valid only while there are messages.
AppendMsg(s, o, m) ==
  LET s1 == [s EXCEPT !.mem[m].nextmsg = NULL, !.gcb[o].mq_tail = m]
  IN  IF s.gcb[o].headmsg = NULL THEN [s1 EXCEPT !.gcb[o].headmsg = m]
      ELSE [s1 EXCEPT !.mem[s.gcb[o].mq_tail].nextmsg = m]

\* To the first waiter, or into the mailbox.
Deliver(s, o, m) ==
  IF s.gcb[o].wait_queue # << >>
  THEN LET t == Head(s.gcb[o].wait_queue)
       IN  [knl_wait_release_ok(s, t) EXCEPT !.tcb[t].msg = m]
  ELSE IF s.gcb[o].mpri THEN knl_queue_insert_mpri(s, o, m)
  ELSE AppendMsg(s, o, m)

\* The sender writes the priority before the call.
tk_snd_mbx(o, m, msgpri) ==
  /\ k.gcb[o].objid
  /\ m \notin Linked(k)
  /\ k' = Deliver([Fresh(k) EXCEPT !.mem[m].msgpri = msgpri], o, m)

\* Polling without success changes nothing and is left out.
tk_rcv_mbx(t, o) ==
  LET m == k.gcb[o].headmsg
  IN  /\ k.tcb[t].state = "READY"
      /\ k.gcb[o].objid
      /\ k' = IF m # NULL
              THEN [Fresh(k) EXCEPT !.tcb[t].msg = m,
                                    !.gcb[o].headmsg = k.mem[m].nextmsg]
              ELSE knl_gcb_make_wait(Fresh(k), t, o)

-----------------------------------------------------------------------------
(* wait.c, task_manage.c: mailboxes have no hook for a waiter that leaves  *)

knl_wait_release_ng(t, ercd) ==
  /\ k.tcb[t].state = "WAIT"
  /\ k' = knl_wait_release(Fresh(k), t, ercd)

tk_ter_tsk(t) ==
  LET s == IF k.tcb[t].state = "WAIT" THEN knl_wait_release(k, t, "E_RLWAI") ELSE k
  IN  /\ k.tcb[t].state # "DORMANT"
      /\ k' = Fresh([s EXCEPT !.tcb[t].state = "DORMANT"])

tk_sta_tsk(t) ==
  /\ k.tcb[t].state = "DORMANT"
  /\ k' = [Fresh(k) EXCEPT !.tcb[t].state = "READY"]

\* mbx_chg_pri, the hook of a TA_TPRI mailbox, only sorts the queue again.
tk_chg_pri(t, pri) ==
  LET s == [Fresh(k) EXCEPT !.tcb[t].priority = pri]
  IN  k' = IF k.tcb[t].state = "WAIT" /\ k.gcb[k.tcb[t].wid].tpri
           THEN knl_gcb_change_priority(s, t) ELSE s

-----------------------------------------------------------------------------

Init ==
  \E o \in Objects :
    k \in [tcb : [Tasks -> [state : {"READY"}, priority : Pri, wid : {o},
                            wercd : {"E_OK"}, msg : {NULL}]],
           gcb : {[p \in Objects |-> [objid |-> FALSE, tpri |-> FALSE, mpri |-> FALSE,
                                      headmsg |-> NULL, mq_tail |-> NULL,
                                      wait_queue |-> << >>]]},
           mem : {[m \in Messages |-> [nextmsg |-> NULL, msgpri |-> 1]]}]

Next ==
  \/ \E o \in Objects :
       \/ \E tpri, mpri \in BOOLEAN : tk_cre_mbx(o, tpri, mpri)
       \/ tk_del_mbx(o)
       \/ \E m \in Messages, p \in 1 .. MaxMsgPri : tk_snd_mbx(o, m, p)
       \/ \E t \in Tasks : tk_rcv_mbx(t, o)
  \/ \E t \in Tasks : \/ \E e \in {"E_TMOUT", "E_RLWAI"} : knl_wait_release_ng(t, e)
                      \/ tk_ter_tsk(t)
                      \/ tk_sta_tsk(t)
                      \/ \E pri \in Pri : tk_chg_pri(t, pri)

-----------------------------------------------------------------------------
(* Properties                                                              *)

\* What the reference and debug calls report.
td_lst_mbx == {o \in Objects : k.gcb[o].objid}
td_mbx_que(o) == k.gcb[o].wait_queue
tk_ref_mbx(o) == [wtsk |-> knl_wait_tskid(td_mbx_que(o)), pk_msg |-> k.gcb[o].headmsg]
td_ref_mbx(o) == tk_ref_mbx(o)

\* The state has its type, and nobody waits beside a message.
TypeOK ==
  /\ k \in Kernel
  /\ \A o \in td_lst_mbx : td_ref_mbx(o).pk_msg # NULL => tk_ref_mbx(o).wtsk = {}

\* The links of a mailbox form one list: it ends, holds no message twice, is
\* in order of priority with TA_MPRI, and mq_tail is its end without.
ListsExact ==
  \A o \in Objects : k.gcb[o].objid =>
    LET q == Chain(k, o)
    IN  /\ Len(q) <= Cardinality(Messages) /\ Injective(q)
        /\ k.gcb[o].mpri => Sorted(q, [m \in Messages |-> k.mem[m].msgpri])
        /\ ~k.gcb[o].mpri /\ q # << >> => k.gcb[o].mq_tail = q[Len(q)]

\* Messages are handed over once and in their order: a step leaves the list as
\* it is, takes its first message and gives it to one task, or adds one
\* message that no task got, at the end or behind its priority.  A message that
\* was sent is in the list or with a task.
HandedOnceStep ==
  \A o \in Objects : k.gcb[o].objid /\ k'.gcb[o].objid =>
    LET q   == Chain(k, o)
        r   == Chain(k', o)
        got == {t \in Tasks : k'.tcb[t].msg # NULL}
    IN  /\ \/ r = q /\ (got = {} \/ q = << >>)
           \/ q # << >> /\ r = Tail(q) /\ \E t \in got : got = {t} /\ k'.tcb[t].msg = Head(q)
           \/ /\ Len(r) = Len(q) + 1 /\ got = {}
              /\ \E i \in DOMAIN r : /\ q = QueRemove(r, r[i])
                                     /\ k.gcb[o].mpri \/ i = Len(r)
                                     /\ \A j \in DOMAIN r : j > i =>
                                          k'.mem[r[j]].msgpri > k'.mem[r[i]].msgpri
        /\ \A m \in Messages \ (Elems(r) \cup {k'.tcb[t].msg : t \in got}) :
             ~tk_snd_mbx(o, m, k'.mem[m].msgpri)
=============================================================================

----------------------------- MODULE MessageBuf -----------------------------
(***************************************************************************)
(* Message buffers: messagebuf.c and messagebuf.h.  Messages of different  *)
(* sizes are copied into a ring buffer, each behind a header with its      *)
(* size.  A message that finds a receiver waiting, or that is too large    *)
(* for the buffer, is copied from task to task.                            *)
(***************************************************************************)
EXTENDS Wait, Integers, FiniteSets

LOCAL INSTANCE SequencesExt

CONSTANTS
  Messages,     \* the messages
  msgsz,        \* their sizes in bytes
  HEADERSZ,     \* size of a header, and of the units the buffer is used in
  BufSizes,     \* the sizes tk_cre_mbf is called with
  ISR,          \* an interrupt handler as the caller of tk_snd_mbf
  NULL          \* no message, and a byte that does not belong to one

VARIABLE k      \* tasks and message buffers, a member of Kernel

ROUNDSZ(n) == ((n + HEADERSZ - 1) \div HEADERSZ) * HEADERSZ

\* The bytes of message m; the header of a message of n bytes.
Bytes(m) == [i \in 1 .. msgsz[m] |-> <<m, i>>]
Header(n) == <<NULL, n>>
Cell == UNION {{Bytes(m)[i] : i \in DOMAIN Bytes(m)} : m \in Messages}
          \cup {Header(msgsz[m]) : m \in Messages} \cup {NULL}

\* smsg: what a waiting sender sends; rmsg: the bytes a receiver got.
TCB == [state : {"READY", "WAIT", "DORMANT"}, priority : Pri, wid : Objects,
        wercd : Error, smsg : Messages \cup {NULL}, rmsg : Seq(Cell)]

\* wait_queue is send_queue, the first field of the control block.
MBFCB == [objid : BOOLEAN, tpri : BOOLEAN,
          bufsz : {ROUNDSZ(n) : n \in BufSizes \cup {0}},
          frbufsz : Nat, head : Nat, tail : Nat, buffer : Seq(Cell),
          wait_queue : Seq(Tasks), recv_queue : Seq(Tasks)]

\* What a call returned is not read again once its task goes on.
Fresh(s) ==
  FoldSet(LAMBDA t, r :
            IF r.tcb[t].state = "WAIT" THEN r
            ELSE [r EXCEPT !.tcb[t] = [@ EXCEPT !.wercd = "E_OK", !.smsg = NULL,
                                                !.rmsg = << >>]],
          s, Tasks)

\* Unlinking a task finds it in either queue.
Release(s, t, ercd) ==
  [knl_wait_release(s, t, ercd) EXCEPT !.gcb[s.tcb[t].wid].recv_queue = QueRemove(@, t)]

-----------------------------------------------------------------------------
(* The ring buffer                                                         *)

knl_mbf_free(g, n) == HEADERSZ + n <= g.frbufsz

knl_mbf_empty(g) == g.frbufsz = g.bufsz

Wrap(g, i) == IF i >= g.bufsz THEN 0 ELSE i

\* Where byte i of a message that starts at place p lies: what does not fit
\* before the end of the buffer continues at its beginning.
Place(g, p, i) == IF p + i - 1 < g.bufsz THEN p + i - 1 ELSE p + i - 1 - g.bufsz

\* The place after a message of n bytes that starts at place p.
After(g, p, n) ==
  LET remsz == g.bufsz - p
  IN  IF remsz < n THEN Wrap(g, ROUNDSZ(n - remsz)) ELSE Wrap(g, p + ROUNDSZ(n))

\* buffer is a sequence: place i of the buffer is its element i + 1.
knl_msg_to_mbf(g, m) ==
  LET p == Wrap(g, g.tail + HEADERSZ)
      b == [g.buffer EXCEPT ![g.tail + 1] = Header(msgsz[m])]
      c == [j \in DOMAIN b |->
              IF \E i \in 1 .. msgsz[m] : Place(g, p, i) = j - 1
              THEN Bytes(m)[CHOOSE i \in 1 .. msgsz[m] : Place(g, p, i) = j - 1]
              ELSE b[j]]
  IN  [g EXCEPT !.frbufsz = @ - (HEADERSZ + ROUNDSZ(msgsz[m])),
                !.buffer = c, !.tail = After(g, p, msgsz[m])]

\* The size in the header at the head of the buffer, and the bytes behind it.
HeadSize(g) == g.buffer[g.head + 1][2]
HeadBytes(g) ==
  [i \in 1 .. HeadSize(g) |-> g.buffer[Place(g, Wrap(g, g.head + HEADERSZ), i) + 1]]

\* The head moves behind the message.
Skip(g) ==
  LET n == HeadSize(g)
  IN  [g EXCEPT !.frbufsz = @ + (HEADERSZ + ROUNDSZ(n)),
                !.head = After(g, Wrap(g, @ + HEADERSZ), n)]

\* The bytes that were read are blotted out: nobody may read them again.
knl_mbf_to_msg(g) ==
  LET p == Wrap(g, g.head + HEADERSZ)
      read == {g.head} \cup {Place(g, p, i) : i \in 1 .. HeadSize(g)}
  IN  [Skip(g) EXCEPT !.buffer = [j \in DOMAIN @ |-> IF j - 1 \in read THEN NULL ELSE @[j]]]

-----------------------------------------------------------------------------

\* One turn of the loop of knl_mbf_wakeup.
WakeOne(acc, t) ==
  LET o == acc.s.tcb[t].wid
      m == acc.s.tcb[t].smsg
  IN  IF acc.stop \/ ~knl_mbf_free(acc.s.gcb[o], msgsz[m]) THEN [acc EXCEPT !.stop = TRUE]
      ELSE [acc EXCEPT !.s = Release([acc.s EXCEPT !.gcb[o] = knl_msg_to_mbf(@, m)],
                                     t, "E_OK")]

\* Senders go on, in the order of the queue, while their messages fit.
knl_mbf_wakeup(s, o) == FoldLeft(WakeOne, [s |-> s, stop |-> FALSE], s.gcb[o].wait_queue).s

\* A control block with a buffer of n bytes.
NewBuf(objid, tpri, n) ==
  [objid |-> objid, tpri |-> tpri, bufsz |-> n, frbufsz |-> n, head |-> 0, tail |-> 0,
   buffer |-> [i \in 1 .. n |-> NULL], wait_queue |-> << >>, recv_queue |-> << >>]

tk_cre_mbf(o, tpri, bufsz) ==
  /\ ~k.gcb[o].objid
  /\ k' = [Fresh(k) EXCEPT !.gcb[o] = NewBuf(TRUE, tpri, ROUNDSZ(bufsz))]

\* Receivers and senders are released; the other fields are not read again.
tk_del_mbf(o) ==
  LET recv == Elems(k.gcb[o].recv_queue)
      s    == knl_wait_delete(Fresh(k), o)
  IN  /\ k.gcb[o].objid
      /\ k' = [s EXCEPT
                 !.gcb[o] = NewBuf(FALSE, FALSE, 0),
                 !.tcb = [t \in Tasks |-> IF t \in recv
                            THEN [@[t] EXCEPT !.state = "READY", !.wercd = "E_DLT"]
                            ELSE @[t]]]

\* A handler does not queue; a task sends only if nobody is before it.
MaySend(c, o) == IF c = ISR THEN TRUE ELSE knl_gcb_top_of_wait_queue(k, o, c) = c

\* c is a task or ISR; a handler must poll.
tk_snd_mbf(c, o, m, pol) ==
  LET g == k.gcb[o]
      s == Fresh(k)
      r == Head(g.recv_queue)
  IN  /\ IF c = ISR THEN pol ELSE k.tcb[c].state = "READY"
      /\ g.objid
      /\ \/ /\ g.recv_queue # << >>
            /\ k' = [Release(s, r, "E_OK") EXCEPT !.tcb[r].rmsg = Bytes(m)]
         \/ /\ g.recv_queue = << >>
            /\ MaySend(c, o) /\ knl_mbf_free(g, msgsz[m])
            /\ k' = [s EXCEPT !.gcb[o] = knl_msg_to_mbf(@, m)]
         \/ /\ g.recv_queue = << >>
            /\ ~(MaySend(c, o) /\ knl_mbf_free(g, msgsz[m]))
            /\ ~pol
            /\ k' = knl_gcb_make_wait([s EXCEPT !.tcb[c].smsg = m], c, o)

\* Receivers queue in the order they came.  Polling without success is left out.
tk_rcv_mbf(t, o) ==
  LET g == k.gcb[o]
      s == Fresh(k)
      x == Head(g.wait_queue)
  IN  /\ k.tcb[t].state = "READY"
      /\ g.objid
      /\ \/ /\ ~knl_mbf_empty(g)
            /\ k' = knl_mbf_wakeup([s EXCEPT !.gcb[o] = knl_mbf_to_msg(@),
                                             !.tcb[t].rmsg = HeadBytes(g)], o)
         \/ /\ knl_mbf_empty(g) /\ g.wait_queue # << >>
            /\ k' = knl_mbf_wakeup([Release(s, x, "E_OK") EXCEPT
                                      !.tcb[t].rmsg = Bytes(k.tcb[x].smsg)], o)
         \/ /\ knl_mbf_empty(g) /\ g.wait_queue = << >>
            /\ k' = [s EXCEPT
                       !.gcb[o].recv_queue = QueInsert(@, t),
                       !.tcb[t] = [@ EXCEPT !.state = "WAIT", !.wid = o,
                                            !.wercd = "E_TMOUT"]]

-----------------------------------------------------------------------------
(* The hooks, wait.c, task_manage.c                                        *)

Sending(s, t) == s.tcb[t].state = "WAIT" /\ t \in Elems(s.gcb[s.tcb[t].wid].wait_queue)

\* The hook of a sender that gave up; receivers have none.
knl_mbf_rel_wai(s, o, sending) == IF sending THEN knl_mbf_wakeup(s, o) ELSE s

knl_wait_release_ng(t, ercd) ==
  /\ k.tcb[t].state = "WAIT"
  /\ k' = knl_mbf_rel_wai(Release(Fresh(k), t, ercd), k.tcb[t].wid, Sending(k, t))

tk_ter_tsk(t) ==
  LET s == IF k.tcb[t].state = "WAIT"
           THEN knl_mbf_rel_wai(Release(Fresh(k), t, "E_RLWAI"), k.tcb[t].wid, Sending(k, t))
           ELSE Fresh(k)
  IN  /\ k.tcb[t].state # "DORMANT"
      /\ k' = [s EXCEPT !.tcb[t] = [@ EXCEPT !.state = "DORMANT", !.wercd = "E_OK",
                                             !.smsg = NULL]]

tk_sta_tsk(t) ==
  /\ k.tcb[t].state = "DORMANT"
  /\ k' = [Fresh(k) EXCEPT !.tcb[t].state = "READY"]

\* knl_mbf_chg_pri: a sender of a TA_TPRI buffer is sorted in again, and the
\* new first of the queue may fit.
tk_chg_pri(t, pri) ==
  LET s == [Fresh(k) EXCEPT !.tcb[t].priority = pri]
      o == k.tcb[t].wid
  IN  k' = IF Sending(k, t) /\ k.gcb[o].tpri
           THEN knl_mbf_wakeup(knl_gcb_change_priority(s, t), o) ELSE s

-----------------------------------------------------------------------------

Init ==
  \E o \in Objects :
    k \in [tcb : [Tasks -> [state : {"READY"}, priority : Pri, wid : {o},
                            wercd : {"E_OK"}, smsg : {NULL}, rmsg : {<< >>}]],
           gcb : {[p \in Objects |-> NewBuf(FALSE, FALSE, 0)]}]

Next ==
  \/ \E o \in Objects :
       \/ \E tpri \in BOOLEAN, n \in BufSizes : tk_cre_mbf(o, tpri, n)
       \/ tk_del_mbf(o)
       \/ \E c \in Tasks \cup {ISR}, m \in Messages, pol \in BOOLEAN : tk_snd_mbf(c, o, m, pol)
       \/ \E t \in Tasks : tk_rcv_mbf(t, o)
  \/ \E t \in Tasks : \/ \E e \in {"E_TMOUT", "E_RLWAI"} : knl_wait_release_ng(t, e)
                      \/ tk_ter_tsk(t)
                      \/ tk_sta_tsk(t)
                      \/ \E pri \in Pri : tk_chg_pri(t, pri)

-----------------------------------------------------------------------------
(* Properties                                                              *)

\* What the reference and debug calls report: the message that tk_rcv_mbf would
\* return next is the first of the buffer or, if it is empty, of a sender.
td_lst_mbf == {o \in Objects : k.gcb[o].objid}
td_smbf_que(o) == k.gcb[o].wait_queue
td_rmbf_que(o) == k.gcb[o].recv_queue
tk_ref_mbf(o) ==
  LET g == k.gcb[o]
  IN  [wtsk |-> knl_wait_tskid(td_rmbf_que(o)), stsk |-> knl_wait_tskid(td_smbf_que(o)),
       msgsz |-> IF ~knl_mbf_empty(g) THEN HeadSize(g)
                 ELSE IF td_smbf_que(o) # << >> THEN msgsz[k.tcb[Head(td_smbf_que(o))].smsg]
                 ELSE 0,
       frbufsz |-> g.frbufsz]
td_ref_mbf(o) == tk_ref_mbf(o)

\* The state has its type; head, tail and the free size stay inside the buffer
\* and on multiples of a header; tasks do not wait on both sides at once.
TypeOK ==
  /\ k.tcb \in [Tasks -> TCB] /\ k.gcb \in [Objects -> MBFCB]
  /\ \A o \in Objects :
       LET g == k.gcb[o]
       IN  /\ {g.head, g.tail} \subseteq 0 .. g.bufsz - 1 \cup {0}
           /\ tk_ref_mbf(o).frbufsz \in 0 .. g.bufsz
           /\ \A n \in {g.head, g.tail, g.frbufsz} : n % HEADERSZ = 0
           /\ o \in td_lst_mbf /\ td_ref_mbf(o).wtsk # {} => td_ref_mbf(o).msgsz = 0

\* The queues hold exactly the waiters, senders in one and receivers in the
\* other; the senders of a TA_TPRI buffer are in order of priority.
QueuesExact ==
  \A o \in Objects :
    LET g == k.gcb[o]
    IN  /\ Injective(g.wait_queue \o g.recv_queue)
        /\ Elems(g.wait_queue) \cup Elems(g.recv_queue) = Waiters(k, o)
        /\ g.tpri => Sorted(g.wait_queue, Priorities(k))
        /\ ~g.objid => g.wait_queue = << >> /\ g.recv_queue = << >>

\* No sender waits whose message fits and who is first, whatever made the
\* space: a receiver, a sender before it that gave up or was killed, a change
\* of priority.
NoFittingSender ==
  \A o \in Objects :
    k.gcb[o].wait_queue # << >> =>
      ~knl_mbf_free(k.gcb[o], msgsz[k.tcb[Head(k.gcb[o].wait_queue)].smsg])

\* The messages in the buffer of o, read off one after the other from the head;
\* NULL stands for bytes that are no message.
Contents(s, o) ==
  LET N == 0 .. s.gcb[o].bufsz \div (2 * HEADERSZ)
      msg(b) == IF \E m \in Messages : Bytes(m) = b
                THEN CHOOSE m \in Messages : Bytes(m) = b ELSE NULL
      rest[i \in N] == IF i = 0 THEN s.gcb[o]
                       ELSE LET g == rest[i - 1] IN IF knl_mbf_empty(g) THEN g ELSE Skip(g)
  IN  [i \in 1 .. Cardinality({j \in N : ~knl_mbf_empty(rest[j])}) |->
         msg(HeadBytes(rest[i - 1]))]

\* Every message arrives whole, once and in the order the senders were served:
\* what was in the buffer before a step, followed by the messages of the senders
\* the step serves, is what a receiver gets in it, followed by what is in the
\* buffer afterwards.  A sender that times out leaves nothing behind.
InOrderStep ==
  \A o \in Objects : k.gcb[o].objid /\ k'.gcb[o].objid =>
    LET served == SelectSeq(k.gcb[o].wait_queue,
                    LAMBDA t : k'.tcb[t].state = "READY" /\ k'.tcb[t].wercd = "E_OK")
        before == Contents(k, o) \o [i \in DOMAIN served |-> k.tcb[served[i]].smsg]
        got    == {t \in Tasks : k'.tcb[t].rmsg # << >>}
        after  == Contents(k', o)
        Is(b)  == \/ got = {} /\ b = after
                  \/ /\ b # << >> /\ after = Tail(b)
                     /\ \E t \in got : got = {t} /\ k'.tcb[t].rmsg = Bytes(Head(b))
    IN  \/ Is(before)
        \/ \E m \in Messages, c \in Tasks \cup {ISR} :
             Is(Append(before, m)) /\ tk_snd_mbf(c, o, m, TRUE)
=============================================================================

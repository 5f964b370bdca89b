------------------------------ MODULE ShimQueue ------------------------------
(***************************************************************************)
(* The queues of the FreeRTOS shim: shim_queue.c.  A ring buffer, changed  *)
(* with interrupts disabled, and two kernel semaphores (module Semaphore)  *)
(* that only carry notifications: nonempty, on which receivers sleep, and  *)
(* nonfull, on which senders do.  As in ShimSem, a task can be preempted   *)
(* between its critical section and its kernel call.                       *)
(*                                                                         *)
(* The buffer is full when one place of it is left: a queue created with   *)
(* length cap holds cap - 1 items, one of length 1 none.                   *)
(***************************************************************************)
EXTENDS Naturals, Sequences, FiniteSets

CONSTANTS
  Tasks,            \* the tasks
  Senders,          \* those that send
  Receivers,        \* those that receive
  Peekers,          \* those that peek
  Items,            \* what is sent
  cap,              \* length of the ring buffer
  nonempty, nonfull  \* the kernel semaphores

VARIABLES
  k,                \* the kernel's tasks and semaphores
  ring,             \* head, tail and data of the queue
  pc,               \* where in a call of the shim a task is
  got,              \* the item copied out last, for the comparison with Fifo
  put               \* the item sent last, for the comparison with Fifo

K == INSTANCE Semaphore
       WITH Objects <- {nonempty, nonfull}, NUM_TSKPRI <- 1, MaxSem <- cap

\* The place after place i of the buffer.
Next1(i) == (i + 1) % cap

Full == Next1(ring.tail) = ring.head
Empty == ring.head = ring.tail

\* The oldest item, as xQueuePeekFromISR reads it.
Front == ring.data[ring.head]

\* Mutant: tail moves before the item is copied.
queue_push_Late(x) ==
  /\ ring' = [data |-> [ring.data EXCEPT ![Next1(ring.tail)] = x],
              tail |-> Next1(ring.tail),
              head |-> IF Full THEN Next1(ring.head) ELSE ring.head]
  /\ put' = x

\* The critical section of queue_push once there is space or overwrite is set.
queue_push(x) ==
  /\ ring' = [data |-> [ring.data EXCEPT ![ring.tail] = x],
              tail |-> Next1(ring.tail),
              head |-> IF Full THEN Next1(ring.head) ELSE ring.head]
  /\ put' = x

\* The critical section of queue_pop on a queue with items.
queue_pop == ring' = [ring EXCEPT !.head = Next1(@)] /\ got' = Front /\ UNCHANGED put

-----------------------------------------------------------------------------

Asleep(t) == k.tcb[t].state = "WAIT"

\* A handle is used between xQueueGenericCreate and vQueueDelete.
Exists == k.gcb[nonempty].objid /\ k.gcb[nonfull].objid

\* Task t goes from label l to label m of its call; it is not asleep.
At(t, l, m) == ~Asleep(t) /\ pc[t] = l /\ pc' = [pc EXCEPT ![t] = m]

\* tk_sig_sem(o, 1); E_QOVR is ignored.
Signal(o) ==
  \/ K!tk_sig_sem(o, 1)
  \/ k.gcb[o].semcnt = k.gcb[o].maxsem /\ UNCHANGED k

\* tk_wai_sem returned without an error, at label l.
Woken(t, l) == pc[t] = l /\ ~Asleep(t) /\ k.tcb[t].wercd = "E_OK"

\* A task begins its call, or goes round its loop after it was woken.
Turn(t, l, m) == \/ Exists /\ At(t, "idle", m)
                 \/ Woken(t, l) /\ At(t, l, m)

\* Task t has read what tk_wai_sem returned; nobody reads it again.
Read(t) == k' = [k EXCEPT !.tcb[t].wercd = "E_OK", !.tcb[t].wid = nonempty]

\* Where the sender wants the item.
CopyPos == {"SEND_TO_BACK", "SEND_TO_FRONT", "OVERWRITE"}

\* xQueueGenericSend: push, or go on to wait for space.  A call that polls or
\* runs with dispatching disabled returns instead of waiting, and so does one
\* that overwrites.  SEND_TO_FRONT is taken for SEND_TO_BACK: queue_push does not
\* get to see it.
xQueueGenericSend(t, x, copy_pos) ==
  /\ Read(t) /\ UNCHANGED got
  /\ IF copy_pos = "OVERWRITE"
     THEN Exists /\ queue_push(x) /\ At(t, "idle", "signal nonempty")
     ELSE \/ ~Full /\ queue_push(x) /\ Turn(t, "sending", "signal nonempty")
          \/ Full /\ Turn(t, "sending", "wait nonfull") /\ UNCHANGED <<ring, put>>

\* xQueueReceive, and xQueueSemaphoreTake on a queue: pop, or go on to wait for
\* an item.
xQueueReceive(t) ==
  /\ Read(t)
  /\ \/ ~Empty /\ queue_pop /\ Turn(t, "receiving", "signal nonfull")
     \/ Empty /\ Turn(t, "receiving", "wait nonempty") /\ UNCHANGED <<ring, got, put>>

\* xQueuePeek: copy, and put the notification back for a receiver.
xQueuePeek(t) ==
  /\ Read(t) /\ UNCHANGED <<ring, put>>
  /\ \/ /\ ~Empty
        /\ got' = Front
        /\ Turn(t, "peeking", "signal nonempty")
     \/ Empty /\ Turn(t, "peeking", "wait peek") /\ UNCHANGED got

\* xQueuePeek with no time limit left copies without a signal.
xQueuePeekPoll(t) ==
  /\ Exists /\ ~Empty /\ At(t, "idle", "idle")
  /\ got' = Front
  /\ UNCHANGED <<k, ring, put>>

-----------------------------------------------------------------------------
(* The kernel calls of a task inside a call of the shim                    *)

SignalTask(t) ==
  /\ UNCHANGED <<ring, got, put>>
  /\ \/ Signal(nonempty) /\ At(t, "signal nonempty", "idle")
     \/ Signal(nonfull) /\ At(t, "signal nonfull", "idle")

WaitTask(t) ==
  /\ UNCHANGED <<ring, got, put>>
  /\ \/ K!tk_wai_sem(t, nonfull, 1, FALSE) /\ At(t, "wait nonfull", "sending")
     \/ K!tk_wai_sem(t, nonempty, 1, FALSE) /\ At(t, "wait nonempty", "receiving")
     \/ K!tk_wai_sem(t, nonempty, 1, FALSE) /\ At(t, "wait peek", "peeking")

\* The wait ended with an error: the call returns pdFALSE.
GiveUp(t) ==
  /\ k.tcb[t].wercd # "E_OK"
  /\ \E l \in {"sending", "receiving", "peeking"} : At(t, l, "idle")
  /\ Read(t) /\ UNCHANGED <<ring, got, put>>

Timeout(t) == K!knl_wait_release_ng(t, "E_TMOUT") /\ UNCHANGED <<ring, pc, got, put>>

-----------------------------------------------------------------------------
(* Interrupt handlers                                                      *)

xQueueGenericSendFromISR(x, copy_pos) ==
  /\ Exists /\ (copy_pos = "OVERWRITE" \/ ~Full)
  /\ queue_push(x) /\ Signal(nonempty)
  /\ UNCHANGED <<pc, got>>

xQueueReceiveFromISR ==
  Exists /\ ~Empty /\ queue_pop /\ Signal(nonfull) /\ UNCHANGED pc

-----------------------------------------------------------------------------
(* The life of a queue                                                     *)

\* queue_init: first one semaphore, then the other, which starts with a token
\* for every place.
xQueueGenericCreate ==
  /\ \A t \in Tasks : pc[t] = "idle"
  /\ \/ K!tk_cre_sem(nonempty, FALSE, FALSE, 0, cap) /\ ~k.gcb[nonfull].objid
     \/ K!tk_cre_sem(nonfull, FALSE, FALSE, cap, cap) /\ k.gcb[nonempty].objid
  /\ ring' = [ring EXCEPT !.head = 0, !.tail = 0]
  /\ UNCHANGED <<pc, got, put>>

\* Sleeping tasks return with an error.  Precondition: nobody else is inside a
\* call.
vQueueDelete ==
  /\ \A t \in Tasks : pc[t] = "idle" \/ ~Exists \/ Asleep(t)
  /\ \/ K!tk_del_sem(nonempty) /\ k.gcb[nonfull].objid
     \/ K!tk_del_sem(nonfull) /\ ~k.gcb[nonempty].objid
  /\ UNCHANGED <<ring, pc, got, put>>

\* The notifications stay as they are.  Precondition: nobody sends; a sender
\* asleep on nonfull would not be told of the space.
xQueueReset ==
  /\ Exists
  /\ \A t \in Tasks : pc[t] \notin {"wait nonfull", "sending"}
  /\ ring' = [ring EXCEPT !.head = 0, !.tail = 0]
  /\ UNCHANGED <<k, pc, got, put>>

-----------------------------------------------------------------------------

\* The queue is not created yet.
Init ==
  /\ \E x \in Items : ring = [head |-> 0, tail |-> 0, data |-> [i \in 0 .. cap - 1 |-> x]]
  /\ k = [tcb |-> [t \in Tasks |-> [state |-> "READY", priority |-> 0, cnt |-> 1,
                                    wid |-> nonempty, wercd |-> "E_OK"]],
          gcb |-> [o \in {nonempty, nonfull} |->
                     [objid |-> FALSE, tpri |-> FALSE, cnt |-> FALSE, semcnt |-> 0,
                      maxsem |-> 1, wait_queue |-> << >>]]]
  /\ pc = [t \in Tasks |-> "idle"]
  /\ got \in Items /\ put = got

\* What task t does once it is inside a call.
Step(t) == SignalTask(t) \/ WaitTask(t) \/ GiveUp(t)

Next ==
  \/ \E x \in Items, copy_pos \in CopyPos :
       xQueueGenericSendFromISR(x, copy_pos) \/ \E t \in Senders : xQueueGenericSend(t, x, copy_pos)
  \/ \E t \in Receivers : xQueueReceive(t)
  \/ \E t \in Peekers : xQueuePeek(t) \/ xQueuePeekPoll(t)
  \/ \E t \in Tasks : Step(t) \/ Timeout(t)
  \/ xQueueReceiveFromISR
  \/ xQueueGenericCreate \/ vQueueDelete \/ xQueueReset

-----------------------------------------------------------------------------
(* Properties                                                              *)

\* The items between head and tail, the oldest first.
uxQueueMessagesWaiting ==
  IF ring.tail >= ring.head THEN ring.tail - ring.head ELSE cap - ring.head + ring.tail

uxQueueSpacesAvailable ==
  IF cap > uxQueueMessagesWaiting THEN cap - uxQueueMessagesWaiting - 1 ELSE 0

Contents == [i \in 1 .. uxQueueMessagesWaiting |-> ring.data[(ring.head + i - 1) % cap]]

Card(l, S) == Cardinality({t \in S : Woken(t, l)})
Labelled(l) == Cardinality({t \in Tasks : pc[t] = l})

\* No sender sleeps past free space: while one sleeps, every free place has a
\* receiver about to signal it or a woken sender about to use it, although
\* E_QOVR drops notifications and tokens may be stale.
SpaceAnnounced ==
  (\E t \in Tasks : Asleep(t) /\ pc[t] = "sending") =>
    uxQueueSpacesAvailable <= Labelled("signal nonfull") + Card("sending", Senders)

\* No receiver or peeker sleeps past an item: every item has a signal on its
\* way or a woken task about to take it or to pass the signal on.
ItemAnnounced ==
  (\E t \in Tasks : Asleep(t) /\ pc[t] \in {"receiving", "peeking"}) =>
    uxQueueMessagesWaiting <= Labelled("signal nonempty")
              + Card("receiving", Receivers) + Card("peeking", Peekers)
=============================================================================

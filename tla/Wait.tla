-------------------------------- MODULE Wait --------------------------------
(***************************************************************************)
(* Waiting for a kernel object: wait.c and wait.h as the semaphore, mutex  *)
(* and the other objects use them.                                         *)
(*                                                                         *)
(* A state s has the control blocks s.tcb of the tasks and s.gcb of the    *)
(* objects; like the C structures, every object's control block starts     *)
(* with the fields of the generic one (GCB).  The ready queue is Task's    *)
(* business: here a READY task may run at any time, which allows more      *)
(* interleavings than the scheduler does, and a suspended task is one that *)
(* happens not to run.  A wait may time out at any time.                   *)
(***************************************************************************)
EXTENDS Queue

CONSTANTS
  Tasks,        \* the control blocks of the tasks
  Objects,      \* the control blocks of the objects
  NUM_TSKPRI    \* number of task priorities

Pri == 0 .. NUM_TSKPRI - 1

\* What a call that had to wait will return.
Error == {"E_OK", "E_TMOUT", "E_RLWAI", "E_DLT"}

\* The priorities of the tasks.
Priorities(s) == [t \in Tasks |-> s.tcb[t].priority]

\* The tasks that wait for object o.
Waiters(s, o) == {t \in Tasks : s.tcb[t].state = "WAIT" /\ s.tcb[t].wid = o}

-----------------------------------------------------------------------------

knl_wait_release(s, t, ercd) ==
  [s EXCEPT !.gcb[s.tcb[t].wid].wait_queue = QueRemove(@, t),
            !.tcb[t] = [@ EXCEPT !.state = "READY", !.wercd = ercd]]

knl_wait_release_ok(s, t) == knl_wait_release(s, t, "E_OK")

\* Every waiter is released with E_DLT.
knl_wait_delete(s, o) ==
  [s EXCEPT !.gcb[o].wait_queue = << >>,
            !.tcb = [t \in Tasks |->
                       IF t \in Elems(s.gcb[o].wait_queue)
                       THEN [@[t] EXCEPT !.state = "READY", !.wercd = "E_DLT"]
                       ELSE @[t]]]

\* The new queue of an object with task t in it, by priority or at the end.
QueueFor(s, q, t, tpri) ==
  IF tpri THEN knl_queue_insert_tpri(q, t, Priorities(s)) ELSE QueInsert(q, t)

\* knl_make_wait and the insertion into the object's queue.
knl_gcb_make_wait(s, t, o) ==
  [s EXCEPT !.gcb[o].wait_queue = QueueFor(s, @, t, s.gcb[o].tpri),
            !.tcb[t] = [@ EXCEPT !.state = "WAIT", !.wid = o, !.wercd = "E_TMOUT"]]

knl_gcb_change_priority(s, t) ==
  [s EXCEPT !.gcb[s.tcb[t].wid].wait_queue =
              knl_queue_insert_tpri(QueRemove(@, t), t, Priorities(s))]

\* The first of the queue if task t joined it.
knl_gcb_top_of_wait_queue(s, o, t) ==
  LET q == s.gcb[o].wait_queue
  IN  IF q = << >> THEN t
      ELSE IF s.gcb[o].tpri /\ s.tcb[t].priority < s.tcb[Head(q)].priority THEN t
      ELSE Head(q)

\* The first task of a queue; the empty set stands for ID 0.
knl_wait_tskid(q) == {q[i] : i \in DOMAIN q \cap {1}}

-----------------------------------------------------------------------------

\* The queue of an object holds exactly its waiters, each once, in priority
\* order when the object asks for that; an object that was deleted has none.
QueueExact(s, o, tpri) ==
  LET q == s.gcb[o].wait_queue
  IN  /\ Injective(q)
      /\ Elems(q) = Waiters(s, o)
      /\ tpri => Sorted(q, Priorities(s))
      /\ ~s.gcb[o].objid => q = << >>
=============================================================================

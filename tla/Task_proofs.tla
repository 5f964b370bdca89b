----------------------------- MODULE Task_proofs -----------------------------
(***************************************************************************)
(* Proofs about Task, for any tasks, priorities and locks.                 *)
(*                                                                         *)
(* The invariants are restated for a kernel state s, so that the lemmas    *)
(* can speak of the intermediate states inside a system call.  RQ(s, X) is *)
(* ReadyQueueExact with the tasks of X off the queues: ready_queue_delete  *)
(* takes a task out while its state still says READY.                      *)
(***************************************************************************)
EXTENDS Task, Queue_proofs

RQ(s, X) ==
  /\ \A p \in Pri :
       /\ Injective(s.tskque[p])
       /\ \A t \in Tasks : t \in Elems(s.tskque[p]) <=>
            /\ t \notin X
            /\ s.tcb[t].state = "READY"
            /\ ~s.tcb[t].klockwait
            /\ s.tcb[t].priority = p
  /\ \A p \in Pri : p \in s.bitmap <=> s.tskque[p] # << >>
  /\ \A p \in s.bitmap : s.top_priority <= p
  /\ s.top_priority \in s.bitmap \cup {NUM_TSKPRI}

First(s) == IF s.top_priority = NUM_TSKPRI THEN NoTask
            ELSE Head(s.tskque[s.top_priority])

ST(s) ==
  \/ s.schedtsk = First(s)
  \/ /\ s.schedtsk # NoTask
     /\ s.tcb[s.schedtsk].state = "READY"
     /\ s.tcb[s.schedtsk].klocked

KR(s) ==
  s.klocktsk # NoTask => /\ s.tcb[s.klocktsk].state = "READY"
                         /\ s.tcb[s.klocktsk].klocked

\* What holds of a control block on its own.
LockOK(u) ==
  /\ u.klockwait => u.state = "READY" /\ ~u.klocked /\ u.loc # NoLock
  /\ u.klocked => u.state \in {"READY", "SUSPEND"} /\ u.loc # NoLock

TcbOK(u) ==
  /\ LockOK(u)
  /\ u.wtmeb => u.state \in Waiting
  /\ u.state \in Waiting /\ u.wspec = "DLY" => u.wtmeb
  /\ u.state \in Waiting /\ u.wspec = "SLP" => u.wupcnt = 0
  /\ u.state # "NONEXIST" => (u.suscnt > 0 <=> u.state \in {"SUSPEND", "WAITSUS"})

\* The part of LocksExact that relates the locks to the tasks.
LK(s) ==
  /\ \A l \in Locks :
       /\ Injective(s.lock[l].wtskq)
       /\ \A t \in Tasks : t \in Elems(s.lock[l].wtskq) <=>
            s.tcb[t].klockwait /\ s.tcb[t].loc = l
       /\ s.lock[l].held <=> \E t \in Tasks : s.tcb[t].klocked /\ s.tcb[t].loc = l
       /\ ~s.lock[l].held => s.lock[l].wtskq = << >>
  /\ \A t, u \in Tasks :
       (s.tcb[t].klocked /\ s.tcb[u].klocked /\ s.tcb[t].loc = s.tcb[u].loc) => t = u

\* The ready queue, the scheduled task and the favoured lock holder agree.
Queues(s, X) == RQ(s, X) /\ ST(s) /\ KR(s)

-----------------------------------------------------------------------------

\* The top priority is a priority whenever a queue is not empty, and the first
\* task of its queue is one of the READY tasks.
LEMMA FirstFacts ==
  ASSUME NEW s \in Kernel, NEW X, RQ(s, X), First(s) # NoTask
  PROVE  /\ First(s) \in Tasks
         /\ s.tcb[First(s)].state = "READY"
         /\ ~s.tcb[First(s)].klockwait
         /\ First(s) \notin X
         /\ First(s) \in Elems(s.tskque[s.top_priority])
<1> DEFINE p == s.top_priority
           q == s.tskque[p]
<1>1. p \in Pri /\ q # << >> /\ q \in Seq(Tasks) /\ Injective(q) /\ First(s) = Head(q)
  BY DEF Kernel, First, RQ
<1>2. First(s) \in Tasks /\ First(s) \in Elems(q)
  BY <1>1, QueRemoveNextFacts
<1> QED BY <1>1, <1>2 DEF RQ

\* knl_reschedule makes ST true.
LEMMA RescheduleFacts ==
  ASSUME NEW s \in Kernel, NEW X, RQ(s, X), KR(s)
  PROVE  /\ knl_reschedule(s) \in Kernel
         /\ Queues(knl_reschedule(s), X)
         /\ knl_reschedule(s).schedtsk \in {s.klocktsk, First(s)}
<1> DEFINE r == knl_reschedule(s)
<1>1. ready_queue_top(s) = IF s.klocktsk # NoTask THEN s.klocktsk ELSE First(s)
  BY DEF ready_queue_top, First
<1>2. First(s) \in Tasks \cup {NoTask}
  BY FirstFacts
<1>3. r = [s EXCEPT !.schedtsk = ready_queue_top(s)]
  BY DEF knl_reschedule
<1>4. r \in Kernel
  BY <1>1, <1>2, <1>3 DEF Kernel
<1>5. RQ(r, X) /\ KR(r) /\ First(r) = First(s)
  BY <1>3 DEF RQ, KR, First, Kernel
<1>6. ST(r)
  BY <1>1, <1>3, <1>5 DEF ST, KR, Kernel
<1> QED BY <1>1, <1>3, <1>4, <1>5, <1>6 DEF Queues, Kernel

\* Inserting a READY task that is off the queues puts it on the queue of its
\* priority, wherever in that queue.
LEMMA EnqueueFacts ==
  ASSUME NEW s \in Kernel, NEW t \in Tasks, RQ(s, {t}),
         s.tcb[t].state = "READY", ~s.tcb[t].klockwait,
         NEW q \in Seq(Tasks), q # << >>, Injective(q),
         Elems(q) = Elems(s.tskque[s.tcb[t].priority]) \cup {t}
  PROVE  /\ Enqueue(s, t, q) \in Kernel
         /\ RQ(Enqueue(s, t, q), {})
         /\ KR(s) => KR(Enqueue(s, t, q))
<1> DEFINE p == s.tcb[t].priority
           r == Enqueue(s, t, q)
<1>1. p \in Pri /\ s.tcb[t] \in TCB
  BY DEF Kernel, TCB
<1>2. r = [s EXCEPT !.tskque[p] = q,
                    !.bitmap = @ \cup {p},
                    !.klocktsk = IF s.tcb[t].klocked THEN t ELSE @,
                    !.top_priority = IF p < @ THEN p ELSE @]
  BY DEF Enqueue
<1>3. r \in Kernel
  <2>1. /\ [s.tskque EXCEPT ![p] = q] \in [Pri -> Seq(Tasks)]
        /\ s.bitmap \cup {p} \in SUBSET Pri
        /\ (IF s.tcb[t].klocked THEN t ELSE s.klocktsk) \in Tasks \cup {NoTask}
        /\ s.top_priority \in 0 .. NUM_TSKPRI
    BY <1>1 DEF Kernel
  <2>2. (IF p < s.top_priority THEN p ELSE s.top_priority) \in 0 .. NUM_TSKPRI
    BY <1>1, <2>1, ConstantsAssumption DEF Pri
  <2> QED BY <1>2, <2>1, <2>2 DEF Kernel
<1>4. /\ r.tcb = s.tcb
      /\ r.tskque = [s.tskque EXCEPT ![p] = q]
      /\ r.bitmap = s.bitmap \cup {p}
      /\ r.top_priority = IF p < s.top_priority THEN p ELSE s.top_priority
      /\ r.klocktsk = IF s.tcb[t].klocked THEN t ELSE s.klocktsk
  BY <1>2 DEF Kernel
<1> HIDE DEF r
<1>5. \A x \in Pri : r.tskque[x] = IF x = p THEN q ELSE s.tskque[x]
  BY <1>1, <1>4 DEF Kernel
<1>6. ASSUME NEW x \in Pri
      PROVE  /\ Injective(r.tskque[x])
             /\ \A u \in Tasks : u \in Elems(r.tskque[x]) <=>
                  r.tcb[u].state = "READY" /\ ~r.tcb[u].klockwait /\ r.tcb[u].priority = x
             /\ x \in r.bitmap <=> r.tskque[x] # << >>
  BY <1>1, <1>4, <1>5 DEF RQ
<1>7. /\ \A x \in r.bitmap : r.top_priority <= x
      /\ r.top_priority \in r.bitmap \cup {NUM_TSKPRI}
  <2>1. /\ s.top_priority \in 0 .. NUM_TSKPRI /\ s.bitmap \subseteq Pri
        /\ NUM_TSKPRI \in Nat
        /\ \A x \in s.bitmap : s.top_priority <= x
        /\ s.top_priority \in s.bitmap \cup {NUM_TSKPRI}
    BY ConstantsAssumption DEF RQ, Kernel
  <2>2. CASE p < s.top_priority
    <3>1. r.top_priority = p /\ r.bitmap = s.bitmap \cup {p}
      BY <1>4, <2>2
    <3>2. ASSUME NEW x \in s.bitmap PROVE p <= x
      BY <1>1, <2>1, <2>2 DEF Pri
    <3> QED BY <1>1, <3>1, <3>2 DEF Pri
  <2>3. CASE ~(p < s.top_priority)
    <3>1. r.top_priority = s.top_priority /\ r.bitmap = s.bitmap \cup {p}
      BY <1>4, <2>3
    <3> QED BY <1>1, <2>1, <2>3, <3>1 DEF Pri
  <2> QED BY <2>2, <2>3
<1>8. RQ(r, {})
  BY <1>6, <1>7 DEF RQ
<1>9. KR(s) => KR(r)
  BY <1>4 DEF KR
<1> QED BY <1>3, <1>8, <1>9 DEF r

\* The locks only look at the lock fields of the control blocks.
SameLocks(s, r) ==
  /\ r.lock = s.lock
  /\ \A x \in Tasks : /\ r.tcb[x].klocked = s.tcb[x].klocked
                      /\ r.tcb[x].klockwait = s.tcb[x].klockwait
                      /\ r.tcb[x].klocked \/ r.tcb[x].klockwait
                           => r.tcb[x].loc = s.tcb[x].loc

\* The invariant of the locks depends on nothing else.
LEMMA LocksFrame ==
  ASSUME NEW s, NEW r, LK(s), SameLocks(s, r)
  PROVE  LK(r)
<1>1. ASSUME NEW l \in Locks
      PROVE  /\ \A x \in Tasks : x \in Elems(r.lock[l].wtskq) <=>
                  r.tcb[x].klockwait /\ r.tcb[x].loc = l
             /\ r.lock[l].held <=> \E x \in Tasks : r.tcb[x].klocked /\ r.tcb[x].loc = l
  BY DEF LK, SameLocks
<1> QED BY <1>1 DEF LK, SameLocks

\* On the ready queue of priority p.
Linked(u, p) == u.state = "READY" /\ ~u.klockwait /\ u.priority = p

\* The new control block u of task t, which is off the queues when t is in X,
\* belongs on the same ready queue and lock as the old one.
SamePlace(s, t, u, X) ==
  /\ X \subseteq {t}
  /\ \A p \in Pri : Linked(u, p) <=> t \notin X /\ Linked(s.tcb[t], p)
  /\ \/ s.schedtsk # t /\ s.klocktsk # t
     \/ s.tcb[t].state = "READY" /\ s.tcb[t].klocked => u.state = "READY" /\ u.klocked
  /\ u.klocked = s.tcb[t].klocked
  /\ u.klockwait = s.tcb[t].klockwait
  /\ u.klocked \/ u.klockwait => u.loc = s.tcb[t].loc

SetTcb(s, t, u) == [s EXCEPT !.tcb[t] = u]

\* Such a change disturbs neither the queues nor the locks.
LEMMA UpdateFacts ==
  ASSUME NEW s \in Kernel, NEW t \in Tasks, NEW u \in TCB, NEW X,
         Queues(s, X), LK(s), SamePlace(s, t, u, X),
         NEW r, r = SetTcb(s, t, u)
  PROVE  r \in Kernel /\ Queues(r, {}) /\ LK(r)
<1>1. /\ r \in Kernel
      /\ r.tcb = [s.tcb EXCEPT ![t] = u]
      /\ r.tskque = s.tskque /\ r.bitmap = s.bitmap /\ r.top_priority = s.top_priority
      /\ r.klocktsk = s.klocktsk /\ r.schedtsk = s.schedtsk /\ r.lock = s.lock
  BY DEF Kernel, SetTcb
<1>2. \A x \in Tasks : r.tcb[x] = IF x = t THEN u ELSE s.tcb[x]
  BY <1>1 DEF Kernel
<1>3. RQ(r, {})
  <2>1. ASSUME NEW p \in Pri, NEW x \in Tasks
        PROVE  x \in Elems(r.tskque[p]) <=> Linked(r.tcb[x], p)
    BY <1>1, <1>2 DEF Queues, RQ, Linked, SamePlace
  <2> QED BY <1>1, <2>1 DEF Queues, RQ, Linked
<1>4. First(r) = First(s)
  BY <1>1 DEF First
<1>5. ST(r) /\ KR(r)
  BY <1>1, <1>2, <1>4 DEF Queues, ST, KR, Kernel, SamePlace
<1>6. SameLocks(s, r)
  BY <1>1, <1>2 DEF SamePlace, SameLocks
<1>7. LK(r)
  BY <1>1, <1>6, LocksFrame
<1> QED BY <1>1, <1>3, <1>5, <1>7 DEF Queues

\* calc_top_priority finds the first non-empty queue when no queue before pos
\* is in use.
LEMMA CalcTopFacts ==
  ASSUME NEW B \in SUBSET Pri, NEW pos \in Pri, \A x \in B : pos <= x
  PROVE  /\ calc_top_priority(B, pos) \in B \cup {NUM_TSKPRI}
         /\ calc_top_priority(B, pos) \in 0 .. NUM_TSKPRI
         /\ \A x \in B : calc_top_priority(B, pos) <= x
<1> DEFINE m == calc_top_priority(B, pos)
<1>1. NUM_TSKPRI - 1 \in Nat /\ NUM_TSKPRI \in Nat
  BY ConstantsAssumption
<1>2. CASE B = {}
  BY <1>1, <1>2 DEF calc_top_priority
<1>3. CASE B # {}
  <2>1. \E p \in B : \A x \in B : p <= x
    BY <1>1, <1>3, MinimumExists DEF Pri
  <2>2. \E p \in B : p >= pos /\ \A q \in B : q >= pos => p <= q
    BY <2>1 DEF Pri
  <2>3. m \in B /\ m >= pos /\ \A q \in B : q >= pos => m <= q
    BY <2>2 DEF calc_top_priority
  <2> HIDE DEF m
  <2>4. \A x \in B : m <= x
    BY <2>3 DEF Pri
  <2>5. m \in 0 .. NUM_TSKPRI
    BY <1>1, <2>3 DEF Pri
  <2> QED BY <2>3, <2>4, <2>5 DEF m
<1> QED BY <1>2, <1>3

\* The parts of the state a queue operation on task t leaves alone.
SameContext(s, r) ==
  /\ r.ctxtsk = s.ctxtsk
  /\ r.dispatch_disabled = s.dispatch_disabled
  /\ r.idle = s.idle

\* A READY task that is not parked on a lock leaves its ready queue.
LEMMA DeleteQueueFacts ==
  ASSUME NEW s \in Kernel, NEW t \in Tasks, Queues(s, {}), LK(s),
         s.tcb[t].state = "READY", ~s.tcb[t].klockwait,
         NEW r, r = ready_queue_delete(s, t)
  PROVE  /\ r \in Kernel /\ RQ(r, {t}) /\ KR(r) /\ LK(r)
         /\ r.tcb = s.tcb /\ r.schedtsk = s.schedtsk /\ r.klocktsk # t
         /\ s.schedtsk # t => ST(r)
         /\ SameContext(s, r)
<1> DEFINE p == s.tcb[t].priority
           q == QueRemove(s.tskque[p], t)
           B == IF q # << >> THEN s.bitmap ELSE s.bitmap \ {p}
           m == IF q # << >> \/ p # s.top_priority THEN s.top_priority
                ELSE calc_top_priority(B, p)
           kl == IF s.klocktsk = t THEN NoTask ELSE s.klocktsk
<1>1. /\ p \in Pri /\ s.tskque[p] \in Seq(Tasks) /\ Injective(s.tskque[p])
      /\ t \in Elems(s.tskque[p]) /\ s.tskque[p] # << >> /\ p \in s.bitmap
      /\ s.bitmap \subseteq Pri
      /\ s.top_priority \in 0 .. NUM_TSKPRI
      /\ \A x \in s.bitmap : s.top_priority <= x
      /\ s.top_priority \in s.bitmap \cup {NUM_TSKPRI}
  <2>1. p \in Pri /\ s.tskque[p] \in Seq(Tasks) /\ s.bitmap \subseteq Pri
        /\ s.top_priority \in 0 .. NUM_TSKPRI
    BY DEF Kernel, TCB
  <2>2. Injective(s.tskque[p]) /\ t \in Elems(s.tskque[p])
    BY <2>1 DEF Queues, RQ
  <2>3. s.tskque[p] # << >>
    BY <2>2 DEF Elems
  <2> QED BY <2>1, <2>2, <2>3 DEF Queues, RQ
<1>2. q \in Seq(Tasks) /\ Elems(q) = Elems(s.tskque[p]) \ {t} /\ Injective(q)
  BY <1>1, QueRemoveFacts
<1>3. /\ r.tskque = [s.tskque EXCEPT ![p] = q]
      /\ r.bitmap = B /\ r.top_priority = m /\ r.klocktsk = kl
      /\ r.tcb = s.tcb /\ r.lock = s.lock /\ r.schedtsk = s.schedtsk
      /\ SameContext(s, r)
  BY DEF ready_queue_delete, Kernel, SameContext
<1>4. m \in 0 .. NUM_TSKPRI /\ (\A x \in B : m <= x) /\ m \in B \cup {NUM_TSKPRI}
  <2>1. CASE q # << >>
    BY <1>1, <2>1
  <2>2. CASE q = << >> /\ p = s.top_priority
    <3>1. B \in SUBSET Pri /\ \A x \in B : p <= x
      BY <1>1, <2>2
    <3>2. m = calc_top_priority(B, p)
      BY <2>2
    <3> HIDE DEF B, m
    <3> QED BY <1>1, <3>1, <3>2, CalcTopFacts, ZenonT(30)
  <2>3. CASE q = << >> /\ p # s.top_priority
    BY <1>1, <2>3
  <2> QED BY <2>1, <2>2, <2>3
<1>5. r \in Kernel
  <2>1. /\ [s.tskque EXCEPT ![p] = q] \in [Pri -> Seq(Tasks)]
        /\ B \in SUBSET Pri /\ kl \in Tasks \cup {NoTask}
    BY <1>1, <1>2 DEF Kernel
  <2>2. r = [s EXCEPT !.tskque = [s.tskque EXCEPT ![p] = q], !.bitmap = B,
                      !.top_priority = m, !.klocktsk = kl]
    BY DEF ready_queue_delete, Kernel
  <2> HIDE DEF B, m, kl, q
  <2> QED BY <1>4, <2>1, <2>2 DEF Kernel
<1> HIDE DEF m
<1>6. \A x \in Pri : r.tskque[x] = IF x = p THEN q ELSE s.tskque[x]
  BY <1>1, <1>3 DEF Kernel
<1>7. RQ(r, {t})
  <2>1. ASSUME NEW x \in Pri
        PROVE  /\ Injective(r.tskque[x])
               /\ \A u \in Tasks : u \in Elems(r.tskque[x]) <=>
                    /\ u \notin {t} /\ r.tcb[u].state = "READY"
                    /\ ~r.tcb[u].klockwait /\ r.tcb[u].priority = x
               /\ x \in r.bitmap <=> r.tskque[x] # << >>
    <3>1. Injective(r.tskque[x])
      BY <1>2, <1>6 DEF Queues, RQ
    <3>2. \A u \in Tasks : u \in Elems(r.tskque[x]) <=> u # t /\ u \in Elems(s.tskque[x])
      <4>1. CASE x = p
        BY <1>2, <1>6, <4>1
      <4>2. CASE x # p
        BY <1>6, <4>2 DEF Queues, RQ
      <4> QED BY <4>1, <4>2
    <3>3. \A u \in Tasks : u \in Elems(s.tskque[x]) <=>
            /\ s.tcb[u].state = "READY"
            /\ ~s.tcb[u].klockwait /\ s.tcb[u].priority = x
      BY DEF Queues, RQ
    <3>4. \A u \in Tasks : u \in Elems(r.tskque[x]) <=>
            /\ u \notin {t} /\ r.tcb[u].state = "READY"
            /\ ~r.tcb[u].klockwait /\ r.tcb[u].priority = x
      BY <1>3, <3>2, <3>3, Zenon
    <3>5. x \in r.bitmap <=> r.tskque[x] # << >>
      BY <1>1, <1>3, <1>6 DEF Queues, RQ
    <3> QED BY <3>1, <3>4, <3>5
  <2>2. /\ \A x \in r.bitmap : r.top_priority <= x
        /\ r.top_priority \in r.bitmap \cup {NUM_TSKPRI}
    BY <1>3, <1>4
  <2>3. \A x \in Pri :
          /\ Injective(r.tskque[x])
          /\ \A u \in Tasks : u \in Elems(r.tskque[x]) <=>
               /\ u \notin {t} /\ r.tcb[u].state = "READY"
               /\ ~r.tcb[u].klockwait /\ r.tcb[u].priority = x
    BY ONLY <2>1
  <2>4. \A x \in Pri : x \in r.bitmap <=> r.tskque[x] # << >>
    BY ONLY <2>1
  <2> QED BY ONLY <2>2, <2>3, <2>4 DEF RQ
<1>8. KR(r) /\ r.klocktsk # t
  BY <1>3, ConstantsAssumption DEF Queues, KR
<1>9. LK(r)
  BY <1>3 DEF LK
<1>10. ASSUME s.schedtsk # t PROVE ST(r)
  <2>1. CASE s.schedtsk = First(s)
    <3>1. CASE s.top_priority = p
      <4>1. First(s) = Head(s.tskque[p]) /\ First(s) # t
        BY <1>1, <1>10, <2>1, <3>1 DEF First, Pri
      <4>2. q # << >> /\ Head(q) = Head(s.tskque[p])
        BY <1>1, <4>1, QueRemoveHead
      <4>3. r.top_priority = p /\ r.tskque[p] = q
        BY <1>1, <1>3, <1>6, <3>1, <4>2 DEF m
      <4> QED BY <1>3, <2>1, <3>1, <4>1, <4>2, <4>3 DEF ST, First
    <3>2. CASE s.top_priority # p
      <4>1. r.top_priority = s.top_priority
        BY <1>3, <3>2 DEF m
      <4>2. r.top_priority # NUM_TSKPRI => r.tskque[r.top_priority] = s.tskque[s.top_priority]
        BY <1>1, <1>6, <3>2, <4>1
      <4> QED BY <1>3, <2>1, <4>1, <4>2 DEF ST, First
    <3> QED BY <3>1, <3>2
  <2>2. CASE s.schedtsk # First(s)
    BY <1>3, <2>2 DEF Queues, ST
  <2> QED BY <2>1, <2>2
<1> QED BY <1>3, <1>5, <1>7, <1>8, <1>9, <1>10

\* A READY task parked on a lock leaves the queue of the lock.
LEMMA DeleteLockFacts ==
  ASSUME NEW s \in Kernel, NEW t \in Tasks, Queues(s, {}), LK(s), LockOK(s.tcb[t]),
         s.tcb[t].klockwait,
         NEW r, r = ready_queue_delete(s, t)
  PROVE  /\ r \in Kernel /\ RQ(r, {t}) /\ KR(r) /\ LK(r)
         /\ r.tcb = [s.tcb EXCEPT ![t] = [s.tcb[t] EXCEPT !.klockwait = FALSE]]
         /\ r.schedtsk = s.schedtsk /\ r.klocktsk # t
         /\ s.schedtsk # t => ST(r)
         /\ SameContext(s, r)
<1> DEFINE l == s.tcb[t].loc
           u == [s.tcb[t] EXCEPT !.klockwait = FALSE]
           q == QueRemove(s.lock[l].wtskq, t)
           b == [s.lock[l] EXCEPT !.wtskq = q]
           kl == IF s.klocktsk = t THEN NoTask ELSE s.klocktsk
<1>1. /\ s.tcb[t] \in TCB /\ l \in Locks /\ s.tcb[t].state = "READY" /\ ~s.tcb[t].klocked
      /\ s.lock[l] \in [held : BOOLEAN, wtskq : Seq(Tasks)]
  BY DEF Kernel, TCB, LockOK
<1>2. u \in TCB /\ u.state = "READY" /\ u.loc = l /\ ~u.klocked /\ ~u.klockwait
  BY <1>1 DEF TCB
<1>3. q \in Seq(Tasks) /\ Elems(q) = Elems(s.lock[l].wtskq) \ {t} /\ Injective(q)
  <2>1. s.lock[l].wtskq \in Seq(Tasks) /\ Injective(s.lock[l].wtskq)
    BY <1>1 DEF LK
  <2> QED BY <2>1, QueRemoveFacts
<1>4. /\ b \in [held : BOOLEAN, wtskq : Seq(Tasks)]
      /\ b.wtskq = q /\ b.held = s.lock[l].held
  BY <1>1, <1>3
<1>5. /\ r.tskque = s.tskque /\ r.bitmap = s.bitmap /\ r.top_priority = s.top_priority
      /\ r.klocktsk = kl
      /\ r.tcb = [s.tcb EXCEPT ![t] = u]
      /\ r.lock = [s.lock EXCEPT ![l] = b]
      /\ r.schedtsk = s.schedtsk
      /\ SameContext(s, r)
  BY DEF ready_queue_delete, Kernel, SameContext
<1>6. r \in Kernel
  <2>1. /\ [s.tcb EXCEPT ![t] = u] \in [Tasks -> TCB]
        /\ [s.lock EXCEPT ![l] = b] \in [Locks -> [held : BOOLEAN, wtskq : Seq(Tasks)]]
        /\ kl \in Tasks \cup {NoTask}
    BY <1>2, <1>4 DEF Kernel
  <2>2. r = [s EXCEPT !.tcb = [s.tcb EXCEPT ![t] = u],
                      !.lock = [s.lock EXCEPT ![l] = b], !.klocktsk = kl]
    BY DEF ready_queue_delete, Kernel
  <2> HIDE DEF u, b, kl
  <2> QED BY <2>1, <2>2 DEF Kernel
<1> HIDE DEF u, b, q
<1>7. /\ \A x \in Tasks : r.tcb[x] = IF x = t THEN u ELSE s.tcb[x]
      /\ \A x \in Locks : r.lock[x] = IF x = l THEN b ELSE s.lock[x]
  BY <1>1, <1>5 DEF Kernel
<1>8. RQ(r, {t})
  <2>1. ASSUME NEW p \in Pri, NEW x \in Tasks
        PROVE  x \in Elems(r.tskque[p]) <=> x # t /\ Linked(r.tcb[x], p)
    BY <1>5, <1>7 DEF Queues, RQ, Linked
  <2> QED BY <1>5, <2>1 DEF Queues, RQ, Linked
<1>9. KR(r) /\ r.klocktsk # t
  BY <1>5, <1>7, ConstantsAssumption DEF Queues, KR, Kernel
<1>10. LK(r)
  <2>1. \A x \in Tasks : r.tcb[x].klocked = s.tcb[x].klocked /\ r.tcb[x].loc = s.tcb[x].loc
    BY <1>1, <1>2, <1>7, ZenonT(30) DEF Kernel, TCB
  <2>2. \A x \in Tasks : r.tcb[x].klockwait <=> s.tcb[x].klockwait /\ x # t
    BY <1>2, <1>7
  <2>3. ASSUME NEW x \in Locks
        PROVE  /\ Injective(r.lock[x].wtskq)
               /\ \A y \in Tasks : y \in Elems(r.lock[x].wtskq) <=>
                    r.tcb[y].klockwait /\ r.tcb[y].loc = x
               /\ r.lock[x].held <=> \E y \in Tasks : r.tcb[y].klocked /\ r.tcb[y].loc = x
    BY <1>3, <1>4, <1>7, <2>1, <2>2 DEF LK
  <2>4. ASSUME NEW x \in Locks, ~r.lock[x].held PROVE r.lock[x].wtskq = << >>
    <3>1. CASE x = l
      <4>1. ~s.lock[l].held /\ s.lock[l].wtskq = << >> /\ t \in Elems(s.lock[l].wtskq)
        BY <1>1, <1>4, <1>7, <2>4, <3>1 DEF LK
      <4> QED BY <4>1 DEF Elems
    <3> QED BY <1>7, <2>4, <3>1 DEF LK
  <2> QED BY <2>1, <2>3, <2>4 DEF LK
<1>11. ASSUME s.schedtsk # t PROVE ST(r)
  <2>1. First(r) = First(s)
    BY <1>5 DEF First
  <2> QED BY <1>5, <1>7, <1>11, <2>1 DEF Queues, ST, Kernel
<1> QED BY <1>5, <1>6, <1>8, <1>9, <1>10, <1>11 DEF u

\* ready_queue_delete of a READY task, in both cases.
LEMMA DeleteFacts ==
  ASSUME NEW s \in Kernel, NEW t \in Tasks, Queues(s, {}), LK(s), LockOK(s.tcb[t]),
         s.tcb[t].state = "READY",
         NEW r, r = ready_queue_delete(s, t)
  PROVE  /\ r \in Kernel /\ RQ(r, {t}) /\ KR(r) /\ LK(r)
         /\ r.tcb = [s.tcb EXCEPT ![t] = [s.tcb[t] EXCEPT !.klockwait = FALSE]]
         /\ r.schedtsk = s.schedtsk /\ r.klocktsk # t
         /\ s.schedtsk # t => ST(r)
         /\ SameContext(s, r)
<1>1. CASE s.tcb[t].klockwait
  BY <1>1, DeleteLockFacts
<1>2. CASE ~s.tcb[t].klockwait
  <2>1. s.tcb = [s.tcb EXCEPT ![t] = [s.tcb[t] EXCEPT !.klockwait = FALSE]]
    <3>1. s.tcb[t] = [s.tcb[t] EXCEPT !.klockwait = FALSE]
      BY <1>2 DEF Kernel, TCB
    <3> QED BY <3>1 DEF Kernel
  <2> QED BY <1>2, <2>1, DeleteQueueFacts
<1> QED BY <1>1, <1>2

Others(s, r, t) == \A x \in Tasks : x # t => r.tcb[x] = s.tcb[x]

Unparked(v) == [v EXCEPT !.klockwait = FALSE]

\* knl_make_non_ready leaves a schedule without the task.
LEMMA MakeNonReadyFacts ==
  ASSUME NEW s \in Kernel, NEW t \in Tasks, Queues(s, {}), LK(s), LockOK(s.tcb[t]),
         s.tcb[t].state = "READY",
         NEW r, r = knl_make_non_ready(s, t)
  PROVE  /\ r \in Kernel /\ Queues(r, {t}) /\ LK(r)
         /\ r.tcb[t] = Unparked(s.tcb[t]) /\ Others(s, r, t)
         /\ r.schedtsk # t /\ r.klocktsk # t
         /\ SameContext(s, r)
<1> DEFINE d == ready_queue_delete(s, t)
<1>1. /\ d \in Kernel /\ RQ(d, {t}) /\ KR(d) /\ LK(d)
      /\ d.tcb = [s.tcb EXCEPT ![t] = [s.tcb[t] EXCEPT !.klockwait = FALSE]]
      /\ d.schedtsk = s.schedtsk /\ d.klocktsk # t
      /\ s.schedtsk # t => ST(d)
      /\ SameContext(s, d)
  BY DeleteFacts
<1>2. r = IF s.schedtsk = t THEN knl_reschedule(d) ELSE d
  BY DEF knl_make_non_ready
<1> HIDE DEF d
<1>0. d.tcb[t] = Unparked(s.tcb[t]) /\ Others(s, d, t)
  BY <1>1 DEF Unparked, Others, Kernel
<1>3. CASE s.schedtsk # t
  BY <1>0, <1>1, <1>2, <1>3 DEF Queues
<1>4. CASE s.schedtsk = t
  <2>1. /\ r \in Kernel /\ Queues(r, {t})
        /\ r.schedtsk \in {d.klocktsk, First(d)}
    BY <1>1, <1>2, <1>4, RescheduleFacts
  <2>2. First(d) # t
    BY <1>1, FirstFacts, ConstantsAssumption
  <2>3. /\ r.tcb = d.tcb /\ r.lock = d.lock /\ r.klocktsk = d.klocktsk
        /\ SameContext(d, r)
    BY <1>1, <1>2, <1>4 DEF knl_reschedule, SameContext, Kernel
  <2>4. LK(r)
    BY <1>1, <2>3 DEF LK
  <2> QED BY <1>0, <1>1, <2>1, <2>2, <2>3, <2>4 DEF SameContext, Others
<1> QED BY <1>3, <1>4

\* knl_make_ready queues the task and keeps knl_schedtsk right without a
\* search: only a priority above the top one can change it.
LEMMA MakeReadyFacts ==
  ASSUME NEW s \in Kernel, NEW t \in Tasks, Queues(s, {}), LK(s),
         s.tcb[t].state # "READY", ~s.tcb[t].klockwait,
         NEW r, r = knl_make_ready(s, t)
  PROVE  /\ r \in Kernel /\ Queues(r, {}) /\ LK(r)
         /\ r.tcb = [s.tcb EXCEPT ![t] = [s.tcb[t] EXCEPT !.state = "READY"]]
         /\ SameContext(s, r)
<1> DEFINE u == [s.tcb[t] EXCEPT !.state = "READY"]
           s0 == [s EXCEPT !.tcb = [s.tcb EXCEPT ![t] = u]]
           p == s.tcb[t].priority
           q == QueInsert(s.tskque[p], t)
           s1 == Enqueue(s0, t, q)
<1>1. /\ s.tcb[t] \in TCB /\ u \in TCB /\ u.state = "READY" /\ ~u.klockwait
      /\ u.priority = p /\ u.klocked = s.tcb[t].klocked /\ u.loc = s.tcb[t].loc
      /\ p \in Pri /\ s.tskque[p] \in Seq(Tasks)
      /\ s.top_priority \in 0 .. NUM_TSKPRI
      /\ t # NoTask
  <2>1. s.tcb[t] \in TCB /\ s.top_priority \in 0 .. NUM_TSKPRI /\ t # NoTask
    BY ConstantsAssumption DEF Kernel
  <2>2. /\ u \in TCB /\ u.state = "READY" /\ ~u.klockwait /\ p \in Pri
        /\ u.priority = p /\ u.klocked = s.tcb[t].klocked /\ u.loc = s.tcb[t].loc
    BY <2>1 DEF TCB, TaskState
  <2>3. s.tskque[p] \in Seq(Tasks)
    BY <2>2 DEF Kernel
  <2> QED BY <2>1, <2>2, <2>3
<1>2. /\ s0 \in Kernel
      /\ s0.tskque = s.tskque /\ s0.bitmap = s.bitmap /\ s0.top_priority = s.top_priority
      /\ s0.klocktsk = s.klocktsk /\ s0.schedtsk = s.schedtsk /\ s0.lock = s.lock
      /\ s0.tcb = [s.tcb EXCEPT ![t] = u]
      /\ \A x \in Tasks : s0.tcb[x] = IF x = t THEN u ELSE s.tcb[x]
      /\ SameContext(s, s0)
  BY <1>1 DEF Kernel, SameContext
<1>3. r = IF p < s.top_priority THEN [s1 EXCEPT !.schedtsk = t] ELSE s1
  <2>1. s0.tcb[t].priority = p
    BY <1>1, <1>2
  <2>2. ready_queue_insert(s0, t) = s1
    BY <1>2, <2>1 DEF ready_queue_insert
  <2> QED BY <2>2 DEF knl_make_ready
<1> HIDE DEF s0, u
<1>4. RQ(s0, {t})
  <2>1. ASSUME NEW x \in Pri, NEW y \in Tasks
        PROVE  y \in Elems(s0.tskque[x]) <=> y # t /\ Linked(s0.tcb[y], x)
    BY <1>2 DEF Queues, RQ, Linked
  <2> QED BY <1>2, <2>1 DEF Queues, RQ, Linked
<1>5. KR(s0)
  BY <1>2 DEF Queues, KR, Kernel
<1>6. /\ q \in Seq(Tasks) /\ q # << >> /\ Injective(q)
      /\ Elems(q) = Elems(s.tskque[p]) \cup {t}
      /\ t \notin Elems(s.tskque[p])
  <2>1. Injective(s.tskque[p]) /\ t \notin Elems(s.tskque[p])
    BY <1>1 DEF Queues, RQ
  <2>2. s.tskque[p] \in Seq(Tasks)
    BY <1>1
  <2> DEFINE q0 == s.tskque[p]
  <2> HIDE DEF q0
  <2>3. q0 \in Seq(Tasks) /\ Injective(q0) /\ t \notin Elems(q0)
    BY <2>1, <2>2 DEF q0
  <2>4. /\ QueInsert(q0, t) \in Seq(Tasks) /\ QueInsert(q0, t) # << >>
        /\ Injective(QueInsert(q0, t))
        /\ Elems(QueInsert(q0, t)) = Elems(q0) \cup {t}
    BY ONLY <2>3, QueInsertFacts, t \in Tasks
  <2> QED BY <2>3, <2>4 DEF q0
<1>7. s1 \in Kernel /\ RQ(s1, {}) /\ KR(s1)
  BY <1>1, <1>2, <1>4, <1>5, <1>6, EnqueueFacts
<1>8. /\ s1.tcb = s0.tcb /\ s1.lock = s0.lock /\ s1.schedtsk = s.schedtsk
      /\ s1.tskque = [s.tskque EXCEPT ![p] = q]
      /\ s1.top_priority = IF p < s.top_priority THEN p ELSE s.top_priority
      /\ SameContext(s, s1)
  BY <1>1, <1>2 DEF Enqueue, Kernel, SameContext
<1> HIDE DEF s1
<1>9. LK(s1)
  <2>1. \A x \in Tasks : /\ s1.tcb[x].klocked = s.tcb[x].klocked
                         /\ s1.tcb[x].klockwait <=> s.tcb[x].klockwait
                         /\ s1.tcb[x].loc = s.tcb[x].loc
    BY <1>1, <1>2, <1>8
  <2> QED BY <1>2, <1>8, <2>1 DEF LK
<1>10. CASE p < s.top_priority
  <2>1. s.tskque[p] = << >>
    BY <1>1, <1>10 DEF Queues, RQ, Pri
  <2>2. Head(q) = t
    BY <2>1 DEF QueInsert
  <2>3. r = [s1 EXCEPT !.schedtsk = t]
    BY <1>3, <1>10
  <2>4. /\ r \in Kernel /\ r.tskque = s1.tskque /\ r.top_priority = p /\ r.tcb = s1.tcb
        /\ r.bitmap = s1.bitmap /\ r.klocktsk = s1.klocktsk /\ r.lock = s1.lock
        /\ r.schedtsk = t /\ SameContext(s1, r)
    BY <1>7, <1>8, <1>10, <2>3 DEF Kernel, SameContext
  <2>5. RQ(r, {}) /\ KR(r) /\ LK(r)
    <3>1. s1.top_priority = r.top_priority
      BY <1>8, <1>10, <2>4
    <3> QED BY <1>7, <1>9, <2>4, <3>1 DEF RQ, KR, LK
  <2>6. ST(r)
    <3>1. p # NUM_TSKPRI /\ r.tskque[p] = q
      BY <1>1, <1>8, <2>4, ConstantsAssumption DEF Pri, Kernel
    <3> QED BY <2>2, <2>4, <3>1 DEF ST, First
  <2> QED BY <1>2, <1>8, <2>4, <2>5, <2>6 DEF Queues, SameContext, u
<1>11. CASE ~(p < s.top_priority)
  <2>1. r = s1 /\ r.top_priority = s.top_priority
    BY <1>3, <1>8, <1>11
  <2>2. s.top_priority \in Pri /\ s.tskque[s.top_priority] # << >>
    BY <1>1, <1>11, ConstantsAssumption DEF Queues, RQ, Pri
  <2>3. Head(r.tskque[s.top_priority]) = Head(s.tskque[s.top_priority])
    <3>1. CASE p = s.top_priority
      <4>1. r.tskque[p] = q
        BY <1>1, <1>8, <2>1 DEF Kernel
      <4> QED BY <1>1, <2>2, <3>1, <4>1, QueInsertHead
    <3>2. CASE p # s.top_priority
      BY <1>1, <1>8, <2>1, <2>2, <3>2 DEF Kernel
    <3> QED BY <3>1, <3>2
  <2>4. ST(r)
    <3>1. First(r) = First(s)
      BY <2>1, <2>3 DEF First
    <3>2. CASE s.schedtsk = First(s)
      BY <1>8, <2>1, <3>1, <3>2 DEF ST
    <3>3. CASE s.schedtsk # First(s)
      <4>1. s.schedtsk \in Tasks /\ s.schedtsk # t
        BY <3>3 DEF Queues, ST, Kernel
      <4>2. r.tcb[s.schedtsk] = s0.tcb[s.schedtsk] /\ r.schedtsk = s.schedtsk
        BY <1>8, <2>1
      <4>3. s0.tcb[s.schedtsk] = s.tcb[s.schedtsk]
        BY <1>2, <4>1
      <4> QED BY <3>3, <4>2, <4>3 DEF Queues, ST
    <3> QED BY <3>2, <3>3
  <2> QED BY <1>2, <1>7, <1>8, <1>9, <2>1, <2>4 DEF Queues, u
<1> QED BY <1>10, <1>11

\* A change of priority moves a READY task to another queue, from the queue of
\* the lock too, and leaves another task where it is.
Moved(v, pri) == [v EXCEPT !.priority = pri, !.klockwait = FALSE]

\* knl_change_task_priority: the task is in the queue of its new priority.
LEMMA ChangePriorityFacts ==
  ASSUME NEW s \in Kernel, NEW t \in Tasks, Queues(s, {}), LK(s), LockOK(s.tcb[t]),
         NEW pri \in Pri,
         NEW r, r = knl_change_task_priority(s, t, pri)
  PROVE  /\ r \in Kernel /\ Queues(r, {}) /\ LK(r)
         /\ r.tcb[t] = Moved(s.tcb[t], pri) /\ Others(s, r, t)
         /\ SameContext(s, r)
<1>1. CASE s.tcb[t].state # "READY"
  <2> DEFINE u == [s.tcb[t] EXCEPT !.priority = pri]
  <2>1. s.tcb[t] \in TCB /\ ~s.tcb[t].klockwait
    BY <1>1 DEF Kernel, LockOK
  <2>2. /\ u \in TCB /\ u.state = s.tcb[t].state /\ u.klockwait = s.tcb[t].klockwait
        /\ u.klocked = s.tcb[t].klocked /\ u.loc = s.tcb[t].loc
        /\ u = [s.tcb[t] EXCEPT !.priority = pri, !.klockwait = FALSE]
    BY <2>1 DEF TCB
  <2>3. r = SetTcb(s, t, u)
    BY <1>1 DEF knl_change_task_priority, SetTcb
  <2> HIDE DEF u
  <2>4. r \in Kernel /\ Queues(r, {}) /\ LK(r)
    <3>1. SamePlace(s, t, u, {})
      BY <1>1, <2>2 DEF Linked, SamePlace
    <3> QED BY <1>1, <2>2, <2>3, <3>1, UpdateFacts
  <2>5. r.tcb[t] = u /\ Others(s, r, t) /\ SameContext(s, r)
    BY <2>3 DEF Kernel, SameContext, SetTcb, Others
  <2> QED BY <2>2, <2>4, <2>5 DEF Moved
<1>2. CASE s.tcb[t].state = "READY"
  <2> DEFINE d == ready_queue_delete(s, t)
             u == [s.tcb[t] EXCEPT !.priority = pri, !.klockwait = FALSE]
             s0 == [d EXCEPT !.tcb[t].priority = pri]
             q == QueInsert(s0.tskque[pri], t)
             s1 == Enqueue(s0, t, q)
  <2>1. /\ d \in Kernel /\ RQ(d, {t}) /\ KR(d) /\ LK(d) /\ d.klocktsk # t
        /\ d.tcb = [s.tcb EXCEPT ![t] = [s.tcb[t] EXCEPT !.klockwait = FALSE]]
        /\ SameContext(s, d)
    BY <1>2, DeleteFacts
  <2> HIDE DEF d
  <2>2. /\ s.tcb[t] \in TCB /\ u \in TCB /\ u.state = "READY" /\ ~u.klockwait
        /\ u.priority = pri /\ u.klocked = s.tcb[t].klocked /\ u.loc = s.tcb[t].loc
    <3>1. s.tcb[t] \in TCB
      BY DEF Kernel
    <3> QED BY <1>2, <3>1 DEF TCB
  <2>3. s0 = [d EXCEPT !.tcb = [s.tcb EXCEPT ![t] = u]]
    <3>1. d.tcb[t] = [s.tcb[t] EXCEPT !.klockwait = FALSE]
      BY <2>1 DEF Kernel
    <3>2. [d.tcb[t] EXCEPT !.priority = pri] = u
      BY <2>2, <3>1 DEF TCB
    <3> HIDE DEF u
    <3>3. [d.tcb EXCEPT ![t] = u] = [s.tcb EXCEPT ![t] = u]
      BY <2>1 DEF Kernel
    <3> QED BY <3>2, <3>3
  <2>4. /\ s0 \in Kernel
        /\ s0.tskque = d.tskque /\ s0.bitmap = d.bitmap /\ s0.top_priority = d.top_priority
        /\ s0.klocktsk = d.klocktsk /\ s0.lock = d.lock
        /\ s0.tcb = [s.tcb EXCEPT ![t] = u] /\ s0.tcb[t] = u
        /\ \A x \in Tasks : x # t => s0.tcb[x] = d.tcb[x]
        /\ SameContext(s, s0)
    <3> DEFINE w == [s.tcb EXCEPT ![t] = u]
    <3> HIDE DEF s0, u
    <3>1. /\ w \in [Tasks -> TCB] /\ w[t] = u
          /\ \A x \in Tasks : x # t => w[x] = d.tcb[x]
      BY <2>1, <2>2 DEF Kernel
    <3>2. s0 = [d EXCEPT !.tcb = w]
      BY <2>3
    <3> HIDE DEF w
    <3>3. /\ s0 \in Kernel
          /\ s0.tskque = d.tskque /\ s0.bitmap = d.bitmap /\ s0.top_priority = d.top_priority
          /\ s0.klocktsk = d.klocktsk /\ s0.lock = d.lock /\ s0.tcb = w
          /\ SameContext(s, s0)
      BY <2>1, <3>1, <3>2 DEF Kernel, SameContext
    <3> QED BY <3>1, <3>3 DEF w
  <2> HIDE DEF s0, u
  <2>5. RQ(s0, {t}) /\ KR(s0)
    <3>1. ASSUME NEW x \in Pri, NEW y \in Tasks
          PROVE  y \in Elems(s0.tskque[x]) <=> y # t /\ Linked(s0.tcb[y], x)
      BY <2>1, <2>4 DEF RQ, Linked
    <3>2. RQ(s0, {t})
      BY <2>1, <2>4, <3>1 DEF RQ, Linked
    <3>3. KR(s0)
      BY <2>1, <2>4 DEF KR, Kernel
    <3> QED BY <3>2, <3>3
  <2>6. /\ q \in Seq(Tasks) /\ q # << >> /\ Injective(q)
        /\ Elems(q) = Elems(s0.tskque[pri]) \cup {t}
    <3>1. s0.tskque[pri] \in Seq(Tasks) /\ Injective(s0.tskque[pri])
      BY <2>4, <2>5 DEF RQ, Kernel
    <3>2. t \notin Elems(s0.tskque[pri])
      BY <2>5 DEF RQ
    <3> QED BY <3>1, <3>2, QueInsertFacts
  <2>7. s1 \in Kernel /\ RQ(s1, {}) /\ KR(s1)
    BY <2>2, <2>4, <2>5, <2>6, EnqueueFacts
  <2>8. s1.tcb = s0.tcb /\ s1.lock = s0.lock /\ SameContext(s0, s1)
    BY <2>4 DEF Enqueue, Kernel, SameContext
  <2>9. r = knl_reschedule(s1)
    BY <1>2, <2>2, <2>4 DEF knl_change_task_priority, ready_queue_insert, d, s0
  <2> HIDE DEF s1
  <2>10. r \in Kernel /\ Queues(r, {})
    BY <2>7, <2>9, RescheduleFacts
  <2>11. r.tcb = s1.tcb /\ r.lock = s1.lock /\ SameContext(s1, r)
    BY <2>7, <2>9 DEF knl_reschedule, Kernel, SameContext
  <2>12. LK(r)
    <3>1. SameLocks(d, r)
      <4>1. d.tcb[t] = [s.tcb[t] EXCEPT !.klockwait = FALSE] /\ u \in TCB
        BY <2>1, <2>2 DEF Kernel
      <4>2. /\ d.tcb[t].klocked = u.klocked /\ d.tcb[t].loc = u.loc
            /\ d.tcb[t].klockwait = u.klockwait
        BY <2>2, <4>1 DEF TCB, u
      <4> QED BY <2>4, <2>8, <2>11, <4>2 DEF SameLocks
    <3> QED BY <2>1, <3>1, LocksFrame
  <2>13. r.tcb[t] = u /\ Others(s, r, t)
    <3>1. r.tcb = [s.tcb EXCEPT ![t] = u]
      BY <2>4, <2>8, <2>11
    <3> QED BY <3>1 DEF Kernel, Others
  <2> QED BY <2>4, <2>8, <2>10, <2>11, <2>12, <2>13 DEF SameContext, u, Moved
<1> QED BY <1>1, <1>2

\* Rotating a queue keeps its members.
LEMMA RotateFacts ==
  ASSUME NEW s \in Kernel, Queues(s, {}), LK(s), NEW p \in Pri,
         NEW r, r = knl_rotate_ready_queue(s, p)
  PROVE  r \in Kernel /\ Queues(r, {}) /\ LK(r) /\ r.tcb = s.tcb /\ SameContext(s, r)
<1> DEFINE d == ready_queue_rotate(s, p)
<1>1. r = knl_reschedule(d)
  BY DEF knl_rotate_ready_queue
<1>2. /\ d \in Kernel /\ RQ(d, {}) /\ KR(d)
      /\ d.tcb = s.tcb /\ d.lock = s.lock /\ SameContext(s, d)
  <2>1. CASE s.tskque[p] = << >>
    BY <2>1 DEF ready_queue_rotate, Queues, SameContext
  <2>2. CASE s.tskque[p] # << >>
    <3> DEFINE q == QueInsert(Tail(s.tskque[p]), Head(s.tskque[p]))
    <3>1. s.tskque[p] \in Seq(Tasks) /\ Injective(s.tskque[p])
      BY DEF Kernel, Queues, RQ
    <3>2. /\ Head(s.tskque[p]) \in Tasks /\ Tail(s.tskque[p]) \in Seq(Tasks)
          /\ Head(s.tskque[p]) \in Elems(s.tskque[p])
          /\ Elems(Tail(s.tskque[p])) = Elems(s.tskque[p]) \ {Head(s.tskque[p])}
          /\ Injective(Tail(s.tskque[p]))
      BY <2>2, <3>1, QueRemoveNextFacts
    <3>3. /\ q \in Seq(Tasks) /\ q # << >> /\ Injective(q)
          /\ Elems(q) = Elems(s.tskque[p])
      <4> DEFINE h == Head(s.tskque[p])
                 w == Tail(s.tskque[p])
      <4>1. /\ h \in Tasks /\ w \in Seq(Tasks) /\ Injective(w) /\ h \notin Elems(w)
            /\ Elems(s.tskque[p]) = Elems(w) \cup {h}
        BY <3>2
      <4>2. q = QueInsert(w, h)
        OBVIOUS
      <4> HIDE DEF h, w, q
      <4>3. /\ QueInsert(w, h) \in Seq(Tasks) /\ QueInsert(w, h) # << >>
            /\ Elems(QueInsert(w, h)) = Elems(w) \cup {h}
        BY <4>1, QueInsertFacts
      <4>4. Injective(QueInsert(w, h))
        BY <4>1, QueInsertFacts
      <4> QED BY <4>1, <4>2, <4>3, <4>4
    <3>4. d = [s EXCEPT !.tskque = [s.tskque EXCEPT ![p] = q]]
      BY <2>2 DEF ready_queue_rotate
    <3> HIDE DEF d, q
    <3>5. /\ d \in Kernel /\ d.tskque = [s.tskque EXCEPT ![p] = q]
          /\ d.bitmap = s.bitmap /\ d.top_priority = s.top_priority
          /\ d.klocktsk = s.klocktsk /\ d.tcb = s.tcb /\ d.lock = s.lock
          /\ SameContext(s, d)
      BY <3>3, <3>4 DEF Kernel, SameContext
    <3>6. \A x \in Pri : d.tskque[x] = IF x = p THEN q ELSE s.tskque[x]
      BY <3>5 DEF Kernel
    <3>7. RQ(d, {})
      <4>1. ASSUME NEW x \in Pri
            PROVE  /\ Injective(d.tskque[x])
                   /\ \A u \in Tasks : u \in Elems(d.tskque[x]) <=>
                        /\ u \notin {} /\ d.tcb[u].state = "READY"
                        /\ ~d.tcb[u].klockwait /\ d.tcb[u].priority = x
                   /\ x \in d.bitmap <=> d.tskque[x] # << >>
        BY <2>2, <3>3, <3>5, <3>6 DEF Queues, RQ
      <4> QED BY <3>5, <4>1 DEF Queues, RQ
    <3>8. KR(d)
      BY <3>5 DEF Queues, KR
    <3> QED BY <3>5, <3>7, <3>8
  <2> QED BY <2>1, <2>2
<1> HIDE DEF d
<1>3. r \in Kernel /\ Queues(r, {})
  BY <1>1, <1>2, RescheduleFacts
<1>4. r.tcb = d.tcb /\ r.lock = d.lock /\ SameContext(d, r)
  BY <1>1, <1>2 DEF knl_reschedule, Kernel, SameContext
<1>5. LK(r)
  BY <1>2, <1>4 DEF LK
<1> QED BY <1>2, <1>3, <1>4, <1>5 DEF SameContext

-----------------------------------------------------------------------------
(* The inductive invariant.                                                *)

\* What holds of the queues, locks and control blocks between system calls.
Core(s) == /\ s \in Kernel /\ Queues(s, {}) /\ LK(s)
           /\ \A t \in Tasks : TcbOK(s.tcb[t])

\* The task in execution is READY, or it was suspended by a handler when no
\* other task could take its place.
Context(s) ==
  /\ s.dispatch_disabled => ~s.idle
  /\ ~s.idle =>
       /\ s.ctxtsk \in Tasks
       /\ s.tcb[s.ctxtsk].state \in {"READY", "SUSPEND"}
       /\ ~s.tcb[s.ctxtsk].klockwait
       /\ Locks # {} => s.tcb[s.ctxtsk].state = "READY"

Dispatched(s) ==
  ~s.dispatch_disabled =>
    /\ s.schedtsk # NoTask => s.ctxtsk = s.schedtsk
    /\ s.idle => s.schedtsk = NoTask

Good(s) == Core(s) /\ Context(s) /\ Dispatched(s)

IInv == Good(k)

\* The dispatcher only touches the context.
SameQueues(s, r) ==
  /\ r.tcb = s.tcb /\ r.lock = s.lock
  /\ r.tskque = s.tskque /\ r.bitmap = s.bitmap /\ r.top_priority = s.top_priority
  /\ r.klocktsk = s.klocktsk /\ r.schedtsk = s.schedtsk

\* What does not touch queues and locks keeps Core.
LEMMA CoreFrame ==
  ASSUME NEW s, Core(s), NEW r \in Kernel, SameQueues(s, r)
  PROVE  Core(r)
<1>1. Queues(r, {})
  BY DEF SameQueues, Core, Queues, RQ, ST, KR, First
<1>2. LK(r)
  BY DEF SameQueues, Core, LK
<1> QED BY <1>1, <1>2 DEF SameQueues, Core

\* The scheduled task is READY and not parked on a lock.
LEMMA SchedReady ==
  ASSUME NEW s, Core(s), s.schedtsk # NoTask
  PROVE  /\ s.schedtsk \in Tasks /\ s.tcb[s.schedtsk].state = "READY"
         /\ ~s.tcb[s.schedtsk].klockwait
<1>1. s.schedtsk \in Tasks
  BY DEF Core, Kernel
<1>2. CASE s.schedtsk = First(s)
  BY <1>2, FirstFacts DEF Core, Queues
<1>3. CASE s.schedtsk # First(s)
  BY <1>1, <1>3 DEF Core, Queues, ST, TcbOK, LockOK
<1> QED BY <1>1, <1>2, <1>3

\* The end of a critical section of the task in execution, which may have
\* blocked itself when dispatching is enabled.
LEMMA EndCriticalFacts ==
  ASSUME NEW s, Core(s), ~s.idle, s.ctxtsk \in Tasks,
         s.dispatch_disabled => Context(s)
  PROVE  Good(END_CRITICAL_SECTION(s))
<1> DEFINE r == END_CRITICAL_SECTION(s)
<1>0. s.idle = FALSE /\ s.dispatch_disabled \in BOOLEAN /\ s.ctxtsk # NoTask
  BY ConstantsAssumption DEF Core, Kernel
<1>1. CASE s.dispatch_disabled
  BY <1>1 DEF END_CRITICAL_SECTION, Good, Dispatched
<1>2. CASE ~s.dispatch_disabled /\ s.ctxtsk = s.schedtsk
  BY <1>0, <1>2, SchedReady DEF END_CRITICAL_SECTION, Good, Dispatched, Context
<1>3. CASE ~s.dispatch_disabled /\ s.schedtsk = NoTask
  <2>1. r = [s EXCEPT !.ctxtsk = s.ctxtsk, !.idle = TRUE, !.dispatch_disabled = FALSE]
    BY <1>0, <1>3 DEF END_CRITICAL_SECTION, Core, Kernel
  <2>2. Core(r) /\ r.idle = TRUE /\ r.dispatch_disabled = FALSE /\ r.schedtsk = NoTask
    <3>1. r \in Kernel /\ SameQueues(s, r)
      BY <1>0, <1>3, <2>1, ConstantsAssumption DEF Core, Kernel, SameQueues
    <3>2. Core(r)
      BY <3>1, CoreFrame
    <3> QED BY <1>0, <1>3, <2>1, <3>1, <3>2 DEF Core, Kernel, SameQueues
  <2> QED BY <2>2 DEF Good, Dispatched, Context
<1>4. CASE ~s.dispatch_disabled /\ s.ctxtsk # s.schedtsk /\ s.schedtsk # NoTask
  <2>1. r = [s EXCEPT !.ctxtsk = s.schedtsk, !.idle = FALSE, !.dispatch_disabled = FALSE]
    BY <1>0, <1>4 DEF END_CRITICAL_SECTION, Core, Kernel
  <2>2. /\ s.schedtsk \in Tasks /\ s.tcb[s.schedtsk].state = "READY"
        /\ ~s.tcb[s.schedtsk].klockwait
    BY <1>4, SchedReady
  <2>3. /\ Core(r) /\ r.ctxtsk = s.schedtsk /\ r.idle = FALSE /\ r.dispatch_disabled = FALSE
        /\ r.tcb = s.tcb /\ r.schedtsk = s.schedtsk
    <3>1. r \in Kernel /\ SameQueues(s, r)
      BY <1>0, <1>4, <2>1, <2>2, ConstantsAssumption DEF Core, Kernel, SameQueues
    <3>2. Core(r)
      BY <3>1, CoreFrame
    <3> QED BY <1>0, <1>4, <2>1, <2>2, <3>1, <3>2 DEF Core, Kernel, SameQueues
  <2> QED BY <2>2, <2>3 DEF Good, Dispatched, Context
<1> QED BY <1>1, <1>2, <1>3, <1>4

\* The exit of an interrupt, which leaves a suspended task in execution when
\* there is no other.
LEMMA IntExitFacts ==
  ASSUME NEW s, Core(s), s.dispatch_disabled \/ s.schedtsk = NoTask => Context(s)
  PROVE  Good(rtos_int_exit(s))
<1> DEFINE r == rtos_int_exit(s)
<1>1. CASE s.dispatch_disabled \/ s.schedtsk = NoTask
  BY <1>1 DEF rtos_int_exit, Good, Dispatched
<1>2. CASE ~s.dispatch_disabled /\ s.schedtsk # NoTask
  <2>1. r = [s EXCEPT !.ctxtsk = s.schedtsk, !.idle = FALSE, !.dispatch_disabled = FALSE]
    <3>1. s.dispatch_disabled = FALSE
      BY <1>2 DEF Core, Kernel
    <3> QED BY <1>2, <3>1 DEF rtos_int_exit, Core, Kernel
  <2>2. /\ s.schedtsk \in Tasks /\ s.tcb[s.schedtsk].state = "READY"
        /\ ~s.tcb[s.schedtsk].klockwait /\ s.dispatch_disabled \in BOOLEAN
    BY <1>2, SchedReady DEF Core, Kernel
  <2>3. /\ Core(r) /\ r.ctxtsk = s.schedtsk /\ r.idle = FALSE /\ r.dispatch_disabled = FALSE
        /\ r.tcb = s.tcb /\ r.schedtsk = s.schedtsk
    <3>1. r \in Kernel /\ SameQueues(s, r)
      BY <1>2, <2>1, <2>2, ConstantsAssumption DEF Core, Kernel, SameQueues
    <3>2. Core(r)
      BY <3>1, CoreFrame
    <3> QED BY <1>2, <2>1, <2>2, <3>1, <3>2 DEF Core, Kernel, SameQueues
  <2> QED BY <2>2, <2>3 DEF Good, Dispatched, Context
<1> QED BY <1>1, <1>2

\* knl_force_dispatch works from any consistent state.
LEMMA ForceDispatchFacts ==
  ASSUME NEW s, Core(s)
  PROVE  Good(knl_force_dispatch(s))
<1> DEFINE r == knl_force_dispatch(s)
           s1 == [s EXCEPT !.ctxtsk = NoTask, !.dispatch_disabled = FALSE]
<1>0. s.idle \in BOOLEAN
  BY DEF Core, Kernel
<1>1. CASE s.schedtsk = NoTask
  <2>1. r = [s EXCEPT !.ctxtsk = NoTask, !.idle = TRUE, !.dispatch_disabled = FALSE]
    BY <1>1 DEF knl_force_dispatch, Core, Kernel
  <2>2. Core(r) /\ r.idle = TRUE /\ r.dispatch_disabled = FALSE /\ r.schedtsk = NoTask
    <3>1. r \in Kernel /\ SameQueues(s, r)
      BY <1>1, <2>1, ConstantsAssumption DEF Core, Kernel, SameQueues
    <3>2. Core(r)
      BY <3>1, CoreFrame
    <3> QED BY <1>1, <2>1, <3>1, <3>2 DEF Core, Kernel, SameQueues
  <2> QED BY <2>2 DEF Good, Dispatched, Context
<1>2. CASE s.schedtsk # NoTask
  <2>1. s1.schedtsk = s.schedtsk /\ ~s1.dispatch_disabled
    BY DEF Core, Kernel
  <2>2. r = [s EXCEPT !.ctxtsk = s.schedtsk, !.idle = FALSE, !.dispatch_disabled = FALSE]
    BY <1>2, <2>1 DEF knl_force_dispatch, rtos_int_exit, Core, Kernel
  <2>3. /\ s.schedtsk \in Tasks /\ s.tcb[s.schedtsk].state = "READY"
        /\ ~s.tcb[s.schedtsk].klockwait
    BY <1>2, SchedReady
  <2>4. /\ Core(r) /\ r.ctxtsk = s.schedtsk /\ r.idle = FALSE /\ r.dispatch_disabled = FALSE
        /\ r.tcb = s.tcb /\ r.schedtsk = s.schedtsk
    <3>1. r \in Kernel /\ SameQueues(s, r)
      BY <1>2, <2>2, <2>3, ConstantsAssumption DEF Core, Kernel, SameQueues
    <3>2. Core(r)
      BY <3>1, CoreFrame
    <3> QED BY <1>2, <2>2, <2>3, <3>1, <3>2 DEF Core, Kernel, SameQueues
  <2> QED BY <2>3, <2>4 DEF Good, Dispatched, Context
<1> QED BY <1>1, <1>2

\* The task in execution, if one runs, is not taken off the processor's hands:
\* it becomes READY or stays as it was.
KeepsRunning(s, r) ==
  ~s.idle /\ s.ctxtsk \in Tasks =>
    /\ r.tcb[s.ctxtsk].state \in {"READY", s.tcb[s.ctxtsk].state}
    /\ ~s.tcb[s.ctxtsk].klockwait => ~r.tcb[s.ctxtsk].klockwait

\* The task in execution may still execute.
LEMMA KeepsContext ==
  ASSUME Good(k), NEW s, SameContext(k, s), KeepsRunning(k, s)
  PROVE  Context(s)
BY DEF Good, Context, SameContext, KeepsRunning

\* A call of a task or a handler that leaves the task in execution fit to run.
LEMMA CallFacts ==
  ASSUME Good(k), NEW s, Core(s), SameContext(k, s), Context(s), Call(s)
  PROVE  Good(k')
<1>1. CASE k' = rtos_int_exit(s)
  BY <1>1, IntExitFacts
<1>2. CASE TaskCall(s)
  BY <1>2, EndCriticalFacts DEF TaskCall, InTask, Context, SameContext
<1> QED BY <1>1, <1>2 DEF Call

\* A call of a task that may block the caller, or keeps it running.
LEMMA TaskCallFacts ==
  ASSUME Good(k), NEW s, Core(s), SameContext(k, s),
         k.dispatch_disabled => KeepsRunning(k, s),
         k.ctxtsk # NoTask, ~k.idle, k' = END_CRITICAL_SECTION(s)
  PROVE  Good(k')
<1>1. s.dispatch_disabled => Context(s)
  BY DEF Good, Context, SameContext, KeepsRunning
<1>2. ~s.idle /\ s.ctxtsk \in Tasks
  BY DEF Good, Context, SameContext
<1> QED BY <1>1, <1>2, EndCriticalFacts

-----------------------------------------------------------------------------
(* What the system calls do to one control block.                          *)

OthersOK(s, t) == \A x \in Tasks : x # t => TcbOK(s.tcb[x])

\* A task that is not in execution, or that is still fit to run.
LEMMA KeepsFacts ==
  ASSUME Good(k), NEW s, SameContext(k, s), NEW t \in Tasks, Others(k, s, t),
         \/ k.tcb[t].state \notin {"READY", "SUSPEND"}
         \/ t # k.ctxtsk
         \/ /\ s.tcb[t].state \in {"READY", k.tcb[t].state}
            /\ ~k.tcb[t].klockwait => ~s.tcb[t].klockwait
  PROVE  KeepsRunning(k, s) /\ Context(s)
<1>1. KeepsRunning(k, s)
  BY DEF Good, Context, KeepsRunning, Others
<1> QED BY <1>1, KeepsContext

\* A control block changes while the task stays where it is.
LEMMA UpdateCore ==
  ASSUME NEW s \in Kernel, NEW t \in Tasks, NEW u \in TCB, NEW X,
         Queues(s, X), LK(s), SamePlace(s, t, u, X),
         OthersOK(s, t),
         TcbOK(u),
         NEW r, r = SetTcb(s, t, u)
  PROVE  Core(r) /\ SameContext(s, r) /\ Others(s, r, t) /\ r.tcb[t] = u
<1>1. r \in Kernel /\ Queues(r, {}) /\ LK(r)
  BY UpdateFacts
<1>2. r.tcb = [s.tcb EXCEPT ![t] = u] /\ SameContext(s, r)
  BY DEF Kernel, SameContext, SetTcb
<1>3. r.tcb[t] = u /\ Others(s, r, t)
  BY <1>2 DEF Kernel, Others
<1>4. \A x \in Tasks : TcbOK(r.tcb[x])
  BY <1>3 DEF Others, OthersOK
<1> QED BY <1>1, <1>2, <1>3, <1>4 DEF Core

Readied(v) == [v EXCEPT !.state = "READY"]

\* knl_make_ready keeps Core.
LEMMA ReadyCore ==
  ASSUME NEW s \in Kernel, NEW t \in Tasks, Queues(s, {}), LK(s),
         s.tcb[t].state # "READY", ~s.tcb[t].klockwait,
         OthersOK(s, t), TcbOK(Readied(s.tcb[t])),
         NEW r, r = knl_make_ready(s, t)
  PROVE  /\ Core(r) /\ SameContext(s, r) /\ Others(s, r, t)
         /\ r.tcb[t] = Readied(s.tcb[t])
<1> DEFINE u == Readied(s.tcb[t])
<1>1. /\ r \in Kernel /\ Queues(r, {}) /\ LK(r) /\ SameContext(s, r)
      /\ r.tcb = [s.tcb EXCEPT ![t] = u]
  BY MakeReadyFacts DEF Readied
<1> HIDE DEF u
<1>2. r.tcb[t] = u /\ Others(s, r, t)
  BY <1>1 DEF Kernel, Others
<1>3. \A x \in Tasks : TcbOK(r.tcb[x])
  BY <1>2 DEF Others, OthersOK, u
<1> QED BY <1>1, <1>2, <1>3 DEF Core, u

\* The new control block of a task that stops being READY.
Retired(v, u) == /\ u \in TCB /\ TcbOK(u) /\ u.state # "READY"
                 /\ u.klocked = v.klocked /\ u.klockwait = FALSE
                 /\ u.klocked => u.loc = v.loc

\* knl_make_non_ready and what is then written to the control block keep Core.
LEMMA RetireCore ==
  ASSUME NEW s \in Kernel, NEW t \in Tasks, Queues(s, {}), LK(s),
         s.tcb[t].state = "READY", LockOK(s.tcb[t]),
         OthersOK(s, t),
         NEW u, Retired(s.tcb[t], u),
         NEW r, r = SetTcb(knl_make_non_ready(s, t), t, u)
  PROVE  /\ Core(r) /\ SameContext(s, r) /\ Others(s, r, t) /\ r.tcb[t] = u
<1> DEFINE m == knl_make_non_ready(s, t)
           v == Unparked(s.tcb[t])
<1>1. /\ m \in Kernel /\ Queues(m, {t}) /\ LK(m) /\ SameContext(s, m)
      /\ m.tcb[t] = v /\ Others(s, m, t)
      /\ m.schedtsk # t /\ m.klocktsk # t
  BY MakeNonReadyFacts
<1>2. r = SetTcb(m, t, u)
  OBVIOUS
<1>3. s.tcb[t] \in TCB
  BY DEF Kernel
<1>4. v.klockwait = FALSE /\ v.klocked = s.tcb[t].klocked /\ v.loc = s.tcb[t].loc
  BY <1>3 DEF TCB, Unparked
<1> HIDE DEF m, v
<1>5. SamePlace(m, t, u, {t})
  BY <1>1, <1>4 DEF SamePlace, Retired, Linked
<1>6. OthersOK(m, t)
  BY <1>1 DEF Others, OthersOK
<1>7. u \in TCB /\ TcbOK(u)
  BY DEF Retired
<1>8. Core(r) /\ SameContext(m, r) /\ Others(m, r, t) /\ r.tcb[t] = u
  BY <1>1, <1>2, <1>5, <1>6, <1>7, UpdateCore
<1> QED BY <1>1, <1>8 DEF SameContext, Others

\* A control block changed in place.
InPlace(v, u) == /\ u \in TCB /\ TcbOK(u)
                 /\ u.klocked = v.klocked /\ u.klockwait = v.klockwait
                 /\ u.klocked \/ u.klockwait => u.loc = v.loc
                 /\ \/ u.state = v.state /\ u.priority = v.priority
                    \/ u.state # "READY" /\ v.state # "READY"

\* A change that links the task nowhere else keeps Core.
LEMMA InPlaceCore ==
  ASSUME NEW s, Core(s), NEW t \in Tasks, NEW u, InPlace(s.tcb[t], u),
         NEW r, r = SetTcb(s, t, u)
  PROVE  /\ Core(r) /\ SameContext(s, r) /\ Others(s, r, t) /\ r.tcb[t] = u
<1>1. SamePlace(s, t, u, {})
  BY DEF SamePlace, InPlace, Linked
<1>2. /\ s \in Kernel /\ Queues(s, {}) /\ LK(s) /\ u \in TCB /\ TcbOK(u)
      /\ OthersOK(s, t)
  BY DEF Core, InPlace, OthersOK
<1> QED BY <1>1, <1>2, UpdateCore

-----------------------------------------------------------------------------
(* One lemma per system call.                                              *)

\* A call that changes one control block in place.
LEMMA InPlaceCall ==
  ASSUME Good(k), NEW t \in Tasks, NEW u, InPlace(k.tcb[t], u),
         \/ k.tcb[t].state \notin {"READY", "SUSPEND"}
         \/ t # k.ctxtsk
         \/ u.state = k.tcb[t].state,
         Call(SetTcb(k, t, u))
  PROVE  Good(k')
<1> DEFINE s == SetTcb(k, t, u)
<1>1. Core(s) /\ SameContext(k, s) /\ Others(k, s, t) /\ s.tcb[t] = u
  BY InPlaceCore DEF Good
<1> HIDE DEF s
<1>2. Context(s)
  BY <1>1, KeepsFacts DEF InPlace
<1>3. Call(s)
  BY DEF s
<1> QED BY <1>1, <1>2, <1>3, CallFacts

\* Two changes of one control block in a row.
LEMMA SetTcbTwice ==
  ASSUME NEW s \in Kernel, NEW t \in Tasks, NEW v \in TCB, NEW u
  PROVE  /\ SetTcb(s, t, v) \in Kernel /\ SetTcb(s, t, v).tcb[t] = v
         /\ SetTcb(SetTcb(s, t, v), t, u) = SetTcb(s, t, u)
BY DEF SetTcb, Kernel

DormantTcb(w) ==
  [w EXCEPT !.state = "DORMANT", !.priority = w.ipriority, !.wupcnt = 0, !.suscnt = 0,
            !.klockwait = FALSE, !.klocked = FALSE, !.loc = NoLock]

\* A DORMANT task holds nothing and waits for nothing.
LEMMA DormantFacts ==
  ASSUME NEW w \in TCB
  PROVE  /\ DormantTcb(w) \in TCB /\ DormantTcb(w).state = "DORMANT"
         /\ DormantTcb(w).klocked = FALSE /\ DormantTcb(w).klockwait = FALSE
         /\ ~w.wtmeb => TcbOK(DormantTcb(w))
<1> DEFINE u == DormantTcb(w)
<1>1. 0 \in 0 .. INT_MAX /\ "DORMANT" \in TaskState /\ NoLock \in Locks \cup {NoLock}
  BY ConstantsAssumption DEF TaskState
<1>2. /\ u.state = "DORMANT" /\ u.suscnt = 0 /\ u.wtmeb = w.wtmeb
      /\ u.klocked = FALSE /\ u.klockwait = FALSE
  BY DEF TCB, DormantTcb
<1>3. u \in TCB
  BY <1>1 DEF TCB, DormantTcb
<1> HIDE DEF u
<1>4. ~w.wtmeb => TcbOK(u)
  BY <1>2 DEF TcbOK, LockOK, Waiting
<1> QED BY <1>2, <1>3, <1>4 DEF u

\* tk_cre_tsk keeps the invariant.
LEMMA CreTsk ==
  ASSUME IInv, NEW t \in Tasks, NEW pri \in Pri, tk_cre_tsk(t, pri)
  PROVE  IInv'
<1> DEFINE v == k.tcb[t]
           w == [v EXCEPT !.ipriority = pri]
           u == DormantTcb(w)
           s0 == SetTcb(k, t, w)
<1>1. k \in Kernel /\ v \in TCB /\ TcbOK(v) /\ v.state = "NONEXIST"
  BY DEF IInv, Good, Core, Kernel, tk_cre_tsk
<1>2. v.klocked = FALSE /\ v.klockwait = FALSE /\ v.wtmeb = FALSE
  BY <1>1 DEF TcbOK, LockOK, TCB, Waiting
<1>3. w \in TCB /\ w.wtmeb = v.wtmeb
  BY <1>1 DEF TCB
<1>4. Call(knl_make_dormant(s0, t))
  BY DEF tk_cre_tsk, SetTcb
<1> HIDE DEF w
<1>5. InPlace(v, u)
  <2>1. /\ u \in TCB /\ u.state = "DORMANT" /\ u.klocked = FALSE /\ u.klockwait = FALSE
        /\ TcbOK(u)
    BY <1>2, <1>3, DormantFacts
  <2> QED BY <1>1, <1>2, <2>1 DEF InPlace
<1>6. knl_make_dormant(s0, t) = SetTcb(k, t, u)
  <2>1. s0 \in Kernel /\ s0.tcb[t] = w /\ SetTcb(s0, t, u) = SetTcb(k, t, u)
    BY <1>1, <1>3, SetTcbTwice
  <2>2. knl_make_dormant(s0, t) = SetTcb(s0, t, DormantTcb(s0.tcb[t]))
    BY DEF knl_make_dormant, SetTcb, DormantTcb
  <2> QED BY <2>1, <2>2
<1> HIDE DEF u, s0
<1> QED BY <1>1, <1>4, <1>5, <1>6, InPlaceCall DEF IInv

\* A free control block is off all queues.
LEMMA NoTCBFacts ==
  /\ NoTCB \in TCB /\ TcbOK(NoTCB) /\ NoTCB.state # "READY"
  /\ NoTCB.klocked = FALSE /\ NoTCB.klockwait = FALSE
<1>1. NoTCB \in TCB
  BY ConstantsAssumption DEF NoTCB, TCB, TaskState, Pri
<1> QED BY <1>1 DEF TcbOK, LockOK, Waiting, NoTCB

\* tk_del_tsk keeps the invariant.
LEMMA DelTsk ==
  ASSUME IInv, NEW t \in Tasks, tk_del_tsk(t)
  PROVE  IInv'
<1>1. k.tcb[t] \in TCB /\ TcbOK(k.tcb[t]) /\ k.tcb[t].state = "DORMANT"
  BY DEF IInv, Good, Core, Kernel, tk_del_tsk
<1>3. InPlace(k.tcb[t], NoTCB)
  <2>1. k.tcb[t].klocked = FALSE /\ k.tcb[t].klockwait = FALSE
    BY <1>1 DEF TcbOK, LockOK, TCB
  <2> QED BY <1>1, <2>1, NoTCBFacts DEF InPlace
<1>4. Call(SetTcb(k, t, NoTCB))
  BY DEF tk_del_tsk, knl_del_tsk, SetTcb
<1> QED BY <1>1, <1>3, <1>4, InPlaceCall DEF IInv

\* tk_sta_tsk keeps the invariant.
LEMMA StaTsk ==
  ASSUME IInv, NEW t \in Tasks, tk_sta_tsk(t)
  PROVE  IInv'
<1> DEFINE s == knl_make_ready(k, t)
<1>1. /\ k \in Kernel /\ Queues(k, {}) /\ LK(k) /\ OthersOK(k, t)
      /\ k.tcb[t] \in TCB /\ TcbOK(k.tcb[t]) /\ k.tcb[t].state = "DORMANT"
  BY DEF IInv, Good, Core, Kernel, OthersOK, tk_sta_tsk
<1>2. ~k.tcb[t].klockwait /\ TcbOK(Readied(k.tcb[t]))
  BY <1>1 DEF TcbOK, LockOK, TCB, Waiting, Readied
<1>3. Core(s) /\ SameContext(k, s) /\ Others(k, s, t)
  BY <1>1, <1>2, ReadyCore
<1>4. Call(s)
  BY DEF tk_sta_tsk
<1> HIDE DEF s
<1>5. Context(s)
  BY <1>1, <1>3, KeepsFacts DEF IInv
<1> QED BY <1>3, <1>4, <1>5, CallFacts DEF IInv

\* The end of a wait, whoever ends it: the timer event goes, a suspended task
\* stays suspended.
LEMMA WaitReleaseFacts ==
  ASSUME IInv, NEW t \in Tasks, k.tcb[t].state \in Waiting,
         NEW s, s = knl_wait_release(k, t)
  PROVE  Core(s) /\ SameContext(k, s) /\ Context(s)
<1> DEFINE v == k.tcb[t]
           w == [v EXCEPT !.wtmeb = FALSE]
           s0 == SetTcb(k, t, w)
<1>1. /\ k \in Kernel /\ Queues(k, {}) /\ LK(k) /\ OthersOK(k, t) /\ Core(k)
      /\ v \in TCB /\ TcbOK(v)
  BY DEF IInv, Good, Core, Kernel, OthersOK
<1>2. /\ w \in TCB /\ w.state = v.state /\ w.wtmeb = FALSE /\ w.suscnt = v.suscnt
      /\ w.klocked = v.klocked /\ w.klockwait = v.klockwait /\ w.loc = v.loc
      /\ w.priority = v.priority
  BY <1>1 DEF TCB
<1>3. ~v.klocked /\ ~v.klockwait
  BY <1>1 DEF TcbOK, LockOK, Waiting
<1>4. s = knl_make_non_wait(s0, t)
  BY DEF knl_wait_release, knl_timer_delete, SetTcb
<1> HIDE DEF w, s0
<1>5. SamePlace(k, t, w, {})
  BY <1>2 DEF SamePlace, Linked
<1>6. /\ s0 \in Kernel /\ Queues(s0, {}) /\ LK(s0)
  BY <1>1, <1>2, <1>5, UpdateFacts DEF s0
<1>7. s0.tcb[t] = w /\ SetTcb(s0, t, [w EXCEPT !.state = "SUSPEND"])
                         = SetTcb(k, t, [w EXCEPT !.state = "SUSPEND"])
  BY <1>1, <1>2, SetTcbTwice DEF s0
<1>8. Others(k, s0, t) /\ SameContext(k, s0)
  BY <1>1 DEF Others, SameContext, Kernel, SetTcb, s0
<1>9. Core(s) /\ SameContext(k, s) /\ Others(k, s, t)
  <2>1. CASE v.state = "WAIT"
    <3>1. s = knl_make_ready(s0, t)
      BY <1>2, <1>4, <1>7, <2>1 DEF knl_make_non_wait
    <3>2. OthersOK(s0, t)
      BY <1>1, <1>8 DEF OthersOK, Others
    <3>3. TcbOK(Readied(w))
      BY <1>1, <1>2, <1>3, <2>1 DEF TcbOK, LockOK, TCB, Readied, Waiting
    <3>4. w.state # "READY" /\ ~w.klockwait
      BY <1>2, <1>3, <2>1
    <3>5. Core(s) /\ SameContext(s0, s) /\ Others(s0, s, t)
      BY <1>6, <1>7, <3>1, <3>2, <3>3, <3>4, ReadyCore
    <3> QED BY <1>8, <3>5 DEF SameContext, Others
  <2>2. CASE v.state # "WAIT"
    <3> DEFINE u == [w EXCEPT !.state = "SUSPEND"]
    <3>1. s = SetTcb(k, t, u)
      BY <1>2, <1>4, <1>7, <2>2 DEF knl_make_non_wait, SetTcb
    <3>2. /\ u \in TCB /\ u.state = "SUSPEND" /\ u.wtmeb = FALSE /\ u.suscnt = w.suscnt
          /\ u.klocked = w.klocked /\ u.klockwait = w.klockwait
      BY <1>2 DEF TCB, TaskState
    <3> HIDE DEF u
    <3>3. v.state = "WAITSUS"
      BY <2>2 DEF Waiting
    <3>4. v.suscnt > 0
      BY <1>1, <3>3 DEF TcbOK
    <3>5. InPlace(v, u)
      BY <1>2, <1>3, <3>2, <3>3, <3>4 DEF InPlace, TcbOK, LockOK, Waiting
    <3> QED BY <1>1, <3>1, <3>5, InPlaceCore
  <2> QED BY <2>1, <2>2
<1>10. v.state \notin {"READY", "SUSPEND"}
  BY DEF Waiting
<1> QED BY <1>9, <1>10, KeepsFacts DEF IInv

\* tk_rel_wai keeps the invariant.
LEMMA RelWai ==
  ASSUME IInv, NEW t \in Tasks, tk_rel_wai(t)
  PROVE  IInv'
<1> DEFINE s == knl_wait_release(k, t)
<1>1. Call(s) /\ k.tcb[t].state \in Waiting
  BY DEF tk_rel_wai
<1>2. Core(s) /\ SameContext(k, s) /\ Context(s)
  BY <1>1, WaitReleaseFacts
<1> HIDE DEF s
<1> QED BY <1>1, <1>2, CallFacts DEF IInv

\* knl_wait_release_tmout, called by the timer handler, keeps the invariant.
LEMMA WaitReleaseTmout ==
  ASSUME IInv, NEW t \in Tasks, knl_wait_release_tmout(t)
  PROVE  IInv'
<1> DEFINE s == knl_wait_release(k, t)
<1>1. k.tcb[t].state \in Waiting
  BY DEF knl_wait_release_tmout, IInv, Good, Core, TcbOK
<1>2. k' = rtos_int_exit(s)
  BY DEF knl_wait_release_tmout, knl_wait_release
<1>3. Core(s) /\ Context(s)
  BY <1>1, WaitReleaseFacts
<1> HIDE DEF s
<1> QED BY <1>2, <1>3, IntExitFacts DEF IInv

\* tk_wup_tsk keeps the invariant.
LEMMA WupTsk ==
  ASSUME IInv, NEW t \in Tasks, tk_wup_tsk(t)
  PROVE  IInv'
<1> DEFINE v == k.tcb[t]
<1>1. v \in TCB /\ TcbOK(v)
  BY DEF IInv, Good, Core, Kernel
<1>2. CASE v.state \in Waiting /\ v.wspec = "SLP"
  <2> DEFINE s == knl_wait_release(k, t)
  <2>1. Call(s)
    BY <1>2 DEF tk_wup_tsk
  <2>2. Core(s) /\ SameContext(k, s) /\ Context(s)
    BY <1>2, WaitReleaseFacts
  <2> HIDE DEF s
  <2> QED BY <2>1, <2>2, CallFacts DEF IInv
<1>3. CASE ~(v.state \in Waiting /\ v.wspec = "SLP")
  <2> DEFINE u == [v EXCEPT !.wupcnt = @ + 1]
  <2>1. Call(SetTcb(k, t, u)) /\ v.wupcnt < INT_MAX
    BY <1>3 DEF tk_wup_tsk, SetTcb
  <2>2. v.wupcnt + 1 \in 0 .. INT_MAX
    BY <1>1, <2>1, ConstantsAssumption DEF TCB
  <2>3. /\ u \in TCB /\ u.state = v.state /\ u.suscnt = v.suscnt /\ u.wtmeb = v.wtmeb
        /\ u.wspec = v.wspec /\ u.priority = v.priority
        /\ u.klocked = v.klocked /\ u.klockwait = v.klockwait /\ u.loc = v.loc
    BY <1>1, <2>2 DEF TCB
  <2> HIDE DEF u
  <2>4. InPlace(v, u)
    BY <1>1, <1>3, <2>3 DEF InPlace, TcbOK, LockOK
  <2> QED BY <2>1, <2>3, <2>4, InPlaceCall DEF IInv
<1> QED BY <1>2, <1>3

\* tk_can_wup keeps the invariant.
LEMMA CanWup ==
  ASSUME IInv, NEW t \in Tasks, tk_can_wup(t)
  PROVE  IInv'
<1> DEFINE v == k.tcb[t]
           u == [v EXCEPT !.wupcnt = 0]
<1>1. v \in TCB /\ TcbOK(v) /\ 0 \in 0 .. INT_MAX
  BY ConstantsAssumption DEF IInv, Good, Core, Kernel
<1>2. Call(SetTcb(k, t, u))
  BY DEF tk_can_wup, SetTcb
<1>3. /\ u \in TCB /\ u.state = v.state /\ u.suscnt = v.suscnt /\ u.wtmeb = v.wtmeb
      /\ u.wspec = v.wspec /\ u.priority = v.priority /\ u.wupcnt = 0
      /\ u.klocked = v.klocked /\ u.klockwait = v.klockwait /\ u.loc = v.loc
  BY <1>1 DEF TCB
<1> HIDE DEF u
<1>4. InPlace(v, u)
  BY <1>1, <1>3 DEF InPlace, TcbOK, LockOK
<1> QED BY <1>2, <1>3, <1>4, InPlaceCall DEF IInv

\* The conditions under which the invariant holds: nobody terminates the task
\* in execution, and handlers do not suspend the last ready task while it runs
\* in a system that uses kernel locks.  TLC shows what happens without them.
Conditions == ~TerRunning /\ (IsrSus => Locks = {})

\* The task in execution, outside the kernel lock, holds and awaits no lock.
LEMMA InTaskFacts ==
  ASSUME IInv, InTask
  PROVE  /\ k.ctxtsk \in Tasks /\ k.tcb[k.ctxtsk] \in TCB /\ TcbOK(k.tcb[k.ctxtsk])
         /\ k.tcb[k.ctxtsk].state \in {"READY", "SUSPEND"}
         /\ k.tcb[k.ctxtsk].klocked = FALSE /\ k.tcb[k.ctxtsk].klockwait = FALSE
         /\ k.ctxtsk # NoTask /\ ~k.idle
<1>1. k.ctxtsk \in Tasks /\ k.tcb[k.ctxtsk].state \in {"READY", "SUSPEND"} /\ ~k.idle
  BY DEF InTask, IInv, Good, Context
<1>2. k.tcb[k.ctxtsk] \in TCB /\ TcbOK(k.tcb[k.ctxtsk]) /\ k.tcb[k.ctxtsk].loc = NoLock
  BY <1>1 DEF InTask, IInv, Good, Core, Kernel
<1>3. k.tcb[k.ctxtsk].klocked = FALSE /\ k.tcb[k.ctxtsk].klockwait = FALSE
  BY <1>2 DEF TcbOK, LockOK, TCB
<1> QED BY <1>1, <1>2, <1>3 DEF InTask

\* tk_sus_tsk keeps the invariant.
LEMMA SusTsk ==
  ASSUME IInv, Conditions, NEW t \in Tasks, tk_sus_tsk(t)
  PROVE  IInv'
<1> DEFINE v == k.tcb[t]
           w == [v EXCEPT !.suscnt = @ + 1]
           s1 == SetTcb(k, t, w)
           s2 == CASE k.tcb[t].state = "READY" ->
                        [knl_make_non_ready(s1, t) EXCEPT !.tcb[t].state = "SUSPEND"]
                   [] k.tcb[t].state = "WAIT" -> [s1 EXCEPT !.tcb[t].state = "WAITSUS"]
                   [] OTHER -> s1
<1>1. /\ k \in Kernel /\ Queues(k, {}) /\ LK(k) /\ OthersOK(k, t) /\ Core(k)
      /\ v \in TCB /\ TcbOK(v)
  BY DEF IInv, Good, Core, Kernel, OthersOK
<1>2. /\ v.state \in knl_task_alive /\ ~(t = k.ctxtsk /\ k.dispatch_disabled)
      /\ v.suscnt < INT_MAX
      /\ \/ TaskCall(s2)
         \/ /\ IsrSus \/ k.idle \/ t # k.ctxtsk \/ s2.schedtsk # NoTask
            /\ k' = rtos_int_exit(s2)
  BY DEF tk_sus_tsk, SetTcb
<1>3. v.suscnt + 1 \in 0 .. INT_MAX /\ v.suscnt + 1 > 0
  BY <1>1, <1>2, ConstantsAssumption DEF TCB
<1>4. /\ w \in TCB /\ w.state = v.state /\ w.suscnt > 0 /\ w.wtmeb = v.wtmeb
      /\ w.wspec = v.wspec /\ w.priority = v.priority /\ w.wupcnt = v.wupcnt
      /\ w.klocked = v.klocked /\ w.klockwait = v.klockwait /\ w.loc = v.loc
  BY <1>1, <1>3 DEF TCB
<1> HIDE DEF w
<1>5. s1 \in Kernel /\ s1.tcb[t] = w
  BY <1>1, <1>4, SetTcbTwice
<1>6. Others(k, s1, t) /\ SameContext(k, s1)
  BY <1>1 DEF Others, SameContext, Kernel, SetTcb
<1> HIDE DEF s1
<1>7. /\ Core(s2) /\ SameContext(k, s2) /\ Others(k, s2, t)
      /\ ~s2.tcb[t].klockwait
      /\ v.state \in {"READY", "SUSPEND"} => s2.tcb[t].state = "SUSPEND"
  <2>1. CASE v.state = "READY"
    <3> DEFINE m == knl_make_non_ready(s1, t)
               x == [w EXCEPT !.klockwait = FALSE]
               u == [x EXCEPT !.state = "SUSPEND"]
    <3>1. SamePlace(k, t, w, {})
      BY <1>4 DEF SamePlace, Linked
    <3>2. Queues(s1, {}) /\ LK(s1)
      BY <1>1, <1>4, <3>1, UpdateFacts DEF s1
    <3>3. LockOK(s1.tcb[t]) /\ s1.tcb[t].state = "READY" /\ OthersOK(s1, t)
      BY <1>1, <1>4, <1>5, <1>6, <2>1 DEF TcbOK, LockOK, OthersOK, Others
    <3>4. m.tcb[t] = x
      <4> HIDE DEF s2
      <4>1. m.tcb[t] = Unparked(s1.tcb[t])
        BY <1>5, <3>2, <3>3, MakeNonReadyFacts, ZenonT(30)
      <4> QED BY <1>5, <4>1 DEF Unparked
    <3>6. s2 = SetTcb(m, t, u)
      BY <2>1, <3>4 DEF SetTcb
    <3>7. /\ u \in TCB /\ u.state = "SUSPEND" /\ u.suscnt = w.suscnt /\ u.wtmeb = w.wtmeb
          /\ u.klocked = w.klocked /\ u.klockwait = FALSE /\ u.loc = w.loc
      BY <1>4 DEF TCB, TaskState
    <3> HIDE DEF u, x
    <3> HIDE DEF s2
    <3>8. Retired(s1.tcb[t], u)
      BY <1>1, <1>4, <1>5, <2>1, <3>7 DEF Retired, TcbOK, LockOK, Waiting
    <3>9. Core(s2) /\ SameContext(s1, s2) /\ Others(s1, s2, t) /\ s2.tcb[t] = u
      BY <1>5, <3>2, <3>3, <3>6, <3>8, RetireCore
    <3> QED BY <1>6, <3>7, <3>9 DEF SameContext, Others
  <2>2. CASE v.state = "WAIT"
    <3> DEFINE u == [w EXCEPT !.state = "WAITSUS"]
    <3>1. SetTcb(s1, t, u) = SetTcb(k, t, u)
      BY <1>1, <1>4, SetTcbTwice DEF s1
    <3>2. s2 = SetTcb(k, t, u)
      BY <1>5, <2>2, <3>1 DEF SetTcb
    <3>3. /\ u \in TCB /\ u.state = "WAITSUS" /\ u.suscnt = w.suscnt /\ u.wtmeb = w.wtmeb
          /\ u.klocked = w.klocked /\ u.klockwait = w.klockwait /\ u.wspec = w.wspec
          /\ u.wupcnt = w.wupcnt
      BY <1>4 DEF TCB, TaskState
    <3> HIDE DEF u, s2
    <3>4. ~v.klocked /\ ~v.klockwait
      BY <1>1, <2>2 DEF TcbOK, LockOK
    <3>5. InPlace(v, u)
      BY <1>1, <1>4, <2>2, <3>3, <3>4 DEF InPlace, TcbOK, LockOK, Waiting
    <3>6. Core(s2) /\ SameContext(k, s2) /\ Others(k, s2, t) /\ s2.tcb[t] = u
      BY <1>1, <3>2, <3>5, InPlaceCore
    <3> QED BY <1>4, <2>2, <3>3, <3>4, <3>6
  <2>3. CASE v.state \in {"SUSPEND", "WAITSUS"}
    <3>1. s2 = SetTcb(k, t, w)
      BY <2>3 DEF s1
    <3> HIDE DEF s2
    <3>2. ~v.klockwait
      BY <1>1, <2>3 DEF TcbOK, LockOK
    <3>3. InPlace(v, w)
      BY <1>1, <1>4, <2>3 DEF InPlace, TcbOK, LockOK
    <3>4. Core(s2) /\ SameContext(k, s2) /\ Others(k, s2, t) /\ s2.tcb[t] = w
      BY <1>1, <3>1, <3>3, InPlaceCore
    <3> QED BY <1>4, <2>3, <3>2, <3>4
  <2> QED BY <1>2, <2>1, <2>2, <2>3 DEF knl_task_alive
<1> HIDE DEF s2
<1>8. CASE TaskCall(s2)
  <2>1. k.dispatch_disabled => KeepsRunning(k, s2)
    BY <1>2, <1>7, KeepsFacts DEF IInv
  <2> QED BY <1>7, <1>8, <2>1, TaskCallFacts DEF TaskCall, InTask, IInv
<1>9. CASE /\ IsrSus \/ k.idle \/ t # k.ctxtsk \/ s2.schedtsk # NoTask
           /\ k' = rtos_int_exit(s2)
  <2>1. t # k.ctxtsk => Context(s2)
    BY <1>7, KeepsFacts DEF IInv
  <2>2. k.idle => Context(s2)
    BY <1>7 DEF IInv, Good, Context, SameContext
  <2>3. IsrSus => Context(s2)
    BY <1>7 DEF IInv, Good, Context, SameContext, Others, Conditions
  <2>4. s2.dispatch_disabled => t # k.ctxtsk
    BY <1>2, <1>7 DEF SameContext
  <2> QED BY <1>7, <1>9, <2>1, <2>2, <2>3, <2>4, IntExitFacts DEF IInv
<1> QED BY <1>2, <1>8, <1>9

\* A suspension ends: the task is READY again, or goes on waiting.
Resumed(v) == [v EXCEPT !.suscnt = 0]

\* The end of a suspension keeps the invariant.
LEMMA ResumeFacts ==
  ASSUME IInv, NEW t \in Tasks, k.tcb[t].state \in {"SUSPEND", "WAITSUS"},
         NEW w \in TCB, w = Resumed(k.tcb[t]),
         NEW s, s = Resume(SetTcb(k, t, w), t)
  PROVE  Core(s) /\ SameContext(k, s) /\ Context(s)
<1> DEFINE v == k.tcb[t]
           s0 == SetTcb(k, t, w)
<1>1. /\ k \in Kernel /\ Queues(k, {}) /\ LK(k) /\ OthersOK(k, t) /\ Core(k)
      /\ v \in TCB /\ TcbOK(v)
  BY DEF IInv, Good, Core, Kernel, OthersOK
<1>2. /\ w.state = v.state /\ w.wtmeb = v.wtmeb /\ w.suscnt = 0
      /\ w.wspec = v.wspec /\ w.priority = v.priority /\ w.wupcnt = v.wupcnt
      /\ w.klocked = v.klocked /\ w.klockwait = v.klockwait /\ w.loc = v.loc
  BY <1>1 DEF TCB, Resumed
<1>3. ~v.klockwait
  BY <1>1 DEF TcbOK, LockOK
<1>4. s0 \in Kernel /\ s0.tcb[t] = w
  BY <1>1, SetTcbTwice
<1>5. Others(k, s0, t) /\ SameContext(k, s0)
  BY <1>1 DEF Others, SameContext, Kernel, SetTcb
<1>6. CASE v.state = "SUSPEND"
  <2>1. s = knl_make_ready(s0, t)
    BY <1>2, <1>4, <1>6 DEF Resume
  <2>2. SamePlace(k, t, w, {})
    BY <1>2 DEF SamePlace, Linked
  <2>3. Queues(s0, {}) /\ LK(s0)
    BY <1>1, <2>2, UpdateFacts
  <2> HIDE DEF s0
  <2>4. OthersOK(s0, t)
    BY <1>1, <1>5 DEF OthersOK, Others
  <2>5. w.wtmeb = FALSE
    BY <1>1, <1>2, <1>6 DEF TcbOK, Waiting, TCB
  <2>6. TcbOK(Readied(w))
    BY <1>1, <1>2, <1>3, <1>6, <2>5 DEF TcbOK, LockOK, TCB, Readied, Waiting
  <2>7. w.state # "READY" /\ ~w.klockwait /\ Readied(w).state = "READY"
        /\ Readied(w).klockwait = w.klockwait
    BY <1>2, <1>3, <1>6 DEF Readied, TCB
  <2>8. Core(s) /\ SameContext(s0, s) /\ Others(s0, s, t) /\ s.tcb[t] = Readied(w)
    BY <1>4, <2>1, <2>3, <2>4, <2>6, <2>7, ReadyCore
  <2>9. SameContext(k, s) /\ Others(k, s, t)
    BY <1>5, <2>8 DEF SameContext, Others
  <2> QED BY <2>7, <2>8, <2>9, KeepsFacts DEF IInv
<1>7. CASE v.state = "WAITSUS"
  <2> DEFINE u == [w EXCEPT !.state = "WAIT"]
  <2>1. SetTcb(s0, t, u) = SetTcb(k, t, u)
    BY <1>1, SetTcbTwice
  <2>2. s = SetTcb(k, t, u)
    BY <1>2, <1>4, <1>7, <2>1 DEF Resume, SetTcb
  <2>3. /\ u \in TCB /\ u.state = "WAIT" /\ u.suscnt = 0 /\ u.wtmeb = w.wtmeb
        /\ u.klocked = w.klocked /\ u.klockwait = w.klockwait /\ u.wspec = w.wspec
        /\ u.wupcnt = w.wupcnt
    BY <1>2 DEF TCB, TaskState
  <2> HIDE DEF u, s0
  <2>4. ~v.klocked
    BY <1>1, <1>7 DEF TcbOK, LockOK
  <2>5. InPlace(v, u)
    BY <1>1, <1>2, <1>3, <1>7, <2>3, <2>4 DEF InPlace, TcbOK, LockOK, Waiting
  <2>6. Core(s) /\ SameContext(k, s) /\ Others(k, s, t)
    BY <1>1, <2>2, <2>5, InPlaceCore
  <2> QED BY <1>7, <2>6, KeepsFacts DEF IInv
<1> QED BY <1>6, <1>7

\* tk_frsm_tsk keeps the invariant.
LEMMA FrsmTsk ==
  ASSUME IInv, NEW t \in Tasks, tk_frsm_tsk(t)
  PROVE  IInv'
<1> DEFINE w == Resumed(k.tcb[t])
           s == Resume(SetTcb(k, t, w), t)
<1>1. Call(s) /\ k.tcb[t].state \in {"SUSPEND", "WAITSUS"}
  BY DEF tk_frsm_tsk, SetTcb, Resumed
<1>2. w \in TCB
  <2>1. k.tcb[t] \in TCB /\ 0 \in 0 .. INT_MAX
    BY ConstantsAssumption DEF IInv, Good, Core, Kernel
  <2> QED BY <2>1 DEF TCB, Resumed
<1>3. Core(s) /\ SameContext(k, s) /\ Context(s)
  BY <1>1, <1>2, ResumeFacts
<1> HIDE DEF s
<1> QED BY <1>1, <1>3, CallFacts DEF IInv

\* tk_rsm_tsk keeps the invariant.
LEMMA RsmTsk ==
  ASSUME IInv, NEW t \in Tasks, tk_rsm_tsk(t)
  PROVE  IInv'
<1> DEFINE v == k.tcb[t]
           w == [v EXCEPT !.suscnt = @ - 1]
           s1 == SetTcb(k, t, w)
<1>1. k \in Kernel /\ v \in TCB /\ TcbOK(v)
  BY DEF IInv, Good, Core, Kernel
<1>2. /\ v.state \in {"SUSPEND", "WAITSUS"}
      /\ Call(IF s1.tcb[t].suscnt = 0 THEN Resume(s1, t) ELSE s1)
  BY DEF tk_rsm_tsk, SetTcb
<1>3. v.suscnt - 1 \in 0 .. INT_MAX
  <2>1. v.suscnt \in 0 .. INT_MAX /\ INT_MAX \in Nat
    BY <1>1, ConstantsAssumption DEF TCB
  <2>2. v.suscnt > 0
    BY <1>1, <1>2 DEF TcbOK
  <2> QED BY <2>1, <2>2
<1>4. /\ w \in TCB /\ w.state = v.state /\ w.suscnt = v.suscnt - 1 /\ w.wtmeb = v.wtmeb
      /\ w.wspec = v.wspec /\ w.priority = v.priority /\ w.wupcnt = v.wupcnt
      /\ w.klocked = v.klocked /\ w.klockwait = v.klockwait /\ w.loc = v.loc
  BY <1>1, <1>3 DEF TCB
<1>5. s1.tcb[t] = w
  BY <1>1, <1>4, SetTcbTwice
<1>6. CASE w.suscnt = 0
  <2> DEFINE s == Resume(s1, t)
  <2>1. Call(s)
    BY <1>2, <1>5, <1>6
  <2>2. w = Resumed(v)
    BY <1>1, <1>4, <1>6 DEF TCB, Resumed
  <2>3. Core(s) /\ SameContext(k, s) /\ Context(s)
    <3> HIDE DEF w
    <3> QED BY <1>2, <1>4, <2>2, ResumeFacts
  <2> HIDE DEF s
  <2> QED BY <2>1, <2>3, CallFacts DEF IInv
<1>7. CASE w.suscnt # 0
  <2>1. Call(SetTcb(k, t, w))
    BY <1>2, <1>5, <1>7
  <2> HIDE DEF w
  <2>2. w.suscnt > 0
    <3>1. w.suscnt \in 0 .. INT_MAX /\ INT_MAX \in Nat
      BY <1>4, ConstantsAssumption DEF TCB
    <3> QED BY <1>7, <3>1
  <2>3. InPlace(v, w)
    BY <1>1, <1>2, <1>4, <2>2 DEF InPlace, TcbOK, LockOK
  <2> QED BY <1>4, <2>1, <2>3, InPlaceCall DEF IInv
<1> QED BY <1>6, <1>7

\* tk_chg_pri keeps the invariant.
LEMMA ChgPri ==
  ASSUME IInv, NEW t \in Tasks, NEW pri \in Pri, tk_chg_pri(t, pri)
  PROVE  IInv'
<1> DEFINE v == k.tcb[t]
           s == knl_change_task_priority(k, t, pri)
           u == Moved(v, pri)
<1>1. /\ k \in Kernel /\ Queues(k, {}) /\ LK(k) /\ OthersOK(k, t)
      /\ v \in TCB /\ TcbOK(v) /\ LockOK(v)
  BY DEF IInv, Good, Core, Kernel, OthersOK, TcbOK
<1>2. Call(s)
  BY DEF tk_chg_pri
<1>3. /\ s \in Kernel /\ Queues(s, {}) /\ LK(s) /\ s.tcb[t] = u /\ Others(k, s, t)
      /\ SameContext(k, s)
  BY <1>1, ChangePriorityFacts
<1>4. /\ u.state = v.state /\ u.wtmeb = v.wtmeb /\ u.suscnt = v.suscnt /\ u.wspec = v.wspec
      /\ u.wupcnt = v.wupcnt /\ u.klocked = v.klocked /\ ~u.klockwait /\ u.loc = v.loc
  BY <1>1 DEF TCB, Moved
<1> HIDE DEF s, u
<1>5. TcbOK(u)
  BY <1>1, <1>4 DEF TcbOK, LockOK
<1>6. \A x \in Tasks : TcbOK(s.tcb[x])
  BY <1>1, <1>3, <1>5 DEF OthersOK, Others
<1>7. Core(s)
  BY <1>3, <1>6 DEF Core
<1>8. Context(s)
  BY <1>3, <1>4, KeepsFacts DEF IInv
<1> QED BY <1>2, <1>3, <1>7, <1>8, CallFacts DEF IInv

\* The control blocks do not change.
LEMMA SameTcbFacts ==
  ASSUME IInv, NEW s, s \in Kernel, Queues(s, {}), LK(s), s.tcb = k.tcb, SameContext(k, s)
  PROVE  Core(s) /\ Context(s) /\ KeepsRunning(k, s)
<1>1. Core(s)
  BY DEF IInv, Good, Core
<1>2. KeepsRunning(k, s)
  BY DEF KeepsRunning
<1> QED BY <1>1, <1>2, KeepsContext DEF IInv

\* tk_rot_rdq keeps the invariant.
LEMMA RotRdq ==
  ASSUME IInv, tk_rot_rdq
  PROVE  IInv'
<1>1. k \in Kernel /\ Queues(k, {}) /\ LK(k) /\ Core(k) /\ Context(k)
  BY DEF IInv, Good, Core
<1>2. ASSUME NEW p \in Pri
      PROVE  LET s == knl_rotate_ready_queue(k, p)
             IN  Core(s) /\ SameContext(k, s) /\ Context(s) /\ KeepsRunning(k, s)
  <2> DEFINE s == knl_rotate_ready_queue(k, p)
  <2>1. s \in Kernel /\ Queues(s, {}) /\ LK(s) /\ s.tcb = k.tcb /\ SameContext(k, s)
    BY <1>1, RotateFacts
  <2> HIDE DEF s
  <2>2. Core(s) /\ Context(s) /\ KeepsRunning(k, s)
    BY <2>1, SameTcbFacts
  <2> QED BY <2>1, <2>2 DEF s
<1>3. CASE \E pri \in Pri : Call(knl_rotate_ready_queue(k, pri))
  BY <1>2, <1>3, CallFacts DEF IInv
<1>4. CASE InTask /\ TaskCall(knl_rotate_ready_queue(k, k.tcb[k.ctxtsk].priority))
  <2>1. k.tcb[k.ctxtsk].priority \in Pri
    BY <1>4, InTaskFacts DEF TCB
  <2> QED BY <1>2, <1>4, <2>1, TaskCallFacts DEF IInv, TaskCall, InTask
<1>5. CASE k' = rtos_int_exit(knl_rotate_ready_queue_run(k))
  <2>1. CASE k.schedtsk = NoTask
    BY <1>1, <1>5, <2>1, IntExitFacts DEF knl_rotate_ready_queue_run, IInv
  <2>2. CASE k.schedtsk # NoTask
    <3> DEFINE x == k.schedtsk
               p == k.tcb[x].priority
    <3>1. x \in Tasks /\ k.tcb[x].state = "READY" /\ ~k.tcb[x].klockwait
      BY <1>1, <2>2, SchedReady
    <3>2. p \in Pri /\ k.top_priority \in 0 .. NUM_TSKPRI /\ k.bitmap \subseteq Pri
      BY <1>1, <3>1 DEF Kernel, TCB
    <3>3. x \in Elems(k.tskque[p])
      BY <1>1, <3>1, <3>2 DEF Queues, RQ
    <3>4. k.tskque[p] # << >>
      BY <3>3 DEF Elems
    <3>5. k.top_priority <= p
      BY <1>1, <3>2, <3>4 DEF Queues, RQ
    <3>6. k.top_priority \in Pri
      BY <3>2, <3>5, ConstantsAssumption DEF Pri
    <3>7. k' = rtos_int_exit(knl_rotate_ready_queue(k, k.top_priority))
      BY <1>5, <2>2 DEF knl_rotate_ready_queue_run
    <3> QED BY <1>2, <3>6, <3>7, IntExitFacts DEF IInv
  <2> QED BY <2>1, <2>2
<1> QED BY <1>3, <1>4, <1>5 DEF tk_rot_rdq

\* tk_ref_tsk keeps the invariant.
LEMMA RefTsk ==
  ASSUME IInv, tk_ref_tsk
  PROVE  IInv'
<1>1. Core(k) /\ SameContext(k, k) /\ KeepsRunning(k, k)
  BY DEF IInv, Good, SameContext, KeepsRunning
<1> QED BY <1>1, TaskCallFacts DEF tk_ref_tsk, TaskCall, InTask, IInv

\* tk_dis_dsp keeps the invariant.
LEMMA DisDsp ==
  ASSUME IInv, tk_dis_dsp
  PROVE  IInv'
<1>1. k' = [k EXCEPT !.dispatch_disabled = TRUE] /\ k.ctxtsk # NoTask /\ ~k.idle
  BY DEF tk_dis_dsp, InTask
<1>2. /\ k' \in Kernel /\ SameQueues(k, k') /\ k'.dispatch_disabled = TRUE
      /\ k'.ctxtsk = k.ctxtsk /\ k'.idle = k.idle
  BY <1>1 DEF IInv, Good, Core, Kernel, SameQueues
<1>3. Core(k')
  BY <1>2, CoreFrame DEF IInv, Good
<1> QED BY <1>1, <1>2, <1>3 DEF IInv, Good, Context, Dispatched, SameQueues

\* tk_ena_dsp keeps the invariant.
LEMMA EnaDsp ==
  ASSUME IInv, tk_ena_dsp
  PROVE  IInv'
<1> DEFINE s == [k EXCEPT !.dispatch_disabled = FALSE]
<1>1. k' = END_CRITICAL_SECTION(s)
  BY DEF tk_ena_dsp, TaskCall
<1>2. k.ctxtsk \in Tasks /\ ~k.idle
  BY InTaskFacts DEF tk_ena_dsp, TaskCall
<1>3. /\ s \in Kernel /\ SameQueues(k, s) /\ s.dispatch_disabled = FALSE
      /\ s.ctxtsk = k.ctxtsk /\ s.idle = k.idle
  BY DEF IInv, Good, Core, Kernel, SameQueues
<1> HIDE DEF s
<1>4. Core(s)
  BY <1>3, CoreFrame DEF IInv, Good
<1> QED BY <1>1, <1>2, <1>3, <1>4, EndCriticalFacts DEF IInv

\* The task in execution starts to wait.
LEMMA MakeWaitFacts ==
  ASSUME IInv, InTask, NEW wspec \in {"SLP", "DLY"}, NEW tmo \in BOOLEAN,
         wspec = "SLP" => k.tcb[k.ctxtsk].wupcnt = 0,
         wspec = "DLY" => tmo,
         NEW s, s = knl_make_wait(k, wspec, tmo)
  PROVE  Core(s) /\ SameContext(k, s)
<1> DEFINE t == k.ctxtsk
           v == k.tcb[t]
<1>1. /\ t \in Tasks /\ v \in TCB /\ TcbOK(v) /\ v.state \in {"READY", "SUSPEND"}
      /\ v.klocked = FALSE /\ v.klockwait = FALSE
  BY InTaskFacts
<1>2. k \in Kernel /\ Queues(k, {}) /\ LK(k) /\ OthersOK(k, t) /\ Core(k)
  BY DEF IInv, Good, Core, OthersOK
<1>3. CASE v.state = "READY"
  <2> DEFINE m == knl_make_non_ready(k, t)
             x == [Unparked(v) EXCEPT !.state = "WAIT"]
             u == [x EXCEPT !.wspec = wspec, !.wtmeb = tmo]
  <2>1. LockOK(v)
    BY <1>1 DEF TcbOK
  <2>2. m \in Kernel /\ m.tcb[t] = Unparked(v)
    BY <1>1, <1>2, <1>3, <2>1, MakeNonReadyFacts
  <2>3. x \in TCB
    BY <1>1 DEF TCB, Unparked, TaskState
  <2>4. s = SetTcb(SetTcb(m, t, x), t, u)
    <3>1. SetTcb(m, t, x).tcb[t] = x
      BY <1>1, <2>2, <2>3, SetTcbTwice
    <3> QED BY <1>3, <2>2, <3>1 DEF knl_make_wait, SetTcb
  <2>5. s = SetTcb(m, t, u)
    BY <1>1, <2>2, <2>3, <2>4, SetTcbTwice
  <2>6. /\ u \in TCB /\ u.state = "WAIT" /\ u.wspec = wspec /\ u.wtmeb = tmo
        /\ u.wupcnt = v.wupcnt /\ u.suscnt = v.suscnt
        /\ u.klocked = FALSE /\ u.klockwait = FALSE
    <3>1. /\ x.wupcnt = v.wupcnt /\ x.suscnt = v.suscnt /\ x.state = "WAIT"
          /\ x.klocked = FALSE /\ x.klockwait = FALSE
      BY <1>1 DEF TCB, Unparked
    <3> HIDE DEF x
    <3> QED BY <2>3, <3>1 DEF TCB
  <2> HIDE DEF u, m
  <2>7. Retired(v, u)
    BY <1>1, <1>3, <2>6 DEF Retired, TcbOK, LockOK, Waiting
  <2> QED BY <1>1, <1>2, <1>3, <2>1, <2>5, <2>7, RetireCore DEF m
<1>4. CASE v.state = "SUSPEND"
  <2> DEFINE x == [v EXCEPT !.state = "WAITSUS"]
             u == [x EXCEPT !.wspec = wspec, !.wtmeb = tmo]
  <2>1. x \in TCB
    BY <1>1 DEF TCB, TaskState
  <2>2. s = SetTcb(SetTcb(k, t, x), t, u)
    <3>1. SetTcb(k, t, x).tcb[t] = x
      BY <1>1, <1>2, <2>1, SetTcbTwice
    <3> QED BY <1>4, <3>1 DEF knl_make_wait, SetTcb
  <2>3. s = SetTcb(k, t, u)
    BY <1>1, <1>2, <2>1, <2>2, SetTcbTwice
  <2>4. /\ u \in TCB /\ u.state = "WAITSUS" /\ u.wspec = wspec /\ u.wtmeb = tmo
        /\ u.wupcnt = v.wupcnt /\ u.suscnt = v.suscnt
        /\ u.klocked = FALSE /\ u.klockwait = FALSE
    <3>1. /\ x.wupcnt = v.wupcnt /\ x.suscnt = v.suscnt /\ x.state = "WAITSUS"
          /\ x.klocked = FALSE /\ x.klockwait = FALSE
      BY <1>1 DEF TCB
    <3> HIDE DEF x
    <3> QED BY <2>1, <3>1 DEF TCB
  <2> HIDE DEF u
  <2>5. InPlace(v, u)
    BY <1>1, <1>4, <2>4 DEF InPlace, TcbOK, LockOK, Waiting
  <2> QED BY <1>1, <1>2, <2>3, <2>5, InPlaceCore
<1> QED BY <1>1, <1>3, <1>4

\* tk_slp_tsk keeps the invariant.
LEMMA SlpTsk ==
  ASSUME IInv, NEW tmo \in BOOLEAN, tk_slp_tsk(tmo)
  PROVE  IInv'
<1> DEFINE t == k.ctxtsk
           v == k.tcb[t]
<1>1. InTask /\ ~k.dispatch_disabled /\ k.ctxtsk # NoTask /\ ~k.idle
  BY DEF tk_slp_tsk, MayBlock, InTask
<1>2. t \in Tasks /\ v \in TCB /\ TcbOK(v) /\ v.state \in {"READY", "SUSPEND"}
  BY <1>1, InTaskFacts
<1>3. CASE v.wupcnt > 0
  <2> DEFINE u == [v EXCEPT !.wupcnt = @ - 1]
  <2>1. k' = END_CRITICAL_SECTION(SetTcb(k, t, u))
    BY <1>3 DEF tk_slp_tsk, TaskCall, SetTcb
  <2>2. v.wupcnt - 1 \in 0 .. INT_MAX
    BY <1>2, <1>3, ConstantsAssumption DEF TCB
  <2>3. /\ u \in TCB /\ u.state = v.state /\ u.suscnt = v.suscnt /\ u.wtmeb = v.wtmeb
        /\ u.wspec = v.wspec /\ u.priority = v.priority
        /\ u.klocked = v.klocked /\ u.klockwait = v.klockwait /\ u.loc = v.loc
    BY <1>2, <2>2 DEF TCB
  <2> HIDE DEF u
  <2>4. InPlace(v, u)
    BY <1>2, <2>3 DEF InPlace, TcbOK, LockOK, Waiting
  <2> DEFINE s == SetTcb(k, t, u)
  <2>5. Core(s) /\ SameContext(k, s)
    BY <1>2, <2>4, InPlaceCore DEF IInv, Good
  <2> HIDE DEF s
  <2> QED BY <1>1, <2>1, <2>5, TaskCallFacts DEF IInv, s
<1>4. CASE ~(v.wupcnt > 0)
  <2> DEFINE s == knl_make_wait(k, "SLP", tmo)
  <2>1. k' = END_CRITICAL_SECTION(s)
    BY <1>4 DEF tk_slp_tsk, TaskCall
  <2>2. v.wupcnt = 0
    BY <1>2, <1>4, ConstantsAssumption DEF TCB
  <2>3. Core(s) /\ SameContext(k, s)
    BY <1>1, <2>2, MakeWaitFacts
  <2> HIDE DEF s
  <2> QED BY <1>1, <2>1, <2>3, TaskCallFacts DEF IInv
<1> QED BY <1>3, <1>4

\* tk_dly_tsk keeps the invariant.
LEMMA DlyTsk ==
  ASSUME IInv, tk_dly_tsk
  PROVE  IInv'
<1> DEFINE s == knl_make_wait(k, "DLY", TRUE)
<1>1. InTask /\ ~k.dispatch_disabled /\ k.ctxtsk # NoTask /\ ~k.idle
  BY DEF tk_dly_tsk, MayBlock, InTask
<1>2. k' = END_CRITICAL_SECTION(s)
  BY DEF tk_dly_tsk, TaskCall
<1>3. Core(s) /\ SameContext(k, s)
  BY <1>1, MakeWaitFacts
<1> HIDE DEF s
<1> QED BY <1>1, <1>2, <1>3, TaskCallFacts DEF IInv

\* A task is stopped from any state; it holds no lock.
LEMMA TerFacts ==
  ASSUME IInv, NEW t \in Tasks, k.tcb[t].state \in knl_task_alive, ~k.tcb[t].klocked
  PROVE  LET m == knl_ter_tsk(k, t)
         IN  /\ m.tcb[t] \in TCB /\ m.tcb[t].ipriority = k.tcb[t].ipriority
             /\ ~m.tcb[t].wtmeb
             /\ \A u \in TCB :
                  TcbOK(u) /\ u.state # "READY" /\ u.klocked = FALSE /\ u.klockwait = FALSE
                  => LET s == SetTcb(m, t, u)
                     IN  Core(s) /\ SameContext(k, s) /\ Others(k, s, t) /\ s.tcb[t] = u
<1> DEFINE v == k.tcb[t]
           m == knl_ter_tsk(k, t)
<1>1. /\ v \in TCB /\ TcbOK(v) /\ LockOK(v)
      /\ k \in Kernel /\ Queues(k, {}) /\ LK(k) /\ OthersOK(k, t) /\ Core(k)
  BY DEF IInv, Good, Core, Kernel, OthersOK, TcbOK
<1>2. CASE v.state = "READY"
  <2>1. m = knl_make_non_ready(k, t)
    BY <1>2 DEF knl_ter_tsk, Waiting
  <2>2. m.tcb[t] = Unparked(v)
    BY <1>1, <1>2, <2>1, MakeNonReadyFacts, ZenonT(30)
  <2>3. Unparked(v) \in TCB /\ Unparked(v).ipriority = v.ipriority /\ ~Unparked(v).wtmeb
    BY <1>1, <1>2 DEF Unparked, TCB, TcbOK, Waiting
  <2>4. ASSUME NEW u \in TCB, TcbOK(u), u.state # "READY", u.klocked = FALSE, u.klockwait = FALSE,
               NEW s, s = SetTcb(m, t, u)
        PROVE  Core(s) /\ SameContext(k, s) /\ Others(k, s, t) /\ s.tcb[t] = u
    <3>1. v.klocked = FALSE
      BY <1>1 DEF TCB
    <3>2. Retired(v, u)
      BY <2>4, <3>1 DEF Retired
    <3> QED BY <1>1, <1>2, <2>1, <2>4, <3>2, RetireCore
  <2> HIDE DEF m
  <2> QED BY <2>2, <2>3, <2>4 DEF m
<1>3. CASE v.state # "READY"
  <2> DEFINE w == m.tcb[t]
  <2>1. w \in TCB /\ w.ipriority = v.ipriority /\ ~w.wtmeb /\ m = SetTcb(k, t, w)
    <3>1. CASE v.state \in Waiting
      <4> DEFINE x == [v EXCEPT !.wtmeb = FALSE]
      <4>1. m = SetTcb(k, t, x)
        BY <1>3, <3>1 DEF knl_ter_tsk, knl_timer_delete, SetTcb
      <4>2. x \in TCB /\ x.ipriority = v.ipriority /\ ~x.wtmeb
        BY <1>1 DEF TCB
      <4> HIDE DEF x, m
      <4>3. w = x
        BY <1>1, <4>1, <4>2, SetTcbTwice
      <4> QED BY <4>1, <4>2, <4>3
    <3>2. CASE v.state \notin Waiting
      <4>1. m = k /\ ~v.wtmeb
        BY <1>1, <1>3, <3>2 DEF knl_ter_tsk, TcbOK
      <4>2. k = SetTcb(k, t, v)
        BY <1>1 DEF SetTcb, Kernel
      <4> HIDE DEF m
      <4> QED BY <1>1, <4>1, <4>2
    <3> QED BY <3>1, <3>2
  <2> HIDE DEF m, w
  <2>2. ASSUME NEW u \in TCB, TcbOK(u), u.state # "READY", u.klocked = FALSE, u.klockwait = FALSE,
               NEW s, s = SetTcb(m, t, u)
        PROVE  Core(s) /\ SameContext(k, s) /\ Others(k, s, t) /\ s.tcb[t] = u
    <3>1. v.klocked = FALSE /\ v.klockwait = FALSE
      BY <1>1, <1>3 DEF TCB, LockOK
    <3>2. InPlace(v, u)
      BY <1>3, <2>2, <3>1 DEF InPlace
    <3>3. s = SetTcb(k, t, u)
      BY <1>1, <2>1, <2>2, SetTcbTwice
    <3> QED BY <1>1, <3>2, <3>3, InPlaceCore
  <2> QED BY <2>1, <2>2 DEF m, w
<1> QED BY <1>2, <1>3

\* What stopping a task leaves to be done: any control block that is off the
\* queues completes it.
LEMMA TerCore ==
  ASSUME IInv, NEW t \in Tasks, k.tcb[t].state \in knl_task_alive, ~k.tcb[t].klocked,
         NEW u, u \in {DormantTcb(knl_ter_tsk(k, t).tcb[t]), NoTCB},
         NEW s, s = SetTcb(knl_ter_tsk(k, t), t, u)
  PROVE  Core(s) /\ SameContext(k, s) /\ Others(k, s, t)
<1> DEFINE w == knl_ter_tsk(k, t).tcb[t]
<1>1. w \in TCB /\ ~w.wtmeb
  BY TerFacts
<1>2. CASE u = NoTCB
  <2>1. u \in TCB /\ TcbOK(u) /\ u.state # "READY" /\ u.klocked = FALSE /\ u.klockwait = FALSE
    BY <1>2, NoTCBFacts
  <2> QED BY <2>1, TerFacts
<1>3. CASE u = DormantTcb(w)
  <2>1. u \in TCB /\ TcbOK(u) /\ u.state # "READY" /\ u.klocked = FALSE /\ u.klockwait = FALSE
    BY <1>1, <1>3, DormantFacts
  <2> QED BY <2>1, TerFacts
<1> QED BY <1>2, <1>3

\* tk_ter_tsk keeps the invariant.
LEMMA TerTsk ==
  ASSUME IInv, Conditions, NEW t \in Tasks, tk_ter_tsk(t)
  PROVE  IInv'
<1> DEFINE m == knl_ter_tsk(k, t)
           u == DormantTcb(m.tcb[t])
           s == SetTcb(m, t, u)
<1>1. /\ k.tcb[t].state \in knl_task_alive /\ ~k.tcb[t].klocked /\ t # k.ctxtsk
      /\ Call(knl_make_dormant(m, t))
  BY DEF tk_ter_tsk, Conditions
<1>2. knl_make_dormant(m, t) = s
  BY DEF knl_make_dormant, SetTcb, DormantTcb
<1>3. Core(s) /\ SameContext(k, s) /\ Others(k, s, t)
  BY <1>1, TerCore
<1> HIDE DEF s
<1>4. Context(s)
  BY <1>1, <1>3, KeepsFacts DEF IInv
<1> QED BY <1>1, <1>2, <1>3, <1>4, CallFacts DEF IInv

\* tk_ext_tsk keeps the invariant.
LEMMA ExtTsk ==
  ASSUME IInv, tk_ext_tsk
  PROVE  IInv'
<1> DEFINE t == k.ctxtsk
           m == knl_ter_tsk(k, t)
           u == DormantTcb(m.tcb[t])
           s == SetTcb(m, t, u)
<1>1. InTask /\ k' = knl_force_dispatch(knl_make_dormant(m, t))
  BY DEF tk_ext_tsk
<1>2. t \in Tasks /\ k.tcb[t].state \in knl_task_alive /\ ~k.tcb[t].klocked
  BY <1>1, InTaskFacts DEF knl_task_alive
<1>3. knl_make_dormant(m, t) = s
  BY DEF knl_make_dormant, SetTcb, DormantTcb
<1>4. Core(s)
  BY <1>2, TerCore
<1> HIDE DEF s
<1> QED BY <1>1, <1>3, <1>4, ForceDispatchFacts DEF IInv

\* tk_exd_tsk keeps the invariant.
LEMMA ExdTsk ==
  ASSUME IInv, tk_exd_tsk
  PROVE  IInv'
<1> DEFINE t == k.ctxtsk
           m == knl_ter_tsk(k, t)
           s == SetTcb(m, t, NoTCB)
<1>1. InTask /\ k' = knl_force_dispatch(knl_del_tsk(m, t))
  BY DEF tk_exd_tsk
<1>2. t \in Tasks /\ k.tcb[t].state \in knl_task_alive /\ ~k.tcb[t].klocked
  BY <1>1, InTaskFacts DEF knl_task_alive
<1>3. knl_del_tsk(m, t) = s
  BY DEF knl_del_tsk, SetTcb
<1>4. Core(s)
  BY <1>2, TerCore
<1> HIDE DEF s
<1> QED BY <1>1, <1>3, <1>4, ForceDispatchFacts DEF IInv

\* knl_reschedule completes a step that left the queues and locks in order.
LEMMA RescheduleCore ==
  ASSUME NEW s \in Kernel, RQ(s, {}), KR(s), LK(s),
         \A x \in Tasks : TcbOK(s.tcb[x]),
         NEW r, r = knl_reschedule(s)
  PROVE  Core(r) /\ SameContext(s, r) /\ r.tcb = s.tcb
<1>1. r \in Kernel /\ Queues(r, {})
  BY RescheduleFacts
<1>2. r.tcb = s.tcb /\ r.lock = s.lock /\ SameContext(s, r)
  BY DEF knl_reschedule, SameContext, Kernel
<1>3. LK(r)
  BY <1>2 DEF LK
<1> QED BY <1>1, <1>2, <1>3 DEF Core

\* The control block of a task that takes the free lock l.
Locker(v, l) == [[v EXCEPT !.loc = l] EXCEPT !.klocked = TRUE]

Taken(s, t, l) ==
  [[s EXCEPT !.tcb[t].loc = l] EXCEPT !.lock[l].held = TRUE,
                                      !.tcb[t] = [@ EXCEPT !.klocked = TRUE],
                                      !.klocktsk = t]

\* A free lock is taken: Core stays.
LEMMA TakenFacts ==
  ASSUME NEW s, Core(s), NEW t \in Tasks, NEW l \in Locks,
         s.tcb[t].state = "READY", ~s.tcb[t].klockwait, ~s.tcb[t].klocked, ~s.lock[l].held,
         NEW r, r = Taken(s, t, l)
  PROVE  Core(r) /\ SameContext(s, r)
<1> DEFINE v == s.tcb[t]
           u == Locker(v, l)
           b == [s.lock[l] EXCEPT !.held = TRUE]
<1>1. /\ s \in Kernel /\ v \in TCB /\ TcbOK(v) /\ Queues(s, {}) /\ LK(s)
      /\ s.lock[l] \in [held : BOOLEAN, wtskq : Seq(Tasks)]
  BY DEF Core, Kernel
<1>2. /\ u \in TCB /\ u.state = v.state /\ u.priority = v.priority /\ u.wtmeb = v.wtmeb
      /\ u.wspec = v.wspec /\ u.wupcnt = v.wupcnt /\ u.suscnt = v.suscnt
      /\ u.klockwait = v.klockwait /\ u.klocked = TRUE /\ u.loc = l
  BY <1>1 DEF Locker, TCB
<1>3. /\ b \in [held : BOOLEAN, wtskq : Seq(Tasks)]
      /\ b.held = TRUE /\ b.wtskq = s.lock[l].wtskq
  BY <1>1
<1>4. /\ r.tcb = [s.tcb EXCEPT ![t] = u] /\ r.lock = [s.lock EXCEPT ![l] = b]
      /\ r.klocktsk = t /\ r.tskque = s.tskque /\ r.bitmap = s.bitmap
      /\ r.top_priority = s.top_priority /\ r.schedtsk = s.schedtsk
      /\ SameContext(s, r)
  BY <1>1 DEF Taken, Locker, Kernel, SameContext
<1>5. r \in Kernel
  <2>1. /\ [s.tcb EXCEPT ![t] = u] \in [Tasks -> TCB]
        /\ [s.lock EXCEPT ![l] = b] \in [Locks -> [held : BOOLEAN, wtskq : Seq(Tasks)]]
    BY <1>1, <1>2, <1>3 DEF Kernel
  <2>2. r = [s EXCEPT !.tcb = [s.tcb EXCEPT ![t] = u],
                      !.lock = [s.lock EXCEPT ![l] = b], !.klocktsk = t]
    BY <1>1, ZenonT(30) DEF Taken, Locker, Kernel
  <2> HIDE DEF u, b
  <2> QED BY <1>1, <2>1, <2>2 DEF Kernel
<1> HIDE DEF u, b
<1>6. /\ \A x \in Tasks : r.tcb[x] = IF x = t THEN u ELSE s.tcb[x]
      /\ \A x \in Locks : r.lock[x] = IF x = l THEN b ELSE s.lock[x]
  BY <1>1, <1>4 DEF Kernel
<1>7. Queues(r, {})
  <2>1. ASSUME NEW p \in Pri, NEW x \in Tasks
        PROVE  x \in Elems(r.tskque[p]) <=> Linked(r.tcb[x], p)
    BY <1>1, <1>2, <1>4, <1>6 DEF Queues, RQ, Linked
  <2>2. RQ(r, {})
    BY <1>1, <1>4, <2>1 DEF Queues, RQ, Linked
  <2>3. First(r) = First(s)
    BY <1>4 DEF First
  <2>4. ST(r) /\ KR(r)
    BY <1>1, <1>2, <1>4, <1>6, <2>3 DEF Queues, ST, KR, Kernel
  <2> QED BY <2>2, <2>4 DEF Queues
<1>8. LK(r)
  <2>1. \A x \in Tasks : s.tcb[x].klocked => s.tcb[x].loc # l
    BY <1>1 DEF LK
  <2>2. ASSUME NEW x \in Locks
        PROVE  /\ Injective(r.lock[x].wtskq)
               /\ \A y \in Tasks : y \in Elems(r.lock[x].wtskq) <=>
                    r.tcb[y].klockwait /\ r.tcb[y].loc = x
               /\ ~r.lock[x].held => r.lock[x].wtskq = << >>
    BY <1>1, <1>2, <1>3, <1>6 DEF LK
  <2>3. ASSUME NEW x \in Locks
        PROVE  r.lock[x].held <=> \E y \in Tasks : r.tcb[y].klocked /\ r.tcb[y].loc = x
    <3>1. CASE x = l
      <4>1. r.lock[x].held /\ r.tcb[t].klocked /\ r.tcb[t].loc = x
        BY <1>2, <1>3, <1>6, <3>1
      <4> QED BY <4>1
    <3>2. CASE x # l
      <4>1. \A y \in Tasks : r.tcb[y].klocked /\ r.tcb[y].loc = x <=>
                             s.tcb[y].klocked /\ s.tcb[y].loc = x
        BY <1>2, <1>6, <3>2
      <4> QED BY <1>1, <1>6, <3>2, <4>1 DEF LK
    <3> QED BY <3>1, <3>2
  <2>4. \A x, y \in Tasks :
          (r.tcb[x].klocked /\ r.tcb[y].klocked /\ r.tcb[x].loc = r.tcb[y].loc) => x = y
    BY <1>1, <1>2, <1>6, <2>1 DEF LK
  <2> QED BY <2>2, <2>3, <2>4 DEF LK
<1>9. TcbOK(u)
  BY <1>1, <1>2, ConstantsAssumption DEF TcbOK, LockOK, Waiting
<1>10. \A x \in Tasks : TcbOK(r.tcb[x])
  BY <1>6, <1>9 DEF Core
<1> QED BY <1>4, <1>5, <1>7, <1>8, <1>10 DEF Core

\* A READY task off the queues joins the queue of a lock in use.
Parked(v) == [v EXCEPT !.klockwait = TRUE]

Park(s, t, l) == [s EXCEPT !.tcb[t].klockwait = TRUE, !.lock[l].wtskq = QueInsert(@, t)]

\* A task that finds the lock taken is parked in its queue.
LEMMA ParkFacts ==
  ASSUME NEW s \in Kernel, NEW t \in Tasks, NEW l \in Locks, RQ(s, {t}), KR(s), LK(s),
         \A x \in Tasks : TcbOK(s.tcb[x]),
         s.tcb[t].state = "READY", ~s.tcb[t].klockwait, ~s.tcb[t].klocked,
         s.tcb[t].loc = l, s.lock[l].held, s.klocktsk # t,
         NEW r, r = Park(s, t, l)
  PROVE  /\ r \in Kernel /\ RQ(r, {}) /\ KR(r) /\ LK(r)
         /\ \A x \in Tasks : TcbOK(r.tcb[x])
         /\ SameContext(s, r)
<1> DEFINE v == s.tcb[t]
           u == Parked(v)
           q == QueInsert(s.lock[l].wtskq, t)
           b == [s.lock[l] EXCEPT !.wtskq = q]
<1>1. /\ v \in TCB /\ TcbOK(v)
      /\ s.lock[l] \in [held : BOOLEAN, wtskq : Seq(Tasks)]
  BY DEF Kernel
<1>2. /\ u \in TCB /\ u.state = v.state /\ u.priority = v.priority /\ u.wtmeb = v.wtmeb
      /\ u.wspec = v.wspec /\ u.wupcnt = v.wupcnt /\ u.suscnt = v.suscnt
      /\ u.klockwait = TRUE /\ u.klocked = v.klocked /\ u.loc = l
  BY <1>1 DEF Parked, TCB
<1>3. q \in Seq(Tasks) /\ Elems(q) = Elems(s.lock[l].wtskq) \cup {t} /\ Injective(q)
  <2>1. s.lock[l].wtskq \in Seq(Tasks)
    BY <1>1
  <2>2. Injective(s.lock[l].wtskq) /\ t \notin Elems(s.lock[l].wtskq)
    BY DEF LK
  <2> QED BY <2>1, <2>2, QueInsertFacts
<1>4. /\ b \in [held : BOOLEAN, wtskq : Seq(Tasks)]
      /\ b.held = s.lock[l].held /\ b.wtskq = q
  BY <1>1, <1>3
<1>5. /\ r.tcb = [s.tcb EXCEPT ![t] = u] /\ r.lock = [s.lock EXCEPT ![l] = b]
      /\ r.klocktsk = s.klocktsk /\ r.tskque = s.tskque /\ r.bitmap = s.bitmap
      /\ r.top_priority = s.top_priority /\ r.schedtsk = s.schedtsk
      /\ SameContext(s, r)
  BY DEF Park, Parked, Kernel, SameContext
<1>6. r \in Kernel
  <2>1. /\ [s.tcb EXCEPT ![t] = u] \in [Tasks -> TCB]
        /\ [s.lock EXCEPT ![l] = b] \in [Locks -> [held : BOOLEAN, wtskq : Seq(Tasks)]]
    BY <1>2, <1>4 DEF Kernel
  <2>2. r = [s EXCEPT !.tcb = [s.tcb EXCEPT ![t] = u],
                      !.lock = [s.lock EXCEPT ![l] = b]]
    BY DEF Park, Parked, Kernel
  <2> HIDE DEF u, b
  <2> QED BY <2>1, <2>2 DEF Kernel
<1> HIDE DEF u, b, q
<1>7. /\ \A x \in Tasks : r.tcb[x] = IF x = t THEN u ELSE s.tcb[x]
      /\ \A x \in Locks : r.lock[x] = IF x = l THEN b ELSE s.lock[x]
  BY <1>5 DEF Kernel
<1>8. RQ(r, {})
  <2>1. ASSUME NEW p \in Pri, NEW x \in Tasks
        PROVE  x \in Elems(r.tskque[p]) <=> Linked(r.tcb[x], p)
    BY <1>2, <1>5, <1>7 DEF RQ, Linked
  <2> QED BY <1>5, <2>1 DEF RQ, Linked
<1>9. KR(r)
  BY <1>5, <1>7, ConstantsAssumption DEF KR, Kernel
<1>10. LK(r)
  <2>1. \A x \in Tasks : r.tcb[x].klocked = s.tcb[x].klocked /\ r.tcb[x].loc = s.tcb[x].loc
    BY <1>2, <1>7
  <2>2. \A x \in Tasks : r.tcb[x].klockwait <=> s.tcb[x].klockwait \/ x = t
    BY <1>2, <1>7
  <2>3. ASSUME NEW x \in Locks
        PROVE  /\ Injective(r.lock[x].wtskq)
               /\ \A y \in Tasks : y \in Elems(r.lock[x].wtskq) <=>
                    r.tcb[y].klockwait /\ r.tcb[y].loc = x
               /\ r.lock[x].held = s.lock[x].held
               /\ ~r.lock[x].held => r.lock[x].wtskq = << >>
    <3>1. CASE x # l
      BY <1>7, <2>1, <2>2, <3>1 DEF LK
    <3>2. CASE x = l
      <4>1. r.lock[x].wtskq = q /\ r.lock[x].held = s.lock[l].held
        BY <1>4, <1>7, <3>2
      <4>2. \A y \in Tasks : y \in Elems(s.lock[l].wtskq) <=>
              s.tcb[y].klockwait /\ s.tcb[y].loc = l
        BY DEF LK
      <4>3. ASSUME NEW y \in Tasks
            PROVE  y \in Elems(q) <=> r.tcb[y].klockwait /\ r.tcb[y].loc = l
        <5>1. CASE y = t
          BY <1>3, <2>1, <2>2, <5>1
        <5>2. CASE y # t
          <6>1. y \in Elems(q) <=> y \in Elems(s.lock[l].wtskq)
            BY <1>3, <5>2
          <6> QED BY <2>1, <2>2, <4>2, <5>2, <6>1
        <5> QED BY <5>1, <5>2
      <4> QED BY <1>3, <3>2, <4>1, <4>3
    <3> QED BY <3>1, <3>2
  <2> QED BY <2>1, <2>3 DEF LK
<1>11. TcbOK(u)
  BY <1>1, <1>2, ConstantsAssumption DEF TcbOK, LockOK, Waiting
<1> QED BY <1>5, <1>6, <1>7, <1>8, <1>9, <1>10, <1>11

\* knl_LockOBJ keeps the invariant, also when it tries again.
LEMMA LockOBJ ==
  ASSUME IInv, NEW l \in Locks, knl_LockOBJ(l)
  PROVE  IInv'
<1> DEFINE t == k.ctxtsk
           v == k.tcb[t]
<1>1. t # NoTask /\ ~k.idle /\ ~k.dispatch_disabled /\ v.loc \in {NoLock, l} /\ ~v.klocked
  BY DEF knl_LockOBJ
<1>2. t \in Tasks /\ v.state = "READY" /\ ~v.klockwait
  BY <1>1 DEF IInv, Good, Context
<1>3. k \in Kernel /\ Core(k) /\ Queues(k, {}) /\ LK(k) /\ v \in TCB /\ TcbOK(v)
  BY <1>2 DEF IInv, Good, Core, Kernel
<1>4. CASE ~k.lock[l].held
  <2> DEFINE s == Taken(k, t, l)
  <2>1. k' = END_CRITICAL_SECTION(s)
    BY <1>4 DEF knl_LockOBJ, Taken
  <2>2. Core(s) /\ SameContext(k, s)
    BY <1>1, <1>2, <1>3, <1>4, TakenFacts
  <2> HIDE DEF s
  <2> QED BY <1>1, <2>1, <2>2, TaskCallFacts DEF IInv
<1>5. CASE k.lock[l].held
  <2> DEFINE w == [v EXCEPT !.loc = l]
             s1 == SetTcb(k, t, w)
             d == ready_queue_delete(s1, t)
             s2 == Park(d, t, l)
             s == knl_reschedule(s2)
  <2>1. k' = END_CRITICAL_SECTION(s)
    BY <1>5 DEF knl_LockOBJ, Park, SetTcb
  <2>2. /\ w \in TCB /\ w.state = v.state /\ w.priority = v.priority /\ w.wtmeb = v.wtmeb
        /\ w.wspec = v.wspec /\ w.wupcnt = v.wupcnt /\ w.suscnt = v.suscnt
        /\ w.klockwait = v.klockwait /\ w.klocked = v.klocked /\ w.loc = l
    BY <1>3 DEF TCB
  <2> HIDE DEF w
  <2>3. InPlace(v, w)
    BY <1>1, <1>2, <1>3, <2>2 DEF InPlace, TcbOK, LockOK, Waiting
  <2>4. Core(s1) /\ SameContext(k, s1) /\ Others(k, s1, t) /\ s1.tcb[t] = w
    BY <1>2, <1>3, <2>3, InPlaceCore
  <2> HIDE DEF s1
  <2>5. s1 \in Kernel /\ Queues(s1, {}) /\ LK(s1) /\ \A x \in Tasks : TcbOK(s1.tcb[x])
    BY <2>4 DEF Core
  <2>6. /\ d \in Kernel /\ RQ(d, {t}) /\ KR(d) /\ LK(d)
        /\ d.tcb = s1.tcb /\ d.klocktsk # t /\ SameContext(s1, d)
    BY <1>2, <2>2, <2>4, <2>5, DeleteQueueFacts
  <2> HIDE DEF d
  <2>7. d.lock[l].held
    <3>1. PICK x \in Tasks : k.tcb[x].klocked /\ k.tcb[x].loc = l
      BY <1>3, <1>5 DEF LK
    <3>2. d.tcb[x].klocked /\ d.tcb[x].loc = l
      BY <1>1, <2>4, <2>6, <3>1 DEF Others
    <3> QED BY <2>6, <3>2 DEF LK
  <2>8. /\ d.tcb[t].state = "READY" /\ ~d.tcb[t].klockwait /\ ~d.tcb[t].klocked
        /\ d.tcb[t].loc = l
    BY <1>1, <1>2, <2>2, <2>4, <2>6
  <2>9. /\ s2 \in Kernel /\ RQ(s2, {}) /\ KR(s2) /\ LK(s2) /\ SameContext(d, s2)
        /\ \A x \in Tasks : TcbOK(s2.tcb[x])
    BY <1>2, <2>5, <2>6, <2>7, <2>8, ParkFacts
  <2> HIDE DEF s2
  <2>10. Core(s) /\ SameContext(s2, s)
    BY <2>9, RescheduleCore
  <2>11. SameContext(k, s)
    BY <2>4, <2>6, <2>9, <2>10 DEF SameContext
  <2> HIDE DEF s
  <2> QED BY <1>1, <2>1, <2>10, <2>11, TaskCallFacts DEF IInv
<1> QED BY <1>4, <1>5

\* The holder gives its lock up: its control block, the lock's record b and,
\* when a task is handed the lock, that task's control block change.
Freed(v) == [v EXCEPT !.klocked = FALSE, !.loc = NoLock]

Granted(v) == [v EXCEPT !.klockwait = FALSE, !.klocked = TRUE]

\* The control block of a task that gives its lock back.
LEMMA FreedFacts ==
  ASSUME NEW v \in TCB, TcbOK(v), v.klocked = TRUE, NEW u, u = Freed(v)
  PROVE  /\ u \in TCB /\ TcbOK(u) /\ u.klocked = FALSE /\ u.klockwait = FALSE
         /\ u.state = v.state
         /\ \A p \in Pri : Linked(u, p) <=> Linked(v, p)
<1>1. /\ u \in TCB /\ u.state = v.state /\ u.priority = v.priority /\ u.wtmeb = v.wtmeb
      /\ u.wspec = v.wspec /\ u.wupcnt = v.wupcnt /\ u.suscnt = v.suscnt
      /\ u.klockwait = v.klockwait /\ u.klocked = FALSE
  BY DEF Freed, TCB
<1>2. v.klockwait = FALSE
  BY DEF TcbOK, LockOK, TCB
<1> QED BY <1>1, <1>2 DEF TcbOK, LockOK, Waiting, Linked

\* The control block of a task that gets the lock.
LEMMA GrantedFacts ==
  ASSUME NEW v \in TCB, TcbOK(v), v.klockwait = TRUE, NEW u, u = Granted(v)
  PROVE  /\ u \in TCB /\ TcbOK(u) /\ u.klocked = TRUE /\ u.klockwait = FALSE
         /\ u.state = "READY" /\ u.loc = v.loc /\ u.priority = v.priority
<1>1. /\ u \in TCB /\ u.state = v.state /\ u.priority = v.priority /\ u.wtmeb = v.wtmeb
      /\ u.wspec = v.wspec /\ u.wupcnt = v.wupcnt /\ u.suscnt = v.suscnt
      /\ u.klockwait = FALSE /\ u.klocked = TRUE /\ u.loc = v.loc
  BY DEF Granted, TCB
<1> QED BY <1>1 DEF TcbOK, LockOK, Waiting

\* The state r after tasks t (the holder) and X (nobody, or the first waiter)
\* have their new control blocks and the lock is passed on.
PassedOn(s, r, t, l, X) ==
  /\ r.tskque = s.tskque /\ r.bitmap = s.bitmap /\ r.top_priority = s.top_priority
  /\ r.klocktsk = NoTask
  /\ \A x, y \in X : x = y
  /\ \A x \in Tasks : r.tcb[x] = IF x = t THEN Freed(s.tcb[x])
                                 ELSE IF x \in X THEN Granted(s.tcb[x])
                                 ELSE s.tcb[x]
  /\ \A x \in X : s.tcb[x].klockwait /\ s.tcb[x].loc = l
  /\ \A x \in Locks : x # l => r.lock[x] = s.lock[x]
  /\ r.lock[l].held <=> X # {}
  /\ X = {} => r.lock[l].wtskq = << >>
  /\ Injective(r.lock[l].wtskq)
  /\ Elems(r.lock[l].wtskq) = Elems(s.lock[l].wtskq) \ X

\* The lock passes from the task to those in X, of whom there is one at most.
LEMMA PassOnFacts ==
  ASSUME NEW s, Core(s), NEW t \in Tasks, NEW l \in Locks,
         s.tcb[t].klocked, s.tcb[t].loc = l,
         NEW X, X \in SUBSET Tasks, NEW r \in Kernel, PassedOn(s, r, t, l, X)
  PROVE  RQ(r, X) /\ KR(r) /\ LK(r) /\ \A x \in Tasks : TcbOK(r.tcb[x])
<1>1. s \in Kernel /\ Queues(s, {}) /\ LK(s) /\ \A x \in Tasks : s.tcb[x] \in TCB /\ TcbOK(s.tcb[x])
  BY DEF Core, Kernel
<1> USE DEF PassedOn
<1>2. t \notin X
  BY <1>1 DEF TcbOK, LockOK
<1>3. /\ TcbOK(r.tcb[t]) /\ r.tcb[t].klocked = FALSE /\ r.tcb[t].klockwait = FALSE
      /\ \A p \in Pri : Linked(r.tcb[t], p) <=> Linked(s.tcb[t], p)
  <2>1. /\ r.tcb[t] = Freed(s.tcb[t]) /\ s.tcb[t] \in TCB /\ TcbOK(s.tcb[t])
        /\ s.tcb[t].klocked = TRUE
    BY <1>1 DEF TCB
  <2> HIDE DEF PassedOn
  <2> QED BY <2>1, FreedFacts, Zenon
<1>4. ASSUME NEW x \in X
      PROVE  /\ TcbOK(r.tcb[x]) /\ r.tcb[x].klocked = TRUE /\ r.tcb[x].klockwait = FALSE
             /\ r.tcb[x].loc = l
  <2>1. /\ r.tcb[x] = Granted(s.tcb[x]) /\ s.tcb[x] \in TCB /\ TcbOK(s.tcb[x])
        /\ s.tcb[x].klockwait = TRUE /\ s.tcb[x].loc = l
    BY <1>1, <1>2 DEF TCB
  <2> HIDE DEF PassedOn
  <2> QED BY <2>1, GrantedFacts, Zenon
<1>5. \A x \in Tasks : x # t /\ x \notin X => r.tcb[x] = s.tcb[x]
  OBVIOUS
<1>6. \A x \in Tasks : TcbOK(r.tcb[x])
  BY <1>1, <1>3, <1>4, <1>5
<1>7. RQ(r, X)
  <2>1. ASSUME NEW p \in Pri, NEW x \in Tasks
        PROVE  x \in Elems(r.tskque[p]) <=> x \notin X /\ Linked(r.tcb[x], p)
    <3>1. x \in Elems(r.tskque[p]) <=> Linked(s.tcb[x], p)
      BY <1>1 DEF Queues, RQ, Linked
    <3>2. CASE x = t
      BY <1>2, <1>3, <3>1, <3>2
    <3>3. CASE x \in X
      BY <3>1, <3>3 DEF Linked
    <3>4. CASE x # t /\ x \notin X
      BY <1>5, <3>1, <3>4
    <3> QED BY <3>2, <3>3, <3>4
  <2> QED BY <1>1, <2>1 DEF Queues, RQ, Linked
<1>8. LK(r)
  <2>1. \A x \in Tasks : s.tcb[x].klocked /\ s.tcb[x].loc = l => x = t
    BY <1>1 DEF LK
  <2>2. \A x \in Tasks : r.tcb[x].klockwait <=> s.tcb[x].klockwait /\ x \notin X
    <3>1. ~s.tcb[t].klockwait
      BY <1>1 DEF TcbOK, LockOK
    <3> QED BY <1>2, <1>3, <1>4, <1>5, <3>1
  <2>3. \A x \in Tasks : r.tcb[x].klockwait => r.tcb[x].loc = s.tcb[x].loc
    BY <1>3, <1>4, <1>5
  <2>4. \A x \in Tasks : r.tcb[x].klocked /\ r.tcb[x].loc = l <=> x \in X
    BY <1>2, <1>3, <1>4, <1>5, <2>1
  <2>5. \A x \in Tasks, y \in Locks : y # l =>
          (r.tcb[x].klocked /\ r.tcb[x].loc = y <=> s.tcb[x].klocked /\ s.tcb[x].loc = y)
    <3>1. \A x \in X : ~s.tcb[x].klocked
      BY <1>1 DEF TcbOK, LockOK
    <3> QED BY <1>3, <1>4, <1>5, <3>1
  <2>6. ASSUME NEW x \in Locks
        PROVE  /\ Injective(r.lock[x].wtskq)
               /\ \A y \in Tasks : y \in Elems(r.lock[x].wtskq) <=>
                    r.tcb[y].klockwait /\ r.tcb[y].loc = x
    <3>1. /\ Injective(s.lock[x].wtskq)
          /\ \A y \in Tasks : y \in Elems(s.lock[x].wtskq) <=>
               s.tcb[y].klockwait /\ s.tcb[y].loc = x
      BY <1>1 DEF LK
    <3>2. CASE x = l
      BY <2>2, <2>3, <3>1, <3>2
    <3>3. CASE x # l
      <4>1. \A y \in X : s.tcb[y].loc # x
        BY <3>3
      <4> QED BY <2>2, <2>3, <3>1, <3>3, <4>1
    <3> QED BY <3>2, <3>3
  <2>7. ASSUME NEW x \in Locks
        PROVE  /\ r.lock[x].held <=> \E y \in Tasks : r.tcb[y].klocked /\ r.tcb[y].loc = x
               /\ ~r.lock[x].held => r.lock[x].wtskq = << >>
    <3>1. CASE x = l
      BY <2>4, <3>1
    <3>2. CASE x # l
      <4>1. /\ s.lock[x].held <=> \E y \in Tasks : s.tcb[y].klocked /\ s.tcb[y].loc = x
            /\ ~s.lock[x].held => s.lock[x].wtskq = << >>
        BY <1>1 DEF LK
      <4> QED BY <2>5, <3>2, <4>1
    <3> QED BY <3>1, <3>2
  <2>8. ASSUME NEW x \in Tasks, NEW y \in Tasks,
               r.tcb[x].klocked, r.tcb[y].klocked, r.tcb[x].loc = r.tcb[y].loc
        PROVE  x = y
    <3>1. CASE r.tcb[x].loc = l
      BY <2>4, <2>8, <3>1
    <3>2. CASE r.tcb[x].loc # l
      <4>1. s.tcb[x] = r.tcb[x] /\ s.tcb[y] = r.tcb[y]
        BY <1>3, <1>4, <1>5, <2>8, <3>2
      <4> QED BY <1>1, <2>8, <4>1 DEF LK
    <3> QED BY <3>1, <3>2
  <2> QED BY <2>6, <2>7, <2>8 DEF LK
<1>9. KR(r)
  BY DEF KR
<1> QED BY <1>6, <1>7, <1>8, <1>9

\* The task that is handed the lock goes to the head of its ready queue.
LEMMA InsertTopQueue ==
  ASSUME NEW r \in Kernel, NEW u \in Tasks, RQ(r, {u}), KR(r), LK(r),
         r.tcb[u].state = "READY", ~r.tcb[u].klockwait,
         NEW e, e = ready_queue_insert_top(r, u)
  PROVE  e \in Kernel /\ RQ(e, {}) /\ KR(e) /\ LK(e) /\ e.tcb = r.tcb /\ SameContext(r, e)
<1> DEFINE z == r.tskque[r.tcb[u].priority]
           q == InsertBefore(z, 1, u)
<1>1. z \in Seq(Tasks) /\ Injective(z) /\ u \notin Elems(z)
  <2>1. r.tcb[u].priority \in Pri
    BY DEF Kernel, TCB
  <2> QED BY <2>1 DEF Kernel, RQ
<1>2. e = Enqueue(r, u, q)
  BY DEF ready_queue_insert_top
<1> HIDE DEF z
<1>3. q \in Seq(Tasks) /\ q # << >> /\ Injective(q) /\ Elems(q) = Elems(z) \cup {u}
  BY <1>1, InsertTopFacts
<1> HIDE DEF q
<1>4. e \in Kernel /\ RQ(e, {}) /\ KR(e)
  BY <1>2, <1>3, EnqueueFacts DEF z
<1>5. e.tcb = r.tcb /\ e.lock = r.lock /\ SameContext(r, e)
  BY <1>2 DEF Enqueue, Kernel, SameContext
<1>6. LK(e)
  BY <1>5 DEF LK
<1> QED BY <1>4, <1>5, <1>6

\* knl_UnlockOBJ keeps the invariant.
LEMMA UnlockOBJ ==
  ASSUME IInv, knl_UnlockOBJ
  PROVE  IInv'
<1> DEFINE t == k.ctxtsk
           l == k.tcb[t].loc
           b == k.lock[l]
           f == Freed(k.tcb[t])
<1>1. t # NoTask /\ ~k.idle /\ k.tcb[t].klocked
  BY DEF knl_UnlockOBJ
<1>2. t \in Tasks
  BY <1>1 DEF IInv, Good, Context
<1>3. /\ k \in Kernel /\ Core(k) /\ Queues(k, {}) /\ LK(k)
      /\ \A x \in Tasks : k.tcb[x] \in TCB /\ TcbOK(k.tcb[x])
  BY DEF IInv, Good, Core, Kernel
<1>4. l \in Locks /\ k.tcb[t] \in TCB /\ k.tcb[t].klocked = TRUE
  BY <1>1, <1>2, <1>3 DEF TcbOK, LockOK, TCB
<1>5. f \in TCB /\ f.state = k.tcb[t].state /\ f.klockwait = FALSE
  BY <1>2, <1>3, <1>4, FreedFacts
<1>6. /\ b \in [held : BOOLEAN, wtskq : Seq(Tasks)] /\ Injective(b.wtskq)
      /\ \A x \in Tasks : x \in Elems(b.wtskq) <=> k.tcb[x].klockwait /\ k.tcb[x].loc = l
  BY <1>3, <1>4 DEF Kernel, LK
<1>7. t \notin Elems(b.wtskq)
  BY <1>1, <1>2, <1>3, <1>6 DEF TcbOK, LockOK
<1>8. SUFFICES ASSUME NEW s, Core(s), SameContext(k, s), k' = END_CRITICAL_SECTION(s),
                      s.tcb[t] = f
               PROVE  IInv'
  <2>1. CASE b.wtskq = << >>
    <3> DEFINE c == [b EXCEPT !.held = FALSE]
               r == [[k EXCEPT !.tcb[t] = f, !.klocktsk = NoTask] EXCEPT !.lock[l] = c]
               s == knl_reschedule(r)
    <3>1. k' = END_CRITICAL_SECTION(s)
      BY <2>1 DEF knl_UnlockOBJ, Freed
    <3>2. c \in [held : BOOLEAN, wtskq : Seq(Tasks)] /\ c.held = FALSE /\ c.wtskq = b.wtskq
      BY <1>6
    <3> HIDE DEF c, f
    <3>3. /\ r \in Kernel /\ r.tskque = k.tskque /\ r.bitmap = k.bitmap
          /\ r.top_priority = k.top_priority /\ r.klocktsk = NoTask /\ SameContext(k, r)
          /\ \A x \in Tasks : r.tcb[x] = IF x = t THEN f ELSE k.tcb[x]
          /\ \A x \in Locks : r.lock[x] = IF x = l THEN c ELSE k.lock[x]
      <4>1. /\ [k.tcb EXCEPT ![t] = f] \in [Tasks -> TCB]
            /\ [k.lock EXCEPT ![l] = c] \in [Locks -> [held : BOOLEAN, wtskq : Seq(Tasks)]]
        BY <1>2, <1>3, <1>4, <1>5, <3>2 DEF Kernel
      <4> QED BY <1>2, <1>3, <1>4, <4>1 DEF Kernel, SameContext
    <3> HIDE DEF r
    <3>4. RQ(r, {}) /\ KR(r) /\ LK(r) /\ \A x \in Tasks : TcbOK(r.tcb[x])
      <4>1. \A x \in Tasks : r.tcb[x] = IF x = t THEN Freed(k.tcb[x])
                                        ELSE IF x \in {} THEN Granted(k.tcb[x])
                                        ELSE k.tcb[x]
        BY <3>3 DEF f
      <4>2. /\ \A x \in Locks : x # l => r.lock[x] = k.lock[x]
            /\ r.lock[l].held = FALSE /\ r.lock[l].wtskq = b.wtskq
        BY <1>4, <3>2, <3>3
      <4>3. PassedOn(k, r, t, l, {})
        BY <1>6, <2>1, <3>3, <4>1, <4>2 DEF PassedOn
      <4> QED BY <1>2, <1>3, <1>4, <3>3, <4>3, PassOnFacts
    <3>5. Core(s) /\ SameContext(r, s) /\ s.tcb = r.tcb
      BY <3>3, <3>4, RescheduleCore
    <3>6. SameContext(k, s) /\ s.tcb[t] = f
      BY <1>2, <3>3, <3>5 DEF SameContext
    <3> HIDE DEF s
    <3> QED BY <1>8, <3>1, <3>5, <3>6
  <2>2. CASE b.wtskq # << >>
    <3> DEFINE u == Head(b.wtskq)
               g == Granted(k.tcb[u])
               c == [b EXCEPT !.wtskq = Tail(@)]
               r == [[k EXCEPT !.tcb[t] = f, !.klocktsk = NoTask]
                       EXCEPT !.lock[l] = c, !.tcb[u] = g]
               e == ready_queue_insert_top(r, u)
               s == knl_reschedule(e)
    <3>1. /\ u \in Tasks /\ Tail(b.wtskq) \in Seq(Tasks) /\ u \in Elems(b.wtskq)
          /\ Elems(Tail(b.wtskq)) = Elems(b.wtskq) \ {u} /\ Injective(Tail(b.wtskq))
      BY <1>6, <2>2, QueRemoveNextFacts
    <3>2. u # t /\ k.tcb[u].klockwait /\ k.tcb[u].loc = l
      BY <1>6, <1>7, <3>1
    <3>3. k' = END_CRITICAL_SECTION(s)
      <4>1. [k.tcb EXCEPT ![t] = f][u] = k.tcb[u]
        BY <1>3, <3>1, <3>2 DEF Kernel
      <4> QED BY <1>3, <2>2, <4>1 DEF knl_UnlockOBJ, Freed, Granted, Kernel
    <3>4. /\ c \in [held : BOOLEAN, wtskq : Seq(Tasks)] /\ c.held = b.held
          /\ c.wtskq = Tail(b.wtskq)
      BY <1>6, <3>1
    <3>5. g \in TCB /\ g.state = "READY" /\ g.klockwait = FALSE
      <4>1. k.tcb[u] \in TCB /\ TcbOK(k.tcb[u]) /\ k.tcb[u].klockwait = TRUE
        BY <1>3, <3>1, <3>2 DEF TCB
      <4> QED BY <4>1, GrantedFacts
    <3> HIDE DEF c, f, g, u
    <3>6. /\ r \in Kernel /\ r.tskque = k.tskque /\ r.bitmap = k.bitmap
          /\ r.top_priority = k.top_priority /\ r.klocktsk = NoTask /\ SameContext(k, r)
          /\ \A x \in Tasks : r.tcb[x] = IF x = t THEN f ELSE IF x = u THEN g ELSE k.tcb[x]
          /\ \A x \in Locks : r.lock[x] = IF x = l THEN c ELSE k.lock[x]
      <4> DEFINE T == [[k.tcb EXCEPT ![t] = f] EXCEPT ![u] = g]
                 L == [k.lock EXCEPT ![l] = c]
      <4>1. T \in [Tasks -> TCB] /\ L \in [Locks -> [held : BOOLEAN, wtskq : Seq(Tasks)]]
        BY <1>2, <1>3, <1>4, <1>5, <3>1, <3>4, <3>5 DEF Kernel
      <4>2. r = [k EXCEPT !.tcb = T, !.lock = L, !.klocktsk = NoTask]
        BY <1>3 DEF Kernel
      <4>3. \A x \in Tasks : T[x] = IF x = t THEN f ELSE IF x = u THEN g ELSE k.tcb[x]
        BY <1>2, <1>3, <3>1, <3>2 DEF Kernel
      <4>4. \A x \in Locks : L[x] = IF x = l THEN c ELSE k.lock[x]
        BY <1>3, <1>4 DEF Kernel
      <4> HIDE DEF T, L, r
      <4>5. r \in Kernel
        BY <1>3, <4>1, <4>2 DEF Kernel
      <4>6. /\ r.tcb = T /\ r.lock = L /\ r.tskque = k.tskque /\ r.bitmap = k.bitmap
            /\ r.top_priority = k.top_priority /\ r.klocktsk = NoTask /\ SameContext(k, r)
        BY <1>3, <4>2 DEF Kernel, SameContext
      <4> QED BY <4>3, <4>4, <4>5, <4>6
    <3> HIDE DEF r
    <3>7. RQ(r, {u}) /\ KR(r) /\ LK(r) /\ \A x \in Tasks : TcbOK(r.tcb[x])
      <4>1. \A x \in Tasks : r.tcb[x] = IF x = t THEN Freed(k.tcb[x])
                                        ELSE IF x \in {u} THEN Granted(k.tcb[x])
                                        ELSE k.tcb[x]
        BY <3>6 DEF f, g
      <4>2. /\ \A x \in Locks : x # l => r.lock[x] = k.lock[x]
            /\ r.lock[l].held /\ Injective(r.lock[l].wtskq)
            /\ Elems(r.lock[l].wtskq) = Elems(b.wtskq) \ {u}
        <5>1. b.held
          BY <1>1, <1>2, <1>3, <1>4 DEF LK
        <5>2. r.lock[l] = c
          BY <1>4, <3>6
        <5> QED BY <3>1, <3>4, <3>6, <5>1, <5>2
      <4>3. {u} \in SUBSET Tasks /\ {u} # {} /\ \A x \in {u} : k.tcb[x].klockwait /\ k.tcb[x].loc = l
        BY <3>1, <3>2
      <4>4. PassedOn(k, r, t, l, {u})
        BY <3>6, <4>1, <4>2, <4>3 DEF PassedOn
      <4> QED BY <1>2, <1>3, <1>4, <3>6, <4>3, <4>4, PassOnFacts
    <3>8. r.tcb[u].state = "READY" /\ ~r.tcb[u].klockwait
      BY <3>1, <3>2, <3>5, <3>6
    <3>9. e \in Kernel /\ RQ(e, {}) /\ KR(e) /\ LK(e) /\ e.tcb = r.tcb /\ SameContext(r, e)
      BY <3>1, <3>6, <3>7, <3>8, InsertTopQueue
    <3> HIDE DEF e
    <3>13. Core(s) /\ SameContext(e, s) /\ s.tcb = e.tcb
      BY <3>7, <3>9, RescheduleCore
    <3>14. SameContext(k, s) /\ s.tcb[t] = f
      BY <1>2, <3>6, <3>9, <3>13 DEF SameContext
    <3> HIDE DEF s
    <3> QED BY <1>8, <3>3, <3>13, <3>14
  <2> QED BY <2>1, <2>2
<1>9. k.dispatch_disabled => KeepsRunning(k, s)
  BY <1>5, <1>8 DEF KeepsRunning
<1> QED BY <1>1, <1>8, <1>9, TaskCallFacts DEF IInv

-----------------------------------------------------------------------------
(* The invariant and the theorems.                                         *)

\* The empty kernel satisfies Core.
LEMMA InitializeCore == Core(knl_task_initialize)
<1> DEFINE s == knl_task_initialize
<1>1. /\ s.tcb = [t \in Tasks |-> NoTCB] /\ s.tskque = [p \in Pri |-> << >>]
      /\ s.bitmap = {} /\ s.top_priority = NUM_TSKPRI /\ s.klocktsk = NoTask
      /\ s.lock = [l \in Locks |-> [held |-> FALSE, wtskq |-> << >>]]
      /\ s.schedtsk = NoTask
  BY DEF knl_task_initialize
<1>2. s \in Kernel
  <2>1. /\ [t \in Tasks |-> NoTCB] \in [Tasks -> TCB]
        /\ [p \in Pri |-> << >>] \in [Pri -> Seq(Tasks)]
        /\ [l \in Locks |-> [held |-> FALSE, wtskq |-> << >>]]
             \in [Locks -> [held : BOOLEAN, wtskq : Seq(Tasks)]]
    BY NoTCBFacts
  <2>2. NUM_TSKPRI \in 0 .. NUM_TSKPRI
    BY ConstantsAssumption
  <2> QED BY <2>1, <2>2 DEF knl_task_initialize, Kernel
<1> HIDE DEF s
<1>3. \A t \in Tasks : s.tcb[t] = NoTCB
  BY <1>1
<1>4. RQ(s, {})
  BY <1>1, <1>3, NoTCBFacts DEF RQ, Elems, Injective
<1>5. ST(s) /\ KR(s)
  BY <1>1 DEF ST, KR, First
<1>6. LK(s)
  <2>1. \A l \in Locks : s.lock[l].held = FALSE /\ s.lock[l].wtskq = << >>
    BY <1>1
  <2> QED BY <1>3, <2>1, NoTCBFacts DEF LK, Elems, Injective
<1> QED BY <1>2, <1>3, <1>4, <1>5, <1>6, NoTCBFacts DEF Core, Queues, s

\* The kernel with its first task satisfies the invariant.
LEMMA InitIInv == Init => IInv
<1> SUFFICES ASSUME NEW t \in Tasks, NEW pri \in Pri,
                    k = knl_force_dispatch(knl_make_ready(knl_make_dormant(
                          [knl_task_initialize EXCEPT !.tcb[t].ipriority = pri], t), t))
             PROVE  IInv
  BY DEF Init
<1> DEFINE s0 == knl_task_initialize
           w == [s0.tcb[t] EXCEPT !.ipriority = pri]
           s1 == SetTcb(s0, t, w)
           u == DormantTcb(w)
           s2 == SetTcb(s0, t, u)
           s == knl_make_ready(s2, t)
<1>1. Core(s0) /\ s0 \in Kernel /\ s0.tcb[t] = NoTCB
  BY InitializeCore DEF Core, knl_task_initialize
<1>2. w \in TCB /\ w.wtmeb = FALSE
  BY <1>1, NoTCBFacts DEF TCB, NoTCB
<1>3. k = knl_force_dispatch(knl_make_ready(knl_make_dormant(s1, t), t))
  BY DEF SetTcb
<1> HIDE DEF s0, w
<1>4. knl_make_dormant(s1, t) = s2
  <2>1. s1 \in Kernel /\ s1.tcb[t] = w /\ SetTcb(s1, t, u) = s2
    BY <1>1, <1>2, SetTcbTwice
  <2>2. knl_make_dormant(s1, t) = SetTcb(s1, t, DormantTcb(s1.tcb[t]))
    BY DEF knl_make_dormant, SetTcb, DormantTcb
  <2> QED BY <2>1, <2>2
<1>5. /\ u \in TCB /\ TcbOK(u) /\ u.state = "DORMANT"
      /\ u.klocked = FALSE /\ u.klockwait = FALSE
  BY <1>2, DormantFacts
<1>6. InPlace(s0.tcb[t], u)
  BY <1>1, <1>5, NoTCBFacts DEF InPlace
<1> HIDE DEF u, s1
<1>7. Core(s2) /\ s2.tcb[t] = u
  BY <1>1, <1>6, InPlaceCore
<1> HIDE DEF s2
<1>8. s2 \in Kernel /\ Queues(s2, {}) /\ LK(s2) /\ OthersOK(s2, t)
  BY <1>7 DEF Core, OthersOK
<1>9. TcbOK(Readied(u))
  BY <1>5 DEF TcbOK, LockOK, TCB, Waiting, Readied
<1>10. Core(s)
  BY <1>5, <1>7, <1>8, <1>9, ReadyCore
<1> HIDE DEF s
<1> QED BY <1>3, <1>4, <1>10, ForceDispatchFacts DEF IInv, s

\* Every step keeps the invariant.
LEMMA NextIInv ==
  ASSUME Conditions, IInv, [Next]_k
  PROVE  IInv'
<1>1. CASE UNCHANGED k
  BY <1>1 DEF IInv
<1>2. ASSUME NEW t \in Tasks, NEW pri \in Pri, tk_cre_tsk(t, pri) \/ tk_chg_pri(t, pri)
      PROVE  IInv'
  BY <1>2, CreTsk, ChgPri
<1>0. IniPri \subseteq Pri
  BY ConstantsAssumption DEF Pri
<1>3. ASSUME NEW t \in Tasks, tk_del_tsk(t) \/ tk_sta_tsk(t) \/ tk_ter_tsk(t)
      PROVE  IInv'
  BY <1>3, DelTsk, StaTsk, TerTsk
<1>4. ASSUME NEW t \in Tasks, tk_sus_tsk(t) \/ tk_rsm_tsk(t) \/ tk_frsm_tsk(t)
      PROVE  IInv'
  BY <1>4, SusTsk, RsmTsk, FrsmTsk
<1>5. ASSUME NEW t \in Tasks,
             tk_rel_wai(t) \/ tk_wup_tsk(t) \/ tk_can_wup(t) \/ knl_wait_release_tmout(t)
      PROVE  IInv'
  BY <1>5, RelWai, WupTsk, CanWup, WaitReleaseTmout
<1>6. ASSUME NEW tmo \in BOOLEAN, tk_slp_tsk(tmo)
      PROVE  IInv'
  BY <1>6, SlpTsk
<1>7. ASSUME NEW l \in Locks, knl_LockOBJ(l)
      PROVE  IInv'
  BY <1>7, LockOBJ
<1>8. CASE tk_ext_tsk \/ tk_exd_tsk \/ tk_rot_rdq \/ tk_ref_tsk \/ tk_dly_tsk
  BY <1>8, ExtTsk, ExdTsk, RotRdq, RefTsk, DlyTsk
<1>9. CASE tk_dis_dsp \/ tk_ena_dsp \/ knl_UnlockOBJ
  BY <1>9, DisDsp, EnaDsp, UnlockOBJ
<1> QED BY <1>0, <1>1, <1>2, <1>3, <1>4, <1>5, <1>6, <1>7, <1>8, <1>9 DEF Next

\* The inductive invariant: Core (queues, locks and control blocks agree),
\* Context (the task in execution may execute) and Dispatched.
THEOREM Invariance == ASSUME Conditions PROVE Spec => []IInv
BY InitIInv, NextIInv, PTL DEF Spec

\* Every kernel variable keeps its type; in particular wupcnt and suscnt stay
\* within 0 .. INT_MAX (tk_wup_tsk, tk_sus_tsk and the calls that count down).
THEOREM TypeCorrect == ASSUME Conditions PROVE Spec => []TypeOK
<1>1. IInv => TypeOK
  BY DEF IInv, Good, Core, TypeOK
<1> QED BY <1>1, Invariance, PTL

\* The ready queue, bitmap and top_priority agree with the task states.
THEOREM ReadyQueueCorrect == ASSUME Conditions PROVE Spec => []ReadyQueueExact
<1>1. IInv => ReadyQueueExact
  BY DEF IInv, Good, Core, Queues, RQ, ReadyQueueExact
<1> QED BY <1>1, Invariance, PTL

\* knl_schedtsk is the first task of the highest non-empty priority, or a
\* READY holder of a kernel lock.
THEOREM ScheduledTaskCorrect == ASSUME Conditions PROVE Spec => []SchedTop
<1>1. IInv => SchedTop
  BY DEF IInv, Good, Core, Queues, ST, First, SchedTop
<1> QED BY <1>1, Invariance, PTL

\* Whenever dispatching is enabled the scheduled task is the one in execution.
THEOREM DispatchCorrect == ASSUME Conditions PROVE Spec => []NoMissedDispatch
<1>1. IInv => NoMissedDispatch
  BY DEF IInv, Good, Dispatched, NoMissedDispatch
<1> QED BY <1>1, Invariance, PTL

\* Kernel locks exclude each other and their queues are exact.
THEOREM LocksCorrect == ASSUME Conditions PROVE Spec => []LocksExact
<1>1. IInv => LocksExact
  BY DEF IInv, Good, Core, LK, TcbOK, LockOK, LocksExact
<1> QED BY <1>1, Invariance, PTL

\* klocktsk is a READY holder of a kernel lock as long as no interrupt handler
\* suspends tasks that use locks.
THEOREM KlocktskCorrect == ASSUME Conditions PROVE Spec => []KlocktskReady
<1>1. IInv => KlocktskReady
  BY DEF IInv, Good, Core, Queues, KR, KlocktskReady
<1> QED BY <1>1, Invariance, PTL

\* A task is suspended exactly as long as its nesting count says.
THEOREM SuspendCorrect == ASSUME Conditions PROVE Spec => []SuspendNesting
<1>1. IInv => SuspendNesting
  BY DEF IInv, Good, Core, TcbOK, SuspendNesting, td_lst_tsk
<1> QED BY <1>1, Invariance, PTL

\* A task never sleeps in tk_slp_tsk while a wake-up request for it is queued.
THEOREM WakeupCorrect == ASSUME Conditions PROVE Spec => []NoLostWakeup
<1>1. IInv => NoLostWakeup
  BY DEF IInv, Good, Core, TcbOK, NoLostWakeup, td_ref_tsk
<1> QED BY <1>1, Invariance, PTL

\* The timer event of a task that no longer waits is out of the timer queue, and
\* a delayed task always has one.
THEOREM TimeoutCorrect == ASSUME Conditions PROVE Spec => []TimerMatchesWait
<1>1. IInv => TimerMatchesWait
  BY DEF IInv, Good, Core, TcbOK, TimerMatchesWait, td_ref_tsk
<1> QED BY <1>1, Invariance, PTL

-----------------------------------------------------------------------------
(* The order in which the tasks of one priority run.  What every call of    *)
(* the kernel does to a ready queue is one of five changes (Shifted), and   *)
(* none of these lets a task overtake another that stays in its place.      *)

\* The fields of the kernel state that the ready queue is made of.
Shaped(s) == DOMAIN s = DOMAIN k /\ s.tskque \in [Pri -> Seq(Tasks)]

\* No element of r overtakes another of q but one that is moved to the end.
Orderly(q, r) ==
  \A a, b \in Tasks : Before(q, a, b) /\ Before(r, b, a) => a = r[Len(r)]

\* What a step may do to a ready queue.
Shifted(q, r) ==
  \/ r = q
  \/ \E e \in Tasks : \/ r = QueRemove(q, e)
                      \/ r = QueInsert(QueRemove(q, e), e)
                      \/ e \notin Elems(q) /\ r = QueInsert(q, e)
                      \/ e \notin Elems(q) /\ r = InsertBefore(q, 1, e)
  \/ q # << >> /\ r = QueInsert(Tail(q), Head(q))

\* Two elements that are linked once are in one order only.
LEMMA OneOrder ==
  ASSUME NEW q \in Seq(Tasks), Injective(q), NEW a, NEW b, Before(q, a, b)
  PROVE  ~Before(q, b, a)
<1> SUFFICES ASSUME Before(q, b, a) PROVE FALSE
  OBVIOUS
<1>1. PICK i, j \in DOMAIN q : i < j /\ q[i] = a /\ q[j] = b
  BY DEF Before
<1>2. PICK m, n \in DOMAIN q : m < n /\ q[m] = b /\ q[n] = a
  BY DEF Before
<1>3. m = j /\ n = i
  BY <1>1, <1>2 DEF Injective
<1> QED BY <1>1, <1>2, <1>3

\* Unlinking an element brings no new order.
LEMMA RemoveOrder ==
  ASSUME NEW q \in Seq(Tasks), NEW e, NEW a, NEW b, Before(QueRemove(q, e), a, b)
  PROVE  Before(q, a, b)
<1>1. CASE e \notin Elems(q)
  BY <1>1 DEF QueRemove
<1>2. CASE e \in Elems(q)
  <2> DEFINE i == CHOOSE j \in DOMAIN q : q[j] = e
             r == QueRemove(q, e)
             f(j) == IF j < i THEN j ELSE j + 1
  <2>1. i \in 1 .. Len(q)
    BY <1>2 DEF Elems
  <2> HIDE DEF i
  <2>2. r = [j \in 1 .. Len(q) - 1 |-> IF j < i THEN q[j] ELSE q[j + 1]]
    BY <1>2 DEF QueRemove, i
  <2>3. DOMAIN r = 1 .. Len(q) - 1 /\ Len(q) \in Nat
    BY <2>2
  <2>4. \A j \in DOMAIN r : f(j) \in DOMAIN q /\ r[j] = q[f(j)]
    BY <2>1, <2>2, <2>3
  <2>5. \A m, n \in DOMAIN r : m < n => f(m) < f(n)
    BY <2>1, <2>3
  <2> HIDE DEF r, f
  <2>6. PICK m, n \in DOMAIN r : m < n /\ r[m] = a /\ r[n] = b
    BY DEF Before, r
  <2> QED BY <2>4, <2>5, <2>6 DEF Before
<1> QED BY <1>1, <1>2

\* A queue without its first element has no new order.
LEMMA TailOrder ==
  ASSUME NEW q \in Seq(Tasks), q # << >>, NEW a, NEW b, Before(Tail(q), a, b)
  PROVE  Before(q, a, b)
<1> DEFINE r == Tail(q)
<1>1. /\ DOMAIN q = 1 .. Len(q) /\ DOMAIN r = 1 .. Len(q) - 1 /\ Len(q) \in Nat
      /\ \A j \in 1 .. Len(q) - 1 : r[j] = q[j + 1]
  OBVIOUS
<1> HIDE DEF r
<1>2. PICK m, n \in DOMAIN r : m < n /\ r[m] = a /\ r[n] = b
  BY DEF Before, r
<1>3. m + 1 \in DOMAIN q /\ n + 1 \in DOMAIN q /\ m + 1 < n + 1 /\ q[m + 1] = a /\ q[n + 1] = b
  BY <1>1, <1>2
<1> QED BY <1>3 DEF Before

\* An element linked at the end is last; the others keep their order.
LEMMA InsertOrder ==
  ASSUME NEW q \in Seq(Tasks), NEW e \in Tasks, NEW a, NEW b, Before(QueInsert(q, e), a, b)
  PROVE  Before(q, a, b) \/ (b = e /\ QueInsert(q, e)[Len(QueInsert(q, e))] = e)
<1> DEFINE r == QueInsert(q, e)
<1>1. /\ DOMAIN q = 1 .. Len(q) /\ DOMAIN r = 1 .. Len(q) + 1 /\ Len(q) \in Nat
      /\ Len(r) = Len(q) + 1 /\ r[Len(q) + 1] = e
      /\ \A j \in 1 .. Len(q) : r[j] = q[j]
  BY DEF QueInsert
<1> HIDE DEF r
<1>2. PICK m, n \in DOMAIN r : m < n /\ r[m] = a /\ r[n] = b
  BY DEF Before, r
<1>3. m \in DOMAIN q /\ q[m] = a
  BY <1>1, <1>2
<1>4. CASE n = Len(q) + 1
  BY <1>1, <1>2, <1>4 DEF r
<1>5. CASE n # Len(q) + 1
  <2>1. n \in DOMAIN q /\ q[n] = b
    BY <1>1, <1>2, <1>5
  <2> QED BY <1>2, <1>3, <2>1 DEF Before
<1> QED BY <1>4, <1>5

\* Before the first element: the others keep their order.
LEMMA InsertTopOrder ==
  ASSUME NEW q \in Seq(Tasks), NEW e \in Tasks, NEW a, NEW b, Before(InsertBefore(q, 1, e), a, b)
  PROVE  Before(q, a, b) \/ a = e
<1> DEFINE r == InsertBefore(q, 1, e)
<1>1. /\ DOMAIN q = 1 .. Len(q) /\ DOMAIN r = 1 .. Len(q) + 1 /\ Len(q) \in Nat
      /\ r[1] = e /\ \A j \in 2 .. Len(q) + 1 : r[j] = q[j - 1]
  BY DEF InsertBefore
<1> HIDE DEF r
<1>2. PICK m, n \in DOMAIN r : m < n /\ r[m] = a /\ r[n] = b
  BY DEF Before, r
<1>3. CASE m = 1
  BY <1>1, <1>2, <1>3
<1>4. CASE m # 1
  <2>1. m - 1 \in DOMAIN q /\ n - 1 \in DOMAIN q /\ m - 1 < n - 1
        /\ q[m - 1] = a /\ q[n - 1] = b
    BY <1>1, <1>2, <1>4
  <2> QED BY <2>1 DEF Before
<1> QED BY <1>3, <1>4

\* Every such move is orderly.
LEMMA MovedOrderly ==
  ASSUME NEW q \in Seq(Tasks), Injective(q), NEW r, Shifted(q, r)
  PROVE  Orderly(q, r)
<1> SUFFICES ASSUME NEW a \in Tasks, NEW b \in Tasks, Before(q, a, b), Before(r, b, a)
             PROVE  a = r[Len(r)]
  BY DEF Orderly
<1>0. ~Before(q, b, a)
  BY OneOrder
<1>1. CASE r = q
  BY <1>0, <1>1
<1>2. ASSUME NEW e \in Tasks, r = QueRemove(q, e) PROVE FALSE
  BY <1>0, <1>2, RemoveOrder
<1>3. ASSUME NEW e \in Tasks, r = QueInsert(QueRemove(q, e), e) PROVE a = r[Len(r)]
  <2>1. QueRemove(q, e) \in Seq(Tasks)
    BY QueRemoveFacts
  <2>2. ~Before(QueRemove(q, e), b, a)
    BY <1>0, RemoveOrder
  <2> QED BY <1>3, <2>1, <2>2, InsertOrder
<1>4. ASSUME NEW e \in Tasks, e \notin Elems(q), r = QueInsert(q, e) PROVE a = r[Len(r)]
  BY <1>0, <1>4, InsertOrder
<1>5. ASSUME NEW e \in Tasks, e \notin Elems(q), r = InsertBefore(q, 1, e) PROVE FALSE
  <2>1. b = e
    BY <1>0, <1>5, InsertTopOrder
  <2>2. b \in Elems(q)
    BY DEF Before, Elems
  <2> QED BY <1>5, <2>1, <2>2
<1>6. CASE q # << >> /\ r = QueInsert(Tail(q), Head(q))
  <2>1. Tail(q) \in Seq(Tasks) /\ Head(q) \in Tasks
    BY <1>6, QueRemoveNextFacts
  <2>2. ~Before(Tail(q), b, a)
    BY <1>0, <1>6, TailOrder
  <2> QED BY <1>6, <2>1, <2>2, InsertOrder
<1> QED BY <1>1, <1>2, <1>3, <1>4, <1>5, <1>6 DEF Shifted

\* The dispatcher leaves the ready queues alone.
LEMMA DispatchShape ==
  ASSUME NEW s, Shaped(s), k \in Kernel
  PROVE  /\ Shaped(END_CRITICAL_SECTION(s)) /\ END_CRITICAL_SECTION(s).tskque = s.tskque
         /\ Shaped(rtos_int_exit(s)) /\ rtos_int_exit(s).tskque = s.tskque
         /\ Shaped(knl_force_dispatch(s)) /\ knl_force_dispatch(s).tskque = s.tskque
         /\ Shaped(knl_reschedule(s)) /\ knl_reschedule(s).tskque = s.tskque
         /\ knl_reschedule(s).tcb = s.tcb
<1>1. DOMAIN k = {"tcb", "tskque", "bitmap", "top_priority", "klocktsk", "lock", "schedtsk",
                  "ctxtsk", "dispatch_disabled", "idle"}
  BY DEF Kernel
<1> QED BY <1>1 DEF Shaped, END_CRITICAL_SECTION, rtos_int_exit, knl_force_dispatch, knl_reschedule

\* The queues f with r for priority p.
Put(f, p, r) == [f EXCEPT ![p] = r]

\* The names of the fields.
LEMMA Fields ==
  ASSUME k \in Kernel
  PROVE  DOMAIN k = {"tcb", "tskque", "bitmap", "top_priority", "klocktsk", "lock", "schedtsk",
                     "ctxtsk", "dispatch_disabled", "idle"}
BY DEF Kernel

\* The effect of the calls of ready_queue.h on the queues themselves.
LEMMA InsertShape ==
  ASSUME k \in Kernel, NEW s, Shaped(s), NEW t \in Tasks, NEW p \in Pri, s.tcb[t].priority = p
  PROVE  /\ Shaped(ready_queue_insert(s, t)) /\ Shaped(ready_queue_insert_top(s, t))
         /\ ready_queue_insert(s, t).tskque = Put(s.tskque, p, QueInsert(s.tskque[p], t))
         /\ ready_queue_insert_top(s, t).tskque = Put(s.tskque, p, InsertBefore(s.tskque[p], 1, t))
<1>1. s.tskque[p] \in Seq(Tasks)
  BY DEF Shaped
<1>2. QueInsert(s.tskque[p], t) \in Seq(Tasks) /\ InsertBefore(s.tskque[p], 1, t) \in Seq(Tasks)
  BY <1>1, QueInsertFacts, InsertTopFacts
<1>3. ASSUME NEW q \in Seq(Tasks)
      PROVE  Shaped(Enqueue(s, t, q)) /\ Enqueue(s, t, q).tskque = Put(s.tskque, p, q)
  BY Fields DEF Enqueue, Shaped, Put
<1> QED BY <1>2, <1>3 DEF ready_queue_insert, ready_queue_insert_top

\* ready_queue_delete takes the task off the queue of its priority, unless it waits
\* for the kernel lock and is on none.
LEMMA DeleteShape ==
  ASSUME k \in Kernel, NEW s, Shaped(s), NEW t \in Tasks, NEW p \in Pri, s.tcb[t].priority = p,
         Injective(s.tskque[p])
  PROVE  /\ Shaped(ready_queue_delete(s, t))
         /\ ready_queue_delete(s, t).tskque =
              IF s.tcb[t].klockwait THEN s.tskque ELSE Put(s.tskque, p, QueRemove(s.tskque[p], t))
         /\ Shaped(knl_make_non_ready(s, t))
         /\ knl_make_non_ready(s, t).tskque = ready_queue_delete(s, t).tskque
<1>1. s.tskque[p] \in Seq(Tasks)
  BY DEF Shaped
<1>2. QueRemove(s.tskque[p], t) \in Seq(Tasks)
  BY <1>1, QueRemoveFacts
<1>3. Shaped(ready_queue_delete(s, t)) /\ ready_queue_delete(s, t).tskque =
        IF s.tcb[t].klockwait THEN s.tskque ELSE Put(s.tskque, p, QueRemove(s.tskque[p], t))
  BY <1>2, Fields DEF ready_queue_delete, Shaped, Put
<1> QED BY <1>3, DispatchShape DEF knl_make_non_ready

\* knl_make_ready puts the task at the end of the queue of its priority.
LEMMA MakeReadyShape ==
  ASSUME k \in Kernel, NEW s, Shaped(s), s.tcb \in [Tasks -> TCB], NEW t \in Tasks
  PROVE  /\ Shaped(knl_make_ready(s, t))
         /\ knl_make_ready(s, t).tskque = 
              Put(s.tskque, s.tcb[t].priority, QueInsert(s.tskque[s.tcb[t].priority], t))
<1> DEFINE s0 == [s EXCEPT !.tcb[t].state = "READY"]
           p == s.tcb[t].priority
           s1 == ready_queue_insert(s0, t)
<1>1. Shaped(s0) /\ s0.tskque = s.tskque /\ s0.tcb[t].priority = p /\ p \in Pri
  BY Fields DEF Shaped, TCB
<1> HIDE DEF s0, p
<1>2. Shaped(s1) /\ s1.tskque = Put(s.tskque, p, QueInsert(s.tskque[p], t))
  <2>1. Shaped(s1) /\ s1.tskque = Put(s0.tskque, p, QueInsert(s0.tskque[p], t))
    BY <1>1, InsertShape
  <2> QED BY <1>1, <2>1
<1> HIDE DEF s1
<1>3. Shaped([s1 EXCEPT !.schedtsk = t]) /\ [s1 EXCEPT !.schedtsk = t].tskque = s1.tskque
  BY <1>2, Fields DEF Shaped
<1> QED BY <1>2, <1>3 DEF knl_make_ready, s0, s1, p

\* A call of a task or a handler changes the queues as its critical section did.
LEMMA CallShape ==
  ASSUME k \in Kernel, NEW s, Shaped(s), Call(s) \/ TaskCall(s)
  PROVE  k'.tskque = s.tskque
BY DispatchShape DEF Call, TaskCall

\* What a step of the kernel does to the ready queues.
Steps == \A p \in Pri : Shifted(k.tskque[p], k'.tskque[p])

\* One queue changes, or none.
LEMMA OneQueue ==
  ASSUME k \in Kernel, NEW p \in Pri, NEW r, Shifted(k.tskque[p], r),
         k'.tskque = k.tskque \/ k'.tskque = Put(k.tskque, p, r)
  PROVE  Steps
<1>1. k.tskque \in [Pri -> Seq(Tasks)]
  BY DEF Kernel
<1> QED BY <1>1 DEF Steps, Shifted, Put

\* The queues stay as they are.
LEMMA NoQueue ==
  ASSUME k'.tskque = k.tskque
  PROVE  Steps
BY DEF Steps, Shifted

\* What is known of a task in the inductive invariant.
LEMMA TaskFacts ==
  ASSUME IInv, NEW t \in Tasks
  PROVE  /\ k \in Kernel /\ Shaped(k) /\ k.tcb[t] \in TCB /\ k.tcb[t].priority \in Pri
         /\ k.tcb \in [Tasks -> TCB]
         /\ \A p \in Pri : k.tskque[p] \in Seq(Tasks) /\ Injective(k.tskque[p])
         /\ \A p \in Pri : t \in Elems(k.tskque[p]) =>
              /\ k.tcb[t].state = "READY" /\ ~k.tcb[t].klockwait /\ k.tcb[t].priority = p
<1>1. k \in Kernel /\ RQ(k, {})
  BY DEF IInv, Good, Core, Queues
<1>2. k.tcb \in [Tasks -> TCB] /\ k.tskque \in [Pri -> Seq(Tasks)] /\ Shaped(k)
  BY <1>1 DEF Kernel, Shaped
<1>3. k.tcb[t] \in TCB /\ k.tcb[t].priority \in Pri
  BY <1>2 DEF TCB
<1> QED BY <1>1, <1>2, <1>3 DEF RQ

\* Calls that leave the queues alone.
LEMMA QuietSteps ==
  ASSUME k \in Kernel, NEW s, Shaped(s), s.tskque = k.tskque, Call(s) \/ TaskCall(s)
  PROVE  Steps
BY CallShape, NoQueue

\* Control blocks change, the queues do not.
LEMMA TcbShape ==
  ASSUME k \in Kernel, NEW s, Shaped(s), NEW t
  PROVE  /\ Shaped(knl_make_dormant(s, t)) /\ knl_make_dormant(s, t).tskque = s.tskque
         /\ Shaped(knl_del_tsk(s, t)) /\ knl_del_tsk(s, t).tskque = s.tskque
         /\ \A b : Shaped([s EXCEPT !.tcb[t] = b]) /\ [s EXCEPT !.tcb[t] = b].tskque = s.tskque
BY Fields DEF Shaped, knl_make_dormant, knl_del_tsk

\* Calls that make a task ready that was not.
LEMMA ReadySteps ==
  ASSUME IInv, NEW t \in Tasks, k.tcb[t].state # "READY",
         NEW s, Shaped(s), s.tskque = k.tskque, s.tcb \in [Tasks -> TCB],
         s.tcb[t].priority = k.tcb[t].priority,
         k'.tskque = knl_make_ready(s, t).tskque
  PROVE  Steps
<1>1. knl_make_ready(s, t).tskque = 
        Put(k.tskque, k.tcb[t].priority, QueInsert(k.tskque[k.tcb[t].priority], t))
  BY MakeReadyShape, TaskFacts
<1>2. t \notin Elems(k.tskque[k.tcb[t].priority])
  BY TaskFacts
<1>3. Shifted(k.tskque[k.tcb[t].priority], QueInsert(k.tskque[k.tcb[t].priority], t))
  BY <1>2 DEF Shifted
<1> QED BY <1>1, <1>3, OneQueue, TaskFacts

\* Calls that take a ready task off its queue.
LEMMA NonReadySteps ==
  ASSUME IInv, NEW t \in Tasks,
         NEW s, Shaped(s), s.tskque = k.tskque, s.tcb[t].priority = k.tcb[t].priority,
         k'.tskque = ready_queue_delete(s, t).tskque
  PROVE  Steps
<1> DEFINE p == k.tcb[t].priority
<1>1. p \in Pri /\ k \in Kernel /\ Injective(k.tskque[p])
  BY TaskFacts
<1>2. ready_queue_delete(s, t).tskque =
        IF s.tcb[t].klockwait THEN k.tskque ELSE Put(k.tskque, p, QueRemove(k.tskque[p], t))
  BY <1>1, DeleteShape
<1>3. Shifted(k.tskque[p], QueRemove(k.tskque[p], t))
  BY DEF Shifted
<1> QED BY <1>1, <1>2, <1>3, OneQueue

\* A state of the kernel with one other control block.
LEMMA WithTcb ==
  ASSUME k \in Kernel, NEW t \in Tasks, NEW b \in TCB
  PROVE  LET s == [k EXCEPT !.tcb[t] = b]
         IN  /\ Shaped(s) /\ s.tskque = k.tskque /\ s.tcb \in [Tasks -> TCB] /\ s.tcb[t] = b
             /\ s.ctxtsk = k.ctxtsk
BY DEF Kernel, Shaped

-----------------------------------------------------------------------------

\* knl_wait_release puts the released task at the end of its queue, or nowhere when
\* it is suspended as well.
LEMMA WaitReleaseSteps ==
  ASSUME IInv, NEW t \in Tasks, k.tcb[t].state # "READY",
         k'.tskque = knl_wait_release(k, t).tskque
  PROVE  Steps
<1> DEFINE b == [k.tcb[t] EXCEPT !.wtmeb = FALSE]
           s == [k EXCEPT !.tcb[t] = b]
<1>0. k \in Kernel /\ k.tcb[t] \in TCB
  BY TaskFacts
<1>1. b \in TCB /\ b.priority = k.tcb[t].priority /\ b.state = k.tcb[t].state
  BY <1>0 DEF TCB
<1>2. knl_timer_delete(k, t) = s
  BY DEF knl_timer_delete
<1> HIDE DEF b
<1>3. Shaped(s) /\ s.tskque = k.tskque /\ s.tcb \in [Tasks -> TCB] /\ s.tcb[t] = b
  BY <1>0, <1>1, WithTcb
<1>4. CASE k.tcb[t].state = "WAIT"
  <2>1. knl_wait_release(k, t) = knl_make_ready(s, t)
    BY <1>1, <1>2, <1>3, <1>4 DEF knl_wait_release, knl_make_non_wait
  <2> HIDE DEF s
  <2> QED BY <1>1, <1>3, <2>1, ReadySteps
<1>5. CASE k.tcb[t].state # "WAIT"
  <2>1. knl_wait_release(k, t) = [s EXCEPT !.tcb[t].state = "SUSPEND"]
    BY <1>1, <1>2, <1>3, <1>5 DEF knl_wait_release, knl_make_non_wait
  <2> HIDE DEF s
  <2>2. [s EXCEPT !.tcb[t].state = "SUSPEND"].tskque = s.tskque
    BY <1>0, <1>3, Fields DEF Shaped
  <2> QED BY <1>3, <2>1, <2>2, NoQueue
<1> QED BY <1>4, <1>5

\* The state knl_wait_release leaves is one of the kernel.
LEMMA WaitReleaseShape ==
  ASSUME IInv, NEW t \in Tasks
  PROVE  Shaped(knl_wait_release(k, t))
<1> DEFINE b == [k.tcb[t] EXCEPT !.wtmeb = FALSE]
           s == [k EXCEPT !.tcb[t] = b]
<1>0. k \in Kernel /\ k.tcb[t] \in TCB
  BY TaskFacts
<1>1. b \in TCB
  BY <1>0 DEF TCB
<1>2. knl_timer_delete(k, t) = s
  BY DEF knl_timer_delete
<1> HIDE DEF b
<1>3. Shaped(s) /\ s.tskque = k.tskque /\ s.tcb \in [Tasks -> TCB]
  BY <1>0, <1>1, WithTcb
<1> HIDE DEF s
<1>4. Shaped([s EXCEPT !.tcb[t].state = "SUSPEND"])
  BY <1>0, <1>3, Fields DEF Shaped
<1>5. Shaped(knl_make_ready(s, t))
  BY <1>0, <1>3, MakeReadyShape
<1> QED BY <1>2, <1>4, <1>5 DEF knl_wait_release, knl_make_non_wait

-----------------------------------------------------------------------------

\* knl_ter_tsk takes a ready task off its queue and a waiting one off no queue.
LEMMA TerShape ==
  ASSUME IInv, NEW t \in Tasks
  PROVE  /\ Shaped(knl_ter_tsk(k, t))
         /\ k'.tskque = knl_ter_tsk(k, t).tskque => Steps
<1>0. /\ k \in Kernel /\ Shaped(k) /\ k.tcb[t].priority \in Pri
      /\ Injective(k.tskque[k.tcb[t].priority])
  BY TaskFacts
<1>1. CASE k.tcb[t].state = "READY"
  <2>1. knl_ter_tsk(k, t) = knl_make_non_ready(k, t)
    BY <1>1 DEF knl_ter_tsk, Waiting
  <2>2. /\ Shaped(knl_make_non_ready(k, t))
        /\ knl_make_non_ready(k, t).tskque = ready_queue_delete(k, t).tskque
    BY <1>0, DeleteShape
  <2> QED BY <1>0, <2>1, <2>2, NonReadySteps
<1>2. CASE k.tcb[t].state \in Waiting
  <2>1. knl_ter_tsk(k, t) = knl_timer_delete(k, t)
    BY <1>2 DEF knl_ter_tsk, Waiting
  <2>2. Shaped(knl_timer_delete(k, t)) /\ knl_timer_delete(k, t).tskque = k.tskque
    BY <1>0, Fields DEF knl_timer_delete, Shaped
  <2> QED BY <2>1, <2>2, NoQueue
<1>3. CASE k.tcb[t].state # "READY" /\ k.tcb[t].state \notin Waiting
  <2>1. knl_ter_tsk(k, t) = k
    BY <1>3 DEF knl_ter_tsk
  <2> QED BY <1>0, <2>1, NoQueue
<1> QED BY <1>1, <1>2, <1>3

\* The calls of task_manage.c on another task, and the timeout of a wait.
LEMMA TaskManageSteps ==
  ASSUME IInv, NEW t \in Tasks,
         \/ \E pri \in IniPri : tk_cre_tsk(t, pri)
         \/ tk_del_tsk(t) \/ tk_sta_tsk(t) \/ tk_ter_tsk(t) \/ tk_rel_wai(t)
         \/ knl_wait_release_tmout(t)
  PROVE  Steps
<1>0. k \in Kernel /\ Shaped(k) /\ k.tcb \in [Tasks -> TCB] /\ k.tcb[t] \in TCB
  BY TaskFacts
<1>1. ASSUME NEW pri \in IniPri, tk_cre_tsk(t, pri) PROVE Steps
  <2> DEFINE s == [k EXCEPT !.tcb[t].ipriority = pri]
  <2>1. Shaped(s) /\ s.tskque = k.tskque
    BY <1>0, Fields DEF Shaped
  <2>2. Call(knl_make_dormant(s, t))
    BY <1>1 DEF tk_cre_tsk
  <2> HIDE DEF s
  <2>3. Shaped(knl_make_dormant(s, t)) /\ knl_make_dormant(s, t).tskque = k.tskque
    BY <1>0, <2>1, TcbShape
  <2> QED BY <1>0, <2>2, <2>3, QuietSteps
<1>2. CASE tk_del_tsk(t)
  BY <1>0, <1>2, TcbShape, QuietSteps DEF tk_del_tsk
<1>3. CASE tk_sta_tsk(t)
  <2>1. Call(knl_make_ready(k, t)) /\ k.tcb[t].state # "READY"
    BY <1>3 DEF tk_sta_tsk
  <2>2. Shaped(knl_make_ready(k, t))
    BY <1>0, MakeReadyShape
  <2>3. k'.tskque = knl_make_ready(k, t).tskque
    BY <1>0, <2>1, <2>2, CallShape
  <2> QED BY <1>0, <2>1, <2>3, ReadySteps
<1>4. CASE tk_ter_tsk(t)
  <2>1. Call(knl_make_dormant(knl_ter_tsk(k, t), t))
    BY <1>4 DEF tk_ter_tsk
  <2>2. /\ Shaped(knl_make_dormant(knl_ter_tsk(k, t), t))
        /\ knl_make_dormant(knl_ter_tsk(k, t), t).tskque = knl_ter_tsk(k, t).tskque
    BY <1>0, TerShape, TcbShape
  <2>3. k'.tskque = knl_ter_tsk(k, t).tskque
    BY <1>0, <2>1, <2>2, CallShape
  <2> QED BY <2>3, TerShape
<1>5. CASE tk_rel_wai(t)
  <2>1. Call(knl_wait_release(k, t)) /\ k.tcb[t].state # "READY"
    BY <1>5 DEF tk_rel_wai, Waiting
  <2>2. k'.tskque = knl_wait_release(k, t).tskque
    BY <1>0, <2>1, WaitReleaseShape, CallShape
  <2> QED BY <2>1, <2>2, WaitReleaseSteps
<1>6. CASE knl_wait_release_tmout(t)
  <2>1. k' = rtos_int_exit(knl_wait_release(k, t)) /\ k.tcb[t].wtmeb
    BY <1>6 DEF knl_wait_release_tmout, knl_wait_release
  <2>2. k.tcb[t].state # "READY"
    BY <2>1 DEF IInv, Good, Core, TcbOK, Waiting
  <2>3. k'.tskque = knl_wait_release(k, t).tskque
    BY <1>0, <2>1, WaitReleaseShape, DispatchShape
  <2> QED BY <2>2, <2>3, WaitReleaseSteps
<1> QED BY <1>1, <1>2, <1>3, <1>4, <1>5, <1>6

\* tk_ext_tsk and tk_exd_tsk take the caller off its queue.
LEMMA ExitSteps ==
  ASSUME IInv, tk_ext_tsk \/ tk_exd_tsk
  PROVE  Steps
<1> DEFINE t == k.ctxtsk
           s == knl_ter_tsk(k, t)
<1>0. t \in Tasks
  BY InTaskFacts DEF tk_ext_tsk, tk_exd_tsk
<1>1. k \in Kernel /\ Shaped(s)
  BY <1>0, TaskFacts, TerShape
<1>2. /\ Shaped(knl_make_dormant(s, t)) /\ knl_make_dormant(s, t).tskque = s.tskque
      /\ Shaped(knl_del_tsk(s, t)) /\ knl_del_tsk(s, t).tskque = s.tskque
  BY <1>1, TcbShape
<1>3. k'.tskque = s.tskque
  BY <1>1, <1>2, DispatchShape DEF tk_ext_tsk, tk_exd_tsk
<1> QED BY <1>0, <1>3, TerShape

\* tk_chg_pri moves a ready task to the end of the queue of its new priority.
LEMMA ChgPriSteps ==
  ASSUME IInv, NEW t \in Tasks, NEW pri \in Pri, tk_chg_pri(t, pri)
  PROVE  Steps
<1> DEFINE p == k.tcb[t].priority
           d == ready_queue_delete(k, t)
           s == [d EXCEPT !.tcb[t].priority = pri]
           c == knl_change_task_priority(k, t, pri)
<1>0. /\ k \in Kernel /\ Shaped(k) /\ k.tcb \in [Tasks -> TCB] /\ k.tcb[t] \in TCB
      /\ p \in Pri /\ Injective(k.tskque[p]) /\ k.tskque[p] \in Seq(Tasks)
      /\ k.tskque \in [Pri -> Seq(Tasks)]
      /\ \A x \in Pri : t \in Elems(k.tskque[x]) => ~k.tcb[t].klockwait /\ p = x
  BY TaskFacts DEF Shaped
<1>1. CASE k.tcb[t].state # "READY"
  <2>1. Call([k EXCEPT !.tcb[t].priority = pri])
    BY <1>1 DEF tk_chg_pri, knl_change_task_priority
  <2>2. /\ Shaped([k EXCEPT !.tcb[t].priority = pri])
        /\ [k EXCEPT !.tcb[t].priority = pri].tskque = k.tskque
    BY <1>0, Fields DEF Shaped
  <2> QED BY <1>0, <2>1, <2>2, QuietSteps
<1>2. CASE k.tcb[t].state = "READY"
  <2>1. /\ Shaped(d)
        /\ d.tskque = IF k.tcb[t].klockwait THEN k.tskque
                      ELSE Put(k.tskque, p, QueRemove(k.tskque[p], t))
    BY <1>0, DeleteShape
  <2>2. d.tcb[t] \in TCB /\ d.tcb \in [Tasks -> TCB]
    <3>1. d.tcb = k.tcb \/ d.tcb = [k.tcb EXCEPT ![t] = [k.tcb[t] EXCEPT !.klockwait = FALSE]]
      BY <1>0, Fields DEF ready_queue_delete, Shaped
    <3>2. [k.tcb[t] EXCEPT !.klockwait = FALSE] \in TCB
      BY <1>0 DEF TCB
    <3> HIDE DEF d
    <3> QED BY <1>0, <3>1, <3>2
  <2> HIDE DEF d
  <2>3. Shaped(s) /\ s.tskque = d.tskque /\ s.tcb[t].priority = pri
    BY <1>0, <2>1, <2>2, Fields DEF Shaped, TCB
  <2> HIDE DEF s
  <2>4. /\ Shaped(ready_queue_insert(s, t))
        /\ ready_queue_insert(s, t).tskque = Put(s.tskque, pri, QueInsert(s.tskque[pri], t))
    BY <1>0, <2>3, InsertShape
  <2>5. /\ Shaped(knl_reschedule(ready_queue_insert(s, t)))
        /\ knl_reschedule(ready_queue_insert(s, t)).tskque = ready_queue_insert(s, t).tskque
    BY <1>0, <2>4, DispatchShape
  <2>6. Call(knl_reschedule(ready_queue_insert(s, t)))
    BY <1>2 DEF tk_chg_pri, knl_change_task_priority, s, d
  <2>7. k'.tskque = Put(d.tskque, pri, QueInsert(d.tskque[pri], t))
    BY <1>0, <2>3, <2>4, <2>5, <2>6, CallShape
  <2>8. CASE k.tcb[t].klockwait
    <3>1. k'.tskque = Put(k.tskque, pri, QueInsert(k.tskque[pri], t))
      BY <2>1, <2>7, <2>8
    <3>2. t \notin Elems(k.tskque[pri])
      BY <1>0, <2>8
    <3>3. Shifted(k.tskque[pri], QueInsert(k.tskque[pri], t))
      BY <3>2 DEF Shifted
    <3> QED BY <1>0, <3>1, <3>3, OneQueue
  <2>9. CASE ~k.tcb[t].klockwait /\ pri = p
    <3>1. k'.tskque[p] = QueInsert(QueRemove(k.tskque[p], t), t)
      BY <1>0, <2>1, <2>7, <2>9 DEF Put
    <3>2. \A x \in Pri \ {p} : k'.tskque[x] = k.tskque[x]
      BY <1>0, <2>1, <2>7, <2>9 DEF Put
    <3> QED BY <3>1, <3>2 DEF Steps, Shifted
  <2>10. CASE ~k.tcb[t].klockwait /\ pri # p
    <3>1. /\ k'.tskque[p] = QueRemove(k.tskque[p], t)
          /\ k'.tskque[pri] = QueInsert(k.tskque[pri], t)
          /\ t \notin Elems(k.tskque[pri])
      BY <1>0, <2>1, <2>7, <2>10 DEF Put
    <3>2. \A x \in Pri \ {p, pri} : k'.tskque[x] = k.tskque[x]
      BY <1>0, <2>1, <2>7, <2>10 DEF Put
    <3> QED BY <3>1, <3>2 DEF Steps, Shifted
  <2> QED BY <2>8, <2>9, <2>10
<1> QED BY <1>1, <1>2

\* tk_rot_rdq moves the head of one queue to its end.
LEMMA RotateSteps ==
  ASSUME IInv, tk_rot_rdq
  PROVE  Steps
<1>0. k \in Kernel /\ Shaped(k) /\ k.tskque \in [Pri -> Seq(Tasks)] /\ Core(k)
  BY DEF IInv, Good, Core, Kernel, Shaped
<1>1. ASSUME NEW p \in Pri, k'.tskque = ready_queue_rotate(k, p).tskque PROVE Steps
  <2> DEFINE r == QueInsert(Tail(k.tskque[p]), Head(k.tskque[p]))
  <2>1. CASE k.tskque[p] = << >>
    BY <1>1, <2>1, NoQueue DEF ready_queue_rotate
  <2>2. CASE k.tskque[p] # << >>
    <3>1. k'.tskque = Put(k.tskque, p, r)
      BY <1>0, <1>1, <2>2, Fields DEF ready_queue_rotate, Put
    <3>2. Shifted(k.tskque[p], r)
      BY <2>2 DEF Shifted
    <3> QED BY <1>0, <3>1, <3>2, OneQueue
  <2> QED BY <2>1, <2>2
<1>2. ASSUME NEW p \in Pri
      PROVE  /\ Shaped(knl_rotate_ready_queue(k, p))
             /\ knl_rotate_ready_queue(k, p).tskque = ready_queue_rotate(k, p).tskque
  <2>1. Shaped(ready_queue_rotate(k, p))
    <3>1. k.tskque[p] # << >> => QueInsert(Tail(k.tskque[p]), Head(k.tskque[p])) \in Seq(Tasks)
      BY <1>0 DEF QueInsert
    <3> QED BY <1>0, <3>1, Fields DEF ready_queue_rotate, Shaped
  <2> QED BY <1>0, <2>1, DispatchShape DEF knl_rotate_ready_queue
<1>3. ASSUME NEW pri \in Pri, Call(knl_rotate_ready_queue(k, pri)) PROVE Steps
  BY <1>0, <1>1, <1>2, <1>3, CallShape
<1>4. CASE InTask /\ TaskCall(knl_rotate_ready_queue(k, k.tcb[k.ctxtsk].priority))
  <2>1. k.tcb[k.ctxtsk].priority \in Pri
    BY <1>4, InTaskFacts DEF TCB
  <2> QED BY <1>0, <1>1, <1>2, <1>4, <2>1, CallShape
<1>5. CASE k' = rtos_int_exit(knl_rotate_ready_queue_run(k))
  <2>1. CASE k.schedtsk = NoTask
    BY <1>0, <1>5, <2>1, DispatchShape, NoQueue DEF knl_rotate_ready_queue_run
  <2>2. CASE k.schedtsk # NoTask
    <3>1. k' = rtos_int_exit(knl_rotate_ready_queue(k, k.top_priority))
      BY <1>5, <2>2 DEF knl_rotate_ready_queue_run
    <3>2. k.top_priority \in Pri
      <4>1. k.schedtsk \in Tasks /\ k.tcb[k.schedtsk].state = "READY"
            /\ ~k.tcb[k.schedtsk].klockwait
        BY <1>0, <2>2, SchedReady
      <4>2. k.tcb[k.schedtsk].priority \in Pri
        BY <4>1, TaskFacts
      <4>3. k.schedtsk \in Elems(k.tskque[k.tcb[k.schedtsk].priority])
        BY <1>0, <4>1, <4>2 DEF Core, Queues, RQ
      <4>4. k.tskque[k.tcb[k.schedtsk].priority] # << >>
        BY <4>3 DEF Elems
      <4>5. k.tcb[k.schedtsk].priority \in k.bitmap
        BY <1>0, <4>2, <4>4 DEF Core, Queues, RQ
      <4>6. /\ k.top_priority <= k.tcb[k.schedtsk].priority
            /\ k.top_priority \in k.bitmap \cup {NUM_TSKPRI}
        BY <1>0, <4>5 DEF Core, Queues, RQ
      <4>7. k.bitmap \subseteq Pri /\ NUM_TSKPRI \in Nat
        BY <1>0, ConstantsAssumption DEF Kernel
      <4> QED BY <4>2, <4>6, <4>7 DEF Pri
    <3>3. k'.tskque = ready_queue_rotate(k, k.top_priority).tskque
      BY <1>0, <1>2, <3>1, <3>2, DispatchShape
    <3> QED BY <1>1, <3>2, <3>3
  <2> QED BY <2>1, <2>2
<1> QED BY <1>3, <1>4, <1>5 DEF tk_rot_rdq

\* tk_sus_tsk takes a ready task off its queue.
LEMMA SuspendSteps ==
  ASSUME IInv, NEW t \in Tasks, tk_sus_tsk(t)
  PROVE  Steps
<1> DEFINE b == [k.tcb[t] EXCEPT !.suscnt = @ + 1]
           s1 == [k EXCEPT !.tcb[t].suscnt = @ + 1]
           p == k.tcb[t].priority
           n == knl_make_non_ready(s1, t)
           s2 == CASE k.tcb[t].state = "READY" -> [n EXCEPT !.tcb[t].state = "SUSPEND"]
                   [] k.tcb[t].state = "WAIT" -> [s1 EXCEPT !.tcb[t].state = "WAITSUS"]
                   [] OTHER -> s1
<1>0. /\ k \in Kernel /\ Shaped(k) /\ k.tcb \in [Tasks -> TCB] /\ k.tcb[t] \in TCB
      /\ p \in Pri /\ Injective(k.tskque[p])
  BY TaskFacts
<1>1. Shaped(s1) /\ s1.tskque = k.tskque /\ s1.tcb[t].priority = p
  BY <1>0, Fields DEF Shaped, TCB
<1>2. Call(s2) \/ TaskCall(s2)
  BY DEF tk_sus_tsk, Call
<1> HIDE DEF s1
<1>3. Shaped(n) /\ n.tskque = ready_queue_delete(s1, t).tskque
  BY <1>0, <1>1, DeleteShape
<1> HIDE DEF n
<1>4. CASE k.tcb[t].state = "READY"
  <2> DEFINE s == [n EXCEPT !.tcb[t].state = "SUSPEND"]
  <2>1. s2 = s
    BY <1>4
  <2>2. Shaped(s) /\ s.tskque = n.tskque
    BY <1>0, <1>3, Fields DEF Shaped
  <2> HIDE DEF s, s2
  <2>3. k'.tskque = ready_queue_delete(s1, t).tskque
    BY <1>0, <1>2, <1>3, <2>1, <2>2, CallShape
  <2> QED BY <1>1, <2>3, NonReadySteps
<1>5. CASE k.tcb[t].state # "READY"
  <2> DEFINE s == [s1 EXCEPT !.tcb[t].state = "WAITSUS"]
  <2>1. s2 = s \/ s2 = s1
    BY <1>5
  <2>2. Shaped(s) /\ s.tskque = k.tskque
    BY <1>0, <1>1, Fields DEF Shaped
  <2> HIDE DEF s, s2
  <2> QED BY <1>0, <1>1, <1>2, <2>1, <2>2, QuietSteps
<1> QED BY <1>4, <1>5

\* tk_rsm_tsk and tk_frsm_tsk put a task that was only suspended at the end.
LEMMA ResumeSteps ==
  ASSUME IInv, NEW t \in Tasks, tk_rsm_tsk(t) \/ tk_frsm_tsk(t)
  PROVE  Steps
<1>0. /\ k \in Kernel /\ Shaped(k) /\ k.tcb \in [Tasks -> TCB] /\ k.tcb[t] \in TCB
      /\ k.tcb[t].state \in {"SUSPEND", "WAITSUS"} /\ k.tcb[t].suscnt > 0
  <2>1. k.tcb[t].state \in {"SUSPEND", "WAITSUS"}
    BY DEF tk_rsm_tsk, tk_frsm_tsk
  <2> QED BY <2>1, TaskFacts DEF IInv, Good, Core, TcbOK
<1>1. ASSUME NEW n \in 0 .. INT_MAX
      PROVE  LET s == [k EXCEPT !.tcb[t].suscnt = n]
             IN  /\ Shaped(s) /\ s.tskque = k.tskque /\ s.tcb \in [Tasks -> TCB]
                 /\ s.tcb[t].priority = k.tcb[t].priority /\ s.tcb[t].suscnt = n
  <2> DEFINE b == [k.tcb[t] EXCEPT !.suscnt = n]
  <2>1. b \in TCB /\ b.priority = k.tcb[t].priority /\ b.suscnt = n
    BY <1>0 DEF TCB
  <2> DEFINE s == [k EXCEPT !.tcb[t].suscnt = n]
  <2>2. s = [k EXCEPT !.tcb[t] = b]
    OBVIOUS
  <2> HIDE DEF b, s
  <2>3. /\ Shaped(s) /\ s.tskque = k.tskque /\ s.tcb \in [Tasks -> TCB]
        /\ s.tcb[t] = b
    BY <1>0, <2>1, <2>2, Fields DEF Shaped
  <2>4. /\ Shaped(s) /\ s.tskque = k.tskque /\ s.tcb \in [Tasks -> TCB]
        /\ s.tcb[t].priority = k.tcb[t].priority /\ s.tcb[t].suscnt = n
    BY <2>1, <2>3
  <2> QED BY <2>4 DEF s
<1>2. ASSUME NEW s, Shaped(s), s.tskque = k.tskque, s.tcb \in [Tasks -> TCB],
             s.tcb[t].priority = k.tcb[t].priority, Call(Resume(s, t))
      PROVE  Steps
  <2>1. CASE s.tcb[t].state = "SUSPEND"
    <3>1. Call(knl_make_ready(s, t))
      BY <1>2, <2>1 DEF Resume
    <3>2. k'.tskque = knl_make_ready(s, t).tskque
      BY <1>0, <1>2, <3>1, MakeReadyShape, CallShape
    <3> QED BY <1>0, <1>2, <3>2, ReadySteps
  <2>2. CASE s.tcb[t].state # "SUSPEND"
    <3>1. Call([s EXCEPT !.tcb[t].state = "WAIT"])
      BY <1>2, <2>2 DEF Resume
    <3>2. /\ Shaped([s EXCEPT !.tcb[t].state = "WAIT"])
          /\ [s EXCEPT !.tcb[t].state = "WAIT"].tskque = k.tskque
      BY <1>0, <1>2, Fields DEF Shaped
    <3> QED BY <1>0, <3>1, <3>2, QuietSteps
  <2> QED BY <2>1, <2>2
<1>3. CASE tk_frsm_tsk(t)
  <2> DEFINE s == [k EXCEPT !.tcb[t].suscnt = 0]
  <2>1. Call(Resume(s, t))
    BY <1>3 DEF tk_frsm_tsk
  <2>2. 0 \in 0 .. INT_MAX
    BY ConstantsAssumption
  <2>3. /\ Shaped(s) /\ s.tskque = k.tskque /\ s.tcb \in [Tasks -> TCB]
        /\ s.tcb[t].priority = k.tcb[t].priority
    BY <1>1, <2>2
  <2> HIDE DEF s
  <2> QED BY <1>2, <2>1, <2>3
<1>4. CASE tk_rsm_tsk(t)
  <2> DEFINE n == k.tcb[t].suscnt - 1
             s == [k EXCEPT !.tcb[t].suscnt = n]
  <2>1. n \in 0 .. INT_MAX
    <3>1. k.tcb[t].suscnt \in 0 .. INT_MAX
      BY <1>0 DEF TCB
    <3> QED BY <1>0, <3>1, ConstantsAssumption
  <2>2. /\ Shaped(s) /\ s.tskque = k.tskque /\ s.tcb \in [Tasks -> TCB]
        /\ s.tcb[t].priority = k.tcb[t].priority
    BY <1>1, <2>1
  <2>3. Call(IF s.tcb[t].suscnt = 0 THEN Resume(s, t) ELSE s)
    BY <1>4 DEF tk_rsm_tsk
  <2> HIDE DEF s
  <2>4. CASE s.tcb[t].suscnt = 0
    BY <1>2, <2>2, <2>3, <2>4
  <2>5. CASE s.tcb[t].suscnt # 0
    BY <1>0, <2>2, <2>3, <2>5, QuietSteps
  <2> QED BY <2>4, <2>5
<1> QED BY <1>3, <1>4

\* tk_wup_tsk puts a sleeping task at the end, or counts the wakeup.
LEMMA WakeupSteps ==
  ASSUME IInv, NEW t \in Tasks, tk_wup_tsk(t) \/ tk_can_wup(t)
  PROVE  Steps
<1>0. k \in Kernel /\ Shaped(k)
  BY TaskFacts
<1>1. ASSUME NEW n, Call([k EXCEPT !.tcb[t].wupcnt = n]) PROVE Steps
  <2> DEFINE s == [k EXCEPT !.tcb[t].wupcnt = n]
  <2>1. Shaped(s) /\ s.tskque = k.tskque
    BY <1>0, Fields DEF Shaped
  <2> HIDE DEF s
  <2> QED BY <1>0, <1>1, <2>1, QuietSteps DEF s
<1>2. CASE Call(knl_wait_release(k, t)) /\ k.tcb[t].state \in Waiting
  <2>1. k'.tskque = knl_wait_release(k, t).tskque /\ k.tcb[t].state # "READY"
    BY <1>0, <1>2, WaitReleaseShape, CallShape DEF Waiting
  <2> QED BY <2>1, WaitReleaseSteps
<1> QED BY <1>1, <1>2 DEF tk_wup_tsk, tk_can_wup

\* knl_make_wait takes the caller off its queue.
LEMMA MakeWaitSteps ==
  ASSUME IInv, NEW w, NEW tmo, k.ctxtsk \in Tasks, TaskCall(knl_make_wait(k, w, tmo))
  PROVE  Steps
<1> DEFINE t == k.ctxtsk
           p == k.tcb[t].priority
           n == knl_make_non_ready(k, t)
           s1 == CASE k.tcb[t].state = "READY" -> [n EXCEPT !.tcb[t].state = "WAIT"]
                   [] k.tcb[t].state = "SUSPEND" -> [k EXCEPT !.tcb[t].state = "WAITSUS"]
                   [] OTHER -> k
           s == [s1 EXCEPT !.tcb[t] = [@ EXCEPT !.wspec = w, !.wtmeb = tmo]]
<1>0. k \in Kernel /\ Shaped(k) /\ p \in Pri /\ Injective(k.tskque[p])
  BY TaskFacts
<1>1. knl_make_wait(k, w, tmo) = s
  BY Zenon DEF knl_make_wait
<1>2. Shaped(n) /\ n.tskque = ready_queue_delete(k, t).tskque
  BY <1>0, DeleteShape
<1> HIDE DEF n
<1>3. Shaped(s1) /\ (s1.tskque = n.tskque \/ s1.tskque = k.tskque)
  <2>1. /\ Shaped([n EXCEPT !.tcb[t].state = "WAIT"])
        /\ [n EXCEPT !.tcb[t].state = "WAIT"].tskque = n.tskque
    BY <1>0, <1>2, Fields DEF Shaped
  <2>2. /\ Shaped([k EXCEPT !.tcb[t].state = "WAITSUS"])
        /\ [k EXCEPT !.tcb[t].state = "WAITSUS"].tskque = k.tskque
    BY <1>0, Fields DEF Shaped
  <2> QED BY <1>0, <2>1, <2>2
<1> HIDE DEF s1
<1>4. Shaped(s) /\ s.tskque = s1.tskque
  BY <1>0, <1>3, Fields DEF Shaped
<1> HIDE DEF s
<1>5. k'.tskque = s1.tskque
  BY <1>0, <1>1, <1>4, CallShape
<1> QED BY <1>0, <1>2, <1>3, <1>5, NonReadySteps, NoQueue

\* The calls of a task on itself that wait, and the ones that touch no queue.
LEMMA SelfSteps ==
  ASSUME IInv,
         \/ tk_ref_tsk \/ (\E tmo \in BOOLEAN : tk_slp_tsk(tmo)) \/ tk_dly_tsk
         \/ tk_dis_dsp \/ tk_ena_dsp
  PROVE  Steps
<1>0. k \in Kernel /\ Shaped(k)
  BY DEF IInv, Good, Core, Shaped, Kernel
<1>1. CASE tk_ref_tsk
  BY <1>0, <1>1, QuietSteps DEF tk_ref_tsk
<1>2. ASSUME NEW tmo \in BOOLEAN, tk_slp_tsk(tmo) PROVE Steps
  <2>1. k.ctxtsk \in Tasks
    BY <1>2, InTaskFacts DEF tk_slp_tsk, MayBlock
  <2>2. CASE TaskCall(knl_make_wait(k, "SLP", tmo))
    BY <2>1, <2>2, MakeWaitSteps
  <2> DEFINE s == [k EXCEPT !.tcb[k.ctxtsk].wupcnt = @ - 1]
  <2>3. CASE TaskCall(s)
    <3>1. Shaped(s) /\ s.tskque = k.tskque
      BY <1>0, Fields DEF Shaped
    <3> HIDE DEF s
    <3> QED BY <1>0, <2>3, <3>1, QuietSteps
  <2> QED BY <1>2, <2>2, <2>3 DEF tk_slp_tsk
<1>3. CASE tk_dly_tsk
  <2>1. k.ctxtsk \in Tasks
    BY <1>3, InTaskFacts DEF tk_dly_tsk, MayBlock
  <2> QED BY <1>3, <2>1, MakeWaitSteps DEF tk_dly_tsk
<1>4. CASE tk_dis_dsp
  <2>1. k'.tskque = k.tskque
    BY <1>0, <1>4, Fields DEF tk_dis_dsp
  <2> QED BY <2>1, NoQueue
<1>5. CASE tk_ena_dsp
  <2> DEFINE s == [k EXCEPT !.dispatch_disabled = FALSE]
  <2>1. Shaped(s) /\ s.tskque = k.tskque
    BY <1>0, Fields DEF Shaped
  <2>2. TaskCall(s)
    BY <1>5 DEF tk_ena_dsp
  <2> HIDE DEF s
  <2> QED BY <1>0, <2>1, <2>2, QuietSteps
<1> QED BY <1>1, <1>2, <1>3, <1>4, <1>5

\* knl_LockOBJ takes the caller off its queue when the lock is held.
LEMMA LockSteps ==
  ASSUME IInv, NEW l \in Locks, knl_LockOBJ(l)
  PROVE  Steps
<1> DEFINE t == k.ctxtsk
           p == k.tcb[t].priority
           s1 == [k EXCEPT !.tcb[t].loc = l]
           d == ready_queue_delete(s1, t)
           got == [s1 EXCEPT !.lock[l].held = TRUE, !.tcb[t] = [@ EXCEPT !.klocked = TRUE],
                             !.klocktsk = t]
           w == [d EXCEPT !.tcb[t].klockwait = TRUE, !.lock[l].wtskq = QueInsert(@, t)]
<1>0. t \in Tasks
  BY DEF knl_LockOBJ, IInv, Good, Core, Kernel
<1>1. /\ k \in Kernel /\ Shaped(k) /\ k.tcb \in [Tasks -> TCB] /\ k.tcb[t] \in TCB
      /\ p \in Pri /\ Injective(k.tskque[p])
  BY <1>0, TaskFacts
<1>2. Shaped(s1) /\ s1.tskque = k.tskque /\ s1.tcb[t].priority = p
  BY <1>0, <1>1, Fields DEF Shaped, TCB
<1>3. \/ k' = END_CRITICAL_SECTION(got)
      \/ k' = END_CRITICAL_SECTION(knl_reschedule(w))
  BY Zenon DEF knl_LockOBJ
<1> HIDE DEF s1
<1>4. Shaped(got) /\ got.tskque = k.tskque
  BY <1>1, <1>2, Fields DEF Shaped
<1>5. Shaped(d)
  BY <1>0, <1>1, <1>2, DeleteShape
<1> HIDE DEF d, got
<1>6. Shaped(w) /\ w.tskque = d.tskque
  BY <1>1, <1>5, Fields DEF Shaped
<1> HIDE DEF w
<1>7. Shaped(knl_reschedule(w)) /\ knl_reschedule(w).tskque = d.tskque
  BY <1>1, <1>6, DispatchShape
<1>8. k'.tskque = k.tskque \/ k'.tskque = d.tskque
  BY <1>1, <1>3, <1>4, <1>7, DispatchShape
<1> QED BY <1>0, <1>2, <1>8, NonReadySteps, NoQueue DEF d

\* knl_UnlockOBJ puts the next owner at the front of its queue, where it waited
\* for the lock without being linked.
LEMMA UnlockSteps ==
  ASSUME IInv, knl_UnlockOBJ
  PROVE  Steps
<1> DEFINE t == k.ctxtsk
           l == k.tcb[t].loc
           s1 == [k EXCEPT !.tcb[t] = [@ EXCEPT !.klocked = FALSE, !.loc = NoLock],
                           !.klocktsk = NoTask]
           u == Head(k.lock[l].wtskq)
           free == [s1 EXCEPT !.lock[l].held = FALSE]
           next == [s1 EXCEPT !.lock[l].wtskq = Tail(@),
                              !.tcb[u] = [@ EXCEPT !.klockwait = FALSE, !.klocked = TRUE]]
<1>0. t \in Tasks
  BY DEF knl_UnlockOBJ, IInv, Good, Core, Kernel
<1>1. k \in Kernel /\ Shaped(k) /\ k.tcb \in [Tasks -> TCB] /\ k.tcb[t] \in TCB
  BY <1>0, TaskFacts
<1>2. /\ Shaped(s1) /\ s1.tskque = k.tskque
      /\ \A x \in Tasks : s1.tcb[x].priority = k.tcb[x].priority
      /\ s1.tcb \in [Tasks -> TCB]
  <2> DEFINE b == [k.tcb[t] EXCEPT !.klocked = FALSE, !.loc = NoLock]
  <2>1. b \in TCB /\ b.priority = k.tcb[t].priority
    BY <1>1 DEF TCB
  <2>2. s1 = [k EXCEPT !.tcb[t] = b, !.klocktsk = NoTask]
    OBVIOUS
  <2> HIDE DEF b, s1
  <2> QED BY <1>0, <1>1, <2>1, <2>2, Fields DEF Shaped
<1>3. \/ k.lock[l].wtskq = << >> /\ k' = END_CRITICAL_SECTION(knl_reschedule(free))
      \/ /\ k.lock[l].wtskq # << >>
         /\ k' = END_CRITICAL_SECTION(knl_reschedule(ready_queue_insert_top(next, u)))
  BY Zenon DEF knl_UnlockOBJ
<1> HIDE DEF s1
<1>4. Shaped(free) /\ free.tskque = k.tskque
  BY <1>1, <1>2, Fields DEF Shaped
<1>5. CASE k.lock[l].wtskq = << >>
  <2> HIDE DEF free
  <2>1. k'.tskque = k.tskque
    BY <1>1, <1>3, <1>4, <1>5, DispatchShape
  <2> QED BY <2>1, NoQueue
<1>6. CASE k.lock[l].wtskq # << >>
  <2> DEFINE p == k.tcb[u].priority
  <2>1. /\ l \in Locks /\ k.lock[l].wtskq \in Seq(Tasks)
        /\ \A x \in Tasks : x \in Elems(k.lock[l].wtskq) => k.tcb[x].klockwait
    <3>1. k.tcb[t].klocked
      BY DEF knl_UnlockOBJ
    <3>2. l \in Locks
      BY <1>0, <1>1, <3>1 DEF IInv, Good, Core, TcbOK, LockOK, TCB
    <3> QED BY <1>1, <3>2 DEF IInv, Good, Core, LK, Kernel
  <2>2. u \in Tasks /\ u \in Elems(k.lock[l].wtskq)
    <3>1. ASSUME NEW q \in Seq(Tasks), q # << >>
          PROVE  Head(q) \in Tasks /\ Head(q) \in Elems(q)
      <4>1. Head(q) = q[1] /\ 1 \in DOMAIN q /\ q[1] \in Tasks
        BY <3>1
      <4> QED BY <4>1 DEF Elems
    <3> QED BY <1>6, <2>1, <3>1
  <2>3. k.tcb[u].klockwait /\ p \in Pri /\ t \in Tasks
    BY <1>0, <2>1, <2>2, TaskFacts
  <2> HIDE DEF u
  <2>4. u \notin Elems(k.tskque[p])
    BY <2>2, <2>3, TaskFacts
  <2>5. Shaped(next) /\ next.tskque = k.tskque /\ next.tcb[u].priority = p
    <3>1. s1.tcb[u] \in TCB /\ s1.tcb[u].priority = p
      BY <1>2, <2>2
    <3> QED BY <1>1, <1>2, <2>2, <3>1, Fields DEF Shaped, TCB
  <2> HIDE DEF next
  <2>6. /\ Shaped(ready_queue_insert_top(next, u))
        /\ ready_queue_insert_top(next, u).tskque =
             Put(k.tskque, p, InsertBefore(k.tskque[p], 1, u))
    BY <1>1, <2>2, <2>3, <2>5, InsertShape
  <2>7. k'.tskque = Put(k.tskque, p, InsertBefore(k.tskque[p], 1, u))
    BY <1>1, <1>3, <1>6, <2>6, DispatchShape
  <2>8. Shifted(k.tskque[p], InsertBefore(k.tskque[p], 1, u))
    BY <2>2, <2>4 DEF Shifted
  <2> QED BY <1>1, <2>3, <2>7, <2>8, OneQueue
<1> QED BY <1>5, <1>6

\* Tasks of one priority run first come, first served: no step lets a task
\* overtake another of its ready queue but one that moves the other to the end.
THEOREM FifoCorrect == ASSUME Conditions PROVE Spec => FifoOrder
<1>1. IInv /\ Next => Steps
  <2> SUFFICES ASSUME IInv, Next PROVE Steps
    OBVIOUS
  <2> QED BY TaskManageSteps, ExitSteps, ChgPriSteps, RotateSteps, SuspendSteps, ResumeSteps,
             WakeupSteps, SelfSteps, LockSteps, UnlockSteps DEF Next
<1>2. IInv /\ Steps => FifoStep
  <2> SUFFICES ASSUME IInv, Steps, NEW p \in Pri PROVE Orderly(k.tskque[p], k'.tskque[p])
    BY DEF FifoStep, Orderly
  <2>1. k.tskque[p] \in Seq(Tasks) /\ Injective(k.tskque[p])
    BY DEF IInv, Good, Core, Kernel, Queues, RQ
  <2> QED BY <2>1, MovedOrderly DEF Steps
<1>3. IInv /\ [Next]_k => [FifoStep]_k
  BY <1>1, <1>2
<1> QED BY <1>3, Invariance, PTL DEF Spec, FifoOrder
=============================================================================

------------------------- MODULE SyncObjects_proofs -------------------------
(***************************************************************************)
(* Semaphores, event flags and rendezvous ports, for any tasks, objects    *)
(* and bounds.                                                             *)
(*                                                                         *)
(* First what every object of wait.c needs: its queue holds just the tasks *)
(* that wait for it, in order (Exact), and the ways a task leaves, joins   *)
(* or moves in a queue.  Then one part per kind of object, each with its   *)
(* inductive invariant (SemInv, FlgInv, PortInv), one lemma per action,    *)
(* and what the invariant means for the properties.  KernelObjects_proofs  *)
(* turns this into theorems about the specification.                       *)
(***************************************************************************)
EXTENDS SyncObjects, Queue_proofs, TLAPS

\* A state with another control block of one task, or of one object.
SetTask(s, t, w) == [s EXCEPT !.tcb[t] = w]
SetObj(s, o, c) == [s EXCEPT !.gcb[o] = c]

-----------------------------------------------------------------------------
(* Waiting for the objects of Wait                                         *)

Line(s, o) == {t \in Tasks : s.tcb[t].state = "WAIT" /\ s.tcb[t].wid = o}

Prios(s) == [t \in Tasks |-> s.tcb[t].priority]

\* The queue of every object holds its waiters and is in order.
QueueIn(s, o) ==
  LET g == s.gcb[o]
  IN  /\ g.wait_queue \in Seq(Tasks) /\ Injective(g.wait_queue)
      /\ Elems(g.wait_queue) = Line(s, o)
      /\ g.tpri => Sorted(g.wait_queue, Prios(s))
      /\ ~g.objid => g.wait_queue = << >>

Exact(s) ==
  /\ \A t \in Tasks : s.tcb[t].priority \in Int /\ (s.tcb[t].state = "WAIT" => s.tcb[t].wid \in Objects)
  /\ \A o \in Objects : QueueIn(s, o)

\* Nothing that Exact speaks of changes in task u; object o is as it was but for its queue.
SameTask(s, f, u) ==
  /\ f.tcb[u].state = s.tcb[u].state /\ f.tcb[u].wid = s.tcb[u].wid
  /\ f.tcb[u].priority = s.tcb[u].priority
SameKind(s, f, o) == f.gcb[o].objid = s.gcb[o].objid /\ f.gcb[o].tpri = s.gcb[o].tpri
SameQueue(s, f, o) == SameKind(s, f, o) /\ f.gcb[o].wait_queue = s.gcb[o].wait_queue

\* A task that does not wait (any more) is unlinked from all queues.
LEMMA LeaveExact ==
  ASSUME NEW s, Exact(s), NEW f, NEW t \in Tasks,
         \A u \in Tasks \ {t} : SameTask(s, f, u),
         f.tcb[t].state # "WAIT", f.tcb[t].priority \in Int,
         \A o \in Objects : /\ SameKind(s, f, o)
                            /\ f.gcb[o].wait_queue = QueRemove(s.gcb[o].wait_queue, t)
  PROVE  Exact(f)
<1>1. \A u \in Tasks : f.tcb[u].priority \in Int /\ (f.tcb[u].state = "WAIT" => f.tcb[u].wid \in Objects)
  BY DEF Exact, SameTask
<1>2. ASSUME NEW o \in Objects PROVE QueueIn(f, o)
  <2> DEFINE q == s.gcb[o].wait_queue
             r == QueRemove(q, t)
  <2>1. /\ q \in Seq(Tasks) /\ Injective(q) /\ Elems(q) = Line(s, o)
        /\ (s.gcb[o].tpri => Sorted(q, Prios(s))) /\ (~s.gcb[o].objid => q = << >>)
    BY DEF Exact, QueueIn
  <2>2. f.gcb[o].wait_queue = r /\ f.gcb[o].objid = s.gcb[o].objid /\ f.gcb[o].tpri = s.gcb[o].tpri
    BY DEF SameKind
  <2> HIDE DEF q
  <2>3. r \in Seq(Tasks) /\ Elems(r) = Elems(q) \ {t} /\ Injective(r)
    BY <2>1, QueRemoveFacts
  <2>4. q = << >> => r = << >>
    BY NotIn DEF Elems
  <2>5. Line(f, o) = Line(s, o) \ {t}
    BY DEF Line, SameTask
  <2>6. s.gcb[o].tpri => Sorted(r, Prios(f))
    <3>1. \A u \in Elems(r) : Prios(s)[u] = Prios(f)[u]
      BY <2>1, <2>3 DEF Prios, SameTask, Line
    <3> QED BY <2>1, <2>3, <3>1, QueRemoveSorted, SortedSame
  <2> HIDE DEF r
  <2> QED BY <2>1, <2>2, <2>3, <2>4, <2>5, <2>6 DEF QueueIn
<1> QED BY <1>1, <1>2 DEF Exact

\* A task that does not wait is in no queue.
LEMMA QuietExact ==
  ASSUME NEW s, Exact(s), NEW f, NEW t \in Tasks, s.tcb[t].state # "WAIT",
         \A u \in Tasks \ {t} : SameTask(s, f, u),
         f.tcb[t].state # "WAIT", f.tcb[t].priority \in Int,
         \A o \in Objects : SameQueue(s, f, o)
  PROVE  Exact(f)
<1>1. \A o \in Objects : SameKind(s, f, o) /\ f.gcb[o].wait_queue = QueRemove(s.gcb[o].wait_queue, t)
  <2> SUFFICES ASSUME NEW o \in Objects
               PROVE  SameKind(s, f, o) /\ f.gcb[o].wait_queue = QueRemove(s.gcb[o].wait_queue, t)
    OBVIOUS
  <2>1. t \notin Elems(s.gcb[o].wait_queue)
    BY DEF Exact, QueueIn, Line
  <2> QED BY <2>1, NotIn DEF SameQueue
<1> QED BY <1>1, LeaveExact

\* Neither the waiters nor their order change.
LEMMA SameExact ==
  ASSUME NEW s, Exact(s), NEW f, \A u \in Tasks : SameTask(s, f, u), \A o \in Objects : SameQueue(s, f, o)
  PROVE  Exact(f)
<1>1. Prios(f) = Prios(s) /\ \A o \in Objects : Line(f, o) = Line(s, o)
  BY DEF Prios, Line, SameTask
<1> QED BY <1>1 DEF Exact, QueueIn, SameTask, SameQueue, SameKind

\* knl_gcb_make_wait: a task joins the queue of an object.
LEMMA JoinExact ==
  ASSUME NEW s, Exact(s), NEW f, NEW t \in Tasks, NEW o \in Objects,
         s.tcb[t].state # "WAIT", s.gcb[o].objid,
         \A u \in Tasks \ {t} : SameTask(s, f, u),
         f.tcb[t].state = "WAIT", f.tcb[t].wid = o, f.tcb[t].priority = s.tcb[t].priority,
         \A p \in Objects \ {o} : SameQueue(s, f, p), SameKind(s, f, o),
         f.gcb[o].wait_queue = IF s.gcb[o].tpri THEN knl_queue_insert_tpri(s.gcb[o].wait_queue, t, Prios(s))
                               ELSE QueInsert(s.gcb[o].wait_queue, t)
  PROVE  Exact(f)
<1>1. \A u \in Tasks : f.tcb[u].priority \in Int /\ (f.tcb[u].state = "WAIT" => f.tcb[u].wid \in Objects)
  BY DEF Exact, SameTask
<1>2. Prios(f) = Prios(s) /\ Prios(s) \in [Tasks -> Int]
  BY DEF Prios, SameTask, Exact
<1>3. ASSUME NEW p \in Objects \ {o} PROVE QueueIn(f, p)
  <2>1. Line(f, p) = Line(s, p)
    BY DEF Line, SameTask
  <2> QED BY <1>2, <2>1 DEF Exact, QueueIn, SameQueue, SameKind
<1>4. QueueIn(f, o)
  <2> DEFINE q == s.gcb[o].wait_queue
             r == f.gcb[o].wait_queue
  <2>1. /\ q \in Seq(Tasks) /\ Injective(q) /\ Elems(q) = Line(s, o) /\ t \notin Elems(q)
        /\ (s.gcb[o].tpri => Sorted(q, Prios(s)))
    BY DEF Exact, QueueIn, Line
  <2>2. /\ r = (IF s.gcb[o].tpri THEN knl_queue_insert_tpri(q, t, Prios(s)) ELSE QueInsert(q, t))
        /\ f.gcb[o].tpri = s.gcb[o].tpri /\ f.gcb[o].objid
    BY DEF SameKind
  <2>3. Line(f, o) = Line(s, o) \cup {t}
    BY DEF Line, SameTask
  <2> HIDE DEF q, r
  <2>4. r \in Seq(Tasks) /\ Injective(r) /\ Elems(r) = Elems(q) \cup {t} /\ (s.gcb[o].tpri => Sorted(r, Prios(s)))
    <3>1. CASE s.gcb[o].tpri
      <4>1. r = knl_queue_insert_tpri(q, t, Prios(s)) /\ Sorted(q, Prios(s))
        BY <2>1, <2>2, <3>1
      <4> QED BY <1>2, <2>1, <4>1, TpriFacts
    <3>2. CASE ~s.gcb[o].tpri
      <4>1. r = QueInsert(q, t)
        BY <2>2, <3>2
      <4>2. QueInsert(q, t) \in Seq(Tasks) /\ Elems(QueInsert(q, t)) = Elems(q) \cup {t} /\ Injective(QueInsert(q, t))
        BY <2>1, QueInsertFacts
      <4> QED BY <3>2, <4>1, <4>2
    <3> QED BY <3>1, <3>2
  <2> QED BY <1>2, <2>1, <2>2, <2>3, <2>4 DEF QueueIn, r
<1> QED BY <1>1, <1>3, <1>4 DEF Exact

\* A priority changes of a task that is in no queue by priority.
LEMMA RepriExact ==
  ASSUME NEW s, Exact(s), NEW f, NEW t \in Tasks,
         s.tcb[t].state = "WAIT" => ~s.gcb[s.tcb[t].wid].tpri,
         \A u \in Tasks \ {t} : SameTask(s, f, u),
         f.tcb[t].state = s.tcb[t].state, f.tcb[t].wid = s.tcb[t].wid, f.tcb[t].priority \in Int,
         \A o \in Objects : SameQueue(s, f, o)
  PROVE  Exact(f)
<1>1. \A u \in Tasks : f.tcb[u].priority \in Int /\ (f.tcb[u].state = "WAIT" => f.tcb[u].wid \in Objects)
  BY DEF Exact, SameTask
<1>2. ASSUME NEW o \in Objects PROVE QueueIn(f, o)
  <2> DEFINE q == s.gcb[o].wait_queue
  <2>1. /\ q \in Seq(Tasks) /\ Injective(q) /\ Elems(q) = Line(s, o)
        /\ (s.gcb[o].tpri => Sorted(q, Prios(s))) /\ (~s.gcb[o].objid => q = << >>)
    BY DEF Exact, QueueIn
  <2>2. f.gcb[o].wait_queue = q /\ f.gcb[o].objid = s.gcb[o].objid /\ f.gcb[o].tpri = s.gcb[o].tpri
    BY DEF SameQueue, SameKind
  <2>3. Line(f, o) = Line(s, o)
    BY DEF Line, SameTask
  <2>4. s.gcb[o].tpri => \A u \in Elems(q) : Prios(s)[u] = Prios(f)[u]
    BY <2>1 DEF Line, Prios, SameTask
  <2> HIDE DEF q
  <2>5. s.gcb[o].tpri => Sorted(q, Prios(f))
    BY <2>1, <2>4, SortedSame
  <2> QED BY <2>1, <2>2, <2>3, <2>5 DEF QueueIn
<1> QED BY <1>1, <1>2 DEF Exact

\* knl_gcb_change_priority: a waiter moves within a queue by priority.
LEMMA MoveExact ==
  ASSUME NEW s, Exact(s), NEW f, NEW t \in Tasks, NEW o \in Objects,
         s.tcb[t].state = "WAIT", s.tcb[t].wid = o,
         \A u \in Tasks \ {t} : SameTask(s, f, u),
         f.tcb[t].state = "WAIT", f.tcb[t].wid = o, f.tcb[t].priority \in Int,
         \A p \in Objects \ {o} : SameQueue(s, f, p), SameKind(s, f, o),
         f.gcb[o].wait_queue = knl_queue_insert_tpri(QueRemove(s.gcb[o].wait_queue, t), t, Prios(f))
  PROVE  Exact(f)
<1>1. \A u \in Tasks : f.tcb[u].priority \in Int /\ (f.tcb[u].state = "WAIT" => f.tcb[u].wid \in Objects)
  BY DEF Exact, SameTask
<1>2. Prios(f) \in [Tasks -> Int] /\ \A u \in Tasks \ {t} : Prios(s)[u] = Prios(f)[u]
  BY <1>1 DEF Prios, SameTask
<1>3. ASSUME NEW p \in Objects \ {o} PROVE QueueIn(f, p)
  <2> DEFINE q == s.gcb[p].wait_queue
  <2>1. Line(f, p) = Line(s, p) /\ t \notin Line(s, p) /\ Line(s, p) \subseteq Tasks
    BY DEF Line, SameTask
  <2>2. /\ q \in Seq(Tasks) /\ Injective(q) /\ Elems(q) = Line(s, p)
        /\ (s.gcb[p].tpri => Sorted(q, Prios(s))) /\ (~s.gcb[p].objid => q = << >>)
    BY DEF Exact, QueueIn
  <2>3. f.gcb[p].wait_queue = q /\ f.gcb[p].objid = s.gcb[p].objid /\ f.gcb[p].tpri = s.gcb[p].tpri
    BY DEF SameQueue, SameKind
  <2> HIDE DEF q
  <2>4. s.gcb[p].tpri => Sorted(q, Prios(f))
    BY <1>2, <2>1, <2>2, SortedSame
  <2> QED BY <2>1, <2>2, <2>3, <2>4 DEF QueueIn
<1>4. QueueIn(f, o)
  <2> DEFINE q == s.gcb[o].wait_queue
             d == QueRemove(q, t)
             r == f.gcb[o].wait_queue
  <2>1. /\ q \in Seq(Tasks) /\ Injective(q) /\ Elems(q) = Line(s, o) /\ t \in Elems(q)
        /\ (s.gcb[o].tpri => Sorted(q, Prios(s))) /\ (~s.gcb[o].objid => q = << >>)
    BY DEF Exact, QueueIn, Line
  <2>2. r = knl_queue_insert_tpri(d, t, Prios(f)) /\ f.gcb[o].tpri = s.gcb[o].tpri /\ f.gcb[o].objid = s.gcb[o].objid
    BY DEF SameKind
  <2>3. Line(f, o) = Line(s, o) /\ Line(s, o) \subseteq Tasks
    BY DEF Line, SameTask
  <2>4. s.gcb[o].objid
    BY <2>1 DEF Elems
  <2> HIDE DEF q, r
  <2>5. d \in Seq(Tasks) /\ Injective(d) /\ Elems(d) = Elems(q) \ {t} /\ (s.gcb[o].tpri => Sorted(d, Prios(s)))
    BY <2>1, QueRemoveFacts, QueRemoveSorted
  <2> HIDE DEF d
  <2>6. s.gcb[o].tpri => Sorted(d, Prios(f))
    <3>1. \A u \in Elems(d) : Prios(s)[u] = Prios(f)[u]
      BY <1>2, <2>1, <2>3, <2>5
    <3> QED BY <2>5, <3>1, SortedSame
  <2>7. r \in Seq(Tasks) /\ Elems(r) = Elems(q) /\ Injective(r) /\ (s.gcb[o].tpri => Sorted(r, Prios(f)))
    <3>1. t \notin Elems(d)
      BY <2>5
    <3>2. r \in Seq(Tasks) /\ Elems(r) = Elems(d) \cup {t} /\ Injective(r) /\ (Sorted(d, Prios(f)) => Sorted(r, Prios(f)))
      BY <1>2, <2>2, <2>5, <3>1, TpriFacts
    <3> QED BY <2>1, <2>5, <2>6, <3>2
  <2> QED BY <2>1, <2>2, <2>3, <2>4, <2>7 DEF QueueIn, r
<1> QED BY <1>1, <1>3, <1>4 DEF Exact

\* knl_wait_delete: nobody waits for an object that is deleted.  tk_cre: nor for one that is new.
LEMMA EmptyExact ==
  ASSUME NEW s, Exact(s), NEW f, NEW o \in Objects,
         \A u \in Tasks : IF u \in Line(s, o) THEN f.tcb[u].state # "WAIT" /\ f.tcb[u].priority \in Int
                          ELSE SameTask(s, f, u),
         \A p \in Objects \ {o} : SameQueue(s, f, p),
         f.gcb[o].wait_queue = << >>
  PROVE  Exact(f)
<1>1. \A u \in Tasks : f.tcb[u].priority \in Int /\ (f.tcb[u].state = "WAIT" => f.tcb[u].wid \in Objects)
  BY DEF Exact, SameTask, Line
<1>2. ASSUME NEW p \in Objects \ {o} PROVE QueueIn(f, p)
  <2> DEFINE q == s.gcb[p].wait_queue
  <2>1. Line(f, p) = Line(s, p) /\ \A u \in Line(s, p) : u \in Tasks /\ SameTask(s, f, u)
    BY DEF Line, SameTask
  <2>2. /\ q \in Seq(Tasks) /\ Injective(q) /\ Elems(q) = Line(s, p)
        /\ (s.gcb[p].tpri => Sorted(q, Prios(s))) /\ (~s.gcb[p].objid => q = << >>)
    BY DEF Exact, QueueIn
  <2>3. f.gcb[p].wait_queue = q /\ f.gcb[p].objid = s.gcb[p].objid /\ f.gcb[p].tpri = s.gcb[p].tpri
    BY DEF SameQueue, SameKind
  <2> HIDE DEF q
  <2>4. s.gcb[p].tpri => Sorted(q, Prios(f))
    <3>1. \A u \in Elems(q) : Prios(s)[u] = Prios(f)[u]
      BY <2>1, <2>2 DEF Prios, SameTask
    <3> QED BY <2>2, <3>1, SortedSame
  <2> QED BY <2>1, <2>2, <2>3, <2>4 DEF QueueIn
<1>3. QueueIn(f, o)
  <2>1. Line(f, o) = {}
    BY DEF Line, SameTask
  <2>2. << >> \in Seq(Tasks) /\ Injective(<< >>) /\ Elems(<< >>) = {} /\ Sorted(<< >>, Prios(f))
    BY DEF Injective, Elems, Sorted
  <2> QED BY <2>1, <2>2 DEF QueueIn
<1> QED BY <1>1, <1>2, <1>3 DEF Exact

-----------------------------------------------------------------------------
(* Semaphores                                                              *)

\* The semaphores' queues are those of module Queue.
LEMMA SemQueues ==
  /\ \A q : Sem!Elems(q) = Elems(q)
  /\ \A q : Sem!Injective(q) <=> Injective(q)
  /\ \A q, e : Sem!QueRemove(q, e) = QueRemove(q, e)
  /\ \A q, e : Sem!QueInsert(q, e) = QueInsert(q, e)
  /\ \A q, e, p : Sem!knl_queue_insert_tpri(q, e, p) = knl_queue_insert_tpri(q, e, p)
  /\ \A q, p : Sem!Sorted(q, p) <=> Sorted(q, p)
  /\ \A s : Sem!Priorities(s) = Prios(s)
  /\ \A s, o : Sem!Waiters(s, o) = Line(s, o)
BY Zenon DEF Sem!Elems, Elems, Sem!Injective, Injective, Sem!QueRemove, QueRemove,
             Sem!QueInsert, QueInsert, Sem!Sorted, Sorted,
             Sem!knl_queue_insert_tpri, knl_queue_insert_tpri,
             Sem!InsertBefore, InsertBefore, Sem!TpriPosition, TpriPosition,
             Sem!Priorities, Prios, Sem!Waiters, Line

\* One task, or one semaphore, with another control block.
LEMMA SemTask ==
  ASSUME NEW s \in Sem!Kernel, NEW t \in Tasks, NEW w \in Sem!TCB
  PROVE  LET f == SetTask(s, t, w)
         IN  f \in Sem!Kernel /\ f.tcb[t] = w /\ f.gcb = s.gcb /\ \A u \in Tasks \ {t} : f.tcb[u] = s.tcb[u]
<1> DEFINE T == [s.tcb EXCEPT ![t] = w]
           f == SetTask(s, t, w)
<1>1. T \in [Tasks -> Sem!TCB] /\ T[t] = w /\ \A u \in Tasks \ {t} : T[u] = s.tcb[u]
  BY DEF Sem!Kernel
<1>2. f = [s EXCEPT !.tcb = T]
  BY DEF SetTask
<1> HIDE DEF T, f
<1>3. f \in Sem!Kernel /\ f.tcb = T /\ f.gcb = s.gcb
  BY <1>1, <1>2 DEF Sem!Kernel
<1> QED BY <1>1, <1>3 DEF f

\* The rest of the state does not change with a semaphore.
LEMMA SemObject ==
  ASSUME NEW s \in Sem!Kernel, NEW o \in Objects, NEW c \in Sem!SEMCB
  PROVE  LET f == SetObj(s, o, c)
         IN  f \in Sem!Kernel /\ f.gcb[o] = c /\ f.tcb = s.tcb /\ \A p \in Objects \ {o} : f.gcb[p] = s.gcb[p]
<1> DEFINE G == [s.gcb EXCEPT ![o] = c]
           f == SetObj(s, o, c)
<1>1. G \in [Objects -> Sem!SEMCB] /\ G[o] = c /\ \A p \in Objects \ {o} : G[p] = s.gcb[p]
  BY DEF Sem!Kernel
<1>2. f = [s EXCEPT !.gcb = G]
  BY DEF SetObj
<1> HIDE DEF G, f
<1>3. f \in Sem!Kernel /\ f.gcb = G /\ f.tcb = s.tcb
  BY <1>1, <1>2 DEF Sem!Kernel
<1> QED BY <1>1, <1>3 DEF f

\* The control blocks have their types.
LEMMA SemTypes ==
  ASSUME NEW s \in Sem!Kernel
  PROVE  /\ \A t \in Tasks : s.tcb[t] \in Sem!TCB
         /\ \A o \in Objects : s.gcb[o] \in Sem!SEMCB
BY DEF Sem!Kernel

\* Semaphore o keeps what it was created with.
Created(s, f, o) ==
  /\ SameKind(s, f, o) /\ f.gcb[o].cnt = s.gcb[o].cnt /\ f.gcb[o].maxsem = s.gcb[o].maxsem

\* The wait of task t for semaphore o ends with e, and n resources are taken.
Freed(s, f, t, o, e, n) ==
  /\ f \in Sem!Kernel
  /\ \A u \in Tasks \ {t} : f.tcb[u] = s.tcb[u]
  /\ f.tcb[t].state = "READY" /\ f.tcb[t].wercd = e
  /\ f.tcb[t].cnt = s.tcb[t].cnt /\ f.tcb[t].priority = s.tcb[t].priority
  /\ \A p \in Objects \ {o} : f.gcb[p] = s.gcb[p]
  /\ Created(s, f, o)
  /\ f.gcb[o].wait_queue = QueRemove(s.gcb[o].wait_queue, t)
  /\ f.gcb[o].semcnt = s.gcb[o].semcnt - n

\* The queues are as the tasks say after that.
LEMMA FreedExact ==
  ASSUME NEW s \in Sem!Kernel, Exact(s), NEW t \in Tasks, s.tcb[t].state = "WAIT",
         NEW o, o = s.tcb[t].wid, NEW e, NEW n, NEW f, Freed(s, f, t, o, e, n)
  PROVE  Exact(f)
<1>1. \A u \in Tasks \ {t} : SameTask(s, f, u)
  BY DEF SameTask, Freed
<1>2. f.tcb[t].state # "WAIT" /\ f.tcb[t].priority \in Int
  BY DEF Freed, Exact
<1>3. ASSUME NEW p \in Objects
      PROVE  SameKind(s, f, p) /\ f.gcb[p].wait_queue = QueRemove(s.gcb[p].wait_queue, t)
  <2>1. CASE p = o
    BY <2>1 DEF Freed, Created
  <2>2. CASE p # o
    <3>1. t \notin Elems(s.gcb[p].wait_queue)
      BY <2>2 DEF Exact, QueueIn, Line
    <3>2. f.gcb[p] = s.gcb[p]
      BY <2>2 DEF Freed
    <3> QED BY <3>1, <3>2, NotIn DEF SameKind
  <2> QED BY <2>1, <2>2
<1> QED BY <1>1, <1>2, <1>3, LeaveExact

\* knl_wait_release.
LEMMA SemRelease ==
  ASSUME NEW s \in Sem!Kernel, Exact(s), NEW t \in Tasks, s.tcb[t].state = "WAIT", NEW e \in Sem!Error
  PROVE  Freed(s, Sem!knl_wait_release(s, t, e), t, s.tcb[t].wid, e, 0)
<1> DEFINE w == s.tcb[t]
           o == w.wid
           g == s.gcb[o]
           q == QueRemove(g.wait_queue, t)
           W == [w EXCEPT !.state = "READY", !.wercd = e]
           c == [g EXCEPT !.wait_queue = q]
           y == SetObj(s, o, c)
           f == Sem!knl_wait_release(s, t, e)
<1>1. w \in Sem!TCB /\ o \in Objects /\ g \in Sem!SEMCB /\ QueueIn(s, o)
  BY SemTypes DEF Exact
<1>2. q \in Seq(Tasks)
  BY <1>1, QueRemoveFacts DEF QueueIn
<1>3. f = SetTask(y, t, W)
  BY SemQueues, Zenon DEF Sem!knl_wait_release, SetTask, SetObj
<1> HIDE DEF q, f
<1>4. W \in Sem!TCB
  BY <1>1, Zenon DEF Sem!TCB
<1>5. W.state = "READY" /\ W.wercd = e /\ W.cnt = w.cnt /\ W.priority = w.priority
  BY <1>1 DEF Sem!TCB
<1>6. c \in Sem!SEMCB
  BY <1>1, <1>2, Zenon DEF Sem!SEMCB
<1>7. /\ c.wait_queue = q /\ c.objid = g.objid /\ c.tpri = g.tpri /\ c.cnt = g.cnt
      /\ c.maxsem = g.maxsem /\ c.semcnt = g.semcnt /\ g.semcnt \in Int
  BY <1>1 DEF Sem!SEMCB
<1> HIDE DEF W, c, w, g
<1>8. y \in Sem!Kernel /\ y.gcb[o] = c /\ y.tcb = s.tcb /\ \A p \in Objects \ {o} : y.gcb[p] = s.gcb[p]
  BY <1>1, <1>6, SemObject
<1> HIDE DEF y, o
<1>9. f \in Sem!Kernel /\ f.tcb[t] = W /\ f.gcb = y.gcb /\ \A u \in Tasks \ {t} : f.tcb[u] = y.tcb[u]
  BY <1>3, <1>4, <1>8, SemTask
<1>10. Freed(s, f, t, o, e, 0)
  BY <1>5, <1>7, <1>8, <1>9 DEF Freed, Created, SameKind, w, g, q
<1> QED BY <1>10 DEF f, o, w

\* A waiter whose request can be met gets its resources.
LEMMA SemServes ==
  ASSUME NEW s \in Sem!Kernel, Exact(s), NEW t \in Tasks, s.tcb[t].state = "WAIT",
         ~(s.gcb[s.tcb[t].wid].semcnt < s.tcb[t].cnt)
  PROVE  LET o == s.tcb[t].wid
         IN  Freed(s, [Sem!knl_wait_release_ok(s, t) EXCEPT !.gcb[o].semcnt = @ - s.tcb[t].cnt],
                   t, o, "E_OK", s.tcb[t].cnt)
<1> DEFINE o == s.tcb[t].wid
           n == s.tcb[t].cnt
           r == Sem!knl_wait_release(s, t, "E_OK")
           c == [r.gcb[o] EXCEPT !.semcnt = r.gcb[o].semcnt - n]
           f == [Sem!knl_wait_release_ok(s, t) EXCEPT !.gcb[o].semcnt = @ - n]
<1>1. o \in Objects /\ n \in 1 .. MaxSem /\ s.gcb[o].semcnt \in 0 .. MaxSem /\ "E_OK" \in Sem!Error
  BY SemTypes DEF Exact, Sem!TCB, Sem!SEMCB, Sem!Error
<1>2. Freed(s, r, t, o, "E_OK", 0)
  BY <1>1, SemRelease
<1>3. f = SetObj(r, o, c)
  BY Zenon DEF Sem!knl_wait_release_ok, SetObj
<1> HIDE DEF r, f, n
<1>4. r \in Sem!Kernel /\ r.gcb[o] \in Sem!SEMCB /\ r.gcb[o].semcnt = s.gcb[o].semcnt
  BY <1>1, <1>2, SemTypes DEF Freed
<1>5. r.gcb[o].semcnt - n \in 0 .. MaxSem
  BY <1>1, <1>4, SyncAssumption DEF n
<1>6. c \in Sem!SEMCB
  BY <1>4, <1>5, Zenon DEF Sem!SEMCB
<1>7. /\ c.wait_queue = r.gcb[o].wait_queue /\ c.objid = r.gcb[o].objid /\ c.tpri = r.gcb[o].tpri
      /\ c.cnt = r.gcb[o].cnt /\ c.maxsem = r.gcb[o].maxsem /\ c.semcnt = s.gcb[o].semcnt - n
  BY <1>4 DEF Sem!SEMCB
<1> HIDE DEF c
<1>8. f \in Sem!Kernel /\ f.gcb[o] = c /\ f.tcb = r.tcb /\ \A p \in Objects \ {o} : f.gcb[p] = r.gcb[p]
  BY <1>1, <1>3, <1>4, <1>6, SemObject
<1>9. Freed(s, f, t, o, "E_OK", n)
  BY <1>2, <1>7, <1>8 DEF Freed, Created, SameKind
<1> QED BY <1>9 DEF f, n

\* The resources that one more task asked for.
LEMMA AskedMore ==
  ASSUME NEW s \in Sem!Kernel, NEW S \in SUBSET Tasks, NEW t \in Tasks \ S, IsFiniteSet(Sem!Asked(s, S))
  PROVE  /\ IsFiniteSet(Sem!Asked(s, S \cup {t}))
         /\ Cardinality(Sem!Asked(s, S \cup {t})) = Cardinality(Sem!Asked(s, S)) + s.tcb[t].cnt
<1> DEFINE n == s.tcb[t].cnt
           A == Sem!Asked(s, S)
           B == {t} \X (1 .. n)
           b == [i \in 1 .. n |-> <<t, i>>]
<1>1. n \in 1 .. MaxSem
  BY SemTypes DEF Sem!TCB
<1> HIDE DEF n
<1>2. IsFiniteSet(1 .. n) /\ Cardinality(1 .. n) = n
  <2>1. 1 \in Int /\ n \in Int /\ ~(1 > n) /\ n - 1 + 1 = n
    BY <1>1, SyncAssumption
  <2> QED BY <2>1, FS_Interval
<1>3. IsFiniteSet(B) /\ Cardinality(B) = n
  <2>1. b \in Bijection(1 .. n, B)
    BY DEF Bijection, Injection, Surjection, IsInjective
  <2>2. ExistsBijection(1 .. n, B)
    BY <2>1 DEF ExistsBijection
  <2> QED BY <1>2, <2>2, FS_Bijection
<1>4. Sem!Asked(s, S \cup {t}) = A \cup B
  <2>1. ASSUME NEW u \in (S \cup {t}) \X (1 .. MaxSem), u[2] <= s.tcb[u[1]].cnt
        PROVE  u \in A \cup B
    BY <1>1, <2>1, SyncAssumption DEF Sem!Asked, n
  <2>2. ASSUME NEW u \in B
        PROVE  u \in (S \cup {t}) \X (1 .. MaxSem) /\ u[2] <= s.tcb[u[1]].cnt
    BY <1>1, <2>2, SyncAssumption DEF n
  <2> QED BY <2>1, <2>2 DEF Sem!Asked
<1>10. A \cap B = {}
  BY DEF Sem!Asked
<1> HIDE DEF A, B, n
<1>5. Cardinality(A) \in Nat
  BY FS_CardinalityType DEF A
<1>6. IsFiniteSet(A)
  BY DEF A
<1>7. IsFiniteSet(A \cup B) /\ Cardinality(A \cup B) = Cardinality(A) + Cardinality(B) - Cardinality(A \cap B)
  BY <1>3, <1>6, FS_Union
<1>8. Cardinality(A \cap B) = 0
  BY <1>10, FS_EmptySet
<1>9. Cardinality(A \cup B) = Cardinality(A) + n
  BY <1>1, <1>3, <1>5, <1>7, <1>8, SyncAssumption
<1> QED BY <1>4, <1>7, <1>9, Zenon DEF A, n

\* The loop over the queue as tk_sig_sem runs it: its state after each turn.
LEMMA ServeTurns ==
  ASSUME NEW s, NEW o, NEW q, q = s.gcb[o].wait_queue, Len(q) \in Nat
  PROVE  \E a : /\ a[0] = [s |-> s, stop |-> FALSE]
                /\ \A i \in 1 .. Len(q) : a[i] = Sem!ServeOne(a[i - 1], q[i])
                /\ Sem!Serve(s, o) = a[Len(q)].s
<1> DEFINE n == Len(q)
           z == [s |-> s, stop |-> FALSE]
           F(x, i) == Sem!ServeOne(x, q[i])
           Run(f, m) == f = [i \in 0 .. m |-> IF i = 0 THEN z ELSE F(f[i - 1], i)]
           B == {m \in 0 .. n : ~ \E f : Run(f, m)}
           after == CHOOSE f : Run(f, n)
<1>1. Sem!Serve(s, o) = after[n].s
  BY DEF Sem!Serve
<1> HIDE DEF z, F
<1>2. \E f : Run(f, 0)
  <2> DEFINE f == [i \in 0 .. 0 |-> z]
  <2>1. Run(f, 0)
    OBVIOUS
  <2> QED BY <2>1
<1>3. ASSUME NEW m \in Nat, NEW f, Run(f, m)
      PROVE  \E g : Run(g, m + 1)
  <2> DEFINE g == [i \in 0 .. m + 1 |-> IF i <= m THEN f[i] ELSE F(f[m], m + 1)]
  <2>1. ASSUME NEW i \in 0 .. m + 1
        PROVE  g[i] = IF i = 0 THEN z ELSE F(g[i - 1], i)
    <3>1. CASE i = m + 1
      <4>1. g[i] = F(f[m], m + 1) /\ g[i - 1] = f[m] /\ i # 0
        BY <3>1
      <4> QED BY <3>1, <4>1
    <3>2. CASE i # m + 1
      <4>1. i \in 0 .. m /\ g[i] = f[i] /\ (i # 0 => i - 1 \in 0 .. m /\ g[i - 1] = f[i - 1])
        BY <3>2
      <4>2. f[i] = IF i = 0 THEN z ELSE F(f[i - 1], i)
        BY <1>3, <4>1
      <4> QED BY <4>1, <4>2
    <3> QED BY <3>1, <3>2
  <2>2. Run(g, m + 1)
    BY <2>1
  <2> QED BY <2>2
<1> HIDE DEF Run
<1>4. B = {}
  <2> SUFFICES ASSUME B # {}
               PROVE  FALSE
    OBVIOUS
  <2>1. PICK m \in B : \A x \in B : m <= x
    BY MinimumExists
  <2>2. m # 0 /\ m \in Nat /\ m - 1 \in 0 .. n /\ m - 1 \notin B
    BY <1>2, <2>1
  <2>3. \E f : Run(f, m - 1)
    BY <2>2
  <2>4. m - 1 \in Nat /\ (m - 1) + 1 = m
    BY <2>2
  <2> QED BY <1>3, <2>1, <2>3, <2>4
<1>5. Run(after, n)
  BY <1>4
<1>6. \A i \in 0 .. n : after[i] = IF i = 0 THEN z ELSE F(after[i - 1], i)
  BY <1>5 DEF Run
<1> HIDE DEF after
<1>7. after[0] = z /\ \A i \in 1 .. n : after[i] = F(after[i - 1], i)
  BY <1>6
<1> QED BY <1>1, <1>7 DEF F, z

\* Whom a loop over the queue of semaphore o has served so far.
Took(s, f, o) == {t \in Line(s, o) : f.tcb[t].state # "WAIT"}

\* They have what they asked for, and all else is as it was.
Part(s, f, o) ==
  LET S == Took(s, f, o)
  IN  /\ f \in Sem!Kernel /\ Exact(f) /\ Created(s, f, o)
      /\ \A p \in Objects \ {o} : f.gcb[p] = s.gcb[p]
      /\ \A t \in Tasks \ S : f.tcb[t] = s.tcb[t]
      /\ \A t \in S : /\ f.tcb[t].state = "READY" /\ f.tcb[t].wercd = "E_OK"
                      /\ f.tcb[t].cnt = s.tcb[t].cnt /\ f.tcb[t].priority = s.tcb[t].priority
      /\ IsFiniteSet(Sem!Asked(s, S))
      /\ f.gcb[o].semcnt + Cardinality(Sem!Asked(s, S)) = s.gcb[o].semcnt

\* One more is served.
LEMMA PartMore ==
  ASSUME NEW s \in Sem!Kernel, NEW o \in Objects, NEW f, Part(s, f, o),
         NEW t \in Line(s, o) \ Took(s, f, o), NEW h, Freed(f, h, t, o, "E_OK", f.tcb[t].cnt)
  PROVE  Part(s, h, o) /\ Took(s, h, o) = Took(s, f, o) \cup {t}
<1> DEFINE S == Took(s, f, o)
           n == s.tcb[t].cnt
<1>1. f \in Sem!Kernel /\ Exact(f) /\ t \in Tasks /\ f.tcb[t] = s.tcb[t] /\ n \in Nat
  BY SemTypes, SyncAssumption DEF Part, Line, Sem!TCB
<1>2. f.tcb[t].state = "WAIT" /\ f.tcb[t].wid = o
  BY <1>1 DEF Line
<1>3. Took(s, h, o) = S \cup {t}
  BY <1>1, <1>2 DEF Took, Freed, Line
<1>4. Exact(h)
  BY <1>1, <1>2, FreedExact
<1>5. Created(s, h, o)
  BY DEF Part, Freed, Created, SameKind
<1>6. S \in SUBSET Tasks /\ t \in Tasks \ S /\ IsFiniteSet(Sem!Asked(s, S))
  BY <1>1 DEF Took, Line, Part
<1>7. /\ IsFiniteSet(Sem!Asked(s, S \cup {t}))
      /\ Cardinality(Sem!Asked(s, S \cup {t})) = Cardinality(Sem!Asked(s, S)) + n
  BY <1>6, AskedMore
<1>8. Cardinality(Sem!Asked(s, S)) \in Nat /\ f.gcb[o].semcnt \in Int
  BY <1>1, <1>6, FS_CardinalityType, SemTypes, SyncAssumption DEF Sem!SEMCB
<1>9. /\ f.gcb[o].semcnt + Cardinality(Sem!Asked(s, S)) = s.gcb[o].semcnt
      /\ h.gcb[o].semcnt = f.gcb[o].semcnt - n
  BY <1>1 DEF Part, Freed
<1>10. h.gcb[o].semcnt + Cardinality(Sem!Asked(s, S \cup {t})) = s.gcb[o].semcnt
  BY <1>1, <1>7, <1>8, <1>9
<1>11. /\ h \in Sem!Kernel
       /\ \A p \in Objects \ {o} : h.gcb[p] = s.gcb[p]
  BY DEF Part, Freed
<1>12. /\ \A u \in Tasks \ (S \cup {t}) : h.tcb[u] = s.tcb[u]
       /\ \A u \in S \cup {t} : /\ h.tcb[u].state = "READY" /\ h.tcb[u].wercd = "E_OK"
                                /\ h.tcb[u].cnt = s.tcb[u].cnt /\ h.tcb[u].priority = s.tcb[u].priority
  BY <1>1, <1>6 DEF Part, Freed
<1> HIDE DEF S
<1> QED BY <1>3, <1>4, <1>5, <1>7, <1>10, <1>11, <1>12, Zenon DEF Part, S

\* After i turns over queue q.  TA_CNT: whoever was not served cannot be.
\* TA_FIRST: the first m were served and the queue starts with the next one.
Any(s, o, q, f, i) ==
  \A j \in 1 .. i : q[j] \in Took(s, f, o) \/ f.gcb[o].semcnt < s.tcb[q[j]].cnt

Prefix(s, o, q, f, m) ==
  LET r == f.gcb[o].wait_queue
  IN  /\ Took(s, f, o) = {q[j] : j \in 1 .. m}
      /\ Len(r) = Len(q) - m
      /\ \A j \in 1 .. Len(q) - m : r[j] = q[j + m]

Loop(s, o, q, a, i) ==
  /\ a = [s |-> a.s, stop |-> a.stop] /\ a.stop \in BOOLEAN
  /\ Part(s, a.s, o)
  /\ s.gcb[o].cnt => /\ ~a.stop /\ Any(s, o, q, a.s, i)
                     /\ Took(s, a.s, o) \subseteq {q[j] : j \in 1 .. i}
  /\ ~s.gcb[o].cnt => \E m \in 0 .. i :
       /\ Prefix(s, o, q, a.s, m)
       /\ a.stop => m < i /\ a.s.gcb[o].semcnt < s.tcb[q[m + 1]].cnt
       /\ ~a.stop => m = i

\* Taking the first element out of a queue.
LEMMA QueRemoveFirst ==
  ASSUME NEW S, NEW q \in Seq(S), NEW e, q # << >>, q[1] = e, Injective(q)
  PROVE  LET r == QueRemove(q, e)
         IN  Len(r) = Len(q) - 1 /\ \A j \in 1 .. Len(q) - 1 : r[j] = q[j + 1]
<1> DEFINE i == CHOOSE j \in DOMAIN q : q[j] = e
<1>1. Len(q) \in Nat /\ DOMAIN q = 1 .. Len(q) /\ 1 \in DOMAIN q
  OBVIOUS
<1>2. i = 1
  BY <1>1 DEF Injective
<1> HIDE DEF i
<1>3. QueRemove(q, e) = [j \in 1 .. Len(q) - 1 |-> IF j < i THEN q[j] ELSE q[j + 1]]
  BY <1>1, Zenon DEF QueRemove, Elems, i
<1>4. QueRemove(q, e) = [j \in 1 .. Len(q) - 1 |-> q[j + 1]]
  BY <1>1, <1>2, <1>3
<1> QED BY <1>1, <1>4

\* A turn of the loop.
LEMMA LoopTurn ==
  ASSUME NEW s \in Sem!Kernel, Exact(s), NEW o \in Objects, NEW q, q = s.gcb[o].wait_queue,
         NEW i \in Nat, i < Len(q), NEW a, Loop(s, o, q, a, i)
  PROVE  Loop(s, o, q, Sem!ServeOne(a, q[i + 1]), i + 1)
<1> DEFINE t == q[i + 1]
           f == a.s
           n == s.tcb[t].cnt
           h == [Sem!knl_wait_release_ok(f, t) EXCEPT !.gcb[o].semcnt = @ - f.tcb[t].cnt]
           b == Sem!ServeOne(a, t)
           Q(m) == {q[j] : j \in 1 .. m}
<1> SUFFICES Loop(s, o, q, b, i + 1)
  OBVIOUS
<1>1. /\ q \in Seq(Tasks) /\ Injective(q) /\ Elems(q) = Line(s, o) /\ Len(q) \in Nat
      /\ DOMAIN q = 1 .. Len(q)
  BY DEF Exact, QueueIn
<1>2. t \in Tasks /\ t \in Line(s, o) /\ s.tcb[t].wid = o /\ s.tcb[t].state = "WAIT"
  BY <1>1 DEF Elems, Line
<1>3. /\ f \in Sem!Kernel /\ Exact(f) /\ Created(s, f, o) /\ Part(s, f, o)
      /\ a = [s |-> f, stop |-> a.stop] /\ a.stop \in BOOLEAN
  BY DEF Loop, Part
<1>4. s.gcb[o].cnt \in BOOLEAN /\ f.gcb[o].cnt = s.gcb[o].cnt
  BY <1>3, SemTypes DEF Created, Sem!SEMCB
<1>5. CASE a.stop
  <2>1. b = a
    BY <1>5 DEF Sem!ServeOne
  <2>2. ~s.gcb[o].cnt
    BY <1>5 DEF Loop
  <2>3. PICK m \in 0 .. i : /\ Prefix(s, o, q, f, m)
                            /\ m < i /\ f.gcb[o].semcnt < s.tcb[q[m + 1]].cnt
    BY <1>5, <2>2 DEF Loop
  <2>4. m \in 0 .. i + 1 /\ m < i + 1
    BY <2>3
  <2> QED BY <1>3, <1>5, <2>1, <2>2, <2>3, <2>4 DEF Loop
<1>6. ASSUME ~a.stop, t \notin Took(s, f, o)
      PROVE  /\ f.tcb[t] = s.tcb[t] /\ f.gcb[o].semcnt \in Int /\ n \in Nat
             /\ f.gcb[o].semcnt < n => b = [s |-> f, stop |-> ~f.gcb[o].cnt]
             /\ ~(f.gcb[o].semcnt < n)
                   => b = [s |-> h, stop |-> FALSE] /\ Freed(f, h, t, o, "E_OK", f.tcb[t].cnt)
  <2>1. f.tcb[t] = s.tcb[t]
    BY <1>2, <1>3, <1>6 DEF Part
  <2>2. f.gcb[o].semcnt \in Int /\ n \in Nat
    <3>1. f.gcb[o].semcnt \in 0 .. MaxSem /\ n \in 1 .. MaxSem
      BY <1>2, <1>3, SemTypes DEF Sem!TCB, Sem!SEMCB
    <3> HIDE DEF f, n
    <3> QED BY <3>1, SyncAssumption
  <2>3. ASSUME f.gcb[o].semcnt < n
        PROVE  b = [s |-> f, stop |-> ~f.gcb[o].cnt]
    <3>1. b = [a EXCEPT !.stop = ~f.gcb[o].cnt]
      BY <1>2, <1>6, <2>1, <2>3 DEF Sem!ServeOne
    <3> QED BY <1>3, <3>1
  <2>4. ASSUME ~(f.gcb[o].semcnt < n)
        PROVE  b = [s |-> h, stop |-> FALSE] /\ Freed(f, h, t, o, "E_OK", f.tcb[t].cnt)
    <3>1. b = [a EXCEPT !.s = h]
      BY <1>2, <1>6, <2>1, <2>4, Zenon DEF Sem!ServeOne
    <3>2. Freed(f, h, t, o, "E_OK", f.tcb[t].cnt)
      BY <1>2, <1>3, <2>1, <2>4, SemServes
    <3> HIDE DEF h
    <3> QED BY <1>3, <1>6, <3>1, <3>2
  <2> QED BY <2>1, <2>2, <2>3, <2>4
<1>9. \A j \in 1 .. i : q[j] # t
  <2>1. \A x, y \in 1 .. Len(q) : q[x] = q[y] => x = y
    BY <1>1 DEF Injective
  <2>2. \A j \in 1 .. i : j \in 1 .. Len(q) /\ j # i + 1
    BY <1>1
  <2>3. i + 1 \in 1 .. Len(q)
    BY <1>1
  <2> QED BY <2>1, <2>2, <2>3
<1> HIDE DEF h, b, t, f
<1>10. ASSUME NEW g, NEW st \in BOOLEAN, b = [s |-> g, stop |-> st]
       PROVE  b.s = g /\ b.stop = st /\ b = [s |-> b.s, stop |-> b.stop] /\ b.stop \in BOOLEAN
  BY <1>10
<1>7. CASE ~a.stop /\ s.gcb[o].cnt
  <2>1. Any(s, o, q, f, i) /\ Took(s, f, o) \subseteq Q(i)
    BY <1>7 DEF Loop, f
  <2>2. t \notin Q(i) /\ t \in Line(s, o) \ Took(s, f, o)
    BY <1>2, <1>9, <2>1
  <2>3. CASE f.gcb[o].semcnt < n
    <3>1. b = [s |-> f, stop |-> FALSE]
      BY <1>4, <1>6, <1>7, <2>1, <2>2, <2>3
    <3>2. Any(s, o, q, f, i + 1)
      BY <2>1, <2>3 DEF Any, t
    <3>3. Took(s, f, o) \subseteq Q(i + 1)
      BY <2>1
    <3>4. b.s = f /\ ~b.stop /\ b.stop \in BOOLEAN /\ b = [s |-> b.s, stop |-> b.stop]
      BY <3>1, <1>10
    <3> QED BY <1>3, <1>7, <3>4, <3>2, <3>3, Zenon DEF Loop
  <2>4. CASE ~(f.gcb[o].semcnt < n)
    <3>1. b = [s |-> h, stop |-> FALSE] /\ Freed(f, h, t, o, "E_OK", f.tcb[t].cnt)
      BY <1>6, <1>7, <2>1, <2>2, <2>4
    <3>2. Part(s, h, o) /\ Took(s, h, o) = Took(s, f, o) \cup {t}
      BY <1>2, <1>3, <2>1, <2>2, <3>1, PartMore
    <3>3. h.gcb[o].semcnt <= f.gcb[o].semcnt /\ h.gcb[o].semcnt \in Int /\ f.gcb[o].semcnt \in Int
      <4>1. h.gcb[o].semcnt = f.gcb[o].semcnt - f.tcb[t].cnt
        BY <3>1 DEF Freed
      <4>2. f.tcb[t] = s.tcb[t] /\ f.gcb[o].semcnt \in Int /\ n \in Nat
        BY <1>6, <1>7, <2>2
      <4> QED BY <4>1, <4>2
    <3>4. Any(s, o, q, h, i + 1)
      <4> SUFFICES ASSUME NEW j \in 1 .. i + 1, q[j] \notin Took(s, h, o)
                   PROVE  h.gcb[o].semcnt < s.tcb[q[j]].cnt
        BY DEF Any
      <4>1. j \in 1 .. i /\ q[j] \notin Took(s, f, o)
        BY <3>2 DEF t
      <4>2. f.gcb[o].semcnt < s.tcb[q[j]].cnt
        BY <2>1, <4>1 DEF Any
      <4>3. q[j] \in Tasks
        BY <1>1, <4>1
      <4>4. s.tcb[q[j]].cnt \in Int
        BY <4>3, SemTypes, SyncAssumption DEF Sem!TCB
      <4> QED BY <3>3, <4>2, <4>4
    <3>5. Took(s, h, o) \subseteq Q(i + 1)
      BY <2>1, <3>2 DEF t
    <3>6. b.s = h /\ ~b.stop /\ b.stop \in BOOLEAN /\ b = [s |-> b.s, stop |-> b.stop]
      BY <3>1, <1>10
    <3> QED BY <1>7, <3>2, <3>4, <3>5, <3>6, Zenon DEF Loop
  <2> QED BY <2>3, <2>4
<1>8. CASE ~a.stop /\ ~s.gcb[o].cnt
  <2>1. Prefix(s, o, q, f, i)
    BY <1>8 DEF Loop, f
  <2>2. t \in Line(s, o) \ Took(s, f, o)
    BY <1>2, <1>9, <2>1 DEF Prefix
  <2>3. CASE f.gcb[o].semcnt < n
    <3>1. b = [s |-> f, stop |-> TRUE]
      BY <1>4, <1>6, <1>8, <2>2, <2>3
    <3>2. i \in 0 .. i + 1 /\ i < i + 1
      OBVIOUS
    <3>3. b.s = f /\ b.stop /\ b.stop \in BOOLEAN /\ b = [s |-> b.s, stop |-> b.stop]
      BY <3>1, <1>10
    <3>4. f.gcb[o].semcnt < s.tcb[q[i + 1]].cnt
      BY <2>3 DEF t
    <3> QED BY <1>3, <1>8, <2>1, <3>2, <3>3, <3>4, Zenon DEF Loop
  <2>4. CASE ~(f.gcb[o].semcnt < n)
    <3>1. b = [s |-> h, stop |-> FALSE] /\ Freed(f, h, t, o, "E_OK", f.tcb[t].cnt)
      BY <1>6, <1>8, <2>2, <2>4
    <3>2. Part(s, h, o) /\ Took(s, h, o) = Took(s, f, o) \cup {t}
      BY <1>2, <1>3, <2>2, <3>1, PartMore
    <3> DEFINE r == f.gcb[o].wait_queue
               w == h.gcb[o].wait_queue
    <3>3. w = QueRemove(r, t)
      BY <3>1 DEF Freed
    <3>4. r \in Seq(Tasks) /\ Injective(r)
      BY <1>3 DEF Exact, QueueIn
    <3>5. Len(r) = Len(q) - i /\ \A j \in 1 .. Len(q) - i : r[j] = q[j + i]
      BY <2>1 DEF Prefix
    <3> HIDE DEF r, w
    <3>6. r # << >> /\ r[1] = t
      BY <1>1, <3>4, <3>5 DEF t
    <3>7. Len(w) = Len(r) - 1 /\ \A j \in 1 .. Len(r) - 1 : w[j] = r[j + 1]
      BY <3>3, <3>4, <3>6, QueRemoveFirst
    <3>8. Len(w) = Len(q) - (i + 1) /\ \A j \in 1 .. Len(q) - (i + 1) : w[j] = q[j + (i + 1)]
      BY <1>1, <3>5, <3>7
    <3>9. Took(s, h, o) = Q(i + 1)
      <4>1. Took(s, f, o) = Q(i)
        BY <2>1 DEF Prefix
      <4>2. \A j : j \in 1 .. i + 1 <=> j \in 1 .. i \/ j = i + 1
        OBVIOUS
      <4>3. Q(i + 1) = Q(i) \cup {q[i + 1]}
        BY <4>2, Zenon
      <4> QED BY <3>2, <4>1, <4>3 DEF t
    <3>10. Prefix(s, o, q, h, i + 1)
      BY <3>8, <3>9 DEF Prefix, w
    <3>11. i + 1 \in 0 .. i + 1
      OBVIOUS
    <3>12. b.s = h /\ ~b.stop /\ b.stop \in BOOLEAN /\ b = [s |-> b.s, stop |-> b.stop]
      BY <3>1, <1>10
    <3> QED BY <1>8, <3>2, <3>10, <3>11, <3>12, Zenon DEF Loop
  <2> QED BY <2>3, <2>4
<1> QED BY <1>3, <1>4, <1>5, <1>7, <1>8

\* Nobody who could be served waits for semaphore o.
Idle(s, o) ==
  LET r == s.gcb[o].wait_queue
  IN  \A i \in DOMAIN r : s.gcb[o].cnt \/ i = 1 => s.gcb[o].semcnt < s.tcb[r[i]].cnt

\* Of the waiters of semaphore o nobody is served before one ahead of it.
InTurn(s, f, o) ==
  LET q == s.gcb[o].wait_queue
  IN  ~s.gcb[o].cnt => \A i, j \in DOMAIN q : i < j /\ q[j] \in Took(s, f, o) => q[i] \in Took(s, f, o)

\* The loop of tk_sig_sem and sem_chg_pri.
LEMMA ServeFacts ==
  ASSUME NEW s \in Sem!Kernel, Exact(s), NEW o \in Objects
  PROVE  LET f == Sem!Serve(s, o) IN Part(s, f, o) /\ Idle(f, o) /\ InTurn(s, f, o)
<1> DEFINE q == s.gcb[o].wait_queue
           f == Sem!Serve(s, o)
           n == Len(q)
<1> SUFFICES Part(s, f, o) /\ Idle(f, o) /\ InTurn(s, f, o)
  OBVIOUS
<1>1. /\ q \in Seq(Tasks) /\ Injective(q) /\ Elems(q) = Line(s, o) /\ Len(q) \in Nat
      /\ DOMAIN q = 1 .. Len(q)
  BY DEF Exact, QueueIn
<1> HIDE DEF f
<1>2. PICK a : /\ a[0] = [s |-> s, stop |-> FALSE]
               /\ \A i \in 1 .. n : a[i] = Sem!ServeOne(a[i - 1], q[i])
               /\ f = a[n].s
  BY <1>1, ServeTurns DEF f
<1> DEFINE B == {i \in 0 .. n : ~Loop(s, o, q, a[i], i)}
<1>3. Loop(s, o, q, a[0], 0)
  <2>1. a[0] = [s |-> a[0].s, stop |-> a[0].stop] /\ a[0].s = s /\ ~a[0].stop /\ a[0].stop \in BOOLEAN
    BY <1>2
  <2>2. Took(s, s, o) = {}
    BY DEF Took, Line
  <2>3. Sem!Asked(s, {}) = {}
    BY DEF Sem!Asked
  <2>4. IsFiniteSet(Sem!Asked(s, {})) /\ Cardinality(Sem!Asked(s, {})) = 0
    BY <2>3, FS_EmptySet
  <2>5. s.gcb[o].semcnt + 0 = s.gcb[o].semcnt
    BY SemTypes, SyncAssumption DEF Sem!SEMCB
  <2>6. Part(s, s, o)
    BY <2>2, <2>4, <2>5 DEF Part, Created, SameKind
  <2>7. Any(s, o, q, s, 0)
    BY DEF Any
  <2>8. Prefix(s, o, q, s, 0)
    BY <1>1, <2>2 DEF Prefix
  <2>9. 0 \in 0 .. 0
    OBVIOUS
  <2>10. \A A : {} \subseteq A
    OBVIOUS
  <2> HIDE DEF q
  <2> QED BY <2>1, <2>2, <2>6, <2>7, <2>8, <2>9, <2>10, Zenon DEF Loop
<1>4. B = {}
  <2> SUFFICES ASSUME B # {}
               PROVE  FALSE
    OBVIOUS
  <2>1. PICK i \in B : \A x \in B : i <= x
    BY <1>1, MinimumExists
  <2>2. i # 0 /\ i \in 1 .. n /\ i - 1 \in 0 .. n /\ i - 1 \notin B
    BY <1>1, <1>3, <2>1
  <2>3. Loop(s, o, q, a[i - 1], i - 1)
    BY <2>2
  <2>4. i - 1 \in Nat /\ i - 1 < Len(q) /\ (i - 1) + 1 = i
    BY <1>1, <2>2
  <2>5. Loop(s, o, q, Sem!ServeOne(a[i - 1], q[(i - 1) + 1]), (i - 1) + 1)
    BY <2>3, <2>4, LoopTurn
  <2>6. Loop(s, o, q, a[i], i)
    BY <1>2, <2>2, <2>4, <2>5
  <2> QED BY <2>1, <2>6
<1>5. Loop(s, o, q, a[n], n)
  BY <1>1, <1>4
<1>6. Part(s, f, o)
  BY <1>2, <1>5 DEF Loop
<1> DEFINE r == f.gcb[o].wait_queue
<1>7. /\ r \in Seq(Tasks) /\ Elems(r) = Line(f, o) /\ f.gcb[o].cnt = s.gcb[o].cnt
      /\ DOMAIN r = 1 .. Len(r) /\ Len(r) \in Nat
  BY <1>6 DEF Part, Exact, QueueIn, Created
<1>8. ASSUME NEW i \in DOMAIN r
      PROVE  r[i] \notin Took(s, f, o) /\ f.tcb[r[i]] = s.tcb[r[i]] /\ r[i] \in Elems(q)
  <2>1. r[i] \in Tasks /\ f.tcb[r[i]].state = "WAIT" /\ f.tcb[r[i]].wid = o
    BY <1>7 DEF Elems, Line
  <2>2. r[i] \notin Took(s, f, o)
    BY <2>1 DEF Took
  <2>3. f.tcb[r[i]] = s.tcb[r[i]]
    BY <1>6, <2>1, <2>2 DEF Part
  <2> QED BY <1>1, <2>1, <2>2, <2>3 DEF Line
<1>9. CASE s.gcb[o].cnt
  <2>1. Any(s, o, q, f, n)
    BY <1>2, <1>5, <1>9 DEF Loop
  <2>2. ASSUME NEW i \in DOMAIN r
        PROVE  f.gcb[o].semcnt < f.tcb[r[i]].cnt
    <3>1. PICK j \in 1 .. n : q[j] = r[i]
      BY <1>1, <1>8 DEF Elems
    <3> QED BY <1>8, <2>1, <3>1 DEF Any
  <2> QED BY <1>6, <1>9, <2>2 DEF Idle, InTurn
<1>10. CASE ~s.gcb[o].cnt
  <2>1. PICK m \in 0 .. n : /\ Prefix(s, o, q, f, m)
                            /\ m # n => f.gcb[o].semcnt < s.tcb[q[m + 1]].cnt
    <3>1. PICK m \in 0 .. n : /\ Prefix(s, o, q, a[n].s, m)
                              /\ a[n].stop => m < n /\ a[n].s.gcb[o].semcnt < s.tcb[q[m + 1]].cnt
                              /\ ~a[n].stop => m = n
      BY <1>5, <1>10 DEF Loop
    <3>2. a[n].stop \in BOOLEAN
      BY <1>5 DEF Loop
    <3> QED BY <1>2, <3>1, <3>2
  <2>2. ASSUME NEW i \in DOMAIN r, f.gcb[o].cnt \/ i = 1
        PROVE  f.gcb[o].semcnt < f.tcb[r[i]].cnt
    <3>1. i = 1
      BY <1>7, <1>10, <2>2
    <3>2. Len(r) = n - m /\ \A j \in 1 .. n - m : r[j] = q[j + m]
      BY <2>1 DEF Prefix
    <3>3. m # n /\ r[1] = q[m + 1]
      BY <1>1, <1>7, <2>1, <2>2, <3>1, <3>2
    <3> QED BY <1>8, <2>1, <2>2, <3>1, <3>3
  <2>3. InTurn(s, f, o)
    <3>1. Took(s, f, o) = {q[j] : j \in 1 .. m}
      BY <2>1 DEF Prefix
    <3>2. ASSUME NEW i \in DOMAIN q, NEW j \in DOMAIN q, i < j, q[j] \in Took(s, f, o)
          PROVE  q[i] \in Took(s, f, o)
      <4>1. PICK l \in 1 .. m : q[l] = q[j]
        BY <3>1, <3>2
      <4>2. l = j
        BY <1>1, <2>1, <4>1 DEF Injective
      <4> QED BY <1>1, <2>1, <3>1, <3>2, <4>2
    <3> QED BY <3>2 DEF InTurn
  <2>4. Idle(f, o)
    BY <2>2 DEF Idle
  <2> QED BY <1>6, <2>3, <2>4
<1> QED BY <1>9, <1>10

\* The count of semaphore o is within its limit and nobody waits in vain.
Sound(s, o) ==
  s.gcb[o].objid => s.gcb[o].semcnt <= s.gcb[o].maxsem /\ Idle(s, o)

SemInv(s) == s \in Sem!Kernel /\ Exact(s) /\ \A o \in Objects : Sound(s, o)

\* The tasks that a step from s to f serves.
ServedIn(s, f, o) == {t \in Line(s, o) : f.tcb[t].state = "READY" /\ f.tcb[t].wercd = "E_OK"}

\* The step takes from semaphore o just what it hands to them.
Balanced(s, f, o) ==
  s.gcb[o].objid /\ f.gcb[o].objid
    => f.gcb[o].semcnt - s.gcb[o].semcnt + Cardinality(Sem!Asked(s, ServedIn(s, f, o))) = 0

\* Nobody is served before a task ahead of it.
Orderly(s, f, o) ==
  LET q == s.gcb[o].wait_queue
  IN  s.gcb[o].objid /\ ~s.gcb[o].cnt
        => \A i, j \in DOMAIN q : i < j /\ q[j] \in ServedIn(s, f, o) => f.tcb[q[i]].state # "WAIT"

\* Semaphore p and those who wait for it have no part in the step.
Apart(s, f, p) ==
  /\ f.gcb[p] = s.gcb[p]
  /\ \A u \in Line(s, p) : f.tcb[u].state = "WAIT" /\ f.tcb[u].wid = p /\ f.tcb[u].cnt = s.tcb[u].cnt

\* Nobody is served.
LEMMA NobodyServed ==
  ASSUME NEW s \in Sem!Kernel, NEW f, NEW o \in Objects, ServedIn(s, f, o) = {},
         f.gcb[o].objid => f.gcb[o].semcnt = s.gcb[o].semcnt
  PROVE  Balanced(s, f, o) /\ Orderly(s, f, o)
<1>1. Sem!Asked(s, {}) = {}
  BY DEF Sem!Asked
<1>2. Cardinality(Sem!Asked(s, {})) = 0
  BY <1>1, FS_EmptySet
<1>3. s.gcb[o].semcnt \in Int
  BY SemTypes, SyncAssumption DEF Sem!SEMCB
<1>4. Balanced(s, f, o)
  BY <1>2, <1>3 DEF Balanced
<1>5. Orderly(s, f, o)
  BY DEF Orderly
<1> QED BY <1>4, <1>5

\* That is so of a semaphore apart.
LEMMA ApartKeeps ==
  ASSUME NEW s, SemInv(s), NEW f, NEW p \in Objects, Apart(s, f, p)
  PROVE  Sound(f, p) /\ Balanced(s, f, p) /\ Orderly(s, f, p)
<1>1. s \in Sem!Kernel /\ Exact(s) /\ Sound(s, p)
  BY DEF SemInv
<1>2. f.gcb[p] = s.gcb[p] /\ ServedIn(s, f, p) = {}
  BY DEF Apart, ServedIn
<1>3. Sound(f, p)
  <2> DEFINE r == s.gcb[p].wait_queue
  <2>1. \A i \in DOMAIN r : f.tcb[r[i]].cnt = s.tcb[r[i]].cnt
    BY <1>1 DEF Apart, Exact, QueueIn, Elems
  <2> HIDE DEF r
  <2> QED BY <1>1, <1>2, <2>1 DEF Sound, Idle, r
<1> QED BY <1>1, <1>2, <1>3, NobodyServed

\* What a loop over the queue of semaphore o leaves of the rest.
LEMMA PartApart ==
  ASSUME NEW s, NEW f, NEW o \in Objects, Part(s, f, o), NEW p \in Objects \ {o}
  PROVE  Apart(s, f, p)
<1>1. \A u \in Line(s, p) : u \in Tasks /\ u \notin Took(s, f, o)
  BY DEF Line, Took
<1> QED BY <1>1 DEF Part, Apart, Line

\* A semaphore apart from two steps is apart from both together.
LEMMA ApartTwice ==
  ASSUME NEW s, NEW r, NEW f, NEW p \in Objects, Apart(s, r, p), Apart(r, f, p)
  PROVE  Apart(s, f, p)
<1>1. \A u \in Line(s, p) : u \in Line(r, p)
  BY DEF Apart, Line
<1> QED BY <1>1 DEF Apart

\* The order of those who stay in a queue does not change.
Earlier(q, x, y) == \E i, j \in DOMAIN q : i < j /\ q[i] = x /\ q[j] = y

\* Unlinking e does not reorder the others.
LEMMA QueRemoveEarlier ==
  ASSUME NEW S, NEW q \in Seq(S), Injective(q), NEW e, NEW x, NEW y, Earlier(q, x, y), x # e, y # e
  PROVE  Earlier(QueRemove(q, e), x, y)
<1>1. CASE e \notin Elems(q)
  BY <1>1, NotIn
<1>2. CASE e \in Elems(q)
  <2> DEFINE m == CHOOSE j \in DOMAIN q : q[j] = e
             r == QueRemove(q, e)
             g(j) == IF j < m THEN j ELSE j - 1
  <2>1. Len(q) \in Nat /\ DOMAIN q = 1 .. Len(q) /\ m \in DOMAIN q /\ q[m] = e
    BY <1>2 DEF Elems
  <2>2. r = [j \in 1 .. Len(q) - 1 |-> IF j < m THEN q[j] ELSE q[j + 1]]
    BY <1>2, Zenon DEF QueRemove
  <2> HIDE DEF m, r
  <2>3. PICK i, j \in DOMAIN q : i < j /\ q[i] = x /\ q[j] = y
    BY DEF Earlier
  <2>4. i # m /\ j # m
    BY <2>1, <2>3
  <2>5. \A l \in DOMAIN q : l # m => g(l) \in DOMAIN r /\ r[g(l)] = q[l]
    BY <2>1, <2>2
  <2>6. g(i) < g(j)
    BY <2>1, <2>3, <2>4
  <2> HIDE DEF g
  <2> QED BY <2>3, <2>4, <2>5, <2>6 DEF Earlier, r
<1> QED BY <1>1, <1>2

\* Neither does linking e by priority.
LEMMA TpriEarlier ==
  ASSUME NEW S, NEW q \in Seq(S), NEW pri \in [S -> Int], NEW e \in S,
         NEW x, NEW y, Earlier(q, x, y)
  PROVE  Earlier(knl_queue_insert_tpri(q, e, pri), x, y)
<1> DEFINE m == TpriPosition(q, pri, pri[e])
           r == knl_queue_insert_tpri(q, e, pri)
           g(j) == IF j < m THEN j ELSE j + 1
<1>1. Len(q) \in Nat /\ DOMAIN q = 1 .. Len(q) /\ m \in 1 .. Len(q) + 1
  BY TpriPositionFacts
<1>2. r = [j \in 1 .. Len(q) + 1 |-> IF j < m THEN q[j] ELSE IF j = m THEN e ELSE q[j - 1]]
  BY Zenon DEF knl_queue_insert_tpri, InsertBefore
<1> HIDE DEF m, r
<1>3. PICK i, j \in DOMAIN q : i < j /\ q[i] = x /\ q[j] = y
  BY DEF Earlier
<1>4. \A l \in DOMAIN q : g(l) \in DOMAIN r /\ r[g(l)] = q[l]
  BY <1>1, <1>2
<1>5. g(i) < g(j)
  BY <1>1, <1>3
<1> HIDE DEF g
<1> QED BY <1>3, <1>4, <1>5 DEF Earlier, r

\* Something happened to semaphore o that left its waiters, or some of them,
\* and the loop over its queue follows.
Before(s, r, o) ==
  /\ r \in Sem!Kernel /\ Exact(r) /\ Created(s, r, o)
  /\ \A p \in Objects \ {o} : Apart(s, r, p)
  /\ \A u \in Tasks : r.tcb[u].cnt = s.tcb[u].cnt
  /\ Line(r, o) \subseteq Line(s, o)
  /\ \A u \in Line(s, o) \ Line(r, o) : r.tcb[u].state # "WAIT" /\ r.tcb[u].wercd # "E_OK"
  /\ r.gcb[o].objid => r.gcb[o].semcnt <= r.gcb[o].maxsem

\* The loop then leaves all semaphores in order and takes from o what it hands out.
LEMMA ServeAfter ==
  ASSUME NEW s, SemInv(s), NEW o \in Objects, NEW r, Before(s, r, o)
  PROVE  LET f == Sem!Serve(r, o)
         IN  /\ SemInv(f) /\ Part(r, f, o) /\ InTurn(r, f, o)
             /\ \A p \in Objects \ {o} : Balanced(s, f, p) /\ Orderly(s, f, p)
             /\ ServedIn(s, f, o) = Took(r, f, o)
             /\ f.gcb[o].semcnt - r.gcb[o].semcnt + Cardinality(Sem!Asked(s, ServedIn(s, f, o))) = 0
             /\ \A u \in Tasks \ Line(r, o) : f.tcb[u] = r.tcb[u]
<1> DEFINE f == Sem!Serve(r, o)
           S == Took(r, f, o)
<1>1. r \in Sem!Kernel /\ Exact(r) /\ s \in Sem!Kernel
  BY DEF Before, SemInv
<1>2. Part(r, f, o) /\ Idle(f, o) /\ InTurn(r, f, o)
  BY <1>1, ServeFacts
<1> HIDE DEF f
<1>3. f \in Sem!Kernel /\ Exact(f)
  BY <1>2 DEF Part
<1>4. \A p \in Objects \ {o} : Apart(s, f, p)
  BY <1>2, PartApart, ApartTwice DEF Before
<1>5. \A p \in Objects \ {o} : Sound(f, p) /\ Balanced(s, f, p) /\ Orderly(s, f, p)
  BY <1>4, ApartKeeps
<1>6. Cardinality(Sem!Asked(r, S)) \in Nat /\ f.gcb[o].semcnt + Cardinality(Sem!Asked(r, S)) = r.gcb[o].semcnt
  BY <1>2, FS_CardinalityType DEF Part
<1>7. /\ f.gcb[o].semcnt \in Int /\ r.gcb[o].semcnt \in Int /\ r.gcb[o].maxsem \in Int
      /\ f.gcb[o].objid = r.gcb[o].objid /\ f.gcb[o].maxsem = r.gcb[o].maxsem
  BY <1>1, <1>2, <1>3, SemTypes, SyncAssumption DEF Sem!SEMCB, Part, Created, SameKind
<1>8. Sound(f, o)
  BY <1>2, <1>6, <1>7 DEF Sound, Before
<1>9. S \in SUBSET Tasks /\ Sem!Asked(s, S) = Sem!Asked(r, S)
  <2>1. S \in SUBSET Tasks
    BY DEF Took, Line
  <2>2. \A u \in S \X (1 .. MaxSem) : s.tcb[u[1]].cnt = r.tcb[u[1]].cnt
    BY <2>1 DEF Before
  <2> HIDE DEF S
  <2> QED BY <2>1, <2>2, Zenon DEF Sem!Asked
<1>10. \A u \in Tasks \ Line(r, o) : f.tcb[u] = r.tcb[u]
  BY <1>2 DEF Part, Took
<1>11. ServedIn(s, f, o) = S
  <2>1. ASSUME NEW u \in S
        PROVE  u \in ServedIn(s, f, o)
    BY <1>2, <2>1 DEF Part, Before, ServedIn, Took
  <2>2. ASSUME NEW u \in ServedIn(s, f, o)
        PROVE  u \in S
    <3>1. u \in Tasks /\ u \in Line(s, o) /\ f.tcb[u].state = "READY" /\ f.tcb[u].wercd = "E_OK"
      BY <2>2 DEF ServedIn, Line
    <3>2. CASE u \in Line(r, o)
      BY <3>1, <3>2 DEF Took
    <3>3. CASE u \notin Line(r, o)
      <4>1. f.tcb[u] = r.tcb[u] /\ r.tcb[u].wercd # "E_OK"
        BY <1>10, <3>1, <3>3 DEF Before
      <4> QED BY <3>1, <4>1
    <3> QED BY <3>2, <3>3
  <2> QED BY <2>1, <2>2
<1> HIDE DEF S
<1>12. f.gcb[o].semcnt - r.gcb[o].semcnt + Cardinality(Sem!Asked(s, ServedIn(s, f, o))) = 0
  BY <1>6, <1>7, <1>9, <1>11
<1>13. SemInv(f)
  BY <1>3, <1>5, <1>8 DEF SemInv
<1> QED BY <1>2, <1>5, <1>10, <1>11, <1>12, <1>13, Zenon DEF f, S

\* If that kept the order of the waiters, nobody overtakes.
LEMMA ServeOrderly ==
  ASSUME NEW s, SemInv(s), NEW o \in Objects, NEW r, Before(s, r, o), NEW f, Part(r, f, o), InTurn(r, f, o),
         ServedIn(s, f, o) = Took(r, f, o), NEW x, NEW y,
         ~s.gcb[o].cnt, y \in ServedIn(s, f, o), Earlier(r.gcb[o].wait_queue, x, y)
  PROVE  f.tcb[x].state # "WAIT"
<1> DEFINE q == r.gcb[o].wait_queue
<1>1. ~r.gcb[o].cnt
  BY DEF Before, Created
<1>2. PICK i, j \in DOMAIN q : i < j /\ q[i] = x /\ q[j] = y
  BY DEF Earlier
<1>3. q[j] \in Took(r, f, o)
  BY <1>2
<1>4. q[i] \in Took(r, f, o)
  BY <1>1, <1>2, <1>3 DEF InTurn
<1> QED BY <1>2, <1>4 DEF Took

\* sem_rel_wai after the wait of task t ended without success.
LEMMA Relieved ==
  ASSUME NEW s, SemInv(s), NEW t \in Tasks, s.tcb[t].state = "WAIT", NEW e \in Sem!Error \ {"E_OK"}
  PROVE  LET f == Sem!sem_rel_wai(Sem!knl_wait_release(s, t, e), s.tcb[t].wid)
         IN  /\ SemInv(f) /\ f.tcb[t].state = "READY" /\ f.tcb[t].wercd = e
             /\ \A p \in Objects : Balanced(s, f, p) /\ Orderly(s, f, p)
<1> DEFINE o == s.tcb[t].wid
           r == Sem!knl_wait_release(s, t, e)
           f == Sem!sem_rel_wai(r, o)
           q == s.gcb[o].wait_queue
           d == r.gcb[o].wait_queue
<1> SUFFICES /\ SemInv(f) /\ f.tcb[t].state = "READY" /\ f.tcb[t].wercd = e
             /\ \A p \in Objects : Balanced(s, f, p) /\ Orderly(s, f, p)
  OBVIOUS
<1>1. s \in Sem!Kernel /\ Exact(s) /\ o \in Objects /\ \A p \in Objects : Sound(s, p)
  BY DEF SemInv, Exact
<1>2. Freed(s, r, t, o, e, 0)
  BY <1>1, SemRelease
<1>3. Exact(r)
  BY <1>1, <1>2, FreedExact
<1>4. f = IF r.gcb[o].cnt THEN r ELSE Sem!Serve(r, o)
  BY DEF Sem!sem_rel_wai
<1> HIDE DEF r, f
<1>5. /\ r \in Sem!Kernel /\ Created(s, r, o) /\ s.gcb[o].semcnt \in Int /\ r.gcb[o].semcnt = s.gcb[o].semcnt
      /\ \A u \in Tasks \ {t} : r.tcb[u] = s.tcb[u]
      /\ \A u \in Tasks : r.tcb[u].cnt = s.tcb[u].cnt
      /\ r.tcb[t].state = "READY" /\ r.tcb[t].wercd = e
      /\ d = QueRemove(q, t)
      /\ \A p \in Objects \ {o} : r.gcb[p] = s.gcb[p]
  BY <1>1, <1>2, SemTypes, SyncAssumption DEF Freed, Sem!SEMCB
<1>6. q \in Seq(Tasks) /\ Injective(q) /\ Elems(q) = Line(s, o)
  BY <1>1 DEF Exact, QueueIn
<1>7. d \in Seq(Tasks) /\ Elems(d) = Elems(q) \ {t}
  BY <1>5, <1>6, QueRemoveFacts
<1>8. \A p \in Objects \ {o} : Apart(s, r, p)
  BY <1>5 DEF Apart, Line
<1>9. Line(r, o) = Line(s, o) \ {t} /\ t \in Line(s, o)
  BY <1>5 DEF Line
<1>10. Before(s, r, o)
  BY <1>1, <1>3, <1>5, <1>8, <1>9 DEF Before, Sound, Created, SameKind
<1>11. CASE r.gcb[o].cnt
  <2>1. f = r
    BY <1>4, <1>11
  <2>2. Sound(r, o)
    <3>1. \A i \in DOMAIN d : d[i] \in Tasks /\ \E j \in DOMAIN q : q[j] = d[i]
      <4>1. \A i \in DOMAIN d : d[i] \in Elems(d) /\ d[i] \in Tasks
        BY <1>7 DEF Elems
      <4>2. \A x \in Elems(q) : \E j \in DOMAIN q : q[j] = x
        BY DEF Elems
      <4> HIDE DEF q, d
      <4> QED BY <1>7, <4>1, <4>2
    <3>2. s.gcb[o].objid => \A j \in DOMAIN q : s.gcb[o].semcnt < s.tcb[q[j]].cnt
      BY <1>1, <1>5, <1>11 DEF Sound, Idle, Created
    <3>3. s.gcb[o].objid => \A i \in DOMAIN d : r.gcb[o].semcnt < r.tcb[d[i]].cnt
      <4> HIDE DEF q, d
      <4> QED BY <1>5, <3>1, <3>2
    <3> QED BY <1>1, <1>5, <3>3 DEF Sound, Idle, Created, SameKind
  <2>3. \A p \in Objects \ {o} : Sound(r, p) /\ Balanced(s, r, p) /\ Orderly(s, r, p)
    BY <1>8, ApartKeeps
  <2>4. ServedIn(s, r, o) = {}
    BY <1>5, <1>9 DEF ServedIn, Line
  <2>5. Balanced(s, r, o) /\ Orderly(s, r, o)
    BY <1>1, <1>5, <2>4, NobodyServed
  <2>6. SemInv(r)
    BY <1>3, <1>5, <2>2, <2>3 DEF SemInv
  <2> QED BY <1>5, <2>1, <2>3, <2>5, <2>6
<1>12. CASE ~r.gcb[o].cnt
  <2>1. f = Sem!Serve(r, o)
    BY <1>4, <1>12
  <2>2. /\ SemInv(f) /\ Part(r, f, o) /\ InTurn(r, f, o)
        /\ \A p \in Objects \ {o} : Balanced(s, f, p) /\ Orderly(s, f, p)
        /\ ServedIn(s, f, o) = Took(r, f, o)
        /\ f.gcb[o].semcnt - r.gcb[o].semcnt + Cardinality(Sem!Asked(s, ServedIn(s, f, o))) = 0
        /\ \A u \in Tasks \ Line(r, o) : f.tcb[u] = r.tcb[u]
    BY <1>1, <1>10, <2>1, ServeAfter
  <2>3. f.tcb[t] = r.tcb[t]
    BY <1>9, <2>2
  <2>4. Balanced(s, f, o)
    BY <1>5, <2>2 DEF Balanced
  <2>5. ASSUME ~s.gcb[o].cnt, NEW i \in DOMAIN q, NEW j \in DOMAIN q, i < j, q[j] \in ServedIn(s, f, o)
        PROVE  f.tcb[q[i]].state # "WAIT"
    <3>1. CASE q[i] = t
      BY <1>5, <2>3, <3>1
    <3>2. CASE q[i] # t
      <4>1. q[j] # t
        BY <1>9, <2>2, <2>5 DEF Took
      <4>2. Earlier(q, q[i], q[j])
        BY <2>5 DEF Earlier
      <4>3. Earlier(d, q[i], q[j])
        <5> HIDE DEF q
        <5>1. Earlier(QueRemove(q, t), q[i], q[j])
          BY <1>6, <3>2, <4>1, <4>2, QueRemoveEarlier
        <5> QED BY <1>5, <5>1
      <4>4. Earlier(r.gcb[o].wait_queue, q[i], q[j])
        BY <4>3
      <4> HIDE DEF q, o
      <4> QED BY <1>1, <1>10, <2>2, <2>5, <4>4, ServeOrderly
    <3> QED BY <3>1, <3>2
  <2>6. Orderly(s, f, o)
    BY <2>5 DEF Orderly
  <2> QED BY <1>5, <2>2, <2>3, <2>4, <2>6
<1> QED BY <1>11, <1>12

-----------------------------------------------------------------------------

\* The semaphores count as FiniteSets does.
LEMMA SemCardinality == \A S : Sem!Cardinality(S) = Cardinality(S)
BY Zenon DEF Sem!Cardinality, Cardinality, Sem!IsFiniteSet, IsFiniteSet

\* The size of a finite set, as the objects count theirs.
Size(S) == Sem!Cardinality(S)

\* An interval has as many elements as its ends are apart.
LEMMA SizeInterval ==
  ASSUME NEW a \in Nat, NEW b \in Nat, a <= b
  PROVE  IsFiniteSet(a .. b - 1) /\ Size(a .. b - 1) = b - a
<1>1. a \in Int /\ b - 1 \in Int
  OBVIOUS
<1>2. IsFiniteSet(a .. b - 1) /\ Cardinality(a .. b - 1) = IF a > b - 1 THEN 0 ELSE (b - 1) - a + 1
  BY <1>1, FS_Interval
<1> QED BY <1>2, SemCardinality DEF Size

\* An injective sequence has as many elements as places.
LEMMA SizeElems ==
  ASSUME NEW S, NEW L \in Seq(S), Injective(L)
  PROVE  IsFiniteSet(Elems(L)) /\ Size(Elems(L)) = Len(L)
<1>1. L \in Bijection(1 .. Len(L), Elems(L))
  <2>1. L \in [1 .. Len(L) -> Elems(L)]
    BY DEF Elems
  <2>2. \A a, b \in 1 .. Len(L) : L[a] = L[b] => a = b
    BY DEF Injective
  <2>3. \A x \in Elems(L) : \E a \in 1 .. Len(L) : L[a] = x
    BY DEF Elems
  <2> QED BY <2>1, <2>2, <2>3 DEF Bijection, Injection, Surjection, IsInjective
<1>2. ExistsBijection(1 .. Len(L), Elems(L))
  BY <1>1 DEF ExistsBijection
<1>3. Len(L) \in Nat /\ IsFiniteSet(1 .. Len(L)) /\ Cardinality(1 .. Len(L)) = Len(L)
  <2>1. Len(L) \in Nat
    OBVIOUS
  <2>2. IsFiniteSet(1 .. Len(L)) /\ Cardinality(1 .. Len(L)) = IF 1 > Len(L) THEN 0 ELSE Len(L) - 1 + 1
    BY <2>1, FS_Interval
  <2> QED BY <2>1, <2>2
<1>4. IsFiniteSet(Elems(L)) /\ Cardinality(Elems(L)) = Cardinality(1 .. Len(L))
  BY <1>2, <1>3, FS_Bijection
<1> QED BY <1>3, <1>4, SemCardinality DEF Size

\* An injective sequence of numbers below n is not longer than n, and shorter
\* when it lacks one of them.
LEMMA ShortBelow ==
  ASSUME NEW S, NEW L \in Seq(S), Injective(L), NEW n \in Nat, Elems(L) \subseteq 0 .. n - 1
  PROVE  Len(L) <= n /\ \A b \in 0 .. n - 1 : b \notin Elems(L) => Len(L) < n
<1> DEFINE A == 0 .. n - 1
<1>1. IsFiniteSet(A) /\ Cardinality(A) = n
  BY SizeInterval, SemCardinality DEF Size
<1>2. Cardinality(Elems(L)) = Len(L) /\ Len(L) \in Nat
  BY SizeElems, SemCardinality DEF Size
<1>3. Elems(L) \subseteq A
  OBVIOUS
<1> HIDE DEF A
<1>4. Cardinality(Elems(L)) <= Cardinality(A) /\ (Cardinality(A) = Cardinality(Elems(L)) => Elems(L) = A)
  BY <1>1, <1>3, FS_Subset
<1>5. Len(L) <= n /\ (Len(L) = n => Elems(L) = A)
  BY <1>1, <1>2, <1>4
<1> QED BY <1>2, <1>5 DEF A

\* The properties of the runs in these terms.
LEMMA SemSteps ==
  /\ \A o : Sem!Served(o) = ServedIn(k, k', o)
  /\ (\A o \in Objects : Balanced(k, k', o)) => Sem!ConservedStep
  /\ (\A o \in Objects : Orderly(k, k', o)) => Sem!NoOvertakingStep
<1>1. \A o : Sem!Served(o) = ServedIn(k, k', o)
  BY SemQueues, Zenon DEF Sem!Served, ServedIn
<1>2. (\A o \in Objects : Balanced(k, k', o)) => Sem!ConservedStep
  <2> SUFFICES ASSUME \A o \in Objects : Balanced(k, k', o),
                      NEW p \in Objects, k.gcb[p].objid, k'.gcb[p].objid
               PROVE  k'.gcb[p].semcnt - k.gcb[p].semcnt + Cardinality(Sem!Asked(k, Sem!Served(p))) = 0
    BY SemCardinality DEF Sem!ConservedStep
  <2> QED BY <1>1, Zenon DEF Balanced
<1>3. (\A o \in Objects : Orderly(k, k', o)) => Sem!NoOvertakingStep
  BY <1>1, Zenon DEF Orderly, Sem!NoOvertakingStep
<1> QED BY <1>1, <1>2, <1>3

\* A step that changes how many resources of semaphore o there are says so.
LEMMA SemChange ==
  ASSUME NEW o \in Objects, \A p \in Objects \ {o} : Balanced(k, k', p), NEW n \in Int,
         k'.gcb[o].semcnt - k.gcb[o].semcnt + Cardinality(Sem!Asked(k, ServedIn(k, k', o))) = n,
         \/ n > 0 /\ Sem!tk_sig_sem(o, n)
         \/ n < 0 /\ \E t \in Tasks : Sem!tk_wai_sem(t, o, -n, FALSE)
  PROVE  Sem!ConservedStep
<1> SUFFICES ASSUME NEW p \in Objects, k.gcb[p].objid, k'.gcb[p].objid,
                    NEW d, d = k'.gcb[p].semcnt - k.gcb[p].semcnt + Cardinality(Sem!Asked(k, Sem!Served(p)))
             PROVE  \/ d = 0
                    \/ d > 0 /\ Sem!tk_sig_sem(p, d)
                    \/ d < 0 /\ \E t \in Tasks : Sem!tk_wai_sem(t, p, -d, FALSE)
  BY SemCardinality DEF Sem!ConservedStep
<1>1. Sem!Served(p) = ServedIn(k, k', p)
  BY SemSteps
<1>2. CASE p = o
  BY <1>1, <1>2
<1>3. CASE p # o
  <2>1. Balanced(k, k', p)
    BY <1>3
  <2>2. k'.gcb[p].semcnt - k.gcb[p].semcnt + Cardinality(Sem!Asked(k, ServedIn(k, k', p))) = 0
    BY <2>1, Zenon DEF Balanced
  <2> QED BY <1>1, <2>2
<1> QED BY <1>2, <1>3

\* A semaphore with another count.
LEMMA SemCount ==
  ASSUME NEW s \in Sem!Kernel, Exact(s), NEW o \in Objects, NEW n \in 0 .. MaxSem
  PROVE  LET f == [s EXCEPT !.gcb[o].semcnt = n]
         IN  /\ f \in Sem!Kernel /\ Exact(f) /\ f.tcb = s.tcb /\ Created(s, f, o)
             /\ f.gcb[o].semcnt = n /\ f.gcb[o].wait_queue = s.gcb[o].wait_queue
             /\ \A p \in Objects \ {o} : f.gcb[p] = s.gcb[p]
<1> DEFINE f == [s EXCEPT !.gcb[o].semcnt = n]
           g == s.gcb[o]
           c == [g EXCEPT !.semcnt = n]
<1> SUFFICES /\ f \in Sem!Kernel /\ Exact(f) /\ f.tcb = s.tcb /\ Created(s, f, o)
             /\ f.gcb[o].semcnt = n /\ f.gcb[o].wait_queue = s.gcb[o].wait_queue
             /\ \A p \in Objects \ {o} : f.gcb[p] = s.gcb[p]
  OBVIOUS
<1>1. g \in Sem!SEMCB
  BY SemTypes
<1>2. f = SetObj(s, o, c)
  BY Zenon DEF SetObj
<1> HIDE DEF f
<1>3. c \in Sem!SEMCB
  BY <1>1, Zenon DEF Sem!SEMCB
<1>4. /\ c.semcnt = n /\ c.wait_queue = g.wait_queue /\ c.objid = g.objid /\ c.tpri = g.tpri
      /\ c.cnt = g.cnt /\ c.maxsem = g.maxsem
  BY <1>1 DEF Sem!SEMCB
<1> HIDE DEF c
<1>5. f \in Sem!Kernel /\ f.gcb[o] = c /\ f.tcb = s.tcb /\ \A p \in Objects \ {o} : f.gcb[p] = s.gcb[p]
  BY <1>2, <1>3, SemObject
<1>6. Created(s, f, o) /\ f.gcb[o].semcnt = n /\ f.gcb[o].wait_queue = g.wait_queue
  BY <1>4, <1>5 DEF Created, SameKind
<1>7. \A u \in Tasks : SameTask(s, f, u)
  BY <1>5 DEF SameTask
<1>8. \A p \in Objects : SameQueue(s, f, p)
  <2>1. ASSUME NEW p \in Objects, p # o
        PROVE  SameQueue(s, f, p)
    BY <1>5, <2>1 DEF SameQueue, SameKind
  <2>2. SameQueue(s, f, o)
    BY <1>6 DEF SameQueue, Created
  <2> QED BY <2>1, <2>2
<1>9. Exact(f)
  BY <1>7, <1>8, SameExact
<1> QED BY <1>5, <1>6, <1>9

\* A task that does not wait, and goes on not waiting.
LEMMA SemQuiet ==
  ASSUME NEW s, SemInv(s), NEW t \in Tasks, s.tcb[t].state # "WAIT",
         NEW w \in Sem!TCB, w.state # "WAIT"
  PROVE  LET f == SetTask(s, t, w)
         IN  SemInv(f) /\ f.gcb = s.gcb /\ \A p \in Objects : Apart(s, f, p)
<1> DEFINE f == SetTask(s, t, w)
<1>1. s \in Sem!Kernel /\ Exact(s)
  BY DEF SemInv
<1>2. f \in Sem!Kernel /\ f.tcb[t] = w /\ f.gcb = s.gcb /\ \A u \in Tasks \ {t} : f.tcb[u] = s.tcb[u]
  BY <1>1, SemTask
<1> HIDE DEF f
<1>3. w.priority \in Int
  BY DEF Sem!TCB, Sem!Pri
<1>4. Exact(f)
  <2>1. \A u \in Tasks \ {t} : SameTask(s, f, u)
    BY <1>2 DEF SameTask
  <2>2. \A p \in Objects : SameQueue(s, f, p)
    BY <1>2 DEF SameQueue, SameKind
  <2> QED BY <1>1, <1>2, <1>3, <2>1, <2>2, QuietExact
<1>5. \A p \in Objects : Apart(s, f, p)
  BY <1>2 DEF Apart, Line
<1>6. \A p \in Objects : Sound(f, p)
  BY <1>5, ApartKeeps
<1> QED BY <1>2, <1>4, <1>5, <1>6 DEF SemInv, f

\* tk_sig_sem returns resources and serves whom it can.
LEMMA SigSem ==
  ASSUME SemInv(k), NEW o \in Objects, NEW cnt \in 1 .. MaxSem, Sem!tk_sig_sem(o, cnt)
  PROVE  SemInv(k') /\ Sem!ConservedStep /\ Sem!NoOvertakingStep
<1> DEFINE n == k.gcb[o].semcnt
           r == [k EXCEPT !.gcb[o].semcnt = n + cnt]
           q == k.gcb[o].wait_queue
<1>1. k \in Sem!Kernel /\ Exact(k) /\ Sound(k, o)
  BY DEF SemInv
<1>2. k.gcb[o].objid /\ cnt <= k.gcb[o].maxsem - n /\ k' = Sem!Serve(r, o)
  BY Zenon DEF Sem!tk_sig_sem
<1>3. n \in 0 .. MaxSem /\ k.gcb[o].maxsem \in 1 .. MaxSem
  BY <1>1, SemTypes DEF Sem!SEMCB
<1>4. n + cnt \in 0 .. MaxSem /\ n + cnt <= k.gcb[o].maxsem
  BY <1>2, <1>3, SyncAssumption
<1> HIDE DEF n
<1>5. /\ r \in Sem!Kernel /\ Exact(r) /\ r.tcb = k.tcb /\ Created(k, r, o)
      /\ r.gcb[o].semcnt = n + cnt /\ r.gcb[o].wait_queue = q
      /\ \A p \in Objects \ {o} : r.gcb[p] = k.gcb[p]
  BY <1>1, <1>4, SemCount
<1> HIDE DEF r
<1>6. Before(k, r, o)
  <2>1. \A p \in Objects \ {o} : Apart(k, r, p)
    BY <1>5 DEF Apart, Line
  <2>2. Line(r, o) = Line(k, o)
    BY <1>5 DEF Line
  <2> QED BY <1>4, <1>5, <2>1, <2>2 DEF Before, Created
<1>7. /\ SemInv(k') /\ Part(r, k', o) /\ InTurn(r, k', o)
      /\ \A p \in Objects \ {o} : Balanced(k, k', p) /\ Orderly(k, k', p)
      /\ ServedIn(k, k', o) = Took(r, k', o)
      /\ k'.gcb[o].semcnt - r.gcb[o].semcnt + Cardinality(Sem!Asked(k, ServedIn(k, k', o))) = 0
  BY <1>2, <1>6, ServeAfter
<1>8. Orderly(k, k', o)
  <2>1. ASSUME ~k.gcb[o].cnt, NEW i \in DOMAIN q, NEW j \in DOMAIN q, i < j, q[j] \in ServedIn(k, k', o)
        PROVE  k'.tcb[q[i]].state # "WAIT"
    <3>1. Earlier(r.gcb[o].wait_queue, q[i], q[j])
      BY <1>5, <2>1 DEF Earlier
    <3> HIDE DEF q
    <3> QED BY <1>6, <1>7, <2>1, <3>1, ServeOrderly
  <2> QED BY <2>1 DEF Orderly
<1>9. Sem!NoOvertakingStep
  BY <1>7, <1>8, SemSteps
<1>10. k'.gcb[o].semcnt - n + Cardinality(Sem!Asked(k, ServedIn(k, k', o))) = cnt
  <2>1. k'.gcb[o].semcnt \in Int
    BY <1>7, SemTypes, SyncAssumption DEF Sem!SEMCB, SemInv
  <2>2. Cardinality(Sem!Asked(k, ServedIn(k, k', o))) \in Int
    <3>1. r.tcb = k.tcb
      BY <1>5
    <3>2. Sem!Asked(k, Took(r, k', o)) = Sem!Asked(r, Took(r, k', o))
      BY <3>1, Zenon DEF Sem!Asked
    <3>3. IsFiniteSet(Sem!Asked(r, Took(r, k', o)))
      BY <1>7 DEF Part
    <3> QED BY <1>7, <3>2, <3>3, FS_CardinalityType
  <2> QED BY <1>3, <1>5, <1>7, <2>1, <2>2, SyncAssumption DEF n
<1>11. Sem!ConservedStep
  <2>1. cnt \in Int /\ cnt > 0
    BY SyncAssumption
  <2> QED BY <1>7, <1>10, <2>1, SemChange DEF n
<1> QED BY <1>7, <1>9, <1>11

\* Steps in which no semaphore has a part.
LEMMA SemIdleStep ==
  ASSUME SemInv(k), \A p \in Objects : Apart(k, k', p)
  PROVE  Sem!ConservedStep /\ Sem!NoOvertakingStep
BY ApartKeeps, SemSteps

\* knl_wait_release_tmout and tk_rel_wai.
LEMMA SemReleaseNg ==
  ASSUME SemInv(k), NEW t \in Tasks, NEW e \in {"E_TMOUT", "E_RLWAI"}, Sem!knl_wait_release_ng(t, e)
  PROVE  SemInv(k') /\ Sem!ConservedStep /\ Sem!NoOvertakingStep
<1>1. /\ k.tcb[t].state = "WAIT"
      /\ k' = Sem!sem_rel_wai(Sem!knl_wait_release(k, t, e), k.tcb[t].wid)
  BY Zenon DEF Sem!knl_wait_release_ng
<1>2. e \in Sem!Error \ {"E_OK"}
  BY DEF Sem!Error
<1>3. SemInv(k') /\ \A p \in Objects : Balanced(k, k', p) /\ Orderly(k, k', p)
  BY <1>1, <1>2, Relieved
<1> QED BY <1>3, SemSteps

\* tk_ter_tsk.
LEMMA SemTerminate ==
  ASSUME SemInv(k), NEW t \in Tasks, Sem!tk_ter_tsk(t)
  PROVE  SemInv(k') /\ Sem!ConservedStep /\ Sem!NoOvertakingStep
<1> DEFINE s == IF k.tcb[t].state = "WAIT"
                THEN Sem!sem_rel_wai(Sem!knl_wait_release(k, t, "E_RLWAI"), k.tcb[t].wid) ELSE k
           w == [s.tcb[t] EXCEPT !.state = "DORMANT", !.cnt = 1, !.wercd = "E_OK"]
<1>1. k.tcb[t].state # "DORMANT" /\ k' = SetTask(s, t, w)
  BY Zenon DEF Sem!tk_ter_tsk, SetTask
<1>2. /\ SemInv(s) /\ s.tcb[t].state # "WAIT"
      /\ \A p \in Objects : Balanced(k, s, p) /\ Orderly(k, s, p)
      /\ \A p \in Objects : t \notin ServedIn(k, s, p)
  <2>1. CASE k.tcb[t].state = "WAIT"
    <3>1. s = Sem!sem_rel_wai(Sem!knl_wait_release(k, t, "E_RLWAI"), k.tcb[t].wid)
      BY <2>1
    <3>2. "E_RLWAI" \in Sem!Error \ {"E_OK"}
      BY DEF Sem!Error
    <3> HIDE DEF s
    <3>3. /\ SemInv(s) /\ s.tcb[t].state = "READY" /\ s.tcb[t].wercd = "E_RLWAI"
          /\ \A p \in Objects : Balanced(k, s, p) /\ Orderly(k, s, p)
      BY <2>1, <3>1, <3>2, Relieved
    <3> QED BY <3>3 DEF ServedIn
  <2>2. CASE k.tcb[t].state # "WAIT"
    <3>1. s = k
      BY <2>2
    <3>2. \A p \in Objects : Apart(k, k, p)
      BY DEF Apart, Line
    <3>3. \A p \in Objects : t \notin ServedIn(k, k, p)
      BY <2>2 DEF ServedIn, Line
    <3> QED BY <2>2, <3>1, <3>2, <3>3, ApartKeeps
  <2> QED BY <2>1, <2>2
<1> HIDE DEF s
<1>3. s.tcb[t] \in Sem!TCB /\ s \in Sem!Kernel
  BY <1>2, SemTypes DEF SemInv
<1>4. w \in Sem!TCB
  <2>1. 1 \in 1 .. MaxSem
    BY SyncAssumption
  <2>2. "E_OK" \in Sem!Error
    BY DEF Sem!Error
  <2> QED BY <1>3, <2>1, <2>2 DEF Sem!TCB
<1>5. w.state = "DORMANT"
  BY <1>3 DEF Sem!TCB
<1> HIDE DEF w
<1>6. SemInv(k') /\ k'.gcb = s.gcb
  BY <1>1, <1>2, <1>4, <1>5, SemQuiet
<1>7. k'.tcb[t] = w /\ \A u \in Tasks \ {t} : k'.tcb[u] = s.tcb[u]
  BY <1>1, <1>3, <1>4, SemTask
<1>8. \A p \in Objects : ServedIn(k, k', p) = ServedIn(k, s, p)
  BY <1>2, <1>5, <1>7 DEF ServedIn, Line
<1>9. \A p \in Objects : Balanced(k, k', p)
  BY <1>2, <1>6, <1>8, Zenon DEF Balanced
<1>10. ASSUME NEW p \in Objects
       PROVE  Orderly(k, k', p)
  <2> DEFINE q == k.gcb[p].wait_queue
  <2>1. q \in Seq(Tasks)
    BY DEF SemInv, Exact, QueueIn
  <2>2. \A u \in Tasks : s.tcb[u].state # "WAIT" => k'.tcb[u].state # "WAIT"
    BY <1>5, <1>7
  <2>3. \A i \in DOMAIN q : q[i] \in Tasks
    BY <2>1
  <2>4. Orderly(k, s, p)
    BY <1>2
  <2> QED BY <1>8, <2>2, <2>3, <2>4 DEF Orderly
<1> QED BY <1>6, <1>9, <1>10, SemSteps

\* tk_sta_tsk.
LEMMA SemStart ==
  ASSUME SemInv(k), NEW t \in Tasks, Sem!tk_sta_tsk(t)
  PROVE  SemInv(k') /\ Sem!ConservedStep /\ Sem!NoOvertakingStep
<1> DEFINE w == [k.tcb[t] EXCEPT !.state = "READY"]
<1>1. k.tcb[t].state = "DORMANT" /\ k' = SetTask(k, t, w)
  BY Zenon DEF Sem!tk_sta_tsk, SetTask
<1>2. k.tcb[t] \in Sem!TCB
  BY SemTypes DEF SemInv
<1>3. w \in Sem!TCB
  BY <1>2, Zenon DEF Sem!TCB
<1>4. w.state = "READY"
  BY <1>2 DEF Sem!TCB
<1> HIDE DEF w
<1>5. SemInv(k') /\ \A p \in Objects : Apart(k, k', p)
  BY <1>1, <1>3, <1>4, SemQuiet
<1> QED BY <1>5, SemIdleStep

\* tk_cre_sem.
LEMMA CreSem ==
  ASSUME SemInv(k), NEW o \in Objects, NEW tpri \in BOOLEAN, NEW cnt \in BOOLEAN,
         NEW i \in 0 .. MaxSem, NEW m \in 1 .. MaxSem, Sem!tk_cre_sem(o, tpri, cnt, i, m)
  PROVE  SemInv(k') /\ Sem!ConservedStep /\ Sem!NoOvertakingStep
<1> DEFINE c == [objid |-> TRUE, tpri |-> tpri, cnt |-> cnt, semcnt |-> i, maxsem |-> m, wait_queue |-> << >>]
<1>1. ~k.gcb[o].objid /\ i <= m /\ k' = SetObj(k, o, c)
  BY Zenon DEF Sem!tk_cre_sem, SetObj
<1>2. k \in Sem!Kernel /\ Exact(k)
  BY DEF SemInv
<1>3. << >> \in Seq(Tasks)
  OBVIOUS
<1>4. c \in Sem!SEMCB
  BY <1>3, Zenon DEF Sem!SEMCB
<1>5. c.wait_queue = << >> /\ c.semcnt = i /\ c.maxsem = m
  OBVIOUS
<1> HIDE DEF c
<1>6. k' \in Sem!Kernel /\ k'.gcb[o] = c /\ k'.tcb = k.tcb /\ \A p \in Objects \ {o} : k'.gcb[p] = k.gcb[p]
  BY <1>1, <1>2, <1>4, SemObject
<1>7. Line(k, o) = {}
  BY <1>1, <1>2 DEF Exact, QueueIn, Elems
<1>8. Exact(k')
  <2>1. \A u \in Tasks : SameTask(k, k', u)
    BY <1>6 DEF SameTask
  <2>2. \A p \in Objects \ {o} : SameQueue(k, k', p)
    BY <1>6 DEF SameQueue, SameKind
  <2> QED BY <1>2, <1>5, <1>6, <1>7, <2>1, <2>2, EmptyExact
<1>9. \A p \in Objects \ {o} : Apart(k, k', p)
  BY <1>6 DEF Apart, Line
<1>10. \A p \in Objects \ {o} : Sound(k', p) /\ Balanced(k, k', p) /\ Orderly(k, k', p)
  BY <1>9, ApartKeeps
<1>11. Sound(k', o)
  BY <1>1, <1>5, <1>6 DEF Sound, Idle
<1>12. Balanced(k, k', o) /\ Orderly(k, k', o)
  BY <1>1 DEF Balanced, Orderly
<1>13. SemInv(k')
  BY <1>6, <1>8, <1>10, <1>11 DEF SemInv
<1> QED BY <1>10, <1>12, <1>13, SemSteps

\* tk_del_sem: the waiters return E_DLT.
LEMMA DelSem ==
  ASSUME SemInv(k), NEW o \in Objects, Sem!tk_del_sem(o)
  PROVE  SemInv(k') /\ Sem!ConservedStep /\ Sem!NoOvertakingStep
<1> DEFINE g == k.gcb[o]
           e == [g EXCEPT !.wait_queue = << >>]
           c == [e EXCEPT !.objid = FALSE, !.semcnt = 0, !.maxsem = 1]
           T == [t \in Tasks |-> IF t \in Elems(g.wait_queue)
                                 THEN [k.tcb[t] EXCEPT !.state = "READY", !.wercd = "E_DLT"] ELSE k.tcb[t]]
           G == [k.gcb EXCEPT ![o] = c]
<1>1. k \in Sem!Kernel /\ Exact(k) /\ g \in Sem!SEMCB /\ 1 \in 1 .. MaxSem
  <2>1. k \in Sem!Kernel /\ Exact(k) /\ g \in Sem!SEMCB
    BY SemTypes DEF SemInv
  <2>2. g.maxsem \in 1 .. MaxSem
    BY <2>1 DEF Sem!SEMCB
  <2> QED BY <2>1, <2>2, SyncAssumption
<1>2. k' = [tcb |-> T, gcb |-> G]
  <2>1. k' = [Sem!knl_wait_delete(k, o) EXCEPT !.gcb[o] = [@ EXCEPT !.objid = FALSE, !.semcnt = 0, !.maxsem = 1]]
    BY Zenon DEF Sem!tk_del_sem
  <2>2. Sem!knl_wait_delete(k, o) = [k EXCEPT !.gcb[o].wait_queue = << >>, !.tcb = T]
    BY SemQueues, Zenon DEF Sem!knl_wait_delete
  <2>3. k = [tcb |-> k.tcb, gcb |-> k.gcb] /\ k.gcb \in [Objects -> Sem!SEMCB]
    BY <1>1 DEF Sem!Kernel
  <2> DEFINE H == [k.gcb EXCEPT ![o] = e]
  <2>4. Sem!knl_wait_delete(k, o) = [tcb |-> T, gcb |-> H]
    <3> HIDE DEF T, e
    <3>1. [k EXCEPT !.gcb[o].wait_queue = << >>, !.tcb = T] = [k EXCEPT !.gcb = H, !.tcb = T]
      BY Zenon DEF e
    <3> HIDE DEF H
    <3> QED BY <2>2, <2>3, <3>1
  <2>5. k' = [tcb |-> T, gcb |-> [H EXCEPT ![o] = [H[o] EXCEPT !.objid = FALSE, !.semcnt = 0, !.maxsem = 1]]]
    <3> HIDE DEF T, H
    <3> DEFINE Z == Sem!knl_wait_delete(k, o)
    <3>1. Z.gcb = H /\ Z = [tcb |-> T, gcb |-> H]
      BY <2>4
    <3> HIDE DEF Z
    <3> DEFINE Y == [Z.gcb EXCEPT ![o] = [@ EXCEPT !.objid = FALSE, !.semcnt = 0, !.maxsem = 1]]
    <3>2. k' = [Z EXCEPT !.gcb = Y]
      BY <2>1, Zenon DEF Z
    <3>3. Y = [H EXCEPT ![o] = [H[o] EXCEPT !.objid = FALSE, !.semcnt = 0, !.maxsem = 1]]
      BY <3>1
    <3> HIDE DEF Y
    <3> QED BY <3>1, <3>2, <3>3
  <2>6. H[o] = e
    BY <2>3
  <2>7. [H EXCEPT ![o] = c] = G
    <3> HIDE DEF c, e
    <3> QED BY <2>3
  <2> HIDE DEF T, H, G, e
  <2> QED BY <2>5, <2>6, <2>7
<1>3. c \in Sem!SEMCB /\ c.wait_queue = << >> /\ ~c.objid
  <2>1. << >> \in Seq(Tasks) /\ 0 \in 0 .. MaxSem
    BY SyncAssumption
  <2>2. e \in Sem!SEMCB
    BY <1>1, <2>1, Zenon DEF Sem!SEMCB
  <2>3. e.wait_queue = << >>
    BY <1>1 DEF Sem!SEMCB
  <2> HIDE DEF e
  <2>4. c \in Sem!SEMCB
    BY <1>1, <2>1, <2>2, Zenon DEF Sem!SEMCB
  <2>5. c.wait_queue = << >> /\ ~c.objid
    BY <2>2, <2>3 DEF Sem!SEMCB
  <2> QED BY <2>4, <2>5
<1>4. Elems(g.wait_queue) = Line(k, o)
  BY <1>1 DEF Exact, QueueIn
<1>5. ASSUME NEW t \in Tasks
      PROVE  /\ T[t] \in Sem!TCB
             /\ t \in Line(k, o) => /\ T[t].state = "READY" /\ T[t].wercd = "E_DLT"
                                    /\ T[t].priority = k.tcb[t].priority
             /\ t \notin Line(k, o) => T[t] = k.tcb[t]
  <2> DEFINE w == k.tcb[t]
             v == [w EXCEPT !.state = "READY", !.wercd = "E_DLT"]
  <2>1. w \in Sem!TCB
    BY <1>1, SemTypes
  <2>2. v \in Sem!TCB
    BY <2>1, Zenon DEF Sem!TCB, Sem!Error
  <2>3. v.state = "READY" /\ v.wercd = "E_DLT" /\ v.priority = w.priority
    BY <2>1 DEF Sem!TCB
  <2>4. T[t] = IF t \in Line(k, o) THEN v ELSE w
    BY <1>4
  <2> HIDE DEF T, v, w
  <2> QED BY <2>1, <2>2, <2>3, <2>4 DEF w
<1> HIDE DEF c
<1>6. G \in [Objects -> Sem!SEMCB] /\ G[o] = c /\ \A p \in Objects \ {o} : G[p] = k.gcb[p]
  BY <1>1, <1>3 DEF Sem!Kernel
<1>7. T \in [Tasks -> Sem!TCB]
  <2>1. T = [t \in Tasks |-> T[t]]
    OBVIOUS
  <2> HIDE DEF T
  <2> QED BY <1>5, <2>1
<1> HIDE DEF T, G
<1>8. k'.tcb = T /\ k'.gcb = G /\ k' \in Sem!Kernel
  BY <1>2, <1>6, <1>7 DEF Sem!Kernel
<1> HIDE DEF g
<1>9. Exact(k')
  <2>1. \A u \in Tasks : IF u \in Line(k, o) THEN k'.tcb[u].state # "WAIT" /\ k'.tcb[u].priority \in Int
                         ELSE SameTask(k, k', u)
    <3>1. \A u \in Tasks : k.tcb[u].priority \in Int
      BY <1>1 DEF Exact
    <3> QED BY <1>5, <1>8, <3>1 DEF SameTask
  <2>2. \A p \in Objects \ {o} : SameQueue(k, k', p)
    BY <1>6, <1>8 DEF SameQueue, SameKind
  <2>3. k'.gcb[o].wait_queue = << >>
    BY <1>3, <1>6, <1>8
  <2> QED BY <1>1, <2>1, <2>2, <2>3, EmptyExact
<1>10. \A p \in Objects \ {o} : Apart(k, k', p)
  <2>1. \A p \in Objects \ {o} : \A u \in Line(k, p) : k'.tcb[u] = k.tcb[u]
    BY <1>5, <1>8 DEF Line
  <2> QED BY <1>6, <1>8, <2>1 DEF Apart, Line
<1>11. \A p \in Objects \ {o} : Sound(k', p) /\ Balanced(k, k', p) /\ Orderly(k, k', p)
  BY <1>10, ApartKeeps
<1>12. ServedIn(k, k', o) = {}
  BY <1>5, <1>8 DEF ServedIn, Line
<1>13. ~k'.gcb[o].objid
  BY <1>3, <1>6, <1>8
<1>14. Balanced(k, k', o) /\ Orderly(k, k', o)
  BY <1>1, <1>12, <1>13, NobodyServed
<1>15. SemInv(k')
  BY <1>8, <1>9, <1>11, <1>13 DEF SemInv, Sound
<1> QED BY <1>11, <1>14, <1>15, SemSteps

\* tk_chg_pri of a task that is in no queue by priority.
LEMMA SemRepri ==
  ASSUME SemInv(k), NEW t \in Tasks, NEW pri \in Sem!Pri, Sem!tk_chg_pri(t, pri),
         ~(k.tcb[t].state = "WAIT" /\ k.gcb[k.tcb[t].wid].tpri)
  PROVE  SemInv(k') /\ Sem!ConservedStep /\ Sem!NoOvertakingStep
<1> DEFINE v == k.tcb[t]
           w == [v EXCEPT !.priority = pri]
<1>1. k \in Sem!Kernel /\ Exact(k) /\ v \in Sem!TCB
  BY SemTypes DEF SemInv
<1>2. k' = SetTask(k, t, w)
  BY Zenon DEF Sem!tk_chg_pri, SetTask
<1>3. w \in Sem!TCB
  BY <1>1, Zenon DEF Sem!TCB
<1>4. w.state = v.state /\ w.wid = v.wid /\ w.cnt = v.cnt /\ w.priority \in Int
  BY <1>1 DEF Sem!TCB, Sem!Pri
<1> HIDE DEF w
<1>5. k' \in Sem!Kernel /\ k'.tcb[t] = w /\ k'.gcb = k.gcb /\ \A u \in Tasks \ {t} : k'.tcb[u] = k.tcb[u]
  BY <1>1, <1>2, <1>3, SemTask
<1>6. Exact(k')
  <2>1. \A u \in Tasks \ {t} : SameTask(k, k', u)
    BY <1>5 DEF SameTask
  <2>2. \A p \in Objects : SameQueue(k, k', p)
    BY <1>5 DEF SameQueue, SameKind
  <2> QED BY <1>1, <1>4, <1>5, <2>1, <2>2, RepriExact
<1>7. \A p \in Objects : Apart(k, k', p)
  BY <1>4, <1>5 DEF Apart, Line
<1>8. \A p \in Objects : Sound(k', p)
  BY <1>7, ApartKeeps
<1> QED BY <1>5, <1>6, <1>7, <1>8, SemIdleStep DEF SemInv

\* knl_gcb_change_priority: a waiter of a TA_TPRI semaphore moves.
LEMMA SemMove ==
  ASSUME SemInv(k), NEW t \in Tasks, NEW pri \in Sem!Pri,
         k.tcb[t].state = "WAIT", k.gcb[k.tcb[t].wid].tpri
  PROVE  LET o == k.tcb[t].wid
             s == [k EXCEPT !.tcb[t].priority = pri]
             r == Sem!knl_gcb_change_priority(s, t)
             q == k.gcb[o].wait_queue
         IN  /\ s.tcb[t].wid = o /\ Before(k, r, o) /\ Line(r, o) = Line(k, o)
             /\ r.gcb[o].semcnt = k.gcb[o].semcnt
             /\ \E p \in [Tasks -> Int] : r.gcb[o].wait_queue = knl_queue_insert_tpri(QueRemove(q, t), t, p)
<1> DEFINE v == k.tcb[t]
           o == v.wid
           w == [v EXCEPT !.priority = pri]
           s == [k EXCEPT !.tcb[t].priority = pri]
           r == Sem!knl_gcb_change_priority(s, t)
           g == k.gcb[o]
           q == g.wait_queue
           d == knl_queue_insert_tpri(QueRemove(q, t), t, Prios(s))
           c == [g EXCEPT !.wait_queue = d]
<1> SUFFICES /\ s.tcb[t].wid = o /\ Before(k, r, o) /\ Line(r, o) = Line(k, o)
             /\ r.gcb[o].semcnt = k.gcb[o].semcnt
             /\ \E p \in [Tasks -> Int] : r.gcb[o].wait_queue = knl_queue_insert_tpri(QueRemove(q, t), t, p)
  OBVIOUS
<1>1. k \in Sem!Kernel /\ Exact(k) /\ v \in Sem!TCB /\ o \in Objects /\ g \in Sem!SEMCB /\ Sound(k, o)
  BY SemTypes DEF SemInv, Exact
<1>2. s = SetTask(k, t, w)
  BY Zenon DEF SetTask
<1>3. w \in Sem!TCB
  BY <1>1, Zenon DEF Sem!TCB
<1>4. w.state = v.state /\ w.wid = v.wid /\ w.cnt = v.cnt /\ w.priority \in Int
  BY <1>1 DEF Sem!TCB, Sem!Pri
<1> HIDE DEF w, s
<1>5. s \in Sem!Kernel /\ s.tcb[t] = w /\ s.gcb = k.gcb /\ \A u \in Tasks \ {t} : s.tcb[u] = k.tcb[u]
  BY <1>1, <1>2, <1>3, SemTask
<1>6. s.tcb[t].wid = o /\ s.gcb[o] = g
  BY <1>4, <1>5
<1>7. r = SetObj(s, o, c)
  BY <1>6, SemQueues, Zenon DEF Sem!knl_gcb_change_priority, SetObj
<1> HIDE DEF r, v
<1>8. Prios(s) \in [Tasks -> Int]
  <2>1. ASSUME NEW u \in Tasks
        PROVE  s.tcb[u].priority \in Int
    <3>1. s.tcb[u] \in Sem!TCB
      BY <1>5, SemTypes
    <3> QED BY <3>1 DEF Sem!TCB, Sem!Pri
  <2> QED BY <2>1 DEF Prios
<1>9. d \in Seq(Tasks)
  <2>1. q \in Seq(Tasks) /\ Injective(q)
    BY <1>1 DEF Exact, QueueIn
  <2> HIDE DEF q
  <2>2. QueRemove(q, t) \in Seq(Tasks) /\ Elems(QueRemove(q, t)) = Elems(q) \ {t} /\ Injective(QueRemove(q, t))
    BY <2>1, QueRemoveFacts
  <2>3. t \notin Elems(QueRemove(q, t))
    BY <2>2
  <2> QED BY <1>8, <2>2, <2>3, TpriFacts
<1> HIDE DEF d
<1>10. c \in Sem!SEMCB
  BY <1>1, <1>9, Zenon DEF Sem!SEMCB
<1>11. /\ c.wait_queue = d /\ c.objid = g.objid /\ c.tpri = g.tpri /\ c.cnt = g.cnt
       /\ c.maxsem = g.maxsem /\ c.semcnt = g.semcnt
  BY <1>1 DEF Sem!SEMCB
<1> HIDE DEF c
<1>12. r \in Sem!Kernel /\ r.gcb[o] = c /\ r.tcb = s.tcb /\ \A p \in Objects \ {o} : r.gcb[p] = s.gcb[p]
  BY <1>1, <1>5, <1>7, <1>10, SemObject
<1> HIDE DEF o
<1>13. \A u \in Tasks : /\ r.tcb[u].cnt = k.tcb[u].cnt /\ r.tcb[u].state = k.tcb[u].state
                        /\ r.tcb[u].wid = k.tcb[u].wid
  BY <1>4, <1>5, <1>12 DEF v
<1>14. Created(k, r, o) /\ r.gcb[o].wait_queue = d /\ r.gcb[o].semcnt = k.gcb[o].semcnt
  BY <1>11, <1>12 DEF Created, SameKind, g
<1>15. Exact(r)
  <2>1. \A u \in Tasks \ {t} : SameTask(k, r, u)
    BY <1>5, <1>12 DEF SameTask
  <2>2. \A p \in Objects \ {o} : SameQueue(k, r, p)
    BY <1>5, <1>12 DEF SameQueue, SameKind
  <2>3. SameKind(k, r, o)
    BY <1>14 DEF Created
  <2>4. Prios(r) = Prios(s)
    BY <1>12 DEF Prios
  <2>5. r.gcb[o].wait_queue = knl_queue_insert_tpri(QueRemove(k.gcb[o].wait_queue, t), t, Prios(r))
    BY <1>14, <2>4, Zenon DEF d, q, g
  <2>6. r.tcb[t].state = "WAIT" /\ r.tcb[t].wid = o /\ r.tcb[t].priority \in Int /\ k.tcb[t].wid = o
    BY <1>4, <1>5, <1>12, <1>13 DEF o, v
  <2> QED BY <1>1, <2>1, <2>2, <2>3, <2>5, <2>6, MoveExact
<1>16. \A p \in Objects \ {o} : Apart(k, r, p)
  BY <1>5, <1>12, <1>13 DEF Apart, Line
<1>17. Line(r, o) = Line(k, o)
  BY <1>13 DEF Line
<1>18. Before(k, r, o)
  BY <1>1, <1>12, <1>13, <1>14, <1>15, <1>16, <1>17 DEF Before, Created, SameKind, Sound
<1>19. \E p \in [Tasks -> Int] : r.gcb[o].wait_queue = knl_queue_insert_tpri(QueRemove(q, t), t, p)
  BY <1>8, <1>14 DEF d
<1> QED BY <1>6, <1>14, <1>17, <1>18, <1>19

\* tk_chg_pri.
LEMMA SemChgPri ==
  ASSUME SemInv(k), NEW t \in Tasks, NEW pri \in Sem!Pri, Sem!tk_chg_pri(t, pri)
  PROVE  SemInv(k') /\ Sem!ConservedStep /\ Sem!NoOvertakingStep
<1> SUFFICES ASSUME k.tcb[t].state = "WAIT", k.gcb[k.tcb[t].wid].tpri
             PROVE  SemInv(k') /\ Sem!ConservedStep /\ Sem!NoOvertakingStep
  BY SemRepri
<1> DEFINE o == k.tcb[t].wid
           s == [k EXCEPT !.tcb[t].priority = pri]
           r == Sem!knl_gcb_change_priority(s, t)
           q == k.gcb[o].wait_queue
           d == r.gcb[o].wait_queue
<1>1. k \in Sem!Kernel /\ Exact(k) /\ o \in Objects /\ Sound(k, o)
  BY DEF SemInv, Exact
<1>2. /\ s.tcb[t].wid = o /\ Before(k, r, o) /\ Line(r, o) = Line(k, o)
      /\ r.gcb[o].semcnt = k.gcb[o].semcnt
      /\ \E p \in [Tasks -> Int] : d = knl_queue_insert_tpri(QueRemove(q, t), t, p)
  BY SemMove
<1>3. k' = Sem!sem_rel_wai(r, s.tcb[t].wid)
  BY Zenon DEF Sem!tk_chg_pri, Sem!sem_chg_pri
<1> HIDE DEF r, s
<1>4. k' = IF r.gcb[o].cnt THEN r ELSE Sem!Serve(r, o)
  BY <1>2, <1>3 DEF Sem!sem_rel_wai
<1>5. r \in Sem!Kernel /\ Exact(r) /\ Created(k, r, o)
  BY <1>2 DEF Before
<1>6. CASE r.gcb[o].cnt
  <2>1. k' = r
    BY <1>4, <1>6
  <2>2. \A p \in Objects \ {o} : Sound(r, p) /\ Balanced(k, r, p) /\ Orderly(k, r, p)
    BY <1>2, ApartKeeps DEF Before
  <2>3. ServedIn(k, r, o) = {}
    BY <1>2 DEF ServedIn, Line
  <2>4. Balanced(k, r, o) /\ Orderly(k, r, o)
    BY <1>1, <1>2, <2>3, NobodyServed
  <2>5. Elems(q) = Line(k, o) /\ Elems(d) = Line(k, o)
    BY <1>1, <1>2, <1>5 DEF Exact, QueueIn
  <2>6. \A i \in DOMAIN d : d[i] \in Elems(d)
    BY DEF Elems
  <2>7. \A x \in Elems(q) : x \in Tasks /\ \E j \in DOMAIN q : q[j] = x
    BY <2>5 DEF Elems, Line
  <2>8. k.gcb[o].objid => \A j \in DOMAIN q : k.gcb[o].semcnt < k.tcb[q[j]].cnt
    BY <1>1, <1>5, <1>6 DEF Sound, Idle, Created
  <2>9. \A u \in Tasks : r.tcb[u].cnt = k.tcb[u].cnt
    BY <1>2 DEF Before
  <2>10. k.gcb[o].objid => \A i \in DOMAIN d : r.gcb[o].semcnt < r.tcb[d[i]].cnt
    <3> HIDE DEF d, q
    <3> QED BY <1>2, <2>5, <2>6, <2>7, <2>8, <2>9
  <2>11. Sound(r, o)
    BY <1>1, <1>2, <1>5, <2>10 DEF Sound, Idle, Created, SameKind
  <2>12. SemInv(r)
    BY <1>5, <2>2, <2>11 DEF SemInv
  <2> QED BY <2>1, <2>2, <2>4, <2>12, SemSteps
<1>7. CASE ~r.gcb[o].cnt
  <2>1. k' = Sem!Serve(r, o)
    BY <1>4, <1>7
  <2>2. /\ SemInv(k') /\ Part(r, k', o) /\ InTurn(r, k', o)
        /\ \A p \in Objects \ {o} : Balanced(k, k', p) /\ Orderly(k, k', p)
        /\ ServedIn(k, k', o) = Took(r, k', o)
        /\ k'.gcb[o].semcnt - r.gcb[o].semcnt + Cardinality(Sem!Asked(k, ServedIn(k, k', o))) = 0
    BY <1>1, <1>2, <2>1, ServeAfter
  <2>3. Balanced(k, k', o)
    BY <1>2, <2>2 DEF Balanced
  <2>4. ASSUME NEW i \in DOMAIN q, NEW j \in DOMAIN q, i < j, q[j] \in ServedIn(k, k', o),
               t # q[i], t # q[j], ~k.gcb[o].cnt
        PROVE  k'.tcb[q[i]].state # "WAIT"
    <3>1. PICK p \in [Tasks -> Int] : d = knl_queue_insert_tpri(QueRemove(q, t), t, p)
      BY <1>2
    <3>2. Earlier(q, q[i], q[j]) /\ q \in Seq(Tasks) /\ Injective(q)
      BY <1>1, <2>4 DEF Earlier, Exact, QueueIn
    <3> HIDE DEF q, o, d
    <3>3. Earlier(QueRemove(q, t), q[i], q[j]) /\ QueRemove(q, t) \in Seq(Tasks)
      BY <2>4, <3>2, QueRemoveEarlier, QueRemoveFacts
    <3>4. Earlier(d, q[i], q[j])
      BY <3>1, <3>3, TpriEarlier
    <3>5. Earlier(r.gcb[o].wait_queue, q[i], q[j])
      BY <3>4 DEF d
    <3> QED BY <1>1, <1>2, <2>2, <2>4, <3>5, ServeOrderly
  <2>5. Sem!NoOvertakingStep
    <3> SUFFICES ASSUME NEW p \in Objects, k.gcb[p].objid, ~k.gcb[p].cnt,
                        NEW x, x = k.gcb[p].wait_queue, NEW i \in DOMAIN x, NEW j \in DOMAIN x,
                        i < j, x[j] \in ServedIn(k, k', p), t # x[i], t # x[j]
                 PROVE  k'.tcb[x[i]].state # "WAIT"
      BY SemSteps DEF Sem!NoOvertakingStep
    <3>1. CASE p = o
      BY <2>4, <3>1
    <3>2. CASE p # o
      BY <2>2, <3>2 DEF Orderly
    <3> QED BY <3>1, <3>2
  <2>6. Sem!ConservedStep
    BY <2>2, <2>3, SemSteps
  <2> QED BY <2>2, <2>5, <2>6
<1> QED BY <1>6, <1>7

\* The first of a queue by priority that e joins.
LEMMA TpriFirst ==
  ASSUME NEW S, NEW q \in Seq(S), NEW pri \in [S -> Int], NEW e \in S, q # << >>
  PROVE  knl_queue_insert_tpri(q, e, pri)[1] = IF pri[e] < pri[q[1]] THEN e ELSE q[1]
<1> DEFINE m == TpriPosition(q, pri, pri[e])
           r == knl_queue_insert_tpri(q, e, pri)
<1>1. /\ m \in 1 .. Len(q) + 1
      /\ \A j \in DOMAIN q : j < m => pri[q[j]] <= pri[e]
      /\ m \in DOMAIN q => pri[q[m]] > pri[e]
  BY TpriPositionFacts
<1>2. r = [j \in 1 .. Len(q) + 1 |-> IF j < m THEN q[j] ELSE IF j = m THEN e ELSE q[j - 1]]
  BY Zenon DEF knl_queue_insert_tpri, InsertBefore
<1> HIDE DEF m, r
<1>3. Len(q) \in Nat /\ DOMAIN q = 1 .. Len(q) /\ 1 \in DOMAIN q /\ q[1] \in S
  OBVIOUS
<1>4. pri[e] \in Int /\ pri[q[1]] \in Int
  BY <1>3
<1>5. CASE m = 1
  BY <1>1, <1>2, <1>3, <1>4, <1>5 DEF r
<1>6. CASE m # 1
  BY <1>1, <1>2, <1>3, <1>4, <1>6 DEF r
<1> QED BY <1>5, <1>6

\* tk_wai_sem gets its resources at once.
LEMMA WaiSemGets ==
  ASSUME SemInv(k), NEW t \in Tasks, NEW o \in Objects, NEW cnt \in 1 .. MaxSem, NEW pol \in BOOLEAN,
         Sem!tk_wai_sem(t, o, cnt, pol),
         k.gcb[o].cnt \/ Sem!knl_gcb_top_of_wait_queue(k, o, t) = t, k.gcb[o].semcnt >= cnt
  PROVE  SemInv(k') /\ Sem!ConservedStep /\ Sem!NoOvertakingStep
<1> DEFINE n == k.gcb[o].semcnt
           r == [k EXCEPT !.gcb[o].semcnt = n - cnt]
           v == k.tcb[t]
           w == [v EXCEPT !.wercd = "E_OK"]
<1>1. k \in Sem!Kernel /\ Exact(k) /\ v \in Sem!TCB /\ \A p \in Objects : Sound(k, p)
  BY SemTypes DEF SemInv
<1>2. v.state = "READY" /\ k.gcb[o].objid
  BY DEF Sem!tk_wai_sem
<1>3. n \in 0 .. MaxSem /\ k.gcb[o].maxsem \in 1 .. MaxSem
  BY <1>1, SemTypes DEF Sem!SEMCB
<1>4. n - cnt \in 0 .. MaxSem /\ n - cnt < n
  BY <1>3, SyncAssumption
<1>5. Sem!tk_wai_sem(t, o, cnt, FALSE)
  BY Zenon DEF Sem!tk_wai_sem
<1>6. k' = [k EXCEPT !.gcb[o].semcnt = @ - cnt, !.tcb[t].wercd = "E_OK"]
  BY Zenon DEF Sem!tk_wai_sem
<1> HIDE DEF n
<1>7. /\ r \in Sem!Kernel /\ Exact(r) /\ r.tcb = k.tcb /\ Created(k, r, o)
      /\ r.gcb[o].semcnt = n - cnt /\ r.gcb[o].wait_queue = k.gcb[o].wait_queue
      /\ \A p \in Objects \ {o} : r.gcb[p] = k.gcb[p]
  BY <1>1, <1>4, SemCount
<1>8. k' = SetTask(r, t, w)
  <2>1. k = [tcb |-> k.tcb, gcb |-> k.gcb]
    BY <1>1 DEF Sem!Kernel
  <2>2. k' = [k EXCEPT !.gcb = [k.gcb EXCEPT ![o].semcnt = n - cnt], !.tcb = [k.tcb EXCEPT ![t] = w]]
    BY <1>6, Zenon DEF n
  <2>3. SetTask(r, t, w) = [r EXCEPT !.tcb = [r.tcb EXCEPT ![t] = w]]
    BY Zenon DEF SetTask
  <2>4. r = [k EXCEPT !.gcb = [k.gcb EXCEPT ![o].semcnt = n - cnt]]
    BY Zenon
  <2> HIDE DEF r, w
  <2> QED BY <1>7, <2>1, <2>2, <2>3, <2>4
<1> HIDE DEF r
<1>9. \A p \in Objects \ {o} : Apart(k, r, p)
  BY <1>7 DEF Apart, Line
<1>10. Sound(r, o)
  <2> DEFINE q == k.gcb[o].wait_queue
  <2>1. ASSUME NEW i \in DOMAIN q, r.gcb[o].cnt \/ i = 1
        PROVE  r.gcb[o].semcnt < r.tcb[q[i]].cnt
    <3>1. n < k.tcb[q[i]].cnt
      BY <1>1, <1>2, <1>7, <2>1 DEF Sound, Idle, n, Created
    <3>2. q[i] \in Tasks
      BY <1>1 DEF Exact, QueueIn
    <3>3. k.tcb[q[i]].cnt \in Int
      BY <1>1, <3>2, SemTypes, SyncAssumption DEF Sem!TCB
    <3> QED BY <1>3, <1>4, <1>7, <3>1, <3>3, SyncAssumption
  <2>2. n <= k.gcb[o].maxsem
    BY <1>1, <1>2 DEF Sound, n
  <2>3. r.gcb[o].semcnt <= r.gcb[o].maxsem
    BY <1>3, <1>4, <1>7, <2>2, SyncAssumption DEF Created
  <2> QED BY <1>7, <2>1, <2>3 DEF Sound, Idle
<1>11. SemInv(r)
  BY <1>7, <1>9, <1>10, ApartKeeps DEF SemInv
<1>12. w \in Sem!TCB
  BY <1>1, Zenon DEF Sem!TCB, Sem!Error
<1>13. w.state = "READY"
  BY <1>1, <1>2 DEF Sem!TCB
<1> HIDE DEF w
<1>14. SemInv(k') /\ k'.gcb = r.gcb /\ \A p \in Objects : Apart(r, k', p)
  BY <1>2, <1>7, <1>8, <1>11, <1>12, <1>13, SemQuiet
<1>15. \A p \in Objects \ {o} : Apart(k, k', p)
  BY <1>9, <1>14, ApartTwice
<1>16. \A p \in Objects \ {o} : Balanced(k, k', p) /\ Orderly(k, k', p)
  BY <1>15, ApartKeeps
<1>17. ServedIn(k, k', o) = {}
  <2>1. Line(r, o) = Line(k, o)
    BY <1>7 DEF Line
  <2> QED BY <1>14, <2>1 DEF Apart, ServedIn
<1>18. Orderly(k, k', o)
  BY <1>17 DEF Orderly
<1>19. k'.gcb[o].semcnt - k.gcb[o].semcnt + Cardinality(Sem!Asked(k, ServedIn(k, k', o))) = -cnt
  <2>1. Sem!Asked(k, {}) = {}
    BY DEF Sem!Asked
  <2>2. Cardinality(Sem!Asked(k, {})) = 0
    BY <2>1, FS_EmptySet
  <2>3. k'.gcb[o].semcnt = n - cnt
    BY <1>7, <1>14
  <2> QED BY <1>3, <1>17, <2>2, <2>3, SyncAssumption DEF n
<1>20. -cnt \in Int /\ -cnt < 0 /\ -(-cnt) = cnt
  BY SyncAssumption
<1>21. \E u \in Tasks : Sem!tk_wai_sem(u, o, -(-cnt), FALSE)
  BY <1>5, <1>20
<1>22. Sem!ConservedStep
  BY <1>16, <1>19, <1>20, <1>21, SemChange
<1> QED BY <1>14, <1>16, <1>18, <1>22, SemSteps

\* tk_wai_sem puts the task into the queue.
LEMMA WaiSemWaits ==
  ASSUME SemInv(k), NEW t \in Tasks, NEW o \in Objects, NEW cnt \in 1 .. MaxSem,
         k.tcb[t].state = "READY", k.gcb[o].objid,
         ~((k.gcb[o].cnt \/ Sem!knl_gcb_top_of_wait_queue(k, o, t) = t) /\ k.gcb[o].semcnt >= cnt),
         k' = Sem!knl_gcb_make_wait([k EXCEPT !.tcb[t].cnt = cnt], t, o)
  PROVE  SemInv(k') /\ Sem!ConservedStep /\ Sem!NoOvertakingStep
<1> DEFINE v == k.tcb[t]
           x == [v EXCEPT !.cnt = cnt]
           w == [x EXCEPT !.state = "WAIT", !.wid = o, !.wercd = "E_TMOUT"]
           s == SetTask(k, t, x)
           g == k.gcb[o]
           q == g.wait_queue
           d == IF g.tpri THEN knl_queue_insert_tpri(q, t, Prios(k)) ELSE QueInsert(q, t)
           c == [g EXCEPT !.wait_queue = d]
           y == SetObj(s, o, c)
<1>1. k \in Sem!Kernel /\ Exact(k) /\ v \in Sem!TCB /\ g \in Sem!SEMCB /\ Sound(k, o)
  BY SemTypes DEF SemInv
<1>2. x \in Sem!TCB
  BY <1>1, Zenon DEF Sem!TCB
<1>3. x.cnt = cnt /\ x.priority = v.priority
  BY <1>1 DEF Sem!TCB
<1> HIDE DEF x
<1>4. s \in Sem!Kernel /\ s.tcb[t] = x /\ s.gcb = k.gcb /\ \A u \in Tasks \ {t} : s.tcb[u] = k.tcb[u]
  BY <1>1, <1>2, SemTask
<1>5. k' = Sem!knl_gcb_make_wait(s, t, o)
  BY Zenon DEF SetTask, x
<1> HIDE DEF s
<1>6. Prios(s) = Prios(k) /\ Prios(k) \in [Tasks -> Int]
  <2>1. \A u \in Tasks : s.tcb[u].priority = k.tcb[u].priority
    BY <1>3, <1>4
  <2>2. \A u \in Tasks : k.tcb[u].priority \in Int
    BY <1>1 DEF Exact
  <2> QED BY <2>1, <2>2 DEF Prios
<1>7. k' = SetTask(y, t, w)
  <2>1. s.gcb[o] = g /\ s.tcb[t] = x
    BY <1>4
  <2>2. Sem!QueueFor(s, q, t, g.tpri) = d
    BY <1>6, SemQueues, Zenon DEF Sem!QueueFor
  <2> HIDE DEF d
  <2> QED BY <1>5, <2>1, <2>2, Zenon DEF Sem!knl_gcb_make_wait, SetTask, SetObj
<1>8. q \in Seq(Tasks) /\ Injective(q) /\ Elems(q) = Line(k, o) /\ t \notin Elems(q)
  BY <1>1 DEF Exact, QueueIn, Line
<1>9. d \in Seq(Tasks) /\ Elems(d) = Elems(q) \cup {t}
  <2>1. CASE g.tpri
    <3> HIDE DEF q
    <3> QED BY <1>6, <1>8, <2>1, TpriFacts
  <2>2. CASE ~g.tpri
    <3> HIDE DEF q
    <3> QED BY <1>8, <2>2, QueInsertFacts
  <2> QED BY <2>1, <2>2
<1>10. DOMAIN d # {} => d[1] = Sem!knl_gcb_top_of_wait_queue(k, o, t)
  <2>1. CASE q = << >>
    <3>1. Sem!knl_gcb_top_of_wait_queue(k, o, t) = t
      BY <2>1 DEF Sem!knl_gcb_top_of_wait_queue
    <3>2. Elems(d) = {t}
      <4>1. Elems(q) = {}
        BY <2>1 DEF Elems
      <4> HIDE DEF d, q
      <4> QED BY <1>9, <4>1
    <3>3. DOMAIN d # {} => d[1] \in Elems(d)
      <4> HIDE DEF d
      <4> QED BY <1>9 DEF Elems
    <3> HIDE DEF d
    <3> QED BY <3>1, <3>2, <3>3
  <2>2. CASE q # << >>
    <3>1. Sem!knl_gcb_top_of_wait_queue(k, o, t)
             = IF g.tpri /\ k.tcb[t].priority < k.tcb[Head(q)].priority THEN t ELSE Head(q)
      BY <2>2 DEF Sem!knl_gcb_top_of_wait_queue
    <3>2. Head(q) = q[1] /\ q[1] \in Tasks
      BY <1>8, <2>2
    <3>3. Prios(k)[t] = k.tcb[t].priority /\ Prios(k)[q[1]] = k.tcb[q[1]].priority
      BY <3>2 DEF Prios
    <3>4. CASE g.tpri
      <4>1. d = knl_queue_insert_tpri(q, t, Prios(k))
        BY <3>4
      <4> HIDE DEF q, d, g
      <4>2. d[1] = IF Prios(k)[t] < Prios(k)[q[1]] THEN t ELSE q[1]
        BY <1>6, <1>8, <2>2, <4>1, TpriFirst
      <4> QED BY <3>1, <3>2, <3>3, <3>4, <4>2
    <3>5. CASE ~g.tpri
      <4>1. d = Append(q, t)
        BY <3>5 DEF QueInsert
      <4> HIDE DEF q, d, g
      <4>2. d[1] = q[1]
        BY <1>8, <2>2, <4>1
      <4> QED BY <3>1, <3>2, <3>5, <4>2
    <3> QED BY <3>4, <3>5
  <2> QED BY <2>1, <2>2
<1>11. c \in Sem!SEMCB
  <2> HIDE DEF d
  <2> QED BY <1>1, <1>9, Zenon DEF Sem!SEMCB
<1>12. /\ c.wait_queue = d /\ c.objid = g.objid /\ c.tpri = g.tpri /\ c.cnt = g.cnt
       /\ c.maxsem = g.maxsem /\ c.semcnt = g.semcnt /\ g.semcnt \in Int
  <2> HIDE DEF d, g
  <2>1. g.semcnt \in 0 .. MaxSem
    BY <1>1 DEF Sem!SEMCB
  <2>2. /\ c.wait_queue = d /\ c.objid = g.objid /\ c.tpri = g.tpri /\ c.cnt = g.cnt
        /\ c.maxsem = g.maxsem /\ c.semcnt = g.semcnt
    BY <1>1 DEF Sem!SEMCB
  <2> QED BY <2>1, <2>2, SyncAssumption
<1>13. w \in Sem!TCB
  BY <1>2, Zenon DEF Sem!TCB, Sem!Error
<1>14. w.state = "WAIT" /\ w.wid = o /\ w.cnt = cnt /\ w.priority = v.priority
  BY <1>2, <1>3 DEF Sem!TCB
<1> HIDE DEF c, w
<1>15. y \in Sem!Kernel /\ y.gcb[o] = c /\ y.tcb = s.tcb /\ \A p \in Objects \ {o} : y.gcb[p] = s.gcb[p]
  BY <1>4, <1>11, SemObject
<1> HIDE DEF y
<1>16. k' \in Sem!Kernel /\ k'.tcb[t] = w /\ k'.gcb = y.gcb /\ \A u \in Tasks \ {t} : k'.tcb[u] = y.tcb[u]
  <2> HIDE DEF d, q, g
  <2>1. LET f == SetTask(y, t, w)
        IN  f \in Sem!Kernel /\ f.tcb[t] = w /\ f.gcb = y.gcb /\ \A u \in Tasks \ {t} : f.tcb[u] = y.tcb[u]
    BY <1>13, <1>15, SemTask
  <2> QED BY <1>7, <2>1
<1>17. /\ \A u \in Tasks \ {t} : k'.tcb[u] = k.tcb[u]
       /\ \A p \in Objects \ {o} : k'.gcb[p] = k.gcb[p]
       /\ k'.gcb[o] = c
  BY <1>4, <1>15, <1>16
<1>18. Exact(k')
  <2>1. \A u \in Tasks \ {t} : SameTask(k, k', u)
    BY <1>17 DEF SameTask
  <2>2. \A p \in Objects \ {o} : SameQueue(k, k', p)
    BY <1>17 DEF SameQueue, SameKind
  <2>3. SameKind(k, k', o)
    BY <1>12, <1>17 DEF SameKind
  <2>4. k'.gcb[o].wait_queue = IF k.gcb[o].tpri THEN knl_queue_insert_tpri(k.gcb[o].wait_queue, t, Prios(k))
                               ELSE QueInsert(k.gcb[o].wait_queue, t)
    BY <1>12, <1>17
  <2>5. k'.tcb[t].state = "WAIT" /\ k'.tcb[t].wid = o /\ k'.tcb[t].priority = k.tcb[t].priority
    BY <1>14, <1>16
  <2> QED BY <1>1, <2>1, <2>2, <2>3, <2>4, <2>5, JoinExact
<1>19. \A p \in Objects \ {o} : Apart(k, k', p)
  BY <1>17 DEF Apart, Line
<1>20. \A p \in Objects \ {o} : Sound(k', p) /\ Balanced(k, k', p) /\ Orderly(k, k', p)
  BY <1>19, ApartKeeps
<1>21. ServedIn(k, k', o) = {}
  BY <1>14, <1>16, <1>17 DEF ServedIn, Line
<1>22. Balanced(k, k', o) /\ Orderly(k, k', o)
  BY <1>1, <1>12, <1>17, <1>21, NobodyServed
<1>23. ASSUME NEW i \in DOMAIN d, g.cnt \/ i = 1
       PROVE  g.semcnt < k'.tcb[d[i]].cnt
  <2>1. d[i] \in Elems(q) \cup {t} /\ d[i] \in Tasks /\ DOMAIN d # {}
    <3>1. d[i] \in Elems(d)
      BY DEF Elems
    <3> HIDE DEF d
    <3> QED BY <1>9, <3>1, <1>23
  <2>2. CASE d[i] = t
    <3>1. g.cnt \/ Sem!knl_gcb_top_of_wait_queue(k, o, t) = t
      <4> HIDE DEF d
      <4> QED BY <1>10, <1>23, <2>1, <2>2
    <3>2. ~(g.semcnt >= cnt)
      BY <3>1
    <3>3. k'.tcb[d[i]].cnt = cnt
      BY <1>14, <1>16, <2>2
    <3> QED BY <1>12, <3>2, <3>3, SyncAssumption
  <2>3. CASE d[i] # t
    <3>1. PICK j \in DOMAIN q : q[j] = d[i]
      BY <2>1, <2>3 DEF Elems
    <3>2. g.cnt \/ j = 1
      <4>1. CASE i = 1
        <5>1. q # << >>
          BY <3>1
        <5>2. Sem!knl_gcb_top_of_wait_queue(k, o, t) = t \/ Sem!knl_gcb_top_of_wait_queue(k, o, t) = Head(q)
          BY <5>1 DEF Sem!knl_gcb_top_of_wait_queue
        <5>3. d[1] = Head(q)
          <6> HIDE DEF d
          <6> QED BY <1>10, <2>1, <2>3, <4>1, <5>2
        <5>4. q[j] = q[1] /\ 1 \in DOMAIN q
          <6> HIDE DEF d, q
          <6> QED BY <1>8, <3>1, <4>1, <5>1, <5>3
        <5> QED BY <1>8, <5>4 DEF Injective
      <4> QED BY <4>1, <1>23
    <3>3. g.semcnt < k.tcb[q[j]].cnt
      BY <1>1, <3>1, <3>2 DEF Sound, Idle
    <3>4. k'.tcb[d[i]] = k.tcb[d[i]]
      BY <1>17, <2>1, <2>3
    <3> QED BY <3>1, <3>3, <3>4
  <2> QED BY <2>2, <2>3
<1>24. Sound(k', o)
  BY <1>1, <1>12, <1>17, <1>23 DEF Sound, Idle
<1>25. SemInv(k')
  BY <1>16, <1>18, <1>20, <1>24 DEF SemInv
<1> QED BY <1>20, <1>22, <1>25, SemSteps

\* tk_wai_sem.
LEMMA WaiSem ==
  ASSUME SemInv(k), NEW t \in Tasks, NEW o \in Objects, NEW cnt \in 1 .. MaxSem, NEW pol \in BOOLEAN,
         Sem!tk_wai_sem(t, o, cnt, pol)
  PROVE  SemInv(k') /\ Sem!ConservedStep /\ Sem!NoOvertakingStep
<1> DEFINE C == (k.gcb[o].cnt \/ Sem!knl_gcb_top_of_wait_queue(k, o, t) = t) /\ k.gcb[o].semcnt >= cnt
<1>1. k.tcb[t].state = "READY" /\ k.gcb[o].objid
  BY DEF Sem!tk_wai_sem
<1>2. CASE C
  BY <1>2, WaiSemGets
<1>3. CASE ~C /\ pol
  <2> DEFINE v == k.tcb[t]
             w == [v EXCEPT !.wercd = "E_TMOUT"]
  <2>1. k' = SetTask(k, t, w)
    BY <1>3, Zenon DEF Sem!tk_wai_sem, SetTask
  <2>2. v \in Sem!TCB
    BY SemTypes DEF SemInv
  <2>3. w \in Sem!TCB
    BY <2>2, Zenon DEF Sem!TCB, Sem!Error
  <2>4. w.state = "READY"
    BY <1>1, <2>2 DEF Sem!TCB
  <2> HIDE DEF w
  <2>5. SemInv(k') /\ \A p \in Objects : Apart(k, k', p)
    BY <1>1, <2>1, <2>3, <2>4, SemQuiet
  <2> QED BY <2>5, SemIdleStep
<1>4. CASE ~C /\ ~pol
  <2>1. k' = Sem!knl_gcb_make_wait([k EXCEPT !.tcb[t].cnt = cnt], t, o)
    BY <1>4, Zenon DEF Sem!tk_wai_sem
  <2> QED BY <1>1, <1>4, <2>1, WaiSemWaits
<1> QED BY <1>2, <1>3, <1>4

\* The initial state and every step.
LEMMA SemInit ==
  ASSUME Sem!Init
  PROVE  SemInv(k)
<1> DEFINE z == [objid |-> FALSE, tpri |-> FALSE, cnt |-> FALSE, semcnt |-> 0,
                 maxsem |-> 1, wait_queue |-> << >>]
<1>1. /\ k = [tcb |-> k.tcb, gcb |-> k.gcb]
      /\ k.tcb \in [Tasks -> [state : {"READY"}, priority : Sem!Pri, cnt : {1},
                              wid : Objects, wercd : {"E_OK"}]]
      /\ k.gcb = [o \in Objects |-> z]
  BY DEF Sem!Init
<1>2. \A o \in Objects : k.gcb[o] = z
  BY <1>1
<1>3. z \in Sem!SEMCB
  <2>1. << >> \in Seq(Tasks) /\ 0 \in 0 .. MaxSem /\ 1 \in 1 .. MaxSem
    BY SyncAssumption
  <2> QED BY <2>1, Zenon DEF Sem!SEMCB
<1>4. z.wait_queue = << >> /\ ~z.objid
  OBVIOUS
<1> HIDE DEF z
<1>5. ASSUME NEW t \in Tasks
      PROVE  k.tcb[t] \in Sem!TCB /\ k.tcb[t].state = "READY" /\ k.tcb[t].priority \in Int
  <2>1. k.tcb[t] \in [state : {"READY"}, priority : Sem!Pri, cnt : {1}, wid : Objects, wercd : {"E_OK"}]
    BY <1>1
  <2>2. 1 \in 1 .. MaxSem
    BY SyncAssumption
  <2>3. k.tcb[t] \in Sem!TCB /\ k.tcb[t].state = "READY"
    BY <2>1, <2>2 DEF Sem!TCB, Sem!Error
  <2> QED BY <2>3 DEF Sem!TCB, Sem!Pri
<1>6. k \in Sem!Kernel
  <2>1. k.tcb \in [Tasks -> Sem!TCB]
    BY <1>1, <1>5
  <2>2. k.gcb \in [Objects -> Sem!SEMCB]
    BY <1>1, <1>3
  <2> QED BY <1>1, <2>1, <2>2 DEF Sem!Kernel
<1>7. Exact(k)
  <2>1. ASSUME NEW o \in Objects
        PROVE  QueueIn(k, o)
    <3>1. Line(k, o) = {}
      BY <1>5 DEF Line
    <3>2. << >> \in Seq(Tasks) /\ Injective(<< >>) /\ Elems(<< >>) = {} /\ Sorted(<< >>, Prios(k))
      BY DEF Injective, Elems, Sorted
    <3>3. k.gcb[o].wait_queue = << >>
      BY <1>2, <1>4
    <3> QED BY <3>1, <3>2, <3>3, Zenon DEF QueueIn
  <2> QED BY <1>5, <2>1 DEF Exact
<1>8. \A o \in Objects : Sound(k, o)
  BY <1>2, <1>4 DEF Sound
<1> QED BY <1>6, <1>7, <1>8 DEF SemInv

\* Every step keeps the invariant and has both properties.
LEMMA SemStep ==
  ASSUME SemInv(k), Sem!Next
  PROVE  SemInv(k') /\ Sem!ConservedStep /\ Sem!NoOvertakingStep
<1>1. CASE \E o \in Objects : \E tpri, cnt \in BOOLEAN, i \in 0 .. MaxSem, m \in 1 .. MaxSem :
             Sem!tk_cre_sem(o, tpri, cnt, i, m)
  BY <1>1, CreSem
<1>2. CASE \E o \in Objects : Sem!tk_del_sem(o)
  BY <1>2, DelSem
<1>3. CASE \E o \in Objects : \E n \in 1 .. MaxSem : Sem!tk_sig_sem(o, n)
  BY <1>3, SigSem
<1>4. CASE \E o \in Objects : \E t \in Tasks, n \in 1 .. MaxSem, pol \in BOOLEAN : Sem!tk_wai_sem(t, o, n, pol)
  BY <1>4, WaiSem
<1>5. CASE \E t \in Tasks : \E e \in {"E_TMOUT", "E_RLWAI"} : Sem!knl_wait_release_ng(t, e)
  BY <1>5, SemReleaseNg
<1>6. CASE \E t \in Tasks : Sem!tk_ter_tsk(t)
  BY <1>6, SemTerminate
<1>7. CASE \E t \in Tasks : Sem!tk_sta_tsk(t)
  BY <1>7, SemStart
<1>8. CASE \E t \in Tasks : \E pri \in Sem!Pri : Sem!tk_chg_pri(t, pri)
  BY <1>8, SemChgPri
<1> QED BY <1>1, <1>2, <1>3, <1>4, <1>5, <1>6, <1>7, <1>8, Zenon DEF Sem!Next

\* What the runs check of a semaphore follows.
LEMMA SemMeans ==
  ASSUME SemInv(k)
  PROVE  /\ Sem!TypeOK /\ Sem!NoServableWaiter
         /\ \A o \in Objects : Sem!QueueExact(k, o, k.gcb[o].tpri)
<1>1. Sem!TypeOK
  BY DEF SemInv, Sound, Sem!TypeOK, Sem!td_lst_sem, Sem!td_ref_sem, Sem!tk_ref_sem
<1>2. Sem!NoServableWaiter
  BY DEF SemInv, Sound, Idle, Sem!NoServableWaiter, Sem!td_lst_sem, Sem!td_sem_que, Sem!tk_ref_sem
<1>3. \A o \in Objects : Sem!QueueExact(k, o, k.gcb[o].tpri)
  BY SemQueues, Zenon DEF SemInv, Exact, QueueIn, Sem!QueueExact
<1> QED BY <1>1, <1>2, <1>3

-----------------------------------------------------------------------------
(* Event flags                                                             *)

\* The queues of event flags are those of module Queue.
LEMMA FlgQueues ==
  /\ \A q : Flg!Elems(q) = Elems(q)
  /\ \A q : Flg!Injective(q) <=> Injective(q)
  /\ \A q, e : Flg!QueRemove(q, e) = QueRemove(q, e)
  /\ \A q, e : Flg!QueInsert(q, e) = QueInsert(q, e)
  /\ \A q, e, p : Flg!knl_queue_insert_tpri(q, e, p) = knl_queue_insert_tpri(q, e, p)
  /\ \A q, p : Flg!Sorted(q, p) <=> Sorted(q, p)
  /\ \A s : Flg!Priorities(s) = Prios(s)
  /\ \A s, o : Flg!Waiters(s, o) = Line(s, o)
BY Zenon DEF Flg!Elems, Elems, Flg!Injective, Injective, Flg!QueRemove, QueRemove,
             Flg!QueInsert, QueInsert, Flg!Sorted, Sorted,
             Flg!knl_queue_insert_tpri, knl_queue_insert_tpri,
             Flg!InsertBefore, InsertBefore, Flg!TpriPosition, TpriPosition,
             Flg!Priorities, Prios, Flg!Waiters, Line

\* One task, or one event flag, with another control block.
LEMMA FlgTask ==
  ASSUME NEW s \in Flg!Kernel, NEW t \in Tasks, NEW w \in Flg!TCB
  PROVE  LET f == SetTask(s, t, w)
         IN  f \in Flg!Kernel /\ f.tcb[t] = w /\ f.gcb = s.gcb /\ \A u \in Tasks \ {t} : f.tcb[u] = s.tcb[u]
<1> DEFINE T == [s.tcb EXCEPT ![t] = w]
           f == SetTask(s, t, w)
<1>1. T \in [Tasks -> Flg!TCB] /\ T[t] = w /\ \A u \in Tasks \ {t} : T[u] = s.tcb[u]
  BY DEF Flg!Kernel
<1>2. f = [s EXCEPT !.tcb = T]
  BY DEF SetTask
<1> HIDE DEF T, f
<1>3. f \in Flg!Kernel /\ f.tcb = T /\ f.gcb = s.gcb
  BY <1>1, <1>2 DEF Flg!Kernel
<1> QED BY <1>1, <1>3 DEF f

\* The rest of the state does not change with an event flag.
LEMMA FlgObject ==
  ASSUME NEW s \in Flg!Kernel, NEW o \in Objects, NEW c \in Flg!FLGCB
  PROVE  LET f == SetObj(s, o, c)
         IN  f \in Flg!Kernel /\ f.gcb[o] = c /\ f.tcb = s.tcb /\ \A p \in Objects \ {o} : f.gcb[p] = s.gcb[p]
<1> DEFINE G == [s.gcb EXCEPT ![o] = c]
           f == SetObj(s, o, c)
<1>1. G \in [Objects -> Flg!FLGCB] /\ G[o] = c /\ \A p \in Objects \ {o} : G[p] = s.gcb[p]
  BY DEF Flg!Kernel
<1>2. f = [s EXCEPT !.gcb = G]
  BY DEF SetObj
<1> HIDE DEF G, f
<1>3. f \in Flg!Kernel /\ f.gcb = G /\ f.tcb = s.tcb
  BY <1>1, <1>2 DEF Flg!Kernel
<1> QED BY <1>1, <1>3 DEF f

\* Control blocks of tasks and event flags have their types.
LEMMA FlgTypes ==
  ASSUME NEW s \in Flg!Kernel
  PROVE  /\ \A t \in Tasks : s.tcb[t] \in Flg!TCB /\ s.tcb[t].priority \in Int
         /\ \A o \in Objects : s.gcb[o] \in Flg!FLGCB
BY DEF Flg!Kernel, Flg!TCB, Flg!Pri

\* When pattern p satisfies a wait for the bits w, and what is left of it then.
Satisfied(p, w, m) == IF "ORW" \in m THEN p \cap w # {} ELSE w \subseteq p
Kept(p, w, m) == IF "CLR" \in m THEN {} ELSE IF "BITCLR" \in m THEN p \ w ELSE p

\* They are what eventflag.c computes.
LEMMA FlgConds ==
  /\ \A p, w, m : Flg!knl_eventflag_cond(p, w, m) <=> Satisfied(p, w, m)
  /\ \A p, w, m : Flg!Cleared(p, w, m) = Kept(p, w, m)
BY Zenon DEF Satisfied, Kept, Flg!knl_eventflag_cond, Flg!Cleared

\* A wait is satisfied by no smaller pattern than one that did not satisfy it.
LEMMA SatisfiedShrinks ==
  ASSUME NEW f, NEW g, g \subseteq f, NEW w, NEW m, ~Satisfied(f, w, m)
  PROVE  ~Satisfied(g, w, m)
BY DEF Satisfied

\* Nobody who waits for some bit is satisfied by none.
LEMMA SatisfiedEmpty ==
  ASSUME NEW w, w # {}, NEW m
  PROVE  ~Satisfied({}, w, m)
BY DEF Satisfied

\* A wait that ends adds no bit to the pattern.
LEMMA KeptShrinks ==
  ASSUME NEW f, NEW w, NEW m
  PROVE  Kept(f, w, m) \subseteq f
BY DEF Kept

\* Task t waits for flag o in vain.
Unmet(s, o, t) == ~Satisfied(s.gcb[o].flgptn, s.tcb[t].waiptn, s.tcb[t].wfmode)

\* Without TA_WMUL at most one task waits, for some bits, and these are not there.
FlgSound(s, o) ==
  /\ s.gcb[o].wmul \/ \A t, u \in Line(s, o) : t = u
  /\ \A t \in Line(s, o) : s.tcb[t].waiptn # {} /\ Unmet(s, o, t)

FlgInv(s) == s \in Flg!Kernel /\ Exact(s) /\ \A o \in Objects : FlgSound(s, o)

\* Task u waits as it did.
StillWaits(s, f, u) ==
  /\ f.tcb[u].state = "WAIT" /\ f.tcb[u].wid = s.tcb[u].wid
  /\ f.tcb[u].waiptn = s.tcb[u].waiptn /\ f.tcb[u].wfmode = s.tcb[u].wfmode

\* Whoever waits in f waited in s, for the same; the flag lost bits at most.
FlgLess(s, f, p) ==
  /\ f.gcb[p].wmul = s.gcb[p].wmul
  /\ f.gcb[p].flgptn \subseteq s.gcb[p].flgptn
  /\ \A u \in Line(f, p) : u \in Line(s, p) /\ StillWaits(s, f, u)

\* Such a change cannot satisfy anybody.
LEMMA FlgLessSound ==
  ASSUME NEW s, NEW f, NEW p, FlgSound(s, p), FlgLess(s, f, p)
  PROVE  FlgSound(f, p)
<1>1. ASSUME NEW u \in Line(f, p)
      PROVE  f.tcb[u].waiptn # {} /\ Unmet(f, p, u)
  <2>1. u \in Line(s, p) /\ f.tcb[u].waiptn = s.tcb[u].waiptn /\ f.tcb[u].wfmode = s.tcb[u].wfmode
    BY DEF FlgLess, StillWaits
  <2>2. s.tcb[u].waiptn # {} /\ Unmet(s, p, u)
    BY <2>1 DEF FlgSound
  <2> QED BY <2>1, <2>2, SatisfiedShrinks DEF Unmet, FlgLess
<1> QED BY <1>1 DEF FlgSound, FlgLess

\* Fresh drops what calls returned; no wait, no flag and no priority changes.
Dropped(s, f) ==
  /\ f \in Flg!Kernel /\ f.gcb = s.gcb
  /\ \A u \in Tasks : /\ SameTask(s, f, u)
                      /\ s.tcb[u].state = "WAIT" => f.tcb[u] = s.tcb[u]

\* That is what Fresh does.
LEMMA FlgFresh ==
  ASSUME NEW s \in Flg!Kernel
  PROVE  Dropped(s, Flg!Fresh(s))
<1> DEFINE W(t) == IF s.tcb[t].state = "WAIT" THEN s.tcb[t]
                   ELSE [s.tcb[t] EXCEPT !.wercd = "E_OK", !.waiptn = {}, !.wfmode = {}, !.flgptn = {}]
           T == [t \in Tasks |-> W(t)]
           f == Flg!Fresh(s)
<1>1. f = [s EXCEPT !.tcb = T]
  BY Zenon DEF Flg!Fresh
<1>2. ASSUME NEW t \in Tasks
      PROVE  /\ W(t) \in Flg!TCB
             /\ W(t).state = s.tcb[t].state /\ W(t).wid = s.tcb[t].wid /\ W(t).priority = s.tcb[t].priority
             /\ s.tcb[t].state = "WAIT" => W(t) = s.tcb[t]
  <2>1. s.tcb[t] \in Flg!TCB
    BY FlgTypes
  <2>2. {} \in SUBSET Bits /\ {} \in Modes \cup {{}} /\ "E_OK" \in Flg!Error
    BY DEF Flg!Error
  <2> DEFINE v == [s.tcb[t] EXCEPT !.wercd = "E_OK", !.waiptn = {}, !.wfmode = {}, !.flgptn = {}]
  <2>3. v \in Flg!TCB
    BY <2>1, <2>2, Zenon DEF Flg!TCB
  <2>4. v.state = s.tcb[t].state /\ v.wid = s.tcb[t].wid /\ v.priority = s.tcb[t].priority
    BY <2>1 DEF Flg!TCB
  <2> HIDE DEF v
  <2>5. W(t) = IF s.tcb[t].state = "WAIT" THEN s.tcb[t] ELSE v
    BY Zenon DEF v
  <2> HIDE DEF W
  <2> QED BY <2>1, <2>3, <2>4, <2>5
<1> HIDE DEF W, f
<1>3. T \in [Tasks -> Flg!TCB] /\ \A t \in Tasks : T[t] = W(t)
  BY <1>2
<1> HIDE DEF T
<1>4. f \in Flg!Kernel /\ f.tcb = T /\ f.gcb = s.gcb
  BY <1>1, <1>3 DEF Flg!Kernel
<1> QED BY <1>2, <1>3, <1>4 DEF Dropped, SameTask, f

\* Dropping results keeps the invariant and the waiters.
LEMMA DroppedKeeps ==
  ASSUME NEW s, FlgInv(s), NEW f, Dropped(s, f)
  PROVE  FlgInv(f) /\ \A p \in Objects : Line(f, p) = Line(s, p)
<1>1. Exact(f)
  <2>1. \A o \in Objects : SameQueue(s, f, o)
    BY DEF Dropped, SameQueue, SameKind
  <2> QED BY <2>1, SameExact DEF Dropped, FlgInv
<1>2. \A p \in Objects : Line(f, p) = Line(s, p)
  BY DEF Dropped, Line, SameTask
<1>3. \A p \in Objects : FlgLess(s, f, p)
  BY <1>2 DEF Dropped, FlgLess, StillWaits, Line
<1> QED BY <1>1, <1>2, <1>3, FlgLessSound DEF FlgInv, Dropped

\* The wait of task t for flag o ends with e, and the flag has pattern g then.
FlgFreed(s, f, t, o, e, g) ==
  /\ f \in Flg!Kernel
  /\ \A u \in Tasks \ {t} : f.tcb[u] = s.tcb[u]
  /\ f.tcb[t].state = "READY" /\ f.tcb[t].wercd = e /\ f.tcb[t].priority = s.tcb[t].priority
  /\ \A p \in Objects \ {o} : f.gcb[p] = s.gcb[p]
  /\ SameKind(s, f, o) /\ f.gcb[o].wmul = s.gcb[o].wmul
  /\ f.gcb[o].wait_queue = QueRemove(s.gcb[o].wait_queue, t)
  /\ f.gcb[o].flgptn = g

\* The queues are as the tasks say then.
LEMMA FlgFreedExact ==
  ASSUME NEW s \in Flg!Kernel, Exact(s), NEW t \in Tasks, s.tcb[t].state = "WAIT",
         NEW o, o = s.tcb[t].wid, NEW e, NEW g, NEW f, FlgFreed(s, f, t, o, e, g)
  PROVE  Exact(f)
<1>1. \A u \in Tasks \ {t} : SameTask(s, f, u)
  BY DEF SameTask, FlgFreed
<1>2. f.tcb[t].state # "WAIT" /\ f.tcb[t].priority \in Int
  BY DEF FlgFreed, Exact
<1>3. ASSUME NEW p \in Objects
      PROVE  SameKind(s, f, p) /\ f.gcb[p].wait_queue = QueRemove(s.gcb[p].wait_queue, t)
  <2>1. CASE p = o
    BY <2>1 DEF FlgFreed
  <2>2. CASE p # o
    <3>1. t \notin Elems(s.gcb[p].wait_queue)
      BY <2>2 DEF Exact, QueueIn, Line
    <3>2. f.gcb[p] = s.gcb[p]
      BY <2>2 DEF FlgFreed
    <3> QED BY <3>1, <3>2, NotIn DEF SameKind
  <2> QED BY <2>1, <2>2
<1> QED BY <1>1, <1>2, <1>3, LeaveExact

\* knl_wait_release.
LEMMA FlgRelease ==
  ASSUME NEW s \in Flg!Kernel, Exact(s), NEW t \in Tasks, s.tcb[t].state = "WAIT", NEW e \in Flg!Error
  PROVE  FlgFreed(s, Flg!knl_wait_release(s, t, e), t, s.tcb[t].wid, e, s.gcb[s.tcb[t].wid].flgptn)
<1> DEFINE w == s.tcb[t]
           o == w.wid
           g == s.gcb[o]
           q == QueRemove(g.wait_queue, t)
           W == [w EXCEPT !.state = "READY", !.wercd = e]
           c == [g EXCEPT !.wait_queue = q]
           y == SetObj(s, o, c)
           f == Flg!knl_wait_release(s, t, e)
<1>1. w \in Flg!TCB /\ o \in Objects /\ g \in Flg!FLGCB /\ QueueIn(s, o)
  BY FlgTypes DEF Exact
<1>2. q \in Seq(Tasks)
  BY <1>1, QueRemoveFacts DEF QueueIn
<1>3. f = SetTask(y, t, W)
  BY FlgQueues, Zenon DEF Flg!knl_wait_release, SetTask, SetObj
<1> HIDE DEF q, f
<1>4. W \in Flg!TCB
  BY <1>1, Zenon DEF Flg!TCB
<1>5. W.state = "READY" /\ W.wercd = e /\ W.priority = w.priority
  BY <1>1 DEF Flg!TCB
<1>6. c \in Flg!FLGCB
  BY <1>1, <1>2, Zenon DEF Flg!FLGCB
<1>7. /\ c.wait_queue = q /\ c.objid = g.objid /\ c.tpri = g.tpri /\ c.wmul = g.wmul
      /\ c.flgptn = g.flgptn
  BY <1>1 DEF Flg!FLGCB
<1> HIDE DEF W, c, w, g
<1>8. y \in Flg!Kernel /\ y.gcb[o] = c /\ y.tcb = s.tcb /\ \A p \in Objects \ {o} : y.gcb[p] = s.gcb[p]
  BY <1>1, <1>6, FlgObject
<1> HIDE DEF y, o
<1>9. f \in Flg!Kernel /\ f.tcb[t] = W /\ f.gcb = y.gcb /\ \A u \in Tasks \ {t} : f.tcb[u] = y.tcb[u]
  BY <1>3, <1>4, <1>8, FlgTask
<1>10. FlgFreed(s, f, t, o, e, g.flgptn)
  BY <1>5, <1>7, <1>8, <1>9 DEF FlgFreed, SameKind, w, g, q
<1> QED BY <1>10 DEF f, o, w, g

\* A waiter that is released is told pattern v, and g is left of it.
Granted(s, t, o, g, v) ==
  SetTask(SetObj(s, o, [s.gcb[o] EXCEPT !.flgptn = g]), t, [s.tcb[t] EXCEPT !.flgptn = v])

Pattern(p) == p \in SUBSET Bits
Told(s, t, v) == s.tcb[t].flgptn = v

\* A waiter that is granted its pattern leaves the queue with it.
LEMMA FlgGrants ==
  ASSUME NEW s \in Flg!Kernel, Exact(s), NEW t \in Tasks, s.tcb[t].state = "WAIT",
         NEW o, o = s.tcb[t].wid, NEW g, Pattern(g), NEW v, Pattern(v),
         NEW r, FlgFreed(s, r, t, o, "E_OK", s.gcb[o].flgptn)
  PROVE  LET f == Granted(r, t, o, g, v)
         IN  FlgFreed(s, f, t, o, "E_OK", g) /\ Told(f, t, v)
<1> DEFINE c == [r.gcb[o] EXCEPT !.flgptn = g]
           y == SetObj(r, o, c)
           W == [r.tcb[t] EXCEPT !.flgptn = v]
           f == Granted(r, t, o, g, v)
<1> SUFFICES FlgFreed(s, f, t, o, "E_OK", g) /\ f.tcb[t].flgptn = v
  BY Zenon DEF Told
<1>2. f = SetTask(y, t, W)
  BY Zenon DEF Granted, SetObj
<1> HIDE DEF f
<1>3. r \in Flg!Kernel /\ o \in Objects /\ r.gcb[o] \in Flg!FLGCB /\ r.tcb[t] \in Flg!TCB
  BY FlgTypes DEF FlgFreed, Exact
<1>4. W \in Flg!TCB
  BY <1>3, Zenon DEF Flg!TCB, Pattern
<1>5. W.state = r.tcb[t].state /\ W.wercd = r.tcb[t].wercd /\ W.priority = r.tcb[t].priority /\ W.flgptn = v
  BY <1>3 DEF Flg!TCB
<1>6. c \in Flg!FLGCB
  BY <1>3, Zenon DEF Flg!FLGCB, Pattern
<1>7. /\ c.wait_queue = r.gcb[o].wait_queue /\ c.objid = r.gcb[o].objid /\ c.tpri = r.gcb[o].tpri
      /\ c.wmul = r.gcb[o].wmul /\ c.flgptn = g
  BY <1>3 DEF Flg!FLGCB
<1> HIDE DEF W, c
<1>8. y \in Flg!Kernel /\ y.gcb[o] = c /\ y.tcb = r.tcb /\ \A p \in Objects \ {o} : y.gcb[p] = r.gcb[p]
  BY <1>3, <1>6, FlgObject
<1> HIDE DEF y
<1>9. f \in Flg!Kernel /\ f.tcb[t] = W /\ f.gcb = y.gcb /\ \A u \in Tasks \ {t} : f.tcb[u] = y.tcb[u]
  BY <1>2, <1>4, <1>8, FlgTask
<1> QED BY <1>5, <1>7, <1>8, <1>9 DEF FlgFreed, SameKind

\* The loop of tk_set_flg: its state after each turn.
LEMMA ReleaseTurns ==
  ASSUME NEW s, NEW o, NEW q, q = s.gcb[o].wait_queue, Len(q) \in Nat
  PROVE  \E a : /\ a[0] = [s |-> s, stop |-> FALSE]
                /\ \A i \in 1 .. Len(q) : a[i] = Flg!Release(a[i - 1], q[i])
                /\ Flg!ReleaseAll(s, o) = a[Len(q)].s
<1> DEFINE n == Len(q)
           z == [s |-> s, stop |-> FALSE]
           F(x, i) == Flg!Release(x, q[i])
           Run(f, m) == f = [i \in 0 .. m |-> IF i = 0 THEN z ELSE F(f[i - 1], i)]
           B == {m \in 0 .. n : ~ \E f : Run(f, m)}
           after == CHOOSE f : Run(f, n)
<1>1. Flg!ReleaseAll(s, o) = after[n].s
  BY DEF Flg!ReleaseAll
<1> HIDE DEF z, F
<1>2. \E f : Run(f, 0)
  <2> DEFINE f == [i \in 0 .. 0 |-> z]
  <2>1. Run(f, 0)
    OBVIOUS
  <2> QED BY <2>1
<1>3. ASSUME NEW m \in Nat, NEW f, Run(f, m)
      PROVE  \E g : Run(g, m + 1)
  <2> DEFINE g == [i \in 0 .. m + 1 |-> IF i <= m THEN f[i] ELSE F(f[m], m + 1)]
  <2>1. ASSUME NEW i \in 0 .. m + 1
        PROVE  g[i] = IF i = 0 THEN z ELSE F(g[i - 1], i)
    <3>1. CASE i = m + 1
      <4>1. g[i] = F(f[m], m + 1) /\ g[i - 1] = f[m] /\ i # 0
        BY <3>1
      <4> QED BY <3>1, <4>1
    <3>2. CASE i # m + 1
      <4>1. i \in 0 .. m /\ g[i] = f[i] /\ (i # 0 => i - 1 \in 0 .. m /\ g[i - 1] = f[i - 1])
        BY <3>2
      <4>2. f[i] = IF i = 0 THEN z ELSE F(f[i - 1], i)
        BY <1>3, <4>1
      <4> QED BY <4>1, <4>2
    <3> QED BY <3>1, <3>2
  <2>2. Run(g, m + 1)
    BY <2>1
  <2> QED BY <2>2
<1> HIDE DEF Run
<1>4. B = {}
  <2> SUFFICES ASSUME B # {}
               PROVE  FALSE
    OBVIOUS
  <2>1. PICK m \in B : \A x \in B : m <= x
    BY MinimumExists
  <2>2. m # 0 /\ m \in Nat /\ m - 1 \in 0 .. n /\ m - 1 \notin B
    BY <1>2, <2>1
  <2>3. \E f : Run(f, m - 1)
    BY <2>2
  <2>4. m - 1 \in Nat /\ (m - 1) + 1 = m
    BY <2>2
  <2> QED BY <1>3, <2>1, <2>3, <2>4
<1>5. Run(after, n)
  BY <1>4
<1>6. \A i \in 0 .. n : after[i] = IF i = 0 THEN z ELSE F(after[i - 1], i)
  BY <1>5 DEF Run
<1> HIDE DEF after
<1>7. after[0] = z /\ \A i \in 1 .. n : after[i] = F(after[i - 1], i)
  BY <1>6
<1> QED BY <1>1, <1>7 DEF F, z

\* The bits that task t, released with a pattern, took out of it.
Gone(s, f, t) == f.tcb[t].flgptn \ Kept(f.tcb[t].flgptn, s.tcb[t].waiptn, s.tcb[t].wfmode)

\* Whom a loop over queue q of flag o has released so far, each with a pattern
\* that satisfies it and without the bits that those before it took.
FlgPart(s, f, o, q) ==
  LET S == Took(s, f, o)
  IN  /\ f \in Flg!Kernel /\ Exact(f) /\ SameKind(s, f, o) /\ f.gcb[o].wmul = s.gcb[o].wmul
      /\ \A p \in Objects \ {o} : f.gcb[p] = s.gcb[p]
      /\ \A t \in Tasks \ S : f.tcb[t] = s.tcb[t]
      /\ \A t \in S : /\ f.tcb[t].state = "READY" /\ f.tcb[t].wercd = "E_OK"
                      /\ Satisfied(f.tcb[t].flgptn, s.tcb[t].waiptn, s.tcb[t].wfmode)
                      /\ f.gcb[o].flgptn \cap Gone(s, f, t) = {}
      /\ \A j, l \in DOMAIN q : j < l /\ q[j] \in S /\ q[l] \in S
           => f.tcb[q[l]].flgptn \cap Gone(s, f, q[j]) = {}

\* After i turns: nobody of the first i waits in vain, the others were not looked at,
\* and the loop has stopped only if nothing was left of the pattern.
FlgLoop(s, o, q, a, i) ==
  /\ a = [s |-> a.s, stop |-> a.stop] /\ a.stop \in BOOLEAN
  /\ FlgPart(s, a.s, o, q)
  /\ \A j \in 1 .. i : q[j] \in Took(s, a.s, o) \/ Unmet(a.s, o, q[j])
  /\ \A j \in DOMAIN q : j > i => q[j] \notin Took(s, a.s, o)
  /\ a.stop => a.s.gcb[o].flgptn = {}

\* What task t leaves of flag o, the step that hands it over, and that nobody
\* behind place i was released.
Left(f, o, t) == Kept(f.gcb[o].flgptn, f.tcb[t].waiptn, f.tcb[t].wfmode)
Handed(f, h, o, t) == FlgFreed(f, h, t, o, "E_OK", Left(f, o, t)) /\ Told(h, t, f.gcb[o].flgptn)
NotBehind(s, f, o, q, i) == \A j \in DOMAIN q : j > i => q[j] \notin Took(s, f, o)

\* One more is released.
LEMMA FlgPartMore ==
  ASSUME NEW s \in Flg!Kernel, NEW o \in Objects, NEW q \in Seq(Tasks), Injective(q),
         NEW f, FlgPart(s, f, o, q), NEW t \in Line(s, o) \ Took(s, f, o), NEW i \in DOMAIN q, t = q[i],
         NotBehind(s, f, o, q, i),
         ~Unmet(f, o, t), NEW h, Handed(f, h, o, t)
  PROVE  FlgPart(s, h, o, q) /\ Took(s, h, o) = Took(s, f, o) \cup {t}
<1> DEFINE S == Took(s, f, o)
           v == f.gcb[o].flgptn
           g == Kept(v, f.tcb[t].waiptn, f.tcb[t].wfmode)
<1>0. FlgFreed(f, h, t, o, "E_OK", g) /\ Told(h, t, v) /\ Satisfied(v, f.tcb[t].waiptn, f.tcb[t].wfmode)
  BY DEF Handed, Left, Unmet
<1>1. f \in Flg!Kernel /\ Exact(f) /\ t \in Tasks /\ f.tcb[t] = s.tcb[t]
  BY <1>0 DEF FlgPart, Line
<1>2. f.tcb[t].state = "WAIT" /\ f.tcb[t].wid = o
  BY <1>0, <1>1 DEF Line
<1>3. Took(s, h, o) = S \cup {t}
  BY <1>0, <1>1, <1>2 DEF Took, FlgFreed, Line
<1>4. Exact(h) /\ SameKind(s, h, o) /\ h.gcb[o].wmul = s.gcb[o].wmul
  <2>1. Exact(h)
    BY <1>0, <1>1, <1>2, FlgFreedExact
  <2> QED BY <1>0, <2>1 DEF FlgPart, FlgFreed, SameKind
<1>5. g \subseteq v /\ h.gcb[o].flgptn = g /\ S \subseteq Tasks /\ t \notin S
  BY <1>0, KeptShrinks DEF FlgFreed, Took, Line
<1>6. \A u \in S : h.tcb[u] = f.tcb[u] /\ Gone(s, h, u) = Gone(s, f, u)
  BY <1>0, <1>5 DEF FlgFreed, Gone
<1>7. Gone(s, h, t) = v \ g
  BY <1>0, <1>1 DEF Gone, Told
<1>8. \A p \in Objects \ {o} : h.gcb[p] = s.gcb[p]
  BY <1>0 DEF FlgPart, FlgFreed
<1>9. \A u \in Tasks \ (S \cup {t}) : h.tcb[u] = s.tcb[u]
  BY <1>0 DEF FlgPart, FlgFreed
<1>10. ASSUME NEW u \in S
       PROVE  /\ h.tcb[u].state = "READY" /\ h.tcb[u].wercd = "E_OK"
              /\ Satisfied(h.tcb[u].flgptn, s.tcb[u].waiptn, s.tcb[u].wfmode)
              /\ h.gcb[o].flgptn \cap Gone(s, h, u) = {} /\ v \cap Gone(s, h, u) = {}
  <2>1. /\ f.tcb[u].state = "READY" /\ f.tcb[u].wercd = "E_OK"
        /\ Satisfied(f.tcb[u].flgptn, s.tcb[u].waiptn, s.tcb[u].wfmode)
        /\ v \cap Gone(s, f, u) = {}
    BY <1>0 DEF FlgPart
  <2> QED BY <1>0, <1>5, <1>6, <2>1
<1>11. /\ h.tcb[t].state = "READY" /\ h.tcb[t].wercd = "E_OK"
       /\ Satisfied(h.tcb[t].flgptn, s.tcb[t].waiptn, s.tcb[t].wfmode)
       /\ h.gcb[o].flgptn \cap Gone(s, h, t) = {}
  BY <1>0, <1>1, <1>5, <1>7 DEF FlgFreed, Told
<1>12. ASSUME NEW j \in DOMAIN q, NEW l \in DOMAIN q, j < l, q[j] \in S \cup {t}, q[l] \in S \cup {t}
       PROVE  h.tcb[q[l]].flgptn \cap Gone(s, h, q[j]) = {}
  <2>1. \A x \in DOMAIN q : q[x] = t => x = i
    BY <1>0 DEF Injective
  <2>2. DOMAIN q \subseteq Int
    OBVIOUS
  <2>3. CASE q[l] = t
    <3>1. l = i /\ q[j] # t
      BY <1>0, <1>12, <2>1, <2>2, <2>3
    <3> QED BY <1>0, <1>10, <1>12, <2>3, <3>1 DEF Told
  <2>4. CASE q[l] # t
    <3>1. q[l] \in S /\ ~(l > i)
      BY <1>0, <1>12, <2>4 DEF NotBehind
    <3>2. q[j] # t
      BY <1>0, <1>12, <2>1, <2>2, <3>1
    <3>3. q[j] \in S
      BY <1>0, <1>12, <3>2
    <3>4. f.tcb[q[l]].flgptn \cap Gone(s, f, q[j]) = {}
      BY <1>0, <1>12, <3>1, <3>3 DEF FlgPart
    <3> QED BY <1>0, <1>6, <3>1, <3>3, <3>4
  <2> QED BY <1>0, <2>3, <2>4
<1>13. h \in Flg!Kernel
  BY <1>0 DEF FlgFreed
<1> HIDE DEF S
<1>14. \A u \in S \cup {t} : /\ h.tcb[u].state = "READY" /\ h.tcb[u].wercd = "E_OK"
                            /\ Satisfied(h.tcb[u].flgptn, s.tcb[u].waiptn, s.tcb[u].wfmode)
                            /\ h.gcb[o].flgptn \cap Gone(s, h, u) = {}
  BY <1>0, <1>10, <1>11
<1> QED BY <1>0, <1>3, <1>4, <1>8, <1>9, <1>12, <1>13, <1>14, Zenon DEF FlgPart, S

\* A turn of the loop.
LEMMA FlgTurn ==
  ASSUME NEW s \in Flg!Kernel, Exact(s), NEW o \in Objects, \A t \in Line(s, o) : s.tcb[t].waiptn # {},
         NEW q, q = s.gcb[o].wait_queue,
         NEW i \in Nat, i < Len(q), NEW a, FlgLoop(s, o, q, a, i)
  PROVE  FlgLoop(s, o, q, Flg!Release(a, q[i + 1]), i + 1)
<1> DEFINE t == q[i + 1]
           f == a.s
           w == f.tcb[t]
           v == f.gcb[o].flgptn
           g == Kept(v, w.waiptn, w.wfmode)
           stop == g = {} /\ w.wfmode \cap {"CLR", "BITCLR"} # {}
           b == Flg!Release(a, t)
           C == Satisfied(v, w.waiptn, w.wfmode)
<1> SUFFICES FlgLoop(s, o, q, b, i + 1)
  OBVIOUS
<1>1. /\ q \in Seq(Tasks) /\ Injective(q) /\ Elems(q) = Line(s, o) /\ Len(q) \in Nat
      /\ DOMAIN q = 1 .. Len(q)
  BY DEF Exact, QueueIn
<1>2. i + 1 \in DOMAIN q /\ t \in Tasks /\ t \in Line(s, o) /\ s.tcb[t].wid = o /\ s.tcb[t].state = "WAIT"
  BY <1>1 DEF Elems, Line
<1>3. /\ f \in Flg!Kernel /\ Exact(f) /\ FlgPart(s, f, o, q)
      /\ a = [s |-> f, stop |-> a.stop] /\ a.stop \in BOOLEAN
  BY DEF FlgLoop, FlgPart
<1>4. t \notin Took(s, f, o)
  BY <1>2 DEF FlgLoop
<1>5. w = s.tcb[t]
  BY <1>2, <1>3, <1>4 DEF FlgPart
<1>6. \A j \in DOMAIN q : j > i + 1 => q[j] \notin Took(s, f, o) /\ q[j] # t
  BY <1>1, <1>2 DEF FlgLoop, Injective
<1>7. \A j : j \in 1 .. i + 1 <=> j \in 1 .. i \/ j = i + 1
  OBVIOUS
<1>8. CASE a.stop \/ ~C
  <2>1. b = a
    BY <1>2, <1>5, <1>8, FlgConds, Zenon DEF Flg!Release
  <2>2. Unmet(f, o, t)
    <3>1. CASE a.stop
      <4>1. v = {}
        BY <3>1 DEF FlgLoop
      <4> QED BY <1>2, <1>5, <4>1, SatisfiedEmpty DEF Unmet
    <3>2. CASE ~C
      BY <3>2 DEF Unmet
    <3> QED BY <1>8, <3>1, <3>2
  <2>3. \A j \in 1 .. i + 1 : q[j] \in Took(s, f, o) \/ Unmet(f, o, q[j])
    <3> HIDE DEF f
    <3> QED BY <1>7, <2>2 DEF FlgLoop, f
  <2> HIDE DEF b, C
  <2> QED BY <1>3, <1>6, <2>1, <2>3 DEF FlgLoop
<1>9. CASE ~a.stop /\ C
  <2> DEFINE r == Flg!knl_wait_release(f, t, "E_OK")
             h == Granted(r, t, o, g, v)
  <2>1. b = [s |-> h, stop |-> stop]
    <3>1. h = [r EXCEPT !.gcb[o].flgptn = g, !.tcb[t].flgptn = v]
      BY Zenon DEF Granted, SetTask, SetObj
    <3> QED BY <1>2, <1>5, <1>9, <3>1, FlgConds, Zenon DEF Flg!Release, Flg!knl_wait_release_ok
  <2>2. v \in SUBSET Bits /\ g \subseteq v
    <3>1. f.gcb[o] \in Flg!FLGCB
      BY <1>3, FlgTypes
    <3>2. v \in SUBSET Bits
      BY <3>1 DEF Flg!FLGCB
    <3> QED BY <3>2, KeptShrinks
  <2>3. FlgFreed(f, h, t, o, "E_OK", g) /\ Told(h, t, v)
    <3>1. f.tcb[t].state = "WAIT" /\ o = f.tcb[t].wid /\ Pattern(g) /\ Pattern(v)
      BY <1>2, <1>5, <2>2 DEF Pattern
    <3>2. f \in Flg!Kernel /\ Exact(f) /\ t \in Tasks
      BY <1>2, <1>3
    <3>3. FlgFreed(f, r, t, o, "E_OK", f.gcb[o].flgptn)
      BY <3>1, <3>2, FlgRelease DEF Flg!Error
    <3> HIDE DEF f, g, v, t, w, stop, C, b, r
    <3> QED BY <3>1, <3>2, <3>3, FlgGrants
  <2> HIDE DEF b, h
  <2>4. FlgPart(s, h, o, q) /\ Took(s, h, o) = Took(s, f, o) \cup {t}
    <3>1. NotBehind(s, f, o, q, i + 1)
      BY <1>6 DEF NotBehind
    <3>2. /\ t \in Line(s, o) \ Took(s, f, o) /\ t = q[i + 1]
          /\ ~Unmet(f, o, t)
      BY <1>2, <1>4, <1>9 DEF Unmet
    <3>3. Handed(f, h, o, t)
      BY <2>3 DEF Handed, Left
    <3> HIDE DEF f, t
    <3> QED BY <1>1, <1>2, <1>3, <3>1, <3>2, <3>3, FlgPartMore
  <2>5. ASSUME NEW j \in 1 .. i + 1, q[j] \notin Took(s, h, o)
        PROVE  Unmet(h, o, q[j])
    <3>1. j \in 1 .. i /\ q[j] \notin Took(s, f, o) /\ q[j] # t
      BY <1>7, <2>4, <2>5
    <3>2. Unmet(f, o, q[j])
      BY <3>1 DEF FlgLoop
    <3>3. j \in DOMAIN q /\ q[j] \in Tasks
      BY <1>1, <3>1
    <3>4. h.tcb[q[j]] = f.tcb[q[j]] /\ h.gcb[o].flgptn \subseteq v
      BY <2>2, <2>3, <3>1, <3>3 DEF FlgFreed
    <3> HIDE DEF f, g, v, t
    <3> QED BY <3>2, <3>4, SatisfiedShrinks DEF Unmet, v
  <2>6. \A j \in DOMAIN q : j > i + 1 => q[j] \notin Took(s, h, o)
    BY <1>6, <2>4
  <2>7. stop => h.gcb[o].flgptn = {}
    BY <2>3 DEF FlgFreed
  <2>8. b.s = h /\ b.stop = stop /\ b = [s |-> b.s, stop |-> b.stop] /\ stop \in BOOLEAN
    BY <2>1
  <2> HIDE DEF stop, f, t
  <2> QED BY <2>4, <2>5, <2>6, <2>7, <2>8, Zenon DEF FlgLoop
<1> QED BY <1>3, <1>8, <1>9

\* The whole loop.
LEMMA ReleaseAllFacts ==
  ASSUME NEW s \in Flg!Kernel, Exact(s), NEW o \in Objects, \A t \in Line(s, o) : s.tcb[t].waiptn # {}
  PROVE  LET f == Flg!ReleaseAll(s, o)
         IN  /\ FlgPart(s, f, o, s.gcb[o].wait_queue)
             /\ \A t \in Line(f, o) : t \in Line(s, o) /\ f.tcb[t] = s.tcb[t] /\ Unmet(f, o, t)
<1> DEFINE q == s.gcb[o].wait_queue
           f == Flg!ReleaseAll(s, o)
           n == Len(q)
<1>1. /\ q \in Seq(Tasks) /\ Injective(q) /\ Elems(q) = Line(s, o) /\ Len(q) \in Nat
      /\ DOMAIN q = 1 .. Len(q)
  BY DEF Exact, QueueIn
<1> HIDE DEF f
<1>2. PICK a : /\ a[0] = [s |-> s, stop |-> FALSE]
               /\ \A i \in 1 .. n : a[i] = Flg!Release(a[i - 1], q[i])
               /\ f = a[n].s
  BY <1>1, ReleaseTurns DEF f
<1> DEFINE B == {i \in 0 .. n : ~FlgLoop(s, o, q, a[i], i)}
<1>3. FlgLoop(s, o, q, a[0], 0)
  <2>1. a[0] = [s |-> a[0].s, stop |-> a[0].stop] /\ a[0].s = s /\ ~a[0].stop /\ a[0].stop \in BOOLEAN
    BY <1>2
  <2>2. Took(s, s, o) = {}
    BY DEF Took, Line
  <2>3. FlgPart(s, s, o, q)
    BY <2>2 DEF FlgPart, SameKind
  <2>4. 1 .. 0 = {}
    OBVIOUS
  <2> HIDE DEF q
  <2> QED BY <2>1, <2>2, <2>3, <2>4 DEF FlgLoop
<1>4. B = {}
  <2> SUFFICES ASSUME B # {}
               PROVE  FALSE
    OBVIOUS
  <2>1. PICK i \in B : \A x \in B : i <= x
    BY <1>1, MinimumExists
  <2>2. i # 0 /\ i \in 1 .. n /\ i - 1 \in 0 .. n /\ i - 1 \notin B
    BY <1>1, <1>3, <2>1
  <2>3. FlgLoop(s, o, q, a[i - 1], i - 1)
    BY <2>2
  <2>4. i - 1 \in Nat /\ i - 1 < Len(q) /\ (i - 1) + 1 = i
    BY <1>1, <2>2
  <2>5. FlgLoop(s, o, q, Flg!Release(a[i - 1], q[(i - 1) + 1]), (i - 1) + 1)
    BY <2>3, <2>4, FlgTurn
  <2>6. FlgLoop(s, o, q, a[i], i)
    BY <1>2, <2>2, <2>4, <2>5
  <2> QED BY <2>1, <2>6
<1>5. FlgLoop(s, o, q, a[n], n)
  BY <1>1, <1>4
<1>6. FlgPart(s, f, o, q)
  BY <1>2, <1>5 DEF FlgLoop
<1>7. ASSUME NEW t \in Line(f, o)
      PROVE  t \in Line(s, o) /\ f.tcb[t] = s.tcb[t] /\ Unmet(f, o, t)
  <2>1. t \in Tasks /\ f.tcb[t].state = "WAIT" /\ f.tcb[t].wid = o /\ t \notin Took(s, f, o)
    BY DEF Line, Took
  <2>2. f.tcb[t] = s.tcb[t]
    BY <1>6, <2>1 DEF FlgPart
  <2>3. t \in Line(s, o)
    BY <2>1, <2>2 DEF Line
  <2>4. PICK j \in 1 .. n : q[j] = t
    BY <1>1, <2>3 DEF Elems
  <2> QED BY <1>2, <1>5, <2>1, <2>2, <2>3, <2>4 DEF FlgLoop
<1> QED BY <1>6, <1>7 DEF f

\* No wait ends with E_OK.
NobodyTold(s, f) ==
  \A t \in Tasks : s.tcb[t].state = "WAIT" => ~(f.tcb[t].state = "READY" /\ f.tcb[t].wercd = "E_OK")

\* Without that, no event is consumed.
LEMMA FlgIdle ==
  ASSUME NobodyTold(k, k')
  PROVE  Flg!ConsumedOnceStep
<1>1. \A o : Flg!Released(o) = {}
  BY DEF Flg!Released, Flg!Waiters, NobodyTold
<1> QED BY <1>1 DEF Flg!ConsumedOnceStep

\* The waits that go on are those of s.
LEMMA FlgLessKeeps ==
  ASSUME NEW s, FlgInv(s), NEW f \in Flg!Kernel, Exact(f), \A p \in Objects : FlgLess(s, f, p)
  PROVE  FlgInv(f)
BY FlgLessSound DEF FlgInv

\* Every call starts from a state in which the last results are dropped.
LEMMA FlgStart ==
  ASSUME FlgInv(k)
  PROVE  LET s == Flg!Fresh(k)
         IN  /\ FlgInv(s) /\ s \in Flg!Kernel /\ Exact(s) /\ s.gcb = k.gcb
             /\ \A u \in Tasks : s.tcb[u].state = k.tcb[u].state /\ s.tcb[u].wid = k.tcb[u].wid
             /\ \A u \in Tasks : k.tcb[u].state = "WAIT" => s.tcb[u] = k.tcb[u]
             /\ \A f : NobodyTold(s, f) => NobodyTold(k, f)
<1> DEFINE s == Flg!Fresh(k)
<1>1. k \in Flg!Kernel
  BY DEF FlgInv
<1>2. Dropped(k, s)
  BY <1>1, FlgFresh
<1> HIDE DEF s
<1>3. FlgInv(s)
  BY <1>2, DroppedKeeps
<1>4. \A u \in Tasks : s.tcb[u].state = k.tcb[u].state /\ s.tcb[u].wid = k.tcb[u].wid
  BY <1>2 DEF Dropped, SameTask
<1>5. \A f : NobodyTold(s, f) => NobodyTold(k, f)
  BY <1>4 DEF NobodyTold
<1>6. s.gcb = k.gcb /\ \A u \in Tasks : k.tcb[u].state = "WAIT" => s.tcb[u] = k.tcb[u]
  BY <1>2 DEF Dropped
<1> QED BY <1>3, <1>4, <1>5, <1>6 DEF s, FlgInv

\* A task that does not wait changes, and flags keep their queues and lose bits at most.
LEMMA FlgQuiet ==
  ASSUME NEW s, FlgInv(s), NEW t \in Tasks, s.tcb[t].state # "WAIT",
         NEW f \in Flg!Kernel, f.tcb[t].state # "WAIT", \A u \in Tasks \ {t} : f.tcb[u] = s.tcb[u],
         \A p \in Objects : /\ SameQueue(s, f, p) /\ f.gcb[p].wmul = s.gcb[p].wmul
                            /\ f.gcb[p].flgptn \subseteq s.gcb[p].flgptn
  PROVE  FlgInv(f) /\ NobodyTold(s, f)
<1>1. Exact(f)
  <2>1. \A u \in Tasks \ {t} : SameTask(s, f, u)
    BY DEF SameTask
  <2>2. f.tcb[t].priority \in Int
    BY FlgTypes
  <2> QED BY <2>1, <2>2, QuietExact DEF FlgInv
<1>2. \A p \in Objects : FlgLess(s, f, p)
  BY DEF FlgLess, Line, StillWaits
<1>3. NobodyTold(s, f)
  BY DEF NobodyTold
<1> QED BY <1>1, <1>2, <1>3, FlgLessKeeps

\* tk_cre_flg.
LEMMA CreFlg ==
  ASSUME FlgInv(k), NEW o \in Objects, NEW tpri \in BOOLEAN, NEW wmul \in BOOLEAN, NEW i \in SUBSET Bits,
         Flg!tk_cre_flg(o, tpri, wmul, i)
  PROVE  FlgInv(k') /\ Flg!ConsumedOnceStep
<1> DEFINE s == Flg!Fresh(k)
           c == [objid |-> TRUE, tpri |-> tpri, wmul |-> wmul, flgptn |-> i, wait_queue |-> << >>]
<1>1. ~k.gcb[o].objid /\ k' = SetObj(s, o, c)
  BY Zenon DEF Flg!tk_cre_flg, SetObj
<1>2. /\ FlgInv(s) /\ s \in Flg!Kernel /\ Exact(s) /\ s.gcb = k.gcb
      /\ \A f : NobodyTold(s, f) => NobodyTold(k, f)
  BY FlgStart
<1> HIDE DEF s
<1>3. << >> \in Seq(Tasks)
  OBVIOUS
<1>4. c \in Flg!FLGCB
  BY <1>3, Zenon DEF Flg!FLGCB
<1>5. c.wait_queue = << >>
  OBVIOUS
<1> HIDE DEF c
<1>6. k' \in Flg!Kernel /\ k'.gcb[o] = c /\ k'.tcb = s.tcb /\ \A p \in Objects \ {o} : k'.gcb[p] = s.gcb[p]
  BY <1>1, <1>2, <1>4, FlgObject
<1>7. Line(s, o) = {}
  BY <1>1, <1>2 DEF Exact, QueueIn, Elems
<1>8. Exact(k')
  <2>1. \A u \in Tasks : SameTask(s, k', u)
    BY <1>6 DEF SameTask
  <2>2. \A p \in Objects \ {o} : SameQueue(s, k', p)
    BY <1>6 DEF SameQueue, SameKind
  <2> QED BY <1>2, <1>5, <1>6, <1>7, <2>1, <2>2, EmptyExact
<1>9. ASSUME NEW p \in Objects
      PROVE  FlgSound(k', p)
  <2>1. Line(k', p) = Line(s, p)
    BY <1>6 DEF Line
  <2>2. CASE p = o
    BY <1>7, <2>1, <2>2 DEF FlgSound
  <2>3. CASE p # o
    <3>1. FlgLess(s, k', p)
      BY <1>6, <2>1, <2>3 DEF FlgLess, StillWaits, Line
    <3> QED BY <1>2, <3>1, FlgLessSound DEF FlgInv
  <2> QED BY <2>2, <2>3
<1>10. NobodyTold(s, k')
  BY <1>6 DEF NobodyTold
<1> QED BY <1>2, <1>6, <1>8, <1>9, <1>10, FlgIdle DEF FlgInv

\* tk_clr_flg.
LEMMA ClrFlg ==
  ASSUME FlgInv(k), NEW o \in Objects, NEW p \in SUBSET Bits, Flg!tk_clr_flg(o, p)
  PROVE  FlgInv(k') /\ Flg!ConsumedOnceStep
<1> DEFINE s == Flg!Fresh(k)
           g == s.gcb[o]
           v == g.flgptn \cap p
           c == [g EXCEPT !.flgptn = v]
<1>1. k' = SetObj(s, o, c)
  BY Zenon DEF Flg!tk_clr_flg, SetObj
<1>2. /\ FlgInv(s) /\ s \in Flg!Kernel /\ Exact(s)
      /\ \A f : NobodyTold(s, f) => NobodyTold(k, f)
  BY FlgStart
<1> HIDE DEF s
<1>3. g \in Flg!FLGCB
  BY <1>2, FlgTypes
<1>4. v \in SUBSET Bits /\ v \subseteq g.flgptn
  OBVIOUS
<1> HIDE DEF v
<1>5. c \in Flg!FLGCB
  BY <1>3, <1>4, Zenon DEF Flg!FLGCB
<1>6. c.wait_queue = g.wait_queue /\ c.objid = g.objid /\ c.tpri = g.tpri /\ c.wmul = g.wmul /\ c.flgptn = v
  BY <1>3 DEF Flg!FLGCB
<1> HIDE DEF c
<1>7. k' \in Flg!Kernel /\ k'.gcb[o] = c /\ k'.tcb = s.tcb /\ \A q \in Objects \ {o} : k'.gcb[q] = s.gcb[q]
  BY <1>1, <1>2, <1>5, FlgObject
<1>8. \A q \in Objects : /\ SameQueue(s, k', q) /\ k'.gcb[q].wmul = s.gcb[q].wmul
                         /\ k'.gcb[q].flgptn \subseteq s.gcb[q].flgptn
  BY <1>4, <1>6, <1>7 DEF SameQueue, SameKind
<1>9. Exact(k')
  <2>1. \A u \in Tasks : SameTask(s, k', u)
    BY <1>7 DEF SameTask
  <2> QED BY <1>2, <1>8, <2>1, SameExact
<1>10. \A q \in Objects : FlgLess(s, k', q)
  BY <1>7, <1>8 DEF FlgLess, Line, StillWaits
<1>11. NobodyTold(s, k')
  BY <1>7 DEF NobodyTold
<1> QED BY <1>2, <1>7, <1>9, <1>10, <1>11, FlgLessKeeps, FlgIdle

\* tk_sta_tsk.
LEMMA FlgStartTask ==
  ASSUME FlgInv(k), NEW t \in Tasks, Flg!tk_sta_tsk(t)
  PROVE  FlgInv(k') /\ Flg!ConsumedOnceStep
<1> DEFINE s == Flg!Fresh(k)
           w == [s.tcb[t] EXCEPT !.state = "READY"]
<1>1. k.tcb[t].state = "DORMANT" /\ k' = SetTask(s, t, w)
  BY Zenon DEF Flg!tk_sta_tsk, SetTask
<1>2. /\ FlgInv(s) /\ s \in Flg!Kernel /\ s.tcb[t].state = k.tcb[t].state
      /\ \A f : NobodyTold(s, f) => NobodyTold(k, f)
  BY FlgStart
<1> HIDE DEF s
<1>3. s.tcb[t] \in Flg!TCB
  BY <1>2, FlgTypes
<1>4. w \in Flg!TCB
  BY <1>3, Zenon DEF Flg!TCB
<1>5. w.state = "READY"
  BY <1>3 DEF Flg!TCB
<1> HIDE DEF w
<1>6. k' \in Flg!Kernel /\ k'.tcb[t] = w /\ k'.gcb = s.gcb /\ \A u \in Tasks \ {t} : k'.tcb[u] = s.tcb[u]
  BY <1>1, <1>2, <1>4, FlgTask
<1>7. \A p \in Objects : /\ SameQueue(s, k', p) /\ k'.gcb[p].wmul = s.gcb[p].wmul
                         /\ k'.gcb[p].flgptn \subseteq s.gcb[p].flgptn
  BY <1>6 DEF SameQueue, SameKind
<1>8. FlgInv(k') /\ NobodyTold(s, k')
  BY <1>1, <1>2, <1>5, <1>6, <1>7, FlgQuiet
<1> QED BY <1>2, <1>8, FlgIdle

\* A wait that ends otherwise than with E_OK.
LEMMA FlgLeaves ==
  ASSUME NEW s, FlgInv(s), NEW t \in Tasks, s.tcb[t].state = "WAIT", NEW e \in Flg!Error \ {"E_OK"}
  PROVE  LET f == Flg!knl_wait_release(s, t, e)
         IN  FlgInv(f) /\ NobodyTold(s, f) /\ f.tcb[t].state = "READY"
<1> DEFINE f == Flg!knl_wait_release(s, t, e)
           o == s.tcb[t].wid
           g == s.gcb[o].flgptn
<1>1. s \in Flg!Kernel /\ Exact(s) /\ o \in Objects
  BY DEF FlgInv, Exact
<1>2. FlgFreed(s, f, t, o, e, g)
  BY <1>1, FlgRelease
<1> HIDE DEF f
<1>3. Exact(f)
  BY <1>1, <1>2, FlgFreedExact
<1>4. \A p \in Objects : FlgLess(s, f, p)
  BY <1>2 DEF FlgFreed, FlgLess, Line, StillWaits
<1>5. NobodyTold(s, f)
  BY <1>2 DEF NobodyTold, FlgFreed
<1>6. FlgInv(f)
  BY <1>2, <1>3, <1>4, FlgLessKeeps DEF FlgFreed
<1> QED BY <1>2, <1>5, <1>6 DEF f, FlgFreed

\* knl_wait_release_tmout and tk_rel_wai.
LEMMA FlgReleaseNg ==
  ASSUME FlgInv(k), NEW t \in Tasks, NEW e \in {"E_TMOUT", "E_RLWAI"}, Flg!knl_wait_release_ng(t, e)
  PROVE  FlgInv(k') /\ Flg!ConsumedOnceStep
<1> DEFINE s == Flg!Fresh(k)
<1>1. k.tcb[t].state = "WAIT" /\ k' = Flg!knl_wait_release(s, t, e)
  BY Zenon DEF Flg!knl_wait_release_ng
<1>2. /\ FlgInv(s) /\ s.tcb[t].state = k.tcb[t].state
      /\ \A f : NobodyTold(s, f) => NobodyTold(k, f)
  BY FlgStart
<1> HIDE DEF s
<1>3. e \in Flg!Error \ {"E_OK"}
  BY DEF Flg!Error
<1> QED BY <1>1, <1>2, <1>3, FlgLeaves, FlgIdle

\* tk_ter_tsk.
LEMMA FlgTerminate ==
  ASSUME FlgInv(k), NEW t \in Tasks, Flg!tk_ter_tsk(t)
  PROVE  FlgInv(k') /\ Flg!ConsumedOnceStep
<1> DEFINE s == IF k.tcb[t].state = "WAIT" THEN Flg!knl_wait_release(k, t, "E_RLWAI") ELSE k
           w == [s.tcb[t] EXCEPT !.state = "DORMANT"]
           y == SetTask(s, t, w)
<1>1. k' = Flg!Fresh(y)
  BY Zenon DEF Flg!tk_ter_tsk, SetTask
<1>2. FlgInv(s) /\ NobodyTold(k, s) /\ s.tcb[t].state # "WAIT" /\ s \in Flg!Kernel
  <2>1. CASE k.tcb[t].state = "WAIT"
    <3>1. s = Flg!knl_wait_release(k, t, "E_RLWAI")
      BY <2>1
    <3>2. "E_RLWAI" \in Flg!Error \ {"E_OK"}
      BY DEF Flg!Error
    <3> HIDE DEF s
    <3> QED BY <2>1, <3>1, <3>2, FlgLeaves DEF FlgInv
  <2>2. CASE k.tcb[t].state # "WAIT"
    <3>1. s = k
      BY <2>2
    <3> QED BY <2>2, <3>1 DEF NobodyTold, FlgInv
  <2> QED BY <2>1, <2>2
<1> HIDE DEF s
<1>3. s.tcb[t] \in Flg!TCB
  BY <1>2, FlgTypes
<1>4. w \in Flg!TCB
  BY <1>3, Zenon DEF Flg!TCB
<1>5. w.state = "DORMANT"
  BY <1>3 DEF Flg!TCB
<1> HIDE DEF w
<1>6. y \in Flg!Kernel /\ y.tcb[t] = w /\ y.gcb = s.gcb /\ \A u \in Tasks \ {t} : y.tcb[u] = s.tcb[u]
  BY <1>2, <1>4, FlgTask
<1> HIDE DEF y
<1>7. \A p \in Objects : /\ SameQueue(s, y, p) /\ y.gcb[p].wmul = s.gcb[p].wmul
                         /\ y.gcb[p].flgptn \subseteq s.gcb[p].flgptn
  BY <1>6 DEF SameQueue, SameKind
<1>8. FlgInv(y)
  BY <1>2, <1>5, <1>6, <1>7, FlgQuiet
<1>9. Dropped(y, k')
  BY <1>1, <1>6, FlgFresh
<1>10. FlgInv(k')
  BY <1>8, <1>9, DroppedKeeps
<1>11. \A u \in Tasks \ {t} : k.tcb[u].state = "WAIT" => k'.tcb[u].state # "READY"
  <2>1. ASSUME NEW u \in Tasks \ {t}, k.tcb[u].state = "WAIT"
        PROVE  s.tcb[u].state = "WAIT"
    <3>1. CASE k.tcb[t].state = "WAIT"
      <4>1. s = Flg!knl_wait_release(k, t, "E_RLWAI")
        BY <3>1 DEF s
      <4>2. FlgFreed(k, s, t, k.tcb[t].wid, "E_RLWAI", k.gcb[k.tcb[t].wid].flgptn)
        BY <3>1, <4>1, FlgRelease DEF FlgInv, Flg!Error
      <4> QED BY <2>1, <4>2 DEF FlgFreed
    <3>2. CASE k.tcb[t].state # "WAIT"
      BY <2>1, <3>2 DEF s
    <3> QED BY <3>1, <3>2
  <2> QED BY <1>6, <1>9, <2>1 DEF Dropped, SameTask
<1>12. NobodyTold(k, k')
  BY <1>5, <1>6, <1>9, <1>11 DEF NobodyTold, Dropped, SameTask
<1> QED BY <1>10, <1>12, FlgIdle

\* tk_del_flg: the waiters return E_DLT.
LEMMA DelFlg ==
  ASSUME FlgInv(k), NEW o \in Objects, Flg!tk_del_flg(o)
  PROVE  FlgInv(k') /\ Flg!ConsumedOnceStep
<1> DEFINE s == Flg!Fresh(k)
           g == s.gcb[o]
           e == [g EXCEPT !.wait_queue = << >>]
           c == [e EXCEPT !.objid = FALSE, !.flgptn = {}]
           T == [t \in Tasks |-> IF t \in Elems(g.wait_queue)
                                 THEN [s.tcb[t] EXCEPT !.state = "READY", !.wercd = "E_DLT"] ELSE s.tcb[t]]
           G == [s.gcb EXCEPT ![o] = c]
<1>1. k' = [Flg!knl_wait_delete(s, o) EXCEPT !.gcb[o] = [@ EXCEPT !.objid = FALSE, !.flgptn = {}]]
  BY Zenon DEF Flg!tk_del_flg
<1>2. /\ FlgInv(s) /\ s \in Flg!Kernel /\ Exact(s)
      /\ \A f : NobodyTold(s, f) => NobodyTold(k, f)
  BY FlgStart
<1> HIDE DEF s
<1>3. g \in Flg!FLGCB
  BY <1>2, FlgTypes
<1>4. k' = [tcb |-> T, gcb |-> G]
  <2>2. Flg!knl_wait_delete(s, o) = [s EXCEPT !.gcb[o].wait_queue = << >>, !.tcb = T]
    BY FlgQueues, Zenon DEF Flg!knl_wait_delete
  <2>3. s = [tcb |-> s.tcb, gcb |-> s.gcb] /\ s.gcb \in [Objects -> Flg!FLGCB]
    BY <1>2 DEF Flg!Kernel
  <2> DEFINE H == [s.gcb EXCEPT ![o] = e]
  <2>4. Flg!knl_wait_delete(s, o) = [tcb |-> T, gcb |-> H]
    <3> HIDE DEF T, e
    <3>1. [s EXCEPT !.gcb[o].wait_queue = << >>, !.tcb = T] = [s EXCEPT !.gcb = H, !.tcb = T]
      BY Zenon DEF e
    <3> HIDE DEF H
    <3> QED BY <2>2, <2>3, <3>1
  <2>5. k' = [tcb |-> T, gcb |-> [H EXCEPT ![o] = [H[o] EXCEPT !.objid = FALSE, !.flgptn = {}]]]
    <3> HIDE DEF T, H
    <3> DEFINE Z == Flg!knl_wait_delete(s, o)
    <3>1. Z.gcb = H /\ Z = [tcb |-> T, gcb |-> H]
      BY <2>4
    <3> HIDE DEF Z
    <3> DEFINE Y == [Z.gcb EXCEPT ![o] = [@ EXCEPT !.objid = FALSE, !.flgptn = {}]]
    <3>2. k' = [Z EXCEPT !.gcb = Y]
      BY <1>1, Zenon DEF Z
    <3>3. Y = [H EXCEPT ![o] = [H[o] EXCEPT !.objid = FALSE, !.flgptn = {}]]
      BY <3>1
    <3> HIDE DEF Y
    <3> QED BY <3>1, <3>2, <3>3
  <2>6. H[o] = e
    BY <2>3
  <2>7. [H EXCEPT ![o] = c] = G
    <3> HIDE DEF c, e
    <3> QED BY <2>3
  <2> HIDE DEF T, H, G, e
  <2> QED BY <2>5, <2>6, <2>7
<1>5. c \in Flg!FLGCB /\ c.wait_queue = << >>
  <2>1. << >> \in Seq(Tasks) /\ {} \in SUBSET Bits
    OBVIOUS
  <2>2. e \in Flg!FLGCB
    BY <1>3, <2>1, Zenon DEF Flg!FLGCB
  <2>3. e.wait_queue = << >>
    BY <1>3 DEF Flg!FLGCB
  <2> HIDE DEF e
  <2>4. c \in Flg!FLGCB
    BY <2>1, <2>2, Zenon DEF Flg!FLGCB
  <2>5. c.wait_queue = << >>
    BY <2>2, <2>3 DEF Flg!FLGCB
  <2> QED BY <2>4, <2>5
<1>6. Elems(g.wait_queue) = Line(s, o)
  BY <1>2 DEF Exact, QueueIn
<1>7. ASSUME NEW t \in Tasks
      PROVE  /\ T[t] \in Flg!TCB
             /\ t \in Line(s, o) => /\ T[t].state = "READY" /\ T[t].wercd = "E_DLT"
                                    /\ T[t].priority = s.tcb[t].priority
             /\ t \notin Line(s, o) => T[t] = s.tcb[t]
  <2> DEFINE w == s.tcb[t]
             v == [w EXCEPT !.state = "READY", !.wercd = "E_DLT"]
  <2>1. w \in Flg!TCB
    BY <1>2, FlgTypes
  <2>2. v \in Flg!TCB
    BY <2>1, Zenon DEF Flg!TCB, Flg!Error
  <2>3. v.state = "READY" /\ v.wercd = "E_DLT" /\ v.priority = w.priority
    BY <2>1 DEF Flg!TCB
  <2>4. T[t] = IF t \in Line(s, o) THEN v ELSE w
    BY <1>6
  <2> HIDE DEF T, v, w
  <2> QED BY <2>1, <2>2, <2>3, <2>4 DEF w
<1> HIDE DEF c
<1>8. G \in [Objects -> Flg!FLGCB] /\ G[o] = c /\ \A p \in Objects \ {o} : G[p] = s.gcb[p]
  BY <1>2, <1>5 DEF Flg!Kernel
<1>9. T \in [Tasks -> Flg!TCB]
  <2>1. T = [t \in Tasks |-> T[t]]
    OBVIOUS
  <2> HIDE DEF T
  <2> QED BY <1>7, <2>1
<1> HIDE DEF T, G
<1>10. k'.tcb = T /\ k'.gcb = G /\ k' \in Flg!Kernel
  BY <1>4, <1>8, <1>9 DEF Flg!Kernel
<1> HIDE DEF g
<1>11. Exact(k')
  <2>1. \A u \in Tasks : IF u \in Line(s, o) THEN k'.tcb[u].state # "WAIT" /\ k'.tcb[u].priority \in Int
                         ELSE SameTask(s, k', u)
    <3>1. \A u \in Tasks : s.tcb[u].priority \in Int
      BY <1>2 DEF Exact
    <3> QED BY <1>7, <1>10, <3>1 DEF SameTask
  <2>2. \A p \in Objects \ {o} : SameQueue(s, k', p)
    BY <1>8, <1>10 DEF SameQueue, SameKind
  <2>3. k'.gcb[o].wait_queue = << >>
    BY <1>5, <1>8, <1>10
  <2> QED BY <1>2, <2>1, <2>2, <2>3, EmptyExact
<1>12. \A u \in Tasks : k'.tcb[u].state = "WAIT" => u \notin Line(s, o) /\ k'.tcb[u] = s.tcb[u]
  BY <1>7, <1>10
<1>13. ASSUME NEW p \in Objects
       PROVE  FlgSound(k', p)
  <2>1. CASE p = o
    <3>1. Line(k', o) = {}
      BY <1>12 DEF Line
    <3> QED BY <2>1, <3>1 DEF FlgSound
  <2>2. CASE p # o
    <3>1. FlgLess(s, k', p)
      BY <1>8, <1>10, <1>12, <2>2 DEF FlgLess, StillWaits, Line
    <3> QED BY <1>2, <3>1, FlgLessSound DEF FlgInv
  <2> QED BY <2>1, <2>2
<1>14. NobodyTold(s, k')
  BY <1>7, <1>10 DEF NobodyTold
<1> QED BY <1>2, <1>10, <1>11, <1>13, <1>14, FlgIdle DEF FlgInv

\* tk_chg_pri: the task with its new priority, and its place in the queue.
LEMMA FlgChgPri ==
  ASSUME FlgInv(k), NEW t \in Tasks, NEW pri \in Flg!Pri, Flg!tk_chg_pri(t, pri)
  PROVE  FlgInv(k') /\ Flg!ConsumedOnceStep
<1> DEFINE z == Flg!Fresh(k)
           v == z.tcb[t]
           o == v.wid
           w == [v EXCEPT !.priority = pri]
           s == SetTask(z, t, w)
           M == k.tcb[t].state = "WAIT" /\ k.gcb[k.tcb[t].wid].tpri
<1>1. k' = IF M THEN Flg!knl_gcb_change_priority(s, t) ELSE s
  BY Zenon DEF Flg!tk_chg_pri, SetTask
<1>2. /\ FlgInv(z) /\ z \in Flg!Kernel /\ Exact(z) /\ z.gcb = k.gcb
      /\ v.state = k.tcb[t].state /\ v.wid = k.tcb[t].wid
      /\ \A f : NobodyTold(z, f) => NobodyTold(k, f)
  BY FlgStart
<1> HIDE DEF z
<1>3. v \in Flg!TCB /\ o \in Objects
  <2>1. v \in Flg!TCB
    BY <1>2, FlgTypes
  <2> QED BY <2>1 DEF Flg!TCB
<1>4. w \in Flg!TCB
  BY <1>3, Zenon DEF Flg!TCB
<1>5. /\ w.state = v.state /\ w.wid = v.wid /\ w.waiptn = v.waiptn /\ w.wfmode = v.wfmode
      /\ w.priority \in Int
  BY <1>3 DEF Flg!TCB, Flg!Pri
<1> HIDE DEF w
<1>6. s \in Flg!Kernel /\ s.tcb[t] = w /\ s.gcb = z.gcb /\ \A u \in Tasks \ {t} : s.tcb[u] = z.tcb[u]
  BY <1>2, <1>4, FlgTask
<1> HIDE DEF s
<1>7. \A u \in Tasks : /\ s.tcb[u].state = z.tcb[u].state /\ s.tcb[u].wid = z.tcb[u].wid
                       /\ s.tcb[u].waiptn = z.tcb[u].waiptn /\ s.tcb[u].wfmode = z.tcb[u].wfmode
  BY <1>5, <1>6
<1>8. SUFFICES /\ k' \in Flg!Kernel /\ Exact(k') /\ k'.tcb = s.tcb
               /\ \A p \in Objects : k'.gcb[p].wmul = z.gcb[p].wmul /\ k'.gcb[p].flgptn = z.gcb[p].flgptn
  <2>1. \A p \in Objects : FlgLess(z, k', p)
    BY <1>7, <1>8 DEF FlgLess, StillWaits, Line
  <2>2. NobodyTold(z, k')
    BY <1>7, <1>8 DEF NobodyTold
  <2> QED BY <1>2, <1>8, <2>1, <2>2, FlgLessKeeps, FlgIdle
<1>9. CASE ~M
  <2>1. k' = s
    BY <1>1, <1>9
  <2>2. \A u \in Tasks \ {t} : SameTask(z, s, u)
    BY <1>6 DEF SameTask
  <2>3. \A p \in Objects : SameQueue(z, s, p)
    BY <1>6 DEF SameQueue, SameKind
  <2>4. z.tcb[t].state = "WAIT" => ~z.gcb[z.tcb[t].wid].tpri
    BY <1>2, <1>9
  <2>5. s.tcb[t].state = z.tcb[t].state /\ s.tcb[t].wid = z.tcb[t].wid /\ s.tcb[t].priority \in Int
    BY <1>5, <1>6
  <2>6. Exact(s)
    BY <1>2, <2>2, <2>3, <2>4, <2>5, RepriExact
  <2> QED BY <1>6, <2>1, <2>6
<1>10. CASE M
  <2> DEFINE g == z.gcb[o]
             q == g.wait_queue
             d == knl_queue_insert_tpri(QueRemove(q, t), t, Prios(s))
             c == [g EXCEPT !.wait_queue = d]
  <2>1. s.tcb[t].wid = o /\ s.gcb[o] = g /\ g \in Flg!FLGCB
    BY <1>2, <1>3, <1>5, <1>6, FlgTypes
  <2>2. k' = SetObj(s, o, c)
    BY <1>1, <1>10, <2>1, FlgQueues, Zenon DEF Flg!knl_gcb_change_priority, SetObj
  <2>3. Prios(s) \in [Tasks -> Int]
    <3>1. \A u \in Tasks : s.tcb[u].priority \in Int
      BY <1>6, FlgTypes
    <3> QED BY <3>1 DEF Prios
  <2>4. d \in Seq(Tasks)
    <3>1. q \in Seq(Tasks) /\ Injective(q)
      BY <1>2, <1>3 DEF Exact, QueueIn
    <3> HIDE DEF q
    <3>2. QueRemove(q, t) \in Seq(Tasks) /\ Elems(QueRemove(q, t)) = Elems(q) \ {t} /\ Injective(QueRemove(q, t))
      BY <3>1, QueRemoveFacts
    <3>3. t \notin Elems(QueRemove(q, t))
      BY <3>2
    <3> QED BY <2>3, <3>2, <3>3, TpriFacts
  <2> HIDE DEF d
  <2>5. c \in Flg!FLGCB
    BY <2>1, <2>4, Zenon DEF Flg!FLGCB
  <2>6. c.wait_queue = d /\ c.objid = g.objid /\ c.tpri = g.tpri /\ c.wmul = g.wmul /\ c.flgptn = g.flgptn
    BY <2>1 DEF Flg!FLGCB
  <2> HIDE DEF c
  <2>7. k' \in Flg!Kernel /\ k'.gcb[o] = c /\ k'.tcb = s.tcb /\ \A p \in Objects \ {o} : k'.gcb[p] = s.gcb[p]
    BY <1>3, <1>6, <2>2, <2>5, FlgObject
  <2>8. Exact(k')
    <3>1. \A u \in Tasks \ {t} : SameTask(z, k', u)
      BY <1>6, <2>7 DEF SameTask
    <3>2. \A p \in Objects \ {o} : SameQueue(z, k', p)
      BY <1>6, <2>7 DEF SameQueue, SameKind
    <3>3. SameKind(z, k', o)
      BY <2>6, <2>7 DEF SameKind
    <3>4. Prios(k') = Prios(s)
      BY <2>7 DEF Prios
    <3>5. k'.gcb[o].wait_queue = knl_queue_insert_tpri(QueRemove(z.gcb[o].wait_queue, t), t, Prios(k'))
      BY <2>6, <2>7, <3>4, Zenon DEF d
    <3>6. k'.tcb[t].state = "WAIT" /\ k'.tcb[t].wid = o /\ k'.tcb[t].priority \in Int
      BY <1>2, <1>5, <1>6, <1>10, <2>7
    <3>7. z.tcb[t].state = "WAIT" /\ z.tcb[t].wid = o
      BY <1>2, <1>10
    <3> HIDE DEF o
    <3> QED BY <1>2, <1>3, <3>1, <3>2, <3>3, <3>5, <3>6, <3>7, MoveExact
  <2>9. \A p \in Objects : k'.gcb[p].wmul = z.gcb[p].wmul /\ k'.gcb[p].flgptn = z.gcb[p].flgptn
    BY <1>6, <2>6, <2>7
  <2> QED BY <2>7, <2>8, <2>9
<1> QED BY <1>9, <1>10

\* tk_wai_flg when the condition holds: what the wait clears is gone.
LEMMA WaiFlgGets ==
  ASSUME FlgInv(k), NEW t \in Tasks, NEW o \in Objects, NEW p \in SUBSET Bits, NEW m \in Modes,
         Flg!tk_wai_flg(t, o, p, m), Satisfied(k.gcb[o].flgptn, p, m)
  PROVE  FlgInv(k') /\ Flg!ConsumedOnceStep
<1> DEFINE s == Flg!Fresh(k)
           g == s.gcb[o]
           v == g.flgptn
           n == Kept(v, p, m)
           w == [s.tcb[t] EXCEPT !.flgptn = v]
           c == [g EXCEPT !.flgptn = n]
           y == SetTask(s, t, w)
<1>1. /\ FlgInv(s) /\ s \in Flg!Kernel /\ s.gcb = k.gcb /\ s.tcb[t].state = k.tcb[t].state
      /\ \A f : NobodyTold(s, f) => NobodyTold(k, f)
  BY FlgStart
<1>2. k.tcb[t].state = "READY" /\ k' = SetObj(y, o, c)
  <2>1. k' = [s EXCEPT !.tcb[t].flgptn = v, !.gcb[o].flgptn = n]
    BY <1>1, FlgConds, Zenon DEF Flg!tk_wai_flg
  <2>2. k.tcb[t].state = "READY"
    BY DEF Flg!tk_wai_flg
  <2> HIDE DEF s
  <2> QED BY <2>1, <2>2, Zenon DEF SetTask, SetObj
<1> HIDE DEF s
<1>3. g \in Flg!FLGCB /\ s.tcb[t] \in Flg!TCB
  BY <1>1, FlgTypes
<1>4. v \in SUBSET Bits /\ n \in SUBSET Bits /\ n \subseteq v
  <2>1. v \in SUBSET Bits
    BY <1>3 DEF Flg!FLGCB
  <2> QED BY <2>1, KeptShrinks
<1> HIDE DEF v, n
<1>5. w \in Flg!TCB
  BY <1>3, <1>4, Zenon DEF Flg!TCB
<1>6. w.state = s.tcb[t].state
  BY <1>3 DEF Flg!TCB
<1>7. c \in Flg!FLGCB
  BY <1>3, <1>4, Zenon DEF Flg!FLGCB
<1>8. c.wait_queue = g.wait_queue /\ c.objid = g.objid /\ c.tpri = g.tpri /\ c.wmul = g.wmul /\ c.flgptn = n
  BY <1>3 DEF Flg!FLGCB
<1> HIDE DEF w, c
<1>9. y \in Flg!Kernel /\ y.tcb[t] = w /\ y.gcb = s.gcb /\ \A u \in Tasks \ {t} : y.tcb[u] = s.tcb[u]
  BY <1>1, <1>5, FlgTask
<1> HIDE DEF y
<1>10. k' \in Flg!Kernel /\ k'.gcb[o] = c /\ k'.tcb = y.tcb /\ \A q \in Objects \ {o} : k'.gcb[q] = y.gcb[q]
  BY <1>2, <1>7, <1>9, FlgObject
<1>11. \A q \in Objects : /\ SameQueue(s, k', q) /\ k'.gcb[q].wmul = s.gcb[q].wmul
                          /\ k'.gcb[q].flgptn \subseteq s.gcb[q].flgptn
  BY <1>4, <1>8, <1>9, <1>10 DEF SameQueue, SameKind, v
<1>12. FlgInv(k') /\ NobodyTold(s, k')
  <2>1. s.tcb[t].state # "WAIT" /\ k'.tcb[t].state # "WAIT" /\ \A u \in Tasks \ {t} : k'.tcb[u] = s.tcb[u]
    BY <1>1, <1>2, <1>6, <1>9, <1>10
  <2> QED BY <1>1, <1>10, <1>11, <2>1, FlgQuiet
<1> QED BY <1>1, <1>12, FlgIdle

\* tk_wai_flg when the caller has to wait.
LEMMA WaiFlgWaits ==
  ASSUME FlgInv(k), NEW t \in Tasks, NEW o \in Objects, NEW p \in SUBSET Bits, NEW m \in Modes,
         Flg!tk_wai_flg(t, o, p, m), ~Satisfied(k.gcb[o].flgptn, p, m)
  PROVE  FlgInv(k') /\ Flg!ConsumedOnceStep
<1> DEFINE z == Flg!Fresh(k)
           v == z.tcb[t]
           x == [v EXCEPT !.waiptn = p, !.wfmode = m]
           w == [x EXCEPT !.state = "WAIT", !.wid = o, !.wercd = "E_TMOUT"]
           s == SetTask(z, t, x)
           g == z.gcb[o]
           q == g.wait_queue
           d == IF g.tpri THEN knl_queue_insert_tpri(q, t, Prios(z)) ELSE QueInsert(q, t)
           c == [g EXCEPT !.wait_queue = d]
           y == SetObj(s, o, c)
<1>1. /\ FlgInv(z) /\ z \in Flg!Kernel /\ Exact(z) /\ z.gcb = k.gcb /\ v.state = k.tcb[t].state
      /\ \A f : NobodyTold(z, f) => NobodyTold(k, f)
  BY FlgStart
<1>2. /\ k.tcb[t].state = "READY" /\ g.objid /\ p # {} /\ (g.wmul \/ q = << >>)
      /\ k' = Flg!knl_gcb_make_wait(s, t, o)
  <2>1. k' = Flg!knl_gcb_make_wait([z EXCEPT !.tcb[t].waiptn = p, !.tcb[t].wfmode = m], t, o)
    BY FlgConds, Zenon DEF Flg!tk_wai_flg
  <2>2. /\ k.tcb[t].state = "READY" /\ g.objid /\ p # {} /\ (g.wmul \/ q = << >>)
    BY <1>1 DEF Flg!tk_wai_flg, Flg!SingleWait
  <2>3. [z EXCEPT !.tcb[t].waiptn = p, !.tcb[t].wfmode = m] = s
    <3> HIDE DEF z
    <3>1. z.tcb \in [Tasks -> Flg!TCB]
      BY <1>1 DEF Flg!Kernel
    <3> DEFINE A == [z.tcb EXCEPT ![t] = [z.tcb[t] EXCEPT !.waiptn = p]]
               B == [A EXCEPT ![t] = [A[t] EXCEPT !.wfmode = m]]
               C == [z.tcb EXCEPT ![t] = x]
    <3>2. [z EXCEPT !.tcb[t].waiptn = p, !.tcb[t].wfmode = m] = [z EXCEPT !.tcb = B]
      BY <1>1 DEF Flg!Kernel
    <3>3. A[t] = [z.tcb[t] EXCEPT !.waiptn = p]
      BY <3>1
    <3>4. [A[t] EXCEPT !.wfmode = m] = x
      BY <3>3
    <3>5. B = C
      BY <3>1, <3>4
    <3> QED BY <3>2, <3>5 DEF SetTask
  <2> QED BY <2>1, <2>2, <2>3
<1> HIDE DEF z
<1>3. v \in Flg!TCB /\ g \in Flg!FLGCB
  BY <1>1, FlgTypes
<1>4. x \in Flg!TCB
  <2>1. m \in Modes \cup {{}}
    OBVIOUS
  <2> QED BY <1>3, <2>1, Zenon DEF Flg!TCB
<1>5. x.waiptn = p /\ x.wfmode = m /\ x.priority = v.priority
  BY <1>3 DEF Flg!TCB
<1> HIDE DEF x
<1>6. s \in Flg!Kernel /\ s.tcb[t] = x /\ s.gcb = z.gcb /\ \A u \in Tasks \ {t} : s.tcb[u] = z.tcb[u]
  BY <1>1, <1>4, FlgTask
<1> HIDE DEF s
<1>7. Prios(s) = Prios(z) /\ Prios(z) \in [Tasks -> Int]
  <2>1. \A u \in Tasks : s.tcb[u].priority = z.tcb[u].priority
    BY <1>5, <1>6
  <2>2. \A u \in Tasks : z.tcb[u].priority \in Int
    BY <1>1 DEF Exact
  <2> QED BY <2>1, <2>2 DEF Prios
<1>8. k' = SetTask(y, t, w)
  <2>1. s.gcb[o] = g /\ s.tcb[t] = x
    BY <1>6
  <2>2. Flg!QueueFor(s, q, t, g.tpri) = d
    BY <1>7, FlgQueues, Zenon DEF Flg!QueueFor
  <2> HIDE DEF d
  <2> QED BY <1>2, <2>1, <2>2, Zenon DEF Flg!knl_gcb_make_wait, SetTask, SetObj
<1>9. q \in Seq(Tasks) /\ Injective(q) /\ Elems(q) = Line(z, o) /\ t \notin Elems(q)
  BY <1>1, <1>2 DEF Exact, QueueIn, Line
<1>10. d \in Seq(Tasks)
  <2>1. CASE g.tpri
    <3> HIDE DEF q
    <3> QED BY <1>7, <1>9, <2>1, TpriFacts
  <2>2. CASE ~g.tpri
    <3> HIDE DEF q
    <3> QED BY <1>9, <2>2, QueInsertFacts
  <2> QED BY <2>1, <2>2
<1>11. c \in Flg!FLGCB
  <2> HIDE DEF d
  <2> QED BY <1>3, <1>10, Zenon DEF Flg!FLGCB
<1>12. c.wait_queue = d /\ c.objid = g.objid /\ c.tpri = g.tpri /\ c.wmul = g.wmul /\ c.flgptn = g.flgptn
  <2> HIDE DEF d, g
  <2> QED BY <1>3 DEF Flg!FLGCB
<1>13. w \in Flg!TCB
  BY <1>4, Zenon DEF Flg!TCB, Flg!Error
<1>14. w.state = "WAIT" /\ w.wid = o /\ w.waiptn = p /\ w.wfmode = m /\ w.priority = v.priority
  BY <1>4, <1>5 DEF Flg!TCB
<1> HIDE DEF c, w
<1>15. y \in Flg!Kernel /\ y.gcb[o] = c /\ y.tcb = s.tcb /\ \A r \in Objects \ {o} : y.gcb[r] = s.gcb[r]
  BY <1>6, <1>11, FlgObject
<1> HIDE DEF y
<1>16. k' \in Flg!Kernel /\ k'.tcb[t] = w /\ k'.gcb = y.gcb /\ \A u \in Tasks \ {t} : k'.tcb[u] = y.tcb[u]
  <2> HIDE DEF d, q, g
  <2>1. LET f == SetTask(y, t, w)
        IN  f \in Flg!Kernel /\ f.tcb[t] = w /\ f.gcb = y.gcb /\ \A u \in Tasks \ {t} : f.tcb[u] = y.tcb[u]
    BY <1>13, <1>15, FlgTask
  <2> QED BY <1>8, <2>1
<1>17. /\ \A u \in Tasks \ {t} : k'.tcb[u] = z.tcb[u]
       /\ \A r \in Objects \ {o} : k'.gcb[r] = z.gcb[r]
       /\ k'.gcb[o] = c
  BY <1>6, <1>15, <1>16
<1>18. Exact(k')
  <2>1. \A u \in Tasks \ {t} : SameTask(z, k', u)
    BY <1>17 DEF SameTask
  <2>2. \A r \in Objects \ {o} : SameQueue(z, k', r)
    BY <1>17 DEF SameQueue, SameKind
  <2>3. SameKind(z, k', o)
    BY <1>12, <1>17 DEF SameKind
  <2>4. k'.gcb[o].wait_queue = IF z.gcb[o].tpri THEN knl_queue_insert_tpri(z.gcb[o].wait_queue, t, Prios(z))
                               ELSE QueInsert(z.gcb[o].wait_queue, t)
    BY <1>12, <1>17
  <2>5. k'.tcb[t].state = "WAIT" /\ k'.tcb[t].wid = o /\ k'.tcb[t].priority = z.tcb[t].priority
    BY <1>14, <1>16
  <2>6. z.tcb[t].state # "WAIT" /\ z.gcb[o].objid
    BY <1>1, <1>2
  <2> QED BY <1>1, <2>1, <2>2, <2>3, <2>4, <2>5, <2>6, JoinExact
<1>19. ASSUME NEW r \in Objects
       PROVE  FlgSound(k', r)
  <2>1. CASE r # o
    <3>1. FlgLess(z, k', r)
      BY <1>14, <1>16, <1>17, <2>1 DEF FlgLess, StillWaits, Line
    <3> QED BY <1>1, <3>1, FlgLessSound DEF FlgInv
  <2>2. CASE r = o
    <3>1. Line(k', o) = Line(z, o) \cup {t}
      BY <1>1, <1>2, <1>14, <1>16, <1>17 DEF Line
    <3>2. g.wmul \/ Line(z, o) = {}
      BY <1>2, <1>9 DEF Elems
    <3>3. k'.gcb[o].wmul \/ \A a, b \in Line(k', o) : a = b
      BY <1>12, <1>17, <3>1, <3>2
    <3>4. ASSUME NEW u \in Line(z, o)
          PROVE  k'.tcb[u].waiptn # {} /\ Unmet(k', o, u)
      <4>1. k'.tcb[u] = z.tcb[u]
        BY <1>1, <1>2, <1>17 DEF Line
      <4>2. z.tcb[u].waiptn # {} /\ Unmet(z, o, u)
        BY <1>1 DEF FlgInv, FlgSound
      <4> QED BY <1>12, <1>17, <4>1, <4>2 DEF Unmet
    <3>5. k'.tcb[t].waiptn # {} /\ Unmet(k', o, t)
      BY <1>1, <1>2, <1>12, <1>14, <1>16, <1>17 DEF Unmet
    <3> QED BY <2>2, <3>1, <3>3, <3>4, <3>5 DEF FlgSound
  <2> QED BY <2>1, <2>2
<1>20. NobodyTold(z, k')
  BY <1>14, <1>16, <1>17 DEF NobodyTold
<1> QED BY <1>1, <1>16, <1>18, <1>19, <1>20, FlgIdle DEF FlgInv

\* tk_set_flg.
LEMMA SetFlg ==
  ASSUME FlgInv(k), NEW o \in Objects, NEW p \in SUBSET Bits, Flg!tk_set_flg(o, p)
  PROVE  FlgInv(k') /\ Flg!ConsumedOnceStep
<1> DEFINE z == Flg!Fresh(k)
           g == z.gcb[o]
           v == g.flgptn \cup p
           c == [g EXCEPT !.flgptn = v]
           s == SetObj(z, o, c)
           q == k.gcb[o].wait_queue
<1>1. k' = Flg!ReleaseAll(s, o)
  BY Zenon DEF Flg!tk_set_flg, SetObj
<1>2. /\ FlgInv(z) /\ z \in Flg!Kernel /\ Exact(z) /\ z.gcb = k.gcb
      /\ \A u \in Tasks : z.tcb[u].state = k.tcb[u].state /\ z.tcb[u].wid = k.tcb[u].wid
      /\ \A u \in Tasks : k.tcb[u].state = "WAIT" => z.tcb[u] = k.tcb[u]
  BY FlgStart
<1> HIDE DEF z
<1>3. g \in Flg!FLGCB
  BY <1>2, FlgTypes
<1>4. v \in SUBSET Bits
  BY <1>3 DEF Flg!FLGCB
<1> HIDE DEF v
<1>5. c \in Flg!FLGCB
  BY <1>3, <1>4, Zenon DEF Flg!FLGCB
<1>6. c.wait_queue = g.wait_queue /\ c.objid = g.objid /\ c.tpri = g.tpri /\ c.wmul = g.wmul /\ c.flgptn = v
  BY <1>3 DEF Flg!FLGCB
<1> HIDE DEF c
<1>7. s \in Flg!Kernel /\ s.gcb[o] = c /\ s.tcb = z.tcb /\ \A x \in Objects \ {o} : s.gcb[x] = z.gcb[x]
  BY <1>2, <1>5, FlgObject
<1> HIDE DEF s
<1>8. Exact(s) /\ \A x \in Objects : Line(s, x) = Line(z, x) /\ Line(k, x) = Line(z, x)
  <2>1. \A u \in Tasks : SameTask(z, s, u)
    BY <1>7 DEF SameTask
  <2>2. \A x \in Objects : SameQueue(z, s, x)
    BY <1>6, <1>7 DEF SameQueue, SameKind
  <2>3. \A x \in Objects : Line(s, x) = Line(z, x) /\ Line(k, x) = Line(z, x)
    BY <1>2, <1>7 DEF Line
  <2> QED BY <1>2, <2>1, <2>2, <2>3, SameExact
<1>9. \A t \in Line(s, o) : s.tcb[t].waiptn # {}
  BY <1>2, <1>7, <1>8 DEF FlgInv, FlgSound
<1>10. /\ FlgPart(s, k', o, s.gcb[o].wait_queue)
       /\ \A t \in Line(k', o) : t \in Line(s, o) /\ k'.tcb[t] = s.tcb[t] /\ Unmet(k', o, t)
  BY <1>1, <1>7, <1>8, <1>9, ReleaseAllFacts
<1>11. s.gcb[o].wait_queue = q
  BY <1>2, <1>6, <1>7
<1> DEFINE S == Took(s, k', o)
<1>12. S \subseteq Tasks /\ \A t \in Tasks \ S : k'.tcb[t] = z.tcb[t]
  BY <1>7, <1>10 DEF FlgPart, Took, Line
<1>13. ASSUME NEW x \in Objects
       PROVE  FlgSound(k', x)
  <2>1. CASE x = o
    <3>1. k'.gcb[o].wmul = z.gcb[o].wmul
      BY <1>6, <1>7, <1>10 DEF FlgPart
    <3>2. \A t \in Line(k', o) : t \in Line(z, o)
      BY <1>8, <1>10
    <3>3. z.gcb[o].wmul \/ \A t, u \in Line(z, o) : t = u
      BY <1>2 DEF FlgInv, FlgSound
    <3>4. \A t \in Line(k', o) : k'.tcb[t].waiptn # {} /\ Unmet(k', o, t)
      BY <1>9, <1>10
    <3> QED BY <2>1, <3>1, <3>2, <3>3, <3>4 DEF FlgSound
  <2>2. CASE x # o
    <3>1. k'.gcb[x] = z.gcb[x]
      BY <1>7, <1>10, <2>2 DEF FlgPart
    <3>2. ASSUME NEW u \in Line(k', x)
          PROVE  u \in Line(z, x) /\ StillWaits(z, k', u)
      <4>1. u \in Tasks /\ k'.tcb[u].state = "WAIT" /\ k'.tcb[u].wid = x
        BY DEF Line
      <4>2. u \notin S
        BY <4>1 DEF Took
      <4> QED BY <1>12, <4>1, <4>2 DEF Line, StillWaits
    <3>3. FlgLess(z, k', x)
      BY <3>1, <3>2 DEF FlgLess
    <3> QED BY <1>2, <3>3, FlgLessSound DEF FlgInv
  <2> QED BY <2>1, <2>2
<1>14. FlgInv(k')
  BY <1>10, <1>13 DEF FlgInv, FlgPart
<1>15. \A t \in S : /\ s.tcb[t] = k.tcb[t] /\ t \in Line(k, o)
                    /\ Satisfied(k'.tcb[t].flgptn, k.tcb[t].waiptn, k.tcb[t].wfmode)
                    /\ Gone(s, k', t) = Gone(k, k', t)
                    /\ k'.gcb[o].flgptn \cap Gone(k, k', t) = {}
  <2>1. ASSUME NEW t \in S
        PROVE  s.tcb[t] = k.tcb[t] /\ t \in Line(k, o)
    <3>1. t \in Line(k, o) /\ t \in Tasks
      BY <1>8 DEF Took, Line
    <3> QED BY <1>2, <1>7, <3>1 DEF Line
  <2>2. \A t \in S : Gone(s, k', t) = Gone(k, k', t)
    BY <2>1 DEF Gone
  <2> QED BY <1>10, <2>1, <2>2 DEF FlgPart
<1>16. ASSUME NEW x \in Objects
       PROVE  Flg!Released(x) \subseteq S /\ (x # o => Flg!Released(x) = {})
  <2>1. ASSUME NEW t \in Flg!Released(x)
        PROVE  t \in S /\ x = o
    <3>1. t \in Tasks /\ k.tcb[t].state = "WAIT" /\ k.tcb[t].wid = x /\ k'.tcb[t].state = "READY"
      BY <2>1 DEF Flg!Released, Flg!Waiters
    <3>2. t \in S
      BY <1>2, <1>12, <3>1
    <3>3. t \in Line(k, o)
      BY <1>15, <3>2
    <3> QED BY <3>1, <3>2, <3>3 DEF Line
  <2> QED BY <2>1
<1>17. \A j, l \in DOMAIN q : j < l /\ q[j] \in S /\ q[l] \in S
           => k'.tcb[q[l]].flgptn \cap Gone(k, k', q[j]) = {}
  <2>1. \A j, l \in DOMAIN q : j < l /\ q[j] \in S /\ q[l] \in S
           => k'.tcb[q[l]].flgptn \cap Gone(s, k', q[j]) = {}
    BY <1>10, <1>11 DEF FlgPart
  <2> HIDE DEF S, q
  <2> QED BY <1>15, <2>1
<1>18. Flg!ConsumedOnceStep
  <2> SUFFICES ASSUME NEW x \in Objects, NEW i \in DOMAIN k.gcb[x].wait_queue,
                      k.gcb[x].wait_queue[i] \in Flg!Released(x)
               PROVE  LET r == k.gcb[x].wait_queue
                      IN  /\ Satisfied(k'.tcb[r[i]].flgptn, k.tcb[r[i]].waiptn, k.tcb[r[i]].wfmode)
                          /\ k'.gcb[x].flgptn \cap Gone(k, k', r[i]) = {}
                          /\ \A j \in DOMAIN r : j > i /\ r[j] \in Flg!Released(x)
                               => k'.tcb[r[j]].flgptn \cap Gone(k, k', r[i]) = {}
    BY FlgConds, Zenon DEF Flg!ConsumedOnceStep, Gone
  <2>1. x = o
    BY <1>16
  <2>2. i \in DOMAIN q /\ q[i] \in S
    BY <1>16, <2>1
  <2>3. \A j \in DOMAIN q : j > i /\ q[j] \in Flg!Released(x) => i < j /\ q[j] \in S
    <3>1. q \in Seq(Tasks)
      BY <1>2 DEF Exact, QueueIn
    <3>2. \A j \in DOMAIN q : j \in Int
      BY <3>1
    <3> QED BY <1>16, <2>2, <3>2
  <2> HIDE DEF S
  <2> QED BY <1>15, <1>17, <2>1, <2>2, <2>3
<1> QED BY <1>14, <1>18

\* The initial state.
LEMMA FlgInit ==
  ASSUME Flg!Init
  PROVE  FlgInv(k)
<1> DEFINE z == [objid |-> FALSE, tpri |-> FALSE, wmul |-> FALSE, flgptn |-> {}, wait_queue |-> << >>]
<1>1. PICK x \in Objects :
        /\ k = [tcb |-> k.tcb, gcb |-> k.gcb]
        /\ k.tcb \in [Tasks -> [state : {"READY"}, priority : Flg!Pri, wid : {x}, wercd : {"E_OK"},
                                waiptn : {{}}, wfmode : {{}}, flgptn : {{}}]]
        /\ k.gcb = [o \in Objects |-> z]
  BY DEF Flg!Init
<1>2. \A o \in Objects : k.gcb[o] = z
  BY <1>1
<1>3. z \in Flg!FLGCB
  <2>1. << >> \in Seq(Tasks) /\ {} \in SUBSET Bits
    OBVIOUS
  <2> QED BY <2>1, Zenon DEF Flg!FLGCB
<1>4. z.wait_queue = << >> /\ ~z.objid
  OBVIOUS
<1> HIDE DEF z
<1>5. ASSUME NEW t \in Tasks
      PROVE  k.tcb[t] \in Flg!TCB /\ k.tcb[t].state = "READY" /\ k.tcb[t].priority \in Int
  <2>1. k.tcb[t] \in [state : {"READY"}, priority : Flg!Pri, wid : {x}, wercd : {"E_OK"},
                      waiptn : {{}}, wfmode : {{}}, flgptn : {{}}]
    BY <1>1
  <2>2. k.tcb[t] \in Flg!TCB /\ k.tcb[t].state = "READY"
    BY <2>1 DEF Flg!TCB, Flg!Error
  <2> QED BY <2>2 DEF Flg!TCB, Flg!Pri
<1>6. k \in Flg!Kernel
  <2>1. k.tcb \in [Tasks -> Flg!TCB]
    BY <1>1, <1>5
  <2>2. k.gcb \in [Objects -> Flg!FLGCB]
    BY <1>1, <1>3
  <2> QED BY <1>1, <2>1, <2>2 DEF Flg!Kernel
<1>7. \A o \in Objects : Line(k, o) = {}
  BY <1>5 DEF Line
<1>8. Exact(k)
  <2>1. ASSUME NEW o \in Objects
        PROVE  QueueIn(k, o)
    <3>1. << >> \in Seq(Tasks) /\ Injective(<< >>) /\ Elems(<< >>) = {} /\ Sorted(<< >>, Prios(k))
      BY DEF Injective, Elems, Sorted
    <3>2. k.gcb[o].wait_queue = << >>
      BY <1>2, <1>4
    <3> QED BY <1>7, <3>1, <3>2, Zenon DEF QueueIn
  <2> QED BY <1>5, <2>1 DEF Exact
<1>9. \A o \in Objects : FlgSound(k, o)
  BY <1>7 DEF FlgSound
<1> QED BY <1>6, <1>8, <1>9 DEF FlgInv

\* Every step keeps the invariant and consumes an event once.
LEMMA FlgStep ==
  ASSUME FlgInv(k), Flg!Next
  PROVE  FlgInv(k') /\ Flg!ConsumedOnceStep
<1>1. CASE \E o \in Objects, p \in SUBSET Bits : \E tpri, wmul \in BOOLEAN : Flg!tk_cre_flg(o, tpri, wmul, p)
  BY <1>1, CreFlg
<1>2. CASE \E o \in Objects, p \in SUBSET Bits : Flg!tk_set_flg(o, p)
  BY <1>2, SetFlg
<1>3. CASE \E o \in Objects, p \in SUBSET Bits : Flg!tk_clr_flg(o, p)
  BY <1>3, ClrFlg
<1>4. CASE \E o \in Objects, p \in SUBSET Bits : \E t \in Tasks, m \in Modes : Flg!tk_wai_flg(t, o, p, m)
  BY <1>4, WaiFlgGets, WaiFlgWaits
<1>5. CASE \E o \in Objects : Flg!tk_del_flg(o)
  BY <1>5, DelFlg
<1>6. CASE \E t \in Tasks : \E e \in {"E_TMOUT", "E_RLWAI"} : Flg!knl_wait_release_ng(t, e)
  BY <1>6, FlgReleaseNg
<1>7. CASE \E t \in Tasks : Flg!tk_ter_tsk(t)
  BY <1>7, FlgTerminate
<1>8. CASE \E t \in Tasks : Flg!tk_sta_tsk(t)
  BY <1>8, FlgStartTask
<1>9. CASE \E t \in Tasks : \E pri \in Flg!Pri : Flg!tk_chg_pri(t, pri)
  BY <1>9, FlgChgPri
<1> QED BY <1>1, <1>2, <1>3, <1>4, <1>5, <1>6, <1>7, <1>8, <1>9, Zenon DEF Flg!Next

\* What the runs check of an event flag follows.
LEMMA FlgMeans ==
  ASSUME FlgInv(k)
  PROVE  /\ Flg!TypeOK /\ Flg!NoSatisfiedWaiter
         /\ \A o \in Objects : Flg!QueueExact(k, o, k.gcb[o].tpri)
<1>1. Flg!TypeOK
  <2> SUFFICES ASSUME NEW o \in Objects, ~k.gcb[o].wmul
               PROVE  LET q == k.gcb[o].wait_queue IN Elems(q) = Flg!knl_wait_tskid(q)
    BY FlgQueues DEF Flg!TypeOK, Flg!td_lst_flg, Flg!td_flg_que, Flg!td_ref_flg, Flg!tk_ref_flg, FlgInv
  <2> DEFINE q == k.gcb[o].wait_queue
  <2>1. q \in Seq(Tasks) /\ Injective(q) /\ \A a, b \in Elems(q) : a = b
    BY DEF FlgInv, FlgSound, Exact, QueueIn
  <2> HIDE DEF q
  <2>2. \A i \in DOMAIN q : i = 1
    <3> SUFFICES ASSUME NEW i \in DOMAIN q
                 PROVE  i = 1
      OBVIOUS
    <3>1. 1 \in DOMAIN q
      BY <2>1
    <3>2. q[i] = q[1]
      BY <2>1, <3>1 DEF Elems
    <3> QED BY <2>1, <3>1, <3>2 DEF Injective
  <2>3. Elems(q) = {q[i] : i \in DOMAIN q \cap {1}}
    BY <2>2 DEF Elems
  <2> QED BY <2>3 DEF Flg!knl_wait_tskid, q
<1>2. Flg!NoSatisfiedWaiter
  <2> SUFFICES ASSUME NEW o \in Objects, NEW t \in Line(k, o)
               PROVE  ~Satisfied(k.gcb[o].flgptn, k.tcb[t].waiptn, k.tcb[t].wfmode)
    BY FlgQueues, FlgConds, Zenon DEF Flg!NoSatisfiedWaiter, Flg!td_lst_flg, Flg!tk_ref_flg
  <2> QED BY DEF FlgInv, FlgSound, Unmet
<1>3. \A o \in Objects : Flg!QueueExact(k, o, k.gcb[o].tpri)
  BY FlgQueues, Zenon DEF FlgInv, Exact, QueueIn, Flg!QueueExact
<1> QED BY <1>1, <1>2, <1>3

-----------------------------------------------------------------------------
(* Rendezvous                                                              *)

\* The ports' queues are those of module Queue.
LEMMA PortQueues ==
  /\ \A q : Por!Elems(q) = Elems(q)
  /\ \A q : Por!Injective(q) <=> Injective(q)
  /\ \A q, e : Por!QueRemove(q, e) = QueRemove(q, e)
  /\ \A q, e : Por!QueInsert(q, e) = QueInsert(q, e)
  /\ \A q, e, p : Por!knl_queue_insert_tpri(q, e, p) = knl_queue_insert_tpri(q, e, p)
  /\ \A q, p : Por!Sorted(q, p) <=> Sorted(q, p)
BY Zenon DEF Por!Elems, Elems, Por!Injective, Injective, Por!QueRemove, QueRemove,
             Por!QueInsert, QueInsert, Por!Sorted, Sorted,
             Por!knl_queue_insert_tpri, knl_queue_insert_tpri,
             Por!InsertBefore, InsertBefore, Por!TpriPosition, TpriPosition

Numbers == [tskid : Few, no : 0 .. RdvWrap - 1, nth : 1 .. MaxRdv]

PortState ==
  [tcb : [Few -> Por!TCB], gcb : [Objects -> Por!PORCB],
   met : [Few -> 0 .. MaxRdv], known : SUBSET Numbers]

\* The number a caller waits with is its newest, and the accepting task knows it.
InRdv(s, t) ==
  LET w == s.tcb[t]
  IN  /\ [tskid |-> t, no |-> w.rdvno, nth |-> s.met[t]] \in s.known
      /\ w.maxrmsz <= w.room

\* A task in a queue of a port waits for a port that exists.
InPort(s, t) ==
  LET w == s.tcb[t]
  IN  /\ w.wid \in Objects /\ s.gcb[w.wid].objid
      /\ w.wspec = "cal" => s.gcb[w.wid].maxrmsz <= w.room

\* The tasks that wait in the call queue ("cal") or the accept queue ("acp") of o.
Queued(s, o, spec) == {t \in Few : s.tcb[t].state = "WAIT" /\ s.tcb[t].wid = o /\ s.tcb[t].wspec = spec}

Prio(s) == [t \in Few |-> s.tcb[t].priority]

Waits(s) ==
  \A t \in Few : s.tcb[t].state = "WAIT" =>
    IF s.tcb[t].wspec = "rdv" THEN InRdv(s, t) ELSE InPort(s, t)

Calls(s, o) ==
  LET g == s.gcb[o]
  IN  /\ Injective(g.wait_queue) /\ Elems(g.wait_queue) = Queued(s, o, "cal")
      /\ g.tpri => Sorted(g.wait_queue, Prio(s))

Accepts(s, o) ==
  LET g == s.gcb[o]
  IN  Injective(g.accept_queue) /\ Elems(g.accept_queue) = Queued(s, o, "acp")

\* No two of the tasks that wait could meet.
Unmatched(s, o) ==
  \A c \in Queued(s, o, "cal"), a \in Queued(s, o, "acp") : s.tcb[c].ptn \cap s.tcb[a].ptn = {}

\* r is among the first met numbers of its caller, whose counter is at next; if
\* it is one of the last RdvWrap of them, the counter has come round at most
\* once since.
Aged(r, met, next) ==
  LET d == met - r.nth
  IN  0 <= d /\ (d < RdvWrap => r.no + d + 1 \in {next, next + RdvWrap})

\* The counter in the numbers counts the rendezvous of a caller.
Counted(s) == \A r \in s.known : Aged(r, s.met[r.tskid], s.tcb[r.tskid].wrdvno)

PortInv(s) ==
  /\ s \in PortState /\ Counted(s) /\ Waits(s)
  /\ \A o \in Objects : Calls(s, o) /\ Accepts(s, o) /\ Unmatched(s, o)

\* A state with other tasks, and one with other ports.
LEMMA WithTasks ==
  ASSUME NEW s \in PortState, NEW T \in [Few -> Por!TCB], NEW f, f = [s EXCEPT !.tcb = T]
  PROVE  f \in PortState /\ f.tcb = T /\ f.gcb = s.gcb /\ f.met = s.met /\ f.known = s.known
BY DEF PortState

\* A port with another control block.
LEMMA WithPorts ==
  ASSUME NEW s \in PortState, NEW G \in [Objects -> Por!PORCB], NEW f, f = [s EXCEPT !.gcb = G]
  PROVE  f \in PortState /\ f.gcb = G /\ f.tcb = s.tcb /\ f.met = s.met /\ f.known = s.known
BY DEF PortState

\* Zero is a size and a number.
LEMMA Zero ==
  /\ MaxRdv \in Nat /\ MaxSize \in Nat /\ RdvWrap \in Nat /\ RdvWrap > 1
  /\ 0 \in 0 .. MaxRdv /\ 0 \in 0 .. RdvWrap - 1 /\ 0 \in Por!Size
BY SyncAssumption DEF SyncAssumption, Por!Size

\* The counters stay where they are.
LEMMA CountedStays ==
  ASSUME NEW s \in PortState, Counted(s), NEW f, f.met = s.met, f.known = s.known,
         \A t \in Few : f.tcb[t].wrdvno = s.tcb[t].wrdvno
  PROVE  Counted(f)
BY DEF PortState, Numbers, Counted

\* What a call returned is forgotten; those who wait, and the order of all, stay.
LEMMA FreshKeeps ==
  ASSUME NEW s, PortInv(s)
  PROVE  LET f == Por!Fresh(s)
         IN  /\ PortInv(f) /\ f.gcb = s.gcb /\ f.met = s.met /\ f.known = s.known
             /\ \A t \in Few : /\ f.tcb[t].state = s.tcb[t].state
                               /\ f.tcb[t].priority = s.tcb[t].priority
                               /\ s.tcb[t].state = "WAIT" => f.tcb[t] = s.tcb[t]
<1> DEFINE f == Por!Fresh(s)
           W(w) == [w EXCEPT !.wercd = "E_OK", !.wid = NULL, !.wspec = "cal", !.ptn = {},
                             !.rdvno = 0, !.maxrmsz = 0, !.room = 0]
           T == [t \in Few |-> IF s.tcb[t].state = "WAIT" THEN s.tcb[t] ELSE W(s.tcb[t])]
<1>1. s \in PortState /\ \A t \in Few : s.tcb[t] \in Por!TCB
  BY DEF PortInv, PortState
<1>2. f = [s EXCEPT !.tcb = T]
  BY Zenon DEF Por!Fresh
<1>3. \A w \in Por!TCB : W(w) \in Por!TCB
  BY Zero, Zenon DEF Por!TCB, Por!Error
<1>4. \A w \in Por!TCB : W(w).state = w.state /\ W(w).priority = w.priority /\ W(w).wrdvno = w.wrdvno
  BY DEF Por!TCB
<1> HIDE DEF W
<1>5. T \in [Few -> Por!TCB]
  BY <1>1, <1>3
<1>6. \A t \in Few : /\ T[t].state = s.tcb[t].state
                     /\ T[t].priority = s.tcb[t].priority
                     /\ T[t].wrdvno = s.tcb[t].wrdvno
                     /\ s.tcb[t].state = "WAIT" => T[t] = s.tcb[t]
  BY <1>1, <1>4
<1> HIDE DEF T
<1>7. f \in PortState /\ f.tcb = T /\ f.gcb = s.gcb /\ f.met = s.met /\ f.known = s.known
  BY <1>1, <1>2, <1>5, WithTasks
<1> HIDE DEF f
<1>8. \A o \in Objects, spec \in {"cal", "acp"} : Queued(f, o, spec) = Queued(s, o, spec)
  BY <1>6, <1>7 DEF Queued
<1>9. Prio(f) = Prio(s)
  BY <1>6, <1>7 DEF Prio
<1>10. Counted(f) /\ Waits(f)
  <2>1. Counted(f)
    BY <1>6, <1>7, CountedStays DEF PortInv
  <2> QED BY <1>6, <1>7, <2>1 DEF PortInv, Waits, InRdv, InPort
<1>11. \A o \in Objects : Calls(f, o) /\ Accepts(f, o)
  BY <1>7, <1>8, <1>9 DEF PortInv, Calls, Accepts
<1>12. \A o \in Objects : Unmatched(f, o)
  BY <1>6, <1>7, <1>8 DEF PortInv, Unmatched, Queued
<1> QED BY <1>6, <1>7, <1>10, <1>11, <1>12 DEF f, PortInv

\* Nobody but t changes; ports keep what they were created with.
Others(s, f, t) == \A u \in Few \ {t} : f.tcb[u] = s.tcb[u]
SamePorts(s, f) ==
  \A o \in Objects : /\ f.gcb[o].objid = s.gcb[o].objid /\ f.gcb[o].tpri = s.gcb[o].tpri
                     /\ f.gcb[o].maxcmsz = s.gcb[o].maxcmsz /\ f.gcb[o].maxrmsz = s.gcb[o].maxrmsz

\* Task t is out of all queues and does not wait.
Out(s, f, t) ==
  /\ f \in PortState /\ f.met = s.met /\ f.known = s.known
  /\ Others(s, f, t) /\ SamePorts(s, f)
  /\ f.tcb[t].state # "WAIT" /\ f.tcb[t].wrdvno = s.tcb[t].wrdvno
  /\ \A o \in Objects : /\ f.gcb[o].wait_queue = QueRemove(s.gcb[o].wait_queue, t)
                        /\ f.gcb[o].accept_queue = QueRemove(s.gcb[o].accept_queue, t)

\* Queues have their types.
LEMMA QueueTypes ==
  ASSUME NEW s \in PortState, NEW o \in Objects
  PROVE  s.gcb[o] \in Por!PORCB /\ s.gcb[o].wait_queue \in Seq(Few) /\ s.gcb[o].accept_queue \in Seq(Few)
BY DEF PortState, Por!PORCB

\* That keeps the ports in order.
LEMMA OutKeeps ==
  ASSUME NEW s, PortInv(s), NEW t \in Few, NEW f, Out(s, f, t)
  PROVE  PortInv(f)
<1>1. s \in PortState /\ f \in PortState /\ f.met = s.met /\ f.known = s.known /\ Others(s, f, t) /\ SamePorts(s, f)
      /\ f.tcb[t].state # "WAIT" /\ f.tcb[t].wrdvno = s.tcb[t].wrdvno
  BY DEF Out, PortInv
<1>2. Counted(f)
  BY <1>1, CountedStays DEF PortInv, Others
<1>3. Waits(f)
  BY <1>1 DEF PortInv, Waits, Others, InRdv, InPort, SamePorts
<1>4. \A o \in Objects, spec \in {"cal", "acp"} : Queued(f, o, spec) = Queued(s, o, spec) \ {t}
  BY <1>1 DEF Queued, Others
<1>5. ASSUME NEW o \in Objects PROVE Calls(f, o) /\ Accepts(f, o) /\ Unmatched(f, o)
  <2> DEFINE q == s.gcb[o].wait_queue
             a == s.gcb[o].accept_queue
  <2>1. q \in Seq(Few) /\ a \in Seq(Few)
    BY <1>1, QueueTypes
  <2>2. f.gcb[o].wait_queue = QueRemove(q, t) /\ f.gcb[o].accept_queue = QueRemove(a, t) /\ f.gcb[o].tpri = s.gcb[o].tpri
    BY <1>1 DEF Out, SamePorts
  <2>3. /\ Injective(q) /\ Elems(q) = Queued(s, o, "cal") /\ (s.gcb[o].tpri => Sorted(q, Prio(s)))
        /\ Injective(a) /\ Elems(a) = Queued(s, o, "acp")
    BY DEF PortInv, Calls, Accepts
  <2> HIDE DEF q, a
  <2>4. /\ QueRemove(q, t) \in Seq(Few) /\ Elems(QueRemove(q, t)) = Elems(q) \ {t} /\ Injective(QueRemove(q, t))
        /\ Elems(QueRemove(a, t)) = Elems(a) \ {t} /\ Injective(QueRemove(a, t))
    BY <2>1, <2>3, QueRemoveFacts
  <2>5. s.gcb[o].tpri => Sorted(QueRemove(q, t), Prio(f))
    <3>1. \A u \in Elems(q) \ {t} : Prio(f)[u] = Prio(s)[u]
      BY <1>1, <2>3 DEF Prio, Others, Queued
    <3> QED BY <2>1, <2>3, <2>4, <3>1, QueRemoveSorted, SortedSame
  <2>6. Calls(f, o) /\ Accepts(f, o)
    BY <1>4, <2>2, <2>3, <2>4, <2>5 DEF Calls, Accepts
  <2>7. Unmatched(f, o)
    BY <1>1, <1>4 DEF PortInv, Unmatched, Others, Queued
  <2> QED BY <2>6, <2>7
<1> QED BY <1>1, <1>2, <1>3, <1>5 DEF PortInv

\* knl_wait_release, from whichever queue.
LEMMA ReleaseOut ==
  ASSUME NEW s, PortInv(s), NEW t \in Few, s.tcb[t].state = "WAIT", NEW e \in Por!Error
  PROVE  LET f == Por!Release(s, t, e)
         IN  /\ Out(s, f, t)
             /\ f.tcb[t].room = s.tcb[t].room
<1> DEFINE w == s.tcb[t]
           W == [w EXCEPT !.state = "READY", !.wercd = e]
           T == [s.tcb EXCEPT ![t] = W]
           r == [s EXCEPT !.tcb[t].state = "READY", !.tcb[t].wercd = e]
           f == Por!Release(s, t, e)
           o == w.wid
<1>1. s \in PortState /\ w \in Por!TCB
  BY DEF PortInv, PortState
<1> SUFFICES Out(s, f, t) /\ f.tcb[t] = W
  <2>1. W.room = w.room
    BY <1>1 DEF Por!TCB
  <2> QED BY <2>1
<1>2. W \in Por!TCB
  BY <1>1, Zenon DEF Por!TCB
<1>3. W.state = "READY" /\ W.wrdvno = w.wrdvno
  BY <1>1 DEF Por!TCB
<1>4. r = [s EXCEPT !.tcb = T]
  BY <1>1 DEF PortState, Por!TCB
<1>5. T \in [Few -> Por!TCB] /\ T[t] = W /\ \A u \in Few \ {t} : T[u] = s.tcb[u]
  BY <1>1, <1>2 DEF PortState
<1> HIDE DEF T, r, W
<1>6. r \in PortState /\ r.tcb = T /\ r.gcb = s.gcb /\ r.met = s.met /\ r.known = s.known
  BY <1>1, <1>4, <1>5, WithTasks
<1>7. w.wspec \in {"cal", "acp", "rdv"}
  BY <1>1 DEF Por!TCB
<1>8. f = CASE w.wspec = "cal" -> [r EXCEPT !.gcb[o].wait_queue = QueRemove(@, t)]
            [] w.wspec = "acp" -> [r EXCEPT !.gcb[o].accept_queue = QueRemove(@, t)]
            [] w.wspec = "rdv" -> r
  BY PortQueues, Zenon DEF Por!Release, r
<1> HIDE DEF f
<1>9. \A p \in Objects : /\ Elems(s.gcb[p].wait_queue) = Queued(s, p, "cal")
                         /\ Elems(s.gcb[p].accept_queue) = Queued(s, p, "acp")
                         /\ Injective(s.gcb[p].wait_queue) /\ Injective(s.gcb[p].accept_queue)
  BY DEF PortInv, Calls, Accepts
<1>10. CASE w.wspec = "rdv"
  <2>1. f = r
    BY <1>8, <1>10
  <2>2. \A p \in Objects : t \notin Queued(s, p, "cal") /\ t \notin Queued(s, p, "acp")
    BY <1>10 DEF Queued
  <2>3. /\ f \in PortState /\ f.met = s.met /\ f.known = s.known
        /\ Others(s, f, t) /\ SamePorts(s, f) /\ f.tcb[t] = W /\ f.gcb = s.gcb
    BY <1>5, <1>6, <2>1 DEF Others, SamePorts
  <2>4. \A p \in Objects : /\ QueRemove(s.gcb[p].wait_queue, t) = s.gcb[p].wait_queue
                           /\ QueRemove(s.gcb[p].accept_queue, t) = s.gcb[p].accept_queue
    BY <1>9, <2>2, NotIn
  <2> QED BY <1>3, <2>3, <2>4 DEF Out
<1>11. CASE w.wspec = "cal"
  <2> DEFINE c == [s.gcb[o] EXCEPT !.wait_queue = QueRemove(s.gcb[o].wait_queue, t)]
             G == [s.gcb EXCEPT ![o] = c]
  <2>1. o \in Objects
    BY <1>11 DEF PortInv, Waits, InPort
  <2>2. s.gcb[o] \in Por!PORCB /\ s.gcb[o].wait_queue \in Seq(Few)
    BY <1>1, <2>1, QueueTypes
  <2>3. QueRemove(s.gcb[o].wait_queue, t) \in Seq(Few)
    BY <1>9, <2>1, <2>2, QueRemoveFacts
  <2>4. c \in Por!PORCB
    BY <2>2, <2>3, Zenon DEF Por!PORCB
  <2>5. /\ c.wait_queue = QueRemove(s.gcb[o].wait_queue, t) /\ c.accept_queue = s.gcb[o].accept_queue
        /\ c.objid = s.gcb[o].objid /\ c.tpri = s.gcb[o].tpri
        /\ c.maxcmsz = s.gcb[o].maxcmsz /\ c.maxrmsz = s.gcb[o].maxrmsz
    BY <2>2 DEF Por!PORCB
  <2>6. f = [r EXCEPT !.gcb = G]
    BY <1>6, <1>8, <1>11, <2>1 DEF PortState
  <2> HIDE DEF c
  <2>7. G \in [Objects -> Por!PORCB] /\ G[o] = c /\ \A p \in Objects \ {o} : G[p] = s.gcb[p]
    BY <1>1, <2>1, <2>4 DEF PortState
  <2> HIDE DEF G
  <2>8. f \in PortState /\ f.gcb = G /\ f.tcb = T /\ f.met = s.met /\ f.known = s.known
    BY <1>6, <2>6, <2>7, WithPorts
  <2>9. /\ \A p \in Objects \ {o} : t \notin Queued(s, p, "cal")
        /\ \A p \in Objects : t \notin Queued(s, p, "acp")
    BY <1>11 DEF Queued
  <2>10. /\ f \in PortState /\ f.met = s.met /\ f.known = s.known
         /\ Others(s, f, t) /\ f.tcb[t] = W
    BY <1>5, <2>8 DEF Others
  <2>11. SamePorts(s, f)
    BY <2>5, <2>7, <2>8 DEF SamePorts
  <2>12. /\ \A p \in Objects \ {o} : QueRemove(s.gcb[p].wait_queue, t) = s.gcb[p].wait_queue
         /\ \A p \in Objects : QueRemove(s.gcb[p].accept_queue, t) = s.gcb[p].accept_queue
    BY <1>9, <2>9, NotIn
  <2>13. \A p \in Objects : /\ f.gcb[p].wait_queue = QueRemove(s.gcb[p].wait_queue, t)
                            /\ f.gcb[p].accept_queue = QueRemove(s.gcb[p].accept_queue, t)
    BY <2>5, <2>7, <2>8, <2>12
  <2> QED BY <1>3, <2>10, <2>11, <2>13 DEF Out
<1>12. CASE w.wspec = "acp"
  <2> DEFINE c == [s.gcb[o] EXCEPT !.accept_queue = QueRemove(s.gcb[o].accept_queue, t)]
             G == [s.gcb EXCEPT ![o] = c]
  <2>1. o \in Objects
    BY <1>12 DEF PortInv, Waits, InPort
  <2>2. s.gcb[o] \in Por!PORCB /\ s.gcb[o].accept_queue \in Seq(Few)
    BY <1>1, <2>1, QueueTypes
  <2>3. QueRemove(s.gcb[o].accept_queue, t) \in Seq(Few)
    BY <1>9, <2>1, <2>2, QueRemoveFacts
  <2>4. c \in Por!PORCB
    BY <2>2, <2>3, Zenon DEF Por!PORCB
  <2>5. /\ c.accept_queue = QueRemove(s.gcb[o].accept_queue, t) /\ c.wait_queue = s.gcb[o].wait_queue
        /\ c.objid = s.gcb[o].objid /\ c.tpri = s.gcb[o].tpri
        /\ c.maxcmsz = s.gcb[o].maxcmsz /\ c.maxrmsz = s.gcb[o].maxrmsz
    BY <2>2 DEF Por!PORCB
  <2>6. f = [r EXCEPT !.gcb = G]
    BY <1>6, <1>8, <1>12, <2>1 DEF PortState
  <2> HIDE DEF c
  <2>7. G \in [Objects -> Por!PORCB] /\ G[o] = c /\ \A p \in Objects \ {o} : G[p] = s.gcb[p]
    BY <1>1, <2>1, <2>4 DEF PortState
  <2> HIDE DEF G
  <2>8. f \in PortState /\ f.gcb = G /\ f.tcb = T /\ f.met = s.met /\ f.known = s.known
    BY <1>6, <2>6, <2>7, WithPorts
  <2>9. /\ \A p \in Objects \ {o} : t \notin Queued(s, p, "acp")
        /\ \A p \in Objects : t \notin Queued(s, p, "cal")
    BY <1>12 DEF Queued
  <2>10. /\ f \in PortState /\ f.met = s.met /\ f.known = s.known
         /\ Others(s, f, t) /\ f.tcb[t] = W
    BY <1>5, <2>8 DEF Others
  <2>11. SamePorts(s, f)
    BY <2>5, <2>7, <2>8 DEF SamePorts
  <2>12. /\ \A p \in Objects \ {o} : QueRemove(s.gcb[p].accept_queue, t) = s.gcb[p].accept_queue
         /\ \A p \in Objects : QueRemove(s.gcb[p].wait_queue, t) = s.gcb[p].wait_queue
    BY <1>9, <2>9, NotIn
  <2>13. \A p \in Objects : /\ f.gcb[p].wait_queue = QueRemove(s.gcb[p].wait_queue, t)
                            /\ f.gcb[p].accept_queue = QueRemove(s.gcb[p].accept_queue, t)
    BY <2>5, <2>7, <2>8, <2>12
  <2> QED BY <1>3, <2>10, <2>11, <2>13 DEF Out
<1> QED BY <1>7, <1>10, <1>11, <1>12

\* A task that does not wait is in no queue.
LEMMA QuietOut ==
  ASSUME NEW s, PortInv(s), NEW t \in Few, s.tcb[t].state # "WAIT",
         NEW f \in PortState, f.gcb = s.gcb, f.met = s.met, f.known = s.known, Others(s, f, t),
         f.tcb[t].state # "WAIT", f.tcb[t].wrdvno = s.tcb[t].wrdvno
  PROVE  PortInv(f)
<1>1. \A o \in Objects : /\ t \notin Elems(s.gcb[o].wait_queue)
                         /\ t \notin Elems(s.gcb[o].accept_queue)
  BY DEF PortInv, Calls, Accepts, Queued
<1>2. \A o \in Objects : /\ QueRemove(s.gcb[o].wait_queue, t) = s.gcb[o].wait_queue
                         /\ QueRemove(s.gcb[o].accept_queue, t) = s.gcb[o].accept_queue
  BY <1>1, NotIn
<1>3. SamePorts(s, f)
  BY DEF SamePorts
<1> QED BY <1>2, <1>3, OutKeeps DEF Out

\* The counter after n.
Following(n) == IF n + 1 = RdvWrap THEN 0 ELSE n + 1

\* A number is one rendezvous older, and the new one is the last.
LEMMA Older ==
  ASSUME NEW next \in 0 .. RdvWrap - 1, NEW met \in Nat
  PROVE  /\ Following(next) \in 0 .. RdvWrap - 1
         /\ \A r : /\ r.nth \in Nat /\ r.no \in 0 .. RdvWrap - 1 /\ Aged(r, met, next)
                   => Aged(r, met + 1, Following(next))
         /\ \A r : r.no = next /\ r.nth = met + 1 => Aged(r, met + 1, Following(next))
BY Zero DEF Aged, Following

\* Caller t enters a rendezvous of port o.
Enters(s, f, t, o) ==
  /\ f \in PortState /\ Others(s, f, t) /\ f.gcb = s.gcb
  /\ f.met = [s.met EXCEPT ![t] = s.met[t] + 1]
  /\ f.known = s.known \cup {[tskid |-> t, no |-> s.tcb[t].wrdvno, nth |-> s.met[t] + 1]}
  /\ f.tcb[t].state = "WAIT" /\ f.tcb[t].wspec = "rdv" /\ f.tcb[t].rdvno = s.tcb[t].wrdvno
  /\ f.tcb[t].wrdvno = Following(s.tcb[t].wrdvno) /\ f.tcb[t].maxrmsz = s.gcb[o].maxrmsz
  /\ f.tcb[t].room = s.tcb[t].room /\ f.tcb[t].priority = s.tcb[t].priority

\* A caller that enters a rendezvous keeps the ports in order.
LEMMA EntersKeeps ==
  ASSUME NEW s, PortInv(s), NEW t \in Few, NEW o \in Objects,
         s.tcb[t].state = "WAIT" => s.tcb[t].wspec = "rdv",
         s.gcb[o].maxrmsz <= s.tcb[t].room,
         NEW f, Enters(s, f, t, o)
  PROVE  PortInv(f)
<1>1. /\ s \in PortState /\ f \in PortState /\ Others(s, f, t) /\ f.gcb = s.gcb
      /\ s.met[t] \in Nat /\ s.met \in [Few -> 0 .. MaxRdv] /\ s.tcb[t].wrdvno \in 0 .. RdvWrap - 1
      /\ s.tcb[t] \in Por!TCB
  BY DEF Enters, PortInv, PortState, Por!TCB
<1>2. f.met[t] = s.met[t] + 1 /\ \A u \in Few \ {t} : f.met[u] = s.met[u]
  BY <1>1 DEF Enters
<1>3. Counted(f)
  <2>1. ASSUME NEW r \in f.known PROVE Aged(r, f.met[r.tskid], f.tcb[r.tskid].wrdvno)
    <3>1. CASE r \in s.known /\ r.tskid = t
      <4>1. r.nth \in Nat /\ r.no \in 0 .. RdvWrap - 1 /\ Aged(r, s.met[t], s.tcb[t].wrdvno)
        BY <1>1, <3>1 DEF PortInv, PortState, Numbers, Counted
      <4> QED BY <1>1, <1>2, <3>1, <4>1, Older DEF Enters
    <3>2. CASE r \in s.known /\ r.tskid # t
      <4>1. r.tskid \in Few \ {t} /\ Aged(r, s.met[r.tskid], s.tcb[r.tskid].wrdvno)
        BY <1>1, <3>2 DEF PortInv, PortState, Numbers, Counted
      <4> QED BY <1>1, <1>2, <4>1 DEF Others
    <3>3. CASE r = [tskid |-> t, no |-> s.tcb[t].wrdvno, nth |-> s.met[t] + 1]
      <4>1. r.tskid = t /\ r.no = s.tcb[t].wrdvno /\ r.nth = s.met[t] + 1
        BY <3>3
      <4> QED BY <1>1, <1>2, <4>1, Older DEF Enters
    <3> QED BY <3>1, <3>2, <3>3 DEF Enters
  <2> QED BY <2>1 DEF Counted
<1>4. Waits(f)
  <2>1. InRdv(f, t)
    BY <1>1, <1>2 DEF InRdv, Enters
  <2>2. \A u \in Few \ {t} : InRdv(s, u) => InRdv(f, u)
    BY <1>1, <1>2 DEF InRdv, Enters, Others
  <2>3. \A u \in Few \ {t} : InPort(s, u) => InPort(f, u)
    BY <1>1 DEF InPort, Others
  <2>4. f.tcb[t].wspec = "rdv" /\ Waits(s)
    BY DEF Enters, PortInv
  <2> QED BY <1>1, <2>1, <2>2, <2>3, <2>4 DEF Waits, Others
<1>5. \A p \in Objects, spec \in {"cal", "acp"} : Queued(f, p, spec) = Queued(s, p, spec)
  BY <1>1 DEF Queued, Enters, Others
<1>6. Prio(f) = Prio(s)
  BY <1>1 DEF Prio, Enters, Others
<1>7. \A p \in Objects : Calls(f, p) /\ Accepts(f, p)
  BY <1>1, <1>5, <1>6 DEF PortInv, Calls, Accepts
<1>8. \A p \in Objects : Unmatched(f, p)
  <2>1. \A p \in Objects, spec \in {"cal", "acp"} : \A u \in Queued(s, p, spec) : f.tcb[u] = s.tcb[u]
    BY <1>1 DEF Queued, Others
  <2> QED BY <1>5, <2>1 DEF PortInv, Unmatched
<1> QED BY <1>1, <1>3, <1>4, <1>7, <1>8 DEF PortInv

\* Who joins queues of port o and is in no queue yet.
Joins(s, f, t, o) ==
  /\ f \in PortState /\ Others(s, f, t) /\ SamePorts(s, f) /\ f.met = s.met /\ f.known = s.known
  /\ \A p \in Objects \ {o} : f.gcb[p] = s.gcb[p]
  /\ s.tcb[t].state = "WAIT" => s.tcb[t].wspec = "rdv"
  /\ s.gcb[o].objid
  /\ f.tcb[t].state = "WAIT" /\ f.tcb[t].wid = o
  /\ f.tcb[t].wrdvno = s.tcb[t].wrdvno /\ f.tcb[t].priority = s.tcb[t].priority

QueuedCall(s, f, t, o) ==
  LET q == s.gcb[o].wait_queue
  IN  /\ f.tcb[t].wspec = "cal" /\ s.gcb[o].maxrmsz <= f.tcb[t].room
      /\ f.gcb[o].accept_queue = s.gcb[o].accept_queue
      /\ f.gcb[o].wait_queue = IF s.gcb[o].tpri THEN knl_queue_insert_tpri(q, t, Prio(s)) ELSE QueInsert(q, t)
      /\ \A a \in Queued(s, o, "acp") : f.tcb[t].ptn \cap s.tcb[a].ptn = {}

QueuedAccept(s, f, t, o) ==
  /\ f.tcb[t].wspec = "acp"
  /\ f.gcb[o].wait_queue = s.gcb[o].wait_queue
  /\ f.gcb[o].accept_queue = QueInsert(s.gcb[o].accept_queue, t)
  /\ \A c \in Queued(s, o, "cal") : f.tcb[t].ptn \cap s.tcb[c].ptn = {}

\* Priorities are numbers.
LEMMA PrioType ==
  ASSUME NEW s \in PortState
  PROVE  Prio(s) \in [Few -> Int] /\ \A t \in Few : Prio(s)[t] = s.tcb[t].priority
<1>1. \A t \in Few : s.tcb[t].priority \in Por!Pri
  BY DEF PortState, Por!TCB
<1> QED BY <1>1 DEF Prio, Por!Pri

\* Who joins at the end of a queue of tasks is added to it.
LEMMA JoinsEnd ==
  ASSUME NEW q \in Seq(Few), NEW t \in Few, Injective(q), t \notin Elems(q)
  PROVE  Injective(QueInsert(q, t)) /\ Elems(QueInsert(q, t)) = Elems(q) \cup {t}
BY QueInsertFacts

\* So does one that joins a queue in which nobody could meet it.
LEMMA JoinsKeeps ==
  ASSUME NEW s, PortInv(s), NEW t \in Few, NEW o \in Objects, NEW f,
         Joins(s, f, t, o), QueuedCall(s, f, t, o) \/ QueuedAccept(s, f, t, o)
  PROVE  PortInv(f)
<1>1. /\ s \in PortState /\ f \in PortState /\ Others(s, f, t) /\ SamePorts(s, f)
      /\ f.met = s.met /\ f.known = s.known
      /\ f.tcb[t].wrdvno = s.tcb[t].wrdvno /\ f.tcb[t].priority = s.tcb[t].priority
  BY DEF Joins, PortInv
<1>2. Counted(f)
  BY <1>1, CountedStays DEF PortInv, Others
<1>3. Waits(f)
  <2>1. InPort(f, t) /\ f.tcb[t].wspec # "rdv"
    BY <1>1 DEF InPort, Joins, QueuedCall, QueuedAccept, SamePorts
  <2>2. \A u \in Few \ {t} : /\ InRdv(s, u) => InRdv(f, u)
                             /\ InPort(s, u) => InPort(f, u)
    BY <1>1 DEF InRdv, InPort, Others, SamePorts
  <2> QED BY <1>1, <2>1, <2>2 DEF PortInv, Waits, Others
<1>4. Prio(f) = Prio(s) /\ Prio(s) \in [Few -> Int]
  BY <1>1, PrioType DEF Prio, Others
<1>5. \A p \in Objects : t \notin Queued(s, p, "cal") /\ t \notin Queued(s, p, "acp")
  BY DEF Joins, Queued
<1>6. \A p \in Objects : \A u \in Queued(s, p, "cal") \cup Queued(s, p, "acp") : f.tcb[u] = s.tcb[u]
  BY <1>1, <1>5 DEF Others, Queued
<1>7. \A p \in Objects : /\ Calls(s, p) /\ Accepts(s, p) /\ Unmatched(s, p)
                         /\ s.gcb[p].wait_queue \in Seq(Few) /\ s.gcb[p].accept_queue \in Seq(Few)
  BY <1>1, QueueTypes DEF PortInv
<1>8. ASSUME NEW p \in Objects \ {o} PROVE Calls(f, p) /\ Accepts(f, p) /\ Unmatched(f, p)
  <2>1. Queued(f, p, "cal") = Queued(s, p, "cal") /\ Queued(f, p, "acp") = Queued(s, p, "acp")
    BY <1>1, <1>5 DEF Queued, Joins, Others
  <2>2. f.gcb[p] = s.gcb[p]
    BY DEF Joins
  <2> QED BY <1>4, <1>6, <1>7, <2>1, <2>2 DEF Calls, Accepts, Unmatched
<1>9. CASE QueuedCall(s, f, t, o)
  <2> DEFINE q == s.gcb[o].wait_queue
             r == f.gcb[o].wait_queue
  <2>1. Queued(f, o, "cal") = Queued(s, o, "cal") \cup {t} /\ Queued(f, o, "acp") = Queued(s, o, "acp")
    BY <1>1, <1>5, <1>9 DEF Queued, Joins, Others, QueuedCall
  <2>2. /\ q \in Seq(Few) /\ Injective(q) /\ t \notin Elems(q) /\ Elems(q) = Queued(s, o, "cal")
        /\ (s.gcb[o].tpri => Sorted(q, Prio(s)))
    BY <1>5, <1>7 DEF Calls
  <2>3. r = (IF s.gcb[o].tpri THEN knl_queue_insert_tpri(q, t, Prio(s)) ELSE QueInsert(q, t))
        /\ f.gcb[o].tpri = s.gcb[o].tpri /\ f.gcb[o].accept_queue = s.gcb[o].accept_queue
    BY <1>1, <1>9 DEF QueuedCall, SamePorts
  <2> HIDE DEF q, r
  <2>4. Injective(r) /\ Elems(r) = Elems(q) \cup {t} /\ (s.gcb[o].tpri => Sorted(r, Prio(s)))
    <3>1. CASE s.gcb[o].tpri
      <4>1. r = knl_queue_insert_tpri(q, t, Prio(s)) /\ Sorted(q, Prio(s))
        BY <2>2, <2>3, <3>1
      <4> QED BY <1>4, <2>2, <4>1, TpriFacts
    <3>2. CASE ~s.gcb[o].tpri
      <4>1. r = QueInsert(q, t)
        BY <2>3, <3>2
      <4> QED BY <2>2, <3>2, <4>1, JoinsEnd
    <3> QED BY <3>1, <3>2
  <2>5. Calls(f, o)
    BY <1>4, <2>1, <2>2, <2>3, <2>4 DEF Calls, r
  <2>6. Accepts(f, o)
    BY <1>7, <2>1, <2>3 DEF Accepts
  <2>7. Unmatched(f, o)
    BY <1>6, <1>7, <1>9, <2>1 DEF Unmatched, QueuedCall
  <2> QED BY <1>1, <1>2, <1>3, <1>8, <2>5, <2>6, <2>7 DEF PortInv
<1>10. CASE QueuedAccept(s, f, t, o)
  <2> DEFINE q == s.gcb[o].accept_queue
             r == f.gcb[o].accept_queue
  <2>1. Queued(f, o, "acp") = Queued(s, o, "acp") \cup {t} /\ Queued(f, o, "cal") = Queued(s, o, "cal")
    BY <1>1, <1>5, <1>10 DEF Queued, Joins, Others, QueuedAccept
  <2>2. /\ q \in Seq(Few) /\ Injective(q) /\ t \notin Elems(q) /\ Elems(q) = Queued(s, o, "acp")
    BY <1>5, <1>7 DEF Accepts
  <2>3. /\ r = QueInsert(q, t)
        /\ f.gcb[o].tpri = s.gcb[o].tpri /\ f.gcb[o].wait_queue = s.gcb[o].wait_queue
    BY <1>1, <1>10 DEF QueuedAccept, SamePorts
  <2> HIDE DEF q, r
  <2>4. Injective(r) /\ Elems(r) = Elems(q) \cup {t}
    BY <2>2, <2>3, JoinsEnd
  <2>5. Accepts(f, o)
    BY <2>1, <2>2, <2>3, <2>4 DEF Accepts, r
  <2>6. Calls(f, o)
    BY <1>4, <1>7, <2>1, <2>3 DEF Calls
  <2>7. Unmatched(f, o)
    <3>1. \A c \in Queued(s, o, "cal") : s.tcb[c].ptn \cap f.tcb[t].ptn = {}
      BY <1>10 DEF QueuedAccept
    <3> QED BY <1>6, <1>7, <2>1, <3>1 DEF Unmatched
  <2> QED BY <1>1, <1>2, <1>3, <1>8, <2>5, <2>6, <2>7 DEF PortInv
<1> QED BY <1>9, <1>10

\* The rest of the state does not change with a task.
LEMMA OneTask ==
  ASSUME NEW s \in PortState, NEW t \in Few, NEW w \in Por!TCB
  PROVE  LET f == SetTask(s, t, w)
         IN  /\ f \in PortState /\ f.tcb[t] = w /\ Others(s, f, t)
             /\ f.gcb = s.gcb /\ f.met = s.met /\ f.known = s.known
<1> DEFINE T == [s.tcb EXCEPT ![t] = w]
           f == SetTask(s, t, w)
<1>1. T \in [Few -> Por!TCB] /\ T[t] = w /\ \A u \in Few \ {t} : T[u] = s.tcb[u]
  BY DEF PortState
<1>2. f = [s EXCEPT !.tcb = T]
  BY DEF SetTask
<1> HIDE DEF T, f
<1>3. f \in PortState /\ f.tcb = T /\ f.gcb = s.gcb /\ f.met = s.met /\ f.known = s.known
  BY <1>1, <1>2 DEF PortState
<1> QED BY <1>1, <1>3 DEF Others, f

\* Nor with a port.
LEMMA OnePort ==
  ASSUME NEW s \in PortState, NEW o \in Objects, NEW c \in Por!PORCB
  PROVE  LET f == SetObj(s, o, c)
         IN  /\ f \in PortState /\ f.gcb[o] = c /\ \A p \in Objects \ {o} : f.gcb[p] = s.gcb[p]
             /\ f.tcb = s.tcb /\ f.met = s.met /\ f.known = s.known
<1> DEFINE G == [s.gcb EXCEPT ![o] = c]
           f == SetObj(s, o, c)
<1>1. G \in [Objects -> Por!PORCB] /\ G[o] = c /\ \A p \in Objects \ {o} : G[p] = s.gcb[p]
  BY DEF PortState
<1>2. f = [s EXCEPT !.gcb = G]
  BY DEF SetObj
<1> HIDE DEF G, f
<1>3. f \in PortState /\ f.gcb = G /\ f.tcb = s.tcb /\ f.met = s.met /\ f.known = s.known
  BY <1>1, <1>2 DEF PortState
<1> QED BY <1>1, <1>3 DEF f

\* knl_gen_rdvno and the wait for the reply.
LEMMA MeetEnters ==
  ASSUME NEW s, PortInv(s), NEW t \in Few, NEW o \in Objects, s.met[t] < MaxRdv
  PROVE  Enters(s, Por!Meet(s, t, o), t, o)
<1> DEFINE w == s.tcb[t]
           v == [w EXCEPT !.wrdvno = Following(w.wrdvno)]
           W == [v EXCEPT !.state = "WAIT", !.wspec = "rdv", !.wid = NULL, !.rdvno = w.wrdvno,
                          !.maxrmsz = s.gcb[o].maxrmsz, !.wercd = "E_TMOUT"]
           M == [s.met EXCEPT ![t] = s.met[t] + 1]
           n == [tskid |-> t, no |-> w.wrdvno, nth |-> s.met[t] + 1]
           g == Por!knl_gen_rdvno(s, t)
           f == Por!Meet(s, t, o)
<1>1. /\ s \in PortState /\ w \in Por!TCB /\ s.met \in [Few -> 0 .. MaxRdv]
      /\ s.gcb[o].maxrmsz \in Por!Size /\ MaxRdv \in Nat
  BY Zero DEF PortInv, PortState, Por!PORCB
<1>2. /\ w.wrdvno \in 0 .. RdvWrap - 1 /\ Following(w.wrdvno) \in 0 .. RdvWrap - 1
      /\ s.met[t] + 1 \in 1 .. MaxRdv
  <2>1. w.wrdvno \in 0 .. RdvWrap - 1
    BY <1>1 DEF Por!TCB
  <2> QED BY <1>1, <2>1, Zero DEF Following
<1>3. v \in Por!TCB /\ W \in Por!TCB
  <2>1. v \in Por!TCB
    BY <1>1, <1>2, Zenon DEF Por!TCB
  <2> HIDE DEF v
  <2> QED BY <1>1, <1>2, <2>1, Zenon DEF Por!TCB, Por!Error
<1>4. /\ W.state = "WAIT" /\ W.wspec = "rdv" /\ W.rdvno = w.wrdvno /\ W.wrdvno = Following(w.wrdvno)
      /\ W.maxrmsz = s.gcb[o].maxrmsz /\ W.room = w.room /\ W.priority = w.priority
  BY <1>1 DEF Por!TCB
<1>5. n \in Numbers /\ M \in [Few -> 0 .. MaxRdv]
  BY <1>1, <1>2 DEF Numbers
<1>6. g = [s EXCEPT !.tcb = [s.tcb EXCEPT ![t] = v], !.met = M, !.known = s.known \cup {n}]
  BY <1>1 DEF Por!knl_gen_rdvno, PortState, Por!TCB, Following
<1> HIDE DEF v, M, n
<1>7. /\ g \in PortState /\ g.met = M /\ g.known = s.known \cup {n} /\ g.gcb = s.gcb
      /\ g.tcb[t] = v /\ Others(s, g, t)
  <2> DEFINE T == [s.tcb EXCEPT ![t] = v]
  <2>1. T \in [Few -> Por!TCB] /\ T[t] = v /\ \A u \in Few \ {t} : T[u] = s.tcb[u]
    BY <1>1, <1>3 DEF PortState
  <2>2. g = [s EXCEPT !.tcb = T, !.met = M, !.known = s.known \cup {n}]
    BY <1>6
  <2> HIDE DEF T, g
  <2>3. g \in PortState /\ g.met = M /\ g.known = s.known \cup {n} /\ g.gcb = s.gcb /\ g.tcb = T
    BY <1>1, <1>5, <2>1, <2>2 DEF PortState
  <2> QED BY <2>1, <2>3 DEF Others
<1>8. f = SetTask(g, t, W)
  <2>1. g.tcb[t] = v
    BY <1>7
  <2> QED BY <2>1, Zenon DEF Por!Meet, SetTask
<1> HIDE DEF W, g, f
<1>9. f \in PortState /\ f.tcb[t] = W /\ Others(g, f, t) /\ f.gcb = g.gcb /\ f.met = g.met /\ f.known = g.known
  BY <1>3, <1>7, <1>8, OneTask
<1>10. Others(s, f, t)
  BY <1>7, <1>9 DEF Others
<1> QED BY <1>4, <1>7, <1>9, <1>10 DEF Enters, M, n, f

\* The first in a queue whose pattern has a bit in common with ptn.
LEMMA FirstMatchFacts ==
  ASSUME NEW s, NEW q \in Seq(Few), NEW ptn
  PROVE  LET found == Por!FirstMatch(s, q, ptn)
         IN  /\ found \subseteq Elems(q)
             /\ found = {} => \A u \in Elems(q) : s.tcb[u].ptn \cap ptn = {}
<1> DEFINE hits == {i \in DOMAIN q : s.tcb[q[i]].ptn \cap ptn # {}}
<1>1. Por!FirstMatch(s, q, ptn) = {q[i] : i \in {j \in hits : \A h \in hits : j <= h}}
  BY Zenon DEF Por!FirstMatch
<1>2. hits \in SUBSET (0 .. Len(q)) /\ Len(q) \in Nat /\ hits \subseteq DOMAIN q
  OBVIOUS
<1>3. hits # {} => \E i \in hits : \A h \in hits : i <= h
  <2> HIDE DEF hits
  <2> QED BY <1>2, MinimumExists
<1>4. hits = {} => \A u \in Elems(q) : s.tcb[u].ptn \cap ptn = {}
  BY DEF Elems
<1> HIDE DEF hits
<1> QED BY <1>1, <1>2, <1>3, <1>4 DEF Elems

\* knl_gcb_make_wait: a caller that is in no queue joins the call queue of port o.
LEMMA CallWaits ==
  ASSUME NEW s, PortInv(s), NEW t \in Few, NEW o \in Objects, s.gcb[o].objid,
         s.tcb[t].state = "WAIT" => s.tcb[t].wspec = "rdv",
         NEW x \in PortState, Others(s, x, t), x.gcb = s.gcb, x.met = s.met, x.known = s.known,
         x.tcb[t].wrdvno = s.tcb[t].wrdvno, x.tcb[t].priority = s.tcb[t].priority,
         x.tcb[t].wspec = "cal", s.gcb[o].maxrmsz <= x.tcb[t].room,
         \A a \in Queued(s, o, "acp") : x.tcb[t].ptn \cap s.tcb[a].ptn = {}
  PROVE  PortInv(Por!knl_gcb_make_wait(x, t, o))
<1> DEFINE w == x.tcb[t]
           g == s.gcb[o]
           q == g.wait_queue
           r == IF g.tpri THEN knl_queue_insert_tpri(q, t, Prio(s)) ELSE QueInsert(q, t)
           W == [w EXCEPT !.state = "WAIT", !.wid = o, !.wercd = "E_TMOUT"]
           c == [g EXCEPT !.wait_queue = r]
           y == SetObj(x, o, c)
           f == Por!knl_gcb_make_wait(x, t, o)
<1>1. s \in PortState /\ w \in Por!TCB /\ g \in Por!PORCB /\ q \in Seq(Few)
  BY QueueTypes DEF PortInv, PortState
<1>2. Prio(x) = Prio(s) /\ Por!Priorities(x) = Prio(s) /\ Prio(s) \in [Few -> Int]
  <2>1. Prio(x) = Prio(s)
    BY DEF Prio, Others
  <2> QED BY <1>1, <2>1, PrioType, Zenon DEF Prio, Por!Priorities
<1>3. Injective(q) /\ t \notin Elems(q)
  BY DEF PortInv, Calls, Queued
<1>4. r \in Seq(Few)
  <2>1. CASE g.tpri
    <3>1. r = knl_queue_insert_tpri(q, t, Prio(s))
      BY <2>1
    <3> QED BY <1>1, <1>2, <1>3, <3>1, TpriFacts
  <2>2. CASE ~g.tpri
    <3>1. r = QueInsert(q, t)
      BY <2>2
    <3> QED BY <1>1, <1>3, <3>1, QueInsertFacts
  <2> QED BY <2>1, <2>2
<1>5. W \in Por!TCB
  BY <1>1, Zenon DEF Por!TCB, Por!Error
<1>6. /\ W.state = "WAIT" /\ W.wid = o /\ W.wrdvno = w.wrdvno /\ W.priority = w.priority
      /\ W.wspec = w.wspec /\ W.room = w.room /\ W.ptn = w.ptn
  BY <1>1 DEF Por!TCB
<1>7. f = SetTask(y, t, W)
  BY <1>2, PortQueues, Zenon DEF Por!knl_gcb_make_wait, Por!QueueFor, SetTask, SetObj
<1> HIDE DEF r, f
<1>8. c \in Por!PORCB
  BY <1>1, <1>4, Zenon DEF Por!PORCB
<1>9. /\ c.wait_queue = r /\ c.accept_queue = g.accept_queue /\ c.objid = g.objid /\ c.tpri = g.tpri
      /\ c.maxcmsz = g.maxcmsz /\ c.maxrmsz = g.maxrmsz
  BY <1>1 DEF Por!PORCB
<1> HIDE DEF c, W
<1> HIDE DEF y, g, q, w
<1>10. /\ y \in PortState /\ y.gcb[o] = c /\ \A p \in Objects \ {o} : y.gcb[p] = x.gcb[p]
       /\ y.tcb = x.tcb /\ y.met = x.met /\ y.known = x.known
  BY <1>8, OnePort DEF y
<1>11. /\ f \in PortState /\ f.tcb[t] = W /\ Others(y, f, t)
       /\ f.gcb = y.gcb /\ f.met = y.met /\ f.known = y.known
  BY <1>5, <1>7, <1>10, OneTask
<1>12. Others(s, f, t)
  BY <1>10, <1>11 DEF Others
<1>13. SamePorts(s, f)
  BY <1>9, <1>10, <1>11 DEF SamePorts, g
<1>14. Joins(s, f, t, o)
  BY <1>6, <1>10, <1>11, <1>12, <1>13 DEF Joins, w
<1>15. QueuedCall(s, f, t, o)
  BY <1>6, <1>9, <1>10, <1>11 DEF QueuedCall, r, g, q, w
<1> QED BY <1>14, <1>15, JoinsKeeps DEF f

\* The queues hold waiting tasks.
LEMMA InQueue ==
  ASSUME NEW s, PortInv(s), NEW o \in Objects
  PROVE  /\ \A u \in Elems(s.gcb[o].wait_queue) :
              u \in Few /\ s.tcb[u].state = "WAIT" /\ s.tcb[u].wid = o /\ s.tcb[u].wspec = "cal"
         /\ \A u \in Elems(s.gcb[o].accept_queue) :
              u \in Few /\ s.tcb[u].state = "WAIT" /\ s.tcb[u].wid = o /\ s.tcb[u].wspec = "acp"
         /\ Elems(s.gcb[o].accept_queue) = Queued(s, o, "acp")
         /\ Elems(s.gcb[o].wait_queue) = Queued(s, o, "cal")
         /\ s.gcb[o].wait_queue \in Seq(Few) /\ s.gcb[o].accept_queue \in Seq(Few)
BY QueueTypes DEF PortInv, Calls, Accepts, Queued

\* A caller t that is in no queue meets task a, which accepts.
LEMMA MeetsAcceptor ==
  ASSUME NEW s, PortInv(s), NEW t \in Few, NEW a \in Few, t # a, NEW o \in Objects,
         s.tcb[t].state = "WAIT" => s.tcb[t].wspec = "rdv", s.tcb[a].state = "WAIT",
         s.met[t] < MaxRdv, s.gcb[o].maxrmsz <= s.tcb[t].room
  PROVE  PortInv(Por!Meet(Por!Release(s, a, "E_OK"), t, o))
<1> DEFINE r == Por!Release(s, a, "E_OK")
<1>1. "E_OK" \in Por!Error
  BY DEF Por!Error
<1>2. Out(s, r, a)
  BY <1>1, ReleaseOut
<1> HIDE DEF r
<1>3. PortInv(r)
  BY <1>2, OutKeeps
<1>4. r.tcb[t] = s.tcb[t] /\ r.met = s.met /\ r.gcb[o].maxrmsz = s.gcb[o].maxrmsz
  BY <1>2 DEF Out, Others, SamePorts
<1>5. Enters(r, Por!Meet(r, t, o), t, o)
  BY <1>3, <1>4, MeetEnters
<1> QED BY <1>3, <1>4, <1>5, EntersKeeps DEF r

\* tk_cal_por.
LEMMA CalPorKeeps ==
  ASSUME PortInv(k), NEW t \in Few, NEW o \in Objects, NEW ptn \in Por!Patterns, NEW sz \in Por!Size,
         Por!tk_cal_por(t, o, ptn, sz)
  PROVE  PortInv(k')
<1> DEFINE g == k.gcb[o]
           e == Por!Fresh(k)
           room == Por!Max({sz, g.maxrmsz})
           found == Por!FirstMatch(k, g.accept_queue, ptn)
           s == [e EXCEPT !.tcb[t].ptn = ptn, !.tcb[t].room = room]
           V == [e.tcb[t] EXCEPT !.ptn = ptn, !.room = room]
           W == [V EXCEPT !.wspec = "cal"]
           x == [s EXCEPT !.tcb[t].wspec = "cal"]
<1>1. /\ PortInv(e) /\ e.gcb = k.gcb /\ e.met = k.met
      /\ \A u \in Few : e.tcb[u].state = k.tcb[u].state /\ (k.tcb[u].state = "WAIT" => e.tcb[u] = k.tcb[u])
  BY FreshKeeps, Zenon
<1>2. /\ k.tcb[t].state = "READY" /\ k.met[t] < MaxRdv /\ g.objid
      /\ \/ \E a \in found : k' = Por!Meet(Por!Release(s, a, "E_OK"), t, o)
         \/ found = {} /\ k' = Por!knl_gcb_make_wait(x, t, o)
  BY Zenon DEF Por!tk_cal_por
<1>3. g.maxrmsz \in Por!Size /\ e \in PortState /\ e.tcb[t] \in Por!TCB /\ ptn \in SUBSET Bits
  BY <1>1 DEF PortInv, PortState, Por!PORCB, Por!Patterns
<1>4. room \in Por!Size /\ g.maxrmsz <= room
  <2>1. room \in {sz, g.maxrmsz} /\ \A y \in {sz, g.maxrmsz} : room >= y
    <3>1. \E y \in {sz, g.maxrmsz} : \A z \in {sz, g.maxrmsz} : y >= z
      BY <1>3, Zero DEF Por!Size
    <3> QED BY <3>1, Zenon DEF Por!Max
  <2> QED BY <1>3, <2>1, Zero DEF Por!Size
<1> HIDE DEF room
<1>5. V \in Por!TCB /\ W \in Por!TCB
  <2>1. V \in Por!TCB
    BY <1>3, <1>4, Zenon DEF Por!TCB
  <2> HIDE DEF V
  <2> QED BY <2>1, Zenon DEF Por!TCB
<1>6. /\ V.state = e.tcb[t].state /\ V.wrdvno = e.tcb[t].wrdvno /\ V.priority = e.tcb[t].priority
      /\ V.room = room /\ V.ptn = ptn
      /\ W.state = e.tcb[t].state /\ W.wrdvno = e.tcb[t].wrdvno /\ W.priority = e.tcb[t].priority
      /\ W.room = room /\ W.ptn = ptn /\ W.wspec = "cal"
  BY <1>3 DEF Por!TCB
<1>7. s = SetTask(e, t, V)
  BY <1>3 DEF PortState, Por!TCB, SetTask
<1>8. x = SetTask(e, t, W)
  BY <1>3 DEF PortState, Por!TCB, SetTask
<1> HIDE DEF e, s, x, V, W
<1>9. /\ s \in PortState /\ s.tcb[t] = V /\ Others(e, s, t) /\ s.gcb = e.gcb /\ s.met = e.met /\ s.known = e.known
  BY <1>3, <1>5, <1>7, OneTask
<1>10. x \in PortState /\ x.tcb[t] = W /\ Others(e, x, t) /\ x.gcb = e.gcb /\ x.met = e.met /\ x.known = e.known
  BY <1>3, <1>5, <1>8, OneTask
<1>11. PortInv(s)
  BY <1>1, <1>2, <1>6, <1>9, QuietOut
<1>12. ASSUME NEW a \in found, k' = Por!Meet(Por!Release(s, a, "E_OK"), t, o) PROVE PortInv(k')
  <2>1. a \in Elems(g.accept_queue)
    <3>1. g.accept_queue \in Seq(Few)
      BY InQueue
    <3> QED BY <3>1, FirstMatchFacts
  <2>2. a \in Few /\ k.tcb[a].state = "WAIT"
    BY <2>1, InQueue
  <2>3. a # t /\ s.tcb[a].state = "WAIT" /\ s.tcb[t].state # "WAIT"
    BY <1>1, <1>2, <1>6, <1>9, <2>2 DEF Others
  <2> QED BY <1>1, <1>2, <1>4, <1>6, <1>9, <1>11, <1>12, <2>2, <2>3, MeetsAcceptor
<1>13. ASSUME found = {}, k' = Por!knl_gcb_make_wait(x, t, o) PROVE PortInv(k')
  <2>1. \A u \in Queued(k, o, "acp") : k.tcb[u].ptn \cap ptn = {}
    <3>1. g.accept_queue \in Seq(Few) /\ Elems(g.accept_queue) = Queued(k, o, "acp")
      BY InQueue
    <3> QED BY <1>13, <3>1, FirstMatchFacts
  <2>2. \A a \in Queued(e, o, "acp") : x.tcb[t].ptn \cap e.tcb[a].ptn = {}
    BY <1>1, <1>6, <1>10, <2>1 DEF Queued
  <2> QED BY <1>1, <1>2, <1>4, <1>6, <1>10, <1>13, <2>2, CallWaits
<1> QED BY <1>2, <1>12, <1>13

\* tk_acp_por: a caller changes from its queue into the rendezvous, or the task waits.
LEMMA AcpPorKeeps ==
  ASSUME PortInv(k), NEW t \in Few, NEW o \in Objects, NEW ptn \in Por!Patterns,
         Por!tk_acp_por(t, o, ptn)
  PROVE  PortInv(k')
<1> DEFINE g == k.gcb[o]
           e == Por!Fresh(k)
           found == Por!FirstMatch(k, g.wait_queue, ptn)
           W == [e.tcb[t] EXCEPT !.state = "WAIT", !.wspec = "acp", !.wid = o, !.ptn = ptn, !.wercd = "E_TMOUT"]
           c == [g EXCEPT !.accept_queue = QueInsert(g.accept_queue, t)]
           y == SetTask(e, t, W)
           f == SetObj(y, o, c)
<1>1. /\ PortInv(e) /\ e.gcb = k.gcb /\ e.met = k.met
      /\ \A u \in Few : e.tcb[u].state = k.tcb[u].state /\ (k.tcb[u].state = "WAIT" => e.tcb[u] = k.tcb[u])
  BY FreshKeeps, Zenon
<1>2. k.tcb[t].state = "READY" /\ g.objid
  BY Zenon DEF Por!tk_acp_por
<1>3. /\ e \in PortState /\ e.tcb[t] \in Por!TCB /\ ptn \in SUBSET Bits /\ g \in Por!PORCB
      /\ g.wait_queue \in Seq(Few) /\ g.accept_queue \in Seq(Few)
      /\ Elems(g.wait_queue) = Queued(k, o, "cal") /\ Elems(g.accept_queue) = Queued(k, o, "acp")
      /\ Injective(g.accept_queue)
  BY <1>1, InQueue DEF PortInv, PortState, Por!PORCB, Por!Patterns, Accepts
<1>4. \/ \E u \in found : k.met[u] < MaxRdv /\ k' = Por!Meet(Por!Release(e, u, "E_OK"), u, o)
      \/ found = {} /\ k' = f
  <2>1. \/ \E u \in found : k.met[u] < MaxRdv /\ k' = Por!Meet(Por!Release(e, u, "E_OK"), u, o)
        \/ /\ found = {}
           /\ k' = [e EXCEPT !.tcb[t] = [@ EXCEPT !.state = "WAIT", !.wspec = "acp", !.wid = o,
                                                  !.ptn = ptn, !.wercd = "E_TMOUT"],
                             !.gcb[o].accept_queue = Por!QueInsert(@, t)]
    BY Zenon DEF Por!tk_acp_por
  <2>2. k' = [e EXCEPT !.tcb[t] = [@ EXCEPT !.state = "WAIT", !.wspec = "acp", !.wid = o,
                                            !.ptn = ptn, !.wercd = "E_TMOUT"],
                       !.gcb[o].accept_queue = Por!QueInsert(@, t)]  =>  k' = f
    <3>1. y.gcb = k.gcb
      <4>1. W \in Por!TCB
        BY <1>3, Zenon DEF Por!TCB, Por!Error
      <4> HIDE DEF W
      <4> QED BY <1>1, <1>3, <4>1, OneTask
    <3> QED BY <1>3, <3>1, PortQueues, Zenon DEF SetTask, SetObj
  <2> QED BY <2>1, <2>2
<1> HIDE DEF e
<1>5. ASSUME NEW u \in found, k.met[u] < MaxRdv, k' = Por!Meet(Por!Release(e, u, "E_OK"), u, o)
      PROVE  PortInv(k')
  <2> DEFINE r == Por!Release(e, u, "E_OK")
  <2>1. u \in Few /\ k.tcb[u].state = "WAIT" /\ k.tcb[u].wid = o /\ k.tcb[u].wspec = "cal"
    <3>1. g.wait_queue \in Seq(Few)
      BY <1>3
    <3>2. u \in Elems(g.wait_queue)
      BY <3>1, FirstMatchFacts
    <3> QED BY <1>3, <3>2 DEF Queued
  <2>2. e.tcb[u] = k.tcb[u] /\ e.tcb[u].state = "WAIT" /\ e.gcb[o].maxrmsz <= e.tcb[u].room
    BY <1>1, <2>1 DEF PortInv, Waits, InPort
  <2>3. "E_OK" \in Por!Error
    BY DEF Por!Error
  <2>4. Out(e, r, u) /\ r.tcb[u].room = e.tcb[u].room
    BY <1>1, <2>1, <2>2, <2>3, ReleaseOut, Zenon
  <2> HIDE DEF r
  <2>5. PortInv(r)
    BY <1>1, <2>1, <2>4, OutKeeps
  <2>6. r.met = k.met /\ r.gcb[o].maxrmsz = e.gcb[o].maxrmsz /\ r.tcb[u].state # "WAIT"
    BY <1>1, <2>4 DEF Out, SamePorts
  <2>8. Enters(r, k', u, o)
    BY <1>5, <2>1, <2>5, <2>6, MeetEnters DEF r
  <2> QED BY <2>1, <2>2, <2>4, <2>5, <2>6, <2>8, EntersKeeps
<1>6. ASSUME found = {}, k' = f
      PROVE  PortInv(k')
  <2>1. W \in Por!TCB
    BY <1>3, Zenon DEF Por!TCB, Por!Error
  <2>2. /\ W.state = "WAIT" /\ W.wspec = "acp" /\ W.wid = o /\ W.ptn = ptn
        /\ W.wrdvno = e.tcb[t].wrdvno /\ W.priority = e.tcb[t].priority
    BY <1>3 DEF Por!TCB
  <2>3. c \in Por!PORCB
    <3>1. QueInsert(g.accept_queue, t) \in Seq(Few)
      <4>1. t \notin Elems(g.accept_queue)
        BY <1>2, <1>3 DEF Queued
      <4> QED BY <1>3, <4>1, QueInsertFacts
    <3> QED BY <1>3, <3>1, Zenon DEF Por!PORCB
  <2>4. /\ c.accept_queue = QueInsert(g.accept_queue, t) /\ c.wait_queue = g.wait_queue
        /\ c.objid = g.objid /\ c.tpri = g.tpri /\ c.maxcmsz = g.maxcmsz /\ c.maxrmsz = g.maxrmsz
    BY <1>3 DEF Por!PORCB
  <2> HIDE DEF W, c
  <2>5. y \in PortState /\ y.tcb[t] = W /\ Others(e, y, t) /\ y.gcb = e.gcb /\ y.met = e.met /\ y.known = e.known
    BY <1>3, <2>1, OneTask
  <2> HIDE DEF y
  <2>6. /\ f \in PortState /\ f.gcb[o] = c /\ \A p \in Objects \ {o} : f.gcb[p] = y.gcb[p]
        /\ f.tcb = y.tcb /\ f.met = y.met /\ f.known = y.known
    BY <2>3, <2>5, OnePort
  <2> HIDE DEF f
  <2>7. Others(e, f, t) /\ SamePorts(e, f)
    BY <1>1, <2>4, <2>5, <2>6 DEF Others, SamePorts
  <2>8. Joins(e, f, t, o)
    BY <1>1, <1>2, <2>2, <2>5, <2>6, <2>7 DEF Joins
  <2>9. \A u \in Queued(e, o, "cal") : ptn \cap e.tcb[u].ptn = {}
    <3>1. \A u \in Elems(g.wait_queue) : k.tcb[u].ptn \cap ptn = {}
      BY <1>3, <1>6, FirstMatchFacts
    <3> QED BY <1>1, <1>3, <3>1 DEF Queued
  <2>10. QueuedAccept(e, f, t, o)
    BY <1>1, <2>2, <2>4, <2>5, <2>6, <2>9 DEF QueuedAccept
  <2> QED BY <1>1, <1>6, <2>8, <2>10, JoinsKeeps
<1> QED BY <1>4, <1>5, <1>6

\* tk_fwd_por: the caller leaves its rendezvous for another or for a call queue.
LEMMA FwdPorKeeps ==
  ASSUME PortInv(k), NEW n \in k.known, NEW o \in Objects, NEW ptn \in Por!Patterns, NEW sz \in Por!Size,
         Por!tk_fwd_por(n, o, ptn, sz)
  PROVE  PortInv(k')
<1> DEFINE t == n.tskid
           e == Por!Fresh(k)
           g == k.gcb[o]
           found == Por!FirstMatch(k, g.accept_queue, ptn)
           W == [e.tcb[t] EXCEPT !.wspec = "cal", !.ptn = ptn]
           x == SetTask(e, t, W)
<1>1. /\ PortInv(e) /\ e.gcb = k.gcb /\ e.met = k.met /\ e.known = k.known
      /\ \A u \in Few : e.tcb[u].state = k.tcb[u].state /\ (k.tcb[u].state = "WAIT" => e.tcb[u] = k.tcb[u])
  BY FreshKeeps, Zenon
<1>2. t \in Few
  BY DEF PortInv, PortState, Numbers
<1>3. /\ k.tcb[t].state = "WAIT" /\ k.tcb[t].wspec = "rdv" /\ k.met[t] < MaxRdv /\ g.objid
      /\ g.maxrmsz <= k.tcb[t].maxrmsz
      /\ \/ \E a \in found : k' = Por!Meet(Por!Release(e, a, "E_OK"), t, o)
         \/ /\ found = {}
            /\ k' = Por!knl_gcb_make_wait([e EXCEPT !.tcb[t].wspec = "cal", !.tcb[t].ptn = ptn], t, o)
  BY Zenon DEF Por!tk_fwd_por, Por!MayForward, Por!InRendezvous
<1>4. /\ e \in PortState /\ e.tcb[t] \in Por!TCB /\ ptn \in SUBSET Bits
      /\ g.accept_queue \in Seq(Few) /\ Elems(g.accept_queue) = Queued(k, o, "acp")
  BY <1>1, <1>2, InQueue DEF PortInv, PortState, Por!Patterns
<1>5. e.tcb[t] = k.tcb[t] /\ g.maxrmsz <= e.tcb[t].room
  <2>1. k.tcb[t].maxrmsz <= k.tcb[t].room /\ e.tcb[t] = k.tcb[t]
    BY <1>1, <1>2, <1>3 DEF PortInv, Waits, InRdv
  <2>2. g.maxrmsz \in Int /\ k.tcb[t].maxrmsz \in Int /\ k.tcb[t].room \in Int
    BY <1>2 DEF PortInv, PortState, Por!TCB, Por!PORCB, Por!Size
  <2> QED BY <1>3, <2>1, <2>2
<1> HIDE DEF e
<1>6. ASSUME NEW a \in found, k' = Por!Meet(Por!Release(e, a, "E_OK"), t, o) PROVE PortInv(k')
  <2>1. a \in Few /\ k.tcb[a].state = "WAIT" /\ k.tcb[a].wspec = "acp"
    <3>1. g.accept_queue \in Seq(Few)
      BY <1>4
    <3>2. a \in Elems(g.accept_queue)
      BY <3>1, FirstMatchFacts
    <3> QED BY <1>4, <3>2 DEF Queued
  <2>2. a # t /\ e.tcb[a].state = "WAIT"
    BY <1>1, <1>3, <2>1
  <2> QED BY <1>1, <1>2, <1>3, <1>5, <1>6, <2>1, <2>2, MeetsAcceptor
<1>7. ASSUME found = {},
             k' = Por!knl_gcb_make_wait([e EXCEPT !.tcb[t].wspec = "cal", !.tcb[t].ptn = ptn], t, o)
      PROVE  PortInv(k')
  <2>1. [e EXCEPT !.tcb[t].wspec = "cal", !.tcb[t].ptn = ptn] = x
    BY <1>2, <1>4 DEF SetTask, PortState, Por!TCB
  <2>2. W \in Por!TCB
    BY <1>4, Zenon DEF Por!TCB
  <2>3. W.wrdvno = e.tcb[t].wrdvno /\ W.priority = e.tcb[t].priority /\ W.wspec = "cal" /\ W.ptn = ptn
        /\ W.room = e.tcb[t].room
    BY <1>4 DEF Por!TCB
  <2>4. \A u \in Queued(e, o, "acp") : ptn \cap e.tcb[u].ptn = {}
    <3>1. \A u \in Elems(g.accept_queue) : k.tcb[u].ptn \cap ptn = {}
      BY <1>4, <1>7, FirstMatchFacts
    <3> QED BY <1>1, <1>4, <3>1 DEF Queued
  <2>5. k' = Por!knl_gcb_make_wait(x, t, o)
    BY <1>7, <2>1
  <2> HIDE DEF W
  <2>6. x \in PortState /\ x.tcb[t] = W /\ Others(e, x, t) /\ x.gcb = e.gcb /\ x.met = e.met /\ x.known = e.known
    BY <1>2, <1>4, <2>2, OneTask
  <2> HIDE DEF x
  <2> QED BY <1>1, <1>2, <1>3, <1>5, <2>3, <2>4, <2>5, <2>6, CallWaits
<1> QED BY <1>3, <1>6, <1>7

\* The end of a wait, by a reply, a timeout or tk_rel_wai.
LEMMA ReleaseKeeps ==
  ASSUME NEW s, PortInv(s), NEW t \in Few, s.tcb[t].state = "WAIT", NEW e \in Por!Error
  PROVE  PortInv(Por!Release(s, t, e))
<1>1. Out(s, Por!Release(s, t, e), t)
  BY ReleaseOut, Zenon
<1> QED BY <1>1, OutKeeps, Zenon

\* tk_rpl_rdv, knl_wait_release_ng and tk_sta_tsk.
LEMMA ReplyKeeps ==
  ASSUME PortInv(k),
         \/ \E n \in k.known, sz \in Por!Size : Por!tk_rpl_rdv(n, sz)
         \/ \E t \in Few, e \in {"E_TMOUT", "E_RLWAI"} : Por!knl_wait_release_ng(t, e)
         \/ \E t \in Few : Por!tk_sta_tsk(t)
  PROVE  PortInv(k')
<1> DEFINE f == Por!Fresh(k)
<1>1. PortInv(f) /\ \A u \in Few : f.tcb[u].state = k.tcb[u].state
  BY FreshKeeps, Zenon
<1>2. "E_OK" \in Por!Error /\ "E_TMOUT" \in Por!Error /\ "E_RLWAI" \in Por!Error
  BY DEF Por!Error
<1>3. ASSUME NEW n \in k.known, NEW sz \in Por!Size, Por!tk_rpl_rdv(n, sz) PROVE PortInv(k')
  <2>1. n.tskid \in Few
    BY DEF PortInv, PortState, Numbers
  <2>2. k.tcb[n.tskid].state = "WAIT" /\ k' = Por!Release(f, n.tskid, "E_OK")
    BY <1>3, Zenon DEF Por!tk_rpl_rdv, Por!InRendezvous
  <2> HIDE DEF f
  <2> QED BY <1>1, <1>2, <2>1, <2>2, ReleaseKeeps
<1>4. ASSUME NEW t \in Few, NEW e \in {"E_TMOUT", "E_RLWAI"}, Por!knl_wait_release_ng(t, e) PROVE PortInv(k')
  <2>1. k.tcb[t].state = "WAIT" /\ k' = Por!Release(f, t, e) /\ e \in Por!Error
    BY <1>2, <1>4, Zenon DEF Por!knl_wait_release_ng
  <2> HIDE DEF f
  <2> QED BY <1>1, <2>1, ReleaseKeeps
<1>5. ASSUME NEW t \in Few, Por!tk_sta_tsk(t) PROVE PortInv(k')
  <2> DEFINE W == [f.tcb[t] EXCEPT !.state = "READY"]
  <2>1. k.tcb[t].state = "DORMANT" /\ k' = [f EXCEPT !.tcb[t].state = "READY"]
    BY <1>5, Zenon DEF Por!tk_sta_tsk
  <2> HIDE DEF f
  <2>2. f \in PortState /\ f.tcb[t] \in Por!TCB
    BY <1>1 DEF PortInv, PortState
  <2>3. W \in Por!TCB
    BY <2>2, Zenon DEF Por!TCB
  <2>4. W.state = "READY" /\ W.wrdvno = f.tcb[t].wrdvno
    BY <2>2 DEF Por!TCB
  <2>5. k' = SetTask(f, t, W)
    BY <2>1, Zenon DEF SetTask
  <2> HIDE DEF W
  <2>6. k' \in PortState /\ k'.tcb[t] = W /\ Others(f, k', t) /\ k'.gcb = f.gcb /\ k'.met = f.met /\ k'.known = f.known
    BY <2>2, <2>3, <2>5, OneTask
  <2> QED BY <1>1, <2>1, <2>4, <2>6, QuietOut
<1> QED BY <1>3, <1>4, <1>5

\* tk_ter_tsk, also of a task in a queue or in a rendezvous.
LEMMA TerTskKeeps ==
  ASSUME PortInv(k), NEW t \in Few, Por!tk_ter_tsk(t)
  PROVE  PortInv(k')
<1> DEFINE f == Por!Fresh(k)
           s == IF k.tcb[t].state = "WAIT" THEN Por!Release(f, t, "E_RLWAI") ELSE f
           W == [s.tcb[t] EXCEPT !.state = "DORMANT"]
           d == SetTask(s, t, W)
<1>1. PortInv(f) /\ \A u \in Few : f.tcb[u].state = k.tcb[u].state
  BY FreshKeeps, Zenon
<1>2. k' = Por!Fresh([s EXCEPT !.tcb[t].state = "DORMANT"])
  BY Zenon DEF Por!tk_ter_tsk
<1>3. PortInv(s) /\ s.tcb[t].state # "WAIT"
  <2>1. CASE k.tcb[t].state = "WAIT"
    <3>1. s = Por!Release(f, t, "E_RLWAI") /\ "E_RLWAI" \in Por!Error
      BY <2>1 DEF Por!Error
    <3> HIDE DEF s, f
    <3>2. Out(f, s, t)
      BY <1>1, <2>1, <3>1, ReleaseOut
    <3> QED BY <1>1, <3>2, OutKeeps DEF Out
  <2>2. CASE k.tcb[t].state # "WAIT"
    BY <1>1, <2>2
  <2> QED BY <2>1, <2>2
<1> HIDE DEF f, s
<1>4. s \in PortState /\ s.tcb[t] \in Por!TCB
  BY <1>3 DEF PortInv, PortState
<1>5. W \in Por!TCB
  BY <1>4, Zenon DEF Por!TCB
<1>6. W.state = "DORMANT" /\ W.wrdvno = s.tcb[t].wrdvno
  BY <1>4 DEF Por!TCB
<1>7. k' = Por!Fresh(d)
  BY <1>2, Zenon DEF SetTask
<1> HIDE DEF W
<1>8. d \in PortState /\ d.tcb[t] = W /\ Others(s, d, t) /\ d.gcb = s.gcb /\ d.met = s.met /\ d.known = s.known
  BY <1>4, <1>5, OneTask
<1> HIDE DEF d
<1>9. PortInv(d)
  BY <1>3, <1>6, <1>8, QuietOut
<1> QED BY <1>7, <1>9, FreshKeeps, Zenon

\* tk_cre_por: nobody waits at a port that does not exist yet.
LEMMA CrePorKeeps ==
  ASSUME PortInv(k), NEW o \in Objects, NEW tpri \in BOOLEAN, NEW n \in Por!Size,
         Por!tk_cre_por(o, tpri, MaxSize, n)
  PROVE  PortInv(k')
<1> DEFINE e == Por!Fresh(k)
           c == [Por!NoPort EXCEPT !.objid = TRUE, !.tpri = tpri, !.maxcmsz = MaxSize, !.maxrmsz = n]
<1>1. PortInv(e) /\ e.gcb = k.gcb
  BY FreshKeeps, Zenon
<1>2. ~k.gcb[o].objid /\ k' = SetObj(e, o, c)
  BY Zenon DEF Por!tk_cre_por, SetObj
<1> HIDE DEF e
<1>3. MaxSize \in Por!Size /\ 0 \in Por!Size /\ << >> \in Seq(Few) /\ TRUE \in BOOLEAN /\ FALSE \in BOOLEAN
  BY Zero DEF Por!Size
<1>4. c \in Por!PORCB
  <2>1. Por!NoPort \in Por!PORCB
    BY <1>3, Zenon DEF Por!NoPort, Por!PORCB
  <2> QED BY <1>3, <2>1, Zenon DEF Por!PORCB
<1>5. c.wait_queue = << >> /\ c.accept_queue = << >>
  BY DEF Por!NoPort
<1> HIDE DEF c
<1>6. e \in PortState
  BY <1>1 DEF PortInv
<1>7. /\ k' \in PortState /\ k'.gcb[o] = c /\ \A p \in Objects \ {o} : k'.gcb[p] = e.gcb[p]
      /\ k'.tcb = e.tcb /\ k'.met = e.met /\ k'.known = e.known
  BY <1>2, <1>4, <1>6, OnePort
<1>8. \A t \in Few : e.tcb[t].state = "WAIT" => e.tcb[t].wspec = "rdv" \/ e.tcb[t].wid # o
  BY <1>1, <1>2 DEF PortInv, Waits, InPort
<1>9. Queued(e, o, "cal") = {} /\ Queued(e, o, "acp") = {}
  BY <1>8 DEF Queued
<1>10. Counted(k') /\ Waits(k')
  BY <1>1, <1>7, <1>8 DEF PortInv, Counted, Waits, InRdv, InPort
<1>11. /\ \A p \in Objects, spec \in {"cal", "acp"} : Queued(k', p, spec) = Queued(e, p, spec)
       /\ Prio(k') = Prio(e)
  BY <1>7 DEF Queued, Prio
<1>12. Calls(k', o) /\ Accepts(k', o)
  <2>1. Injective(<< >>) /\ Elems(<< >>) = {} /\ Sorted(<< >>, Prio(e))
    BY DEF Injective, Elems, Sorted
  <2> QED BY <1>5, <1>7, <1>9, <1>11, <2>1 DEF Calls, Accepts
<1>13. \A p \in Objects \ {o} : Calls(k', p) /\ Accepts(k', p)
  BY <1>1, <1>7, <1>11 DEF PortInv, Calls, Accepts
<1>14. \A p \in Objects : Unmatched(k', p)
  BY <1>1, <1>7, <1>11 DEF PortInv, Unmatched
<1> QED BY <1>7, <1>10, <1>12, <1>13, <1>14 DEF PortInv

\* tk_del_por: everybody in the queues of the port goes on, callers in a rendezvous wait.
LEMMA DelPorKeeps ==
  ASSUME PortInv(k), NEW o \in Objects, Por!tk_del_por(o)
  PROVE  PortInv(k')
<1> DEFINE e == Por!Fresh(k)
           waiting == Elems(k.gcb[o].wait_queue) \cup Elems(k.gcb[o].accept_queue)
           W(w) == [w EXCEPT !.state = "READY", !.wercd = "E_DLT"]
           T == [t \in Few |-> IF t \in waiting THEN W(e.tcb[t]) ELSE e.tcb[t]]
           y == SetObj(e, o, Por!NoPort)
<1>1. /\ PortInv(e) /\ e.gcb = k.gcb
      /\ \A u \in Few : k.tcb[u].state = "WAIT" => e.tcb[u] = k.tcb[u]
  BY FreshKeeps, Zenon
<1>2. k' = [y EXCEPT !.tcb = T]
  BY PortQueues, Zenon DEF Por!tk_del_por, SetObj
<1> HIDE DEF e
<1>3. e \in PortState /\ \A t \in Few : e.tcb[t] \in Por!TCB
  BY <1>1 DEF PortInv, PortState
<1>4. \A w \in Por!TCB : W(w) \in Por!TCB
  BY Zenon DEF Por!TCB, Por!Error
<1>5. \A w \in Por!TCB : W(w).state = "READY" /\ W(w).wrdvno = w.wrdvno /\ W(w).priority = w.priority
  BY DEF Por!TCB
<1>6. waiting = Queued(e, o, "cal") \cup Queued(e, o, "acp")
  BY <1>1, InQueue DEF Queued
<1> HIDE DEF W, waiting
<1>7. /\ T \in [Few -> Por!TCB]
      /\ \A t \in Few : IF t \in waiting THEN T[t].state = "READY" ELSE T[t] = e.tcb[t]
      /\ \A t \in Few : T[t].wrdvno = e.tcb[t].wrdvno /\ T[t].priority = e.tcb[t].priority
  BY <1>3, <1>4, <1>5
<1> HIDE DEF T
<1>8. Por!NoPort \in Por!PORCB /\ Por!NoPort.wait_queue = << >> /\ Por!NoPort.accept_queue = << >>
  BY Zero DEF Por!NoPort, Por!PORCB
<1>9. /\ y \in PortState /\ y.gcb[o] = Por!NoPort /\ \A p \in Objects \ {o} : y.gcb[p] = e.gcb[p]
      /\ y.tcb = e.tcb /\ y.met = e.met /\ y.known = e.known
  BY <1>3, <1>8, OnePort
<1> HIDE DEF y
<1>10. k' \in PortState /\ k'.tcb = T /\ k'.gcb = y.gcb /\ k'.met = y.met /\ k'.known = y.known
  BY <1>2, <1>7, <1>9 DEF PortState
<1>11. Counted(k')
  BY <1>1, <1>7, <1>9, <1>10, CountedStays DEF PortInv
<1>12. \A t \in Few : t \notin waiting /\ e.tcb[t].state = "WAIT" => e.tcb[t].wspec = "rdv" \/ e.tcb[t].wid # o
  <2>1. \A t \in Few : e.tcb[t].wspec \in {"cal", "acp", "rdv"}
    BY <1>3 DEF Por!TCB
  <2> QED BY <1>6, <2>1 DEF Queued
<1>13. Waits(k')
  <2>1. ASSUME NEW t \in Few, k'.tcb[t].state = "WAIT"
        PROVE  IF k'.tcb[t].wspec = "rdv" THEN InRdv(k', t) ELSE InPort(k', t)
    <3>1. t \notin waiting /\ k'.tcb[t] = e.tcb[t]
      BY <1>7, <1>10, <2>1
    <3>2. IF e.tcb[t].wspec = "rdv" THEN InRdv(e, t) ELSE InPort(e, t) /\ e.tcb[t].wid # o
      BY <1>1, <1>12, <2>1, <3>1 DEF PortInv, Waits
    <3> QED BY <1>9, <1>10, <3>1, <3>2 DEF InRdv, InPort
  <2> QED BY <2>1 DEF Waits
<1>14. /\ Queued(k', o, "cal") = {} /\ Queued(k', o, "acp") = {}
       /\ \A p \in Objects \ {o}, spec \in {"cal", "acp"} : Queued(k', p, spec) = Queued(e, p, spec)
  BY <1>6, <1>7, <1>10 DEF Queued
<1>15. Prio(k') = Prio(e)
  BY <1>7, <1>10 DEF Prio
<1>16. Calls(k', o) /\ Accepts(k', o) /\ Unmatched(k', o)
  <2>1. Injective(<< >>) /\ Elems(<< >>) = {} /\ Sorted(<< >>, Prio(e))
    BY DEF Injective, Elems, Sorted
  <2> QED BY <1>8, <1>9, <1>10, <1>14, <1>15, <2>1 DEF Calls, Accepts, Unmatched
<1>17. ASSUME NEW p \in Objects \ {o} PROVE Calls(k', p) /\ Accepts(k', p) /\ Unmatched(k', p)
  <2>1. Calls(k', p) /\ Accepts(k', p)
    BY <1>1, <1>9, <1>10, <1>14, <1>15 DEF PortInv, Calls, Accepts
  <2>2. \A spec \in {"cal", "acp"} : \A u \in Queued(e, p, spec) : k'.tcb[u] = e.tcb[u]
    BY <1>6, <1>7, <1>10 DEF Queued
  <2> QED BY <1>1, <1>14, <2>1, <2>2 DEF PortInv, Unmatched
<1> QED BY <1>10, <1>11, <1>13, <1>16, <1>17 DEF PortInv

\* tk_chg_pri: a caller in a queue by priority moves, nobody else does.
LEMMA ChgPriKeeps ==
  ASSUME PortInv(k), NEW t \in Few, NEW pri \in Por!Pri, Por!tk_chg_pri(t, pri)
  PROVE  PortInv(k')
<1> DEFINE e == Por!Fresh(k)
           W == [e.tcb[t] EXCEPT !.priority = pri]
           s == SetTask(e, t, W)
           o == k.tcb[t].wid
           moves == k.tcb[t].state = "WAIT" /\ k.tcb[t].wspec = "cal" /\ k.gcb[o].tpri
<1>1. /\ PortInv(e) /\ e.gcb = k.gcb
      /\ \A u \in Few : e.tcb[u].state = k.tcb[u].state /\ (k.tcb[u].state = "WAIT" => e.tcb[u] = k.tcb[u])
  BY FreshKeeps, Zenon
<1>2. k' = IF moves THEN Por!knl_gcb_change_priority(s, t) ELSE s
  BY Zenon DEF Por!tk_chg_pri, SetTask
<1> HIDE DEF e
<1>3. e \in PortState /\ e.tcb[t] \in Por!TCB
  BY <1>1 DEF PortInv, PortState
<1>4. W \in Por!TCB
  BY <1>3, Zenon DEF Por!TCB
<1>5. /\ W.priority = pri /\ W.wrdvno = e.tcb[t].wrdvno /\ W.state = e.tcb[t].state /\ W.wid = e.tcb[t].wid
      /\ W.wspec = e.tcb[t].wspec /\ W.rdvno = e.tcb[t].rdvno /\ W.room = e.tcb[t].room
      /\ W.maxrmsz = e.tcb[t].maxrmsz /\ W.ptn = e.tcb[t].ptn
  BY <1>3 DEF Por!TCB
<1> HIDE DEF W
<1>6. s \in PortState /\ s.tcb[t] = W /\ Others(e, s, t) /\ s.gcb = e.gcb /\ s.met = e.met /\ s.known = e.known
  BY <1>3, <1>4, OneTask
<1> HIDE DEF s
<1>7. Counted(s) /\ Waits(s)
  <2>1. Counted(s)
    BY <1>1, <1>5, <1>6, CountedStays DEF PortInv, Others
  <2> QED BY <1>1, <1>5, <1>6, <2>1 DEF PortInv, Waits, InRdv, InPort, Others
<1>8. \A p \in Objects, spec \in {"cal", "acp"} : Queued(s, p, spec) = Queued(e, p, spec)
  BY <1>5, <1>6 DEF Queued, Others
<1>9. \A p \in Objects : Unmatched(s, p) /\ Accepts(s, p)
  <2>1. \A u \in Few : s.tcb[u].ptn = e.tcb[u].ptn
    BY <1>5, <1>6 DEF Others
  <2> QED BY <1>1, <1>6, <1>8, <2>1 DEF PortInv, Unmatched, Accepts, Queued
<1>10. \A u \in Few \ {t} : Prio(s)[u] = Prio(e)[u]
  BY <1>6 DEF Prio, Others
<1>11. ASSUME NEW p \in Objects, moves => p # o PROVE Calls(s, p)
  <2> DEFINE q == e.gcb[p].wait_queue
  <2>1. q \in Seq(Few) /\ Injective(q) /\ Elems(q) = Queued(e, p, "cal") /\ (e.gcb[p].tpri => Sorted(q, Prio(e)))
    BY <1>1, <1>3, QueueTypes DEF PortInv, Calls
  <2>2. e.gcb[p].tpri => \A u \in Elems(q) : Prio(e)[u] = Prio(s)[u]
    <3>1. e.gcb[p].tpri => t \notin Elems(q)
      BY <1>1, <1>11, <2>1 DEF Queued
    <3> QED BY <1>10, <2>1, <3>1 DEF Queued
  <2> HIDE DEF q
  <2>3. e.gcb[p].tpri => Sorted(q, Prio(s))
    BY <2>1, <2>2, SortedSame
  <2> QED BY <1>6, <1>8, <2>1, <2>3 DEF Calls, q
<1>12. CASE ~moves
  BY <1>2, <1>6, <1>7, <1>9, <1>11, <1>12 DEF PortInv
<1>13. CASE moves
  <2> DEFINE g == e.gcb[o]
             q == g.wait_queue
             d == QueRemove(q, t)
             r == knl_queue_insert_tpri(d, t, Prio(s))
             c == [g EXCEPT !.wait_queue = r]
  <2>1. o \in Objects /\ W.wid = o /\ g.tpri /\ g = s.gcb[o]
    BY <1>1, <1>5, <1>6, <1>13 DEF PortInv, Waits, InPort
  <2>2. k' = SetObj(s, o, c)
    <3>1. Por!Priorities(s) = Prio(s)
      BY Zenon DEF Por!Priorities, Prio
    <3>2. k' = Por!knl_gcb_change_priority(s, t) /\ s.tcb[t].wid = o
      BY <1>2, <1>6, <1>13, <2>1
    <3> QED BY <2>1, <3>1, <3>2, PortQueues, Zenon DEF Por!knl_gcb_change_priority, SetObj
  <2>3. /\ g \in Por!PORCB /\ q \in Seq(Few) /\ Injective(q) /\ Elems(q) = Queued(e, o, "cal")
        /\ Sorted(q, Prio(e)) /\ t \in Elems(q)
    BY <1>1, <1>3, <1>13, <2>1, QueueTypes DEF PortInv, Calls, Queued
  <2>4. Prio(s) \in [Few -> Int] /\ Prio(e) \in [Few -> Int]
    BY <1>3, <1>6, PrioType
  <2> HIDE DEF q, moves, o
  <2>5. d \in Seq(Few) /\ Injective(d) /\ Elems(d) = Elems(q) \ {t} /\ Sorted(d, Prio(e))
    BY <2>3, QueRemoveFacts, QueRemoveSorted
  <2> HIDE DEF d
  <2>6. Sorted(d, Prio(s))
    <3>1. \A u \in Elems(d) : Prio(e)[u] = Prio(s)[u]
      BY <1>10, <2>3, <2>5 DEF Queued
    <3> QED BY <2>5, <3>1, SortedSame
  <2>7. r \in Seq(Few) /\ Elems(r) = Elems(q) /\ Injective(r) /\ Sorted(r, Prio(s))
    <3>1. t \notin Elems(d)
      BY <2>5
    <3>2. r \in Seq(Few) /\ Elems(r) = Elems(d) \cup {t} /\ Injective(r) /\ Sorted(r, Prio(s))
      BY <2>4, <2>5, <2>6, <3>1, TpriFacts
    <3> QED BY <2>3, <2>5, <3>2
  <2> HIDE DEF r
  <2>8. c \in Por!PORCB
    BY <2>3, <2>7, Zenon DEF Por!PORCB
  <2>9. /\ c.wait_queue = r /\ c.accept_queue = g.accept_queue /\ c.objid = g.objid /\ c.tpri = g.tpri
        /\ c.maxcmsz = g.maxcmsz /\ c.maxrmsz = g.maxrmsz
    BY <2>3 DEF Por!PORCB
  <2> HIDE DEF c
  <2>10. /\ k' \in PortState /\ k'.gcb[o] = c /\ \A p \in Objects \ {o} : k'.gcb[p] = s.gcb[p]
         /\ k'.tcb = s.tcb /\ k'.met = s.met /\ k'.known = s.known
    BY <1>6, <2>1, <2>2, <2>8, OnePort
  <2>11. SamePorts(s, k')
    BY <2>1, <2>9, <2>10 DEF SamePorts
  <2>12. Counted(k') /\ Waits(k')
    BY <1>7, <2>10, <2>11 DEF Counted, Waits, InRdv, InPort, SamePorts
  <2>13. /\ \A p \in Objects, spec \in {"cal", "acp"} : Queued(k', p, spec) = Queued(s, p, spec)
         /\ Prio(k') = Prio(s)
    BY <2>10 DEF Queued, Prio
  <2>14. \A p \in Objects : Unmatched(k', p)
    BY <1>9, <2>10, <2>13 DEF Unmatched
  <2>15. \A p \in Objects : Accepts(k', p)
    BY <1>9, <2>1, <2>9, <2>10, <2>13 DEF Accepts
  <2>16. Calls(k', o)
    BY <1>8, <2>1, <2>3, <2>7, <2>9, <2>10, <2>13 DEF Calls
  <2>17. \A p \in Objects \ {o} : Calls(k', p)
    BY <1>11, <2>10, <2>13 DEF Calls
  <2> QED BY <2>10, <2>12, <2>14, <2>15, <2>16, <2>17 DEF PortInv
<1> QED BY <1>12, <1>13

\* No port exists and nobody waits.
LEMMA PortInit ==
  ASSUME Por!Init
  PROVE  PortInv(k)
<1> DEFINE none == [o \in Objects |-> Por!NoPort]
           zero == [t \in Few |-> 0]
           First == [state : {"READY"}, priority : Por!Pri, wid : {NULL}, wercd : {"E_OK"},
                     wspec : {"cal"}, ptn : {{}}, wrdvno : {0}, rdvno : {0}, maxrmsz : {0}, room : {0}]
<1>1. k \in [tcb : [Few -> First], gcb : {none}, met : {zero}, known : {{}}]
  BY Zenon DEF Por!Init
<1>2. \A w \in First : w \in Por!TCB /\ w.state = "READY" /\ w.wrdvno = 0
  <2>1. \A w \in First : w \in Por!TCB
    BY Zero DEF Por!TCB, Por!Error
  <2> QED BY <2>1
<1>3. Por!NoPort \in Por!PORCB /\ Por!NoPort.wait_queue = << >> /\ Por!NoPort.accept_queue = << >>
  BY Zero DEF Por!NoPort, Por!PORCB
<1> HIDE DEF First
<1>4. none \in [Objects -> Por!PORCB] /\ zero \in [Few -> 0 .. MaxRdv]
  BY <1>3, Zero
<1>5. /\ k \in PortState /\ k.gcb = none /\ k.met = zero /\ k.known = {}
      /\ \A t \in Few : k.tcb[t].state = "READY" /\ k.tcb[t].wrdvno = 0
  <2>1. k.tcb \in [Few -> First] /\ k.gcb = none /\ k.met = zero /\ k.known = {}
        /\ k = [tcb |-> k.tcb, gcb |-> k.gcb, met |-> k.met, known |-> k.known]
    <3> HIDE DEF none, zero
    <3> QED BY <1>1
  <2>2. k.tcb \in [Few -> Por!TCB] /\ k.known \in SUBSET Numbers
    BY <1>2, <2>1
  <2> HIDE DEF none, zero
  <2>3. k \in PortState
    BY <1>4, <2>1, <2>2 DEF PortState
  <2> QED BY <1>2, <2>1, <2>3
<1>6. Counted(k) /\ Waits(k)
  BY <1>5 DEF Counted, Waits
<1>7. \A o \in Objects, spec \in {"cal", "acp"} : Queued(k, o, spec) = {}
  BY <1>5 DEF Queued
<1>8. \A o \in Objects : k.gcb[o].wait_queue = << >> /\ k.gcb[o].accept_queue = << >>
  BY <1>3, <1>5
<1>9. Injective(<< >>) /\ Elems(<< >>) = {} /\ Sorted(<< >>, Prio(k))
  BY DEF Injective, Elems, Sorted
<1>10. \A o \in Objects : Calls(k, o) /\ Accepts(k, o) /\ Unmatched(k, o)
  BY <1>7, <1>8, <1>9 DEF Calls, Accepts, Unmatched
<1> QED BY <1>5, <1>6, <1>10 DEF PortInv

\* Every operation of the ports keeps the invariant.
LEMMA PortStep ==
  ASSUME PortInv(k), Por!Next
  PROVE  PortInv(k')
<1>1. ASSUME NEW o \in Objects, NEW tpri \in BOOLEAN, NEW n \in Por!Size, Por!tk_cre_por(o, tpri, MaxSize, n)
      PROVE  PortInv(k')
  BY <1>1, CrePorKeeps
<1>2. ASSUME NEW o \in Objects, Por!tk_del_por(o) PROVE PortInv(k')
  BY <1>2, DelPorKeeps
<1>3. ASSUME NEW o \in Objects, NEW t \in Few, NEW ptn \in Por!Patterns, NEW sz \in Por!Size,
             Por!tk_cal_por(t, o, ptn, sz)
      PROVE  PortInv(k')
  BY <1>3, CalPorKeeps
<1>4. ASSUME NEW o \in Objects, NEW t \in Few, NEW ptn \in Por!Patterns, Por!tk_acp_por(t, o, ptn)
      PROVE  PortInv(k')
  BY <1>4, AcpPorKeeps
<1>5. ASSUME NEW o \in Objects, NEW r \in k.known, NEW ptn \in Por!Patterns, NEW sz \in Por!Size,
             Por!tk_fwd_por(r, o, ptn, sz)
      PROVE  PortInv(k')
  BY <1>5, FwdPorKeeps
<1>6. ASSUME NEW r \in k.known, NEW sz \in Por!Size, Por!tk_rpl_rdv(r, sz) PROVE PortInv(k')
  BY <1>6, ReplyKeeps
<1>7. ASSUME NEW t \in Few, NEW e \in {"E_TMOUT", "E_RLWAI"}, Por!knl_wait_release_ng(t, e) PROVE PortInv(k')
  BY <1>7, ReplyKeeps
<1>8. ASSUME NEW t \in Few, Por!tk_ter_tsk(t) PROVE PortInv(k')
  BY <1>8, TerTskKeeps
<1>9. ASSUME NEW t \in Few, Por!tk_sta_tsk(t) PROVE PortInv(k')
  BY <1>9, ReplyKeeps
<1>10. ASSUME NEW t \in Few, NEW pri \in Por!Pri, Por!tk_chg_pri(t, pri) PROVE PortInv(k')
  BY <1>10, ChgPriKeeps
<1> QED BY <1>1, <1>2, <1>3, <1>4, <1>5, <1>6, <1>7, <1>8, <1>9, <1>10, Zenon DEF Por!Next

\* The invariant says what the properties do.
LEMMA PortMeans ==
  ASSUME PortInv(k)
  PROVE  Por!TypeOK /\ Por!QueuesExact /\ Por!NoMatchWaits /\ Por!Paired
<1>1. k \in PortState
  BY DEF PortInv
<1>2. Por!TypeOK
  BY <1>1 DEF PortState, Numbers, Por!TypeOK
<1>3. \A o \in Objects : /\ Injective(k.gcb[o].wait_queue) /\ Elems(k.gcb[o].wait_queue) = Queued(k, o, "cal")
                         /\ Injective(k.gcb[o].accept_queue) /\ Elems(k.gcb[o].accept_queue) = Queued(k, o, "acp")
                         /\ k.gcb[o].tpri => Sorted(k.gcb[o].wait_queue, Prio(k))
                         /\ \A c \in Queued(k, o, "cal"), a \in Queued(k, o, "acp") :
                              k.tcb[c].ptn \cap k.tcb[a].ptn = {}
  BY DEF PortInv, Calls, Accepts, Unmatched
<1>4. \A o, spec : {t \in Por!Waiters(k, o) : k.tcb[t].wspec = spec} = Queued(k, o, spec)
  BY DEF Por!Waiters, Queued
<1>5. Por!QueuesExact
  <2>1. Por!Priorities(k) = Prio(k)
    BY Zenon DEF Por!Priorities, Prio
  <2> QED BY <1>3, <1>4, <2>1, PortQueues, Zenon DEF Por!QueuesExact
<1>6. Por!NoMatchWaits
  <2>1. Por!td_lst_por \subseteq Objects
    BY DEF Por!td_lst_por
  <2>2. \A o \in Objects : /\ Por!Elems(Por!td_cal_que(o)) = Queued(k, o, "cal")
                          /\ Por!Elems(Por!td_acp_que(o)) = Queued(k, o, "acp")
    BY <1>3, PortQueues, Zenon DEF Por!td_cal_que, Por!td_acp_que
  <2> QED BY <1>3, <2>1, <2>2 DEF Por!NoMatchWaits
<1>7. Por!Paired
  <2>1. ASSUME NEW t \in Few, k.tcb[t].state = "WAIT", k.tcb[t].wspec = "rdv"
        PROVE  /\ LET recent == {q \in k.known : q.tskid = t /\ k.met[t] - q.nth < RdvWrap}
                  IN  {r.nth : r \in {q \in recent : Por!InRendezvous(q)}} = {k.met[t]}
               /\ k.tcb[t].maxrmsz <= k.tcb[t].room
    <3> DEFINE n == [tskid |-> t, no |-> k.tcb[t].rdvno, nth |-> k.met[t]]
    <3>1. InRdv(k, t)
      BY <2>1 DEF PortInv, Waits
    <3>2. n \in k.known /\ k.tcb[t].maxrmsz <= k.tcb[t].room
      BY <3>1 DEF InRdv
    <3>3. Por!InRendezvous(n) /\ n.tskid = t /\ n.nth = k.met[t] /\ n.no = k.tcb[t].rdvno
      BY <2>1 DEF Por!InRendezvous
    <3>4. k.met[t] \in Nat /\ k.tcb[t].wrdvno \in 0 .. RdvWrap - 1 /\ RdvWrap \in Nat /\ RdvWrap > 1
      BY <1>1, Zero DEF PortState, Por!TCB
    <3> HIDE DEF n
    <3>5. ASSUME NEW q \in k.known, q.tskid = t, Por!InRendezvous(q), k.met[t] - q.nth < RdvWrap
          PROVE  q.nth = k.met[t]
      <4>1. q.no = n.no /\ q.no \in 0 .. RdvWrap - 1 /\ q.nth \in Nat
        BY <1>1, <3>3, <3>5 DEF Por!InRendezvous, PortState, Numbers
      <4>2. Aged(q, k.met[t], k.tcb[t].wrdvno) /\ Aged(n, k.met[t], k.tcb[t].wrdvno)
        BY <3>2, <3>3, <3>5 DEF PortInv, Counted
      <4> QED BY <3>3, <3>4, <3>5, <4>1, <4>2 DEF Aged
    <3> QED BY <3>2, <3>3, <3>4, <3>5
  <2>2. ASSUME NEW t \in Few, k.tcb[t].state = "WAIT", k.tcb[t].wspec = "cal"
        PROVE  Por!td_ref_por(k.tcb[t].wid).maxrmsz <= k.tcb[t].room
    <3>1. k.gcb[k.tcb[t].wid].maxrmsz <= k.tcb[t].room
      BY <2>2 DEF PortInv, Waits, InPort
    <3> QED BY <3>1 DEF Por!td_ref_por, Por!tk_ref_por
  <2> QED BY <2>1, <2>2, Zenon DEF Por!Paired
<1> QED BY <1>2, <1>5, <1>6, <1>7
=============================================================================

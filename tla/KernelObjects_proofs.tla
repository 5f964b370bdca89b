------------------------ MODULE KernelObjects_proofs ------------------------
(***************************************************************************)
(* Theorems about the kernel's objects, for any tasks, objects and bounds: *)
(* what SyncObjects_proofs shows of one step of semaphores, event flags    *)
(* and ports holds of every behaviour.  For fixed-size pools the steps are *)
(* here too: their inductive invariant (PoolInv) says that some sequence   *)
(* is the free list of each pool (FreeList).                               *)
(***************************************************************************)
EXTENDS KernelObjects, SyncObjects_proofs

-----------------------------------------------------------------------------
(* Fixed-size memory pools                                                 *)

\* The queues of pools are those of module Queue.
LEMMA PoolQueues ==
  /\ \A q : Mpf!Elems(q) = Elems(q)
  /\ \A q : Mpf!Injective(q) <=> Injective(q)
  /\ \A q, e : Mpf!QueRemove(q, e) = QueRemove(q, e)
  /\ \A q, e : Mpf!QueInsert(q, e) = QueInsert(q, e)
  /\ \A q, e, p : Mpf!knl_queue_insert_tpri(q, e, p) = knl_queue_insert_tpri(q, e, p)
  /\ \A q, p : Mpf!Sorted(q, p) <=> Sorted(q, p)
  /\ \A s : Mpf!Priorities(s) = Prios(s)
  /\ \A s, o : Mpf!Waiters(s, o) = Line(s, o)
BY Zenon DEF Mpf!Elems, Elems, Mpf!Injective, Injective, Mpf!QueRemove, QueRemove,
             Mpf!QueInsert, QueInsert, Mpf!Sorted, Sorted,
             Mpf!knl_queue_insert_tpri, knl_queue_insert_tpri,
             Mpf!InsertBefore, InsertBefore, Mpf!TpriPosition, TpriPosition,
             Mpf!Priorities, Prios, Mpf!Waiters, Line

\* The blocks of a pool and who has them.
Blk == 0 .. MaxBlocks - 1
SameBlocks(s, f) == f.next = s.next /\ f.held = s.held

\* One task, or one pool, with another control block.
LEMMA PoolTask ==
  ASSUME NEW s \in Mpf!Kernel, NEW t \in Tasks, NEW w \in Mpf!TCB
  PROVE  LET f == SetTask(s, t, w)
         IN  /\ f \in Mpf!Kernel /\ f.tcb[t] = w /\ f.gcb = s.gcb /\ SameBlocks(s, f)
             /\ \A u \in Tasks \ {t} : f.tcb[u] = s.tcb[u]
<1> DEFINE T == [s.tcb EXCEPT ![t] = w]
           f == SetTask(s, t, w)
<1>1. T \in [Tasks -> Mpf!TCB] /\ T[t] = w /\ \A u \in Tasks \ {t} : T[u] = s.tcb[u]
  BY DEF Mpf!Kernel
<1>2. f = [s EXCEPT !.tcb = T]
  BY DEF SetTask
<1> HIDE DEF T, f
<1>3. f \in Mpf!Kernel /\ f.tcb = T /\ f.gcb = s.gcb /\ f.next = s.next /\ f.held = s.held
  BY <1>1, <1>2 DEF Mpf!Kernel
<1> QED BY <1>1, <1>3 DEF f, SameBlocks

\* The rest of the state does not change with a pool.
LEMMA PoolObject ==
  ASSUME NEW s \in Mpf!Kernel, NEW o \in Objects, NEW c \in Mpf!MPFCB
  PROVE  LET f == SetObj(s, o, c)
         IN  /\ f \in Mpf!Kernel /\ f.gcb[o] = c /\ f.tcb = s.tcb /\ SameBlocks(s, f)
             /\ \A p \in Objects \ {o} : f.gcb[p] = s.gcb[p]
<1> DEFINE G == [s.gcb EXCEPT ![o] = c]
           f == SetObj(s, o, c)
<1>1. G \in [Objects -> Mpf!MPFCB] /\ G[o] = c /\ \A p \in Objects \ {o} : G[p] = s.gcb[p]
  BY DEF Mpf!Kernel
<1>2. f = [s EXCEPT !.gcb = G]
  BY DEF SetObj
<1> HIDE DEF G, f
<1>3. f \in Mpf!Kernel /\ f.gcb = G /\ f.tcb = s.tcb /\ f.next = s.next /\ f.held = s.held
  BY <1>1, <1>2 DEF Mpf!Kernel
<1> QED BY <1>1, <1>3 DEF f, SameBlocks

\* Control blocks of tasks and pools, links and blocks in use have their types.
LEMMA PoolTypes ==
  ASSUME NEW s \in Mpf!Kernel
  PROVE  /\ \A t \in Tasks : s.tcb[t] \in Mpf!TCB /\ s.tcb[t].priority \in Int
         /\ \A o \in Objects : /\ s.gcb[o] \in Mpf!MPFCB /\ s.held[o] \in SUBSET Blk
                               /\ s.next[o] \in [Blk -> Blk \cup {NULL, DATA}]
BY DEF Mpf!Kernel, Mpf!TCB, Mpf!Pri, Mpf!Blocks, Blk

\* List L is the free list of a pool g with links n, of whose blocks the
\* application has h: it is what was handed out and returned, and the count is
\* its length and the blocks never handed out.
FreeList(g, n, h, L) ==
  /\ L \in Seq(Blk) /\ Injective(L)
  /\ g.freelist = IF L = << >> THEN NULL ELSE L[1]
  /\ \A i \in 1 .. Len(L) : n[L[i]] = IF i = Len(L) THEN NULL ELSE L[i + 1]
  /\ g.unused <= g.mpfcnt
  /\ Elems(L) \cup h = 0 .. g.unused - 1 /\ Elems(L) \cap h = {}
  /\ g.frbcnt = Len(L) + (g.mpfcnt - g.unused)

Whole(g, n, h) == \E L : FreeList(g, n, h, L)

\* A pool is whole, and nobody waits for it while it has a free block.
PoolSound(s, o) ==
  LET g == s.gcb[o]
  IN  IF g.objid THEN /\ Whole(g, s.next[o], s.held[o])
                      /\ Line(s, o) # {} => g.frbcnt = 0
      ELSE s.held[o] = {} /\ g.frbcnt <= g.mpfcnt

PoolInv(s) == s \in Mpf!Kernel /\ Exact(s) /\ \A o \in Objects : PoolSound(s, o)

\* Pool o is as it was but for those who do not wait any more.
SamePool(g, c) ==
  /\ c.objid = g.objid /\ c.tpri = g.tpri /\ c.mpfcnt = g.mpfcnt /\ c.frbcnt = g.frbcnt
  /\ c.unused = g.unused /\ c.freelist = g.freelist
PoolLess(s, f, o) ==
  /\ SamePool(s.gcb[o], f.gcb[o]) /\ f.next[o] = s.next[o] /\ f.held[o] = s.held[o]
  /\ Line(f, o) \subseteq Line(s, o)

\* Then it is sound.
LEMMA PoolLessSound ==
  ASSUME NEW s, NEW f, NEW o, PoolSound(s, o), PoolLess(s, f, o)
  PROVE  PoolSound(f, o)
<1>1. ASSUME Whole(s.gcb[o], s.next[o], s.held[o])
      PROVE  Whole(f.gcb[o], f.next[o], f.held[o])
  <2>1. PICK L : FreeList(s.gcb[o], s.next[o], s.held[o], L)
    BY <1>1 DEF Whole
  <2>2. FreeList(f.gcb[o], f.next[o], f.held[o], L)
    BY <2>1 DEF FreeList, PoolLess, SamePool
  <2> QED BY <2>2 DEF Whole
<1> QED BY <1>1 DEF PoolSound, PoolLess, SamePool

\* The invariant survives it.
LEMMA PoolLessKeeps ==
  ASSUME NEW s, PoolInv(s), NEW f \in Mpf!Kernel, Exact(f), \A p \in Objects : PoolLess(s, f, p)
  PROVE  PoolInv(f)
BY PoolLessSound DEF PoolInv

\* Fresh drops what calls returned.
LEMMA PoolFresh ==
  ASSUME NEW s, PoolInv(s)
  PROVE  LET f == Mpf!Fresh(s)
         IN  /\ PoolInv(f) /\ f \in Mpf!Kernel /\ Exact(f) /\ f.gcb = s.gcb /\ SameBlocks(s, f)
             /\ \A u \in Tasks : SameTask(s, f, u)
<1> DEFINE W(t) == IF s.tcb[t].state = "WAIT" THEN s.tcb[t] ELSE [s.tcb[t] EXCEPT !.wercd = "E_OK"]
           T == [t \in Tasks |-> W(t)]
           f == Mpf!Fresh(s)
<1>0. s \in Mpf!Kernel
  BY DEF PoolInv
<1>1. f = [s EXCEPT !.tcb = T]
  BY Zenon DEF Mpf!Fresh
<1>2. ASSUME NEW t \in Tasks
      PROVE  /\ W(t) \in Mpf!TCB
             /\ W(t).state = s.tcb[t].state /\ W(t).wid = s.tcb[t].wid /\ W(t).priority = s.tcb[t].priority
  <2>1. s.tcb[t] \in Mpf!TCB
    BY <1>0, PoolTypes
  <2> DEFINE v == [s.tcb[t] EXCEPT !.wercd = "E_OK"]
  <2>2. "E_OK" \in Mpf!Error
    BY DEF Mpf!Error
  <2>3. v \in Mpf!TCB
    BY <2>1, <2>2, Zenon DEF Mpf!TCB
  <2>4. v.state = s.tcb[t].state /\ v.wid = s.tcb[t].wid /\ v.priority = s.tcb[t].priority
    BY <2>1 DEF Mpf!TCB
  <2> HIDE DEF v
  <2>5. W(t) = IF s.tcb[t].state = "WAIT" THEN s.tcb[t] ELSE v
    BY Zenon DEF v
  <2> HIDE DEF W
  <2> QED BY <2>1, <2>3, <2>4, <2>5
<1> HIDE DEF W, f
<1>3. T \in [Tasks -> Mpf!TCB] /\ \A t \in Tasks : T[t] = W(t)
  BY <1>2
<1> HIDE DEF T
<1>4. f \in Mpf!Kernel /\ f.tcb = T /\ f.gcb = s.gcb /\ f.next = s.next /\ f.held = s.held
  BY <1>0, <1>1, <1>3 DEF Mpf!Kernel
<1>5. \A u \in Tasks : SameTask(s, f, u)
  BY <1>2, <1>3, <1>4 DEF SameTask
<1>6. Exact(f)
  <2>1. \A o \in Objects : SameQueue(s, f, o)
    BY <1>4 DEF SameQueue, SameKind
  <2> QED BY <1>5, <2>1, SameExact DEF PoolInv
<1>7. \A p \in Objects : PoolLess(s, f, p)
  BY <1>4, <1>5 DEF PoolLess, SamePool, Line, SameTask
<1>8. PoolInv(f)
  BY <1>4, <1>6, <1>7, PoolLessKeeps
<1> QED BY <1>4, <1>5, <1>6, <1>8 DEF f, SameBlocks

\* The wait of task t for pool o ends.
PoolFreed(s, f, t, o) ==
  /\ f \in Mpf!Kernel /\ SameBlocks(s, f)
  /\ \A u \in Tasks \ {t} : f.tcb[u] = s.tcb[u]
  /\ f.tcb[t].state = "READY" /\ f.tcb[t].priority = s.tcb[t].priority
  /\ \A p \in Objects \ {o} : f.gcb[p] = s.gcb[p]
  /\ SamePool(s.gcb[o], f.gcb[o])
  /\ f.gcb[o].wait_queue = QueRemove(s.gcb[o].wait_queue, t)

\* knl_wait_release.
LEMMA PoolRelease ==
  ASSUME NEW s \in Mpf!Kernel, Exact(s), NEW t \in Tasks, s.tcb[t].state = "WAIT", NEW e \in Mpf!Error
  PROVE  LET f == Mpf!knl_wait_release(s, t, e)
         IN  PoolFreed(s, f, t, s.tcb[t].wid) /\ Exact(f)
<1> DEFINE w == s.tcb[t]
           o == w.wid
           g == s.gcb[o]
           q == QueRemove(g.wait_queue, t)
           W == [w EXCEPT !.state = "READY", !.wercd = e]
           c == [g EXCEPT !.wait_queue = q]
           y == SetObj(s, o, c)
           f == Mpf!knl_wait_release(s, t, e)
<1>1. w \in Mpf!TCB /\ o \in Objects /\ g \in Mpf!MPFCB /\ QueueIn(s, o)
  BY PoolTypes DEF Exact
<1>2. q \in Seq(Tasks)
  BY <1>1, QueRemoveFacts DEF QueueIn
<1>3. f = SetTask(y, t, W)
  BY PoolQueues, Zenon DEF Mpf!knl_wait_release, SetTask, SetObj
<1> HIDE DEF q, f
<1>4. W \in Mpf!TCB
  BY <1>1, Zenon DEF Mpf!TCB
<1>5. W.state = "READY" /\ W.priority = w.priority
  BY <1>1 DEF Mpf!TCB
<1>6. c \in Mpf!MPFCB
  BY <1>1, <1>2, Zenon DEF Mpf!MPFCB
<1>7. c.wait_queue = q /\ SamePool(g, c)
  BY <1>1 DEF Mpf!MPFCB, SamePool
<1> HIDE DEF W, c, w, g
<1>8. /\ y \in Mpf!Kernel /\ y.gcb[o] = c /\ y.tcb = s.tcb /\ SameBlocks(s, y)
      /\ \A p \in Objects \ {o} : y.gcb[p] = s.gcb[p]
  BY <1>1, <1>6, PoolObject
<1> HIDE DEF y, o
<1>9. /\ f \in Mpf!Kernel /\ f.tcb[t] = W /\ f.gcb = y.gcb /\ SameBlocks(y, f)
      /\ \A u \in Tasks \ {t} : f.tcb[u] = y.tcb[u]
  BY <1>3, <1>4, <1>8, PoolTask
<1>10. PoolFreed(s, f, t, o)
  BY <1>5, <1>7, <1>8, <1>9 DEF PoolFreed, SameBlocks, w, g, q
<1>11. Exact(f)
  <2>1. \A u \in Tasks \ {t} : SameTask(s, f, u)
    BY <1>10 DEF SameTask, PoolFreed
  <2>2. f.tcb[t].state # "WAIT" /\ f.tcb[t].priority \in Int
    BY <1>10 DEF PoolFreed, Exact
  <2>3. ASSUME NEW p \in Objects
        PROVE  SameKind(s, f, p) /\ f.gcb[p].wait_queue = QueRemove(s.gcb[p].wait_queue, t)
    <3>1. CASE p = o
      BY <1>10, <3>1 DEF PoolFreed, SamePool, SameKind
    <3>2. CASE p # o
      <4>1. t \notin Elems(s.gcb[p].wait_queue)
        BY <3>2 DEF Exact, QueueIn, Line, o, w
      <4>2. f.gcb[p] = s.gcb[p]
        BY <1>10, <3>2 DEF PoolFreed
      <4> QED BY <4>1, <4>2, NotIn DEF SameKind
    <3> QED BY <3>1, <3>2
  <2> QED BY <2>1, <2>2, <2>3, LeaveExact
<1> QED BY <1>10, <1>11 DEF f, o, w

\* A wait that ends keeps the invariant.
LEMMA PoolFreedKeeps ==
  ASSUME NEW s, PoolInv(s), NEW t \in Tasks, s.tcb[t].state = "WAIT",
         NEW f, PoolFreed(s, f, t, s.tcb[t].wid), Exact(f)
  PROVE  PoolInv(f)
<1> DEFINE o == s.tcb[t].wid
<1>1. \A p \in Objects : Line(f, p) \subseteq Line(s, p)
  BY DEF PoolFreed, Line
<1>2. ASSUME NEW p \in Objects
      PROVE  SamePool(s.gcb[p], f.gcb[p])
  BY DEF PoolFreed, SamePool
<1>3. \A p \in Objects : PoolLess(s, f, p)
  BY <1>1, <1>2 DEF PoolLess, PoolFreed, SameBlocks
<1> QED BY <1>3, PoolLessKeeps DEF PoolFreed

\* A task that does not wait changes.
LEMMA PoolQuiet ==
  ASSUME NEW s, PoolInv(s), NEW t \in Tasks, s.tcb[t].state # "WAIT",
         NEW w \in Mpf!TCB, w.state # "WAIT"
  PROVE  PoolInv(SetTask(s, t, w))
<1> DEFINE f == SetTask(s, t, w)
<1>1. /\ f \in Mpf!Kernel /\ f.tcb[t] = w /\ f.gcb = s.gcb /\ SameBlocks(s, f)
      /\ \A u \in Tasks \ {t} : f.tcb[u] = s.tcb[u]
  BY PoolTask DEF PoolInv
<1> HIDE DEF f
<1>2. Exact(f)
  <2>1. \A u \in Tasks \ {t} : SameTask(s, f, u)
    BY <1>1 DEF SameTask
  <2>2. f.tcb[t].priority \in Int
    BY <1>1, PoolTypes
  <2>3. \A o \in Objects : SameQueue(s, f, o)
    BY <1>1 DEF SameQueue, SameKind
  <2> QED BY <1>1, <2>1, <2>2, <2>3, QuietExact DEF PoolInv
<1>3. \A p \in Objects : PoolLess(s, f, p)
  BY <1>1 DEF PoolLess, SamePool, Line, SameBlocks
<1>4. PoolInv(f)
  BY <1>1, <1>2, <1>3, PoolLessKeeps
<1> QED BY <1>4 DEF f

\* Pool o with other links n, and blocks h in use.
SetBlocks(s, o, n, h) == [s EXCEPT !.held[o] = h, !.next[o] = n]

Links(n) == n \in [Blk -> Blk \cup {NULL, DATA}]
InUse(h) == h \in SUBSET Blk

\* The rest of the state does not change with them.
LEMMA PoolBlocks ==
  ASSUME NEW s \in Mpf!Kernel, NEW o \in Objects, NEW n, Links(n), NEW h, InUse(h)
  PROVE  LET f == SetBlocks(s, o, n, h)
         IN  /\ f \in Mpf!Kernel /\ f.tcb = s.tcb /\ f.gcb = s.gcb /\ f.next[o] = n /\ f.held[o] = h
             /\ \A p \in Objects \ {o} : f.next[p] = s.next[p] /\ f.held[p] = s.held[p]
<1> DEFINE N == [s.next EXCEPT ![o] = n]
           H == [s.held EXCEPT ![o] = h]
           f == SetBlocks(s, o, n, h)
<1>1. /\ N \in [Objects -> [Mpf!Blocks -> Mpf!Blocks \cup {NULL, DATA}]]
      /\ N[o] = n /\ \A p \in Objects \ {o} : N[p] = s.next[p]
  BY DEF Mpf!Kernel, Mpf!Blocks, Links, Blk
<1>2. H \in [Objects -> SUBSET Mpf!Blocks] /\ H[o] = h /\ \A p \in Objects \ {o} : H[p] = s.held[p]
  BY DEF Mpf!Kernel, Mpf!Blocks, InUse, Blk
<1>3. f = [s EXCEPT !.held = H, !.next = N]
  BY Zenon DEF SetBlocks
<1> HIDE DEF N, H, f
<1>4. f \in Mpf!Kernel /\ f.tcb = s.tcb /\ f.gcb = s.gcb /\ f.next = N /\ f.held = H
  BY <1>1, <1>2, <1>3 DEF Mpf!Kernel
<1> QED BY <1>1, <1>2, <1>4 DEF f

\* HandOut in these terms.
LEMMA PoolHandOut ==
  ASSUME NEW s \in Mpf!Kernel, NEW o \in Objects, NEW b \in Blk
  PROVE  LET f == Mpf!HandOut(s, o, b)
         IN  /\ f \in Mpf!Kernel /\ f.tcb = s.tcb /\ f.gcb = s.gcb
             /\ f.next[o] = [s.next[o] EXCEPT ![b] = DATA] /\ f.held[o] = s.held[o] \cup {b}
             /\ \A p \in Objects \ {o} : f.next[p] = s.next[p] /\ f.held[p] = s.held[p]
<1> DEFINE n == [s.next[o] EXCEPT ![b] = DATA]
           h == s.held[o] \cup {b}
<1>1. Links(n) /\ InUse(h)
  <2>1. s.held[o] \in SUBSET Blk /\ s.next[o] \in [Blk -> Blk \cup {NULL, DATA}]
    BY PoolTypes
  <2> QED BY <2>1 DEF Links, InUse
<1>2. Mpf!HandOut(s, o, b) = SetBlocks(s, o, n, h)
  BY Zenon DEF Mpf!HandOut, SetBlocks
<1> HIDE DEF n, h
<1>3. LET f == SetBlocks(s, o, n, h)
      IN  /\ f \in Mpf!Kernel /\ f.tcb = s.tcb /\ f.gcb = s.gcb /\ f.next[o] = n /\ f.held[o] = h
          /\ \A p \in Objects \ {o} : f.next[p] = s.next[p] /\ f.held[p] = s.held[p]
  BY <1>1, PoolBlocks
<1> QED BY <1>2, <1>3 DEF n, h

\* What the types say of a pool's numbers.
LEMMA PoolNumbers ==
  ASSUME NEW g \in Mpf!MPFCB
  PROVE  g.mpfcnt \in 0 .. MaxBlocks /\ g.frbcnt \in 0 .. MaxBlocks /\ g.unused \in 0 .. MaxBlocks /\ MaxBlocks \in Nat
BY ObjectsAssumption DEF Mpf!MPFCB

\* The first of the free list is handed out.
LEMMA FreeListTakes ==
  ASSUME NEW g \in Mpf!MPFCB, NEW n, Links(n), NEW h, NEW L, FreeList(g, n, h, L), L # << >>,
         NEW c \in Mpf!MPFCB, c.unused = g.unused, c.mpfcnt = g.mpfcnt,
         c.freelist = n[L[1]], c.frbcnt = g.frbcnt - 1
  PROVE  FreeList(c, [n EXCEPT ![L[1]] = DATA], h \cup {L[1]}, Tail(L))
<1> DEFINE R == Tail(L)
           b == L[1]
           m == [n EXCEPT ![b] = DATA]
<1>1. /\ L \in Seq(Blk) /\ Injective(L) /\ Len(L) \in Nat \ {0} /\ b \in Blk
      /\ DOMAIN L = 1 .. Len(L)
  BY DEF FreeList
<1>2. /\ R \in Seq(Blk) /\ Len(R) = Len(L) - 1 /\ \A i \in 1 .. Len(R) : R[i] = L[i + 1]
      /\ DOMAIN R = 1 .. Len(R)
  BY <1>1
<1>3. \A i \in 1 .. Len(R) : i + 1 \in 1 .. Len(L) /\ R[i] # b
  BY <1>1, <1>2 DEF Injective
<1> HIDE DEF R
<1>4. Injective(R)
  <2> SUFFICES ASSUME NEW i \in 1 .. Len(R), NEW j \in 1 .. Len(R), R[i] = R[j]
               PROVE  i = j
    BY <1>2 DEF Injective
  <2>1. L[i + 1] = L[j + 1] /\ i + 1 \in 1 .. Len(L) /\ j + 1 \in 1 .. Len(L)
    BY <1>2, <1>3
  <2>2. i + 1 = j + 1
    BY <1>1, <2>1 DEF Injective
  <2> QED BY <2>2
<1>5. Elems(R) = Elems(L) \ {b}
  <2>1. ASSUME NEW x \in Elems(R)
        PROVE  x \in Elems(L) \ {b}
    BY <1>1, <1>2, <1>3 DEF Elems
  <2>2. ASSUME NEW x \in Elems(L) \ {b}
        PROVE  x \in Elems(R)
    <3>1. PICK i \in 1 .. Len(L) : L[i] = x
      BY <1>1 DEF Elems
    <3>2. i # 1 /\ i - 1 \in 1 .. Len(R) /\ (i - 1) + 1 = i
      BY <1>1, <1>2, <3>1
    <3>3. R[i - 1] = x
      BY <1>2, <3>1, <3>2
    <3> QED BY <1>2, <3>2, <3>3 DEF Elems
  <2> QED BY <2>1, <2>2
<1>6. c.freelist = IF R = << >> THEN NULL ELSE R[1]
  <2>4. 1 \in 1 .. Len(L) /\ 1 + 1 = 2
    BY <1>1
  <2>1. n[L[1]] = IF 1 = Len(L) THEN NULL ELSE L[2]
    BY <2>4, Zenon DEF FreeList
  <2>2. CASE Len(L) = 1
    <3>1. R = << >>
      BY <1>2, <2>2
    <3> QED BY <2>1, <2>2, <3>1
  <2>3. CASE Len(L) # 1
    <3>1. R # << >> /\ 1 \in 1 .. Len(R)
      BY <1>1, <1>2, <2>3
    <3>2. R[1] = L[2]
      BY <1>2, <3>1
    <3> QED BY <2>1, <2>3, <3>1, <3>2
  <2> QED BY <2>2, <2>3
<1>7. ASSUME NEW i \in 1 .. Len(R)
      PROVE  m[R[i]] = IF i = Len(R) THEN NULL ELSE R[i + 1]
  <2>1. R[i] \in Blk /\ R[i] # b /\ R[i] = L[i + 1] /\ i + 1 \in 1 .. Len(L)
    BY <1>2, <1>3
  <2>2. m[R[i]] = n[L[i + 1]]
    BY <2>1 DEF Links
  <2>3. n[L[i + 1]] = IF i + 1 = Len(L) THEN NULL ELSE L[(i + 1) + 1]
    BY <2>1 DEF FreeList
  <2>4. CASE i = Len(R)
    BY <1>1, <1>2, <2>2, <2>3, <2>4
  <2>5. CASE i # Len(R)
    <3>1. i + 1 \in 1 .. Len(R) /\ i + 1 # Len(L)
      BY <1>1, <1>2, <2>5
    <3>2. R[i + 1] = L[(i + 1) + 1]
      BY <1>2, <3>1
    <3> QED BY <2>2, <2>3, <2>5, <3>1, <3>2
  <2> QED BY <2>4, <2>5
<1>8. b \in Elems(L)
  BY <1>1 DEF Elems
<1>9. Elems(R) \cup (h \cup {b}) = 0 .. c.unused - 1 /\ Elems(R) \cap (h \cup {b}) = {}
  BY <1>5, <1>8 DEF FreeList
<1>10. c.frbcnt = Len(R) + (c.mpfcnt - c.unused)
  <2>1. g.mpfcnt \in Nat /\ g.unused \in Nat
    BY PoolNumbers
  <2>2. g.frbcnt = Len(L) + (g.mpfcnt - g.unused)
    BY DEF FreeList
  <2> QED BY <1>1, <1>2, <2>1, <2>2
<1>11. c.unused <= c.mpfcnt
  BY DEF FreeList
<1> HIDE DEF m, b
<1>12. FreeList(c, m, h \cup {b}, R)
  BY <1>2, <1>4, <1>6, <1>7, <1>9, <1>10, <1>11, Zenon DEF FreeList
<1> QED BY <1>12 DEF R, m, b

\* The next block that was never used is handed out.
LEMMA FreeListExtends ==
  ASSUME NEW g \in Mpf!MPFCB, NEW n, Links(n), NEW h, NEW L, FreeList(g, n, h, L), L = << >>,
         g.frbcnt > 0,
         NEW c \in Mpf!MPFCB, c.unused = g.unused + 1, c.mpfcnt = g.mpfcnt,
         c.freelist = g.freelist, c.frbcnt = g.frbcnt - 1
  PROVE  FreeList(c, [n EXCEPT ![g.unused] = DATA], h \cup {g.unused}, L)
<1>1. /\ g.mpfcnt \in Nat /\ g.frbcnt \in Nat /\ g.unused \in Nat /\ Len(L) = 0 /\ Elems(L) = {}
      /\ g.frbcnt = g.mpfcnt - g.unused
  BY PoolNumbers DEF FreeList, Elems
<1>2. h = 0 .. g.unused - 1
  BY <1>1 DEF FreeList
<1>3. h \cup {g.unused} = 0 .. c.unused - 1
  BY <1>1, <1>2
<1>4. c.frbcnt = Len(L) + (c.mpfcnt - c.unused) /\ c.unused <= c.mpfcnt
  BY <1>1
<1>5. 1 .. Len(L) = {}
  BY <1>1
<1> QED BY <1>1, <1>3, <1>4, <1>5 DEF FreeList

\* A block comes back.
LEMMA FreeListReturns ==
  ASSUME NEW g \in Mpf!MPFCB, NEW n, Links(n), NEW h, NEW L, FreeList(g, n, h, L), NEW b \in h,
         NEW c, c.unused = g.unused, c.mpfcnt = g.mpfcnt, c.freelist = b, c.frbcnt = g.frbcnt + 1
  PROVE  FreeList(c, [n EXCEPT ![b] = g.freelist], h \ {b}, << b >> \o L)
<1> DEFINE R == << b >> \o L
           m == [n EXCEPT ![b] = g.freelist]
<1>1. L \in Seq(Blk) /\ Injective(L) /\ Len(L) \in Nat /\ DOMAIN L = 1 .. Len(L) /\ b \notin Elems(L)
  BY DEF FreeList
<1>2. b \in Blk
  <2>1. b \in 0 .. g.unused - 1
    BY DEF FreeList
  <2> QED BY <2>1, PoolNumbers DEF Blk
<1>3. << b >> \in Seq(Blk) /\ Len(<< b >>) = 1 /\ << b >>[1] = b
  BY <1>2
<1>4. /\ R \in Seq(Blk) /\ Len(R) = Len(L) + 1 /\ R[1] = b /\ \A i \in 2 .. Len(R) : R[i] = L[i - 1]
      /\ DOMAIN R = 1 .. Len(R) /\ R # << >>
  BY <1>1, <1>3
<1> HIDE DEF R
<1>5. \A i \in 1 .. Len(R) : i # 1 => i - 1 \in 1 .. Len(L) /\ R[i] = L[i - 1] /\ R[i] \in Elems(L) /\ R[i] # b
  BY <1>1, <1>4 DEF Elems
<1>6. Injective(R)
  <2> SUFFICES ASSUME NEW i \in 1 .. Len(R), NEW j \in 1 .. Len(R), R[i] = R[j]
               PROVE  i = j
    BY <1>4 DEF Injective
  <2>1. CASE i = 1 \/ j = 1
    BY <1>4, <1>5, <2>1
  <2>2. CASE i # 1 /\ j # 1
    <3>1. L[i - 1] = L[j - 1] /\ i - 1 \in 1 .. Len(L) /\ j - 1 \in 1 .. Len(L)
      BY <1>5, <2>2
    <3>2. i - 1 = j - 1
      BY <1>1, <3>1 DEF Injective
    <3> QED BY <3>2
  <2> QED BY <2>1, <2>2
<1>7. Elems(R) = Elems(L) \cup {b}
  <2>1. ASSUME NEW x \in Elems(R)
        PROVE  x \in Elems(L) \cup {b}
    BY <1>4, <1>5 DEF Elems
  <2>2. ASSUME NEW x \in Elems(L)
        PROVE  x \in Elems(R)
    <3>1. PICK i \in 1 .. Len(L) : L[i] = x
      BY <1>1 DEF Elems
    <3>2. i + 1 \in 2 .. Len(R) /\ i + 1 \in 1 .. Len(R) /\ (i + 1) - 1 = i
      BY <1>1, <1>4, <3>1
    <3>3. R[i + 1] = x
      BY <1>4, <3>1, <3>2
    <3> QED BY <1>4, <3>2, <3>3 DEF Elems
  <2>3. b \in Elems(R)
    BY <1>1, <1>4 DEF Elems
  <2> QED BY <2>1, <2>2, <2>3
<1>8. ASSUME NEW i \in 1 .. Len(R)
      PROVE  m[R[i]] = IF i = Len(R) THEN NULL ELSE R[i + 1]
  <2>1. CASE i = 1
    <3>1. m[R[i]] = g.freelist
      BY <1>2, <1>4, <2>1 DEF Links
    <3>2. g.freelist = IF L = << >> THEN NULL ELSE L[1]
      BY DEF FreeList
    <3>3. CASE L = << >>
      BY <1>4, <2>1, <3>1, <3>2, <3>3
    <3>4. CASE L # << >>
      <4>1. 2 \in 2 .. Len(R) /\ 1 # Len(R)
        BY <1>1, <1>4, <3>4
      <4>2. R[2] = L[2 - 1]
        BY <1>4, <4>1
      <4> QED BY <2>1, <3>1, <3>2, <3>4, <4>1, <4>2
    <3> QED BY <3>3, <3>4
  <2>2. CASE i # 1
    <3>1. i - 1 \in 1 .. Len(L) /\ R[i] = L[i - 1] /\ R[i] # b /\ R[i] \in Blk
      BY <1>4, <1>5, <2>2
    <3>2. m[R[i]] = n[L[i - 1]]
      BY <3>1 DEF Links
    <3>3. n[L[i - 1]] = IF i - 1 = Len(L) THEN NULL ELSE L[(i - 1) + 1]
      BY <3>1 DEF FreeList
    <3>4. CASE i = Len(R)
      BY <1>1, <1>4, <3>2, <3>3, <3>4
    <3>5. CASE i # Len(R)
      <4>1. i + 1 \in 2 .. Len(R) /\ i - 1 # Len(L) /\ (i - 1) + 1 = (i + 1) - 1
        BY <1>1, <1>4, <3>5
      <4>2. R[i + 1] = L[(i + 1) - 1]
        BY <1>4, <4>1
      <4> QED BY <3>2, <3>3, <3>5, <4>1, <4>2
    <3> QED BY <3>4, <3>5
  <2> QED BY <2>1, <2>2
<1>9. Elems(R) \cup (h \ {b}) = 0 .. c.unused - 1 /\ Elems(R) \cap (h \ {b}) = {}
  BY <1>7 DEF FreeList
<1>10. c.frbcnt = Len(R) + (c.mpfcnt - c.unused) /\ c.unused <= c.mpfcnt
  <2>1. g.mpfcnt \in Nat /\ g.unused \in Nat
    BY PoolNumbers
  <2>2. g.frbcnt = Len(L) + (g.mpfcnt - g.unused) /\ g.unused <= g.mpfcnt
    BY DEF FreeList
  <2> QED BY <1>1, <1>4, <2>1, <2>2
<1>11. c.freelist = IF R = << >> THEN NULL ELSE R[1]
  BY <1>4
<1> HIDE DEF m
<1>12. FreeList(c, m, h \ {b}, R)
  BY <1>4, <1>6, <1>8, <1>9, <1>10, <1>11, Zenon DEF FreeList
<1> QED BY <1>12 DEF R, m

\* A pool has no more free blocks than blocks, and fewer when something is in use.
LEMMA FreeListCounts ==
  ASSUME NEW g \in Mpf!MPFCB, NEW n, NEW h, NEW L, FreeList(g, n, h, L)
  PROVE  g.frbcnt <= g.mpfcnt /\ (h # {} => g.frbcnt < g.mpfcnt)
<1>1. L \in Seq(Blk) /\ Injective(L) /\ Len(L) \in Nat
  BY DEF FreeList
<1>2. g.unused \in Nat /\ g.mpfcnt \in Nat
  BY PoolNumbers
<1>3. Elems(L) \subseteq 0 .. g.unused - 1 /\ \A b \in h : b \in 0 .. g.unused - 1 /\ b \notin Elems(L)
  BY DEF FreeList
<1>4. Len(L) <= g.unused /\ (h # {} => Len(L) < g.unused)
  BY <1>1, <1>2, <1>3, ShortBelow
<1>5. g.frbcnt = Len(L) + (g.mpfcnt - g.unused)
  BY DEF FreeList
<1> QED BY <1>1, <1>2, <1>4, <1>5

\* One pool changes.
LEMMA PoolOne ==
  ASSUME NEW s, PoolInv(s), NEW f \in Mpf!Kernel, Exact(f), NEW o \in Objects, PoolSound(f, o),
         \A p \in Objects \ {o} : PoolLess(s, f, p)
  PROVE  PoolInv(f)
<1>1. \A p \in Objects \ {o} : PoolSound(f, p)
  BY PoolLessSound DEF PoolInv
<1> QED BY <1>1 DEF PoolInv

\* tk_cre_mpf.
LEMMA CreMpf ==
  ASSUME PoolInv(k), NEW o \in Objects, NEW tpri \in BOOLEAN, NEW mpfcnt \in 1 .. MaxBlocks,
         Mpf!tk_cre_mpf(o, tpri, mpfcnt)
  PROVE  PoolInv(k')
<1> DEFINE s == Mpf!Fresh(k)
           d == Mpf!NoPool
           c == [d EXCEPT !.objid = TRUE, !.tpri = tpri, !.mpfcnt = mpfcnt, !.frbcnt = mpfcnt]
<1>1. ~k.gcb[o].objid /\ k' = SetObj(s, o, c)
  BY Zenon DEF Mpf!tk_cre_mpf, SetObj
<1>2. PoolInv(s) /\ s \in Mpf!Kernel /\ Exact(s) /\ s.gcb = k.gcb
  BY PoolFresh
<1> HIDE DEF s
<1>3. << >> \in Seq(Tasks) /\ mpfcnt \in 0 .. MaxBlocks /\ 0 \in 0 .. MaxBlocks /\ NULL \in Mpf!Blocks \cup {NULL}
  BY ObjectsAssumption
<1>11. d \in Mpf!MPFCB
  BY <1>3, Zenon DEF Mpf!MPFCB, Mpf!NoPool
<1>12. d.wait_queue = << >> /\ d.unused = 0 /\ d.freelist = NULL
  BY DEF Mpf!NoPool
<1> HIDE DEF d
<1>4. c \in Mpf!MPFCB
  BY <1>3, <1>11, Zenon DEF Mpf!MPFCB
<1>5. /\ c.wait_queue = << >> /\ c.objid /\ c.mpfcnt = mpfcnt /\ c.frbcnt = mpfcnt /\ c.unused = 0
      /\ c.freelist = NULL
  BY <1>11, <1>12 DEF Mpf!MPFCB
<1> HIDE DEF c
<1>6. /\ k' \in Mpf!Kernel /\ k'.gcb[o] = c /\ k'.tcb = s.tcb /\ SameBlocks(s, k')
      /\ \A p \in Objects \ {o} : k'.gcb[p] = s.gcb[p]
  BY <1>1, <1>2, <1>4, PoolObject
<1>7. Line(s, o) = {}
  BY <1>1, <1>2 DEF Exact, QueueIn, Elems
<1>8. Exact(k')
  <2>1. \A u \in Tasks : SameTask(s, k', u)
    BY <1>6 DEF SameTask
  <2>2. \A p \in Objects \ {o} : SameQueue(s, k', p)
    BY <1>6 DEF SameQueue, SameKind
  <2> QED BY <1>2, <1>5, <1>6, <1>7, <2>1, <2>2, EmptyExact
<1>9. \A p \in Objects \ {o} : PoolLess(s, k', p)
  BY <1>6 DEF PoolLess, SamePool, SameBlocks, Line
<1>10. PoolSound(k', o)
  <2>1. k'.held[o] = {} /\ Line(k', o) = {}
    BY <1>1, <1>2, <1>6, <1>7 DEF PoolInv, PoolSound, SameBlocks, Line
  <2>2. << >> \in Seq(Blk) /\ Injective(<< >>) /\ Elems(<< >>) = {} /\ Len(<< >>) = 0 /\ 0 .. 0 - 1 = {}
    BY DEF Injective, Elems
  <2>3. FreeList(c, k'.next[o], {}, << >>)
    <3>1. 1 .. 0 = {} /\ 0 <= mpfcnt /\ mpfcnt = 0 + (mpfcnt - 0)
      OBVIOUS
    <3> QED BY <1>5, <2>2, <3>1 DEF FreeList
  <2> QED BY <1>5, <1>6, <2>1, <2>3 DEF PoolSound, Whole
<1> QED BY <1>2, <1>6, <1>8, <1>9, <1>10, PoolOne

\* tk_sta_tsk.
LEMMA PoolStartTask ==
  ASSUME PoolInv(k), NEW t \in Tasks, Mpf!tk_sta_tsk(t)
  PROVE  PoolInv(k')
<1> DEFINE s == Mpf!Fresh(k)
           w == [s.tcb[t] EXCEPT !.state = "READY"]
<1>1. k.tcb[t].state = "DORMANT" /\ k' = SetTask(s, t, w)
  BY Zenon DEF Mpf!tk_sta_tsk, SetTask
<1>2. PoolInv(s) /\ s \in Mpf!Kernel /\ s.tcb[t].state = k.tcb[t].state
  BY PoolFresh DEF SameTask
<1> HIDE DEF s
<1>3. s.tcb[t] \in Mpf!TCB
  BY <1>2, PoolTypes
<1>4. w \in Mpf!TCB
  BY <1>3, Zenon DEF Mpf!TCB
<1>5. w.state = "READY"
  BY <1>3 DEF Mpf!TCB
<1> HIDE DEF w
<1> QED BY <1>1, <1>2, <1>4, <1>5, PoolQuiet

\* A wait that ends.
LEMMA PoolLeaves ==
  ASSUME NEW s, PoolInv(s), NEW t \in Tasks, s.tcb[t].state = "WAIT", NEW e \in Mpf!Error
  PROVE  LET f == Mpf!knl_wait_release(s, t, e)
         IN  PoolInv(f) /\ f.tcb[t].state = "READY"
<1> DEFINE f == Mpf!knl_wait_release(s, t, e)
<1>1. PoolFreed(s, f, t, s.tcb[t].wid) /\ Exact(f)
  BY PoolRelease DEF PoolInv
<1> HIDE DEF f
<1>2. PoolInv(f)
  BY <1>1, PoolFreedKeeps
<1> QED BY <1>1, <1>2 DEF f, PoolFreed

\* knl_wait_release_tmout and tk_rel_wai.
LEMMA PoolReleaseNg ==
  ASSUME PoolInv(k), NEW t \in Tasks, NEW e \in {"E_TMOUT", "E_RLWAI"}, Mpf!knl_wait_release_ng(t, e)
  PROVE  PoolInv(k')
<1> DEFINE s == Mpf!Fresh(k)
<1>1. k.tcb[t].state = "WAIT" /\ k' = Mpf!knl_wait_release(s, t, e)
  BY Zenon DEF Mpf!knl_wait_release_ng
<1>2. PoolInv(s) /\ s.tcb[t].state = k.tcb[t].state
  BY PoolFresh DEF SameTask
<1> HIDE DEF s
<1>3. e \in Mpf!Error
  BY DEF Mpf!Error
<1> QED BY <1>1, <1>2, <1>3, PoolLeaves

\* tk_ter_tsk.
LEMMA PoolTerminate ==
  ASSUME PoolInv(k), NEW t \in Tasks, Mpf!tk_ter_tsk(t)
  PROVE  PoolInv(k')
<1> DEFINE z == Mpf!Fresh(k)
           s == IF k.tcb[t].state = "WAIT" THEN Mpf!knl_wait_release(z, t, "E_RLWAI") ELSE z
           w == [s.tcb[t] EXCEPT !.state = "DORMANT"]
           y == SetTask(s, t, w)
<1>1. k' = Mpf!Fresh(y)
  BY Zenon DEF Mpf!tk_ter_tsk, SetTask
<1>2. PoolInv(z) /\ z.tcb[t].state = k.tcb[t].state
  BY PoolFresh DEF SameTask
<1> HIDE DEF z
<1>3. PoolInv(s) /\ s.tcb[t].state # "WAIT" /\ s \in Mpf!Kernel
  <2>1. CASE k.tcb[t].state = "WAIT"
    <3>1. s = Mpf!knl_wait_release(z, t, "E_RLWAI")
      BY <2>1
    <3>2. "E_RLWAI" \in Mpf!Error
      BY DEF Mpf!Error
    <3> HIDE DEF s
    <3> QED BY <1>2, <2>1, <3>1, <3>2, PoolLeaves DEF PoolInv
  <2>2. CASE k.tcb[t].state # "WAIT"
    <3>1. s = z
      BY <2>2
    <3> QED BY <1>2, <2>2, <3>1 DEF PoolInv
  <2> QED BY <2>1, <2>2
<1> HIDE DEF s
<1>4. s.tcb[t] \in Mpf!TCB
  BY <1>3, PoolTypes
<1>5. w \in Mpf!TCB
  BY <1>4, Zenon DEF Mpf!TCB
<1>6. w.state = "DORMANT"
  BY <1>4 DEF Mpf!TCB
<1> HIDE DEF w
<1>7. PoolInv(y)
  BY <1>3, <1>5, <1>6, PoolQuiet
<1> HIDE DEF y
<1> QED BY <1>1, <1>7, PoolFresh

\* tk_del_mpf: the waiters return E_DLT and the memory is gone.
LEMMA DelMpf ==
  ASSUME PoolInv(k), NEW o \in Objects, Mpf!tk_del_mpf(o)
  PROVE  PoolInv(k')
<1> DEFINE s == Mpf!Fresh(k)
           g == s.gcb[o]
           c == Mpf!NoPool
           n == [b \in Mpf!Blocks |-> DATA]
           T == [t \in Tasks |-> IF t \in Elems(g.wait_queue)
                                 THEN [s.tcb[t] EXCEPT !.state = "READY", !.wercd = "E_DLT"] ELSE s.tcb[t]]
           G == [s.gcb EXCEPT ![o] = c]
           N == [s.next EXCEPT ![o] = n]
           H == [s.held EXCEPT ![o] = {}]
           Z == Mpf!knl_wait_delete(s, o)
<1>1. k' = [Z EXCEPT !.gcb[o] = c, !.held[o] = {}, !.next[o] = n]
  BY Zenon DEF Mpf!tk_del_mpf
<1>2. PoolInv(s) /\ s \in Mpf!Kernel /\ Exact(s)
  BY PoolFresh
<1> HIDE DEF s
<1>3. s.gcb \in [Objects -> Mpf!MPFCB] /\ s = [tcb |-> s.tcb, gcb |-> s.gcb, next |-> s.next, held |-> s.held]
  BY <1>2 DEF Mpf!Kernel
<1>4. k' = [tcb |-> T, gcb |-> G, next |-> N, held |-> H]
  <2> HIDE DEF c, n
  <2> DEFINE e == [g EXCEPT !.wait_queue = << >>]
             E == [s.gcb EXCEPT ![o] = e]
  <2>1. Z = [s EXCEPT !.gcb = E, !.tcb = T]
    BY PoolQueues, Zenon DEF Mpf!knl_wait_delete
  <2> HIDE DEF T, Z
  <2>2. [E EXCEPT ![o] = c] = G
    <3> HIDE DEF e
    <3> QED BY <1>3
  <2> HIDE DEF E
  <2>3. Z = [tcb |-> T, gcb |-> E, next |-> s.next, held |-> s.held]
    BY <1>3, <2>1
  <2>4. Z.gcb = E /\ Z.next = s.next /\ Z.held = s.held
    BY <2>3
  <2>5. k' = [Z EXCEPT !.gcb = G, !.held = H, !.next = N]
    <3>1. k' = [Z EXCEPT !.gcb = [Z.gcb EXCEPT ![o] = c], !.held = [Z.held EXCEPT ![o] = {}],
                         !.next = [Z.next EXCEPT ![o] = n]]
      BY <1>1, Zenon
    <3> QED BY <2>2, <2>4, <3>1
  <2> HIDE DEF G, H, N
  <2> QED BY <2>3, <2>5
<1>5. c \in Mpf!MPFCB /\ c.wait_queue = << >> /\ ~c.objid /\ c.frbcnt = 0 /\ c.mpfcnt = 0
  <2>1. << >> \in Seq(Tasks) /\ 0 \in 0 .. MaxBlocks /\ NULL \in Mpf!Blocks \cup {NULL}
    BY ObjectsAssumption
  <2>2. c \in Mpf!MPFCB
    BY <2>1, Zenon DEF Mpf!MPFCB, Mpf!NoPool
  <2> QED BY <2>2 DEF Mpf!NoPool
<1> HIDE DEF c
<1>6. Elems(g.wait_queue) = Line(s, o)
  BY <1>2 DEF Exact, QueueIn
<1>7. ASSUME NEW t \in Tasks
      PROVE  /\ T[t] \in Mpf!TCB
             /\ t \in Line(s, o) => T[t].state = "READY" /\ T[t].priority = s.tcb[t].priority
             /\ t \notin Line(s, o) => T[t] = s.tcb[t]
  <2> DEFINE w == s.tcb[t]
             v == [w EXCEPT !.state = "READY", !.wercd = "E_DLT"]
  <2>1. w \in Mpf!TCB
    BY <1>2, PoolTypes
  <2>2. v \in Mpf!TCB
    BY <2>1, Zenon DEF Mpf!TCB, Mpf!Error
  <2>3. v.state = "READY" /\ v.priority = w.priority
    BY <2>1 DEF Mpf!TCB
  <2>4. T[t] = IF t \in Line(s, o) THEN v ELSE w
    BY <1>6
  <2> HIDE DEF T, v, w
  <2> QED BY <2>1, <2>2, <2>3, <2>4 DEF w
<1>8. G \in [Objects -> Mpf!MPFCB] /\ G[o] = c /\ \A p \in Objects \ {o} : G[p] = s.gcb[p]
  BY <1>3, <1>5
<1>9. T \in [Tasks -> Mpf!TCB]
  <2>1. T = [t \in Tasks |-> T[t]]
    OBVIOUS
  <2> HIDE DEF T
  <2> QED BY <1>7, <2>1
<1>10. /\ N \in [Objects -> [Mpf!Blocks -> Mpf!Blocks \cup {NULL, DATA}]]
       /\ \A p \in Objects \ {o} : N[p] = s.next[p]
  BY <1>2 DEF Mpf!Kernel
<1>11. H \in [Objects -> SUBSET Mpf!Blocks] /\ H[o] = {} /\ \A p \in Objects \ {o} : H[p] = s.held[p]
  BY <1>2 DEF Mpf!Kernel
<1> HIDE DEF T, G, N, H
<1>12. k'.tcb = T /\ k'.gcb = G /\ k'.next = N /\ k'.held = H /\ k' \in Mpf!Kernel
  BY <1>4, <1>8, <1>9, <1>10, <1>11 DEF Mpf!Kernel
<1> HIDE DEF g
<1>13. Exact(k')
  <2>1. \A u \in Tasks : IF u \in Line(s, o) THEN k'.tcb[u].state # "WAIT" /\ k'.tcb[u].priority \in Int
                         ELSE SameTask(s, k', u)
    <3>1. \A u \in Tasks : s.tcb[u].priority \in Int
      BY <1>2 DEF Exact
    <3> QED BY <1>7, <1>12, <3>1 DEF SameTask
  <2>2. \A p \in Objects \ {o} : SameQueue(s, k', p)
    BY <1>8, <1>12 DEF SameQueue, SameKind
  <2>3. k'.gcb[o].wait_queue = << >>
    BY <1>5, <1>8, <1>12
  <2> QED BY <1>2, <2>1, <2>2, <2>3, EmptyExact
<1>14. \A u \in Tasks : k'.tcb[u].state = "WAIT" => k'.tcb[u] = s.tcb[u]
  BY <1>7, <1>12
<1>15. \A p \in Objects \ {o} : PoolLess(s, k', p)
  <2>1. \A p \in Objects : Line(k', p) \subseteq Line(s, p)
    BY <1>14 DEF Line
  <2> QED BY <1>8, <1>10, <1>11, <1>12, <2>1 DEF PoolLess, SamePool
<1>16. PoolSound(k', o)
  BY <1>5, <1>8, <1>11, <1>12 DEF PoolSound
<1> QED BY <1>2, <1>12, <1>13, <1>15, <1>16, PoolOne

\* tk_chg_pri: the task with its new priority, and its place in the queue.
LEMMA PoolChgPri ==
  ASSUME PoolInv(k), NEW t \in Tasks, NEW pri \in Mpf!Pri, Mpf!tk_chg_pri(t, pri)
  PROVE  PoolInv(k')
<1> DEFINE z == Mpf!Fresh(k)
           v == z.tcb[t]
           o == v.wid
           w == [v EXCEPT !.priority = pri]
           s == SetTask(z, t, w)
           M == k.tcb[t].state = "WAIT" /\ k.gcb[k.tcb[t].wid].tpri
<1>1. k' = IF M THEN Mpf!knl_gcb_change_priority(s, t) ELSE s
  BY Zenon DEF Mpf!tk_chg_pri, SetTask
<1>2. /\ PoolInv(z) /\ z \in Mpf!Kernel /\ Exact(z) /\ z.gcb = k.gcb
      /\ v.state = k.tcb[t].state /\ v.wid = k.tcb[t].wid
  BY PoolFresh DEF SameTask
<1> HIDE DEF z
<1>3. v \in Mpf!TCB /\ o \in Objects
  <2>1. v \in Mpf!TCB
    BY <1>2, PoolTypes
  <2> QED BY <2>1 DEF Mpf!TCB
<1>4. w \in Mpf!TCB
  BY <1>3, Zenon DEF Mpf!TCB
<1>5. w.state = v.state /\ w.wid = v.wid /\ w.priority \in Int
  BY <1>3 DEF Mpf!TCB, Mpf!Pri
<1> HIDE DEF w
<1>6. /\ s \in Mpf!Kernel /\ s.tcb[t] = w /\ s.gcb = z.gcb /\ SameBlocks(z, s)
      /\ \A u \in Tasks \ {t} : s.tcb[u] = z.tcb[u]
  BY <1>2, <1>4, PoolTask
<1> HIDE DEF s
<1>7. \A u \in Tasks : s.tcb[u].state = z.tcb[u].state /\ s.tcb[u].wid = z.tcb[u].wid
  BY <1>5, <1>6
<1>8. SUFFICES /\ k' \in Mpf!Kernel /\ Exact(k') /\ k'.tcb = s.tcb /\ SameBlocks(z, k')
               /\ \A p \in Objects : SamePool(z.gcb[p], k'.gcb[p])
  <2>1. \A p \in Objects : PoolLess(z, k', p)
    BY <1>7, <1>8 DEF PoolLess, SameBlocks, Line
  <2> QED BY <1>2, <1>8, <2>1, PoolLessKeeps
<1>9. CASE ~M
  <2>1. k' = s
    BY <1>1, <1>9
  <2>2. \A u \in Tasks \ {t} : SameTask(z, s, u)
    BY <1>6 DEF SameTask
  <2>3. \A p \in Objects : SameQueue(z, s, p)
    BY <1>6 DEF SameQueue, SameKind
  <2>4. z.tcb[t].state = "WAIT" => ~z.gcb[z.tcb[t].wid].tpri
    BY <1>2, <1>9
  <2>5. s.tcb[t].state = z.tcb[t].state /\ s.tcb[t].wid = z.tcb[t].wid /\ s.tcb[t].priority \in Int
    BY <1>5, <1>6
  <2>6. Exact(s)
    BY <1>2, <2>2, <2>3, <2>4, <2>5, RepriExact
  <2> QED BY <1>6, <2>1, <2>6 DEF SamePool
<1>10. CASE M
  <2> DEFINE g == z.gcb[o]
             q == g.wait_queue
             d == knl_queue_insert_tpri(QueRemove(q, t), t, Prios(s))
             c == [g EXCEPT !.wait_queue = d]
  <2>1. s.tcb[t].wid = o /\ s.gcb[o] = g /\ g \in Mpf!MPFCB
    BY <1>2, <1>3, <1>5, <1>6, PoolTypes
  <2>2. k' = SetObj(s, o, c)
    BY <1>1, <1>10, <2>1, PoolQueues, Zenon DEF Mpf!knl_gcb_change_priority, SetObj
  <2>3. Prios(s) \in [Tasks -> Int]
    <3>1. \A u \in Tasks : s.tcb[u].priority \in Int
      BY <1>6, PoolTypes
    <3> QED BY <3>1 DEF Prios
  <2>4. d \in Seq(Tasks)
    <3>1. q \in Seq(Tasks) /\ Injective(q)
      BY <1>2, <1>3 DEF Exact, QueueIn
    <3> HIDE DEF q
    <3>2. QueRemove(q, t) \in Seq(Tasks) /\ Elems(QueRemove(q, t)) = Elems(q) \ {t} /\ Injective(QueRemove(q, t))
      BY <3>1, QueRemoveFacts
    <3>3. t \notin Elems(QueRemove(q, t))
      BY <3>2
    <3> QED BY <2>3, <3>2, <3>3, TpriFacts
  <2> HIDE DEF d
  <2>5. c \in Mpf!MPFCB
    BY <2>1, <2>4, Zenon DEF Mpf!MPFCB
  <2>6. c.wait_queue = d /\ SamePool(g, c)
    BY <2>1 DEF Mpf!MPFCB, SamePool
  <2> HIDE DEF c
  <2>7. /\ k' \in Mpf!Kernel /\ k'.gcb[o] = c /\ k'.tcb = s.tcb /\ SameBlocks(s, k')
        /\ \A p \in Objects \ {o} : k'.gcb[p] = s.gcb[p]
    BY <1>3, <1>6, <2>2, <2>5, PoolObject
  <2>8. Exact(k')
    <3>1. \A u \in Tasks \ {t} : SameTask(z, k', u)
      BY <1>6, <2>7 DEF SameTask
    <3>2. \A p \in Objects \ {o} : SameQueue(z, k', p)
      BY <1>6, <2>7 DEF SameQueue, SameKind
    <3>3. SameKind(z, k', o)
      BY <2>6, <2>7 DEF SameKind, SamePool
    <3>4. Prios(k') = Prios(s)
      BY <2>7 DEF Prios
    <3>5. k'.gcb[o].wait_queue = knl_queue_insert_tpri(QueRemove(z.gcb[o].wait_queue, t), t, Prios(k'))
      BY <2>6, <2>7, <3>4, Zenon DEF d
    <3>6. k'.tcb[t].state = "WAIT" /\ k'.tcb[t].wid = o /\ k'.tcb[t].priority \in Int
      BY <1>2, <1>5, <1>6, <1>10, <2>7
    <3>7. z.tcb[t].state = "WAIT" /\ z.tcb[t].wid = o
      BY <1>2, <1>10
    <3> HIDE DEF o
    <3> QED BY <1>2, <1>3, <3>1, <3>2, <3>3, <3>5, <3>6, <3>7, MoveExact
  <2>9. \A p \in Objects : SamePool(z.gcb[p], k'.gcb[p])
    BY <1>6, <2>6, <2>7 DEF SamePool
  <2>10. SameBlocks(z, k')
    BY <1>6, <2>7 DEF SameBlocks
  <2> QED BY <2>7, <2>8, <2>9, <2>10
<1> QED BY <1>9, <1>10

\* knl_gcb_make_wait, of a pool that has no free block.
LEMMA PoolJoins ==
  ASSUME NEW z, PoolInv(z), NEW t \in Tasks, z.tcb[t].state # "WAIT", NEW o \in Objects, z.gcb[o].objid,
         z.gcb[o].frbcnt = 0
  PROVE  PoolInv(Mpf!knl_gcb_make_wait(z, t, o))
<1> DEFINE v == z.tcb[t]
           w == [v EXCEPT !.state = "WAIT", !.wid = o, !.wercd = "E_TMOUT"]
           g == z.gcb[o]
           q == g.wait_queue
           d == IF g.tpri THEN knl_queue_insert_tpri(q, t, Prios(z)) ELSE QueInsert(q, t)
           c == [g EXCEPT !.wait_queue = d]
           y == SetObj(z, o, c)
           f == Mpf!knl_gcb_make_wait(z, t, o)
<1>1. z \in Mpf!Kernel /\ Exact(z)
  BY DEF PoolInv
<1>2. v \in Mpf!TCB /\ g \in Mpf!MPFCB
  BY <1>1, PoolTypes
<1>3. Prios(z) \in [Tasks -> Int]
  BY <1>1 DEF Exact, Prios
<1>4. f = SetTask(y, t, w)
  <2>1. Mpf!QueueFor(z, q, t, g.tpri) = d
    BY PoolQueues, Zenon DEF Mpf!QueueFor
  <2> HIDE DEF d
  <2> QED BY <2>1, Zenon DEF Mpf!knl_gcb_make_wait, SetTask, SetObj
<1>5. q \in Seq(Tasks) /\ Injective(q) /\ t \notin Elems(q)
  BY <1>1 DEF Exact, QueueIn, Line
<1>6. d \in Seq(Tasks)
  <2>1. CASE g.tpri
    <3> HIDE DEF q
    <3> QED BY <1>3, <1>5, <2>1, TpriFacts
  <2>2. CASE ~g.tpri
    <3> HIDE DEF q
    <3> QED BY <1>5, <2>2, QueInsertFacts
  <2> QED BY <2>1, <2>2
<1> HIDE DEF f
<1>7. c \in Mpf!MPFCB
  <2> HIDE DEF d
  <2> QED BY <1>2, <1>6, Zenon DEF Mpf!MPFCB
<1>8. c.wait_queue = d /\ SamePool(g, c)
  <2> HIDE DEF d, g
  <2> QED BY <1>2 DEF Mpf!MPFCB, SamePool
<1>9. w \in Mpf!TCB
  BY <1>2, Zenon DEF Mpf!TCB, Mpf!Error
<1>10. w.state = "WAIT" /\ w.wid = o /\ w.priority = v.priority
  BY <1>2 DEF Mpf!TCB
<1> HIDE DEF c, w
<1>11. /\ y \in Mpf!Kernel /\ y.gcb[o] = c /\ y.tcb = z.tcb /\ SameBlocks(z, y)
       /\ \A r \in Objects \ {o} : y.gcb[r] = z.gcb[r]
  BY <1>1, <1>7, PoolObject
<1> HIDE DEF y
<1>12. /\ f \in Mpf!Kernel /\ f.tcb[t] = w /\ f.gcb = y.gcb /\ SameBlocks(y, f)
       /\ \A u \in Tasks \ {t} : f.tcb[u] = y.tcb[u]
  <2> HIDE DEF d, q, g
  <2>1. LET x == SetTask(y, t, w)
        IN  /\ x \in Mpf!Kernel /\ x.tcb[t] = w /\ x.gcb = y.gcb /\ SameBlocks(y, x)
            /\ \A u \in Tasks \ {t} : x.tcb[u] = y.tcb[u]
    BY <1>9, <1>11, PoolTask
  <2> QED BY <1>4, <2>1
<1>13. /\ \A u \in Tasks \ {t} : f.tcb[u] = z.tcb[u]
       /\ \A r \in Objects \ {o} : f.gcb[r] = z.gcb[r]
       /\ f.gcb[o] = c /\ SameBlocks(z, f)
  BY <1>11, <1>12 DEF SameBlocks
<1>14. Exact(f)
  <2>1. \A u \in Tasks \ {t} : SameTask(z, f, u)
    BY <1>13 DEF SameTask
  <2>2. \A r \in Objects \ {o} : SameQueue(z, f, r)
    BY <1>13 DEF SameQueue, SameKind
  <2>3. SameKind(z, f, o)
    BY <1>8, <1>13 DEF SameKind, SamePool
  <2>4. f.gcb[o].wait_queue = IF z.gcb[o].tpri THEN knl_queue_insert_tpri(z.gcb[o].wait_queue, t, Prios(z))
                              ELSE QueInsert(z.gcb[o].wait_queue, t)
    BY <1>8, <1>13
  <2>5. f.tcb[t].state = "WAIT" /\ f.tcb[t].wid = o /\ f.tcb[t].priority = z.tcb[t].priority
    BY <1>10, <1>12
  <2> QED BY <1>1, <2>1, <2>2, <2>3, <2>4, <2>5, JoinExact
<1>15. ASSUME NEW r \in Objects \ {o}
       PROVE  PoolLess(z, f, r)
  <2>1. Line(f, r) \subseteq Line(z, r)
    BY <1>10, <1>12, <1>13 DEF Line
  <2> QED BY <1>13, <2>1 DEF PoolLess, SamePool, SameBlocks
<1>16. PoolSound(f, o)
  <2>1. Whole(g, z.next[o], z.held[o])
    BY DEF PoolInv, PoolSound
  <2>2. PICK L : FreeList(g, z.next[o], z.held[o], L)
    BY <2>1 DEF Whole
  <2>3. FreeList(c, f.next[o], f.held[o], L)
    BY <1>8, <1>13, <2>2 DEF FreeList, SamePool, SameBlocks
  <2>4. c.objid /\ c.frbcnt = 0
    BY <1>8 DEF SamePool
  <2> QED BY <1>13, <2>3, <2>4 DEF PoolSound, Whole
<1>17. PoolInv(f)
  BY <1>12, <1>14, <1>15, <1>16, PoolOne
<1> QED BY <1>17 DEF f

\* A pool o takes new values c, n, h, which are whole, and nobody waits.
LEMMA PoolChanges ==
  ASSUME NEW s, PoolInv(s), NEW o \in Objects, s.gcb[o].objid, Line(s, o) = {},
         NEW f \in Mpf!Kernel, f.tcb = s.tcb,
         f.gcb[o].objid = s.gcb[o].objid, f.gcb[o].tpri = s.gcb[o].tpri, f.gcb[o].wait_queue = s.gcb[o].wait_queue,
         Whole(f.gcb[o], f.next[o], f.held[o]),
         \A p \in Objects \ {o} : f.gcb[p] = s.gcb[p] /\ f.next[p] = s.next[p] /\ f.held[p] = s.held[p]
  PROVE  PoolInv(f)
<1>1. Exact(f)
  <2>1. \A u \in Tasks : SameTask(s, f, u)
    BY DEF SameTask
  <2>2. \A p \in Objects : SameQueue(s, f, p)
    BY DEF SameQueue, SameKind
  <2> QED BY <2>1, <2>2, SameExact DEF PoolInv
<1>2. \A p \in Objects : Line(f, p) = Line(s, p)
  BY DEF Line
<1>3. \A p \in Objects \ {o} : PoolLess(s, f, p)
  BY <1>2 DEF PoolLess, SamePool
<1>4. PoolSound(f, o)
  BY <1>2 DEF PoolSound
<1> QED BY <1>1, <1>3, <1>4, PoolOne

\* tk_get_mpf when a block is free: from the free list, or else a new one.
LEMMA PoolTakes ==
  ASSUME NEW s, PoolInv(s), NEW o \in Objects, s.gcb[o].objid, s.gcb[o].frbcnt > 0
  PROVE  PoolInv(Mpf!Take(s, o))
<1> DEFINE g == s.gcb[o]
           n == s.next[o]
           h == s.held[o]
           f == Mpf!Take(s, o)
<1>1. /\ s \in Mpf!Kernel /\ g \in Mpf!MPFCB /\ Links(n)
      /\ g.frbcnt \in 0 .. MaxBlocks /\ g.unused \in 0 .. MaxBlocks /\ g.mpfcnt \in 0 .. MaxBlocks
  <2>1. s \in Mpf!Kernel
    BY DEF PoolInv
  <2>2. g \in Mpf!MPFCB /\ Links(n)
    BY <2>1, PoolTypes DEF Links
  <2> QED BY <2>1, <2>2, PoolNumbers
<1>2. Line(s, o) = {}
  BY <1>1 DEF PoolInv, PoolSound
<1>3. PICK L : FreeList(g, n, h, L)
  BY DEF PoolInv, PoolSound, Whole
<1>4. g.frbcnt - 1 \in 0 .. MaxBlocks /\ MaxBlocks \in Nat
  BY <1>1, ObjectsAssumption
<1>5. CASE L # << >>
  <2> DEFINE b == L[1]
             c == [g EXCEPT !.frbcnt = g.frbcnt - 1, !.freelist = n[b]]
             y == SetObj(s, o, c)
  <2>1. 1 \in 1 .. Len(L) /\ b \in Blk /\ g.freelist = b
    BY <1>3, <1>5 DEF FreeList
  <2>2. n[b] \in Mpf!Blocks \cup {NULL}
    <3>1. n[L[1]] = IF 1 = Len(L) THEN NULL ELSE L[1 + 1]
      BY <1>3, <2>1, Zenon DEF FreeList
    <3>3. L \in Seq(Blk) /\ Len(L) \in Nat
      BY <1>3 DEF FreeList
    <3>2. 1 # Len(L) => L[1 + 1] \in Blk
      <4> DEFINE l == Len(L)
      <4>1. l \in Nat /\ 1 \in 1 .. l
        BY <2>1, <3>3
      <4> HIDE DEF l
      <4>2. 1 # l => 1 + 1 \in 1 .. l
        BY <4>1
      <4> QED BY <3>3, <4>2 DEF l
    <3> QED BY <3>1, <3>2 DEF Mpf!Blocks, Blk
  <2>3. b # NULL
    BY <2>1, ObjectsAssumption DEF Blk
  <2>4. f = Mpf!HandOut(y, o, b)
    <3> DEFINE r == [s EXCEPT !.gcb[o].frbcnt = @ - 1]
    <3>1. f = Mpf!HandOut([r EXCEPT !.gcb[o].freelist = s.next[o][g.freelist]], o, g.freelist)
      BY <2>1, <2>3, Zenon DEF Mpf!Take
    <3>2. s.gcb \in [Objects -> Mpf!MPFCB]
      BY <1>1 DEF Mpf!Kernel
    <3> DEFINE A == [s.gcb EXCEPT ![o] = [g EXCEPT !.frbcnt = g.frbcnt - 1]]
               B == [A EXCEPT ![o] = [A[o] EXCEPT !.freelist = n[b]]]
               C == [s.gcb EXCEPT ![o] = c]
    <3>3. r = [s EXCEPT !.gcb = A]
      BY Zenon
    <3>4. [r EXCEPT !.gcb[o].freelist = n[b]] = [r EXCEPT !.gcb = [r.gcb EXCEPT ![o] = [r.gcb[o] EXCEPT !.freelist = n[b]]]]
      BY Zenon
    <3>5. A[o] = [g EXCEPT !.frbcnt = g.frbcnt - 1]
      BY <3>2
    <3>6. [A[o] EXCEPT !.freelist = n[b]] = c
      BY <3>5
    <3>7. B = C
      BY <3>2, <3>6
    <3> HIDE DEF A, c, g
    <3>8. r.gcb = A
      BY <1>1, <3>3 DEF Mpf!Kernel
    <3>9. [r EXCEPT !.gcb[o].freelist = n[b]] = [r EXCEPT !.gcb = C]
      BY <3>4, <3>7, <3>8
    <3>10. [r EXCEPT !.gcb = C] = [s EXCEPT !.gcb = C]
      <4> HIDE DEF C, r
      <4> QED BY <1>1, <3>3 DEF Mpf!Kernel
    <3>11. y = [s EXCEPT !.gcb = C]
      BY Zenon DEF SetObj
    <3> QED BY <2>1, <3>1, <3>9, <3>10, <3>11 DEF g
  <2> HIDE DEF f
  <2>5. c \in Mpf!MPFCB
    BY <1>1, <1>4, <2>2, Zenon DEF Mpf!MPFCB
  <2>6. /\ c.unused = g.unused /\ c.mpfcnt = g.mpfcnt /\ c.freelist = n[b] /\ c.frbcnt = g.frbcnt - 1
        /\ c.objid = g.objid /\ c.tpri = g.tpri /\ c.wait_queue = g.wait_queue
    BY <1>1 DEF Mpf!MPFCB
  <2> HIDE DEF c
  <2>7. /\ y \in Mpf!Kernel /\ y.gcb[o] = c /\ y.tcb = s.tcb /\ SameBlocks(s, y)
        /\ \A p \in Objects \ {o} : y.gcb[p] = s.gcb[p]
    BY <1>1, <2>5, PoolObject
  <2> HIDE DEF y
  <2>8. /\ f \in Mpf!Kernel /\ f.tcb = y.tcb /\ f.gcb = y.gcb
        /\ f.next[o] = [y.next[o] EXCEPT ![b] = DATA] /\ f.held[o] = y.held[o] \cup {b}
        /\ \A p \in Objects \ {o} : f.next[p] = y.next[p] /\ f.held[p] = y.held[p]
    BY <2>1, <2>4, <2>7, PoolHandOut
  <2>9. f.gcb[o] = c /\ f.next[o] = [n EXCEPT ![b] = DATA] /\ f.held[o] = h \cup {b}
    BY <2>7, <2>8 DEF SameBlocks
  <2>10. FreeList(c, [n EXCEPT ![b] = DATA], h \cup {b}, Tail(L))
    <3> HIDE DEF n, h, g
    <3> QED BY <1>1, <1>3, <1>5, <2>5, <2>6, FreeListTakes DEF b
  <2>11. Whole(f.gcb[o], f.next[o], f.held[o])
    BY <2>9, <2>10 DEF Whole
  <2>12. PoolInv(f)
    <3>1. \A p \in Objects \ {o} : f.gcb[p] = s.gcb[p] /\ f.next[p] = s.next[p] /\ f.held[p] = s.held[p]
      BY <2>7, <2>8 DEF SameBlocks
    <3>2. f.tcb = s.tcb /\ f.gcb[o].objid = s.gcb[o].objid /\ f.gcb[o].tpri = s.gcb[o].tpri /\ f.gcb[o].wait_queue = s.gcb[o].wait_queue
      BY <2>6, <2>7, <2>8
    <3>3. f \in Mpf!Kernel
      BY <2>8
    <3> HIDE DEF g, n, h
    <3> QED BY <1>2, <2>11, <3>1, <3>2, <3>3, PoolChanges
  <2> QED BY <2>12 DEF f
<1>6. CASE L = << >>
  <2> DEFINE b == g.unused
             c == [g EXCEPT !.frbcnt = g.frbcnt - 1, !.unused = b + 1]
             y == SetObj(s, o, c)
  <2>1. g.freelist = NULL /\ b \in Blk /\ b + 1 \in 0 .. MaxBlocks
    <3>1. g.freelist = NULL /\ g.frbcnt = Len(L) + (g.mpfcnt - g.unused) /\ Len(L) = 0
      BY <1>3, <1>6 DEF FreeList
    <3>2. g.unused < g.mpfcnt
      BY <1>1, <3>1
    <3>3. \A u, m \in 0 .. MaxBlocks : u < m => u \in Blk /\ u + 1 \in 0 .. MaxBlocks
      BY <1>4 DEF Blk
    <3> HIDE DEF g
    <3> QED BY <1>1, <3>1, <3>2, <3>3
  <2>4. f = Mpf!HandOut(y, o, b)
    <3> DEFINE r == [s EXCEPT !.gcb[o].frbcnt = @ - 1]
    <3>1. f = Mpf!HandOut([r EXCEPT !.gcb[o].unused = @ + 1], o, b)
      BY <2>1, Zenon DEF Mpf!Take
    <3>2. s.gcb \in [Objects -> Mpf!MPFCB]
      BY <1>1 DEF Mpf!Kernel
    <3> DEFINE A == [s.gcb EXCEPT ![o] = [g EXCEPT !.frbcnt = g.frbcnt - 1]]
               B == [A EXCEPT ![o] = [A[o] EXCEPT !.unused = A[o].unused + 1]]
               C == [s.gcb EXCEPT ![o] = c]
    <3>3. r = [s EXCEPT !.gcb = A]
      BY Zenon
    <3>4. [r EXCEPT !.gcb[o].unused = @ + 1]
            = [r EXCEPT !.gcb = [r.gcb EXCEPT ![o] = [r.gcb[o] EXCEPT !.unused = r.gcb[o].unused + 1]]]
      BY Zenon
    <3>5. A[o] = [g EXCEPT !.frbcnt = g.frbcnt - 1]
      BY <3>2
    <3>12. A[o].unused = b
      BY <1>1, <3>5 DEF Mpf!MPFCB
    <3>6. [A[o] EXCEPT !.unused = A[o].unused + 1] = c
      <4> DEFINE a == A[o]
      <4>1. a = [g EXCEPT !.frbcnt = g.frbcnt - 1] /\ a.unused = b
        BY <3>5, <3>12
      <4> HIDE DEF a, b
      <4>2. [a EXCEPT !.unused = a.unused + 1] = [a EXCEPT !.unused = b + 1]
        BY <4>1, Zenon
      <4>3. [a EXCEPT !.unused = b + 1] = c
        BY <4>1
      <4> QED BY <4>2, <4>3 DEF a
    <3>7. B = C
      BY <3>2, <3>6
    <3> HIDE DEF A, c, g
    <3>8. r.gcb = A
      BY <1>1, <3>3 DEF Mpf!Kernel
    <3>9. [r EXCEPT !.gcb[o].unused = @ + 1] = [r EXCEPT !.gcb = C]
      BY <3>4, <3>7, <3>8
    <3>10. [r EXCEPT !.gcb = C] = [s EXCEPT !.gcb = C]
      <4> HIDE DEF C, r
      <4> QED BY <1>1, <3>3 DEF Mpf!Kernel
    <3>11. y = [s EXCEPT !.gcb = C]
      BY Zenon DEF SetObj
    <3> QED BY <2>1, <3>1, <3>9, <3>10, <3>11 DEF g
  <2> HIDE DEF f
  <2>5. c \in Mpf!MPFCB
    BY <1>1, <1>4, <2>1, Zenon DEF Mpf!MPFCB
  <2>6. /\ c.unused = g.unused + 1 /\ c.mpfcnt = g.mpfcnt /\ c.freelist = g.freelist /\ c.frbcnt = g.frbcnt - 1
        /\ c.objid = g.objid /\ c.tpri = g.tpri /\ c.wait_queue = g.wait_queue
    BY <1>1 DEF Mpf!MPFCB
  <2> HIDE DEF c
  <2>7. /\ y \in Mpf!Kernel /\ y.gcb[o] = c /\ y.tcb = s.tcb /\ SameBlocks(s, y)
        /\ \A p \in Objects \ {o} : y.gcb[p] = s.gcb[p]
    BY <1>1, <2>5, PoolObject
  <2> HIDE DEF y, b
  <2>8. /\ f \in Mpf!Kernel /\ f.tcb = y.tcb /\ f.gcb = y.gcb
        /\ f.next[o] = [y.next[o] EXCEPT ![b] = DATA] /\ f.held[o] = y.held[o] \cup {b}
        /\ \A p \in Objects \ {o} : f.next[p] = y.next[p] /\ f.held[p] = y.held[p]
    BY <2>1, <2>4, <2>7, PoolHandOut
  <2>9. f.gcb[o] = c /\ f.next[o] = [n EXCEPT ![b] = DATA] /\ f.held[o] = h \cup {b}
    BY <2>7, <2>8 DEF SameBlocks
  <2>10. FreeList(c, [n EXCEPT ![b] = DATA], h \cup {b}, L)
    <3> HIDE DEF n, h, g
    <3> QED BY <1>1, <1>3, <1>6, <2>5, <2>6, FreeListExtends DEF g, b
  <2>11. Whole(f.gcb[o], f.next[o], f.held[o])
    BY <2>9, <2>10 DEF Whole
  <2>12. PoolInv(f)
    <3>1. \A p \in Objects \ {o} : f.gcb[p] = s.gcb[p] /\ f.next[p] = s.next[p] /\ f.held[p] = s.held[p]
      BY <2>7, <2>8 DEF SameBlocks
    <3>2. f.tcb = s.tcb /\ f.gcb[o].objid = s.gcb[o].objid /\ f.gcb[o].tpri = s.gcb[o].tpri /\ f.gcb[o].wait_queue = s.gcb[o].wait_queue
      BY <2>6, <2>7, <2>8
    <3>3. f \in Mpf!Kernel
      BY <2>8
    <3> HIDE DEF g, n, h
    <3> QED BY <1>2, <2>11, <3>1, <3>2, <3>3, PoolChanges
  <2> QED BY <2>12 DEF f
<1> QED BY <1>5, <1>6

\* tk_get_mpf.
LEMMA GetMpf ==
  ASSUME PoolInv(k), NEW t \in Tasks, NEW o \in Objects, NEW pol \in BOOLEAN, Mpf!tk_get_mpf(t, o, pol)
  PROVE  PoolInv(k')
<1> DEFINE s == Mpf!Fresh(k)
<1>1. /\ k.tcb[t].state = "READY" /\ k.gcb[o].objid
      /\ k' = IF k.gcb[o].frbcnt > 0 THEN Mpf!Take(s, o)
              ELSE IF pol THEN s ELSE Mpf!knl_gcb_make_wait(s, t, o)
  BY Zenon DEF Mpf!tk_get_mpf
<1>2. PoolInv(s) /\ s \in Mpf!Kernel /\ s.gcb = k.gcb /\ s.tcb[t].state = k.tcb[t].state
  BY PoolFresh DEF SameTask
<1> HIDE DEF s
<1>3. s.gcb[o].frbcnt \in Nat
  <2>1. s.gcb[o] \in Mpf!MPFCB
    BY <1>2, PoolTypes
  <2> QED BY <2>1, PoolNumbers
<1>4. CASE k.gcb[o].frbcnt > 0
  BY <1>1, <1>2, <1>4, PoolTakes
<1>5. CASE ~(k.gcb[o].frbcnt > 0) /\ pol
  BY <1>1, <1>2, <1>5
<1>6. CASE ~(k.gcb[o].frbcnt > 0) /\ ~pol
  <2>1. s.gcb[o].frbcnt = 0
    BY <1>2, <1>3, <1>6
  <2>2. k' = Mpf!knl_gcb_make_wait(s, t, o) /\ s.tcb[t].state # "WAIT" /\ s.gcb[o].objid
    BY <1>1, <1>2, <1>6
  <2> QED BY <1>2, <2>1, <2>2, PoolJoins
<1> QED BY <1>4, <1>5, <1>6

\* The user of a block writes to it.
LEMMA FreeListKeeps ==
  ASSUME NEW g, NEW n, Links(n), NEW h, NEW L, FreeList(g, n, h, L), NEW b \in h
  PROVE  FreeList(g, [n EXCEPT ![b] = DATA], h \cup {b}, L)
<1> DEFINE m == [n EXCEPT ![b] = DATA]
<1>1. h \cup {b} = h
  OBVIOUS
<1>2. ASSUME NEW i \in 1 .. Len(L)
      PROVE  m[L[i]] = n[L[i]]
  <2>1. L \in Seq(Blk) /\ b \notin Elems(L)
    BY DEF FreeList
  <2>2. L[i] \in Blk /\ L[i] # b
    BY <2>1 DEF Elems
  <2> QED BY <2>2 DEF Links
<1> HIDE DEF m
<1>3. FreeList(g, m, h, L)
  BY <1>2 DEF FreeList
<1> QED BY <1>1, <1>3 DEF m

\* A block in use goes to another task.
LEMMA PoolWrites ==
  ASSUME NEW s, PoolInv(s), NEW o \in Objects, s.gcb[o].objid, NEW b \in s.held[o]
  PROVE  PoolInv(Mpf!HandOut(s, o, b))
<1> DEFINE f == Mpf!HandOut(s, o, b)
           g == s.gcb[o]
           n == s.next[o]
           h == s.held[o]
<1>1. s \in Mpf!Kernel /\ Exact(s) /\ b \in Blk /\ Links(n)
  <2>1. s \in Mpf!Kernel /\ Exact(s)
    BY DEF PoolInv
  <2> QED BY <2>1, PoolTypes DEF Links
<1>2. /\ f \in Mpf!Kernel /\ f.tcb = s.tcb /\ f.gcb = s.gcb
      /\ f.next[o] = [n EXCEPT ![b] = DATA] /\ f.held[o] = h \cup {b}
      /\ \A p \in Objects \ {o} : f.next[p] = s.next[p] /\ f.held[p] = s.held[p]
  <2>1. s \in Mpf!Kernel /\ b \in Blk
    BY <1>1
  <2> HIDE DEF n, h
  <2> QED BY <2>1, PoolHandOut DEF n, h
<1> HIDE DEF f
<1>3. \A p \in Objects : Line(f, p) = Line(s, p)
  BY <1>2 DEF Line
<1>4. Exact(f)
  <2>1. \A u \in Tasks : SameTask(s, f, u)
    BY <1>2 DEF SameTask
  <2>2. \A p \in Objects : SameQueue(s, f, p)
    BY <1>2 DEF SameQueue, SameKind
  <2> QED BY <1>1, <2>1, <2>2, SameExact
<1>5. PoolSound(f, o)
  <2>1. PICK L : FreeList(g, n, h, L)
    BY DEF PoolInv, PoolSound, Whole
  <2>2. FreeList(g, [n EXCEPT ![b] = DATA], h \cup {b}, L)
    <3> HIDE DEF g, n
    <3> QED BY <1>1, <2>1, FreeListKeeps
  <2>3. Line(s, o) # {} => g.frbcnt = 0
    BY DEF PoolInv, PoolSound
  <2> QED BY <1>2, <1>3, <2>2, <2>3 DEF PoolSound, Whole
<1>6. \A p \in Objects \ {o} : PoolLess(s, f, p)
  BY <1>2, <1>3 DEF PoolLess, SamePool
<1>7. PoolInv(f)
  BY <1>2, <1>4, <1>5, <1>6, PoolOne
<1> QED BY <1>7 DEF f

\* tk_rel_mpf to a waiter.
LEMMA RelMpfServes ==
  ASSUME PoolInv(k), NEW o \in Objects, NEW b \in Mpf!Blocks, Mpf!tk_rel_mpf(o, b),
         k.gcb[o].wait_queue # << >>
  PROVE  PoolInv(k')
<1> DEFINE z == Mpf!Fresh(k)
           q == k.gcb[o].wait_queue
           t == Head(q)
           y == Mpf!knl_wait_release(z, t, "E_OK")
<1>1. k.gcb[o].objid /\ b \in k.held[o] /\ k' = Mpf!HandOut(y, o, b)
  BY Zenon DEF Mpf!tk_rel_mpf, Mpf!knl_wait_release_ok
<1>2. PoolInv(z) /\ z \in Mpf!Kernel /\ Exact(z) /\ z.gcb = k.gcb /\ SameBlocks(k, z)
  BY PoolFresh
<1> HIDE DEF z
<1>3. q \in Seq(Tasks) /\ Elems(q) = Line(z, o)
  BY <1>2 DEF Exact, QueueIn
<1>4. t \in Elems(q)
  <2>1. 1 \in DOMAIN q /\ t = q[1]
    BY <1>3
  <2> QED BY <2>1 DEF Elems
<1> HIDE DEF t
<1>5. t \in Tasks /\ z.tcb[t].state = "WAIT" /\ z.tcb[t].wid = o
  BY <1>3, <1>4 DEF Line
<1>6. "E_OK" \in Mpf!Error
  BY DEF Mpf!Error
<1>7. PoolFreed(z, y, t, o) /\ Exact(y)
  BY <1>2, <1>5, <1>6, PoolRelease
<1> HIDE DEF y
<1>8. PoolInv(y)
  BY <1>2, <1>5, <1>7, PoolFreedKeeps
<1>9. y.gcb[o].objid /\ b \in y.held[o]
  <2>1. y.gcb[o].objid = z.gcb[o].objid /\ y.held = z.held
    BY <1>7 DEF PoolFreed, SamePool, SameBlocks
  <2> QED BY <1>1, <1>2, <2>1 DEF SameBlocks
<1> QED BY <1>1, <1>8, <1>9, PoolWrites

\* tk_rel_mpf into the free list.
LEMMA RelMpfReturns ==
  ASSUME PoolInv(k), NEW o \in Objects, NEW b \in Mpf!Blocks, Mpf!tk_rel_mpf(o, b),
         k.gcb[o].wait_queue = << >>
  PROVE  PoolInv(k')
<1> DEFINE s == Mpf!Fresh(k)
           g == s.gcb[o]
           n == s.next[o]
           h == s.held[o]
           m == [n EXCEPT ![b] = g.freelist]
           e == h \ {b}
           c == [g EXCEPT !.freelist = b, !.frbcnt = g.frbcnt + 1]
           y == SetObj(s, o, c)
<1>1. PoolInv(s) /\ s \in Mpf!Kernel /\ Exact(s) /\ s.gcb = k.gcb /\ SameBlocks(k, s)
  BY PoolFresh
<1>2. /\ g.objid /\ b \in h
      /\ k' = [s EXCEPT !.next[o][b] = g.freelist, !.held[o] = @ \ {b},
                        !.gcb[o] = [@ EXCEPT !.freelist = b, !.frbcnt = g.frbcnt + 1]]
  BY <1>1, Zenon DEF Mpf!tk_rel_mpf, SameBlocks
<1> HIDE DEF s
<1>3. g \in Mpf!MPFCB /\ Links(n) /\ InUse(h) /\ b \in Blk
  BY <1>1, PoolTypes DEF Links, InUse, Mpf!Blocks, Blk
<1>4. PICK L : FreeList(g, n, h, L)
  BY <1>1, <1>2 DEF PoolInv, PoolSound, Whole
<1>5. g.frbcnt + 1 \in 0 .. MaxBlocks
  <2>1. g.frbcnt < g.mpfcnt
    <3> HIDE DEF g, n, h
    <3> QED BY <1>2, <1>3, <1>4, FreeListCounts
  <2>2. g.mpfcnt \in 0 .. MaxBlocks /\ g.frbcnt \in 0 .. MaxBlocks /\ MaxBlocks \in Nat
    BY <1>3, PoolNumbers
  <2> QED BY <2>1, <2>2
<1>6. k' = SetBlocks(y, o, m, e)
  <2> DEFINE C == [s.gcb EXCEPT ![o] = c]
             N == [s.next EXCEPT ![o] = m]
             H == [s.held EXCEPT ![o] = e]
  <2>1. s = [tcb |-> s.tcb, gcb |-> s.gcb, next |-> s.next, held |-> s.held]
    BY <1>1 DEF Mpf!Kernel
  <2>10. k' = [s EXCEPT !.next = N, !.held = H, !.gcb = C]
    BY <1>2, Zenon
  <2>11. y = [s EXCEPT !.gcb = C]
    BY Zenon DEF SetObj
  <2> HIDE DEF C, H, N
  <2>12. k' = [tcb |-> s.tcb, gcb |-> C, next |-> N, held |-> H]
    BY <2>1, <2>10
  <2>13. y = [tcb |-> s.tcb, gcb |-> C, next |-> s.next, held |-> s.held]
    BY <2>1, <2>11
  <2> HIDE DEF y, m, e
  <2>14. SetBlocks(y, o, m, e) = [y EXCEPT !.held = [y.held EXCEPT ![o] = e], !.next = [y.next EXCEPT ![o] = m]]
    BY Zenon DEF SetBlocks
  <2>15. y.held = s.held /\ y.next = s.next
    BY <2>13
  <2>16. SetBlocks(y, o, m, e) = [y EXCEPT !.held = H, !.next = N]
    BY <2>14, <2>15 DEF H, N
  <2> QED BY <2>12, <2>13, <2>16
<1>7. c \in Mpf!MPFCB
  <2>1. b \in Mpf!Blocks \cup {NULL}
    OBVIOUS
  <2> QED BY <1>3, <1>5, <2>1, Zenon DEF Mpf!MPFCB
<1>8. /\ c.unused = g.unused /\ c.mpfcnt = g.mpfcnt /\ c.freelist = b /\ c.frbcnt = g.frbcnt + 1
      /\ c.objid = g.objid /\ c.tpri = g.tpri /\ c.wait_queue = g.wait_queue
  BY <1>3 DEF Mpf!MPFCB
<1> HIDE DEF c
<1>9. /\ y \in Mpf!Kernel /\ y.gcb[o] = c /\ y.tcb = s.tcb /\ SameBlocks(s, y)
      /\ \A p \in Objects \ {o} : y.gcb[p] = s.gcb[p]
  BY <1>1, <1>7, PoolObject
<1>10. Links(m) /\ InUse(e)
  <2>1. g.freelist \in Blk \cup {NULL}
    BY <1>3 DEF Mpf!MPFCB, Mpf!Blocks, Blk
  <2> QED BY <1>3, <2>1 DEF Links, InUse
<1> HIDE DEF y, m, e
<1>11. /\ k' \in Mpf!Kernel /\ k'.tcb = y.tcb /\ k'.gcb = y.gcb /\ k'.next[o] = m /\ k'.held[o] = e
       /\ \A p \in Objects \ {o} : k'.next[p] = y.next[p] /\ k'.held[p] = y.held[p]
  BY <1>6, <1>9, <1>10, PoolBlocks
<1>12. FreeList(c, m, e, << b >> \o L)
  <2> HIDE DEF g, n, h
  <2> QED BY <1>2, <1>3, <1>4, <1>8, FreeListReturns DEF m, e
<1>13. Whole(k'.gcb[o], k'.next[o], k'.held[o])
  BY <1>9, <1>11, <1>12 DEF Whole
<1>14. Line(s, o) = {}
  <2>1. g.wait_queue = << >>
    BY <1>1
  <2> QED BY <1>1, <2>1 DEF Exact, QueueIn, Elems
<1>15. \A p \in Objects \ {o} : k'.gcb[p] = s.gcb[p] /\ k'.next[p] = s.next[p] /\ k'.held[p] = s.held[p]
  BY <1>9, <1>11 DEF SameBlocks
<1>16. /\ k'.tcb = s.tcb /\ k'.gcb[o].objid = s.gcb[o].objid /\ k'.gcb[o].tpri = s.gcb[o].tpri
       /\ k'.gcb[o].wait_queue = s.gcb[o].wait_queue
  BY <1>8, <1>9, <1>11
<1>17. k' \in Mpf!Kernel /\ s.gcb[o].objid
  BY <1>2, <1>11
<1> HIDE DEF g, n, h
<1> QED BY <1>1, <1>13, <1>14, <1>15, <1>16, <1>17, PoolChanges

\* The initial state.
LEMMA PoolInit ==
  ASSUME Mpf!Init
  PROVE  PoolInv(k)
<1> DEFINE c == Mpf!NoPool
           n == [b \in Mpf!Blocks |-> DATA]
           I == [state : {"READY"}, priority : Mpf!Pri, wid : Objects, wercd : {"E_OK"}]
<1>1. /\ k = [tcb |-> k.tcb, gcb |-> k.gcb, next |-> k.next, held |-> k.held]
      /\ k.tcb \in [Tasks -> I]
      /\ k.gcb = [o \in Objects |-> c] /\ k.next = [o \in Objects |-> n] /\ k.held = [o \in Objects |-> {}]
  BY DEF Mpf!Init
<1>2. c \in Mpf!MPFCB
  <2>1. << >> \in Seq(Tasks) /\ 0 \in 0 .. MaxBlocks /\ NULL \in Mpf!Blocks \cup {NULL}
    BY ObjectsAssumption
  <2> QED BY <2>1, Zenon DEF Mpf!MPFCB, Mpf!NoPool
<1>3. c.wait_queue = << >> /\ ~c.objid /\ c.frbcnt = 0 /\ c.mpfcnt = 0
  BY DEF Mpf!NoPool
<1>4. n \in [Mpf!Blocks -> Mpf!Blocks \cup {NULL, DATA}]
  OBVIOUS
<1> HIDE DEF c, n
<1>5. ASSUME NEW t \in Tasks
      PROVE  k.tcb[t] \in Mpf!TCB /\ k.tcb[t].state = "READY" /\ k.tcb[t].priority \in Int
  <2>1. k.tcb[t] \in I
    BY <1>1
  <2>2. k.tcb[t] \in Mpf!TCB /\ k.tcb[t].state = "READY"
    BY <2>1 DEF Mpf!TCB, Mpf!Error
  <2> QED BY <2>2 DEF Mpf!TCB, Mpf!Pri
<1> HIDE DEF I
<1>6. k \in Mpf!Kernel
  <2>1. k.tcb \in [Tasks -> Mpf!TCB]
    BY <1>1, <1>5
  <2>2. k.gcb \in [Objects -> Mpf!MPFCB]
    BY <1>1, <1>2
  <2>3. k.next \in [Objects -> [Mpf!Blocks -> Mpf!Blocks \cup {NULL, DATA}]]
    BY <1>1, <1>4
  <2>4. k.held \in [Objects -> SUBSET Mpf!Blocks]
    BY <1>1
  <2>5. k = [tcb |-> k.tcb, gcb |-> k.gcb, next |-> k.next, held |-> k.held]
    BY <1>1
  <2> QED BY <2>1, <2>2, <2>3, <2>4, <2>5, Zenon DEF Mpf!Kernel
<1>7. \A o \in Objects : Line(k, o) = {} /\ k.gcb[o] = c /\ k.held[o] = {}
  BY <1>1, <1>5 DEF Line
<1>8. Exact(k)
  <2>1. ASSUME NEW o \in Objects
        PROVE  QueueIn(k, o)
    <3>1. << >> \in Seq(Tasks) /\ Injective(<< >>) /\ Elems(<< >>) = {} /\ Sorted(<< >>, Prios(k))
      BY DEF Injective, Elems, Sorted
    <3>2. k.gcb[o].wait_queue = << >>
      BY <1>3, <1>7
    <3> QED BY <1>7, <3>1, <3>2, Zenon DEF QueueIn
  <2> QED BY <1>5, <2>1 DEF Exact
<1>9. \A o \in Objects : PoolSound(k, o)
  BY <1>3, <1>7 DEF PoolSound
<1> QED BY <1>6, <1>8, <1>9 DEF PoolInv

\* Every step keeps the invariant.
LEMMA PoolStep ==
  ASSUME PoolInv(k), Mpf!Next
  PROVE  PoolInv(k')
<1>1. CASE \E o \in Objects : \E tpri \in BOOLEAN, n \in 1 .. MaxBlocks : Mpf!tk_cre_mpf(o, tpri, n)
  BY <1>1, CreMpf
<1>2. CASE \E o \in Objects : Mpf!tk_del_mpf(o)
  BY <1>2, DelMpf
<1>3. CASE \E o \in Objects : \E t \in Tasks, pol \in BOOLEAN : Mpf!tk_get_mpf(t, o, pol)
  BY <1>3, GetMpf
<1>4. CASE \E o \in Objects : \E b \in Mpf!Blocks : Mpf!tk_rel_mpf(o, b)
  BY <1>4, RelMpfServes, RelMpfReturns
<1>5. CASE \E t \in Tasks : \E e \in {"E_TMOUT", "E_RLWAI"} : Mpf!knl_wait_release_ng(t, e)
  BY <1>5, PoolReleaseNg
<1>6. CASE \E t \in Tasks : Mpf!tk_ter_tsk(t)
  BY <1>6, PoolTerminate
<1>7. CASE \E t \in Tasks : Mpf!tk_sta_tsk(t)
  BY <1>7, PoolStartTask
<1>8. CASE \E t \in Tasks : \E pri \in Mpf!Pri : Mpf!tk_chg_pri(t, pri)
  BY <1>8, PoolChgPri
<1> QED BY <1>1, <1>2, <1>3, <1>4, <1>5, <1>6, <1>7, <1>8, Zenon DEF Mpf!Next

\* The first j blocks of a list.
First(L, j) == {L[i] : i \in {i \in 1 .. Len(L) : i <= j}}

\* Following the links of a free list once more reaches its next block.
LEMMA FirstMore ==
  ASSUME NEW g, NEW n, NEW h, NEW L, FreeList(g, n, h, L), NEW j \in Nat \ {0}
  PROVE  First(L, j + 1) = First(L, j) \cup ({n[c] : c \in First(L, j)} \cap Blk)
<1>1. L \in Seq(Blk) /\ Len(L) \in Nat
  BY DEF FreeList
<1> DEFINE l == Len(L)
<1>2. l \in Nat /\ \A i \in 1 .. l : L[i] \in Blk /\ n[L[i]] = IF i = l THEN NULL ELSE L[i + 1]
  BY <1>1 DEF FreeList
<1>3. NULL \notin Blk
  BY ObjectsAssumption DEF Blk
<1>4. ASSUME NEW x \in First(L, j + 1)
      PROVE  x \in First(L, j) \cup ({n[c] : c \in First(L, j)} \cap Blk)
  <2>1. PICK i \in 1 .. l : i <= j + 1 /\ x = L[i]
    BY DEF First
  <2>2. CASE i <= j
    BY <2>1, <2>2 DEF First
  <2>3. CASE ~(i <= j)
    <3> HIDE DEF l
    <3>1. i = j + 1 /\ j \in 1 .. l /\ j # l
      BY <1>2, <2>1, <2>3
    <3>2. n[L[j]] = x /\ x \in Blk
      BY <1>2, <2>1, <3>1
    <3>3. L[j] \in First(L, j)
      BY <3>1 DEF First, l
    <3> QED BY <3>2, <3>3
  <2> QED BY <2>2, <2>3
<1>5. ASSUME NEW x \in First(L, j)
      PROVE  x \in First(L, j + 1)
  <2>1. PICK i \in 1 .. l : i <= j /\ x = L[i]
    BY DEF First
  <2>2. i <= j + 1
    BY <2>1
  <2> QED BY <2>1, <2>2 DEF First
<1>6. ASSUME NEW c \in First(L, j), n[c] \in Blk
      PROVE  n[c] \in First(L, j + 1)
  <2>1. PICK i \in 1 .. l : i <= j /\ c = L[i]
    BY DEF First
  <2>2. n[L[i]] = IF i = l THEN NULL ELSE L[i + 1]
    BY <1>2
  <2> HIDE DEF l
  <2>3. i # l /\ n[c] = L[i + 1]
    BY <1>3, <1>6, <2>1, <2>2
  <2>4. i + 1 \in 1 .. l /\ i + 1 <= j + 1
    BY <1>2, <2>1, <2>3
  <2> QED BY <2>3, <2>4 DEF First, l
<1> HIDE DEF l
<1> QED BY <1>4, <1>5, <1>6

\* The blocks that are reached from the free list are its elements.
LEMMA ReachFreeList ==
  ASSUME NEW o, NEW g, NEW n, n = k.next[o], NEW h, NEW L, FreeList(g, n, h, L)
  PROVE  Mpf!Reach(o, g.freelist) = Elems(L)
<1> DEFINE z == {g.freelist} \cap Mpf!Blocks
           F(X) == X \cup ({n[c] : c \in X} \cap Mpf!Blocks)
           Run(r) == r = [i \in 0 .. MaxBlocks |-> IF i = 0 THEN z ELSE F(r[i - 1])]
           W == [i \in 0 .. MaxBlocks |-> First(L, i + 1)]
           reach == CHOOSE r : Run(r)
           B == {i \in 0 .. MaxBlocks : reach[i] # First(L, i + 1)}
<1>1. Mpf!Reach(o, g.freelist) = reach[MaxBlocks]
  BY DEF Mpf!Reach
<1>2. MaxBlocks \in Nat /\ Mpf!Blocks = Blk /\ NULL \notin Blk /\ L \in Seq(Blk) /\ Len(L) \in Nat /\ Injective(L)
  BY ObjectsAssumption DEF Mpf!Blocks, Blk, FreeList
<1>3. z = First(L, 1)
  <2>1. CASE L = << >>
    <3>1. g.freelist = NULL /\ Len(L) = 0
      BY <2>1 DEF FreeList
    <3>2. First(L, 1) = {}
      BY <3>1 DEF First
    <3> QED BY <1>2, <3>1, <3>2
  <2>2. CASE L # << >>
    <3>1. g.freelist = L[1]
      BY <2>2 DEF FreeList
    <3>2. {i \in 1 .. Len(L) : i <= 1} = {1} /\ L[1] \in Blk
      <4> DEFINE l == Len(L)
      <4>1. l \in Nat /\ l # 0
        BY <1>2, <2>2
      <4>2. L[1] \in Blk
        BY <1>2, <4>1
      <4> HIDE DEF l
      <4>3. {i \in 1 .. l : i <= 1} = {1}
        BY <4>1
      <4> QED BY <4>2, <4>3 DEF l
    <3>3. First(L, 1) = {L[1]}
      BY <3>2 DEF First
    <3> QED BY <1>2, <3>1, <3>2, <3>3
  <2> QED BY <2>1, <2>2
<1>4. \A i \in 1 .. MaxBlocks : First(L, i + 1) = F(First(L, i))
  <2> SUFFICES ASSUME NEW i \in 1 .. MaxBlocks
               PROVE  First(L, i + 1) = F(First(L, i))
    OBVIOUS
  <2>1. i \in Nat \ {0}
    BY <1>2
  <2> QED BY <1>2, <2>1, FirstMore
<1> HIDE DEF z, F
<1>5. Run(W)
  <2>1. ASSUME NEW i \in 0 .. MaxBlocks
        PROVE  W[i] = IF i = 0 THEN z ELSE F(W[i - 1])
    <3>1. CASE i = 0
      BY <1>3, <3>1
    <3>2. CASE i # 0
      <4>1. i \in 1 .. MaxBlocks /\ i - 1 \in 0 .. MaxBlocks /\ (i - 1) + 1 = i
        BY <1>2, <3>2
      <4>2. W[i] = First(L, i + 1) /\ W[i - 1] = First(L, i)
        BY <4>1
      <4> HIDE DEF W
      <4> QED BY <1>4, <3>2, <4>1, <4>2
    <3> QED BY <3>1, <3>2
  <2>2. W = [i \in 0 .. MaxBlocks |-> W[i]]
    OBVIOUS
  <2> HIDE DEF W
  <2> QED BY <2>1, <2>2
<1>6. Run(reach)
  <2> HIDE DEF Run, W
  <2> QED BY <1>5
<1>7. \A i \in 0 .. MaxBlocks : reach[i] = IF i = 0 THEN z ELSE F(reach[i - 1])
  BY <1>6
<1> HIDE DEF reach
<1>8. B = {}
  <2> SUFFICES ASSUME B # {}
               PROVE  FALSE
    OBVIOUS
  <2>5. B \in SUBSET (0 .. MaxBlocks) /\ MaxBlocks \in Nat
    BY <1>2
  <2>1. PICK m \in B : \A x \in B : m <= x
    <3> HIDE DEF B
    <3> QED BY <2>5, MinimumExists
  <2>2. m # 0
    BY <1>3, <1>7, <2>1
  <2>3. m \in 1 .. MaxBlocks /\ m - 1 \in 0 .. MaxBlocks /\ (m - 1) + 1 = m /\ m - 1 \notin B
    BY <1>2, <2>1, <2>2
  <2>4. reach[m - 1] = First(L, m)
    BY <2>3
  <2> QED BY <1>4, <1>7, <2>1, <2>2, <2>3, <2>4
<1>9. reach[MaxBlocks] = First(L, MaxBlocks + 1)
  BY <1>2, <1>8
<1>10. Len(L) <= MaxBlocks
  <2>1. Elems(L) \subseteq 0 .. MaxBlocks - 1
    BY <1>2 DEF Elems, Blk
  <2> QED BY <1>2, <2>1, ShortBelow
<1>11. {i \in 1 .. Len(L) : i <= MaxBlocks + 1} = DOMAIN L
  <2>1. DOMAIN L = 1 .. Len(L)
    BY <1>2
  <2> DEFINE l == Len(L)
  <2>2. l \in Nat /\ l <= MaxBlocks
    BY <1>2, <1>10
  <2> HIDE DEF l
  <2>3. {i \in 1 .. l : i <= MaxBlocks + 1} = 1 .. l
    BY <1>2, <2>2
  <2> QED BY <2>1, <2>3 DEF l
<1> QED BY <1>1, <1>9, <1>11 DEF First, Elems

\* The pools count their blocks as the lemmas do.
LEMMA PoolSize == \A S : Mpf!Cardinality(S) = Size(S)
BY Zenon DEF Size, Mpf!Cardinality, Sem!Cardinality, Mpf!IsFiniteSet, Sem!IsFiniteSet

\* What the runs check of a fixed-size pool follows.
LEMMA PoolMeans ==
  ASSUME PoolInv(k)
  PROVE  /\ Mpf!TypeOK /\ Mpf!BlocksExact /\ Mpf!NoServableWaiter
         /\ \A o \in Objects : Mpf!QueueExact(k, o, k.gcb[o].tpri)
<1>1. \A o \in Objects : k.gcb[o] \in Mpf!MPFCB /\ k.held[o] \in SUBSET Blk
  BY PoolTypes DEF PoolInv
<1>2. Mpf!TypeOK
  <2> SUFFICES ASSUME NEW o \in Objects
               PROVE  k.gcb[o].frbcnt <= k.gcb[o].mpfcnt
    BY DEF Mpf!TypeOK, PoolInv
  <2>1. CASE k.gcb[o].objid
    <3>1. PICK L : FreeList(k.gcb[o], k.next[o], k.held[o], L)
      BY <2>1 DEF PoolInv, PoolSound, Whole
    <3> QED BY <1>1, <3>1, FreeListCounts
  <2>2. CASE ~k.gcb[o].objid
    BY <2>2 DEF PoolInv, PoolSound
  <2> QED BY <2>1, <2>2
<1>3. Mpf!NoServableWaiter
  <2> SUFFICES ASSUME NEW o \in Objects, k.gcb[o].objid, Mpf!knl_wait_tskid(k.gcb[o].wait_queue) # {}
               PROVE  k.gcb[o].frbcnt = 0
    BY DEF Mpf!NoServableWaiter, Mpf!td_lst_mpf, Mpf!td_ref_mpf, Mpf!tk_ref_mpf, Mpf!td_mpf_que
  <2>1. k.gcb[o].wait_queue \in Seq(Tasks) /\ Elems(k.gcb[o].wait_queue) = Line(k, o)
    BY DEF PoolInv, Exact, QueueIn
  <2>2. Elems(k.gcb[o].wait_queue) # {}
    BY <2>1 DEF Mpf!knl_wait_tskid, Elems
  <2> QED BY <2>1, <2>2 DEF PoolInv, PoolSound
<1>4. \A o \in Objects : Mpf!QueueExact(k, o, k.gcb[o].tpri)
  BY PoolQueues, Zenon DEF PoolInv, Exact, QueueIn, Mpf!QueueExact
<1>5. Mpf!BlocksExact
  <2> SUFFICES ASSUME NEW o \in Objects, k.gcb[o].objid
               PROVE  LET g     == k.gcb[o]
                          free  == Mpf!Reach(o, g.freelist)
                          fresh == {b \in Mpf!Blocks : g.unused <= b /\ b < g.mpfcnt}
                      IN  /\ free \cup fresh \cup k.held[o] = {b \in Mpf!Blocks : b < g.mpfcnt}
                          /\ free \cap fresh = {} /\ (free \cup fresh) \cap k.held[o] = {}
                          /\ g.frbcnt = Size(free) + Size(fresh)
    BY PoolSize DEF Mpf!BlocksExact, Mpf!td_lst_mpf, Mpf!tk_ref_mpf
  <2> DEFINE g == k.gcb[o]
             h == k.held[o]
             u == g.unused
             m == g.mpfcnt
             fresh == {b \in Mpf!Blocks : u <= b /\ b < m}
  <2>1. PICK L : FreeList(g, k.next[o], h, L)
    BY DEF PoolInv, PoolSound, Whole
  <2>2. Mpf!Reach(o, g.freelist) = Elems(L)
    BY <2>1, ReachFreeList
  <2>3. u \in Nat /\ m \in Nat /\ m <= MaxBlocks /\ u <= m /\ MaxBlocks \in Nat
    <3>1. m \in 0 .. MaxBlocks /\ u \in 0 .. MaxBlocks /\ MaxBlocks \in Nat
      BY <1>1, PoolNumbers
    <3>2. u <= m
      BY <2>1 DEF FreeList
    <3> QED BY <3>1, <3>2
  <2>4. /\ Elems(L) \cup h = 0 .. u - 1 /\ Elems(L) \cap h = {} /\ g.frbcnt = Len(L) + (m - u)
        /\ L \in Seq(Blk) /\ Injective(L) /\ Len(L) \in Nat
    BY <2>1 DEF FreeList
  <2> HIDE DEF u, m, h
  <2>5. fresh = u .. m - 1
    BY <2>3 DEF Mpf!Blocks
  <2>6. Size(fresh) = m - u
    BY <2>3, <2>5, SizeInterval
  <2>7. Size(Elems(L)) = Len(L)
    BY <2>4, SizeElems
  <2>8. {b \in Mpf!Blocks : b < m} = 0 .. m - 1
    BY <2>3 DEF Mpf!Blocks
  <2>9. (0 .. u - 1) \cup (u .. m - 1) = 0 .. m - 1 /\ (0 .. u - 1) \cap (u .. m - 1) = {}
    BY <2>3
  <2> HIDE DEF fresh
  <2> DEFINE E == Elems(L)
             I == 0 .. u - 1
             J == u .. m - 1
  <2>10. E \cup h = I /\ E \cap h = {} /\ fresh = J /\ I \cup J = 0 .. m - 1 /\ I \cap J = {}
    BY <2>4, <2>5, <2>9
  <2>11. g.frbcnt = Size(E) + Size(fresh)
    BY <2>4, <2>6, <2>7
  <2> HIDE DEF E, I, J
  <2>12. E \cup fresh \cup h = 0 .. m - 1 /\ E \cap fresh = {} /\ (E \cup fresh) \cap h = {}
    BY <2>10
  <2> QED BY <2>2, <2>8, <2>11, <2>12 DEF E, h, fresh, u, m
<1> QED BY <1>2, <1>3, <1>4, <1>5

-----------------------------------------------------------------------------
(* Theorems                                                                *)

\* The semaphores are in order in every state.
LEMMA SemInvariant == Spec => [](kind = "semaphore" => SemInv(k))
<1>1. Init => (kind = "semaphore" => SemInv(k))
  BY SemInit DEF Init
<1>2. (kind = "semaphore" => SemInv(k)) /\ [Next]_vars => (kind = "semaphore" => SemInv(k))'
  BY SemStep DEF Next, vars
<1> QED BY <1>1, <1>2, PTL DEF Spec

\* No step loses a resource or makes one up: what a step adds to the count of a
\* semaphore and hands to waiters is what tk_sig_sem returned or tk_wai_sem took,
\* however many waiters one call serves; and with TA_FIRST nobody is served
\* before a task ahead of it, whether a signal, a timeout, a termination or a
\* change of priority serves it.
THEOREM SemConserves == Spec => SemExact
<1>1. (kind = "semaphore" => SemInv(k)) /\ [Next]_vars
         => [kind = "semaphore" => Sem!ConservedStep /\ Sem!NoOvertakingStep]_vars
  BY SemStep DEF Next, vars
<1> QED BY <1>1, SemInvariant, PTL DEF Spec, SemExact

\* The count of a semaphore stays between zero and its limit, its queue holds
\* exactly its waiters, and no task waits that tk_sig_sem, sem_rel_wai or
\* sem_chg_pri should have served: the first with TA_FIRST, anyone with TA_CNT.
THEOREM SemServed ==
  Spec => [](kind = "semaphore" => /\ Sem!TypeOK /\ Sem!NoServableWaiter
                                   /\ \A o \in Objects : Sem!QueueExact(k, o, k.gcb[o].tpri))
<1>1. (kind = "semaphore" => SemInv(k))
        => (kind = "semaphore" => /\ Sem!TypeOK /\ Sem!NoServableWaiter
                                  /\ \A o \in Objects : Sem!QueueExact(k, o, k.gcb[o].tpri))
  BY SemMeans
<1> QED BY <1>1, SemInvariant, PTL

\* The event flags are in order in every state.
LEMMA FlgInvariant == Spec => [](kind = "event flag" => FlgInv(k))
<1>1. Init => (kind = "event flag" => FlgInv(k))
  BY FlgInit DEF Init
<1>2. (kind = "event flag" => FlgInv(k)) /\ [Next]_vars => (kind = "event flag" => FlgInv(k))'
  BY FlgStep DEF Next, vars
<1> QED BY <1>1, <1>2, PTL DEF Spec

\* An event is consumed once: however many waiters one tk_set_flg releases, each
\* is shown a pattern that satisfies it and that has lost the bits which those
\* ahead of it cleared with TWF_CLR or TWF_BITCLR, and the flag has lost them all.
THEOREM FlagsConsumedOnce == Spec => [][kind = "event flag" => Flg!ConsumedOnceStep]_vars
<1>1. (kind = "event flag" => FlgInv(k)) /\ [Next]_vars
         => [kind = "event flag" => Flg!ConsumedOnceStep]_vars
  BY FlgStep DEF Next, vars
<1> QED BY <1>1, FlgInvariant, PTL DEF Spec

\* Nobody waits for a pattern that is there: tk_set_flg finds every waiter it
\* satisfies in one pass, although it stops early when nothing is left of the
\* pattern; without TA_WMUL at most one task waits, and the queue of a flag holds
\* exactly its waiters, whatever ends a wait.
THEOREM FlagsServed ==
  Spec => [](kind = "event flag" => /\ Flg!TypeOK /\ Flg!NoSatisfiedWaiter
                                    /\ \A o \in Objects : Flg!QueueExact(k, o, k.gcb[o].tpri))
<1>1. (kind = "event flag" => FlgInv(k))
        => (kind = "event flag" => /\ Flg!TypeOK /\ Flg!NoSatisfiedWaiter
                                   /\ \A o \in Objects : Flg!QueueExact(k, o, k.gcb[o].tpri))
  BY FlgMeans
<1> QED BY <1>1, FlgInvariant, PTL

\* The ports are in order in every state of the kernel's objects.
LEMMA PortsInvariant == Spec => [](kind = "port" => PortInv(k))
<1>1. Init => (kind = "port" => PortInv(k))
  BY PortInit DEF Init
<1>2. (kind = "port" => PortInv(k)) /\ [Next]_vars => (kind = "port" => PortInv(k))'
  BY PortStep DEF Next, vars
<1> QED BY <1>1, <1>2, PTL DEF Spec

\* A rendezvous number reaches the caller in the rendezvous it was given for,
\* however late or often it is used, and no reply is larger than the caller's
\* buffer, through however many ports tk_fwd_por passed the call on.
THEOREM RdvCorrect == Spec => []RdvPaired
<1>1. (kind = "port" => PortInv(k)) => RdvPaired
  BY PortMeans DEF RdvPaired
<1> QED BY <1>1, PortsInvariant, PTL

\* The call and accept queues of the ports hold exactly the tasks that wait
\* there, and no two tasks wait side by side that tk_cal_por or tk_acp_por
\* should have brought together, whatever ended other waits.
THEOREM PortsCorrect == Spec => [](kind = "port" => Por!TypeOK /\ Por!QueuesExact /\ Por!NoMatchWaits)
<1>1. (kind = "port" => PortInv(k)) => (kind = "port" => Por!TypeOK /\ Por!QueuesExact /\ Por!NoMatchWaits)
  BY PortMeans
<1> QED BY <1>1, PortsInvariant, PTL

\* The fixed-size pools are in order in every state.
LEMMA PoolInvariant == Spec => [](kind = "fixed pool" => PoolInv(k))
<1>1. Init => (kind = "fixed pool" => PoolInv(k))
  BY PoolInit DEF Init
<1>2. (kind = "fixed pool" => PoolInv(k)) /\ [Next]_vars => (kind = "fixed pool" => PoolInv(k))'
  BY PoolStep DEF Next, vars
<1> QED BY <1>1, <1>2, PTL DEF Spec

\* No block of a fixed-size pool is lost or handed out twice, although the free
\* list runs through memory that the application writes to: what the links reach
\* from freelist, the blocks never used and the blocks in use are apart and make
\* up the pool, and frbcnt counts the first two.  Nobody waits while a block is
\* free, and the queue of a pool holds exactly its waiters, whatever ends a wait.
THEOREM PoolsCorrect ==
  Spec => [](kind = "fixed pool" => /\ Mpf!TypeOK /\ Mpf!BlocksExact /\ Mpf!NoServableWaiter
                                    /\ \A o \in Objects : Mpf!QueueExact(k, o, k.gcb[o].tpri))
<1>1. (kind = "fixed pool" => PoolInv(k))
        => (kind = "fixed pool" => /\ Mpf!TypeOK /\ Mpf!BlocksExact /\ Mpf!NoServableWaiter
                                   /\ \A o \in Objects : Mpf!QueueExact(k, o, k.gcb[o].tpri))
  BY PoolMeans
<1> QED BY <1>1, PoolInvariant, PTL
=============================================================================

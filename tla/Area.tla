--------------------------------- MODULE Area --------------------------------
(***************************************************************************)
(* The areas of a memory pool, as memory.c keeps them for the kernel's own *)
(* memory and mempool.c for variable-size pools.                           *)
(*                                                                         *)
(* Between two areas lies the header of the upper one, as large as a       *)
(* QUEUE; the header of the first area and the one that ends the pool are  *)
(* outside [0, memsz).  Addresses are those of the areas' contents.  The   *)
(* free areas are queued by size; areas of one size hang off the first of  *)
(* them, which is the only one that stores the size.                       *)
(***************************************************************************)
EXTENDS Queue, FiniteSets

LOCAL INSTANCE FiniteSetsExt
LOCAL INSTANCE SequencesExt

CONSTANT QUEUESZ        \* sizeof(QUEUE), also the unit of rounding

ASSUME AreaAssumption == QUEUESZ \in Nat \ {0}

MIN_FRAGMENT == 2 * QUEUESZ

ROUND(sz) == ((sz + QUEUESZ - 1) \div QUEUESZ) * QUEUESZ

roundSize(sz) == ROUND(Max({sz, MIN_FRAGMENT}))

Pool(n) == [memsz : {n}, areaque : SUBSET (0 .. n), use : SUBSET (0 .. n),
            freeque : Seq([size : 0 .. n, same : Seq(0 .. n)])]

-----------------------------------------------------------------------------
(* Operators on a pool p                                                   *)

\* Up to the header of the next area, or the end of the pool.
AreaSize(p, a) ==
  LET above == {b \in p.areaque : b > a}
  IN  IF above = {} THEN p.memsz - a ELSE Min(above) - QUEUESZ - a

\* The position in freeque of the first queue of areas of at least blksz, or
\* one past the end.  Large areas are searched for from the other side.
knl_searchFreeArea(p, blksz) ==
  LET n == Len(p.freeque)
      size(i) == p.freeque[i].size
      notLarger == {i \in 1 .. n : size(i) <= blksz}
      fitting   == {i \in 1 .. n : size(i) >= blksz}
  IN  IF blksz > p.memsz \div 4
      THEN IF notLarger = {} THEN 1
           ELSE IF size(Max(notLarger)) < blksz THEN Max(notLarger) + 1
           ELSE Max(notLarger)
      ELSE IF fitting = {} THEN n + 1 ELSE Min(fitting)

\* An area of a size that is there already goes behind the first of its queue.
\* Also knl_appendFreeAreaBound, for the areas at the ends of the pool.
knl_appendFreeArea(p, a) ==
  LET size == AreaSize(p, a)
      i    == knl_searchFreeArea(p, size)
      fq   == p.freeque
  IN  [p EXCEPT
         !.use = @ \ {a},
         !.freeque =
           IF i <= Len(fq) /\ fq[i].size = size
           THEN [fq EXCEPT ![i].same = InsertBefore(@, 2, a)]
           ELSE InsertBefore(fq, i, [size |-> size, same |-> <<a>>])]

\* The second of a queue takes the place of the first, and its size.
knl_removeFreeQue(p, a) ==
  [p EXCEPT !.freeque =
     SelectSeq([i \in DOMAIN @ |-> [@[i] EXCEPT !.same = QueRemove(@, a)]],
               LAMBDA f : f.same # << >>)]

\* The rest is large enough for a header and the links of a free area.
Splits(p, q, size) == AreaSize(p, q) - size >= MIN_FRAGMENT + QUEUESZ

\* The first area of queue i is taken; what size leaves of it becomes an area
\* of its own.  knl_get_blk and knl_Imalloc.
TakeArea(p, i, size) ==
  LET q    == Head(p.freeque[i].same)
      p1   == knl_removeFreeQue(p, q)
      rest == q + size + QUEUESZ
      p2   == IF Splits(p1, q, size)
              THEN knl_appendFreeArea([p1 EXCEPT !.areaque = @ \cup {rest}], rest)
              ELSE p1
  IN  [p2 EXCEPT !.use = @ \cup {q}]

\* Area a and its free neighbour b above it become one.
Absorb(p, b) == [knl_removeFreeQue(p, b) EXCEPT !.areaque = @ \ {b}]

\* The area is merged with its free neighbours.  knl_rel_blk and knl_Ifree.
FreeArea(p, a) ==
  LET above == {b \in p.areaque : b > a}
      below == {b \in p.areaque : b < a}
      p1 == IF above # {} /\ Min(above) \notin p.use THEN Absorb(p, Min(above)) ELSE p
  IN  IF below # {} /\ Max(below) \notin p.use
      THEN LET b  == Max(below)
               p2 == knl_removeFreeQue(p1, b)
           IN  knl_appendFreeArea([p2 EXCEPT !.areaque = @ \ {a}, !.use = @ \ {a}], b)
      ELSE knl_appendFreeArea(p1, a)

\* One free area.
InitPool(n) ==
  knl_appendFreeArea([memsz |-> n, areaque |-> {0}, use |-> {}, freeque |-> << >>], 0)

-----------------------------------------------------------------------------
\* The queues and the areas of pool p agree: every area is in use or queued
\* once, under its size, and the queues are in the order of their sizes.  Free
\* areas have room for their links and no two of them are neighbours, so that
\* what is free together can be had together.  held are the areas the users
\* have, none shorter than what was asked for.
AreasConsistent(p, held) ==
  LET queued == FlattenSeq([i \in DOMAIN p.freeque |-> p.freeque[i].same])
  IN  /\ Injective(queued)
      /\ Elems(queued) = p.areaque \ p.use
      /\ \A i \in DOMAIN p.freeque :
           \A a \in Elems(p.freeque[i].same) : AreaSize(p, a) = p.freeque[i].size
      /\ \A i, j \in DOMAIN p.freeque : i < j => p.freeque[i].size < p.freeque[j].size
      /\ \A a \in p.areaque : AreaSize(p, a) >= MIN_FRAGMENT
      /\ \A a \in p.areaque \ p.use :
           \A b \in p.areaque \ p.use : b > a => \E c \in p.use : a < c /\ c < b
      /\ p.use = {h[1] : h \in held} /\ Cardinality(held) = Cardinality(p.use)
      /\ \A h \in held : AreaSize(p, h[1]) >= h[2]
=============================================================================

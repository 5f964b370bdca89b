-------------------------------- MODULE Memory --------------------------------
(***************************************************************************)
(* The kernel's own memory: knl_Imalloc and its companions in memory.c.    *)
(***************************************************************************)
EXTENDS Area

CONSTANTS
  memsz,        \* size of the kernel's memory
  Sizes         \* bound: the sizes that are asked for

VARIABLE k      \* mem is the kernel's memory, held the areas the callers have
                \* and the sizes they asked for

knl_Imalloc(size) ==
  LET i == knl_searchFreeArea(k.mem, roundSize(size))
  IN  /\ i <= Len(k.mem.freeque)
      /\ k' = [mem |-> TakeArea(k.mem, i, roundSize(size)),
               held |-> k.held \cup {<<Head(k.mem.freeque[i].same), size>>}]

knl_Ifree(h) == k' = [mem |-> FreeArea(k.mem, h[1]), held |-> k.held \ {h}]

\* The new area is taken before the old one is given back; the old one stays
\* when there is none.
knl_Irealloc(h, size) ==
  LET i  == knl_searchFreeArea(k.mem, roundSize(size))
      p1 == TakeArea(k.mem, i, roundSize(size))
  IN  /\ i <= Len(k.mem.freeque)
      /\ k' = [mem |-> FreeArea(p1, h[1]),
               held |-> (k.held \ {h}) \cup {<<Head(k.mem.freeque[i].same), size>>}]

knl_init_Imalloc == k = [mem |-> InitPool(memsz), held |-> {}]

Init == knl_init_Imalloc

Next ==
  \/ \E size \in Sizes : knl_Imalloc(size)
  \/ \E h \in k.held : \/ knl_Ifree(h)
                       \/ \E size \in Sizes : knl_Irealloc(h, size)

Spec == Init /\ [][Next]_k

-----------------------------------------------------------------------------
(* Properties                                                              *)

\* The memory has its type.
TypeOK == k.mem \in Pool(memsz) /\ k.held \subseteq (0 .. memsz) \X Sizes

\* The areas and queues of the kernel's memory agree with each other and with
\* what its users hold, also when knl_Irealloc has both areas for a while.
AreasExact == AreasConsistent(k.mem, k.held)
=============================================================================

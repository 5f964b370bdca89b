------------------------------- MODULE Queue -------------------------------
(***************************************************************************)
(* The doubly linked ring queues of include/sys/queue.h, seen as           *)
(* sequences: the element after the queue header is the first element of   *)
(* the sequence.  An element is on at most one queue and at most once, so  *)
(* unlinking it needs no more than the element itself.                     *)
(***************************************************************************)
EXTENDS Naturals, Sequences

Elems(q) == {q[i] : i \in DOMAIN q}

\* No element is linked twice.
Injective(q) == \A i, j \in DOMAIN q : q[i] = q[j] => i = j

\* QueInsert(entry, que) with que the header: link entry at the end.
QueInsert(q, e) == Append(q, e)

\* QueInsert(entry, q) with q an element: link e just before position i.
InsertBefore(q, i, e) ==
  [j \in 1 .. Len(q) + 1 |->
     IF j < i THEN q[j] ELSE IF j = i THEN e ELSE q[j - 1]]

\* QueRemove(entry): unlink e; no action when e is not linked.
QueRemove(q, e) ==
  IF e \notin Elems(q) THEN q
  ELSE LET i == CHOOSE j \in DOMAIN q : q[j] = e
       IN  [j \in 1 .. Len(q) - 1 |-> IF j < i THEN q[j] ELSE q[j + 1]]

\* The position knl_queue_insert_tpri stops at: the first element whose
\* priority number is larger than p, or the header.
TpriPosition(q, pri, p) ==
  LET later == {i \in DOMAIN q : pri[q[i]] > p}
  IN  IF later = {} THEN Len(q) + 1
      ELSE CHOOSE i \in later : \A j \in later : i <= j

\* knl_queue_insert_tpri: insert in priority order, after equal priorities.
knl_queue_insert_tpri(q, e, pri) ==
  InsertBefore(q, TpriPosition(q, pri, pri[e]), e)

\* The order of a TA_TPRI wait queue.
Sorted(q, pri) == \A i, j \in DOMAIN q : i <= j => pri[q[i]] <= pri[q[j]]
=============================================================================

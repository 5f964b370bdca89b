-------------------------------- MODULE Fifo --------------------------------
(***************************************************************************)
(* What a queue of the FreeRTOS shim promises: items leave in the order    *)
(* they came, none is lost, doubled or made up, whoever sends and          *)
(* receives.  Only a sender that asks for it overwrites the oldest item.   *)
(***************************************************************************)
EXTENDS Naturals, Sequences

CONSTANTS Items, Capacity

VARIABLES
  queue,      \* the items in the queue
  put,        \* the item that was sent last
  got         \* the item that was received or peeked last

Init == queue = << >> /\ put \in Items /\ got \in Items

Send(x) ==
  /\ Len(queue) < Capacity
  /\ queue' = Append(queue, x)
  /\ put' = x
  /\ UNCHANGED got

Overwrite(x) ==
  /\ Len(queue) = Capacity
  /\ queue' = Tail(Append(queue, x))
  /\ put' = x
  /\ UNCHANGED got

Receive ==
  /\ queue # << >>
  /\ queue' = Tail(queue)
  /\ got' = Head(queue)
  /\ UNCHANGED put

Peek ==
  /\ queue # << >>
  /\ got' = Head(queue)
  /\ UNCHANGED <<queue, put>>

Reset == queue' = << >> /\ UNCHANGED <<put, got>>

Next == (\E x \in Items : Send(x) \/ Overwrite(x)) \/ Receive \/ Peek \/ Reset

Spec == Init /\ [][Next]_<<queue, put, got>>
=============================================================================

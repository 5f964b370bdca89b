------------------------------ MODULE Devices ------------------------------
(***************************************************************************)
(* Device management, the locks it is built on, and the serial driver side *)
(* by side.  A driver call is one step of Device and many of Serial, and a *)
(* lock of Device is one of FastLock and FastMLock; kind says which of     *)
(* them is in view.                                                        *)
(***************************************************************************)
EXTENDS Naturals

CONSTANTS
  Kinds,                                       \* what may be in view
  Tasks, NULL,
  Opns, Reqs, OpenModes, Units, nsub, MAX_DISSUS, AllowAny,
  lock_id, Nos,
  Pair,                                        \* tasks of the serial driver
  SerModes, N, BUFFSIZE, FIFO, RXFIFO, MaxReq, MaxWup

\* What fits into a ring buffer of the serial driver leaves room in the
\* transmit FIFO: BUFFSIZE is 50, the FIFO holds 128 bytes.
ASSUME DevicesAssumption ==
  /\ NULL \notin Tasks \cup Pair \cup Opns \cup Reqs
  /\ \A m \in OpenModes : m \subseteq {"READ", "WRITE", "EXCL", "REXCL", "WEXCL"}
  /\ Units \subseteq 0 .. 255 /\ nsub \in Nat /\ MAX_DISSUS \in Nat /\ AllowAny \in BOOLEAN /\ 0 \in Nos
  /\ \A m \in SerModes : m \subseteq {"snd", "rcv"}
  /\ BUFFSIZE \in Nat \ {0, 1} /\ FIFO \in Nat /\ BUFFSIZE - 1 < FIFO
  /\ N \in Nat \ {0} /\ RXFIFO \in Nat \ {0} /\ MaxReq \in Nat /\ MaxWup \in Nat \ {0}

VARIABLES k, x, kind

vars == <<k, x, kind>>

Dev == INSTANCE Device WITH d <- x
Loc == INSTANCE FastLock WITH l <- x
Mul == INSTANCE FastMLock WITH l <- x
Ser == INSTANCE Serial WITH s <- x, Tasks <- Pair, OpenModes <- SerModes

Init ==
  /\ kind \in Kinds
  /\ \/ kind = "requests" /\ Dev!Init /\ k = NULL
     \/ kind = "lock" /\ Loc!CreateLock
     \/ kind = "multi-lock" /\ Mul!CreateMLock
     \/ kind = "serial" /\ Ser!Init /\ k = NULL

Next ==
  /\ UNCHANGED kind
  /\ \/ kind = "requests" /\ Dev!Next /\ UNCHANGED k
     \/ kind = "lock" /\ Loc!Next
     \/ kind = "multi-lock" /\ Mul!Next
     \/ kind = "serial" /\ Ser!Next /\ UNCHANGED k

Spec == Init /\ [][Next]_vars

-----------------------------------------------------------------------------
(* Properties                                                              *)

\* What a task uses inside a driver function stays its own until it returns,
\* whoever opens, closes, waits and registers meanwhile; nothing is left
\* queued at a closed descriptor; open modes never exclude each other; the
\* name of a unit leads back to the unit.
InUse == kind = "requests" => Dev!InUse

\* A closing task sleeps exactly as long as somebody is inside a driver
\* function on its descriptor, and the last one wakes it.
AbortAgrees == kind = "requests" => Dev!AbortAgrees

\* "Unregister completed request": what tk_wai_dev unregisters is completed.
CompletedUnregistered == kind = "requests" => Dev!CompletedUnregistered

\* A lock is with one task or on its way to one, although the fast path looks
\* at a counter or a bit only: nobody is let in beside the holder, nobody
\* sleeps beside a free lock.
LockPassed ==
  CASE kind = "lock" -> Loc!Passed
    [] kind = "multi-lock" -> Mul!Passed
    [] OTHER -> TRUE

\* No byte waits in the send buffer without the interrupt that fetches it, and
\* nobody sleeps beside data to read or a place to write.
NothingStuck == kind = "serial" => Ser!NothingStuck

\* Bytes are sent in the order they are written, through the ring buffer or
\* around it, and read in the order they come, or the loss is reported.
SerialInOrder == [][kind = "serial" => Ser!InOrderStep]_vars
=============================================================================

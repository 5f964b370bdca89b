-------------------------------- MODULE Shim --------------------------------
(***************************************************************************)
(* The FreeRTOS shim: its semaphores, queues, recursive mutexes, tasks and *)
(* notifications, event groups, timers and critical sections side by side, *)
(* and the network components that run on them.  They share nothing but    *)
(* the kernel, which each of them calls on objects of its own; kind says   *)
(* which of them is in view.                                               *)
(***************************************************************************)
EXTENDS Naturals, Sequences, FiniteSets

CONSTANTS
  Kinds, NULL,                                 \* what may be in view
  Tasks, Takers, Givers, sem_id, max_cnt, Alternate,
  QTasks, Senders, Receivers, Peekers, Items, cap, nonempty, nonfull,
  mtx_id, MaxDepth,
  STasks, Creators, SHIM_TASK_MAX, Sems, Stacks,
  flg_id, Bits,
  Muxes, MaxNest,
  Roles, MaxPend, MaxRare

ASSUME ShimAssumption ==
  /\ Takers \subseteq Tasks /\ Givers \subseteq Tasks
  /\ max_cnt \in Nat \ {0} /\ Alternate \in BOOLEAN
  /\ Senders \cup Receivers \cup Peekers \subseteq QTasks
  /\ Items # {} /\ cap \in Nat \ {0} /\ nonempty # nonfull
  /\ NULL \notin Tasks \cup STasks \cup Sems \cup Stacks
  /\ SHIM_TASK_MAX \in Nat \ {0} /\ MaxDepth \in Nat \ {0} /\ MaxNest \in Nat
  /\ Roles \subseteq {"ROOT", "NODE"} /\ MaxPend \in Nat \ {0} /\ MaxRare \in Nat

VARIABLES
  kind,
  k,                    \* the kernel
  x,                    \* the shim; for semaphores and queues the following
  cnt, pc, ring, got, put

vars == <<kind, k, x, cnt, pc, ring, got, put>>

Sem == INSTANCE ShimSem
Que == INSTANCE ShimQueue WITH Tasks <- QTasks
Mtx == INSTANCE ShimMutex WITH s <- x
Tsk == INSTANCE ShimTask WITH s <- x, Tasks <- STasks
Evt == INSTANCE ShimEvt WITH s <- x, Tasks <- STasks
Tmr == INSTANCE ShimTimer WITH s <- x
Prt == INSTANCE ShimPort WITH s <- x
Brg == INSTANCE Bridge WITH s <- x

Init ==
  /\ kind \in Kinds
  /\ got \in Items /\ put = got
  /\ \/ kind = "semaphore" /\ Sem!Init /\ x = NULL /\ ring = NULL
     \/ kind = "queue" /\ Que!Init /\ x = NULL /\ cnt = NULL
     \/ /\ cnt = NULL /\ pc = NULL /\ ring = NULL
        /\ \/ kind = "mutex" /\ Mtx!Init
           \/ kind = "task" /\ Tsk!Init
           \/ kind = "event group" /\ Evt!Init
           \/ kind = "timer" /\ Tmr!Init /\ k = NULL
           \/ kind = "port" /\ Prt!Init /\ k = NULL
           \/ kind = "bridge" /\ Brg!Init /\ k = NULL

\* Only what a semaphore, or the bridge, is made of changes.
OfSem(A) == kind = "semaphore" /\ A /\ UNCHANGED <<kind, x, ring, got, put>>
OfBridge(A) == kind = "bridge" /\ A /\ UNCHANGED <<kind, k, cnt, pc, ring, got, put>>

Next ==
  \/ OfSem(Sem!Next)
  \/ OfBridge(Brg!Next)
  \/ kind = "queue" /\ Que!Next /\ UNCHANGED <<kind, x, cnt>>
  \/ /\ UNCHANGED <<kind, cnt, pc, ring, got, put>>
     /\ \/ kind = "mutex" /\ Mtx!Next
        \/ kind = "task" /\ Tsk!Next
        \/ kind = "event group" /\ Evt!Next
        \/ kind = "timer" /\ Tmr!Next /\ UNCHANGED k
        \/ kind = "port" /\ Prt!Next /\ UNCHANGED k

\* A task inside a call of a semaphore or of the bridge goes on once the
\* scheduler lets it run, and the bridge's callout expires; nothing is assumed
\* of new calls, timeouts, interrupts and events of the mesh.
Spec ==
  /\ Init /\ [][Next]_vars
  /\ \A t \in Tasks : WF_vars(OfSem(Sem!Step(t)))
  /\ \A a \in {"app", "event", "host"} : WF_vars(OfBridge(Brg!Inside(a)))
  /\ WF_vars(OfBridge(Brg!Callout))

-----------------------------------------------------------------------------
(* Properties                                                              *)

\* Nobody sleeps beside what it waits for although the shim's state and the
\* kernel's notification of it change in separate steps: a count, an item, a
\* free place, a notification, bits of an event group.
NobodyForgotten ==
  CASE kind = "semaphore" -> Sem!NoTakerForgotten
    [] kind = "queue" -> Que!SpaceAnnounced /\ Que!ItemAnnounced
    [] kind = "task" -> Tsk!NothingMissed
    [] kind = "event group" -> Evt!BitsSeen
    [] OTHER -> TRUE

\* A task that sleeps while its semaphore can be taken wakes up.
Sleeps(t) == kind = "semaphore" /\ Sem!Asleep(t)
TakerWakes == \A t \in Takers : Sleeps(t) /\ cnt > 0 ~> ~Sleeps(t)

\* Under all interleavings of senders, receivers, peekers and handlers the
\* ring buffer is a first-in first-out queue of cap - 1 items: so the code
\* works, for senders that ask for the front of the queue too, although
\* queue.h offers xQueueSendToFront and cap is to be the "capacity in items".
F == INSTANCE Fifo WITH queue <- IF kind = "queue" THEN Que!Contents ELSE << >>,
                        Capacity <- cap - 1
IsFifo == F!Spec

\* Every kernel task, semaphore and stack belongs to one entry of the task
\* table, while tasks are created, started, end themselves and are deleted.
TasksExact == kind = "task" => Tsk!TableExact

\* What the shim believes is what the kernel does: who owns a recursive mutex;
\* that a timer called active is armed, unless it is a one-shot that has fired;
\* whether interrupts are masked and a task switch is due.
ShadowsExact ==
  CASE kind = "mutex" -> Mtx!OwnerExact
    [] kind = "timer" -> Tmr!ArmedExact
    [] kind = "port" -> Prt!MaskExact
    [] OTHER -> TRUE

\* The BLE bridge is paused only while the mesh reconnects, and takes the radio
\* up again afterwards, although its callout stops and starts the advertising
\* from another task all the time.
BridgeServes == kind = "bridge" => Brg!BridgeServes

\* What blebridge.c says of s_paused, "Guards BOTH scan and advertising", and
\* blebridge.h of its functions, "Pause/resume the passive scan": while the mesh
\* reconnects the bridge does not scan.
ScanPaused == kind = "bridge" => Brg!ScanPaused

\* "The status text catches up as soon as blebridge_resume_scan() lifts the
\* pause": what the application last published is advertised, or replaced, or
\* paused again, whatever calls of NimBLE failed before.
StatusCatchesUp ==
  \A v \in {"boot", "sent", "not sent"} : []<>(kind = "bridge" => Brg!Settled(v))
=============================================================================

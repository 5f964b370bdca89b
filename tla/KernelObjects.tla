---------------------------- MODULE KernelObjects ----------------------------
(***************************************************************************)
(* The objects of the kernel side by side: synchronisation, communication  *)
(* and memory.  The control blocks of different kinds live in different    *)
(* tables and only meet in a task, which waits for one object at a time;   *)
(* kind says which of them the tasks use.                                  *)
(***************************************************************************)
EXTENDS Area, SyncObjects

CONSTANTS
  Kinds,                                          \* the kinds of objects in use
  Messages, MaxMsgPri, msgsz, HEADERSZ, BufSizes, ISR,
  Pair, MtxPri, Attributes, AllowCycle,           \* mutexes
  DATA, MaxBlocks, PoolSizes, BlockSizes, memsz, Sizes

ASSUME ObjectsAssumption ==
  /\ MtxPri \in Nat \ {0} /\ NULL \notin Pair
  /\ Attributes \subseteq {"TFIFO", "TPRI", "INHERIT", "CEILING"}
  /\ AllowCycle \in BOOLEAN
  /\ PoolSizes \subseteq {roundSize(n) : n \in PoolSizes}
  /\ BlockSizes \subseteq Nat \ {0}
  /\ memsz \in Nat /\ Sizes \subseteq Nat \ {0}
  /\ MaxBlocks \in Nat /\ NULL \notin 0 .. MaxBlocks - 1

VARIABLE kind

vars == <<k, kind>>

Mbx == INSTANCE Mailbox
Mbf == INSTANCE MessageBuf
Mtx == INSTANCE Mutex WITH Objects <- Pair, NUM_TSKPRI <- MtxPri
Mpf == INSTANCE MemPfix
Mpl == INSTANCE MemPool
Mem == INSTANCE Memory

Init ==
  /\ kind \in Kinds
  /\ \/ kind = "semaphore" /\ Sem!Init
     \/ kind = "event flag" /\ Flg!Init
     \/ kind = "mailbox" /\ Mbx!Init
     \/ kind = "message buffer" /\ Mbf!Init
     \/ kind = "mutex" /\ Mtx!Init
     \/ kind = "fixed pool" /\ Mpf!Init
     \/ kind = "pool" /\ Mpl!Init
     \/ kind = "memory" /\ Mem!Init
     \/ kind = "port" /\ Por!Init

Next ==
  /\ UNCHANGED kind
  /\ \/ kind = "semaphore" /\ Sem!Next
     \/ kind = "event flag" /\ Flg!Next
     \/ kind = "mailbox" /\ Mbx!Next
     \/ kind = "message buffer" /\ Mbf!Next
     \/ kind = "mutex" /\ Mtx!Next
     \/ kind = "fixed pool" /\ Mpf!Next
     \/ kind = "pool" /\ Mpl!Next
     \/ kind = "memory" /\ Mem!Next
     \/ kind = "port" /\ Por!Next

Spec == Init /\ [][Next]_vars

-----------------------------------------------------------------------------
(* Properties                                                              *)

\* Control blocks have their types and counts, patterns, lists and buffers
\* stay within their limits.
TypeOK ==
  CASE kind = "semaphore" -> Sem!TypeOK
    [] kind = "event flag" -> Flg!TypeOK
    [] kind = "mailbox" -> Mbx!TypeOK
    [] kind = "message buffer" -> Mbf!TypeOK
    [] kind = "mutex" -> Mtx!TypeOK
    [] kind = "fixed pool" -> Mpf!TypeOK
    [] kind = "pool" -> Mpl!TypeOK
    [] kind = "memory" -> Mem!TypeOK
    [] kind = "port" -> Por!TypeOK

\* The wait queues of every kind of object agree with the task states whatever
\* ends a wait, and stay in order when priorities change; a caller that changes
\* from one queue to another is never in both.
QueuesExact ==
  CASE kind = "message buffer" -> Mbf!QueuesExact
    [] kind = "mutex" -> Mtx!QueuesExact
    [] kind = "port" -> Por!QueuesExact
    [] kind = "memory" -> TRUE
    [] OTHER -> \A o \in Objects : Gcb!QueueExact(k, o, k.gcb[o].tpri)

\* No wake-up is lost: nobody waits who could be served, for a semaphore, a
\* pattern, space in a message buffer or a pool, or a partner, also after the
\* task before it timed out, was killed or moved back in the queue.
WaitersServed ==
  CASE kind = "semaphore" -> Sem!NoServableWaiter
    [] kind = "event flag" -> Flg!NoSatisfiedWaiter
    [] kind = "message buffer" -> Mbf!NoFittingSender
    [] kind = "fixed pool" -> Mpf!NoServableWaiter
    [] kind = "pool" -> Mpl!NoServableWaiter
    [] kind = "port" -> Por!NoMatchWaits
    [] OTHER -> TRUE

\* What is linked through memory stays linked: the messages of a mailbox form
\* one list that ends, and every block or area of a pool and of the kernel's
\* memory is free or in use, none is lost, none is handed out twice, and free
\* neighbours are merged.
StorageExact ==
  CASE kind = "mailbox" -> Mbx!ListsExact
    [] kind = "fixed pool" -> Mpf!BlocksExact
    [] kind = "pool" -> Mpl!AreasExact
    [] kind = "memory" -> Mem!AreasExact
    [] OTHER -> TRUE

\* The current priority of every task is the highest of its base priority and
\* what the mutexes it has locked lend it, and no base priority is above the
\* ceiling of a mutex the task holds or waits for.  mutex.c maintains both by
\* local repairs along the chain of holders.
PriorityExact == kind = "mutex" => Mtx!PriorityExact /\ Mtx!CeilingRespected

\* A rendezvous number reaches its caller in this rendezvous and in no later
\* one, until the counter in the numbers of that caller has come round, and no
\* reply exceeds the buffer of a call that was forwarded.
RdvPaired == kind = "port" => Por!Paired

\* tk_sig_sem and tk_wai_sem neither lose nor make up resources, also when one
\* signal serves several waiters or a timeout makes others servable; with
\* TA_FIRST nobody is served before a task ahead of it in the queue.
SemExact ==
  [][kind = "semaphore" => Sem!ConservedStep /\ Sem!NoOvertakingStep]_vars

\* Events and messages are handed over once and in order: of the tasks one
\* tk_set_flg releases, a later one does not see the bits that an earlier one
\* clears; tk_snd_mbx and tk_rcv_mbx hand every message to one task; messages
\* pass a message buffer whole, through the ring buffer or from task to task.
HandedOnce ==
  [][CASE kind = "event flag" -> Flg!ConsumedOnceStep
       [] kind = "mailbox" -> Mbx!HandedOnceStep
       [] kind = "message buffer" -> Mbf!InOrderStep
       [] OTHER -> TRUE]_vars

\* A mutex with waiters passes to the first of them, however its holder loses
\* it, and that task, no other, returns from tk_loc_mtx with E_OK.
HandOver == [][kind = "mutex" => Mtx!HandOverStep]_vars
=============================================================================

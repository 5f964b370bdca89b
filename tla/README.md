# A TLA+ model of the esp32c3-mtk3 kernel and its FreeRTOS shim

The repository ports the uT-Kernel 3.0 real-time kernel to the ESP32-C3 and puts
a FreeRTOS compatible layer (the shim) on top of it, so that Espressif's Wi-Fi
and BLE stacks run as kernel tasks. This directory holds TLA+ modules translated
from that code, TLC configurations that check them on small instances, and TLAPS
proofs that the scheduler, the timer queue, semaphores, event flags, rendezvous
ports, device management, the serial driver and the BLE bridge are
correct for every number of tasks, priorities, locks, objects, events, descriptors
and requests. `PROJECT.json` maps every definition to the lines it models.

## 1. The system

Paths are relative to `src/`; `tk` stands for `kernel/tkernel`, `cpu` for
`kernel/sysdepend/cpu/core/riscv_esp`, `shim` for `components/freertos_shim`.

| Part | State | Operations | What makes it correct |
|---|---|---|---|
| ready queue (`tk/ready_queue.h`) | one queue per priority, `bitmap`, `top_priority`, `klocktsk` | insert, insert at the head, delete, move, rotate | the queues hold exactly the READY tasks; bitmap and top_priority, updated incrementally, agree with them |
| tasks (`tk/task.c`, `task_manage.c`, `task_sync.c`) | TCB: state, priority, `suscnt`, `wupcnt`, timer event | create, delete, start, exit, terminate, change priority, rotate, sleep, wake, suspend, resume, delay, release | state, nesting counts and timer agree; no wake-up is lost |
| dispatcher (`cpu/cpu_cntl.c`, `cpu_status.h`, `tk/cpuctl.c`) | `knl_ctxtsk`, `knl_schedtsk`, `knl_dispatch_disabled` | end of a critical section, exit of an interrupt, forced dispatch, disable and enable | the task that should run does run, as soon as dispatching is allowed |
| kernel lock (`tk/klock.c`) | owner and waiters of each lock, `klocked`, `klockwait` | lock with retry, unlock | one owner, and exactly the tasks that asked for the lock wait for it |
| waiting (`tk/wait.c`, `wait.h`) | wait queue of each object, hooks | wait, release with a result, time out, delete the object | a queue holds exactly the tasks that wait, in the order its attribute asks for |
| semaphore, event flag, mailbox, message buffer, memory pools, rendezvous (`tk/*.c`) | a count, a pattern, messages, a ring buffer, blocks, a pairing of tasks | create, delete, the two halves of the exchange, hooks for timeouts and priority changes | nobody waits for what is there; nothing is lost, doubled or taken by somebody further back |
| mutex (`tk/mutex.c`) | holder, list per holder, wait queue, ceiling | lock, unlock, delete, priority change, end of a holder or waiter | a task's priority is exactly the highest one it owns or was lent |
| timer queue, cyclic and alarm handlers (`tk/timer.c`, `time_calls.c`, `cpu/sys_timer.c`) | sorted queue of events, wrapping 32-bit time | insert, delete, tick, start and stop handlers | events fire once, in order, not early |
| device management (`tk/device.c`, `deviceio.c`, `device/common/drvif`) | descriptors, requests, abort counters | define, open, close, read, write, wait for one or any, suspend | what a task uses inside a driver stays its own; closing waits for exactly the tasks inside |
| serial driver (`device/ser`) | two ring buffers, who sleeps at them, event mask | open, close, read, write, interrupt | bytes in order; nobody sleeps beside data or space |
| memory (`tk/memory.c`, `mempool.c`) | address-ordered areas, size-ordered free list | allocate, free | areas never overlap, neighbours are merged |
| shim queues and semaphores (`shim/shim_queue.c`, `shim_sem.c`) | ring buffer or count, changed with interrupts disabled; kernel semaphores used as notifications | send, overwrite, receive, peek, reset, give, take, from tasks and interrupt handlers | first in first out; nobody sleeps on a notification that was dropped |
| shim mutexes, timers, critical sections (`shim/shim_queue.c`, `shim_timer.c`, `shim_port.c`) | owner and depth; active; nesting counts and a saved interrupt mask | take, give; start, stop, reset, delete; enter, leave | what the shim believes is what the kernel does |
| shim tasks and notifications (`shim/shim_task.c`) | a table of entries, a value and a semaphore per task | create, delete, notify, wait | every task, stack and semaphore is in one entry; no notification is missed |
| shim event groups (`shim/shim_evtgrp.c`) | a kernel event flag | set, clear, wait, sync | nobody sleeps in a wait that the bits satisfy |
| BLE bridge and mesh uplink (`components/net`) | `s_connected`, `s_paused`, `s_scanning`, status and name; the radio | bring-up, link events, pause, resume, callout | no pause outlives the reconnection of the mesh and the bridge is on the air again afterwards; the status on the air catches up |
| fast locks (`lib/libtk`) | a counter or a word of bits, and a kernel object | lock, unlock | one holder; nobody sleeps beside a free lock |

**How the parts meet.** A system call runs with interrupts disabled, changes the
kernel's state and ends with a test whether `knl_schedtsk` differs from
`knl_ctxtsk`; if so the CPU switches there (tasks) or on interrupt exit
(handlers). An object call that must wait goes through `knl_make_wait` to the
ready queue and the timer queue, and whatever ends the wait (signal, timeout,
`tk_rel_wai`, termination, deletion) comes back through `wait.c`, which calls the
object's hook. A priority change calls the hook of the object the task waits
for, and in `mutex.c` that hook changes the priority of the holder. The shim
calls the kernel outside its own critical sections.

**What is hard.** Calls of interrupt handlers between any two critical sections
of a task; hooks that re-enter the scheduler; incremental state (bitmap,
top_priority, klocktsk, inherited priorities) that must follow every path;
multi-unit requests and attributes that change who is served; retry loops around
notifications that may be stale or dropped. `hazards` in `PROJECT.json` lists
them at their lines.

## 2. The modules

| Module | Models | State |
|---|---|---|
| `Queue` | `include/sys/queue.h`, priority-ordered insertion | pure operators on sequences |
| `Task` | ready queue, tasks, waiting without an object, kernel lock, dispatcher | one record `k`: TCBs, ready queue, locks, `ctxtsk`, `schedtsk`, dispatch state |
| `Wait` | wait.c as the objects use it | operators on a record of TCBs and object control blocks |
| `Semaphore`, `EventFlag` | semaphore.c, eventflag.c | `k`: TCBs and objects |
| `Mailbox` | mailbox.c: the messages linked through their own memory | `k`: TCBs, mailboxes, links and priorities of the messages |
| `MessageBuf` | messagebuf.c: the ring buffer byte by byte | `k`: TCBs and message buffers |
| `Mutex` | mutex.c with the priority code of task.c and task_manage.c | `k`: TCBs and mutexes |
| `MemPfix` | mempfix.c: free list and unused rest | `k`: TCBs, pools, blocks in use |
| `Area` | the areas of memory.c and mempool.c | pure operators on a pool |
| `MemPool`, `Memory` | mempool.c; `knl_Imalloc` of memory.c, over `Area` | `k`: the pool, who holds what, TCBs |
| `Rendezvous` | rendezvous.c | `k`: TCBs, ports, the numbers that were handed out |
| `SyncObjects` | semaphores, event flags and ports side by side (INSTANCE) | `k` |
| `KernelObjects` | these and the other kinds of objects above; the specification | `k`, and which kind of object it holds |
| `Timer` | timer.c, cyclic and alarm handlers of time_calls.c | clock, timer queue, the owners' view of their events, the true time `left` |
| `Device` | device.c, deviceio.c, msdrvif.c | `d`: device, descriptors, requests, where every task is |
| `FastLock`, `FastMLock` | libtk's locks over `Semaphore` and `EventFlag` | the kernel's `k`, the lock's words, a label per task |
| `Serial` | ser.c, ser_esp32c3.c and the UART as they use it | `s`: ring buffers, FIFOs, event mask, a label per task |
| `Devices` | `Device`, `FastLock`, `FastMLock` and `Serial` side by side | `k`, `x`, and which of them is in view |
| `ShimSem`, `ShimQueue` | semaphores and queues of shim_queue.c over `Semaphore` | the kernel's `k`, the shim's `cnt` or ring, a label per task |
| `Fifo` | the abstract queue `ShimQueue` implements | the sequence of items |
| `ShimMutex` | recursive mutexes of shim_queue.c over `Mutex` | the kernel's `k`, owner and depth |
| `ShimTask` | shim_task.c over `Semaphore` | the kernel's `k`, the table, the resources in use |
| `ShimEvt` | shim_evtgrp.c over `EventFlag` | the kernel's `k`, what waiters returned with |
| `ShimTimer`, `ShimPort` | shim_timer.c, shim_port.c | `s` |
| `Bridge` | blebridge.c, espmesh.c and how the two examples wire them | `s`: the components' variables, the radio, what each of three tasks has still to do |
| `Shim` | the seven parts of the shim above and `Bridge` side by side | `k`, `x` and the variables of `ShimSem` and `ShimQueue` |
| `Queue_proofs` | facts about sequences used as queues | |
| `Task_proofs` | theorems about `Task` | |
| `Timer_proofs` | theorems about `Timer` | |
| `Device_proofs`, `Devices_proofs` | the invariant of `Device`; the invariant of `Serial` and theorems about `Devices` | |
| `Shim_proofs` | the invariant of `Bridge` and a theorem about `Shim` | |
| `SyncObjects_proofs`, `KernelObjects_proofs` | facts about wait queues, the invariants of semaphores, event flags and ports; theorems about `KernelObjects` | |
| `MC*` | constants and symmetry for TLC | |

`KernelObjects`, `Devices` and `Shim` pick one kind of object in their initial
state. The kinds keep their control blocks in separate tables and a task waits for
one object at a time, so that nothing would be added by mixing them; a run then
covers all of them, and one property says of all of them what they have in common.
Where objects do meet, they are composed: the shim and the fast locks call the
actions of the kernel modules.

**Task.** A system call is one action, because it is one critical section, and
every action of a task ends with `END_CRITICAL_SECTION` and every action of a
handler with `rtos_int_exit`, exactly the code that decides who runs next.
`tk_ext_tsk` uses `knl_force_dispatch`. The retry of `knl_LockOBJ` is a state of
the task (`klockwait`), not a loop. Two constants select what the application
does: `IsrSus`, handlers call `tk_sus_tsk` even for the last ready task, and
`TerRunning`, `tk_ter_tsk` is applied to the running task.

**Wait and the objects.** Here the ready queue is left out: any READY task may
call, which is more than the scheduler allows, a suspended task is one that
happens not to run, and a wait may time out at any time. What the objects add,
hooks included, is translated call by call. `Fresh` drops what a call returned
when its task goes on: nobody reads it again, and the state space stays small. A
message buffer has two queues; `wait_queue` is the senders', which is the first
field of its control block and the one wait.c works on. The bytes a receiver read
are blotted out, so that reading them again would show.

The operators named after reference and debug calls (`tk_ref_*`, `td_ref_*`,
`td_lst_*`, queues) give what those calls report; the properties look at the state
through them where they can.

**Memory.** Between two areas lies the header of the upper one; free areas are
queued by size, and areas of one size hang off the first, the only one that stores
the size. `Area` keeps exactly this. What the kernel lock protects is one step: the
lock's own behaviour is `Task`'s subject.

**Rendezvous.** A number is the caller and a counter of its own, which wraps after
`RdvWrap` rendezvous (2^16 in the code); `known` is the numbers that accepting tasks
have been told, which may use them at any time, as often as they like. `met` and `nth`
are history: how many rendezvous a caller had, and the how-manieth a number was made
for. A number that is `RdvWrap` rendezvous old is the caller's again, and a reply with
it is taken for one of the present rendezvous: the code does not notice, and
`RdvPaired` says so by speaking of the younger numbers only.

**Device.** What lies between LockDM and UnlockDM is one step, and a task inside a
function of the driver is at a label. `AllowAny` lets requests be executed while
`tk_wai_dev(dd, 0)` waits for any of them, which breaks what the rest relies on
(`device_wait_any`): such a wait takes over requests that are being executed, and a
closing task then counts one task to wait for although more are inside the driver
(deviceio.c:326), so that the first to leave wakes it. Without `AllowAny` callers
keep the two apart. A device is registered again with the number of units it had
(device.c:151 would take any). `FastLock` assumes that nobody calls `tk_rel_wai` for
a task that waits for a lock: Lock ignores what `tk_wai_sem` returns
(fastlock.c:57).

**Serial.** The interrupt handler runs as soon as it is pending, unless the task
has the interrupt disabled; then it runs right after (`slack`). Bytes are numbered,
so that a lost, doubled or overtaken one shows. The handler masks the event of the
transmit FIFO after filling it, whether or not the ring is empty; nothing is left
behind because the FIFO is larger than a ring buffer (128 and 50 bytes), which is an
assumption of `Devices`.

**Timer.** Times are numbers below `M`, which stands for 2^32, and are added and
compared modulo `M` as in the code. `left` is a history variable: it is set to
the time the caller asked for and counts down without wrapping, and every
property compares the wrapping times with it. The tick is not one action: it
starts (`Tick`), takes one event in each turn of its loop (`Fire`), and while a
cyclic or alarm handler runs, with interrupts enabled, other calls come in
between (`handler = "user"`).

**The shim.** A task inside a call of the shim is at a label; each label stands
for the code between two points where it can be preempted. The kernel calls are
the actions of `Semaphore`, `EventFlag` and `Mutex` themselves, so a wrong
assumption about the kernel would show. Handlers run from beginning to end in one
step. `news` in `ShimTask`, `held` in `ShimMutex`, `open` in `ShimPort` and `called` in
`ShimTimer` are history: what was set and not seen yet, what a task took and did not
give back, which sections are open, whether the callback was called. What the code
expects of its callers without checking it is a guard, named as a precondition:

- an owner of a recursive mutex is not deleted; a queue is not reset while somebody
  sends; an object is not deleted while somebody is inside a call;
- a task is not deleted between its write of a notification and its signal
  (shim_task.c:276), after which the notified task would sleep beside its value;
- critical sections and spinlocks are left innermost first: a critical section left
  before a spinlock that was acquired in it enables interrupts while the spinlock is
  held (shim_port.c:75);
- one task commands a timer, beside the timer's own callback: a Start that preempts a
  Stop between its two steps leaves a timer active and not armed (shim_timer.c:100-116).

**Bridge.** The application, the task that delivers mesh events and NimBLE's host
task each have a `todo`, the calls of NimBLE they have still to make, because each
of these waits for the controller and lets the others run. NimBLE and the mesh are
external: advertising and scanning are on or off, starting what runs is an error
without effect, other failures, of the calls that stop something too, whose result
nobody looks at, are rare (`MaxRare`), and link events are delivered in order.

## 3. The runs

Passing runs:

- `task` (3 tasks, 2 priorities, 1 lock): ready queue and bitmap exact, no dispatch
  forgotten, suspension and wake-up counts, timers, order within a priority
  (`FifoOrder`, an action property); the scheduled task, the lock's owner and waiters,
  klocktsk. `SchedTop` leaves open which of two tasks is scheduled, the top of the
  ready queue or a READY holder of the lock, because the code does (`lock_holder`).
- `objects` (3 tasks, 2 priorities, one semaphore, event flag, mailbox, message
  buffer, fixed-size or variable-size pool; 3 tasks, 2 mutexes of all attributes and 3
  priorities; 2 tasks and a port; the kernel's memory): the queues hold
  exactly the waiters, in order (`QueuesExact`), and nobody waits who could be served,
  whatever ended the wait before it (`WaitersServed`). Semaphores conserve their count
  and serve in order (`SemExact`); events are consumed once, and messages are handed
  over once, whole and in order (`HandedOnce`); the links of a mailbox form one list,
  every block or area of memory is free or in use, none is lost or handed out twice
  and free neighbours are merged (`StorageExact`); `PriorityExact` with the ceilings
  and `HandOver` for mutexes; `RdvPaired` for rendezvous, over a wrap of their numbers.
- `timer` (a task, a cyclic and an alarm handler, 16 values of time): the queue
  is in the order of the true times (`QueueInOrder`), wrapping times stand for
  what was asked for (`TimesExact`), events fire at the first tick at which they
  are due (`FiresOnTime`), `tk_ref_cyc` and `tk_ref_alm` tell the truth
  (`LeftTimeExact`).
- `devices` (3 tasks, 2 descriptors, 2 requests, 3 units, one with a two-digit
  name; 3 tasks and a lock, or a multi-lock with 2 numbers; 2 tasks and the serial
  driver): `InUse`, `AbortAgrees`, `LockPassed`, `NothingStuck`, `SerialInOrder`.
- `shim` (semaphore: a taker, two givers, handlers; queue: a sender, a peeker, a
  receiver, handlers that send and receive, 3 places; mutex: 3 tasks; tasks: 2 and
  one creator; event group: 2 tasks, 2 bits; timer; sections nested 4 deep; the
  bridge as root and as node): `NobodyForgotten`, for semaphores, queues,
  notifications and event groups; `TasksExact`; `ShadowsExact`, where an active timer
  is armed or is a one-shot that has fired, which the code leaves active, and a switch
  that became due inside a section happens when the outermost one is left, unless
  vTaskSuspendAll puts it off; `IsFifo`, which says that the ring buffer implements
  `Fifo` with `Capacity <- cap - 1`, whatever end a sender asks for; `TakerWakes`, the
  liveness of a taker; `BridgeServes`, that no pause outlives the reconnection and that
  the bridge advertises and scans again afterwards, as long as no call of NimBLE failed
  and the node kept its name; and `StatusCatchesUp`, that what the application
  published is advertised in the end.

Runs in which the code does not do what a comment says:

- `task_running`: a handler suspends the only ready task; the interrupt exit
  finds no scheduled task and resumes the suspended one.
- `mutex_cycle`: terminating a task of a circular wait links it into the wait
  queue again.
- `device_wait_any`: a wait for any request takes over one that another task is
  executing and unregisters it (deviceio.c:722, :806).
- `lock_holder`: a task that becomes ready above the holder of a kernel lock runs at
  once (task.c:121), although "Locked task is the highest run priority" (klock.c:15);
  the next reschedule returns to the holder. Exclusion does not suffer, the other task
  parks on the lock.
- `radio`: a link that goes down while on_sync starts the radio pauses a bridge whose
  `s_scanning` is still false, and the scan then goes on in the pause, although
  `s_paused` "guards BOTH scan and advertising" (blebridge.c:162) and the call is to
  "pause/resume the passive scan" (blebridge.h:43).
- `shim_sem_takers`: with two taking tasks, the fast path of one takes the
  notification of the other, which then sleeps beside a positive count.
- `shim_task_creators`: two creators find the same free entry of the task table,
  which is reserved only after the kernel task exists.

**Observations** made while modelling, without a run of their own:

- With two kernel locks two READY tasks can hold one each, although
  ready_queue.h:37 says that this does not happen; `klocktsk` names one of them.
- xQueueReset empties the ring without waking the senders that wait for space.
- The ring keeps one place free: a queue created for `n` items holds `n - 1`, and
  one with a ring of one place is full and empty at once, although shim_internal.h:109
  calls `cap` the "capacity in items".
- queue.h offers xQueueSendToFront, but queue_push knows only one end: such an item
  goes to the back.
- A task that calls vTaskDelete(NULL) leaves its entry, stack and semaphore behind
  until somebody else deletes it.
- `owner_task` of a recursive mutex survives the deletion of the owner.
- An event group's waiter clears in a later step what it returned with: a bit that
  is set again meanwhile is cleared with it, and of two tasks in xEventGroupSync
  the first may clear the bits before the second waits for them. No property excludes
  these losses, which the code does have; `NobodyForgotten` says that none of them
  leaves a task asleep beside bits that satisfy it.
- xTimerChangePeriod does not change the period of an auto-reload timer, which
  the kernel was told at creation.
- A serial task whose time limit is over stays in `wait_tskid`; the next interrupt
  queues a wake-up for it, and a later sleep ends at once. The loop looks at the
  ring buffer again, so this is harmless.
- The driver may see the openfn of a new user before the closefn of the last one.
- Nobody looks at `s_paused` again after the radio calls before it waited: a callout
  that tested it just before a pause began, and on_sync, start advertising again in the
  pause; blebridge_update_name does not look at it at all. A loss of the link before
  on_sync pauses nothing.
- If a pause overlaps on_sync, `s_scanning` may be cleared after on_sync set it; the
  scan then runs on through all later pauses. A cancel that fails does the same, since
  `s_scanning` is cleared all the same (blebridge.c:177).
- blebridge.h says of the pause "advertising is left running"; the code stops it,
  as the comment above `s_paused` demands. No property takes a side.

**Bounds.** Three tasks are the fewest with a running task, one behind it in the
same queue and one that waits or preempts; two priorities order them and three
are needed for chains of inheritance. `INT_MAX = 1` puts both nesting counters at
their limit. `IniPri` bounds the priorities tasks are created with; the run `task`
creates them with the lower one, which `tk_chg_pri` changes. Two
mutexes make chains. Three places let the ring wrap with two
items in it. The message buffer has 7 bytes and messages of 1 and 3 behind headers
of 2, so that headers and messages come to lie across its end in every way, and a
size of 0, where messages go from task to task. A pool of 28 bytes with headers of
2 holds several areas, of equal and of different size, and its ends. Three
rendezvous per caller (`MaxRdv`) with two numbers (`RdvWrap`) let a number outlive its
rendezvous and come back. The handlers fill and empty the shim's ring beside its three
tasks, one of each sort; several senders asleep at once are not in the run. Two
descriptors and two requests on three tasks let a third one close while two are
inside the driver. Ring buffers of 3 places, a transmit FIFO of 3 and requests of
up to 3 bytes let a write block, wrap, and go around the ring. The clock has 16
values and the longest time limit is 7, the largest the range check allows for
that width; the runs pass many wraps; a TA_PHS handler is not stopped for more than
half the range of the clock and phases are in the range of RELTIM, which the code
does not check. `MaxDepth`, `MaxNest`, `MaxReq`, `MaxWup`, `MAX_DISSUS`,
`MaxPend` and `MaxRare` bound recursion, nesting, requests, queued wake-ups, the
counter of suspension, undelivered mesh events, and failing calls and new names.
Within these bounds the state spaces are explored completely.

**Symmetry.** Tasks, control blocks, bits, items and stacks are interchangeable
where no definition orders them. With the two temporal properties beyond safety,
`TakerWakes` and `StatusCatchesUp`, only values are permuted that no state of a
semaphore or of the bridge depends on.

**Fairness.** Only the shim's semaphores and the bridge have any. Semaphores: weak
fairness of the step of a task that is inside a call, once every task inside a call
with a higher priority sleeps. That is what the kernel's dispatcher does
(run `task`, `DispatchCorrect`). Bridge: weak fairness of each task inside a call,
which sleeps in every call of NimBLE and so lets the others run, and of the callout,
a timer that expires. Nothing is assumed of new calls, interrupts, timeouts or the
mesh.

## 4. The proofs

| Module | Theorem | Property | Under |
|---|---|---|---|
| `Task_proofs` | `TypeCorrect`, `ReadyQueueCorrect`, `ScheduledTaskCorrect`, `DispatchCorrect`, `LocksCorrect`, `KlocktskCorrect`, `SuspendCorrect`, `WakeupCorrect`, `TimeoutCorrect`, `FifoCorrect` | `TypeOK`, `ReadyQueueExact`, `SchedTop`, `NoMissedDispatch`, `LocksExact`, `KlocktskReady`, `SuspendNesting`, `NoLostWakeup`, `TimerMatchesWait`, `FifoOrder` | `Conditions` |
| `KernelObjects_proofs` | `SemConserves`, `RdvCorrect` | `SemExact`, `RdvPaired` | `SyncAssumption` |
| `KernelObjects_proofs` | `FlagsConsumedOnce` | `HandedOnce` of event flags | `SyncAssumption` |
| `KernelObjects_proofs` | `SemServed`, `FlagsServed`, `PortsCorrect` | `TypeOK`, `QueuesExact` and `WaitersServed` of these three kinds | `SyncAssumption` |
| `KernelObjects_proofs` | `PoolsCorrect` | `TypeOK`, `QueuesExact`, `WaitersServed` and `StorageExact` of fixed-size pools | `SyncAssumption`, `ObjectsAssumption` |
| `Timer_proofs` | `TimerTypeCorrect`, `TimesCorrect`, `OrderCorrect`, `LeftTimeCorrect`, `FiringCorrect` | `TypeOK`, `TimesExact`, `QueueInOrder`, `LeftTimeExact`, `FiresOnTime` | `TimerAssumption` |
| `Devices_proofs` | `AbortCorrect`, `InUseCorrect` | `AbortAgrees`, `InUse` | `DevicesAssumption`, finitely many tasks, no `AllowAny` |
| `Devices_proofs` | `NothingStuckCorrect`, `InOrderCorrect` | `NothingStuck`, `SerialInOrder` | `DevicesAssumption` |
| `Shim_proofs` | `RadioCorrect` | `BridgeServes` | |

**Tasks.** For every set of tasks and locks, every number of priorities and every
counter limit, and under

    Conditions == ~TerRunning /\ (IsrSus => Locks = {})

the specification keeps the inductive invariant `IInv` (theorem `Invariance`), from
which the properties follow. The conditions are necessary: with `TerRunning` a
running task works on although it is DORMANT, and with `IsrSus` a suspended task
that was resumed (`task_running`) takes a kernel lock and becomes klocktsk. `IInv`
strengthens the properties by what the actions rely on: each READY task is in the
queue of its own priority and nowhere else, each queue is free of duplicates,
`klocktsk` is READY and holds a lock, a task parked on a lock has `klockwait` set
and is in no ready queue, the running task is alive, and `schedtsk` is the top of
the queue unless a lock holder was overtaken. The proof has one lemma per kernel
routine (what `ready_queue_insert`, `ready_queue_delete`, `knl_make_ready`, ... do to
the ready queue's invariant), one per way of leaving a critical section, and one
step per action. `Queue_proofs` has the facts about sequences they use: what
insertion and removal do to the elements, the order and the absence of duplicates.

**Order within a priority.** `FifoOrder` is an action property: it compares the
positions of two tasks before and after a step. `Task_proofs` shows that every
call changes each ready queue in one of six ways (`Shifted`: not at all, an element
removed, moved to the end, inserted at the end or at the head, the first one rotated),
and that none of them lets a task overtake another one, unless that one goes to the
end (`Orderly`).

**Semaphores.** For any tasks and objects, every number of priorities and
every limit. `SyncObjects_proofs` first says what `wait.c` does to one queue:
`Exact(s, q, W, tpri)` relates a queue to the set of tasks that should be in it, and
one lemma each says what joining, leaving, moving by priority and emptying make of it.
`SemInv` is the type, exact queues and `NoServableWaiter`; it is inductive as it
stands, but the loop that serves the waiters after a signal, a timeout or a priority
change needs an invariant of its own (`ServeTurns`): after `i` turns the first `i`
waiters were served or cannot be, the rest is untouched, and once the loop stopped
nothing later can be served. The loop is a recursive function on the positions of the
queue; an invariant of it is shown from the least position where it would fail, which
needs no induction principle with an operator in it. `SemExact` counts resources as
pairs of a task and a number (`Asked`), so that the sum over the served tasks is the
cardinality of a disjoint union.

**Event flags.** `FlgInv` is the type, exact queues, at most one waiter without TA_WMUL,
and that every waiter asks for some bits which are not there. The loop of `tk_set_flg`
has the invariant `FlgLoop`: after `i` turns each of the first `i` waiters is released
or not satisfied by what is left, the others were not looked at, and those released
were each shown a pattern without the bits that the ones before took (`FlgPart`). It
holds because the pattern only shrinks, so that who was passed over stays unsatisfied
(`SatisfiedShrinks`), and the loop may stop when nothing is left because nobody waits
for no bits (`SatisfiedEmpty`): the check of `waiptn` in `tk_wai_flg` is what makes the
early `break` sound.

**Ports.** `PortInv` adds to the exact queues who has been told
which number (`known`), that a number that is still answered belongs to the call its
task waits in, that the numbers of a task follow its count of rendezvous modulo
`RdvWrap`, so that two of them agree only if they are `RdvWrap` rendezvous or more apart, and that a forwarded caller's buffer is
what its port promised.

**Fixed-size pools.** `BlocksExact` speaks of the blocks that links reach from
`freelist`, which no step changes in a way that is easy to follow: the links are in the
blocks themselves. `PoolInv` says instead that for each pool there is a sequence without
duplicates that the links follow to the end (`FreeList`), that it and the blocks in use
are what was ever handed out, and that `frbcnt` is its length and the number of the
others. `tk_get_mpf` takes the first of the sequence, `tk_rel_mpf` puts one in front,
and what a user writes goes to a block that is not in it. That the links reach just the
elements of the sequence is shown of `Reach`, a recursive function on the number of
links followed, by giving the function it computes (`First`) and looking at the first
number where they would differ.

**Timer.** For every modulus `M` of the clock that is even and at least four ticks
long, every tick period, every set of time limits and phases in the range the code
checks, and any tasks and handlers. `IInv` adds to order and exactness where the
events are on the clock (`Due`: between two ticks nothing is due, during one at most
what its tick made due, and nothing is more than half a turn away), who owns them,
and the phase of a stopped cyclic handler until it is half a turn old (`Phase`). With
`Due`, the wrapping comparison of `knl_enqueue_tmeb` is the comparison of the true
times: that is the lemma the rest hangs on, and the reason for the range of time
limits. Cycles that have passed are skipped by a division; `DivFacts`, `ModUnique` and
`ModShift` have the arithmetic. The proof asked for two assumptions TLC's instance
satisfied by itself: the kinds of owners are disjoint, and a tick is at most a quarter
of a turn (a tick is 1 ms, a turn 49 days).

**Devices.** `Device_proofs` proves the invariant `DeviceInv` for any descriptors and
requests and any finite set of tasks: a descriptor that is opened or closed is with
one task (`Held`); requests are queued where they belong to and gone when the
descriptor is (`Queued`); a request is marked with the task that works on it and with
no other (`Marked`); who is in the driver uses an open descriptor, and who waits for
any of its requests is there alone (`Within`); the aborting task counts the tasks
inside (`Counted`); open modes are compatible (`Modes`). `abort_allrequest` counts
marked requests, `AbortAgrees` speaks of tasks: that the numbers are equal is a
bijection between the two, which `Marked` gives. The count is read without the lock,
so `Counted` has to say what the semaphore knows at every label: a task may go to
sleep after the last one left, because that one has signalled. `AllowAny` is excluded
because it breaks this count (`device_wait_any`). That a unit's name leads back to it
is shown for all unit numbers of eight bits: `Digits` and `FoldLeft` stand for a choice
of a function that satisfies a recursive equation, and for three digits such a function
can be written down (`Spelled`, `HornerFcn`).

**Serial.** For buffers, FIFOs and requests of any length. `SerialInv` says that at most
one task is inside a request (`Seated`), that who sleeps, or is about to and has no
wake-up queued, is the one the handler wakes and finds its ring empty or full
(`Asleep`), that the interrupt of the transmit FIFO is enabled whenever the FIFO left
something behind or is full (`Fed`), and that the latched event of an empty FIFO is out
of date only for the moment between the write of one byte and the handler (`Latched`).
The handler masks the event after filling the FIFO; `Fed` survives that only because a
full buffer fits into the FIFO, which is an assumption. The loops that move bytes
between ring and FIFO are recursive functions on the number of bytes moved, with an
invariant of the loop each; they rest on lemmas on what a `put` and a `get` make of the
contents of a ring as a sequence, wrapping included.

**Bridge.** For any bounds on undelivered events and failing calls. `BridgeInv` says how
far the components were brought up (`Phases`), what each of the three tasks may still
have to do (`Duties`), that a pause belongs to a link that is down or is about to be
lifted (`Pausing`), and, as long as no call failed and the node was not renamed, that
whatever is off outside a pause is on somebody's list to be started (`Serving`): the
host task stops advertising only as the first step of a call that starts it again
(`Tidy`), and the task of the mesh ends a pause with both starts before it.

**Lifting.** `Devices` and `Shim` hold a component as an instance. Their proof modules
instantiate the component's proofs with the same variable, show that both instances
have the same steps (`SameSteps`), and take over the invariant while the component is
in view.

Each invariant was checked by TLC on the instances of section 3 before it was proved.

**Only model-checked.**

- Liveness (`TakerWakes`, `StatusCatchesUp`): out of the proof system's reach.
- `PriorityExact` and `HandOver`: `Mutex` follows chains of holders with a recursive
  function (`Settle`), and what such a function computes along a chain of any length is an
  induction over data, which the installed provers cannot do.
- `TypeOK`, `QueuesExact`, `WaitersServed`, `StorageExact` and `HandedOnce` of the other
  kinds of kernel objects.
- `LockPassed` and the rest of the shim (`NobodyForgotten`, `TasksExact`, `ShadowsExact`,
  `IsFifo`): they reach the kernel's actions through an instance inside an
  instance, which the proof manager cannot name.

## 5. Not modelled

- Interrupt management, I2C and ADC drivers, line settings of the serial driver,
  power management: accesses to registers without a protocol of their own.
- The saving of registers and the nesting of interrupts; initialisation and
  shutdown, which run alone, among them the clean-up of all descriptors.
- The offset of the real-time clock (`tk_set_utc`, `tk_set_tim`): two additions
  that no event in the timer queue depends on; they would multiply the states of
  `Timer` by the range of the clock.
- Object names, versions and other look-ups, string and console libraries.
- The shim's stubs, the demo applications, and of the bridge what it forwards: the
  text and the rate of sightings, receiving, counters, and a reset of the NimBLE host
  that would call on_sync a second time.

Time has a length only in `Timer`; elsewhere a wait may time out at any moment.

## 6. Plan

Done: tasks, ready queue, kernel lock and dispatcher, the timer queue, semaphores,
event flags, rendezvous ports, fixed-size pools, device management, the serial driver and the
BLE bridge, with their proofs; the other kernel objects and the kernel's memory; fast
locks; the shim.

1. The service loops of mailboxes, message buffers and variable-size pools, with the
   lemmas on queues and the treatment of loops used for semaphores.
2. `ShimPort` and `ShimTimer`, whose invariants are close to inductive.
3. Time lengths for the shim's timers over `Timer`, and the recovery of lost ticks.

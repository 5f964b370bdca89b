------------------------------ MODULE ShimPort ------------------------------
(***************************************************************************)
(* Critical sections and spinlocks of the FreeRTOS shim: shim_port.c.      *)
(* Both mask interrupts; each counts its own nesting and saves mstatus.MIE *)
(* when it is entered at depth 0, and the two may be nested in each other. *)
(* They are entered by tasks, by interrupt handlers, and while the kernel  *)
(* starts with interrupts masked; vTaskSuspendAll forbids task switches    *)
(* for longer than a section.                                              *)
(*                                                                         *)
(* Precondition: sections are left innermost first.  The code does not     *)
(* check it: a critical section that is left before a spinlock which was   *)
(* acquired in it enables interrupts while the spinlock is held.           *)
(***************************************************************************)
EXTENDS Naturals, Sequences

CONSTANTS
  Muxes,        \* the spinlocks
  MaxNest       \* bound on the nesting of sections

VARIABLE s      \* mstatus.MIE, the two counters, and who is inside what

\* In s, open is the sections entered and not left, the innermost first, which
\* the code does not keep; wanted is knl_ctxtsk # knl_schedtsk, ddsp is
\* knl_dispatch_disabled.
Closed == [depth |-> 0, saved |-> FALSE]

\* DI(s) returned the old MIE; only the outermost entry of a kind keeps it.
Entered(c) == [depth |-> c.depth + 1, saved |-> IF c.depth = 0 THEN s.mie ELSE c.saved]

\* A task switch is due and allowed once depth is 0 again.  The cache is taken
\* to be enabled.
shim_yield_if_needed(c) ==
  c.depth = 1 /\ c.saved /\ ~s.ddsp /\ ~s.isr /\ ~s.boot /\ s.wanted

\* Section c is left; EI(saved) sets MIE or does nothing.  A switch of tasks
\* ends with knl_ctxtsk = knl_schedtsk.
Leave(c) ==
  [s EXCEPT !.mie = IF c.depth = 1 THEN @ \/ c.saved ELSE @,
            !.wanted = @ /\ ~shim_yield_if_needed(c),
            !.open = Tail(@)]

vPortEnterCritical ==
  /\ Len(s.open) < MaxNest
  /\ s' = [s EXCEPT !.mie = FALSE, !.cs = Entered(@), !.open = <<"cs">> \o @]

vPortExitCritical ==
  /\ s.open # << >> /\ Head(s.open) = "cs"
  /\ s' = [Leave(s.cs) EXCEPT !.cs.depth = @ - 1]

spinlock_acquire(m) ==
  /\ Len(s.open) < MaxNest
  /\ s' = [s EXCEPT !.mie = FALSE, !.sl = Entered(@), !.count[m] = @ + 1, !.open = <<m>> \o @]

\* A mux that is not held is left alone.
spinlock_release(m) ==
  /\ s.open # << >> /\ Head(s.open) = m
  /\ s.count[m] > 0
  /\ s' = [Leave(s.sl) EXCEPT !.sl.depth = @ - 1, !.count[m] = @ - 1]

\* vTaskSuspendAll and xTaskResumeAll are calls of the kernel, which refuses
\* them while interrupts are masked; the second switches tasks if one is due.
vTaskSuspendAll == s.mie /\ s' = [s EXCEPT !.ddsp = TRUE]
xTaskResumeAll == s.mie /\ s' = [s EXCEPT !.ddsp = FALSE, !.wanted = FALSE]

\* A kernel call makes another task due, and its END_CRITICAL_SECTION cannot
\* switch to it at once: dispatching is disabled, or interrupts are masked and
\* the interrupt that it requests is taken, with the same effect, where the
\* outermost section is left.
WakeUp == (~s.mie \/ s.ddsp) /\ ~s.wanted /\ s' = [s EXCEPT !.wanted = TRUE]

\* An interrupt is taken; its handler runs with MIE clear, and returns, with
\* nothing open, through rtos_int_exit.
Interrupt == s.mie /\ s' = [s EXCEPT !.isr = TRUE, !.mie = FALSE]

Return ==
  /\ s.isr /\ s.open = << >>
  /\ s' = [s EXCEPT !.isr = FALSE, !.mie = TRUE, !.wanted = @ /\ s.ddsp]

\* The kernel ends its initialisation and dispatches the first task.
StartTasks ==
  /\ s.boot /\ s.open = << >>
  /\ s' = [s EXCEPT !.boot = FALSE, !.mie = TRUE, !.ddsp = FALSE, !.wanted = FALSE]

Init ==
  s = [mie |-> FALSE, boot |-> TRUE, isr |-> FALSE, cs |-> Closed, sl |-> Closed,
       count |-> [m \in Muxes |-> 0], open |-> << >>, ddsp |-> FALSE,
       wanted |-> FALSE]

Next ==
  \/ vPortEnterCritical \/ vPortExitCritical
  \/ \E m \in Muxes : spinlock_acquire(m) \/ spinlock_release(m)
  \/ vTaskSuspendAll \/ xTaskResumeAll
  \/ WakeUp \/ Interrupt \/ Return \/ StartTasks

\* "Saving and restoring the actual MIE state before the outermost enter":
\* interrupts are masked inside of any section, however critical sections and
\* spinlocks are nested, and are as they were once the outermost is left;
\* nothing fires while the kernel starts, and a task that became due inside a
\* section runs when the outermost is left or, after vTaskSuspendAll, when
\* xTaskResumeAll is called.
MaskExact ==
  /\ s.open # << >> => ~s.mie
  /\ s.open = << >> => s.mie = (~s.isr /\ ~s.boot)
  /\ s.mie /\ ~s.ddsp => ~s.wanted
=============================================================================

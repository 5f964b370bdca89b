------------------------------ MODULE ShimTimer ------------------------------
(***************************************************************************)
(* A software timer of the FreeRTOS shim: shim_timer.c.  It drives a       *)
(* kernel alarm, or a cyclic handler if auto_reload is set, and keeps its  *)
(* own idea of being active.  The timer interrupt may come between any two *)
(* steps of a call; the callback may itself command the timer.             *)
(*                                                                         *)
(* Of the kernel handler only whether it exists and is armed is kept; when *)
(* it fires is the subject of module Timer.  period_ms is left out: it is  *)
(* an argument of tk_sta_alm and tk_cre_cyc only, so that                  *)
(* xTimerChangePeriod does not change how often a cyclic handler fires.    *)
(*                                                                         *)
(* Precondition: one task at a time commands a timer.  The code does not   *)
(* enforce it: a Start that preempts a Stop between its two steps leaves a *)
(* timer that is active and not armed, and so does one from an interrupt   *)
(* handler other than the timer's own callback.                            *)
(***************************************************************************)
EXTENDS Sequences

LOCAL INSTANCE SequencesExt

VARIABLE s    \* the timer, its kernel handler, and what a task's call has to do

\* One step of a call: an assignment of the shim or a call of the kernel, on a
\* cyclic handler or on an alarm.  called, which the code does not have, is
\* whether the callback was called since the timer was last marked active.
Do(r, step) ==
  CASE step = "active"   -> [r EXCEPT !.active = TRUE, !.called = FALSE]
    [] step = "inactive" -> [r EXCEPT !.active = FALSE]
    [] step = "tk_sta"   -> [r EXCEPT !.armed = r.exists]
    [] step = "tk_stp"   -> [r EXCEPT !.armed = FALSE]
    [] step = "tk_del"   -> [r EXCEPT !.exists = FALSE, !.armed = FALSE]
    [] step = "free"     -> [r EXCEPT !.live = FALSE]

xTimerStart == <<"active", "tk_sta">>
xTimerStop == <<"inactive", "tk_stp">>
xTimerReset == xTimerStop \o xTimerStart
xTimerChangePeriod == IF s.active THEN xTimerStop \o xTimerStart ELSE xTimerStop

xTimerDelete == xTimerStop \o <<"tk_del", "free">>

\* What a callback may call; it runs to its end.
Commands == {<< >>, xTimerStart, xTimerStop, xTimerReset, xTimerChangePeriod}

xTimerCreate(auto_reload) ==
  /\ ~s.live /\ s.todo = << >>
  /\ s' = [live |-> TRUE, auto_reload |-> auto_reload, active |-> FALSE,
           exists |-> TRUE, armed |-> FALSE, called |-> FALSE, todo |-> << >>]

\* A task calls a function of the shim, and takes its next step.
Call == /\ s.live /\ s.todo = << >>
        /\ \E c \in (Commands \ {<< >>}) \cup {xTimerDelete} : s' = [s EXCEPT !.todo = c]

Step == s.todo # << >> /\ s' = [Do(s, Head(s.todo)) EXCEPT !.todo = Tail(@)]

\* The kernel calls alm_handler, which is not armed any more, or cyc_handler.
\* Neither resets active: a one-shot timer that fired is still active.
Fire ==
  LET fired == [s EXCEPT !.armed = s.auto_reload, !.called = @ \/ s.active]
  IN  /\ s.armed
      /\ IF s.active THEN \E c \in Commands : s' = FoldLeft(Do, fired, c) ELSE s' = fired

Init ==
  s = [live |-> FALSE, auto_reload |-> FALSE, active |-> FALSE, exists |-> FALSE,
       armed |-> FALSE, called |-> FALSE, todo |-> << >>]

Next == (\E auto_reload \in BOOLEAN : xTimerCreate(auto_reload)) \/ Call \/ Step \/ Fire

\* The kernel never calls a handler with a timer that was freed.  Once no call
\* is under way an active timer is armed, or is a one-shot that has called its
\* callback since it was started, whatever the callback did in the middle of
\* the call; that a timer is active does not say that it is going to fire.
ArmedExact ==
  /\ s.armed => s.live /\ s.exists
  /\ s.active /\ s.todo = << >> => s.armed \/ (~s.auto_reload /\ s.called)
  /\ s.exists /\ s.todo = << >> => s.live
=============================================================================

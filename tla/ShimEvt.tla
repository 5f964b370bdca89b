------------------------------ MODULE ShimEvt ------------------------------
(***************************************************************************)
(* The event groups of the FreeRTOS shim: shim_evtgrp.c on top of an event *)
(* flag of the kernel (module EventFlag).  The kernel does not clear the   *)
(* bits a task waited for; the task does, in a call of its own, and other  *)
(* tasks and interrupt handlers run in between.                            *)
(***************************************************************************)
EXTENDS Naturals, Sequences, FiniteSets

CONSTANTS
  Tasks,
  flg_id,       \* the kernel's event flag
  Bits          \* the bits of an event group

VARIABLES
  k,            \* the kernel's tasks and event flag
  s             \* where every task is and what tk_wai_flg returned to it

\* ANDW or ORW; never TWF_CLR.
K == INSTANCE EventFlag WITH Objects <- {flg_id}, NUM_TSKPRI <- 1, Modes <- {{}, {"ORW"}}

Patterns == SUBSET Bits \ {{}}

\* result is empty while a task waits and after an error.
Idle == [pc |-> "idle", clr |-> FALSE, wait |-> {}, result |-> {}]

\* Task t is not inside a call and the group exists.
Calls(t) == s[t].pc = "idle" /\ k.tcb[t].state = "READY"

\* What the kernel call of this step returned through p_flgptn, if it did.
Results(at) ==
  [t \in Tasks |->
     IF at[t].pc = "waiting" /\ k'.tcb[t].state = "READY" /\ at[t].result = {}
     THEN [at[t] EXCEPT !.result = k'.tcb[t].flgptn] ELSE at[t]]

\* The group is created empty, for several waiters.
xEventGroupCreate ==
  /\ \A t \in Tasks : s[t].pc = "idle"
  /\ K!tk_cre_flg(flg_id, FALSE, TRUE, {})
  /\ UNCHANGED s

\* Waiters return with an error.  Precondition: nobody is inside a call that
\* still uses the group.
vEventGroupDelete ==
  /\ \A t \in Tasks : s[t].pc = "idle" \/ k.tcb[t].state = "WAIT"
  /\ K!tk_del_flg(flg_id)
  /\ UNCHANGED s

\* The pattern returned is read after the set and may differ from it.
xEventGroupSetBits(bits) ==
  K!tk_set_flg(flg_id, bits) /\ s' = Results(s)

xEventGroupClearBits(bits) == K!tk_clr_flg(flg_id, Bits \ bits) /\ UNCHANGED s

\* xEventGroupWaitBits, up to tk_wai_flg.
Wait(t, bits, clr, wait_all) ==
  /\ K!tk_wai_flg(t, flg_id, bits, IF wait_all THEN {} ELSE {"ORW"})
  /\ s' = Results([s EXCEPT ![t] = [Idle EXCEPT !.pc = "waiting", !.clr = clr]])

xEventGroupWaitBits(t, bits, clr, wait_all) == Calls(t) /\ Wait(t, bits, clr, wait_all)

\* tk_wai_flg returned: after a success, and only then, all of the pattern it
\* returned is cleared if asked for, bits not waited for included, and bits
\* that were set once more since.
Return(t) ==
  LET a == s[t]
  IN  /\ a.pc = "waiting" /\ k.tcb[t].state = "READY"
      /\ IF a.result # {} /\ a.clr THEN K!tk_clr_flg(flg_id, Bits \ a.result) ELSE UNCHANGED k
      /\ s' = [s EXCEPT ![t] = Idle]

\* xEventGroupSync: set, then, in another step, wait for all.
xEventGroupSync(t, set, wait) ==
  /\ Calls(t)
  /\ K!tk_set_flg(flg_id, set)
  /\ s' = Results([s EXCEPT ![t] = [Idle EXCEPT !.pc = "sync", !.wait = wait]])

SyncWait(t) == s[t].pc = "sync" /\ Wait(t, s[t].wait, TRUE, TRUE)

Timeout(t) == K!knl_wait_release_ng(t, "E_TMOUT") /\ UNCHANGED s

Init == K!Init /\ s = [t \in Tasks |-> Idle]

Next ==
  \/ xEventGroupCreate \/ vEventGroupDelete
  \/ \E b \in Patterns : xEventGroupSetBits(b) \/ xEventGroupClearBits(b)
  \/ \E t \in Tasks :
       \/ Return(t) \/ SyncWait(t) \/ Timeout(t)
       \/ \E b \in Patterns :
            \/ \E clr, wait_all \in BOOLEAN : xEventGroupWaitBits(t, b, clr, wait_all)
            \/ \E set \in Patterns : xEventGroupSync(t, set, b)

xEventGroupGetBits == K!tk_ref_flg(flg_id).flgptn

\* No task sleeps in a wait that the bits satisfy, although other tasks clear
\* what they waited for in steps of their own.
BitsSeen ==
  \A t \in Tasks :
    k.tcb[t].state = "WAIT" =>
      ~K!knl_eventflag_cond(xEventGroupGetBits, k.tcb[t].waiptn, k.tcb[t].wfmode)
=============================================================================

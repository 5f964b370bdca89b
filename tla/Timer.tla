-------------------------------- MODULE Timer --------------------------------
(***************************************************************************)
(* The timer queue and what uses it: waits with a time limit, cyclic and   *)
(* alarm handlers (timer.c, timer.h, time_calls.c, time_calls.h).  Times   *)
(* are unsigned integers that wrap around at M, 2^32 in the code.  The     *)
(* variable left is not in the code: it is the true time until an event is *)
(* due, as the caller asked for, which never wraps.                        *)
(***************************************************************************)
EXTENDS Queue, Integers, FiniteSetsExt

CONSTANTS
  Tasks, Cycs, Alms,    \* tasks, cyclic and alarm handlers
  M,                    \* the number of values of ABSTIM
  TIMER_PERIOD,         \* time between two ticks
  TMO_FEVR,             \* no time limit
  RelTimes,             \* the time limits and cycles in use
  Phases                \* the phases in use

ASSUME TimerAssumption ==
  /\ M \in Nat /\ M % 2 = 0 /\ TIMER_PERIOD \in 1 .. M \div 4
  /\ RelTimes \cup Phases \subseteq 0 .. M \div 2 - TIMER_PERIOD
  /\ Tasks \cap Cycs = {} /\ Tasks \cap Alms = {} /\ Cycs \cap Alms = {}

VARIABLES
  current_time,         \* the low word of knl_current_time
  timer_queue,          \* knl_timer_queue
  time,                 \* the field time of each timer event block
  tsk, cyc, alm,        \* what the owners of the events know of them
  handler,              \* where knl_timer_handler is
  left

vars == <<current_time, timer_queue, time, tsk, cyc, alm, handler, left>>

\* Every task and handler has one timer event block.
Events == Tasks \cup Cycs \cup Alms

ABSTIM == 0 .. M - 1

ABSTIM_DIFF_MIN == M \div 2 - 1

CYCCB == [cychdr : BOOLEAN,             \* the handler exists
          phs : BOOLEAN,                \* TA_PHS
          cycstat : BOOLEAN,            \* TCYC_STA
          cyctim : RelTimes]

ALMCB == [almhdr : BOOLEAN, almstat : BOOLEAN]

\* A phase older than this is forgotten.
Lost == -ABSTIM_DIFF_MIN - 1

-----------------------------------------------------------------------------
(* timer.c, timer.h                                                        *)

knl_abstim_reached(curtim, evttim) == (curtim - evttim) % M <= ABSTIM_DIFF_MIN

\* Mutant: the queue is sorted by the bare values.
knl_enqueue_tmeb_Plain(q, e, tm) ==
  InsertBefore(q, TpriPosition(q, time, tm), e)

\* The queue q with event e at time tm, after the events of the same time.
knl_enqueue_tmeb(q, e, tm) ==
  LET ofs == (current_time - ABSTIM_DIFF_MIN) % M
      key == [x \in Events |-> (time[x] - ofs) % M]
  IN  InsertBefore(q, TpriPosition(q, key, (tm - ofs) % M), e)

\* Event e is put into q, for time tm; in truth it is due in d.
knl_timer_insert_abs(q, e, tm, d) ==
  /\ timer_queue' = knl_enqueue_tmeb(q, e, tm)
  /\ time' = [time EXCEPT ![e] = tm]
  /\ left' = [left EXCEPT ![e] = d]

\* To wait at least tmout, a period is added.
knl_timer_insert(e, tmout) ==
  knl_timer_insert_abs(timer_queue, e, (current_time + tmout + TIMER_PERIOD) % M,
                       tmout + TIMER_PERIOD)

\* Queue q is left; the time of e is not read again.
Disarm(q, e) ==
  /\ timer_queue' = q
  /\ time' = [time EXCEPT ![e] = 0]
  /\ left' = [left EXCEPT ![e] = 0]

\* Calls of tasks and handlers come when the timer handler does not run, or
\* while it runs a cyclic or alarm handler with interrupts enabled.
Callable == handler # "loop" /\ UNCHANGED <<current_time, handler>>

-----------------------------------------------------------------------------
(* wait.c, wait.h: waits with a time limit                                 *)

knl_make_wait(t, tmout) ==
  /\ handler = "none"
  /\ tsk[t] = "READY"
  /\ tsk' = [tsk EXCEPT ![t] = IF tmout = TMO_FEVR THEN "WAIT FOREVER" ELSE "WAIT"]
  /\ IF tmout = TMO_FEVR THEN UNCHANGED <<timer_queue, time, left>>
     ELSE knl_timer_insert(t, tmout)
  /\ UNCHANGED <<current_time, cyc, alm, handler>>

\* Something other than the timer ends the wait.
knl_wait_cancel(t) ==
  /\ Callable
  /\ tsk[t] # "READY"
  /\ tsk' = [tsk EXCEPT ![t] = "READY"]
  /\ Disarm(QueRemove(timer_queue, t), t)
  /\ UNCHANGED <<cyc, alm>>

-----------------------------------------------------------------------------
(* time_calls.c: cyclic handlers                                           *)

\* Mutant: the cycle that has begun is not added.
knl_cyc_next_time_Begun(tm0, cyctim) ==
  IF knl_abstim_reached(current_time, (tm0 + cyctim) % M)
  THEN ((((current_time - tm0) % M) \div cyctim) * cyctim + tm0) % M
  ELSE (tm0 + cyctim) % M

\* The next time of a handler that was last due at tm0, later than now.
knl_cyc_next_time(tm0, cyctim) ==
  IF knl_abstim_reached(current_time, (tm0 + cyctim) % M)
  THEN ((((current_time - tm0) % M) \div cyctim + 1) * cyctim + tm0) % M
  ELSE (tm0 + cyctim) % M

\* In truth: the first time after now that is one or more cycles after d.
NextDue(d, cyctim) == Min({d + n * cyctim : n \in 1 .. M} \cap 1 .. 2 * M)

\* A handler with phase 0 runs at once; its time is that of a first run.
tk_cre_cyc(c, phs, sta, cyctim, cycphs) ==
  LET tm  == (current_time + cycphs + TIMER_PERIOD) % M
      due == cycphs + TIMER_PERIOD
  IN  /\ Callable
      /\ ~cyc[c].cychdr
      /\ cyctim > 0
      /\ cyc' = [cyc EXCEPT ![c] = [cychdr |-> TRUE, phs |-> phs, cycstat |-> sta,
                                    cyctim |-> cyctim]]
      /\ \/ /\ sta /\ cycphs = 0
            /\ knl_timer_insert_abs(timer_queue, c, knl_cyc_next_time(tm, cyctim),
                                    due + cyctim)
         \/ /\ sta /\ cycphs > 0
            /\ knl_timer_insert_abs(timer_queue, c, tm, due)
         \/ /\ ~sta
            /\ time' = [time EXCEPT ![c] = tm]
            /\ left' = [left EXCEPT ![c] = due]
            /\ UNCHANGED timer_queue
      /\ UNCHANGED <<tsk, alm>>

tk_del_cyc(c) ==
  /\ Callable
  /\ cyc[c].cychdr
  /\ cyc' = [cyc EXCEPT ![c] = [@ EXCEPT !.cychdr = FALSE, !.cycstat = FALSE]]
  /\ Disarm(IF cyc[c].cycstat THEN QueRemove(timer_queue, c) ELSE timer_queue, c)
  /\ UNCHANGED <<tsk, alm>>

\* With TA_PHS the handler goes on in the phase it had.  It is assumed not to be
\* stopped for so long that the phase is lost.
tk_sta_cyc(c) ==
  LET q       == IF cyc[c].cycstat THEN QueRemove(timer_queue, c) ELSE timer_queue
      reached == knl_abstim_reached(current_time, time[c])
  IN  /\ Callable
      /\ cyc[c].cychdr
      /\ cyc' = [cyc EXCEPT ![c].cycstat = TRUE]
      /\ \/ /\ cyc[c].phs /\ cyc[c].cycstat
            /\ UNCHANGED <<timer_queue, time, left>>
         \/ /\ cyc[c].phs /\ ~cyc[c].cycstat /\ left[c] > Lost
            /\ knl_timer_insert_abs(timer_queue, c,
                 IF reached THEN knl_cyc_next_time(time[c], cyc[c].cyctim) ELSE time[c],
                 IF left[c] <= 0 THEN NextDue(left[c], cyc[c].cyctim) ELSE left[c])
         \/ /\ ~cyc[c].phs
            /\ knl_timer_insert_abs(q, c,
                 (current_time + cyc[c].cyctim + TIMER_PERIOD) % M,
                 cyc[c].cyctim + TIMER_PERIOD)
      /\ UNCHANGED <<tsk, alm>>

\* The time stays: it is the phase.
tk_stp_cyc(c) ==
  /\ Callable
  /\ cyc[c].cychdr
  /\ cyc' = [cyc EXCEPT ![c].cycstat = FALSE]
  /\ timer_queue' = IF cyc[c].cycstat THEN QueRemove(timer_queue, c) ELSE timer_queue
  /\ UNCHANGED <<time, tsk, alm, left>>

\* Mutant: the period that was added is not taken off again.
lfttim_Now(tm) ==
  IF knl_abstim_reached(current_time, tm) THEN 0
  ELSE (tm - current_time) % M

\* lfttim of tk_ref_cyc and tk_ref_alm: the period that was added does not show.
lfttim(tm) ==
  IF knl_abstim_reached((current_time + TIMER_PERIOD) % M, tm) THEN 0
  ELSE (tm - (current_time + TIMER_PERIOD)) % M

tk_ref_cyc(c) ==
  lfttim(IF ~cyc[c].cycstat /\ knl_abstim_reached(current_time, time[c])
         THEN knl_cyc_next_time(time[c], cyc[c].cyctim) ELSE time[c])

td_ref_cyc(c) == [cycstat |-> cyc[c].cycstat, lfttim |-> tk_ref_cyc(c)]

td_lst_cyc == {c \in Cycs : cyc[c].cychdr}

-----------------------------------------------------------------------------
(* time_calls.c: alarm handlers                                            *)

tk_cre_alm(a) ==
  /\ Callable
  /\ ~alm[a].almhdr
  /\ alm' = [alm EXCEPT ![a] = [almhdr |-> TRUE, almstat |-> FALSE]]
  /\ UNCHANGED <<timer_queue, time, tsk, cyc, left>>

tk_del_alm(a) ==
  /\ Callable
  /\ alm[a].almhdr
  /\ alm' = [alm EXCEPT ![a] = [almhdr |-> FALSE, almstat |-> FALSE]]
  /\ Disarm(IF alm[a].almstat THEN QueRemove(timer_queue, a) ELSE timer_queue, a)
  /\ UNCHANGED <<tsk, cyc>>

\* An alarm time of 0 calls the handler at once.
tk_sta_alm(a, almtim) ==
  LET q == IF alm[a].almstat THEN QueRemove(timer_queue, a) ELSE timer_queue
  IN  /\ Callable
      /\ alm[a].almhdr
      /\ \/ /\ almtim > 0
            /\ knl_timer_insert_abs(q, a, (current_time + almtim + TIMER_PERIOD) % M,
                                    almtim + TIMER_PERIOD)
            /\ alm' = [alm EXCEPT ![a].almstat = TRUE]
         \/ /\ almtim = 0
            /\ Disarm(q, a)
            /\ alm' = [alm EXCEPT ![a].almstat = FALSE]
      /\ UNCHANGED <<tsk, cyc>>

tk_stp_alm(a) ==
  /\ Callable
  /\ alm[a].almhdr /\ alm[a].almstat
  /\ Disarm(QueRemove(timer_queue, a), a)
  /\ alm' = [alm EXCEPT ![a].almstat = FALSE]
  /\ UNCHANGED <<tsk, cyc>>

tk_ref_alm(a) == IF alm[a].almstat THEN lfttim(time[a]) ELSE 0

td_ref_alm(a) == [almstat |-> alm[a].almstat, lfttim |-> tk_ref_alm(a)]

td_lst_alm == {a \in Alms : alm[a].almhdr}

-----------------------------------------------------------------------------
(* timer.c: the tick                                                       *)

\* The callbacks, with event e taken off the queue; q is the rest.
knl_wait_release_tmout(q, t) ==
  /\ tsk' = [tsk EXCEPT ![t] = "READY"]
  /\ Disarm(q, t)
  /\ handler' = "loop"
  /\ UNCHANGED <<cyc, alm>>

knl_call_cychdr(q, c) ==
  /\ knl_timer_insert_abs(q, c, knl_cyc_next_time(time[c], cyc[c].cyctim),
                          NextDue(left[c], cyc[c].cyctim))
  /\ handler' = "user"
  /\ UNCHANGED <<tsk, cyc, alm>>

\* Mutant: the alarm is not marked as stopped.
knl_call_almhdr_Started(q, a) ==
  /\ Disarm(q, a)
  /\ handler' = "user"
  /\ UNCHANGED <<tsk, cyc, alm>>

knl_call_almhdr(q, a) ==
  /\ alm' = [alm EXCEPT ![a].almstat = FALSE]
  /\ Disarm(q, a)
  /\ handler' = "user"
  /\ UNCHANGED <<tsk, cyc>>

\* The begin of knl_timer_handler.  In truth all events come closer, the
\* phases of stopped handlers too.
Tick ==
  /\ handler = "none"
  /\ current_time' = (current_time + TIMER_PERIOD) % M
  /\ left' = [e \in Events |->
                IF e \in Elems(timer_queue) \/ (e \in Cycs /\ cyc[e].cychdr)
                THEN Max({left[e] - TIMER_PERIOD, Lost}) ELSE left[e]]
  /\ handler' = "loop"
  /\ UNCHANGED <<timer_queue, time, tsk, cyc, alm>>

\* Mutant: the events of the next tick are taken too.
HeadReached_Next ==
  /\ timer_queue # << >>
  /\ knl_abstim_reached((current_time + TIMER_PERIOD) % M, time[Head(timer_queue)])

\* Whether the loop of knl_timer_handler goes on.
HeadReached ==
  /\ timer_queue # << >>
  /\ knl_abstim_reached(current_time, time[Head(timer_queue)])

\* One turn of the loop.
Fire ==
  LET e == Head(timer_queue)
      q == Tail(timer_queue)
  IN  /\ handler = "loop"
      /\ HeadReached
      /\ \/ e \in Tasks /\ knl_wait_release_tmout(q, e)
         \/ e \in Cycs /\ knl_call_cychdr(q, e)
         \/ e \in Alms /\ knl_call_almhdr(q, e)
      /\ UNCHANGED current_time

\* A cyclic or alarm handler returns to the loop; the loop ends.
Return ==
  /\ \/ handler = "user" /\ handler' = "loop"
     \/ handler = "loop" /\ ~HeadReached /\ handler' = "none"
  /\ UNCHANGED <<current_time, timer_queue, time, tsk, cyc, alm, left>>

-----------------------------------------------------------------------------

\* knl_timer_startup, and no handler exists.
Init ==
  /\ current_time = 0
  /\ timer_queue = << >>
  /\ time = [e \in Events |-> 0]
  /\ tsk = [t \in Tasks |-> "READY"]
  /\ \E n \in RelTimes :
       cyc = [c \in Cycs |-> [cychdr |-> FALSE, phs |-> FALSE, cycstat |-> FALSE,
                              cyctim |-> n]]
  /\ alm = [a \in Alms |-> [almhdr |-> FALSE, almstat |-> FALSE]]
  /\ handler = "none"
  /\ left = [e \in Events |-> 0]

Next ==
  \/ \E t \in Tasks : \/ \E n \in RelTimes \cup {TMO_FEVR} : knl_make_wait(t, n)
                      \/ knl_wait_cancel(t)
  \/ \E c \in Cycs :
       \/ \E phs, sta \in BOOLEAN, n \in RelTimes, p \in Phases :
            tk_cre_cyc(c, phs, sta, n, p)
       \/ tk_del_cyc(c)
       \/ tk_sta_cyc(c)
       \/ tk_stp_cyc(c)
  \/ \E a \in Alms : \/ tk_cre_alm(a)
                     \/ tk_del_alm(a)
                     \/ \E n \in RelTimes : tk_sta_alm(a, n)
                     \/ tk_stp_alm(a)
  \/ Tick
  \/ Fire
  \/ Return

Spec == Init /\ [][Next]_vars

-----------------------------------------------------------------------------
(* Properties                                                              *)

\* The state has its type, and the timer queue holds exactly the events that
\* tasks, cyclic and alarm handlers believe are set, each once: a stale event
\* would time out a task that waits for something else, or call a handler
\* that was deleted.
TypeOK ==
  /\ current_time \in ABSTIM /\ time \in [Events -> ABSTIM] /\ left \in [Events -> Int]
  /\ tsk \in [Tasks -> {"READY", "WAIT", "WAIT FOREVER"}]
  /\ cyc \in [Cycs -> CYCCB] /\ alm \in [Alms -> ALMCB]
  /\ handler \in {"none", "loop", "user"}
  /\ timer_queue \in Seq(Events) /\ Injective(timer_queue)
  /\ Elems(timer_queue) = {t \in Tasks : tsk[t] = "WAIT"}
                            \cup {c \in td_lst_cyc : td_ref_cyc(c).cycstat}
                            \cup {a \in td_lst_alm : td_ref_alm(a).almstat}

\* The wrapping time of every event in the queue stands for the time its owner
\* asked for, and a cyclic handler keeps its cycle and, with TA_PHS, its phase,
\* across wraps and stops (knl_cyc_next_time).
TimesExact ==
  \A e \in Elems(timer_queue) : time[e] = (current_time + left[e]) % M

\* knl_enqueue_tmeb keeps the queue in the order in which the events are due,
\* though their times wrap and time goes on between two insertions.
QueueInOrder == Sorted(timer_queue, left)

\* Nothing fires early, or later than the first tick at which it is due: no
\* event is hidden behind a later one or left for the next tick, also when
\* handlers set and stop events meanwhile.
FiresOnTime ==
  [][handler = "loop" /\ <<timer_queue, time>>' # <<timer_queue, time>> =>
       left[Head(timer_queue)] \in 1 - TIMER_PERIOD .. 0]_vars

\* tk_ref_cyc and tk_ref_alm tell the true time that is left, for a stopped
\* cyclic handler until its phase comes round.
LeftTimeExact ==
  LET Shown(d) == Max({d - TIMER_PERIOD, 0})
  IN  /\ \A a \in td_lst_alm : alm[a].almstat => td_ref_alm(a).lfttim = Shown(left[a])
      /\ \A c \in td_lst_cyc : left[c] > Lost =>
           td_ref_cyc(c).lfttim = Shown(IF ~cyc[c].cycstat /\ left[c] <= 0
                                 THEN NextDue(left[c], cyc[c].cyctim) ELSE left[c])
=============================================================================

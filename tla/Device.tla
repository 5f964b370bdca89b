------------------------------- MODULE Device -------------------------------
(***************************************************************************)
(* Device management: opening and closing, requests, waiting for requests, *)
(* and the abort of what is still going on when a descriptor is closed     *)
(* (device.c, deviceio.c), with drivers behind the simple driver interface *)
(* (msdrvif.c).                                                            *)
(*                                                                         *)
(* What the code does between LockDM and UnlockDM is one step.  A driver   *)
(* function runs without that lock, so a call of it lies between two       *)
(* steps; pc names the function the task is in.                            *)
(***************************************************************************)
EXTENDS Queue, Integers, FiniteSets, SequencesExt

CONSTANTS
  Tasks, NULL,
  Opns,          \* open control blocks, MAX_OPNDEV of them
  Reqs,          \* request control blocks, MAX_REQDEV of them
  OpenModes,     \* the open modes in use
  Units,         \* the unit numbers in use
  nsub,          \* subunits of the device
  MAX_DISSUS,    \* limit of the requests to disable suspension
  AllowAny       \* requests are executed while tk_wai_dev(dd, 0) waits for any

VARIABLE d       \* device management and where in it every task is

-----------------------------------------------------------------------------
(* Names: the letters of the physical device and the digits of the subunit *)

\* UNITNO: a unit number has eight bits.
Digits[n \in 0 .. 255] == IF n < 10 THEN <<n>> ELSE Append(Digits[n \div 10], n % 10)

\* No digits: the physical device, unit 0; digits n: unit n + 1.
logdevnm(unitno) == IF unitno = 0 THEN << >> ELSE Digits[unitno - 1]

knl_phydevnm(name) ==
  IF name = << >> THEN 0 ELSE FoldLeft(LAMBDA n, c : 10 * n + c, 0, name) + 1

-----------------------------------------------------------------------------

FreeTask == [pc |-> "idle", o |-> NULL, r |-> NULL]

FreeOpn == [q |-> "free", resid |-> 0, unitno |-> 0, omode |-> {}, requestq |-> << >>,
            waitone |-> 0, waireqlst |-> << >>, abort_tskid |-> NULL, abort_cnt |-> 0, sem |-> 0]

FreeReq == [opncb |-> NULL, tskid |-> NULL]

openq == {o \in Opns : d.opn[o].q = "open"}

nwaireq(o) == Len(d.opn[o].waireqlst)

\* Task t goes on to label l with descriptor o and request r; the rest of
\* device management becomes e.
Goto(t, l, o, r, e) ==
  d' = [e EXCEPT !.task[t] = [pc |-> l, o |-> o, r |-> r]]

Return(t, e) == d' = [e EXCEPT !.task[t] = FreeTask]

At(t, l) == d.task[t].pc = l

\* Descriptor o is open, in one of the modes if any are given.
knl_check_devdesc(o, mode) == d.opn[o].resid = 1 /\ (mode = {} \/ d.opn[o].omode \cap mode # {})

newOpnCB(e, o, unitno, omode) ==
  [e EXCEPT !.opn[o] = [FreeOpn EXCEPT !.q = "open", !.unitno = unitno, !.omode = omode]]

\* Descriptor o leaves its queues; it may be opened again once it is free.
knl_delOpnCB(e, o, free) ==
  [e EXCEPT !.opn[o] = [FreeOpn EXCEPT !.q = IF free THEN "free" ELSE "closing"]]

\* A free request is queued at o and marked with task t.
newReqCB(o, r, t) ==
  [d EXCEPT !.opn[o].requestq = QueInsert(@, r), !.req[r] = [opncb |-> o, tskid |-> t]]

knl_check_reqid(r, o) == d.req[r].opncb = o

\* Request r leaves its queue.
knl_delReqCB(e, r) ==
  LET o == e.req[r].opncb
  IN  [e EXCEPT !.opn[o].requestq = QueRemove(@, r), !.req[r] = FreeReq]

\* TRUE if the unit is open.
knl_chkopen(unitno) == \E o \in openq : d.opn[o].unitno = unitno

\* The new mode against the modes of everyone who has the unit open.
chkopenmode(unitno, omode) ==
  LET others == {d.opn[o].omode : o \in {p \in openq :
                   unitno = 0 \/ d.opn[p].unitno \in {0, unitno}}}
      InMode(bits) == \E m \in others : m \cap bits # {}
  IN  /\ omode \cap {"READ", "WRITE"} # {}
      /\ omode \cap {"EXCL", "REXCL"} # {} => ~InMode({"READ"})
      /\ omode \cap {"EXCL", "WEXCL"} # {} => ~InMode({"WRITE"})
      /\ "READ" \in omode => ~InMode({"EXCL", "REXCL"})
      /\ "WRITE" \in omode => ~InMode({"EXCL", "WEXCL"})

-----------------------------------------------------------------------------
(* Registration                                                            *)

\* openreq is the driver's attribute TDA_OPENREQ.  A second definition replaces
\* the first, while the device is open too.  Precondition: it names as many units
\* as the first; the code takes any number, and units above it may be open.
tk_def_dev(t, openreq) ==
  /\ At(t, "idle") /\ d.reg_lock = NULL
  /\ Return(t, [d EXCEPT !.registered = TRUE, !.openreq = openreq])

msdi_def_dev(t, openreq) == tk_def_dev(t, openreq)

\* msdi_del_dev: tk_def_dev without a definition.
msdi_del_dev(t) ==
  /\ At(t, "idle") /\ d.reg_lock = NULL
  /\ d.registered /\ openq = {}
  /\ Return(t, [d EXCEPT !.registered = FALSE])

\* The driver is told about an event.
tk_evt_dev(t) == At(t, "idle") /\ d.registered /\ Goto(t, "eventfn", NULL, NULL, d)

eventfn(t) == At(t, "eventfn") /\ Return(t, d)

\* tk_sus_dev: TD_DISSUS, TD_ENASUS and TD_SUSPEND, which TD_FORCE insists on.
TD_DISSUS(t) == At(t, "idle") /\ d.dissus < MAX_DISSUS /\ Return(t, [d EXCEPT !.dissus = @ + 1])

TD_ENASUS(t) == At(t, "idle") /\ d.dissus > 0 /\ Return(t, [d EXCEPT !.dissus = @ - 1])

TD_SUSPEND(t, force) ==
  /\ At(t, "idle") /\ (d.dissus = 0 \/ force)
  /\ Goto(t, "suspend", NULL, NULL, d)

\* Devices come and go only when nobody tells all of them about a suspension.
do_suspend(t) ==
  \/ At(t, "suspend") /\ d.reg_lock = NULL /\ Goto(t, "sendevt", NULL, NULL, [d EXCEPT !.reg_lock = t])
  \/ At(t, "sendevt") /\ Return(t, [d EXCEPT !.reg_lock = NULL])

-----------------------------------------------------------------------------
(* Opening                                                                 *)

\* The driver is called for the first who opens a unit, or for everybody.
tk_opn_dev(t, name, omode) ==
  LET unitno == knl_phydevnm(name)
  IN  /\ At(t, "idle")
      /\ d.registered /\ unitno <= nsub
      /\ chkopenmode(unitno, omode)
      /\ \E o \in Opns :
           /\ d.opn[o].q = "free"
           /\ Goto(t, IF knl_chkopen(unitno) /\ ~d.openreq THEN "opened" ELSE "openfn", o, NULL,
                   newOpnCB(d, o, unitno, omode))

\* openfn succeeds or fails; only a descriptor that is open can be used.
openfn(t) ==
  LET o == d.task[t].o
  IN  /\ At(t, "openfn")
      /\ Goto(t, "opened", o, NULL, d) \/ Return(t, knl_delOpnCB(d, o, TRUE))

Opened(t) == At(t, "opened") /\ Return(t, [d EXCEPT !.opn[d.task[t].o].resid = 1])

-----------------------------------------------------------------------------
(* Requests                                                                *)

\* A task leaves a driver function: one less for the aborting task to wait for.
CountDown(e, o) ==
  IF e.opn[o].abort_tskid = NULL THEN e
  ELSE [e EXCEPT !.opn[o].abort_cnt = @ - 1,
                 !.opn[o].sem = IF e.opn[o].abort_cnt = 1 THEN 1 ELSE @]

\* attr: attribute data, which every mode may access.  With sync the caller goes
\* on to wait for the request.  Precondition unless AllowAny: nobody waits for
\* any request of the descriptor; abort_allrequest would not count this one.
knl_request(t, o, cmd, attr, sync) ==
  /\ At(t, "idle")
  /\ knl_check_devdesc(o, IF attr THEN {} ELSE {cmd})
  /\ nwaireq(o) = 0 \/ AllowAny
  /\ \E r \in Reqs :
       /\ d.req[r].opncb = NULL
       /\ Goto(t, IF sync THEN "sexecfn" ELSE "execfn", o, r, newReqCB(o, r, t))

tk_rea_dev(t, o, attr) == knl_request(t, o, "READ", attr, FALSE)
tk_srea_dev(t, o, attr) == knl_request(t, o, "READ", attr, TRUE)
tk_wri_dev(t, o, attr) == knl_request(t, o, "WRITE", attr, FALSE)
tk_swri_dev(t, o, attr) == knl_request(t, o, "WRITE", attr, TRUE)

\* msdi_execfn has no function for the request (E_NOSPT), or the driver has
\* carried it out, with or without an error of the device.
execfn(t) ==
  LET o == d.task[t].o  r == d.task[t].r
      e == CountDown([d EXCEPT !.req[r].tskid = NULL], o)
  IN  \/ At(t, "execfn") /\ Return(t, e)
      \/ At(t, "sexecfn") /\ Goto(t, "sync", o, r, e)
      \/ (At(t, "execfn") \/ At(t, "sexecfn")) /\ Return(t, knl_delReqCB(e, r))

\* Mutant: the caller may wait for a request somebody else is working on.
tk_wai_dev_Shared(t, o, r) ==
  /\ At(t, "idle") \/ (At(t, "sync") /\ d.task[t].o = o /\ d.task[t].r = r)
  /\ knl_check_devdesc(o, {})
  /\ knl_check_reqid(r, o)
  /\ nwaireq(o) = 0
  /\ Goto(t, "waitfn", o, r, [d EXCEPT !.req[r].tskid = t, !.opn[o].waitone = @ + 1])

\* tk_wai_dev for one request.
tk_wai_dev(t, o, r) ==
  /\ At(t, "idle") \/ (At(t, "sync") /\ d.task[t].o = o /\ d.task[t].r = r)
  /\ knl_check_devdesc(o, {})
  /\ knl_check_reqid(r, o)
  /\ nwaireq(o) = 0 /\ d.req[r].tskid = NULL
  /\ Goto(t, "waitfn", o, r, [d EXCEPT !.req[r].tskid = t, !.opn[o].waitone = @ + 1])

\* The wait of tk_srea_dev and tk_swri_dev fails: closed, not the caller's any
\* more, or waited for by somebody else.
SyncFails(t) ==
  LET o == d.task[t].o  r == d.task[t].r
  IN  /\ At(t, "sync")
      /\ \/ ~knl_check_devdesc(o, {}) \/ ~knl_check_reqid(r, o)
         \/ nwaireq(o) > 0 \/ d.req[r].tskid # NULL
      /\ Return(t, d)

\* tk_wai_dev for any request of the descriptor: it waits for all that are
\* queued now, also those that are still being executed.
tk_wai_dev_any(t, o) ==
  LET list == d.opn[o].requestq
  IN  /\ At(t, "idle")
      /\ knl_check_devdesc(o, {})
      /\ nwaireq(o) = 0 /\ d.opn[o].waitone = 0
      /\ list # << >>
      /\ AllowAny \/ \A r \in Elems(list) : d.req[r].tskid = NULL
      /\ Goto(t, "waitany", o, NULL,
              [d EXCEPT !.req = [r \in Reqs |-> IF r \in Elems(list) THEN [@[r] EXCEPT !.tskid = t] ELSE @[r]],
                        !.opn[o].waireqlst = list])

\* msdi_waitfn names the first request of the list; waitfn of a driver that does
\* not use the simple interface may also fail (E_TMOUT).
WaitAnyDone(t) ==
  LET o == d.task[t].o
      list == d.opn[o].waireqlst
      e == CountDown([d EXCEPT !.opn[o].waireqlst = << >>,
                               !.req = [r \in Reqs |-> IF r \in Elems(list) THEN [@[r] EXCEPT !.tskid = NULL]
                                                                            ELSE @[r]]], o)
  IN  /\ At(t, "waitany")
      /\ Return(t, e) \/ Return(t, knl_delReqCB(e, Head(list)))

WaitDone(t) ==
  LET o == d.task[t].o  r == d.task[t].r
      e == CountDown([d EXCEPT !.opn[o].waitone = @ - 1, !.req[r].tskid = NULL], o)
  IN  /\ At(t, "waitfn")
      /\ Return(t, e) \/ Return(t, knl_delReqCB(e, r))

-----------------------------------------------------------------------------
(* Closing                                                                 *)

\* From here on the descriptor cannot be used.
tk_cls_dev(t, o) ==
  /\ At(t, "idle") /\ knl_check_devdesc(o, {})
  /\ Goto(t, "abort", o, NULL, [d EXCEPT !.opn[o].resid = 0])

\* Mutant: every request counts, those that are done included.
abort_allrequest_All(t) ==
  LET o == d.task[t].o
      n == IF nwaireq(o) > 0 THEN 1 ELSE Len(d.opn[o].requestq)
  IN  /\ At(t, "abort")
      /\ Goto(t, "aborted", o, NULL, [d EXCEPT !.opn[o].abort_tskid = t, !.opn[o].abort_cnt = n])

\* abortfn is called for every task that executes a request or waits for one,
\* once for a task that waits for several; msdi_abortfn does nothing.
abort_allrequest(t) ==
  LET o == d.task[t].o
      n == IF nwaireq(o) > 0 THEN 1
           ELSE Cardinality({r \in Elems(d.opn[o].requestq) : d.req[r].tskid # NULL})
  IN  /\ At(t, "abort")
      /\ Goto(t, "aborted", o, NULL, [d EXCEPT !.opn[o].abort_tskid = t, !.opn[o].abort_cnt = n])

\* The count is read without the lock.
WaitAborted(t) ==
  LET o == d.task[t].o
  IN  \/ At(t, "aborted")
         /\ Goto(t, IF d.opn[o].abort_cnt > 0 THEN "asleep" ELSE "awake", o, NULL, d)
      \/ At(t, "asleep") /\ d.opn[o].sem > 0
         /\ Goto(t, "awake", o, NULL, [d EXCEPT !.opn[o].sem = @ - 1])
      \/ At(t, "awake") /\ Goto(t, "drain", o, NULL, [d EXCEPT !.opn[o].abort_tskid = NULL])

\* What is left in the queue is waited for and dropped, one after the other.
Drain(t) ==
  LET o == d.task[t].o
      e == IF d.task[t].r = NULL THEN d ELSE knl_delReqCB(d, d.task[t].r)
      queue == e.opn[o].requestq
  IN  /\ At(t, "drain")
      /\ IF queue # << >> THEN Goto(t, "drain", o, Head(queue), e) ELSE Goto(t, "close", o, NULL, e)

\* The driver is called for the last who closes a unit, or for everybody.
knl_close_device(t) ==
  LET o == d.task[t].o
      last == \A p \in openq \ {o} : d.opn[p].unitno # d.opn[o].unitno
  IN  /\ At(t, "close")
      /\ Goto(t, IF last \/ d.openreq THEN "closefn" ELSE "closed", o, NULL,
              knl_delOpnCB(d, o, FALSE))

closefn(t) == At(t, "closefn") /\ Goto(t, "closed", d.task[t].o, NULL, d)

Closed(t) == At(t, "closed") /\ Return(t, knl_delOpnCB(d, d.task[t].o, TRUE))

-----------------------------------------------------------------------------

\* knl_initialize_devmgr.
Init ==
  d = [registered |-> FALSE, openreq |-> FALSE, reg_lock |-> NULL, dissus |-> 0,
       opn |-> [o \in Opns |-> FreeOpn], req |-> [r \in Reqs |-> FreeReq],
       task |-> [t \in Tasks |-> FreeTask]]

Call(t) ==
  \/ \E b \in BOOLEAN : msdi_def_dev(t, b) \/ TD_SUSPEND(t, b)
  \/ msdi_del_dev(t) \/ tk_evt_dev(t) \/ TD_DISSUS(t) \/ TD_ENASUS(t)
  \/ \E u \in Units, m \in OpenModes : tk_opn_dev(t, logdevnm(u), m)
  \/ \E o \in Opns, attr \in BOOLEAN : \/ tk_rea_dev(t, o, attr) \/ tk_srea_dev(t, o, attr)
                                       \/ tk_wri_dev(t, o, attr) \/ tk_swri_dev(t, o, attr)
  \/ \E o \in Opns, r \in Reqs : tk_wai_dev(t, o, r)
  \/ \E o \in Opns : tk_wai_dev_any(t, o) \/ tk_cls_dev(t, o)

Step(t) ==
  \/ eventfn(t) \/ do_suspend(t) \/ openfn(t) \/ Opened(t)
  \/ execfn(t) \/ SyncFails(t) \/ WaitDone(t) \/ WaitAnyDone(t)
  \/ abort_allrequest(t) \/ WaitAborted(t) \/ Drain(t)
  \/ knl_close_device(t) \/ closefn(t) \/ Closed(t)

Next == \E t \in Tasks : Call(t) \/ Step(t)

-----------------------------------------------------------------------------
(* Properties                                                              *)

\* What the reference calls report: the name of a unit, the unit of a name and
\* of a descriptor, and the devices, of which there is one.
tk_lst_dev == {u \in {0} : d.registered}
tk_get_dev(unitno) == logdevnm(unitno)
tk_ref_dev(name) == knl_phydevnm(name)
tk_oref_dev(o) == d.opn[o].unitno

\* The tasks that are inside a driver function for descriptor o.
Inside(o) == {t \in Tasks : d.task[t].o = o /\ d.task[t].pc \in {"execfn", "sexecfn", "waitfn", "waitany"}}

\* The requests task t works on.
Working(t) ==
  IF d.task[t].pc = "waitany" THEN Elems(d.opn[d.task[t].o].waireqlst) ELSE {d.task[t].r}

\* What a task uses inside a driver function is its own until it returns: the
\* descriptor is open, the request queued and marked with the task.  Requests
\* are queued at the descriptor they belong to, none is left behind at one that
\* is closed, and only a registered device is open, the unit by whose name it
\* was opened.  Nobody has a unit open in a mode that somebody else excludes.
InUse ==
  /\ \A o \in Opns : \A t \in Inside(o) :
       /\ d.opn[o].q = "open"
       /\ \A r \in Working(t) : d.req[r].opncb = o /\ d.req[r].tskid = t
  /\ \A o \in Opns :
       /\ Injective(d.opn[o].requestq)
       /\ Elems(d.opn[o].requestq) = {r \in Reqs : d.req[r].opncb = o}
  /\ openq # {} => tk_lst_dev # {}
  /\ \A o \in openq : tk_oref_dev(o) <= nsub /\ tk_ref_dev(tk_get_dev(tk_oref_dev(o))) = tk_oref_dev(o)
  /\ \A o, p \in openq :
       o # p /\ (d.opn[o].unitno = d.opn[p].unitno \/ d.opn[o].unitno = 0) =>
         /\ d.opn[o].omode \cap {"EXCL", "REXCL"} # {} => "READ" \notin d.opn[p].omode
         /\ d.opn[o].omode \cap {"EXCL", "WEXCL"} # {} => "WRITE" \notin d.opn[p].omode

\* "Unregister completed request" (deviceio.c:805): a request that is still
\* being executed stays registered.
CompletedUnregistered ==
  \A t \in Tasks : d.task[t].pc \in {"execfn", "sexecfn"} =>
    d.req[d.task[t].r].opncb = d.task[t].o

\* A closing task waits for exactly the tasks that are inside a driver function
\* on its descriptor: abort_cnt counts them, and the last one wakes it.
AbortAgrees ==
  \A o \in Opns : LET c == d.opn[o] IN c.abort_tskid # NULL =>
    /\ c.abort_cnt = Cardinality(Inside(o))
    /\ d.task[c.abort_tskid].pc = "asleep" => c.sem = 1 \/ c.abort_cnt > 0
=============================================================================

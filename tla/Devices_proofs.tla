--------------------------- MODULE Devices_proofs ---------------------------
(***************************************************************************)
(* What is proved of device management, lifted to the specification that   *)
(* has it beside the locks and the serial driver; and the serial driver.   *)
(***************************************************************************)
EXTENDS Devices, Integers, Sequences, FiniteSets, TLAPS

DP == INSTANCE Device_proofs WITH d <- x

\* While device management is in view, its invariant holds.
RequestsInv == kind = "requests" => x \in DP!DeviceState /\ DP!DeviceInv(x)

\* Both instances of device management are the same: names.
LEMMA SameNames ==
  /\ \A u : Dev!logdevnm(u) = DP!logdevnm(u)
  /\ \A n : Dev!knl_phydevnm(n) = DP!knl_phydevnm(n)
<1>1. Dev!Digits = DP!Digits
  BY Zenon DEF Dev!Digits, DP!Digits
<1>2. \A u : Dev!logdevnm(u) = DP!logdevnm(u)
  BY <1>1, Zenon DEF Dev!logdevnm, DP!logdevnm
<1>3. \A n : Dev!knl_phydevnm(n) = DP!knl_phydevnm(n)
  BY Zenon DEF Dev!knl_phydevnm, DP!knl_phydevnm, Dev!FoldLeft, DP!FoldLeft,
               Dev!MapThenFoldSet, DP!MapThenFoldSet, Dev!Max, DP!Max
<1> QED BY <1>2, <1>3

\* The operations on queues and the states they lead to.
LEMMA SameStates ==
  /\ \A q : Dev!Elems(q) = DP!Elems(q)
  /\ \A q, r : Dev!QueInsert(q, r) = DP!QueInsert(q, r)
  /\ \A q, r : Dev!QueRemove(q, r) = DP!QueRemove(q, r)
  /\ \A e, o, u, m : Dev!newOpnCB(e, o, u, m) = DP!newOpnCB(e, o, u, m)
  /\ \A e, o, b : Dev!knl_delOpnCB(e, o, b) = DP!knl_delOpnCB(e, o, b)
  /\ \A o, r, t : Dev!newReqCB(o, r, t) = DP!newReqCB(o, r, t)
  /\ \A e, r : Dev!knl_delReqCB(e, r) = DP!knl_delReqCB(e, r)
  /\ \A e, o : Dev!CountDown(e, o) = DP!CountDown(e, o)
  /\ \A t, l, o, r, e : Dev!Goto(t, l, o, r, e) <=> DP!Goto(t, l, o, r, e)
  /\ \A t, e : Dev!Return(t, e) <=> DP!Return(t, e)
  /\ \A t, l : Dev!At(t, l) <=> DP!At(t, l)
  /\ \A o, m : Dev!knl_check_devdesc(o, m) <=> DP!knl_check_devdesc(o, m)
  /\ \A r, o : Dev!knl_check_reqid(r, o) <=> DP!knl_check_reqid(r, o)
  /\ \A o : Dev!nwaireq(o) = DP!nwaireq(o)
  /\ \A u : Dev!knl_chkopen(u) <=> DP!knl_chkopen(u)
  /\ \A u, m : Dev!chkopenmode(u, m) <=> DP!chkopenmode(u, m)
  /\ Dev!openq = DP!openq
<1>1. \A q : Dev!Elems(q) = DP!Elems(q)
  BY Zenon DEF Dev!Elems, DP!Elems
<1>2. \A q, r : Dev!QueInsert(q, r) = DP!QueInsert(q, r)
  BY Zenon DEF Dev!QueInsert, DP!QueInsert
<1>3. \A q, r : Dev!QueRemove(q, r) = DP!QueRemove(q, r)
  BY <1>1, Zenon DEF Dev!QueRemove, DP!QueRemove
<1>4. \A e, o, u, m : Dev!newOpnCB(e, o, u, m) = DP!newOpnCB(e, o, u, m)
  BY Zenon DEF Dev!newOpnCB, DP!newOpnCB, Dev!FreeOpn, DP!FreeOpn
<1>5. \A e, o, b : Dev!knl_delOpnCB(e, o, b) = DP!knl_delOpnCB(e, o, b)
  BY Zenon DEF Dev!knl_delOpnCB, DP!knl_delOpnCB, Dev!FreeOpn, DP!FreeOpn
<1>6. \A o, r, t : Dev!newReqCB(o, r, t) = DP!newReqCB(o, r, t)
  BY <1>2, Zenon DEF Dev!newReqCB, DP!newReqCB
<1>7. \A e, r : Dev!knl_delReqCB(e, r) = DP!knl_delReqCB(e, r)
  BY <1>3, Zenon DEF Dev!knl_delReqCB, DP!knl_delReqCB, Dev!FreeReq, DP!FreeReq
<1>8. \A e, o : Dev!CountDown(e, o) = DP!CountDown(e, o)
  BY Zenon DEF Dev!CountDown, DP!CountDown
<1>9. \A t, l, o, r, e : Dev!Goto(t, l, o, r, e) <=> DP!Goto(t, l, o, r, e)
  BY Zenon DEF Dev!Goto, DP!Goto
<1>10. \A t, e : Dev!Return(t, e) <=> DP!Return(t, e)
  BY Zenon DEF Dev!Return, DP!Return, Dev!FreeTask, DP!FreeTask
<1>11. \A t, l : Dev!At(t, l) <=> DP!At(t, l)
  BY Zenon DEF Dev!At, DP!At
<1>12. \A o, m : Dev!knl_check_devdesc(o, m) <=> DP!knl_check_devdesc(o, m)
  BY Zenon DEF Dev!knl_check_devdesc, DP!knl_check_devdesc
<1>13. \A r, o : Dev!knl_check_reqid(r, o) <=> DP!knl_check_reqid(r, o)
  BY Zenon DEF Dev!knl_check_reqid, DP!knl_check_reqid
<1>14. \A o : Dev!nwaireq(o) = DP!nwaireq(o)
  BY Zenon DEF Dev!nwaireq, DP!nwaireq
<1>15. \A u : Dev!knl_chkopen(u) <=> DP!knl_chkopen(u)
  BY Zenon DEF Dev!knl_chkopen, DP!knl_chkopen, Dev!openq, DP!openq
<1>16. \A u, m : Dev!chkopenmode(u, m) <=> DP!chkopenmode(u, m)
  BY Zenon DEF Dev!chkopenmode, DP!chkopenmode, Dev!openq, DP!openq
<1>17. Dev!openq = DP!openq
  BY Zenon DEF Dev!openq, DP!openq
<1> QED BY <1>1, <1>2, <1>3, <1>4, <1>5, <1>6, <1>7, <1>8, <1>9, <1>10, <1>11, <1>12, <1>13, <1>14, <1>15, <1>16, <1>17

\* And the steps.
LEMMA SameSteps ==
  ASSUME Dev!Next PROVE DP!Next
<1>0. \A S : Dev!Cardinality(S) = DP!Cardinality(S)
  BY Zenon DEF Dev!Cardinality, DP!Cardinality
<1>1. \A t, b : Dev!tk_def_dev(t, b) => DP!tk_def_dev(t, b)
  BY SameStates, Zenon DEF Dev!tk_def_dev, DP!tk_def_dev
<1>2. \A t, b : Dev!msdi_def_dev(t, b) => DP!msdi_def_dev(t, b)
  BY SameStates, <1>1, Zenon DEF Dev!msdi_def_dev, DP!msdi_def_dev
<1>3. \A t : Dev!msdi_del_dev(t) => DP!msdi_del_dev(t)
  BY SameStates, Zenon DEF Dev!msdi_del_dev, DP!msdi_del_dev
<1>4. \A t : Dev!tk_evt_dev(t) => DP!tk_evt_dev(t)
  BY SameStates, Zenon DEF Dev!tk_evt_dev, DP!tk_evt_dev
<1>5. \A t : Dev!eventfn(t) => DP!eventfn(t)
  BY SameStates, Zenon DEF Dev!eventfn, DP!eventfn
<1>6. \A t : Dev!TD_DISSUS(t) => DP!TD_DISSUS(t)
  BY SameStates, Zenon DEF Dev!TD_DISSUS, DP!TD_DISSUS
<1>7. \A t : Dev!TD_ENASUS(t) => DP!TD_ENASUS(t)
  BY SameStates, Zenon DEF Dev!TD_ENASUS, DP!TD_ENASUS
<1>8. \A t, b : Dev!TD_SUSPEND(t, b) => DP!TD_SUSPEND(t, b)
  BY SameStates, Zenon DEF Dev!TD_SUSPEND, DP!TD_SUSPEND
<1>9. \A t : Dev!do_suspend(t) => DP!do_suspend(t)
  BY SameStates, Zenon DEF Dev!do_suspend, DP!do_suspend
<1>10. \A t, n, m : Dev!tk_opn_dev(t, n, m) => DP!tk_opn_dev(t, n, m)
  BY SameStates, SameNames, Zenon DEF Dev!tk_opn_dev, DP!tk_opn_dev
<1>11. \A t : Dev!openfn(t) => DP!openfn(t)
  BY SameStates, Zenon DEF Dev!openfn, DP!openfn
<1>12. \A t : Dev!Opened(t) => DP!Opened(t)
  BY SameStates, Zenon DEF Dev!Opened, DP!Opened
<1>13. ASSUME NEW t1, NEW o1, NEW c1, NEW b1, NEW y1, Dev!knl_request(t1, o1, c1, b1, y1) PROVE DP!knl_request(t1, o1, c1, b1, y1)
  <2>1. /\ \A t, l : Dev!At(t, l) <=> DP!At(t, l)
        /\ \A o, m : Dev!knl_check_devdesc(o, m) <=> DP!knl_check_devdesc(o, m)
        /\ \A o : Dev!nwaireq(o) = DP!nwaireq(o)
        /\ \A o, r, t : Dev!newReqCB(o, r, t) = DP!newReqCB(o, r, t)
        /\ \A t, l, o, r, e : Dev!Goto(t, l, o, r, e) <=> DP!Goto(t, l, o, r, e)
    BY SameStates, Zenon
  <2> QED
    BY <1>13, <2>1, Zenon DEF Dev!knl_request, DP!knl_request
<1>14. \A t, o, b : Dev!tk_rea_dev(t, o, b) => DP!tk_rea_dev(t, o, b)
  BY SameStates, <1>13, Zenon DEF Dev!tk_rea_dev, DP!tk_rea_dev
<1>15. \A t, o, b : Dev!tk_srea_dev(t, o, b) => DP!tk_srea_dev(t, o, b)
  BY SameStates, <1>13, Zenon DEF Dev!tk_srea_dev, DP!tk_srea_dev
<1>16. \A t, o, b : Dev!tk_wri_dev(t, o, b) => DP!tk_wri_dev(t, o, b)
  BY SameStates, <1>13, Zenon DEF Dev!tk_wri_dev, DP!tk_wri_dev
<1>17. \A t, o, b : Dev!tk_swri_dev(t, o, b) => DP!tk_swri_dev(t, o, b)
  BY SameStates, <1>13, Zenon DEF Dev!tk_swri_dev, DP!tk_swri_dev
<1>18. \A t : Dev!execfn(t) => DP!execfn(t)
  BY SameStates, Zenon DEF Dev!execfn, DP!execfn
<1>19. ASSUME NEW t1, NEW o1, NEW r1, Dev!tk_wai_dev(t1, o1, r1) PROVE DP!tk_wai_dev(t1, o1, r1)
  <2>1. /\ \A t, l : Dev!At(t, l) <=> DP!At(t, l)
        /\ \A o, m : Dev!knl_check_devdesc(o, m) <=> DP!knl_check_devdesc(o, m)
        /\ \A r, o : Dev!knl_check_reqid(r, o) <=> DP!knl_check_reqid(r, o)
        /\ \A o : Dev!nwaireq(o) = DP!nwaireq(o)
        /\ \A t, l, o, r, e : Dev!Goto(t, l, o, r, e) <=> DP!Goto(t, l, o, r, e)
    BY SameStates, Zenon
  <2> QED
    BY <1>19, <2>1, Zenon DEF Dev!tk_wai_dev, DP!tk_wai_dev
<1>20. \A t : Dev!SyncFails(t) => DP!SyncFails(t)
  BY SameStates, Zenon DEF Dev!SyncFails, DP!SyncFails
<1>21. \A t, o : Dev!tk_wai_dev_any(t, o) => DP!tk_wai_dev_any(t, o)
  BY SameStates, Zenon DEF Dev!tk_wai_dev_any, DP!tk_wai_dev_any
<1>22. \A t : Dev!WaitAnyDone(t) => DP!WaitAnyDone(t)
  BY SameStates, Zenon DEF Dev!WaitAnyDone, DP!WaitAnyDone
<1>23. \A t : Dev!WaitDone(t) => DP!WaitDone(t)
  BY SameStates, Zenon DEF Dev!WaitDone, DP!WaitDone
<1>24. \A t, o : Dev!tk_cls_dev(t, o) => DP!tk_cls_dev(t, o)
  BY SameStates, Zenon DEF Dev!tk_cls_dev, DP!tk_cls_dev
<1>25. \A t : Dev!abort_allrequest(t) => DP!abort_allrequest(t)
  BY SameStates, <1>0, Zenon DEF Dev!abort_allrequest, DP!abort_allrequest
<1>26. \A t : Dev!WaitAborted(t) => DP!WaitAborted(t)
  BY SameStates, Zenon DEF Dev!WaitAborted, DP!WaitAborted
<1>27. \A t : Dev!Drain(t) => DP!Drain(t)
  BY SameStates, Zenon DEF Dev!Drain, DP!Drain
<1>28. \A t : Dev!knl_close_device(t) => DP!knl_close_device(t)
  BY SameStates, Zenon DEF Dev!knl_close_device, DP!knl_close_device
<1>29. \A t : Dev!closefn(t) => DP!closefn(t)
  BY SameStates, Zenon DEF Dev!closefn, DP!closefn
<1>30. \A t : Dev!Closed(t) => DP!Closed(t)
  BY SameStates, Zenon DEF Dev!Closed, DP!Closed
<1>31. \A t : Dev!Call(t) => DP!Call(t)
  BY SameNames, <1>2, <1>8, <1>3, <1>4, <1>6, <1>7, <1>10, <1>14, <1>15, <1>16, <1>17, <1>19, <1>21, <1>24, Zenon DEF
         Dev!Call, DP!Call
<1>32. \A t : Dev!Step(t) => DP!Step(t)
  BY <1>5, <1>9, <1>11, <1>12, <1>18, <1>20, <1>23, <1>22, <1>25, <1>26, <1>27, <1>28, <1>29, <1>30, Zenon DEF
         Dev!Step, DP!Step
<1> QED
  BY <1>31, <1>32, Zenon DEF Dev!Next, DP!Next

\* And what is proved of them.
LEMMA SameClaims ==
  /\ DP!AbortAgrees => Dev!AbortAgrees
  /\ DP!InUse => Dev!InUse
<1>1. \A S : Dev!Cardinality(S) = DP!Cardinality(S)
  BY Zenon DEF Dev!Cardinality, DP!Cardinality
<1>2. \A o : Dev!Inside(o) = DP!Inside(o)
  BY Zenon DEF Dev!Inside, DP!Inside
<1>3. DP!AbortAgrees => Dev!AbortAgrees
  BY <1>1, <1>2, Zenon DEF Dev!AbortAgrees, DP!AbortAgrees
<1>4. \A t : Dev!Working(t) = DP!Working(t)
  BY SameStates, Zenon DEF Dev!Working, DP!Working
<1>5. /\ Dev!tk_lst_dev = DP!tk_lst_dev
      /\ \A o : Dev!tk_oref_dev(o) = DP!tk_oref_dev(o)
      /\ \A u : Dev!tk_get_dev(u) = DP!tk_get_dev(u)
      /\ \A n : Dev!tk_ref_dev(n) = DP!tk_ref_dev(n)
  BY SameNames, Zenon DEF
         Dev!tk_lst_dev, DP!tk_lst_dev, Dev!tk_oref_dev, DP!tk_oref_dev,
         Dev!tk_get_dev, DP!tk_get_dev, Dev!tk_ref_dev, DP!tk_ref_dev
<1>6. \A q : Dev!Injective(q) <=> DP!Injective(q)
  BY Zenon DEF Dev!Injective, DP!Injective
<1>7. DP!InUse => Dev!InUse
  BY <1>2, <1>4, <1>5, <1>6, SameStates, Zenon DEF Dev!InUse, DP!InUse
<1> QED BY <1>3, <1>7

\* The invariant of device management holds as long as it is in view.
LEMMA RequestsInvariance ==
  ASSUME IsFiniteSet(Tasks), ~AllowAny
  PROVE  Spec => []RequestsInv
<1>0. DP!Setting
  BY DevicesAssumption, Zenon DEF DP!Setting, DevicesAssumption, IsFiniteSet, DP!IsFiniteSet
<1>1. Init => RequestsInv
  <2>1. ASSUME Init, kind = "requests" PROVE DP!Init
    BY <2>1, Zenon DEF Init, Dev!Init, DP!Init, Dev!FreeOpn, DP!FreeOpn, Dev!FreeReq, DP!FreeReq,
                       Dev!FreeTask, DP!FreeTask
  <2> QED BY <1>0, <2>1, DP!DeviceStarts DEF RequestsInv
<1>2. RequestsInv /\ [Next]_vars => RequestsInv'
  <2>1. CASE UNCHANGED vars
    BY <2>1, Zenon DEF RequestsInv, vars
  <2>2. CASE Next
    <3>1. kind' = kind /\ (kind = "requests" => Dev!Next)
      BY <2>2 DEF Next
    <3> QED BY <1>0, <3>1, SameSteps, DP!DeviceKeeps DEF RequestsInv
  <2> QED BY <2>1, <2>2
<1> QED BY <1>1, <1>2, PTL DEF Spec

\* tk_cls_dev: a closing task sleeps exactly as long as somebody is inside a
\* driver function on its descriptor, and the last one wakes it; for any finite
\* set of tasks, and any descriptors and requests, as long as no request is started
\* while tk_wai_dev(dd, 0) waits for any of them.
THEOREM AbortCorrect ==
  ASSUME IsFiniteSet(Tasks), ~AllowAny
  PROVE  Spec => []AbortAgrees
<1>1. RequestsInv => AbortAgrees
  BY DP!DeviceCounts, SameClaims DEF RequestsInv, AbortAgrees
<1> QED BY <1>1, RequestsInvariance, PTL

\* What a task uses inside a driver function stays its own until it returns,
\* nothing is left queued at a closed descriptor, open modes never exclude each
\* other, and the name of a unit leads back to it: for any finite set of tasks and
\* for all the 256 unit numbers there are.
THEOREM InUseCorrect ==
  ASSUME IsFiniteSet(Tasks), ~AllowAny
  PROVE  Spec => []InUse
<1>1. DP!Setting /\ Units \subseteq 0 .. 255
  BY DevicesAssumption, Zenon DEF DP!Setting, DevicesAssumption, IsFiniteSet, DP!IsFiniteSet
<1>2. RequestsInv => InUse
  BY <1>1, DP!DeviceUses, SameClaims DEF RequestsInv, InUse
<1> QED BY <1>2, RequestsInvariance, PTL

-----------------------------------------------------------------------------
(* The serial driver.                                                      *)

\* What a place in a buffer holds: a byte, or nothing.
Bytes == (0 .. N - 1) \cup {NULL}

\* The ring buffers.
Ring == [top : 0 .. BUFFSIZE - 1, tail : 0 .. BUFFSIZE - 1, wait_tskid : Pair \cup {NULL},
         data : [0 .. BUFFSIZE - 1 -> Bytes]]

\* The states of driver and UART.
SerialState ==
  [snd : Ring, rcv : Ring, com_error : SUBSET {"ROVR", "OE"}, omode : SUBSET {"snd", "rcv"},
   started : BOOLEAN, rx : Seq(Bytes), tx : Seq(Bytes), rxerr : SUBSET {"OE"},
   in : 0 .. N - 1, out : 0 .. N - 1, txie : BOOLEAN, txraw : BOOLEAN, slack : BOOLEAN,
   owner : Pair \cup {NULL}, cmd : {"rcv", "snd"}, size : Nat,
   pc : [Pair -> {"out", "loop", "sleep", "asleep"}], wupcnt : [Pair -> 0 .. MaxWup]]

\* Task t will be woken, and there is nothing to read or no place to write.
Waits(e, t) ==
  /\ e[e.cmd].wait_tskid = t
  /\ IF e.cmd = "rcv" THEN Ser!IsEmpty(e.rcv) ELSE Ser!IsFull(e.snd)

\* Only one task is inside a request, and the line is open then.
Seated(e) ==
  \A t \in Pair : e.pc[t] # "out" => e.owner = t /\ e.started

\* Who sleeps waits for something; who is about to sleep does, or will be
\* woken at once.
Asleep(e) ==
  \A t \in Pair : /\ e.pc[t] = "sleep" => e.wupcnt[t] > 0 \/ Waits(e, t)
                  /\ e.pc[t] = "asleep" => Waits(e, t)

\* What the transmit FIFO leaves behind has the interrupt that fetches it.
Fed(e) == e.started /\ (~Ser!IsEmpty(e.snd) \/ Len(e.tx) >= FIFO) => e.txie

\* The event of an empty FIFO is old only if one byte was written since, and
\* then the handler runs next: it never masks the event of a full FIFO.
Latched(e) ==
  e.txraw => /\ Len(e.tx) <= 1
             /\ Len(e.tx) = 1 => e.started /\ e.txie /\ ~e.slack /\ Ser!IsEmpty(e.snd)


\* The state of a ring but for the task that waits at it.
SameRing(b, c) == b.top = c.top /\ b.tail = c.tail /\ b.data = c.data

\* What the assumptions say about the sizes.
LEMMA Sizes == /\ BUFFSIZE \in Nat /\ BUFFSIZE > 1 /\ FIFO \in Nat /\ BUFFSIZE <= FIFO
               /\ N \in Nat /\ N > 0 /\ MaxWup \in Nat /\ MaxWup > 0 /\ NULL \notin Pair
BY DevicesAssumption DEF DevicesAssumption

\* A position past the end of the ring goes on at its beginning.
LEMMA Wrap ==
  ASSUME NEW a \in Nat, a < BUFFSIZE + BUFFSIZE
  PROVE  a % BUFFSIZE = IF a < BUFFSIZE THEN a ELSE a - BUFFSIZE
<1> DEFINE n == BUFFSIZE  p == a \div n  r == a % n
<1>1. n \in Nat /\ n > 1
  BY Sizes
<1> HIDE DEF n
<1>2. p \in Int /\ r \in 0 .. n - 1 /\ a = p * n + r
  BY <1>1
<1> HIDE DEF p, r
<1>3. p >= 2 => p * n >= n + n
  BY <1>1, <1>2
<1>4. p <= -1 => p * n <= -n
  BY <1>1, <1>2
<1>5. p = 0 \/ p = 1
  BY <1>1, <1>2, <1>3, <1>4 DEF n
<1> QED BY <1>1, <1>2, <1>5 DEF n, r

\* How many bytes a ring holds.
LEMMA CountFacts ==
  ASSUME NEW b \in Ring
  PROVE  /\ Ser!Count(b) \in 0 .. BUFFSIZE - 1
         /\ Ser!IsEmpty(b) <=> Ser!Count(b) = 0
         /\ Ser!IsFull(b) <=> Ser!Count(b) = BUFFSIZE - 1
         /\ Ser!Contents(b) \in Seq(Bytes) /\ Len(Ser!Contents(b)) = Ser!Count(b)
<1>1. /\ Ser!Count(b) \in 0 .. BUFFSIZE - 1
      /\ Ser!IsEmpty(b) <=> Ser!Count(b) = 0
      /\ Ser!IsFull(b) <=> Ser!Count(b) = BUFFSIZE - 1
  BY Sizes DEF Ring, Ser!Count, Ser!IsEmpty, Ser!IsFull, Ser!Next1
<1>2. \A i \in 1 .. Ser!Count(b) : b.data[(b.tail + i - 1) % BUFFSIZE] \in Bytes
  <2> TAKE i \in 1 .. Ser!Count(b)
  <2>1. b.tail + i - 1 \in Nat /\ b.tail + i - 1 < BUFFSIZE + BUFFSIZE
    BY <1>1, Sizes DEF Ring
  <2>2. (b.tail + i - 1) % BUFFSIZE \in 0 .. BUFFSIZE - 1
    BY <2>1, Wrap, Sizes
  <2> QED BY <2>2 DEF Ring
<1>3. Ser!Contents(b) \in Seq(Bytes) /\ Len(Ser!Contents(b)) = Ser!Count(b)
  BY <1>1, <1>2 DEF Ser!Contents
<1> QED BY <1>1, <1>3

\* Where a byte lies in the ring.
LEMMA ContentsAt ==
  ASSUME NEW b \in Ring, NEW i \in 1 .. Ser!Count(b)
  PROVE  Ser!Contents(b)[i] = b.data[IF b.tail + i - 1 < BUFFSIZE THEN b.tail + i - 1
                                     ELSE b.tail + i - 1 - BUFFSIZE]
<1>1. b.tail + i - 1 \in Nat /\ b.tail + i - 1 < BUFFSIZE + BUFFSIZE
  BY CountFacts, Sizes DEF Ring
<1>2. Ser!Contents(b)[i] = b.data[(b.tail + i - 1) % BUFFSIZE]
  BY DEF Ser!Contents
<1> DEFINE a == b.tail + i - 1
<1>3. a % BUFFSIZE = IF a < BUFFSIZE THEN a ELSE a - BUFFSIZE
  BY <1>1, Wrap
<1>4. Ser!Contents(b)[i] = b.data[a % BUFFSIZE]
  BY <1>2
<1> HIDE DEF a
<1>5. /\ a < BUFFSIZE => Ser!Contents(b)[i] = b.data[a]
      /\ ~(a < BUFFSIZE) => Ser!Contents(b)[i] = b.data[a - BUFFSIZE]
  BY <1>3, <1>4
<1>6. b.tail \in Int /\ i \in Int /\ BUFFSIZE \in Int
  BY CountFacts, Sizes DEF Ring
<1> QED BY <1>5, <1>6 DEF a

\* The waiting task makes no difference to the bytes.
LEMMA SameRingFacts ==
  ASSUME NEW b, NEW c, SameRing(b, c)
  PROVE  /\ Ser!Contents(b) = Ser!Contents(c) /\ Ser!Count(b) = Ser!Count(c)
         /\ Ser!IsEmpty(b) <=> Ser!IsEmpty(c)
         /\ Ser!IsFull(b) <=> Ser!IsFull(c)
<1>1. Ser!Count(b) = Ser!Count(c)
  BY Zenon DEF SameRing, Ser!Count
<1>2. Ser!Contents(b) = Ser!Contents(c)
  BY <1>1, Zenon DEF SameRing, Ser!Contents
<1> QED BY <1>1, <1>2, Zenon DEF SameRing, Ser!IsEmpty, Ser!IsFull

\* A byte is added at the end.
LEMMA PutFacts ==
  ASSUME NEW b \in Ring, NEW y \in Bytes, ~Ser!IsFull(b)
  PROVE  /\ Ser!Put(b, y) \in Ring /\ Ser!Put(b, y).wait_tskid = b.wait_tskid
         /\ Ser!Count(Ser!Put(b, y)) = Ser!Count(b) + 1
         /\ Ser!Contents(Ser!Put(b, y)) = Append(Ser!Contents(b), y)
<1> DEFINE c == Ser!Put(b, y)
<1>1. c \in Ring /\ c.wait_tskid = b.wait_tskid
  <2>1. b.top \in 0 .. BUFFSIZE - 1 /\ Ser!Next1(b.top) \in 0 .. BUFFSIZE - 1
    BY Sizes DEF Ring, Ser!Next1
  <2>2. [b.data EXCEPT ![b.top] = y] \in [0 .. BUFFSIZE - 1 -> Bytes]
    BY <2>1 DEF Ring
  <2> QED BY <2>1, <2>2 DEF Ring, Ser!Put
<1>2. Ser!Count(c) = Ser!Count(b) + 1
  BY Sizes DEF Ring, Ser!Put, Ser!Next1, Ser!Count, Ser!IsFull
<1>3. c.tail = b.tail /\ c.data[b.top] = y /\ b.top \in 0 .. BUFFSIZE - 1
      /\ \A j \in 0 .. BUFFSIZE - 1 : j # b.top => c.data[j] = b.data[j]
  BY DEF Ser!Put, Ring
<1> HIDE DEF c
<1>4. ASSUME NEW i \in 1 .. Ser!Count(b) + 1
      PROVE  Ser!Contents(c)[i] = Append(Ser!Contents(b), y)[i]
  <2>0. Ser!Count(b) \in Nat /\ Ser!Count(b) < BUFFSIZE - 1
    BY CountFacts, Sizes
  <2> DEFINE p == IF b.tail + i - 1 < BUFFSIZE THEN b.tail + i - 1 ELSE b.tail + i - 1 - BUFFSIZE
  <2>1. Ser!Contents(c)[i] = c.data[p]
    BY <1>1, <1>2, <1>3, <1>4, ContentsAt
  <2>2. p \in 0 .. BUFFSIZE - 1
    BY <1>4, <2>0, Sizes DEF Ring
  <2>3. CASE i = Ser!Count(b) + 1
    <3>1. p = b.top
      BY <2>3, <2>0, Sizes DEF Ring, Ser!Count
    <3> QED BY <1>3, <2>1, <2>3, <3>1, CountFacts
  <2>4. CASE i # Ser!Count(b) + 1
    <3>0. i \in 1 .. Ser!Count(b)
      BY <2>0, <2>4
    <3>1. p # b.top
      BY <3>0, <2>0, Sizes DEF Ring, Ser!Count
    <3>2. Ser!Contents(b)[i] = b.data[p]
      BY <3>0, ContentsAt
    <3> QED BY <1>3, <2>1, <2>2, <3>0, <3>1, <3>2, CountFacts
  <2> QED BY <2>3, <2>4
<1>5. /\ Ser!Contents(c) \in Seq(Bytes) /\ Len(Ser!Contents(c)) = Ser!Count(b) + 1
      /\ Ser!Contents(b) \in Seq(Bytes) /\ Len(Ser!Contents(b)) = Ser!Count(b)
      /\ Ser!Count(b) \in Nat
  BY <1>1, <1>2, CountFacts
<1>6. Ser!Contents(c) = Append(Ser!Contents(b), y)
  BY <1>4, <1>5
<1> QED BY <1>1, <1>2, <1>6 DEF c

\* The first byte is taken out.
LEMMA DropFacts ==
  ASSUME NEW b \in Ring, ~Ser!IsEmpty(b)
  PROVE  /\ Ser!Drop(b) \in Ring /\ Ser!Drop(b).wait_tskid = b.wait_tskid
         /\ Ser!Count(Ser!Drop(b)) = Ser!Count(b) - 1
         /\ Ser!Contents(b) # << >>
         /\ Ser!Contents(Ser!Drop(b)) = Tail(Ser!Contents(b))
         /\ Head(Ser!Contents(b)) = b.data[b.tail]
<1> DEFINE c == Ser!Drop(b)
<1>1. c \in Ring /\ c.wait_tskid = b.wait_tskid
  <2>1. b.tail \in 0 .. BUFFSIZE - 1 /\ Ser!Next1(b.tail) \in 0 .. BUFFSIZE - 1
    BY Sizes DEF Ring, Ser!Next1
  <2>2. [b.data EXCEPT ![b.tail] = NULL] \in [0 .. BUFFSIZE - 1 -> Bytes]
    BY <2>1 DEF Ring, Bytes
  <2> QED BY <2>1, <2>2 DEF Ring, Ser!Drop
<1>2. Ser!Count(c) = Ser!Count(b) - 1
  BY Sizes DEF Ring, Ser!Drop, Ser!Next1, Ser!Count, Ser!IsEmpty
<1>3. /\ c.tail = IF b.tail + 1 >= BUFFSIZE THEN 0 ELSE b.tail + 1
      /\ b.tail \in 0 .. BUFFSIZE - 1
      /\ \A j \in 0 .. BUFFSIZE - 1 : j # b.tail => c.data[j] = b.data[j]
  BY DEF Ser!Drop, Ring, Ser!Next1
<1> HIDE DEF c
<1>0. Ser!Count(b) \in 1 .. BUFFSIZE - 1
  BY CountFacts, Sizes
<1>4. ASSUME NEW i \in 1 .. Ser!Count(b) - 1
      PROVE  Ser!Contents(c)[i] = Ser!Contents(b)[i + 1]
  <2> DEFINE p == IF b.tail + i < BUFFSIZE THEN b.tail + i ELSE b.tail + i - BUFFSIZE
  <2>1. Ser!Contents(c)[i] = c.data[p]
    BY <1>0, <1>1, <1>2, <1>3, <1>4, ContentsAt, Sizes
  <2>2. p \in 0 .. BUFFSIZE - 1 /\ p # b.tail
    BY <1>0, <1>3, <1>4, Sizes
  <2>3. i + 1 \in 1 .. Ser!Count(b) /\ b.tail + (i + 1) - 1 = b.tail + i
    BY <1>0, <1>3, <1>4
  <2>4. Ser!Contents(b)[i + 1] = b.data[p]
    BY <2>3, ContentsAt
  <2> QED BY <1>3, <2>1, <2>2, <2>4
<1>5. /\ Ser!Contents(c) \in Seq(Bytes) /\ Len(Ser!Contents(c)) = Ser!Count(b) - 1
      /\ Ser!Contents(b) \in Seq(Bytes) /\ Len(Ser!Contents(b)) = Ser!Count(b)
  BY <1>1, <1>2, CountFacts
<1>6. Ser!Contents(c) = Tail(Ser!Contents(b)) /\ Ser!Contents(b) # << >>
  BY <1>0, <1>4, <1>5
<1>7. Head(Ser!Contents(b)) = b.data[b.tail]
  <2>1. Ser!Contents(b)[1] = b.data[b.tail]
    <3>1. 1 \in 1 .. Ser!Count(b) /\ b.tail + 1 - 1 = b.tail /\ b.tail < BUFFSIZE
      BY <1>0, <1>3, Sizes
    <3> QED BY <3>1, ContentsAt
  <2> QED BY <1>0, <1>5, <2>1
<1> QED BY <1>1, <1>2, <1>6, <1>7 DEF c

\* What waking a task leaves alone.
Undisturbed(e, f) ==
  /\ f.omode = e.omode /\ f.started = e.started
  /\ f.rx = e.rx /\ f.rxerr = e.rxerr /\ f.in = e.in /\ f.out = e.out
  /\ f.txie = e.txie /\ f.txraw = e.txraw /\ f.slack = e.slack
  /\ f.owner = e.owner /\ f.cmd = e.cmd /\ f.size = e.size

\* tk_wup_tsk of the task that waits at a ring.
LEMMA WakeupFacts ==
  ASSUME NEW e \in SerialState, NEW b \in {"snd", "rcv"}
  PROVE  LET f == Ser!Wakeup(e, b)
         IN  /\ f \in SerialState /\ Undisturbed(e, f) /\ f.tx = e.tx /\ f.com_error = e.com_error
             /\ SameRing(f.snd, e.snd) /\ SameRing(f.rcv, e.rcv)
             /\ f.snd.wait_tskid = IF b = "snd" THEN NULL ELSE e.snd.wait_tskid
             /\ f.rcv.wait_tskid = IF b = "rcv" THEN NULL ELSE e.rcv.wait_tskid
             /\ \A t \in Pair :
                  /\ f.pc[t] = e.pc[t] \/ (e.pc[t] = "asleep" /\ f.pc[t] = "loop")
                  /\ e.wupcnt[t] > 0 => f.wupcnt[t] > 0
                  /\ t = e[b].wait_tskid => /\ f.pc[t] # "asleep"
                                            /\ f.pc[t] = "sleep" => f.wupcnt[t] > 0
<1> DEFINE f == Ser!Wakeup(e, b)
           t == e[b].wait_tskid
           g == IF e.pc[t] = "asleep" THEN [e EXCEPT !.pc[t] = "loop"]
                ELSE [e EXCEPT !.wupcnt[t] = IF @ < MaxWup THEN @ + 1 ELSE @]
<1>0. t \in Pair \cup {NULL}
  BY DEF SerialState, Ring
<1>1. CASE t = NULL
  <2>1. f = e
    BY <1>1 DEF Ser!Wakeup
  <2> HIDE DEF f
  <2>2. e.snd.wait_tskid = e["snd"].wait_tskid /\ e.rcv.wait_tskid = e["rcv"].wait_tskid
    OBVIOUS
  <2>3. NULL \notin Pair
    BY Sizes
  <2> QED BY <1>1, <2>1, <2>2, <2>3 DEF Undisturbed, SameRing, f
<1>2. CASE t # NULL
  <2>0. t \in Pair
    BY <1>0, <1>2
  <2>1. f = [g EXCEPT ![b].wait_tskid = NULL]
    BY <1>2 DEF Ser!Wakeup
  <2>2. /\ g \in SerialState /\ Undisturbed(e, g) /\ g.tx = e.tx /\ g.com_error = e.com_error /\ g.snd = e.snd /\ g.rcv = e.rcv
        /\ \A u \in Pair :
                  /\ g.pc[u] = e.pc[u] \/ (e.pc[u] = "asleep" /\ g.pc[u] = "loop")
                  /\ e.wupcnt[u] > 0 => g.wupcnt[u] > 0
                  /\ u = t => /\ g.pc[u] # "asleep"
                              /\ g.pc[u] = "sleep" => g.wupcnt[u] > 0
    <3>1. CASE e.pc[t] = "asleep"
      <4>1. g = [e EXCEPT !.pc[t] = "loop"]
        BY <3>1
      <4> HIDE DEF g, t
      <4> QED BY <2>0, <3>1, <4>1 DEF SerialState, Undisturbed
    <3>2. CASE e.pc[t] # "asleep"
      <4> DEFINE w == [e.wupcnt EXCEPT ![t] = IF @ < MaxWup THEN @ + 1 ELSE @]
      <4>1. g = [e EXCEPT !.wupcnt = w]
        BY <3>2
      <4>2. w \in [Pair -> 0 .. MaxWup] /\ w[t] > 0 /\ \A u \in Pair : e.wupcnt[u] > 0 => w[u] > 0
        BY <2>0, Sizes DEF SerialState
      <4> HIDE DEF g, t, w
      <4> QED BY <2>0, <3>2, <4>1, <4>2 DEF SerialState, Undisturbed
    <3> QED BY <3>1, <3>2
  <2> HIDE DEF g, t, f
  <2>3. /\ f \in SerialState /\ Undisturbed(g, f) /\ f.tx = g.tx /\ f.com_error = g.com_error /\ f.pc = g.pc /\ f.wupcnt = g.wupcnt
        /\ SameRing(f.snd, g.snd) /\ SameRing(f.rcv, g.rcv)
        /\ f.snd.wait_tskid = IF b = "snd" THEN NULL ELSE g.snd.wait_tskid
        /\ f.rcv.wait_tskid = IF b = "rcv" THEN NULL ELSE g.rcv.wait_tskid
    <3>1. CASE b = "snd"
      <4>1. f = [g EXCEPT !.snd = [@ EXCEPT !.wait_tskid = NULL]]
        BY <2>1, <3>1
      <4>2. [g.snd EXCEPT !.wait_tskid = NULL] \in Ring
        BY <2>2 DEF SerialState, Ring
      <4> QED BY <2>2, <3>1, <4>1, <4>2 DEF SerialState, Undisturbed, SameRing, Ring
    <3>2. CASE b = "rcv"
      <4>1. f = [g EXCEPT !.rcv = [@ EXCEPT !.wait_tskid = NULL]]
        BY <2>1, <3>2
      <4>2. [g.rcv EXCEPT !.wait_tskid = NULL] \in Ring
        BY <2>2 DEF SerialState, Ring
      <4> QED BY <2>2, <3>2, <4>1, <4>2 DEF SerialState, Undisturbed, SameRing, Ring
    <3> QED BY <3>1, <3>2
  <2>4. Undisturbed(e, f)
    BY <2>2, <2>3 DEF Undisturbed
  <2> QED BY <2>2, <2>3, <2>4, Zenon DEF f, t
<1> QED BY <1>1, <1>2

\* Everybody who sleeps is about to be woken or waits for something.
Calm(e) == e \in SerialState /\ Seated(e) /\ Asleep(e)

\* Waking whoever waits at a ring whose contents have changed is enough.
LEMMA WakeupCalms ==
  ASSUME NEW e \in SerialState, NEW g \in SerialState, NEW b \in {"snd", "rcv"}, Seated(e), Asleep(e),
         g.pc = e.pc, g.wupcnt = e.wupcnt, g.owner = e.owner, g.started = e.started, g.cmd = e.cmd,
         g.snd.wait_tskid = e.snd.wait_tskid, g.rcv.wait_tskid = e.rcv.wait_tskid,
         b = "snd" => SameRing(g.rcv, e.rcv), b = "rcv" => SameRing(g.snd, e.snd)
  PROVE  Calm(Ser!Wakeup(g, b))
<1> DEFINE f == Ser!Wakeup(g, b)
<1>1. /\ f \in SerialState /\ Undisturbed(g, f)
      /\ SameRing(f.snd, g.snd) /\ SameRing(f.rcv, g.rcv)
      /\ f.snd.wait_tskid = IF b = "snd" THEN NULL ELSE g.snd.wait_tskid
      /\ f.rcv.wait_tskid = IF b = "rcv" THEN NULL ELSE g.rcv.wait_tskid
      /\ \A t \in Pair :
           /\ f.pc[t] = g.pc[t] \/ (g.pc[t] = "asleep" /\ f.pc[t] = "loop")
           /\ g.wupcnt[t] > 0 => f.wupcnt[t] > 0
           /\ t = g[b].wait_tskid => /\ f.pc[t] # "asleep"
                                     /\ f.pc[t] = "sleep" => f.wupcnt[t] > 0
  BY WakeupFacts
<1> HIDE DEF f
<1>2. Seated(f)
  BY <1>1 DEF Seated, Undisturbed
<1>3. /\ b = "snd" => (Ser!IsEmpty(f.rcv) <=> Ser!IsEmpty(e.rcv))
      /\ b = "rcv" => (Ser!IsFull(f.snd) <=> Ser!IsFull(e.snd))
  <2>1. b = "snd" => SameRing(f.rcv, e.rcv)
    BY <1>1 DEF SameRing
  <2>2. b = "rcv" => SameRing(f.snd, e.snd)
    BY <1>1 DEF SameRing
  <2> QED BY <2>1, <2>2, SameRingFacts
<1>4. f.cmd = e.cmd /\ e.cmd \in {"rcv", "snd"}
  BY <1>1 DEF Undisturbed, SerialState
<1>5. ASSUME NEW t \in Pair, Waits(e, t), e.cmd # b
      PROVE  Waits(f, t)
  <2>1. CASE e.cmd = "rcv"
    BY <1>1, <1>3, <1>4, <1>5, <2>1 DEF Waits
  <2>2. CASE e.cmd = "snd"
    BY <1>1, <1>3, <1>4, <1>5, <2>2 DEF Waits
  <2> QED BY <1>4, <2>1, <2>2
<1>6. ASSUME NEW t \in Pair, Waits(e, t), e.cmd = b
      PROVE  t = g[b].wait_tskid
  <2>1. CASE b = "rcv"
    BY <1>6, <2>1 DEF Waits
  <2>2. CASE b = "snd"
    BY <1>6, <2>2 DEF Waits
  <2> QED BY <2>1, <2>2
<1>7. Asleep(f)
  <2> SUFFICES ASSUME NEW t \in Pair
               PROVE  /\ f.pc[t] = "sleep" => f.wupcnt[t] > 0 \/ Waits(f, t)
                      /\ f.pc[t] = "asleep" => Waits(f, t)
    BY DEF Asleep
  <2>1. /\ f.pc[t] = "sleep" => e.pc[t] = "sleep"
        /\ f.pc[t] = "asleep" => e.pc[t] = "asleep"
    BY <1>1
  <2>2. /\ e.pc[t] = "sleep" => e.wupcnt[t] > 0 \/ Waits(e, t)
        /\ e.pc[t] = "asleep" => Waits(e, t)
    BY DEF Asleep
  <2>3. e.wupcnt[t] > 0 => f.wupcnt[t] > 0
    BY <1>1
  <2> QED BY <1>1, <1>5, <1>6, <2>1, <2>2, <2>3
<1> QED BY <1>1, <1>2, <1>7 DEF Calm, f

\* A received byte.
LEMMA NotifyFacts ==
  ASSUME NEW e, Calm(e), NEW y \in Bytes
  PROVE  LET f == Ser!dev_ser_notify_rcv(e, y)
         IN  /\ Calm(f) /\ Undisturbed(e, f) /\ f.tx = e.tx
             /\ SameRing(f.snd, e.snd) /\ e.com_error \subseteq f.com_error
             /\ IF Ser!IsFull(e.rcv) THEN SameRing(f.rcv, e.rcv) /\ "ROVR" \in f.com_error
                ELSE Ser!Contents(f.rcv) = Append(Ser!Contents(e.rcv), y)
<1> DEFINE g == IF Ser!IsFull(e.rcv) THEN [e EXCEPT !.com_error = @ \cup {"ROVR"}]
                ELSE [e EXCEPT !.rcv = Ser!Put(@, y)]
           f == Ser!Wakeup(g, "rcv")
<1>1. f = Ser!dev_ser_notify_rcv(e, y)
  BY DEF Ser!dev_ser_notify_rcv
<1>2. e \in SerialState /\ Seated(e) /\ Asleep(e) /\ e.rcv \in Ring
  BY DEF Calm, SerialState
<1>3. /\ g \in SerialState /\ g.pc = e.pc /\ g.wupcnt = e.wupcnt /\ g.snd = e.snd
      /\ g.rcv.wait_tskid = e.rcv.wait_tskid
      /\ Undisturbed(e, g) /\ g.tx = e.tx /\ e.com_error \subseteq g.com_error
      /\ IF Ser!IsFull(e.rcv) THEN g.rcv = e.rcv /\ "ROVR" \in g.com_error
         ELSE Ser!Contents(g.rcv) = Append(Ser!Contents(e.rcv), y)
  <2>1. CASE Ser!IsFull(e.rcv)
    <3>1. g = [e EXCEPT !.com_error = @ \cup {"ROVR"}]
      BY <2>1
    <3> HIDE DEF g
    <3> QED BY <1>2, <2>1, <3>1 DEF SerialState, Undisturbed
  <2>2. CASE ~Ser!IsFull(e.rcv)
    <3> DEFINE b == Ser!Put(e.rcv, y)
    <3>1. g = [e EXCEPT !.rcv = b]
      BY <2>2
    <3>2. b \in Ring /\ b.wait_tskid = e.rcv.wait_tskid /\ Ser!Contents(b) = Append(Ser!Contents(e.rcv), y)
      BY <1>2, <2>2, PutFacts
    <3> HIDE DEF g, b
    <3> QED BY <1>2, <2>2, <3>1, <3>2 DEF SerialState, Undisturbed
  <2> QED BY <2>1, <2>2
<1> HIDE DEF g
<1>4. e.started = g.started /\ e.owner = g.owner /\ e.cmd = g.cmd /\ SameRing(g.snd, e.snd)
  BY <1>2, <1>3 DEF Undisturbed, SerialState, SameRing
<1>5. Calm(f)
  BY <1>2, <1>3, <1>4, WakeupCalms, "rcv" \in {"snd", "rcv"}, "rcv" # "snd"
<1>6. Undisturbed(g, f) /\ f.tx = g.tx /\ f.com_error = g.com_error /\ SameRing(f.snd, g.snd) /\ SameRing(f.rcv, g.rcv)
  BY <1>3, WakeupFacts
<1> HIDE DEF f
<1>7. Undisturbed(e, f) /\ f.tx = e.tx
  BY <1>2, <1>3, <1>6 DEF Undisturbed, SerialState
<1>8. SameRing(f.snd, e.snd) /\ e.com_error \subseteq f.com_error
  BY <1>3, <1>6 DEF Undisturbed, SameRing
<1>9. IF Ser!IsFull(e.rcv) THEN SameRing(f.rcv, e.rcv) /\ "ROVR" \in f.com_error
      ELSE Ser!Contents(f.rcv) = Append(Ser!Contents(e.rcv), y)
  <2>1. f.com_error = g.com_error /\ Ser!Contents(f.rcv) = Ser!Contents(g.rcv)
    BY <1>6, SameRingFacts DEF Undisturbed
  <2> QED BY <1>3, <1>6, <2>1
<1> QED BY <1>1, <1>5, <1>7, <1>8, <1>9

\* A byte that goes to the FIFO.
LEMMA GetFacts ==
  ASSUME NEW e, Calm(e), ~Ser!IsEmpty(e.snd)
  PROVE  LET f == Ser!dev_ser_get_snddat(e)
         IN  /\ Calm(f) /\ Undisturbed(e, f) /\ SameRing(f.rcv, e.rcv) /\ f.com_error = e.com_error
             /\ f.tx = Append(e.tx, Head(Ser!Contents(e.snd)))
             /\ Ser!Contents(f.snd) = Tail(Ser!Contents(e.snd))
             /\ Ser!Count(f.snd) = Ser!Count(e.snd) - 1
<1> DEFINE y == e.snd.data[e.snd.tail]
           b == Ser!Drop(e.snd)
           g == [e EXCEPT !.tx = Append(@, y), !.snd = b]
           f == Ser!Wakeup(g, "snd")
<1>1. f = Ser!dev_ser_get_snddat(e)
  BY DEF Ser!dev_ser_get_snddat
<1>2. e \in SerialState /\ Seated(e) /\ Asleep(e) /\ e.snd \in Ring
  BY DEF Calm, SerialState
<1>3. /\ b \in Ring /\ b.wait_tskid = e.snd.wait_tskid
      /\ Ser!Contents(b) = Tail(Ser!Contents(e.snd)) /\ Head(Ser!Contents(e.snd)) = y
      /\ Ser!Count(b) = Ser!Count(e.snd) - 1
  BY <1>2, DropFacts
<1>4. y \in Bytes
  BY <1>2 DEF Ring
<1> HIDE DEF b, y
<1>5. /\ g \in SerialState /\ g.pc = e.pc /\ g.wupcnt = e.wupcnt /\ g.rcv = e.rcv /\ g.snd = b
      /\ Undisturbed(e, g) /\ g.tx = Append(e.tx, y) /\ g.com_error = e.com_error
  <2>1. Append(e.tx, y) \in Seq(Bytes)
    BY <1>2, <1>4 DEF SerialState
  <2> QED BY <1>2, <1>3, <2>1 DEF SerialState, Undisturbed
<1> HIDE DEF g
<1>6. e.started = g.started /\ e.owner = g.owner /\ e.cmd = g.cmd /\ SameRing(g.rcv, e.rcv)
  BY <1>2, <1>5 DEF Undisturbed, SerialState, SameRing
<1>7. Calm(f)
  BY <1>2, <1>3, <1>5, <1>6, WakeupCalms, "snd" \in {"snd", "rcv"}, "rcv" # "snd"
<1>8. Undisturbed(g, f) /\ f.tx = g.tx /\ f.com_error = g.com_error /\ SameRing(f.snd, g.snd) /\ SameRing(f.rcv, g.rcv)
  BY <1>5, WakeupFacts
<1> HIDE DEF f
<1>9. Undisturbed(e, f) /\ f.com_error = e.com_error /\ f.tx = Append(e.tx, y) /\ SameRing(f.rcv, e.rcv)
  BY <1>2, <1>5, <1>8 DEF Undisturbed, SerialState, SameRing
<1>10. Ser!Contents(f.snd) = Ser!Contents(b) /\ Ser!Count(f.snd) = Ser!Count(b)
  BY <1>5, <1>8, SameRingFacts
<1> QED BY <1>1, <1>3, <1>7, <1>9, <1>10

\* One sequence of bytes after another.
LEMMA Concat ==
  ASSUME NEW u \in Seq(Bytes), NEW v \in Seq(Bytes)
  PROVE  /\ u \o v \in Seq(Bytes) /\ Len(u \o v) = Len(u) + Len(v)
         /\ \A j \in 1 .. Len(u) : (u \o v)[j] = u[j]
         /\ \A i \in 1 .. Len(v) : (u \o v)[Len(u) + i] = v[i] /\ v[i] \in Bytes
<1>1. u \o v \in Seq(Bytes) /\ Len(u \o v) = Len(u) + Len(v)
  OBVIOUS
<1>2. \A j \in 1 .. Len(u) : (u \o v)[j] = u[j]
  OBVIOUS
<1>3. \A i \in 1 .. Len(v) : (u \o v)[Len(u) + i] = v[i]
  OBVIOUS
<1>4. \A i \in 1 .. Len(v) : v[i] \in Bytes
  OBVIOUS
<1> QED BY <1>1, <1>2, <1>3, <1>4

\* Adding at the end and taking from the front of two sequences in a row.
LEMMA AppendConcat ==
  ASSUME NEW u \in Seq(Bytes), NEW v \in Seq(Bytes), NEW y \in Bytes
  PROVE  u \o Append(v, y) = Append(u \o v, y)
<1> DEFINE a == u \o Append(v, y)  b == Append(u \o v, y)
<1>1. a \in Seq(Bytes) /\ Len(a) = Len(u) + (Len(v) + 1) /\ Len(u) \in Nat /\ Len(v) \in Nat
  OBVIOUS
<1>2. b \in Seq(Bytes) /\ Len(b) = Len(u) + Len(v) + 1
  OBVIOUS
<1>3. ASSUME NEW j \in 1 .. Len(u) + (Len(v) + 1)
      PROVE  a[j] = b[j]
  <2>1. CASE j <= Len(u)
    BY <2>1
  <2>2. CASE j > Len(u) /\ j <= Len(u) + Len(v)
    BY <2>2
  <2>3. CASE j = Len(u) + Len(v) + 1
    BY <2>3
  <2> QED BY <1>1, <2>1, <2>2, <2>3
<1> HIDE DEF a, b
<1>4. a = b
  BY <1>1, <1>2, <1>3
<1> QED BY <1>4 DEF a, b

\* Taking from the front.
LEMMA TailConcat ==
  ASSUME NEW u \in Seq(Bytes), NEW v \in Seq(Bytes), u # << >>
  PROVE  u \o v # << >> /\ Tail(u) \o v = Tail(u \o v)
<1> DEFINE a == Tail(u) \o v  b == Tail(u \o v)
<1>1. Len(u) \in Nat /\ Len(u) >= 1 /\ Len(v) \in Nat /\ Tail(u) \in Seq(Bytes) /\ Len(Tail(u)) = Len(u) - 1
  OBVIOUS
<1>2. a \in Seq(Bytes) /\ Len(a) = Len(u) - 1 + Len(v)
  BY <1>1
<1>3. u \o v \in Seq(Bytes) /\ Len(u \o v) = Len(u) + Len(v) /\ u \o v # << >>
  BY <1>1
<1>4. b \in Seq(Bytes) /\ Len(b) = Len(u) + Len(v) - 1
  BY <1>1, <1>3
<1>5. ASSUME NEW j \in 1 .. Len(u) + Len(v) - 1
      PROVE  a[j] = b[j]
  <2>1. b[j] = (u \o v)[j + 1]
    BY <1>1, <1>3
  <2>2. CASE j <= Len(u) - 1
    BY <1>1, <2>1, <2>2
  <2>3. CASE j > Len(u) - 1
    BY <1>1, <2>1, <2>3
  <2> QED BY <1>1, <2>2, <2>3
<1> HIDE DEF a, b
<1>6. a = b
  BY <1>1, <1>2, <1>4, <1>5
<1> QED BY <1>3, <1>6 DEF a, b

\* Sending as the loop of uart_inthdr runs it: the state after each turn.
LEMMA RefillTurns ==
  ASSUME NEW e, NEW n \in Nat,
         n = IF FIFO - Len(e.tx) < Ser!Count(e.snd) THEN FIFO - Len(e.tx) ELSE Ser!Count(e.snd)
  PROVE  \E a : /\ a[0] = e
                /\ \A i \in 1 .. n : a[i] = Ser!dev_ser_get_snddat(a[i - 1])
                /\ Ser!Refill(e) = a[n]
<1> DEFINE F(y, i) == Ser!dev_ser_get_snddat(y)
<1> DEFINE Run(f, m) == f = [i \in 0 .. m |-> IF i = 0 THEN e ELSE F(f[i - 1], i)]
           B == {m \in 0 .. n : ~ \E f : Run(f, m)}
           after == CHOOSE f : Run(f, n)
<1>1. Ser!Refill(e) = after[n]
  BY Zenon DEF Ser!Refill
<1> HIDE DEF F
<1>2. \E f : Run(f, 0)
  <2> DEFINE f == [i \in 0 .. 0 |-> e]
  <2>1. Run(f, 0)
    OBVIOUS
  <2> QED BY <2>1
<1>3. ASSUME NEW m \in Nat, NEW f, Run(f, m)
      PROVE  \E g : Run(g, m + 1)
  <2> DEFINE g == [i \in 0 .. m + 1 |-> IF i <= m THEN f[i] ELSE F(f[m], m + 1)]
  <2>1. ASSUME NEW i \in 0 .. m + 1
        PROVE  g[i] = IF i = 0 THEN e ELSE F(g[i - 1], i)
    <3>1. CASE i = m + 1
      <4>1. g[i] = F(f[m], m + 1) /\ g[i - 1] = f[m] /\ i # 0
        BY <3>1
      <4> QED BY <3>1, <4>1
    <3>2. CASE i # m + 1
      <4>1. i \in 0 .. m /\ g[i] = f[i] /\ (i # 0 => i - 1 \in 0 .. m /\ g[i - 1] = f[i - 1])
        BY <3>2
      <4>2. f[i] = IF i = 0 THEN e ELSE F(f[i - 1], i)
        BY <1>3, <4>1
      <4> QED BY <4>1, <4>2
    <3> QED BY <3>1, <3>2
  <2>2. Run(g, m + 1)
    BY <2>1
  <2> QED BY <2>2
<1> HIDE DEF Run
<1>4. B = {}
  <2> SUFFICES ASSUME B # {}
               PROVE  FALSE
    OBVIOUS
  <2>1. PICK m \in B : \A z \in B : m <= z
    BY DP!MinimumExists
  <2>2. m # 0 /\ m \in Nat /\ m - 1 \in 0 .. n /\ m - 1 \notin B
    BY <1>2, <2>1
  <2>3. \E f : Run(f, m - 1)
    BY <2>2
  <2>4. m - 1 \in Nat /\ (m - 1) + 1 = m
    BY <2>2
  <2> QED BY <1>3, <2>1, <2>3, <2>4
<1>5. Run(after, n)
  BY <1>4
<1>6. \A i \in 0 .. n : after[i] = IF i = 0 THEN e ELSE F(after[i - 1], i)
  BY <1>5 DEF Run
<1> HIDE DEF after
<1>7. after[0] = e /\ \A i \in 1 .. n : after[i] = F(after[i - 1], i)
  BY <1>6
<1> QED BY <1>1, <1>7 DEF F

\* Refilling the FIFO when all that is in the ring buffer fits in.
LEMMA RefillFacts ==
  ASSUME NEW e, Calm(e), Len(e.tx) + Ser!Count(e.snd) <= FIFO
  PROVE  LET f == Ser!Refill(e)
         IN  /\ Calm(f) /\ Undisturbed(e, f) /\ SameRing(f.rcv, e.rcv) /\ f.com_error = e.com_error
             /\ Ser!IsEmpty(f.snd) /\ f.tx = e.tx \o Ser!Contents(e.snd)
<1> DEFINE c == Ser!Contents(e.snd)
           n == Ser!Count(e.snd)
<1>1. /\ e \in SerialState /\ e.snd \in Ring /\ c \in Seq(Bytes) /\ Len(c) = n /\ n \in 0 .. BUFFSIZE - 1
      /\ e.tx \in Seq(Bytes)
  BY CountFacts DEF Calm, SerialState
<1>2. n = IF FIFO - Len(e.tx) < n THEN FIFO - Len(e.tx) ELSE n
  BY <1>1, Sizes
<1>3. PICK a : /\ a[0] = e
               /\ \A i \in 1 .. n : a[i] = Ser!dev_ser_get_snddat(a[i - 1])
               /\ Ser!Refill(e) = a[n]
  BY <1>1, <1>2, RefillTurns
<1> DEFINE Good(i) == /\ Calm(a[i]) /\ Undisturbed(e, a[i]) /\ SameRing(a[i].rcv, e.rcv)
                      /\ a[i].com_error = e.com_error
                      /\ Ser!Count(a[i].snd) = n - i
                      /\ Ser!Contents(a[i].snd) = SubSeq(c, i + 1, n)
                      /\ a[i].tx = e.tx \o SubSeq(c, 1, i)
           B == {i \in 0 .. n : ~Good(i)}
<1>4. Good(0)
  <2>1. SubSeq(c, 0 + 1, n) = c /\ e.tx \o SubSeq(c, 1, 0) = e.tx
    BY <1>1
  <2>2. Undisturbed(e, e)
    BY <1>1 DEF Undisturbed, SerialState
  <2>3. n - 0 = n
    BY <1>1
  <2> QED BY <1>1, <1>3, <2>1, <2>2, <2>3 DEF SameRing
<1> HIDE DEF c, n
<1>5. ASSUME NEW i \in 1 .. n, Good(i - 1)
      PROVE  Good(i)
  <2> DEFINE g == a[i - 1]  f == a[i]
  <2>0. n \in Nat /\ n - (i - 1) > 0 /\ i \in Nat /\ i >= 1 /\ i <= n /\ i - 1 + 1 = i
    BY <1>1, <1>5
  <2>1. f = Ser!dev_ser_get_snddat(g)
    BY <1>3
  <2>2. Calm(g) /\ g.snd \in Ring /\ Ser!Count(g.snd) = n - (i - 1) /\ Ser!Contents(g.snd) = SubSeq(c, i, n)
        /\ g.tx = e.tx \o SubSeq(c, 1, i - 1) /\ g \in SerialState
        /\ Undisturbed(e, g) /\ SameRing(g.rcv, e.rcv) /\ g.com_error = e.com_error
    BY <1>5, <2>0 DEF Calm, SerialState
  <2> HIDE DEF Good, g, f
  <2>3. ~Ser!IsEmpty(g.snd)
    BY <2>0, <2>2, CountFacts
  <2>4. /\ Calm(f) /\ Undisturbed(g, f) /\ SameRing(f.rcv, g.rcv) /\ f.com_error = g.com_error
        /\ f.tx = Append(g.tx, Head(Ser!Contents(g.snd)))
        /\ Ser!Contents(f.snd) = Tail(Ser!Contents(g.snd))
        /\ Ser!Count(f.snd) = Ser!Count(g.snd) - 1
    BY <2>1, <2>2, <2>3, GetFacts
  <2>5. Head(SubSeq(c, i, n)) = c[i] /\ Tail(SubSeq(c, i, n)) = SubSeq(c, i + 1, n)
    BY <1>1, <2>0
  <2>6. Append(e.tx \o SubSeq(c, 1, i - 1), c[i]) = e.tx \o SubSeq(c, 1, i)
    <3>1. SubSeq(c, 1, i - 1) \in Seq(Bytes) /\ c[i] \in Bytes
      BY <1>1, <2>0
    <3>2. Append(SubSeq(c, 1, i - 1), c[i]) = SubSeq(c, 1, i)
      BY <1>1, <2>0
    <3> QED BY <1>1, <3>1, <3>2, AppendConcat
  <2>7. Undisturbed(e, f) /\ SameRing(f.rcv, e.rcv)
    <3>1. SameRing(f.rcv, e.rcv)
      BY <2>2, <2>4 DEF SameRing
    <3>2. Undisturbed(e, f)
      BY <2>2, <2>4, Zenon DEF Undisturbed
    <3> QED BY <3>1, <3>2
  <2>8. Ser!Count(f.snd) = n - i
    BY <2>0, <2>2, <2>4
  <2> QED BY <2>2, <2>4, <2>5, <2>6, <2>7, <2>8 DEF Good, g, f
<1> HIDE DEF Good
<1>6. B = {}
  <2> SUFFICES ASSUME B # {}
               PROVE  FALSE
    OBVIOUS
  <2>0. n \in Nat
    BY <1>1
  <2>1. PICK m \in B : \A z \in B : m <= z
    BY <2>0, DP!MinimumExists
  <2>2. m # 0 /\ m \in 1 .. n /\ m - 1 \in 0 .. n /\ m - 1 \notin B
    BY <1>4, <2>0, <2>1
  <2> QED BY <1>5, <2>1, <2>2
<1>7. Good(n)
  BY <1>1, <1>6
<1> DEFINE f == Ser!Refill(e)
<1>8. f = a[n]
  BY <1>3
<1> HIDE DEF f
<1>9. SubSeq(c, 1, n) = c /\ n - n = 0
  BY <1>1
<1>10. Ser!IsEmpty(f.snd)
  BY <1>7, <1>8, <1>9, CountFacts DEF Good, Calm, SerialState
<1> QED BY <1>7, <1>8, <1>9, <1>10 DEF Good, c, f

\* What the handler makes of the state after all received bytes.
End(g) ==
  LET r == [g EXCEPT !.rx = << >>]
      f == IF x.txie /\ x.txraw THEN [Ser!Refill(r) EXCEPT !.txie = FALSE, !.txraw = FALSE] ELSE r
  IN  [f EXCEPT !.com_error = @ \cup x.rxerr, !.rxerr = {}, !.slack = TRUE]

\* Receiving as the loop of uart_inthdr runs it: the state after each turn.
LEMMA NotifyTurns ==
  ASSUME Ser!uart_inthdr, NEW n \in Nat, n = Len(x.rx)
  PROVE  \E a : /\ a[0] = x
                /\ \A i \in 1 .. n : a[i] = Ser!dev_ser_notify_rcv(a[i - 1], x.rx[i])
                /\ x' = End(a[n])
<1> DEFINE F(y, i) == Ser!dev_ser_notify_rcv(y, x.rx[i])
           e == x
<1> DEFINE Run(f, m) == f = [i \in 0 .. m |-> IF i = 0 THEN e ELSE F(f[i - 1], i)]
           B == {m \in 0 .. n : ~ \E f : Run(f, m)}
           after == CHOOSE f : Run(f, n)
<1>1. x' = End(after[n])
  <2> DEFINE got == CHOOSE f : f = [i \in 0 .. Len(x.rx) |-> IF i = 0 THEN x
                                        ELSE Ser!dev_ser_notify_rcv(f[i - 1], x.rx[i])]
  <2>1. x' = End(got[Len(x.rx)])
    BY Zenon DEF Ser!uart_inthdr, End
  <2>2. got[Len(x.rx)] = after[n]
    BY Zenon
  <2> QED BY <2>1, <2>2, Zenon
<1> HIDE DEF End
<1> HIDE DEF F
<1>2. \E f : Run(f, 0)
  <2> DEFINE f == [i \in 0 .. 0 |-> e]
  <2>1. Run(f, 0)
    OBVIOUS
  <2> QED BY <2>1
<1>3. ASSUME NEW m \in Nat, NEW f, Run(f, m)
      PROVE  \E g : Run(g, m + 1)
  <2> DEFINE g == [i \in 0 .. m + 1 |-> IF i <= m THEN f[i] ELSE F(f[m], m + 1)]
  <2>1. ASSUME NEW i \in 0 .. m + 1
        PROVE  g[i] = IF i = 0 THEN e ELSE F(g[i - 1], i)
    <3>1. CASE i = m + 1
      <4>1. g[i] = F(f[m], m + 1) /\ g[i - 1] = f[m] /\ i # 0
        BY <3>1
      <4> QED BY <3>1, <4>1
    <3>2. CASE i # m + 1
      <4>1. i \in 0 .. m /\ g[i] = f[i] /\ (i # 0 => i - 1 \in 0 .. m /\ g[i - 1] = f[i - 1])
        BY <3>2
      <4>2. f[i] = IF i = 0 THEN e ELSE F(f[i - 1], i)
        BY <1>3, <4>1
      <4> QED BY <4>1, <4>2
    <3> QED BY <3>1, <3>2
  <2>2. Run(g, m + 1)
    BY <2>1
  <2> QED BY <2>2
<1> HIDE DEF Run
<1>4. B = {}
  <2> SUFFICES ASSUME B # {}
               PROVE  FALSE
    OBVIOUS
  <2>1. PICK m \in B : \A z \in B : m <= z
    BY DP!MinimumExists
  <2>2. m # 0 /\ m \in Nat /\ m - 1 \in 0 .. n /\ m - 1 \notin B
    BY <1>2, <2>1
  <2>3. \E f : Run(f, m - 1)
    BY <2>2
  <2>4. m - 1 \in Nat /\ (m - 1) + 1 = m
    BY <2>2
  <2> QED BY <1>3, <2>1, <2>3, <2>4
<1>5. Run(after, n)
  BY <1>4
<1>6. \A i \in 0 .. n : after[i] = IF i = 0 THEN e ELSE F(after[i - 1], i)
  BY <1>5 DEF Run
<1> HIDE DEF after
<1>7. after[0] = e /\ \A i \in 1 .. n : after[i] = F(after[i - 1], i)
  BY <1>6
<1> QED BY <1>1, <1>7 DEF F

\* The state after all received bytes: what the ring had room for follows in it,
\* and the loss of the rest is noted.
LEMMA NotifyAll ==
  ASSUME Calm(x), Ser!uart_inthdr
  PROVE  \E g : /\ Calm(g) /\ Undisturbed(x, g) /\ g.tx = x.tx /\ SameRing(g.snd, x.snd)
                /\ LET c == Ser!Contents(x.rcv) \o x.rx
                       d == Ser!Contents(g.rcv)
                   IN  /\ Len(d) <= Len(c) /\ \A j \in 1 .. Len(d) : d[j] = c[j]
                       /\ Len(d) = Len(c) \/ "ROVR" \in g.com_error
                /\ x' = End(g)
<1> DEFINE n == Len(x.rx)
           b == Ser!Contents(x.rcv)
           c == b \o x.rx
<1>1. /\ x \in SerialState /\ x.rcv \in Ring /\ n \in Nat /\ x.rx \in Seq(Bytes)
      /\ b \in Seq(Bytes) /\ Len(b) = Ser!Count(x.rcv) /\ Len(b) \in Nat
  BY CountFacts DEF Calm, SerialState
<1>2. PICK a : /\ a[0] = x
               /\ \A i \in 1 .. n : a[i] = Ser!dev_ser_notify_rcv(a[i - 1], x.rx[i])
               /\ x' = End(a[n])
  BY <1>1, NotifyTurns
<1> DEFINE Holds(i, d) == /\ d \in Seq(Bytes) /\ Len(d) <= Len(b) + i
                          /\ \A j \in 1 .. Len(d) : d[j] = c[j]
           Good(i) == /\ Calm(a[i]) /\ Undisturbed(x, a[i]) /\ a[i].tx = x.tx /\ SameRing(a[i].snd, x.snd)
                      /\ Holds(i, Ser!Contents(a[i].rcv))
                      /\ \/ Len(Ser!Contents(a[i].rcv)) = Len(b) + i
                         \/ Ser!IsFull(a[i].rcv) /\ "ROVR" \in a[i].com_error
           B == {i \in 0 .. n : ~Good(i)}
<1>3. /\ Len(c) = Len(b) + n
      /\ \A j \in 1 .. Len(b) : c[j] = b[j]
      /\ \A i \in 1 .. n : c[Len(b) + i] = x.rx[i] /\ x.rx[i] \in Bytes
  BY <1>1, Concat
<1> HIDE DEF c, n, b
<1>4. Good(0)
  <2>1. Undisturbed(x, x) /\ SameRing(x.snd, x.snd)
    BY DEF Undisturbed, SameRing
  <2>2. Holds(0, b) /\ Len(b) = Len(b) + 0
    BY <1>1, <1>3
  <2> QED BY <1>2, <2>1, <2>2 DEF b
<1>5. ASSUME NEW i \in 1 .. n, Good(i - 1)
      PROVE  Good(i)
  <2> DEFINE g == a[i - 1]  f == a[i]  d == Ser!Contents(g.rcv)  e == Ser!Contents(f.rcv)
  <2>0. i - 1 \in Nat /\ i \in Nat
    BY <1>1
  <2>1. f = Ser!dev_ser_notify_rcv(g, x.rx[i])
    BY <1>2
  <2>2. Calm(g) /\ Undisturbed(x, g) /\ g.tx = x.tx /\ SameRing(g.snd, x.snd)
        /\ Holds(i - 1, d)
        /\ (Len(d) = Len(b) + (i - 1) \/ (Ser!IsFull(g.rcv) /\ "ROVR" \in g.com_error))
    BY <1>5
  <2> HIDE DEF Good, g, f
  <2>3. /\ Calm(f) /\ Undisturbed(g, f) /\ f.tx = g.tx
        /\ SameRing(f.snd, g.snd) /\ g.com_error \subseteq f.com_error
        /\ IF Ser!IsFull(g.rcv) THEN SameRing(f.rcv, g.rcv) /\ "ROVR" \in f.com_error
           ELSE e = Append(d, x.rx[i])
    <3>1. x.rx[i] \in Bytes
      BY <1>3
    <3> QED BY <2>1, <2>2, <3>1, NotifyFacts
  <2>4. Undisturbed(x, f) /\ f.tx = x.tx /\ SameRing(f.snd, x.snd)
    BY <2>2, <2>3, Zenon DEF Undisturbed, SameRing
  <2>5. CASE Ser!IsFull(g.rcv)
    <3>1. e = d /\ Ser!IsFull(f.rcv) /\ "ROVR" \in f.com_error
      BY <2>3, <2>5, SameRingFacts
    <3> HIDE DEF e, d
    <3>2. Holds(i, e)
      BY <1>1, <2>0, <2>2, <3>1
    <3> QED BY <2>3, <2>4, <3>1, <3>2 DEF Good, f, e
  <2>6. CASE ~Ser!IsFull(g.rcv)
    <3>1. e = Append(d, x.rx[i]) /\ Len(d) = Len(b) + (i - 1) /\ d \in Seq(Bytes)
      BY <2>2, <2>3, <2>6
    <3> HIDE DEF e, d
    <3>2. Holds(i, e) /\ Len(e) = Len(b) + i
      <4>1. x.rx[i] \in Bytes /\ c[Len(b) + i] = x.rx[i]
        BY <1>3
      <4>2. e \in Seq(Bytes) /\ Len(e) = Len(b) + i
        <5> DEFINE y == x.rx[i]
        <5>1. y \in Bytes /\ e = Append(d, y)
          BY <3>1, <4>1
        <5> HIDE DEF y
        <5>2. e \in Seq(Bytes) /\ Len(e) = Len(d) + 1
          BY <3>1, <5>1
        <5> QED BY <1>1, <2>0, <3>1, <5>2
      <4>3. ASSUME NEW j \in 1 .. Len(e)
            PROVE  e[j] = c[j]
        <5>1. CASE j = Len(b) + i
          BY <1>1, <2>0, <3>1, <4>1, <4>2, <5>1
        <5>2. CASE j # Len(b) + i
          <6>1. j \in 1 .. Len(d)
            BY <1>1, <2>0, <3>1, <4>2, <5>2
          <6> QED BY <2>2, <3>1, <6>1
        <5> QED BY <5>1, <5>2
      <4> QED BY <1>1, <2>0, <4>2, <4>3
    <3> QED BY <2>3, <2>4, <3>2 DEF Good, f, e
  <2> QED BY <2>5, <2>6
<1> HIDE DEF Good
<1>6. B = {}
  <2> SUFFICES ASSUME B # {}
               PROVE  FALSE
    OBVIOUS
  <2>1. PICK m \in B : \A z \in B : m <= z
    BY <1>1, DP!MinimumExists
  <2>2. m # 0 /\ m \in 1 .. n /\ m - 1 \in 0 .. n /\ m - 1 \notin B
    BY <1>1, <1>4, <2>1
  <2> QED BY <1>5, <2>1, <2>2
<1>7. Good(n)
  BY <1>1, <1>6
<1> QED BY <1>2, <1>3, <1>7 DEF Good, b, c

\* Nobody who sleeps is affected by anything else.
LEMMA CalmSame ==
  ASSUME NEW e, Calm(e), NEW f \in SerialState, f.pc = e.pc, f.wupcnt = e.wupcnt, f.owner = e.owner,
         f.started = e.started, f.cmd = e.cmd, f.snd = e.snd, f.rcv = e.rcv
  PROVE  Calm(f)
<1>1. e.cmd \in {"rcv", "snd"} /\ e \in SerialState
  BY DEF Calm, SerialState
<1>2. \A t \in Pair : Waits(e, t) => Waits(f, t)
  <2>1. CASE e.cmd = "rcv"
    BY <2>1 DEF Waits
  <2>2. CASE e.cmd = "snd"
    BY <2>2 DEF Waits
  <2> QED BY <1>1, <2>1, <2>2
<1> QED BY <1>2, Zenon DEF Calm, Seated, Asleep

\* The driver is in order.
SerialInv(e) == Calm(e) /\ Fed(e) /\ Latched(e)

\* The interrupt handler keeps it so, and bytes in order.
LEMMA HandlerKeeps ==
  ASSUME SerialInv(x), Ser!uart_inthdr
  PROVE  SerialInv(x') /\ Ser!InOrderStep
<1> DEFINE c == Ser!Contents(x.rcv) \o x.rx
<1>1. PICK g : /\ Calm(g) /\ Undisturbed(x, g) /\ g.tx = x.tx /\ SameRing(g.snd, x.snd)
               /\ LET d == Ser!Contents(g.rcv)
                  IN  /\ Len(d) <= Len(c) /\ \A j \in 1 .. Len(d) : d[j] = c[j]
                      /\ Len(d) = Len(c) \/ "ROVR" \in g.com_error
               /\ x' = End(g)
  BY NotifyAll DEF SerialInv
<1>2. g \in SerialState /\ x \in SerialState
  BY <1>1 DEF SerialInv, Calm
<1> DEFINE r == [g EXCEPT !.rx = << >>]
           f == IF x.txie /\ x.txraw THEN [Ser!Refill(r) EXCEPT !.txie = FALSE, !.txraw = FALSE] ELSE r
           h == [f EXCEPT !.com_error = @ \cup x.rxerr, !.rxerr = {}, !.slack = TRUE]
<1>3. x' = h
  BY <1>1, Zenon DEF End
<1>4. r \in SerialState /\ r.rx = << >> /\ r.snd = g.snd /\ r.rcv = g.rcv /\ r.pc = g.pc /\ r.wupcnt = g.wupcnt
      /\ r.owner = g.owner /\ r.started = g.started /\ r.cmd = g.cmd /\ r.tx = g.tx /\ r.com_error = g.com_error
      /\ r.txie = g.txie /\ r.txraw = g.txraw
  <2>1. << >> \in Seq(Bytes)
    OBVIOUS
  <2> QED BY <1>2, <2>1 DEF SerialState
<1> HIDE DEF r
<1>5. Calm(r)
  BY <1>1, <1>4, CalmSame
<1>6. /\ f \in SerialState /\ Calm(f) /\ f.started = x.started /\ SameRing(f.rcv, g.rcv) /\ f.com_error = g.com_error
      /\ f.rx = << >>
      /\ f.tx \o Ser!Contents(f.snd) = x.tx \o Ser!Contents(x.snd)
      /\ Fed(f)
      /\ f.txraw => Len(f.tx) = 0
  <2>0. /\ x.started = r.started /\ x.txie = r.txie /\ x.txraw = r.txraw /\ r.tx = x.tx /\ SameRing(r.snd, x.snd)
        /\ x.tx \in Seq(Bytes) /\ x.snd \in Ring
    BY <1>1, <1>2, <1>4 DEF Undisturbed, SerialState
  <2>1. CASE x.txie /\ x.txraw
    <3> DEFINE w == Ser!Refill(r)
    <3>1. Len(r.tx) + Ser!Count(r.snd) < FIFO
      <4>1. Ser!Count(r.snd) = Ser!Count(x.snd) /\ Ser!Count(x.snd) \in 0 .. BUFFSIZE - 1
            /\ (Ser!IsEmpty(x.snd) => Ser!Count(x.snd) = 0)
        BY <2>0, SameRingFacts, CountFacts
      <4>2. Len(x.tx) \in Nat /\ Len(x.tx) <= 1 /\ (Len(x.tx) = 1 => Ser!IsEmpty(x.snd))
        BY <2>0, <2>1 DEF SerialInv, Latched
      <4> DEFINE p == Len(x.tx)  q == Ser!Count(x.snd)
      <4>3. p \in Nat /\ p <= 1 /\ q \in 0 .. BUFFSIZE - 1 /\ (p = 1 => q = 0)
        BY <4>1, <4>2
      <4> HIDE DEF p, q
      <4>4. p + q < FIFO
        BY <4>3, Sizes
      <4> QED BY <2>0, <4>1, <4>4 DEF p, q
    <3>2. /\ Calm(w) /\ Undisturbed(r, w) /\ SameRing(w.rcv, r.rcv) /\ w.com_error = r.com_error
          /\ Ser!IsEmpty(w.snd) /\ w.tx = r.tx \o Ser!Contents(r.snd)
      <4>1. Len(r.tx) + Ser!Count(r.snd) <= FIFO
        <5>1. Len(r.tx) \in Nat /\ Ser!Count(r.snd) \in Nat
          BY <1>4, <2>0, CountFacts DEF SerialState
        <5> QED BY <3>1, <5>1, Sizes
      <4> QED BY <1>5, <4>1, RefillFacts
    <3>3. f = [w EXCEPT !.txie = FALSE, !.txraw = FALSE]
      BY <2>1
    <3> HIDE DEF w, f
    <3>4. w \in SerialState /\ w.tx \in Seq(Bytes) /\ w.snd \in Ring
      BY <3>2 DEF Calm, SerialState
    <3>5. /\ f \in SerialState /\ f.snd = w.snd /\ f.rcv = w.rcv /\ f.pc = w.pc /\ f.wupcnt = w.wupcnt
          /\ f.owner = w.owner /\ f.started = w.started /\ f.cmd = w.cmd /\ f.tx = w.tx
          /\ f.com_error = w.com_error /\ f.rx = w.rx /\ ~f.txraw
      BY <3>3, <3>4 DEF SerialState
    <3>6. Calm(f)
      BY <3>2, <3>5, CalmSame
    <3>7. Ser!Contents(r.snd) = Ser!Contents(x.snd) /\ Ser!Contents(x.snd) \in Seq(Bytes)
          /\ Len(Ser!Contents(x.snd)) = Ser!Count(r.snd)
      BY <2>0, SameRingFacts, CountFacts
    <3>8. Ser!Contents(f.snd) = << >>
      BY <3>2, <3>4, <3>5, CountFacts
    <3>9. f.tx \o Ser!Contents(f.snd) = x.tx \o Ser!Contents(x.snd)
      BY <2>0, <3>2, <3>4, <3>5, <3>7, <3>8
    <3>10. Fed(f)
      <4>1. Len(f.tx) = Len(r.tx) + Ser!Count(r.snd)
        <5> DEFINE u == x.tx  v == Ser!Contents(x.snd)
        <5>1. u \in Seq(Bytes) /\ v \in Seq(Bytes) /\ f.tx = u \o v /\ Len(v) = Ser!Count(r.snd) /\ r.tx = u
          BY <2>0, <3>2, <3>5, <3>7
        <5> HIDE DEF u, v
        <5>2. Len(u \o v) = Len(u) + Len(v)
          BY <5>1, Concat
        <5> QED BY <5>1, <5>2
      <4>2. ~(Len(f.tx) >= FIFO)
        BY <2>0, <3>1, <3>4, <3>5, <4>1, Sizes
      <4> QED BY <3>2, <3>5, <4>2 DEF Fed
    <3> QED BY <1>4, <2>0, <3>2, <3>5, <3>6, <3>9, <3>10 DEF Undisturbed, SameRing
  <2>2. CASE ~(x.txie /\ x.txraw)
    <3>1. f = r
      BY <2>2
    <3> HIDE DEF f
    <3>2. Ser!Contents(r.snd) = Ser!Contents(x.snd) /\ (Ser!IsEmpty(r.snd) <=> Ser!IsEmpty(x.snd))
      BY <2>0, SameRingFacts
    <3>3. x.txraw => Len(x.tx) = 0
      <4>1. Len(x.tx) \in Nat
        BY <2>0
      <4>2. x.txraw => Len(x.tx) <= 1 /\ (Len(x.tx) = 1 => x.txie)
        BY Zenon DEF SerialInv, Latched
      <4>3. x.txraw => Len(x.tx) <= 1 /\ Len(x.tx) # 1
        BY <2>2, <4>2, Zenon
      <4> DEFINE p == Len(x.tx)
      <4>4. p \in Nat /\ (x.txraw => p <= 1 /\ p # 1)
        BY <4>1, <4>3, Zenon
      <4> HIDE DEF p
      <4>5. x.txraw => p = 0
        BY <4>4
      <4> QED BY <4>5 DEF p
    <3>4. Fed(r)
      BY <2>0, <3>2 DEF SerialInv, Fed
    <3> QED BY <1>4, <1>5, <2>0, <3>1, <3>2, <3>3, <3>4 DEF SameRing
  <2> QED BY <2>1, <2>2
<1> HIDE DEF f
<1>7. /\ h \in SerialState /\ h.snd = f.snd /\ h.rcv = f.rcv /\ h.pc = f.pc /\ h.wupcnt = f.wupcnt
      /\ h.owner = f.owner /\ h.started = f.started /\ h.cmd = f.cmd /\ h.tx = f.tx
      /\ f.com_error \subseteq h.com_error /\ h.rx = f.rx /\ h.txraw = f.txraw /\ h.txie = f.txie
  BY <1>2, <1>6 DEF SerialState
<1> HIDE DEF h
<1>8. Calm(h)
  BY <1>6, <1>7, CalmSame
<1>9. Fed(h) /\ Latched(h)
  <2>1. h.txraw => Len(h.tx) = 0
    BY <1>6, <1>7
  <2>2. Latched(h)
    BY <2>1 DEF Latched
  <2> QED BY <1>6, <1>7, <2>2, Zenon DEF Fed
<1>10. Ser!InOrderStep
  <2> DEFINE d == Ser!Contents(g.rcv)
  <2>1. c \in Seq(Bytes) /\ d \in Seq(Bytes)
    BY <1>1, <1>2, CountFacts DEF SerialState
  <2>2. Ser!Contents(h.rcv) \o h.rx = d
    <3>1. Ser!Contents(h.rcv) = d
      BY <1>6, <1>7, SameRingFacts
    <3> QED BY <1>6, <1>7, <2>1, <3>1
  <2>3. Len(d) <= Len(c) /\ (\A j \in 1 .. Len(d) : d[j] = c[j]) /\ (Len(d) = Len(c) \/ "ROVR" \in h.com_error)
    BY <1>1, <1>6, <1>7
  <2> HIDE DEF c, d
  <2>4. CASE Len(d) = Len(c)
    <3>1. d = c
      BY <2>1, <2>3, <2>4
    <3> QED BY <1>3, <1>6, <1>7, <2>2, <3>1 DEF Ser!InOrderStep, c
  <2>5. CASE "ROVR" \in h.com_error
    <3>1. Ser!IsPrefix(d, c)
      BY <2>1, <2>3 DEF Ser!IsPrefix
    <3> QED BY <1>3, <1>6, <1>7, <2>2, <2>5, <3>1 DEF Ser!InOrderStep, c
  <2> QED BY <2>3, <2>4, <2>5
<1> QED BY <1>3, <1>8, <1>9, <1>10 DEF SerialInv

\* A step that leaves rings and FIFOs alone keeps the bytes in order.
LEMMA InOrderSame ==
  ASSUME x'.tx = x.tx, x'.rx = x.rx, SameRing(x'.snd, x.snd), SameRing(x'.rcv, x.rcv)
  PROVE  Ser!InOrderStep
<1>1. Ser!Contents(x'.snd) = Ser!Contents(x.snd) /\ Ser!Contents(x'.rcv) = Ser!Contents(x.rcv)
  BY SameRingFacts
<1> QED BY <1>1, Zenon DEF Ser!InOrderStep

\* The end of a step of a task.
LEMMA RunKeeps ==
  ASSUME SerialInv(x), NEW e, Ser!Run(e), Calm(e), Fed(e),
         e.txraw => x.txraw /\ \/ e.tx = x.tx
                               \/ Ser!IsEmpty(e.snd) /\ e.started /\ e.txie /\ Len(e.tx) <= Len(x.tx) + 1
  PROVE  /\ SerialInv(x') /\ x'.tx = e.tx /\ x'.rx = e.rx /\ x'.snd = e.snd /\ x'.rcv = e.rcv
         /\ x'.started = e.started /\ x'.com_error = e.com_error
<1>1. e \in SerialState /\ x \in SerialState /\ e.tx \in Seq(Bytes) /\ x.tx \in Seq(Bytes)
  BY DEF Calm, SerialInv, SerialState
<1>2. x' = [e EXCEPT !.slack = ~Ser!Pending(e)] /\ (Ser!Pending(x) => x.slack)
  BY DEF Ser!Run
<1>3. Ser!Pending(e) \in BOOLEAN
  BY <1>1 DEF Ser!Pending, SerialState
<1>4. /\ x' \in SerialState /\ x'.snd = e.snd /\ x'.rcv = e.rcv /\ x'.pc = e.pc /\ x'.wupcnt = e.wupcnt
      /\ x'.owner = e.owner /\ x'.started = e.started /\ x'.cmd = e.cmd /\ x'.tx = e.tx /\ x'.rx = e.rx
      /\ x'.com_error = e.com_error /\ x'.txraw = e.txraw /\ x'.txie = e.txie /\ (x'.slack <=> ~Ser!Pending(e))
  BY <1>1, <1>2, <1>3 DEF SerialState
<1>5. Calm(x')
  BY <1>4, CalmSame
<1>6. Fed(x')
  BY <1>4, Zenon DEF Fed
<1>7. x.txraw => Len(x.tx) = 0
  <2>1. x.txraw => Len(x.tx) <= 1 /\ (Len(x.tx) = 1 => x.started /\ x.txie /\ ~x.slack)
    BY Zenon DEF SerialInv, Latched
  <2>2. x.started /\ x.txie /\ x.txraw => Ser!Pending(x)
    BY Zenon DEF Ser!Pending
  <2>3. x.txraw => Len(x.tx) <= 1 /\ Len(x.tx) # 1
    BY <1>2, <2>1, <2>2, Zenon
  <2> DEFINE p == Len(x.tx)
  <2>4. p \in Nat /\ (x.txraw => p <= 1 /\ p # 1)
    BY <1>1, <2>3
  <2> HIDE DEF p
  <2>5. x.txraw => p = 0
    BY <2>4
  <2> QED BY <2>5 DEF p
<1>8. Latched(x')
  <2> SUFFICES ASSUME x'.txraw
               PROVE  /\ Len(x'.tx) <= 1
                      /\ Len(x'.tx) = 1 => x'.started /\ x'.txie /\ ~x'.slack /\ Ser!IsEmpty(x'.snd)
    BY Zenon DEF Latched
  <2>1. CASE e.tx = x.tx
    <3>1. Len(x'.tx) = 0
      BY <1>4, <1>7, <2>1
    <3> QED BY <3>1
  <2>2. CASE Ser!IsEmpty(e.snd) /\ e.started /\ e.txie /\ Len(e.tx) <= Len(x.tx) + 1
    <3>1. Len(e.tx) <= 1
      BY <1>1, <1>4, <1>7, <2>2
    <3>2. Ser!Pending(e)
      BY <1>4, <2>2, Zenon DEF Ser!Pending
    <3> QED BY <1>4, <2>2, <3>1, <3>2
  <2> QED BY <1>4, <2>1, <2>2
<1> QED BY <1>4, <1>5, <1>6, <1>8 DEF SerialInv

\* A task that comes in finds nobody inside.
LEMMA Alone ==
  ASSUME SerialInv(x), NEW t \in Pair, Ser!Enter(t)
  PROVE  \A u \in Pair : x.pc[u] = "out"
BY Sizes DEF SerialInv, Calm, Seated, Ser!Enter

\* Opening and closing start from and end in silence.
LEMMA OpenKeeps ==
  ASSUME SerialInv(x), NEW t \in Pair, NEW m \in SerModes, Ser!dev_ser_openfn(t, m)
  PROVE  SerialInv(x') /\ Ser!InOrderStep
<1> DEFINE b == Ser!buff_init
           g == [x EXCEPT !.omode = m, !.snd = b, !.rcv = b]
           e == Ser!start_com(g)
<1>0. x \in SerialState /\ m \in SUBSET {"snd", "rcv"} /\ << >> \in Seq(Bytes) /\ Len(<< >>) = 0
  BY DevicesAssumption DEF SerialInv, Calm, DevicesAssumption
<1>1. b \in Ring /\ Ser!IsEmpty(b)
  BY Sizes DEF Ring, Bytes, Ser!buff_init, Ser!IsEmpty
<1>2. Ser!Run(e) /\ ~x.started /\ Ser!Enter(t)
  BY Zenon DEF Ser!dev_ser_openfn
<1> HIDE DEF b
<1>3. /\ e \in SerialState /\ e.pc = x.pc /\ e.snd = b /\ e.tx = << >> /\ ~e.txraw
  BY <1>0, <1>1 DEF SerialState, Ser!start_com
<1> HIDE DEF e
<1>4. Calm(e)
  BY <1>2, <1>3, Alone DEF Calm, Seated, Asleep
<1>5. Fed(e)
  BY <1>0, <1>1, <1>3, Sizes DEF Fed
<1>6. SerialInv(x')
  BY <1>2, <1>3, <1>4, <1>5, RunKeeps
<1>7. Ser!InOrderStep
  BY <1>2, Zenon DEF Ser!InOrderStep
<1> QED BY <1>6, <1>7

\* Closing.
LEMMA CloseKeeps ==
  ASSUME SerialInv(x), NEW t \in Pair, Ser!dev_ser_closefn(t)
  PROVE  SerialInv(x') /\ Ser!InOrderStep
<1> DEFINE b == Ser!buff_init
           g == [x EXCEPT !.omode = {}, !.snd = b, !.rcv = b]
           e == Ser!stop_com(g)
<1>0. x \in SerialState /\ << >> \in Seq(Bytes) /\ Len(<< >>) = 0
  BY DEF SerialInv, Calm
<1>1. b \in Ring /\ Ser!IsEmpty(b)
  BY Sizes DEF Ring, Bytes, Ser!buff_init, Ser!IsEmpty
<1>2. Ser!Run(e) /\ x.started /\ Ser!Enter(t)
  BY Zenon DEF Ser!dev_ser_closefn
<1> HIDE DEF b
<1>3. /\ e \in SerialState /\ e.pc = x.pc /\ e.snd = b /\ e.tx = << >> /\ ~e.txraw /\ ~e.started
  BY <1>0, <1>1 DEF SerialState, Ser!stop_com
<1> HIDE DEF e
<1>4. Calm(e)
  BY <1>2, <1>3, Alone DEF Calm, Seated, Asleep
<1>5. Fed(e)
  BY <1>3 DEF Fed
<1>6. SerialInv(x') /\ x'.started = e.started
  BY <1>2, <1>3, <1>4, <1>5, RunKeeps
<1>7. Ser!InOrderStep
  BY <1>3, <1>6, Zenon DEF Ser!InOrderStep
<1> QED BY <1>6, <1>7

\* A step of a task that leaves rings and FIFOs alone.
LEMMA QuietKeeps ==
  ASSUME SerialInv(x), NEW e, Ser!Run(e), Calm(e), e.snd = x.snd, e.rcv = x.rcv,
         e.tx = x.tx, e.rx = x.rx, e.started = x.started, e.txie = x.txie, e.txraw = x.txraw
  PROVE  SerialInv(x') /\ Ser!InOrderStep
<1>1. Fed(e)
  BY Zenon DEF Fed, SerialInv
<1>2. SerialInv(x') /\ x'.tx = x.tx /\ x'.rx = x.rx /\ x'.snd = x.snd /\ x'.rcv = x.rcv
  BY <1>1, RunKeeps
<1>3. SameRing(x'.snd, x.snd) /\ SameRing(x'.rcv, x.rcv)
  BY <1>2 DEF SameRing
<1> QED BY <1>2, <1>3, InOrderSame

\* Reading and writing begin.
LEMMA BeginKeeps ==
  ASSUME SerialInv(x), NEW t \in Pair, NEW n \in 1 .. MaxReq,
         Ser!dev_ser_readfn(t, n) \/ Ser!dev_ser_writefn(t, n)
  PROVE  SerialInv(x') /\ Ser!InOrderStep
<1>0. x \in SerialState /\ MaxReq \in Nat /\ n \in Nat
  BY DevicesAssumption DEF SerialInv, Calm, DevicesAssumption
<1>1. PICK c \in {"rcv", "snd"} :
        /\ Ser!Run([x EXCEPT !.owner = t, !.pc[t] = "loop", !.cmd = c, !.size = n])
        /\ Ser!Enter(t) /\ x.started
  BY Zenon DEF Ser!dev_ser_readfn, Ser!dev_ser_writefn
<1> DEFINE e == [x EXCEPT !.owner = t, !.pc[t] = "loop", !.cmd = c, !.size = n]
<1>2. /\ e \in SerialState /\ e.pc = [x.pc EXCEPT ![t] = "loop"] /\ e.owner = t /\ e.snd = x.snd /\ e.rcv = x.rcv
      /\ e.tx = x.tx /\ e.rx = x.rx /\ e.started = x.started /\ e.txie = x.txie /\ e.txraw = x.txraw
      /\ x.pc \in [Pair -> {"out", "loop", "sleep", "asleep"}]
  BY <1>0 DEF SerialState
<1> HIDE DEF e
<1>3. Calm(e)
  BY <1>1, <1>2, Alone DEF Calm, Seated, Asleep
<1> QED BY <1>1, <1>2, <1>3, QuietKeeps DEF e

\* A task leaves.
LEMMA LeaveKeeps ==
  ASSUME SerialInv(x), NEW t \in Pair, Ser!Finish(t) \/ Ser!Timeout(t)
  PROVE  SerialInv(x') /\ Ser!InOrderStep
<1> DEFINE e == Ser!Leave(x, t)
<1>0. x \in SerialState /\ Seated(x)
  BY DEF SerialInv, Calm
<1>1. Ser!Run(e) /\ x.pc[t] # "out"
  BY DEF Ser!Finish, Ser!Timeout
<1>2. /\ e \in SerialState /\ e.pc = [x.pc EXCEPT ![t] = "out"] /\ e.snd = x.snd /\ e.rcv = x.rcv
      /\ e.tx = x.tx /\ e.rx = x.rx /\ e.started = x.started /\ e.txie = x.txie /\ e.txraw = x.txraw
      /\ x.pc \in [Pair -> {"out", "loop", "sleep", "asleep"}]
  BY <1>0 DEF SerialState, Ser!Leave
<1> HIDE DEF e
<1>3. \A u \in Pair : e.pc[u] = "out"
  BY <1>0, <1>1, <1>2 DEF Seated
<1>4. Calm(e)
  BY <1>2, <1>3 DEF Calm, Seated, Asleep
<1> QED BY <1>1, <1>2, <1>4, QuietKeeps

\* Reading the errors.
LEMMA ComerrKeeps ==
  ASSUME SerialInv(x), NEW t \in Pair, Ser!TDN_SER_COMERR(t)
  PROVE  SerialInv(x') /\ Ser!InOrderStep
<1> DEFINE e == [x EXCEPT !.com_error = {}]
<1>0. x \in SerialState /\ Calm(x)
  BY DEF SerialInv, Calm
<1>1. Ser!Run(e)
  BY Zenon DEF Ser!TDN_SER_COMERR
<1>2. /\ e \in SerialState /\ e.pc = x.pc /\ e.wupcnt = x.wupcnt /\ e.snd = x.snd /\ e.rcv = x.rcv
      /\ e.owner = x.owner /\ e.cmd = x.cmd
      /\ e.tx = x.tx /\ e.rx = x.rx /\ e.started = x.started /\ e.txie = x.txie /\ e.txraw = x.txraw
  BY <1>0 DEF SerialState
<1> HIDE DEF e
<1>3. Calm(e)
  BY <1>0, <1>2, CalmSame
<1> QED BY <1>1, <1>2, <1>3, QuietKeeps

\* tk_slp_tsk: with a queued wake-up the task looks again, otherwise it waits for
\* something that is not there.
LEMMA SleepKeeps ==
  ASSUME SerialInv(x), NEW t \in Pair, Ser!tk_slp_tsk(t)
  PROVE  SerialInv(x') /\ Ser!InOrderStep
<1> DEFINE e == IF x.wupcnt[t] > 0 THEN [x EXCEPT !.wupcnt[t] = @ - 1, !.pc[t] = "loop"]
                ELSE [x EXCEPT !.pc[t] = "asleep"]
<1>0. /\ x \in SerialState /\ Seated(x) /\ Asleep(x) /\ x.wupcnt \in [Pair -> 0 .. MaxWup]
      /\ x.pc \in [Pair -> {"out", "loop", "sleep", "asleep"}] /\ x.cmd \in {"rcv", "snd"}
  BY DEF SerialInv, Calm, SerialState
<1>1. Ser!Run(e) /\ x.pc[t] = "sleep"
  BY Zenon DEF Ser!tk_slp_tsk
<1>2. /\ e \in SerialState /\ e.snd = x.snd /\ e.rcv = x.rcv /\ e.owner = x.owner /\ e.cmd = x.cmd
      /\ e.tx = x.tx /\ e.rx = x.rx /\ e.started = x.started /\ e.txie = x.txie /\ e.txraw = x.txraw
      /\ \A u \in Pair : u # t => e.pc[u] = x.pc[u] /\ e.wupcnt[u] = x.wupcnt[u]
      /\ IF x.wupcnt[t] > 0 THEN e.pc[t] = "loop" ELSE e.pc[t] = "asleep"
  <2>1. CASE x.wupcnt[t] > 0
    <3> DEFINE w == [x.wupcnt EXCEPT ![t] = @ - 1]
    <3>1. w \in [Pair -> 0 .. MaxWup] /\ \A u \in Pair : u # t => w[u] = x.wupcnt[u]
      BY <1>0, <2>1, Sizes
    <3>2. e = [x EXCEPT !.wupcnt = w, !.pc[t] = "loop"]
      BY <2>1
    <3> HIDE DEF e, w
    <3> QED BY <1>0, <2>1, <3>1, <3>2 DEF SerialState
  <2>2. CASE ~(x.wupcnt[t] > 0)
    <3>1. e = [x EXCEPT !.pc[t] = "asleep"]
      BY <2>2
    <3> HIDE DEF e
    <3> QED BY <1>0, <2>2, <3>1 DEF SerialState
  <2> QED BY <2>1, <2>2
<1> HIDE DEF e
<1>3. \A u \in Pair : Waits(x, u) => Waits(e, u)
  <2>1. CASE x.cmd = "rcv"
    BY <1>2, <2>1 DEF Waits
  <2>2. CASE x.cmd = "snd"
    BY <1>2, <2>2 DEF Waits
  <2> QED BY <1>0, <2>1, <2>2
<1>4. Seated(e)
  BY <1>0, <1>1, <1>2 DEF Seated
<1>5. Asleep(e)
  <2> SUFFICES ASSUME NEW u \in Pair
               PROVE  /\ e.pc[u] = "sleep" => e.wupcnt[u] > 0 \/ Waits(e, u)
                      /\ e.pc[u] = "asleep" => Waits(e, u)
    BY DEF Asleep
  <2>1. /\ x.pc[u] = "sleep" => x.wupcnt[u] > 0 \/ Waits(x, u)
        /\ x.pc[u] = "asleep" => Waits(x, u)
    BY <1>0 DEF Asleep
  <2>2. CASE u = t
    BY <1>1, <1>2, <1>3, <2>1, <2>2
  <2>3. CASE u # t
    BY <1>2, <1>3, <2>1, <2>3
  <2> QED BY <2>2, <2>3
<1> QED BY <1>1, <1>2, <1>4, <1>5, QuietKeeps DEF Calm

\* A step on one ring and the tasks' labels.
WithRcv(e, c, p) == [e EXCEPT !.rcv = c, !.pc = p]

\* What such a step leaves alone.
LEMMA RcvAndLabel ==
  ASSUME NEW e \in SerialState, NEW c \in Ring, NEW p \in [Pair -> {"out", "loop", "sleep", "asleep"}]
  PROVE  LET f == WithRcv(e, c, p)
         IN  /\ f \in SerialState /\ f.owner = e.owner /\ f.cmd = e.cmd /\ f.snd = e.snd /\ f.rcv = c
             /\ f.tx = e.tx /\ f.rx = e.rx /\ f.started = e.started /\ f.txie = e.txie /\ f.txraw = e.txraw
             /\ f.pc = p
<1> DEFINE f == WithRcv(e, c, p)
<1>1. f \in SerialState
  BY DEF SerialState, WithRcv
<1>2. /\ f.owner = e.owner /\ f.cmd = e.cmd /\ f.snd = e.snd /\ f.rcv = c
      /\ f.tx = e.tx /\ f.rx = e.rx /\ f.started = e.started /\ f.txie = e.txie /\ f.txraw = e.txraw
      /\ f.pc = p
  BY DEF SerialState, WithRcv
<1> QED BY <1>1, <1>2, Zenon

\* The same for the other ring.
WithSnd(e, c, p) == [e EXCEPT !.snd = c, !.pc = p]

\* What it leaves alone.
LEMMA SndAndLabel ==
  ASSUME NEW e \in SerialState, NEW c \in Ring, NEW p \in [Pair -> {"out", "loop", "sleep", "asleep"}]
  PROVE  LET f == WithSnd(e, c, p)
         IN  /\ f \in SerialState /\ f.owner = e.owner /\ f.cmd = e.cmd /\ f.rcv = e.rcv /\ f.snd = c
             /\ f.tx = e.tx /\ f.rx = e.rx /\ f.started = e.started /\ f.txie = e.txie /\ f.txraw = e.txraw
             /\ f.pc = p
<1> DEFINE f == WithSnd(e, c, p)
<1>1. f \in SerialState
  BY DEF SerialState, WithSnd
<1>2. /\ f.owner = e.owner /\ f.cmd = e.cmd /\ f.rcv = e.rcv /\ f.snd = c
      /\ f.tx = e.tx /\ f.rx = e.rx /\ f.started = e.started /\ f.txie = e.txie /\ f.txraw = e.txraw
      /\ f.pc = p
  BY DEF SerialState, WithSnd
<1> QED BY <1>1, <1>2, Zenon

\* A task goes to sleep at an empty or a full ring.
LEMMA SleepAtKeeps ==
  ASSUME SerialInv(x), NEW t \in Pair, x.pc[t] = "loop", NEW b \in {"snd", "rcv"}, b = x.cmd,
         IF b = "rcv" THEN Ser!IsEmpty(x.rcv) ELSE Ser!IsFull(x.snd),
         NEW e \in SerialState, Ser!Run(e), e.owner = x.owner, e.cmd = x.cmd,
         e.snd = IF b = "snd" THEN [x.snd EXCEPT !.wait_tskid = t] ELSE x.snd,
         e.rcv = IF b = "rcv" THEN [x.rcv EXCEPT !.wait_tskid = t] ELSE x.rcv,
         e.tx = x.tx, e.rx = x.rx, e.started = x.started, e.txie = x.txie, e.txraw = x.txraw,
         e.pc = [x.pc EXCEPT ![t] = "sleep"]
  PROVE  SerialInv(x') /\ Ser!InOrderStep
<1>0. /\ x \in SerialState /\ Seated(x) /\ Asleep(x) /\ x.snd \in Ring /\ x.rcv \in Ring
      /\ x.pc \in [Pair -> {"out", "loop", "sleep", "asleep"}]
  BY DEF SerialInv, Calm, SerialState
<1>1. /\ SameRing(e.snd, x.snd) /\ SameRing(e.rcv, x.rcv)
      /\ \A u \in Pair : u # t => e.pc[u] = x.pc[u]
      /\ (b = "rcv" => e.rcv.wait_tskid = t) /\ (b = "snd" => e.snd.wait_tskid = t)
  <2>1. \A u \in Pair : u # t => e.pc[u] = x.pc[u]
    BY <1>0
  <2>2. SameRing(e.snd, x.snd) /\ (b = "snd" => e.snd.wait_tskid = t)
    BY <1>0 DEF Ring, SameRing
  <2>3. SameRing(e.rcv, x.rcv) /\ (b = "rcv" => e.rcv.wait_tskid = t)
    BY <1>0 DEF Ring, SameRing
  <2> QED BY <2>1, <2>2, <2>3
<1>2. \A u \in Pair : u # t => x.pc[u] = "out" /\ e.pc[u] = "out"
  BY <1>0, <1>1 DEF Seated
<1>3. Waits(e, t)
  <2>1. CASE b = "rcv"
    <3>1. Ser!IsEmpty(e.rcv)
      BY <1>1, <2>1, SameRingFacts
    <3> QED BY <1>1, <2>1, <3>1 DEF Waits
  <2>2. CASE b = "snd"
    <3>1. Ser!IsFull(e.snd)
      BY <1>1, <2>2, SameRingFacts
    <3> QED BY <1>1, <2>2, <3>1 DEF Waits
  <2> QED BY <2>1, <2>2
<1>4. Calm(e)
  <2>1. x.owner = t /\ x.started
    BY <1>0 DEF Seated
  <2> QED BY <1>1, <1>2, <1>3, <2>1 DEF Calm, Seated, Asleep
<1>5. Fed(e)
  <2>1. Ser!IsEmpty(e.snd) <=> Ser!IsEmpty(x.snd)
    BY <1>1, SameRingFacts
  <2> QED BY <1>1, <2>1, Zenon DEF SerialInv, Fed
<1>6. SerialInv(x') /\ x'.tx = e.tx /\ x'.rx = e.rx /\ x'.snd = e.snd /\ x'.rcv = e.rcv
  BY <1>1, <1>4, <1>5, RunKeeps
<1> QED BY <1>1, <1>6, InOrderSame

\* A byte is read, or the task goes to sleep at the empty ring.
LEMMA ReadKeeps ==
  ASSUME SerialInv(x), NEW t \in Pair, Ser!read_data(t)
  PROVE  SerialInv(x') /\ Ser!InOrderStep
<1>0. /\ x \in SerialState /\ Seated(x) /\ Asleep(x) /\ x.snd \in Ring /\ x.rcv \in Ring /\ x.rx \in Seq(Bytes)
      /\ x.pc \in [Pair -> {"out", "loop", "sleep", "asleep"}] /\ x.size \in Nat
  BY DEF SerialInv, Calm, SerialState
<1>1. x.pc[t] = "loop" /\ x.cmd = "rcv" /\ x.size > 0
  BY DEF Ser!read_data, Ser!Looping
<1>2. CASE Ser!IsEmpty(x.rcv)
  <2> DEFINE c == [x.rcv EXCEPT !.wait_tskid = t]  p == [x.pc EXCEPT ![t] = "sleep"]
             e == WithRcv(x, c, p)
  <2>1. Ser!Run(e)
    <3>1. e = [x EXCEPT !.rcv.wait_tskid = t, !.pc[t] = "sleep"]
      BY DEF WithRcv
    <3> HIDE DEF e
    <3> QED BY <1>2, <3>1, Zenon DEF Ser!read_data
  <2>2. c \in Ring /\ p \in [Pair -> {"out", "loop", "sleep", "asleep"}]
    BY <1>0 DEF Ring
  <2> HIDE DEF c, p
  <2>3. /\ e \in SerialState /\ e.owner = x.owner /\ e.cmd = x.cmd /\ e.snd = x.snd /\ e.rcv = c
        /\ e.tx = x.tx /\ e.rx = x.rx /\ e.started = x.started /\ e.txie = x.txie /\ e.txraw = x.txraw
        /\ e.pc = p
    BY <1>0, <2>2, RcvAndLabel, Zenon
  <2> HIDE DEF e
  <2>4. "rcv" \in {"snd", "rcv"} /\ "snd" # "rcv"
    OBVIOUS
  <2> QED BY <1>1, <1>2, <2>1, <2>3, <2>4, SleepAtKeeps DEF c, p
<1>3. CASE ~Ser!IsEmpty(x.rcv)
  <2> DEFINE b == Ser!Drop(x.rcv)
             e == [x EXCEPT !.rcv = b, !.size = @ - 1]
  <2>1. Ser!Run(e)
    BY <1>3, Zenon DEF Ser!read_data
  <2>2. b \in Ring /\ Ser!Contents(x.rcv) # << >> /\ Ser!Contents(b) = Tail(Ser!Contents(x.rcv))
    BY <1>0, <1>3, DropFacts
  <2> HIDE DEF b
  <2>3. /\ e \in SerialState /\ e.owner = x.owner /\ e.cmd = x.cmd /\ e.snd = x.snd /\ e.rcv = b
        /\ e.tx = x.tx /\ e.rx = x.rx /\ e.started = x.started /\ e.txie = x.txie /\ e.txraw = x.txraw
        /\ e.pc = x.pc /\ e.com_error = x.com_error
    <3>1. x.size - 1 \in Nat
      BY <1>0, <1>1
    <3> QED BY <1>0, <2>2, <3>1 DEF SerialState
  <2> HIDE DEF e
  <2>4. \A u \in Pair : e.pc[u] \notin {"sleep", "asleep"}
    BY <1>0, <1>1, <2>3 DEF Seated
  <2>5. Calm(e)
    BY <1>0, <2>3, <2>4 DEF Calm, Seated, Asleep
  <2>6. Fed(e)
    BY <2>3, Zenon DEF SerialInv, Fed
  <2>7. SerialInv(x') /\ x'.tx = x.tx /\ x'.rx = x.rx /\ x'.snd = x.snd /\ x'.rcv = b
    BY <2>1, <2>3, <2>5, <2>6, RunKeeps
  <2>8. Ser!InOrderStep
    <3> DEFINE c == Ser!Contents(x.rcv)
    <3>1. c \in Seq(Bytes)
      BY <1>0, CountFacts
    <3> HIDE DEF c
    <3>2. c # << >> => c \o x.rx # << >> /\ Tail(c) \o x.rx = Tail(c \o x.rx)
      BY <1>0, <3>1, TailConcat
    <3>3. Ser!Contents(x'.rcv) \o x'.rx = Tail(c \o x.rx) /\ c \o x.rx # << >>
      BY <2>2, <2>7, <3>2 DEF c
    <3> QED BY <2>7, <3>3, Zenon DEF Ser!InOrderStep, c
  <2> QED BY <2>7, <2>8
<1> QED BY <1>2, <1>3

\* A byte goes to the FIFO, to the ring behind others, or the task goes to sleep.
LEMMA WriteKeeps ==
  ASSUME SerialInv(x), NEW t \in Pair, Ser!write_data(t)
  PROVE  SerialInv(x') /\ Ser!InOrderStep
<1>0. /\ x \in SerialState /\ Seated(x) /\ Asleep(x) /\ x.snd \in Ring /\ x.rcv \in Ring /\ x.tx \in Seq(Bytes)
      /\ x.pc \in [Pair -> {"out", "loop", "sleep", "asleep"}] /\ x.size \in Nat /\ x.out \in 0 .. N - 1
  BY DEF SerialInv, Calm, SerialState
<1>1. x.pc[t] = "loop" /\ x.cmd = "snd" /\ x.size > 0
  BY DEF Ser!write_data, Ser!Looping
<1> DEFINE y == x.out
           o == (x.out + 1) % N
           z == x.size - 1
<1>2. y \in 0 .. N - 1 /\ y \in Bytes /\ o \in 0 .. N - 1 /\ z \in Nat
  BY <1>0, <1>1, Sizes DEF Bytes
<1>3. x.started /\ \A u \in Pair : x.pc[u] \notin {"sleep", "asleep"}
  BY <1>0, <1>1 DEF Seated
<1>4. CASE Ser!IsFull(x.snd)
  <2> DEFINE c == [x.snd EXCEPT !.wait_tskid = t]  p == [x.pc EXCEPT ![t] = "sleep"]
             e == WithSnd(x, c, p)
  <2>1. Ser!Run(e)
    <3>1. e = [x EXCEPT !.snd.wait_tskid = t, !.pc[t] = "sleep"]
      BY DEF WithSnd
    <3> HIDE DEF e
    <3> QED BY <1>4, <3>1, Zenon DEF Ser!write_data
  <2>2. c \in Ring /\ p \in [Pair -> {"out", "loop", "sleep", "asleep"}]
    BY <1>0 DEF Ring
  <2> HIDE DEF c, p
  <2>3. /\ e \in SerialState /\ e.owner = x.owner /\ e.cmd = x.cmd /\ e.rcv = x.rcv /\ e.snd = c
        /\ e.tx = x.tx /\ e.rx = x.rx /\ e.started = x.started /\ e.txie = x.txie /\ e.txraw = x.txraw
        /\ e.pc = p
    BY <1>0, <2>2, SndAndLabel, Zenon
  <2> HIDE DEF e
  <2>4. "snd" \in {"snd", "rcv"} /\ "snd" # "rcv"
    OBVIOUS
  <2> QED BY <1>1, <1>4, <2>1, <2>3, <2>4, SleepAtKeeps DEF c, p
<1>5. CASE ~Ser!IsFull(x.snd) /\ Ser!IsEmpty(x.snd) /\ Len(x.tx) < FIFO
  <2> DEFINE q == Append(x.tx, y)
             e == [x EXCEPT !.tx = q, !.txie = TRUE, !.size = z, !.out = o]
  <2>1. Ser!Run(e)
    <3>1. e = [Ser!LLD_SER_SEND(x, x.out) EXCEPT !.size = @ - 1, !.out = (@ + 1) % N]
      BY <1>0 DEF Ser!LLD_SER_SEND, SerialState
    <3> HIDE DEF e
    <3> QED BY <1>5, <3>1, Zenon DEF Ser!write_data
  <2>2. q \in Seq(Bytes) /\ Len(q) = Len(x.tx) + 1 /\ Len(x.tx) \in Nat
    BY <1>0, <1>2
  <2> HIDE DEF q, y, o, z
  <2>3. /\ e \in SerialState /\ e.owner = x.owner /\ e.cmd = x.cmd /\ e.snd = x.snd /\ e.rcv = x.rcv
        /\ e.tx = q /\ e.rx = x.rx /\ e.started = x.started /\ e.txie /\ e.txraw = x.txraw
        /\ e.pc = x.pc
    BY <1>0, <1>2, <2>2 DEF SerialState
  <2> HIDE DEF e
  <2>5. Calm(e)
    BY <1>0, <1>3, <2>3 DEF Calm, Seated, Asleep
  <2>6. Fed(e)
    BY <2>3, Zenon DEF Fed
  <2>7. SerialInv(x') /\ x'.tx = q /\ x'.rx = x.rx /\ x'.snd = x.snd /\ x'.rcv = x.rcv
    <3>1. Len(e.tx) <= Len(x.tx) + 1
      BY <2>2, <2>3
    <3> QED BY <1>3, <1>5, <2>1, <2>3, <2>5, <2>6, <3>1, RunKeeps
  <2>8. Ser!InOrderStep
    <3>1. Ser!Contents(x.snd) = << >>
      BY <1>0, <1>5, CountFacts
    <3>2. q \o << >> = Append(x.tx \o << >>, y)
      BY <1>0, <2>2 DEF q
    <3>3. x'.tx \o Ser!Contents(x'.snd) = Append(x.tx \o Ser!Contents(x.snd), y)
      BY <2>7, <3>1, <3>2
    <3>4. Ser!Contents(x'.rcv) \o x'.rx = Ser!Contents(x.rcv) \o x.rx
      BY <2>7
    <3> QED BY <1>2, <3>3, <3>4, Zenon DEF Ser!InOrderStep
  <2> QED BY <2>7, <2>8
<1>6. CASE ~Ser!IsFull(x.snd) /\ ~(Ser!IsEmpty(x.snd) /\ Len(x.tx) < FIFO)
  <2> DEFINE b == Ser!Put(x.snd, y)
             e == [x EXCEPT !.snd = b, !.size = z, !.out = o]
  <2>1. Ser!Run(e)
    <3>1. e = [[x EXCEPT !.snd = Ser!Put(@, x.out)] EXCEPT !.size = @ - 1, !.out = (@ + 1) % N]
      BY <1>0 DEF SerialState
    <3> HIDE DEF e
    <3> QED BY <1>6, <3>1, Zenon DEF Ser!write_data
  <2>2. b \in Ring /\ Ser!Contents(b) = Append(Ser!Contents(x.snd), y)
    BY <1>0, <1>2, <1>6, PutFacts
  <2> HIDE DEF b, y, o, z
  <2>3. /\ e \in SerialState /\ e.owner = x.owner /\ e.cmd = x.cmd /\ e.snd = b /\ e.rcv = x.rcv
        /\ e.tx = x.tx /\ e.rx = x.rx /\ e.started = x.started /\ e.txie = x.txie /\ e.txraw = x.txraw
        /\ e.pc = x.pc
    BY <1>0, <1>2, <2>2 DEF SerialState
  <2> HIDE DEF e
  <2>5. Calm(e)
    BY <1>0, <1>3, <2>3 DEF Calm, Seated, Asleep
  <2>6. Fed(e)
    <3>1. ~Ser!IsEmpty(x.snd) \/ Len(x.tx) >= FIFO
      BY <1>0, <1>6, Sizes
    <3>2. x.txie
      BY <1>3, <3>1, Zenon DEF SerialInv, Fed
    <3> QED BY <2>3, <3>2, Zenon DEF Fed
  <2>7. SerialInv(x') /\ x'.tx = x.tx /\ x'.rx = x.rx /\ x'.snd = b /\ x'.rcv = x.rcv
    BY <2>1, <2>3, <2>5, <2>6, RunKeeps
  <2>8. Ser!InOrderStep
    <3> DEFINE c == Ser!Contents(x.snd)
    <3>1. c \in Seq(Bytes)
      BY <1>0, CountFacts
    <3> HIDE DEF c
    <3>2. x.tx \o Append(c, y) = Append(x.tx \o c, y)
      BY <1>0, <1>2, <3>1, AppendConcat
    <3>3. x'.tx \o Ser!Contents(x'.snd) = Append(x.tx \o Ser!Contents(x.snd), y)
      BY <2>2, <2>7, <3>2 DEF c
    <3>4. Ser!Contents(x'.rcv) \o x'.rx = Ser!Contents(x.rcv) \o x.rx
      BY <2>7
    <3> QED BY <1>2, <3>3, <3>4, Zenon DEF Ser!InOrderStep
  <2> QED BY <2>7, <2>8
<1> QED BY <1>4, <1>5, <1>6

\* The UART receives, transmits and reports.
LEMMA UartKeeps ==
  ASSUME SerialInv(x), Ser!Receive \/ Ser!ReceiveError \/ Ser!Transmit \/ Ser!TxEmpty
  PROVE  SerialInv(x') /\ Ser!InOrderStep
<1>0. /\ x \in SerialState /\ Calm(x) /\ x.snd \in Ring /\ x.rcv \in Ring /\ x.tx \in Seq(Bytes)
      /\ x.rx \in Seq(Bytes) /\ x.in \in 0 .. N - 1 /\ x.in \in Bytes /\ Len(x.tx) \in Nat
  BY DEF SerialInv, Calm, SerialState, Bytes
<1>1. ASSUME NEW e \in SerialState, x' = e, e.pc = x.pc, e.wupcnt = x.wupcnt, e.owner = x.owner,
             e.started = x.started, e.cmd = x.cmd, e.snd = x.snd, e.rcv = x.rcv
      PROVE  Calm(x')
  BY <1>0, <1>1, CalmSame
<1>2. CASE Ser!Receive
  <2> DEFINE q == Append(x.rx, x.in)  i == (x.in + 1) % N  e == [x EXCEPT !.rx = q, !.in = i]
  <2>1. x' = e
    BY <1>2 DEF Ser!Receive
  <2>2. q \in Seq(Bytes) /\ i \in 0 .. N - 1
    BY <1>0, Sizes
  <2> HIDE DEF q, i
  <2>3. /\ e \in SerialState /\ e.pc = x.pc /\ e.wupcnt = x.wupcnt /\ e.owner = x.owner
        /\ e.started = x.started /\ e.cmd = x.cmd /\ e.snd = x.snd /\ e.rcv = x.rcv
        /\ e.tx = x.tx /\ e.rx = q /\ e.txie = x.txie /\ e.txraw = x.txraw /\ e.slack = x.slack
    BY <1>0, <2>2 DEF SerialState
  <2> HIDE DEF e
  <2>4. Fed(e) /\ Latched(e)
    BY <2>3, Zenon DEF SerialInv, Fed, Latched
  <2>5. Ser!InOrderStep
    <3> DEFINE c == Ser!Contents(x.rcv)
    <3>1. c \in Seq(Bytes)
      BY <1>0, CountFacts
    <3> HIDE DEF c
    <3>2. c \o q = Append(c \o x.rx, x.in)
      BY <1>0, <3>1, AppendConcat DEF q
    <3>3. Ser!Contents(x'.rcv) \o x'.rx = Append(Ser!Contents(x.rcv) \o x.rx, x.in)
      BY <2>1, <2>3, <3>2 DEF c
    <3>4. x'.tx \o Ser!Contents(x'.snd) = x.tx \o Ser!Contents(x.snd)
      BY <2>1, <2>3
    <3> QED BY <1>0, <3>3, <3>4, Zenon DEF Ser!InOrderStep
  <2> QED BY <1>1, <2>1, <2>3, <2>4, <2>5 DEF SerialInv
<1>3. CASE Ser!ReceiveError
  <2> DEFINE e == [x EXCEPT !.rxerr = {"OE"}]
  <2>1. x' = e
    BY <1>3 DEF Ser!ReceiveError
  <2>3. /\ e \in SerialState /\ e.pc = x.pc /\ e.wupcnt = x.wupcnt /\ e.owner = x.owner
        /\ e.started = x.started /\ e.cmd = x.cmd /\ e.snd = x.snd /\ e.rcv = x.rcv
        /\ e.tx = x.tx /\ e.rx = x.rx /\ e.txie = x.txie /\ e.txraw = x.txraw /\ e.slack = x.slack
    BY <1>0 DEF SerialState
  <2> HIDE DEF e
  <2>4. Fed(e) /\ Latched(e)
    BY <2>3, Zenon DEF SerialInv, Fed, Latched
  <2>5. Ser!InOrderStep
    BY <2>1, <2>3, InOrderSame DEF SameRing
  <2> QED BY <1>1, <2>1, <2>3, <2>4, <2>5 DEF SerialInv
<1>4. CASE Ser!Transmit
  <2> DEFINE q == Tail(x.tx)  e == [x EXCEPT !.tx = q]
  <2>1. x' = e /\ x.tx # << >>
    BY <1>4 DEF Ser!Transmit
  <2>2. q \in Seq(Bytes) /\ Len(q) = Len(x.tx) - 1 /\ Len(x.tx) >= 1
    BY <1>0, <2>1
  <2> HIDE DEF q
  <2>3. /\ e \in SerialState /\ e.pc = x.pc /\ e.wupcnt = x.wupcnt /\ e.owner = x.owner
        /\ e.started = x.started /\ e.cmd = x.cmd /\ e.snd = x.snd /\ e.rcv = x.rcv
        /\ e.tx = q /\ e.rx = x.rx /\ e.txie = x.txie /\ e.txraw = x.txraw /\ e.slack = x.slack
    BY <1>0, <2>2 DEF SerialState
  <2> HIDE DEF e
  <2>4. Fed(e)
    <3>1. Len(q) >= FIFO => Len(x.tx) >= FIFO
      BY <1>0, <2>2, Sizes
    <3> QED BY <2>3, <3>1, Zenon DEF SerialInv, Fed
  <2>5. Latched(e)
    <3>1. e.txraw => Len(x.tx) <= 1
      BY <2>3, Zenon DEF SerialInv, Latched
    <3>2. e.txraw => Len(e.tx) = 0
      BY <1>0, <2>2, <2>3, <3>1
    <3> QED BY <3>2 DEF Latched
  <2>6. Ser!InOrderStep
    <3> DEFINE c == Ser!Contents(x.snd)
    <3>1. c \in Seq(Bytes)
      BY <1>0, CountFacts
    <3> HIDE DEF c
    <3>2. x.tx \o c # << >> /\ q \o c = Tail(x.tx \o c)
      BY <1>0, <2>1, <3>1, TailConcat DEF q
    <3>3. x'.tx \o Ser!Contents(x'.snd) = Tail(x.tx \o c)
      BY <2>1, <2>3, <3>2 DEF c
    <3>4. Ser!Contents(x'.rcv) \o x'.rx = Ser!Contents(x.rcv) \o x.rx
      BY <2>1, <2>3
    <3> QED BY <3>2, <3>3, <3>4, Zenon DEF Ser!InOrderStep, c
  <2> QED BY <1>1, <2>1, <2>3, <2>4, <2>5, <2>6 DEF SerialInv
<1>5. CASE Ser!TxEmpty
  <2> DEFINE e == [x EXCEPT !.txraw = TRUE]
  <2>1. x' = e /\ x.tx = << >>
    BY <1>5 DEF Ser!TxEmpty
  <2>3. /\ e \in SerialState /\ e.pc = x.pc /\ e.wupcnt = x.wupcnt /\ e.owner = x.owner
        /\ e.started = x.started /\ e.cmd = x.cmd /\ e.snd = x.snd /\ e.rcv = x.rcv
        /\ e.tx = x.tx /\ e.rx = x.rx /\ e.txie = x.txie
    BY <1>0 DEF SerialState
  <2> HIDE DEF e
  <2>4. Fed(e)
    BY <2>3, Zenon DEF SerialInv, Fed
  <2>5. Latched(e)
    <3>1. Len(e.tx) = 0
      BY <2>1, <2>3
    <3> QED BY <3>1 DEF Latched
  <2>6. Ser!InOrderStep
    BY <2>1, <2>3, InOrderSame DEF SameRing
  <2> QED BY <1>1, <2>1, <2>3, <2>4, <2>5, <2>6 DEF SerialInv
<1> QED BY <1>2, <1>3, <1>4, <1>5

\* Every step of the serial driver.
LEMMA SerialStep ==
  ASSUME SerialInv(x), Ser!Next
  PROVE  SerialInv(x') /\ Ser!InOrderStep
BY HandlerKeeps, UartKeeps, CloseKeeps, ComerrKeeps, OpenKeeps, BeginKeeps, ReadKeeps, WriteKeeps,
   LeaveKeeps, SleepKeeps, Zenon DEF Ser!Next

\* dev_init_ser leaves the driver in order.
LEMMA SerialInit == Ser!Init => SerialInv(x)
<1> SUFFICES ASSUME Ser!Init
             PROVE  SerialInv(x)
  OBVIOUS
<1> DEFINE b == Ser!buff_init  e == << >>  p == [t \in Pair |-> "out"]  w == [t \in Pair |-> 0]
<1>0. e \in Seq(Bytes) /\ Len(e) = 0
  OBVIOUS
<1>1. b \in Ring /\ Ser!IsEmpty(b)
  BY Sizes DEF Ring, Bytes, Ser!buff_init, Ser!IsEmpty
<1>2. p \in [Pair -> {"out", "loop", "sleep", "asleep"}] /\ w \in [Pair -> 0 .. MaxWup] /\ 0 \in 0 .. N - 1
      /\ \A t \in Pair : p[t] = "out"
  BY Sizes
<1>3. x = [snd |-> b, rcv |-> b, com_error |-> {}, omode |-> {}, started |-> FALSE,
       rx |-> e, tx |-> e, rxerr |-> {}, in |-> 0, out |-> 0, txie |-> FALSE, txraw |-> FALSE,
       slack |-> TRUE, owner |-> NULL, cmd |-> "rcv", size |-> 0, pc |-> p, wupcnt |-> w]
  BY DEF Ser!Init
<1> HIDE DEF b, e, p, w
<1>4. x \in SerialState /\ x.pc = p /\ ~x.started /\ ~x.txraw
  BY <1>0, <1>1, <1>2, <1>3 DEF SerialState
<1> QED BY <1>2, <1>4 DEF SerialInv, Calm, Seated, Asleep, Fed, Latched

\* What the invariant says.
LEMMA SerialMeans == SerialInv(x) => Ser!NothingStuck
BY DEF SerialInv, Calm, Asleep, Fed, Waits, Ser!NothingStuck

\* The serial driver is in order as long as it is in view.
LEMMA SerialInvariance == Spec => [](kind = "serial" => SerialInv(x))
<1>1. Init => (kind = "serial" => SerialInv(x))
  BY SerialInit DEF Init
<1>2. (kind = "serial" => SerialInv(x)) /\ [Next]_vars => (kind = "serial" => SerialInv(x))'
  BY SerialStep DEF Next, vars
<1> QED BY <1>1, <1>2, PTL DEF Spec

\* ser.c and ser_esp32c3.c: no byte waits in the send buffer without the interrupt
\* that fetches it, and nobody sleeps beside data to read or a place to write; for
\* any tasks, request sizes and buffer sizes with a FIFO larger than the ring.
THEOREM NothingStuckCorrect == Spec => []NothingStuck
<1>1. (kind = "serial" => SerialInv(x)) => NothingStuck
  BY SerialMeans DEF NothingStuck
<1> QED BY <1>1, SerialInvariance, PTL

\* Bytes are sent in the order they are written, through the ring buffer or
\* around it, and read in the order they come, or the loss is reported.
THEOREM InOrderCorrect == Spec => SerialInOrder
<1>1. (kind = "serial" => SerialInv(x)) /\ [Next]_vars => [kind = "serial" => Ser!InOrderStep]_vars
  BY SerialStep DEF Next, vars
<1> QED BY <1>1, SerialInvariance, PTL DEF Spec, SerialInOrder
=============================================================================

---------------------------- MODULE Device_proofs ----------------------------
(***************************************************************************)
(* Device management for any number of tasks, descriptors and requests.    *)
(***************************************************************************)
EXTENDS Device, Queue_proofs, FiniteSetTheorems, SequenceTheorems, TLAPS

Driver == {"execfn", "sexecfn", "waitfn"}
InDriver == Driver \cup {"waitany"}
Opening == {"openfn", "opened"}
Aborting == {"aborted", "asleep", "awake"}
Emptying == {"drain", "close"}
Gone == {"closefn", "closed"}
Holding == Opening \cup {"abort"} \cup Aborting \cup Emptying \cup Gone
Labels == {"idle", "eventfn", "suspend", "sendevt", "sync"} \cup InDriver \cup Holding

Unitnos == {0} \cup {knl_phydevnm(logdevnm(u)) : u \in Units}

OpnCB ==
  [q : {"free", "open", "closing"}, resid : {0, 1}, unitno : Unitnos, omode : {{}} \cup OpenModes,
   requestq : Seq(Reqs), waitone : Int, waireqlst : Seq(Reqs), abort_tskid : Tasks \cup {NULL},
   abort_cnt : Int, sem : {0, 1}]
ReqCB == [opncb : Opns \cup {NULL}, tskid : Tasks \cup {NULL}]
TaskCB == [pc : Labels, o : Opns \cup {NULL}, r : Reqs \cup {NULL}]

DeviceState ==
  [registered : BOOLEAN, openreq : BOOLEAN, reg_lock : Tasks \cup {NULL}, dissus : Int,
   opn : [Opns -> OpnCB], req : [Reqs -> ReqCB], task : [Tasks -> TaskCB]]

Pc(e, t) == e.task[t].pc
Of(e, t) == e.task[t].o
Rq(e, t) == e.task[t].r

\* The open descriptors, and the tasks inside a driver function for one.
OpenOf(e) == {o \in Opns : e.opn[o].q = "open"}
InsideOf(e, o) == {t \in Tasks : e.task[t].o = o /\ e.task[t].pc \in InDriver}

\* A task knows the descriptor and the request it works with.
Places(e) ==
  \A t \in Tasks :
    /\ Pc(e, t) \in InDriver \cup Holding => Of(e, t) \in Opns
    /\ Pc(e, t) \in Driver \cup {"sync"} => Of(e, t) \in Opns /\ Rq(e, t) \in Reqs

\* A descriptor that is being opened or closed is with one task and cannot be
\* used; it is open until it leaves its queues.
Held(e) ==
  /\ \A t, u \in Tasks : Pc(e, t) \in Holding /\ Pc(e, u) \in Holding /\ Of(e, t) = Of(e, u) => t = u
  /\ \A t \in Tasks : Pc(e, t) \in Holding =>
       /\ e.opn[Of(e, t)].resid = 0
       /\ e.opn[Of(e, t)].q = IF Pc(e, t) \in Gone THEN "closing" ELSE "open"
  /\ \A o \in Opns : e.opn[o].resid = 1 => e.opn[o].q = "open"

\* Requests are queued where they belong to, and gone when a descriptor is.
Queued(e) ==
  /\ \A o \in Opns :
       /\ Injective(e.opn[o].requestq)
       /\ Elems(e.opn[o].requestq) = {r \in Reqs : e.req[r].opncb = o}
       /\ e.opn[o].q # "open" => e.opn[o].requestq = << >>
  /\ \A t \in Tasks :
       /\ Pc(e, t) \in Opening \cup {"close"} => e.opn[Of(e, t)].requestq = << >>
       /\ Pc(e, t) = "drain" /\ Rq(e, t) # NULL => Rq(e, t) \in Reqs /\ e.req[Rq(e, t)].opncb = Of(e, t)

\* A request is marked with the task that works on it, no other.
Marked(e) ==
  /\ \A t \in Tasks :
       /\ Pc(e, t) \in Driver => e.req[Rq(e, t)].opncb = Of(e, t) /\ e.req[Rq(e, t)].tskid = t
       /\ Pc(e, t) = "waitany" =>
            /\ e.opn[Of(e, t)].waireqlst # << >>
            /\ \A r \in Elems(e.opn[Of(e, t)].waireqlst) : e.req[r].opncb = Of(e, t) /\ e.req[r].tskid = t
  /\ \A r \in Reqs : e.req[r].tskid # NULL =>
       LET t == e.req[r].tskid
       IN  /\ Of(e, t) = e.req[r].opncb
           /\ \/ Pc(e, t) \in Driver /\ Rq(e, t) = r
              \/ Pc(e, t) = "waitany" /\ r \in Elems(e.opn[Of(e, t)].waireqlst)

\* Who is in the driver uses an open descriptor; who waits for any of its
\* requests is there alone.
Within(e) ==
  /\ \A t, u \in Tasks : Pc(e, t) = "waitany" /\ Pc(e, u) \in InDriver /\ Of(e, t) = Of(e, u) => t = u
  /\ \A o \in Opns : e.opn[o].waireqlst # << >> => \E t \in Tasks : Pc(e, t) = "waitany" /\ Of(e, t) = o
  /\ \A t \in Tasks : Pc(e, t) \in InDriver => e.opn[Of(e, t)].q = "open"
  /\ \A t, u \in Tasks : Pc(e, t) \in InDriver /\ Pc(e, u) \in Holding /\ Of(e, t) = Of(e, u) =>
       Pc(e, u) \in {"abort"} \cup Aborting

\* The aborting task and what it counts.
Counts(e, o) ==
  LET c == e.opn[o]
  IN  c.abort_tskid # NULL =>
        /\ Pc(e, c.abort_tskid) \in Aborting /\ Of(e, c.abort_tskid) = o
        /\ c.abort_cnt = Cardinality(InsideOf(e, o))
        /\ Pc(e, c.abort_tskid) = "asleep" => c.sem = 1 \/ c.abort_cnt > 0
        /\ Pc(e, c.abort_tskid) = "awake" \/ c.sem = 1 => c.abort_cnt = 0

Counted(e) ==
  /\ \A o \in Opns : Counts(e, o)
  /\ \A t \in Tasks : Pc(e, t) \in Aborting => e.opn[Of(e, t)].abort_tskid = t
  /\ \A o \in Opns : e.opn[o].sem = 1 /\ e.opn[o].abort_tskid = NULL =>
       \E t \in Tasks : Pc(e, t) \in Emptying /\ Of(e, t) = o

\* Who has which unit open, and how.
Modes(e) ==
  /\ OpenOf(e) # {} => e.registered
  /\ \A o \in OpenOf(e) : e.opn[o].unitno \in Unitnos /\ e.opn[o].unitno <= nsub
  /\ \A o, p \in OpenOf(e) :
       o # p /\ (e.opn[o].unitno = e.opn[p].unitno \/ e.opn[o].unitno = 0) =>
         /\ e.opn[o].omode \cap {"EXCL", "REXCL"} # {} => "READ" \notin e.opn[p].omode
         /\ e.opn[o].omode \cap {"EXCL", "WEXCL"} # {} => "WRITE" \notin e.opn[p].omode

DeviceInv(e) ==
  /\ Places(e) /\ Held(e) /\ Queued(e) /\ Marked(e) /\ Within(e) /\ Counted(e) /\ Modes(e)

-----------------------------------------------------------------------------
(* The changes the steps are made of                                       *)

\* What does not concern a descriptor.
Elsewhere == {"idle", "eventfn", "suspend", "sendevt", "sync"}

\* Task t goes on to w.
Goes(e, f, t, w) ==
  /\ f \in DeviceState /\ w \in TaskCB /\ f.task[t] = w
  /\ \A u \in Tasks \ {t} : f.task[u] = e.task[u]

\* Descriptors and requests stay as they are, but for o and for those in R.
SameOpn(e, f, o) == \A p \in Opns \ {o} : f.opn[p] = e.opn[p]
SameReq(e, f, R) == \A r \in Reqs \ R : f.req[r] = e.req[r]

\* A descriptor keeps what it was opened with.
SameModes(e, f) ==
  /\ OpenOf(e) # {} => f.registered
  /\ \A p \in Opns : /\ f.opn[p].q = "open" => e.opn[p].q = "open"
                     /\ f.opn[p].q = "open" => f.opn[p].unitno = e.opn[p].unitno /\ f.opn[p].omode = e.opn[p].omode

\* Then open modes are as compatible as before.
LEMMA ModesKept ==
  ASSUME NEW e, NEW f, Modes(e), SameModes(e, f)
  PROVE  Modes(f)
<1>1. OpenOf(f) \subseteq OpenOf(e) /\ \A o \in OpenOf(f) : o \in Opns /\ f.opn[o].q = "open"
  BY DEF OpenOf, SameModes
<1>2. \A o \in OpenOf(f) : f.opn[o].unitno = e.opn[o].unitno /\ f.opn[o].omode = e.opn[o].omode
  BY <1>1 DEF SameModes
<1> QED BY <1>1, <1>2 DEF Modes, SameModes

\* A task that does not enter or leave the driver.
LEMMA InsideKept ==
  ASSUME NEW e, NEW f, NEW t \in Tasks, NEW w, NEW p, Goes(e, f, t, w),
         (w.pc \in InDriver /\ w.o = p) <=> (Pc(e, t) \in InDriver /\ Of(e, t) = p)
  PROVE  InsideOf(f, p) = InsideOf(e, p)
<1>1. \A u \in Tasks : u \in InsideOf(f, p) <=> u \in InsideOf(e, p)
  BY DEF InsideOf, Goes, Pc, Of
<1> QED BY <1>1 DEF InsideOf

\* A task does what does not concern a descriptor.
LEMMA ElsewhereKeeps ==
  ASSUME NEW e \in DeviceState, DeviceInv(e), NEW f, NEW t \in Tasks, NEW w, Goes(e, f, t, w),
         f.opn = e.opn, f.req = e.req, Pc(e, t) \in Elsewhere, w.pc \in Elsewhere,
         w.pc = "sync" => w.o \in Opns /\ w.r \in Reqs, OpenOf(e) # {} => f.registered,
         NULL \notin Tasks
  PROVE  DeviceInv(f)
<1> USE DEF DeviceInv, Pc, Of, Rq
<1>0. /\ \A u \in Tasks : f.task[u] = IF u = t THEN w ELSE e.task[u]
      /\ \A l \in Elsewhere : l \notin InDriver /\ l \notin Holding
  BY DEF Goes, Elsewhere, InDriver, Driver, Holding, Opening, Aborting, Emptying, Gone
<1>1. Places(f)
  BY <1>0 DEF Places, Elsewhere, InDriver, Driver, Holding, Opening, Aborting, Emptying, Gone
<1>2. Held(f)
  BY <1>0 DEF Held
<1>3. Queued(f)
  BY <1>0 DEF Queued, Holding, Opening, Emptying
<1>4. Marked(f)
  <2>1. \A u \in Tasks :
          /\ Pc(f, u) \in Driver \cup {"waitany"} => u # t
          /\ u # t => Pc(f, u) = Pc(e, u) /\ Of(f, u) = Of(e, u) /\ Rq(f, u) = Rq(e, u)
    BY <1>0 DEF InDriver
  <2>2. \A r \in Reqs : e.req[r].tskid # NULL => e.req[r].tskid \in Tasks \ {t}
    BY <1>0 DEF Marked, InDriver, DeviceState, ReqCB
  <2>3. Marked(e) /\ f.req = e.req /\ f.opn = e.opn /\ t \in Tasks
    OBVIOUS
  <2> HIDE DEF DeviceInv, Pc, Of, Rq
  <2>4. ASSUME NEW u \in Tasks
        PROVE  /\ Pc(f, u) \in Driver => f.req[Rq(f, u)].opncb = Of(f, u) /\ f.req[Rq(f, u)].tskid = u
               /\ Pc(f, u) = "waitany" =>
                    /\ f.opn[Of(f, u)].waireqlst # << >>
                    /\ \A r \in Elems(f.opn[Of(f, u)].waireqlst) : f.req[r].opncb = Of(f, u) /\ f.req[r].tskid = u
    BY <2>1, <2>3 DEF Marked
  <2>5. ASSUME NEW r \in Reqs, f.req[r].tskid # NULL, NEW u, u = f.req[r].tskid
        PROVE  /\ Of(f, u) = f.req[r].opncb
               /\ \/ Pc(f, u) \in Driver /\ Rq(f, u) = r
                  \/ Pc(f, u) = "waitany" /\ r \in Elems(f.opn[Of(f, u)].waireqlst)
    BY <2>1, <2>2, <2>3, <2>5 DEF Marked
  <2> QED BY <2>4, <2>5 DEF Marked
<1>5. Within(f)
  BY <1>0 DEF Within, InDriver
<1>6. Counted(f)
  <2>1. \A p \in Opns : InsideOf(f, p) = InsideOf(e, p)
    BY <1>0, InsideKept
  <2>2. ASSUME NEW o \in Opns PROVE Counts(f, o)
    <3>1. e.opn[o].abort_tskid # NULL => e.opn[o].abort_tskid \in Tasks
      BY DEF DeviceState, OpnCB
    <3> QED BY <1>0, <2>1, <3>1 DEF Counted, Counts, Holding
  <2>3. \A u \in Tasks : Pc(f, u) \in Aborting => f.opn[Of(f, u)].abort_tskid = u
    BY <1>0 DEF Counted, Holding
  <2>4. \A o \in Opns : f.opn[o].sem = 1 /\ f.opn[o].abort_tskid = NULL =>
       \E u \in Tasks : Pc(f, u) \in Emptying /\ Of(f, u) = o
    BY <1>0 DEF Counted, Holding
  <2> QED BY <2>2, <2>3, <2>4 DEF Counted
<1>7. Modes(f)
  BY ModesKept DEF SameModes
<1> QED BY <1>1, <1>2, <1>3, <1>4, <1>5, <1>6, <1>7

\* Another label of the same descriptor, whose queues stay as they are.
Kept(e, f, o) ==
  /\ SameOpn(e, f, o) /\ f.req = e.req /\ f.registered = e.registered
  /\ f.opn[o].q = e.opn[o].q /\ f.opn[o].requestq = e.opn[o].requestq
  /\ f.opn[o].waireqlst = e.opn[o].waireqlst
  /\ f.opn[o].unitno = e.opn[o].unitno /\ f.opn[o].omode = e.opn[o].omode

Outside == {"idle"} \cup Holding

\* What holds of queues and requests when a task opens or closes descriptor o.
LEMMA HoldKeeps ==
  ASSUME NEW e \in DeviceState, DeviceInv(e), NEW f, NEW t \in Tasks, NEW w, NEW o \in Opns,
         Goes(e, f, t, w), Kept(e, f, o), Pc(e, t) \in Outside, w.pc \in Outside,
         w.pc \in Holding => w.o = o,
         w.pc \in Opening \cup {"close"} => e.opn[o].requestq = << >>,
         w.pc = "drain" /\ w.r # NULL => w.r \in Reqs /\ e.req[w.r].opncb = o,
         w.pc \in Holding \ ({"abort"} \cup Aborting) => InsideOf(e, o) = {}
  PROVE  Places(f) /\ Queued(f) /\ Marked(f) /\ Within(f) /\ Modes(f)
<1> USE DEF DeviceInv, Pc, Of, Rq
<1>0. /\ \A u \in Tasks : f.task[u] = IF u = t THEN w ELSE e.task[u]
      /\ \A l \in Outside : l \notin InDriver /\ l \notin Driver /\ l # "sync" /\ l # "waitany"
  BY DEF Goes, Outside, InDriver, Driver, Holding, Opening, Aborting, Emptying, Gone
<1>k. /\ f.req = e.req
      /\ \A p \in Opns : /\ f.opn[p].q = e.opn[p].q /\ f.opn[p].requestq = e.opn[p].requestq
                         /\ f.opn[p].waireqlst = e.opn[p].waireqlst
                         /\ f.opn[p].unitno = e.opn[p].unitno /\ f.opn[p].omode = e.opn[p].omode
  BY DEF Kept, SameOpn
<1>1. Places(f)
  BY <1>0 DEF Places, Outside
<1>2. Queued(f)
  <2>1. ASSUME NEW u \in Tasks
        PROVE  /\ Pc(f, u) \in Opening \cup {"close"} => f.opn[Of(f, u)].requestq = << >>
               /\ Pc(f, u) = "drain" /\ Rq(f, u) # NULL => Rq(f, u) \in Reqs /\ f.req[Rq(f, u)].opncb = Of(f, u)
    <3>1. Pc(f, u) \in Opening \cup {"close", "drain"} => Pc(f, u) \in Holding
      BY DEF Holding, Emptying
    <3>2. CASE u = t
      BY <1>0, <1>k, <3>1, <3>2
    <3>3. CASE u # t
      BY <1>0, <1>1, <1>k, <3>1, <3>3 DEF Queued, Places
    <3> QED BY <3>2, <3>3
  <2> QED BY <1>k, <2>1 DEF Queued
<1>3. Marked(f)
  <2>1. ASSUME NEW u \in Tasks
        PROVE  /\ Pc(f, u) \in Driver => f.req[Rq(f, u)].opncb = Of(f, u) /\ f.req[Rq(f, u)].tskid = u
               /\ Pc(f, u) = "waitany" =>
                    /\ f.opn[Of(f, u)].waireqlst # << >>
                    /\ \A r \in Elems(f.opn[Of(f, u)].waireqlst) : f.req[r].opncb = Of(f, u) /\ f.req[r].tskid = u
    <3>1. CASE u = t
      BY <1>0, <3>1 DEF InDriver
    <3>2. CASE u # t
      <4>1. Pc(f, u) = Pc(e, u) /\ Of(f, u) = Of(e, u) /\ Rq(f, u) = Rq(e, u)
        BY <1>0, <3>2
      <4>2. Pc(e, u) \in Driver \cup {"waitany"} => Of(e, u) \in Opns
        BY DEF Places, InDriver
      <4>3. Marked(e)
        OBVIOUS
      <4> HIDE DEF DeviceInv, Pc, Of, Rq
      <4> QED BY <1>k, <4>1, <4>2, <4>3 DEF Marked
    <3> QED BY <3>1, <3>2
  <2>2. ASSUME NEW r \in Reqs, f.req[r].tskid # NULL, NEW u, u = f.req[r].tskid
        PROVE  /\ Of(f, u) = f.req[r].opncb
               /\ \/ Pc(f, u) \in Driver /\ Rq(f, u) = r
                  \/ Pc(f, u) = "waitany" /\ r \in Elems(f.opn[Of(f, u)].waireqlst)
    <3>1. u \in Tasks
      BY <1>k, <2>2 DEF DeviceState, ReqCB
    <3>2. /\ Of(e, u) = e.req[r].opncb
          /\ \/ Pc(e, u) \in Driver /\ Rq(e, u) = r
             \/ Pc(e, u) = "waitany" /\ r \in Elems(e.opn[Of(e, u)].waireqlst)
      BY <1>k, <2>2, ZenonT(40) DEF Marked
    <3>3. u # t
      BY <1>0, <3>2
    <3>4. Of(e, u) \in Opns
      <4>1. Pc(e, u) \in InDriver
        BY <3>2 DEF InDriver
      <4>2. Places(e)
        OBVIOUS
      <4> HIDE DEF DeviceInv, Pc, Of, Rq
      <4> QED BY <3>1, <4>1, <4>2 DEF Places
    <3> QED BY <1>0, <1>k, <3>1, <3>2, <3>3, <3>4
  <2> QED BY <2>1, <2>2 DEF Marked
<1>4. Within(f)
  <2>1. \A u, v \in Tasks : Pc(f, u) = "waitany" /\ Pc(f, v) \in InDriver /\ Of(f, u) = Of(f, v) => u = v
    BY <1>0 DEF Within
  <2>2. \A p \in Opns : f.opn[p].waireqlst # << >> => \E u \in Tasks : Pc(f, u) = "waitany" /\ Of(f, u) = p
    BY <1>0, <1>k DEF Within
  <2>3. \A u \in Tasks : Pc(f, u) \in InDriver => f.opn[Of(f, u)].q = "open"
    BY <1>0, <1>k DEF Within, Places
  <2>4. ASSUME NEW u \in Tasks, NEW v \in Tasks, Pc(f, u) \in InDriver, Pc(f, v) \in Holding, Of(f, u) = Of(f, v)
        PROVE  Pc(f, v) \in {"abort"} \cup Aborting
    <3>1. u # t /\ Pc(e, u) \in InDriver /\ Of(e, u) = Of(f, u)
      BY <1>0, <2>4
    <3>2. CASE v = t
      <4>1. u \in InsideOf(e, o)
        BY <1>0, <2>4, <3>1, <3>2 DEF InsideOf
      <4> QED BY <1>0, <2>4, <3>2, <4>1
    <3>3. CASE v # t
      BY <1>0, <2>4, <3>1, <3>3 DEF Within
    <3> QED BY <3>2, <3>3
  <2> QED BY <2>1, <2>2, <2>3, <2>4 DEF Within
<1>5. Modes(f)
  <2>1. SameModes(e, f)
    BY <1>k DEF SameModes, Kept, Modes
  <2> QED BY <2>1, ModesKept
<1> QED BY <1>1, <1>2, <1>3, <1>4, <1>5

\* The count at a descriptor that t has nothing to do with.
LEMMA CountsKept ==
  ASSUME NEW e \in DeviceState, NEW f, NEW t \in Tasks, NEW w, NEW p \in Opns, NULL \notin Tasks,
         Goes(e, f, t, w), Counts(e, p), f.opn[p] = e.opn[p], e.opn[p].abort_tskid # t,
         (w.pc \in InDriver /\ w.o = p) <=> (Pc(e, t) \in InDriver /\ Of(e, t) = p)
  PROVE  Counts(f, p)
<1>1. InsideOf(f, p) = InsideOf(e, p)
  BY InsideKept
<1>2. e.opn[p].abort_tskid # NULL => f.task[e.opn[p].abort_tskid] = e.task[e.opn[p].abort_tskid]
  BY DEF Goes, DeviceState, OpnCB
<1> QED BY <1>1, <1>2 DEF Counts, Pc, Of

\* The tasks that hold descriptors while t opens or closes o: the counts, when
\* the one of o is right.
LEMMA HoldCounts ==
  ASSUME NEW e \in DeviceState, DeviceInv(e), NEW f, NEW t \in Tasks, NEW w, NEW o \in Opns,
         NULL \notin Tasks, Goes(e, f, t, w), SameOpn(e, f, o),
         Pc(e, t) \in Outside, w.pc \in Outside, Pc(e, t) \in Holding => Of(e, t) = o, w.pc \in Holding => w.o = o,
         Counts(f, o), w.pc \in Aborting => f.opn[o].abort_tskid = t,
         \A u \in Tasks \ {t} : Pc(e, u) \in Aborting => Of(e, u) # o,
         f.opn[o].sem = 1 /\ f.opn[o].abort_tskid = NULL => w.pc \in Emptying
  PROVE  Counted(f)
<1>0. /\ \A u \in Tasks : f.task[u] = IF u = t THEN w ELSE e.task[u]
      /\ \A l \in Outside : l \notin InDriver
      /\ \A l \in Aborting : l \in Holding
      /\ \A l \in Emptying : l \in Holding
  BY DEF Goes, Outside, InDriver, Driver, Holding, Opening, Aborting, Emptying, Gone
<1>1. ASSUME NEW p \in Opns, p # o PROVE Counts(f, p)
  <2>1. Counts(e, p) /\ f.opn[p] = e.opn[p]
    BY <1>1 DEF DeviceInv, Counted, SameOpn
  <2>2. e.opn[p].abort_tskid # t
    BY <1>0, <1>1, <2>1 DEF Counts
  <2> QED BY <1>0, <2>1, <2>2, CountsKept
<1>2. ASSUME NEW u \in Tasks, Pc(f, u) \in Aborting PROVE f.opn[Of(f, u)].abort_tskid = u
  <2>1. CASE u = t
    BY <1>0, <1>2, <2>1 DEF Pc, Of
  <2>2. CASE u # t
    <3>1. Pc(e, u) \in Aborting /\ Of(f, u) = Of(e, u) /\ Of(e, u) # o /\ Of(e, u) \in Opns
      BY <1>0, <1>2, <2>2 DEF Pc, Of, DeviceInv, Places
    <3> QED BY <3>1 DEF DeviceInv, Counted, SameOpn
  <2> QED BY <2>1, <2>2
<1>3. ASSUME NEW p \in Opns, f.opn[p].sem = 1, f.opn[p].abort_tskid = NULL
      PROVE  \E u \in Tasks : Pc(f, u) \in Emptying /\ Of(f, u) = p
  <2>1. CASE p = o
    <3>1. Pc(f, t) \in Emptying /\ Of(f, t) = p
      BY <1>0, <1>3, <2>1 DEF Pc, Of
    <3> QED BY <3>1
  <2>2. CASE p # o
    <3>1. PICK u \in Tasks : Pc(e, u) \in Emptying /\ Of(e, u) = p
      BY <1>3, <2>2 DEF DeviceInv, Counted, SameOpn
    <3>2. u # t
      BY <1>0, <2>2, <3>1
    <3> QED BY <1>0, <3>1, <3>2 DEF Pc, Of
  <2> QED BY <2>1, <2>2
<1> QED BY <1>1, <1>2, <1>3 DEF Counted

\* Nobody else holds o.
Only(e, t, o) == \A u \in Tasks \ {t} : Pc(e, u) \in Holding => Of(e, u) # o

\* Then o stays with t, or is given back.
LEMMA HoldHeld ==
  ASSUME NEW e \in DeviceState, DeviceInv(e), NEW f, NEW t \in Tasks, NEW w, NEW o \in Opns,
         Goes(e, f, t, w), SameOpn(e, f, o), Only(e, t, o),
         w.pc \in Outside, w.pc \in Holding => w.o = o,
         w.pc \in Holding => /\ f.opn[o].resid = 0
                             /\ f.opn[o].q = IF w.pc \in Gone THEN "closing" ELSE "open",
         f.opn[o].resid = 1 => f.opn[o].q = "open"
  PROVE  Held(f)
<1> USE DEF Pc, Of
<1>0. \A u \in Tasks : f.task[u] = IF u = t THEN w ELSE e.task[u]
  BY DEF Goes
<1>1. \A u, v \in Tasks : Pc(f, u) \in Holding /\ Pc(f, v) \in Holding /\ Of(f, u) = Of(f, v) => u = v
  BY <1>0 DEF Only, DeviceInv, Held
<1>2. ASSUME NEW u \in Tasks, Pc(f, u) \in Holding
      PROVE  /\ f.opn[Of(f, u)].resid = 0
             /\ f.opn[Of(f, u)].q = IF Pc(f, u) \in Gone THEN "closing" ELSE "open"
  <2>1. CASE u = t
    BY <1>0, <1>2, <2>1
  <2>2. CASE u # t
    <3>1. Of(e, u) \in Opns \ {o}
      BY <1>0, <1>2, <2>2 DEF Only, DeviceInv, Places
    <3> QED BY <1>0, <1>2, <2>2, <3>1 DEF SameOpn, DeviceInv, Held
  <2> QED BY <2>1, <2>2
<1>3. \A p \in Opns : f.opn[p].resid = 1 => f.opn[p].q = "open"
  BY DEF SameOpn, DeviceInv, Held
<1> QED BY <1>1, <1>2, <1>3 DEF Held

-----------------------------------------------------------------------------
(* The steps in terms of these changes                                     *)

\* Descriptor o becomes c.
WithOpn(e, o, c) == [e EXCEPT !.opn[o] = c]

\* Only the descriptor changes, and the state keeps its type.
LEMMA WithOpnFacts ==
  ASSUME NEW e \in DeviceState, NEW o \in Opns, NEW c \in OpnCB
  PROVE  LET f == WithOpn(e, o, c)
         IN  /\ f \in DeviceState /\ f.opn[o] = c /\ SameOpn(e, f, o)
             /\ f.req = e.req /\ f.task = e.task /\ f.registered = e.registered
<1> DEFINE f == WithOpn(e, o, c)
           O == [e.opn EXCEPT ![o] = c]
<1>1. f = [e EXCEPT !.opn = O] /\ O \in [Opns -> OpnCB] /\ O[o] = c /\ \A p \in Opns \ {o} : O[p] = e.opn[p]
  BY DEF WithOpn, DeviceState
<1> HIDE DEF O
<1>2. f \in DeviceState /\ f.opn = O /\ f.req = e.req /\ f.task = e.task /\ f.registered = e.registered
  BY <1>1 DEF DeviceState
<1> QED BY <1>1, <1>2 DEF SameOpn

\* The task goes on.
Move(e, t, w) == [e EXCEPT !.task[t] = w]

\* Only the place of the task changes, and the state keeps its type.
LEMMA MoveFacts ==
  ASSUME NEW e \in DeviceState, NEW t \in Tasks, NEW w \in TaskCB
  PROVE  LET f == Move(e, t, w)
         IN  /\ Goes(e, f, t, w) /\ f.opn = e.opn /\ f.req = e.req /\ f.registered = e.registered
<1> DEFINE f == Move(e, t, w)
           T == [e.task EXCEPT ![t] = w]
<1>1. f = [e EXCEPT !.task = T] /\ T \in [Tasks -> TaskCB] /\ T[t] = w /\ \A u \in Tasks \ {t} : T[u] = e.task[u]
  BY DEF Move, DeviceState
<1> HIDE DEF T
<1>2. f \in DeviceState /\ f.task = T /\ f.opn = e.opn /\ f.req = e.req /\ f.registered = e.registered
  BY <1>1 DEF DeviceState
<1> QED BY <1>1, <1>2 DEF Goes

\* A label, a descriptor and a request, and their label.
LEMMA CBFacts ==
  ASSUME NEW l \in Labels, NEW o \in Opns \cup {NULL}, NEW r \in Reqs \cup {NULL}
  PROVE  LET w == [pc |-> l, o |-> o, r |-> r]
         IN  w \in TaskCB /\ w.pc = l /\ w.o = o /\ w.r = r
BY DEF TaskCB

\* Changing descriptor o and going on to w at the same time.
LEMMA BothFacts ==
  ASSUME NEW e \in DeviceState, NEW o \in Opns, NEW c \in OpnCB, NEW t \in Tasks, NEW w \in TaskCB
  PROVE  LET f == Move(WithOpn(e, o, c), t, w)
         IN  /\ Goes(e, f, t, w) /\ f.opn[o] = c /\ SameOpn(e, f, o) /\ f.req = e.req /\ f.registered = e.registered
<1> DEFINE g == WithOpn(e, o, c)
           f == Move(g, t, w)
<1>1. /\ g \in DeviceState /\ g.opn[o] = c /\ SameOpn(e, g, o)
      /\ g.req = e.req /\ g.task = e.task /\ g.registered = e.registered
  BY WithOpnFacts
<1> HIDE DEF g
<1>2. Goes(g, f, t, w) /\ f.opn = g.opn /\ f.req = g.req /\ f.registered = g.registered
  BY <1>1, MoveFacts
<1> HIDE DEF f
<1>3. Goes(e, f, t, w) /\ SameOpn(e, f, o)
  BY <1>1, <1>2 DEF Goes, SameOpn
<1> QED BY <1>1, <1>2, <1>3 DEF f, g

\* Nobody else holds the descriptor of a task that opens or closes it, and
\* nobody one that can be used or is free.
LEMMA HolderAlone ==
  ASSUME NEW e \in DeviceState, DeviceInv(e), NEW t \in Tasks, NEW o \in Opns,
         (Pc(e, t) \in Holding /\ Of(e, t) = o) \/ e.opn[o].resid = 1 \/ e.opn[o].q = "free"
  PROVE  Only(e, t, o)
BY DEF Only, DeviceInv, Held, Pc, Of

\* What is assumed: NULL is none of the tasks, descriptors and requests, there are
\* finitely many tasks, and nobody starts a request while tk_wai_dev(dd, 0) waits
\* (a request started then is not counted by abort_allrequest).
Setting == /\ NULL \notin Tasks /\ NULL \notin Opns /\ NULL \notin Reqs
           /\ IsFiniteSet(Tasks) /\ ~AllowAny

\* What a task may do to a descriptor that nobody else opens or closes.
Holds(e, f, t, w, o) ==
  /\ Goes(e, f, t, w) /\ Kept(e, f, o) /\ Only(e, t, o)
  /\ Pc(e, t) \in Outside /\ (Pc(e, t) \in Holding => Of(e, t) = o)
  /\ w.pc \in Outside /\ (w.pc \in Holding => w.o = o)
  /\ w.pc \in Opening \cup {"close"} => e.opn[o].requestq = << >>
  /\ w.pc = "drain" /\ w.r # NULL => w.r \in Reqs /\ e.req[w.r].opncb = o
  /\ w.pc \in Holding \ ({"abort"} \cup Aborting) => InsideOf(e, o) = {}
  /\ w.pc \in Holding => f.opn[o].resid = 0 /\ f.opn[o].q = IF w.pc \in Gone THEN "closing" ELSE "open"
  /\ f.opn[o].resid = 1 => f.opn[o].q = "open"
  /\ f.opn[o].abort_tskid = IF w.pc \in Aborting THEN t ELSE NULL
  /\ w.pc \in Aborting => /\ f.opn[o].abort_cnt = Cardinality(InsideOf(e, o))
                          /\ w.pc = "asleep" => f.opn[o].sem = 1 \/ f.opn[o].abort_cnt > 0
                          /\ w.pc = "awake" \/ f.opn[o].sem = 1 => f.opn[o].abort_cnt = 0
  /\ w.pc \notin Aborting /\ f.opn[o].sem = 1 => w.pc \in Emptying

\* It keeps the invariant.
LEMMA HoldStep ==
  ASSUME NEW e \in DeviceState, DeviceInv(e), NEW f, NEW t \in Tasks, NEW w, NEW o \in Opns,
         Setting, Holds(e, f, t, w, o)
  PROVE  f \in DeviceState /\ DeviceInv(f)
<1>1. Goes(e, f, t, w) /\ Kept(e, f, o) /\ SameOpn(e, f, o) /\ Only(e, t, o) /\ NULL \notin Tasks
  BY DEF Holds, Kept, Setting
<1>2. Places(f) /\ Queued(f) /\ Marked(f) /\ Within(f) /\ Modes(f)
  BY <1>1, HoldKeeps DEF Holds
<1>3. Held(f)
  BY <1>1, HoldHeld DEF Holds
<1>4. Counts(f, o)
  <2>1. InsideOf(f, o) = InsideOf(e, o)
    <3>1. w.pc \notin InDriver /\ Pc(e, t) \notin InDriver
      BY DEF Holds, Outside, Holding, InDriver, Driver, Opening, Aborting, Emptying, Gone
    <3> QED BY <1>1, <3>1, InsideKept
  <2>2. f.task[t] = w
    BY <1>1 DEF Goes
  <2> QED BY <2>1, <2>2 DEF Holds, Counts, Pc, Of, Holding
<1>5. Counted(f)
  <2>1. \A u \in Tasks \ {t} : Pc(e, u) \in Aborting => Of(e, u) # o
    BY <1>1 DEF Only, Holding
  <2> QED BY <1>1, <1>4, <2>1, HoldCounts DEF Holds, Holding
<1> QED BY <1>1, <1>2, <1>3, <1>5 DEF DeviceInv, Goes

\* Nobody aborts what happens at o.
LEMMA NotAborting ==
  ASSUME NEW e \in DeviceState, DeviceInv(e), NEW t \in Tasks, NEW o \in Opns, Setting, Only(e, t, o)
  PROVE  /\ ~(Pc(e, t) \in Aborting /\ Of(e, t) = o) => e.opn[o].abort_tskid = NULL
         /\ ~(Pc(e, t) \in Aborting \cup Emptying /\ Of(e, t) = o) => e.opn[o].sem = 0
<1>1. e.opn[o].abort_tskid # NULL => e.opn[o].abort_tskid \in Tasks
  BY DEF DeviceState, OpnCB
<1>2. ~(Pc(e, t) \in Aborting /\ Of(e, t) = o) => e.opn[o].abort_tskid = NULL
  BY <1>1 DEF Only, DeviceInv, Counted, Counts, Holding
<1>3. e.opn[o].sem \in {0, 1}
  BY DEF DeviceState, OpnCB
<1> QED BY <1>2, <1>3 DEF Only, DeviceInv, Counted, Holding

\* The labels and their groups.
LEMMA LabelFacts ==
  /\ {"idle", "sync", "openfn", "opened", "execfn", "sexecfn", "waitfn", "waitany", "abort", "aborted", "asleep",
      "awake", "drain", "close", "closefn", "closed", "eventfn", "suspend", "sendevt"} = Labels
  /\ Holding = {"openfn", "opened", "abort", "aborted", "asleep", "awake", "drain", "close", "closefn", "closed"}
  /\ Opening = {"openfn", "opened"} /\ Aborting = {"aborted", "asleep", "awake"}
  /\ Emptying = {"drain", "close"} /\ Gone = {"closefn", "closed"}
  /\ Outside = {"idle"} \cup Holding /\ InDriver = {"execfn", "sexecfn", "waitfn", "waitany"}
  /\ Driver = {"execfn", "sexecfn", "waitfn"}
BY DEF Labels, Holding, Opening, Gone, Aborting, Emptying, Outside, InDriver, Driver

\* openfn succeeds, Opened, closefn and tk_cls_dev.
LEMMA OpenSteps ==
  ASSUME d \in DeviceState, DeviceInv(d), Setting, NEW t \in Tasks,
         \/ At(t, "openfn") /\ Goto(t, "opened", d.task[t].o, NULL, d)
         \/ Opened(t) \/ closefn(t) \/ (\E o \in Opns : tk_cls_dev(t, o))
  PROVE  d' \in DeviceState /\ DeviceInv(d')
<1>e. ASSUME NEW o, o = Of(d, t), Pc(d, t) \in Opening \cup Gone
      PROVE  /\ o \in Opns /\ InsideOf(d, o) = {} /\ Only(d, t, o)
             /\ d.opn[o].abort_tskid = NULL /\ d.opn[o].sem = 0 /\ d.opn[o].resid = 0
             /\ d.opn[o].q = IF Pc(d, t) \in Gone THEN "closing" ELSE "open"
             /\ Pc(d, t) \in Opening => d.opn[o].requestq = << >>
  <2>1. o \in Opns
    BY <1>e, LabelFacts DEF DeviceInv, Places
  <2>2. Only(d, t, o)
    BY <1>e, <2>1, LabelFacts, HolderAlone
  <2>3. d.opn[o].abort_tskid = NULL /\ d.opn[o].sem = 0
    BY <1>e, <2>1, <2>2, LabelFacts, NotAborting
  <2>4. InsideOf(d, o) = {}
    BY <1>e, LabelFacts DEF DeviceInv, Within, InsideOf, Pc, Of
  <2> QED BY <1>e, <2>1, <2>2, <2>3, <2>4, LabelFacts DEF DeviceInv, Held, Queued
<1>1. ASSUME At(t, "openfn"), Goto(t, "opened", d.task[t].o, NULL, d)
      PROVE  d' \in DeviceState /\ DeviceInv(d')
  <2> DEFINE o == Of(d, t)
             w == [pc |-> "opened", o |-> o, r |-> NULL]
  <2>1. Pc(d, t) = "openfn" /\ d' = Move(d, t, w)
    BY <1>1 DEF At, Goto, Move, Pc, Of
  <2>2. /\ o \in Opns /\ InsideOf(d, o) = {} /\ Only(d, t, o) /\ d.opn[o].abort_tskid = NULL
        /\ d.opn[o].sem = 0 /\ d.opn[o].resid = 0 /\ d.opn[o].q = "open" /\ d.opn[o].requestq = << >>
    BY <1>e, <2>1, LabelFacts
  <2>3. w \in TaskCB /\ w.pc = "opened" /\ w.o = o /\ w.r = NULL
    BY <2>2, LabelFacts, CBFacts
  <2>4. Of(d, t) = o
    OBVIOUS
  <2> HIDE DEF w, o
  <2>5. Goes(d, d', t, w) /\ d'.opn = d.opn /\ d'.req = d.req /\ d'.registered = d.registered
    BY <2>1, <2>3, MoveFacts
  <2>6. Holds(d, d', t, w, o)
    BY <2>1, <2>2, <2>3, <2>4, <2>5, LabelFacts DEF Holds, Kept, SameOpn
  <2> QED BY <2>2, <2>6, HoldStep
<1>2. CASE Opened(t)
  <2> DEFINE o == Of(d, t)
             c == [d.opn[o] EXCEPT !.resid = 1]
             w == FreeTask
  <2>1. Pc(d, t) = "opened" /\ d' = Move(WithOpn(d, o, c), t, w)
    BY <1>2 DEF Opened, At, Return, Move, WithOpn, Pc, Of
  <2>2. /\ o \in Opns /\ InsideOf(d, o) = {} /\ Only(d, t, o) /\ d.opn[o].abort_tskid = NULL
        /\ d.opn[o].sem = 0 /\ d.opn[o].resid = 0 /\ d.opn[o].q = "open" /\ d.opn[o].requestq = << >>
    BY <1>e, <2>1, LabelFacts
  <2>3. w \in TaskCB /\ w.pc = "idle"
    BY LabelFacts, CBFacts DEF FreeTask
  <2>4. Of(d, t) = o
    OBVIOUS
  <2>c. /\ c \in OpnCB /\ c.resid = 1 /\ c.q = d.opn[o].q /\ c.requestq = d.opn[o].requestq /\ c.waireqlst = d.opn[o].waireqlst
        /\ c.unitno = d.opn[o].unitno /\ c.omode = d.opn[o].omode /\ c.abort_tskid = d.opn[o].abort_tskid
        /\ c.abort_cnt = d.opn[o].abort_cnt /\ c.sem = d.opn[o].sem
    <3>1. d.opn[o] \in OpnCB
      BY <2>2 DEF DeviceState
    <3> HIDE DEF o
    <3> QED BY <3>1 DEF OpnCB
  <2> HIDE DEF w, o, c
  <2>5. Goes(d, d', t, w) /\ d'.opn[o] = c /\ SameOpn(d, d', o) /\ d'.req = d.req /\ d'.registered = d.registered
    BY <2>1, <2>2, <2>3, <2>c, BothFacts
  <2>6. Holds(d, d', t, w, o)
    BY <2>1, <2>2, <2>3, <2>4, <2>5, <2>c, LabelFacts DEF Holds, Kept
  <2> QED BY <2>2, <2>6, HoldStep
<1>3. CASE closefn(t)
  <2> DEFINE o == Of(d, t)
             w == [pc |-> "closed", o |-> o, r |-> NULL]
  <2>1. Pc(d, t) = "closefn" /\ d' = Move(d, t, w)
    BY <1>3 DEF closefn, At, Goto, Move, Pc, Of
  <2>2. /\ o \in Opns /\ InsideOf(d, o) = {} /\ Only(d, t, o) /\ d.opn[o].abort_tskid = NULL
        /\ d.opn[o].sem = 0 /\ d.opn[o].resid = 0 /\ d.opn[o].q = "closing"
    BY <1>e, <2>1, LabelFacts
  <2>3. w \in TaskCB /\ w.pc = "closed" /\ w.o = o /\ w.r = NULL
    BY <2>2, LabelFacts, CBFacts
  <2>4. Of(d, t) = o
    OBVIOUS
  <2> HIDE DEF w, o
  <2>5. Goes(d, d', t, w) /\ d'.opn = d.opn /\ d'.req = d.req /\ d'.registered = d.registered
    BY <2>1, <2>3, MoveFacts
  <2>6. Holds(d, d', t, w, o)
    BY <2>1, <2>2, <2>3, <2>4, <2>5, LabelFacts DEF Holds, Kept, SameOpn
  <2> QED BY <2>2, <2>6, HoldStep
<1>4. ASSUME NEW o \in Opns, tk_cls_dev(t, o)
      PROVE  d' \in DeviceState /\ DeviceInv(d')
  <2> DEFINE c == [d.opn[o] EXCEPT !.resid = 0]
             w == [pc |-> "abort", o |-> o, r |-> NULL]
  <2>1. Pc(d, t) = "idle" /\ d' = Move(WithOpn(d, o, c), t, w) /\ d.opn[o].resid = 1
    BY <1>4 DEF tk_cls_dev, knl_check_devdesc, At, Goto, Move, WithOpn, Pc
  <2>2. Only(d, t, o) /\ d.opn[o].q = "open"
    BY <2>1, HolderAlone DEF DeviceInv, Held
  <2>3. d.opn[o].abort_tskid = NULL /\ d.opn[o].sem = 0
    BY <2>1, <2>2, LabelFacts, NotAborting
  <2>4. w \in TaskCB /\ w.pc = "abort" /\ w.o = o /\ w.r = NULL
    BY LabelFacts, CBFacts
  <2>c. /\ c \in OpnCB /\ c.resid = 0 /\ c.q = d.opn[o].q /\ c.requestq = d.opn[o].requestq /\ c.waireqlst = d.opn[o].waireqlst
        /\ c.unitno = d.opn[o].unitno /\ c.omode = d.opn[o].omode /\ c.abort_tskid = d.opn[o].abort_tskid
        /\ c.abort_cnt = d.opn[o].abort_cnt /\ c.sem = d.opn[o].sem
    <3>1. d.opn[o] \in OpnCB
      BY DEF DeviceState
    <3> QED BY <3>1 DEF OpnCB
  <2> HIDE DEF w, c
  <2>5. Goes(d, d', t, w) /\ d'.opn[o] = c /\ SameOpn(d, d', o) /\ d'.req = d.req /\ d'.registered = d.registered
    BY <2>1, <2>4, <2>c, BothFacts
  <2>6. Holds(d, d', t, w, o)
    BY <2>1, <2>2, <2>3, <2>4, <2>5, <2>c, LabelFacts DEF Holds, Kept
  <2> QED BY <2>6, HoldStep
<1> QED BY <1>1, <1>2, <1>3, <1>4

\* abort_allrequest counts the requests that are worked on, or one task that
\* waits for any: those are the tasks inside the driver.
LEMMA AbortCount ==
  ASSUME NEW e \in DeviceState, DeviceInv(e), NEW o \in Opns, Setting
  PROVE  /\ e.opn[o].waireqlst # << >> => Cardinality(InsideOf(e, o)) = 1
         /\ e.opn[o].waireqlst = << >> =>
              Cardinality({r \in Elems(e.opn[o].requestq) : e.req[r].tskid # NULL}) = Cardinality(InsideOf(e, o))
         /\ IsFiniteSet(InsideOf(e, o)) /\ Cardinality(InsideOf(e, o)) \in Nat
<1> DEFINE M == {r \in Elems(e.opn[o].requestq) : e.req[r].tskid # NULL}
<1>1. IsFiniteSet(InsideOf(e, o)) /\ Cardinality(InsideOf(e, o)) \in Nat
  <2>1. InsideOf(e, o) \in SUBSET Tasks
    BY DEF InsideOf
  <2> QED BY <2>1, FS_Subset, FS_CardinalityType DEF Setting
<1>2. CASE e.opn[o].waireqlst # << >>
  <2>1. PICK u \in Tasks : Pc(e, u) = "waitany" /\ Of(e, u) = o
    BY <1>2 DEF DeviceInv, Within
  <2>2. InsideOf(e, o) = {u}
    BY <2>1, LabelFacts DEF DeviceInv, Within, InsideOf, Pc, Of
  <2> QED BY <1>1, <1>2, <2>2, FS_Singleton
<1>3. CASE e.opn[o].waireqlst = << >>
  <2> DEFINE g == [u \in InsideOf(e, o) |-> Rq(e, u)]
  <2>q. Elems(e.opn[o].requestq) = {r \in Reqs : e.req[r].opncb = o}
    BY DEF DeviceInv, Queued
  <2>1. ASSUME NEW u \in InsideOf(e, o)
        PROVE  u \in Tasks /\ Rq(e, u) \in M /\ e.req[Rq(e, u)].tskid = u
    <3>1. u \in Tasks /\ Of(e, u) = o /\ Pc(e, u) \in Driver
      BY <1>3, LabelFacts DEF InsideOf, DeviceInv, Marked, Pc, Of
    <3>2. Rq(e, u) \in Reqs /\ e.req[Rq(e, u)].opncb = o /\ e.req[Rq(e, u)].tskid = u
      BY <3>1 DEF DeviceInv, Places, Marked
    <3> QED BY <2>q, <3>1, <3>2 DEF Setting
  <2>2. ASSUME NEW r \in M
        PROVE  e.req[r].tskid \in InsideOf(e, o) /\ Rq(e, e.req[r].tskid) = r
    <3>1. r \in Reqs /\ e.req[r].opncb = o /\ e.req[r].tskid # NULL
      BY <2>q
    <3>2. e.req[r].tskid \in Tasks
      BY <3>1 DEF DeviceState, ReqCB
    <3>3. /\ Of(e, e.req[r].tskid) = o
          /\ \/ Pc(e, e.req[r].tskid) \in Driver /\ Rq(e, e.req[r].tskid) = r
             \/ Pc(e, e.req[r].tskid) = "waitany" /\ r \in Elems(e.opn[o].waireqlst)
      BY <3>1 DEF DeviceInv, Marked
    <3>4. r \notin Elems(e.opn[o].waireqlst)
      BY <1>3 DEF Elems
    <3> QED BY <3>2, <3>3, <3>4, LabelFacts DEF InsideOf, Pc, Of
  <2> HIDE DEF M
  <2>3. g \in Bijection(InsideOf(e, o), M)
    <3>1. g \in Injection(InsideOf(e, o), M)
      BY <2>1 DEF Injection, IsInjective
    <3>2. g \in Surjection(InsideOf(e, o), M)
      BY <2>1, <2>2 DEF Surjection
    <3> QED BY <3>1, <3>2 DEF Bijection
  <2>4. ExistsBijection(InsideOf(e, o), M)
    BY <2>3 DEF ExistsBijection
  <2>5. Cardinality(M) = Cardinality(InsideOf(e, o))
    BY <1>1, <2>4, FS_Bijection
  <2> QED BY <1>1, <1>3, <2>5 DEF M
<1> QED BY <1>1, <1>2, <1>3

\* A task that closes a descriptor and what is there.
LEMMA ClosingFacts ==
  ASSUME NEW e \in DeviceState, DeviceInv(e), NEW t \in Tasks, NEW o, o = Of(e, t), Setting,
         Pc(e, t) \in {"abort"} \cup Aborting \cup Emptying
  PROVE  /\ o \in Opns /\ Only(e, t, o) /\ e.opn[o] \in OpnCB /\ e.opn[o].resid = 0 /\ e.opn[o].q = "open"
         /\ Pc(e, t) = "abort" => e.opn[o].abort_tskid = NULL /\ e.opn[o].sem = 0
         /\ Pc(e, t) \in Emptying => e.opn[o].abort_tskid = NULL /\ InsideOf(e, o) = {}
         /\ Pc(e, t) \in Aborting => e.opn[o].abort_tskid = t /\ Counts(e, o)
         /\ Cardinality(InsideOf(e, o)) \in Nat
<1>1. o \in Opns
  BY LabelFacts DEF DeviceInv, Places
<1>2. Only(e, t, o)
  BY <1>1, LabelFacts, HolderAlone
<1>3. e.opn[o] \in OpnCB
  BY <1>1 DEF DeviceState
<1>4. e.opn[o].resid = 0 /\ e.opn[o].q = "open"
  BY LabelFacts DEF DeviceInv, Held
<1>5. /\ Pc(e, t) \notin Aborting => e.opn[o].abort_tskid = NULL
      /\ Pc(e, t) = "abort" => e.opn[o].sem = 0
  BY <1>1, <1>2, LabelFacts, NotAborting
<1>6. Pc(e, t) \in Emptying => InsideOf(e, o) = {}
  BY LabelFacts DEF DeviceInv, Within, InsideOf, Pc, Of
<1>7. Pc(e, t) \in Aborting => e.opn[o].abort_tskid = t /\ Counts(e, o)
  BY <1>1 DEF DeviceInv, Counted
<1>8. Cardinality(InsideOf(e, o)) \in Nat
  BY <1>1, AbortCount
<1> QED BY <1>1, <1>2, <1>3, <1>4, <1>5, <1>6, <1>7, <1>8, LabelFacts

\* abort_allrequest and WaitAborted.
LEMMA AbortSteps ==
  ASSUME d \in DeviceState, DeviceInv(d), Setting, NEW t \in Tasks, abort_allrequest(t) \/ WaitAborted(t)
  PROVE  d' \in DeviceState /\ DeviceInv(d')
<1> DEFINE o == Of(d, t)
<1>o. o = d.task[t].o /\ Of(d, t) = o
  BY DEF Of
<1>1. CASE abort_allrequest(t)
  <2> DEFINE n == IF Len(d.opn[o].waireqlst) > 0 THEN 1
                  ELSE Cardinality({r \in Elems(d.opn[o].requestq) : d.req[r].tskid # NULL})
             c == [d.opn[o] EXCEPT !.abort_tskid = t, !.abort_cnt = n]
             w == [pc |-> "aborted", o |-> o, r |-> NULL]
  <2>1. Pc(d, t) = "abort" /\ d' = Move(WithOpn(d, o, c), t, w)
    BY <1>1, ZenonT(30) DEF abort_allrequest, nwaireq, At, Goto, Move, WithOpn, Pc, Of
  <2>2. /\ o \in Opns /\ Only(d, t, o) /\ d.opn[o] \in OpnCB /\ d.opn[o].resid = 0 /\ d.opn[o].q = "open"
        /\ d.opn[o].sem = 0 /\ Cardinality(InsideOf(d, o)) \in Nat
    BY <2>1, ClosingFacts
  <2>3. n = Cardinality(InsideOf(d, o))
    <3>1. d.opn[o].waireqlst \in Seq(Reqs)
      BY <2>2 DEF OpnCB
    <3>2. Len(d.opn[o].waireqlst) > 0 <=> d.opn[o].waireqlst # << >>
      BY <3>1
    <3> QED BY <2>2, <3>2, AbortCount
  <2>4. w \in TaskCB /\ w.pc = "aborted" /\ w.o = o /\ w.r = NULL
    BY <2>2, LabelFacts, CBFacts
  <2> HIDE DEF n, o
  <2>c. /\ c \in OpnCB /\ c.resid = d.opn[o].resid /\ c.q = d.opn[o].q /\ c.requestq = d.opn[o].requestq
        /\ c.waireqlst = d.opn[o].waireqlst
        /\ c.unitno = d.opn[o].unitno /\ c.omode = d.opn[o].omode /\ c.abort_tskid = t
        /\ c.abort_cnt = n /\ c.sem = d.opn[o].sem
    <3>1. n \in Int /\ t \in Tasks \cup {NULL} /\ d.opn[o] \in OpnCB
      BY <2>2, <2>3
    <3> QED BY <3>1 DEF OpnCB
  <2> HIDE DEF w, c
  <2>5. Goes(d, d', t, w) /\ d'.opn[o] = c /\ SameOpn(d, d', o) /\ d'.req = d.req /\ d'.registered = d.registered
    BY <2>1, <2>2, <2>4, <2>c, BothFacts
  <2>6. Holds(d, d', t, w, o)
    BY <1>o, <2>1, <2>2, <2>3, <2>4, <2>5, <2>c, LabelFacts DEF Holds, Kept
  <2> QED BY <2>2, <2>6, HoldStep
<1>2. ASSUME At(t, "aborted"), NEW l, l = IF d.opn[o].abort_cnt > 0 THEN "asleep" ELSE "awake",
             Goto(t, l, o, NULL, d)
      PROVE  d' \in DeviceState /\ DeviceInv(d')
  <2> DEFINE w == [pc |-> l, o |-> o, r |-> NULL]
  <2>1. Pc(d, t) = "aborted" /\ d' = Move(d, t, w)
    BY <1>2 DEF At, Goto, Move, Pc, Of
  <2>2. /\ o \in Opns /\ Only(d, t, o) /\ d.opn[o] \in OpnCB /\ d.opn[o].resid = 0 /\ d.opn[o].q = "open"
        /\ d.opn[o].abort_tskid = t /\ Counts(d, o) /\ Cardinality(InsideOf(d, o)) \in Nat
    BY <2>1, LabelFacts, ClosingFacts
  <2>3. /\ d.opn[o].abort_cnt = Cardinality(InsideOf(d, o)) /\ d.opn[o].abort_cnt \in Nat
        /\ d.opn[o].sem = 1 => d.opn[o].abort_cnt = 0
    BY <2>2 DEF Counts, Setting
  <2>4. w \in TaskCB /\ w.pc = l /\ w.o = o /\ w.r = NULL
    BY <1>2, <2>2, LabelFacts, CBFacts
  <2>5. l \in {"asleep", "awake"} /\ (l = "asleep" => d.opn[o].abort_cnt > 0) /\ (l = "awake" => d.opn[o].abort_cnt = 0)
    BY <1>2, <2>3
  <2> HIDE DEF w, o
  <2>6. Goes(d, d', t, w) /\ d'.opn = d.opn /\ d'.req = d.req /\ d'.registered = d.registered
    BY <2>1, <2>4, MoveFacts
  <2>7. Holds(d, d', t, w, o)
    BY <1>o, <2>1, <2>2, <2>3, <2>4, <2>5, <2>6, LabelFacts DEF Holds, Kept, SameOpn
  <2> QED BY <2>2, <2>7, HoldStep
<1>3. ASSUME At(t, "asleep"), d.opn[o].sem > 0, Goto(t, "awake", o, NULL, [d EXCEPT !.opn[o].sem = @ - 1])
      PROVE  d' \in DeviceState /\ DeviceInv(d')
  <2> DEFINE c == [d.opn[o] EXCEPT !.sem = @ - 1]
             w == [pc |-> "awake", o |-> o, r |-> NULL]
  <2>1. Pc(d, t) = "asleep" /\ d' = Move(WithOpn(d, o, c), t, w)
    BY <1>3 DEF At, Goto, Move, WithOpn, Pc, Of
  <2>2. /\ o \in Opns /\ Only(d, t, o) /\ d.opn[o] \in OpnCB /\ d.opn[o].resid = 0 /\ d.opn[o].q = "open"
        /\ d.opn[o].abort_tskid = t /\ Counts(d, o) /\ Cardinality(InsideOf(d, o)) \in Nat
    BY <2>1, LabelFacts, ClosingFacts
  <2>3. d.opn[o].sem = 1 /\ d.opn[o].abort_cnt = Cardinality(InsideOf(d, o)) /\ d.opn[o].abort_cnt = 0
    <3>1. d.opn[o].sem \in {0, 1}
      BY <2>2 DEF OpnCB
    <3> QED BY <1>3, <2>2, <3>1 DEF Counts, Setting
  <2>4. w \in TaskCB /\ w.pc = "awake" /\ w.o = o /\ w.r = NULL
    BY <2>2, LabelFacts, CBFacts
  <2> HIDE DEF o
  <2>c. /\ c \in OpnCB /\ c.resid = d.opn[o].resid /\ c.q = d.opn[o].q /\ c.requestq = d.opn[o].requestq
        /\ c.waireqlst = d.opn[o].waireqlst /\ c.unitno = d.opn[o].unitno /\ c.omode = d.opn[o].omode
        /\ c.abort_tskid = t /\ c.abort_cnt = d.opn[o].abort_cnt /\ c.sem = 0
    BY <2>2, <2>3 DEF OpnCB
  <2> HIDE DEF w, c
  <2>5. Goes(d, d', t, w) /\ d'.opn[o] = c /\ SameOpn(d, d', o) /\ d'.req = d.req /\ d'.registered = d.registered
    BY <2>1, <2>2, <2>4, <2>c, BothFacts
  <2>6. Holds(d, d', t, w, o)
    BY <1>o, <2>1, <2>2, <2>3, <2>4, <2>5, <2>c, LabelFacts DEF Holds, Kept
  <2> QED BY <2>2, <2>6, HoldStep
<1>4. ASSUME At(t, "awake"), Goto(t, "drain", o, NULL, [d EXCEPT !.opn[o].abort_tskid = NULL])
      PROVE  d' \in DeviceState /\ DeviceInv(d')
  <2> DEFINE c == [d.opn[o] EXCEPT !.abort_tskid = NULL]
             w == [pc |-> "drain", o |-> o, r |-> NULL]
  <2>1. Pc(d, t) = "awake" /\ d' = Move(WithOpn(d, o, c), t, w)
    BY <1>4 DEF At, Goto, Move, WithOpn, Pc, Of
  <2>2. /\ o \in Opns /\ Only(d, t, o) /\ d.opn[o] \in OpnCB /\ d.opn[o].resid = 0 /\ d.opn[o].q = "open"
        /\ d.opn[o].abort_tskid = t /\ Counts(d, o)
    BY <2>1, LabelFacts, ClosingFacts
  <2>3. InsideOf(d, o) = {}
    <3>1. Cardinality(InsideOf(d, o)) = 0 /\ IsFiniteSet(InsideOf(d, o))
      BY <2>1, <2>2, AbortCount DEF Counts, Setting
    <3> QED BY <3>1, FS_EmptySet
  <2>4. w \in TaskCB /\ w.pc = "drain" /\ w.o = o /\ w.r = NULL
    BY <2>2, LabelFacts, CBFacts
  <2> HIDE DEF o
  <2>c. /\ c \in OpnCB /\ c.resid = d.opn[o].resid /\ c.q = d.opn[o].q /\ c.requestq = d.opn[o].requestq
        /\ c.waireqlst = d.opn[o].waireqlst /\ c.unitno = d.opn[o].unitno /\ c.omode = d.opn[o].omode
        /\ c.abort_tskid = NULL /\ c.sem = d.opn[o].sem
    BY <2>2 DEF OpnCB
  <2> HIDE DEF w, c
  <2>5. Goes(d, d', t, w) /\ d'.opn[o] = c /\ SameOpn(d, d', o) /\ d'.req = d.req /\ d'.registered = d.registered
    BY <2>1, <2>2, <2>4, <2>c, BothFacts
  <2>6. Holds(d, d', t, w, o)
    BY <1>o, <2>1, <2>2, <2>3, <2>4, <2>5, <2>c, LabelFacts DEF Holds, Kept
  <2> QED BY <2>2, <2>6, HoldStep
<1> QED BY <1>1, <1>2, <1>3, <1>4, <1>o DEF WaitAborted

-----------------------------------------------------------------------------
(* Requests come and go                                                    *)

\* The queue of descriptor o becomes q, request r becomes b.
Requeued(e, f, o, q, r, b) ==
  /\ f \in DeviceState /\ f.task = e.task /\ f.registered = e.registered
  /\ SameOpn(e, f, o) /\ SameReq(e, f, {r}) /\ f.req[r] = b
  /\ f.opn[o] = [e.opn[o] EXCEPT !.requestq = q]

\* The assignments to a queue and to a request do just this.
LEMMA RequeuedFacts ==
  ASSUME NEW e \in DeviceState, NEW o \in Opns, NEW q \in Seq(Reqs), NEW r \in Reqs, NEW b \in ReqCB,
         NEW f, f = [e EXCEPT !.opn[o].requestq = q, !.req[r] = b]
  PROVE  Requeued(e, f, o, q, r, b)
<1> DEFINE c == [e.opn[o] EXCEPT !.requestq = q]
           g == WithOpn(e, o, c)
           R == [e.req EXCEPT ![r] = b]
<1>1. c \in OpnCB
  <2>1. e.opn[o] \in OpnCB
    BY DEF DeviceState
  <2> QED BY <2>1 DEF OpnCB
<1>2. f = [g EXCEPT !.req = R]
  BY DEF WithOpn, DeviceState
<1>3. R \in [Reqs -> ReqCB] /\ R[r] = b /\ \A x \in Reqs \ {r} : R[x] = e.req[x]
  BY DEF DeviceState
<1> HIDE DEF c, R
<1>4. g \in DeviceState /\ g.opn[o] = c /\ SameOpn(e, g, o) /\ g.task = e.task /\ g.registered = e.registered
  BY <1>1, WithOpnFacts
<1> HIDE DEF g
<1>5. f \in DeviceState /\ f.req = R /\ f.opn = g.opn /\ f.task = g.task /\ f.registered = g.registered
  BY <1>2, <1>3, <1>4 DEF DeviceState
<1> QED BY <1>3, <1>4, <1>5 DEF Requeued, SameOpn, SameReq, c

\* What does not depend on the queue of requests.
Around(e, f, o, q, r, b) ==
  /\ Places(f) /\ Held(f) /\ Within(f) /\ Counted(f) /\ Modes(f)
  /\ \A u \in Tasks : Pc(f, u) = Pc(e, u) /\ Of(f, u) = Of(e, u) /\ Rq(f, u) = Rq(e, u)
  /\ \A p \in Opns : f.opn[p].q = e.opn[p].q /\ f.opn[p].waireqlst = e.opn[p].waireqlst
  /\ f.opn[o].requestq = q /\ (\A p \in Opns \ {o} : f.opn[p].requestq = e.opn[p].requestq)
  /\ f.req[r] = b /\ \A x \in Reqs \ {r} : f.req[x] = e.req[x]

\* A change of a queue leaves alone every part of the invariant that does not
\* speak of queues and marks.
LEMMA RequeuedKeeps ==
  ASSUME NEW e \in DeviceState, DeviceInv(e), NEW f, NEW o \in Opns, NEW q, NEW r \in Reqs, NEW b,
         Requeued(e, f, o, q, r, b)
  PROVE  Around(e, f, o, q, r, b)
<1>1. \A u \in Tasks : Pc(f, u) = Pc(e, u) /\ Of(f, u) = Of(e, u) /\ Rq(f, u) = Rq(e, u)
  BY DEF Requeued, Pc, Of, Rq
<1>2. /\ \A p \in Opns :
           /\ f.opn[p].q = e.opn[p].q /\ f.opn[p].resid = e.opn[p].resid
           /\ f.opn[p].waireqlst = e.opn[p].waireqlst
           /\ f.opn[p].unitno = e.opn[p].unitno /\ f.opn[p].omode = e.opn[p].omode
           /\ f.opn[p].abort_tskid = e.opn[p].abort_tskid /\ f.opn[p].abort_cnt = e.opn[p].abort_cnt
           /\ f.opn[p].sem = e.opn[p].sem
      /\ f.opn[o].requestq = q /\ \A p \in Opns \ {o} : f.opn[p].requestq = e.opn[p].requestq
  <2>1. e.opn[o] \in OpnCB /\ f.opn[o] = [e.opn[o] EXCEPT !.requestq = q]
    BY DEF DeviceState, Requeued
  <2> DEFINE c == e.opn[o]
  <2>2. c \in OpnCB /\ f.opn[o] = [c EXCEPT !.requestq = q]
    BY <2>1
  <2> HIDE DEF c
  <2>3. /\ f.opn[o].q = c.q /\ f.opn[o].resid = c.resid /\ f.opn[o].waireqlst = c.waireqlst
        /\ f.opn[o].unitno = c.unitno /\ f.opn[o].omode = c.omode
        /\ f.opn[o].abort_tskid = c.abort_tskid /\ f.opn[o].abort_cnt = c.abort_cnt
        /\ f.opn[o].sem = c.sem /\ f.opn[o].requestq = q
    BY <2>2 DEF OpnCB
  <2> QED BY <2>3 DEF Requeued, SameOpn, c
<1>3. Places(f)
  BY <1>1 DEF DeviceInv, Places
<1>4. \A u \in Tasks : Pc(f, u) \in InDriver \cup Holding => Of(f, u) \in Opns
  BY <1>3 DEF Places
<1>5. Held(f)
  BY <1>1, <1>2, <1>4 DEF DeviceInv, Held
<1>6. Within(f)
  BY <1>1, <1>2, <1>4 DEF DeviceInv, Within
<1>7. Counted(f)
  <2>1. \A p \in Opns : InsideOf(f, p) = InsideOf(e, p)
    BY DEF InsideOf, Requeued
  <2>2. ASSUME NEW p \in Opns PROVE Counts(f, p)
    <3>1. Counts(e, p)
      BY DEF DeviceInv, Counted
    <3>2. f.opn[p].abort_tskid = e.opn[p].abort_tskid /\ f.opn[p].abort_cnt = e.opn[p].abort_cnt
          /\ f.opn[p].sem = e.opn[p].sem /\ InsideOf(f, p) = InsideOf(e, p)
      BY <1>2, <2>1
    <3> QED BY <3>1, <3>2 DEF Counts, Requeued, Pc, Of
  <2>3. \A u \in Tasks : Pc(f, u) \in Aborting => f.opn[Of(f, u)].abort_tskid = u
    BY <1>1, <1>2, <1>4, LabelFacts DEF DeviceInv, Counted
  <2>4. \A p \in Opns : f.opn[p].sem = 1 /\ f.opn[p].abort_tskid = NULL =>
          \E u \in Tasks : Pc(f, u) \in Emptying /\ Of(f, u) = p
    BY <1>1, <1>2 DEF DeviceInv, Counted
  <2> QED BY <2>2, <2>3, <2>4 DEF Counted
<1>8. Modes(f)
  <2>1. SameModes(e, f)
    BY <1>2 DEF SameModes, Requeued, DeviceInv, Modes
  <2> QED BY <2>1, ModesKept DEF DeviceInv
<1>9. f.req[r] = b /\ \A x \in Reqs \ {r} : f.req[x] = e.req[x]
  BY DEF Requeued, SameReq
<1> QED BY <1>1, <1>2, <1>3, <1>5, <1>6, <1>7, <1>8, <1>9 DEF Around

\* A request nobody works on is marked with nobody.
LEMMA RequeuedMarked ==
  ASSUME NEW e \in DeviceState, DeviceInv(e), Setting, NEW f, NEW o \in Opns, NEW q, NEW r \in Reqs, NEW b,
         Around(e, f, o, q, r, b), e.req[r].tskid = NULL, b.tskid = NULL
  PROVE  Marked(f)
<1>a. /\ \A u \in Tasks : Pc(f, u) = Pc(e, u) /\ Of(f, u) = Of(e, u) /\ Rq(f, u) = Rq(e, u)
      /\ \A p \in Opns : f.opn[p].waireqlst = e.opn[p].waireqlst
      /\ f.req[r] = b /\ \A x \in Reqs \ {r} : f.req[x] = e.req[x]
  BY DEF Around
<1>1. \A u \in Tasks : Pc(f, u) \in Driver => f.req[Rq(f, u)].opncb = Of(f, u) /\ f.req[Rq(f, u)].tskid = u
  BY <1>a DEF DeviceInv, Marked, Places, Setting
<1>2. ASSUME NEW u \in Tasks, Pc(f, u) = "waitany"
      PROVE  /\ f.opn[Of(f, u)].waireqlst # << >>
             /\ \A x \in Elems(f.opn[Of(f, u)].waireqlst) : f.req[x].opncb = Of(f, u) /\ f.req[x].tskid = u
  <2>1. Of(e, u) \in Opns /\ e.opn[Of(e, u)].waireqlst \in Seq(Reqs)
    BY <1>a, <1>2, LabelFacts DEF DeviceInv, Places, DeviceState, OpnCB
  <2>2. Elems(e.opn[Of(e, u)].waireqlst) \subseteq Reqs
    BY <2>1, ElemsIn
  <2> QED BY <1>a, <1>2, <2>1, <2>2 DEF DeviceInv, Marked, Setting
<1>3. ASSUME NEW x \in Reqs, f.req[x].tskid # NULL, NEW u, u = f.req[x].tskid
      PROVE  /\ Of(f, u) = f.req[x].opncb
             /\ \/ Pc(f, u) \in Driver /\ Rq(f, u) = x
                \/ Pc(f, u) = "waitany" /\ x \in Elems(f.opn[Of(f, u)].waireqlst)
  <2>1. x # r /\ f.req[x] = e.req[x]
    BY <1>a, <1>3
  <2>2. u \in Tasks
    BY <1>3, <2>1 DEF DeviceState, ReqCB
  <2>3. /\ Of(e, u) = e.req[x].opncb
        /\ \/ Pc(e, u) \in Driver /\ Rq(e, u) = x
           \/ Pc(e, u) = "waitany" /\ x \in Elems(e.opn[Of(e, u)].waireqlst)
    BY <1>3, <2>1 DEF DeviceInv, Marked
  <2> QED BY <1>a, <2>1, <2>2, <2>3, LabelFacts DEF DeviceInv, Places
<1> QED BY <1>1, <1>2, <1>3 DEF Marked

\* A request that nobody works on is dropped (knl_delReqCB).
LEMMA DropKeeps ==
  ASSUME NEW e \in DeviceState, DeviceInv(e), Setting, NEW r \in Reqs, NEW o \in Opns,
         e.req[r].opncb = o, e.req[r].tskid = NULL,
         \A u \in Tasks : Pc(e, u) = "drain" => Rq(e, u) # r
  PROVE  /\ knl_delReqCB(e, r) \in DeviceState /\ DeviceInv(knl_delReqCB(e, r))
         /\ knl_delReqCB(e, r).task = e.task
         /\ \A p \in Opns : /\ knl_delReqCB(e, r).opn[p].resid = e.opn[p].resid
                            /\ knl_delReqCB(e, r).opn[p].q = e.opn[p].q
<1> DEFINE f == knl_delReqCB(e, r)
           old == e.opn[o].requestq
           q == QueRemove(old, r)
<1>1. old \in Seq(Reqs) /\ Injective(old) /\ Elems(old) = {x \in Reqs : e.req[x].opncb = o}
  BY DEF DeviceState, OpnCB, DeviceInv, Queued
<1>2. q \in Seq(Reqs) /\ Elems(q) = Elems(old) \ {r} /\ Injective(q)
  BY <1>1, QueRemoveFacts
<1>3. FreeReq \in ReqCB /\ FreeReq.opncb = NULL /\ FreeReq.tskid = NULL
  BY DEF FreeReq, ReqCB
<1>4. f = [e EXCEPT !.opn[o].requestq = q, !.req[r] = FreeReq]
  BY DEF knl_delReqCB
<1>5. old # << >>
  BY <1>1 DEF Elems
<1> HIDE DEF f, q
<1>6. Requeued(e, f, o, q, r, FreeReq)
  BY <1>2, <1>3, <1>4, RequeuedFacts
<1>a. Around(e, f, o, q, r, FreeReq)
  BY <1>6, RequeuedKeeps
<1>7. /\ Places(f) /\ Held(f) /\ Within(f) /\ Counted(f) /\ Modes(f)
      /\ \A u \in Tasks : Pc(f, u) = Pc(e, u) /\ Of(f, u) = Of(e, u) /\ Rq(f, u) = Rq(e, u)
      /\ \A p \in Opns : f.opn[p].q = e.opn[p].q /\ f.opn[p].waireqlst = e.opn[p].waireqlst
      /\ f.opn[o].requestq = q /\ (\A p \in Opns \ {o} : f.opn[p].requestq = e.opn[p].requestq)
      /\ f.req[r] = FreeReq /\ \A x \in Reqs \ {r} : f.req[x] = e.req[x]
  BY <1>a DEF Around
<1>8. Queued(f)
  <2>1. ASSUME NEW p \in Opns
        PROVE  /\ Injective(f.opn[p].requestq)
               /\ Elems(f.opn[p].requestq) = {x \in Reqs : f.req[x].opncb = p}
               /\ f.opn[p].q # "open" => f.opn[p].requestq = << >>
    <3>0. {x \in Reqs : f.req[x].opncb = p} = {x \in Reqs : e.req[x].opncb = p} \ {r}
      BY <1>3, <1>7 DEF Setting
    <3>1. CASE p = o
      <4>1. f.opn[p].q = "open"
        BY <1>5, <1>7, <3>1 DEF DeviceInv, Queued
      <4> QED BY <1>1, <1>2, <1>7, <3>0, <3>1, <4>1
    <3>2. CASE p # o
      BY <1>7, <3>0, <3>2 DEF DeviceInv, Queued
    <3> QED BY <3>1, <3>2
  <2>2. ASSUME NEW u \in Tasks
        PROVE  /\ Pc(f, u) \in Opening \cup {"close"} => f.opn[Of(f, u)].requestq = << >>
               /\ Pc(f, u) = "drain" /\ Rq(f, u) # NULL => Rq(f, u) \in Reqs /\ f.req[Rq(f, u)].opncb = Of(f, u)
    BY <1>5, <1>7, LabelFacts DEF DeviceInv, Queued, Places
  <2> QED BY <2>1, <2>2 DEF Queued
<1>9. Marked(f)
  BY <1>3, <1>a, RequeuedMarked
<1>10. \A p \in Opns : f.opn[p].resid = e.opn[p].resid /\ f.opn[p].q = e.opn[p].q
  <2>1. e.opn[o] \in OpnCB
    BY DEF DeviceState
  <2>2. f.opn[o] = [e.opn[o] EXCEPT !.requestq = q] /\ \A p \in Opns \ {o} : f.opn[p] = e.opn[p]
    BY <1>6 DEF Requeued, SameOpn
  <2>3. f.opn[o].resid = e.opn[o].resid
    BY <2>1, <2>2 DEF OpnCB
  <2> QED BY <1>7, <2>2, <2>3
<1> QED BY <1>6, <1>7, <1>8, <1>9, <1>10 DEF DeviceInv, Requeued, f

\* A free request is queued (newReqCB, before it is marked).
Added(e, o, r) ==
  [e EXCEPT !.opn[o].requestq = QueInsert(@, r), !.req[r] = [opncb |-> o, tskid |-> NULL]]

\* newReqCB keeps the invariant: a request that belongs to nobody is in no queue.
LEMMA AddKeeps ==
  ASSUME NEW e \in DeviceState, DeviceInv(e), Setting, NEW r \in Reqs, NEW o \in Opns,
         e.req[r].opncb = NULL, e.opn[o].resid = 1
  PROVE  LET f == Added(e, o, r)
         IN  /\ f \in DeviceState /\ DeviceInv(f) /\ f.task = e.task
             /\ f.req[r].opncb = o /\ f.req[r].tskid = NULL
             /\ f.opn[o].resid = 1 /\ f.opn[o].waireqlst = e.opn[o].waireqlst
<1> DEFINE f == Added(e, o, r)
           old == e.opn[o].requestq
           q == QueInsert(old, r)
           b == [opncb |-> o, tskid |-> NULL]
<1>1. old \in Seq(Reqs) /\ Injective(old) /\ Elems(old) = {x \in Reqs : e.req[x].opncb = o} /\ e.opn[o].q = "open"
  BY DEF DeviceState, OpnCB, DeviceInv, Queued, Held
<1>2. q \in Seq(Reqs) /\ Elems(q) = Elems(old) \cup {r} /\ Injective(q)
  <2>1. r \notin Elems(old)
    BY <1>1 DEF Setting
  <2> HIDE DEF old
  <2> QED BY <1>1, <2>1, QueInsertFacts, ZenonT(30)
<1>3. b \in ReqCB /\ b.opncb = o /\ b.tskid = NULL
  BY DEF ReqCB
<1>4. f = [e EXCEPT !.opn[o].requestq = q, !.req[r] = b]
  BY DEF Added
<1>5. e.req[r].tskid = NULL
  <2>1. e.req[r].tskid # NULL => e.req[r].tskid \in Tasks
    BY DEF DeviceState, ReqCB
  <2> QED BY <2>1, LabelFacts DEF DeviceInv, Marked, Places, Setting
<1> HIDE DEF f, q, b
<1>6. Requeued(e, f, o, q, r, b)
  BY <1>2, <1>3, <1>4, RequeuedFacts
<1>a. Around(e, f, o, q, r, b)
  BY <1>6, RequeuedKeeps
<1>7. /\ Places(f) /\ Held(f) /\ Within(f) /\ Counted(f) /\ Modes(f)
      /\ \A u \in Tasks : Pc(f, u) = Pc(e, u) /\ Of(f, u) = Of(e, u) /\ Rq(f, u) = Rq(e, u)
      /\ \A p \in Opns : f.opn[p].q = e.opn[p].q /\ f.opn[p].waireqlst = e.opn[p].waireqlst
      /\ f.opn[o].requestq = q /\ (\A p \in Opns \ {o} : f.opn[p].requestq = e.opn[p].requestq)
      /\ f.req[r] = b /\ \A x \in Reqs \ {r} : f.req[x] = e.req[x]
  BY <1>a DEF Around
<1>8. Queued(f)
  <2>1. ASSUME NEW p \in Opns
        PROVE  /\ Injective(f.opn[p].requestq)
               /\ Elems(f.opn[p].requestq) = {x \in Reqs : f.req[x].opncb = p}
               /\ f.opn[p].q # "open" => f.opn[p].requestq = << >>
    <3>1. CASE p = o
      <4>1. {x \in Reqs : f.req[x].opncb = p} = {x \in Reqs : e.req[x].opncb = p} \cup {r}
        BY <1>3, <1>7, <3>1
      <4> QED BY <1>1, <1>2, <1>7, <3>1, <4>1
    <3>2. CASE p # o
      <4>1. {x \in Reqs : f.req[x].opncb = p} = {x \in Reqs : e.req[x].opncb = p}
        BY <1>3, <1>7, <3>2 DEF Setting
      <4> QED BY <1>7, <3>2, <4>1 DEF DeviceInv, Queued
    <3> QED BY <3>1, <3>2
  <2>2. ASSUME NEW u \in Tasks
        PROVE  /\ Pc(f, u) \in Opening \cup {"close"} => f.opn[Of(f, u)].requestq = << >>
               /\ Pc(f, u) = "drain" /\ Rq(f, u) # NULL => Rq(f, u) \in Reqs /\ f.req[Rq(f, u)].opncb = Of(f, u)
    <3>1. Pc(e, u) \in Holding => Of(e, u) # o /\ Of(e, u) \in Opns
      BY DEF DeviceInv, Held, Places
    <3>2. Pc(e, u) = "drain" /\ Rq(e, u) # NULL => Rq(e, u) # r
      BY <3>1, LabelFacts DEF DeviceInv, Queued, Setting
    <3> QED BY <1>7, <3>1, <3>2, LabelFacts DEF DeviceInv, Queued
  <2> QED BY <2>1, <2>2 DEF Queued
<1>9. Marked(f)
  BY <1>3, <1>5, <1>a, RequeuedMarked
<1>10. f.opn[o].resid = 1
  <2>1. e.opn[o] \in OpnCB /\ f.opn[o] = [e.opn[o] EXCEPT !.requestq = q]
    BY <1>6 DEF DeviceState, Requeued
  <2> QED BY <2>1 DEF OpnCB
<1> QED BY <1>3, <1>6, <1>7, <1>8, <1>9, <1>10 DEF DeviceInv, Requeued, f

-----------------------------------------------------------------------------
(* Tasks enter and leave the driver                                        *)

\* The requests marked with task t.
MarkedBy(e, t) == {r \in Reqs : e.req[r].tskid = t}

\* Who is marked: the request of the task, or those it waits for.
LEMMA MarkedByFacts ==
  ASSUME NEW e \in DeviceState, DeviceInv(e), Setting, NEW t \in Tasks
  PROVE  /\ Pc(e, t) \in Driver => MarkedBy(e, t) = {Rq(e, t)}
         /\ Pc(e, t) = "waitany" => MarkedBy(e, t) = Elems(e.opn[Of(e, t)].waireqlst)
         /\ \A r \in MarkedBy(e, t) : e.req[r].opncb = Of(e, t)
<1>1. CASE Pc(e, t) \in Driver
  BY <1>1, LabelFacts DEF MarkedBy, DeviceInv, Marked, Places, Setting
<1>2. CASE Pc(e, t) = "waitany"
  <2>1. Of(e, t) \in Opns /\ e.opn[Of(e, t)].waireqlst \in Seq(Reqs)
    BY <1>2, LabelFacts DEF DeviceInv, Places, DeviceState, OpnCB
  <2>2. Elems(e.opn[Of(e, t)].waireqlst) \subseteq Reqs
    BY <2>1, ElemsIn
  <2> QED BY <1>2, <2>2, LabelFacts DEF MarkedBy, DeviceInv, Marked, Setting
<1>3. \A r \in MarkedBy(e, t) : e.req[r].opncb = Of(e, t)
  BY DEF MarkedBy, DeviceInv, Marked, Setting
<1> QED BY <1>1, <1>2, <1>3, LabelFacts

\* Task t leaves the driver function on o it is in and counts down.
Leaves(e, f, t, w, o) ==
  /\ Goes(e, f, t, w) /\ f.registered = e.registered
  /\ Pc(e, t) \in InDriver /\ Of(e, t) = o
  /\ w.pc = "idle" \/ (w.pc = "sync" /\ w.o \in Opns /\ w.r \in Reqs)
  /\ SameReq(e, f, MarkedBy(e, t))
  /\ \A r \in MarkedBy(e, t) : f.req[r].opncb = e.req[r].opncb /\ f.req[r].tskid = NULL
  /\ SameOpn(e, f, o)
  /\ f.opn[o].q = e.opn[o].q /\ f.opn[o].resid = e.opn[o].resid
  /\ f.opn[o].requestq = e.opn[o].requestq
  /\ f.opn[o].unitno = e.opn[o].unitno /\ f.opn[o].omode = e.opn[o].omode
  /\ f.opn[o].waireqlst = IF Pc(e, t) = "waitany" THEN << >> ELSE e.opn[o].waireqlst
  /\ f.opn[o].abort_tskid = e.opn[o].abort_tskid
  /\ IF e.opn[o].abort_tskid = NULL
     THEN f.opn[o].sem = e.opn[o].sem
     ELSE /\ f.opn[o].abort_cnt = e.opn[o].abort_cnt - 1
          /\ f.opn[o].sem = IF e.opn[o].abort_cnt = 1 THEN 1 ELSE e.opn[o].sem

\* A task that leaves the driver keeps the invariant: its requests lose their
\* mark, and an aborting task has one less to wait for.
LEMMA LeaveKeeps ==
  ASSUME NEW e \in DeviceState, DeviceInv(e), Setting, NEW f, NEW t \in Tasks, NEW w, NEW o \in Opns,
         Leaves(e, f, t, w, o)
  PROVE  f \in DeviceState /\ DeviceInv(f)
<1>0. /\ \A u \in Tasks : f.task[u] = IF u = t THEN w ELSE e.task[u]
      /\ \A u \in Tasks \ {t} : Pc(f, u) = Pc(e, u) /\ Of(f, u) = Of(e, u) /\ Rq(f, u) = Rq(e, u)
      /\ Pc(f, t) = w.pc /\ Of(f, t) = w.o /\ Rq(f, t) = w.r
      /\ w.pc \in {"idle", "sync"} /\ Pc(e, t) \in InDriver /\ Of(e, t) = o
      /\ w.pc = "sync" => w.o \in Opns /\ w.r \in Reqs
  BY DEF Leaves, Goes, Pc, Of, Rq
<1>t. f \in DeviceState /\ Goes(e, f, t, w)
  BY DEF Leaves, Goes
<1>k. \A p \in Opns : /\ f.opn[p].q = e.opn[p].q /\ f.opn[p].resid = e.opn[p].resid
                      /\ f.opn[p].requestq = e.opn[p].requestq
                      /\ f.opn[p].unitno = e.opn[p].unitno /\ f.opn[p].omode = e.opn[p].omode
                      /\ f.opn[p].abort_tskid = e.opn[p].abort_tskid
                      /\ p # o => f.opn[p] = e.opn[p]
  BY DEF Leaves, SameOpn
<1>r. \A x \in Reqs : /\ f.req[x].opncb = e.req[x].opncb
                      /\ f.req[x].tskid = IF e.req[x].tskid = t THEN NULL ELSE e.req[x].tskid
  BY DEF Leaves, SameReq, MarkedBy
<1>1. Places(f)
  BY <1>0, LabelFacts DEF DeviceInv, Places
<1>p. \A u \in Tasks : Pc(f, u) \in InDriver \cup Holding => Of(f, u) \in Opns
  BY <1>1 DEF Places
<1>2. Held(f)
  BY <1>0, <1>k, <1>p, LabelFacts DEF DeviceInv, Held
<1>3. Queued(f)
  <2>1. \A p \in Opns : {x \in Reqs : f.req[x].opncb = p} = {x \in Reqs : e.req[x].opncb = p}
    BY <1>r
  <2> QED BY <1>0, <1>k, <1>p, <1>r, <2>1, LabelFacts DEF DeviceInv, Queued
<1>l. \A u \in Tasks : Pc(f, u) = "waitany" =>
        u # t /\ Pc(e, u) = "waitany" /\ Of(f, u) = Of(e, u) /\ Of(f, u) \in Opns \ {o}
                              /\ f.opn[Of(f, u)].waireqlst = e.opn[Of(e, u)].waireqlst
  BY <1>0, <1>k, <1>p, LabelFacts DEF DeviceInv, Within
<1>4. Marked(f)
  <2>1. \A u \in Tasks : Pc(f, u) \in Driver => f.req[Rq(f, u)].opncb = Of(f, u) /\ f.req[Rq(f, u)].tskid = u
    BY <1>0, <1>r, LabelFacts DEF DeviceInv, Marked, Places
  <2>2. ASSUME NEW u \in Tasks, Pc(f, u) = "waitany"
        PROVE  /\ f.opn[Of(f, u)].waireqlst # << >>
               /\ \A x \in Elems(f.opn[Of(f, u)].waireqlst) : f.req[x].opncb = Of(f, u) /\ f.req[x].tskid = u
    <3>1. e.opn[Of(e, u)].waireqlst \in Seq(Reqs)
      BY <1>l, <2>2 DEF DeviceState, OpnCB
    <3>2. Elems(e.opn[Of(e, u)].waireqlst) \subseteq Reqs
      BY <3>1, ElemsIn
    <3> QED BY <1>l, <1>r, <2>2, <3>2 DEF DeviceInv, Marked
  <2>3. ASSUME NEW x \in Reqs, f.req[x].tskid # NULL, NEW u, u = f.req[x].tskid
        PROVE  /\ Of(f, u) = f.req[x].opncb
               /\ \/ Pc(f, u) \in Driver /\ Rq(f, u) = x
                  \/ Pc(f, u) = "waitany" /\ x \in Elems(f.opn[Of(f, u)].waireqlst)
    <3>1. e.req[x].tskid = u /\ u # t /\ u # NULL /\ f.req[x].opncb = e.req[x].opncb
      BY <1>r, <2>3
    <3>2. u \in Tasks
      BY <3>1 DEF DeviceState, ReqCB
    <3>3. /\ Of(e, u) = e.req[x].opncb
          /\ \/ Pc(e, u) \in Driver /\ Rq(e, u) = x
             \/ Pc(e, u) = "waitany" /\ x \in Elems(e.opn[Of(e, u)].waireqlst)
      BY <3>1 DEF DeviceInv, Marked
    <3> QED BY <1>0, <1>l, <3>1, <3>2, <3>3
  <2> QED BY <2>1, <2>2, <2>3 DEF Marked
<1>5. Within(f)
  <2>1. \A u, v \in Tasks : Pc(f, u) = "waitany" /\ Pc(f, v) \in InDriver /\ Of(f, u) = Of(f, v) => u = v
    BY <1>0, LabelFacts DEF DeviceInv, Within
  <2>2. ASSUME NEW p \in Opns, f.opn[p].waireqlst # << >>
        PROVE  \E u \in Tasks : Pc(f, u) = "waitany" /\ Of(f, u) = p
    <3>1. e.opn[p].waireqlst # << >> /\ (p = o => Pc(e, t) # "waitany")
      BY <1>k, <2>2 DEF Leaves
    <3>2. PICK u \in Tasks : Pc(e, u) = "waitany" /\ Of(e, u) = p
      BY <3>1 DEF DeviceInv, Within
    <3>3. u # t
      BY <1>0, <3>1, <3>2
    <3> QED BY <1>0, <3>2, <3>3
  <2>3. \A u \in Tasks : Pc(f, u) \in InDriver => f.opn[Of(f, u)].q = "open"
    BY <1>0, <1>k, <1>p, LabelFacts DEF DeviceInv, Within
  <2>4. \A u, v \in Tasks : Pc(f, u) \in InDriver /\ Pc(f, v) \in Holding /\ Of(f, u) = Of(f, v) =>
          Pc(f, v) \in {"abort"} \cup Aborting
    BY <1>0, LabelFacts DEF DeviceInv, Within
  <2> QED BY <2>1, <2>2, <2>3, <2>4 DEF Within
<1>6. Counted(f)
  <2>1. ASSUME NEW p \in Opns PROVE Counts(f, p)
    <3>0. Counts(e, p)
      BY DEF DeviceInv, Counted
    <3>1. e.opn[p].abort_tskid # t
      BY <1>0, <3>0, LabelFacts DEF Counts, Setting
    <3>2. CASE p # o
      <4>1. f.opn[p] = e.opn[p]
        BY <1>k, <3>2
      <4>2. (w.pc \in InDriver /\ w.o = p) <=> (Pc(e, t) \in InDriver /\ Of(e, t) = p)
        BY <1>0, <3>2, LabelFacts
      <4> QED BY <1>t, <3>0, <3>1, <4>1, <4>2, CountsKept DEF Setting
    <3>3. ASSUME p = o, e.opn[o].abort_tskid # NULL PROVE Counts(f, o)
      <4> DEFINE a == e.opn[o].abort_tskid
                 n == Cardinality(InsideOf(e, o))
      <4>1. a \in Tasks /\ a # t /\ f.opn[o].abort_tskid = a
        BY <1>k, <3>1, <3>3 DEF DeviceState, OpnCB
      <4>2. InsideOf(f, o) = InsideOf(e, o) \ {t}
        BY <1>0, LabelFacts DEF InsideOf
      <4>3. t \in InsideOf(e, o) /\ IsFiniteSet(InsideOf(e, o)) /\ n \in Nat
        BY <1>0, AbortCount DEF InsideOf, Pc, Of
      <4>4. Cardinality(InsideOf(f, o)) = n - 1 /\ n # 0
        BY <4>2, <4>3, FS_RemoveElement, FS_EmptySet, ZenonT(30)
      <4> HIDE DEF n
      <4>5. /\ Pc(e, a) \in Aborting /\ Of(e, a) = o /\ e.opn[o].abort_cnt = n
            /\ Pc(e, a) # "awake" /\ e.opn[o].sem # 1
        BY <3>0, <3>3, <4>4 DEF Counts, n
      <4>6. /\ f.opn[o].abort_cnt = n - 1
            /\ f.opn[o].sem = IF n = 1 THEN 1 ELSE e.opn[o].sem
        BY <3>3, <4>5 DEF Leaves
      <4>7. Pc(f, a) = Pc(e, a) /\ Of(f, a) = o
        BY <1>0, <4>1, <4>5
      <4> HIDE DEF a
      <4> QED BY <4>1, <4>3, <4>4, <4>5, <4>6, <4>7 DEF Counts
    <3>4. e.opn[o].abort_tskid = NULL /\ p = o => Counts(f, o)
      BY <1>k DEF Counts
    <3> QED BY <3>2, <3>3, <3>4
  <2>2. \A u \in Tasks : Pc(f, u) \in Aborting => f.opn[Of(f, u)].abort_tskid = u
    BY <1>0, <1>k, <1>p, LabelFacts DEF DeviceInv, Counted
  <2>3. ASSUME NEW p \in Opns, f.opn[p].sem = 1, f.opn[p].abort_tskid = NULL
        PROVE  \E u \in Tasks : Pc(f, u) \in Emptying /\ Of(f, u) = p
    <3>1. e.opn[p].sem = 1 /\ e.opn[p].abort_tskid = NULL
      BY <1>k, <2>3 DEF Leaves
    <3>2. PICK u \in Tasks : Pc(e, u) \in Emptying /\ Of(e, u) = p
      BY <3>1 DEF DeviceInv, Counted
    <3> QED BY <1>0, <3>2, LabelFacts
  <2> QED BY <2>1, <2>2, <2>3 DEF Counted
<1>7. Modes(f)
  <2>1. SameModes(e, f)
    BY <1>k DEF SameModes, Leaves, DeviceInv, Modes
  <2> QED BY <2>1, ModesKept DEF DeviceInv
<1> QED BY <1>t, <1>1, <1>2, <1>3, <1>4, <1>5, <1>6, <1>7 DEF DeviceInv

\* Task t goes into the driver with the requests R of o, which nobody works on.
Enters(e, f, t, w, o, R) ==
  /\ Goes(e, f, t, w) /\ f.registered = e.registered
  /\ Pc(e, t) \in {"idle", "sync"} /\ w.pc \in InDriver /\ w.o = o
  /\ e.opn[o].resid = 1 /\ e.opn[o].waireqlst = << >>
  /\ R \subseteq Reqs /\ SameReq(e, f, R)
  /\ \A r \in R : e.req[r].opncb = o /\ e.req[r].tskid = NULL /\ f.req[r].opncb = o /\ f.req[r].tskid = t
  /\ SameOpn(e, f, o)
  /\ f.opn[o].q = e.opn[o].q /\ f.opn[o].resid = e.opn[o].resid
  /\ f.opn[o].requestq = e.opn[o].requestq
  /\ f.opn[o].unitno = e.opn[o].unitno /\ f.opn[o].omode = e.opn[o].omode
  /\ f.opn[o].abort_tskid = e.opn[o].abort_tskid /\ f.opn[o].sem = e.opn[o].sem
  /\ w.pc \in Driver => R = {w.r} /\ f.opn[o].waireqlst = << >>
  /\ w.pc = "waitany" => f.opn[o].waireqlst # << >> /\ Elems(f.opn[o].waireqlst) = R /\ InsideOf(e, o) = {}

\* A task that enters the driver keeps the invariant: the requests it marks were
\* marked with nobody, and nobody aborts a descriptor that can be used.
LEMMA EnterKeeps ==
  ASSUME NEW e \in DeviceState, DeviceInv(e), Setting, NEW f, NEW t \in Tasks, NEW w, NEW o \in Opns, NEW R,
         Enters(e, f, t, w, o, R)
  PROVE  f \in DeviceState /\ DeviceInv(f)
<1>0. /\ \A u \in Tasks \ {t} : Pc(f, u) = Pc(e, u) /\ Of(f, u) = Of(e, u) /\ Rq(f, u) = Rq(e, u)
      /\ Pc(f, t) = w.pc /\ Of(f, t) = o /\ Rq(f, t) = w.r
      /\ Pc(e, t) \in {"idle", "sync"} /\ w.pc \in InDriver /\ w.o = o
      /\ w.pc \in Driver => R = {w.r} /\ w.r \in Reqs
      /\ w.pc = "waitany" => InsideOf(e, o) = {}
  BY DEF Enters, Goes, Pc, Of, Rq
<1>t. f \in DeviceState /\ Goes(e, f, t, w)
  BY DEF Enters, Goes
<1>k. /\ \A p \in Opns : /\ f.opn[p].q = e.opn[p].q /\ f.opn[p].resid = e.opn[p].resid
                         /\ f.opn[p].requestq = e.opn[p].requestq
                         /\ f.opn[p].unitno = e.opn[p].unitno /\ f.opn[p].omode = e.opn[p].omode
                         /\ f.opn[p].abort_tskid = e.opn[p].abort_tskid /\ f.opn[p].sem = e.opn[p].sem
                         /\ p # o => f.opn[p] = e.opn[p]
      /\ e.opn[o].waireqlst = << >> /\ e.opn[o].resid = 1
  BY DEF Enters, SameOpn
<1>r. /\ R \subseteq Reqs
      /\ \A x \in R : e.req[x].opncb = o /\ e.req[x].tskid = NULL /\ f.req[x].opncb = o /\ f.req[x].tskid = t
      /\ \A x \in Reqs \ R : f.req[x] = e.req[x]
  BY DEF Enters, SameReq
<1>o. /\ e.opn[o].q = "open" /\ Only(e, t, o)
      /\ \A u \in Tasks \ {t} : Pc(e, u) = "waitany" => Of(e, u) # o
  BY <1>k, HolderAlone DEF DeviceInv, Held, Marked
<1>a. e.opn[o].abort_tskid = NULL
  BY <1>0, <1>o, NotAborting, LabelFacts
<1>1. Places(f)
  BY <1>0, LabelFacts DEF DeviceInv, Places
<1>p. \A u \in Tasks : Pc(f, u) \in InDriver \cup Holding => Of(f, u) \in Opns
  BY <1>1 DEF Places
<1>2. Held(f)
  BY <1>0, <1>k, <1>p, LabelFacts DEF DeviceInv, Held
<1>3. Queued(f)
  <2>1. \A p \in Opns : {x \in Reqs : f.req[x].opncb = p} = {x \in Reqs : e.req[x].opncb = p}
    BY <1>r
  <2>2. \A x \in Reqs : f.req[x].opncb = e.req[x].opncb
    BY <1>r
  <2> QED BY <1>0, <1>k, <1>p, <2>1, <2>2, LabelFacts DEF DeviceInv, Queued
<1>l. \A u \in Tasks \ {t} : Pc(f, u) = "waitany" =>
        Pc(e, u) = "waitany" /\ Of(f, u) = Of(e, u) /\ Of(f, u) \in Opns \ {o}
                              /\ f.opn[Of(f, u)].waireqlst = e.opn[Of(e, u)].waireqlst
  BY <1>0, <1>k, <1>o, <1>p, LabelFacts
<1>4. Marked(f)
  <2>1. ASSUME NEW u \in Tasks, Pc(f, u) \in Driver
        PROVE  f.req[Rq(f, u)].opncb = Of(f, u) /\ f.req[Rq(f, u)].tskid = u
    <3>1. CASE u = t
      BY <1>0, <1>r, <2>1, <3>1
    <3>2. CASE u # t
      BY <1>0, <1>r, <2>1, <3>2 DEF DeviceInv, Marked, Places, Setting
    <3> QED BY <3>1, <3>2
  <2>2. ASSUME NEW u \in Tasks, Pc(f, u) = "waitany"
        PROVE  /\ f.opn[Of(f, u)].waireqlst # << >>
               /\ \A x \in Elems(f.opn[Of(f, u)].waireqlst) : f.req[x].opncb = Of(f, u) /\ f.req[x].tskid = u
    <3>1. CASE u = t
      BY <1>0, <1>r, <2>2, <3>1 DEF Enters
    <3>2. CASE u # t
      <4>1. e.opn[Of(e, u)].waireqlst \in Seq(Reqs)
        BY <1>l, <2>2, <3>2 DEF DeviceState, OpnCB
      <4>2. Elems(e.opn[Of(e, u)].waireqlst) \subseteq Reqs
        BY <4>1, ElemsIn
      <4> QED BY <1>l, <1>r, <2>2, <3>2, <4>2 DEF DeviceInv, Marked, Setting
    <3> QED BY <3>1, <3>2
  <2>3. ASSUME NEW x \in Reqs, f.req[x].tskid # NULL, NEW u, u = f.req[x].tskid
        PROVE  /\ Of(f, u) = f.req[x].opncb
               /\ \/ Pc(f, u) \in Driver /\ Rq(f, u) = x
                  \/ Pc(f, u) = "waitany" /\ x \in Elems(f.opn[Of(f, u)].waireqlst)
    <3>1. CASE x \in R
      BY <1>0, <1>r, <2>3, <3>1, LabelFacts DEF Enters
    <3>2. CASE x \notin R
      <4>1. f.req[x] = e.req[x] /\ e.req[x].tskid = u
        BY <1>r, <2>3, <3>2
      <4>2. u \in Tasks
        BY <2>3, <4>1 DEF DeviceState, ReqCB
      <4>3. /\ Of(e, u) = e.req[x].opncb
            /\ \/ Pc(e, u) \in Driver /\ Rq(e, u) = x
               \/ Pc(e, u) = "waitany" /\ x \in Elems(e.opn[Of(e, u)].waireqlst)
        BY <2>3, <4>1 DEF DeviceInv, Marked
      <4>4. u # t
        BY <1>0, <4>3, LabelFacts
      <4> QED BY <1>0, <1>l, <4>1, <4>2, <4>3, <4>4
    <3> QED BY <3>1, <3>2
  <2> QED BY <2>1, <2>2, <2>3 DEF Marked
<1>5. Within(f)
  <2>1. ASSUME NEW u \in Tasks, NEW v \in Tasks, Pc(f, u) = "waitany", Pc(f, v) \in InDriver, Of(f, u) = Of(f, v)
        PROVE  u = v
    <3>1. CASE u = t /\ v # t
      BY <1>0, <2>1, <3>1 DEF InsideOf, Pc, Of
    <3>2. CASE u # t /\ v = t
      BY <1>0, <1>o, <2>1, <3>2
    <3>3. CASE u # t /\ v # t
      BY <1>0, <2>1, <3>3 DEF DeviceInv, Within
    <3> QED BY <3>1, <3>2, <3>3
  <2>2. ASSUME NEW p \in Opns, f.opn[p].waireqlst # << >>
        PROVE  \E u \in Tasks : Pc(f, u) = "waitany" /\ Of(f, u) = p
    <3>1. CASE p = o
      BY <1>0, <2>2, <3>1, LabelFacts DEF Enters
    <3>2. CASE p # o
      <4>1. PICK u \in Tasks : Pc(e, u) = "waitany" /\ Of(e, u) = p
        BY <1>k, <2>2, <3>2 DEF DeviceInv, Within
      <4>2. u # t
        BY <1>0, <4>1
      <4> QED BY <1>0, <4>1, <4>2
    <3> QED BY <3>1, <3>2
  <2>3. \A u \in Tasks : Pc(f, u) \in InDriver => f.opn[Of(f, u)].q = "open"
    BY <1>0, <1>k, <1>o, <1>p DEF DeviceInv, Within
  <2>4. ASSUME NEW u \in Tasks, NEW v \in Tasks, Pc(f, u) \in InDriver, Pc(f, v) \in Holding, Of(f, u) = Of(f, v)
        PROVE  Pc(f, v) \in {"abort"} \cup Aborting
    <3>1. v # t /\ Of(f, v) = Of(e, v) /\ Pc(f, v) = Pc(e, v)
      BY <1>0, <2>4, LabelFacts
    <3>2. CASE u = t
      BY <1>0, <1>o, <2>4, <3>1, <3>2 DEF Only
    <3>3. CASE u # t
      BY <1>0, <2>4, <3>1, <3>3 DEF DeviceInv, Within
    <3> QED BY <3>2, <3>3
  <2> QED BY <2>1, <2>2, <2>3, <2>4 DEF Within
<1>6. Counted(f)
  <2>1. ASSUME NEW p \in Opns PROVE Counts(f, p)
    <3>0. Counts(e, p)
      BY DEF DeviceInv, Counted
    <3>1. CASE p # o
      <4>1. f.opn[p] = e.opn[p] /\ e.opn[p].abort_tskid # t
        BY <1>0, <1>k, <3>0, <3>1, LabelFacts DEF Counts, Setting
      <4>2. (w.pc \in InDriver /\ w.o = p) <=> (Pc(e, t) \in InDriver /\ Of(e, t) = p)
        BY <1>0, <3>1, LabelFacts
      <4> QED BY <1>t, <3>0, <4>1, <4>2, CountsKept DEF Setting
    <3>2. CASE p = o
      BY <1>a, <1>k, <3>2 DEF Counts
    <3> QED BY <3>1, <3>2
  <2>2. \A u \in Tasks : Pc(f, u) \in Aborting => f.opn[Of(f, u)].abort_tskid = u
    BY <1>0, <1>k, <1>p, LabelFacts DEF DeviceInv, Counted
  <2>3. ASSUME NEW p \in Opns, f.opn[p].sem = 1, f.opn[p].abort_tskid = NULL
        PROVE  \E u \in Tasks : Pc(f, u) \in Emptying /\ Of(f, u) = p
    <3>1. PICK u \in Tasks : Pc(e, u) \in Emptying /\ Of(e, u) = p
      BY <1>k, <2>3 DEF DeviceInv, Counted
    <3> QED BY <1>0, <3>1, LabelFacts
  <2> QED BY <2>1, <2>2, <2>3 DEF Counted
<1>7. Modes(f)
  <2>1. SameModes(e, f)
    BY <1>k DEF SameModes, Enters, DeviceInv, Modes
  <2> QED BY <2>1, ModesKept DEF DeviceInv
<1> QED BY <1>t, <1>1, <1>2, <1>3, <1>4, <1>5, <1>6, <1>7 DEF DeviceInv

\* Descriptor o becomes c, the requests become R, and the task goes on.
Update(e, o, c, R, t, w) == Move([WithOpn(e, o, c) EXCEPT !.req = R], t, w)

\* Just these three change, and the state keeps its type.
LEMMA UpdateFacts ==
  ASSUME NEW e \in DeviceState, NEW o \in Opns, NEW c \in OpnCB, NEW R \in [Reqs -> ReqCB],
         NEW t \in Tasks, NEW w \in TaskCB
  PROVE  LET f == Update(e, o, c, R, t, w)
         IN  /\ Goes(e, f, t, w) /\ f.opn[o] = c /\ SameOpn(e, f, o) /\ f.req = R /\ f.registered = e.registered
<1> DEFINE g == WithOpn(e, o, c)
           h == [g EXCEPT !.req = R]
           f == Move(h, t, w)
<1>1. g \in DeviceState /\ g.opn[o] = c /\ SameOpn(e, g, o) /\ g.task = e.task /\ g.registered = e.registered
  BY WithOpnFacts
<1> HIDE DEF g
<1>2. h \in DeviceState /\ h.req = R /\ h.opn = g.opn /\ h.task = g.task /\ h.registered = g.registered
  BY <1>1 DEF DeviceState
<1> HIDE DEF h
<1>3. Goes(h, f, t, w) /\ f.opn = h.opn /\ f.req = h.req /\ f.registered = h.registered
  BY <1>2, MoveFacts
<1> HIDE DEF f
<1>4. Goes(e, f, t, w) /\ SameOpn(e, f, o)
  BY <1>1, <1>2, <1>3 DEF Goes, SameOpn
<1> QED BY <1>1, <1>2, <1>3, <1>4 DEF Update, f, g, h

\* Dropping a request and going on are independent.
LEMMA DropThenMove ==
  ASSUME NEW e \in DeviceState, NEW r \in Reqs, NEW t \in Tasks, NEW w
  PROVE  Move(knl_delReqCB(e, r), t, w) = knl_delReqCB(Move(e, t, w), r)
<1> DEFINE o == e.req[r].opncb
           q == QueRemove(e.opn[o].requestq, r)
<1>1. /\ e = [registered |-> e.registered, openreq |-> e.openreq, reg_lock |-> e.reg_lock, dissus |-> e.dissus,
             opn |-> e.opn, req |-> e.req, task |-> e.task]
  BY DEF DeviceState
<1>2. Move(e, t, w).req[r].opncb = o /\ Move(e, t, w).opn = e.opn
  BY <1>1 DEF Move
<1>3. knl_delReqCB(e, r) = [e EXCEPT !.opn = [e.opn EXCEPT ![o].requestq = QueRemove(@, r)],
                                     !.req = [e.req EXCEPT ![r] = FreeReq]]
  BY <1>1 DEF knl_delReqCB
<1> QED BY <1>1, <1>2, <1>3 DEF Move, knl_delReqCB

\* What CountDown does to the descriptor.
Down(c) ==
  IF c.abort_tskid = NULL THEN c
  ELSE [c EXCEPT !.abort_cnt = @ - 1, !.sem = IF c.abort_cnt = 1 THEN 1 ELSE @]

\* CountDown touches the count and the semaphore only.
LEMMA DownFacts ==
  ASSUME NEW c \in OpnCB
  PROVE  /\ Down(c) \in OpnCB /\ Down(c).q = c.q /\ Down(c).resid = c.resid /\ Down(c).requestq = c.requestq
         /\ Down(c).unitno = c.unitno /\ Down(c).omode = c.omode /\ Down(c).waireqlst = c.waireqlst
         /\ Down(c).abort_tskid = c.abort_tskid
         /\ IF c.abort_tskid = NULL THEN Down(c).sem = c.sem
            ELSE Down(c).abort_cnt = c.abort_cnt - 1 /\ Down(c).sem = IF c.abort_cnt = 1 THEN 1 ELSE c.sem
<1>1. CASE c.abort_tskid = NULL
  BY <1>1 DEF Down
<1>2. CASE c.abort_tskid # NULL
  <2> DEFINE n == c.abort_cnt - 1
             s == IF c.abort_cnt = 1 THEN 1 ELSE c.sem
  <2>1. n \in Int /\ s \in {0, 1}
    BY DEF OpnCB
  <2>2. Down(c) = [c EXCEPT !.abort_cnt = n, !.sem = s]
    BY <1>2 DEF Down, OpnCB
  <2> HIDE DEF n, s
  <2>3. /\ Down(c) \in OpnCB /\ Down(c).q = c.q /\ Down(c).resid = c.resid /\ Down(c).requestq = c.requestq
        /\ Down(c).unitno = c.unitno /\ Down(c).omode = c.omode /\ Down(c).waireqlst = c.waireqlst
        /\ Down(c).abort_tskid = c.abort_tskid /\ Down(c).abort_cnt = n /\ Down(c).sem = s
    BY <2>1, <2>2 DEF OpnCB
  <2> QED BY <1>2, <2>3 DEF n, s
<1> QED BY <1>1, <1>2

\* CountDown in terms of Down.
LEMMA CountDownShape ==
  ASSUME NEW e \in DeviceState, NEW o \in Opns
  PROVE  CountDown(e, o) = WithOpn(e, o, Down(e.opn[o]))
<1>1. e.opn \in [Opns -> OpnCB]
  BY DEF DeviceState
<1>2. e = [registered |-> e.registered, openreq |-> e.openreq, reg_lock |-> e.reg_lock, dissus |-> e.dissus,
           opn |-> e.opn, req |-> e.req, task |-> e.task]
  BY DEF DeviceState
<1>3. CASE e.opn[o].abort_tskid = NULL
  <2>1. [e.opn EXCEPT ![o] = e.opn[o]] = e.opn
    BY <1>1
  <2>2. WithOpn(e, o, e.opn[o]) = [e EXCEPT !.opn = [e.opn EXCEPT ![o] = e.opn[o]]]
    BY DEF WithOpn
  <2>3. WithOpn(e, o, e.opn[o]) = e
    BY <1>2, <2>1, <2>2
  <2> QED BY <1>3, <2>3 DEF CountDown, Down
<1>4. CASE e.opn[o].abort_tskid # NULL
  <2> DEFINE n == e.opn[o].abort_cnt - 1
             s == IF e.opn[o].abort_cnt = 1 THEN 1 ELSE e.opn[o].sem
             c == [e.opn[o] EXCEPT !.abort_cnt = n, !.sem = s]
  <2>1. Down(e.opn[o]) = c
    BY <1>4 DEF Down
  <2>2. CountDown(e, o) = [e EXCEPT !.opn[o].abort_cnt = n, !.opn[o].sem = s]
    BY <1>4 DEF CountDown
  <2> HIDE DEF n, s
  <2>3. [e.opn EXCEPT ![o].abort_cnt = n, ![o].sem = s] = [e.opn EXCEPT ![o] = c]
    BY <1>1
  <2>4. [e EXCEPT !.opn[o].abort_cnt = n, !.opn[o].sem = s] = [e EXCEPT !.opn = [e.opn EXCEPT ![o].abort_cnt = n, ![o].sem = s]]
    BY <1>1, <1>2
  <2> QED BY <2>1, <2>2, <2>3, <2>4 DEF WithOpn
<1> QED BY <1>3, <1>4

\* What the task took back before it counts down: descriptor and requests.
TakenBack(e, t, o, c, R) ==
  /\ c \in OpnCB /\ c.q = e.opn[o].q /\ c.resid = e.opn[o].resid /\ c.requestq = e.opn[o].requestq
  /\ c.unitno = e.opn[o].unitno /\ c.omode = e.opn[o].omode
  /\ c.waireqlst = IF Pc(e, t) = "waitany" THEN << >> ELSE e.opn[o].waireqlst
  /\ c.abort_tskid = e.opn[o].abort_tskid /\ c.abort_cnt = e.opn[o].abort_cnt /\ c.sem = e.opn[o].sem
  /\ R = [x \in Reqs |-> IF x \in MarkedBy(e, t) THEN [e.req[x] EXCEPT !.tskid = NULL] ELSE e.req[x]]

\* A task leaves the driver; it may drop a request it worked on.
LEMMA LeaveStep ==
  ASSUME NEW e \in DeviceState, DeviceInv(e), Setting, NEW t \in Tasks, NEW o \in Opns, Of(e, t) = o,
         Pc(e, t) \in InDriver, NEW c, NEW R, TakenBack(e, t, o, c, R), NEW w \in TaskCB,
         w.pc = "idle" \/ (w.pc = "sync" /\ w.o \in Opns /\ w.r \in Reqs),
         NEW h, h = [WithOpn(e, o, c) EXCEPT !.req = R]
  PROVE  /\ Move(CountDown(h, o), t, w) \in DeviceState /\ DeviceInv(Move(CountDown(h, o), t, w))
         /\ \A r \in MarkedBy(e, t) : /\ Move(knl_delReqCB(CountDown(h, o), r), t, w) \in DeviceState
                                      /\ DeviceInv(Move(knl_delReqCB(CountDown(h, o), r), t, w))
<1> DEFINE g == CountDown(h, o)
           f == Move(g, t, w)
<1>1. R \in [Reqs -> ReqCB] /\ \A x \in Reqs : /\ x \notin MarkedBy(e, t) => R[x] = e.req[x]
                                               /\ x \in MarkedBy(e, t) => R[x].opncb = e.req[x].opncb /\ R[x].tskid = NULL
  <2>1. \A x \in Reqs : e.req[x] \in ReqCB
    BY DEF DeviceState
  <2>2. ASSUME NEW x \in Reqs
        PROVE  /\ [e.req[x] EXCEPT !.tskid = NULL] \in ReqCB
               /\ [e.req[x] EXCEPT !.tskid = NULL].opncb = e.req[x].opncb
               /\ [e.req[x] EXCEPT !.tskid = NULL].tskid = NULL
    BY <2>1 DEF ReqCB
  <2>3. R = [x \in Reqs |-> IF x \in MarkedBy(e, t) THEN [e.req[x] EXCEPT !.tskid = NULL] ELSE e.req[x]]
    BY DEF TakenBack
  <2> QED BY <2>1, <2>2, <2>3
<1>2. c \in OpnCB
  BY DEF TakenBack
<1>3. h \in DeviceState /\ h.opn = WithOpn(e, o, c).opn /\ h.opn[o] = c
  <2> DEFINE b == WithOpn(e, o, c)
  <2>1. b \in DeviceState /\ b.opn[o] = c
    BY <1>2, WithOpnFacts
  <2>2. h = [b EXCEPT !.req = R]
    OBVIOUS
  <2> HIDE DEF b
  <2> QED BY <1>1, <2>1, <2>2 DEF DeviceState, b
<1>4. g = WithOpn(h, o, Down(c))
  BY <1>3, CountDownShape
<1>5. f = Update(e, o, Down(c), R, t, w)
  <2>1. WithOpn(h, o, Down(c)) = [WithOpn(e, o, Down(c)) EXCEPT !.req = R]
    <3>1. e = [registered |-> e.registered, openreq |-> e.openreq, reg_lock |-> e.reg_lock, dissus |-> e.dissus,
               opn |-> e.opn, req |-> e.req, task |-> e.task]
      BY DEF DeviceState
    <3>2. e.opn \in [Opns -> OpnCB]
      BY DEF DeviceState
    <3>3. [[e.opn EXCEPT ![o] = c] EXCEPT ![o] = Down(c)] = [e.opn EXCEPT ![o] = Down(c)]
      BY <3>2
    <3> QED BY <3>1, <3>3 DEF WithOpn
  <2> QED BY <1>4, <2>1 DEF Update
<1>6. Down(c) \in OpnCB
  BY <1>2, DownFacts
<1>7. Goes(e, f, t, w) /\ f.opn[o] = Down(c) /\ SameOpn(e, f, o) /\ f.req = R /\ f.registered = e.registered
  BY <1>1, <1>5, <1>6, UpdateFacts
<1> HIDE DEF f
<1>8. Leaves(e, f, t, w, o)
  <2>1. SameReq(e, f, MarkedBy(e, t)) /\ \A r \in MarkedBy(e, t) : f.req[r].opncb = e.req[r].opncb /\ f.req[r].tskid = NULL
    BY <1>1, <1>7 DEF SameReq, MarkedBy
  <2> QED BY <1>2, <1>7, <2>1, DownFacts DEF Leaves, TakenBack
<1>9. f \in DeviceState /\ DeviceInv(f)
  BY <1>8, LeaveKeeps
<1>10. ASSUME NEW r \in MarkedBy(e, t)
       PROVE  Move(knl_delReqCB(g, r), t, w) \in DeviceState /\ DeviceInv(Move(knl_delReqCB(g, r), t, w))
  <2>1. r \in Reqs /\ f.req[r].opncb = o /\ f.req[r].tskid = NULL
    BY <1>1, <1>7, MarkedByFacts DEF MarkedBy
  <2>2. ASSUME NEW u \in Tasks, Pc(f, u) = "drain" PROVE Rq(f, u) # r
    <3>1. u # t /\ Pc(e, u) = "drain" /\ Of(e, u) = Of(f, u)
      BY <1>7, <2>2 DEF Goes, Pc, Of
    <3>2. Of(e, u) # o
      BY <3>1, LabelFacts DEF DeviceInv, Within
    <3> QED BY <1>9, <2>1, <2>2, <3>1, <3>2 DEF DeviceInv, Queued, Setting
  <2>3. knl_delReqCB(f, r) \in DeviceState /\ DeviceInv(knl_delReqCB(f, r))
    BY <1>9, <2>1, <2>2, DropKeeps
  <2>4. g \in DeviceState
    BY <1>3, <1>4, <1>6, WithOpnFacts
  <2> HIDE DEF g
  <2>5. Move(knl_delReqCB(g, r), t, w) = knl_delReqCB(f, r)
    BY <2>1, <2>4, DropThenMove DEF f
  <2> QED BY <2>3, <2>5
<1> QED BY <1>9, <1>10 DEF f

\* Descriptor c is as a, but for whom it waits with and for what.
SameBut(a, c) ==
  /\ c \in OpnCB /\ c.q = a.q /\ c.resid = a.resid /\ c.requestq = a.requestq
  /\ c.unitno = a.unitno /\ c.omode = a.omode
  /\ c.abort_tskid = a.abort_tskid /\ c.abort_cnt = a.abort_cnt /\ c.sem = a.sem

\* Another number of waiting tasks.
LEMMA WaitoneFacts ==
  ASSUME NEW a \in OpnCB, NEW n \in Int, NEW c, c = [a EXCEPT !.waitone = n]
  PROVE  SameBut(a, c) /\ c.waireqlst = a.waireqlst
BY DEF OpnCB, SameBut

\* Another list of requests to wait for.
LEMMA ListFacts ==
  ASSUME NEW a \in OpnCB, NEW l \in Seq(Reqs), NEW c, c = [a EXCEPT !.waireqlst = l]
  PROVE  SameBut(a, c) /\ c.waireqlst = l
BY DEF OpnCB, SameBut

\* The requests without the marks of task t.
Unmarked(e, t) == [x \in Reqs |-> IF x \in MarkedBy(e, t) THEN [e.req[x] EXCEPT !.tskid = NULL] ELSE e.req[x]]

\* execfn, WaitDone and WaitAnyDone.
LEMMA LeaveSteps ==
  ASSUME d \in DeviceState, DeviceInv(d), Setting, NEW t \in Tasks, execfn(t) \/ WaitDone(t) \/ WaitAnyDone(t)
  PROVE  d' \in DeviceState /\ DeviceInv(d')
<1> DEFINE o == Of(d, t)
           r == Rq(d, t)
           idle == [pc |-> "idle", o |-> NULL, r |-> NULL]
           sync == [pc |-> "sync", o |-> o, r |-> r]
           R == Unmarked(d, t)
<1>d. d = [registered |-> d.registered, openreq |-> d.openreq, reg_lock |-> d.reg_lock, dissus |-> d.dissus,
           opn |-> d.opn, req |-> d.req, task |-> d.task]
  BY DEF DeviceState
<1>i. idle \in TaskCB /\ idle.pc = "idle" /\ FreeTask = idle
  BY LabelFacts, CBFacts DEF FreeTask
<1>p. Pc(d, t) \in InDriver /\ o \in Opns /\ d.opn[o] \in OpnCB /\ (Pc(d, t) \in Driver => r \in Reqs)
  <2>1. Pc(d, t) \in InDriver
    BY LabelFacts DEF execfn, WaitDone, WaitAnyDone, At, Pc
  <2>2. o \in Opns /\ (Pc(d, t) \in Driver => r \in Reqs)
    BY <2>1 DEF DeviceInv, Places
  <2> QED BY <2>1, <2>2 DEF DeviceState
<1>r. Pc(d, t) \in Driver => R = [d.req EXCEPT ![r].tskid = NULL] /\ MarkedBy(d, t) = {r}
  <2>1. Pc(d, t) \in Driver => MarkedBy(d, t) = {r}
    BY MarkedByFacts
  <2>2. d.req \in [Reqs -> ReqCB]
    BY DEF DeviceState
  <2> HIDE DEF r
  <2> QED BY <2>1, <2>2 DEF Unmarked
<1>o. o = d.task[t].o /\ r = d.task[t].r /\ Of(d, t) = o /\ Rq(d, t) = r
  BY DEF Of, Rq
<1>1. CASE execfn(t)
  <2> DEFINE h == [WithOpn(d, o, d.opn[o]) EXCEPT !.req = R]
             e == CountDown([d EXCEPT !.req[r].tskid = NULL], o)
  <2>1. Pc(d, t) \in {"execfn", "sexecfn"} /\ Pc(d, t) \in Driver
    BY <1>1, LabelFacts DEF execfn, At, Pc
  <2>2. TakenBack(d, t, o, d.opn[o], R)
    BY <1>p, <2>1 DEF TakenBack, Unmarked
  <2>3. [d EXCEPT !.req[r].tskid = NULL] = h
    <3>1. d.opn \in [Opns -> OpnCB]
      BY DEF DeviceState
    <3>2. [d.opn EXCEPT ![o] = d.opn[o]] = d.opn
      BY <3>1
    <3>3. WithOpn(d, o, d.opn[o]) = d
      BY <1>d, <3>2 DEF WithOpn
    <3>4. [d EXCEPT !.req[r].tskid = NULL] = [d EXCEPT !.req = [d.req EXCEPT ![r].tskid = NULL]]
      OBVIOUS
    <3> QED BY <1>r, <2>1, <3>3, <3>4
  <2>4. sync \in TaskCB /\ sync.pc = "sync" /\ sync.o = o /\ sync.r = r
    BY <1>p, <2>1, LabelFacts, CBFacts
  <2>5. d' = Move(e, t, idle) \/ d' = Move(e, t, sync) \/ d' = Move(knl_delReqCB(e, r), t, idle)
    BY <1>1, <1>i, <1>o DEF execfn, Return, Goto, Move
  <2>6. e = CountDown(h, o)
    BY <2>3
  <2> HIDE DEF h, e, idle, sync, o, r, R
  <2>7. /\ Move(e, t, idle) \in DeviceState /\ DeviceInv(Move(e, t, idle))
        /\ \A x \in MarkedBy(d, t) : /\ Move(knl_delReqCB(e, x), t, idle) \in DeviceState
                                     /\ DeviceInv(Move(knl_delReqCB(e, x), t, idle))
    BY <1>i, <1>o, <1>p, <2>2, <2>6, LeaveStep DEF h
  <2>8. Move(e, t, sync) \in DeviceState /\ DeviceInv(Move(e, t, sync))
    BY <1>o, <1>p, <2>1, <2>2, <2>4, <2>6, LeaveStep DEF h
  <2> QED BY <1>r, <2>1, <2>5, <2>7, <2>8
<1>2. CASE WaitDone(t)
  <2> DEFINE c == [d.opn[o] EXCEPT !.waitone = @ - 1]
             h == [WithOpn(d, o, c) EXCEPT !.req = R]
             e == CountDown([d EXCEPT !.opn[o].waitone = @ - 1, !.req[r].tskid = NULL], o)
  <2>1. Pc(d, t) = "waitfn" /\ Pc(d, t) \in Driver
    BY <1>2, LabelFacts DEF WaitDone, At, Pc
  <2>2. TakenBack(d, t, o, c, R)
    <3> HIDE DEF o
    <3>1. d.opn[o].waitone - 1 \in Int
      BY <1>p DEF OpnCB
    <3>2. SameBut(d.opn[o], c) /\ c.waireqlst = d.opn[o].waireqlst
      BY <1>p, <3>1, WaitoneFacts
    <3> HIDE DEF c
    <3> QED BY <2>1, <3>2 DEF TakenBack, Unmarked, SameBut
  <2>3. [d EXCEPT !.opn[o].waitone = @ - 1, !.req[r].tskid = NULL] = h
    <3>1. [d EXCEPT !.opn[o].waitone = @ - 1, !.req[r].tskid = NULL]
            = [d EXCEPT !.opn = [d.opn EXCEPT ![o] = c], !.req = [d.req EXCEPT ![r].tskid = NULL]]
      OBVIOUS
    <3> QED BY <1>d, <1>r, <2>1, <3>1 DEF WithOpn
  <2>5. d' = Move(e, t, idle) \/ d' = Move(knl_delReqCB(e, r), t, idle)
    BY <1>2, <1>i, <1>o DEF WaitDone, Return, Move
  <2>6. e = CountDown(h, o)
    BY <2>3
  <2> HIDE DEF h, e, idle, o, r, R, c
  <2>7. /\ Move(e, t, idle) \in DeviceState /\ DeviceInv(Move(e, t, idle))
        /\ \A x \in MarkedBy(d, t) : /\ Move(knl_delReqCB(e, x), t, idle) \in DeviceState
                                     /\ DeviceInv(Move(knl_delReqCB(e, x), t, idle))
    BY <1>i, <1>o, <1>p, <2>2, <2>6, LeaveStep DEF h
  <2> QED BY <1>r, <2>1, <2>5, <2>7
<1>3. CASE WaitAnyDone(t)
  <2> DEFINE list == d.opn[o].waireqlst
             c == [d.opn[o] EXCEPT !.waireqlst = << >>]
             Q == [x \in Reqs |-> IF x \in Elems(list) THEN [d.req[x] EXCEPT !.tskid = NULL] ELSE d.req[x]]
             h == [WithOpn(d, o, c) EXCEPT !.req = R]
             e == CountDown([d EXCEPT !.opn[o].waireqlst = << >>, !.req = Q], o)
  <2>1. Pc(d, t) = "waitany"
    BY <1>3 DEF WaitAnyDone, At, Pc
  <2>2. TakenBack(d, t, o, c, R)
    <3> HIDE DEF o
    <3> DEFINE none == << >>
    <3>1. none \in Seq(Reqs) /\ c = [d.opn[o] EXCEPT !.waireqlst = none]
      OBVIOUS
    <3> HIDE DEF c, none
    <3>2. SameBut(d.opn[o], c) /\ c.waireqlst = none
      BY <1>p, <3>1, ListFacts
    <3> QED BY <2>1, <3>2 DEF TakenBack, Unmarked, SameBut, none
  <2>l. MarkedBy(d, t) = Elems(list) /\ list # << >> /\ Head(list) \in Elems(list)
    <3>1. MarkedBy(d, t) = Elems(list) /\ list # << >>
      BY <2>1, MarkedByFacts DEF DeviceInv, Marked
    <3>2. list \in Seq(Reqs)
      BY <1>p DEF OpnCB
    <3> HIDE DEF list
    <3>3. Head(list) = list[1] /\ 1 \in DOMAIN list
      BY <3>1, <3>2
    <3> QED BY <3>1, <3>3 DEF Elems
  <2>q. Q = R
    BY <2>l DEF Unmarked
  <2>3. [d EXCEPT !.opn[o].waireqlst = << >>, !.req = Q] = h
    <3> HIDE DEF Q, R
    <3>1. [d EXCEPT !.opn[o].waireqlst = << >>, !.req = Q]
            = [d EXCEPT !.opn = [d.opn EXCEPT ![o] = c], !.req = Q]
      OBVIOUS
    <3> QED BY <1>d, <2>q, <3>1 DEF WithOpn
  <2>5. d' = Move(e, t, idle) \/ d' = Move(knl_delReqCB(e, Head(list)), t, idle)
    BY <1>3, <1>i, <1>o DEF WaitAnyDone, Return, Move
  <2>6. e = CountDown(h, o)
    BY <2>3
  <2> HIDE DEF h, e, idle, o, r, R, c, Q, list
  <2>7. /\ Move(e, t, idle) \in DeviceState /\ DeviceInv(Move(e, t, idle))
        /\ \A x \in MarkedBy(d, t) : /\ Move(knl_delReqCB(e, x), t, idle) \in DeviceState
                                     /\ DeviceInv(Move(knl_delReqCB(e, x), t, idle))
    BY <1>i, <1>o, <1>p, <2>2, <2>6, LeaveStep DEF h
  <2> QED BY <2>5, <2>7, <2>l
<1> QED BY <1>1, <1>2, <1>3

\* tk_rea_dev, tk_srea_dev, tk_wri_dev and tk_swri_dev.
LEMMA RequestStep ==
  ASSUME d \in DeviceState, DeviceInv(d), Setting, NEW t \in Tasks, NEW o \in Opns, NEW cmd, NEW attr, NEW sync,
         knl_request(t, o, cmd, attr, sync)
  PROVE  d' \in DeviceState /\ DeviceInv(d')
<1>0. Pc(d, t) = "idle" /\ d.opn[o].resid = 1 /\ Len(d.opn[o].waireqlst) = 0
  BY DEF knl_request, knl_check_devdesc, nwaireq, At, Setting, Pc
<1>1. PICK r \in Reqs :
        /\ d.req[r].opncb = NULL
        /\ Goto(t, IF sync THEN "sexecfn" ELSE "execfn", o, r, newReqCB(o, r, t))
  BY DEF knl_request
<1> DEFINE l == IF sync THEN "sexecfn" ELSE "execfn"
           w == [pc |-> l, o |-> o, r |-> r]
           q == QueInsert(d.opn[o].requestq, r)
           b == [opncb |-> o, tskid |-> NULL]
           m == [opncb |-> o, tskid |-> t]
           g == Added(d, o, r)
           h == newReqCB(o, r, t)
<1>2. d' = Move(h, t, w)
  BY <1>1 DEF Goto, Move
<1>3. l \in {"sexecfn", "execfn"} /\ l \in Labels
  BY LabelFacts
<1> HIDE DEF l
<1>4. w \in TaskCB /\ w.pc = l /\ w.o = o /\ w.r = r
  BY <1>3, CBFacts
<1>5. q \in Seq(Reqs)
  <2>1. d.opn[o].requestq \in Seq(Reqs)
    BY DEF DeviceState, OpnCB
  <2> QED BY <2>1, QueInsertFacts
<1>6. b \in ReqCB /\ m \in ReqCB /\ m.opncb = o /\ m.tskid = t
  BY DEF ReqCB
<1>7. /\ g = [d EXCEPT !.opn[o].requestq = q, !.req[r] = b]
      /\ h = [d EXCEPT !.opn[o].requestq = q, !.req[r] = m]
  BY DEF Added, newReqCB
<1>8. /\ g \in DeviceState /\ DeviceInv(g) /\ g.task = d.task
      /\ g.req[r].opncb = o /\ g.req[r].tskid = NULL
      /\ g.opn[o].resid = 1 /\ g.opn[o].waireqlst = d.opn[o].waireqlst
  BY <1>0, <1>1, AddKeeps
<1>9. d.opn[o].waireqlst = << >>
  <2>1. d.opn[o].waireqlst \in Seq(Reqs)
    BY DEF DeviceState, OpnCB
  <2> QED BY <1>0, <2>1
<1> HIDE DEF w, q, b, m, g, h
<1>10. Requeued(d, g, o, q, r, b) /\ Requeued(d, h, o, q, r, m)
  BY <1>5, <1>6, <1>7, RequeuedFacts
<1>11. h \in DeviceState
  BY <1>10 DEF Requeued
<1>12. Goes(h, d', t, w) /\ d'.opn = h.opn /\ d'.req = h.req /\ d'.registered = h.registered
  BY <1>2, <1>4, <1>11, MoveFacts
<1>13. /\ Goes(g, d', t, w) /\ d'.registered = g.registered /\ d'.opn[o] = g.opn[o] /\ SameOpn(g, d', o)
       /\ SameReq(g, d', {r}) /\ d'.req[r] = m
  BY <1>10, <1>12 DEF Requeued, Goes, SameOpn, SameReq
<1>14. Pc(g, t) = "idle"
  BY <1>0, <1>8 DEF Pc
<1>15. Enters(g, d', t, w, o, {r})
  BY <1>3, <1>4, <1>6, <1>8, <1>9, <1>13, <1>14, LabelFacts DEF Enters
<1> QED BY <1>8, <1>15, EnterKeeps

\* tk_wai_dev for one request.
LEMMA WaitStep ==
  ASSUME d \in DeviceState, DeviceInv(d), Setting, NEW t \in Tasks, NEW o \in Opns, NEW r \in Reqs,
         tk_wai_dev(t, o, r)
  PROVE  d' \in DeviceState /\ DeviceInv(d')
<1> DEFINE n == d.opn[o].waitone + 1
           c == [d.opn[o] EXCEPT !.waitone = n]
           R == [d.req EXCEPT ![r].tskid = t]
           w == [pc |-> "waitfn", o |-> o, r |-> r]
<1>0. /\ Pc(d, t) \in {"idle", "sync"} /\ d.opn[o].resid = 1 /\ Len(d.opn[o].waireqlst) = 0
      /\ d.req[r].opncb = o /\ d.req[r].tskid = NULL
      /\ d' = Move([d EXCEPT !.req[r].tskid = t, !.opn[o].waitone = @ + 1], t, w)
  BY DEF tk_wai_dev, knl_check_devdesc, knl_check_reqid, nwaireq, At, Pc, Goto, Move
<1>1. d.opn[o] \in OpnCB /\ d.req \in [Reqs -> ReqCB]
  BY DEF DeviceState
<1>2. n \in Int /\ d.opn[o].waireqlst = << >>
  BY <1>0, <1>1 DEF OpnCB
<1>3. w \in TaskCB /\ w.pc = "waitfn" /\ w.o = o /\ w.r = r
  BY LabelFacts, CBFacts
<1>4. d = [registered |-> d.registered, openreq |-> d.openreq, reg_lock |-> d.reg_lock, dissus |-> d.dissus,
           opn |-> d.opn, req |-> d.req, task |-> d.task]
  BY DEF DeviceState
<1>5. d' = Update(d, o, c, R, t, w)
  <2>1. [d EXCEPT !.req[r].tskid = t, !.opn[o].waitone = @ + 1] = [d EXCEPT !.opn = [d.opn EXCEPT ![o] = c], !.req = R]
    BY <1>4
  <2> HIDE DEF c, R, w
  <2>2. [d EXCEPT !.opn = [d.opn EXCEPT ![o] = c], !.req = R] = [WithOpn(d, o, c) EXCEPT !.req = R]
    BY <1>4 DEF WithOpn
  <2> QED BY <1>0, <2>1, <2>2 DEF Update
<1>6. R \in [Reqs -> ReqCB] /\ R[r].opncb = o /\ R[r].tskid = t /\ \A x \in Reqs \ {r} : R[x] = d.req[x]
  BY <1>0, <1>1 DEF ReqCB
<1>7. SameBut(d.opn[o], c) /\ c.waireqlst = d.opn[o].waireqlst
  <2> HIDE DEF n
  <2> QED BY <1>1, <1>2, WaitoneFacts
<1> HIDE DEF n, c, R, w
<1>8. c \in OpnCB
  BY <1>7 DEF SameBut
<1>9. Goes(d, d', t, w) /\ d'.opn[o] = c /\ SameOpn(d, d', o) /\ d'.req = R /\ d'.registered = d.registered
  BY <1>3, <1>5, <1>6, <1>8, UpdateFacts
<1>10. Enters(d, d', t, w, o, {r})
  <2>1. SameReq(d, d', {r})
    BY <1>6, <1>9 DEF SameReq
  <2> QED BY <1>0, <1>2, <1>3, <1>6, <1>7, <1>9, <2>1, LabelFacts DEF Enters, SameBut
<1> QED BY <1>10, EnterKeeps

\* tk_wai_dev for any request.
LEMMA WaitAnyStep ==
  ASSUME d \in DeviceState, DeviceInv(d), Setting, NEW t \in Tasks, NEW o \in Opns, tk_wai_dev_any(t, o)
  PROVE  d' \in DeviceState /\ DeviceInv(d')
<1> DEFINE list == d.opn[o].requestq
           c == [d.opn[o] EXCEPT !.waireqlst = list]
           R == [x \in Reqs |-> IF x \in Elems(list) THEN [d.req[x] EXCEPT !.tskid = t] ELSE d.req[x]]
           w == [pc |-> "waitany", o |-> o, r |-> NULL]
<1>0. /\ Pc(d, t) = "idle" /\ d.opn[o].resid = 1 /\ Len(d.opn[o].waireqlst) = 0 /\ list # << >>
      /\ \A x \in Elems(list) : d.req[x].tskid = NULL
      /\ d' = Move([d EXCEPT !.req = R, !.opn[o].waireqlst = list], t, w)
  BY DEF tk_wai_dev_any, knl_check_devdesc, nwaireq, At, Pc, Goto, Move, Setting
<1>1. d.opn[o] \in OpnCB /\ d.req \in [Reqs -> ReqCB]
  BY DEF DeviceState
<1>2. d.opn[o].waireqlst = << >> /\ list \in Seq(Reqs)
  BY <1>0, <1>1 DEF OpnCB
<1>3. Elems(list) \subseteq Reqs /\ \A x \in Reqs : x \in Elems(list) <=> d.req[x].opncb = o
  BY <1>2, ElemsIn DEF DeviceInv, Queued
<1>4. w \in TaskCB /\ w.pc = "waitany" /\ w.o = o
  BY LabelFacts, CBFacts
<1>5. d = [registered |-> d.registered, openreq |-> d.openreq, reg_lock |-> d.reg_lock, dissus |-> d.dissus,
           opn |-> d.opn, req |-> d.req, task |-> d.task]
  BY DEF DeviceState
<1>6. d' = Update(d, o, c, R, t, w)
  <2> HIDE DEF R, w
  <2>1. [d EXCEPT !.req = R, !.opn[o].waireqlst = list] = [d EXCEPT !.opn = [d.opn EXCEPT ![o] = c], !.req = R]
    BY <1>5
  <2> HIDE DEF c
  <2>2. [d EXCEPT !.opn = [d.opn EXCEPT ![o] = c], !.req = R] = [WithOpn(d, o, c) EXCEPT !.req = R]
    BY <1>5 DEF WithOpn
  <2> QED BY <1>0, <2>1, <2>2 DEF Update
<1>7. /\ R \in [Reqs -> ReqCB] /\ \A x \in Reqs \ Elems(list) : R[x] = d.req[x]
      /\ \A x \in Elems(list) : R[x].opncb = o /\ R[x].tskid = t
  <2>1. ASSUME NEW x \in Reqs
        PROVE  /\ [d.req[x] EXCEPT !.tskid = t] \in ReqCB /\ d.req[x] \in ReqCB
               /\ [d.req[x] EXCEPT !.tskid = t].opncb = d.req[x].opncb
               /\ [d.req[x] EXCEPT !.tskid = t].tskid = t
    BY <1>1 DEF ReqCB
  <2> HIDE DEF list
  <2> QED BY <1>3, <2>1
<1>8. SameBut(d.opn[o], c) /\ c.waireqlst = list
  <2> HIDE DEF list
  <2> QED BY <1>1, <1>2, ListFacts
<1>9. InsideOf(d, o) = {}
  <2>1. ASSUME NEW u \in InsideOf(d, o) PROVE FALSE
    <3>1. u \in Tasks /\ Of(d, u) = o /\ Pc(d, u) \in InDriver
      BY DEF InsideOf, Pc, Of
    <3>2. Pc(d, u) \in Driver
      BY <1>2, <3>1, LabelFacts DEF DeviceInv, Marked
    <3>3. Rq(d, u) \in Reqs /\ d.req[Rq(d, u)].opncb = o /\ d.req[Rq(d, u)].tskid = u
      BY <3>1, <3>2 DEF DeviceInv, Marked, Places
    <3> QED BY <1>0, <1>3, <3>1, <3>3 DEF Setting
  <2> QED BY <2>1
<1> HIDE DEF list, c, R, w
<1>10. c \in OpnCB
  BY <1>8 DEF SameBut
<1>11. Goes(d, d', t, w) /\ d'.opn[o] = c /\ SameOpn(d, d', o) /\ d'.req = R /\ d'.registered = d.registered
  BY <1>4, <1>6, <1>7, <1>10, UpdateFacts
<1>12. Enters(d, d', t, w, o, Elems(list))
  <2>1. /\ SameReq(d, d', Elems(list)) /\ Elems(list) \subseteq Reqs
        /\ \A x \in Elems(list) : d.req[x].opncb = o /\ d.req[x].tskid = NULL /\ d'.req[x].opncb = o /\ d'.req[x].tskid = t
    BY <1>0, <1>3, <1>7, <1>11 DEF SameReq
  <2> QED BY <1>0, <1>2, <1>4, <1>8, <1>9, <1>11, <2>1, LabelFacts DEF Enters, SameBut
<1> QED BY <1>12, EnterKeeps

-----------------------------------------------------------------------------
(* Descriptors come and go                                                 *)

\* Descriptor o, at which nothing is left, is given to task t or taken from it.
Renewed(e, f, t, w, o) ==
  /\ Goes(e, f, t, w) /\ SameOpn(e, f, o) /\ f.req = e.req /\ Only(e, t, o)
  /\ Pc(e, t) \in Outside /\ (Pc(e, t) \in Holding => Of(e, t) = o)
  /\ e.opn[o].requestq = << >> /\ InsideOf(e, o) = {}
  /\ w.pc \in {"idle"} \cup Opening \cup Gone /\ (w.pc # "idle" => w.o = o)
  /\ f.opn[o].resid = 0 /\ f.opn[o].requestq = << >> /\ f.opn[o].waireqlst = << >>
  /\ f.opn[o].abort_tskid = NULL /\ f.opn[o].sem = 0
  /\ f.opn[o].q = IF w.pc = "idle" THEN "free" ELSE IF w.pc \in Gone THEN "closing" ELSE "open"

\* A descriptor that is empty, and that nobody else uses, may be opened, leave
\* its queues or become free.
LEMMA RenewKeeps ==
  ASSUME NEW e \in DeviceState, DeviceInv(e), Setting, NEW f, NEW t \in Tasks, NEW w, NEW o \in Opns,
         Renewed(e, f, t, w, o), Modes(f)
  PROVE  f \in DeviceState /\ DeviceInv(f)
<1>0. /\ \A u \in Tasks \ {t} : Pc(f, u) = Pc(e, u) /\ Of(f, u) = Of(e, u) /\ Rq(f, u) = Rq(e, u)
      /\ Pc(f, t) = w.pc /\ Of(f, t) = w.o
      /\ Pc(e, t) \in Outside /\ w.pc \in {"idle"} \cup Opening \cup Gone /\ (w.pc # "idle" => w.o = o)
      /\ w.pc \in Outside /\ w.pc \notin InDriver /\ Pc(e, t) \notin InDriver
  BY LabelFacts DEF Renewed, Goes, Pc, Of, Rq
<1>t. f \in DeviceState /\ Goes(e, f, t, w) /\ SameOpn(e, f, o) /\ f.req = e.req /\ Only(e, t, o)
  BY DEF Renewed, Goes
<1>k. /\ \A p \in Opns \ {o} : f.opn[p] = e.opn[p]
      /\ f.opn[o].requestq = << >> /\ f.opn[o].waireqlst = << >> /\ e.opn[o].requestq = << >>
      /\ \A u \in Tasks : Pc(e, u) \in InDriver => Of(e, u) # o
  BY DEF Renewed, SameOpn, InsideOf, Pc, Of
<1>1. Places(f)
  BY <1>0, LabelFacts DEF DeviceInv, Places
<1>p. \A u \in Tasks : Pc(f, u) \in InDriver \cup Holding => Of(f, u) \in Opns
  BY <1>1 DEF Places
<1>2. Held(f)
  BY <1>0, <1>t, LabelFacts, HoldHeld DEF Renewed
<1>3. Queued(f)
  <2>1. \A p \in Opns : f.opn[p].requestq = e.opn[p].requestq
    BY <1>k
  <2>2. \A p \in Opns : f.opn[p].q # "open" => f.opn[p].requestq = << >>
    BY <1>k, <2>1 DEF DeviceInv, Queued
  <2>3. \A u \in Tasks :
       /\ Pc(f, u) \in Opening \cup {"close"} => f.opn[Of(f, u)].requestq = << >>
       /\ Pc(f, u) = "drain" /\ Rq(f, u) # NULL => Rq(f, u) \in Reqs /\ f.req[Rq(f, u)].opncb = Of(f, u)
    BY <1>0, <1>k, <1>p, <1>t, <2>1, LabelFacts DEF DeviceInv, Queued
  <2> QED BY <1>t, <2>1, <2>2, <2>3 DEF DeviceInv, Queued
<1>l. \A u \in Tasks : Pc(e, u) \in InDriver =>
        /\ u # t /\ Pc(f, u) = Pc(e, u) /\ Of(f, u) = Of(e, u) /\ Rq(f, u) = Rq(e, u)
        /\ f.opn[Of(e, u)] = e.opn[Of(e, u)]
  BY <1>0, <1>k DEF DeviceInv, Places
<1>m. \A u \in Tasks : Pc(f, u) \in InDriver => Pc(e, u) \in InDriver
  BY <1>0
<1>4. Marked(f)
  <2>1. \A u \in Tasks :
         /\ Pc(f, u) \in Driver => f.req[Rq(f, u)].opncb = Of(f, u) /\ f.req[Rq(f, u)].tskid = u
         /\ Pc(f, u) = "waitany" =>
              /\ f.opn[Of(f, u)].waireqlst # << >>
              /\ \A r \in Elems(f.opn[Of(f, u)].waireqlst) : f.req[r].opncb = Of(f, u) /\ f.req[r].tskid = u
    BY <1>l, <1>m, <1>t, LabelFacts DEF DeviceInv, Marked
  <2>2. ASSUME NEW x \in Reqs, f.req[x].tskid # NULL, NEW u, u = f.req[x].tskid
        PROVE  /\ Of(f, u) = f.req[x].opncb
               /\ \/ Pc(f, u) \in Driver /\ Rq(f, u) = x
                  \/ Pc(f, u) = "waitany" /\ x \in Elems(f.opn[Of(f, u)].waireqlst)
    <3>1. u \in Tasks
      BY <1>t, <2>2 DEF DeviceState, ReqCB
    <3>2. /\ Of(e, u) = e.req[x].opncb
          /\ \/ Pc(e, u) \in Driver /\ Rq(e, u) = x
             \/ Pc(e, u) = "waitany" /\ x \in Elems(e.opn[Of(e, u)].waireqlst)
      BY <1>t, <2>2 DEF DeviceInv, Marked
    <3> QED BY <1>l, <1>t, <3>1, <3>2, LabelFacts
  <2> QED BY <2>1, <2>2 DEF Marked
<1>5. Within(f)
  <2>1. \A u, v \in Tasks : Pc(f, u) = "waitany" /\ Pc(f, v) \in InDriver /\ Of(f, u) = Of(f, v) => u = v
    BY <1>l, <1>m, LabelFacts DEF DeviceInv, Within
  <2>2. ASSUME NEW p \in Opns, f.opn[p].waireqlst # << >>
        PROVE  \E u \in Tasks : Pc(f, u) = "waitany" /\ Of(f, u) = p
    <3>1. e.opn[p].waireqlst # << >>
      BY <1>k, <2>2
    <3>2. PICK u \in Tasks : Pc(e, u) = "waitany" /\ Of(e, u) = p
      BY <3>1 DEF DeviceInv, Within
    <3> QED BY <1>l, <3>2, LabelFacts
  <2>3. \A u \in Tasks : Pc(f, u) \in InDriver => f.opn[Of(f, u)].q = "open"
    BY <1>l, <1>m DEF DeviceInv, Within
  <2>4. ASSUME NEW u \in Tasks, NEW v \in Tasks, Pc(f, u) \in InDriver, Pc(f, v) \in Holding, Of(f, u) = Of(f, v)
        PROVE  Pc(f, v) \in {"abort"} \cup Aborting
    <3>1. Pc(e, u) \in InDriver /\ Of(f, u) = Of(e, u) /\ Of(e, u) # o
      BY <1>k, <1>l, <1>m, <2>4
    <3>2. v # t
      BY <1>0, <2>4, <3>1, LabelFacts
    <3> QED BY <1>0, <2>4, <3>1, <3>2 DEF DeviceInv, Within
  <2> QED BY <2>1, <2>2, <2>3, <2>4 DEF Within
<1>6. Counted(f)
  <2>1. Counts(f, o)
    BY DEF Counts, Renewed
  <2>2. \A u \in Tasks \ {t} : Pc(e, u) \in Aborting => Of(e, u) # o
    BY <1>t, LabelFacts DEF Only
  <2> QED BY <1>0, <1>t, <2>1, <2>2, LabelFacts, HoldCounts DEF Renewed, Setting
<1> QED BY <1>t, <1>1, <1>2, <1>3, <1>4, <1>5, <1>6 DEF DeviceInv

\* A new descriptor.
NewOpn(q, u, m) == [FreeOpn EXCEPT !.q = q, !.unitno = u, !.omode = m]

\* It has no requests, nobody waits and nobody aborts.
LEMMA NewOpnFacts ==
  ASSUME NEW q \in {"free", "open", "closing"}, NEW u \in Unitnos, NEW m \in {{}} \cup OpenModes, NEW c,
         c = NewOpn(q, u, m)
  PROVE  /\ c \in OpnCB /\ c.q = q /\ c.unitno = u /\ c.omode = m /\ c.resid = 0
         /\ c.requestq = << >> /\ c.waireqlst = << >> /\ c.abort_tskid = NULL /\ c.sem = 0
<1>1. c = [q |-> q, resid |-> 0, unitno |-> u, omode |-> m, requestq |-> << >>,
           waitone |-> 0, waireqlst |-> << >>, abort_tskid |-> NULL, abort_cnt |-> 0, sem |-> 0]
  BY DEF NewOpn, FreeOpn
<1>2. << >> \in Seq(Reqs) /\ 0 \in Int /\ 0 \in {0, 1} /\ NULL \in Tasks \cup {NULL}
  OBVIOUS
<1> QED BY <1>1, <1>2 DEF OpnCB

\* A descriptor that is not open.
ClosedOpn(q) == [FreeOpn EXCEPT !.q = q]

\* It is empty as well.
LEMMA ClosedOpnFacts ==
  ASSUME NEW q \in {"free", "open", "closing"}, NEW c, c = ClosedOpn(q)
  PROVE  /\ c \in OpnCB /\ c.q = q /\ c.resid = 0
         /\ c.requestq = << >> /\ c.waireqlst = << >> /\ c.abort_tskid = NULL /\ c.sem = 0
<1> DEFINE m == {}
<1>1. FreeOpn = [q |-> "free", resid |-> 0, unitno |-> 0, omode |-> m, requestq |-> << >>,
                 waitone |-> 0, waireqlst |-> << >>, abort_tskid |-> NULL, abort_cnt |-> 0, sem |-> 0]
  BY DEF FreeOpn
<1>2. m \in {{}} \cup OpenModes /\ 0 \in Unitnos
  BY DEF Unitnos
<1> HIDE DEF m
<1>3. c = [q |-> q, resid |-> 0, unitno |-> 0, omode |-> m, requestq |-> << >>,
           waitone |-> 0, waireqlst |-> << >>, abort_tskid |-> NULL, abort_cnt |-> 0, sem |-> 0]
  BY <1>1 DEF ClosedOpn
<1>4. << >> \in Seq(Reqs) /\ 0 \in Int /\ 0 \in {0, 1} /\ NULL \in Tasks \cup {NULL}
  OBVIOUS
<1> QED BY <1>2, <1>3, <1>4 DEF OpnCB

\* openfn fails, knl_close_device and Closed.
LEMMA RetireSteps ==
  ASSUME d \in DeviceState, DeviceInv(d), Setting, NEW t \in Tasks,
         \/ At(t, "openfn") /\ Return(t, knl_delOpnCB(d, d.task[t].o, TRUE))
         \/ knl_close_device(t) \/ Closed(t)
  PROVE  d' \in DeviceState /\ DeviceInv(d')
<1> DEFINE o == Of(d, t)
<1>0. \E l \in {"idle", "closefn", "closed"} :
        /\ d' = Move(WithOpn(d, o, ClosedOpn(IF l = "idle" THEN "free" ELSE "closing")), t,
                     IF l = "idle" THEN FreeTask ELSE [pc |-> l, o |-> o, r |-> NULL])
        /\ Pc(d, t) \in {"openfn", "close", "closed"}
  <2>1. \A b \in BOOLEAN : knl_delOpnCB(d, o, b) = WithOpn(d, o, ClosedOpn(IF b THEN "free" ELSE "closing"))
    BY DEF knl_delOpnCB, WithOpn, ClosedOpn
  <2>2. knl_delOpnCB(d, o, TRUE) = WithOpn(d, o, ClosedOpn("free")) /\ knl_delOpnCB(d, o, FALSE) = WithOpn(d, o, ClosedOpn("closing"))
    BY <2>1
  <2>3. CASE knl_close_device(t)
    BY <2>2, <2>3 DEF knl_close_device, At, Pc, Of, Goto, Move
  <2>4. CASE ~knl_close_device(t)
    BY <2>2, <2>4 DEF Closed, At, Pc, Of, Return, Move
  <2> QED BY <2>3, <2>4
<1>1. PICK l \in {"idle", "closefn", "closed"} :
        /\ d' = Move(WithOpn(d, o, ClosedOpn(IF l = "idle" THEN "free" ELSE "closing")), t,
                     IF l = "idle" THEN FreeTask ELSE [pc |-> l, o |-> o, r |-> NULL])
        /\ Pc(d, t) \in {"openfn", "close", "closed"}
  BY <1>0
<1> DEFINE q == IF l = "idle" THEN "free" ELSE "closing"
           c == ClosedOpn(q)
           w == IF l = "idle" THEN FreeTask ELSE [pc |-> l, o |-> o, r |-> NULL]
<1>2. o \in Opns /\ Pc(d, t) \in Holding /\ Of(d, t) = o
  BY <1>1, LabelFacts DEF DeviceInv, Places
<1>3. Only(d, t, o)
  BY <1>2, HolderAlone
<1>4. InsideOf(d, o) = {} /\ d.opn[o].requestq = << >>
  <2>1. Pc(d, t) = "closed" => d.opn[o].q = "closing"
    BY <1>2, LabelFacts DEF DeviceInv, Held
  <2> QED BY <1>1, <1>2, <2>1, LabelFacts DEF DeviceInv, Within, Queued, InsideOf, Pc, Of
<1>5. w \in TaskCB /\ w.pc = l /\ (l # "idle" => w.o = o)
  <2>1. CASE l = "idle"
    BY <2>1, LabelFacts, CBFacts DEF FreeTask
  <2>2. CASE l # "idle"
    BY <1>2, <2>2, LabelFacts, CBFacts
  <2> QED BY <2>1, <2>2
<1>6. q \in {"free", "open", "closing"} /\ q # "open"
  OBVIOUS
<1>7. d' = Move(WithOpn(d, o, c), t, w)
  BY <1>1
<1> HIDE DEF w, o, q
<1>8. /\ c \in OpnCB /\ c.q = q /\ c.resid = 0
      /\ c.requestq = << >> /\ c.waireqlst = << >> /\ c.abort_tskid = NULL /\ c.sem = 0
  BY <1>6, ClosedOpnFacts
<1> HIDE DEF c
<1>9. Goes(d, d', t, w) /\ d'.opn[o] = c /\ SameOpn(d, d', o) /\ d'.req = d.req /\ d'.registered = d.registered
  BY <1>2, <1>5, <1>7, <1>8, BothFacts
<1>10. Renewed(d, d', t, w, o)
  BY <1>2, <1>3, <1>4, <1>5, <1>8, <1>9, LabelFacts DEF Renewed, q
<1>11. Modes(d')
  <2>1. SameModes(d, d')
    BY <1>6, <1>8, <1>9 DEF SameModes, SameOpn, DeviceInv, Modes
  <2> QED BY <2>1, ModesKept DEF DeviceInv
<1> QED BY <1>2, <1>10, <1>11, RenewKeeps

\* chkopenmode lets in only who excludes nobody and is excluded by nobody.
LEMMA OpenModesKept ==
  ASSUME d \in DeviceState, DeviceInv(d), NEW o \in Opns, NEW u \in Unitnos, NEW m, NEW f,
         d.registered, u <= nsub, chkopenmode(u, m), d.opn[o].q # "open",
         SameOpn(d, f, o), f.registered = d.registered,
         f.opn[o].unitno = u, f.opn[o].omode = m
  PROVE  Modes(f)
<1> DEFINE Others == {p \in openq : u = 0 \/ d.opn[p].unitno \in {0, u}}
           Excl(a, b) == /\ a \cap {"EXCL", "REXCL"} # {} => "READ" \notin b
                         /\ a \cap {"EXCL", "WEXCL"} # {} => "WRITE" \notin b
<1>1. \A p \in OpenOf(f) : p \in Opns /\ (p # o => p \in openq /\ p \in OpenOf(d) /\ f.opn[p] = d.opn[p])
  BY DEF OpenOf, SameOpn, openq
<1>2. ASSUME NEW p \in Others
      PROVE  Excl(m, d.opn[p].omode) /\ Excl(d.opn[p].omode, m)
  <2> DEFINE mp == d.opn[p].omode
  <2>1. mp \in {d.opn[a].omode : a \in Others}
    BY <1>2
  <2> DEFINE S == {d.opn[a].omode : a \in Others}
  <2>2. /\ m \cap {"EXCL", "REXCL"} # {} => ~\E a \in S : a \cap {"READ"} # {}
        /\ m \cap {"EXCL", "WEXCL"} # {} => ~\E a \in S : a \cap {"WRITE"} # {}
        /\ "READ" \in m => ~\E a \in S : a \cap {"EXCL", "REXCL"} # {}
        /\ "WRITE" \in m => ~\E a \in S : a \cap {"EXCL", "WEXCL"} # {}
    BY Zenon DEF chkopenmode
  <2> HIDE DEF S, mp
  <2>3. mp \in S
    BY <2>1 DEF S
  <2>4. Excl(m, mp) /\ Excl(mp, m)
    BY <2>2, <2>3
  <2> QED BY <2>4 DEF mp
<1> HIDE DEF Excl
<1>3. ASSUME NEW a \in OpenOf(f), NEW b \in OpenOf(f), a # b,
             f.opn[a].unitno = f.opn[b].unitno \/ f.opn[a].unitno = 0
      PROVE  Excl(f.opn[a].omode, f.opn[b].omode)
  <2>1. CASE a = o
    BY <1>1, <1>2, <1>3, <2>1
  <2>2. CASE b = o
    BY <1>1, <1>2, <1>3, <2>2
  <2>3. CASE a # o /\ b # o
    <3>1. a \in OpenOf(d) /\ b \in OpenOf(d) /\ f.opn[a] = d.opn[a] /\ f.opn[b] = d.opn[b]
      BY <1>1, <2>3
    <3> QED BY <1>3, <3>1 DEF DeviceInv, Modes, Excl
  <2> QED BY <2>1, <2>2, <2>3
<1>4. \A p \in OpenOf(f) : f.opn[p].unitno \in Unitnos /\ f.opn[p].unitno <= nsub
  BY <1>1 DEF DeviceInv, Modes
<1> QED BY <1>3, <1>4 DEF Modes, Excl

\* tk_opn_dev.
LEMMA OpenStep ==
  ASSUME d \in DeviceState, DeviceInv(d), Setting, NEW t \in Tasks, NEW i \in Units, NEW m \in OpenModes,
         tk_opn_dev(t, logdevnm(i), m)
  PROVE  d' \in DeviceState /\ DeviceInv(d')
<1> DEFINE u == knl_phydevnm(logdevnm(i))
           l == IF knl_chkopen(u) /\ ~d.openreq THEN "opened" ELSE "openfn"
<1>1. u \in Unitnos
  BY DEF Unitnos
<1>2. /\ Pc(d, t) = "idle" /\ d.registered /\ u <= nsub /\ chkopenmode(u, m)
      /\ \E o \in Opns : d.opn[o].q = "free" /\ Goto(t, l, o, NULL, newOpnCB(d, o, u, m))
  BY DEF tk_opn_dev, At, Pc
<1> HIDE DEF u
<1>3. PICK o \in Opns : d.opn[o].q = "free" /\ Goto(t, l, o, NULL, newOpnCB(d, o, u, m))
  BY <1>2
<1> DEFINE c == NewOpn("open", u, m)
           w == [pc |-> l, o |-> o, r |-> NULL]
<1>4. d' = Move(WithOpn(d, o, c), t, w)
  BY <1>3 DEF Goto, newOpnCB, Move, WithOpn, NewOpn
<1>5. l \in {"opened", "openfn"}
  OBVIOUS
<1> HIDE DEF l
<1>6. w \in TaskCB /\ w.pc = l /\ w.o = o
  BY <1>5, LabelFacts, CBFacts
<1>7. /\ c \in OpnCB /\ c.q = "open" /\ c.unitno = u /\ c.omode = m /\ c.resid = 0
      /\ c.requestq = << >> /\ c.waireqlst = << >> /\ c.abort_tskid = NULL /\ c.sem = 0
  BY <1>1, NewOpnFacts
<1> HIDE DEF c, w
<1>8. Goes(d, d', t, w) /\ d'.opn[o] = c /\ SameOpn(d, d', o) /\ d'.req = d.req /\ d'.registered = d.registered
  BY <1>4, <1>6, <1>7, BothFacts
<1>9. Only(d, t, o) /\ d.opn[o].requestq = << >> /\ InsideOf(d, o) = {}
  <2>1. Only(d, t, o)
    BY <1>3, HolderAlone
  <2> QED BY <1>3, <2>1 DEF DeviceInv, Queued, Within, InsideOf, Pc, Of
<1>10. Renewed(d, d', t, w, o)
  BY <1>2, <1>5, <1>6, <1>7, <1>8, <1>9, LabelFacts DEF Renewed
<1>11. Modes(d')
  BY <1>1, <1>2, <1>3, <1>7, <1>8, OpenModesKept
<1> QED BY <1>10, <1>11, RenewKeeps

\* The last part of Drain: on to the next request, or to closing.
LEMMA DrainOn ==
  ASSUME NEW e \in DeviceState, DeviceInv(e), Setting, NEW t \in Tasks, Pc(e, t) = "drain", NEW o, Of(e, t) = o, NEW w,
         w = IF e.opn[o].requestq # << >> THEN [pc |-> "drain", o |-> o, r |-> Head(e.opn[o].requestq)]
             ELSE [pc |-> "close", o |-> o, r |-> NULL]
  PROVE  Move(e, t, w) \in DeviceState /\ DeviceInv(Move(e, t, w))
<1> DEFINE f == Move(e, t, w)
           q == e.opn[o].requestq
<1>1. /\ o \in Opns /\ Only(e, t, o) /\ e.opn[o] \in OpnCB /\ e.opn[o].resid = 0 /\ e.opn[o].q = "open"
      /\ e.opn[o].abort_tskid = NULL /\ InsideOf(e, o) = {}
  BY LabelFacts, ClosingFacts
<1>2. q \in Seq(Reqs) /\ Injective(q) /\ Elems(q) = {x \in Reqs : e.req[x].opncb = o}
  BY <1>1 DEF OpnCB, DeviceInv, Queued
<1>3. q # << >> => Head(q) \in Reqs /\ e.req[Head(q)].opncb = o
  <2> HIDE DEF q
  <2> QED BY <1>2, QueRemoveNextFacts
<1>4. /\ w \in TaskCB /\ w.o = o /\ w.pc \in {"drain", "close"}
      /\ w.pc = "drain" => w.r \in Reqs /\ e.req[w.r].opncb = o
      /\ w.pc = "close" => q = << >>
  <2>1. CASE q # << >>
    <3>1. w = [pc |-> "drain", o |-> o, r |-> Head(q)]
      BY <2>1
    <3> HIDE DEF q
    <3>2. w \in TaskCB /\ w.pc = "drain" /\ w.o = o /\ w.r = Head(q)
      BY <1>1, <1>3, <2>1, <3>1, LabelFacts, CBFacts
    <3> QED BY <1>3, <2>1, <3>2
  <2>2. CASE q = << >>
    <3>1. w = [pc |-> "close", o |-> o, r |-> NULL]
      BY <2>2
    <3> HIDE DEF q
    <3>2. "close" \in Labels /\ o \in Opns \cup {NULL} /\ NULL \in Reqs \cup {NULL}
      BY <1>1, LabelFacts
    <3>3. w \in TaskCB /\ w.pc = "close" /\ w.o = o
      BY <3>1, <3>2 DEF TaskCB
    <3> QED BY <2>2, <3>3
  <2> QED BY <2>1, <2>2
<1>5. Goes(e, f, t, w) /\ f.opn = e.opn /\ f.req = e.req /\ f.registered = e.registered
  BY <1>4, MoveFacts
<1> HIDE DEF f
<1>6. Holds(e, f, t, w, o)
  BY <1>1, <1>4, <1>5, LabelFacts DEF Holds, Kept, SameOpn
<1>7. f \in DeviceState /\ DeviceInv(f)
  BY <1>1, <1>6, HoldStep
<1> QED BY <1>7 DEF f

\* Drain.
LEMMA DrainStep ==
  ASSUME d \in DeviceState, DeviceInv(d), Setting, NEW t \in Tasks, Drain(t)
  PROVE  d' \in DeviceState /\ DeviceInv(d')
<1> DEFINE o == Of(d, t)
           r == Rq(d, t)
           e == IF r = NULL THEN d ELSE knl_delReqCB(d, r)
           w == IF e.opn[o].requestq # << >> THEN [pc |-> "drain", o |-> o, r |-> Head(e.opn[o].requestq)]
                ELSE [pc |-> "close", o |-> o, r |-> NULL]
<1>1. Pc(d, t) = "drain" /\ d' = Move(e, t, w)
  BY DEF Drain, At, Goto, Move, Pc, Of, Rq
<1>2. CASE r = NULL
  <2>1. e = d
    BY <1>2
  <2> QED BY <1>1, <2>1, DrainOn
<1>3. CASE r # NULL
  <2> DEFINE n == [pc |-> "drain", o |-> o, r |-> NULL]
             g == Move(d, t, n)
             h == knl_delReqCB(g, r)
  <2>1. /\ o \in Opns /\ Only(d, t, o) /\ d.opn[o] \in OpnCB /\ d.opn[o].resid = 0 /\ d.opn[o].q = "open"
        /\ d.opn[o].abort_tskid = NULL /\ InsideOf(d, o) = {}
    BY <1>1, LabelFacts, ClosingFacts
  <2>2. r \in Reqs /\ d.req[r].opncb = o
    BY <1>1, <1>3 DEF DeviceInv, Queued
  <2>3. d.req[r].tskid = NULL
    <3>1. d.req[r].tskid # NULL => d.req[r].tskid \in Tasks
      BY <2>2 DEF DeviceState, ReqCB
    <3>2. d.req[r].tskid # NULL => d.req[r].tskid \in InsideOf(d, o)
      BY <2>2, <3>1, LabelFacts DEF DeviceInv, Marked, InsideOf, Pc, Of
    <3> QED BY <2>1, <3>2
  <2>4. n \in TaskCB /\ n.pc = "drain" /\ n.o = o /\ n.r = NULL
    BY <2>1, LabelFacts, CBFacts
  <2>5. Of(d, t) = o
    OBVIOUS
  <2> HIDE DEF n, o, r
  <2>6. Goes(d, g, t, n) /\ g.opn = d.opn /\ g.req = d.req /\ g.registered = d.registered
    BY <2>4, MoveFacts
  <2>7. e = knl_delReqCB(d, r)
    BY <1>3
  <2>8. d \in DeviceState
    OBVIOUS
  <2> HIDE DEF e, g
  <2>9. Holds(d, g, t, n, o)
    BY <1>1, <2>1, <2>4, <2>5, <2>6, LabelFacts DEF Holds, Kept, SameOpn
  <2>10. g \in DeviceState /\ DeviceInv(g)
    BY <2>1, <2>9, HoldStep
  <2>11. ASSUME NEW u \in Tasks, Pc(g, u) = "drain" PROVE Rq(g, u) # r
    <3>1. CASE u = t
      BY <1>3, <2>4, <2>6, <3>1 DEF Goes, Rq
    <3>2. CASE u # t
      <4>1. Pc(d, u) = "drain" /\ Rq(g, u) = Rq(d, u)
        BY <2>6, <2>11, <3>2 DEF Goes, Pc, Rq
      <4>2. Of(d, u) # o
        BY <2>1, <3>2, <4>1, LabelFacts DEF Only
      <4> QED BY <1>3, <2>2, <4>1, <4>2 DEF DeviceInv, Queued
    <3> QED BY <3>1, <3>2
  <2>12. h \in DeviceState /\ DeviceInv(h) /\ h.task = g.task
    BY <2>1, <2>2, <2>3, <2>6, <2>10, <2>11, DropKeeps
  <2>13. h = Move(e, t, n)
    BY <2>2, <2>7, <2>8, DropThenMove DEF g
  <2>14. Pc(h, t) = "drain" /\ Of(h, t) = o
    BY <2>4, <2>6, <2>12 DEF Goes, Pc, Of
  <2>15. h.opn = e.opn /\ Move(h, t, w) = Move(e, t, w)
    <3>1. h.opn = e.opn
      BY <2>13 DEF Move
    <3>2. \A a, b : Move(Move(e, t, a), t, b) = Move(e, t, b)
      BY DEF Move
    <3> QED BY <2>13, <3>1, <3>2
  <2>16. Move(h, t, w) \in DeviceState /\ DeviceInv(Move(h, t, w))
    <3>1. w = IF h.opn[o].requestq # << >> THEN [pc |-> "drain", o |-> o, r |-> Head(h.opn[o].requestq)]
              ELSE [pc |-> "close", o |-> o, r |-> NULL]
      BY <2>15
    <3> HIDE DEF w, h
    <3> QED BY <2>12, <2>14, <3>1, DrainOn
  <2> QED BY <1>1, <2>15, <2>16
<1> QED BY <1>2, <1>3

-----------------------------------------------------------------------------
(* All steps                                                               *)

\* Registration, events and suspension do not touch descriptors or requests.
Quiet(t, x, l) ==
  /\ x \in DeviceState /\ x.opn = d.opn /\ x.req = d.req /\ x.task = d.task
  /\ OpenOf(d) # {} => x.registered
  /\ Pc(d, t) \in Elsewhere /\ l \in Elsewhere \ {"sync"}
  /\ d' = Move(x, t, [pc |-> l, o |-> NULL, r |-> NULL])

\* Such a step keeps the invariant.
LEMMA QuietKeeps ==
  ASSUME d \in DeviceState, DeviceInv(d), Setting, NEW t \in Tasks, NEW x, NEW l, Quiet(t, x, l)
  PROVE  d' \in DeviceState /\ DeviceInv(d')
<1> DEFINE w == [pc |-> l, o |-> NULL, r |-> NULL]
<1>1. w \in TaskCB /\ w.pc = l
  BY LabelFacts, CBFacts DEF Quiet, Elsewhere
<1>2. x \in DeviceState /\ x.opn = d.opn /\ x.req = d.req /\ x.task = d.task /\ d' = Move(x, t, w)
  BY DEF Quiet
<1> HIDE DEF w
<1>3. Goes(x, d', t, w) /\ d'.opn = x.opn /\ d'.req = x.req /\ d'.registered = x.registered
  BY <1>1, <1>2, MoveFacts
<1>4. Goes(d, d', t, w)
  BY <1>2, <1>3 DEF Goes
<1>5. DeviceInv(d')
  BY <1>1, <1>2, <1>3, <1>4, ElsewhereKeeps DEF Quiet, Setting
<1> QED BY <1>4, <1>5 DEF Goes

\* Registration, events, suspension and the wait that fails are such steps.
LEMMA QuietSteps ==
  ASSUME d \in DeviceState, DeviceInv(d), Setting, NEW t \in Tasks,
         \/ \E b \in BOOLEAN : msdi_def_dev(t, b) \/ TD_SUSPEND(t, b)
         \/ msdi_del_dev(t) \/ tk_evt_dev(t) \/ TD_DISSUS(t) \/ TD_ENASUS(t)
         \/ eventfn(t) \/ do_suspend(t) \/ SyncFails(t)
  PROVE  d' \in DeviceState /\ DeviceInv(d')
<1>0. /\ OpenOf(d) # {} => d.registered
      /\ openq = OpenOf(d)
      /\ FreeTask = [pc |-> "idle", o |-> NULL, r |-> NULL]
      /\ {"idle", "eventfn", "suspend", "sendevt"} \subseteq Elsewhere \ {"sync"}
      /\ Elsewhere = {"idle", "eventfn", "suspend", "sendevt", "sync"}
  BY DEF DeviceInv, Modes, openq, OpenOf, FreeTask, Elsewhere
<1>1. ASSUME NEW x \in DeviceState, x.opn = d.opn, x.req = d.req, x.task = d.task, OpenOf(d) # {} => x.registered,
             Pc(d, t) \in Elsewhere, NEW l \in {"idle", "eventfn", "suspend", "sendevt"},
             d' = Move(x, t, [pc |-> l, o |-> NULL, r |-> NULL])
      PROVE  d' \in DeviceState /\ DeviceInv(d')
  <2>1. Quiet(t, x, l)
    BY <1>0, <1>1 DEF Quiet
  <2> QED BY <2>1, QuietKeeps
<1>2. ASSUME NEW b \in BOOLEAN, msdi_def_dev(t, b) PROVE d' \in DeviceState /\ DeviceInv(d')
  <2> DEFINE x == [d EXCEPT !.registered = TRUE, !.openreq = b]
  <2>1. x \in DeviceState /\ x.opn = d.opn /\ x.req = d.req /\ x.task = d.task /\ x.registered = TRUE
    BY DEF DeviceState
  <2>2. Pc(d, t) = "idle" /\ d' = Move(x, t, FreeTask)
    BY <1>2 DEF msdi_def_dev, tk_def_dev, At, Return, Move, Pc
  <2> HIDE DEF x
  <2> QED BY <1>0, <1>1, <2>1, <2>2
<1>3. CASE msdi_del_dev(t)
  <2> DEFINE x == [d EXCEPT !.registered = FALSE]
  <2>1. x \in DeviceState /\ x.opn = d.opn /\ x.req = d.req /\ x.task = d.task
    BY DEF DeviceState
  <2>2. Pc(d, t) = "idle" /\ d' = Move(x, t, FreeTask) /\ openq = {}
    BY <1>3 DEF msdi_del_dev, At, Return, Move, Pc
  <2> HIDE DEF x
  <2> QED BY <1>0, <1>1, <2>1, <2>2
<1>4. ASSUME TD_DISSUS(t) \/ TD_ENASUS(t) PROVE d' \in DeviceState /\ DeviceInv(d')
  <2>1. PICK n \in Int : d' = Move([d EXCEPT !.dissus = n], t, FreeTask) /\ Pc(d, t) = "idle"
    <3>1. d.dissus + 1 \in Int /\ d.dissus - 1 \in Int
      BY DEF DeviceState
    <3>2. \/ d' = Move([d EXCEPT !.dissus = d.dissus + 1], t, FreeTask)
          \/ d' = Move([d EXCEPT !.dissus = d.dissus - 1], t, FreeTask)
      BY <1>4 DEF TD_DISSUS, TD_ENASUS, Return, Move
    <3> QED BY <1>4, <3>1, <3>2 DEF TD_DISSUS, TD_ENASUS, At, Pc
  <2> DEFINE x == [d EXCEPT !.dissus = n]
  <2>2. x \in DeviceState /\ x.opn = d.opn /\ x.req = d.req /\ x.task = d.task /\ x.registered = d.registered
    BY DEF DeviceState
  <2> HIDE DEF x
  <2> QED BY <1>0, <1>1, <2>1, <2>2 DEF x
<1>5. ASSUME tk_evt_dev(t) \/ eventfn(t) \/ SyncFails(t) \/ \E b \in BOOLEAN : TD_SUSPEND(t, b)
      PROVE  d' \in DeviceState /\ DeviceInv(d')
  <2>1. /\ Pc(d, t) \in Elsewhere
        /\ \E l \in {"idle", "eventfn", "suspend", "sendevt"} : d' = Move(d, t, [pc |-> l, o |-> NULL, r |-> NULL])
    BY <1>0, <1>5 DEF tk_evt_dev, eventfn, SyncFails, TD_SUSPEND, At, Pc, Goto, Return, Move
  <2> QED BY <1>0, <1>1, <2>1
<1>6. CASE do_suspend(t)
  <2>1. /\ Pc(d, t) \in Elsewhere
        /\ \E l \in {"idle", "eventfn", "suspend", "sendevt"}, u \in Tasks \cup {NULL} :
             d' = Move([d EXCEPT !.reg_lock = u], t, [pc |-> l, o |-> NULL, r |-> NULL])
    BY <1>0, <1>6 DEF do_suspend, At, Pc, Goto, Return, Move
  <2>2. PICK l \in {"idle", "eventfn", "suspend", "sendevt"}, u \in Tasks \cup {NULL} :
          d' = Move([d EXCEPT !.reg_lock = u], t, [pc |-> l, o |-> NULL, r |-> NULL])
    BY <2>1
  <2> DEFINE x == [d EXCEPT !.reg_lock = u]
  <2>3. x \in DeviceState /\ x.opn = d.opn /\ x.req = d.req /\ x.task = d.task /\ x.registered = d.registered
    BY DEF DeviceState
  <2> HIDE DEF x
  <2> QED BY <1>0, <1>1, <2>1, <2>2, <2>3 DEF x
<1> QED BY <1>2, <1>3, <1>4, <1>5, <1>6

\* It holds when device management starts.
LEMMA DeviceStarts ==
  ASSUME Setting, Init
  PROVE  d \in DeviceState /\ DeviceInv(d)
<1>1. FreeTask \in TaskCB /\ FreeTask.pc = "idle"
  BY LabelFacts, CBFacts DEF FreeTask
<1>2. FreeReq \in ReqCB /\ FreeReq.opncb = NULL /\ FreeReq.tskid = NULL
  BY DEF FreeReq, ReqCB
<1>3. /\ FreeOpn \in OpnCB /\ FreeOpn.q = "free" /\ FreeOpn.resid = 0
      /\ FreeOpn.requestq = << >> /\ FreeOpn.waireqlst = << >> /\ FreeOpn.abort_tskid = NULL /\ FreeOpn.sem = 0
  <2> DEFINE m == {}
  <2>1. FreeOpn = [q |-> "free", resid |-> 0, unitno |-> 0, omode |-> m, requestq |-> << >>,
                   waitone |-> 0, waireqlst |-> << >>, abort_tskid |-> NULL, abort_cnt |-> 0, sem |-> 0]
    BY DEF FreeOpn
  <2>2. m \in {{}} \cup OpenModes /\ 0 \in Unitnos
    BY DEF Unitnos
  <2> HIDE DEF m
  <2>3. << >> \in Seq(Reqs) /\ 0 \in Int /\ 0 \in {0, 1} /\ NULL \in Tasks \cup {NULL}
    OBVIOUS
  <2> QED BY <2>1, <2>2, <2>3 DEF OpnCB
<1>4. d \in DeviceState
  BY <1>1, <1>2, <1>3 DEF Init, DeviceState
<1>5. /\ \A t \in Tasks : Pc(d, t) = "idle"
      /\ \A r \in Reqs : d.req[r] = FreeReq
      /\ \A o \in Opns : d.opn[o] = FreeOpn
  BY <1>1 DEF Init, Pc
<1>6. \A o \in Opns : Injective(d.opn[o].requestq) /\ Elems(d.opn[o].requestq) = {}
  BY <1>3, <1>5 DEF Injective, Elems
<1>7. Places(d) /\ Held(d) /\ Marked(d) /\ Within(d) /\ Modes(d)
  BY <1>2, <1>3, <1>5, LabelFacts DEF Places, Held, Marked, Within, Modes, OpenOf
<1>8. Queued(d)
  BY <1>2, <1>3, <1>5, <1>6, LabelFacts DEF Queued, Setting
<1>9. Counted(d)
  BY <1>3, <1>5, LabelFacts DEF Counted, Counts
<1> QED BY <1>4, <1>7, <1>8, <1>9 DEF DeviceInv

\* Every step keeps it.
LEMMA DeviceKeeps ==
  ASSUME d \in DeviceState, DeviceInv(d), Setting, Next
  PROVE  d' \in DeviceState /\ DeviceInv(d')
<1>1. PICK t \in Tasks : Call(t) \/ Step(t)
  BY DEF Next
<1>2. CASE \/ \E b \in BOOLEAN : msdi_def_dev(t, b) \/ TD_SUSPEND(t, b)
           \/ msdi_del_dev(t) \/ tk_evt_dev(t) \/ TD_DISSUS(t) \/ TD_ENASUS(t)
           \/ eventfn(t) \/ do_suspend(t) \/ SyncFails(t)
  BY <1>2, QuietSteps
<1>3. CASE \E u \in Units, m \in OpenModes : tk_opn_dev(t, logdevnm(u), m)
  BY <1>3, OpenStep
<1>4. CASE \E o \in Opns, attr \in BOOLEAN : \/ tk_rea_dev(t, o, attr) \/ tk_srea_dev(t, o, attr)
                                             \/ tk_wri_dev(t, o, attr) \/ tk_swri_dev(t, o, attr)
  BY <1>4, RequestStep DEF tk_rea_dev, tk_srea_dev, tk_wri_dev, tk_swri_dev
<1>5. CASE \E o \in Opns, r \in Reqs : tk_wai_dev(t, o, r)
  BY <1>5, WaitStep
<1>6. CASE \E o \in Opns : tk_wai_dev_any(t, o)
  BY <1>6, WaitAnyStep
<1>7. CASE (\E o \in Opns : tk_cls_dev(t, o)) \/ Opened(t) \/ closefn(t)
  BY <1>7, OpenSteps
<1>8. CASE openfn(t)
  BY <1>8, OpenSteps, RetireSteps DEF openfn
<1>9. CASE knl_close_device(t) \/ Closed(t)
  BY <1>9, RetireSteps
<1>10. CASE execfn(t) \/ WaitDone(t) \/ WaitAnyDone(t)
  BY <1>10, LeaveSteps
<1>11. CASE abort_allrequest(t) \/ WaitAborted(t)
  BY <1>11, AbortSteps
<1>12. CASE Drain(t)
  BY <1>12, DrainStep
<1> QED BY <1>1, <1>2, <1>3, <1>4, <1>5, <1>6, <1>7, <1>8, <1>9, <1>10, <1>11, <1>12 DEF Call, Step

\* The count of an aborting task.
LEMMA DeviceCounts ==
  ASSUME d \in DeviceState, DeviceInv(d)
  PROVE  AbortAgrees
<1>1. \A o \in Opns : InsideOf(d, o) = Inside(o)
  BY LabelFacts DEF InsideOf, Inside
<1> QED BY <1>1 DEF DeviceInv, Counted, Counts, AbortAgrees, Pc

-----------------------------------------------------------------------------
(* Names: a unit number has at most three digits, and its name leads back  *)
(* to it.  Digits and FoldLeft are choices of a function that satisfies a  *)
(* recursive equation; for three digits a solution can be written down.    *)

\* A name of one digit, and a name with a digit more.
One(a) == <<a>>
App(s, c) == Append(s, c)

\* Digits, spelled out for the three lengths there are.
Spelled ==
  [n \in 0 .. 255 |-> IF n < 10 THEN One(n)
                      ELSE IF n < 100 THEN App(One(n \div 10), n % 10)
                      ELSE App(App(One(n \div 100), (n \div 10) % 10), n % 10)]

\* It satisfies the equation of Digits.
LEMMA SpelledRec ==
  ASSUME NEW n \in 0 .. 255
  PROVE  Spelled[n] = IF n < 10 THEN One(n) ELSE App(Spelled[n \div 10], n % 10)
<1> DEFINE q == n \div 10
<1>1. /\ n < 10 => Spelled[n] = One(n)
      /\ 10 <= n /\ n < 100 => Spelled[n] = App(One(q), n % 10)
      /\ 100 <= n => Spelled[n] = App(App(One(n \div 100), q % 10), n % 10)
  BY DEF Spelled
<1>2. CASE 10 <= n /\ n < 100
  <2>1. q \in 0 .. 255 /\ q < 10
    BY <1>2
  <2>2. Spelled[q] = One(q)
    BY <2>1 DEF Spelled
  <2> QED BY <1>1, <1>2, <2>2
<1>3. CASE 100 <= n
  <2>1. q \in 0 .. 255 /\ 10 <= q /\ q < 100 /\ q \div 10 = n \div 100
    BY <1>3
  <2> HIDE DEF q
  <2>2. Spelled[q] = App(One(q \div 10), q % 10)
    BY <2>1 DEF Spelled
  <2>3. Spelled[n] = App(Spelled[q], n % 10)
    BY <1>1, <1>3, <2>1, <2>2
  <2> QED BY <1>3, <2>3 DEF q
<1> QED BY <1>1, <1>2, <1>3

\* So Digits is a function that satisfies its equation.
LEMMA DigitsRec ==
  \A n \in 0 .. 255 : Digits[n] = IF n < 10 THEN One(n) ELSE App(Digits[n \div 10], n % 10)
<1>1. Spelled = [n \in 0 .. 255 |-> IF n < 10 THEN <<n>> ELSE Append(Spelled[n \div 10], n % 10)]
  <2>1. \A n \in 0 .. 255 : Spelled[n] = IF n < 10 THEN <<n>> ELSE Append(Spelled[n \div 10], n % 10)
    BY SpelledRec, Zenon DEF One, App
  <2>2. Spelled = [n \in 0 .. 255 |-> Spelled[n]]
    BY DEF Spelled
  <2> QED BY <2>1, <2>2, Zenon
<1>2. Digits = [n \in 0 .. 255 |-> IF n < 10 THEN <<n>> ELSE Append(Digits[n \div 10], n % 10)]
  BY <1>1, Zenon DEF Digits
<1> QED BY <1>2, Zenon DEF One, App

\* What the equation says of the three lengths.
LEMMA DigitsUnfold ==
  ASSUME NEW F,
         \A m \in 0 .. 255 : F[m] = IF m < 10 THEN One(m) ELSE App(F[m \div 10], m % 10)
  PROVE  /\ \A n \in 0 .. 9 : F[n] = One(n)
         /\ \A n \in 10 .. 99 : F[n] = App(One(n \div 10), n % 10)
         /\ \A n \in 100 .. 255 : F[n] = App(App(One(n \div 100), (n \div 10) % 10), n % 10)
<1>2. ASSUME NEW n \in 0 .. 9 PROVE F[n] = One(n)
  OBVIOUS
<1>3. ASSUME NEW n \in 10 .. 99 PROVE F[n] = App(One(n \div 10), n % 10)
  <2>1. n \div 10 \in 0 .. 9
    OBVIOUS
  <2> QED BY <1>2, <2>1
<1>4. ASSUME NEW n \in 100 .. 255 PROVE F[n] = App(App(One(n \div 100), (n \div 10) % 10), n % 10)
  <2> DEFINE q == n \div 10
  <2>1. q \in 10 .. 99 /\ q \div 10 = n \div 100
    OBVIOUS
  <2>2. F[n] = App(F[q], n % 10)
    OBVIOUS
  <2>3. F[q] = App(One(q \div 10), q % 10)
    BY <1>3, <2>1
  <2> QED BY <2>1, <2>2, <2>3
<1> QED BY <1>2, <1>3, <1>4

\* The iteration that FoldLeft stands for, over the sets of indices.
HornerStep(F, s, S) == IF S = {} THEN 0 ELSE 10 * F[S \ {Max(S)}] + s[Max(S)]
Iterated(s) == CHOOSE F : F = [S \in SUBSET DOMAIN s |-> HornerStep(F, s, S)]

\* knl_phydevnm in terms of that iteration.
LEMMA FoldIsIterated ==
  ASSUME NEW s, s # << >>
  PROVE  knl_phydevnm(s) = Iterated(s)[DOMAIN s] + 1
BY Zenon DEF knl_phydevnm, FoldLeft, MapThenFoldSet, Iterated, HornerStep

\* What the digits of S are worth, from the first to the last.
WithDigit(s, i, S, n) == IF i \in S THEN 10 * n + s[i] ELSE n
HornerFcn(s) == [S \in SUBSET DOMAIN s |-> WithDigit(s, 3, S, WithDigit(s, 2, S, WithDigit(s, 1, S, 0)))]

\* The index that is taken first is the largest.
LEMMA LargestIs ==
  ASSUME NEW S \in SUBSET (1 .. 3), NEW i \in S, \A j \in S : j <= i
  PROVE  Max(S) = i
<1>1. \A y \in S : i >= y
  OBVIOUS
<1>2. Max(S) \in S /\ \A y \in S : Max(S) >= y
  BY <1>1, Zenon DEF Max
<1> DEFINE m == Max(S)
<1>3. m \in S /\ m >= i
  BY <1>2
<1> HIDE DEF m
<1>4. m \in 1 .. 3 /\ i \in 1 .. 3 /\ m <= i
  BY <1>3
<1>5. m = i
  BY <1>3, <1>4
<1> QED BY <1>5 DEF m

\* The sum solves the equation of the iteration.
LEMMA HornerRec ==
  ASSUME NEW s \in Seq(Int), Len(s) <= 3, NEW S \in SUBSET DOMAIN s
  PROVE  HornerFcn(s)[S] = HornerStep(HornerFcn(s), s, S)
<1>0. DOMAIN s = 1 .. Len(s) /\ Len(s) \in Nat /\ S \in SUBSET (1 .. 3)
  OBVIOUS
<1> DEFINE V == HornerFcn(s)
<1>1. \A R \in SUBSET DOMAIN s : V[R] = WithDigit(s, 3, R, WithDigit(s, 2, R, WithDigit(s, 1, R, 0)))
  BY DEF HornerFcn
<1> HIDE DEF V
<1>2. CASE S = {}
  BY <1>1, <1>2 DEF WithDigit, HornerStep, V
<1>3. CASE 3 \in S
  <2>1. Max(S) = 3
    BY <1>0, <1>3, LargestIs
  <2>2. V[S \ {3}] = WithDigit(s, 2, S, WithDigit(s, 1, S, 0))
    <3>1. S \ {3} \in SUBSET DOMAIN s /\ 3 \notin S \ {3} /\ (2 \in S \ {3} <=> 2 \in S) /\ (1 \in S \ {3} <=> 1 \in S)
      OBVIOUS
    <3> QED BY <1>1, <3>1 DEF WithDigit
  <2>3. V[S] = 10 * V[S \ {3}] + s[3]
    BY <1>1, <1>3, <2>2 DEF WithDigit
  <2> QED BY <1>3, <2>1, <2>3 DEF HornerStep, V
<1>4. CASE 3 \notin S /\ 2 \in S
  <2>1. Max(S) = 2
    BY <1>0, <1>4, LargestIs
  <2>2. V[S \ {2}] = WithDigit(s, 1, S, 0)
    <3>1. S \ {2} \in SUBSET DOMAIN s /\ 3 \notin S \ {2} /\ 2 \notin S \ {2} /\ (1 \in S \ {2} <=> 1 \in S)
      BY <1>4
    <3> QED BY <1>1, <3>1 DEF WithDigit
  <2>3. V[S] = 10 * V[S \ {2}] + s[2]
    BY <1>1, <1>4, <2>2 DEF WithDigit
  <2> QED BY <1>4, <2>1, <2>3 DEF HornerStep, V
<1>5. CASE 3 \notin S /\ 2 \notin S /\ 1 \in S
  <2>1. Max(S) = 1
    BY <1>0, <1>5, LargestIs
  <2>2. V[S \ {1}] = 0
    <3>1. S \ {1} \in SUBSET DOMAIN s /\ 3 \notin S \ {1} /\ 2 \notin S \ {1} /\ 1 \notin S \ {1}
      BY <1>5
    <3> QED BY <1>1, <3>1 DEF WithDigit
  <2>3. V[S] = 10 * V[S \ {1}] + s[1]
    BY <1>1, <1>5, <2>2 DEF WithDigit
  <2> QED BY <1>5, <2>1, <2>3 DEF HornerStep, V
<1> QED BY <1>0, <1>2, <1>3, <1>4, <1>5

\* The equation has a solution, so the iteration satisfies it.
LEMMA IteratedRec ==
  ASSUME NEW s \in Seq(Int), Len(s) <= 3, NEW S \in SUBSET DOMAIN s
  PROVE  Iterated(s)[S] = HornerStep(Iterated(s), s, S)
<1>1. HornerFcn(s) = [R \in SUBSET DOMAIN s |-> HornerStep(HornerFcn(s), s, R)]
  <2>1. \A R \in SUBSET DOMAIN s : HornerFcn(s)[R] = HornerStep(HornerFcn(s), s, R)
    BY HornerRec
  <2>2. HornerFcn(s) = [R \in SUBSET DOMAIN s |-> HornerFcn(s)[R]]
    BY DEF HornerFcn
  <2> QED BY <2>1, <2>2, Zenon
<1>2. Iterated(s) = [R \in SUBSET DOMAIN s |-> HornerStep(Iterated(s), s, R)]
  BY <1>1, Zenon DEF Iterated
<1> QED BY <1>2, Zenon

\* What it computes from a sequence and one more digit.
LEMMA HornerDigits ==
  ASSUME NEW s \in Seq(Int), NEW F,
         \A S \in SUBSET DOMAIN s : F[S] = HornerStep(F, s, S)
  PROVE  /\ Len(s) = 1 => F[DOMAIN s] = s[1]
         /\ Len(s) = 2 => F[DOMAIN s] = 10 * s[1] + s[2]
         /\ Len(s) = 3 => F[DOMAIN s] = 100 * s[1] + 10 * s[2] + s[3]
<1>0. DOMAIN s = 1 .. Len(s) /\ Len(s) \in Nat
  OBVIOUS
<1>1. F[{}] = 0
  BY DEF HornerStep
<1>2. ASSUME Len(s) >= 1 PROVE F[{1}] = s[1] /\ s[1] \in Int
  <2>1. {1} \in SUBSET DOMAIN s /\ {1} # {} /\ {1} \ {1} = {} /\ s[1] \in Int
    BY <1>0, <1>2
  <2>2. Max({1}) = 1
    BY LargestIs
  <2>3. F[{1}] = 10 * F[{}] + s[1]
    BY <2>1, <2>2 DEF HornerStep
  <2> QED BY <1>1, <2>1, <2>3
<1>3. ASSUME Len(s) >= 2 PROVE F[{1, 2}] = 10 * s[1] + s[2] /\ s[2] \in Int
  <2>1. {1, 2} \in SUBSET DOMAIN s /\ {1, 2} # {} /\ {1, 2} \ {2} = {1} /\ s[2] \in Int
    BY <1>0, <1>3
  <2>2. Max({1, 2}) = 2
    BY LargestIs
  <2>3. F[{1, 2}] = 10 * F[{1}] + s[2]
    BY <2>1, <2>2 DEF HornerStep
  <2> QED BY <1>0, <1>2, <1>3, <2>1, <2>3
<1>4. ASSUME Len(s) >= 3 PROVE F[{1, 2, 3}] = 100 * s[1] + 10 * s[2] + s[3]
  <2>1. {1, 2, 3} \in SUBSET DOMAIN s /\ {1, 2, 3} # {} /\ {1, 2, 3} \ {3} = {1, 2} /\ s[3] \in Int
    BY <1>0, <1>4
  <2>2. Max({1, 2, 3}) = 3
    BY LargestIs
  <2>3. F[{1, 2, 3}] = 10 * F[{1, 2}] + s[3]
    BY <2>1, <2>2 DEF HornerStep
  <2> QED BY <1>0, <1>2, <1>3, <1>4, <2>1, <2>3
<1>5. /\ Len(s) = 1 => DOMAIN s = {1}
      /\ Len(s) = 2 => DOMAIN s = {1, 2}
      /\ Len(s) = 3 => DOMAIN s = {1, 2, 3}
  BY <1>0
<1>6. CASE Len(s) = 1
  BY <1>2, <1>5, <1>6
<1>7. CASE Len(s) = 2
  BY <1>3, <1>5, <1>7
<1>8. CASE Len(s) = 3
  BY <1>4, <1>5, <1>8
<1> QED BY <1>6, <1>7, <1>8, Zenon

\* A name of one digit.
LEMMA OneFacts ==
  ASSUME NEW a \in Int
  PROVE  One(a) \in Seq(Int) /\ Len(One(a)) = 1 /\ One(a)[1] = a
BY DEF One

\* s is r and one more digit.
Grown(s, r, c) ==
  /\ s \in Seq(Int) /\ Len(s) = Len(r) + 1
  /\ \A i \in 1 .. Len(r) : s[i] = r[i]
  /\ s[Len(r) + 1] = c

\* One more digit.
LEMMA AppFacts ==
  ASSUME NEW r \in Seq(Int), NEW c \in Int
  PROVE  Grown(App(r, c), r, c)
BY AppendProperties DEF App, Grown

\* A name of two digits.
LEMMA TwoFacts ==
  ASSUME NEW a \in Int, NEW b \in Int
  PROVE  LET s == App(One(a), b)
         IN  s \in Seq(Int) /\ Len(s) = 2 /\ s[1] = a /\ s[2] = b
<1> DEFINE r == One(a)
           s == App(r, b)
<1>1. r \in Seq(Int) /\ Len(r) = 1 /\ r[1] = a
  BY OneFacts
<1>2. Grown(s, r, b)
  BY <1>1, AppFacts, Zenon
<1> HIDE DEF r, s
<1>3. s \in Seq(Int) /\ Len(s) = 2 /\ s[1] = a /\ s[2] = b
  BY <1>1, <1>2 DEF Grown
<1> QED BY <1>3 DEF r, s

\* What knl_phydevnm makes of one, two and three digits.
LEMMA NameOf ==
  ASSUME NEW s \in Seq(Int), Len(s) >= 1, Len(s) <= 3
  PROVE  /\ Len(s) = 1 => knl_phydevnm(s) = s[1] + 1
         /\ Len(s) = 2 => knl_phydevnm(s) = 10 * s[1] + s[2] + 1
         /\ Len(s) = 3 => knl_phydevnm(s) = 100 * s[1] + 10 * s[2] + s[3] + 1
<1> DEFINE F == Iterated(s)
<1>1. \A S \in SUBSET DOMAIN s : F[S] = HornerStep(F, s, S)
  BY IteratedRec, Zenon
<1>2. s # << >>
  OBVIOUS
<1>3. knl_phydevnm(s) = F[DOMAIN s] + 1
  BY <1>2, FoldIsIterated
<1> HIDE DEF F
<1> QED BY <1>1, <1>3, HornerDigits

\* The unit of a name of one digit.
LEMMA Name1 ==
  ASSUME NEW a \in Int PROVE knl_phydevnm(One(a)) = a + 1
<1> DEFINE s == One(a)
<1>1. s \in Seq(Int) /\ Len(s) = 1 /\ s[1] = a
  BY OneFacts
<1> HIDE DEF s
<1>2. Len(s) >= 1 /\ Len(s) <= 3
  BY <1>1
<1>3. knl_phydevnm(s) = s[1] + 1
  BY <1>1, <1>2, NameOf, Zenon
<1> QED BY <1>1, <1>3, Zenon DEF s

\* The unit of a name of two digits.
LEMMA Name2 ==
  ASSUME NEW a \in Int, NEW b \in Int PROVE knl_phydevnm(App(One(a), b)) = 10 * a + b + 1
<1> DEFINE s == App(One(a), b)
<1>1. s \in Seq(Int) /\ Len(s) = 2 /\ s[1] = a /\ s[2] = b
  BY TwoFacts, Zenon
<1> HIDE DEF s
<1>2. Len(s) >= 1 /\ Len(s) <= 3
  BY <1>1
<1>3. knl_phydevnm(s) = 10 * s[1] + s[2] + 1
  BY <1>1, <1>2, NameOf, Zenon
<1> QED BY <1>1, <1>3, Zenon DEF s

\* The unit of a name of three digits.
LEMMA Name3 ==
  ASSUME NEW a \in Int, NEW b \in Int, NEW c \in Int
  PROVE  knl_phydevnm(App(App(One(a), b), c)) = 100 * a + 10 * b + c + 1
<1> DEFINE r == App(One(a), b)
           s == App(r, c)
<1>1. r \in Seq(Int) /\ Len(r) = 2 /\ r[1] = a /\ r[2] = b
  BY TwoFacts, Zenon
<1>2. Grown(s, r, c)
  BY <1>1, AppFacts, Zenon
<1> HIDE DEF r, s
<1>3. s \in Seq(Int) /\ Len(s) = 3 /\ s[1] = a /\ s[2] = b /\ s[3] = c
  BY <1>1, <1>2 DEF Grown
<1>4. Len(s) >= 1 /\ Len(s) <= 3
  BY <1>3
<1>5. knl_phydevnm(s) = 100 * s[1] + 10 * s[2] + s[3] + 1
  BY <1>3, <1>4, NameOf, Zenon
<1>6. knl_phydevnm(s) = 100 * a + 10 * b + c + 1
  BY <1>3, <1>5, Zenon
<1> QED BY <1>6, Zenon DEF r, s

\* The name of a unit leads back to it.
LEMMA NameLeadsBack ==
  ASSUME NEW u \in 0 .. 255
  PROVE  knl_phydevnm(logdevnm(u)) = u
<1>1. CASE u = 0
  BY <1>1 DEF knl_phydevnm, logdevnm
<1>2. CASE u # 0
  <2> DEFINE n == u - 1
  <2>1. n \in 0 .. 254 /\ logdevnm(u) = Digits[n] /\ u = n + 1
    BY <1>2 DEF logdevnm
  <2>2. /\ \A m \in 0 .. 9 : Digits[m] = One(m)
        /\ \A m \in 10 .. 99 : Digits[m] = App(One(m \div 10), m % 10)
        /\ \A m \in 100 .. 255 : Digits[m] = App(App(One(m \div 100), (m \div 10) % 10), m % 10)
    BY DigitsRec, DigitsUnfold
  <2> HIDE DEF n
  <2>3. CASE n < 10
    <3>1. n \in 0 .. 9 /\ n \in Int
      BY <2>1, <2>3
    <3>2. knl_phydevnm(Digits[n]) = n + 1
      BY <2>2, <3>1, Name1, Zenon
    <3> QED BY <2>1, <3>2, Zenon
  <2>4. CASE 10 <= n /\ n < 100
    <3> DEFINE a == n \div 10
               b == n % 10
    <3>1. n \in 10 .. 99 /\ a \in Int /\ b \in Int /\ 10 * a + b + 1 = n + 1
      BY <2>1, <2>4
    <3>2. knl_phydevnm(Digits[n]) = 10 * a + b + 1
      BY <2>2, <3>1, Name2, Zenon
    <3> QED BY <2>1, <3>1, <3>2, Zenon
  <2>5. CASE 100 <= n
    <3> DEFINE a == n \div 100
               b == (n \div 10) % 10
               c == n % 10
    <3>1. n \in 100 .. 255 /\ a \in Int /\ b \in Int /\ c \in Int /\ 100 * a + 10 * b + c + 1 = n + 1
      BY <2>1, <2>5
    <3>3. Digits[n] = App(App(One(a), b), c)
      BY <2>2, <3>1, Zenon
    <3> HIDE DEF a, b, c
    <3>4. knl_phydevnm(App(App(One(a), b), c)) = 100 * a + 10 * b + c + 1
      BY <3>1, Name3
    <3>2. knl_phydevnm(Digits[n]) = 100 * a + 10 * b + c + 1
      BY <3>3, <3>4, Zenon
    <3> QED BY <2>1, <3>1, <3>2, Zenon
  <2> QED BY <2>1, <2>3, <2>4, <2>5
<1> QED BY <1>1, <1>2

-----------------------------------------------------------------------------

\* What a task uses is its own.
LEMMA DeviceUses ==
  ASSUME d \in DeviceState, DeviceInv(d), Setting, Units \subseteq 0 .. 255
  PROVE  InUse
<1>1. ASSUME NEW o \in Opns, NEW t \in Inside(o)
      PROVE  /\ d.opn[o].q = "open"
             /\ \A r \in Working(t) : d.req[r].opncb = o /\ d.req[r].tskid = t
  <2>1. t \in Tasks /\ Of(d, t) = o /\ Pc(d, t) \in InDriver
    BY LabelFacts DEF Inside, Pc, Of
  <2>2. d.opn[o].q = "open"
    BY <2>1 DEF DeviceInv, Within
  <2>3. Working(t) = IF Pc(d, t) = "waitany" THEN Elems(d.opn[o].waireqlst) ELSE {Rq(d, t)}
    BY <2>1 DEF Working, Pc, Of, Rq
  <2> QED BY <2>1, <2>2, <2>3, LabelFacts DEF DeviceInv, Marked
<1>2. openq = OpenOf(d)
  BY DEF openq, OpenOf
<1>3. openq # {} => tk_lst_dev # {}
  BY <1>2 DEF DeviceInv, Modes, tk_lst_dev
<1>4. ASSUME NEW o \in openq
      PROVE  tk_oref_dev(o) <= nsub /\ tk_ref_dev(tk_get_dev(tk_oref_dev(o))) = tk_oref_dev(o)
  <2>1. d.opn[o].unitno \in Unitnos /\ d.opn[o].unitno <= nsub
    BY <1>2 DEF DeviceInv, Modes
  <2>2. knl_phydevnm(logdevnm(0)) = 0
    BY DEF knl_phydevnm, logdevnm
  <2>3. knl_phydevnm(logdevnm(d.opn[o].unitno)) = d.opn[o].unitno
    BY <2>1, <2>2, NameLeadsBack DEF Unitnos
  <2> QED BY <2>1, <2>3 DEF tk_oref_dev, tk_ref_dev, tk_get_dev
<1>5. \A o \in Opns : /\ Injective(d.opn[o].requestq)
                      /\ Elems(d.opn[o].requestq) = {r \in Reqs : d.req[r].opncb = o}
  BY DEF DeviceInv, Queued
<1>6. \A o, p \in openq :
       o # p /\ (d.opn[o].unitno = d.opn[p].unitno \/ d.opn[o].unitno = 0) =>
         /\ d.opn[o].omode \cap {"EXCL", "REXCL"} # {} => "READ" \notin d.opn[p].omode
         /\ d.opn[o].omode \cap {"EXCL", "WEXCL"} # {} => "WRITE" \notin d.opn[p].omode
  BY <1>2 DEF DeviceInv, Modes
<1> QED BY <1>1, <1>3, <1>4, <1>5, <1>6 DEF InUse

=============================================================================

------------------------------- MODULE Serial -------------------------------
(***************************************************************************)
(* The serial driver: ser.c and its lower half ser_esp32c3.c.              *)
(*                                                                         *)
(* Two ring buffers lie between the calls of tasks and the interrupt       *)
(* handler.  The simple driver interface lets one task in at a time; it    *)
(* touches a ring with the interrupt disabled, which is one step, and      *)
(* sleeps in between.  The UART is modelled as the driver uses it: a FIFO  *)
(* in each direction, and an event that is latched when the transmit FIFO  *)
(* is empty.                                                               *)
(***************************************************************************)
EXTENDS Naturals, Integers, Sequences, FiniteSets, SequencesExt

CONSTANTS
  Tasks, NULL,
  N,             \* bytes sent and bytes received are numbered modulo N
  BUFFSIZE,      \* DEVCONF_SER_BUFFSIZE, size of a ring buffer
  FIFO,          \* size of the transmit FIFO
  RXFIFO,        \* size of the receive FIFO
  MaxReq,        \* longest request
  OpenModes,     \* open modes: sets of "snd" and "rcv"; without "rcv" nothing arrives
  MaxWup         \* bound: wake-ups that are queued for a task

VARIABLE s       \* driver, UART and the tasks' sleep

-----------------------------------------------------------------------------
(* Ring buffers                                                            *)

buff_init == [top |-> 0, tail |-> 0, wait_tskid |-> NULL, data |-> [i \in 0 .. BUFFSIZE - 1 |-> NULL]]

Next1(i) == IF i + 1 >= BUFFSIZE THEN 0 ELSE i + 1

IsEmpty(b) == b.top = b.tail

IsFull(b) == Next1(b.top) = b.tail

\* A place that is read is not read again.
Put(b, x) == [b EXCEPT !.data[b.top] = x, !.top = Next1(b.top)]

Drop(b) == [b EXCEPT !.data[b.tail] = NULL, !.tail = Next1(b.tail)]

\* What req->asize says when a request of size 0 asks for readable data.
Count(b) == IF b.top < b.tail THEN b.top - b.tail + BUFFSIZE ELSE b.top - b.tail

Contents(b) == [i \in 1 .. Count(b) |-> b.data[(b.tail + i - 1) % BUFFSIZE]]

\* tk_wup_tsk of the task that waits, if one does; the wake-up is queued when
\* it does not sleep (yet, or any more).
Wakeup(e, buff) ==
  LET t == e[buff].wait_tskid
  IN  IF t = NULL THEN e
      ELSE [IF e.pc[t] = "asleep" THEN [e EXCEPT !.pc[t] = "loop"]
            ELSE [e EXCEPT !.wupcnt[t] = IF @ < MaxWup THEN @ + 1 ELSE @]
            EXCEPT ![buff].wait_tskid = NULL]

-----------------------------------------------------------------------------
(* The interrupt handler                                                   *)

dev_ser_notify_rcv(e, x) ==
  Wakeup(IF IsFull(e.rcv) THEN [e EXCEPT !.com_error = @ \cup {"ROVR"}]
         ELSE [e EXCEPT !.rcv = Put(@, x)], "rcv")

\* The next byte to send goes to the FIFO.
dev_ser_get_snddat(e) ==
  Wakeup([e EXCEPT !.tx = Append(@, e.snd.data[e.snd.tail]), !.snd = Drop(@)], "snd")

\* While there is room in the FIFO and something to send.
Refill(e) ==
  LET n == IF FIFO - Len(e.tx) < Count(e.snd) THEN FIFO - Len(e.tx) ELSE Count(e.snd)
      after[i \in 0 .. n] == IF i = 0 THEN e ELSE dev_ser_get_snddat(after[i - 1])
  IN  after[n]

Pending(e) == e.started /\ (e.rx # << >> \/ (e.txie /\ e.txraw) \/ e.rxerr # {})

\* Received bytes, an empty transmit FIFO and errors in one go; then what was
\* seen is cleared.  The event of the transmit FIFO is masked again.
uart_inthdr ==
  LET txint == s.txie /\ s.txraw
      got[i \in 0 .. Len(s.rx)] == IF i = 0 THEN s ELSE dev_ser_notify_rcv(got[i - 1], s.rx[i])
      r == [got[Len(s.rx)] EXCEPT !.rx = << >>]
      e == IF txint THEN [Refill(r) EXCEPT !.txie = FALSE, !.txraw = FALSE] ELSE r
  IN  /\ Pending(s)
      /\ s' = [e EXCEPT !.com_error = @ \cup s.rxerr, !.rxerr = {}, !.slack = TRUE]

-----------------------------------------------------------------------------
(* The lower half                                                          *)

\* LLD_SER_START: FIFOs and events are reset, reception is enabled.
start_com(e) ==
  [e EXCEPT !.started = TRUE, !.rx = << >>, !.tx = << >>, !.rxerr = {},
            !.txie = FALSE, !.txraw = FALSE]

\* LLD_SER_STOP.  What is left in the FIFOs is reset before the next use.
stop_com(e) ==
  [e EXCEPT !.started = FALSE, !.rx = << >>, !.tx = << >>, !.rxerr = {}, !.txie = FALSE, !.txraw = FALSE]

\* Mutant: LLD_SER_SEND leaves the event masked.
LLD_SER_SEND_Masked(e, x) == [e EXCEPT !.tx = Append(@, x)]

\* LLD_SER_SEND with room in the FIFO: the byte skips the ring buffer.
LLD_SER_SEND(e, x) == [e EXCEPT !.tx = Append(@, x), !.txie = TRUE]

-----------------------------------------------------------------------------
(* The calls of tasks                                                      *)

\* A step of a task.  A pending interrupt comes first, unless it arrived while
\* the task had the interrupt disabled: then it comes right after the step.
Run(e) ==
  /\ Pending(s) => s.slack
  /\ s' = [e EXCEPT !.slack = ~Pending(e)]

Enter(t) == s.owner = NULL /\ s.pc[t] = "out"

dev_ser_openfn(t, omode) ==
  /\ Enter(t) /\ ~s.started
  /\ Run(start_com([s EXCEPT !.omode = omode, !.snd = buff_init, !.rcv = buff_init]))

\* The rings are set up again before the next use.
dev_ser_closefn(t) ==
  /\ Enter(t) /\ s.started
  /\ Run(stop_com([s EXCEPT !.omode = {}, !.snd = buff_init, !.rcv = buff_init]))

\* Without the mode the request ends at once (E_OACV).
dev_ser_readfn(t, size) ==
  /\ Enter(t) /\ s.started /\ "rcv" \in s.omode
  /\ Run([s EXCEPT !.owner = t, !.pc[t] = "loop", !.cmd = "rcv", !.size = size])

dev_ser_writefn(t, size) ==
  /\ Enter(t) /\ s.started /\ "snd" \in s.omode
  /\ Run([s EXCEPT !.owner = t, !.pc[t] = "loop", !.cmd = "snd", !.size = size])

Leave(e, t) == [e EXCEPT !.owner = NULL, !.pc[t] = "out", !.size = 0]

\* The errors since the last look.
TDN_SER_COMERR(t) == Enter(t) /\ s.com_error # {} /\ Run([s EXCEPT !.com_error = {}])

Looping(t, cmd) == s.pc[t] = "loop" /\ s.cmd = cmd /\ s.size > 0

read_data(t) ==
  /\ Looping(t, "rcv")
  /\ Run(IF ~IsEmpty(s.rcv) THEN [s EXCEPT !.rcv = Drop(@), !.size = @ - 1]
         ELSE [s EXCEPT !.rcv.wait_tskid = t, !.pc[t] = "sleep"])

\* Mutant: a byte goes to the FIFO whenever there is room.
write_data_Overtake(t) ==
  LET x == s.out IN
  /\ Looping(t, "snd")
  /\ Run(IF IsFull(s.snd) THEN [s EXCEPT !.snd.wait_tskid = t, !.pc[t] = "sleep"]
          ELSE [IF Len(s.tx) < FIFO THEN LLD_SER_SEND(s, x)
                ELSE [s EXCEPT !.snd = Put(@, x)]
                EXCEPT !.size = @ - 1, !.out = (@ + 1) % N])

\* A byte goes straight to the FIFO when the ring buffer is empty.
write_data(t) ==
  LET x == s.out IN
  /\ Looping(t, "snd")
  /\ Run(IF IsFull(s.snd) THEN [s EXCEPT !.snd.wait_tskid = t, !.pc[t] = "sleep"]
          ELSE [IF IsEmpty(s.snd) /\ Len(s.tx) < FIFO THEN LLD_SER_SEND(s, x)
                ELSE [s EXCEPT !.snd = Put(@, x)]
                EXCEPT !.size = @ - 1, !.out = (@ + 1) % N])

Finish(t) == s.pc[t] = "loop" /\ s.size = 0 /\ Run(Leave(s, t))

tk_slp_tsk(t) ==
  /\ s.pc[t] = "sleep"
  /\ Run(IF s.wupcnt[t] > 0 THEN [s EXCEPT !.wupcnt[t] = @ - 1, !.pc[t] = "loop"]
         ELSE [s EXCEPT !.pc[t] = "asleep"])

\* rcv_tmo or snd_tmo is over: the task leaves, wait_tskid still names it.
Timeout(t) == s.pc[t] = "asleep" /\ Run(Leave(s, t))

-----------------------------------------------------------------------------
(* The UART                                                                *)

Receive ==
  /\ s.started /\ "rcv" \in s.omode /\ Len(s.rx) < RXFIFO
  /\ s' = [s EXCEPT !.rx = Append(@, s.in), !.in = (@ + 1) % N]

ReceiveError == s.started /\ "rcv" \in s.omode /\ s.rxerr = {} /\ s' = [s EXCEPT !.rxerr = {"OE"}]

Transmit == s.tx # << >> /\ s' = [s EXCEPT !.tx = Tail(@)]

TxEmpty == s.started /\ s.tx = << >> /\ ~s.txraw /\ s' = [s EXCEPT !.txraw = TRUE]

-----------------------------------------------------------------------------

\* dev_init_ser.
Init ==
  s = [snd |-> buff_init, rcv |-> buff_init, com_error |-> {}, omode |-> {}, started |-> FALSE,
       rx |-> << >>, tx |-> << >>, rxerr |-> {}, in |-> 0, out |-> 0, txie |-> FALSE, txraw |-> FALSE,
       slack |-> TRUE, owner |-> NULL, cmd |-> "rcv", size |-> 0,
       pc |-> [t \in Tasks |-> "out"], wupcnt |-> [t \in Tasks |-> 0]]

Next ==
  \/ uart_inthdr \/ Receive \/ ReceiveError \/ Transmit \/ TxEmpty
  \/ \E t \in Tasks :
       \/ dev_ser_closefn(t) \/ TDN_SER_COMERR(t)
       \/ \E m \in OpenModes : dev_ser_openfn(t, m)
       \/ \E n \in 1 .. MaxReq : dev_ser_readfn(t, n) \/ dev_ser_writefn(t, n)
       \/ read_data(t) \/ write_data(t) \/ Finish(t) \/ tk_slp_tsk(t) \/ Timeout(t)

-----------------------------------------------------------------------------
(* Properties                                                              *)

\* Nothing waits for ever: bytes in the send buffer have the interrupt that
\* fetches them, a task sleeps only while there is nothing to read or no place
\* to write, and it is the one the handler will wake.
NothingStuck ==
  /\ s.started /\ ~IsEmpty(s.snd) => s.txie
  /\ \A t \in Tasks : s.pc[t] = "asleep" =>
       /\ s[s.cmd].wait_tskid = t
       /\ IF s.cmd = "rcv" THEN IsEmpty(s.rcv) ELSE IsFull(s.snd)

\* Bytes leave the line in the order they were written, although some go
\* through the ring buffer and some around it, and are read in the order they
\* came; one that is dropped is reported.
InOrderStep ==
  LET out == s.tx \o Contents(s.snd)   out1 == s'.tx \o Contents(s'.snd)
      in == Contents(s.rcv) \o s.rx    in1 == Contents(s'.rcv) \o s'.rx
      Moves(a, b) == b = a \/ (a # << >> /\ b = Tail(a)) \/ \E x \in 0 .. N - 1 : b = Append(a, x)
  IN  s.started /\ s'.started =>
        /\ Moves(out, out1)
        /\ Moves(in, in1) \/ (IsPrefix(in1, in) /\ "ROVR" \in s'.com_error)
=============================================================================

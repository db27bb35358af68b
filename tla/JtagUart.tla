------------------------------- MODULE JtagUart ------------------------------
(***************************************************************************)
(* The interrupt-driven JTAG UART driver: two rings between the calls of   *)
(* the program and the interrupt handler, and the alarm that finds out     *)
(* whether a host is there.                                                *)
(*                                                                         *)
(* A device js is a record of the driver's state                           *)
(*   timeout, host_inactive, irq_enable, rx_in, rx_out, tx_in, tx_out,     *)
(*   rx_buf, tx_buf                                                        *)
(* (irq_enable is written to the control register whenever it changes), of *)
(* the hardware's                                                          *)
(*   rxfifo, txfifo, ac     the FIFOs and the activity bit                 *)
(* and of the ghosts                                                       *)
(*   from, to               characters the host has sent and received      *)
(*   read, written          characters the calls have delivered and taken  *)
(*   ok                     the calls have delivered the right characters  *)
(* Characters are numbered in each direction from 1.                       *)
(***************************************************************************)
EXTENDS Integers, Sequences, FiniteSetsExt

CONSTANTS
  JTAG_BUF_LEN,      \* 2048
  JTAG_FIFO,         \* depth of the hardware FIFOs (64)
  DEFAULT_TIMEOUT,   \* 10 seconds
  INT_MAX

ASSUME JtagAssumption ==
  /\ JTAG_BUF_LEN \in Nat \ {0, 1} /\ JTAG_FIFO \in Nat \ {0}
  /\ DEFAULT_TIMEOUT \in Nat /\ INT_MAX \in Nat
  /\ 0 < DEFAULT_TIMEOUT /\ DEFAULT_TIMEOUT < INT_MAX - 1

JSlots == 0 .. JTAG_BUF_LEN - 1
JPlus(i, n) == (i + n) % JTAG_BUF_LEN

Jtag0 ==
  [timeout |-> DEFAULT_TIMEOUT, host_inactive |-> 0, irq_enable |-> {},
   rx_in |-> 0, rx_out |-> 0, tx_in |-> 0, tx_out |-> 0,
   rx_buf |-> [i \in JSlots |-> 0], tx_buf |-> [i \in JSlots |-> 0],
   rxfifo |-> << >>, txfifo |-> << >>, ac |-> FALSE,
   from |-> 0, to |-> 0, read |-> 0, written |-> 0, ok |-> TRUE]

\* What a ring holds, oldest first.
Ring(buf, in, out) ==
  [i \in 1 .. (in - out) % JTAG_BUF_LEN |-> buf[JPlus(out, i - 1)]]

RxRing(js) == Ring(js.rx_buf, js.rx_in, js.rx_out)
TxRing(js) == Ring(js.tx_buf, js.tx_in, js.tx_out)

-----------------------------------------------------------------------------
(***************************************************************************)
(* The hardware and the host.                                              *)
(***************************************************************************)
RI(js) == "RE" \in js.irq_enable /\ js.rxfifo # << >>
WI(js) == "WE" \in js.irq_enable /\ Len(js.txfifo) < JTAG_FIFO

HostSends(js) ==
  [js EXCEPT !.rxfifo = Append(@, js.from + 1), !.from = @ + 1, !.ac = TRUE]

HostTakes(js) ==
  [js EXCEPT !.txfifo = Tail(@), !.to = @ + 1, !.ac = TRUE]

-----------------------------------------------------------------------------
(***************************************************************************)
(* The interrupt handler: one pass of its loop, with the control register  *)
(* as read at the start of the pass.                                       *)
(***************************************************************************)
\* The receive FIFO is emptied into the ring; what does not fit stays, and
\* the receive interrupt is turned off.
ReceivePass(js) ==
  LET n == Min({Len(js.rxfifo), JTAG_BUF_LEN - 1 - Len(RxRing(js))})
  IN  [js EXCEPT
         !.rx_buf = [i \in JSlots |->
                       LET k == (i - js.rx_in) % JTAG_BUF_LEN
                       IN  IF k < n THEN js.rxfifo[k + 1] ELSE @[i]],
         !.rx_in  = JPlus(@, n),
         !.rxfifo = SubSeq(@, n + 1, Len(@)),
         !.irq_enable = IF n < Len(js.rxfifo) THEN @ \ {"RE"} ELSE @]

\* The ring is emptied into the transmit FIFO; the transmit interrupt is
\* turned off when there was space for more.
TransmitPass(js, space) ==
  LET n == Min({space, Len(TxRing(js))})
  IN  [js EXCEPT
         !.txfifo = @ \o SubSeq(TxRing(js), 1, n),
         !.tx_out = JPlus(@, n),
         !.irq_enable = IF n < space THEN @ \ {"WE"} ELSE @]

altera_avalon_jtag_uart_irq(js) ==
  LET rx == IF RI(js) THEN ReceivePass(js) ELSE js
  IN  IF WI(js) THEN TransmitPass(rx, JTAG_FIFO - Len(js.txfifo)) ELSE rx

\* The alarm: has the host polled the device since the last one?
altera_avalon_jtag_uart_timeout(js) ==
  IF js.ac THEN [js EXCEPT !.ac = FALSE, !.host_inactive = 0]
  ELSE IF js.host_inactive < INT_MAX - 2
       THEN [js EXCEPT !.host_inactive = @ + 1]
  ELSE js

HostGone(js) == js.host_inactive >= js.timeout

-----------------------------------------------------------------------------
(***************************************************************************)
(* The calls of the program, step by step.                                 *)
(***************************************************************************)
\* write: how much can be copied in one piece, for the given positions.
\* Mutant: one slot more, so that a full ring looks empty.
WriteRoom_Full(in, out) ==
  IF in < out THEN out - in
  ELSE JTAG_BUF_LEN - in
WriteRoom(in, out) ==
  IF in < out THEN out - 1 - in
  ELSE IF out > 0 THEN JTAG_BUF_LEN - in
  ELSE JTAG_BUF_LEN - 1 - in

\* read: how much can be copied in one piece.
ReadAvail(in, out) == IF in >= out THEN in - out ELSE JTAG_BUF_LEN - out

\* write: memcpy to the ring and the advance of tx_in.
WriteCopy(js, in, n) ==
  [js EXCEPT
     !.tx_buf  = [i \in JSlots |-> IF i \in in .. in + n - 1
                                   THEN js.written + 1 + (i - in) ELSE @[i]],
     !.tx_in   = JPlus(in, n),
     !.written = @ + n]

\* read: memcpy from the ring and the advance of rx_out.
ReadCopy(js, out, n) ==
  [js EXCEPT
     !.ok     = @ /\ \A i \in 0 .. n - 1 : js.rx_buf[out + i] = js.read + 1 + i,
     !.rx_out = JPlus(out, n),
     !.read   = @ + n]

EnableIrq(js, e) == [js EXCEPT !.irq_enable = @ \cup {e}]

\* ioctl TIOCSTIMEOUT: a value that makes no sense means to wait for ever.
altera_avalon_jtag_uart_ioctl(js, secs) ==
  IF js.timeout = INT_MAX THEN js
  ELSE [js EXCEPT !.timeout = IF secs >= 2 /\ secs < INT_MAX
                              THEN secs ELSE INT_MAX - 1]

-----------------------------------------------------------------------------
Numbered(s, k) == s = [i \in 1 .. Len(s) |-> k + i]

\* Both directions: what is on its way is exactly what was taken and has not
\* come out, in order.
JtagKept(js) ==
  /\ js.ok
  /\ LET tx == js.txfifo \o TxRing(js)
     IN  Numbered(tx, js.to) /\ js.to + Len(tx) = js.written
  /\ LET rx == RxRing(js) \o js.rxfifo
     IN  Numbered(rx, js.read) /\ js.read + Len(rx) = js.from
=============================================================================

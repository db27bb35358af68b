------------------------------ MODULE AvalonUart -----------------------------
(***************************************************************************)
(* The interrupt-driven UART driver.  A device us is a record of the       *)
(* driver's state                                                          *)
(*   rx_start, rx_end, rx_buf, tx_start, tx_end, tx_buf, ctrl              *)
(* (ctrl, the enabled interrupts, is written to the control register       *)
(* whenever it changes), of the hardware's                                 *)
(*   rxdata, rrdy, err      the received character, its status bits        *)
(*   txdata                 the character to be sent, 0 for none: TRDY     *)
(* and of the ghosts                                                       *)
(*   from, to               characters the line has brought and taken      *)
(*   written                characters the calls have taken                *)
(*   last                   the last character a call has delivered        *)
(*   lost                   characters overrun in the receive register     *)
(*   wrapped                the handler has stored into a full ring        *)
(*   ok                     the line's and the calls' characters came in   *)
(*                          order                                          *)
(* The UART is built without CTS and RTS: the DCTS bit is never set and    *)
(* flow control is off.                                                    *)
(***************************************************************************)
EXTENDS Integers, Sequences

CONSTANT UART_BUF_LEN    \* 64, a power of two

ASSUME UartAssumption == UART_BUF_LEN \in Nat \ {0, 1}

USlots == 0 .. UART_BUF_LEN - 1
UPlus(i) == (i + 1) % UART_BUF_LEN

Uart0 ==
  [rx_start |-> 0, rx_end |-> 0, rx_buf |-> [i \in USlots |-> 0],
   tx_start |-> 0, tx_end |-> 0, tx_buf |-> [i \in USlots |-> 0],
   ctrl |-> {}, rxdata |-> 0, rrdy |-> FALSE, err |-> FALSE, txdata |-> 0,
   from |-> 0, to |-> 0, written |-> 0, last |-> 0, lost |-> {},
   wrapped |-> FALSE, ok |-> TRUE]

URing(buf, start, end) ==
  [i \in 1 .. (end - start) % UART_BUF_LEN |->
     buf[(start + i - 1) % UART_BUF_LEN]]

URx(us) == URing(us.rx_buf, us.rx_start, us.rx_end)
UTx(us) == URing(us.tx_buf, us.tx_start, us.tx_end)

-----------------------------------------------------------------------------
(***************************************************************************)
(* The hardware and the line.                                              *)
(***************************************************************************)
UartPending(us) ==
  \/ "RRDY" \in us.ctrl /\ us.rrdy
  \/ "TRDY" \in us.ctrl /\ us.txdata = 0

UartStatus(us) == (IF us.rrdy THEN {"RRDY"} ELSE {})
                    \cup (IF us.txdata = 0 THEN {"TRDY"} ELSE {})
                    \cup (IF us.err THEN {"ERR"} ELSE {})

\* A character arrives, with a framing or parity error or without; one that
\* has not been read is overrun.
LineBrings(us, bad) ==
  [us EXCEPT !.from = @ + 1, !.rxdata = us.from + 1, !.rrdy = TRUE, !.err = bad,
             !.lost = IF us.rrdy THEN @ \cup {us.rxdata} ELSE @]

LineTakes(us) ==
  [us EXCEPT !.txdata = 0, !.to = @ + 1, !.ok = @ /\ us.txdata = us.to + 1]

-----------------------------------------------------------------------------
(***************************************************************************)
(* The interrupt handler.  It is called with the status as it was read; in *)
(* the meantime the error bits have been cleared.                          *)
(***************************************************************************)
\* After an error the handler returns and the character stays in RXDATA.
altera_avalon_uart_rxirq(us) ==
  LET end == UPlus(us.rx_end)
  IN  [us EXCEPT
         !.rx_buf[us.rx_end] = us.rxdata,
         !.rx_end  = end,
         !.rrdy    = FALSE,
         !.ctrl    = IF UPlus(end) = us.rx_start THEN @ \ {"RRDY"} ELSE @,
         !.wrapped = @ \/ end = us.rx_start]

\* One character to the device; the interrupt is off when the ring is empty.
altera_avalon_uart_txirq(us) ==
  LET sent == IF us.tx_start = us.tx_end THEN us
              ELSE [us EXCEPT !.txdata = us.tx_buf[us.tx_start],
                              !.tx_start = UPlus(@),
                              !.ctrl = @ \cup {"TRDY"}]
  IN  IF sent.tx_start = sent.tx_end
      THEN [sent EXCEPT !.ctrl = @ \ {"TRDY", "DCTS"}]
      ELSE sent

altera_avalon_uart_irq(us, status) ==
  LET clear == [us EXCEPT !.err = FALSE]
      rx    == IF "RRDY" \in status /\ "ERR" \notin status
               THEN altera_avalon_uart_rxirq(clear) ELSE clear
  IN  IF "TRDY" \in status THEN altera_avalon_uart_txirq(rx) ELSE rx

-----------------------------------------------------------------------------
(***************************************************************************)
(* The calls of the program, step by step.                                 *)
(***************************************************************************)
EnableRead(us)  == [us EXCEPT !.ctrl = @ \cup {"RRDY"}]
EnableWrite(us) == [us EXCEPT !.ctrl = @ \cup {"TRDY", "DCTS"}]

ReadOne(us) ==
  [us EXCEPT !.last = us.rx_buf[us.rx_start], !.rx_start = UPlus(@),
             !.ok = @ /\ us.rx_buf[us.rx_start] > us.last]

TxFull(us) == UPlus(us.tx_end) = us.tx_start

WriteOne(us) ==
  [us EXCEPT !.tx_buf[us.tx_end] = us.written + 1, !.written = @ + 1,
             !.tx_end = UPlus(@)]

-----------------------------------------------------------------------------
\* Sent characters come out in order and none is missing.  Received ones are
\* delivered in order, and between the last one delivered and the last one
\* the line has brought, every one that was not overrun is in the ring or in
\* the receive register.  Excepted is the ring that the handler has stored
\* into although it was full, after which it looks empty: it does so for a
\* transmit interrupt, and when read has turned the receive interrupt on for
\* a ring that has just filled.
UartKept(us) ==
  /\ us.ok
  /\ LET tx == (IF us.txdata = 0 THEN << >> ELSE <<us.txdata>>) \o UTx(us)
     IN  tx = [i \in 1 .. us.written - us.to |-> us.to + i]
  /\ ~us.wrapped =>
       LET rx == URx(us) \o (IF us.rrdy THEN <<us.rxdata>> ELSE << >>)
       IN  /\ \A i \in 1 .. Len(rx) - 1 : rx[i] < rx[i + 1]
           /\ {rx[i] : i \in 1 .. Len(rx)}
                = us.last + 1 .. us.from \ us.lost
=============================================================================

--------------------------------- MODULE Hal ---------------------------------
(***************************************************************************)
(* The hardware abstraction layer at work: a program that starts the       *)
(* system and then makes calls on file descriptors, the interrupt handlers *)
(* of the timer, the JTAG UART and the UART, and the host and the serial   *)
(* line at the other ends.                                                 *)
(*                                                                         *)
(* The program is one thread.  An interrupt may come between any two of    *)
(* its steps, a step being one access to state that a handler shares.      *)
(* alt_irq_handler runs the handler of the lowest pending interrupt and    *)
(* looks again until none is pending; handlers are not interrupted, but    *)
(* the hardware moves on while they run.                                   *)
(***************************************************************************)
EXTENDS AltFd, AltTick, JtagUart, AvalonUart

CONSTANTS
  Lens,          \* lengths of the reads and writes
  Timeouts,      \* arguments of TIOCSTIMEOUT
  Bounds         \* bounds, one of which holds for a behaviour: records of
                 \*   ops     the kinds of call the program makes
                 \*   devs    the devices it opens, reads and writes
                 \*   fds     the descriptors it uses
                 \*   calls   how many calls
                 \*   host    how many characters the host sends
                 \*   line    how many the serial line brings
                 \*   plugs   how often the host comes or goes
                 \*   ticks   whether the clock ticks

Devices == {"null", "jtag", "uart"}

ASSUME BoundAssumption ==
  /\ Lens \subseteq Nat \ {0} /\ Timeouts \subseteq Int
  /\ Bounds \subseteq
       [ops : SUBSET {"open", "close", "read", "write", "lock", "fcntl",
                      "timeout", "alarm"},
        devs : SUBSET Devices, fds : SUBSET Fds,
        calls : Nat, host : Nat, line : Nat, plugs : Nat, ticks : BOOLEAN]

VARIABLES
  fds,      \* the file descriptors
  clock,    \* the tick counter and the alarms
  jtag,     \* the JTAG UART
  uart,     \* the UART
  irqs,     \* the interrupts with a registered handler
  timer,    \* "out" when it has run out and its interrupt is pending,
            \* "served" until the program has run again, else "running"
  isr,      \* what alt_irq_handler is doing
  ustatus,  \* the UART's status register as its handler has read it
  pc,       \* what the program is doing
  call,     \* the local variables of the call under way
  calls,    \* calls made so far
  host,     \* a host is connected
  plugs,    \* times it has come or gone
  bound     \* the bound of this behaviour

vars == <<fds, clock, jtag, uart, irqs, timer, isr, ustatus, pc, call, calls,
          host, plugs, bound>>

hwVars   == <<host, plugs, ustatus, bound>>
progVars == <<fds, pc, call, calls>>

Idle == [fd |-> 0, n |-> 0, k |-> 0, in |-> 0, out |-> 0]

Init ==
  /\ fds = alt_fd_list /\ clock = Clock0 /\ jtag = Jtag0 /\ uart = Uart0
  /\ irqs = {} /\ timer = "served" /\ isr = "none" /\ ustatus = {}
  /\ pc = "timer_init" /\ call = Idle /\ calls = 0
  /\ host \in BOOLEAN /\ plugs = 0 /\ bound \in Bounds

\* The program takes a step.
Ran == timer' = IF timer = "served" THEN "running" ELSE timer

-----------------------------------------------------------------------------
(***************************************************************************)
(* alt_sys_init and alt_io_redirect.  Interrupts are on from the start: a  *)
(* handler may run as soon as it is registered.                            *)
(***************************************************************************)
BootStep(at, then) == isr = "none" /\ pc = at /\ pc' = then /\ Ran

alt_avalon_timer_sc_init ==
  /\ BootStep("timer_init", "jtag_init")
  /\ clock' = alt_sysclk_init(clock, TICKS_PER_SECOND)
  /\ irqs' = irqs \cup {"timer"}
  /\ UNCHANGED <<fds, jtag, uart, isr, call, calls, hwVars>>

altera_avalon_jtag_uart_init ==
  /\ BootStep("jtag_init", "jtag_alarm")
  /\ jtag' = [jtag EXCEPT !.irq_enable = {"RE"}]
  /\ irqs' = irqs \cup {"jtag"}
  /\ UNCHANGED <<fds, clock, uart, isr, call, calls, hwVars>>

JtagAlarm ==
  /\ BootStep("jtag_alarm", "uart_init")
  /\ clock' = alt_alarm_start(clock, "jtag", TICKS_PER_SECOND)
  /\ jtag' = [jtag EXCEPT !.host_inactive = 0,
                          !.timeout = IF clock.rate = 0 THEN INT_MAX ELSE @]
  /\ fds' = alt_dev_reg(fds, "jtag")
  /\ UNCHANGED <<uart, irqs, isr, call, calls, hwVars>>

altera_avalon_uart_init ==
  /\ BootStep("uart_init", "redirect")
  /\ uart' = [uart EXCEPT !.ctrl = {"RRDY", "DCTS"}]
  /\ irqs' = irqs \cup {"uart"}
  /\ fds' = alt_dev_reg(fds, "uart")
  /\ UNCHANGED <<clock, jtag, isr, call, calls, hwVars>>

\* The standard descriptors, in the order in which they are opened.
alt_io_redirect(at, then, std, acc) ==
  /\ BootStep(at, then)
  /\ fds' = alt_open_fd(fds, std, "jtag", acc)
  /\ UNCHANGED <<clock, jtag, uart, irqs, isr, call, calls, hwVars>>

Boot ==
  \/ alt_avalon_timer_sc_init \/ altera_avalon_jtag_uart_init \/ JtagAlarm
  \/ altera_avalon_uart_init
  \/ alt_io_redirect("redirect", "stdin", STDOUT_FILENO, "wr")
  \/ alt_io_redirect("stdin", "stderr", STDIN_FILENO, "rd")
  \/ alt_io_redirect("stderr", "idle", STDERR_FILENO, "wr")

-----------------------------------------------------------------------------
(***************************************************************************)
(* The calls.  The program passes descriptors that are open.               *)
(***************************************************************************)
NewCall(op) ==
  /\ isr = "none" /\ pc = "idle"
  /\ calls < bound.calls /\ op \in bound.ops
  /\ calls' = calls + 1
  /\ Ran
  /\ UNCHANGED <<uart, irqs, isr, hwVars>>

Used == {i \in bound.fds : fds.dev[i] \in bound.devs}

Open(d, nb) ==
  /\ NewCall("open")
  /\ fds' = ALT_OPEN(fds, d, "rw", nb)
  /\ UNCHANGED <<clock, jtag, pc, call>>

Fcntl(i, nb) ==
  /\ NewCall("fcntl")
  /\ fds' = ALT_FCNTL(fds, i, nb)
  /\ UNCHANGED <<clock, jtag, pc, call>>

\* TIOCEXCL and TIOCNXCL; every open descriptor is that of a device.
Exclusive(i, on) ==
  /\ NewCall("lock")
  /\ fds.flags[i].isdev
  /\ fds' = IF on THEN alt_fd_lock(fds, i) ELSE alt_fd_unlock(fds, i)
  /\ UNCHANGED <<clock, jtag, pc, call>>

SetTimeout(i, secs) ==
  /\ NewCall("timeout")
  /\ fds.dev[i] = "jtag"
  /\ jtag' = altera_avalon_jtag_uart_ioctl(jtag, secs)
  /\ UNCHANGED <<fds, clock, pc, call>>

\* An alarm of the program, which runs once.
AlarmStart(n) ==
  /\ NewCall("alarm")
  /\ "program" \notin DOMAIN clock.alarms
  /\ clock' = alt_alarm_start(clock, "program", n)
  /\ UNCHANGED <<fds, jtag, pc, call>>

AlarmStop ==
  /\ NewCall("alarm")
  /\ "program" \in DOMAIN clock.alarms
  /\ clock' = alt_alarm_stop(clock, "program")
  /\ UNCHANGED <<fds, jtag, pc, call>>

\* Where a call goes on, by device and kind.
Enter ==
  [jtag |-> [read |-> "jtag_read", write |-> "jtag_write", close |-> "jtag_close"],
   uart |-> [read |-> "uart_read", write |-> "uart_write", close |-> "uart_close"]]

\* A read or write that the descriptor does not allow returns -1; a write to
\* /dev/null returns at once.
ALT_READ(i, len) ==
  /\ NewCall("read")
  /\ MayRead(fds, i)
  /\ pc' = Enter[fds.dev[i]].read
  /\ call' = [Idle EXCEPT !.fd = i, !.n = len]
  /\ UNCHANGED <<fds, clock, jtag>>

ALT_WRITE(i, len) ==
  /\ NewCall("write")
  /\ MayWrite(fds, i) /\ fds.dev[i] # "null"
  /\ pc' = Enter[fds.dev[i]].write
  /\ call' = [Idle EXCEPT !.fd = i, !.n = len]
  /\ UNCHANGED <<fds, clock, jtag>>

ALT_CLOSE(i) ==
  /\ NewCall("close")
  /\ IF fds.dev[i] = "null"
     THEN fds' = alt_release_fd(fds, i) /\ UNCHANGED <<pc, call>>
     ELSE /\ pc' = Enter[fds.dev[i]].close
          /\ call' = [Idle EXCEPT !.fd = i]
          /\ UNCHANGED fds
  /\ UNCHANGED <<clock, jtag>>

Call ==
  \/ \E d \in bound.devs, nb \in BOOLEAN : Open(d, nb)
  \/ \E i \in Used :
       \/ \E nb \in BOOLEAN : Fcntl(i, nb) \/ Exclusive(i, nb)
       \/ \E secs \in Timeouts : SetTimeout(i, secs)
       \/ \E len \in Lens : ALT_READ(i, len) \/ ALT_WRITE(i, len)
       \/ ALT_CLOSE(i)
  \/ AlarmStart(TICKS_PER_SECOND)
  \/ AlarmStop

NonBlock == fds.flags[call.fd].nonblock

-----------------------------------------------------------------------------
(***************************************************************************)
(* The steps of the calls.                                                 *)
(***************************************************************************)
JtagStep(at) ==
  /\ isr = "none" /\ pc = at /\ Ran
  /\ UNCHANGED <<fds, clock, uart, irqs, isr, calls, hwVars>>

Go(to, c) == pc' = to /\ call' = c
Return    == Go("idle", Idle)

\* read: the positions are read, then the characters copied; with nothing to
\* copy the call ends, or waits for a character or for the host to be gone.
JtagReadLook ==
  /\ JtagStep("jtag_read")
  /\ LET c == [call EXCEPT !.in = jtag.rx_in, !.out = jtag.rx_out]
     IN  IF ReadAvail(c.in, c.out) > 0 THEN Go("jtag_read_copy", c)
         ELSE IF call.k > 0 THEN Go("jtag_read_re", c)
         ELSE IF NonBlock THEN Return
         ELSE Go("jtag_read_wait", c)
  /\ UNCHANGED jtag

JtagReadCopy ==
  /\ JtagStep("jtag_read_copy")
  /\ LET n == Min({ReadAvail(call.in, call.out), call.n})
     IN  /\ jtag' = ReadCopy(jtag, call.out, n)
         /\ Go(IF n < call.n THEN "jtag_read" ELSE "jtag_read_re",
               [call EXCEPT !.n = @ - n, !.k = @ + n])

JtagReadWait ==
  /\ JtagStep("jtag_read_wait")
  /\ call.in # jtag.rx_in \/ HostGone(jtag)
  /\ IF call.in # jtag.rx_in THEN Go("jtag_read", call) ELSE Return
  /\ UNCHANGED jtag

\* There is space in the ring: the receive interrupt is turned on.
\* Mutant: it is not.
JtagReadEnd_NoEnable ==
  JtagStep("jtag_read_re") /\ Return /\ UNCHANGED jtag
JtagReadEnd ==
  JtagStep("jtag_read_re") /\ Return /\ jtag' = EnableIrq(jtag, "RE")

JtagWriteLook ==
  /\ JtagStep("jtag_write")
  /\ LET c == [call EXCEPT !.in = jtag.tx_in, !.out = jtag.tx_out]
     IN  Go(IF WriteRoom(c.in, c.out) > 0 THEN "jtag_write_copy"
            ELSE "jtag_write_we", c)
  /\ UNCHANGED jtag

JtagWriteCopy ==
  /\ JtagStep("jtag_write_copy")
  /\ LET n == Min({WriteRoom(call.in, call.out), call.n})
     IN  /\ jtag' = WriteCopy(jtag, call.in, n)
         /\ Go(IF n < call.n THEN "jtag_write" ELSE "jtag_write_we",
               [call EXCEPT !.n = @ - n, !.k = @ + n])

\* The transmit interrupt is turned on; if there is more to write the call
\* ends or waits until the handler has taken some or the host is gone.
JtagWriteKick ==
  /\ JtagStep("jtag_write_we")
  /\ jtag' = EnableIrq(jtag, "WE")
  /\ IF call.n > 0 /\ ~NonBlock THEN Go("jtag_write_wait", call) ELSE Return

\* Any inactivity of the host, timeout or not, ends the call here.
JtagWriteWait ==
  /\ JtagStep("jtag_write_wait")
  /\ call.out # jtag.tx_out \/ HostGone(jtag)
  /\ IF jtag.host_inactive > 0 THEN Return ELSE Go("jtag_write", call)
  /\ UNCHANGED jtag

\* The descriptor is released whatever the driver's close returned.
CloseEnds ==
  /\ fds' = alt_release_fd(fds, call.fd)
  /\ Return

JtagClose ==
  /\ isr = "none" /\ pc = "jtag_close"
  /\ TxRing(jtag) = << >> \/ HostGone(jtag) \/ NonBlock
  /\ CloseEnds /\ Ran
  /\ UNCHANGED <<clock, jtag, uart, irqs, isr, calls, hwVars>>

UartStep(at) ==
  /\ isr = "none" /\ pc = at /\ Ran
  /\ UNCHANGED <<fds, clock, jtag, irqs, isr, calls, hwVars>>

\* read: character by character; an empty ring ends a call that has some.
UartRead ==
  /\ UartStep("uart_read")
  /\ IF call.n > 0 /\ URx(uart) # << >>
     THEN /\ uart' = ReadOne(uart)
          /\ Go("uart_read", [call EXCEPT !.n = @ - 1, !.k = @ + 1])
     ELSE /\ UNCHANGED uart
          /\ Go(IF call.k > 0 \/ NonBlock THEN "uart_read_end"
                ELSE "uart_read_wait", call)

UartReadWait ==
  /\ UartStep("uart_read_wait")
  /\ uart' = EnableRead(uart) /\ Go("uart_read", call)

UartReadEnd ==
  UartStep("uart_read_end") /\ uart' = EnableRead(uart) /\ Return

\* write: character by character; a full ring ends the call or is waited for.
UartWrite ==
  /\ UartStep("uart_write")
  /\ IF call.n = 0 \/ (TxFull(uart) /\ NonBlock)
     THEN Go("uart_write_end", call) /\ UNCHANGED uart
     ELSE IF TxFull(uart)
     THEN uart' = EnableWrite(uart) /\ Go("uart_write_wait", call)
     ELSE uart' = WriteOne(uart) /\ Go("uart_write", [call EXCEPT !.n = @ - 1])

UartWriteWait ==
  /\ UartStep("uart_write_wait")
  /\ ~TxFull(uart)
  /\ uart' = WriteOne(uart) /\ Go("uart_write", [call EXCEPT !.n = @ - 1])

UartWriteEnd ==
  UartStep("uart_write_end") /\ uart' = EnableWrite(uart) /\ Return

UartClose ==
  /\ isr = "none" /\ pc = "uart_close"
  /\ UTx(uart) = << >> \/ NonBlock
  /\ CloseEnds /\ Ran
  /\ UNCHANGED <<clock, jtag, uart, irqs, isr, calls, hwVars>>

\* The program spins in a waiting loop, or does something else.
Spin ==
  /\ isr = "none" /\ timer = "served" /\ Ran
  /\ \/ pc = "idle"
     \/ pc = "jtag_read_wait" /\ call.in = jtag.rx_in /\ ~HostGone(jtag)
     \/ pc = "jtag_write_wait" /\ call.out = jtag.tx_out /\ ~HostGone(jtag)
     \/ pc = "jtag_close" /\ TxRing(jtag) # << >> /\ ~HostGone(jtag) /\ ~NonBlock
     \/ pc = "uart_write_wait" /\ TxFull(uart)
     \/ pc = "uart_close" /\ UTx(uart) # << >> /\ ~NonBlock
  /\ UNCHANGED <<progVars, clock, jtag, uart, irqs, isr, hwVars>>

Program ==
  \/ Boot
  \/ JtagReadLook \/ JtagReadCopy \/ JtagReadWait \/ JtagReadEnd
  \/ JtagWriteLook \/ JtagWriteCopy \/ JtagWriteKick \/ JtagWriteWait
  \/ JtagClose
  \/ UartRead \/ UartReadWait \/ UartReadEnd
  \/ UartWrite \/ UartWriteWait \/ UartWriteEnd \/ UartClose
  \/ Spin

-----------------------------------------------------------------------------
(***************************************************************************)
(* Interrupts.  JTAG UART 0, timer 1, UART 3: the lowest goes first.       *)
(***************************************************************************)
alt_irq_pending ==
  irqs \cap ((IF RI(jtag) \/ WI(jtag) THEN {"jtag"} ELSE {})
             \cup (IF timer = "out" THEN {"timer"} ELSE {})
             \cup (IF UartPending(uart) THEN {"uart"} ELSE {}))

\* The exception is taken, at any time after an interrupt is raised.
Interrupt ==
  /\ isr = "none" /\ alt_irq_pending # {}
  /\ isr' = "irq"
  /\ UNCHANGED <<progVars, clock, jtag, uart, irqs, timer, hwVars>>

First == IF "jtag" \in alt_irq_pending THEN "jtag"
         ELSE IF "timer" \in alt_irq_pending THEN "timer" ELSE "uart"

Dispatch(h) ==
  /\ isr = "irq" /\ alt_irq_pending # {} /\ First = h
  /\ UNCHANGED <<progVars, irqs, host, plugs, bound>>

\* A pass of the JTAG UART handler; it ends when neither bit is set.
JtagIsr ==
  /\ UNCHANGED <<progVars, clock, uart, irqs, timer, hwVars>>
  /\ isr = "jtag" \/ Dispatch("jtag")
  /\ IF RI(jtag) \/ WI(jtag)
     THEN jtag' = altera_avalon_jtag_uart_irq(jtag) /\ isr' = "jtag"
     ELSE isr' = "irq" /\ UNCHANGED jtag

alt_avalon_timer_sc_irq ==
  /\ Dispatch("timer")
  /\ timer' = "served"
  /\ clock' = alt_tick(clock, [jtag |-> TICKS_PER_SECOND, program |-> 0])
  /\ jtag' = IF "jtag" \in Fires(clock, (clock.nticks + 1) % TICK_MOD)
             THEN altera_avalon_jtag_uart_timeout(jtag) ELSE jtag
  /\ UNCHANGED <<uart, isr, ustatus>>

\* The UART handler reads the status register ...
UartIsr ==
  /\ Dispatch("uart")
  /\ isr' = "uart" /\ ustatus' = UartStatus(uart)
  /\ UNCHANGED <<clock, jtag, uart, timer>>

\* ... and does the rest, while the line may have moved on.
UartIsrRest ==
  /\ isr = "uart"
  /\ uart' = altera_avalon_uart_irq(uart, ustatus)
  /\ isr' = "irq" /\ ustatus' = {}
  /\ UNCHANGED <<progVars, clock, jtag, irqs, timer, host, plugs, bound>>

IrqReturn ==
  /\ isr = "irq" /\ alt_irq_pending = {}
  /\ isr' = "none"
  /\ UNCHANGED <<progVars, clock, jtag, uart, irqs, timer, hwVars>>

Handlers ==
  \/ Interrupt \/ JtagIsr \/ alt_avalon_timer_sc_irq \/ UartIsr \/ UartIsrRest
  \/ IrqReturn

-----------------------------------------------------------------------------
(***************************************************************************)
(* The surroundings.                                                       *)
(***************************************************************************)
Outside == UNCHANGED <<progVars, clock, irqs, isr>>

\* The timer was started by its initialisation.  The processor is fast enough
\* for the program to take a step between two ticks.
Tick ==
  /\ bound.ticks /\ "timer" \in irqs /\ timer = "running"
  /\ timer' = "out"
  /\ Outside /\ UNCHANGED <<jtag, uart, hwVars>>

HostSend ==
  /\ host /\ jtag.from < bound.host /\ Len(jtag.rxfifo) < JTAG_FIFO
  /\ jtag' = HostSends(jtag)
  /\ Outside /\ UNCHANGED <<uart, timer, hwVars>>

\* The host's polling, which also takes a character that is there.
HostPoll ==
  /\ host /\ (jtag.txfifo # << >> \/ ~jtag.ac)
  /\ jtag' = IF jtag.txfifo # << >> THEN HostTakes(jtag)
             ELSE [jtag EXCEPT !.ac = TRUE]
  /\ Outside /\ UNCHANGED <<uart, timer, hwVars>>

Plug ==
  /\ plugs < bound.plugs
  /\ plugs' = plugs + 1 /\ host' = ~host
  /\ Outside /\ UNCHANGED <<jtag, uart, timer, ustatus, bound>>

LineBring(bad) ==
  /\ "uart" \in irqs /\ uart.from < bound.line
  /\ uart' = LineBrings(uart, bad)
  /\ Outside /\ UNCHANGED <<jtag, timer, hwVars>>

LineTake ==
  /\ uart.txdata # 0
  /\ uart' = LineTakes(uart)
  /\ Outside /\ UNCHANGED <<jtag, timer, hwVars>>

World ==
  \/ Tick \/ HostSend \/ HostPoll \/ Plug
  \/ \E bad \in BOOLEAN : LineBring(bad)
  \/ LineTake

Next == Call \/ Program \/ Handlers \/ World

Spec == Init /\ [][Next]_vars

(***************************************************************************)
(* The processor runs and takes interrupts that stay pending; the timer    *)
(* keeps ticking; a host that is connected polls the device and takes what *)
(* it is sent, and the line takes what it is sent.                         *)
(***************************************************************************)
FairSpec ==
  /\ Spec
  /\ WF_vars(Program \/ Handlers) /\ WF_vars(Handlers)
  /\ WF_vars(Tick)
  /\ WF_vars(HostPoll \/ LineTake)

-----------------------------------------------------------------------------
\* No character is lost, doubled or reordered between the program and the
\* host or the line, wherever interrupts fall among the steps of a call and
\* whatever the rings hold (altera_avalon_jtag_uart_*, altera_avalon_uart_*);
\* received ones can be overrun in the UART's register.
BytesKept == JtagKept(jtag) /\ UartKept(uart)

\* An alarm runs at its tick and never at another, also when the tick counter
\* rolls over between its start and its time (alt_alarm_start, alt_tick).
AlarmsExact == clock.exact

\* While a descriptor holds the lock of its device nobody gets a new one on
\* it: at most one other is open on it, with a higher number, overlooked when
\* the lock was granted (alt_fd_lock does not look at the highest descriptor).
\* Hence no two descriptors ever hold the lock of one device.
LockHeld ==
  \A i \in Fds : fds.flags[i].excl =>
    /\ Sharing(fds, i) \subseteq fds.older[i]
    /\ \A j, k \in fds.older[i] : j = k /\ i < j

\* A read that waits for characters nobody has sent.
Starved ==
  \/ /\ pc \in {"jtag_read", "jtag_read_wait"}
     /\ RxRing(jtag) = << >> /\ jtag.rxfifo = << >>
     /\ host \/ jtag.timeout >= INT_MAX - 1
  \/ /\ pc \in {"uart_read", "uart_read_wait"}
     /\ URx(uart) = << >> /\ ~uart.rrdy

\* A call that waits for a host that is gone, told to wait for ever.
WaitsForEver == ~host /\ jtag.timeout = INT_MAX - 1

\* Every call returns, or waits for input: blocking calls and close are not
\* left behind by an interrupt that was turned off too soon or not turned on
\* again, nor by a host that has gone.
CallReturns == pc # "idle" ~> (pc = "idle" \/ Starved \/ WaitsForEver)
=============================================================================

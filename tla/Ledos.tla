------------------------------- MODULE Ledos -------------------------------
(***************************************************************************)
(* The firmware: the main thread (init_ledos, then what the application    *)
(* calls), the HDMI interrupt handler, the idle thread, and what they      *)
(* share: one I2C master without a lock, one transfer buffer per driver.   *)
(*                                                                         *)
(* The main thread takes a step per access to the shared buffers and to    *)
(* the registers of the I2C master, so that the interrupt can fall between *)
(* any two of them.  Nothing interrupts the handler, unless it sleeps: its *)
(* steps are whole register operations.  A transfer is carried out when    *)
(* the configuration register is written; it uses whatever address and     *)
(* data the master's registers then hold.                                  *)
(*                                                                         *)
(* External parts: the two chips on the bus, the monitor, and the interrupt*)
(* line, which is high while a chip status bit is set and unmasked.        *)
(***************************************************************************)
EXTENDS Adv7513Regs, AudCodecRegs, TLC

CONSTANTS
  Apps,         \* what the main thread may be asked to run, see Prog
  Junk,         \* what an argument that is never given a value holds
  MaxPlugs,     \* bound on the changes of the monitor's two signals
  MaxNacks,     \* bound on the transfers a chip does not acknowledge
  NackIn,       \* where: kinds of operation of the main thread, "status", "handler"
  PlugInIsr,    \* may the monitor's signals change while the handler runs?
  IsrSleeps,    \* may the handler find the I2C master busy, and sleep?
  PowerOn,      \* what the chip's registers hold when it is not configured
  MSenseRetries, PwrOnRetries   \* the handler's retry counts (30, 200)

VARIABLES
  app,      \* what the main thread runs
  m,        \* its program counter: call, operation, stage, step of a transfer, regv
  asleep,   \* threads in chThdSleepMilliseconds
  isr,      \* the handler: thread it runs on, program counter, locals
  irqOn,    \* is the interrupt of the encoder enabled?
  i2c,      \* address and data registers of the master, busy, nack
  bffr,     \* adv7513_i2c_bffr and aud_codec_i2c_bffr
  adv,      \* the encoder: registers and register pointer
  codec,    \* the codec: registers and register pointer
  brd,      \* control registers of the board
  enc,      \* hpd fields of adv7513_encoder
  mon,      \* the monitor: hpd, sense, and whether its EDID has extensions
  plugs, nacks,  \* what is used up of the two bounds
  asked,    \* the last message the thread and the handler meant to write
  torn,     \* has a message been written that nobody meant?
  lost,     \* has an operation of the main thread failed?
  probed    \* the last nonzero report of hpd_probe, and whether it was repeated

vars == <<app, m, asleep, isr, irqOn, i2c, bffr, adv, codec, brd, enc, mon, plugs, nacks,
          asked, torn, lost, probed>>
swVars == <<bffr, brd, enc, irqOn, probed>>

-----------------------------------------------------------------------------
\* A call is a sequence of operations; stop: the first failure ends it.
CallOf(ops) == [ops |-> ops, stop |-> FALSE]
Guarded(ops) == [ops |-> ops, stop |-> TRUE]

init_ledos(junk) ==
  << CallOf(init_cortex(junk)), CallOf(aud_codec_init(BPS_24)), Guarded(adv7513_init) >>

Probe == [k |-> "probe", r |-> ADV7513_REG_STATUS]

\* "main" is main(); "fft" and "cap" add calls of the public interface; "poll"
\* is an application that uses hpd_probe and no interrupt, and configures a
\* video code the 3D routines know and one they do not.
MainProg == init_ledos(Junk)
FftProg == MainProg \o << CallOf(test_audio_fft), Guarded(aud_codec_dump_regs) >>
CapProg == MainProg \o << CallOf(pcm_cap("32K", BPS_24)),
                          CallOf(enable_audio_path("96K", 0)), CallOf(enable_audio_path("8K", 1)) >>
PollProg ==
  << Guarded(<<Probe>>), Guarded(<<Probe>>), Guarded(<<Probe>>),
     Guarded(do_hpd_powerup), Guarded(chip_init_3d(4, Junk)), Guarded(<<Probe>>),
     Guarded(chip_init_3d(40, Junk)), Guarded(<<Rd(\h3d)>>), Guarded(<<Probe>>),
     Guarded(do_hpd_powerdown) >>
Prog ==
  CASE app = "main" -> MainProg [] app = "fft" -> FftProg [] app = "cap" -> CapProg
    [] app = "poll" -> PollProg

Op == Prog[m.c].ops[m.o]
WithMonitor == app \in {"main", "poll"}
mdone == m.c > Len(Prog)

\* The operation after m.o, in the next call when the call is over or given up.
NextOp(fails) ==
  LET call == Prog[m.c]
  IN  IF m.o = Len(call.ops) \/ (fails /\ call.stop)
      THEN [c |-> m.c + 1, o |-> 1, s |-> "start", x |-> "", v |-> 0]
      ELSE [c |-> m.c, o |-> m.o + 1, s |-> "start", x |-> "", v |-> 0]

-----------------------------------------------------------------------------
(***************************************************************************)
(* The encoder.  Status bits are cleared by writing ones.  Powering the    *)
(* chip up makes it report a monitor it senses; the loss of hot-plug       *)
(* detect powers it down and takes its configuration.                      *)
(***************************************************************************)
ChipStatus == (IF mon.hpd THEN 2^ADV7513_STATUS_HPD ELSE 0)
              + (IF mon.sense THEN 2^ADV7513_STATUS_MONITOR_SENSE ELSE 0)
ChipRead(r) == CASE r = ADV7513_REG_STATUS -> ChipStatus
                 [] r \in AdvRegs -> adv.regs[r]
                 [] OTHER -> PowerOn
Sensed(regs) == [regs EXCEPT ![\h96] = SetBit(@, monitor_sense)]
ChipWrite(regs, r, v) ==
  CASE r \notin AdvRegs \/ r = ADV7513_REG_STATUS -> regs
    [] r \in Range(StatusRegs) -> [regs EXCEPT ![r] = AndNot(@, v)]
    [] r = \h41 /\ Bit(regs[r], 6) = 1 /\ Bit(v, 6) = 0 /\ mon.sense -> Sensed([regs EXCEPT ![r] = v])
    [] OTHER -> [regs EXCEPT ![r] = v]
\* The effect of a whole register operation.
ChipOp(regs, op) ==
  ChipWrite(regs, op.r, IF op.k = "wr" THEN op.d ELSE Merge(regs[op.r], op.mask, op.d))

INT == \E i \in 1..3, j \in 0..7 :
         Bit(adv.regs[MaskRegs[i]], j) = 1 /\ Bit(adv.regs[StatusRegs[i]], j) = 1

\* The codec: writing the reset register restores the defaults.
CodecDefaults == (0 :> \h97) @@ (1 :> \h97) @@ (2 :> \h79) @@ (3 :> \h79) @@ (4 :> \h0a) @@ (5 :> 8)
                 @@ (6 :> \h9f) @@ (7 :> \h0a) @@ (8 :> 0) @@ (9 :> 0) @@ (15 :> 0) @@ (16 :> \h7b)
                 @@ (17 :> \h32) @@ (18 :> 0)
CodecWrite(regs, i, v) ==
  CASE i = AUD_CODEC_RESET_IDX -> CodecDefaults
    [] i \in CodecRegs -> [regs EXCEPT ![i] = v]
    [] OTHER -> regs

-----------------------------------------------------------------------------
AdvAddr == \h72
CodecAddr == \h34
DevOf(op) == IF op.k \in {"cupd", "cwr", "crd"} THEN "codec" ELSE "adv"
AddrOf(op) == IF DevOf(op) = "codec" THEN CodecAddr ELSE AdvAddr
ReadLen(op) == IF DevOf(op) = "codec" THEN 2 ELSE 1

Init ==
  /\ app \in Apps
  /\ m = [c |-> 1, o |-> 1, s |-> "start", x |-> "", v |-> 0]
  /\ asleep = {}
  /\ isr = [on |-> "none", pc |-> "", i |-> 1, st |-> 0, n |-> 0, dvi |-> 0]
  /\ irqOn = FALSE
  /\ i2c = [addr |-> 0, cache |-> <<0, 0>>, busy |-> FALSE, nack |-> FALSE]
  /\ bffr = [adv |-> <<0, 0>>, codec |-> <<0, 0>>]
  /\ mon \in [hpd : BOOLEAN, sense : BOOLEAN, ext : BOOLEAN]
  /\ WithMonitor \/ mon = [hpd |-> FALSE, sense |-> FALSE, ext |-> FALSE]
  /\ adv = [regs |-> [r \in AdvRegs |-> IF r = \h41 THEN \h50 ELSE PowerOn], ptr |-> 0]
  /\ codec = [regs |-> CodecDefaults, ptr |-> 0]
  /\ brd = [dac |-> 0, adc |-> 0, bps |-> 0, fs |-> 0, bclk |-> 0, mode |-> 0, fgyrus |-> 0,
            i2c_clk |-> 0, reset |-> 0, cap_addr |-> 0, cap_done |-> 0]
  /\ enc = [latest |-> {}, hpd |-> 0]
  /\ plugs = 0 /\ nacks = 0
  /\ asked = [main |-> <<>>, isr |-> <<>>]
  /\ torn = FALSE /\ lost = FALSE
  /\ probed = [last |-> 0, again |-> FALSE]

\* The main thread runs when it neither sleeps nor is interrupted.
MainRuns == "main" \notin asleep /\ isr.on = "none" /\ ~mdone

-----------------------------------------------------------------------------
(***************************************************************************)
(* The main thread between two transfers.                                  *)
(***************************************************************************)
\* adv7513_hpd_probe, given the status it read.
hpd_probe(status) ==
  LET both == {ADV7513_STATUS_HPD, ADV7513_STATUS_MONITOR_SENSE}
      latest == Bits(status) \cap both
      event == (latest \cup enc.latest) \ (latest \cap enc.latest)
  IN  [latest |-> latest,
       hpd |-> CASE event # {} /\ latest = both -> 1
                 [] event # {} /\ latest # both /\ event \ latest # {} -> 0 - 1
                 [] OTHER -> 0]
\* An operation begins: a transfer buffer is filled, or the operation is done.
Begin ==
  /\ MainRuns /\ m.s = "start"
  /\ \/ /\ Op.k \in {"rd", "upd", "probe"}
        /\ bffr' = [bffr EXCEPT !.adv[1] = Op.r]
        /\ m' = [m EXCEPT !.s = "select", !.x = "addr"]
        /\ UNCHANGED <<asked, brd, irqOn, asleep>>
     \/ /\ Op.k \in {"crd", "cupd"}
        /\ bffr' = [bffr EXCEPT !.codec[1] = Op.i * 2]
        /\ m' = [m EXCEPT !.s = "select", !.x = "addr"]
        /\ UNCHANGED <<asked, brd, irqOn, asleep>>
     \/ /\ Op.k \in {"wr", "cwr"}
        /\ m' = [m EXCEPT !.s = "put", !.v = IF Op.k = "wr" THEN Op.d ELSE Op.v]
        /\ UNCHANGED <<bffr, asked, brd, irqOn, asleep>>
     \/ /\ Op.k = "io"
        /\ brd' = [brd EXCEPT ![Op.f] = Op.v]
        /\ m' = NextOp(FALSE)
        /\ UNCHANGED <<bffr, asked, irqOn, asleep>>
     \/ /\ Op.k = "irq"
        /\ irqOn' = Op.on
        /\ m' = NextOp(FALSE)
        /\ UNCHANGED <<bffr, asked, brd, asleep>>
     \/ /\ Op.k = "capwait"     \* sleeps, then looks
        /\ asleep' = asleep \cup {"main"}
        /\ m' = [m EXCEPT !.s = "capture"]
        /\ UNCHANGED <<bffr, asked, brd, irqOn>>
  /\ UNCHANGED <<app, isr, i2c, adv, codec, enc, mon, plugs, nacks, torn, lost, probed>>

CapPoll ==
  /\ MainRuns /\ m.s = "capture"
  /\ IF brd.cap_done = 1 THEN m' = NextOp(FALSE) /\ asleep' = asleep
                         ELSE m' = m /\ asleep' = asleep \cup {"main"}
  /\ UNCHANGED <<app, isr, irqOn, i2c, bffr, adv, codec, brd, enc, mon, plugs, nacks, asked, torn, lost, probed>>

\* The byte, or the codec's word, that was read is used.
Use ==
  /\ MainRuns /\ m.s = "value"
  /\ LET b == bffr[DevOf(Op)]
         val == IF DevOf(Op) = "codec" THEN (b[1] + 256 * b[2]) % 512 ELSE b[1]
     IN  CASE Op.k = "upd" ->
                m' = [m EXCEPT !.s = "put", !.v = Merge(val, Op.mask, Op.d)] /\ UNCHANGED <<enc, probed>>
           [] Op.k = "cupd" ->
                m' = [m EXCEPT !.s = "put", !.v = UPDATE_FIELD(val, Op.f, Op.v)] /\ UNCHANGED <<enc, probed>>
           [] Op.k = "probe" ->
                /\ enc' = hpd_probe(val)
                /\ probed' = IF enc'.hpd = 0 THEN probed
                             ELSE [last |-> enc'.hpd, again |-> enc'.hpd = 1 /\ probed.last = 1]
                /\ m' = NextOp(FALSE)
           [] OTHER -> m' = NextOp(FALSE) /\ UNCHANGED <<enc, probed>>
  /\ UNCHANGED <<app, asleep, isr, irqOn, i2c, bffr, adv, codec, brd, mon, plugs, nacks, asked, torn, lost>>

\* The buffer is packed for a write: register and data for the encoder; for
\* the codec index and the ninth bit, then eight bits (byte_rev_i2c_arry).
Put ==
  /\ MainRuns /\ m.s = "put"
  /\ LET msg == IF DevOf(Op) = "adv" THEN <<Op.r, m.v>>
                ELSE <<Op.i * 2 + m.v \div 256, m.v % 256>>
     IN  /\ bffr' = [bffr EXCEPT ![DevOf(Op)] = msg]
         /\ asked' = [asked EXCEPT !.main = <<AddrOf(Op)>> \o msg]
  /\ m' = [m EXCEPT !.s = "send", !.x = "addr"]
  /\ UNCHANGED <<app, asleep, isr, irqOn, i2c, adv, codec, brd, enc, mon, plugs, nacks, torn, lost, probed>>

-----------------------------------------------------------------------------
(***************************************************************************)
(* i2c_xtn_write and i2c_xtn_read of the main thread.                      *)
(***************************************************************************)
InXfer == MainRuns /\ m.s \in {"select", "read", "send"}
NumBytes == CASE m.s = "select" -> 1 [] m.s = "send" -> 2 [] OTHER -> ReadLen(Op)

XtnAddr ==
  /\ InXfer /\ m.x = "addr"
  /\ i2c' = [i2c EXCEPT !.addr = AddrOf(Op) + (IF m.s = "read" THEN 1 ELSE 0)]
  /\ m' = [m EXCEPT !.x = IF m.s = "read" THEN "config" ELSE "data1"]
  /\ UNCHANGED <<app, asleep, isr, swVars, adv, codec, mon, plugs, nacks, asked, torn, lost>>

XtnData ==
  /\ InXfer /\ m.x \in {"data1", "data2"}
  /\ LET n == IF m.x = "data1" THEN 1 ELSE 2
     IN  /\ i2c' = [i2c EXCEPT !.cache[n] = bffr[DevOf(Op)][n]]
         /\ m' = [m EXCEPT !.x = IF n < NumBytes THEN "data2" ELSE "config"]
  /\ UNCHANGED <<app, asleep, isr, swVars, adv, codec, mon, plugs, nacks, asked, torn, lost>>

\* The transfer the master makes of its registers: a write of n bytes, or a
\* read.  A read with a write address, or the reverse, reaches no register.
Transfer(n, rd, nack) ==
  LET b == i2c.cache
      odd == i2c.addr % 2 = 1
      dev == IF i2c.addr \div 2 = CodecAddr \div 2 THEN "codec" ELSE "adv"
      word == IF codec.ptr \in CodecRegs THEN codec.regs[codec.ptr] ELSE 0
      msg == <<i2c.addr, b[1], b[2]>>
  IN  /\ i2c' = [i2c EXCEPT !.busy = TRUE, !.nack = nack,
                   !.cache = CASE nack \/ ~rd -> b
                               [] ~odd -> <<255, 255>>
                               [] dev = "codec" -> <<word % 256, word \div 256>>
                               [] OTHER -> <<ChipRead(adv.ptr), b[2]>>]
      /\ adv' = CASE nack \/ rd \/ odd \/ dev = "codec" -> adv
                  [] n = 1 -> [adv EXCEPT !.ptr = b[1]]
                  [] OTHER -> [regs |-> ChipWrite(adv.regs, b[1], b[2]), ptr |-> b[1] + 1]
      /\ codec' = CASE nack \/ rd \/ odd \/ dev = "adv" -> codec
                    [] n = 1 -> [codec EXCEPT !.ptr = b[1] \div 2]
                    [] OTHER -> [regs |-> CodecWrite(codec.regs, b[1] \div 2, (b[1] % 2) * 256 + b[2]),
                                 ptr |-> codec.ptr]
      /\ torn' = (torn \/ (~rd /\ n = 2 /\ ~nack /\ msg \notin {asked.main, asked.isr}))

XtnConfig ==
  /\ InXfer /\ m.x = "config" /\ ~i2c.busy
  /\ \E nack \in BOOLEAN :
       /\ nack => nacks < MaxNacks /\ Op.k \in NackIn
       /\ nacks' = nacks + (IF nack THEN 1 ELSE 0)
       /\ Transfer(NumBytes, m.s = "read", nack)
  /\ m' = [m EXCEPT !.x = "poll"]
  /\ UNCHANGED <<app, asleep, isr, swVars, mon, plugs, asked, lost>>

\* The transfer is over: a chip that does not acknowledge fails the operation.
\* aud_codec_read_reg, aud_codec_write_reg and reg_read, reg_write return then.
XtnDone ==
  /\ InXfer /\ m.x = "poll" /\ ~i2c.busy
  /\ lost' = (lost \/ i2c.nack)
  /\ m' = CASE i2c.nack -> NextOp(TRUE)
            [] m.s = "select" -> [m EXCEPT !.s = "read", !.x = "addr"]
            [] m.s = "read" -> [m EXCEPT !.x = "get1"]
            [] OTHER -> NextOp(FALSE)
  /\ UNCHANGED <<app, asleep, isr, swVars, i2c, adv, codec, mon, plugs, nacks, asked, torn>>

XtnGet ==
  /\ InXfer /\ m.x \in {"get1", "get2"}
  /\ LET n == IF m.x = "get1" THEN 1 ELSE 2
     IN  /\ bffr' = [bffr EXCEPT ![DevOf(Op)][n] = i2c.cache[n]]
         /\ m' = IF n < NumBytes THEN [m EXCEPT !.x = "get2"] ELSE [m EXCEPT !.s = "value", !.x = ""]
  /\ UNCHANGED <<app, asleep, isr, irqOn, i2c, adv, codec, brd, enc, mon, plugs, nacks, asked, torn, lost, probed>>

-----------------------------------------------------------------------------
(***************************************************************************)
(* The handler.  Its phases are the loops and the sequences of the code;   *)
(* a failure before the masks are written returns at once, and the line is *)
(* still high; a failure of the power-up or the configuration leaves by    *)
(* __unplugged_iret; one of the writes to masks and statuses is ignored.   *)
(***************************************************************************)
Handler == isr.on # "none" /\ isr.on \notin asleep
Plugged94 == [int_mask EXCEPT ![\h94] = AndNot(@, 2^monitor_sense)]

ChipInit == (0 :> chip_init(0)) @@ (1 :> chip_init(1))

\* Mutant: the status registers are not cleared.
PhaseOps_NoClear ==
  CASE isr.pc = "off" -> MasksOff
    [] isr.pc = "power" -> do_hpd_powerup
    [] isr.pc = "config" -> ChipInit[isr.dvi]
    [] isr.pc = "unplugged" -> Masks(int_mask)
    [] isr.pc = "plugged" -> Masks(Plugged94)
PhaseOps ==
  CASE isr.pc = "off" -> MasksOff \o (IF isr.st # 0 THEN << Wr(\h96, \hff) >> ELSE << >>)
    [] isr.pc = "power" -> do_hpd_powerup
    [] isr.pc = "config" -> ChipInit[isr.dvi]
    [] isr.pc = "unplugged" -> Masks(int_mask)
    [] isr.pc = "plugged" -> Masks(Plugged94)

Phase(pc) == [isr EXCEPT !.pc = pc, !.i = 1]
Return == [on |-> "none", pc |-> "", i |-> 1, st |-> 0, n |-> 0, dvi |-> 0]

\* What the handler does next when a phase is over.
AfterPhase ==
  CASE isr.pc = "off" ->
         IF Bit(isr.st, hpd) = 1 \/ Bit(isr.st, monitor_sense) = 1
         THEN [Phase("sense") EXCEPT !.n = MSenseRetries] ELSE Phase("unplugged")
    [] isr.pc = "power" -> Phase("edid")
    [] isr.pc = "config" -> Phase("state")
    [] OTHER -> Return

\* Mutant: the handler has a buffer of its own, but not its own I2C master.
IsrWrites_OwnBuffer(op, fails) ==
  \E v \in {IF op.k = "wr" THEN op.d ELSE Merge(ChipRead(op.r), op.mask, op.d)} :
    IF fails THEN UNCHANGED <<i2c, bffr, adv, asked>>
    ELSE /\ i2c' = [i2c EXCEPT !.addr = AdvAddr, !.cache = <<op.r, v>>]
         /\ adv' = [regs |-> ChipWrite(adv.regs, op.r, v), ptr |-> op.r + 1]
         /\ asked' = [asked EXCEPT !.isr = <<AdvAddr, op.r, v>>]
         /\ UNCHANGED bffr

\* A register operation of the handler, and the traces it leaves behind in
\* the master's registers and in the buffer it shares with the main thread.
IsrWrites(op, fails) ==
  \E v \in {IF op.k = "wr" THEN op.d ELSE Merge(ChipRead(op.r), op.mask, op.d)} :
    IF fails
    THEN /\ \E odd \in {0, 1} : i2c' = [i2c EXCEPT !.addr = AdvAddr + odd, !.cache[1] = op.r]
         /\ bffr' = [bffr EXCEPT !.adv[1] = op.r]
         /\ UNCHANGED <<adv, asked>>
    ELSE /\ i2c' = [i2c EXCEPT !.addr = AdvAddr, !.cache = <<op.r, v>>]
         /\ bffr' = [bffr EXCEPT !.adv = <<op.r, v>>]
         /\ adv' = [regs |-> ChipWrite(adv.regs, op.r, v), ptr |-> op.r + 1]
         /\ asked' = [asked EXCEPT !.isr = <<AdvAddr, op.r, v>>]

IsrReads(r, fails) ==
  /\ \E odd \in (IF fails THEN {0, 1} ELSE {1}) :
       i2c' = [i2c EXCEPT !.addr = AdvAddr + odd, !.cache[1] = IF fails THEN r ELSE ChipRead(r)]
  /\ bffr' = [bffr EXCEPT !.adv[1] = IF fails THEN r ELSE ChipRead(r)]
  /\ adv' = IF fails THEN adv ELSE [adv EXCEPT !.ptr = r]

\* A transfer of the handler may fail, in the parts NackIn names.
MayFail(fails) ==
  /\ fails => /\ nacks < MaxNacks
              /\ (IF isr.pc = "status" THEN "status" ELSE "handler") \in NackIn
  /\ nacks' = nacks + (IF fails THEN 1 ELSE 0)

TakeIrq ==
  /\ irqOn /\ INT /\ isr.on = "none"
  /\ ~i2c.busy \/ IsrSleeps
  /\ isr' = [Return EXCEPT !.on = IF "main" \in asleep THEN "idle" ELSE "main", !.pc = "status"]
  /\ isr'.on \notin asleep
  /\ UNCHANGED <<app, m, asleep, swVars, i2c, adv, codec, mon, plugs, nacks, asked, torn, lost>>

\* 0x93, 0x96, 0x97 are read; only 0x96 is looked at by what follows.
ReadStatus ==
  /\ Handler /\ isr.pc = "status" /\ ~i2c.busy
  /\ \E fails \in BOOLEAN :
       /\ MayFail(fails)
       /\ IsrReads(StatusRegs[isr.i], fails)
       /\ isr' = CASE fails -> Return
                   [] isr.i = 1 -> [isr EXCEPT !.i = 2]
                   [] isr.i = 2 -> [isr EXCEPT !.i = 3, !.st = adv.regs[\h96]]
                   [] OTHER -> Phase("off")
  /\ UNCHANGED <<app, m, asleep, irqOn, codec, brd, enc, mon, plugs, asked, torn, lost, probed>>

\* The next operation of a phase.
DoPhase ==
  /\ Handler /\ isr.pc \in {"off", "power", "config", "unplugged", "plugged"} /\ ~i2c.busy
  /\ \E fails \in BOOLEAN, op \in {PhaseOps[isr.i]} :
       /\ MayFail(fails)
       /\ IsrWrites(op, fails)
       /\ isr' = CASE fails /\ isr.pc \in {"power", "config"} -> Phase("unplugged")
                   [] isr.i = Len(PhaseOps) -> AfterPhase
                   [] OTHER -> [isr EXCEPT !.i = @ + 1]
  /\ UNCHANGED <<app, m, asleep, irqOn, codec, brd, enc, mon, plugs, torn, lost, probed>>

\* The wait for hot-plug detect and monitor sense together.
SenseLoop ==
  /\ Handler /\ isr.pc = "sense" /\ ~i2c.busy
  /\ \E fails \in BOOLEAN :
       /\ MayFail(fails)
       /\ IsrReads(ADV7513_REG_STATUS, fails)
       /\ isr' = CASE fails -> Phase("unplugged")
                   [] mon.hpd /\ mon.sense -> Phase("power")
                   [] isr.n = 1 -> Phase("unplugged")
                   [] OTHER -> [isr EXCEPT !.n = @ - 1]
  /\ UNCHANGED <<app, m, asleep, irqOn, codec, brd, enc, mon, plugs, asked, torn, lost, probed>>

\* adv7513_edid_read: 256 bytes from the EDID address.  Without them, or
\* without an extension block, the monitor is taken for a DVI one.
ReadEdid ==
  /\ Handler /\ isr.pc = "edid" /\ ~i2c.busy
  /\ \E fails \in BOOLEAN :
       /\ MayFail(fails)
       /\ i2c' = [i2c EXCEPT !.addr = \h7e + 1]
       /\ isr' = [Phase("config") EXCEPT !.dvi = IF fails \/ ~mon.ext THEN 1 ELSE 0, !.n = PwrOnRetries]
  /\ UNCHANGED <<app, m, asleep, swVars, adv, codec, mon, plugs, asked, torn, lost>>

\* The power state is read after each configuration, and once more after the loop.
CheckState ==
  /\ Handler /\ isr.pc \in {"state", "state2"} /\ ~i2c.busy
  /\ \E fails \in BOOLEAN :
       /\ MayFail(fails)
       /\ IsrReads(\h41, fails)
       /\ LET up == power_state(adv.regs[\h41]) = 1
          IN  isr' = CASE fails -> Phase("unplugged")
                       [] isr.pc = "state" /\ (up \/ isr.n = 1) -> Phase("state2")
                       [] isr.pc = "state" -> [Phase("config") EXCEPT !.n = @ - 1]
                       [] OTHER -> Phase(IF up THEN "plugged" ELSE "unplugged")
  /\ UNCHANGED <<app, m, asleep, irqOn, codec, brd, enc, mon, plugs, asked, torn, lost, probed>>

-----------------------------------------------------------------------------
(***************************************************************************)
(* A poll that finds the master busy sleeps for a millisecond, whoever     *)
(* polls: the thread that runs goes off the ready list.  The handler runs  *)
(* on the thread it interrupted.  When that is the main thread, the idle   *)
(* thread runs with interrupts enabled, and a line that is still high      *)
(* enters the handler again, on the idle thread, whose first poll sleeps.  *)
(***************************************************************************)
PollBusy ==
  /\ \/ /\ InXfer /\ m.x = "poll" /\ i2c.busy
        /\ asleep' = asleep \cup {"main"}
     \/ /\ IsrSleeps /\ Handler
        /\ asleep' = asleep \cup {isr.on}
     \/ /\ IsrSleeps /\ isr.on = "main" /\ "main" \in asleep /\ irqOn /\ INT
        /\ asleep' = asleep \cup {"idle"}
  /\ UNCHANGED <<app, m, isr, swVars, i2c, adv, codec, mon, plugs, nacks, asked, torn, lost>>

\* The tick wakes a sleeper; the idle thread off the ready list is the end.
Wake ==
  /\ "main" \in asleep /\ "idle" \notin asleep
  /\ isr.on # "idle"
  /\ asleep' = {}
  /\ UNCHANGED <<app, m, isr, swVars, i2c, adv, codec, mon, plugs, nacks, asked, torn, lost>>

I2cDone ==
  /\ i2c.busy
  /\ i2c' = [i2c EXCEPT !.busy = FALSE]
  /\ UNCHANGED <<app, m, asleep, isr, swVars, adv, codec, mon, plugs, nacks, asked, torn, lost>>

\* The capture buffers fill while the driver samples in capture mode.
CapDone ==
  /\ brd.adc = 1 /\ brd.mode = 1 /\ brd.cap_done = 0
  /\ brd' = [brd EXCEPT !.cap_done = 1]
  /\ UNCHANGED <<app, m, asleep, isr, irqOn, i2c, bffr, adv, codec, enc, mon, plugs, nacks, asked, torn, lost, probed>>

\* The monitor: each change of a signal raises its status bit.  What happens
\* to it before the encoder is first accessed is the choice of Init.
PlugChange(signal) ==
  /\ WithMonitor /\ plugs < MaxPlugs
  /\ IF app = "main" THEN m.c >= 3 ELSE ~mdone /\ m.s = "start" /\ Op.k = "probe"
  /\ isr.on = "none" \/ PlugInIsr
  /\ plugs' = plugs + 1
  /\ mon' = [mon EXCEPT ![signal] = ~@]
  /\ LET bit == IF signal = "hpd" THEN hpd ELSE monitor_sense
         raised == [adv.regs EXCEPT ![\h96] = SetBit(@, bit)]
         kept == Range(MaskRegs) \cup Range(StatusRegs)
     IN  adv' = [adv EXCEPT !.regs =
           IF signal = "hpd" /\ mon.hpd
           THEN [r \in AdvRegs |-> CASE r \in kept -> raised[r] [] r = \h41 -> \h50 [] OTHER -> PowerOn]
           ELSE raised]
  /\ UNCHANGED <<app, m, asleep, isr, swVars, i2c, codec, nacks, asked, torn, lost>>

Xtn == XtnAddr \/ XtnData \/ XtnConfig \/ XtnDone \/ XtnGet
MainStep == Begin \/ CapPoll \/ Use \/ Put \/ Xtn \/ PollBusy \/ Wake
IsrStep == TakeIrq \/ ReadStatus \/ DoPhase \/ SenseLoop \/ ReadEdid \/ CheckState

Next ==
  \/ Begin \/ CapPoll \/ Use \/ Put
  \/ XtnAddr \/ XtnData \/ XtnConfig \/ XtnDone \/ XtnGet
  \/ TakeIrq \/ ReadStatus \/ DoPhase \/ SenseLoop \/ ReadEdid \/ CheckState
  \/ PollBusy \/ Wake \/ I2cDone \/ CapDone
  \/ \E signal \in {"hpd", "sense"} : PlugChange(signal)

Spec == Init /\ [][Next]_vars

\* The processor runs (which of thread and handler is not assumed), the master
\* finishes its transfers, samples come in.
FairSpec ==
  /\ Spec
  /\ WF_vars(MainStep \/ IsrStep) /\ WF_vars(I2cDone) /\ WF_vars(CapDone)

-----------------------------------------------------------------------------
(***************************************************************************)
(* NoTornWrite.  Thread and handler use one I2C master and one transfer    *)
(* buffer without a lock, yet no register of the encoder or of the codec   *)
(* is ever written with a mixture of their two messages: every write that  *)
(* reaches a chip is one that the thread or the handler put together.  The *)
(* handler leaves whole messages behind, unless its status read fails.     *)
(***************************************************************************)
NoTornWrite == nacks = 0 => ~torn

(***************************************************************************)
(* MonitorServed.  When the initialisation is over, no operation of it     *)
(* failed and no write was torn, and no interrupt is                       *)
(* being or waiting to be served, the encoder agrees with the monitor: one *)
(* that is connected and sensed finds it powered up and configured, in the *)
(* mode its EDID asks for, also when it was there before the reset; for    *)
(* one that is gone every interrupt that could announce the next is open.  *)
(***************************************************************************)
Configured ==
  LET ops == do_hpd_powerup \o ChipInit[IF mon.ext THEN 0 ELSE 1]
      again == FoldLeft(ChipOp, adv.regs, ops)
  IN  \A r \in AdvRegs \ Range(StatusRegs) : again[r] = adv.regs[r]
Quiet == mdone /\ isr.on = "none" /\ ~(irqOn /\ INT)
MonitorServed ==
  Quiet /\ irqOn /\ ~lost /\ ~torn =>
    /\ mon.hpd /\ mon.sense => Configured
    /\ ~mon.hpd => adv.regs[\h94] = int_mask[\h94]
    /\ mon.hpd /\ ~mon.sense => Configured \/ adv.regs[\h94] = int_mask[\h94]

PathOpen ==
  /\ EXTRACT_FIELD(codec.regs, "ACTIVE") = 1
  /\ \A f \in {"OUTPD", "ADCPD", "DACPD"} : EXTRACT_FIELD(codec.regs, f) = 0

(***************************************************************************)
(* AudioCoherent.  As long as no transfer failed, whenever samples pass    *)
(* through the codec (it is active, converters and outputs are powered)    *)
(* the serial driver of the board uses the codec's word length, and its    *)
(* frame divider belongs to the sampling rate the codec is set to.         *)
(***************************************************************************)
AudioCoherent ==
  PathOpen /\ ~lost =>
    /\ EXTRACT_FIELD(codec.regs, "IWL") = brd.bps
    /\ \E fs \in FS_T : /\ EXTRACT_FIELD(codec.regs, "SR") = fs2sr_lookup[fs]
                        /\ EXTRACT_FIELD(codec.regs, "BOSR") = fs2bosr_lookup[fs]
                        /\ brd.fs = fs2fs_div_lookup[fs]

(***************************************************************************)
(* ProbeAlternates.  hpd_probe does not report a connection twice without  *)
(* a disconnection in between, whatever the two signals do between probes  *)
(* and also when a probe's read fails.                                     *)
(***************************************************************************)
ProbeAlternates == ~probed.again

(***************************************************************************)
(* HotPlugHandled.  Connections are neither left unserved nor reported     *)
(* twice (adv7513_int_handler and adv7513_hpd_probe).                      *)
(***************************************************************************)
HotPlugHandled == MonitorServed /\ ProbeAlternates

(***************************************************************************)
(* Settles.  The main thread gets through its calls, its waits included,   *)
(* and every interrupt is served for good: a status read that failed is    *)
(* made up for, since the line stays high and the handler is entered again.*)
(***************************************************************************)
Settles == <>[]Quiet
=============================================================================

----------------------------- MODULE AudioPath ------------------------------
(***************************************************************************)
(* The audio path of acortex, clock by clock: ssm2603_drvr, the serial     *)
(* driver of the codec, and pcm_bffr, the two banks that ADC samples are   *)
(* written to and DAC samples are read from in turns.  The codec is        *)
(* external.                                                               *)
(*                                                                         *)
(* A step is one edge of clk, on which the firmware may write one of the   *)
(* registers.  A PCM word is its channel and the number of its sample,     *)
(* counted modulo NUM_IDS; the bits of a word are not told apart, a word   *)
(* of which only some bits are known is Unknown.                           *)
(***************************************************************************)
EXTENDS Integers, FiniteSets

CONSTANTS
  NUM_SAMPLES,   \* samples per bank (128 in the RTL)
  BPS,           \* bits per channel (16, 20, 24 or 32)
  BCLK_DIV,      \* bclk_div_val (10 in the firmware)
  FsVals,        \* values of fs_val (104 to 1250 in the firmware)
  NUM_IDS,       \* sample numbers told apart
  MaxWrites      \* bound: register writes

(***************************************************************************)
(* A frame holds two channels, and from the end of its right channel to    *)
(* the next left channel seven clocks pass: the time the read pipeline of  *)
(* pcm_bffr takes to present the next sample.                              *)
(***************************************************************************)
ASSUME AudioAssumption ==
  /\ NUM_SAMPLES \in Nat \ {0} /\ BPS \in Nat \ {0} /\ BCLK_DIV \in Nat \ {0}
  /\ \A fs \in FsVals : /\ fs \in Nat /\ fs >= 2 * BPS
                        /\ (fs - 2 * BPS + 1) * (BCLK_DIV + 1) >= 7
  /\ NUM_IDS \in Nat /\ NUM_IDS > 2 * NUM_SAMPLES
  /\ MaxWrites \in Nat

Bit == {0, 1}
Unknown == [ch |-> "X", n |-> 0]
Word == [ch : {"L", "R"}, n : 0 .. NUM_IDS - 1] \cup {Unknown}
Addr == [msb : Bit, idx : 0 .. NUM_SAMPLES - 1]

lpcm_lsb_offset == BPS
rpcm_lsb_offset == 2 * BPS

VARIABLES
  dac_en, adc_en, fs_val,                   \* ssm2603_drvr: registers
  fsm, fs_cntr, bclk_cntr, AUD_BCLK,        \* FSM and clock dividers
  dac_pcm_nxt, prep_adc_data, adc_pcm_valid,\* pulses
  adc_data,                                 \* adc_lpcm_data, adc_rpcm_data
  AUD_ADCLRCK, AUD_DACLRCK,
  bffr_mode, cap_done,                      \* pcm_bffr: registers
  adc_pcm_valid_1d, dac_data_rdy, dac_data_rdy_1d, dac_pcm_nxt_1d,
  dac_pcm_nxt_2d, fwft_refresh, fwft_refresh_1d, acortex2fgyrus_pcm_rdy,
  pcm_waddr, pcm_raddr, bffr_a_n_b_sel, mem_rd_del_vec,
  mem,                                      \* banks "a", "b", and "f" for fgyrus
  raddr_f, q,                               \* RAM registers: address, outputs
  dac_data,                                 \* dac_lpcm_data, dac_rpcm_data
  codec,       \* the codec: the number of its sample, whether it was clocked in
  tx,          \* the codec: words seen in the two channels of this frame
  writes,      \* ghost: register writes so far
  heard,       \* ghost: number of the last sample the codec was sent; -1: none
               \*        yet; -2: not the two channels of one sample, or not
               \*        the sample after the one before
  clean,       \* ghost: the ADC was enabled at rest with the buffer at its
               \*        start, the DAC not later than the first bank was full,
               \*        and nothing else was written since
  raced,       \* ghost: the control register was written between the two
               \*        channels of a sample
  fresh        \* ghost: addresses of bank a written since the control register

drvVars == <<dac_en, adc_en, fs_val, fsm, fs_cntr, bclk_cntr, AUD_BCLK,
             dac_pcm_nxt, prep_adc_data, adc_pcm_valid, adc_data,
             AUD_ADCLRCK, AUD_DACLRCK>>
bufVars == <<bffr_mode, cap_done, adc_pcm_valid_1d, dac_data_rdy,
             dac_data_rdy_1d, dac_pcm_nxt_1d, dac_pcm_nxt_2d, fwft_refresh,
             fwft_refresh_1d, acortex2fgyrus_pcm_rdy, pcm_waddr, pcm_raddr,
             bffr_a_n_b_sel, mem_rd_del_vec, mem, raddr_f, q, dac_data>>
ghosts == <<writes, heard, clean, raced, fresh>>
vars == <<drvVars, bufVars, codec, tx, ghosts>>

B(p) == IF p THEN 1 ELSE 0

\* A register write of this clock, or none.
Origin == [msb |-> 0, idx |-> 0]
RegWrite(reg, adc, dac, fs, mode, addr) ==
  [reg |-> reg, adc |-> adc, dac |-> dac, fs |-> fs, mode |-> mode, addr |-> addr]
NoWrite == RegWrite("none", 0, 0, 0, 0, Origin)
Writes ==
  {NoWrite}
    \cup {RegWrite("config", a, d, 0, 0, Origin) : a, d \in Bit}
    \cup {RegWrite("fs_val", 0, 0, f, 0, Origin) : f \in FsVals}
    \cup {RegWrite("control", 0, 0, 0, m, Origin) : m \in Bit}
    \cup {RegWrite("cap_addr", 0, 0, 0, 0, a) : a \in Addr}

ToControl(w) == w.reg = "control"
ToBffr(w) == w.reg \in {"control", "cap_addr"}

-----------------------------------------------------------------------------
(***************************************************************************)
(* ssm2603_drvr                                                            *)
(***************************************************************************)
bclk_tck == bclk_cntr = BCLK_DIV
bclk_tck_by_2 == bclk_cntr = BCLK_DIV \div 2 \/ bclk_tck
fs_tck == fs_cntr = fs_val /\ bclk_tck
RightDone == fs_cntr = rpcm_lsb_offset /\ bclk_tck

\* Mutant: both directions wait for data in the buffer.
Wanted_Rdy == dac_data_rdy = 1 /\ (adc_en = 1 \/ dac_en = 1)
Wanted == adc_en = 1 \/ (dac_en = 1 /\ dac_data_rdy = 1)
Restart == IF Wanted THEN "LRCK" ELSE "IDLE"

next_state ==
  CASE fsm = "IDLE" -> Restart
    [] fsm = "LRCK" /\ bclk_tck -> "LCHANNEL"
    [] fsm = "LCHANNEL" /\ bclk_tck /\ fs_cntr = lpcm_lsb_offset -> "RCHANNEL"
    [] fsm = "RCHANNEL" /\ RightDone -> IF fs_tck THEN Restart ELSE "WAIT_FOR_FS"
    [] fsm = "WAIT_FOR_FS" /\ fs_tck -> Restart
    [] OTHER -> fsm

DrvrClocks ==
  /\ fsm' = next_state
  /\ fs_cntr' = IF fs_tck \/ fsm = "IDLE" THEN 0 ELSE fs_cntr + B(bclk_tck)
  /\ bclk_cntr' = IF bclk_tck \/ fsm = "IDLE" THEN 0 ELSE bclk_cntr + 1
  /\ AUD_BCLK' = IF fsm = "IDLE" THEN 0
                 ELSE IF bclk_tck_by_2 THEN 1 - AUD_BCLK ELSE AUD_BCLK

\* Mutant: the DAC's word is asked for whether or not there is one.
DacPulse_Always == dac_pcm_nxt' = B(RightDone /\ dac_en = 1)
DacPulse == dac_pcm_nxt' = B(RightDone /\ dac_en = 1 /\ dac_data_rdy = 1)

DrvrPulses ==
  /\ DacPulse
  /\ prep_adc_data' = B(RightDone /\ adc_en = 1)
  /\ adc_pcm_valid' = prep_adc_data
  /\ AUD_DACLRCK' = B(fsm = "LRCK" /\ dac_en = 1 /\ dac_data_rdy = 1)
  /\ AUD_ADCLRCK' = B(fsm = "LRCK" /\ adc_en = 1)

\* The word on the wire: the codec's sample, if it was clocked into the frame.
FromCodec(ch, last) ==
  IF codec.on = 1 /\ fs_cntr = last THEN [ch |-> ch, n |-> codec.n] ELSE Unknown

\* Bits are shifted in where the bit clock rises.
AdcShift ==
  adc_data' =
    IF bclk_tck_by_2 /\ AUD_BCLK = 0 /\ fsm = "LCHANNEL"
    THEN [adc_data EXCEPT !.l = FromCodec("L", lpcm_lsb_offset)]
    ELSE IF bclk_tck_by_2 /\ AUD_BCLK = 0 /\ fsm = "RCHANNEL"
    THEN [adc_data EXCEPT !.r = FromCodec("R", rpcm_lsb_offset)]
    ELSE adc_data

DrvrWrite(w) ==
  /\ IF w.reg = "config" THEN adc_en' = w.adc /\ dac_en' = w.dac
                         ELSE UNCHANGED <<adc_en, dac_en>>
  /\ fs_val' = IF w.reg = "fs_val" THEN w.fs ELSE fs_val

\* enable_audio_path sets the rate after the driver was switched off and the
\* codec was written to over I2C, long after the last frame has ended;
\* dump_acache_cap_data is called in capture mode.
FirmwareOrder(w) ==
  /\ w.reg = "fs_val" => fsm = "IDLE" /\ adc_en = 0 /\ dac_en = 0
  /\ w.reg = "cap_addr" => bffr_mode = 1

-----------------------------------------------------------------------------
(***************************************************************************)
(* pcm_bffr                                                                *)
(***************************************************************************)
adc_pcm_valid_extended == adc_pcm_valid = 1 \/ adc_pcm_valid_1d = 1
dac_pcm_nxt_extended == dac_pcm_nxt_1d = 1 \/ dac_pcm_nxt_2d = 1

LastAddr == [msb |-> 1, idx |-> NUM_SAMPLES - 1]

\* Mutant: the banks are switched when the left channel is written.
switch_banks_Left ==
  adc_pcm_valid_extended /\ pcm_waddr = [LastAddr EXCEPT !.msb = 0]
switch_banks == adc_pcm_valid_extended /\ pcm_waddr = LastAddr

Flip(b, c) == IF c THEN 1 - b ELSE b

\* A write to any register of pcm_bffr leaves a switch of banks unnoticed.
ControlRegs(w) ==
  IF ToBffr(w)
  THEN /\ bffr_mode' = IF ToControl(w) THEN w.mode ELSE bffr_mode
       /\ cap_done' = IF ToControl(w) /\ w.mode = 1 THEN 0 ELSE cap_done
  ELSE /\ UNCHANGED bffr_mode
       /\ cap_done' = IF bffr_mode = 0 THEN 0
                      ELSE IF switch_banks THEN 1 ELSE cap_done

Delays ==
  /\ adc_pcm_valid_1d' = adc_pcm_valid
  /\ dac_data_rdy_1d' = dac_data_rdy
  /\ dac_pcm_nxt_1d' = dac_pcm_nxt
  /\ dac_pcm_nxt_2d' = dac_pcm_nxt_1d
  /\ fwft_refresh_1d' = fwft_refresh
  /\ fwft_refresh' = IF fwft_refresh = 0
                     THEN B(dac_data_rdy = 1 /\ dac_data_rdy_1d = 0)
                     ELSE 1 - fwft_refresh_1d
  /\ acortex2fgyrus_pcm_rdy' = B(switch_banks)

WriteAddr(w) ==
  IF ToControl(w) THEN pcm_waddr' = Origin /\ dac_data_rdy' = 0
  ELSE /\ pcm_waddr' =
            [msb |-> Flip(pcm_waddr.msb, adc_pcm_valid_extended),
             idx |-> (pcm_waddr.idx + adc_pcm_valid_1d) % NUM_SAMPLES]
       /\ dac_data_rdy' = IF switch_banks THEN 1 ELSE dac_data_rdy

ReadAddr(w) ==
  pcm_raddr' =
    IF bffr_mode = 1 THEN (IF w.reg = "cap_addr" THEN w.addr ELSE pcm_raddr)
    ELSE IF ToControl(w) THEN Origin
    ELSE [msb |-> Flip(pcm_raddr.msb, dac_pcm_nxt_extended \/ fwft_refresh = 1),
          idx |-> (pcm_raddr.idx + dac_pcm_nxt_1d) % NUM_SAMPLES]

BankSelect(w) ==
  bffr_a_n_b_sel' = IF bffr_mode = 1 \/ ToControl(w) THEN 1
                    ELSE Flip(bffr_a_n_b_sel, switch_banks)

\* The banks written on this clock.
Written ==
  IF adc_pcm_valid_extended
  THEN {"f", IF bffr_a_n_b_sel = 1 THEN "a" ELSE "b"} ELSE {}
pcm_mem_wdata == IF adc_pcm_valid = 1 THEN adc_data.l ELSE adc_data.r

\* A word read while it is being written is not defined.
Memories ==
  /\ mem' = [b \in {"a", "b", "f"} |->
               IF b \in Written THEN [mem[b] EXCEPT ![pcm_waddr] = pcm_mem_wdata]
                                ELSE mem[b]]
  /\ raddr_f' = pcm_raddr
  /\ q' = [b \in {"a", "b"} |->
             IF b \in Written /\ raddr_f = pcm_waddr THEN Unknown
                                                     ELSE mem[b][raddr_f]]

bffr_pcm_rdata == IF bffr_a_n_b_sel = 1 THEN q["b"] ELSE q["a"]

DacRegs ==
  /\ mem_rd_del_vec' = <<pcm_raddr.msb, mem_rd_del_vec[1]>>
  /\ dac_data' = IF mem_rd_del_vec[2] = 1
                 THEN [dac_data EXCEPT !.r = bffr_pcm_rdata]
                 ELSE [dac_data EXCEPT !.l = bffr_pcm_rdata]

-----------------------------------------------------------------------------
(***************************************************************************)
(* The codec (external): a frame clock starts its next sample, and the     *)
(* reception of one.                                                       *)
(***************************************************************************)
CodecEdge ==
  /\ codec' = IF AUD_ADCLRCK = 0 /\ AUD_ADCLRCK' = 1
              THEN [on |-> 1, n |-> (codec.n + 1) % NUM_IDS]
              ELSE [codec EXCEPT !.on = IF RightDone THEN 0 ELSE @]
  /\ tx' = IF AUD_DACLRCK = 0 /\ AUD_DACLRCK' = 1 THEN [on |-> 1, l |-> {}, r |-> {}]
           ELSE [on |-> IF RightDone THEN 0 ELSE tx.on,
                 l |-> IF fsm = "LCHANNEL" THEN tx.l \cup {dac_data.l} ELSE tx.l,
                 r |-> IF fsm = "RCHANNEL" THEN tx.r \cup {dac_data.r} ELSE tx.r]

AtRest == fsm = "IDLE" /\ pcm_waddr = Origin /\ pcm_raddr = Origin /\
          dac_data_rdy = 0 /\ bffr_mode = 0 /\ adc_en = 0 /\ dac_en = 0 /\
          ~adc_pcm_valid_extended /\ ~dac_pcm_nxt_extended /\
          prep_adc_data = 0 /\ fwft_refresh = 0

\* The sample the codec has just been sent, given the one before.
Sent(l, r) ==
  IF /\ Cardinality(l) = 1 /\ Cardinality(r) = 1
     /\ \E n \in 0 .. NUM_IDS - 1 :
          /\ l = {[ch |-> "L", n |-> n]} /\ r = {[ch |-> "R", n |-> n]}
          /\ heard \in {-1, (n + NUM_IDS - 1) % NUM_IDS}
  THEN (CHOOSE x \in l : TRUE).n ELSE -2

GhostEdge(w) ==
  LET starts == w.reg = "config" /\ w.adc = 1 /\ AtRest
      joins  == w.reg = "config" /\ w.adc = 1 /\ dac_data_rdy = 0
  IN  /\ writes' = IF w = NoWrite THEN writes ELSE writes + 1
      /\ clean' = (starts \/ (clean /\ (w = NoWrite \/ joins)))
      /\ heard' = IF starts \/ (~clean /\ w # NoWrite) THEN -1
                  ELSE IF RightDone /\ tx.on = 1 THEN Sent(tx'.l, tx'.r) ELSE heard
      /\ raced' = IF ToControl(w) THEN adc_pcm_valid = 1 ELSE raced
      /\ fresh' = IF ToControl(w) THEN {}
                  ELSE IF "a" \in Written THEN fresh \cup {pcm_waddr} ELSE fresh

-----------------------------------------------------------------------------
Clk(w) ==
  /\ w # NoWrite => writes < MaxWrites
  /\ FirmwareOrder(w)
  /\ DrvrClocks /\ DrvrPulses /\ AdcShift /\ DrvrWrite(w)
  /\ ControlRegs(w) /\ Delays /\ WriteAddr(w) /\ ReadAddr(w) /\ BankSelect(w)
  /\ Memories /\ DacRegs
  /\ CodecEdge /\ GhostEdge(w)

\* After reset, and after the mode was chosen with everything off.
Init ==
  /\ dac_en = 0 /\ adc_en = 0 /\ fs_val \in FsVals
  /\ fsm = "IDLE" /\ fs_cntr = 0 /\ bclk_cntr = 0 /\ AUD_BCLK = 0
  /\ dac_pcm_nxt = 0 /\ prep_adc_data = 0 /\ adc_pcm_valid = 0
  /\ adc_data = [l |-> Unknown, r |-> Unknown]
  /\ AUD_ADCLRCK = 0 /\ AUD_DACLRCK = 0
  /\ bffr_mode \in Bit /\ cap_done = 0 /\ adc_pcm_valid_1d = 0 /\ dac_data_rdy = 0
  /\ dac_data_rdy_1d = 0 /\ dac_pcm_nxt_1d = 0 /\ dac_pcm_nxt_2d = 0
  /\ fwft_refresh = 0 /\ fwft_refresh_1d = 0 /\ acortex2fgyrus_pcm_rdy = 0
  /\ pcm_waddr = Origin /\ pcm_raddr = Origin /\ bffr_a_n_b_sel = 1
  /\ mem_rd_del_vec = <<0, 0>>
  /\ mem = [b \in {"a", "b", "f"} |-> [a \in Addr |-> Unknown]]
  /\ raddr_f = Origin /\ q = [b \in {"a", "b"} |-> Unknown]
  /\ dac_data = [l |-> Unknown, r |-> Unknown]
  /\ codec = [on |-> 0, n |-> 0] /\ tx = [on |-> 0, l |-> {}, r |-> {}]
  /\ writes = 0 /\ heard = -1 /\ clean = FALSE /\ raced = FALSE /\ fresh = {}

Next == \E w \in Writes : Clk(w)

Spec == Init /\ [][Next]_vars

\* The clock runs.
LiveSpec == Spec /\ WF_vars(Clk(NoWrite))

-----------------------------------------------------------------------------
\* Registers keep their widths: fs_cntr and bclk_cntr stay within a frame and a
\* bit, and the banks hold words.
TypeOK ==
  /\ {dac_en, adc_en, AUD_BCLK, dac_pcm_nxt, prep_adc_data, adc_pcm_valid,
      AUD_ADCLRCK, AUD_DACLRCK, bffr_mode, cap_done, adc_pcm_valid_1d,
      dac_data_rdy, dac_data_rdy_1d, dac_pcm_nxt_1d, dac_pcm_nxt_2d,
      fwft_refresh, fwft_refresh_1d, acortex2fgyrus_pcm_rdy, bffr_a_n_b_sel}
       \subseteq Bit
  /\ fs_val \in FsVals
  /\ fsm \in {"IDLE", "LRCK", "LCHANNEL", "RCHANNEL", "WAIT_FOR_FS"}
  /\ fs_cntr \in 0 .. fs_val /\ bclk_cntr \in 0 .. BCLK_DIV
  /\ {adc_data.l, adc_data.r, dac_data.l, dac_data.r, q["a"], q["b"]} \subseteq Word
  /\ {pcm_waddr, pcm_raddr, raddr_f} \subseteq Addr
  /\ mem_rd_del_vec \in Bit \X Bit
  /\ mem \in [{"a", "b", "f"} -> [Addr -> Word]]
  /\ heard \in -2 .. NUM_IDS - 1

(***************************************************************************)
(* With ADC and DAC started in that order before the first bank is full,   *)
(* as test_audio_fft does, the codec is sent the samples it delivered,     *)
(* each one once and in their order, left and right of the same sample and *)
(* neither changing while it is being sent, across any number of bank      *)
(* switches.                                                               *)
(***************************************************************************)
DacInOrder == clean => heard # -2

(***************************************************************************)
(* The left half of a bank holds left words and the right half right       *)
(* words, whatever registers were written in between, unless the control   *)
(* register was written exactly between the two words of a sample.         *)
(***************************************************************************)
LanesKept ==
  ~raced => \A a \in fresh :
              mem["a"][a].ch \in {IF a.msb = 0 THEN "L" ELSE "R", "X"}

(***************************************************************************)
(* cap_done means that every word of bank a was captured since the capture *)
(* was started: none is left over from before.                             *)
(***************************************************************************)
CaptureComplete == (bffr_mode = 1 /\ cap_done = 1 /\ ~raced) => fresh = Addr

(***************************************************************************)
(* When fgyrus is told that a block is ready, its memory holds the two     *)
(* channels of NUM_SAMPLES successive samples, in their order.             *)
(***************************************************************************)
FftBlockWhole ==
  (clean /\ acortex2fgyrus_pcm_rdy = 1) =>
    \A i \in 0 .. NUM_SAMPLES - 1 :
      LET n == (mem["f"][Origin].n + i) % NUM_IDS
      IN  /\ mem["f"][[msb |-> 0, idx |-> i]] = [ch |-> "L", n |-> n]
          /\ mem["f"][[msb |-> 1, idx |-> i]] = [ch |-> "R", n |-> n]

(***************************************************************************)
(* The firmware's wait for cap_done ends: a capture finishes unless the    *)
(* ADC is switched off or the mode changed.                                *)
(***************************************************************************)
CaptureEnds ==
  (bffr_mode = 1 /\ adc_en = 1) ~> (cap_done = 1 \/ bffr_mode = 0 \/ adc_en = 0)

(***************************************************************************)
(* The blocks handed on by the PCM buffer, to the firmware and to fgyrus,  *)
(* are whole: the right lane, nothing old, in order.                       *)
(***************************************************************************)
BlocksWhole == TypeOK /\ LanesKept /\ CaptureComplete /\ FftBlockWhole
=============================================================================

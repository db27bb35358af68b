-------------------------- MODULE AudioPathProofs ---------------------------
(***************************************************************************)
(* Proofs about the audio path, for every bank size, word length, clock    *)
(* divider and frame length.                                               *)
(***************************************************************************)
EXTENDS AudioPath, FiniteSetTheorems, TLAPS

N == NUM_SAMPLES
K == NUM_IDS
At(m, j) == [msb |-> m, idx |-> j]
Wd(c, n) == [ch |-> c, n |-> n]
Nth(b, j) == (b + j) % K
Succ(n) == (n + 1) % K

-----------------------------------------------------------------------------
(***************************************************************************)
(* The types, with those of the codec and the ghosts.                      *)
(***************************************************************************)
Typed ==
  /\ TypeOK
  /\ adc_data \in [l : Word, r : Word] /\ dac_data \in [l : Word, r : Word]
  /\ q \in [{"a", "b"} -> Word]
  /\ codec \in [on : Bit, n : 0..(K - 1)]
  /\ fresh \subseteq Addr /\ clean \in BOOLEAN /\ raced \in BOOLEAN

\* Where the frame is: the counters in each state of the driver.
Frame ==
  /\ fsm \in {"IDLE", "LRCK"} => fs_cntr = 0
  /\ fsm = "IDLE" => bclk_cntr = 0
  /\ fsm = "LCHANNEL" => fs_cntr \in 1..BPS
  /\ fsm = "RCHANNEL" => fs_cntr \in (BPS + 1)..(2 * BPS)
  /\ fsm = "WAIT_FOR_FS" => fs_cntr > 2 * BPS
  /\ AUD_BCLK = B(bclk_cntr > BCLK_DIV \div 2)

Between == {"IDLE", "LRCK", "WAIT_FOR_FS"}

\* A sample is on its way from the driver to the banks.
InPipe == prep_adc_data = 1 \/ adc_pcm_valid = 1 \/ adc_pcm_valid_1d = 1

\* The three stages are passed one by one, before the next word is shifted in.
Pulses ==
  /\ prep_adc_data = 1 => bclk_cntr = 0 /\ fsm \in Between /\ adc_pcm_valid = 0 /\ adc_pcm_valid_1d = 0
  /\ adc_pcm_valid = 1 => fsm \in Between /\ adc_pcm_valid_1d = 0
  /\ adc_pcm_valid_1d = 1 => fsm # "RCHANNEL"
  /\ ~raced \/ clean => pcm_waddr.msb = adc_pcm_valid_1d

Lanes ==
  /\ adc_data.l.ch \in {"L", "X"} /\ adc_data.r.ch \in {"R", "X"}
  /\ LanesKept

\* The addresses that were written before pcm_waddr.
Before == {a \in Addr : a.idx < pcm_waddr.idx \/ (a.idx = pcm_waddr.idx /\ a.msb < pcm_waddr.msb)}
Captured ==
  /\ bffr_mode = 1 => bffr_a_n_b_sel = 1
  /\ bffr_mode = 1 /\ ~raced => fresh = Addr \/ Before \subseteq fresh
  /\ CaptureComplete

-----------------------------------------------------------------------------
(***************************************************************************)
(* A clean start: what the codec delivers and what the banks hold.         *)
(***************************************************************************)

\* The codec's frame and the driver's.
Delivery ==
  /\ fsm \in {"IDLE", "WAIT_FOR_FS"} => codec.on = 0
  /\ fsm \in {"IDLE", "WAIT_FOR_FS", "RCHANNEL"} => AUD_ADCLRCK = 0
  /\ clean => /\ bffr_mode = 0 /\ adc_en = 1
              /\ fsm = "LRCK" => codec.on = AUD_ADCLRCK
              /\ fsm \in {"LCHANNEL", "RCHANNEL"} => codec.on = 1
              /\ fsm = "RCHANNEL" \/ (fsm = "LCHANNEL" /\ fs_cntr = BPS /\ AUD_BCLK = 1) =>
                   adc_data.l = Wd("L", codec.n)
              /\ fsm = "RCHANNEL" /\ fs_cntr = 2 * BPS /\ AUD_BCLK = 1 => adc_data.r = Wd("R", codec.n)

\* The bank that is being written holds the samples from number b on; the
\* one to come is the one under way, or the codec's last, or its next.
Block(b) ==
  /\ \A j \in 0..(N - 1) : j < pcm_waddr.idx =>
       mem["f"][At(0, j)] = Wd("L", Nth(b, j)) /\ mem["f"][At(1, j)] = Wd("R", Nth(b, j))
  /\ pcm_waddr.msb = 1 => mem["f"][At(0, pcm_waddr.idx)] = Wd("L", Nth(b, pcm_waddr.idx))
  /\ LET n == Nth(b, pcm_waddr.idx)
     IN  /\ InPipe => adc_data = [l |-> Wd("L", n), r |-> Wd("R", n)]
         /\ InPipe /\ codec.on = 0 => codec.n = n
         /\ ~InPipe /\ codec.on = 1 => codec.n = n
         /\ InPipe /\ codec.on = 1 => codec.n = Succ(n)
         /\ ~InPipe /\ codec.on = 0 => n = Succ(codec.n)

Filling == clean => \E b \in 0..(K - 1) : Block(b)

BlocksInv == Typed /\ Frame /\ Pulses /\ Lanes /\ Captured /\ Delivery /\ Filling /\ FftBlockWhole

-----------------------------------------------------------------------------
(***************************************************************************)
(* Sample numbers.                                                         *)
(***************************************************************************)
LEMMA Sizes ==
  /\ N \in Nat /\ N > 0 /\ K \in Nat /\ K > 2 * N /\ BPS \in Nat /\ BPS > 0
  /\ BCLK_DIV \in Nat /\ BCLK_DIV > 0
  BY AudioAssumption DEF N, K

\* Half of the divider, rounded down, is less than all of it.
LEMMA HalfBelow == BCLK_DIV \div 2 \in Nat /\ BCLK_DIV \div 2 < BCLK_DIV
  BY Sizes

\* The remainder of a number below twice the modulus.
LEMMA ModNear ==
  ASSUME NEW m \in Nat, m > 0, NEW x \in Nat, x < 2 * m
  PROVE  x % m = (IF x < m THEN x ELSE x - m) /\ x % m \in 0..(m - 1)
<1> DEFINE d == x \div m
           r == x % m
<1>1. d \in Int /\ r \in 0..(m - 1)
  OBVIOUS
<1>2. x = m * d + r
  BY SMTT(30)
<1> HIDE DEF d, r
<1>3. d >= 2 => m * d >= m + m
  BY <1>1
<1>4. d <= -1 => m * d <= -m
  BY <1>1
<1>5. d = 0 \/ d = 1
  BY <1>1, <1>2, <1>3, <1>4
<1>6. CASE d = 0
  <2>1. x = r
    BY <1>1, <1>2, <1>6
  <2> QED BY <1>1, <2>1 DEF r
<1>7. CASE d = 1
  <2>1. x = m + r
    BY <1>1, <1>2, <1>7
  <2>2. ~ (x < m) /\ r = x - m
    BY <1>1, <2>1
  <2> QED BY <1>1, <2>2 DEF r
<1> QED BY <1>5, <1>6, <1>7

LEMMA SuccFacts ==
  ASSUME NEW n \in 0..(K - 1)
  PROVE  Succ(n) = (IF n = K - 1 THEN 0 ELSE n + 1) /\ Succ(n) \in 0..(K - 1)
  <1>1. n + 1 \in Nat /\ n + 1 < 2 * K /\ K \in Nat /\ K > 0
    BY Sizes
  <1> QED BY <1>1, ModNear, Sizes DEF Succ

LEMMA NthFacts ==
  ASSUME NEW b \in 0..(K - 1), NEW j \in 0..N
  PROVE  Nth(b, j) = (IF b + j < K THEN b + j ELSE b + j - K) /\ Nth(b, j) \in 0..(K - 1)
  <1>1. b + j \in Nat /\ b + j < 2 * K /\ K \in Nat /\ K > 0
    BY Sizes
  <1> QED BY <1>1, ModNear DEF Nth

\* The address of the next sample.
LEMMA NextIdx ==
  ASSUME NEW i \in 0..(N - 1)
  PROVE  (i + 1) % N = (IF i = N - 1 THEN 0 ELSE i + 1) /\ (i + 0) % N = i
  <1>1. i + 1 \in Nat /\ i + 1 < 2 * N /\ i + 0 \in Nat /\ i + 0 < 2 * N /\ N \in Nat /\ N > 0
    BY Sizes
  <1> QED BY <1>1, ModNear, Sizes

-----------------------------------------------------------------------------
(***************************************************************************)
(* The driver's frame.                                                     *)
(***************************************************************************)
LEMMA WriteFacts ==
  ASSUME NEW w \in Writes
  PROVE  /\ w.reg = "fs_val" => w.fs \in FsVals
         /\ w.reg = "config" => w.adc \in Bit /\ w.dac \in Bit
         /\ w.reg = "control" => w.mode \in Bit
         /\ w.reg = "cap_addr" => w.addr \in Addr
         /\ w.reg = "none" <=> w = NoWrite
  BY DEF Writes, NoWrite, RegWrite

LEMMA FsFacts == ASSUME Typed PROVE fs_val \in Nat /\ fs_val >= 2 * BPS
  BY AudioAssumption DEF Typed, TypeOK

\* The right channel ends in its own state.
LEMMA DoneAt == ASSUME Typed, Frame, RightDone PROVE fsm = "RCHANNEL" /\ bclk_cntr = BCLK_DIV /\ AUD_BCLK = 1
  BY Sizes, HalfBelow DEF Typed, TypeOK, Frame, RightDone, rpcm_lsb_offset, bclk_tck, B

LEMMA FrameStep ==
  ASSUME Typed, Frame, NEW w \in Writes, Clk(w)
  PROVE  /\ Frame'
         /\ fs_cntr' \in 0..fs_val' /\ bclk_cntr' \in 0..BCLK_DIV /\ AUD_BCLK' \in Bit
         /\ fsm' \in {"IDLE", "LRCK", "LCHANNEL", "RCHANNEL", "WAIT_FOR_FS"} /\ fs_val' \in FsVals
<1>1. fs_val \in Nat /\ fs_val >= 2 * BPS /\ fs_cntr \in 0..fs_val /\ bclk_cntr \in 0..BCLK_DIV /\ fs_val \in FsVals
      /\ fsm \in {"IDLE", "LRCK", "LCHANNEL", "RCHANNEL", "WAIT_FOR_FS"}
  BY FsFacts DEF Typed, TypeOK
<1>2. fsm' = next_state /\ fs_cntr' = (IF fs_tck \/ fsm = "IDLE" THEN 0 ELSE fs_cntr + B(bclk_tck))
      /\ bclk_cntr' = (IF bclk_tck \/ fsm = "IDLE" THEN 0 ELSE bclk_cntr + 1)
      /\ AUD_BCLK' = (IF fsm = "IDLE" THEN 0 ELSE IF bclk_tck_by_2 THEN 1 - AUD_BCLK ELSE AUD_BCLK)
  BY DEF Clk, DrvrClocks
<1>3. fsm # "IDLE" => fs_val' = fs_val
  BY DEF Clk, DrvrWrite, FirmwareOrder
<1>4. fs_val' \in FsVals /\ fs_val' \in Nat /\ fs_val' >= 2 * BPS
  BY <1>1, WriteFacts, AudioAssumption DEF Clk, DrvrWrite
<1>5. bclk_cntr' \in 0..BCLK_DIV
  BY <1>1, <1>2, Sizes DEF bclk_tck
<1>6. AUD_BCLK' = B(bclk_cntr' > BCLK_DIV \div 2)
  BY <1>1, <1>2, Sizes, HalfBelow DEF Frame, bclk_tck, bclk_tck_by_2, B
<1>7. CASE fsm = "IDLE"
  <2>1. fs_cntr' = 0 /\ bclk_cntr' = 0 /\ fsm' \in {"IDLE", "LRCK"}
    BY <1>2, <1>7 DEF next_state, Restart
  <2> QED BY <1>4, <1>5, <1>6, <2>1 DEF Frame, B, Bit
<1>8. CASE fsm = "LRCK"
  <2>1. ~fs_tck /\ fs_cntr = 0
    BY <1>1, <1>8, Sizes DEF fs_tck, Frame
  <2>2. fsm' = (IF bclk_tck THEN "LCHANNEL" ELSE "LRCK")
    BY <1>2, <1>8 DEF next_state
  <2> QED BY <1>1, <1>2, <1>3, <1>4, <1>5, <1>6, <1>8, <2>1, <2>2, Sizes DEF Frame, B, Bit
<1>9. CASE fsm = "LCHANNEL"
  <2>1. ~fs_tck /\ fs_cntr \in 1..BPS
    BY <1>1, <1>9, Sizes DEF fs_tck, Frame
  <2>2. fsm' = (IF bclk_tck /\ fs_cntr = BPS THEN "RCHANNEL" ELSE "LCHANNEL")
    BY <1>2, <1>9 DEF next_state, lpcm_lsb_offset
  <2> QED BY <1>1, <1>2, <1>3, <1>4, <1>5, <1>6, <1>9, <2>1, <2>2, Sizes DEF Frame, B, Bit
<1>10. CASE fsm = "RCHANNEL"
  <2>1. fs_cntr \in (BPS + 1)..(2 * BPS)
    BY <1>10 DEF Frame
  <2>2. fsm' = (IF RightDone THEN (IF fs_tck THEN Restart ELSE "WAIT_FOR_FS") ELSE "RCHANNEL")
    BY <1>2, <1>10 DEF next_state
  <2>3. fs_tck => RightDone
    BY <1>1, <2>1, Sizes DEF fs_tck, RightDone, rpcm_lsb_offset
  <2>4. CASE fs_tck
    <3>1. fsm' \in {"IDLE", "LRCK"} /\ fs_cntr' = 0 /\ bclk_cntr' = 0
      BY <1>2, <2>2, <2>3, <2>4 DEF Restart, fs_tck
    <3> QED BY <1>3, <1>4, <1>5, <1>6, <3>1 DEF Frame, B, Bit
  <2>5. CASE ~fs_tck
    BY <1>1, <1>2, <1>3, <1>4, <1>5, <1>6, <1>10, <2>1, <2>2, <2>5, Sizes
       DEF Frame, B, Bit, RightDone, rpcm_lsb_offset, fs_tck
  <2> QED BY <2>4, <2>5
<1>11. CASE fsm = "WAIT_FOR_FS"
  <2>1. fsm' = (IF fs_tck THEN Restart ELSE "WAIT_FOR_FS")
    BY <1>2, <1>11 DEF next_state
  <2>2. CASE fs_tck
    <3>1. fsm' \in {"IDLE", "LRCK"} /\ fs_cntr' = 0 /\ bclk_cntr' = 0
      BY <1>2, <2>1, <2>2 DEF Restart, fs_tck
    <3> QED BY <1>3, <1>4, <1>5, <1>6, <3>1 DEF Frame, B, Bit
  <2>3. CASE ~fs_tck
    BY <1>1, <1>2, <1>3, <1>4, <1>5, <1>6, <1>11, <2>1, <2>3, Sizes
       DEF Frame, B, Bit, fs_tck
  <2> QED BY <2>2, <2>3
<1> QED BY <1>1, <1>7, <1>8, <1>9, <1>10, <1>11

-----------------------------------------------------------------------------
(***************************************************************************)
(* The types.                                                              *)
(***************************************************************************)
LEMMA WordFacts ==
  /\ Unknown \in Word
  /\ \A c \in {"L", "R"} : \A n \in 0..(K - 1) : Wd(c, n) \in Word
  BY DEF Word, Unknown, Wd, K

LEMMA AddrFacts ==
  /\ Origin \in Addr /\ LastAddr \in Addr
  /\ \A m \in Bit : \A j \in 0..(N - 1) : At(m, j) \in Addr
  /\ \A a \in Addr : a.msb \in Bit /\ a.idx \in 0..(N - 1) /\ a = At(a.msb, a.idx)
  BY Sizes DEF Addr, Origin, LastAddr, Bit, At, N

LEMMA SentType == ASSUME NEW l, NEW r PROVE Sent(l, r) \in -2..(K - 1)
  <1>1. ASSUME NEW n \in 0..(K - 1), l = {[ch |-> "L", n |-> n]} PROVE (CHOOSE x \in l : TRUE).n = n
    <2> DEFINE c == CHOOSE x \in l : TRUE
    <2>1. \E x : x \in l /\ TRUE
      BY <1>1
    <2>2. c \in l
      BY <2>1, Zenon
    <2> HIDE DEF c
    <2>3. c.n = n
      BY <1>1, <2>2
    <2> QED BY <2>3 DEF c
  <1>2. K \in Nat
    BY Sizes
  <1> QED BY <1>1, <1>2 DEF Sent, K

LEMMA DrvrTypes ==
  ASSUME Typed, NEW w \in Writes, Clk(w)
  PROVE  {dac_en', adc_en', dac_pcm_nxt', prep_adc_data', adc_pcm_valid', AUD_ADCLRCK', AUD_DACLRCK'} \subseteq Bit
<1>1. {dac_en, adc_en, prep_adc_data} \subseteq Bit
  BY DEF Typed, TypeOK
<1>2. dac_en' \in Bit /\ adc_en' \in Bit
  BY <1>1, WriteFacts DEF Clk, DrvrWrite
<1>3. {dac_pcm_nxt', prep_adc_data', adc_pcm_valid', AUD_ADCLRCK', AUD_DACLRCK'} \subseteq Bit
  BY <1>1 DEF Clk, DrvrPulses, DacPulse, B, Bit
<1> QED BY <1>2, <1>3

LEMMA BffrTypes ==
  ASSUME Typed, NEW w \in Writes, Clk(w)
  PROVE  /\ {bffr_mode', cap_done', adc_pcm_valid_1d', dac_data_rdy', dac_data_rdy_1d', dac_pcm_nxt_1d',
             dac_pcm_nxt_2d', fwft_refresh', fwft_refresh_1d', acortex2fgyrus_pcm_rdy', bffr_a_n_b_sel'} \subseteq Bit
         /\ {pcm_waddr', pcm_raddr', raddr_f'} \subseteq Addr /\ mem_rd_del_vec' \in Bit \X Bit
<1>1. {bffr_mode, cap_done, adc_pcm_valid_1d, dac_data_rdy, dac_data_rdy_1d, dac_pcm_nxt_1d, adc_pcm_valid, dac_pcm_nxt,
       dac_pcm_nxt_2d, fwft_refresh, fwft_refresh_1d, acortex2fgyrus_pcm_rdy, bffr_a_n_b_sel} \subseteq Bit
      /\ {pcm_waddr, pcm_raddr, raddr_f} \subseteq Addr /\ mem_rd_del_vec \in Bit \X Bit
  BY DEF Typed, TypeOK
<1>2. bffr_mode' \in Bit /\ cap_done' \in Bit
  BY <1>1, WriteFacts DEF Clk, ControlRegs, ToControl, ToBffr, Bit
<1>3. {adc_pcm_valid_1d', dac_data_rdy_1d', dac_pcm_nxt_1d', dac_pcm_nxt_2d', fwft_refresh_1d',
       acortex2fgyrus_pcm_rdy'} \subseteq Bit
  BY <1>1 DEF Clk, Delays, B, Bit
<1>4. fwft_refresh' \in Bit
  BY <1>1 DEF Clk, Delays, B, Bit
<1>5. \A b \in Bit : \A c : Flip(b, c) \in Bit
  BY DEF Flip, Bit
<1>6. ASSUME NEW i \in 0..(N - 1), NEW d \in Bit PROVE (i + d) % N \in 0..(N - 1)
  BY NextIdx, Sizes DEF Bit
<1>7. pcm_waddr' \in Addr /\ dac_data_rdy' \in Bit
  <2>1. pcm_waddr.msb \in Bit /\ pcm_waddr.idx \in 0..(N - 1)
    BY <1>1, AddrFacts
  <2>2. CASE ToControl(w)
    BY <2>2, AddrFacts DEF Clk, WriteAddr, Bit
  <2>3. CASE ~ToControl(w)
    <3>1. pcm_waddr' = At(Flip(pcm_waddr.msb, adc_pcm_valid_extended), (pcm_waddr.idx + adc_pcm_valid_1d) % N)
          /\ dac_data_rdy' = (IF switch_banks THEN 1 ELSE dac_data_rdy)
      BY <2>3 DEF Clk, WriteAddr, At, N
    <3> QED BY <1>1, <1>5, <1>6, <2>1, <3>1, AddrFacts DEF Bit
  <2> QED BY <2>2, <2>3
<1>8. pcm_raddr' \in Addr
  <2>1. pcm_raddr.msb \in Bit /\ pcm_raddr.idx \in 0..(N - 1)
    BY <1>1, AddrFacts
  <2>2. CASE bffr_mode = 1 \/ ToControl(w)
    BY <1>1, <2>2, AddrFacts, WriteFacts DEF Clk, ReadAddr
  <2>3. CASE bffr_mode # 1 /\ ~ToControl(w)
    <3>1. pcm_raddr' = At(Flip(pcm_raddr.msb, dac_pcm_nxt_extended \/ fwft_refresh = 1),
                          (pcm_raddr.idx + dac_pcm_nxt_1d) % N)
      BY <2>3 DEF Clk, ReadAddr, At, N
    <3> QED BY <1>1, <1>5, <1>6, <2>1, <3>1, AddrFacts
  <2> QED BY <2>2, <2>3
<1>9. raddr_f' \in Addr /\ mem_rd_del_vec' \in Bit \X Bit
  BY <1>1, AddrFacts DEF Clk, Memories, DacRegs
<1>10. bffr_a_n_b_sel' \in Bit
  BY <1>1, <1>5 DEF Clk, BankSelect, Bit
<1> QED BY <1>2, <1>3, <1>4, <1>7, <1>8, <1>9, <1>10

LEMMA WordTypes ==
  ASSUME Typed, NEW w \in Writes, Clk(w)
  PROVE  /\ adc_data' \in [l : Word, r : Word] /\ dac_data' \in [l : Word, r : Word]
         /\ q' \in [{"a", "b"} -> Word] /\ mem' \in [{"a", "b", "f"} -> [Addr -> Word]]
<1>1. /\ adc_data \in [l : Word, r : Word] /\ dac_data \in [l : Word, r : Word]
      /\ q \in [{"a", "b"} -> Word] /\ mem \in [{"a", "b", "f"} -> [Addr -> Word]]
      /\ {pcm_waddr, pcm_raddr, raddr_f} \subseteq Addr /\ codec.n \in 0..(K - 1)
  BY DEF Typed, TypeOK
<1>2. \A c \in {"L", "R"} : \A x : FromCodec(c, x) \in Word
  BY <1>1, WordFacts DEF FromCodec, Wd
<1>3. adc_data' \in [l : Word, r : Word]
  <2> DEFINE cl == FromCodec("L", lpcm_lsb_offset)
             cr == FromCodec("R", rpcm_lsb_offset)
  <2>1. adc_data' \in {adc_data, [adc_data EXCEPT !.l = cl], [adc_data EXCEPT !.r = cr]}
    BY DEF Clk, AdcShift
  <2>2. cl \in Word /\ cr \in Word
    BY <1>2
  <2> HIDE DEF cl, cr
  <2> QED BY <1>1, <2>1, <2>2
<1>4. dac_data' \in [l : Word, r : Word]
  <2>1. bffr_pcm_rdata \in Word
    BY <1>1 DEF bffr_pcm_rdata
  <2>2. dac_data' \in {[dac_data EXCEPT !.l = bffr_pcm_rdata], [dac_data EXCEPT !.r = bffr_pcm_rdata]}
    BY DEF Clk, DacRegs
  <2> QED BY <1>1, <2>1, <2>2
<1>5. q' \in [{"a", "b"} -> Word]
  BY <1>1, WordFacts DEF Clk, Memories
<1>6. mem' \in [{"a", "b", "f"} -> [Addr -> Word]]
  <2>1. pcm_mem_wdata \in Word
    BY <1>1 DEF pcm_mem_wdata
  <2> QED BY <1>1, <2>1 DEF Clk, Memories
<1> QED BY <1>3, <1>4, <1>5, <1>6

LEMMA TypedStep == ASSUME Typed, Frame, NEW w \in Writes, Clk(w) PROVE Typed'
<1>1. heard' \in -2..(K - 1)
  <2>1. heard \in -2..(K - 1) /\ K \in Nat
    BY Sizes DEF Typed, TypeOK, K
  <2> QED BY <2>1, SentType DEF Clk, GhostEdge
<1>2. codec' \in [on : Bit, n : 0..(K - 1)]
  <2>1. codec \in [on : Bit, n : 0..(K - 1)]
    BY DEF Typed
  <2>2. (codec.n + 1) % NUM_IDS \in 0..(K - 1)
    BY <2>1, SuccFacts DEF Succ, K
  <2> QED BY <2>1, <2>2 DEF Clk, CodecEdge, Bit
<1>3. fresh' \subseteq Addr /\ clean' \in BOOLEAN /\ raced' \in BOOLEAN
  <2>1. pcm_waddr \in Addr /\ fresh \subseteq Addr /\ raced \in BOOLEAN
    BY DEF Typed, TypeOK
  <2> QED BY <2>1 DEF Clk, GhostEdge
<1>4. TypeOK'
  BY <1>1, FrameStep, DrvrTypes, BffrTypes, WordTypes DEF TypeOK, K
<1> QED BY <1>2, <1>3, <1>4, WordTypes DEF Typed

-----------------------------------------------------------------------------
(***************************************************************************)
(* From the driver to the banks.                                           *)
(***************************************************************************)

\* Without a tick of the bit clock the frame stays between two samples.
LEMMA StaysBetween ==
  ASSUME Typed, NEW w \in Writes, Clk(w), fsm \in Between
  PROVE  /\ fsm' \in Between \cup {"LCHANNEL"}
         /\ bclk_cntr # BCLK_DIV => fsm' \in Between
  BY DEF Clk, DrvrClocks, next_state, Restart, Between, bclk_tck, fs_tck

\* What a step does to the write address.
LEMMA WaddrStep ==
  ASSUME Typed, NEW w \in Writes, Clk(w), ~ToControl(w)
  PROVE  /\ ~adc_pcm_valid_extended => pcm_waddr' = pcm_waddr
         /\ adc_pcm_valid = 1 /\ adc_pcm_valid_1d = 0 => pcm_waddr' = At(1 - pcm_waddr.msb, pcm_waddr.idx)
         /\ adc_pcm_valid_1d = 1 =>
              pcm_waddr' = At(1 - pcm_waddr.msb, IF pcm_waddr.idx = N - 1 THEN 0 ELSE pcm_waddr.idx + 1)
<1>1. pcm_waddr.msb \in Bit /\ pcm_waddr.idx \in 0..(N - 1) /\ pcm_waddr = At(pcm_waddr.msb, pcm_waddr.idx)
      /\ adc_pcm_valid \in Bit /\ adc_pcm_valid_1d \in Bit
  BY AddrFacts DEF Typed, TypeOK
<1>2. pcm_waddr' = At(Flip(pcm_waddr.msb, adc_pcm_valid_extended), (pcm_waddr.idx + adc_pcm_valid_1d) % N)
  BY DEF Clk, WriteAddr, At, N
<1>3. adc_pcm_valid_1d = 0 => (pcm_waddr.idx + adc_pcm_valid_1d) % N = pcm_waddr.idx
  BY <1>1, NextIdx
<1>4. adc_pcm_valid_1d = 1 =>
        (pcm_waddr.idx + adc_pcm_valid_1d) % N = (IF pcm_waddr.idx = N - 1 THEN 0 ELSE pcm_waddr.idx + 1)
  BY <1>1, NextIdx
<1> QED BY <1>1, <1>2, <1>3, <1>4 DEF adc_pcm_valid_extended, Flip, Bit

\* A clean start is at rest; nothing but the driver's own register is written
\* after it.
LEMMA CleanStep ==
  ASSUME Typed, clean => bffr_mode = 0 /\ adc_en = 1, NEW w \in Writes, Clk(w), clean'
  PROVE  ~ToBffr(w) /\ adc_en' = 1 /\ bffr_mode' = 0 /\ (clean \/ AtRest)
<1>1. \/ w.reg = "config" /\ w.adc = 1 /\ AtRest
      \/ clean /\ (w = NoWrite \/ (w.reg = "config" /\ w.adc = 1))
  BY DEF Clk, GhostEdge
<1>2. w.reg \in {"none", "config"} /\ (w.reg = "config" => w.adc = 1) /\ (w.reg = "none" => clean)
  BY <1>1, WriteFacts
<1>3. ~ToBffr(w)
  BY <1>2 DEF ToBffr
<1>4. bffr_mode = 0
  BY <1>1 DEF AtRest
<1> QED BY <1>1, <1>2, <1>3, <1>4 DEF Clk, DrvrWrite, ControlRegs

LEMMA PulsesStep ==
  ASSUME Typed, Frame, Pulses, clean => bffr_mode = 0 /\ adc_en = 1, NEW w \in Writes, Clk(w)
  PROVE  Pulses'
<1>1. adc_pcm_valid' = prep_adc_data /\ adc_pcm_valid_1d' = adc_pcm_valid /\ prep_adc_data' = B(RightDone /\ adc_en = 1)
  BY DEF Clk, DrvrPulses, Delays
<1>2. {prep_adc_data, adc_pcm_valid, adc_pcm_valid_1d} \subseteq Bit
  BY DEF Typed, TypeOK
<1>3. bclk_cntr' = (IF bclk_tck \/ fsm = "IDLE" THEN 0 ELSE bclk_cntr + 1)
  BY DEF Clk, DrvrClocks
<1>4. prep_adc_data' = 1 => bclk_cntr' = 0 /\ fsm' \in Between /\ adc_pcm_valid' = 0 /\ adc_pcm_valid_1d' = 0
  <2>1. SUFFICES ASSUME prep_adc_data' = 1 PROVE bclk_cntr' = 0 /\ fsm' \in Between /\ adc_pcm_valid' = 0 /\ adc_pcm_valid_1d' = 0
    OBVIOUS
  <2>2. RightDone
    BY <1>1, <2>1 DEF B
  <2>3. fsm = "RCHANNEL" /\ bclk_cntr = BCLK_DIV /\ bclk_tck
    BY <2>2, DoneAt DEF bclk_tck
  <2>4. fsm' \in Between
    BY <2>2, <2>3 DEF Clk, DrvrClocks, next_state, Restart, Between
  <2>5. prep_adc_data = 0 /\ adc_pcm_valid = 0
    BY <1>2, <2>3, Sizes DEF Pulses, Between, Bit
  <2> QED BY <1>1, <1>3, <2>3, <2>4, <2>5
<1>5. adc_pcm_valid' = 1 => fsm' \in Between /\ adc_pcm_valid_1d' = 0
  BY <1>1, <1>2, StaysBetween, Sizes DEF Pulses
<1>6. adc_pcm_valid_1d' = 1 => fsm' # "RCHANNEL"
  BY <1>1, StaysBetween DEF Pulses, Between
<1>7. ~raced' \/ clean' => pcm_waddr'.msb = adc_pcm_valid_1d'
  <2>1. CASE ToControl(w)
    <3>1. ~clean' /\ raced' = (adc_pcm_valid = 1) /\ pcm_waddr'.msb = 0
      BY <2>1, CleanStep DEF Clk, GhostEdge, WriteAddr, Origin, ToBffr, ToControl
    <3> QED BY <1>1, <1>2, <3>1 DEF Bit
  <2>2. CASE clean' /\ AtRest
    <3>1. pcm_waddr = Origin /\ ~adc_pcm_valid_extended /\ ~ToControl(w)
      BY <2>2, CleanStep DEF AtRest, ToBffr, ToControl
    <3>2. pcm_waddr' = Origin
      BY <3>1, WaddrStep
    <3> QED BY <1>1, <1>2, <3>1, <3>2 DEF Origin, adc_pcm_valid_extended, Bit
  <2>3. CASE ~ToControl(w) /\ ~ (clean' /\ AtRest) /\ (~raced' \/ clean')
    <3>1. ~raced \/ clean
      BY <2>3, CleanStep DEF Clk, GhostEdge
    <3>2. pcm_waddr.msb = adc_pcm_valid_1d
      BY <3>1 DEF Pulses
    <3>3. CASE adc_pcm_valid = 1
      BY <1>1, <2>3, <3>2, <3>3, WaddrStep DEF Pulses, At
    <3>4. CASE adc_pcm_valid = 0 /\ adc_pcm_valid_1d = 1
      BY <1>1, <2>3, <3>2, <3>4, WaddrStep DEF At
    <3>5. CASE adc_pcm_valid = 0 /\ adc_pcm_valid_1d = 0
      BY <1>1, <2>3, <3>2, <3>5, WaddrStep DEF adc_pcm_valid_extended
    <3> QED BY <1>2, <3>3, <3>4, <3>5 DEF Bit
  <2> QED BY <2>1, <2>2, <2>3
<1> QED BY <1>4, <1>5, <1>6, <1>7 DEF Pulses

\* What a clock writes, and where, unless the control register was written
\* between the words of a sample.
LEMMA StoreStep ==
  ASSUME Typed, Pulses, ~raced \/ clean, NEW w \in Writes, Clk(w), adc_pcm_valid_extended
  PROVE  /\ pcm_waddr.msb = 0 => adc_pcm_valid = 1 /\ adc_pcm_valid_1d = 0 /\ pcm_mem_wdata = adc_data.l
         /\ pcm_waddr.msb = 1 => adc_pcm_valid = 0 /\ adc_pcm_valid_1d = 1 /\ pcm_mem_wdata = adc_data.r
  BY DEF Typed, TypeOK, Pulses, adc_pcm_valid_extended, pcm_mem_wdata, Bit

LEMMA LanesStep ==
  ASSUME Typed, Pulses, Lanes, NEW w \in Writes, Clk(w)
  PROVE  Lanes'
<1>1. adc_data'.l.ch \in {"L", "X"} /\ adc_data'.r.ch \in {"R", "X"}
  <2> DEFINE cl == FromCodec("L", lpcm_lsb_offset)
             cr == FromCodec("R", rpcm_lsb_offset)
  <2>1. adc_data' \in {adc_data, [adc_data EXCEPT !.l = cl], [adc_data EXCEPT !.r = cr]}
    BY DEF Clk, AdcShift
  <2>2. cl.ch \in {"L", "X"} /\ cr.ch \in {"R", "X"}
    BY DEF FromCodec, Unknown
  <2>3. adc_data \in [l : Word, r : Word]
    BY DEF Typed
  <2> HIDE DEF cl, cr
  <2> QED BY <2>1, <2>2, <2>3 DEF Lanes
<1>2. ASSUME ~raced', NEW a \in fresh' PROVE mem'["a"][a].ch \in {IF a.msb = 0 THEN "L" ELSE "R", "X"}
  <2>1. ~ToControl(w)
    BY <1>2 DEF Clk, GhostEdge
  <2>2. ~raced /\ fresh' = (IF "a" \in Written THEN fresh \cup {pcm_waddr} ELSE fresh)
    BY <1>2, <2>1 DEF Clk, GhostEdge
  <2>3. mem'["a"] = (IF "a" \in Written THEN [mem["a"] EXCEPT ![pcm_waddr] = pcm_mem_wdata] ELSE mem["a"])
    BY DEF Clk, Memories
  <2>4. mem["a"] \in [Addr -> Word] /\ pcm_waddr \in Addr /\ pcm_waddr.msb \in Bit
    BY AddrFacts DEF Typed, TypeOK
  <2>5. a \in fresh => mem["a"][a].ch \in {IF a.msb = 0 THEN "L" ELSE "R", "X"}
    BY <2>2 DEF Lanes, LanesKept
  <2>6. CASE "a" \in Written /\ a = pcm_waddr
    <3>1. adc_pcm_valid_extended
      BY <2>6 DEF Written
    <3>2. mem'["a"][a] = pcm_mem_wdata
      BY <2>3, <2>4, <2>6
    <3> QED BY <2>2, <2>4, <2>6, <3>1, <3>2, StoreStep DEF Lanes, Bit
  <2>7. CASE ~ ("a" \in Written /\ a = pcm_waddr)
    <3>1. a \in fresh
      BY <1>2, <2>2, <2>7
    <3>2. mem'["a"][a] = mem["a"][a]
      BY <2>3, <2>4, <2>7
    <3> QED BY <2>5, <3>1, <3>2
  <2> QED BY <2>6, <2>7
<1> QED BY <1>1, <1>2 DEF Lanes, LanesKept

\* What the write address has behind it after a step: all of the bank when it
\* wraps around.
LEMMA BeforeStep ==
  ASSUME Typed, Pulses, ~raced \/ clean, NEW w \in Writes, Clk(w), ~ToControl(w)
  PROVE  /\ ~adc_pcm_valid_extended => Before' = Before
         /\ adc_pcm_valid_extended /\ pcm_waddr # LastAddr => Before' \subseteq Before \cup {pcm_waddr}
         /\ adc_pcm_valid_extended /\ pcm_waddr = LastAddr => Before' = {} /\ Addr = Before \cup {pcm_waddr}
<1>1. /\ pcm_waddr \in Addr /\ pcm_waddr.msb \in Bit /\ pcm_waddr.idx \in 0..(N - 1)
      /\ pcm_waddr = At(pcm_waddr.msb, pcm_waddr.idx)
      /\ \A a \in Addr : a.msb \in Bit /\ a.idx \in 0..(N - 1) /\ a = At(a.msb, a.idx)
  BY AddrFacts DEF Typed, TypeOK
<1>2. ASSUME ~adc_pcm_valid_extended PROVE Before' = Before
  BY <1>2, WaddrStep DEF Before
<1>3. ASSUME adc_pcm_valid_extended, pcm_waddr # LastAddr, NEW a \in Before' PROVE a \in Before \/ a = pcm_waddr
  <2>1. a \in Addr /\ (a.idx < pcm_waddr'.idx \/ (a.idx = pcm_waddr'.idx /\ a.msb < pcm_waddr'.msb))
    BY DEF Before
  <2>2. CASE pcm_waddr.msb = 0
    <3>1. pcm_waddr' = At(1, pcm_waddr.idx)
      BY <1>3, <2>2, StoreStep, WaddrStep
    <3>2. a.idx < pcm_waddr.idx \/ (a.idx = pcm_waddr.idx /\ a.msb = 0)
      BY <1>1, <2>1, <3>1 DEF At, Bit
    <3>3. a.idx = pcm_waddr.idx /\ a.msb = 0 => a = pcm_waddr
      BY <1>1, <2>1, <2>2
    <3> QED BY <2>1, <3>2, <3>3 DEF Before
  <2>3. CASE pcm_waddr.msb = 1
    <3>1. pcm_waddr.idx # N - 1
      BY <1>1, <1>3, <2>3 DEF LastAddr, At, N
    <3>2. pcm_waddr' = At(0, pcm_waddr.idx + 1)
      BY <1>3, <2>3, <3>1, StoreStep, WaddrStep
    <3>3. a.idx < pcm_waddr.idx \/ a.idx = pcm_waddr.idx
      BY <1>1, <2>1, <3>2 DEF At, Bit
    <3>4. a.idx = pcm_waddr.idx /\ a.msb = 1 => a = pcm_waddr
      BY <1>1, <2>1, <2>3
    <3> QED BY <1>1, <2>1, <2>3, <3>3, <3>4 DEF Before, Bit
  <2> QED BY <1>1, <2>2, <2>3 DEF Bit
<1>4. ASSUME adc_pcm_valid_extended, pcm_waddr = LastAddr PROVE Before' = {} /\ Addr = Before \cup {pcm_waddr}
  <2>1. pcm_waddr.msb = 1 /\ pcm_waddr.idx = N - 1
    BY <1>4 DEF LastAddr, N
  <2>2. pcm_waddr' = At(0, 0)
    BY <1>4, <2>1, StoreStep, WaddrStep
  <2>3. Before' = {}
    BY <1>1, <2>2 DEF Before, At, Bit
  <2>4. ASSUME NEW a \in Addr PROVE a \in Before \/ a = pcm_waddr
    <3>1. a.idx < N - 1 \/ a.idx = N - 1
      BY <1>1, Sizes
    <3>2. a.msb < 1 \/ a.msb = 1
      BY <1>1 DEF Bit
    <3>3. a.idx = N - 1 /\ a.msb = 1 => a = pcm_waddr
      BY <1>1, <2>1
    <3> QED BY <2>1, <3>1, <3>2, <3>3 DEF Before
  <2> QED BY <1>1, <2>3, <2>4 DEF Before
<1> QED BY <1>2, <1>3, <1>4

LEMMA CapturedStep ==
  ASSUME Typed, Pulses, Captured, NEW w \in Writes, Clk(w)
  PROVE  Captured'
<1>1. bffr_mode' = 1 => bffr_a_n_b_sel' = 1
  BY DEF Clk, BankSelect, ControlRegs, ToControl, ToBffr, Captured
<1>2. CASE ToControl(w)
  <2>1. pcm_waddr' = Origin /\ fresh' = {} /\ (bffr_mode' = 1 => cap_done' = 0)
    BY <1>2 DEF Clk, WriteAddr, GhostEdge, ControlRegs, ToBffr, ToControl
  <2>2. Before' = {}
    BY <2>1, AddrFacts DEF Before, Origin, Bit
  <2> QED BY <1>1, <2>1, <2>2 DEF Captured, CaptureComplete
<1>3. CASE ~ToControl(w) /\ bffr_mode' = 1 /\ ~raced'
  <2>1. bffr_mode = 1 /\ ~raced /\ bffr_a_n_b_sel = 1
    BY <1>3 DEF Clk, ControlRegs, GhostEdge, Captured
  <2>2. fresh' = IF adc_pcm_valid_extended THEN fresh \cup {pcm_waddr} ELSE fresh
    BY <1>3, <2>1 DEF Clk, GhostEdge, Written
  <2>3. pcm_waddr \in Addr /\ fresh \subseteq Addr /\ (fresh = Addr \/ Before \subseteq fresh)
    BY <2>1 DEF Typed, TypeOK, Captured
  <2>4. switch_banks => fresh' = Addr
    BY <1>3, <2>1, <2>2, <2>3, BeforeStep DEF switch_banks
  <2>5. fresh' = Addr \/ Before' \subseteq fresh'
    BY <1>3, <2>1, <2>2, <2>3, <2>4, BeforeStep DEF switch_banks
  <2>6. cap_done' = 1 => fresh' = Addr
    <3>1. CASE cap_done = 1
      BY <2>1, <2>2, <2>3, <3>1 DEF Captured, CaptureComplete
    <3>2. CASE cap_done # 1
      BY <2>4, <3>2 DEF Clk, ControlRegs
    <3> QED BY <3>1, <3>2
  <2> QED BY <1>1, <2>5, <2>6 DEF Captured, CaptureComplete
<1> QED BY <1>1, <1>2, <1>3 DEF Captured, CaptureComplete

-----------------------------------------------------------------------------
(***************************************************************************)
(* From the codec to the driver.                                           *)
(***************************************************************************)

\* The states a step can come from.
LEMMA FsmFrom ==
  ASSUME Typed, NEW w \in Writes, Clk(w)
  PROVE  /\ fsm' = "LCHANNEL" => fsm = "LCHANNEL" \/ (fsm = "LRCK" /\ bclk_tck)
         /\ fsm' = "RCHANNEL" => (fsm = "LCHANNEL" /\ bclk_tck /\ fs_cntr = BPS) \/ (fsm = "RCHANNEL" /\ ~RightDone)
         /\ fsm' = "WAIT_FOR_FS" => fsm = "WAIT_FOR_FS" \/ (fsm = "RCHANNEL" /\ RightDone)
         /\ fsm' = "LRCK" => fsm # "LCHANNEL" /\ (fsm = "RCHANNEL" => RightDone) /\ (fsm = "LRCK" => ~bclk_tck)
         /\ fsm' = "IDLE" => fsm \notin {"LRCK", "LCHANNEL"} /\ (fsm = "RCHANNEL" => RightDone)
         /\ fsm = "IDLE" => fsm' \in {"IDLE", "LRCK"}
  BY DEF Typed, TypeOK, Clk, DrvrClocks, next_state, Restart, lpcm_lsb_offset

\* A sample starts where the frame clock rises, and ends with the right channel.
LEMMA CodecStep ==
  ASSUME Typed, Frame, NEW w \in Writes, Clk(w)
  PROVE  /\ AUD_ADCLRCK' = 1 <=> fsm = "LRCK" /\ adc_en = 1
         /\ AUD_ADCLRCK' \in Bit
         /\ AUD_ADCLRCK = 0 /\ AUD_ADCLRCK' = 1 => codec'.on = 1 /\ codec'.n = Succ(codec.n)
         /\ ~ (AUD_ADCLRCK = 0 /\ AUD_ADCLRCK' = 1) => codec'.on = (IF RightDone THEN 0 ELSE codec.on) /\ codec'.n = codec.n
<1>1. codec \in [on : Bit, n : 0..(K - 1)]
  BY DEF Typed
<1> QED BY <1>1 DEF Clk, DrvrPulses, CodecEdge, Succ, K, B, Bit

\* A bit is shifted in where the bit clock rises, once a tick.
LEMMA ShiftStep ==
  ASSUME Typed, Frame, NEW w \in Writes, Clk(w)
  PROVE  LET rising == AUD_BCLK = 0 /\ bclk_cntr = BCLK_DIV \div 2
         IN  /\ AUD_BCLK' = 1 /\ AUD_BCLK = 0 => rising
             /\ ~rising \/ fsm \in Between => adc_data' = adc_data
             /\ fsm = "LCHANNEL" => adc_data'.r = adc_data.r
             /\ fsm = "RCHANNEL" => adc_data'.l = adc_data.l
             /\ rising /\ fsm = "LCHANNEL" /\ fs_cntr = BPS /\ codec.on = 1 => adc_data'.l = Wd("L", codec.n)
             /\ rising /\ fsm = "RCHANNEL" /\ fs_cntr = 2 * BPS /\ codec.on = 1 => adc_data'.r = Wd("R", codec.n)
<1>1. adc_data \in [l : Word, r : Word] /\ AUD_BCLK = B(bclk_cntr > BCLK_DIV \div 2) /\ bclk_cntr \in 0..BCLK_DIV
      /\ AUD_BCLK \in Bit /\ codec.n \in 0..(K - 1)
  BY DEF Typed, TypeOK, Frame
<1>2. bclk_tck_by_2 /\ AUD_BCLK = 0 <=> bclk_cntr = BCLK_DIV \div 2 /\ AUD_BCLK = 0
  BY <1>1, Sizes, HalfBelow DEF bclk_tck_by_2, bclk_tck, B
<1>3. AUD_BCLK' = (IF fsm = "IDLE" THEN 0 ELSE IF bclk_tck_by_2 THEN 1 - AUD_BCLK ELSE AUD_BCLK)
  BY DEF Clk, DrvrClocks
<1>4. adc_data' =
        IF bclk_cntr = BCLK_DIV \div 2 /\ AUD_BCLK = 0 /\ fsm = "LCHANNEL"
        THEN [adc_data EXCEPT !.l = FromCodec("L", lpcm_lsb_offset)]
        ELSE IF bclk_cntr = BCLK_DIV \div 2 /\ AUD_BCLK = 0 /\ fsm = "RCHANNEL"
        THEN [adc_data EXCEPT !.r = FromCodec("R", rpcm_lsb_offset)]
        ELSE adc_data
  BY <1>2 DEF Clk, AdcShift
<1>5. codec.on = 1 /\ fs_cntr = BPS => FromCodec("L", lpcm_lsb_offset) = Wd("L", codec.n)
  BY DEF FromCodec, lpcm_lsb_offset, Wd
<1>6. codec.on = 1 /\ fs_cntr = 2 * BPS => FromCodec("R", rpcm_lsb_offset) = Wd("R", codec.n)
  BY DEF FromCodec, rpcm_lsb_offset, Wd
<1>7. AUD_BCLK' = 1 /\ AUD_BCLK = 0 => AUD_BCLK = 0 /\ bclk_cntr = BCLK_DIV \div 2
  BY <1>2, <1>3
<1> QED BY <1>1, <1>4, <1>5, <1>6, <1>7 DEF Between

LEMMA DeliveryStep ==
  ASSUME Typed, Frame, Delivery, NEW w \in Writes, Clk(w)
  PROVE  Delivery'
<1>0. codec.on \in Bit /\ AUD_ADCLRCK \in Bit /\ AUD_BCLK \in Bit
      /\ fsm \in {"IDLE", "LRCK", "LCHANNEL", "RCHANNEL", "WAIT_FOR_FS"}
      /\ fs_cntr \in 0..fs_val /\ fs_val \in Nat /\ bclk_cntr \in 0..BCLK_DIV
  BY FsFacts DEF Typed, TypeOK
<1>1. fsm' \in {"IDLE", "WAIT_FOR_FS"} => codec'.on = 0
  BY <1>0, FsmFrom, CodecStep DEF Delivery
<1>2. fsm' \in {"IDLE", "WAIT_FOR_FS", "RCHANNEL"} => AUD_ADCLRCK' = 0
  BY <1>0, FsmFrom, CodecStep DEF Bit
<1>3. ASSUME clean' PROVE bffr_mode' = 0 /\ adc_en' = 1
  BY <1>3, CleanStep DEF Delivery
<1>4. ASSUME clean', AtRest PROVE fsm' = "IDLE"
  BY <1>4 DEF AtRest, Clk, DrvrClocks, next_state, Restart, Wanted
<1>5. ASSUME clean', ~AtRest PROVE clean /\ adc_en = 1
  BY <1>5, CleanStep DEF Delivery
<1>6. ASSUME clean', ~AtRest, fsm' = "LRCK" PROVE codec'.on = AUD_ADCLRCK'
  <2>1. clean /\ adc_en = 1
    BY <1>5, <1>6
  <2>2. CASE fsm = "LRCK"
    <3>1. codec.on = AUD_ADCLRCK /\ ~RightDone
      BY <2>1, <2>2, DoneAt DEF Delivery
    <3> QED BY <1>0, <2>1, <2>2, <3>1, CodecStep DEF Bit
  <2>3. CASE fsm # "LRCK"
    <3>1. fsm \in {"IDLE", "RCHANNEL", "WAIT_FOR_FS"} /\ (fsm = "RCHANNEL" => RightDone)
      BY <1>0, <1>6, <2>3, FsmFrom
    <3>2. AUD_ADCLRCK' = 0 /\ codec'.on = (IF RightDone THEN 0 ELSE codec.on)
      BY <2>3, CodecStep DEF Bit
    <3> QED BY <3>1, <3>2 DEF Delivery
  <2> QED BY <2>2, <2>3
<1>7. ASSUME clean', ~AtRest, fsm' \in {"LCHANNEL", "RCHANNEL"} PROVE codec'.on = 1
  <2>1. clean /\ adc_en = 1
    BY <1>5, <1>7
  <2>2. CASE fsm = "LRCK"
    <3>1. codec.on = AUD_ADCLRCK /\ ~RightDone /\ AUD_ADCLRCK' = 1
      BY <2>1, <2>2, DoneAt, CodecStep DEF Delivery
    <3> QED BY <1>0, <3>1, CodecStep DEF Bit
  <2>3. CASE fsm # "LRCK"
    <3>1. fsm \in {"LCHANNEL", "RCHANNEL"} /\ ~RightDone
      BY <1>7, <2>3, FsmFrom, DoneAt
    <3>2. codec.on = 1 /\ AUD_ADCLRCK' = 0
      BY <2>1, <2>3, <3>1, CodecStep DEF Delivery, Bit
    <3> QED BY <3>1, <3>2, CodecStep
  <2> QED BY <2>2, <2>3
<1>8. ASSUME clean', ~AtRest, fsm \in {"LCHANNEL", "RCHANNEL"} PROVE codec.on = 1 /\ codec'.n = codec.n
  <2>1. clean /\ adc_en = 1
    BY <1>5, <1>8
  <2> QED BY <1>8, <2>1, CodecStep DEF Delivery, Bit
<1>9. ASSUME clean', ~AtRest, fsm' = "RCHANNEL" \/ (fsm' = "LCHANNEL" /\ fs_cntr' = BPS /\ AUD_BCLK' = 1)
      PROVE  adc_data'.l = Wd("L", codec'.n)
  <2>1. clean /\ adc_en = 1
    BY <1>5, <1>9
  <2>2. CASE fsm = "RCHANNEL"
    BY <1>8, <1>9, <2>1, <2>2, ShiftStep DEF Delivery
  <2>3. CASE fsm # "RCHANNEL"
    <3>1. fs_cntr' = (IF fs_tck \/ fsm = "IDLE" THEN 0 ELSE fs_cntr + B(bclk_tck))
          /\ AUD_BCLK' = (IF fsm = "IDLE" THEN 0 ELSE IF bclk_tck_by_2 THEN 1 - AUD_BCLK ELSE AUD_BCLK)
      BY DEF Clk, DrvrClocks
    <3>2. bclk_tck => AUD_BCLK = 1 /\ bclk_tck_by_2
      BY <1>0, Sizes, HalfBelow DEF Frame, bclk_tck, bclk_tck_by_2, B
    <3>3. fsm = "LCHANNEL" /\ fs_cntr = BPS /\ (AUD_BCLK = 0 => AUD_BCLK' = 1 /\ fsm' = "LCHANNEL")
      <4>1. CASE fsm' = "RCHANNEL"
        BY <2>3, <3>2, <4>1, FsmFrom
      <4>2. CASE fsm' # "RCHANNEL"
        <5>1. fsm' = "LCHANNEL" /\ AUD_BCLK' = 1 /\ fs_cntr' = BPS
          BY <1>9, <4>2
        <5>2. ~bclk_tck
          BY <1>0, <3>1, <3>2, <5>1
        <5>3. fsm = "LCHANNEL"
          BY <5>1, <5>2, FsmFrom
        <5>4. ~fs_tck
          BY <5>2 DEF fs_tck
        <5> QED BY <1>0, <3>1, <5>1, <5>2, <5>3, <5>4 DEF B
      <4> QED BY <4>1, <4>2
    <3>4. CASE AUD_BCLK = 0
      BY <1>8, <1>9, <3>3, <3>4, ShiftStep
    <3>5. CASE AUD_BCLK = 1
      BY <1>8, <1>9, <2>1, <3>3, <3>5, ShiftStep DEF Delivery
    <3> QED BY <1>0, <3>4, <3>5 DEF Bit
  <2> QED BY <2>2, <2>3
<1>10. ASSUME clean', ~AtRest, fsm' = "RCHANNEL", fs_cntr' = 2 * BPS, AUD_BCLK' = 1
       PROVE  adc_data'.r = Wd("R", codec'.n)
  <2>1. clean /\ adc_en = 1
    BY <1>5, <1>10
  <2>2. fs_cntr' = (IF fs_tck \/ fsm = "IDLE" THEN 0 ELSE fs_cntr + B(bclk_tck))
        /\ AUD_BCLK' = (IF fsm = "IDLE" THEN 0 ELSE IF bclk_tck_by_2 THEN 1 - AUD_BCLK ELSE AUD_BCLK)
    BY DEF Clk, DrvrClocks
  <2>3. bclk_tck => AUD_BCLK = 1 /\ bclk_tck_by_2
    BY <1>0, Sizes, HalfBelow DEF Frame, bclk_tck, bclk_tck_by_2, B
  <2>4. ~bclk_tck
    BY <1>0, <1>10, <2>2, <2>3
  <2>5. fsm = "RCHANNEL" /\ ~fs_tck
    BY <1>10, <2>4, FsmFrom DEF fs_tck
  <2>6. fs_cntr = 2 * BPS
    BY <1>0, <1>10, <2>2, <2>4, <2>5 DEF B
  <2>7. CASE AUD_BCLK = 0
    BY <1>8, <1>10, <2>5, <2>6, <2>7, ShiftStep
  <2>8. CASE AUD_BCLK = 1
    BY <1>8, <1>10, <2>1, <2>5, <2>6, <2>8, ShiftStep DEF Delivery
  <2> QED BY <1>0, <2>7, <2>8 DEF Bit
<1> QED BY <1>1, <1>2, <1>3, <1>4, <1>6, <1>7, <1>9, <1>10 DEF Delivery

-----------------------------------------------------------------------------
(***************************************************************************)
(* What the banks are filled with.                                         *)
(***************************************************************************)

\* The banks after a step, and the sample on its way.
LEMMA BankStep ==
  ASSUME Typed, NEW w \in Writes, Clk(w), NEW bk \in {"a", "b", "f"}
  PROVE  /\ bk \notin Written => mem'[bk] = mem[bk]
         /\ bk \in Written => \A a \in Addr : mem'[bk][a] = IF a = pcm_waddr THEN pcm_mem_wdata ELSE mem[bk][a]
  <1>1. mem[bk] \in [Addr -> Word] /\ pcm_waddr \in Addr
    BY DEF Typed, TypeOK
  <1> QED BY <1>1 DEF Clk, Memories

LEMMA PipeStep ==
  ASSUME Typed, NEW w \in Writes, Clk(w), adc_en = 1
  PROVE  InPipe' <=> RightDone \/ prep_adc_data = 1 \/ adc_pcm_valid = 1
  BY DEF Clk, DrvrPulses, Delays, InPipe, B

\* The codec's number against that of the sample to be stored, in each case.
CodecAt(n) ==
  /\ InPipe /\ codec.on = 0 => codec.n = n
  /\ ~InPipe /\ codec.on = 1 => codec.n = n
  /\ InPipe /\ codec.on = 1 => codec.n = Succ(n)
  /\ ~InPipe /\ codec.on = 0 => n = Succ(codec.n)

LEMMA FillingStart ==
  ASSUME Typed, Frame, Delivery, NEW w \in Writes, Clk(w), clean', AtRest
  PROVE  Filling'
<1>1. codec.n \in 0..(K - 1) /\ codec.on = 0 /\ ~ToControl(w) /\ ~RightDone
  BY CleanStep, DoneAt DEF Typed, Delivery, AtRest, ToBffr, ToControl
<1>b. PICK b \in 0..(K - 1) : b = Succ(codec.n)
  BY <1>1, SuccFacts
<1>2. Nth(b, 0) = b
  BY NthFacts, Sizes
<1>3. pcm_waddr' = Origin
  BY <1>1, WaddrStep DEF AtRest
<1>4. ~InPipe'
  BY <1>1 DEF Clk, DrvrPulses, Delays, InPipe, B, AtRest, adc_pcm_valid_extended
<1>5. codec'.on = 0 /\ codec'.n = codec.n
  BY <1>1, CodecStep DEF AtRest
<1>6. Block(b)'
  BY <1>2, <1>3, <1>4, <1>5, <1>b, Sizes DEF Block, Origin
<1> QED BY <1>6 DEF Filling

LEMMA CodecAtStep ==
  ASSUME Typed, Frame, Pulses, Delivery, NEW w \in Writes, Clk(w), clean, clean', NEW n \in 0..(K - 1), CodecAt(n)
  PROVE  /\ adc_pcm_valid_1d # 1 => CodecAt(n)'
         /\ adc_pcm_valid_1d = 1 => CodecAt(Succ(n))' /\ ~InPipe'
<1>0. codec.on \in Bit /\ AUD_ADCLRCK \in Bit /\ adc_en = 1
  BY DEF Typed, TypeOK, Delivery
<1> DEFINE rise == AUD_ADCLRCK = 0 /\ AUD_ADCLRCK' = 1
<1>1. rise => fsm = "LRCK" /\ codec.on = 0 /\ ~RightDone
  BY CodecStep, DoneAt DEF Delivery
<1>2. /\ rise => codec'.on = 1 /\ codec'.n = Succ(codec.n)
      /\ ~rise => codec'.on = (IF RightDone THEN 0 ELSE codec.on) /\ codec'.n = codec.n
  BY CodecStep
<1>3. InPipe' <=> RightDone \/ prep_adc_data = 1 \/ adc_pcm_valid = 1
  BY <1>0, PipeStep
<1>4. RightDone => fsm = "RCHANNEL" /\ codec.on = 1 /\ ~InPipe
  <2>1. SUFFICES ASSUME RightDone PROVE fsm = "RCHANNEL" /\ codec.on = 1 /\ ~InPipe
    OBVIOUS
  <2>2. fsm = "RCHANNEL" /\ bclk_cntr = BCLK_DIV
    BY <2>1, DoneAt
  <2> QED BY <2>2, Sizes DEF Delivery, Pulses, InPipe, Between
<1> HIDE DEF rise
<1>5. CASE adc_pcm_valid_1d = 1
  <2>1. prep_adc_data # 1 /\ adc_pcm_valid # 1 /\ InPipe /\ ~RightDone
    BY <1>4, <1>5 DEF Pulses, InPipe
  <2>2. ~InPipe'
    BY <1>3, <2>1
  <2>3. CASE rise
    BY <1>1, <1>2, <1>5, <2>1, <2>2, <2>3 DEF CodecAt
  <2>4. CASE ~rise
    BY <1>0, <1>2, <1>5, <2>1, <2>2, <2>4 DEF CodecAt, Bit
  <2> QED BY <2>3, <2>4
<1>6. CASE adc_pcm_valid_1d # 1 /\ ~RightDone
  <2>1. InPipe' <=> InPipe
    BY <1>3, <1>6 DEF InPipe
  <2>2. CASE rise
    BY <1>1, <1>2, <1>6, <2>1, <2>2 DEF CodecAt
  <2>3. CASE ~rise
    BY <1>2, <1>6, <2>1, <2>3 DEF CodecAt
  <2> QED BY <1>6, <2>2, <2>3
<1>7. CASE adc_pcm_valid_1d # 1 /\ RightDone
  BY <1>1, <1>2, <1>3, <1>4, <1>7 DEF CodecAt
<1> QED BY <1>5, <1>6, <1>7

\* The banks are switched with the right word of the last sample.
Switching == adc_pcm_valid_1d = 1 /\ pcm_waddr.idx = N - 1
LEMMA SwitchAt == ASSUME Typed, Pulses, clean PROVE switch_banks <=> Switching
  BY AddrFacts DEF Typed, TypeOK, Pulses, Switching, switch_banks, adc_pcm_valid_extended, LastAddr, N, At

\* The bank of fgyrus, which is written with every sample, after a step.
Whole(bk, b) ==
  \A j \in 0..(N - 1) : mem[bk][At(0, j)] = Wd("L", Nth(b, j)) /\ mem[bk][At(1, j)] = Wd("R", Nth(b, j))
LEMMA BlockStep ==
  ASSUME Typed, Frame, Pulses, Delivery, NEW w \in Writes, Clk(w), clean, clean', NEW b \in 0..(K - 1), Block(b)
  PROVE  IF Switching THEN Block(Nth(b, N))' /\ Whole("f", b)' /\ FftBlockWhole'
                      ELSE Block(b)' /\ FftBlockWhole'
<1>0. /\ pcm_waddr \in Addr /\ pcm_waddr.msb \in Bit /\ pcm_waddr.idx \in 0..(N - 1)
      /\ pcm_waddr = At(pcm_waddr.msb, pcm_waddr.idx)
      /\ {prep_adc_data, adc_pcm_valid, adc_pcm_valid_1d} \subseteq Bit /\ codec.on \in Bit /\ codec.n \in 0..(K - 1)
  BY AddrFacts DEF Typed, TypeOK
<1>i. PICK i \in 0..(N - 1) : i = pcm_waddr.idx
  BY <1>0
<1>n. PICK n \in 0..(K - 1) : n = Nth(b, i)
  BY NthFacts, Sizes
<1>2. /\ \A j \in 0..(N - 1) : j < i => mem["f"][At(0, j)] = Wd("L", Nth(b, j)) /\ mem["f"][At(1, j)] = Wd("R", Nth(b, j))
      /\ pcm_waddr.msb = 1 => mem["f"][At(0, i)] = Wd("L", n)
      /\ InPipe => adc_data = [l |-> Wd("L", n), r |-> Wd("R", n)]
      /\ CodecAt(n)
  BY <1>i, <1>n DEF Block, CodecAt
<1>4. ~ToControl(w) /\ adc_en = 1 /\ pcm_waddr.msb = adc_pcm_valid_1d
  BY CleanStep DEF Delivery, ToBffr, ToControl, Pulses
<1>5. \A m \in Bit : \A j \in 0..(N - 1) : At(m, j) \in Addr /\ (At(m, j) = pcm_waddr <=> m = pcm_waddr.msb /\ j = i)
  BY <1>0, <1>i, AddrFacts DEF At
<1>6. "f" \in Written <=> adc_pcm_valid_extended
  BY DEF Written
<1>7. acortex2fgyrus_pcm_rdy' = 1 => adc_pcm_valid_1d = 1 /\ i = N - 1
  BY <1>4, <1>i DEF Clk, Delays, B, switch_banks, LastAddr, N
<1>8. 0 \in Bit /\ 1 \in Bit
  BY DEF Bit
<1>s. Switching <=> adc_pcm_valid_1d = 1 /\ i = N - 1
  BY <1>i DEF Switching
<1>9. CASE adc_pcm_valid_1d = 1
  <2>1. "f" \in Written /\ pcm_mem_wdata = adc_data.r /\ InPipe /\ pcm_waddr.msb = 1
    BY <1>4, <1>6, <1>9, StoreStep DEF adc_pcm_valid_extended, InPipe
  <2>2. \A a \in Addr : mem'["f"][a] = IF a = pcm_waddr THEN Wd("R", n) ELSE mem["f"][a]
    BY <1>2, <2>1, BankStep
  <2>3. \A j \in 0..(N - 1) : j <= i =>
          mem'["f"][At(0, j)] = Wd("L", Nth(b, j)) /\ mem'["f"][At(1, j)] = Wd("R", Nth(b, j))
    <3> SUFFICES ASSUME NEW j \in 0..(N - 1), j <= i
                 PROVE  mem'["f"][At(0, j)] = Wd("L", Nth(b, j)) /\ mem'["f"][At(1, j)] = Wd("R", Nth(b, j))
      OBVIOUS
    <3>1. mem'["f"][At(0, j)] = mem["f"][At(0, j)]
      BY <1>5, <1>8, <2>1, <2>2
    <3>2. CASE j = i
      BY <1>n, <1>2, <1>5, <1>8, <2>1, <2>2, <3>1, <3>2
    <3>3. CASE j # i
      <4>1. j < i
        BY <1>i, <1>0, <3>3
      <4> QED BY <1>2, <1>5, <1>8, <2>1, <2>2, <3>1, <3>3, <4>1
    <3> QED BY <3>2, <3>3
  <2>4. CodecAt(Succ(n))' /\ ~InPipe'
    BY <1>2, <1>9, CodecAtStep
  <2>5. Succ(n) \in 0..(K - 1)
    BY SuccFacts
  <2>6. CASE i = N - 1
    <3>1. pcm_waddr' = At(0, 0)
      BY <1>i, <1>4, <1>9, <2>1, <2>6, WaddrStep
    <3>2. Nth(Succ(n), 0) = Succ(n) /\ Succ(n) = Nth(b, N)
      <4>1. i \in 0..N /\ N \in 0..N /\ 0 \in 0..N /\ i = N - 1
        BY <2>6, Sizes
      <4>2. n = (IF b + i < K THEN b + i ELSE b + i - K) /\ Nth(b, N) = (IF b + N < K THEN b + N ELSE b + N - K)
        BY <1>n, <4>1, NthFacts
      <4>3. Succ(n) = IF n = K - 1 THEN 0 ELSE n + 1
        BY SuccFacts
      <4>4. Nth(Succ(n), 0) = Succ(n)
        BY <2>5, <4>1, NthFacts, Sizes
      <4> QED BY <4>1, <4>2, <4>3, <4>4, Sizes
    <3>3. Block(Succ(n))'
      BY <2>4, <3>1, <3>2 DEF Block, CodecAt, At
    <3>4. FftBlockWhole'
      <4>1. mem'["f"][Origin].n = b
        <5>1. Nth(b, 0) = b /\ 0 \in 0..(N - 1) /\ 0 <= i /\ Origin = At(0, 0)
          BY <1>i, <1>0, NthFacts, Sizes DEF Origin, At
        <5>2. mem'["f"][At(0, 0)] = Wd("L", Nth(b, 0))
          BY <2>3, <5>1
        <5>3. Wd("L", b).n = b
          BY DEF Wd
        <5> QED BY <5>1, <5>2, <5>3
      <4>2. \A j \in 0..(N - 1) : j <= i
        BY <2>6, Sizes
      <4> QED BY <2>3, <4>1, <4>2 DEF FftBlockWhole, Nth, At, Wd, N, K
    <3>5. Whole("f", b)'
      <4>1. \A j \in 0..(N - 1) : j <= i
        BY <2>6, Sizes
      <4> QED BY <2>3, <4>1 DEF Whole
    <3> QED BY <1>s, <1>9, <2>6, <3>2, <3>3, <3>4, <3>5
  <2>7. CASE i # N - 1
    <3>1. pcm_waddr' = At(0, i + 1) /\ i + 1 \in 0..(N - 1)
      BY <1>i, <1>0, <1>4, <1>9, <2>1, <2>7, WaddrStep, Sizes
    <3>2. Nth(b, i + 1) = Succ(n)
      <4>1. i \in 0..N /\ i + 1 \in 0..N
        BY <1>i, <1>0, <3>1, Sizes
      <4>2. n = (IF b + i < K THEN b + i ELSE b + i - K) /\ Nth(b, i + 1) = (IF b + (i + 1) < K THEN b + (i + 1) ELSE b + (i + 1) - K)
        BY <1>n, <4>1, NthFacts
      <4>3. Succ(n) = IF n = K - 1 THEN 0 ELSE n + 1
        BY SuccFacts
      <4> QED BY <4>1, <4>2, <4>3, Sizes
    <3>3. \A j \in 0..(N - 1) : j < i + 1 => j <= i
      BY <1>i, <1>0
    <3>4. Block(b)'
      BY <2>3, <2>4, <3>1, <3>2, <3>3 DEF Block, CodecAt, At
    <3> QED BY <1>7, <1>s, <2>7, <3>4 DEF FftBlockWhole
  <2> QED BY <2>6, <2>7
<1>10. CASE adc_pcm_valid_1d = 0
  <2>1. CodecAt(n)'
    BY <1>2, <1>10, CodecAtStep
  <2>2. InPipe' => adc_data' = [l |-> Wd("L", n), r |-> Wd("R", n)]
    <3>1. InPipe' <=> RightDone \/ prep_adc_data = 1 \/ adc_pcm_valid = 1
      BY <1>4, PipeStep
    <3>2. CASE prep_adc_data = 1 \/ adc_pcm_valid = 1
      BY <1>2, <3>2, ShiftStep DEF Pulses, InPipe
    <3>3. CASE RightDone /\ ~InPipe
      <4>1. fsm = "RCHANNEL" /\ AUD_BCLK = 1 /\ fs_cntr = 2 * BPS
        BY <3>3, DoneAt DEF RightDone, rpcm_lsb_offset
      <4>2. codec.on = 1 /\ adc_data.l = Wd("L", codec.n) /\ adc_data.r = Wd("R", codec.n)
        BY <4>1 DEF Delivery
      <4>3. codec.n = n /\ adc_data' = adc_data
        BY <1>2, <3>3, <4>1, <4>2, ShiftStep DEF CodecAt
      <4>4. adc_data \in [l : Word, r : Word]
        BY DEF Typed
      <4> QED BY <4>2, <4>3, <4>4
    <3> QED BY <1>10, <3>1, <3>2, <3>3 DEF InPipe
  <2>3. CASE adc_pcm_valid = 1
    <3>1. pcm_waddr' = At(1, i) /\ pcm_waddr.msb = 0
      BY <1>i, <1>4, <1>10, <2>3, WaddrStep
    <3>2. "f" \in Written /\ pcm_mem_wdata = adc_data.l /\ InPipe
      BY <1>4, <1>6, <1>10, <2>3, StoreStep DEF adc_pcm_valid_extended, InPipe
    <3>3. \A a \in Addr : mem'["f"][a] = IF a = pcm_waddr THEN Wd("L", n) ELSE mem["f"][a]
      BY <1>2, <3>2, BankStep
    <3>4. mem'["f"][At(0, i)] = Wd("L", n)
      BY <1>i, <1>0, <1>5, <1>8, <3>1, <3>3
    <3>5. \A j \in 0..(N - 1) : j < i =>
            mem'["f"][At(0, j)] = Wd("L", Nth(b, j)) /\ mem'["f"][At(1, j)] = Wd("R", Nth(b, j))
      BY <1>i, <1>0, <1>2, <1>5, <1>8, <3>3
    <3>6. Block(b)'
      BY <1>n, <2>1, <2>2, <3>1, <3>4, <3>5 DEF Block, CodecAt, At
    <3> QED BY <1>7, <1>s, <1>10, <3>6 DEF FftBlockWhole
  <2>4. CASE adc_pcm_valid = 0
    <3>1. pcm_waddr' = pcm_waddr /\ mem'["f"] = mem["f"]
      BY <1>4, <1>6, <1>10, <2>4, WaddrStep, BankStep DEF adc_pcm_valid_extended
    <3>2. Block(b)'
      BY <1>i, <1>n, <1>2, <2>1, <2>2, <3>1 DEF Block, CodecAt
    <3> QED BY <1>7, <1>s, <1>10, <3>2 DEF FftBlockWhole
  <2> QED BY <1>0, <2>3, <2>4 DEF Bit
<1> QED BY <1>0, <1>9, <1>10 DEF Bit

-----------------------------------------------------------------------------
LEMMA FillingStep ==
  ASSUME Typed, Frame, Pulses, Delivery, Filling, NEW w \in Writes, Clk(w), clean, clean'
  PROVE  Filling' /\ FftBlockWhole'
<1>1. PICK b \in 0..(K - 1) : Block(b)
  BY DEF Filling
<1>2. Nth(b, N) \in 0..(K - 1)
  BY NthFacts, Sizes
<1> QED BY <1>1, <1>2, BlockStep DEF Filling

LEMMA BlocksStart == Init => BlocksInv
<1> SUFFICES ASSUME Init PROVE BlocksInv
  OBVIOUS
<1>1. Typed
  <2>1. \A c \in {"a", "b", "f"} : [a \in Addr |-> Unknown] \in [Addr -> Word]
    BY WordFacts
  <2>2. mem \in [{"a", "b", "f"} -> [Addr -> Word]] /\ q \in [{"a", "b"} -> Word]
    BY <2>1, WordFacts DEF Init
  <2>3. 0 \in 0..(K - 1) /\ -1 \in -2..(K - 1) /\ fs_val \in Nat
    BY Sizes, AudioAssumption DEF Init
  <2>4. adc_data \in [l : Word, r : Word] /\ dac_data \in [l : Word, r : Word]
        /\ codec \in [on : Bit, n : 0..(K - 1)] /\ mem_rd_del_vec \in Bit \X Bit
    BY <2>3, WordFacts DEF Init, Bit
  <2>5. {adc_data.l, adc_data.r, dac_data.l, dac_data.r, q["a"], q["b"]} \subseteq Word
    BY <2>2, <2>4
  <2>6. {pcm_waddr, pcm_raddr, raddr_f} \subseteq Addr /\ fs_cntr \in 0..fs_val /\ bclk_cntr \in 0..BCLK_DIV
    BY <2>3, AddrFacts, Sizes DEF Init
  <2>7. TypeOK
    BY <2>2, <2>3, <2>4, <2>5, <2>6 DEF Init, TypeOK, Bit, K
  <2> QED BY <2>2, <2>4, <2>7 DEF Init, Typed
<1>2. Frame
  BY HalfBelow DEF Init, Frame, B
<1>3. Before = {}
  BY AddrFacts DEF Init, Before, Origin, Bit
<1> QED BY <1>1, <1>2, <1>3 DEF Init, BlocksInv, Pulses, Origin, Lanes, LanesKept, Unknown, Captured, CaptureComplete,
          Delivery, Filling, FftBlockWhole

LEMMA BlocksStep == BlocksInv /\ [Next]_vars => BlocksInv'
<1> SUFFICES ASSUME BlocksInv, [Next]_vars PROVE BlocksInv'
  OBVIOUS
<1>1. CASE UNCHANGED vars
  <2> USE <1>1 DEF vars, drvVars, bufVars, ghosts
  <2>1. Typed'
    BY DEF BlocksInv, Typed, TypeOK
  <2>2. Frame' /\ Pulses'
    BY DEF BlocksInv, Frame, Pulses
  <2>3. Lanes' /\ Captured'
    BY DEF BlocksInv, Lanes, LanesKept, Captured, CaptureComplete, Before
  <2>4. Delivery'
    BY DEF BlocksInv, Delivery
  <2>5. Filling'
    BY DEF BlocksInv, Filling, Block, InPipe
  <2>6. FftBlockWhole'
    BY DEF BlocksInv, FftBlockWhole
  <2> QED BY <2>1, <2>2, <2>3, <2>4, <2>5, <2>6 DEF BlocksInv
<1>2. ASSUME NEW w \in Writes, Clk(w) PROVE BlocksInv'
  <2>1. Typed' /\ Frame' /\ Lanes' /\ Captured' /\ Delivery'
    BY <1>2, TypedStep, FrameStep, LanesStep, CapturedStep, DeliveryStep DEF BlocksInv
  <2>2. clean => bffr_mode = 0 /\ adc_en = 1
    BY DEF BlocksInv, Delivery
  <2>3. Pulses'
    BY <1>2, <2>2, PulsesStep DEF BlocksInv
  <2>4. Filling' /\ FftBlockWhole'
    <3>1. CASE ~clean'
      BY <3>1 DEF Filling, FftBlockWhole
    <3>2. CASE clean' /\ clean
      BY <1>2, <3>2, FillingStep DEF BlocksInv
    <3>3. CASE clean' /\ ~clean
      <4>1. AtRest
        BY <1>2, <2>2, <3>3, CleanStep DEF BlocksInv
      <4>2. acortex2fgyrus_pcm_rdy' = 0
        BY <1>2, <4>1 DEF Clk, Delays, switch_banks, AtRest, B
      <4> QED BY <1>2, <3>3, <4>1, <4>2, FillingStart DEF BlocksInv, FftBlockWhole
    <3> QED BY <3>1, <3>2, <3>3
  <2> QED BY <2>1, <2>3, <2>4 DEF BlocksInv
<1> QED BY <1>1, <1>2 DEF Next

\* The blocks that the PCM buffer hands to the firmware (cap_done) and to
\* fgyrus (acortex2fgyrus_pcm_rdy) are whole, in the right lanes and in order,
\* for every bank size, word length, divider and frame length.
THEOREM BlocksAreWhole == Spec => []BlocksWhole
<1>1. BlocksInv => BlocksWhole
  BY DEF BlocksInv, BlocksWhole, Typed, Lanes, Captured
<1> QED BY <1>1, BlocksStart, BlocksStep, PTL DEF Spec

-----------------------------------------------------------------------------
(***************************************************************************)
(* The way to the DAC.  Left is the number of clocks before the left       *)
(* channel of the next frame begins; Room(k), that there are k of them.    *)
(***************************************************************************)
Clocks == BCLK_DIV + 1
Left == IF fsm = "LRCK" THEN Clocks - bclk_cntr
        ELSE (fs_val - fs_cntr) * Clocks + 2 * Clocks - bclk_cntr
Room(k) == fsm \in {"LRCK", "WAIT_FOR_FS"} /\ Left >= k

\* The bank that is read, and the one that is written.
Rd == IF bffr_a_n_b_sel = 1 THEN "b" ELSE "a"
Wr == IF bffr_a_n_b_sel = 1 THEN "a" ELSE "b"

\* How long before the next frame a sample is stored.
Timely ==
  clean => /\ prep_adc_data = 1 => Room(7)
           /\ adc_pcm_valid = 1 => Room(6)
           /\ adc_pcm_valid_1d = 1 => Room(5)

\* What is written to the bank of fgyrus is written to one of the two others.
Copied == clean => \A a \in Before : mem[Wr][a] = mem["f"][a]

\* The frames sent to the DAC are the driver's.
Frames ==
  /\ fsm \in {"IDLE", "WAIT_FOR_FS"} => tx.on = 0
  /\ fsm \in {"IDLE", "WAIT_FOR_FS", "RCHANNEL"} => AUD_DACLRCK = 0
  /\ dac_pcm_nxt = 1 => fsm # "IDLE"

\* The read address, its two registers, and the pulses that move it.
Regs(ra, rf, v1, v2) == pcm_raddr = ra /\ raddr_f = rf /\ mem_rd_del_vec = <<v1, v2>>
Flags(n0, n1, n2, f) ==
  dac_pcm_nxt = n0 /\ dac_pcm_nxt_1d = n1 /\ dac_pcm_nxt_2d = n2 /\ fwft_refresh = f

\* Nothing is sent before the first block is there and the DAC on.
Waiting ==
  clean /\ (dac_data_rdy = 0 \/ dac_en = 0) =>
    /\ tx.on = 0 /\ heard = -1
    /\ dac_data_rdy = 0 =>
         Flags(0, 0, 0, 0) /\ pcm_raddr = Origin /\ raddr_f = Origin /\ mem_rd_del_vec[1] = 0

Playing == clean /\ dac_data_rdy = 1 /\ dac_en = 1

\* Sample n is the one to be sent next.
Due(n) == (heard = -1 \/ (heard \in 0..(K - 1) /\ Succ(heard) = n)) /\ ~InPipe

NextAt(i) == IF i = N - 1 THEN 0 ELSE i + 1

(***************************************************************************)
(* The phases of the read side, clock by clock: sample n, at index i of    *)
(* the bank, has been sent and the next one is asked for (three clocks),   *)
(* its right and then its left word are fetched; a first block is fetched  *)
(* without being asked for.                                                *)
(***************************************************************************)
Ask1(n, i) ==
  Flags(1, 0, 0, 0) /\ Regs(At(0, i), At(0, i), 0, 0) /\ prep_adc_data = 1 /\ heard = n /\ dac_data_rdy_1d = 1
Ask2(n, i) ==
  Flags(0, 1, 0, 0) /\ Regs(At(0, i), At(0, i), 0, 0) /\ adc_pcm_valid = 1 /\ heard = n /\ dac_data_rdy_1d = 1
Ask3(n, i) ==
  Flags(0, 0, 1, 0) /\ Regs(At(1, NextAt(i)), At(0, i), 0, 0) /\ adc_pcm_valid_1d = 1 /\ heard = n /\ dac_data_rdy_1d = 1
Fetch1(n, i) ==
  /\ Flags(0, 0, 0, 0) /\ Regs(At(0, i), At(1, i), 1, 0) /\ Due(n) /\ dac_data_rdy_1d = 1
  /\ Room(4) \/ (q[Rd] = Wd("L", n) /\ Room(1))
Fetch2(n, i) ==
  /\ Flags(0, 0, 0, 0) /\ Regs(At(0, i), At(0, i), 0, 1) /\ Due(n) /\ dac_data_rdy_1d = 1
  /\ q[Rd] = Wd("R", n) /\ (Room(3) \/ (dac_data.l = Wd("L", n) /\ fsm # "RCHANNEL"))
Ready(n, i) ==
  /\ Flags(0, 0, 0, 0) /\ Regs(At(0, i), At(0, i), 0, 0) /\ Due(n) /\ dac_data_rdy_1d = 1
  /\ q[Rd] = Wd("L", n) /\ dac_data.r = Wd("R", n) /\ (Room(2) \/ dac_data.l = Wd("L", n))
First1(n, i) ==
  /\ Flags(0, 0, 0, 0) /\ Regs(At(0, i), At(0, i), 0, 0) /\ Due(n) /\ dac_data_rdy_1d = 0
  /\ q[Rd] = Wd("L", n) /\ Room(4)
First2(n, i) ==
  /\ Flags(0, 0, 0, 1) /\ Regs(At(0, i), At(0, i), 0, 0) /\ Due(n) /\ dac_data_rdy_1d = 1
  /\ fwft_refresh_1d = 0 /\ q[Rd] = Wd("L", n) /\ dac_data.l = Wd("L", n) /\ Room(3)
First3(n, i) ==
  /\ Flags(0, 0, 0, 1) /\ Regs(At(1, i), At(0, i), 0, 0) /\ Due(n) /\ dac_data_rdy_1d = 1
  /\ fwft_refresh_1d = 1 /\ q[Rd] = Wd("L", n) /\ dac_data.l = Wd("L", n) /\ Room(2)
Phase(n, i) ==
  \/ Ask1(n, i) \/ Ask2(n, i) \/ Ask3(n, i) \/ Fetch1(n, i) \/ Fetch2(n, i) \/ Ready(n, i)
  \/ First1(n, i) \/ First2(n, i) \/ First3(n, i)

\* What the codec has seen of the frame under way.
Sending(n) ==
  /\ fsm = "LRCK" => tx.on = AUD_DACLRCK /\ (tx.on = 1 => tx.l = {} /\ tx.r = {})
  /\ fsm = "LCHANNEL" => tx.on = 1 /\ tx.l \subseteq {Wd("L", n)} /\ tx.r = {}
  /\ fsm = "RCHANNEL" => tx.on = 1 /\ tx.l = {Wd("L", n)} /\ tx.r \subseteq {Wd("R", n)}

Played(c, i) == Phase(Nth(c, i), i) /\ Sending(Nth(c, i))

\* The block that is read is the one before the block that is written.
Order ==
  clean => \E b \in 0..(K - 1) :
    /\ Block(b)
    /\ Playing => \E c \in 0..(K - 1) : Nth(c, N) = b /\ Whole(Rd, c) /\ Played(c, pcm_waddr.idx)

OrderInv == BlocksInv /\ Timely /\ Copied /\ Frames /\ Waiting /\ Order

-----------------------------------------------------------------------------
LEMMA LeftInt ==
  ASSUME Typed
  PROVE  Clocks \in Nat /\ Clocks > 1 /\ Left \in Int /\ (fs_val - fs_cntr) * Clocks \in Nat
<1>1. Clocks \in Nat /\ Clocks > 1
  BY Sizes DEF Clocks
<1>2. fs_val - fs_cntr \in Nat /\ bclk_cntr \in Nat
  BY FsFacts, Sizes DEF Typed, TypeOK
<1>3. (fs_val - fs_cntr) * Clocks \in Nat
  BY <1>1, <1>2
<1> QED BY <1>1, <1>2, <1>3 DEF Left

\* One clock less.
LEMMA RoomStep ==
  ASSUME Typed, Frame, NEW w \in Writes, Clk(w), adc_en = 1, NEW k \in Nat, k >= 2, Room(k)
  PROVE  Room(k - 1)'
<1>1. fs_val \in Nat /\ fs_cntr \in 0..fs_val /\ bclk_cntr \in 0..BCLK_DIV /\ Clocks = BCLK_DIV + 1
  BY FsFacts DEF Typed, TypeOK, Clocks
<1>2. bclk_cntr' = (IF bclk_tck THEN 0 ELSE bclk_cntr + 1) /\ fs_cntr' = (IF fs_tck THEN 0 ELSE fs_cntr + B(bclk_tck))
      /\ fsm' = next_state /\ fs_val' = fs_val
  BY DEF Clk, DrvrClocks, DrvrWrite, FirmwareOrder, Room
<1>3. Restart = "LRCK"
  BY DEF Restart, Wanted
<1>4. CASE fsm = "LRCK"
  <2>1. Left = Clocks - bclk_cntr /\ Left >= k
    BY <1>4 DEF Left, Room
  <2>2. ~bclk_tck
    BY <1>1, <2>1 DEF bclk_tck
  <2>3. fsm' = "LRCK" /\ bclk_cntr' = bclk_cntr + 1
    BY <1>2, <1>4, <2>2 DEF next_state
  <2>4. Left' = Clocks - (bclk_cntr + 1)
    BY <2>3 DEF Left, Clocks
  <2> QED BY <1>1, <2>1, <2>3, <2>4 DEF Room
<1>5. CASE fsm = "WAIT_FOR_FS" /\ fs_tck
  <2>1. fsm' = "LRCK" /\ bclk_cntr' = 0 /\ bclk_cntr = BCLK_DIV /\ fs_cntr = fs_val
    BY <1>2, <1>3, <1>5 DEF next_state, fs_tck, bclk_tck
  <2>2. Left' = Clocks - 0
    BY <2>1 DEF Left, Clocks
  <2>3. (fs_val - fs_cntr) * Clocks = 0
    BY <1>1, <2>1, Sizes
  <2>4. Left = (fs_val - fs_cntr) * Clocks + 2 * Clocks - bclk_cntr /\ Left >= k
    BY <1>5 DEF Left, Room
  <2> QED BY <1>1, <2>1, <2>2, <2>3, <2>4, Sizes DEF Room
<1>6. CASE fsm = "WAIT_FOR_FS" /\ ~fs_tck
  <2>1. fsm' = "WAIT_FOR_FS" /\ fs_cntr' = fs_cntr + B(bclk_tck)
    BY <1>2, <1>6 DEF next_state
  <2>2. Left = (fs_val - fs_cntr) * Clocks + 2 * Clocks - bclk_cntr /\ Left >= k
        /\ Left' = (fs_val - fs_cntr') * Clocks + 2 * Clocks - bclk_cntr'
    BY <1>2, <1>6, <2>1 DEF Left, Room, Clocks
  <2>3. CASE bclk_tck
    <3>1. fs_cntr' = fs_cntr + 1 /\ bclk_cntr' = 0 /\ bclk_cntr = BCLK_DIV
      BY <1>2, <2>1, <2>3 DEF B, bclk_tck
    <3>2. (fs_val - (fs_cntr + 1)) * Clocks = (fs_val - fs_cntr) * Clocks - Clocks
      BY <1>1, Sizes, SMTT(30)
    <3>3. (fs_val - fs_cntr) * Clocks \in Int
      BY LeftInt
    <3>4. (fs_val - fs_cntr') * Clocks = (fs_val - fs_cntr) * Clocks - Clocks
      BY <3>1, <3>2
    <3> HIDE DEF Clocks
    <3> QED BY <1>1, <2>1, <2>2, <3>1, <3>3, <3>4, Sizes DEF Room
  <2>4. CASE ~bclk_tck
    <3>1. fs_cntr' = fs_cntr /\ bclk_cntr' = bclk_cntr + 1
      BY <1>1, <1>2, <2>1, <2>4 DEF B
    <3>2. (fs_val - fs_cntr) * Clocks \in Int
      BY LeftInt
    <3> QED BY <1>1, <2>1, <2>2, <3>1, <3>2, Sizes DEF Room
  <2> QED BY <2>3, <2>4
<1> QED BY <1>4, <1>5, <1>6 DEF Room

\* The assumption on the frame: seven clocks after the right channel.
LEMMA RoomStart ==
  ASSUME Typed, Frame, NEW w \in Writes, Clk(w), adc_en = 1, RightDone
  PROVE  Room(7)'
<1>1. fs_val \in Nat /\ fs_val >= 2 * BPS /\ Clocks = BCLK_DIV + 1 /\ (fs_val - 2 * BPS + 1) * Clocks >= 7
  BY FsFacts, AudioAssumption DEF Typed, TypeOK, Clocks
<1>2. fsm = "RCHANNEL" /\ bclk_cntr = BCLK_DIV /\ bclk_tck /\ fs_cntr = 2 * BPS
  BY DoneAt DEF RightDone, bclk_tck, rpcm_lsb_offset
<1>3. bclk_cntr' = 0 /\ fs_cntr' = (IF fs_tck THEN 0 ELSE fs_cntr + 1) /\ fsm' = next_state /\ fs_val' = fs_val
  BY <1>2 DEF Clk, DrvrClocks, DrvrWrite, FirmwareOrder, B
<1>4. CASE fs_tck
  <2>1. fsm' = "LRCK" /\ fs_val = 2 * BPS
    BY <1>2, <1>3, <1>4 DEF next_state, Restart, Wanted, fs_tck
  <2>2. Left' = Clocks - 0
    BY <1>3, <2>1 DEF Left, Clocks
  <2>3. (fs_val - 2 * BPS + 1) * Clocks = Clocks
    BY <1>1, <2>1, Sizes
  <2> QED BY <1>1, <2>1, <2>2, <2>3, Sizes DEF Room
<1>5. CASE ~fs_tck
  <2>1. fsm' = "WAIT_FOR_FS" /\ fs_cntr' = 2 * BPS + 1
    BY <1>2, <1>3, <1>5 DEF next_state
  <2>2. Left' = (fs_val - (2 * BPS + 1)) * Clocks + 2 * Clocks - 0
    BY <1>3, <2>1 DEF Left, Clocks
  <2>3. (fs_val - 2 * BPS + 1) * Clocks = (fs_val - (2 * BPS + 1)) * Clocks + 2 * Clocks
        /\ (fs_val - (2 * BPS + 1)) * Clocks \in Int
    BY <1>1, Sizes, SMTT(30)
  <2> HIDE DEF Clocks
  <2> QED BY <1>1, <2>1, <2>2, <2>3, Sizes DEF Room
<1> QED BY <1>4, <1>5

LEMMA RoomLess == ASSUME Typed, NEW k \in Int, NEW m \in Int, m <= k, Room(k) PROVE Room(m)
  BY LeftInt DEF Room

LEMMA TimelyStep ==
  ASSUME Typed, Frame, Pulses, Delivery, Timely, NEW w \in Writes, Clk(w)
  PROVE  Timely'
<1>1. adc_pcm_valid' = prep_adc_data /\ adc_pcm_valid_1d' = adc_pcm_valid /\ prep_adc_data' = B(RightDone /\ adc_en = 1)
  BY DEF Clk, DrvrPulses, Delays
<1>2. CASE clean' /\ AtRest
  <2>1. ~RightDone /\ prep_adc_data # 1 /\ adc_pcm_valid # 1
    BY <1>2, DoneAt DEF AtRest, adc_pcm_valid_extended
  <2> QED BY <1>1, <2>1 DEF Timely, B
<1>3. CASE clean' /\ ~AtRest
  <2>1. clean /\ adc_en = 1
    BY <1>3, CleanStep DEF Delivery
  <2>2. prep_adc_data' = 1 => Room(7)'
    BY <1>1, <2>1, RoomStart DEF B
  <2>3. prep_adc_data = 1 => Room(6)'
    BY <2>1, RoomStep DEF Timely
  <2>4. adc_pcm_valid = 1 => Room(5)'
    BY <2>1, RoomStep DEF Timely
  <2> QED BY <1>1, <2>2, <2>3, <2>4 DEF Timely
<1> QED BY <1>2, <1>3 DEF Timely

\* The roles of the two banks change with a switch; only one of them is written.
LEMMA RoleStep ==
  ASSUME Typed, Pulses, clean, bffr_mode = 0, NEW w \in Writes, Clk(w), ~ToControl(w)
  PROVE  /\ Switching => Rd' = Wr /\ Wr' = Rd
         /\ ~Switching => Rd' = Rd /\ Wr' = Wr
         /\ Rd \notin Written /\ (Wr \in Written <=> "f" \in Written)
         /\ Rd \in {"a", "b"} /\ Wr \in {"a", "b"} /\ Rd # Wr
<1>1. bffr_a_n_b_sel \in Bit /\ bffr_a_n_b_sel' = (IF Switching THEN 1 - bffr_a_n_b_sel ELSE bffr_a_n_b_sel)
  BY SwitchAt DEF Typed, TypeOK, Clk, BankSelect, Flip
<1> QED BY <1>1 DEF Rd, Wr, Written, Bit

\* The bank just written and the bank of fgyrus agree behind the write address.
LEMMA CopyStep ==
  ASSUME Typed, Pulses, clean, bffr_mode = 0, Copied, NEW w \in Writes, Clk(w), ~ToControl(w)
  PROVE  /\ Switching => (\A a \in Addr : mem'[Wr][a] = mem'["f"][a]) /\ Before' = {}
         /\ ~Switching => \A a \in Before' : mem'[Wr][a] = mem'["f"][a]
<1>1. \A a \in Before : a \in Addr /\ mem[Wr][a] = mem["f"][a]
  BY DEF Copied, Before
<1>2. pcm_waddr \in Addr /\ Wr \in {"a", "b", "f"} /\ (Wr \in Written <=> "f" \in Written)
  BY RoleStep DEF Typed, TypeOK
<1>3. CASE adc_pcm_valid_extended
  <2>1. \A a \in Before \cup {pcm_waddr} : mem'[Wr][a] = mem'["f"][a]
    BY <1>1, <1>2, <1>3, BankStep DEF Written
  <2> QED BY <1>3, <2>1, SwitchAt, BeforeStep DEF switch_banks
<1>4. CASE ~adc_pcm_valid_extended
  <2>1. mem'[Wr] = mem[Wr] /\ mem'["f"] = mem["f"]
    BY <1>2, <1>4, BankStep DEF Written
  <2> QED BY <1>1, <1>4, <2>1, SwitchAt, BeforeStep DEF switch_banks
<1> QED BY <1>3, <1>4

LEMMA CopiedStep ==
  ASSUME Typed, Pulses, Delivery, Copied, NEW w \in Writes, Clk(w)
  PROVE  Copied'
<1>1. CASE clean' /\ AtRest
  <2>1. ~ToControl(w) /\ ~adc_pcm_valid_extended /\ pcm_waddr = Origin
    BY <1>1, CleanStep DEF Delivery, AtRest, ToBffr, ToControl
  <2>2. pcm_waddr' = Origin
    BY <2>1, WaddrStep
  <2>3. Before' = {}
    BY <2>2, AddrFacts DEF Before, Origin, Bit
  <2> QED BY <2>3 DEF Copied
<1>2. CASE clean' /\ ~AtRest
  <2>1. clean /\ bffr_mode = 0 /\ ~ToControl(w)
    BY <1>2, CleanStep DEF Delivery, ToBffr, ToControl
  <2>2. CASE Switching
    BY <2>1, <2>2, CopyStep DEF Copied
  <2>3. CASE ~Switching
    BY <2>1, <2>3, CopyStep, RoleStep DEF Copied
  <2> QED BY <2>2, <2>3
<1> QED BY <1>1, <1>2 DEF Copied

\* The frame sent to the DAC starts with the driver's and ends with the right
\* channel.
LEMMA TxStep ==
  ASSUME Typed, Frame, NEW w \in Writes, Clk(w)
  PROVE  /\ AUD_DACLRCK' = B(fsm = "LRCK" /\ dac_en = 1 /\ dac_data_rdy = 1)
         /\ AUD_DACLRCK = 0 /\ AUD_DACLRCK' = 1 => tx'.on = 1 /\ tx'.l = {} /\ tx'.r = {}
         /\ ~ (AUD_DACLRCK = 0 /\ AUD_DACLRCK' = 1) =>
              /\ tx'.on = (IF RightDone THEN 0 ELSE tx.on)
              /\ tx'.l = (IF fsm = "LCHANNEL" THEN tx.l \cup {dac_data.l} ELSE tx.l)
              /\ tx'.r = (IF fsm = "RCHANNEL" THEN tx.r \cup {dac_data.r} ELSE tx.r)
  BY DEF Clk, DrvrPulses, CodecEdge

LEMMA FramesStep ==
  ASSUME Typed, Frame, Frames, NEW w \in Writes, Clk(w)
  PROVE  Frames'
<1>1. fsm \in {"IDLE", "LRCK", "LCHANNEL", "RCHANNEL", "WAIT_FOR_FS"}
  BY DEF Typed, TypeOK
<1>2. fsm' \in {"IDLE", "WAIT_FOR_FS"} => tx'.on = 0
  BY <1>1, FsmFrom, TxStep DEF Frames, B
<1>3. fsm' \in {"IDLE", "WAIT_FOR_FS", "RCHANNEL"} => AUD_DACLRCK' = 0
  BY <1>1, FsmFrom, TxStep DEF B
<1>4. dac_pcm_nxt' = 1 => fsm' # "IDLE"
  <2>1. dac_pcm_nxt' = 1 => RightDone /\ Wanted
    BY DEF Clk, DrvrPulses, DacPulse, B, Wanted
  <2> QED BY <2>1, DoneAt DEF Clk, DrvrClocks, next_state, Restart
<1> QED BY <1>2, <1>3, <1>4 DEF Frames

-----------------------------------------------------------------------------
\* The registers of the read side after a step.
LEMMA ReadStep ==
  ASSUME Typed, bffr_mode = 0, NEW w \in Writes, Clk(w), ~ToControl(w),
         NEW m \in Bit, NEW i \in 0..(N - 1), NEW rf, NEW v1, NEW v2, Regs(At(m, i), rf, v1, v2),
         NEW n0, NEW n1 \in Bit, NEW n2, NEW f, Flags(n0, n1, n2, f)
  PROVE  /\ pcm_raddr' = At(IF n1 = 1 \/ n2 = 1 \/ f = 1 THEN 1 - m ELSE m, IF n1 = 1 THEN NextAt(i) ELSE i)
         /\ raddr_f' = At(m, i) /\ mem_rd_del_vec' = <<m, v1>>
         /\ dac_pcm_nxt' = B(RightDone /\ dac_en = 1 /\ dac_data_rdy = 1)
         /\ dac_pcm_nxt_1d' = n0 /\ dac_pcm_nxt_2d' = n1 /\ dac_data_rdy_1d' = dac_data_rdy /\ fwft_refresh_1d' = f
         /\ fwft_refresh' = IF f = 0 THEN B(dac_data_rdy = 1 /\ dac_data_rdy_1d = 0) ELSE 1 - fwft_refresh_1d
         /\ v2 = 1 => dac_data'.r = q[Rd] /\ dac_data'.l = dac_data.l
         /\ v2 = 0 => dac_data'.l = q[Rd] /\ dac_data'.r = dac_data.r
<1>1. pcm_raddr = At(m, i) /\ raddr_f = rf /\ mem_rd_del_vec = <<v1, v2>> /\ dac_data \in [l : Word, r : Word]
  BY DEF Regs, Typed
<1>2. dac_pcm_nxt = n0 /\ dac_pcm_nxt_1d = n1 /\ dac_pcm_nxt_2d = n2 /\ fwft_refresh = f
  BY DEF Flags
<1>3. pcm_raddr' = At(Flip(m, dac_pcm_nxt_extended \/ fwft_refresh = 1), (i + n1) % N)
  BY <1>1, <1>2 DEF Clk, ReadAddr, At, N
<1>4. (i + n1) % N = (IF n1 = 1 THEN NextAt(i) ELSE i)
  BY NextIdx DEF NextAt, Bit
<1>5. raddr_f' = At(m, i) /\ mem_rd_del_vec' = <<m, v1>>
  BY <1>1 DEF Clk, Memories, DacRegs, At
<1>6. (v2 = 1 => dac_data'.r = q[Rd] /\ dac_data'.l = dac_data.l) /\ (v2 = 0 => dac_data'.l = q[Rd] /\ dac_data'.r = dac_data.r)
  <2>1. bffr_pcm_rdata = q[Rd]
    BY DEF bffr_pcm_rdata, Rd
  <2>2. dac_data' = (IF v2 = 1 THEN [dac_data EXCEPT !.r = q[Rd]] ELSE [dac_data EXCEPT !.l = q[Rd]])
    BY <1>1, <2>1 DEF Clk, DacRegs
  <2> QED BY <1>1, <2>2
<1> QED BY <1>2, <1>3, <1>4, <1>5, <1>6 DEF Clk, DrvrPulses, DacPulse, Delays, Flip, dac_pcm_nxt_extended

\* The bank that is read stays as it is, and its output is the word at raddr_f.
LEMMA OutputStep ==
  ASSUME Typed, Pulses, clean, bffr_mode = 0, NEW w \in Writes, Clk(w), ~ToControl(w)
  PROVE  /\ mem'[Rd] = mem[Rd] /\ q'[Rd] = mem[Rd][raddr_f]
         /\ raddr_f # pcm_waddr => q'[Wr] = mem[Wr][raddr_f]
<1>1. Rd \notin Written /\ Rd \in {"a", "b"} /\ Wr \in {"a", "b"}
  BY RoleStep
<1>2. q' = [b \in {"a", "b"} |-> IF b \in Written /\ raddr_f = pcm_waddr THEN Unknown ELSE mem[b][raddr_f]]
  BY DEF Clk, Memories
<1> QED BY <1>1, <1>2, BankStep

\* While samples are sent no register is written.
LEMMA PlayStep ==
  ASSUME OrderInv, Playing, NEW w \in Writes, Clk(w), clean'
  PROVE  /\ ~ToControl(w) /\ bffr_mode = 0 /\ adc_en = 1 /\ dac_en = 1 /\ dac_data_rdy = 1 /\ clean
         /\ Playing' /\ heard' = IF RightDone /\ tx.on = 1 THEN Sent(tx'.l, tx'.r) ELSE heard
         /\ prep_adc_data' = B(RightDone) /\ adc_pcm_valid' = prep_adc_data /\ adc_pcm_valid_1d' = adc_pcm_valid
<1>1. bffr_mode = 0 /\ adc_en = 1 /\ dac_en = 1 /\ dac_data_rdy = 1 /\ clean
  BY DEF OrderInv, BlocksInv, Delivery, Playing
<1>2. w = NoWrite
  <2>1. AtRest \/ w = NoWrite \/ dac_data_rdy = 0
    BY DEF Clk, GhostEdge
  <2> QED BY <1>1, <2>1 DEF AtRest
<1>3. w.reg = "none"
  BY <1>2 DEF NoWrite, RegWrite
<1>4. Playing'
  BY <1>1, <1>3 DEF Clk, DrvrWrite, WriteAddr, ToControl, Playing
<1>5. heard' = IF RightDone /\ tx.on = 1 THEN Sent(tx'.l, tx'.r) ELSE heard
  BY <1>1, <1>2, <1>3 DEF Clk, GhostEdge
<1> QED BY <1>1, <1>3, <1>4, <1>5 DEF Clk, DrvrPulses, Delays, ToControl, B

\* Nothing is on its way when the right channel ends.
LEMMA DoneClear == ASSUME Typed, Frame, Pulses, RightDone PROVE fsm = "RCHANNEL" /\ ~InPipe
<1>1. fsm = "RCHANNEL" /\ bclk_cntr = BCLK_DIV
  BY DoneAt
<1> QED BY <1>1 DEF Pulses, InPipe, Between

LEMMA NextFacts ==
  ASSUME NEW c \in 0..(K - 1), NEW i \in 0..(N - 1)
  PROVE  /\ NextAt(i) \in 0..(N - 1) /\ Nth(c, 0) = c
         /\ Succ(Nth(c, i)) = (IF i = N - 1 THEN Nth(c, N) ELSE Nth(c, NextAt(i)))
<1>1. 0 \in 0..N /\ i \in 0..N /\ i + 1 \in 0..N /\ (i = N - 1 <=> i + 1 = N)
  BY Sizes
<1>2. Nth(c, 0) = c /\ Nth(c, i) \in 0..(K - 1)
  BY <1>1, NthFacts, Sizes
<1>3. Nth(c, i) = (IF c + i < K THEN c + i ELSE c + i - K)
      /\ Nth(c, i + 1) = (IF c + (i + 1) < K THEN c + (i + 1) ELSE c + (i + 1) - K)
  BY <1>1, NthFacts
<1>4. Succ(Nth(c, i)) = (IF Nth(c, i) = K - 1 THEN 0 ELSE Nth(c, i) + 1)
  BY <1>2, SuccFacts
<1>5. Succ(Nth(c, i)) = Nth(c, i + 1)
  BY <1>2, <1>3, <1>4, Sizes
<1> QED BY <1>1, <1>2, <1>5, Sizes DEF NextAt

-----------------------------------------------------------------------------
(***************************************************************************)
(* One phase after the other.                                              *)
(***************************************************************************)
LEMMA AskStep ==
  ASSUME OrderInv, Playing, NEW w \in Writes, Clk(w), clean', NEW n \in 0..(K - 1), NEW i \in 0..(N - 1)
  PROVE  /\ Ask1(n, i) => Ask2(n, i)'
         /\ Ask2(n, i) => Ask3(n, i)'
         /\ Ask3(n, i) => Fetch1(Succ(n), NextAt(i))'
<1>1. Typed /\ Frame /\ Pulses /\ Timely /\ 0 \in Bit /\ 1 \in Bit /\ n # -1
  BY DEF OrderInv, BlocksInv, Bit
<1>2. InPipe => ~RightDone /\ heard' = heard /\ prep_adc_data' = 0
  BY <1>1, DoneClear, PlayStep DEF B
<1>3. ASSUME Ask1(n, i) PROVE Ask2(n, i)'
  <2>1. InPipe /\ Flags(1, 0, 0, 0) /\ Regs(At(0, i), At(0, i), 0, 0) /\ heard = n /\ dac_data_rdy_1d = 1 /\ prep_adc_data = 1
    BY <1>3 DEF Ask1, InPipe
  <2> QED BY <1>1, <1>2, <2>1, ReadStep, PlayStep DEF Ask2, Flags, Regs, B
<1>4. ASSUME Ask2(n, i) PROVE Ask3(n, i)'
  <2>1. InPipe /\ Flags(0, 1, 0, 0) /\ Regs(At(0, i), At(0, i), 0, 0) /\ heard = n /\ dac_data_rdy_1d = 1 /\ adc_pcm_valid = 1
    BY <1>4 DEF Ask2, InPipe
  <2> QED BY <1>1, <1>2, <2>1, ReadStep, PlayStep DEF Ask3, Flags, Regs, B
<1>5. ASSUME Ask3(n, i) PROVE Fetch1(Succ(n), NextAt(i))'
  <2>1. InPipe /\ Flags(0, 0, 1, 0) /\ Regs(At(1, NextAt(i)), At(0, i), 0, 0) /\ heard = n /\ dac_data_rdy_1d = 1
        /\ adc_pcm_valid_1d = 1
    BY <1>5 DEF Ask3, InPipe
  <2>2. prep_adc_data # 1 /\ adc_pcm_valid # 1
    BY <1>1, <2>1 DEF Pulses
  <2>3. ~InPipe' /\ heard' = n
    BY <1>2, <2>1, <2>2, PlayStep DEF InPipe
  <2>4. Room(4)'
    BY <1>1, <2>1, RoomStep, PlayStep DEF Timely
  <2>5. NextAt(i) \in 0..(N - 1)
    BY NextFacts
  <2> QED BY <1>1, <1>2, <2>1, <2>3, <2>4, <2>5, ReadStep, PlayStep DEF Fetch1, Due, Flags, Regs, B
<1> QED BY <1>3, <1>4, <1>5

\* The channel that has just been sent is that of one sample, the next one.
LEMMA SentNext ==
  ASSUME NEW n \in 0..(K - 1), heard \in -2..(K - 1), heard = -1 \/ (heard \in 0..(K - 1) /\ Succ(heard) = n)
  PROVE  Sent({Wd("L", n)}, {Wd("R", n)}) = n
<1>1. Cardinality({Wd("L", n)}) = 1 /\ Cardinality({Wd("R", n)}) = 1
  BY FS_Singleton
<1>2. heard \in {-1, (n + NUM_IDS - 1) % NUM_IDS}
  <2>1. CASE heard # -1
    <3>1. heard \in 0..(K - 1) /\ n = (IF heard = K - 1 THEN 0 ELSE heard + 1)
      BY <2>1, SuccFacts
    <3>2. n + K - 1 \in Nat /\ n + K - 1 < 2 * K /\ K > 0 /\ K \in Nat
      BY Sizes
    <3>3. (n + K - 1) % K = (IF n + K - 1 < K THEN n + K - 1 ELSE n + K - 1 - K)
      BY <3>2, ModNear
    <3> QED BY <3>1, <3>2, <3>3 DEF K
  <2> QED BY <2>1
<1>3. (CHOOSE x \in {Wd("L", n)} : TRUE) = Wd("L", n)
  <2> DEFINE c == CHOOSE x \in {Wd("L", n)} : TRUE
  <2>1. \E x : x \in {Wd("L", n)} /\ TRUE
    OBVIOUS
  <2>2. c \in {Wd("L", n)}
    BY <2>1, Zenon
  <2> HIDE DEF c
  <2>3. c = Wd("L", n)
    BY <2>2
  <2> QED BY <2>3 DEF c
<1>4. Wd("L", n).n = n
  BY DEF Wd
<1> QED BY <1>1, <1>2, <1>3, <1>4 DEF Sent, Wd, K

LEMMA FetchStep ==
  ASSUME OrderInv, Playing, NEW w \in Writes, Clk(w), clean', NEW n \in 0..(K - 1), NEW i \in 0..(N - 1),
         mem[Rd][At(0, i)] = Wd("L", n), mem[Rd][At(1, i)] = Wd("R", n)
  PROVE  /\ Fetch1(n, i) => Fetch2(n, i)'
         /\ Fetch2(n, i) => Ready(n, i)'
         /\ Ready(n, i) /\ ~RightDone => Ready(n, i)'
         /\ Ready(n, i) /\ RightDone /\ Sending(n) => Ask1(n, i)'
<1>1. Typed /\ Frame /\ Pulses /\ Timely /\ 0 \in Bit /\ 1 \in Bit
  BY DEF OrderInv, BlocksInv, Bit
<1>2. ASSUME ~InPipe PROVE Rd' = Rd /\ q'[Rd'] = mem[Rd][raddr_f]
  <2>1. ~Switching
    BY <1>2 DEF Switching, InPipe
  <2> QED BY <1>1, <2>1, RoleStep, OutputStep, PlayStep
<1>3. ASSUME ~InPipe, ~RightDone PROVE ~InPipe' /\ heard' = heard
  BY <1>3, PlayStep DEF InPipe, B
<1>4. ASSUME Fetch1(n, i) PROVE Fetch2(n, i)'
  <2>1. /\ Flags(0, 0, 0, 0) /\ Regs(At(0, i), At(1, i), 1, 0) /\ Due(n) /\ ~InPipe /\ dac_data_rdy_1d = 1
        /\ Room(4) \/ (q[Rd] = Wd("L", n) /\ Room(1))
    BY <1>4 DEF Fetch1, Due
  <2>2. fsm \in {"LRCK", "WAIT_FOR_FS"} /\ ~RightDone
    BY <1>1, <2>1, DoneClear DEF Room
  <2>3. Due(n)'
    BY <1>3, <2>1, <2>2 DEF Due
  <2>4. q'[Rd'] = Wd("R", n)
    BY <1>2, <2>1 DEF Regs
  <2>5. Room(4) => Room(3)'
    BY <1>1, RoomStep, PlayStep
  <2>6. fsm' # "RCHANNEL"
    BY <1>1, <2>2, FsmFrom
  <2>7. q[Rd] = Wd("L", n) => dac_data'.l = Wd("L", n)
    BY <1>1, <2>1, ReadStep, PlayStep
  <2>8. Flags(0, 0, 0, 0)' /\ Regs(At(0, i), At(0, i), 0, 1)' /\ dac_data_rdy_1d' = 1
    BY <1>1, <2>1, <2>2, ReadStep, PlayStep DEF Flags, Regs, B
  <2> QED BY <2>1, <2>3, <2>4, <2>5, <2>6, <2>7, <2>8 DEF Fetch2
<1>5. ASSUME Fetch2(n, i) PROVE Ready(n, i)'
  <2>1. /\ Flags(0, 0, 0, 0) /\ Regs(At(0, i), At(0, i), 0, 1) /\ Due(n) /\ ~InPipe /\ dac_data_rdy_1d = 1
        /\ q[Rd] = Wd("R", n) /\ (Room(3) \/ (dac_data.l = Wd("L", n) /\ fsm # "RCHANNEL"))
    BY <1>5 DEF Fetch2, Due
  <2>2. ~RightDone
    BY <1>1, <2>1, DoneClear DEF Room
  <2>3. Due(n)'
    BY <1>3, <2>1, <2>2 DEF Due
  <2>4. q'[Rd'] = Wd("L", n)
    BY <1>2, <2>1 DEF Regs
  <2>5. Room(3) => Room(2)'
    BY <1>1, RoomStep, PlayStep
  <2>6. dac_data'.r = Wd("R", n) /\ dac_data'.l = dac_data.l
    BY <1>1, <2>1, ReadStep, PlayStep
  <2>7. Flags(0, 0, 0, 0)' /\ Regs(At(0, i), At(0, i), 0, 0)' /\ dac_data_rdy_1d' = 1
    BY <1>1, <2>1, <2>2, ReadStep, PlayStep DEF Flags, Regs, B
  <2> QED BY <2>1, <2>3, <2>4, <2>5, <2>6, <2>7 DEF Ready
<1>6. ASSUME Ready(n, i)
      PROVE  /\ Regs(At(0, i), At(0, i), 0, 0)' /\ dac_data_rdy_1d' = 1 /\ q'[Rd'] = Wd("L", n)
             /\ dac_data'.l = Wd("L", n) /\ dac_data'.r = Wd("R", n)
             /\ dac_pcm_nxt' = B(RightDone) /\ dac_pcm_nxt_1d' = 0 /\ dac_pcm_nxt_2d' = 0 /\ fwft_refresh' = 0
  <2>1. /\ Flags(0, 0, 0, 0) /\ Regs(At(0, i), At(0, i), 0, 0) /\ ~InPipe /\ dac_data_rdy_1d = 1
        /\ q[Rd] = Wd("L", n) /\ dac_data.r = Wd("R", n)
    BY <1>6 DEF Ready, Due
  <2>2. q'[Rd'] = Wd("L", n)
    BY <1>2, <2>1 DEF Regs
  <2> QED BY <1>1, <2>1, <2>2, ReadStep, PlayStep DEF Regs, B
<1>7. ASSUME Ready(n, i), ~RightDone PROVE Ready(n, i)'
  <2>1. ~InPipe /\ Due(n)
    BY <1>7 DEF Ready, Due
  <2>2. Due(n)'
    BY <1>3, <1>7, <2>1 DEF Due
  <2> QED BY <1>6, <1>7, <2>2 DEF Ready, Flags, B
<1>8. ASSUME Ready(n, i), RightDone, Sending(n) PROVE Ask1(n, i)'
  <2>1. fsm = "RCHANNEL"
    BY <1>1, <1>8, DoneClear
  <2>2. Due(n) /\ dac_data.r = Wd("R", n) /\ tx.on = 1 /\ tx.l = {Wd("L", n)} /\ tx.r \subseteq {Wd("R", n)}
    BY <1>8, <2>1 DEF Ready, Sending
  <2>3. tx'.l = {Wd("L", n)} /\ tx'.r = {Wd("R", n)}
    BY <1>1, <2>1, <2>2, TxStep DEF B
  <2>4. heard \in -2..(K - 1)
    BY <1>1 DEF Typed, TypeOK, K
  <2>5. Sent({Wd("L", n)}, {Wd("R", n)}) = n
    BY <2>2, <2>4, SentNext DEF Due
  <2>6. heard' = n
    BY <1>8, <2>2, <2>3, <2>5, PlayStep
  <2> QED BY <1>6, <1>8, <2>6, PlayStep DEF Ask1, Flags, B
<1> QED BY <1>4, <1>5, <1>7, <1>8

LEMMA FirstStep ==
  ASSUME OrderInv, Playing, NEW w \in Writes, Clk(w), clean', NEW n \in 0..(K - 1), NEW i \in 0..(N - 1),
         mem[Rd][At(0, i)] = Wd("L", n)
  PROVE  /\ First1(n, i) => First2(n, i)'
         /\ First2(n, i) => First3(n, i)'
         /\ First3(n, i) => Fetch1(n, i)'
<1>1. Typed /\ Frame /\ Pulses /\ Timely /\ 0 \in Bit /\ 1 \in Bit
  BY DEF OrderInv, BlocksInv, Bit
<1>2. ASSUME Due(n), NEW k \in Nat, k >= 2, Room(k), raddr_f = At(0, i)
      PROVE  ~RightDone /\ Due(n)' /\ q'[Rd'] = Wd("L", n)
  <2>1. ~InPipe /\ ~RightDone
    BY <1>1, <1>2, DoneClear DEF Room, Due
  <2>2. ~Switching
    BY <2>1 DEF Switching, InPipe
  <2>3. ~InPipe' /\ heard' = heard
    BY <2>1, PlayStep DEF InPipe, B
  <2> QED BY <1>1, <1>2, <2>1, <2>2, <2>3, RoleStep, OutputStep, PlayStep DEF Due
<1>3. ASSUME First1(n, i) PROVE First2(n, i)'
  <2>1. /\ Flags(0, 0, 0, 0) /\ Regs(At(0, i), At(0, i), 0, 0) /\ Due(n) /\ dac_data_rdy_1d = 0
        /\ q[Rd] = Wd("L", n) /\ Room(4)
    BY <1>3 DEF First1
  <2>2. ~RightDone /\ Due(n)' /\ q'[Rd'] = Wd("L", n)
    BY <1>2, <2>1 DEF Regs
  <2>3. Room(3)'
    BY <1>1, <2>1, RoomStep, PlayStep
  <2> QED BY <1>1, <2>1, <2>2, <2>3, ReadStep, PlayStep DEF First2, Flags, Regs, B
<1>4. ASSUME First2(n, i) PROVE First3(n, i)'
  <2>1. /\ Flags(0, 0, 0, 1) /\ Regs(At(0, i), At(0, i), 0, 0) /\ Due(n) /\ dac_data_rdy_1d = 1 /\ fwft_refresh_1d = 0
        /\ q[Rd] = Wd("L", n) /\ Room(3)
    BY <1>4 DEF First2
  <2>2. ~RightDone /\ Due(n)' /\ q'[Rd'] = Wd("L", n)
    BY <1>2, <2>1 DEF Regs
  <2>3. Room(2)'
    BY <1>1, <2>1, RoomStep, PlayStep
  <2> QED BY <1>1, <2>1, <2>2, <2>3, ReadStep, PlayStep DEF First3, Flags, Regs, B
<1>5. ASSUME First3(n, i) PROVE Fetch1(n, i)'
  <2>1. /\ Flags(0, 0, 0, 1) /\ Regs(At(1, i), At(0, i), 0, 0) /\ Due(n) /\ dac_data_rdy_1d = 1 /\ fwft_refresh_1d = 1
        /\ q[Rd] = Wd("L", n) /\ Room(2)
    BY <1>5 DEF First3
  <2>2. ~RightDone /\ Due(n)' /\ q'[Rd'] = Wd("L", n)
    BY <1>2, <2>1 DEF Regs
  <2>3. Room(1)'
    BY <1>1, <2>1, RoomStep, PlayStep
  <2> QED BY <1>1, <2>1, <2>2, <2>3, ReadStep, PlayStep DEF Fetch1, Flags, Regs, B
<1> QED BY <1>3, <1>4, <1>5

-----------------------------------------------------------------------------
\* While a channel is sent, its word is the one that is due and stands.
LEMMA Standing ==
  ASSUME OrderInv, Playing, NEW n \in 0..(K - 1), NEW i \in 0..(N - 1), Phase(n, i)
  PROVE  /\ fsm = "LCHANNEL" => dac_data.l = Wd("L", n)
         /\ fsm = "RCHANNEL" => Ready(n, i) /\ dac_data.r = Wd("R", n)
<1>1. Timely /\ clean
  BY DEF OrderInv, Playing
<1>2. ASSUME fsm \in {"LCHANNEL", "RCHANNEL"}
      PROVE  (Fetch2(n, i) /\ fsm # "RCHANNEL") \/ Ready(n, i)
  <2>1. \A k \in Nat : ~Room(k)
    BY <1>2 DEF Room
  <2>2. prep_adc_data # 1 /\ adc_pcm_valid # 1 /\ adc_pcm_valid_1d # 1
    BY <1>1, <2>1 DEF Timely
  <2> QED BY <2>1, <2>2 DEF Phase, Ask1, Ask2, Ask3, Fetch1, Fetch2, First1, First2, First3
<1>3. ASSUME fsm = "LCHANNEL" PROVE dac_data.l = Wd("L", n)
  <2>1. \A k \in Nat : ~Room(k)
    BY <1>3 DEF Room
  <2> QED BY <1>2, <1>3, <2>1 DEF Fetch2, Ready
<1>4. ASSUME fsm = "RCHANNEL" PROVE Ready(n, i) /\ dac_data.r = Wd("R", n)
  BY <1>2, <1>4 DEF Ready
<1> QED BY <1>3, <1>4

LEMMA SendingStep ==
  ASSUME OrderInv, Playing, NEW w \in Writes, Clk(w), clean', NEW n \in 0..(K - 1), NEW i \in 0..(N - 1),
         Phase(n, i), Sending(n)
  PROVE  Sending(n)'
<1>1. Typed /\ Frame /\ Frames /\ dac_en = 1 /\ dac_data_rdy = 1
      /\ fsm \in {"IDLE", "LRCK", "LCHANNEL", "RCHANNEL", "WAIT_FOR_FS"} /\ AUD_DACLRCK \in Bit
  BY DEF OrderInv, BlocksInv, Playing, Typed, TypeOK
<1>2. AUD_DACLRCK' = B(fsm = "LRCK") /\ (RightDone => fsm = "RCHANNEL")
  BY <1>1, TxStep, DoneAt DEF B
<1>3. ASSUME fsm' = "LRCK" PROVE tx'.on = AUD_DACLRCK' /\ (tx'.on = 1 => tx'.l = {} /\ tx'.r = {})
  BY <1>1, <1>2, <1>3, FsmFrom, TxStep DEF Sending, Frames, B, Bit
<1>4. ASSUME fsm' = "LCHANNEL" PROVE tx'.on = 1 /\ tx'.l \subseteq {Wd("L", n)} /\ tx'.r = {}
  <2>1. CASE fsm = "LRCK"
    BY <1>1, <1>2, <2>1, TxStep DEF Sending, B, Bit
  <2>2. CASE fsm = "LCHANNEL"
    BY <1>1, <1>2, <2>2, Standing, TxStep DEF Sending, B
  <2> QED BY <1>1, <1>4, <2>1, <2>2, FsmFrom
<1>5. ASSUME fsm' = "RCHANNEL" PROVE tx'.on = 1 /\ tx'.l = {Wd("L", n)} /\ tx'.r \subseteq {Wd("R", n)}
  <2>1. CASE fsm = "LCHANNEL"
    BY <1>1, <1>2, <2>1, Standing, TxStep DEF Sending, B
  <2>2. CASE fsm = "RCHANNEL" /\ ~RightDone
    BY <1>1, <1>2, <2>2, Standing, TxStep DEF Sending, B
  <2> QED BY <1>1, <1>5, <2>1, <2>2, FsmFrom
<1> QED BY <1>3, <1>4, <1>5 DEF Sending

\* Before the first frame nothing is sent.
LEMMA SilentStep ==
  ASSUME OrderInv, NEW w \in Writes, Clk(w), clean', ~Playing
  PROVE  /\ tx'.on = 0 /\ AUD_DACLRCK' = 0 /\ heard' = -1 /\ ~ToControl(w)
         /\ dac_data_rdy = 1 => dac_en' = 0 /\ dac_data_rdy' = 1
         /\ dac_data_rdy = 0 /\ dac_data_rdy' = 1 => clean /\ Switching
<1>1. Typed /\ Frame /\ Pulses /\ Frames /\ Waiting /\ (clean => bffr_mode = 0 /\ adc_en = 1) /\ dac_data_rdy \in Bit /\ dac_en \in Bit
  BY DEF OrderInv, BlocksInv, Typed, TypeOK, Delivery
<1>2. ~ToControl(w) /\ (clean \/ AtRest)
  BY <1>1, CleanStep DEF ToControl, ToBffr
<1>3. dac_data_rdy' = (IF switch_banks THEN 1 ELSE dac_data_rdy)
  BY <1>2 DEF Clk, WriteAddr
<1>4. CASE AtRest
  <2>1. fsm = "IDLE" /\ ~adc_pcm_valid_extended /\ dac_data_rdy = 0 /\ adc_en = 0
    BY <1>4 DEF AtRest
  <2>2. ~switch_banks /\ ~RightDone /\ tx.on = 0
    BY <1>1, <2>1, DoneAt DEF switch_banks, Frames
  <2>3. AUD_DACLRCK' = 0 /\ tx'.on = 0
    BY <1>1, <2>1, <2>2, TxStep DEF B
  <2>4. heard' = -1
    <3>1. ~clean
      BY <1>1, <2>1
    <3>2. w.reg = "config" /\ w.adc = 1 /\ AtRest
      BY <3>1 DEF Clk, GhostEdge
    <3> QED BY <3>2 DEF Clk, GhostEdge
  <2> QED BY <1>2, <1>3, <2>1, <2>2, <2>3, <2>4
<1>5. CASE ~AtRest
  <2>1. clean /\ (dac_data_rdy = 0 \/ dac_en = 0) /\ tx.on = 0 /\ heard = -1
    BY <1>1, <1>2, <1>5 DEF Playing, Waiting, Bit
  <2>2. AUD_DACLRCK' = 0 /\ tx'.on = 0
    BY <1>1, <2>1, TxStep DEF B
  <2>3. heard' = -1
    BY <1>5, <2>1 DEF Clk, GhostEdge
  <2>4. dac_data_rdy = 1 => w = NoWrite
    <3>1. AtRest \/ w = NoWrite \/ dac_data_rdy = 0
      BY DEF Clk, GhostEdge
    <3> QED BY <1>5, <3>1
  <2>5. dac_data_rdy = 1 => dac_en' = dac_en
    BY <2>4 DEF Clk, DrvrWrite, NoWrite, RegWrite
  <2> QED BY <1>1, <1>2, <1>3, <2>1, <2>2, <2>3, <2>5, SwitchAt
<1> QED BY <1>4, <1>5

\* The read side stands at the start of the bank until there is a block.
LEMMA RestStep ==
  ASSUME OrderInv, NEW w \in Writes, Clk(w), clean', dac_data_rdy = 0
  PROVE  /\ Flags(0, 0, 0, 0)' /\ pcm_raddr' = Origin /\ raddr_f' = Origin /\ dac_data_rdy_1d' = 0
         /\ mem_rd_del_vec'[1] = 0 /\ (clean => mem_rd_del_vec' = <<0, 0>> /\ raddr_f = Origin)
<1>1. Typed /\ Frames /\ Waiting /\ (clean => bffr_mode = 0 /\ adc_en = 1) /\ dac_pcm_nxt \in Bit
      /\ dac_pcm_nxt_1d \in Bit /\ dac_pcm_nxt_2d \in Bit
  BY DEF OrderInv, BlocksInv, Typed, TypeOK, Delivery
<1>2. ~ToControl(w) /\ (clean \/ AtRest)
  BY <1>1, CleanStep DEF ToControl, ToBffr
<1>3. Flags(0, 0, 0, 0) /\ pcm_raddr = Origin /\ bffr_mode = 0 /\ (clean => mem_rd_del_vec[1] = 0 /\ raddr_f = Origin)
  <2>1. CASE clean
    BY <1>1, <2>1 DEF Waiting
  <2>2. CASE ~clean
    BY <1>1, <1>2, <2>2 DEF AtRest, Frames, Flags, dac_pcm_nxt_extended, Bit
  <2> QED BY <2>1, <2>2
<1>4. 0 \in Bit /\ 0 \in 0..(N - 1) /\ Origin = At(0, 0)
  BY Sizes DEF Bit, Origin, At
<1>5. PICK v1, v2 : mem_rd_del_vec = <<v1, v2>>
  BY <1>1 DEF Typed, TypeOK
<1>6. Regs(At(0, 0), raddr_f, v1, v2)
  BY <1>3, <1>4, <1>5 DEF Regs
<1>7. PICK rf : rf = raddr_f
  OBVIOUS
<1> QED BY <1>1, <1>2, <1>3, <1>4, <1>5, <1>6, <1>7, ReadStep DEF Flags, B

-----------------------------------------------------------------------------
\* The first block, and what is fetched of it.
LEMMA FirstBlock ==
  ASSUME OrderInv, NEW w \in Writes, Clk(w), clean', clean, dac_data_rdy = 0, Switching, NEW b \in 0..(K - 1), Whole("f", b)'
  PROVE  Whole(Rd, b)' /\ Played(b, 0)'
<1>1. Typed /\ Frame /\ Pulses /\ Copied /\ Timely /\ bffr_mode = 0 /\ adc_en = 1 /\ ~Playing
  BY DEF OrderInv, BlocksInv, Delivery, Playing
<1>2. ~ToControl(w) /\ tx'.on = 0 /\ AUD_DACLRCK' = 0 /\ heard' = -1
  BY <1>1, SilentStep
<1>3. Rd' = Wr /\ Wr \in {"a", "b"} /\ \A a \in Addr : mem'[Wr][a] = mem'["f"][a]
  BY <1>1, <1>2, RoleStep, CopyStep
<1>4. \A m \in Bit : \A j \in 0..(N - 1) : At(m, j) \in Addr
  BY AddrFacts
<1>5. Whole(Rd, b)'
  BY <1>3, <1>4 DEF Whole, Bit
<1>6. raddr_f = Origin /\ pcm_waddr = LastAddr /\ Origin = At(0, 0) /\ Origin # LastAddr /\ 0 \in 0..(N - 1) /\ 0 \in Bit
  BY <1>1, RestStep, SwitchAt, Sizes DEF switch_banks, Origin, LastAddr, At, Bit
<1>7. q'[Rd'] = mem[Wr][Origin]
  BY <1>1, <1>2, <1>3, <1>6, OutputStep
<1>8. mem'[Wr][Origin] = mem[Wr][Origin]
  <2>1. Wr \in {"a", "b", "f"} /\ Origin \in Addr
    BY <1>3, AddrFacts
  <2> QED BY <1>1, <1>6, <2>1, BankStep
<1>9. Nth(b, 0) = b /\ q'[Rd'] = Wd("L", b)
  BY <1>3, <1>5, <1>6, <1>7, <1>8, NextFacts DEF Whole
<1>10. Room(4)' /\ ~RightDone
  BY <1>1, RoomStep, DoneClear DEF Timely, Switching, InPipe
<1>11. ~InPipe'
  BY <1>1, <1>10, PipeStep DEF Pulses, Switching
<1>12. First1(b, 0)'
  BY <1>1, <1>2, <1>6, <1>9, <1>10, <1>11, RestStep DEF First1, Due, Regs
<1>13. Sending(b)'
  BY <1>2, <1>10 DEF Sending, Room
<1> QED BY <1>5, <1>9, <1>12, <1>13 DEF Played, Phase

\* The block goes on, or the next one is begun.
LEMMA PlayedStep ==
  ASSUME OrderInv, NEW w \in Writes, Clk(w), clean', Playing, NEW c \in 0..(K - 1), NEW i \in 0..(N - 1), i = pcm_waddr.idx,
         Whole(Rd, c), Played(c, i)
  PROVE  /\ ~Switching => Played(c, pcm_waddr.idx)'
         /\ Switching => Played(Nth(c, N), 0)' /\ pcm_waddr'.idx = 0
<1>1. Typed /\ Frame /\ Pulses /\ Timely /\ clean /\ ~ToControl(w) /\ adc_pcm_valid_1d \in Bit /\ adc_pcm_valid \in Bit
  BY PlayStep DEF OrderInv, BlocksInv, Typed, TypeOK
<1>n. PICK n \in 0..(K - 1) : n = Nth(c, i)
  BY NthFacts, Sizes
<1>2. mem[Rd][At(0, i)] = Wd("L", n) /\ mem[Rd][At(1, i)] = Wd("R", n) /\ Phase(n, i) /\ Sending(n)
  BY <1>n DEF Whole, Played
<1>3. Sending(n)'
  BY <1>2, SendingStep
<1>4. CASE adc_pcm_valid_1d = 1
  <2>1. InPipe /\ prep_adc_data # 1 /\ adc_pcm_valid # 1
    BY <1>1, <1>4 DEF InPipe, Pulses
  <2>2. Ask3(n, i)
    BY <1>2, <2>1 DEF Phase, Ask1, Ask2, Fetch1, Fetch2, Ready, First1, First2, First3, Due
  <2>3. Fetch1(Succ(n), NextAt(i))' /\ Room(4)'
    BY <1>1, <1>4, <2>2, AskStep, RoomStep, PlayStep DEF Timely
  <2>4. pcm_waddr'.idx = NextAt(i)
    BY <1>1, <1>4, WaddrStep DEF At, NextAt
  <2>5. \A m : Sending(m)'
    BY <1>3, <2>3 DEF Sending, Room
  <2>6. CASE i = N - 1
    <3>1. Succ(n) = Nth(c, N) /\ NextAt(i) = 0 /\ Switching
      BY <1>4, <1>n, <2>6, NextFacts DEF NextAt, Switching
    <3>2. Nth(c, N) \in 0..(K - 1) /\ 0 \in 0..(N - 1)
      BY NthFacts, Sizes
    <3>3. Nth(Nth(c, N), 0) = Nth(c, N)
      BY <3>2, NextFacts
    <3> QED BY <2>3, <2>4, <2>5, <3>1, <3>3 DEF Played, Phase
  <2>7. CASE i # N - 1
    <3>1. Succ(n) = Nth(c, NextAt(i)) /\ ~Switching
      BY <1>n, <2>7, NextFacts DEF Switching
    <3> QED BY <2>3, <2>4, <2>5, <3>1 DEF Played, Phase
  <2> QED BY <2>6, <2>7
<1>5. CASE adc_pcm_valid_1d = 0
  <2>1. ~Switching /\ pcm_waddr'.idx = i
    BY <1>1, <1>5, WaddrStep DEF Switching, At, adc_pcm_valid_extended, Bit
  <2>2. ~Ask3(n, i)
    BY <1>5 DEF Ask3
  <2>3. Phase(n, i)'
    BY <1>2, <2>2, AskStep, FetchStep, FirstStep DEF Phase
  <2> QED BY <1>3, <1>n, <2>1, <2>3 DEF Played
<1> QED BY <1>1, <1>4, <1>5 DEF Bit

-----------------------------------------------------------------------------
LEMMA OrderStart == Init => OrderInv
<1> SUFFICES ASSUME Init PROVE OrderInv
  OBVIOUS
<1>1. BlocksInv
  BY BlocksStart
<1> QED BY <1>1 DEF Init, OrderInv, Timely, Copied, Frames, Waiting, Order

LEMMA OrderStep ==
  ASSUME OrderInv, NEW w \in Writes, Clk(w), clean'
  PROVE  Waiting' /\ Order'
<1>1. Typed /\ Frame /\ Pulses /\ Delivery /\ Order /\ Copied /\ dac_data_rdy \in Bit /\ dac_en \in Bit
      /\ (clean => bffr_mode = 0 /\ adc_en = 1)
  BY DEF OrderInv, BlocksInv, Typed, TypeOK, Delivery
<1>2. Waiting'
  <2>1. CASE Playing
    <3>1. Playing'
      BY <2>1, PlayStep
    <3> QED BY <3>1 DEF Playing, Waiting
  <2>2. CASE ~Playing
    <3>1. dac_data_rdy' = 0 => dac_data_rdy = 0
      BY <1>1, <2>2, SilentStep DEF Bit
    <3> QED BY <2>2, <3>1, SilentStep, RestStep DEF Waiting
  <2> QED BY <2>1, <2>2
<1>3. CASE ~clean
  <2>1. AtRest /\ ~Playing
    BY <1>1, <1>3, CleanStep DEF Playing
  <2>2. Filling'
    BY <1>1, <2>1, FillingStart
  <2>3. ~Playing'
    BY <1>1, <1>3, <2>1, SilentStep DEF Playing, AtRest
  <2> QED BY <1>2, <2>2, <2>3 DEF Filling, Order
<1>4. CASE clean
  <2>1. PICK b \in 0..(K - 1) : /\ Block(b)
                                /\ Playing => \E c \in 0..(K - 1) :
                                     Nth(c, N) = b /\ Whole(Rd, c) /\ Played(c, pcm_waddr.idx)
    BY <1>1, <1>4 DEF Order
  <2>2. Nth(b, N) \in 0..(K - 1)
    BY NthFacts, Sizes
  <2>3. (Switching => Block(Nth(b, N))' /\ Whole("f", b)') /\ (~Switching => Block(b)')
    BY <1>1, <1>4, <2>1, BlockStep
  <2>4. pcm_waddr.idx \in 0..(N - 1) /\ ~ToControl(w)
    BY <1>1, AddrFacts, CleanStep DEF Typed, TypeOK, ToBffr, ToControl
  <2>5. CASE Playing
    <3>1. PICK c \in 0..(K - 1) : Nth(c, N) = b /\ Whole(Rd, c) /\ Played(c, pcm_waddr.idx)
      BY <2>1, <2>5
    <3>2. /\ ~Switching => Played(c, pcm_waddr.idx)'
          /\ Switching => Played(b, 0)' /\ pcm_waddr'.idx = 0
      BY <2>4, <2>5, <3>1, PlayedStep
    <3>3. CASE Switching
      <4>1. Rd' = Wr /\ \A a \in Addr : mem'[Wr][a] = mem'["f"][a]
        BY <1>1, <1>4, <2>4, <3>3, RoleStep, CopyStep
      <4>2. \A m \in Bit : \A j \in 0..(N - 1) : At(m, j) \in Addr
        BY AddrFacts
      <4>3. Whole(Rd, b)'
        BY <2>3, <3>3, <4>1, <4>2 DEF Whole, Bit
      <4>4. Played(b, pcm_waddr.idx)'
        BY <3>2, <3>3
      <4> QED BY <1>2, <2>2, <2>3, <3>3, <4>3, <4>4 DEF Order
    <3>4. CASE ~Switching
      <4>1. Whole(Rd, c)'
        BY <1>1, <1>4, <2>4, <3>1, <3>4, RoleStep, OutputStep DEF Whole
      <4> QED BY <1>2, <2>3, <3>1, <3>2, <3>4, <4>1 DEF Order
    <3> QED BY <3>3, <3>4
  <2>6. CASE ~Playing /\ ~Playing'
    BY <1>2, <2>2, <2>3, <2>6 DEF Order
  <2>7. CASE ~Playing /\ Playing'
    <3>1. dac_data_rdy = 0 /\ Switching
      BY <1>1, <2>7, SilentStep DEF Playing, Bit
    <3>2. Whole(Rd, b)' /\ Played(b, 0)'
      BY <1>4, <2>3, <3>1, FirstBlock
    <3>3. pcm_waddr'.idx = 0
      BY <1>1, <2>4, <3>1, WaddrStep DEF Switching, At
    <3>4. Played(b, pcm_waddr.idx)'
      BY <3>2, <3>3
    <3> QED BY <1>2, <2>2, <2>3, <3>1, <3>2, <3>4 DEF Order
  <2> QED BY <2>5, <2>6, <2>7
<1> QED BY <1>3, <1>4

LEMMA OrderNext == OrderInv /\ [Next]_vars => OrderInv'
<1> SUFFICES ASSUME OrderInv, [Next]_vars PROVE OrderInv'
  OBVIOUS
<1>1. BlocksInv'
  BY BlocksStep DEF OrderInv
<1>2. CASE UNCHANGED vars
  <2> USE <1>2 DEF vars, drvVars, bufVars, ghosts
  <2>1. Timely' /\ Frames'
    BY DEF OrderInv, Timely, Room, Left, Frames
  <2>2. Copied' /\ Waiting'
    BY DEF OrderInv, Copied, Before, Wr, Waiting, Flags
  <2>3. Order'
    <3>1. \A b : Block(b)' = Block(b)
      BY DEF Block, InPipe
    <3>2. \A c : Whole(Rd, c)' = Whole(Rd, c)
      BY DEF Whole, Rd
    <3>3. \A n, i : Phase(n, i)' = Phase(n, i)
      BY DEF Phase, Ask1, Ask2, Ask3, Fetch1, Fetch2, Ready, First1, First2, First3, Regs, Flags, Due, InPipe, Room, Left, Rd
    <3>4. \A n : Sending(n)' = Sending(n)
      BY DEF Sending
    <3> QED BY <3>1, <3>2, <3>3, <3>4 DEF OrderInv, Order, Playing, Played
  <2> QED BY <1>1, <2>1, <2>2, <2>3 DEF OrderInv
<1>3. ASSUME NEW w \in Writes, Clk(w) PROVE OrderInv'
  <2>1. Timely' /\ Copied' /\ Frames'
    BY <1>3, TimelyStep, CopiedStep, FramesStep DEF OrderInv, BlocksInv
  <2>2. Waiting' /\ Order'
    BY <1>3, OrderStep DEF Waiting, Order
  <2> QED BY <1>1, <2>1, <2>2 DEF OrderInv
<1> QED BY <1>2, <1>3 DEF Next

\* Started as test_audio_fft starts it, the codec is sent the samples it
\* delivered, each once, in their order, both channels of the same sample and
\* neither word changing while it is sent, across any number of bank switches,
\* for every bank size, word length, divider and frame length that leaves seven
\* clocks between two frames.
THEOREM SamplesInOrder == Spec => []DacInOrder
<1>1. OrderInv => DacInOrder
  <2> SUFFICES ASSUME OrderInv, clean PROVE heard # -2
    BY DEF DacInOrder
  <2>1. CASE Playing
    <3>1. PICK c \in 0..(K - 1) : Played(c, pcm_waddr.idx)
      BY <2>1 DEF OrderInv, Order
    <3>2. pcm_waddr.idx \in 0..N
      BY AddrFacts, Sizes DEF OrderInv, BlocksInv, Typed, TypeOK
    <3>3. Nth(c, pcm_waddr.idx) \in 0..(K - 1)
      BY <3>2, NthFacts
    <3> QED BY <3>1, <3>3, Sizes DEF Played, Phase, Ask1, Ask2, Ask3, Fetch1, Fetch2, Ready, First1, First2, First3, Due
  <2>2. CASE ~Playing
    BY <2>2 DEF OrderInv, BlocksInv, Typed, TypeOK, Bit, Playing, Waiting
  <2> QED BY <2>1, <2>2
<1> QED BY <1>1, OrderStart, OrderNext, PTL DEF Spec
=============================================================================

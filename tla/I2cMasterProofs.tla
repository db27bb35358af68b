--------------------------- MODULE I2cMasterProofs --------------------------
(***************************************************************************)
(* Proofs about the I2C master and its firmware, for every clock divider,  *)
(* transaction and slave.                                                  *)
(*                                                                         *)
(* The invariant follows a bit through its clock: within ADDR, DATA and    *)
(* ACK the count tck_cntr decides the level of scl, when the wire has      *)
(* settled, when the monitor and the synchroniser have seen it, and with   *)
(* data_cntr how many bits have gone over the wire.                        *)
(***************************************************************************)
EXTENDS I2cMaster, TLAPS

InBit == fsm_pstate \in {"ADDR", "DATA", "ACK"}

\* Bytes that are complete, and bits before the one on the wire.
Bytes == data_cntr_bytes - B(fsm_pstate = "ACK")
Pos   == data_cntr + Bytes

Shape ==
  /\ TypeOK
  /\ sync_f \in Bit \X Bit
  /\ mon \in [active : Bit, bits : Seq(Bit), last : Seq(Bit)]
  /\ slvSent \in Seq(Byte) /\ bffr \in Seq(Byte) /\ xtn \in Xtns

\* The transaction the registers hold is the one the firmware was asked for.
Asked == pc \in {"poll", "nack", "fetch"} \/ (pc = "idle" /\ res \in {"OK", "NACK"})

Loaded ==
  /\ pc # "idle" => xtn.n <= MAX_BYTES
  /\ pc \in {"data", "config", "poll"} => i2c_addr = xtn.addr
  /\ pc = "data" =>
       /\ xtn.rd = 0 /\ Len(bffr) < xtn.n
       /\ \A i \in 1 .. Len(bffr) : data_cache[i - 1] = xtn.data[i]
  /\ pc \in {"config", "poll"} /\ xtn.rd = 0 =>
       \A i \in 1 .. xtn.n : data_cache[i - 1] = xtn.data[i]
  /\ Asked => /\ xtn.n <= MAX_BYTES
              /\ i2c_num_bytes = xtn.n /\ i2c_rd_n_wr = xtn.rd /\ i2c_stop_en = xtn.stop

Rest ==
  fsm_pstate = "IDLE" =>
    /\ tck_cntr = 0 /\ scl = sda_o
    /\ scl = 1 => rel_i2c_bus = 0 /\ mon.active = 0 /\ i2c_stop_en = 1
    /\ pc # "poll" \/ i2c_init = 1 => scl = 0 /\ rel_i2c_bus = 0 /\ data_cntr = 0
    /\ i2c_init = 1 => /\ pc = "poll" /\ gap = 0 /\ i2c_start_en = 1 
                       /\ slvSent = << >>

Busy == i2c_busy => pc = "poll" /\ i2c_init = 0

\* The wires of a START: both high, data low, both low.
Starting ==
  fsm_pstate = "START" =>
    /\ data_cntr = 0 /\ i2c_nack_det = 0 /\ rel_i2c_bus = 0 /\ slvSent = << >>
    /\ scl = 0 => sda_o = 0
    /\ sda_o = 0 => mon.active = 1 /\ mon.bits = << >>

Clocked ==
  InBit =>
    /\ scl = B(DivBy4 < tck_cntr /\ tck_cntr <= Div3By4)
    /\ mon.active = 1 /\ Len(mon.bits) = Pos + B(tck_cntr > DivBy4)
    /\ fsm_pstate = "ADDR" => data_cntr <= 7
    /\ fsm_pstate = "DATA" => data_cntr \in 8 .. 8 * i2c_num_bytes + 7
    /\ fsm_pstate = "ACK" => data_cntr \in 8 .. 8 * i2c_num_bytes + 8 /\ data_cntr % 8 = 0

\* From the second clock of a bit on its sender has the wire.
Settled ==
  InBit /\ tck_cntr > 0 =>
    /\ rel_i2c_bus = B(\/ fsm_pstate = "ACK" /\ (i2c_rd_n_wr = 1 => data_cntr = 8)
                       \/ fsm_pstate = "DATA" /\ i2c_rd_n_wr = 1)
    /\ rel_i2c_bus = 0 =>
         sda_o = IF fsm_pstate = "ACK" THEN 0 ELSE i2c_seq_bits[data_cntr + 1]

Sampled ==
  InBit /\ tck_cntr <= Div3By4 =>
    /\ tck_cntr >= 2 => sync_f[1] = SDA
    /\ tck_cntr >= 3 => sync_f[2] = SDA
    /\ tck_cntr > DivBy4 => mon.bits[Len(mon.bits)] = SDA

Acked ==
  InBit =>
    /\ i2c_nack_det = IF fsm_pstate = "ACK" /\ tck_cntr > DivBy2 THEN mon.bits[Len(mon.bits)] ELSE 0
    /\ \A j \in 1 .. Bytes : mon.bits[9 * j] = 0

Sent ==
  InBit =>
    /\ Len(mon.bits) >= 8 => mon.bits[8] = i2c_rd_n_wr
    /\ i2c_rd_n_wr = 0 =>
         \A i \in 1 .. Len(mon.bits) : i % 9 # 0 => mon.bits[i] = WriteFrame(xtn)[i]

\* In the acknowledge bit, after its clock: the slave has begun with a byte.
Begun == fsm_pstate = "ACK" /\ tck_cntr > Div3By4 /\ i2c_nack_det = 0 /\ data_cntr_bytes <= i2c_num_bytes

Received ==
  InBit /\ i2c_rd_n_wr = 1 =>
    /\ Len(slvSent) = IF fsm_pstate = "ACK" /\ ~Begun THEN data_cntr_bytes - 1 ELSE data_cntr_bytes
    /\ Begun => slv = slvSent[data_cntr_bytes][1]
    /\ \A c \in 1 .. data_cntr_bytes - 1 : data_cache[c - 1] = slvSent[c]
    /\ fsm_pstate = "DATA" =>
         LET b == data_cntr_bytes
             r == data_cntr % 8
             s == r + B(tck_cntr > DivBy2)
         IN  /\ tck_cntr <= Div3By4 => slv = slvSent[b][r + 1]
             /\ tck_cntr > Div3By4 /\ r < 7 => slv = slvSent[b][r + 2]
             /\ \A j \in 1 .. s : data_cache[b - 1][8 - s + j] = slvSent[b][j]

\* What a frame f that is over looks like: k bytes of which the last may not
\* have been acknowledged, and the bit s of a STOP.
Outcome(f, s, x, nack) ==
  \E k \in 1 .. x.n + 1 :
    /\ Len(f) = 9 * k + s /\ (s = 1 => f[9 * k + 1] = 0)
    /\ f[9 * k] = nack
    /\ nack = 0 => k = x.n + 1
    /\ \A j \in 1 .. k - 1 : f[9 * j] = 0
    /\ x.rd = 0 => \A i \in 1 .. 9 * k : i % 9 # 0 => f[i] = WriteFrame(x)[i]

Collected ==
  xtn.rd = 1 /\ i2c_nack_det = 0 =>
    Len(slvSent) = xtn.n /\ \A c \in 1 .. xtn.n : data_cache[c - 1] = slvSent[c]

\* The wires of a STOP: both low, clock high, both high.
Stopping ==
  fsm_pstate = "STOP" =>
    /\ tck_cntr > 0 \/ scl = 1 => rel_i2c_bus = 0
    /\ i2c_stop_en = 1 /\ Collected
    /\ IF sda_o = 0 THEN mon.active = 1 /\ Outcome(mon.bits, scl, xtn, i2c_nack_det)
                    ELSE scl = 1 /\ mon.active = 0 /\ Outcome(mon.last, 1, xtn, i2c_nack_det)

Finished ==
  Asked /\ fsm_pstate = "IDLE" /\ i2c_init = 0 => Collected /\ Outcome(Frame, xtn.stop, xtn, i2c_nack_det)

Told ==
  /\ pc \in {"poll", "nack"} => bffr = << >>
  /\ pc = "fetch" => /\ xtn.rd = 1 /\ i2c_nack_det = 0 /\ Len(bffr) < xtn.n
                     /\ \A j \in 1 .. Len(bffr) : bffr[j] = slvSent[j]
  /\ pc = "idle" /\ res = "OK" =>
       i2c_nack_det = 0 /\ (xtn.rd = 1 => bffr = slvSent)
  /\ pc = "idle" /\ res = "NACK" => i2c_nack_det = 1

Inv ==
  /\ Shape /\ Loaded /\ Rest /\ Busy /\ Starting /\ Clocked /\ Settled /\ Sampled
  /\ Acked /\ Sent /\ Received /\ Stopping /\ Finished /\ Told

-----------------------------------------------------------------------------
(***************************************************************************)
(* The clock of a bit, and the byte and the bit that data_cntr stands for. *)
(***************************************************************************)

\* The quarters of a bit are in order, with two clocks before the middle.
LEMMA Quarters ==
  ASSUME Shape
  PROVE  /\ DivBy4 \in Nat /\ DivBy2 \in Nat /\ Div3By4 \in Nat /\ i2c_clk_div_cnt \in Nat
         /\ DivBy4 >= 1 /\ DivBy2 >= DivBy4 + 2 /\ Div3By4 = DivBy2 + DivBy4 /\ Div3By4 < i2c_clk_div_cnt
  <1>1. i2c_clk_div_cnt \in 6 .. 255
    BY I2cAssumption DEF Shape, TypeOK
  <1>2. ASSUME NEW d \in 6 .. 255
        PROVE  /\ d \div 4 \in Nat /\ d \div 2 \in Nat /\ d \div 4 >= 1
               /\ d \div 2 >= d \div 4 + 2 /\ d \div 2 + d \div 4 < d
    OBVIOUS
  <1> QED BY <1>1, <1>2 DEF DivBy2, DivBy4, Div3By4

LEMMA ByteAndBit ==
  ASSUME NEW n \in Nat
  PROVE  n \div 8 \in Nat /\ n % 8 \in 0 .. 7 /\ n = 8 * (n \div 8) + (n % 8)
  OBVIOUS

LEMMA Inside8 ==
  ASSUME NEW b \in Int, NEW r \in 0 .. 7
  PROVE  (8 * b + r) \div 8 = b /\ (8 * b + r) % 8 = r
  OBVIOUS

LEMMA Inside9 ==
  ASSUME NEW b \in Int, NEW r \in 0 .. 8
  PROVE  (9 * b + r) \div 9 = b /\ (9 * b + r) % 9 = r
  OBVIOUS

\* While the master is busy the firmware polls, and no register is written.
LEMMA BusyEdge ==
  ASSUME Inv, Next, i2c_busy
  PROVE  /\ RegEdge /\ pc' = pc /\ pc = "poll" /\ UNCHANGED <<xtn, bffr, res, count>>
         /\ gap' \in 0 .. LB_GAP - 1 /\ i2c_init = 0
         /\ FsmEdge /\ DataCntrEdge /\ NackEdge /\ BusEdge /\ SlaveEdge
         /\ mon' = IF scl = 0 /\ scl' = 1 THEN OnBit(mon, SDA')
                   ELSE IF scl = 1 /\ scl' = 1 /\ SDA # SDA' THEN OnSda(mon, SDA') ELSE mon
         /\ UNCHANGED <<DivBy4, DivBy2, Div3By4>>
  <1>1. pc = "poll" /\ i2c_init = 0 /\ gap \in 0 .. LB_GAP - 1 /\ LB_GAP \in Nat \ {0, 1}
    BY I2cAssumption DEF Inv, Busy, Shape, TypeOK
  <1>2. PollBusy \/ Quiet
    BY <1>1 DEF Next, Step, Idling, Firmware, Call, WriteAddr, WriteData, WriteConfig, PollNack, ReadData
  <1>3. HwEdge
    BY DEF Next, Step, Idling
  <1>4. /\ RegEdge /\ pc' = pc /\ UNCHANGED <<xtn, bffr, res, count>> /\ gap' \in 0 .. LB_GAP - 1
    BY <1>1, <1>2 DEF PollBusy, Quiet, Accessed, NoAccess
  <1>5. ~SlaveReset
    BY <1>1 DEF SlaveReset
  <1>6. FsmEdge /\ DataCntrEdge /\ NackEdge /\ BusEdge /\ SlaveEdge /\ MonEdge
    BY <1>3, <1>5 DEF HwEdge
  <1>7. mon' = IF scl = 0 /\ scl' = 1 THEN OnBit(mon, SDA')
               ELSE IF scl = 1 /\ scl' = 1 /\ SDA # SDA' THEN OnSda(mon, SDA') ELSE mon
    BY <1>1, <1>6 DEF MonEdge, i2c_busy
  <1>8. UNCHANGED <<DivBy4, DivBy2, Div3By4>>
    BY <1>4 DEF RegEdge, DivBy4, DivBy2, Div3By4
  <1> QED BY <1>1, <1>4, <1>6, <1>7, <1>8

-----------------------------------------------------------------------------
(***************************************************************************)
(* Within ADDR, DATA and ACK.                                              *)
(***************************************************************************)

\* The byte and the bit that are on the wire.
LEMMA Place ==
  ASSUME Inv, InBit
  PROVE  /\ data_cntr_bytes \in Nat /\ data_cntr % 8 \in 0 .. 7
         /\ data_cntr = 8 * data_cntr_bytes + (data_cntr % 8)
         /\ fsm_pstate = "ADDR" => data_cntr_bytes = 0 /\ Bytes = 0 /\ Pos = data_cntr
         /\ fsm_pstate = "DATA" => /\ data_cntr_bytes \in 1 .. i2c_num_bytes /\ Bytes = data_cntr_bytes
                                   /\ Pos = 9 * data_cntr_bytes + (data_cntr % 8)
         /\ fsm_pstate = "ACK" => /\ data_cntr_bytes \in 1 .. i2c_num_bytes + 1 /\ Bytes = data_cntr_bytes - 1
                                  /\ data_cntr % 8 = 0 /\ Pos = 9 * data_cntr_bytes - 1
         /\ Bytes \in Nat /\ Pos \in Nat /\ data_cntr \in Nat
  <1>1. data_cntr \in Nat /\ i2c_num_bytes \in Nat
    BY I2cAssumption DEF Inv, Shape, TypeOK
  <1>2. /\ data_cntr_bytes \in Nat /\ data_cntr % 8 \in 0 .. 7
        /\ data_cntr = 8 * data_cntr_bytes + (data_cntr % 8)
    BY <1>1, ByteAndBit DEF data_cntr_bytes
  <1>3. /\ fsm_pstate = "ADDR" => data_cntr <= 7
        /\ fsm_pstate = "DATA" => data_cntr \in 8 .. 8 * i2c_num_bytes + 7
        /\ fsm_pstate = "ACK" => data_cntr \in 8 .. 8 * i2c_num_bytes + 8 /\ data_cntr % 8 = 0
    BY DEF Inv, Clocked
  <1> DEFINE b == data_cntr_bytes
             r == data_cntr % 8
  <1> HIDE DEF b, r
  <1>4. /\ b \in Nat /\ r \in 0 .. 7 /\ data_cntr = 8 * b + r
    BY <1>2 DEF b, r
  <1>5. CASE fsm_pstate = "ADDR"
    <2>1. b = 0
      BY <1>1, <1>3, <1>4, <1>5
    <2> QED BY <1>1, <1>2, <1>5, <2>1 DEF b, Bytes, Pos, B
  <1>6. CASE fsm_pstate = "DATA"
    <2>1. b \in 1 .. i2c_num_bytes
      BY <1>1, <1>3, <1>4, <1>6
    <2> QED BY <1>1, <1>2, <1>4, <1>6, <2>1 DEF b, Bytes, Pos, B
  <1>7. CASE fsm_pstate = "ACK"
    <2>1. b \in 1 .. i2c_num_bytes + 1 /\ r = 0
      BY <1>1, <1>3, <1>4, <1>7 DEF r
    <2> QED BY <1>1, <1>2, <1>4, <1>7, <2>1 DEF b, r, Bytes, Pos, B
  <1> QED BY <1>5, <1>6, <1>7 DEF InBit

\* The level of the clock after the edge.
LEMMA Pulse ==
  ASSUME Inv, Next, InBit
  PROVE  scl' = B(DivBy4 <= tck_cntr /\ tck_cntr < Div3By4)
  <1>1. BusEdge
    BY BusyEdge DEF i2c_busy, InBit
  <1>2. scl = B(DivBy4 < tck_cntr /\ tck_cntr <= Div3By4) /\ tck_cntr \in 0 .. i2c_clk_div_cnt
    BY DEF Inv, Clocked, Shape, TypeOK
  <1>3. SclPulse = B(DivBy4 <= tck_cntr /\ tck_cntr < Div3By4)
    BY <1>2, Quarters DEF Inv, SclPulse, B, tck_by_4_valid, tck_by_2_valid, tck_valid
  <1>4. fsm_pstate = "ACK" /\ next_state = "STOP" => tck_valid
    BY DEF next_state
  <1>5. tck_valid => SclPulse = 0
    BY <1>2, Quarters DEF Inv, SclPulse, B, tck_by_4_valid, tck_by_2_valid, tck_valid
  <1> QED BY <1>1, <1>3, <1>4, <1>5 DEF BusEdge, InBit

\* The bits to be sent do not change while they are sent.
LEMMA SeqBits ==
  ASSUME RegEdge, NEW i \in 1 .. 8 * (MAX_BYTES + 1), i <= 8 \/ i2c_rd_n_wr = 0
  PROVE  i2c_seq_bits'[i] = i2c_seq_bits[i]
  BY DEF RegEdge, i2c_seq_bits

\* A bit goes on until the count has reached the divider; nothing but the
\* count and the wires moves.
LEMMA GoesOn ==
  ASSUME Inv, Next, InBit, tck_cntr # i2c_clk_div_cnt
  PROVE  /\ fsm_pstate' = fsm_pstate /\ data_cntr' = data_cntr /\ tck_cntr' = tck_cntr + 1
         /\ Bytes' = Bytes /\ Pos' = Pos /\ data_cntr_bytes' = data_cntr_bytes
  <1>1. FsmEdge /\ DataCntrEdge
    BY BusyEdge DEF i2c_busy, InBit
  <1>2. next_state = fsm_pstate
    BY DEF next_state, tck_valid, InBit
  <1>3. fsm_pstate' = fsm_pstate /\ data_cntr' = data_cntr /\ tck_cntr' = tck_cntr + 1
    BY <1>1, <1>2 DEF FsmEdge, DataCntrEdge, data_cntr_en, tck_valid, i2c_busy, InBit
  <1> QED BY <1>3 DEF Bytes, Pos, data_cntr_bytes

LEMMA Settles ==
  ASSUME Inv, Next, InBit, tck_cntr # i2c_clk_div_cnt
  PROVE  /\ Settled'
         /\ rel_i2c_bus' = B(\/ fsm_pstate = "ACK" /\ (i2c_rd_n_wr = 1 => data_cntr = 8)
                             \/ fsm_pstate = "DATA" /\ i2c_rd_n_wr = 1)
         /\ rel_i2c_bus' = 0 =>
              sda_o' = IF fsm_pstate = "ACK" THEN 0 ELSE i2c_seq_bits[data_cntr + 1]
  <1>1. /\ FsmEdge /\ BusEdge /\ RegEdge
        /\ fsm_pstate' = fsm_pstate /\ data_cntr' = data_cntr /\ i2c_rd_n_wr' = i2c_rd_n_wr
    BY BusyEdge, GoesOn DEF i2c_busy, InBit, RegEdge
  <1>2. data_cntr_bytes = 1 /\ fsm_pstate = "ACK" <=> data_cntr = 8 /\ fsm_pstate = "ACK"
    <2>1. fsm_pstate = "ACK" => data_cntr = 8 * data_cntr_bytes + 0 /\ data_cntr_bytes \in Nat
      BY Place
    <2> QED BY <2>1
  <1>3. rel_i2c_bus' = B(\/ fsm_pstate = "ACK" /\ (i2c_rd_n_wr = 1 => data_cntr = 8)
                         \/ fsm_pstate = "DATA" /\ i2c_rd_n_wr = 1)
    BY <1>1, <1>2 DEF FsmEdge, rel_i2c_bus_next, B
  <1>4. sda_o' = IF fsm_pstate = "ACK" THEN 0 ELSE i2c_seq_bits[data_cntr + 1]
    BY <1>1 DEF BusEdge, InBit
  <1>5. ASSUME rel_i2c_bus' = 0, fsm_pstate # "ACK"
        PROVE  i2c_seq_bits'[data_cntr + 1] = i2c_seq_bits[data_cntr + 1]
    <2>1. i2c_rd_n_wr \in Bit /\ i2c_num_bytes \in 0 .. MAX_BYTES /\ MAX_BYTES \in Nat
      BY I2cAssumption DEF Inv, Shape, TypeOK
    <2>2. data_cntr \in Nat /\ data_cntr + 1 <= 8 * (MAX_BYTES + 1)
      BY <1>5, <2>1, Place DEF Inv, Clocked, InBit
    <2>3. data_cntr + 1 <= 8 \/ i2c_rd_n_wr = 0
      <3>1. CASE fsm_pstate = "ADDR"
        BY <2>2, <3>1 DEF Inv, Clocked, InBit
      <3>2. CASE fsm_pstate = "DATA"
        BY <1>3, <1>5, <2>1, <3>2 DEF B, Bit
      <3> QED BY <1>5, <3>1, <3>2 DEF InBit
    <2> QED BY <1>1, <2>1, <2>2, <2>3, SeqBits
  <1>6. Settled'
    BY <1>1, <1>3, <1>4, <1>5 DEF Settled, InBit
  <1> QED BY <1>3, <1>4, <1>6

\* While the clock is high, and from the second clock of a bit until then,
\* the wire does not move; the monitor sees one bit, when the clock rises.
LEMMA Wire ==
  ASSUME Inv, Next, InBit
  PROVE  /\ tck_cntr # Div3By4 => UNCHANGED <<slv, slvSent>>
         /\ tck_cntr >= 1 /\ tck_cntr < Div3By4 => SDA' = SDA
         /\ mon' = IF tck_cntr = DivBy4 THEN [mon EXCEPT !.bits = Append(mon.bits, SDA')] ELSE mon
  <1>1. /\ DivBy4 \in Nat /\ DivBy2 \in Nat /\ Div3By4 \in Nat /\ i2c_clk_div_cnt \in Nat
        /\ DivBy4 >= 1 /\ DivBy2 >= DivBy4 + 2 /\ Div3By4 = DivBy2 + DivBy4 /\ Div3By4 < i2c_clk_div_cnt
    BY Quarters DEF Inv
  <1>2. tck_cntr \in Nat /\ scl = B(DivBy4 < tck_cntr /\ tck_cntr <= Div3By4)
    BY <1>1 DEF Inv, Shape, TypeOK, Clocked
  <1>3. scl' = B(DivBy4 <= tck_cntr /\ tck_cntr < Div3By4)
    BY Pulse
  <1>4. SlaveEdge /\ mon' = IF scl = 0 /\ scl' = 1 THEN OnBit(mon, SDA')
                           ELSE IF scl = 1 /\ scl' = 1 /\ SDA # SDA' THEN OnSda(mon, SDA') ELSE mon
    BY BusyEdge DEF i2c_busy, InBit
  <1>5. scl = 1 /\ scl' = 0 <=> tck_cntr = Div3By4
    BY <1>1, <1>2, <1>3 DEF B
  <1>6. scl = 0 /\ scl' = 1 <=> tck_cntr = DivBy4
    BY <1>1, <1>2, <1>3 DEF B
  <1>7. tck_cntr # Div3By4 => UNCHANGED <<slv, slvSent>>
    BY <1>4, <1>5 DEF SlaveEdge
  <1>8. ASSUME tck_cntr >= 1, tck_cntr < Div3By4 PROVE SDA' = SDA
    <2>1. slv' = slv
      BY <1>1, <1>2, <1>7, <1>8
    <2>2. tck_cntr # i2c_clk_div_cnt
      BY <1>1, <1>2, <1>8
    <2>3. rel_i2c_bus' = rel_i2c_bus /\ (rel_i2c_bus = 0 => sda_o' = sda_o)
      <3>1. tck_cntr > 0 /\ Settled
        BY <1>2, <1>8 DEF Inv
      <3> QED BY <2>2, <3>1, Settles DEF Settled, B
    <2>4. rel_i2c_bus \in Bit
      BY DEF Inv, Shape, TypeOK
    <2> QED BY <2>1, <2>3, <2>4 DEF SDA, Bit
  <1>9. scl = 1 /\ scl' = 1 => SDA' = SDA
    BY <1>1, <1>2, <1>3, <1>8 DEF B
  <1>10. mon' = IF tck_cntr = DivBy4 THEN [mon EXCEPT !.bits = Append(mon.bits, SDA')] ELSE mon
    BY <1>4, <1>6, <1>9 DEF OnBit, Inv, Clocked
  <1> QED BY <1>7, <1>8, <1>10

-----------------------------------------------------------------------------
(***************************************************************************)
(* What the slave makes of the bits, when the clock falls.                 *)
(***************************************************************************)

LEMMA Nines ==
  ASSUME NEW i \in Nat, i % 9 = 0
  PROVE  i \div 9 \in Nat /\ i = 9 * (i \div 9)
  OBVIOUS

\* The slave has refused a byte only in the acknowledge bit of that byte.
LEMMA Refused ==
  ASSUME Inv, InBit, tck_cntr = Div3By4
  PROVE  /\ Len(mon.bits) = Pos + 1 /\ mon.bits \in Seq(Bit)
         /\ Nacked(mon.bits) <=> fsm_pstate = "ACK" /\ i2c_nack_det = 1
  <1>1. /\ DivBy4 \in Nat /\ DivBy2 \in Nat /\ Div3By4 > DivBy4 /\ Div3By4 > DivBy2
    BY Quarters DEF Inv
  <1>2. Len(mon.bits) = Pos + 1 /\ mon.bits \in Seq(Bit)
    BY <1>1 DEF Inv, Clocked, Shape, B
  <1>3. Pos \in Nat /\ DOMAIN mon.bits = 1 .. Pos + 1
    BY <1>2, Place
  <1>4. /\ \A j \in 1 .. Bytes : mon.bits[9 * j] = 0
        /\ i2c_nack_det = IF fsm_pstate = "ACK" THEN mon.bits[Pos + 1] ELSE 0
    BY <1>1, <1>2 DEF Inv, Acked
  <1>5. ASSUME NEW i \in 1 .. Pos + 1, i % 9 = 0, ~(fsm_pstate = "ACK" /\ i = Pos + 1)
        PROVE  mon.bits[i] = 0
    <2>1. PICK j \in Nat : i = 9 * j
      BY <1>3, <1>5, Nines
    <2>2. j \in 1 .. Bytes
      <3>1. CASE fsm_pstate = "ADDR"
        <4>1. Pos <= 7
          BY <3>1, Place DEF Inv, Clocked
        <4> QED BY <1>3, <1>5, <2>1, <4>1
      <3>2. CASE fsm_pstate = "DATA"
        <4>1. PICK b \in Nat, r \in 0 .. 7 : Bytes = b /\ Pos = 9 * b + r
          BY <3>2, Place
        <4>2. j # 0 /\ 9 * j <= 9 * b + 8
          BY <1>5, <2>1, <4>1
        <4> QED BY <2>1, <4>1, <4>2
      <3>3. CASE fsm_pstate = "ACK"
        <4>1. PICK b \in Nat : Bytes = b - 1 /\ Pos = 9 * b - 1
          BY <3>3, Place
        <4> QED BY <1>5, <2>1, <3>3, <4>1
      <3> QED BY <3>1, <3>2, <3>3 DEF InBit
    <2> QED BY <1>4, <2>1, <2>2
  <1>6. fsm_pstate = "ACK" => (Pos + 1) % 9 = 0
    BY Place, Inside9
  <1> QED BY <1>2, <1>3, <1>4, <1>5, <1>6 DEF Nacked

\* A slave that is read from.
LEMMA Answers ==
  ASSUME Inv, Next, InBit, tck_cntr = Div3By4, i2c_rd_n_wr = 1
  PROVE  /\ fsm_pstate = "ADDR" => slvSent' = slvSent /\ slv' \in Bit
         /\ fsm_pstate = "DATA" =>
              /\ slvSent' = slvSent /\ (data_cntr % 8 = 7 => slv' = 1)
              /\ data_cntr % 8 < 7 => slv' = slvSent[data_cntr_bytes][(data_cntr % 8) + 2]
         /\ fsm_pstate = "ACK" =>
              IF i2c_nack_det = 0 /\ data_cntr_bytes <= i2c_num_bytes
              THEN \E y \in SlaveBytes : slvSent' = Append(slvSent, y) /\ slv' = y[1]
              ELSE slvSent' = slvSent /\ (slv' = slv \/ slv' = 1)
  <1>1. /\ Len(mon.bits) = Pos + 1 /\ mon.bits \in Seq(Bit)
        /\ Nacked(mon.bits) <=> fsm_pstate = "ACK" /\ i2c_nack_det = 1
    BY Refused
  <1>2. SlaveEdge /\ mon.active = 1 /\ scl = 1 /\ scl' = 0 /\ xtn.n = i2c_num_bytes
    BY BusyEdge, Pulse, Quarters DEF Inv, Clocked, i2c_busy, InBit, B, Loaded, Asked
  <1>3. Len(mon.bits) >= 8 => mon.bits[8] = 1
    BY DEF Inv, Sent
  <1>4. i2c_nack_det \in Bit /\ i2c_num_bytes \in Nat
    BY DEF Inv, Shape, TypeOK
  <1>5. CASE fsm_pstate = "ADDR"
    <2>1. Pos \in 0 .. 7
      BY <1>5, Place DEF Inv, Clocked
    <2>2. (Pos + 1) % 9 = Pos + 1
      BY <2>1
    <2> QED BY <1>1, <1>2, <1>5, <2>1, <2>2 DEF SlaveEdge, Bit
  <1>6. CASE fsm_pstate = "DATA"
    <2> DEFINE b == data_cntr_bytes
               r == data_cntr % 8
    <2>1. b \in 1 .. i2c_num_bytes /\ r \in 0 .. 7 /\ Pos + 1 = 9 * b + (r + 1)
      BY <1>6, Place
    <2> HIDE DEF b, r
    <2>2. (Pos + 1) \div 9 = b /\ (Pos + 1) % 9 = r + 1
      BY <1>4, <2>1, Inside9
    <2>3. ~Nacked(mon.bits) /\ Pos + 1 >= 10 /\ mon.bits[8] = 1
      BY <1>1, <1>3, <1>4, <1>6, <2>1
    <2>4. CASE r = 7
      <3>1. slvSent' = slvSent /\ slv' = 1
        BY <1>1, <1>2, <2>2, <2>3, <2>4 DEF SlaveEdge
      <3> QED BY <1>6, <2>4, <3>1 DEF r
    <2>5. CASE r < 7
      <3>1. r + 1 \in 1 .. 7 /\ b <= xtn.n
        BY <1>2, <1>4, <2>1, <2>5
      <3>2. slvSent' = slvSent /\ slv' = slvSent[b][(r + 1) + 1]
        BY <1>1, <1>2, <2>2, <2>3, <3>1 DEF SlaveEdge
      <3>3. (r + 1) + 1 = r + 2
        BY <2>1
      <3>4. slv' = slvSent[b][r + 2] /\ r # 7
        BY <3>2, <3>3, <2>5
      <3> QED BY <1>6, <3>2, <3>4 DEF b, r
    <2> QED BY <2>1, <2>4, <2>5
  <1>7. CASE fsm_pstate = "ACK"
    <2> DEFINE b == data_cntr_bytes
    <2>1. b \in 1 .. i2c_num_bytes + 1 /\ Pos + 1 = 9 * b + 0
      BY <1>4, <1>7, Place
    <2> HIDE DEF b
    <2>2. (Pos + 1) \div 9 = b /\ (Pos + 1) % 9 = 0
      BY <1>4, <2>1, Inside9
    <2>3. Pos + 1 >= 9 /\ mon.bits[8] = 1
      BY <1>1, <1>3, <1>4, <2>1
    <2>4. CASE i2c_nack_det = 1
      BY <1>1, <1>2, <1>7, <2>4 DEF SlaveEdge
    <2>5. CASE i2c_nack_det = 0 /\ b <= i2c_num_bytes
      <3>1. \E y \in SlaveBytes : slvSent' = Append(slvSent, y) /\ slv' = y[1]
        BY <1>1, <1>2, <2>2, <2>3, <2>5, <1>7 DEF SlaveEdge
      <3> QED BY <1>7, <2>5, <3>1 DEF b
    <2>6. CASE i2c_nack_det = 0 /\ ~(b <= i2c_num_bytes)
      <3>1. slvSent' = slvSent /\ slv' = 1
        BY <1>1, <1>2, <2>2, <2>3, <2>6, <1>7 DEF SlaveEdge
      <3> QED BY <1>7, <2>6, <3>1 DEF b
    <2> QED BY <1>4, <2>4, <2>5, <2>6 DEF Bit
  <1> QED BY <1>5, <1>6, <1>7 DEF InBit

\* A slave that is written to sends nothing.
LEMMA Listens ==
  ASSUME Inv, Next, InBit, i2c_rd_n_wr = 0
  PROVE  slvSent' = slvSent /\ slv' \in Bit
  <1>1. SlaveEdge /\ slv \in Bit
    BY BusyEdge DEF Inv, Shape, TypeOK, i2c_busy, InBit
  <1>2. Len(mon.bits) >= 8 => mon.bits[8] = 0
    BY DEF Inv, Sent
  <1>3. ~(Len(mon.bits) >= 8 /\ mon.bits[8] = 1)
    BY <1>2
  <1>4. \/ UNCHANGED <<slv, slvSent>>
        \/ slv' \in Bit /\ UNCHANGED slvSent
        \/ slv' = 1 /\ UNCHANGED slvSent
    BY <1>1, <1>3, Zenon DEF SlaveEdge
  <1> QED BY <1>1, <1>4 DEF Bit

-----------------------------------------------------------------------------
(***************************************************************************)
(* A bit goes on: every part of the invariant, for the next count.         *)
(***************************************************************************)

\* The bit of a data byte that is to be sent.
LEMMA DataBit ==
  ASSUME Inv, fsm_pstate = "DATA"
  PROVE  i2c_seq_bits[data_cntr + 1] = data_cache[data_cntr_bytes - 1][(data_cntr % 8) + 1]
  <1> DEFINE b == data_cntr_bytes
             r == data_cntr % 8
  <1>1. b \in 1 .. i2c_num_bytes /\ r \in 0 .. 7 /\ data_cntr = 8 * b + r
    BY Place DEF InBit
  <1>2. i2c_num_bytes \in 0 .. MAX_BYTES /\ MAX_BYTES \in Nat
    BY I2cAssumption DEF Inv, Shape, TypeOK
  <1> HIDE DEF b, r
  <1>3. PICK i \in 9 .. 8 * (MAX_BYTES + 1) : i = data_cntr + 1
    BY <1>1, <1>2
  <1>4. (i - 9) \div 8 = b - 1 /\ (i - 1) % 8 = r
    <2>1. i - 9 = 8 * (b - 1) + r /\ i - 1 = 8 * b + r /\ b \in Int /\ b - 1 \in Int
      BY <1>1, <1>2, <1>3
    <2> QED BY <1>1, <2>1, Inside8
  <1>5. i2c_seq_bits[i] = data_cache[(i - 9) \div 8][((i - 1) % 8) + 1]
    BY <1>2 DEF i2c_seq_bits
  <1> QED BY <1>3, <1>4, <1>5 DEF b, r

LEMMA SeqIsBit ==
  ASSUME Inv, fsm_pstate \in {"ADDR", "DATA"}
  PROVE  i2c_seq_bits[data_cntr + 1] \in Bit
  <1>1. /\ i2c_addr \in [1..7 -> Bit] /\ i2c_rd_n_wr \in Bit /\ data_cache \in [0 .. MAX_BYTES - 1 -> Byte]
        /\ i2c_num_bytes \in 0 .. MAX_BYTES /\ MAX_BYTES \in Nat
    BY I2cAssumption DEF Inv, Shape, TypeOK
  <1>2. CASE fsm_pstate = "ADDR"
    <2>1. data_cntr \in 0 .. 7
      BY <1>2, Place DEF Inv, Clocked, InBit
    <2> QED BY <1>1, <2>1 DEF i2c_seq_bits
  <1>3. CASE fsm_pstate = "DATA"
    <2>1. data_cntr_bytes \in 1 .. i2c_num_bytes /\ data_cntr % 8 \in 0 .. 7
      BY <1>3, Place DEF InBit
    <2>2. data_cntr_bytes - 1 \in 0 .. MAX_BYTES - 1 /\ (data_cntr % 8) + 1 \in 1 .. 8
      BY <1>1, <2>1
    <2> QED BY <1>1, <1>3, <2>2, DataBit DEF Byte
  <1> QED BY <1>2, <1>3

LEMMA SlvIsBit ==
  ASSUME Inv, Next, InBit
  PROVE  slv' \in Bit /\ slvSent' \in Seq(Byte)
  <1>1. slv \in Bit /\ i2c_rd_n_wr \in Bit /\ slvSent \in Seq(Byte)
    BY DEF Inv, Shape, TypeOK
  <1>2. CASE tck_cntr # Div3By4
    BY <1>1, <1>2, Wire
  <1>3. CASE tck_cntr = Div3By4 /\ i2c_rd_n_wr = 0
    BY <1>1, <1>3, Listens
  <1>4. CASE tck_cntr = Div3By4 /\ i2c_rd_n_wr = 1
    <2>1. CASE fsm_pstate = "ADDR"
      BY <1>1, <1>4, <2>1, Answers
    <2>2. CASE fsm_pstate = "DATA"
      <3> DEFINE b == data_cntr_bytes
                 r == data_cntr % 8
      <3>1. b \in Nat \ {0} /\ r \in 0 .. 7 /\ Len(slvSent) = b
        BY <1>4, <2>2, Place DEF Inv, Received, Begun
      <3>2. (r = 7 => slv' = 1) /\ (r < 7 => slv' = slvSent[b][r + 2]) /\ slvSent' = slvSent
        BY <1>4, <2>2, Answers
      <3> HIDE DEF b, r
      <3>3. r < 7 => r + 2 \in 1 .. 8 /\ slvSent[b] \in Byte
        BY <1>1, <3>1
      <3> QED BY <1>1, <3>1, <3>2, <3>3 DEF Byte, Bit
    <2>3. CASE fsm_pstate = "ACK"
      <3>1. \/ slvSent' = slvSent /\ (slv' = slv \/ slv' = 1)
            \/ \E y \in SlaveBytes : slvSent' = Append(slvSent, y) /\ slv' = y[1]
        BY <1>4, <2>3, Answers
      <3>2. ASSUME NEW y \in SlaveBytes PROVE y \in Byte /\ y[1] \in Bit
        BY I2cAssumption DEF Byte
      <3>3. 1 \in Bit
        BY DEF Bit
      <3> QED BY <1>1, <3>1, <3>2, <3>3
    <2> QED BY <2>1, <2>2, <2>3 DEF InBit
  <1> QED BY <1>1, <1>2, <1>3, <1>4 DEF Bit

\* The facts that the proofs below share.
LEMMA Going ==
  ASSUME Inv, Next, InBit, tck_cntr # i2c_clk_div_cnt
  PROVE  /\ InBit' /\ UNCHANGED <<fsm_pstate, data_cntr, data_cntr_bytes, Bytes, Pos, xtn>>
         /\ UNCHANGED <<DivBy4, DivBy2, Div3By4, i2c_clk_div_cnt, i2c_num_bytes, i2c_rd_n_wr, i2c_addr>>
         /\ tck_cntr' = tck_cntr + 1 /\ tck_cntr \in 0 .. (i2c_clk_div_cnt - 1)
         /\ DivBy4 \in Nat /\ DivBy2 \in Nat /\ Div3By4 \in Nat /\ i2c_clk_div_cnt \in Nat
         /\ DivBy4 >= 1 /\ DivBy2 >= DivBy4 + 2 /\ Div3By4 = DivBy2 + DivBy4 /\ Div3By4 < i2c_clk_div_cnt
         /\ scl = B(DivBy4 < tck_cntr /\ tck_cntr <= Div3By4)
         /\ mon \in [active : Bit, bits : Seq(Bit), last : Seq(Bit)] /\ mon.active = 1
         /\ Len(mon.bits) = Pos + B(tck_cntr > DivBy4) /\ Pos \in Nat
         /\ mon' = IF tck_cntr = DivBy4 THEN [mon EXCEPT !.bits = Append(mon.bits, SDA')] ELSE mon
         /\ Bytes \in Nat /\ 9 * Bytes <= Pos /\ SDA' \in Bit /\ SDA \in Bit
  <1>1. tck_cntr \in 0 .. (i2c_clk_div_cnt - 1) /\ i2c_clk_div_cnt \in Nat
    <2>1. i2c_clk_div_cnt \in Nat /\ tck_cntr \in 0 .. i2c_clk_div_cnt
      BY Quarters DEF Inv, Shape, TypeOK
    <2> QED BY <2>1
  <1>2. UNCHANGED <<fsm_pstate, data_cntr, data_cntr_bytes, Bytes, Pos>> /\ InBit' /\ tck_cntr' = tck_cntr + 1
    BY GoesOn DEF InBit
  <1>3. /\ RegEdge /\ xtn' = xtn /\ UNCHANGED <<DivBy4, DivBy2, Div3By4>> /\ BusEdge /\ FsmEdge
    BY BusyEdge DEF i2c_busy, InBit
  <1>4. UNCHANGED <<i2c_clk_div_cnt, i2c_num_bytes, i2c_rd_n_wr, i2c_addr>>
    BY <1>3 DEF RegEdge
  <1>5. Bytes \in Nat /\ Pos \in Nat /\ 9 * Bytes <= Pos
    BY Place DEF InBit
  <1>6. {slv, rel_i2c_bus, sda_o} \subseteq Bit
    BY DEF Inv, Shape, TypeOK
  <1>7. SDA \in Bit
    BY <1>6 DEF SDA
  <1>8. SDA' \in Bit
    <2>1. rel_i2c_bus' = 0 /\ fsm_pstate # "ACK" => sda_o' = i2c_seq_bits[data_cntr + 1]
      BY Settles
    <2>2. rel_i2c_bus' = 0 /\ fsm_pstate = "ACK" => sda_o' = 0
      BY Settles
    <2>3. rel_i2c_bus' = 0 => sda_o' \in Bit
      BY <2>1, <2>2, SeqIsBit DEF InBit, Bit
    <2>4. rel_i2c_bus' \in Bit
      BY Settles DEF B, Bit
    <2> QED BY <2>3, <2>4, SlvIsBit DEF SDA, Bit
  <1>9. /\ scl = B(DivBy4 < tck_cntr /\ tck_cntr <= Div3By4)
        /\ mon \in [active : Bit, bits : Seq(Bit), last : Seq(Bit)] /\ mon.active = 1
        /\ Len(mon.bits) = Pos + B(tck_cntr > DivBy4)
    BY DEF Inv, Clocked, Shape
  <1> QED BY <1>1, <1>2, <1>3, <1>4, <1>5, <1>7, <1>8, <1>9, Wire, Quarters DEF Inv

\* Of these, the counts alone.
LEMMA Counts ==
  ASSUME Inv, Next, InBit, tck_cntr # i2c_clk_div_cnt
  PROVE  /\ InBit' /\ fsm_pstate' = fsm_pstate /\ i2c_num_bytes' = i2c_num_bytes
         /\ DivBy4' = DivBy4 /\ DivBy2' = DivBy2 /\ Div3By4' = Div3By4
         /\ tck_cntr' = tck_cntr + 1 /\ tck_cntr \in Nat /\ i2c_clk_div_cnt \in Nat /\ tck_cntr < i2c_clk_div_cnt
         /\ DivBy4 \in Nat /\ DivBy2 \in Nat /\ Div3By4 \in Nat
         /\ DivBy4 >= 1 /\ DivBy2 >= DivBy4 + 2 /\ Div3By4 = DivBy2 + DivBy4 /\ Div3By4 < i2c_clk_div_cnt
         /\ scl = B(DivBy4 < tck_cntr /\ tck_cntr <= Div3By4)
  <1>1. tck_cntr \in 0 .. (i2c_clk_div_cnt - 1) /\ i2c_clk_div_cnt \in Nat
    BY Going
  <1>2. tck_cntr \in Nat /\ tck_cntr < i2c_clk_div_cnt
    BY <1>1
  <1> QED BY <1>1, <1>2, Going

LEMMA ClockedOn ==
  ASSUME Inv, Next, InBit, tck_cntr # i2c_clk_div_cnt
  PROVE  Clocked'
  <1>1. scl' = B(DivBy4' < tck_cntr' /\ tck_cntr' <= Div3By4')
    BY Counts, Pulse DEF B
  <1>2. mon'.active = 1 /\ Len(mon'.bits) = Pos' + B(tck_cntr' > DivBy4')
    <2>1. mon.bits \in Seq(Bit) /\ SDA' \in Bit /\ Len(mon.bits) = Pos + B(tck_cntr > DivBy4) /\ Pos \in Nat
      BY Going
    <2>2. CASE tck_cntr = DivBy4
      <3>1. mon'.bits = Append(mon.bits, SDA') /\ mon'.active = 1
        BY <2>2, Going
      <3>2. Len(mon'.bits) = Pos + 1
        <4>1. Len(mon.bits) = Pos
          BY <2>1, <2>2, Counts DEF B
        <4> QED BY <2>1, <3>1, <4>1
      <3>3. B(tck_cntr' > DivBy4') = 1 /\ Pos' = Pos
        BY <2>2, Counts, Going DEF B
      <3> QED BY <3>1, <3>2, <3>3
    <2>3. CASE tck_cntr # DivBy4
      <3>1. mon' = mon /\ Pos' = Pos /\ mon.active = 1
        BY <2>3, Going
      <3>2. B(tck_cntr' > DivBy4') = B(tck_cntr > DivBy4)
        BY <2>3, Counts DEF B
      <3> QED BY <2>1, <3>1, <3>2
    <2> QED BY <2>2, <2>3
  <1>3. /\ fsm_pstate' = "ADDR" => data_cntr' <= 7
        /\ fsm_pstate' = "DATA" => data_cntr' \in 8 .. 8 * i2c_num_bytes' + 7
        /\ fsm_pstate' = "ACK" => data_cntr' \in 8 .. 8 * i2c_num_bytes' + 8 /\ data_cntr' % 8 = 0
    BY Going DEF Inv, Clocked
  <1> QED BY <1>1, <1>2, <1>3 DEF Clocked

LEMMA SampledOn ==
  ASSUME Inv, Next, InBit, tck_cntr # i2c_clk_div_cnt
  PROVE  Sampled'
  <1> SUFFICES ASSUME tck_cntr < Div3By4
               PROVE  /\ tck_cntr >= 1 => sync_f'[1] = SDA'
                      /\ tck_cntr >= 2 => sync_f'[2] = SDA'
                      /\ tck_cntr >= DivBy4 => mon'.bits[Len(mon'.bits)] = SDA'
    <2>1. tck_cntr' <= Div3By4' => tck_cntr < Div3By4
      BY Counts
    <2>2. (tck_cntr' >= 2 => tck_cntr >= 1) /\ (tck_cntr' >= 3 => tck_cntr >= 2) /\ (tck_cntr' > DivBy4' => tck_cntr >= DivBy4)
      BY Counts
    <2> QED BY <2>1, <2>2 DEF Sampled
  <1>1. tck_cntr >= 1 => SDA' = SDA
    BY Wire
  <1>2. sync_f' = <<SDA, sync_f[1]>>
    BY BusyEdge DEF BusEdge, i2c_busy, InBit
  <1>3. tck_cntr >= 2 => sync_f[1] = SDA
    BY Counts DEF Inv, Sampled
  <1>4. tck_cntr >= 1 => sync_f'[1] = SDA'
    BY <1>1, <1>2
  <1>5. tck_cntr >= 2 => sync_f'[2] = SDA'
    BY <1>1, <1>2, <1>3, Counts
  <1>6. CASE tck_cntr = DivBy4
    <2>1. mon'.bits = Append(mon.bits, SDA') /\ mon.bits \in Seq(Bit)
      BY <1>6, Going
    <2> QED BY <1>4, <1>5, <2>1
  <1>7. CASE tck_cntr > DivBy4
    <2>1. mon.bits[Len(mon.bits)] = SDA /\ mon' = mon /\ tck_cntr >= 1
      <3>1. mon' = mon
        BY <1>7, Going
      <3>2. tck_cntr >= 1 /\ tck_cntr <= Div3By4
        BY <1>7, Counts
      <3> QED BY <1>7, <3>1, <3>2 DEF Inv, Sampled
    <2> QED BY <1>1, <1>4, <1>5, <2>1
  <1> QED BY <1>4, <1>5, <1>6, <1>7, Counts

LEMMA AckedOn ==
  ASSUME Inv, Next, InBit, tck_cntr # i2c_clk_div_cnt
  PROVE  Acked'
  <1>1. \A j \in 1 .. Bytes : mon.bits[9 * j] = 0
    BY DEF Inv, Acked
  <1>2. ASSUME NEW j \in 1 .. Bytes PROVE mon'.bits[9 * j] = 0
    <2>1. 9 * j \in 1 .. Pos /\ Pos <= Len(mon.bits) /\ mon.bits \in Seq(Bit)
      <3>1. Bytes \in Nat /\ 9 * Bytes <= Pos /\ Pos \in Nat /\ mon.bits \in Seq(Bit)
        BY Going
      <3>2. Len(mon.bits) = Pos + B(tck_cntr > DivBy4)
        BY Going
      <3>3. Pos <= Len(mon.bits)
        BY <3>1, <3>2 DEF B
      <3> QED BY <3>1, <3>3
    <2>2. mon'.bits = mon.bits \/ mon'.bits = Append(mon.bits, SDA')
      BY Going
    <2>3. 9 * j \in 1 .. Len(mon.bits)
      BY <2>1, Going
    <2> QED BY <1>1, <2>1, <2>2, <2>3
  <1>3. i2c_nack_det = IF fsm_pstate = "ACK" /\ tck_cntr > DivBy2 THEN mon.bits[Len(mon.bits)] ELSE 0
    BY DEF Inv, Acked
  <1>4. NackEdge /\ i2c_init = 0 /\ i2c_nack_det \in Bit
    BY BusyEdge DEF i2c_busy, InBit, Inv, Shape, TypeOK
  <1>5. i2c_nack_det' = IF fsm_pstate = "ACK" /\ tck_cntr >= DivBy2 THEN mon'.bits[Len(mon'.bits)] ELSE 0
    <2>1. CASE fsm_pstate # "ACK"
      BY <1>3, <1>4, <2>1 DEF NackEdge, B
    <2>2. CASE fsm_pstate = "ACK" /\ tck_cntr < DivBy2
      <3>1. ~tck_by_2_valid /\ i2c_nack_det = 0
        BY <1>3, <2>2, Counts DEF tck_by_2_valid, tck_valid
      <3> QED BY <1>4, <2>2, <3>1, Counts DEF NackEdge, B
    <2>3. CASE fsm_pstate = "ACK" /\ tck_cntr = DivBy2
      <3>1. tck_by_2_valid /\ scl = 1 /\ i2c_nack_det = 0 /\ mon' = mon
        <4>1. tck_by_2_valid /\ scl = 1 /\ i2c_nack_det = 0 /\ tck_cntr # DivBy4
          BY <1>3, <2>3, Counts DEF tck_by_2_valid, B
        <4> QED BY <4>1, Going
      <3>2. sync_f[2] = mon.bits[Len(mon.bits)] /\ sync_f[2] \in Bit
        <4>1. tck_cntr <= Div3By4 /\ tck_cntr >= 3 /\ tck_cntr > DivBy4
          BY <2>3, Counts
        <4>2. SDA \in Bit
          BY Going
        <4> QED BY <4>1, <4>2 DEF Inv, Sampled
      <3>3. i2c_nack_det' = B(sync_f[2] = 1)
        BY <1>4, <2>3, <3>1 DEF NackEdge, B, sda_i
      <3>4. i2c_nack_det' = sync_f[2]
        BY <3>2, <3>3 DEF B, Bit
      <3>5. tck_cntr >= DivBy2
        BY <2>3, Counts
      <3> QED BY <2>3, <3>1, <3>2, <3>4, <3>5
    <2>4. CASE fsm_pstate = "ACK" /\ tck_cntr > DivBy2
      <3>1. ~tck_by_2_valid /\ mon' = mon /\ i2c_nack_det = mon.bits[Len(mon.bits)]
        <4>1. ~tck_by_2_valid /\ tck_cntr # DivBy4
          BY <2>4, Counts DEF tck_by_2_valid, tck_valid
        <4> QED BY <1>3, <2>4, <4>1, Going
      <3>2. tck_cntr >= DivBy2
        BY <2>4, Counts
      <3>3. i2c_nack_det' = i2c_nack_det
        BY <1>4, <3>1 DEF NackEdge, B, Bit
      <3> QED BY <2>4, <3>1, <3>2, <3>3
    <2>5. tck_cntr \in Nat /\ DivBy2 \in Nat
      BY Counts
    <2> QED BY <2>1, <2>2, <2>3, <2>4, <2>5
  <1>6. Bytes' = Bytes
    BY Going
  <1>7. fsm_pstate' = fsm_pstate /\ (tck_cntr' > DivBy2' <=> tck_cntr >= DivBy2)
    <2>1. fsm_pstate' = fsm_pstate /\ DivBy2' = DivBy2 /\ tck_cntr' = tck_cntr + 1 /\ tck_cntr \in Nat /\ DivBy2 \in Nat
      BY Counts
    <2> QED BY <2>1
  <1>8. i2c_nack_det' = IF fsm_pstate' = "ACK" /\ tck_cntr' > DivBy2' THEN mon'.bits[Len(mon'.bits)] ELSE 0
    BY <1>5, <1>7
  <1> QED BY <1>2, <1>6, <1>8 DEF Acked

\* The bits that are sent are those of the frame.
LEMMA FrameBit ==
  ASSUME Inv, fsm_pstate \in {"ADDR", "DATA"}, i2c_rd_n_wr = 0
  PROVE  i2c_seq_bits[data_cntr + 1] = WriteFrame(xtn)[Pos + 1]
  <1>1. pc = "poll" /\ xtn \in Xtns
    BY DEF Inv, Busy, i2c_busy, Shape
  <1>2. /\ i2c_addr = xtn.addr /\ xtn.rd = 0 /\ i2c_num_bytes = xtn.n /\ xtn.n \in Nat /\ xtn.n <= MAX_BYTES
        /\ \A i \in 1 .. xtn.n : data_cache[i - 1] = xtn.data[i]
    BY <1>1, I2cAssumption DEF Inv, Loaded, Asked
  <1>3. MAX_BYTES \in Nat
    BY I2cAssumption
  <1>4. CASE fsm_pstate = "ADDR"
    <2>1. data_cntr \in 0 .. 7 /\ Pos = data_cntr
      BY <1>4, Place DEF Inv, Clocked, InBit
    <2>2. i2c_seq_bits[data_cntr + 1] = IF data_cntr + 1 <= 7 THEN xtn.addr[data_cntr + 1] ELSE 0
      BY <1>2, <1>3, <2>1 DEF i2c_seq_bits
    <2>3. WriteFrame(xtn)[data_cntr + 1] = IF data_cntr + 1 <= 7 THEN xtn.addr[data_cntr + 1] ELSE 0
      BY <1>2, <2>1 DEF WriteFrame
    <2> QED BY <2>1, <2>2, <2>3
  <1>5. CASE fsm_pstate = "DATA"
    <2> DEFINE b == data_cntr_bytes
               r == data_cntr % 8
    <2>1. b \in 1 .. xtn.n /\ r \in 0 .. 7 /\ data_cntr = 8 * b + r /\ Pos = 9 * b + r
      BY <1>2, <1>5, Place DEF InBit
    <2> HIDE DEF b, r
    <2>2. i2c_seq_bits[data_cntr + 1] = data_cache[b - 1][r + 1]
      BY <1>5, DataBit DEF b, r
    <2>3. PICK i \in 10 .. 9 * (xtn.n + 1) : i = Pos + 1
      BY <1>2, <2>1
    <2>4. (i - 1) \div 9 = b /\ (i - 1) % 9 = r /\ i % 9 = r + 1
      <3>1. i - 1 = 9 * b + r /\ i = 9 * b + (r + 1) /\ r + 1 \in 1 .. 8 /\ r \in 0 .. 8 /\ b \in Int
        BY <1>2, <2>1, <2>3
      <3> QED BY <3>1, Inside9
    <2>5. WriteFrame(xtn)[i] = xtn.data[(i - 1) \div 9][((i - 1) % 9) + 1]
      <3>1. i % 9 # 0
        BY <2>1, <2>4
      <3> QED BY <1>2, <3>1 DEF WriteFrame
    <2> QED BY <1>2, <2>1, <2>2, <2>3, <2>4, <2>5
  <1> QED BY <1>4, <1>5

LEMMA SentOn ==
  ASSUME Inv, Next, InBit, tck_cntr # i2c_clk_div_cnt
  PROVE  Sent'
  <1>1. /\ Len(mon.bits) >= 8 => mon.bits[8] = i2c_rd_n_wr
        /\ i2c_rd_n_wr = 0 =>
             \A i \in 1 .. Len(mon.bits) : i % 9 # 0 => mon.bits[i] = WriteFrame(xtn)[i]
    BY DEF Inv, Sent
  <1>2. InBit' /\ i2c_rd_n_wr' = i2c_rd_n_wr /\ xtn' = xtn /\ mon.bits \in Seq(Bit) /\ SDA' \in Bit /\ Pos \in Nat
    BY Going
  <1>3. WriteFrame(xtn)' = WriteFrame(xtn)
    BY <1>2 DEF WriteFrame
  <1>4. CASE tck_cntr # DivBy4
    <2>1. mon' = mon
      BY <1>4, Wire
    <2> QED BY <1>1, <1>2, <1>3, <2>1 DEF Sent
  <1>5. CASE tck_cntr = DivBy4
    <2>1. mon'.bits = Append(mon.bits, SDA') /\ Len(mon.bits) = Pos
      <3>1. B(tck_cntr > DivBy4) = 0
        BY <1>5, Counts DEF B
      <3> QED BY <1>5, <3>1, Going
    <2>2. /\ Len(mon'.bits) = Pos + 1 /\ mon'.bits[Pos + 1] = SDA'
          /\ \A i \in 1 .. Pos : mon'.bits[i] = mon.bits[i]
      BY <1>2, <2>1
    <2>3. fsm_pstate # "ACK" /\ (fsm_pstate = "ADDR" \/ i2c_rd_n_wr = 0) => SDA' = i2c_seq_bits[data_cntr + 1]
      <3>1. fsm_pstate # "ACK" /\ (fsm_pstate = "ADDR" \/ i2c_rd_n_wr = 0) => rel_i2c_bus' = 0
        BY Settles DEF B
      <3>2. rel_i2c_bus' = 0 => SDA' = sda_o'
        BY DEF SDA
      <3>3. rel_i2c_bus' = 0 /\ fsm_pstate # "ACK" => sda_o' = i2c_seq_bits[data_cntr + 1]
        BY Settles
      <3> QED BY <3>1, <3>2, <3>3
    <2>4. Pos = 7 => SDA' = i2c_rd_n_wr
      <3>1. Pos = 7 => fsm_pstate = "ADDR" /\ data_cntr = 7
        BY Place DEF InBit
      <3>2. i2c_seq_bits[7 + 1] = i2c_rd_n_wr
        BY I2cAssumption DEF i2c_seq_bits
      <3> QED BY <2>3, <3>1, <3>2
    <2>5. Len(mon'.bits) >= 8 => mon'.bits[8] = i2c_rd_n_wr
      BY <1>1, <1>2, <2>1, <2>2, <2>4
    <2>6. i2c_rd_n_wr = 0 /\ (Pos + 1) % 9 # 0 => SDA' = WriteFrame(xtn)[Pos + 1]
      <3>1. fsm_pstate = "ACK" => (Pos + 1) % 9 = 0
        BY Place, Inside9
      <3> QED BY <2>3, <3>1, FrameBit DEF InBit
    <2>7. i2c_rd_n_wr = 0 =>
             \A i \in 1 .. Len(mon'.bits) : i % 9 # 0 => mon'.bits[i] = WriteFrame(xtn)[i]
      <3> SUFFICES ASSUME i2c_rd_n_wr = 0, NEW i \in 1 .. Pos + 1, i % 9 # 0
                   PROVE  mon'.bits[i] = WriteFrame(xtn)[i]
        BY <2>2
      <3>1. CASE i = Pos + 1
        BY <2>2, <2>6, <3>1
      <3>2. CASE i \in 1 .. Pos
        BY <1>1, <2>1, <2>2, <3>2
      <3> QED BY <1>2, <3>1, <3>2
    <2> QED BY <1>2, <1>3, <2>5, <2>7 DEF Sent
  <1> QED BY <1>4, <1>5

LEMMA ReceivedOn ==
  ASSUME Inv, Next, InBit, tck_cntr # i2c_clk_div_cnt
  PROVE  Received'
  <1> SUFFICES ASSUME i2c_rd_n_wr = 1 PROVE Received'
    BY Going DEF Received
  <1>0. Received
    BY DEF Inv
  <1>1. slvSent \in Seq(Byte) /\ data_cache \in [0 .. MAX_BYTES - 1 -> Byte] /\ MAX_BYTES \in Nat
        /\ i2c_num_bytes \in 0 .. MAX_BYTES
    BY I2cAssumption DEF Inv, Shape, TypeOK
  <1>2. RegEdge /\ BusEdge
    BY BusyEdge DEF i2c_busy, InBit
  <1>3. CASE fsm_pstate = "ADDR"
    <2>1. slvSent' = slvSent
      BY <1>3, Answers, Wire
    <2>2. data_cntr_bytes = 0 /\ data_cntr_bytes' = 0 /\ fsm_pstate' = "ADDR"
      BY <1>3, Going, Place
    <2> QED BY <1>0, <1>3, <2>1, <2>2 DEF Received, Begun, InBit
  <1>4. CASE fsm_pstate = "DATA"
    <2> DEFINE b == data_cntr_bytes
               r == data_cntr % 8
               s == r + B(tck_cntr > DivBy2)
               s1 == r + B(tck_cntr + 1 > DivBy2)
    <2>1. b \in 1 .. i2c_num_bytes /\ r \in 0 .. 7
      BY <1>4, Place
    <2>2. /\ tck_cntr <= Div3By4 => slv = slvSent[b][r + 1]
          /\ tck_cntr > Div3By4 /\ r < 7 => slv = slvSent[b][r + 2]
          /\ \A j \in 1 .. s : data_cache[b - 1][8 - s + j] = slvSent[b][j]
          /\ \A c \in 1 .. b - 1 : data_cache[c - 1] = slvSent[c]
          /\ Len(slvSent) = b
      BY <1>0, <1>4 DEF Received, InBit
    <2>3. slvSent' = slvSent
      BY <1>4, Answers, Wire
    <2>4. /\ tck_cntr + 1 <= Div3By4 => slv' = slvSent[b][r + 1]
          /\ tck_cntr + 1 > Div3By4 /\ r < 7 => slv' = slvSent[b][r + 2]
      <3>1. CASE tck_cntr < Div3By4
        <4>1. slv' = slv
          BY <3>1, Wire, Counts
        <4> QED BY <2>2, <3>1, <4>1, Counts
      <3>2. CASE tck_cntr = Div3By4
        BY <1>4, <3>2, Answers, Counts
      <3>3. CASE tck_cntr > Div3By4
        BY <2>2, <3>3, Wire, Counts
      <3> QED BY <3>1, <3>2, <3>3, Counts
    <2> HIDE DEF b, r
    <2>5. b - 1 \in 0 .. MAX_BYTES - 1
      BY <1>1, <2>1
    <2>6. /\ \A j \in 1 .. s1 : data_cache'[b - 1][8 - s1 + j] = slvSent[b][j]
          /\ \A c \in 1 .. b - 1 : data_cache'[c - 1] = slvSent[c]
      <3>1. CASE tck_cntr = DivBy2
        <4>1. scl = 1 /\ tck_by_2_valid /\ s = r /\ s1 = r + 1
          <5>1. scl = 1 /\ tck_by_2_valid /\ ~(tck_cntr > DivBy2) /\ tck_cntr + 1 > DivBy2
            BY <3>1, Counts DEF tck_by_2_valid, B
          <5> QED BY <2>1, <5>1 DEF B
        <4>2. data_cache' = [data_cache EXCEPT ![b - 1] =
                               [i \in 1..8 |-> IF i < 8 THEN data_cache[b - 1][i + 1] ELSE sync_f[2]]]
          BY <1>2, <1>4, <4>1 DEF RegEdge, ShiftIdx, sda_i, b
        <4>3. sync_f[2] = slvSent[b][r + 1]
          <5>1. rel_i2c_bus = 1
            BY <1>4, <3>1, Going DEF Inv, Settled, B
          <5>2. sync_f[2] = SDA
            BY <3>1, Going DEF Inv, Sampled
          <5> QED BY <2>2, <3>1, <5>1, <5>2, Going DEF SDA
        <4>4. ASSUME NEW j \in 1 .. r + 1 PROVE data_cache'[b - 1][8 - (r + 1) + j] = slvSent[b][j]
          <5>1. CASE j = r + 1
            BY <1>1, <2>1, <2>5, <4>2, <4>3, <5>1
          <5>2. CASE j \in 1 .. r
            <6>1. 8 - (r + 1) + j \in 1 .. 7 /\ 8 - (r + 1) + j + 1 = 8 - r + j
              BY <2>1, <5>2
            <6>2. data_cache'[b - 1][8 - (r + 1) + j] = data_cache[b - 1][8 - r + j]
              BY <1>1, <2>5, <4>2, <6>1
            <6> QED BY <2>2, <4>1, <5>2, <6>2
          <5> QED BY <2>1, <5>1, <5>2
        <4>5. ASSUME NEW c \in 1 .. b - 1 PROVE data_cache'[c - 1] = slvSent[c]
          BY <1>1, <2>1, <2>2, <2>5, <4>2
        <4> QED BY <4>1, <4>4, <4>5
      <3>2. CASE tck_cntr # DivBy2
        <4>1. data_cache' = data_cache
          BY <1>2, <3>2 DEF RegEdge, tck_by_2_valid, tck_valid
        <4>2. s1 = s
          BY <3>2, Counts DEF B
        <4> QED BY <2>2, <4>1, <4>2
      <3> QED BY <3>1, <3>2
    <2>7. /\ b = data_cntr_bytes' /\ r = data_cntr' % 8 /\ s1 = r + B(tck_cntr' > DivBy2')
          /\ fsm_pstate' = "DATA" /\ tck_cntr' = tck_cntr + 1 /\ Div3By4' = Div3By4
      BY <1>4, Going DEF b, r
    <2> HIDE DEF s, s1
    <2> QED BY <2>2, <2>3, <2>4, <2>6, <2>7 DEF Received, Begun
  <1>5. CASE fsm_pstate = "ACK"
    <2> DEFINE b == data_cntr_bytes
    <2>1. b \in 1 .. i2c_num_bytes + 1
      BY <1>5, Place
    <2>2. /\ Len(slvSent) = IF ~Begun THEN b - 1 ELSE b
          /\ Begun => slv = slvSent[b][1]
          /\ \A c \in 1 .. b - 1 : data_cache[c - 1] = slvSent[c]
      BY <1>0, <1>5 DEF Received, InBit
    <2>3. data_cache' = data_cache
      BY <1>2, <1>5 DEF RegEdge
    <2>4. tck_cntr > DivBy2 => i2c_nack_det' = i2c_nack_det
      <3>1. NackEdge /\ i2c_init = 0 /\ i2c_nack_det \in Bit
        BY BusyEdge DEF i2c_busy, InBit, Inv, Shape, TypeOK
      <3>2. tck_cntr > DivBy2 => ~tck_by_2_valid
        BY Going DEF tck_by_2_valid, tck_valid
      <3> QED BY <3>1, <3>2 DEF NackEdge, B, Bit
    <2>5. fsm_pstate' = "ACK" /\ data_cntr_bytes' = b /\ i2c_num_bytes' = i2c_num_bytes
      BY <1>5, Going
    <2>6. Begun' <=> tck_cntr >= Div3By4 /\ i2c_nack_det' = 0 /\ b <= i2c_num_bytes
      BY <2>5, Counts DEF Begun
    <2> HIDE DEF b
    <2>7. /\ Len(slvSent') = IF ~Begun' THEN b - 1 ELSE b
          /\ Begun' => slv' = slvSent'[b][1]
          /\ \A c \in 1 .. b - 1 : slvSent'[c] = slvSent[c]
      <3>1. CASE tck_cntr < Div3By4
        <4>1. ~Begun /\ ~Begun' /\ slvSent' = slvSent
          BY <2>6, <3>1, Going, Wire DEF Begun
        <4> QED BY <2>2, <4>1
      <3>2. CASE tck_cntr > Div3By4
        <4>1. UNCHANGED <<slv, slvSent>>
          BY <3>2, Wire, Going
        <4>2. Begun' <=> Begun
          BY <1>5, <2>4, <2>6, <3>2, Going DEF Begun, b
        <4> QED BY <2>2, <4>1, <4>2
      <3>3. CASE tck_cntr = Div3By4
        <4>1. ~Begun /\ i2c_nack_det' = i2c_nack_det
          BY <2>4, <3>3, Going DEF Begun
        <4>2. CASE Begun'
          <5>1. PICK y \in SlaveBytes : slvSent' = Append(slvSent, y) /\ slv' = y[1]
            BY <1>5, <2>6, <3>3, <4>1, <4>2, Answers DEF b
          <5>2. Len(slvSent) = b - 1
            BY <2>2, <4>1
          <5> QED BY <1>1, <2>1, <4>2, <5>1, <5>2
        <4>3. CASE ~Begun'
          <5>1. slvSent' = slvSent
            BY <1>5, <2>6, <3>3, <4>1, <4>3, Answers, Going DEF b
          <5> QED BY <2>2, <4>1, <4>3, <5>1
        <4> QED BY <4>2, <4>3
      <3> QED BY <3>1, <3>2, <3>3, Going
    <2> QED BY <2>2, <2>3, <2>5, <2>7 DEF Received
  <1> QED BY <1>3, <1>4, <1>5 DEF InBit

-----------------------------------------------------------------------------
(***************************************************************************)
(* What a busy master leaves alone, and its types.                         *)
(***************************************************************************)

LEMMA BusyFirmware ==
  ASSUME Inv, Next, i2c_busy
  PROVE  Loaded' /\ Busy' /\ Told' /\ Asked /\ Asked'
  <1>1. /\ RegEdge /\ pc' = pc /\ pc = "poll" /\ xtn' = xtn /\ bffr' = bffr /\ i2c_init = 0
    BY BusyEdge
  <1>2. Loaded /\ Told /\ Asked
    BY <1>1 DEF Inv, Asked
  <1>3. i2c_rd_n_wr = 0 => data_cache' = data_cache
    BY <1>1 DEF RegEdge
  <1>4. Loaded' /\ Asked'
    BY <1>1, <1>2, <1>3 DEF Loaded, Asked, RegEdge
  <1>5. Told' /\ Busy'
    BY <1>1, <1>2 DEF Told, Busy, RegEdge
  <1> QED BY <1>2, <1>4, <1>5

\* The registers of a busy master, but for the wires.
LEMMA BusyTypes ==
  ASSUME Inv, Next, i2c_busy
  PROVE  /\ i2c_addr' \in [1..7 -> Bit] /\ i2c_clk_div_cnt' \in ClkDivs /\ i2c_num_bytes' \in 0 .. MAX_BYTES
         /\ {i2c_rd_n_wr, i2c_start_en, i2c_stop_en, i2c_init, i2c_nack_det, rel_i2c_bus}' \subseteq Bit
         /\ data_cache' \in [0 .. MAX_BYTES - 1 -> Byte]
         /\ fsm_pstate' \in {"IDLE", "START", "ACK", "ADDR", "DATA", "STOP"}
         /\ tck_cntr' \in 0 .. i2c_clk_div_cnt'
         /\ pc' \in {"idle", "addr", "data", "config", "poll", "nack", "fetch"}
         /\ res' \in {"none", "OK", "NACK", "ERROR"} /\ gap' \in 0 .. LB_GAP - 1
         /\ bffr' \in Seq(Byte) /\ xtn' \in Xtns /\ sync_f' \in Bit \X Bit
  <1>1. Shape /\ RegEdge /\ FsmEdge /\ NackEdge /\ BusEdge /\ UNCHANGED <<pc, xtn, bffr, res>> /\ gap' \in 0 .. LB_GAP - 1
    BY BusyEdge DEF Inv
  <1>2. /\ i2c_addr' \in [1..7 -> Bit] /\ i2c_clk_div_cnt' \in ClkDivs /\ i2c_num_bytes' \in 0 .. MAX_BYTES
        /\ {i2c_rd_n_wr, i2c_start_en, i2c_stop_en, i2c_init}' \subseteq Bit
    BY <1>1 DEF RegEdge, Shape, TypeOK, Bit
  <1>3. data_cache' \in [0 .. MAX_BYTES - 1 -> Byte]
    <2>1. data_cache \in [0 .. MAX_BYTES - 1 -> Byte] /\ sync_f[2] \in Bit
      BY <1>1 DEF Shape, TypeOK
    <2>2. ASSUME NEW y \in Byte PROVE [i \in 1..8 |-> IF i < 8 THEN y[i + 1] ELSE sync_f[2]] \in Byte
      BY <2>1 DEF Byte
    <2>3. \/ data_cache' = data_cache
          \/ data_cache' = [data_cache EXCEPT ![ShiftIdx] =
                             [i \in 1..8 |-> IF i < 8 THEN data_cache[ShiftIdx][i + 1] ELSE sync_f[2]]]
      BY <1>1 DEF RegEdge, sda_i
    <2> QED BY <2>1, <2>2, <2>3
  <1>4. i2c_nack_det' \in Bit /\ rel_i2c_bus' \in Bit
    BY <1>1 DEF NackEdge, FsmEdge, B, Bit
  <1>5. fsm_pstate' \in {"IDLE", "START", "ACK", "ADDR", "DATA", "STOP"}
    BY <1>1 DEF FsmEdge, next_state, Shape, TypeOK
  <1>6. tck_cntr' \in 0 .. i2c_clk_div_cnt'
    <2>1. tck_cntr \in 0 .. i2c_clk_div_cnt /\ i2c_clk_div_cnt \in Nat /\ i2c_clk_div_cnt' = i2c_clk_div_cnt
      BY <1>1, Quarters DEF Shape, TypeOK, RegEdge
    <2> QED BY <1>1, <2>1 DEF FsmEdge, tck_valid
  <1>7. sync_f' \in Bit \X Bit
    <2>1. SDA \in Bit /\ sync_f[1] \in Bit
      BY <1>1 DEF Shape, TypeOK, SDA
    <2> QED BY <1>1, <2>1 DEF BusEdge
  <1> QED BY <1>1, <1>2, <1>3, <1>4, <1>5, <1>6, <1>7 DEF Shape, TypeOK

LEMMA BitShape ==
  ASSUME Inv, Next, InBit
  PROVE  Shape'
  <1>1. i2c_busy
    BY DEF i2c_busy, InBit
  <1>2. BusEdge /\ DataCntrEdge /\ FsmEdge /\ slv \in Bit /\ {rel_i2c_bus, sda_o} \subseteq Bit
    BY <1>1, BusyEdge DEF Inv, Shape, TypeOK
  <1>3. scl' \in Bit
    BY Pulse DEF B, Bit
  <1>4. sda_o' \in Bit
    BY <1>2, SeqIsBit DEF BusEdge, InBit, Bit
  <1>5. data_cntr' \in 0 .. 8 * (MAX_BYTES + 1)
    <2>1. i2c_num_bytes \in 0 .. MAX_BYTES /\ MAX_BYTES \in Nat /\ data_cntr \in Nat
      BY I2cAssumption, Place DEF Inv, Shape, TypeOK
    <2>2. /\ fsm_pstate \in {"ADDR", "DATA"} => data_cntr + 1 <= 8 * (MAX_BYTES + 1)
          /\ data_cntr <= 8 * (MAX_BYTES + 1)
      BY <2>1 DEF Inv, Clocked, InBit
    <2> QED BY <1>1, <1>2, <2>1, <2>2 DEF DataCntrEdge, data_cntr_en
  <1>6. mon' \in [active : Bit, bits : Seq(Bit), last : Seq(Bit)]
    <2>1. mon \in [active : Bit, bits : Seq(Bit), last : Seq(Bit)]
      BY DEF Inv, Shape
    <2>2. SDA' \in Bit
      <3>1. rel_i2c_bus' \in Bit
        BY <1>1, BusyTypes
      <3>2. slv' \in Bit
        BY SlvIsBit
      <3> QED BY <1>4, <3>1, <3>2 DEF SDA
    <2>3. mon' = mon \/ mon' = [mon EXCEPT !.bits = Append(mon.bits, SDA')]
      BY Wire
    <2>4. Append(mon.bits, SDA') \in Seq(Bit)
      BY <2>1, <2>2
    <2> QED BY <2>1, <2>3, <2>4
  <1> QED BY <1>1, <1>3, <1>4, <1>5, <1>6, SlvIsBit, BusyTypes DEF Shape, TypeOK

-----------------------------------------------------------------------------
(***************************************************************************)
(* A bit ends: the next bit, the acknowledge bit, the next byte, the end.  *)
(***************************************************************************)

LEMMA Ending ==
  ASSUME Inv, Next, InBit, tck_cntr = i2c_clk_div_cnt
  PROVE  /\ tck_cntr' = 0 /\ scl' = 0 /\ UNCHANGED <<mon, slv, slvSent, data_cache, i2c_nack_det>>
         /\ UNCHANGED <<xtn, pc, i2c_num_bytes, i2c_rd_n_wr, i2c_stop_en, DivBy4, DivBy2, Div3By4>>
         /\ i2c_init' = 0 /\ pc = "poll"
         /\ fsm_pstate' = next_state /\ Len(mon.bits) = Pos + 1 /\ mon.bits \in Seq(Bit)
         /\ tck_cntr > DivBy4 /\ tck_cntr > DivBy2 /\ tck_cntr > Div3By4
         /\ DivBy4 \in Nat /\ DivBy2 \in Nat /\ Div3By4 \in Nat /\ DivBy4 >= 1
         /\ xtn.n = i2c_num_bytes /\ xtn.rd = i2c_rd_n_wr /\ xtn.stop = i2c_stop_en
         /\ i2c_num_bytes \in Nat /\ i2c_rd_n_wr \in Bit /\ i2c_nack_det \in Bit /\ i2c_stop_en \in Bit
  <1>1. /\ DivBy4 \in Nat /\ DivBy2 \in Nat /\ Div3By4 \in Nat /\ DivBy4 >= 1
        /\ tck_cntr \in Nat /\ tck_cntr > DivBy4 /\ tck_cntr > DivBy2 /\ tck_cntr > Div3By4
    BY Quarters DEF Inv
  <1>2. /\ FsmEdge /\ RegEdge /\ NackEdge /\ UNCHANGED <<xtn, pc, DivBy4, DivBy2, Div3By4>> /\ pc = "poll"
        /\ i2c_init = 0
    BY BusyEdge DEF i2c_busy, InBit
  <1>3. scl = 0 /\ scl' = 0
    BY <1>1, Pulse DEF Inv, Clocked, B
  <1>4. UNCHANGED <<mon, slv, slvSent>>
    BY <1>1, Wire
  <1>5. i2c_nack_det' = i2c_nack_det /\ i2c_nack_det \in Bit
    BY <1>2, <1>3 DEF NackEdge, B, Bit, Inv, Shape, TypeOK
  <1>6. Len(mon.bits) = Pos + 1 /\ mon.bits \in Seq(Bit)
    BY <1>1 DEF Inv, Clocked, B, Shape
  <1>7. xtn.n = i2c_num_bytes /\ xtn.rd = i2c_rd_n_wr /\ xtn.stop = i2c_stop_en
    BY <1>2 DEF Inv, Loaded, Asked
  <1>8. UNCHANGED <<data_cache, i2c_num_bytes, i2c_rd_n_wr, i2c_stop_en>> /\ i2c_init' = 0
    BY <1>2, <1>3 DEF RegEdge
  <1>9. tck_cntr' = 0 /\ fsm_pstate' = next_state
    BY <1>2 DEF FsmEdge, tck_valid
  <1>10. i2c_num_bytes \in Nat /\ i2c_rd_n_wr \in Bit /\ i2c_stop_en \in Bit
    BY DEF Inv, Shape, TypeOK
  <1> QED BY <1>1, <1>2, <1>3, <1>4, <1>5, <1>6, <1>7, <1>8, <1>9, <1>10

\* The parts of the invariant about a bit.
Wires == Clocked /\ Settled /\ Sampled /\ Acked /\ Sent /\ Received

\* The first count of a bit, given how many bits and bytes there are now.
LEMMA NewBit ==
  ASSUME Inv, Next, InBit, tck_cntr = i2c_clk_div_cnt, InBit',
         Pos' = Pos + 1,
         fsm_pstate' = "ADDR" => data_cntr' <= 7,
         fsm_pstate' = "DATA" => data_cntr' \in 8 .. 8 * i2c_num_bytes + 7,
         fsm_pstate' = "ACK" => data_cntr' \in 8 .. 8 * i2c_num_bytes + 8 /\ data_cntr' % 8 = 0,
         i2c_nack_det = 0, \A j \in 1 .. Bytes' : mon.bits[9 * j] = 0
  PROVE  Clocked' /\ Settled' /\ Sampled' /\ Acked' /\ Sent'
  <1>1. Clocked'
    <2>1. scl' = B(DivBy4' < tck_cntr' /\ tck_cntr' <= Div3By4')
      BY Ending DEF B
    <2>2. mon'.active = 1 /\ Len(mon'.bits) = Pos' + B(tck_cntr' > DivBy4')
      <3>1. B(tck_cntr' > DivBy4') = 0
        BY Ending DEF B
      <3>2. mon'.active = 1 /\ Len(mon'.bits) = Pos + 1 /\ Pos \in Nat
        BY Ending, Place DEF Inv, Clocked
      <3> QED BY <3>1, <3>2
    <2> QED BY <2>1, <2>2, Ending DEF Clocked
  <1>2. Settled' /\ Sampled'
    BY Ending DEF Settled, Sampled
  <1>3. Acked'
    BY Ending DEF Acked
  <1>4. Sent'
    <2>1. WriteFrame(xtn)' = WriteFrame(xtn)
      BY Ending DEF WriteFrame
    <2> QED BY <2>1, Ending DEF Sent, Inv
  <1> QED BY <1>1, <1>2, <1>3, <1>4

LEMMA NextBit ==
  ASSUME Inv, Next, fsm_pstate \in {"ADDR", "DATA"}, tck_cntr = i2c_clk_div_cnt, data_cntr % 8 # 7
  PROVE  fsm_pstate' = fsm_pstate /\ Wires'
  <1> DEFINE b == data_cntr_bytes
             r == data_cntr % 8
  <1>0. InBit
    BY DEF InBit
  <1>1. fsm_pstate' = fsm_pstate
    BY <1>0, Ending DEF next_state, tck_valid
  <1>2. data_cntr' = data_cntr + 1
    BY <1>0, BusyEdge DEF DataCntrEdge, data_cntr_en, tck_valid, i2c_busy, InBit
  <1>3. b \in Nat /\ r \in 0 .. 6 /\ data_cntr = 8 * b + r /\ Bytes = b /\ Pos = data_cntr + b
    BY <1>0, Place DEF InBit
  <1> HIDE DEF b, r
  <1>4. data_cntr_bytes' = b /\ data_cntr' % 8 = r + 1
    <2>1. data_cntr + 1 = 8 * b + (r + 1) /\ r + 1 \in 0 .. 7
      BY <1>3
    <2> QED BY <1>2, <1>3, <2>1, Inside8 DEF data_cntr_bytes
  <1>5. Bytes' = b /\ Pos' = Pos + 1 /\ InBit'
    BY <1>0, <1>1, <1>2, <1>3, <1>4 DEF Bytes, Pos, B, InBit
  <1>6. /\ fsm_pstate' = "ADDR" => data_cntr' <= 7
        /\ fsm_pstate' = "DATA" => data_cntr' \in 8 .. 8 * i2c_num_bytes + 7
    <2>1. fsm_pstate = "ADDR" => b = 0
      BY <1>0, Place DEF b
    <2>2. fsm_pstate = "DATA" => b \in 1 .. i2c_num_bytes /\ i2c_num_bytes \in Nat
      BY <1>0, Place, Ending DEF b
    <2> QED BY <1>1, <1>2, <1>3, <2>1, <2>2
  <1>7. i2c_nack_det = 0 /\ \A j \in 1 .. Bytes' : mon.bits[9 * j] = 0
    BY <1>0, <1>3, <1>5 DEF Inv, Acked
  <1>8. Clocked' /\ Settled' /\ Sampled' /\ Acked' /\ Sent'
    BY <1>0, <1>1, <1>5, <1>6, <1>7, NewBit
  <1>9. Received'
    <2> SUFFICES ASSUME i2c_rd_n_wr = 1 PROVE Received'
      BY <1>0, Ending DEF Received
    <2>1. /\ Len(slvSent) = b
          /\ \A c \in 1 .. b - 1 : data_cache[c - 1] = slvSent[c]
          /\ fsm_pstate = "DATA" => /\ slv = slvSent[b][r + 2]
                                    /\ \A j \in 1 .. r + 1 : data_cache[b - 1][8 - (r + 1) + j] = slvSent[b][j]
      <3>1. tck_cntr > Div3By4 /\ r < 7 /\ B(tck_cntr > DivBy2) = 1
        BY <1>0, <1>3, Ending DEF B
      <3> QED BY <1>0, <3>1 DEF Inv, Received, Begun, b, r
    <2>2. B(tck_cntr' > DivBy2') = 0 /\ tck_cntr' <= Div3By4'
      BY <1>0, Ending DEF B
    <2>3. r + 1 + B(tck_cntr' > DivBy2') = r + 1 /\ r + 1 + 1 = r + 2
      BY <1>3, <2>2
    <2>4. UNCHANGED <<slv, slvSent, data_cache>> /\ ~(tck_cntr' > Div3By4') /\ ~Begun'
      BY <1>0, <1>1, <2>2, Ending DEF Begun
    <2> QED BY <1>1, <1>4, <2>1, <2>3, <2>4 DEF Received
  <1> QED BY <1>1, <1>8, <1>9 DEF Wires

LEMMA ByteSent ==
  ASSUME Inv, Next, fsm_pstate \in {"ADDR", "DATA"}, tck_cntr = i2c_clk_div_cnt, data_cntr % 8 = 7
  PROVE  fsm_pstate' = "ACK" /\ Wires'
  <1> DEFINE b == data_cntr_bytes
  <1>0. InBit
    BY DEF InBit
  <1>1. fsm_pstate' = "ACK"
    BY <1>0, Ending DEF next_state, tck_valid
  <1>2. data_cntr' = data_cntr + 1
    BY <1>0, BusyEdge DEF DataCntrEdge, data_cntr_en, tck_valid, i2c_busy, InBit
  <1>3. b \in Nat /\ data_cntr = 8 * b + 7 /\ Bytes = b /\ Pos = data_cntr + b
    BY <1>0, Place DEF InBit
  <1> HIDE DEF b
  <1>4. data_cntr_bytes' = b + 1 /\ data_cntr' % 8 = 0
    <2>1. data_cntr + 1 = 8 * (b + 1) + 0 /\ b + 1 \in Int
      BY <1>3
    <2> QED BY <1>2, <2>1, Inside8 DEF data_cntr_bytes
  <1>5. Bytes' = b /\ Pos' = Pos + 1 /\ InBit'
    BY <1>1, <1>2, <1>3, <1>4 DEF Bytes, Pos, B, InBit
  <1>6. data_cntr' \in 8 .. 8 * i2c_num_bytes + 8 /\ data_cntr' % 8 = 0
    <2>1. b <= i2c_num_bytes /\ i2c_num_bytes \in Nat
      BY <1>0, Place, Ending DEF b
    <2> QED BY <1>2, <1>3, <1>4, <2>1
  <1>7. i2c_nack_det = 0 /\ \A j \in 1 .. Bytes' : mon.bits[9 * j] = 0
    BY <1>0, <1>3, <1>5 DEF Inv, Acked
  <1>8. Clocked' /\ Settled' /\ Sampled' /\ Acked' /\ Sent'
    BY <1>0, <1>1, <1>5, <1>6, <1>7, NewBit
  <1>9. Received'
    <2> SUFFICES ASSUME i2c_rd_n_wr = 1 PROVE Received'
      BY <1>0, Ending DEF Received
    <2>1. /\ Len(slvSent) = b
          /\ \A c \in 1 .. b - 1 : data_cache[c - 1] = slvSent[c]
          /\ fsm_pstate = "DATA" => \A j \in 1 .. 8 : data_cache[b - 1][j] = slvSent[b][j]
      <3>1. B(tck_cntr > DivBy2) = 1 /\ 7 + 1 = 8 /\ (data_cntr % 8) + 1 = 8
        BY <1>0, Ending DEF B
      <3>2. /\ Len(slvSent) = b
            /\ \A c \in 1 .. b - 1 : data_cache[c - 1] = slvSent[c]
            /\ fsm_pstate = "DATA" => \A j \in 1 .. 8 : data_cache[b - 1][8 - 8 + j] = slvSent[b][j]
        <4>1. fsm_pstate # "ACK"
          BY <1>0
        <4>2. Received /\ i2c_rd_n_wr = 1 /\ InBit
          BY <1>0 DEF Inv
        <4>3. Len(slvSent) = b /\ \A c \in 1 .. b - 1 : data_cache[c - 1] = slvSent[c]
          BY <4>1, <4>2 DEF Received, b
        <4>4. ASSUME fsm_pstate = "DATA"
              PROVE  \A j \in 1 .. (data_cntr % 8) + B(tck_cntr > DivBy2) :
                       data_cache[b - 1][8 - ((data_cntr % 8) + B(tck_cntr > DivBy2)) + j] = slvSent[b][j]
          BY <4>2, <4>4, Zenon DEF Received, b
        <4>5. (data_cntr % 8) + B(tck_cntr > DivBy2) = 8
          BY <3>1
        <4> QED BY <4>3, <4>4, <4>5
      <3>3. \A j \in 1 .. 8 : 8 - 8 + j = j
        OBVIOUS
      <3> QED BY <3>2, <3>3
    <2>2. ASSUME fsm_pstate = "DATA" PROVE data_cache[b - 1] = slvSent[b]
      <3>1. data_cache \in [0 .. MAX_BYTES - 1 -> Byte] /\ slvSent \in Seq(Byte) /\ i2c_num_bytes \in 0 .. MAX_BYTES
            /\ MAX_BYTES \in Nat
        BY I2cAssumption DEF Inv, Shape, TypeOK
      <3>2. b \in 1 .. i2c_num_bytes
        BY <1>0, <2>2, Place DEF b
      <3>3. b - 1 \in 0 .. MAX_BYTES - 1 /\ b \in 1 .. Len(slvSent)
        BY <2>1, <3>1, <3>2
      <3>4. data_cache[b - 1] \in Byte /\ slvSent[b] \in Byte
        BY <3>1, <3>3
      <3> QED BY <2>1, <2>2, <3>4 DEF Byte
    <2>3. fsm_pstate = "ADDR" => b = 0
      BY <1>0, Place DEF b
    <2>4. \A c \in 1 .. b : data_cache[c - 1] = slvSent[c]
      BY <1>3, <2>1, <2>2, <2>3
    <2>5. UNCHANGED <<slvSent, data_cache>> /\ ~Begun'
      BY <1>0, Ending DEF Begun
    <2>6. data_cntr_bytes' - 1 = b
      BY <1>3, <1>4
    <2> QED BY <1>1, <2>1, <2>4, <2>5, <2>6 DEF Received
  <1> QED BY <1>1, <1>8, <1>9 DEF Wires

LEMMA NextByte ==
  ASSUME Inv, Next, fsm_pstate = "ACK", tck_cntr = i2c_clk_div_cnt, ~AllBytes, i2c_nack_det = 0
  PROVE  fsm_pstate' = "DATA" /\ Wires'
  <1> DEFINE b == data_cntr_bytes
  <1>0. InBit
    BY DEF InBit
  <1>1. fsm_pstate' = "DATA"
    BY <1>0, Ending DEF next_state, tck_valid
  <1>2. data_cntr' = data_cntr
    BY <1>0, BusyEdge DEF DataCntrEdge, data_cntr_en, i2c_busy, InBit
  <1>3. b \in Nat /\ b >= 1 /\ b <= i2c_num_bytes /\ data_cntr = 8 * b + 0 /\ Bytes = b - 1 /\ Pos = 9 * b - 1
    BY <1>0, Place, Ending DEF AllBytes
  <1>4. data_cntr_bytes' = b /\ data_cntr' % 8 = 0
    BY <1>0, <1>2, Place DEF data_cntr_bytes
  <1> HIDE DEF b
  <1>5. Bytes' = b /\ Pos' = Pos + 1 /\ InBit'
    BY <1>1, <1>2, <1>3, <1>4 DEF Bytes, Pos, B, InBit
  <1>6. data_cntr' \in 8 .. 8 * i2c_num_bytes + 7
    BY <1>0, <1>2, <1>3, Ending
  <1>7. \A j \in 1 .. Bytes' : mon.bits[9 * j] = 0
    <2>1. (\A j \in 1 .. b - 1 : mon.bits[9 * j] = 0) /\ mon.bits[9 * b] = 0
      <3>1. Len(mon.bits) = 9 * b
        BY <1>0, <1>3, Ending
      <3> QED BY <1>0, <1>3, <3>1, Ending DEF Inv, Acked
    <2> QED BY <1>3, <1>5, <2>1
  <1>8. Clocked' /\ Settled' /\ Sampled' /\ Acked' /\ Sent'
    BY <1>0, <1>1, <1>5, <1>6, <1>7, NewBit
  <1>9. Received'
    <2> SUFFICES ASSUME i2c_rd_n_wr = 1 PROVE Received'
      BY <1>0, Ending DEF Received
    <2>1. Begun
      BY <1>0, <1>3, Ending DEF Begun, b
    <2>2. /\ Len(slvSent) = b /\ slv = slvSent[b][0 + 1]
          /\ \A c \in 1 .. b - 1 : data_cache[c - 1] = slvSent[c]
      BY <1>0, <2>1 DEF Inv, Received, b
    <2>3. B(tck_cntr' > DivBy2') = 0 /\ tck_cntr' <= Div3By4' /\ ~(tck_cntr' > Div3By4')
      BY <1>0, Ending DEF B
    <2>4. UNCHANGED <<slv, slvSent, data_cache>> /\ ~Begun' /\ 1 .. (0 + B(tck_cntr' > DivBy2')) = {}
      BY <1>0, <1>1, <2>3, Ending DEF Begun
    <2> QED BY <1>1, <1>4, <2>2, <2>3, <2>4 DEF Received
  <1> QED BY <1>1, <1>8, <1>9 DEF Wires

LEMMA OutcomeIs ==
  ASSUME NEW f, NEW s, NEW x, NEW nack, NEW k \in 1 .. x.n + 1,
         Len(f) = 9 * k + s, s = 1 => f[9 * k + 1] = 0, f[9 * k] = nack, nack = 0 => k = x.n + 1,
         \A j \in 1 .. k - 1 : f[9 * j] = 0,
         x.rd = 0 => \A i \in 1 .. 9 * k : i % 9 # 0 => f[i] = WriteFrame(x)[i]
  PROVE  Outcome(f, s, x, nack)
  <1>1. /\ Len(f) = 9 * k + s /\ (s = 1 => f[9 * k + 1] = 0)
        /\ f[9 * k] = nack
        /\ nack = 0 => k = x.n + 1
        /\ \A j \in 1 .. k - 1 : f[9 * j] = 0
        /\ x.rd = 0 => \A i \in 1 .. 9 * k : i % 9 # 0 => f[i] = WriteFrame(x)[i]
    OBVIOUS
  <1> QED BY <1>1, Zenon DEF Outcome

LEMMA FrameEnds ==
  ASSUME Inv, Next, fsm_pstate = "ACK", tck_cntr = i2c_clk_div_cnt, AllBytes \/ i2c_nack_det = 1
  PROVE  /\ fsm_pstate' = IF i2c_stop_en = 1 THEN "STOP" ELSE "IDLE"
         /\ sda_o' = 0 /\ Outcome(mon.bits, 0, xtn, i2c_nack_det) /\ Collected
  <1> DEFINE b == data_cntr_bytes
  <1>0. InBit
    BY DEF InBit
  <1>1. fsm_pstate' = IF i2c_stop_en = 1 THEN "STOP" ELSE "IDLE"
    BY <1>0, Ending DEF next_state, tck_valid
  <1>2. sda_o' = 0
    BY <1>0, BusyEdge DEF BusEdge, i2c_busy
  <1>3. b \in 1 .. xtn.n + 1 /\ Bytes = b - 1 /\ Len(mon.bits) = 9 * b /\ xtn.n \in Nat
    <2>1. b \in 1 .. i2c_num_bytes + 1 /\ Bytes = b - 1 /\ Pos = 9 * b - 1
      BY <1>0, Place
    <2>2. Len(mon.bits) = Pos + 1 /\ xtn.n = i2c_num_bytes /\ i2c_num_bytes \in Nat
      BY <1>0, Ending
    <2> QED BY <2>1, <2>2
  <1>4. i2c_nack_det = 0 => b = xtn.n + 1
    BY <1>0, <1>3, Ending DEF AllBytes
  <1>5. Outcome(mon.bits, 0, xtn, i2c_nack_det)
    <2>1. Len(mon.bits) = 9 * b + 0 /\ 9 * b \in Nat
      BY <1>3
    <2>2. mon.bits[9 * b] = i2c_nack_det /\ \A j \in 1 .. b - 1 : mon.bits[9 * j] = 0
      BY <1>0, <1>3, Ending DEF Inv, Acked
    <2>3. xtn.rd = 0 => \A i \in 1 .. 9 * b : i % 9 # 0 => mon.bits[i] = WriteFrame(xtn)[i]
      BY <1>0, <1>3, Ending DEF Inv, Sent
    <2>4. (0 = 1 => mon.bits[9 * b + 1] = 0) /\ b \in 1 .. xtn.n + 1
      BY <1>3
    <2> HIDE DEF b
    <2> QED BY <1>4, <2>1, <2>2, <2>3, <2>4, OutcomeIs, Zenon
  <1>6. Collected
    <2> SUFFICES ASSUME xtn.rd = 1, i2c_nack_det = 0 PROVE Collected
      BY DEF Collected
    <2>1. ~Begun /\ b - 1 = xtn.n
      BY <1>0, <1>3, <1>4, Ending DEF Begun
    <2> QED BY <1>0, <2>1, Ending DEF Inv, Received, Collected
  <1> QED BY <1>1, <1>2, <1>5, <1>6


LEMMA BitStep ==
  ASSUME Inv, Next, InBit
  PROVE  Inv'
  <1>0. Shape' /\ Loaded' /\ Busy' /\ Told'
    BY BitShape, BusyFirmware DEF i2c_busy, InBit
  <1>1. ASSUME InBit', Wires' PROVE Inv'
    BY <1>0, <1>1 DEF Inv, Wires, InBit, Rest, Starting, Stopping, Finished
  <1>2. CASE tck_cntr # i2c_clk_div_cnt
    <2>1. InBit' /\ Wires'
      BY <1>2, Going, ClockedOn, Settles, SampledOn, AckedOn, SentOn, ReceivedOn DEF Wires
    <2> QED BY <1>1, <2>1
  <1>3. CASE tck_cntr = i2c_clk_div_cnt /\ fsm_pstate \in {"ADDR", "DATA"}
    <2>1. InBit' /\ Wires'
      BY <1>3, NextBit, ByteSent DEF InBit
    <2> QED BY <1>1, <2>1
  <1>4. CASE tck_cntr = i2c_clk_div_cnt /\ fsm_pstate = "ACK" /\ ~AllBytes /\ i2c_nack_det = 0
    <2>1. InBit' /\ Wires'
      BY <1>4, NextByte DEF InBit
    <2> QED BY <1>1, <2>1
  <1>5. CASE tck_cntr = i2c_clk_div_cnt /\ fsm_pstate = "ACK" /\ (AllBytes \/ i2c_nack_det = 1)
    <2>1. /\ fsm_pstate' = IF i2c_stop_en = 1 THEN "STOP" ELSE "IDLE"
          /\ sda_o' = 0 /\ Outcome(mon.bits, 0, xtn, i2c_nack_det) /\ Collected
      BY <1>5, FrameEnds
    <2>2. /\ tck_cntr' = 0 /\ scl' = 0 /\ UNCHANGED <<mon, slvSent, data_cache, i2c_nack_det, xtn, pc, i2c_stop_en>>
          /\ i2c_init' = 0 /\ pc = "poll" /\ xtn.stop = i2c_stop_en /\ i2c_stop_en \in Bit
      BY <1>5, Ending
    <2>3. Collected' /\ Outcome(mon'.bits, 0, xtn', i2c_nack_det') /\ mon'.active = 1
      BY <2>1, <2>2 DEF Collected, Inv, Clocked
    <2>4. Clocked' /\ Settled' /\ Sampled' /\ Acked' /\ Sent' /\ Received' /\ Starting'
      BY <2>1 DEF Clocked, Settled, Sampled, Acked, Sent, Received, Starting, InBit
    <2>5. CASE i2c_stop_en = 1
      <3>1. Stopping'
        BY <2>1, <2>2, <2>3, <2>5 DEF Stopping
      <3>2. Rest' /\ Finished'
        BY <2>1, <2>5 DEF Rest, Finished
      <3> QED BY <1>0, <2>4, <3>1, <3>2 DEF Inv
    <2>6. CASE i2c_stop_en # 1
      <3>1. fsm_pstate' = "IDLE" /\ xtn'.stop = 0
        BY <2>1, <2>2, <2>6 DEF Bit
      <3>2. Frame' = mon'.bits
        BY <3>1 DEF Frame
      <3>3. Finished' /\ Rest'
        BY <2>1, <2>2, <2>3, <3>1, <3>2 DEF Finished, Rest
      <3>4. Stopping'
        BY <3>1 DEF Stopping
      <3> QED BY <1>0, <2>4, <3>3, <3>4 DEF Inv
    <2> QED BY <2>5, <2>6
  <1>6. i2c_nack_det \in Bit
    BY DEF Inv, Shape, TypeOK
  <1> QED BY <1>2, <1>3, <1>4, <1>5, <1>6 DEF InBit, Bit

-----------------------------------------------------------------------------
(***************************************************************************)
(* START and STOP.                                                         *)
(***************************************************************************)

\* Outside a bit the registers of a busy master stand still.
LEMMA Framing ==
  ASSUME Inv, Next, fsm_pstate \in {"START", "STOP"}
  PROVE  /\ RegEdge /\ BusEdge /\ SlaveEdge /\ UNCHANGED <<pc, xtn, data_cache, data_cntr, i2c_nack_det, i2c_stop_en>>
         /\ rel_i2c_bus' = 0 /\ i2c_init' = 0 /\ pc = "poll"
         /\ tck_cntr' = IF tck_cntr = i2c_clk_div_cnt THEN 0 ELSE tck_cntr + 1
         /\ fsm_pstate' = next_state
         /\ mon' = IF scl = 0 /\ scl' = 1 THEN OnBit(mon, SDA')
                   ELSE IF scl = 1 /\ scl' = 1 /\ SDA # SDA' THEN OnSda(mon, SDA') ELSE mon
         /\ scl \in Bit /\ sda_o \in Bit /\ slv \in Bit /\ mon \in [active : Bit, bits : Seq(Bit), last : Seq(Bit)]
         /\ tck_cntr \in Nat /\ i2c_clk_div_cnt \in Nat /\ i2c_clk_div_cnt >= 6
         /\ DivBy4' \in Nat /\ DivBy4' >= 1 /\ Div3By4' \in Nat
  <1>1. i2c_busy
    BY DEF i2c_busy
  <1>2. /\ RegEdge /\ FsmEdge /\ DataCntrEdge /\ NackEdge /\ BusEdge /\ SlaveEdge /\ UNCHANGED <<pc, xtn>>
        /\ pc = "poll" /\ i2c_init = 0
        /\ mon' = IF scl = 0 /\ scl' = 1 THEN OnBit(mon, SDA')
                  ELSE IF scl = 1 /\ scl' = 1 /\ SDA # SDA' THEN OnSda(mon, SDA') ELSE mon
        /\ UNCHANGED <<DivBy4, Div3By4>>
    BY <1>1, BusyEdge
  <1>3. Shape /\ TypeOK
    BY DEF Inv, Shape
  <1>4. UNCHANGED <<data_cache, i2c_stop_en>> /\ i2c_init' = 0
    BY <1>2 DEF RegEdge
  <1>5. data_cntr' = data_cntr
    BY <1>1, <1>2 DEF DataCntrEdge, data_cntr_en
  <1>6. i2c_nack_det' = i2c_nack_det
    BY <1>2, <1>3 DEF NackEdge, TypeOK, B, Bit
  <1>7. rel_i2c_bus' = 0 /\ fsm_pstate' = next_state
        /\ tck_cntr' = IF tck_cntr = i2c_clk_div_cnt THEN 0 ELSE tck_cntr + 1
    BY <1>1, <1>2 DEF FsmEdge, rel_i2c_bus_next, B, tck_valid
  <1>8. tck_cntr \in Nat /\ i2c_clk_div_cnt \in Nat /\ i2c_clk_div_cnt >= 6
    <2>1. i2c_clk_div_cnt \in 6 .. 255
      BY <1>3, I2cAssumption DEF TypeOK
    <2>2. tck_cntr \in 0 .. i2c_clk_div_cnt
      BY <1>3 DEF TypeOK
    <2> QED BY <2>1, <2>2
  <1> QED BY <1>2, <1>3, <1>4, <1>5, <1>6, <1>7, <1>8, Quarters DEF Shape, TypeOK

LEMMA MonTypes ==
  ASSUME NEW m \in [active : Bit, bits : Seq(Bit), last : Seq(Bit)], NEW v \in Bit
  PROVE  /\ OnBit(m, v) \in [active : Bit, bits : Seq(Bit), last : Seq(Bit)]
         /\ OnSda(m, v) \in [active : Bit, bits : Seq(Bit), last : Seq(Bit)]
  <1>1. 1 - v \in Bit
    BY DEF Bit
  <1>2. m.active \in Bit /\ m.bits \in Seq(Bit) /\ m.last \in Seq(Bit) /\ << >> \in Seq(Bit)
    OBVIOUS
  <1>3. Append(m.bits, v) \in Seq(Bit)
    BY <1>2
  <1>4. OnBit(m, v) \in [active : Bit, bits : Seq(Bit), last : Seq(Bit)]
    BY <1>3 DEF OnBit
  <1>5. OnSda(m, v) \in [active : Bit, bits : Seq(Bit), last : Seq(Bit)]
    BY <1>1, <1>2 DEF OnSda
  <1> QED BY <1>4, <1>5

LEMMA FramingShape ==
  ASSUME Inv, Next, fsm_pstate \in {"START", "STOP"},
         scl' \in Bit, sda_o' \in Bit, slv' \in Bit, slvSent' = slvSent
  PROVE  Shape'
  <1>1. SDA' \in Bit
    BY Framing DEF SDA
  <1>2. mon' \in [active : Bit, bits : Seq(Bit), last : Seq(Bit)]
    <2>1. mon \in [active : Bit, bits : Seq(Bit), last : Seq(Bit)]
      BY Framing
    <2> QED BY <1>1, <2>1, MonTypes, Framing
  <1>3. data_cntr' \in 0 .. 8 * (MAX_BYTES + 1) /\ slvSent' \in Seq(Byte)
    BY Framing DEF Inv, Shape, TypeOK
  <1> QED BY <1>2, <1>3, BusyTypes DEF Shape, TypeOK, i2c_busy

LEMMA StartStep ==
  ASSUME Inv, Next, fsm_pstate = "START"
  PROVE  Inv'
  <1>0. /\ data_cntr = 0 /\ i2c_nack_det = 0 /\ rel_i2c_bus = 0 /\ slvSent = << >>
        /\ scl = 0 => sda_o = 0
        /\ sda_o = 0 => mon.active = 1 /\ mon.bits = << >>
    BY DEF Inv, Starting
  <1>1. /\ scl' = IF tck_cntr = i2c_clk_div_cnt /\ sda_o = 0 THEN 0 ELSE scl
        /\ sda_o' = IF tck_cntr = i2c_clk_div_cnt THEN 0 ELSE sda_o
        /\ fsm_pstate' = IF tck_cntr = i2c_clk_div_cnt /\ scl = 0 THEN "ADDR" ELSE "START"
    BY Framing DEF BusEdge, next_state, tck_valid
  <1>2. scl' \in Bit /\ sda_o' \in Bit
    BY <1>1, Framing DEF Bit
  <1>3. slv' \in Bit /\ slvSent' = slvSent
    <2>1. CASE ~(scl = 1 /\ scl' = 0)
      <3>1. UNCHANGED <<slv, slvSent>>
        BY <2>1, Framing DEF SlaveEdge
      <3> QED BY <3>1, Framing
    <2>2. CASE scl = 1 /\ scl' = 0
      <3>1. mon.active = 1 /\ mon.bits = << >>
        BY <1>0, <1>1, <2>2, Framing DEF Bit
      <3>2. Len(mon.bits) = 0 /\ ~(0 >= 8) /\ ~(0 > 0) /\ 0 % 9 = 0
        BY <3>1
      <3> QED BY <3>1, <3>2, Framing DEF SlaveEdge, Bit
    <2> QED BY <2>1, <2>2
  <1>4. Shape' /\ Loaded' /\ Busy' /\ Told'
    BY <1>2, <1>3, FramingShape, BusyFirmware DEF i2c_busy
  <1>5. SDA = sda_o /\ SDA' = sda_o'
    BY <1>0, Framing DEF SDA
  <1>6. sda_o' = 0 => mon'.active = 1 /\ mon'.bits = << >>
    <2>1. CASE sda_o = 0
      <3>1. ~(scl = 0 /\ scl' = 1)
        BY <1>1, Framing
      <3>2. sda_o' = 0
        BY <1>1, <2>1
      <3> QED BY <1>0, <1>5, <2>1, <3>1, <3>2, Framing
    <2>2. CASE sda_o = 1 /\ sda_o' = 0
      <3>1. scl = 1 /\ scl' = 1
        BY <1>0, <1>1, <2>2, Framing DEF Bit
      <3>2. mon' = OnSda(mon, 0)
        BY <1>5, <2>2, <3>1, Framing
      <3> QED BY <3>2 DEF OnSda
    <2> QED BY <2>1, <2>2, Framing DEF Bit
  <1>7. scl' = 0 => sda_o' = 0
    BY <1>0, <1>1
  <1>8. CASE fsm_pstate' = "START"
    <2>1. Starting'
      BY <1>0, <1>3, <1>6, <1>7, Framing DEF Starting
    <2> QED
      BY <1>4, <1>8, <2>1
         DEF Inv, InBit, Rest, Clocked, Settled, Sampled, Acked, Sent, Received, Stopping, Finished
  <1>9. CASE fsm_pstate' = "ADDR"
    <2>1. tck_cntr' = 0 /\ scl' = 0 /\ data_cntr' = 0 /\ i2c_nack_det' = 0 /\ slvSent' = << >> /\ sda_o' = 0
      BY <1>0, <1>1, <1>3, <1>7, <1>9, Framing
    <2>2. data_cntr_bytes' = 0 /\ Bytes' = 0 /\ Pos' = 0
      BY <1>9, <2>1 DEF data_cntr_bytes, Bytes, Pos, B
    <2>3. mon'.active = 1 /\ mon'.bits = << >> /\ Len(mon'.bits) = 0
      BY <1>6, <2>1
    <2>4. B(tck_cntr' > DivBy4') = 0 /\ B(DivBy4' < tck_cntr' /\ tck_cntr' <= Div3By4') = 0
      BY <2>1, Framing DEF B
    <2>5. Clocked'
      BY <1>9, <2>1, <2>2, <2>3, <2>4 DEF Clocked
    <2>6. Settled' /\ Sampled'
      BY <2>1, Framing DEF Settled, Sampled
    <2>7. Acked' /\ Sent'
      BY <1>9, <2>1, <2>2, <2>3 DEF Acked, Sent
    <2>8. Received'
      BY <1>9, <2>1, <2>2 DEF Received, Begun
    <2>9. Rest' /\ Starting' /\ Stopping' /\ Finished'
      BY <1>9 DEF Rest, Starting, Stopping, Finished
    <2> QED BY <1>4, <2>5, <2>6, <2>7, <2>8, <2>9 DEF Inv
  <1> QED BY <1>1, <1>8, <1>9

\* The clock of a STOP adds a bit to the frame.
LEMMA StopBitAdded ==
  ASSUME NEW f \in Seq(Bit), NEW x, x.n \in Nat, NEW nack, Outcome(f, 0, x, nack)
  PROVE  Outcome(Append(f, 0), 1, x, nack)
  <1>1. PICK k \in 1 .. x.n + 1 :
          /\ Len(f) = 9 * k + 0 /\ (0 = 1 => f[9 * k + 1] = 0)
          /\ f[9 * k] = nack
          /\ nack = 0 => k = x.n + 1
          /\ \A j \in 1 .. k - 1 : f[9 * j] = 0
          /\ x.rd = 0 => \A i \in 1 .. 9 * k : i % 9 # 0 => f[i] = WriteFrame(x)[i]
    BY DEF Outcome
  <1> DEFINE h == Append(f, 0)
  <1>2. Len(h) = 9 * k + 1 /\ h[9 * k + 1] = 0 /\ \A i \in 1 .. 9 * k : h[i] = f[i]
    BY <1>1 DEF Bit
  <1> HIDE DEF h
  <1>3. h[9 * k] = nack /\ \A j \in 1 .. k - 1 : h[9 * j] = 0
    <2>1. 9 * k \in 1 .. 9 * k /\ \A j \in 1 .. k - 1 : 9 * j \in 1 .. 9 * k
      OBVIOUS
    <2> QED BY <1>1, <1>2, <2>1
  <1>4. x.rd = 0 => \A i \in 1 .. 9 * k : i % 9 # 0 => h[i] = WriteFrame(x)[i]
    BY <1>1, <1>2
  <1>5. Outcome(h, 1, x, nack)
    BY <1>1, <1>2, <1>3, <1>4, OutcomeIs, Zenon
  <1> QED BY <1>5 DEF h

LEMMA StopStep ==
  ASSUME Inv, Next, fsm_pstate = "STOP"
  PROVE  Inv'
  <1>0. /\ tck_cntr > 0 \/ scl = 1 => rel_i2c_bus = 0
        /\ i2c_stop_en = 1 /\ Collected
        /\ sda_o = 0 => mon.active = 1 /\ Outcome(mon.bits, scl, xtn, i2c_nack_det)
        /\ sda_o # 0 => scl = 1 /\ mon.active = 0 /\ Outcome(mon.last, 1, xtn, i2c_nack_det)
    BY DEF Inv, Stopping
  <1>1. /\ scl' = IF tck_cntr = i2c_clk_div_cnt THEN 1 ELSE scl
        /\ sda_o' = IF tck_cntr = i2c_clk_div_cnt /\ scl = 1 THEN 1 ELSE sda_o
        /\ fsm_pstate' = IF tck_cntr = i2c_clk_div_cnt /\ sda_o = 1 THEN "IDLE" ELSE "STOP"
    BY Framing DEF BusEdge, next_state, tck_valid, StopDone
  <1>2. scl' \in Bit /\ sda_o' \in Bit /\ ~(scl = 1 /\ scl' = 0)
    BY <1>1, Framing DEF Bit
  <1>3. UNCHANGED <<slv, slvSent>>
    BY <1>2, Framing DEF SlaveEdge
  <1>4. Shape' /\ Loaded' /\ Busy' /\ Told' /\ Asked'
    BY <1>2, <1>3, FramingShape, BusyFirmware, Framing DEF i2c_busy
  <1>5. Collected' /\ i2c_stop_en' = 1
    BY <1>0, <1>3, Framing DEF Collected
  <1>6. /\ xtn.stop = 1 /\ xtn.n \in Nat
    <2>1. xtn \in Xtns
      BY DEF Inv, Shape
    <2> QED BY <1>0, <2>1, Framing, I2cAssumption DEF Inv, Loaded, Asked
  <1>7. UNCHANGED <<xtn, i2c_nack_det>> /\ rel_i2c_bus' = 0 /\ SDA' = sda_o' /\ (scl = 1 => SDA = sda_o)
    BY <1>0, Framing DEF SDA
  <1>8. /\ sda_o' = 0 => mon'.active = 1 /\ Outcome(mon'.bits, scl', xtn', i2c_nack_det')
        /\ sda_o' # 0 => scl' = 1 /\ mon'.active = 0 /\ Outcome(mon'.last, 1, xtn', i2c_nack_det')
    <2>1. CASE scl' = scl /\ sda_o' = sda_o
      <3>1. mon' = mon
        BY <1>7, <2>1, Framing
      <3> QED BY <1>0, <1>7, <2>1, <3>1
    <2>2. CASE scl = 0 /\ scl' = 1
      <3>1. sda_o = 0 /\ sda_o' = 0
        BY <1>0, <1>1, <2>2, Framing DEF Bit
      <3>2. mon' = [mon EXCEPT !.bits = Append(mon.bits, 0)] /\ mon.bits \in Seq(Bit)
        BY <1>0, <1>7, <2>2, <3>1, Framing DEF OnBit
      <3>3. mon'.bits = Append(mon.bits, 0) /\ mon'.active = 1
        BY <1>0, <3>1, <3>2, Framing
      <3>4. Outcome(mon.bits, 0, xtn, i2c_nack_det)
        BY <1>0, <2>2, <3>1
      <3>5. Outcome(mon'.bits, 1, xtn, i2c_nack_det)
        BY <1>6, <3>2, <3>3, <3>4, StopBitAdded
      <3> QED BY <1>7, <2>2, <3>1, <3>3, <3>5
    <2>3. CASE scl = 1 /\ scl' = 1 /\ sda_o = 0 /\ sda_o' = 1
      <3>1. mon' = OnSda(mon, 1)
        BY <1>7, <2>3, Framing
      <3>2. mon'.active = 0 /\ mon'.last = mon.bits
        BY <1>0, <2>3, <3>1 DEF OnSda
      <3> QED BY <1>0, <1>7, <2>3, <3>2
    <2> QED BY <1>1, <1>2, <2>1, <2>2, <2>3, Framing DEF Bit
  <1>9. Clocked' /\ Settled' /\ Sampled' /\ Acked' /\ Sent' /\ Received' /\ Starting'
    BY <1>1 DEF Clocked, Settled, Sampled, Acked, Sent, Received, Starting, InBit
  <1>10. CASE fsm_pstate' = "STOP"
    <2>1. Stopping'
      BY <1>5, <1>7, <1>8 DEF Stopping
    <2>2. Rest' /\ Finished'
      BY <1>10 DEF Rest, Finished
    <2> QED BY <1>4, <1>9, <2>1, <2>2 DEF Inv
  <1>11. CASE fsm_pstate' = "IDLE"
    <2>1. tck_cntr' = 0 /\ scl' = 1 /\ sda_o' = 1 /\ mon'.active = 0 /\ Outcome(mon'.last, 1, xtn', i2c_nack_det')
      BY <1>1, <1>8, <1>11, Framing
    <2>2. Frame' = mon'.last /\ xtn'.stop = 1
      BY <1>6, <1>7 DEF Frame
    <2>3. Rest'
      BY <1>5, <1>7, <2>1, Framing DEF Rest
    <2>4. Finished'
      BY <1>5, <2>1, <2>2 DEF Finished
    <2>5. Stopping'
      BY <1>11 DEF Stopping
    <2> QED BY <1>4, <1>9, <2>3, <2>4, <2>5 DEF Inv
  <1> QED BY <1>1, <1>10, <1>11

-----------------------------------------------------------------------------
(***************************************************************************)
(* IDLE: the start bit has been written, or the firmware makes its other   *)
(* accesses, or none.                                                      *)
(***************************************************************************)

\* The edge after the one that wrote the start bit: both wires go high.
LEMMA Begins ==
  ASSUME Inv, Next, fsm_pstate = "IDLE", i2c_init = 1
  PROVE  Inv'
  <1>1. /\ TypeOK /\ tck_cntr = 0 /\ scl = 0 /\ sda_o = 0 /\ rel_i2c_bus = 0
        /\ pc = "poll" /\ gap = 0 /\ i2c_start_en = 1 /\ slvSent = << >>
    BY DEF Inv, Shape, Rest
  <1>2. LB_GAP \in Nat \ {0, 1}
    BY I2cAssumption
  <1>3. Quiet /\ HwEdge
    BY <1>1, <1>2
       DEF Next, Step, Idling, Firmware, CanAccess, Call, WriteAddr, WriteData, WriteConfig, PollBusy, PollNack, ReadData
  <1>4. /\ UNCHANGED <<pc, xtn, bffr, res>> /\ gap' \in 0 .. LB_GAP - 1 /\ RegEdge
    BY <1>1, <1>2, <1>3 DEF Quiet, NoAccess
  <1>5. /\ UNCHANGED <<i2c_addr, i2c_clk_div_cnt, i2c_num_bytes, i2c_rd_n_wr, i2c_start_en, i2c_stop_en, data_cache>>
        /\ i2c_init' = 0
    BY <1>4 DEF RegEdge
  <1>6. fsm_pstate' = "START" /\ rel_i2c_bus' = 0 /\ tck_cntr' = 0 /\ data_cntr' = 0
    BY <1>1, <1>3 DEF HwEdge, FsmEdge, DataCntrEdge, next_state, rel_i2c_bus_next, i2c_busy, B
  <1>7. i2c_nack_det' = 0
    BY <1>1, <1>3 DEF HwEdge, NackEdge, B
  <1>8. scl' = 1 /\ sda_o' = 1 /\ sync_f' = <<SDA, sync_f[1]>>
    BY <1>1, <1>3 DEF HwEdge, BusEdge, B
  <1>9. UNCHANGED <<slv, slvSent>>
    BY <1>1, <1>3 DEF HwEdge, SlaveReset, SlaveEdge
  <1>10. SDA = 0 /\ SDA' = 1
    BY <1>1, <1>6, <1>8 DEF SDA
  <1>11. mon' = OnSda(OnBit(mon, 0), 1) \/ mon' = OnBit(mon, 1)
    BY <1>1, <1>3, <1>8, <1>10 DEF HwEdge, MonEdge
  <1>12. mon' \in [active : Bit, bits : Seq(Bit), last : Seq(Bit)]
    <2>1. mon \in [active : Bit, bits : Seq(Bit), last : Seq(Bit)] /\ 0 \in Bit /\ 1 \in Bit
      BY DEF Inv, Shape, Bit
    <2>2. OnBit(mon, 0) \in [active : Bit, bits : Seq(Bit), last : Seq(Bit)]
      BY <2>1, MonTypes
    <2> QED BY <1>11, <2>1, <2>2, MonTypes
  <1>13. TypeOK'
    <2>1. i2c_clk_div_cnt' \in Nat /\ MAX_BYTES \in Nat
      BY <1>5, Quarters, I2cAssumption DEF Inv
    <2>2. tck_cntr' \in 0 .. i2c_clk_div_cnt' /\ data_cntr' \in 0 .. 8 * (MAX_BYTES + 1)
      BY <1>6, <2>1
    <2>3. {i2c_rd_n_wr', i2c_start_en', i2c_stop_en', i2c_init', i2c_nack_det', rel_i2c_bus', scl', sda_o', slv'} \subseteq Bit
      BY <1>1, <1>5, <1>6, <1>7, <1>8, <1>9 DEF TypeOK, Bit
    <2> QED BY <1>1, <1>4, <1>5, <1>6, <2>2, <2>3 DEF TypeOK
  <1>14. Shape'
    <2>1. SDA \in Bit /\ sync_f \in Bit \X Bit
      BY <1>10 DEF Inv, Shape, Bit
    <2>2. sync_f' \in Bit \X Bit
      BY <1>8, <2>1
    <2> QED BY <1>4, <1>9, <1>12, <1>13, <2>2 DEF Inv, Shape
  <1>15. Loaded' /\ Told' /\ Busy'
    BY <1>1, <1>4, <1>5, <1>6 DEF Inv, Loaded, Told, Busy, Asked
  <1>16. Starting'
    BY <1>1, <1>6, <1>7, <1>8, <1>9 DEF Starting
  <1> QED
    BY <1>6, <1>14, <1>15, <1>16
       DEF Inv, InBit, Rest, Clocked, Settled, Sampled, Acked, Sent, Received, Stopping, Finished

\* An edge on which the master stays idle.
LEMMA IdleEdge ==
  ASSUME Inv, Next, fsm_pstate = "IDLE", i2c_init = 0
  PROVE  /\ fsm_pstate' = "IDLE" /\ tck_cntr' = 0 /\ scl' = 0 /\ sda_o' = 0 /\ rel_i2c_bus' = 0 /\ data_cntr' = 0
         /\ i2c_nack_det' = i2c_nack_det /\ sync_f' \in Bit \X Bit /\ slv' \in Bit /\ slvSent' \in Seq(Byte)
         /\ mon' \in [active : Bit, bits : Seq(Bit), last : Seq(Bit)]
         /\ pc = "config" /\ pc' = "poll" => slvSent' = << >>
         /\ pc # "config" => /\ slvSent' = slvSent /\ mon'.last = mon.last
                             /\ i2c_stop_en = 0 => mon' = mon
  <1>1. /\ Shape /\ TypeOK /\ tck_cntr = 0 /\ scl = sda_o /\ HwEdge
        /\ scl = 1 => rel_i2c_bus = 0 /\ mon.active = 0 /\ i2c_stop_en = 1
    BY DEF Inv, Shape, Rest, Next, Step, Idling
  <1>2. fsm_pstate' = "IDLE" /\ rel_i2c_bus' = 0 /\ tck_cntr' = 0 /\ data_cntr' = 0
    BY <1>1 DEF HwEdge, FsmEdge, DataCntrEdge, next_state, rel_i2c_bus_next, i2c_busy, B
  <1>3. i2c_nack_det' = i2c_nack_det
    BY <1>1 DEF HwEdge, NackEdge, B, TypeOK, Bit
  <1>4. scl' = 0 /\ sda_o' = 0 /\ sync_f' = <<SDA, sync_f[1]>>
    BY <1>1 DEF HwEdge, BusEdge, B
  <1>5. scl \in Bit /\ sda_o \in Bit /\ slv \in Bit /\ SDA \in Bit
    BY <1>1 DEF TypeOK, SDA
  <1>6. sync_f' \in Bit \X Bit
    BY <1>1, <1>4, <1>5 DEF Shape
  <1>7. ~(mon.active = 1 /\ scl = 1 /\ scl' = 0)
    BY <1>1
  <1>8. IF SlaveReset THEN slv' = 1 /\ slvSent' = << >> ELSE UNCHANGED <<slv, slvSent>>
    BY <1>1, <1>7 DEF HwEdge, SlaveEdge
  <1>9. slv' \in Bit /\ slvSent' \in Seq(Byte)
    <2>1. 1 \in Bit /\ slvSent \in Seq(Byte) /\ << >> \in Seq(Byte)
      BY <1>1 DEF Shape, Bit
    <2> QED BY <1>5, <1>8, <2>1
  <1>10. SDA' = 0
    BY <1>2, <1>4 DEF SDA
  <1> DEFINE m0 == IF pc = "config" /\ pc' # pc THEN [mon EXCEPT !.last = << >>] ELSE mon
  <1>11. mon' = m0 \/ (scl = 1 /\ mon' = OnSda(m0, 0))
    BY <1>1, <1>4, <1>5, <1>10 DEF HwEdge, MonEdge, Bit
  <1>12. m0 \in [active : Bit, bits : Seq(Bit), last : Seq(Bit)]
    <2>1. mon \in [active : Bit, bits : Seq(Bit), last : Seq(Bit)] /\ << >> \in Seq(Bit)
      BY <1>1 DEF Shape
    <2> QED BY <2>1
  <1>13. mon' \in [active : Bit, bits : Seq(Bit), last : Seq(Bit)]
    BY <1>11, <1>12, MonTypes DEF Bit
  <1>14. ASSUME pc # "config"
         PROVE  slvSent' = slvSent /\ mon'.last = mon.last /\ (i2c_stop_en = 0 => mon' = mon)
    <2>1. m0 = mon /\ ~SlaveReset
      BY <1>14 DEF SlaveReset
    <2>2. scl = 1 => OnSda(mon, 0).last = mon.last
      BY <1>1 DEF OnSda
    <2> QED BY <1>1, <1>8, <1>11, <2>1, <2>2
  <1> QED BY <1>2, <1>3, <1>4, <1>6, <1>8, <1>9, <1>13, <1>14 DEF SlaveReset

\* What every access of an idle master's registers has in common.
LEMMA IdleInv ==
  ASSUME Inv, Next, fsm_pstate = "IDLE", i2c_init = 0,
         i2c_addr' \in [1..7 -> Bit], i2c_clk_div_cnt' = i2c_clk_div_cnt, i2c_num_bytes' \in 0 .. MAX_BYTES,
         i2c_rd_n_wr' \in Bit, i2c_start_en' \in Bit, i2c_stop_en' \in Bit, i2c_init' \in Bit,
         data_cache' \in [0 .. MAX_BYTES - 1 -> Byte],
         pc' \in {"idle", "addr", "data", "config", "poll", "nack", "fetch"},
         res' \in {"none", "OK", "NACK", "ERROR"}, gap' \in 0 .. LB_GAP - 1,
         bffr' \in Seq(Byte), xtn' \in Xtns,
         i2c_init' = 1 => pc' = "poll" /\ gap' = 0 /\ i2c_start_en' = 1 /\ slvSent' = << >>,
         Loaded', Finished', Told'
  PROVE  Inv'
  <1>1. TypeOK'
    <2>1. i2c_clk_div_cnt \in Nat /\ MAX_BYTES \in Nat /\ i2c_clk_div_cnt \in ClkDivs /\ i2c_nack_det \in Bit
      BY Quarters, I2cAssumption DEF Inv, Shape, TypeOK
    <2>2. tck_cntr' \in 0 .. i2c_clk_div_cnt' /\ data_cntr' \in 0 .. 8 * (MAX_BYTES + 1)
      BY <2>1, IdleEdge
    <2>3. {i2c_rd_n_wr', i2c_start_en', i2c_stop_en', i2c_init', i2c_nack_det', rel_i2c_bus', scl', sda_o', slv'} \subseteq Bit
      <3>1. 0 \in Bit
        BY DEF Bit
      <3> QED BY <2>1, <3>1, IdleEdge
    <2>4. fsm_pstate' = "IDLE"
      BY IdleEdge
    <2> QED BY <2>1, <2>2, <2>3, <2>4 DEF TypeOK
  <1>2. Shape'
    BY <1>1, IdleEdge DEF Shape
  <1>3. Rest'
    BY IdleEdge DEF Rest
  <1> QED
    BY <1>2, <1>3, IdleEdge
       DEF Inv, InBit, i2c_busy, Busy, Starting, Clocked, Settled, Sampled, Acked, Sent, Received, Stopping

\* The frame of a finished transaction stays as it is.
LEMMA StaysFinished ==
  ASSUME Inv, Next, fsm_pstate = "IDLE", i2c_init = 0, Asked, pc # "config", xtn' = xtn, data_cache' = data_cache
  PROVE  Finished'
  <1>1. /\ Collected /\ Outcome(Frame, xtn.stop, xtn, i2c_nack_det) /\ i2c_stop_en = xtn.stop /\ i2c_stop_en \in Bit
    BY DEF Inv, Finished, Loaded, Shape, TypeOK
  <1>2. Collected'
    BY <1>1, IdleEdge DEF Collected
  <1>3. Frame' = Frame
    BY <1>1, IdleEdge DEF Frame, Bit
  <1> QED BY <1>1, <1>2, <1>3, IdleEdge DEF Finished

\* The registers and the firmware's variables on an edge without a write.
LEMMA NoWrite ==
  ASSUME Inv, fsm_pstate = "IDLE", i2c_init = 0, RegEdge
  PROVE  /\ UNCHANGED <<i2c_addr, i2c_clk_div_cnt, i2c_num_bytes, i2c_rd_n_wr, i2c_start_en, i2c_stop_en, data_cache>>
         /\ i2c_init' = 0
  BY DEF RegEdge

LEMMA Types ==
  ASSUME Inv
  PROVE  /\ i2c_addr \in [1..7 -> Bit] /\ i2c_num_bytes \in 0 .. MAX_BYTES
         /\ i2c_rd_n_wr \in Bit /\ i2c_start_en \in Bit /\ i2c_stop_en \in Bit /\ i2c_nack_det \in Bit
         /\ data_cache \in [0 .. MAX_BYTES - 1 -> Byte]
         /\ pc \in {"idle", "addr", "data", "config", "poll", "nack", "fetch"}
         /\ res \in {"none", "OK", "NACK", "ERROR"} /\ gap \in 0 .. LB_GAP - 1
         /\ slvSent \in Seq(Byte) /\ bffr \in Seq(Byte) /\ xtn \in Xtns
         /\ xtn \in [rd : Bit, addr : [1..7 -> Bit], data : Seq(Byte), n : Nat, stop : Bit]
         /\ xtn.rd = 0 => xtn.n <= Len(xtn.data)
         /\ LB_GAP \in Nat \ {0, 1} /\ MAX_BYTES \in Nat \ {0} /\ 0 \in Bit /\ 1 \in Bit
  <1>1. xtn \in Xtns
    BY DEF Inv, Shape
  <1>2. /\ xtn \in [rd : Bit, addr : [1..7 -> Bit], data : Seq(Byte), n : Nat, stop : Bit]
        /\ xtn.rd = 0 => xtn.n <= Len(xtn.data)
    BY <1>1, I2cAssumption
  <1>3. LB_GAP \in Nat \ {0, 1} /\ MAX_BYTES \in Nat \ {0} /\ 0 \in Bit /\ 1 \in Bit
    BY I2cAssumption DEF Bit
  <1> QED BY <1>1, <1>2, <1>3 DEF Inv, Shape, TypeOK

LEMMA CallStep ==
  ASSUME Inv, Next, fsm_pstate = "IDLE", i2c_init = 0, NEW x \in Xtns, Call(x)
  PROVE  Inv'
  <1>1. /\ UNCHANGED <<i2c_addr, i2c_clk_div_cnt, i2c_num_bytes, i2c_rd_n_wr, i2c_start_en, i2c_stop_en, data_cache>>
        /\ i2c_init' = 0
    BY NoWrite DEF Call
  <1>2. bffr' = bffr /\ xtn' = x /\ gap' \in 0 .. LB_GAP - 1
    <2>1. gap' = IF gap < LB_GAP - 1 THEN gap + 1 ELSE gap
      BY DEF Call, NoAccess
    <2>2. gap' \in 0 .. LB_GAP - 1
      <3>1. gap \in 0 .. LB_GAP - 1 /\ LB_GAP \in Nat
        BY Types
      <3> QED BY <2>1, <3>1
    <2> QED BY <2>2 DEF Call
  <1>3. \/ pc' = "idle" /\ res' = "ERROR"
        \/ pc' = "addr" /\ res' = "none" /\ ~(x.n > MAX_BYTES)
    BY DEF Call
  <1>4. x.n \in Nat
    BY I2cAssumption
  <1>5. ~Asked'
    BY <1>3 DEF Asked
  <1>6. Loaded' /\ Finished' /\ Told'
    <2>1. MAX_BYTES \in Nat
      BY Types
    <2>2. Loaded'
      BY <1>2, <1>3, <1>4, <1>5, <2>1 DEF Loaded
    <2>3. Finished' /\ Told'
      BY <1>3, <1>5 DEF Finished, Told
    <2> QED BY <2>2, <2>3
  <1>7. /\ i2c_addr' \in [1..7 -> Bit] /\ i2c_num_bytes' \in 0 .. MAX_BYTES
        /\ i2c_rd_n_wr' \in Bit /\ i2c_start_en' \in Bit /\ i2c_stop_en' \in Bit
        /\ i2c_init' \in Bit /\ i2c_init' # 1 /\ data_cache' \in [0 .. MAX_BYTES - 1 -> Byte]
    BY <1>1, Types
  <1>8. pc' \in {"idle", "addr"} /\ res' \in {"none", "ERROR"} /\ bffr' \in Seq(Byte) /\ xtn' \in Xtns
    BY <1>2, <1>3, Types
  <1> QED BY <1>1, <1>2, <1>6, <1>7, <1>8, IdleInv

LEMMA WriteAddrStep ==
  ASSUME Inv, Next, fsm_pstate = "IDLE", i2c_init = 0, WriteAddr
  PROVE  Inv'
  <1>1. /\ UNCHANGED <<i2c_clk_div_cnt, i2c_num_bytes, i2c_rd_n_wr, i2c_start_en, i2c_stop_en, i2c_init, data_cache,
                       xtn, res>>
        /\ i2c_addr' = xtn.addr /\ bffr' = << >> /\ gap' = 0 /\ pc = "addr"
        /\ pc' = IF xtn.rd = 0 /\ xtn.n > 0 THEN "data" ELSE "config"
    BY DEF WriteAddr, Accessed
  <1>2. xtn.n <= MAX_BYTES
    BY <1>1 DEF Inv, Loaded
  <1>3. ~Asked'
    BY <1>1 DEF Asked
  <1>4. xtn.n \in Nat /\ xtn.rd \in Bit /\ Len(bffr') = 0
    BY <1>1, Types
  <1>5. Loaded'
    BY <1>1, <1>2, <1>3, <1>4 DEF Loaded
  <1>6. Finished' /\ Told'
    BY <1>1, <1>3 DEF Finished, Told
  <1>7. bffr' \in Seq(Byte) /\ 0 \in 0 .. LB_GAP - 1 /\ i2c_addr' \in [1..7 -> Bit]
    BY <1>1, Types
  <1> QED BY <1>1, <1>5, <1>6, <1>7, Types, IdleInv

LEMMA WriteDataStep ==
  ASSUME Inv, Next, fsm_pstate = "IDLE", i2c_init = 0, WriteData
  PROVE  Inv'
  <1> DEFINE i == Len(bffr)
  <1>1. /\ UNCHANGED <<i2c_addr, i2c_clk_div_cnt, i2c_num_bytes, i2c_rd_n_wr, i2c_start_en, i2c_stop_en, i2c_init,
                       xtn, res>>
        /\ data_cache' = [data_cache EXCEPT ![i] = xtn.data[i + 1]]
        /\ bffr' = Append(bffr, xtn.data[i + 1]) /\ gap' = 0 /\ pc = "data"
        /\ pc' = IF i + 1 < xtn.n THEN "data" ELSE "config"
    BY DEF WriteData, Accessed
  <1>2. /\ xtn.n <= MAX_BYTES /\ i2c_addr = xtn.addr /\ xtn.rd = 0 /\ i < xtn.n
        /\ \A k \in 1 .. i : data_cache[k - 1] = xtn.data[k]
    BY <1>1 DEF Inv, Loaded
  <1>3. ~Asked'
    BY <1>1 DEF Asked
  <1>4. i \in Nat /\ xtn.n \in Nat /\ xtn.n <= Len(xtn.data) /\ xtn.data \in Seq(Byte)
    BY <1>2, Types
  <1>5. xtn.data[i + 1] \in Byte /\ i \in 0 .. MAX_BYTES - 1
    <2>1. MAX_BYTES \in Nat
      BY Types
    <2> QED BY <1>2, <1>4, <2>1
  <1>6. data_cache' \in [0 .. MAX_BYTES - 1 -> Byte] /\ bffr' \in Seq(Byte) /\ Len(bffr') = i + 1
    BY <1>1, <1>5, Types
  <1>7. \A k \in 1 .. i + 1 : data_cache'[k - 1] = xtn.data[k]
    <2> SUFFICES ASSUME NEW k \in 1 .. i + 1 PROVE data_cache'[k - 1] = xtn.data[k]
      OBVIOUS
    <2>1. CASE k = i + 1
      BY <1>1, <1>4, <1>5, <2>1, Types
    <2>2. CASE k # i + 1
      <3>1. k \in 1 .. i /\ k - 1 # i /\ k - 1 \in 0 .. MAX_BYTES - 1
        <4>1. MAX_BYTES \in Nat
          BY Types
        <4> QED BY <1>4, <1>5, <2>2, <4>1
      <3> QED BY <1>1, <1>2, <3>1, Types
    <2> QED BY <2>1, <2>2
  <1> HIDE DEF i
  <1>8. Loaded'
    <2>1. CASE i + 1 < xtn.n
      BY <1>1, <1>2, <1>3, <1>4, <1>6, <1>7, <2>1 DEF Loaded
    <2>2. CASE ~(i + 1 < xtn.n)
      <3>1. xtn.n = i + 1
        BY <1>2, <1>4, <2>2
      <3> QED BY <1>1, <1>2, <1>3, <1>6, <1>7, <2>2, <3>1 DEF Loaded
    <2> QED BY <2>1, <2>2
  <1>9. Finished' /\ Told'
    BY <1>1, <1>3 DEF Finished, Told
  <1>10. 0 \in 0 .. LB_GAP - 1
    BY Types
  <1> QED BY <1>1, <1>6, <1>8, <1>9, <1>10, Types, IdleInv

LEMMA WriteConfigStep ==
  ASSUME Inv, Next, fsm_pstate = "IDLE", i2c_init = 0, WriteConfig
  PROVE  Inv'
  <1>1. /\ UNCHANGED <<i2c_addr, i2c_clk_div_cnt, data_cache, xtn, res>>
        /\ i2c_num_bytes' = xtn.n /\ i2c_rd_n_wr' = xtn.rd /\ i2c_start_en' = 1 /\ i2c_stop_en' = xtn.stop
        /\ i2c_init' = 1 /\ bffr' = << >> /\ gap' = 0 /\ pc = "config" /\ pc' = "poll"
    BY DEF WriteConfig, Accessed
  <1>2. /\ xtn.n <= MAX_BYTES /\ i2c_addr = xtn.addr
        /\ xtn.rd = 0 => \A i \in 1 .. xtn.n : data_cache[i - 1] = xtn.data[i]
    BY <1>1 DEF Inv, Loaded
  <1>3. Loaded' /\ Finished' /\ Told'
    BY <1>1, <1>2 DEF Loaded, Finished, Told
  <1>4. slvSent' = << >>
    BY <1>1, IdleEdge
  <1>5. i2c_num_bytes' \in 0 .. MAX_BYTES /\ xtn.rd \in Bit /\ xtn.stop \in Bit /\ 0 \in 0 .. LB_GAP - 1
    BY <1>1, <1>2, Types
  <1>6. bffr' \in Seq(Byte)
    BY <1>1
  <1> QED BY <1>1, <1>3, <1>4, <1>5, <1>6, Types, IdleInv

\* An edge on which the firmware reads a register, or none.
LEMMA ReadStep ==
  ASSUME Inv, Next, fsm_pstate = "IDLE", i2c_init = 0, Quiet \/ PollBusy \/ PollNack \/ ReadData
  PROVE  Inv'
  <1>1. RegEdge /\ xtn' = xtn /\ gap' \in 0 .. LB_GAP - 1
    <2>1. RegEdge /\ xtn' = xtn /\ (gap' = 0 \/ gap' = IF gap < LB_GAP - 1 THEN gap + 1 ELSE gap)
      BY DEF Quiet, PollBusy, PollNack, ReadData, NoAccess, Accessed
    <2>2. gap \in 0 .. LB_GAP - 1 /\ LB_GAP \in Nat \ {0, 1}
      BY Types
    <2> QED BY <2>1, <2>2
  <1>2. /\ UNCHANGED <<i2c_addr, i2c_clk_div_cnt, i2c_num_bytes, i2c_rd_n_wr, i2c_start_en, i2c_stop_en, data_cache>>
        /\ i2c_init' = 0
    BY <1>1, NoWrite
  <1>3. UNCHANGED <<i2c_nack_det>> /\ Loaded /\ Told /\ (pc # "config" => slvSent' = slvSent)
    BY IdleEdge DEF Inv
  <1>4. CASE Quiet
    <2>1. UNCHANGED <<pc, res, bffr>>
      BY <1>4 DEF Quiet
    <2>2. Loaded'
      BY <1>1, <1>2, <1>3, <2>1 DEF Loaded, Asked
    <2>3. Told'
      BY <1>1, <1>2, <1>3, <2>1 DEF Told
    <2>4. Finished'
      <3>1. CASE Asked
        BY <1>1, <1>2, <3>1, StaysFinished DEF Asked
      <3>2. CASE ~Asked
        BY <2>1, <3>2 DEF Finished, Asked
      <3> QED BY <3>1, <3>2
    <2> QED BY <1>1, <1>2, <2>1, <2>2, <2>3, <2>4, Types, IdleInv
  <1>5. ASSUME pc \in {"poll", "nack", "fetch"}
        PROVE  /\ Asked /\ Finished' /\ slvSent' = slvSent /\ xtn.n <= MAX_BYTES
               /\ i2c_num_bytes = xtn.n /\ i2c_rd_n_wr = xtn.rd /\ i2c_stop_en = xtn.stop
               /\ xtn.rd = 1 /\ i2c_nack_det = 0 =>
                    Len(slvSent) = xtn.n /\ \A c \in 1 .. xtn.n : data_cache[c - 1] = slvSent[c]
    <2>1. Asked
      BY <1>5 DEF Asked
    <2>2. Collected
      BY <2>1 DEF Inv, Finished
    <2> QED BY <1>1, <1>2, <1>3, <1>5, <2>1, <2>2, StaysFinished DEF Loaded, Collected
  <1>6. CASE PollBusy
    <2>1. UNCHANGED <<res, bffr>> /\ pc = "poll" /\ pc' = "nack"
      BY <1>6 DEF PollBusy, i2c_busy
    <2>2. Loaded'
      BY <1>1, <1>2, <1>5, <2>1 DEF Loaded
    <2>3. Told'
      BY <1>3, <2>1 DEF Told
    <2> QED BY <1>1, <1>2, <1>5, <2>1, <2>2, <2>3, Types, IdleInv
  <1>7. CASE PollNack
    <2>1. bffr' = bffr /\ pc = "nack" /\ bffr = << >>
      BY <1>3, <1>7 DEF PollNack, Told
    <2>2. \/ i2c_nack_det = 1 /\ pc' = "idle" /\ res' = "NACK"
          \/ i2c_nack_det = 0 /\ xtn.rd = 1 /\ xtn.n > 0 /\ pc' = "fetch" /\ res' = res
          \/ i2c_nack_det = 0 /\ ~(xtn.rd = 1 /\ xtn.n > 0) /\ pc' = "idle" /\ res' = "OK"
      BY <1>7, Types DEF PollNack, Bit
    <2>3. Loaded'
      BY <1>1, <1>2, <1>5, <2>1, <2>2 DEF Loaded
    <2>4. Told'
      <3>1. CASE pc' = "fetch"
        <4>1. Len(bffr') = 0 /\ xtn.n \in Nat
          BY <2>1, Types
        <4> QED BY <1>1, <1>3, <2>2, <3>1, <4>1 DEF Told
      <3>2. CASE pc' = "idle"
        <4>1. ASSUME i2c_nack_det = 0, ~(xtn.rd = 1 /\ xtn.n > 0), xtn.rd = 1 PROVE slvSent = << >>
          <5>1. xtn.n = 0
            BY <4>1, Types
          <5> QED BY <1>5, <2>1, <4>1, <5>1, Types
        <4> QED BY <1>1, <1>3, <1>5, <2>1, <2>2, <3>2, <4>1 DEF Told
      <3> QED BY <2>2, <3>1, <3>2
    <2> QED BY <1>1, <1>2, <1>5, <2>1, <2>2, <2>3, <2>4, Types, IdleInv
  <1>8. CASE ReadData
    <2>1. /\ pc = "fetch" /\ bffr' = Append(bffr, data_cache[Len(bffr)])
          /\ \/ Len(bffr') < xtn.n /\ pc' = "fetch" /\ res' = res
             \/ ~(Len(bffr') < xtn.n) /\ pc' = "idle" /\ res' = "OK"
      BY <1>8 DEF ReadData
    <2>2. /\ xtn.rd = 1 /\ i2c_nack_det = 0 /\ Len(bffr) < xtn.n
          /\ \A j \in 1 .. Len(bffr) : bffr[j] = slvSent[j]
      BY <1>3, <2>1 DEF Told
    <2>3. PICK l \in Nat : l = Len(bffr)
      BY Types
    <2>4. xtn.n \in Nat /\ l \in 0 .. MAX_BYTES - 1 /\ data_cache[l] \in Byte /\ data_cache[l] = slvSent[l + 1]
      <3>1. xtn.n \in Nat /\ l < xtn.n /\ xtn.n <= MAX_BYTES /\ MAX_BYTES \in Nat
        BY <1>5, <2>1, <2>2, <2>3, Types
      <3>2. l + 1 \in 1 .. xtn.n /\ (l + 1) - 1 = l /\ l \in 0 .. MAX_BYTES - 1
        BY <3>1
      <3>3. data_cache[(l + 1) - 1] = slvSent[l + 1]
        BY <1>5, <2>1, <2>2, <3>2
      <3> QED BY <3>1, <3>2, <3>3, Types
    <2>5. bffr' \in Seq(Byte) /\ Len(bffr') = l + 1 /\ \A j \in 1 .. l + 1 : bffr'[j] = slvSent[j]
      <3>1. bffr \in Seq(Byte) /\ bffr' = Append(bffr, data_cache[l])
        BY <2>1, <2>3, Types
      <3>2. bffr' \in Seq(Byte) /\ Len(bffr') = l + 1
        BY <2>3, <2>4, <3>1
      <3>3. ASSUME NEW j \in 1 .. l + 1 PROVE bffr'[j] = slvSent[j]
        <4>1. CASE j = l + 1
          BY <2>3, <2>4, <3>1, <4>1
        <4>2. CASE j # l + 1
          <5>1. j \in 1 .. l
            BY <4>2
          <5> QED BY <2>2, <2>3, <2>4, <3>1, <5>1
        <4> QED BY <4>1, <4>2
      <3> QED BY <3>2, <3>3
    <2>6. Loaded'
      BY <1>1, <1>2, <1>5, <2>1 DEF Loaded
    <2>7. ASSUME ~(Len(bffr') < xtn.n) PROVE bffr' = slvSent
      <3>1. l + 1 = xtn.n /\ Len(slvSent) = xtn.n
        BY <1>5, <2>1, <2>2, <2>3, <2>4, <2>5, <2>7
      <3>2. slvSent \in Seq(Byte)
        BY Types
      <3>3. Len(bffr') = Len(slvSent) /\ \A j \in 1 .. Len(slvSent) : bffr'[j] = slvSent[j]
        BY <2>5, <3>1
      <3>4. bffr' \in Seq(Byte)
        BY <2>5
      <3> QED BY <3>2, <3>3, <3>4
    <2>8. Told'
      BY <1>1, <1>3, <1>5, <2>1, <2>2, <2>5, <2>7 DEF Told
    <2>9. /\ pc' \in {"idle", "addr", "data", "config", "poll", "nack", "fetch"}
          /\ res' \in {"none", "OK", "NACK", "ERROR"} /\ bffr' \in Seq(Byte)
      BY <2>1, <2>5, Types
    <2>10. Finished'
      BY <1>5, <2>1
    <2> QED BY <1>1, <1>2, <2>6, <2>8, <2>9, <2>10, Types, IdleInv
  <1> QED BY <1>4, <1>6, <1>7, <1>8

LEMMA IdleStep ==
  ASSUME Inv, Next, fsm_pstate = "IDLE"
  PROVE  Inv'
  <1>1. i2c_init = 1 \/ i2c_init = 0
    BY DEF Inv, Shape, TypeOK, Bit
  <1>2. (\E x \in Xtns : Call(x)) \/ WriteAddr \/ WriteData \/ WriteConfig \/ (Quiet \/ PollBusy \/ PollNack \/ ReadData)
    BY DEF Next, Step, Idling, Firmware
  <1> QED
    BY <1>1, <1>2, Begins, CallStep, WriteAddrStep, WriteDataStep, WriteConfigStep, ReadStep

-----------------------------------------------------------------------------
(***************************************************************************)
(* The invariant, and what it says of a call that has returned.            *)
(***************************************************************************)

LEMMA InvInit ==
  ASSUME Init
  PROVE  Inv
  <1>1. i2c_clk_div_cnt \in ClkDivs /\ i2c_clk_div_cnt \in Nat /\ MAX_BYTES \in Nat /\ LB_GAP \in Nat \ {0, 1}
    BY I2cAssumption DEF Init
  <1>2. Zeros(7) \in [1..7 -> Bit] /\ Zeros(8) \in Byte
    BY DEF Zeros, Byte, Bit
  <1>3. tck_cntr \in 0 .. i2c_clk_div_cnt /\ data_cntr \in 0 .. 8 * (MAX_BYTES + 1) /\ gap \in 0 .. LB_GAP - 1
        /\ i2c_num_bytes \in 0 .. MAX_BYTES
    BY <1>1 DEF Init
  <1>4. /\ {i2c_rd_n_wr, i2c_start_en, i2c_stop_en, i2c_init, i2c_nack_det,
            rel_i2c_bus, scl, sda_o, slv} \subseteq Bit
        /\ sync_f \in Bit \X Bit
    BY DEF Init, Bit
  <1>5. data_cache \in [0 .. MAX_BYTES - 1 -> Byte]
    BY <1>2 DEF Init
  <1>6. TypeOK
    BY <1>1, <1>2, <1>3, <1>4, <1>5 DEF Init, TypeOK
  <1>7. xtn \in Xtns
    <2>1. \E x \in Xtns : TRUE
      BY I2cAssumption
    <2> QED BY <2>1, Zenon DEF Init
  <1>8. mon \in [active : Bit, bits : Seq(Bit), last : Seq(Bit)]
    <2>1. << >> \in Seq(Bit) /\ 0 \in Bit
      BY DEF Bit
    <2> QED BY <2>1 DEF Init
  <1>9. Shape
    BY <1>4, <1>6, <1>7, <1>8 DEF Shape, Init
  <1>10. Loaded /\ Told /\ Finished
    BY DEF Init, Loaded, Told, Finished, Asked
  <1>11. Rest
    BY DEF Init, Rest
  <1> QED
    BY <1>9, <1>10, <1>11
       DEF Init, Inv, InBit, i2c_busy, Busy, Starting, Clocked, Settled, Sampled, Acked, Sent, Received, Stopping

LEMMA InvNext ==
  ASSUME Inv, [Next]_vars
  PROVE  Inv'
  <1>1. CASE Next
    <2>1. fsm_pstate = "IDLE" \/ fsm_pstate = "START" \/ fsm_pstate = "STOP" \/ InBit
      BY DEF Inv, Shape, TypeOK, InBit
    <2> QED BY <1>1, <2>1, IdleStep, StartStep, StopStep, BitStep
  <1>2. CASE UNCHANGED vars
    <2>1. /\ UNCHANGED regVars /\ UNCHANGED fsmVars /\ UNCHANGED busVars /\ UNCHANGED fwVars
      BY <1>2 DEF vars
    <2>2. /\ UNCHANGED <<i2c_addr, i2c_clk_div_cnt, i2c_num_bytes, i2c_rd_n_wr, i2c_start_en, i2c_stop_en, i2c_init,
                         data_cache>>
          /\ UNCHANGED <<fsm_pstate, tck_cntr, data_cntr, i2c_nack_det, rel_i2c_bus>>
          /\ UNCHANGED <<scl, sda_o, sync_f, slv, slvSent, mon>> /\ UNCHANGED <<pc, xtn, bffr, res, gap>>
      BY <2>1 DEF regVars, fsmVars, busVars, fwVars
    <2>3. Shape'
      BY <2>2 DEF Inv, Shape, TypeOK
    <2>4. Loaded' /\ Rest' /\ Busy' /\ Starting' /\ Told'
      BY <2>2 DEF Inv, Loaded, Asked, Rest, Busy, i2c_busy, Starting, Told
    <2>5. /\ UNCHANGED <<DivBy4, DivBy2, Div3By4, data_cntr_bytes, SDA, i2c_seq_bits>>
          /\ (InBit' <=> InBit) /\ (Begun' <=> Begun) /\ (Asked' <=> Asked) /\ Frame' = Frame
      BY <2>2 DEF DivBy4, DivBy2, Div3By4, data_cntr_bytes, SDA, i2c_seq_bits, InBit, Begun, Asked, Frame
    <2>6. Bytes' = Bytes /\ Pos' = Pos
      BY <2>2, <2>5 DEF Bytes, Pos
    <2>7. Clocked' /\ Settled' /\ Sampled' /\ Acked' /\ Sent'
      BY <2>2, <2>5, <2>6 DEF Inv, Clocked, Settled, Sampled, Acked, Sent
    <2>8. Received'
      BY <2>2, <2>5 DEF Inv, Received
    <2>9. Collected <=> Collected'
      BY <2>2 DEF Collected
    <2>10. Stopping' /\ Finished'
      BY <2>2, <2>5, <2>9 DEF Inv, Stopping, Finished
    <2> QED BY <2>3, <2>4, <2>7, <2>8, <2>10 DEF Inv
  <1> QED BY <1>1, <1>2

\* A call that has returned: the frame on the wires is the outcome the flag
\* stands for.
LEMMA Returned ==
  ASSUME Inv, pc = "idle", res \in {"OK", "NACK"}
  PROVE  /\ Collected /\ Outcome(Frame, xtn.stop, xtn, i2c_nack_det) /\ Frame \in Seq(Bit)
         /\ xtn.stop \in Bit /\ xtn.n \in Nat /\ Len(StopBit) = xtn.stop
  <1>1. fsm_pstate = "IDLE" /\ i2c_init = 0 /\ Asked
    BY DEF Inv, Busy, i2c_busy, Rest, Shape, TypeOK, Bit, Asked
  <1>2. Frame \in Seq(Bit)
    BY DEF Inv, Shape, Frame
  <1>3. xtn.stop \in Bit /\ xtn.n \in Nat
    BY Types
  <1>4. Len(StopBit) = xtn.stop
    BY <1>3 DEF StopBit, Bit
  <1> QED BY <1>1, <1>2, <1>3, <1>4 DEF Inv, Finished

\* A frame that agrees with WriteFrame in its data bits and in which every
\* acknowledge bit is 0 is WriteFrame.
LEMMA WholeFrame ==
  ASSUME NEW f \in Seq(Bit), NEW x, NEW s \in Bit, x.n \in Nat, x.rd = 0, Outcome(f, s, x, 0)
  PROVE  f = WriteFrame(x) \o (IF s = 1 THEN <<0>> ELSE << >>)
  <1>1. PICK k \in 1 .. x.n + 1 :
          /\ Len(f) = 9 * k + s /\ (s = 1 => f[9 * k + 1] = 0)
          /\ f[9 * k] = 0 /\ k = x.n + 1
          /\ \A j \in 1 .. k - 1 : f[9 * j] = 0
          /\ \A i \in 1 .. 9 * k : i % 9 # 0 => f[i] = WriteFrame(x)[i]
    BY DEF Outcome
  <1> DEFINE w == WriteFrame(x)
  <1>2. \A i \in 1 .. 9 * k : w[i] = f[i]
    <2> SUFFICES ASSUME NEW i \in 1 .. 9 * k PROVE w[i] = f[i]
      OBVIOUS
    <2>1. CASE i % 9 # 0
      BY <1>1, <2>1
    <2>2. CASE i % 9 = 0
      <3>1. PICK j \in 1 .. k : i = 9 * j
        <4>1. i \div 9 \in Int /\ i = 9 * (i \div 9)
          BY <2>2
        <4>2. i \div 9 \in 1 .. k
          BY <4>1
        <4> QED BY <4>1, <4>2
      <3>2. f[i] = 0
        <4>1. CASE j = k
          BY <1>1, <3>1, <4>1
        <4>2. CASE j # k
          <5>1. j \in 1 .. k - 1
            BY <3>1, <4>2
          <5> QED BY <1>1, <3>1, <5>1
        <4> QED BY <4>1, <4>2
      <3>3. w[i] = 0
        BY <1>1, <2>2, <3>1 DEF WriteFrame
      <3> QED BY <3>2, <3>3
    <2> QED BY <2>1, <2>2
  <1>3. w = [i \in 1 .. 9 * k |-> f[i]]
    <2>1. w = [i \in 1 .. 9 * k |-> w[i]]
      BY <1>1 DEF WriteFrame
    <2> QED BY <1>2, <2>1
  <1> HIDE DEF w
  <1>4. \A i \in 1 .. 9 * k : f[i] \in Bit
    <2> SUFFICES ASSUME NEW i \in 1 .. 9 * k PROVE f[i] \in Bit
      OBVIOUS
    <2>1. s = 0 \/ s = 1
      BY DEF Bit
    <2>2. i \in 1 .. Len(f)
      BY <1>1, <2>1
    <2> QED BY <2>2
  <1>5. w \in Seq(Bit) /\ Len(w) = 9 * k
    BY <1>3, <1>4
  <1>6. CASE s = 1
    <2>1. w \o <<0>> \in Seq(Bit) /\ Len(w \o <<0>>) = 9 * k + 1
      BY <1>5 DEF Bit
    <2>2. \A i \in 1 .. 9 * k + 1 : (w \o <<0>>)[i] = f[i]
      <3> SUFFICES ASSUME NEW i \in 1 .. 9 * k + 1 PROVE (w \o <<0>>)[i] = f[i]
        OBVIOUS
      <3>1. CASE i = 9 * k + 1
        <4>1. f[i] = 0
          BY <1>1, <1>6, <3>1
        <4> QED BY <1>5, <3>1, <4>1
      <3>2. CASE i # 9 * k + 1
        <4>1. i \in 1 .. 9 * k
          BY <3>2
        <4>2. w[i] = f[i]
          BY <1>2, <4>1 DEF w
        <4> QED BY <1>5, <4>1, <4>2
      <3> QED BY <3>1, <3>2
    <2>3. Len(f) = 9 * k + 1
      BY <1>1, <1>6
    <2>4. f = w \o <<0>>
      BY <2>1, <2>2, <2>3
    <2> QED BY <1>6, <2>4 DEF w
  <1>7. CASE s = 0
    <2>1. f = w
      <3>1. Len(f) = 9 * k
        BY <1>1, <1>7
      <3>2. \A i \in 1 .. 9 * k : w[i] = f[i]
        BY <1>2 DEF w
      <3> QED BY <1>5, <3>1, <3>2
    <2>2. w \o << >> = w
      BY <1>5
    <2> QED BY <1>7, <2>1, <2>2 DEF w
  <1> QED BY <1>6, <1>7 DEF Bit

LEMMA Honest ==
  ASSUME Inv
  PROVE  CallHonest
  <1>1. WriteDelivered
    <2> SUFFICES ASSUME res = "OK", xtn.rd = 0, pc = "idle" PROVE Frame = WriteFrame(xtn) \o StopBit
      BY DEF WriteDelivered
    <2>1. i2c_nack_det = 0
      BY DEF Inv, Told
    <2>2. Frame = WriteFrame(xtn) \o (IF xtn.stop = 1 THEN <<0>> ELSE << >>)
      BY <2>1, Returned, WholeFrame
    <2> QED BY <2>2 DEF StopBit
  <1>2. NackHonest
    <2> SUFFICES ASSUME res = "NACK", pc = "idle" PROVE NackHonest
      BY DEF NackHonest
    <2>1. i2c_nack_det = 1
      BY DEF Inv, Told
    <2>2. Outcome(Frame, xtn.stop, xtn, 1) /\ Len(StopBit) = xtn.stop
      BY <2>1, Returned
    <2>3. PICK k \in 1 .. xtn.n + 1 :
            /\ Len(Frame) = 9 * k + Len(StopBit) /\ Frame[9 * k] = 1
            /\ \A j \in 1 .. k - 1 : Frame[9 * j] = 0
      BY <2>2 DEF Outcome
    <2> QED BY <2>3 DEF NackHonest
  <1>3. ReadReturnsData
    <2> SUFFICES ASSUME res = "OK", xtn.rd = 1, pc = "idle" PROVE bffr = slvSent /\ Len(bffr) = xtn.n
      BY DEF ReadReturnsData
    <2>1. i2c_nack_det = 0 /\ bffr = slvSent
      BY DEF Inv, Told
    <2> QED BY <2>1, Returned DEF Collected
  <1> QED BY <1>1, <1>2, <1>3 DEF CallHonest, Inv, Shape

-----------------------------------------------------------------------------
(***************************************************************************)
(* Whatever i2c_xtn_write and i2c_xtn_read return is what happened on the  *)
(* wires: I2C_OK only after the slave was sent, or has sent, exactly the   *)
(* bytes of the call and every byte was acknowledged, I2C_NACK_DETECTED    *)
(* only for a byte of this call; for every divider of at least 6, every    *)
(* size of the data cache and everything the slave does.                   *)
(***************************************************************************)
THEOREM CallsAreHonest == Spec => []CallHonest
  <1>1. Init => Inv
    BY InvInit
  <1>2. Inv /\ [Next]_vars => Inv'
    BY InvNext
  <1>3. Inv => CallHonest
    BY Honest
  <1> QED BY <1>1, <1>2, <1>3, PTL DEF Spec

(***************************************************************************)
(* While scl is high the data wire moves in the START and STOP states of   *)
(* the FSM only: the master never makes a START or a STOP by accident, nor *)
(* when it hands the wire to the slave or takes it back.                   *)
(***************************************************************************)
THEOREM WireIsStable == Spec => SdaStable
  <1>1. Init => Inv
    BY InvInit
  <1>2. Inv /\ [Next]_vars => Inv'
    BY InvNext
  <1>3. ASSUME Inv, [Next]_vars
        PROVE  [(scl = 1 /\ scl' = 1 /\ SDA # SDA') => fsm_pstate \in {"START", "STOP"}]_vars
    <2> SUFFICES ASSUME Next, scl = 1, scl' = 1, SDA # SDA', fsm_pstate \notin {"START", "STOP"} PROVE FALSE
      BY <1>3
    <2>1. CASE InBit
      <3>1. scl = B(DivBy4 < tck_cntr /\ tck_cntr <= Div3By4) /\ tck_cntr \in Nat /\ DivBy4 \in Nat
        <4>1. Shape /\ Clocked
          BY <1>3 DEF Inv
        <4>2. DivBy4 \in Nat /\ i2c_clk_div_cnt \in Nat
          BY <4>1, Quarters
        <4>3. tck_cntr \in 0 .. i2c_clk_div_cnt
          BY <4>1 DEF Shape, TypeOK
        <4>4. scl = B(DivBy4 < tck_cntr /\ tck_cntr <= Div3By4)
          BY <2>1, <4>1 DEF Clocked
        <4> QED BY <4>2, <4>3, <4>4
      <3>2. tck_cntr >= 1 /\ tck_cntr < Div3By4
        BY <1>3, <2>1, <3>1, Pulse DEF B
      <3> QED BY <1>3, <2>1, <3>2, Wire
    <2>2. CASE fsm_pstate = "IDLE"
      <3>1. i2c_init = 0
        BY <1>3, <2>2 DEF Inv, Rest, Shape, TypeOK, Bit
      <3> QED BY <1>3, <2>2, <3>1, IdleEdge
    <2> QED BY <1>3, <2>1, <2>2 DEF Inv, Shape, TypeOK, InBit
  <1> QED BY <1>1, <1>2, <1>3, PTL DEF Spec, SdaStable
=============================================================================

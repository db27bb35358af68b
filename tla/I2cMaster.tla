----------------------------- MODULE I2cMaster ------------------------------
(***************************************************************************)
(* i2c_master.sv, clock by clock, with the firmware that drives it through *)
(* the local bus (i2c_xtn_write and i2c_xtn_read of i2c.c) and a slave     *)
(* device on the two wires.                                                *)
(*                                                                         *)
(* A step is one edge of clk.  On that edge the firmware either makes its  *)
(* next register access or none.  A byte is the sequence of its bits, most *)
(* significant first, as they go over the wire.                            *)
(***************************************************************************)
EXTENDS Integers, Sequences

CONSTANTS
  ClkDivs,     \* values the clock divider may be configured to
  MAX_BYTES,   \* I2C_MAX_DATA_BYTES and I2C_MAX_XTN_LEN (4 in the code)
  Xtns,        \* transactions the firmware may ask for
  SlaveBytes,  \* bytes a slave may return
  LB_GAP,      \* least distance, in clocks, of two register accesses
  MaxXtn       \* bound: transactions made

Bit == {0, 1}
Byte == [1..8 -> Bit]

(***************************************************************************)
(* The divider must leave the two stages of the SDA synchroniser time to   *)
(* settle within half a bit; the firmware uses 255.  A read that follows a *)
(* write to the start bit must be two clocks away to find the busy bit set.*)
(***************************************************************************)
ASSUME I2cAssumption ==
  /\ ClkDivs \subseteq 6 .. 255
  /\ MAX_BYTES \in Nat \ {0}
  /\ Xtns \subseteq [rd : Bit, addr : [1..7 -> Bit], data : Seq(Byte), n : Nat,
                     stop : Bit]
  /\ Xtns # {}
  /\ \A x \in Xtns : x.rd = 0 => x.n <= Len(x.data)
  /\ SlaveBytes \subseteq Byte
  /\ LB_GAP \in Nat \ {0, 1}
  /\ MaxXtn \in Nat

VARIABLES
  i2c_addr, i2c_clk_div_cnt, i2c_num_bytes,       \* local bus registers
  i2c_rd_n_wr, i2c_start_en, i2c_stop_en, i2c_init,
  data_cache,                                     \* bytes to send or received
  fsm_pstate, tck_cntr, data_cntr,                \* the FSM and its counters
  i2c_nack_det, rel_i2c_bus, scl, sda_o,
  sync_f,      \* the two flip-flops of the SDA synchroniser
  slv,         \* what the slave puts on SDA; 1: it leaves the line alone
  slvSent,     \* the bytes the slave has sent
  mon,         \* what a monitor on the wires makes of them
  pc,          \* the firmware's next register access
  xtn,         \* the transaction under way, or the last one
  bffr,        \* firmware: the bytes read
  res,         \* firmware: result of the last call
  gap,         \* clocks since the last register access, up to LB_GAP - 1
  count        \* calls made

regVars == <<i2c_addr, i2c_clk_div_cnt, i2c_num_bytes, i2c_rd_n_wr,
             i2c_start_en, i2c_stop_en, i2c_init, data_cache>>
fsmVars == <<fsm_pstate, tck_cntr, data_cntr, i2c_nack_det, rel_i2c_bus>>
busVars == <<scl, sda_o, sync_f, slv, slvSent, mon>>
fwVars  == <<pc, xtn, bffr, res, gap, count>>
vars    == <<regVars, fsmVars, busVars, fwVars>>

Zeros(n) == [i \in 1..n |-> 0]

-----------------------------------------------------------------------------
(***************************************************************************)
(* Combinational signals                                                   *)
(***************************************************************************)
DivBy2  == i2c_clk_div_cnt \div 2
DivBy4  == i2c_clk_div_cnt \div 4
Div3By4 == DivBy2 + DivBy4

tck_valid      == tck_cntr = i2c_clk_div_cnt
tck_by_2_valid == tck_cntr = DivBy2 \/ tck_valid
tck_by_4_valid == tck_cntr \in {DivBy4, Div3By4} \/ tck_by_2_valid

i2c_busy        == fsm_pstate # "IDLE"
data_cntr_bytes == data_cntr \div 8
sda_i           == sync_f[2]

data_cntr_en == fsm_pstate \in {"ADDR", "DATA"} /\ tck_valid

\* The wire: driven by the master unless it has released it.
SDA == IF rel_i2c_bus = 1 THEN slv ELSE sda_o

\* Address, read bit, data bytes: the bits in the order they are sent.
i2c_seq_bits ==
  [i \in 1 .. 8 * (MAX_BYTES + 1) |->
     IF i <= 7 THEN i2c_addr[i]
     ELSE IF i = 8 THEN i2c_rd_n_wr
     ELSE data_cache[(i - 9) \div 8][((i - 1) % 8) + 1]]

\* Mutant: one byte too few.
AllBytes_Early == data_cntr_bytes >= i2c_num_bytes
\* All bytes have been sent or received (the address counts as one).
AllBytes == data_cntr_bytes > i2c_num_bytes

\* Mutant: STOP_S waits for a low clock that never comes.
StopDone_SclLow == tck_valid /\ sda_o = 1 /\ scl = 0
StopDone == tck_valid /\ sda_o = 1

next_state ==
  CASE fsm_pstate = "IDLE" /\ i2c_init = 1 ->
         IF i2c_start_en = 1 THEN "START" ELSE "ADDR"
    [] fsm_pstate = "START" /\ tck_valid /\ scl = 0 -> "ADDR"
    [] fsm_pstate = "ACK" /\ tck_valid ->
         IF ~AllBytes /\ i2c_nack_det = 0 THEN "DATA"
         ELSE IF i2c_stop_en = 1 THEN "STOP" ELSE "IDLE"
    [] fsm_pstate \in {"ADDR", "DATA"} /\ tck_valid /\ data_cntr % 8 = 7 -> "ACK"
    [] fsm_pstate = "STOP" /\ StopDone -> "IDLE"
    [] OTHER -> fsm_pstate

rel_i2c_bus_next ==
  \/ fsm_pstate = "ACK" /\ (i2c_rd_n_wr = 1 => data_cntr_bytes = 1)
  \/ fsm_pstate = "DATA" /\ i2c_rd_n_wr = 1

B(p) == IF p THEN 1 ELSE 0

-----------------------------------------------------------------------------
(***************************************************************************)
(* One clock edge of the master: FSM, counters, flags                      *)
(***************************************************************************)
FsmEdge ==
  /\ fsm_pstate' = next_state
  /\ rel_i2c_bus' = B(rel_i2c_bus_next)
  /\ tck_cntr' = IF tck_valid \/ ~i2c_busy THEN 0 ELSE tck_cntr + 1

DataCntrEdge ==
  data_cntr' = IF ~i2c_busy THEN 0
               ELSE IF data_cntr_en THEN data_cntr + 1 ELSE data_cntr

\* The NACK flag stays set until the next transaction is started.
NackEdge ==
  i2c_nack_det' =
    IF i2c_nack_det = 1 THEN B(i2c_init = 0)
    ELSE B(fsm_pstate = "ACK" /\ sda_i = 1 /\ tck_by_2_valid /\ scl = 1)

\* One clock pulse per bit, high in its second and third quarter.
SclPulse ==
  IF scl = 1 THEN B(~(tck_by_4_valid /\ ~tck_by_2_valid))
             ELSE B(tck_by_4_valid /\ ~tck_valid)

BusEdge ==
  /\ scl' =
       CASE fsm_pstate = "IDLE"  -> B(i2c_init = 1 /\ i2c_start_en = 1)
         [] fsm_pstate = "START" -> IF tck_valid /\ sda_o = 0 THEN 0 ELSE scl
         [] fsm_pstate = "ACK"   -> IF next_state = "STOP" THEN 0 ELSE SclPulse
         [] fsm_pstate = "STOP"  -> IF tck_valid THEN 1 ELSE scl
         [] OTHER                -> SclPulse
  /\ sda_o' =
       CASE fsm_pstate = "IDLE"  -> B(i2c_init = 1 /\ i2c_start_en = 1)
         [] fsm_pstate = "START" -> IF tck_valid THEN 0 ELSE sda_o
         [] fsm_pstate = "ACK"   -> 0
         [] fsm_pstate = "STOP"  -> IF tck_valid /\ scl = 1 THEN 1 ELSE sda_o
         [] OTHER                -> i2c_seq_bits[data_cntr + 1]
  /\ sync_f' = <<SDA, sync_f[1]>>

-----------------------------------------------------------------------------
(***************************************************************************)
(* The wires seen from outside (external).  A frame starts at a START, a   *)
(* rising clock adds a bit, a STOP or another START ends it.  Where the    *)
(* master moves both wires with one clock edge (entering and leaving IDLE) *)
(* either may be seen to move first.                                       *)
(***************************************************************************)
OnBit(m, b) == IF m.active = 1 THEN [m EXCEPT !.bits = Append(@, b)] ELSE m

OnSda(m, b) ==
  LET closed == IF m.active = 1 THEN m.bits ELSE m.last
  IN  [active |-> 1 - b, bits |-> << >>, last |-> closed]

MonEdge ==
  LET m0 == IF pc = "config" /\ pc' # pc THEN [mon EXCEPT !.last = << >>] ELSE mon
      rise == scl = 0 /\ scl' = 1
  IN  IF scl # scl' /\ SDA # SDA' /\ fsm_pstate = "IDLE"
      THEN \/ mon' = IF rise THEN OnSda(OnBit(m0, SDA), SDA') ELSE m0
           \/ mon' = IF rise THEN OnBit(m0, SDA') ELSE OnSda(m0, SDA')
      ELSE mon' = IF rise THEN OnBit(m0, SDA')
                  ELSE IF scl = 1 /\ scl' = 1 /\ SDA # SDA' THEN OnSda(m0, SDA')
                  ELSE m0

(***************************************************************************)
(* The slave (external) moves when the clock falls: it acknowledges or not *)
(* the address and the bytes written to it, and sends as many bytes as are *)
(* asked of it.  Once it has not acknowledged it keeps off the wire.       *)
(***************************************************************************)
Nacked(bits) == \E i \in DOMAIN bits : i % 9 = 0 /\ bits[i] = 1

SlaveEdge ==
  LET bits == mon.bits
      k    == Len(bits)
      rd   == k >= 8 /\ bits[8] = 1
      falls == mon.active = 1 /\ scl = 1 /\ scl' = 0 /\ ~Nacked(bits)
  IN  \/ ~falls /\ UNCHANGED <<slv, slvSent>>
      \/ /\ falls /\ k > 0 /\ k % 9 = 8 /\ (rd => k = 8)
         /\ slv' \in Bit /\ UNCHANGED slvSent
      \/ /\ falls /\ rd /\ k % 9 = 0 /\ k \div 9 <= xtn.n
         /\ \E b \in SlaveBytes :
              slv' = b[1] /\ slvSent' = Append(slvSent, b)
      \/ /\ falls /\ rd /\ k >= 9 /\ k % 9 \in 1..7 /\ k \div 9 <= xtn.n
         /\ slv' = slvSent[k \div 9][(k % 9) + 1] /\ UNCHANGED slvSent
      \/ /\ falls
         /\ \/ k % 9 # 8 /\ ~(rd /\ k >= 9 /\ k \div 9 <= xtn.n)
            \/ k % 9 = 8 /\ rd /\ k # 8
         /\ slv' = 1 /\ UNCHANGED slvSent

-----------------------------------------------------------------------------
(***************************************************************************)
(* The local bus registers on an edge without a register write: i2c_init   *)
(* drops, and in a read the bit on the wire is shifted into the cache.     *)
(***************************************************************************)
ShiftIdx == data_cntr_bytes - 1

RegEdge ==
  /\ i2c_init' = 0
  /\ data_cache' =
       IF i2c_rd_n_wr = 1 /\ fsm_pstate = "DATA" /\ tck_by_2_valid /\ scl = 1
       THEN [data_cache EXCEPT ![ShiftIdx] =
              [i \in 1..8 |-> IF i < 8 THEN @[i + 1] ELSE sda_i]]
       ELSE data_cache
  /\ UNCHANGED <<i2c_addr, i2c_clk_div_cnt, i2c_num_bytes, i2c_rd_n_wr,
                 i2c_start_en, i2c_stop_en>>

(***************************************************************************)
(* The firmware.  Each access happens on one edge; between two of them at  *)
(* least LB_GAP - 1 edges pass.                                            *)
(***************************************************************************)
CanAccess == gap = LB_GAP - 1
Accessed  == gap' = 0
NoAccess  == gap' = IF gap < LB_GAP - 1 THEN gap + 1 ELSE gap

\* A call of i2c_xtn_write or i2c_xtn_read; too long a transaction is refused.
Call(x) ==
  /\ pc = "idle" /\ count < MaxXtn
  /\ count' = count + 1 /\ xtn' = x
  /\ IF x.n > MAX_BYTES THEN pc' = "idle" /\ res' = "ERROR"
                        ELSE pc' = "addr" /\ res' = "none"
  /\ NoAccess /\ RegEdge /\ UNCHANGED bffr

WriteAddr ==
  /\ pc = "addr" /\ CanAccess
  /\ i2c_addr' = xtn.addr
  /\ pc' = IF xtn.rd = 0 /\ xtn.n > 0 THEN "data" ELSE "config"
  /\ bffr' = << >>
  /\ Accessed
  /\ UNCHANGED <<i2c_clk_div_cnt, i2c_num_bytes, i2c_rd_n_wr, i2c_start_en,
                 i2c_stop_en, i2c_init, data_cache, xtn, res, count>>

\* bffr counts the bytes written so far.
WriteData ==
  /\ pc = "data" /\ CanAccess
  /\ LET i == Len(bffr)
     IN  /\ data_cache' = [data_cache EXCEPT ![i] = xtn.data[i + 1]]
         /\ bffr' = Append(bffr, xtn.data[i + 1])
         /\ pc' = IF i + 1 < xtn.n THEN "data" ELSE "config"
  /\ Accessed
  /\ UNCHANGED <<i2c_addr, i2c_clk_div_cnt, i2c_num_bytes, i2c_rd_n_wr,
                 i2c_start_en, i2c_stop_en, i2c_init, xtn, res, count>>

WriteConfig ==
  /\ pc = "config" /\ CanAccess
  /\ i2c_num_bytes' = xtn.n /\ i2c_rd_n_wr' = xtn.rd
  /\ i2c_start_en' = 1 /\ i2c_stop_en' = xtn.stop /\ i2c_init' = 1
  /\ pc' = "poll" /\ bffr' = << >>
  /\ Accessed
  /\ UNCHANGED <<i2c_addr, i2c_clk_div_cnt, data_cache, xtn, res, count>>

\* while(IORD_I2C_STATUS & I2C_BUSY_MSK)
PollBusy ==
  /\ pc = "poll" /\ CanAccess
  /\ pc' = IF i2c_busy THEN "poll" ELSE "nack"
  /\ Accessed /\ RegEdge /\ UNCHANGED <<xtn, bffr, res, count>>

\* if(IORD_I2C_STATUS & I2C_NACK_DET_MSK), after which a read collects data.
PollNack ==
  /\ pc = "nack" /\ CanAccess
  /\ IF i2c_nack_det = 1 THEN pc' = "idle" /\ res' = "NACK"
     ELSE IF xtn.rd = 1 /\ xtn.n > 0 THEN pc' = "fetch" /\ res' = res
     ELSE pc' = "idle" /\ res' = "OK"
  /\ Accessed /\ RegEdge /\ UNCHANGED <<xtn, bffr, count>>

ReadData ==
  /\ pc = "fetch" /\ CanAccess
  /\ bffr' = Append(bffr, data_cache[Len(bffr)])
  /\ IF Len(bffr') < xtn.n THEN pc' = "fetch" /\ res' = res
                           ELSE pc' = "idle" /\ res' = "OK"
  /\ Accessed /\ RegEdge /\ UNCHANGED <<xtn, count>>

Firmware ==
  \/ \E x \in Xtns : Call(x)
  \/ WriteAddr \/ WriteData \/ WriteConfig \/ PollBusy \/ PollNack \/ ReadData

Quiet == NoAccess /\ RegEdge /\ UNCHANGED <<pc, xtn, bffr, res, count>>

SlaveReset == pc = "config" /\ pc' = "poll"

HwEdge ==
  /\ FsmEdge /\ DataCntrEdge /\ NackEdge /\ BusEdge
  /\ IF SlaveReset THEN slv' = 1 /\ slvSent' = << >> ELSE SlaveEdge
  /\ MonEdge

Step   == Firmware /\ HwEdge
Idling == Quiet /\ HwEdge

Init ==
  /\ i2c_addr = Zeros(7) /\ i2c_clk_div_cnt \in ClkDivs /\ i2c_num_bytes = 0
  /\ i2c_rd_n_wr = 0 /\ i2c_start_en = 0 /\ i2c_stop_en = 0 /\ i2c_init = 0
  /\ data_cache = [i \in 0 .. MAX_BYTES - 1 |-> Zeros(8)]
  /\ fsm_pstate = "IDLE" /\ tck_cntr = 0 /\ data_cntr = 0
  /\ i2c_nack_det = 0 /\ rel_i2c_bus = 0 /\ scl = 0 /\ sda_o = 0
  /\ sync_f = <<0, 0>>
  /\ slv = 1 /\ slvSent = << >>
  /\ mon = [active |-> 0, bits |-> << >>, last |-> << >>]
  /\ pc = "idle" /\ bffr = << >> /\ res = "none"
  /\ xtn = (CHOOSE x \in Xtns : TRUE) /\ gap = LB_GAP - 1 /\ count = 0

Next == Step \/ Idling

Spec == Init /\ [][Next]_vars

\* The clock runs and the firmware thread is scheduled.
LiveSpec == Spec /\ WF_vars(Idling) /\ WF_vars(Step)

-----------------------------------------------------------------------------
\* Registers keep their widths: in particular data_cntr stays within one
\* transaction's bits and tck_cntr within the divider.
TypeOK ==
  /\ i2c_addr \in [1..7 -> Bit] /\ i2c_clk_div_cnt \in ClkDivs
  /\ i2c_num_bytes \in 0 .. MAX_BYTES
  /\ {i2c_rd_n_wr, i2c_start_en, i2c_stop_en, i2c_init, i2c_nack_det,
      rel_i2c_bus, scl, sda_o, slv} \subseteq Bit
  /\ data_cache \in [0 .. MAX_BYTES - 1 -> Byte]
  /\ fsm_pstate \in {"IDLE", "START", "ACK", "ADDR", "DATA", "STOP"}
  /\ tck_cntr \in 0 .. i2c_clk_div_cnt
  /\ data_cntr \in 0 .. 8 * (MAX_BYTES + 1)
  /\ pc \in {"idle", "addr", "data", "config", "poll", "nack", "fetch"}
  /\ res \in {"none", "OK", "NACK", "ERROR"}
  /\ gap \in 0 .. LB_GAP - 1

\* What a write of x puts on the wires when every byte is acknowledged: the
\* address, the bytes, and a 0 from the slave after each of them.
WriteFrame(x) ==
  [i \in 1 .. 9 * (x.n + 1) |->
     IF i <= 7 THEN x.addr[i]
     ELSE IF i = 8 \/ i % 9 = 0 THEN 0
     ELSE x.data[(i - 1) \div 9][((i - 1) % 9) + 1]]

\* The bits of the transaction under way or just finished; a STOP leaves the
\* bit of its own rising clock behind.
Frame == IF xtn.stop = 1 THEN mon.last ELSE mon.bits
StopBit == IF xtn.stop = 1 THEN <<0>> ELSE << >>

(***************************************************************************)
(* i2c_xtn_write returns I2C_OK only when the slave has been sent the      *)
(* address and exactly the bytes given, in order, each bit with one clock  *)
(* pulse, and has acknowledged every one of them.                          *)
(***************************************************************************)
WriteDelivered ==
  (res = "OK" /\ xtn.rd = 0 /\ pc = "idle") => Frame = WriteFrame(xtn) \o StopBit

(***************************************************************************)
(* i2c_xtn_write and _read return I2C_NACK_DETECTED only when the slave    *)
(* left a byte of this transaction unacknowledged, and nothing was sent    *)
(* after that byte: the flag of an earlier transaction is not reported.    *)
(***************************************************************************)
NackHonest ==
  (res = "NACK" /\ pc = "idle") =>
    \E k \in 1 .. xtn.n + 1 :
      /\ Len(Frame) = 9 * k + Len(StopBit)
      /\ Frame[9 * k] = 1
      /\ \A j \in 1 .. k - 1 : Frame[9 * j] = 0

(***************************************************************************)
(* i2c_xtn_read returns I2C_OK with the bytes the slave sent, although it  *)
(* samples the wire two clocks late and collects the bits in registers the *)
(* firmware also writes.                                                   *)
(***************************************************************************)
ReadReturnsData ==
  (res = "OK" /\ xtn.rd = 1 /\ pc = "idle") => bffr = slvSent /\ Len(bffr) = xtn.n

(***************************************************************************)
(* Between START and STOP the data wire only moves while the clock is low, *)
(* whoever drives it, also when it passes from the master to the slave and *)
(* back.                                                                   *)
(***************************************************************************)
SdaStable ==
  [][(scl = 1 /\ scl' = 1 /\ SDA # SDA') => fsm_pstate \in {"START", "STOP"}]_vars

(***************************************************************************)
(* The firmware's wait for the busy bit ends: whatever the slave does,     *)
(* every call returns.                                                     *)
(***************************************************************************)
CallReturns == (pc # "idle") ~> (pc = "idle")

(***************************************************************************)
(* What a call of i2c_xtn_write or i2c_xtn_read returns is what happened   *)
(* on the wires during that call, with every register within its width.    *)
(***************************************************************************)
CallHonest == TypeOK /\ WriteDelivered /\ NackHonest /\ ReadReturnsData

(***************************************************************************)
(* Every transaction is driven to its end by the rules of the bus.         *)
(***************************************************************************)
BusProtocol == SdaStable /\ CallReturns
=============================================================================

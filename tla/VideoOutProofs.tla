--------------------------- MODULE VideoOutProofs ---------------------------
(***************************************************************************)
(* Theorems about the video output, for every picture size and timing and  *)
(* every depth of the line buffer.                                         *)
(***************************************************************************)
EXTENDS VideoOut, TLAPS

\* The parts of TypeOK that the line buffer's argument needs.
BffrType ==
  /\ mem \in Seq(Nat) /\ pxl_cntr \in Nat
  /\ bffr \in FifoOf(Nat) /\ bffr.seen <= Len(bffr.q)
  /\ Len(mem) <= MaxOut

-----------------------------------------------------------------------------
(***************************************************************************)
(* The FIFO operations of the line buffer: their type, and what they do to *)
(* the number of words the write side counts.                              *)
(***************************************************************************)
FifoOK(f) == f \in FifoOf(Nat) /\ f.seen <= Len(f.q)
Used(f)   == Len(f.q) + f.held

LEMMA EmptyUsed == FifoOK(EmptyFifo) /\ Used(EmptyFifo) = 0
BY DEF FifoOK, FifoOf, EmptyFifo, Used

LEMMA PushUsed ==
  ASSUME NEW f, FifoOK(f), NEW d \in Nat, NEW x \in Nat
  PROVE  /\ FifoOK(FifoPush(f, d, x))
         /\ Used(FifoPush(f, d, x)) <= Used(f) + 1
<1>1. f.q \in Seq(Nat) /\ Len(f.q) \in Nat /\ f.held \in Nat /\ f.seen <= Len(f.q)
  BY DEF FifoOK, FifoOf
<1>2. CASE WrFull(f, d)
  BY <1>1, <1>2 DEF FifoOK, FifoPush, Used
<1>3. CASE ~WrFull(f, d)
  <2>1. FifoPush(f, d, x) = [f EXCEPT !.q = Append(f.q, x)]
    BY <1>3 DEF FifoPush
  <2>2. Append(f.q, x) \in Seq(Nat) /\ Len(Append(f.q, x)) = Len(f.q) + 1
    BY <1>1
  <2>3. /\ FifoPush(f, d, x).q = Append(f.q, x)
        /\ FifoPush(f, d, x).held = f.held /\ FifoPush(f, d, x).seen = f.seen
    BY <2>1 DEF FifoOK, FifoOf
  <2>4. FifoPush(f, d, x) \in FifoOf(Nat)
    BY <2>1, <2>2 DEF FifoOK, FifoOf
  <2>5. Len(f.q) + 1 + f.held <= Len(f.q) + f.held + 1
        /\ f.seen <= Len(f.q) + 1
    <3>1. f.seen \in Nat
      BY DEF FifoOK, FifoOf
    <3> QED BY <1>1, <3>1
  <2> QED BY <2>2, <2>3, <2>4, <2>5 DEF FifoOK, Used
<1> QED BY <1>2, <1>3

LEMMA PopUsed ==
  ASSUME NEW f, FifoOK(f)
  PROVE  FifoOK(FifoPop(f)) /\ Used(FifoPop(f)) = Used(f)
BY DEF FifoOK, FifoOf, FifoPop, Used, RdEmpty

LEMMA SyncUsed ==
  ASSUME NEW f, FifoOK(f)
  PROVE  /\ FifoOK(SyncRdSide(f)) /\ FifoOK(SyncWrSide(f))
         /\ Used(SyncRdSide(f)) = Used(f) /\ Used(SyncWrSide(f)) <= Used(f)
BY DEF FifoOK, FifoOf, SyncRdSide, SyncWrSide, Used

LEMMA UsedNat == ASSUME NEW f, FifoOK(f) PROVE Used(f) \in Nat
BY DEF FifoOK, FifoOf, Used

LEMMA StillFits ==
  \A u, v, m, k, g, d \in Int :
    u + m + g < d /\ v <= u + k => v + (m - k + g) < d
OBVIOUS

-----------------------------------------------------------------------------
(***************************************************************************)
(* The line buffer never overflows when the memory system holds fewer      *)
(* reads than the almost-full margin: the words stored and the words still *)
(* to come always fit together.                                            *)
(***************************************************************************)
BffrInv == BffrType /\ NeverOverflows

LEMMA FetchStep ==
  ASSUME BffrInv, NEW grant \in BOOLEAN, NEW rdv \in BOOLEAN,
         Fetch(grant, rdv), Store(rdv)
  PROVE  BffrInv'
<1> DEFINE rest == IF rdv THEN Tail(mem) ELSE mem
           k == IF rdv THEN 1 ELSE 0
<1>1. /\ mem \in Seq(Nat) /\ pxl_cntr \in Nat /\ FifoOK(bffr) /\ Len(mem) <= MaxOut
      /\ Used(bffr) + Len(mem) < BFFR_DEPTH /\ bffr_ovrflw = 0
  BY DEF BffrInv, BffrType, NeverOverflows, FifoOK, Used
<1>2. Used(bffr) \in Nat /\ Len(mem) \in Nat
  BY <1>1, UsedNat
<1>3. rdv => mem # << >> /\ Head(mem) \in Nat
  BY <1>1 DEF Fetch
<1>4. rest \in Seq(Nat) /\ Len(rest) = Len(mem) - k
  BY <1>1, <1>3
<1>5. /\ mem' = (IF grant THEN Append(rest, pxl_cntr) ELSE rest)
      /\ grant => Len(mem) < MaxOut /\ ~bffr_afull
  BY DEF Fetch, sys_mem_rden
<1>6. FifoOK(bffr') /\ Used(bffr') <= Used(bffr) + k
  <2>1. CASE line_bffr_en = 0 \/ line_bffr_en' = 0
    BY <2>1, EmptyUsed, <1>2 DEF Store
  <2>2. CASE ~(line_bffr_en = 0 \/ line_bffr_en' = 0) /\ rdv
    <3>1. bffr' = FifoPush(bffr, BFFR_DEPTH, Head(mem)) /\ k = 1
      BY <2>2 DEF Store
    <3>2. BFFR_DEPTH \in Nat
      BY VideoAssumption
    <3> QED BY <3>1, <3>2, <1>1, <1>3, <2>2, PushUsed
  <2>3. CASE ~(line_bffr_en = 0 \/ line_bffr_en' = 0) /\ ~rdv
    BY <2>3, <1>1, <1>2 DEF Store
  <2> QED BY <2>1, <2>2, <2>3
<1>7. mem' \in Seq(Nat) /\ Len(mem') = Len(mem) - k + (IF grant THEN 1 ELSE 0)
  <2>1. CASE grant
    BY <2>1, <1>1, <1>4, <1>5
  <2>2. CASE ~grant
    BY <2>2, <1>1, <1>4, <1>5
  <2> QED BY <2>1, <2>2
<1>8. Used(bffr') \in Nat /\ k \in {0, 1}
  BY <1>6, UsedNat
<1>9. grant => Used(bffr) + Len(mem) + 1 < BFFR_DEPTH
  <2>1. wrusedw = Used(bffr)
    <3>1. Used(bffr) \in 0 .. BFFR_DEPTH - 1 /\ BFFR_DEPTH \in Nat \ {0}
      BY <1>1, <1>2, VideoAssumption
    <3>2. wrusedw = Used(bffr) % BFFR_DEPTH
      BY DEF wrusedw, Used
    <3>3. \A n \in Nat \ {0} : \A u \in 0 .. n - 1 : u % n = u
      OBVIOUS
    <3> QED BY <3>1, <3>2, <3>3, Zenon
  <2>2. grant => Used(bffr) <= BFFR_DEPTH - AFULL_MARGIN
    <3>1. BFFR_DEPTH \in Nat /\ AFULL_MARGIN \in Nat
      BY VideoAssumption
    <3> QED BY <1>2, <1>5, <2>1, <3>1 DEF bffr_afull
  <2>3. /\ BFFR_DEPTH \in Nat /\ AFULL_MARGIN \in Nat /\ MaxOut \in Nat
        /\ MaxOut < AFULL_MARGIN
    BY VideoAssumption
  <2>4. grant => Len(mem) < MaxOut
    BY <1>5
  <2> QED BY <1>2, <2>2, <2>3, <2>4
<1>10. Used(bffr') + Len(mem') < BFFR_DEPTH
  <2> DEFINE g == IF grant THEN 1 ELSE 0
  <2>1. /\ Used(bffr) + Len(mem) + g < BFFR_DEPTH /\ Used(bffr') <= Used(bffr) + k
        /\ Len(mem') = Len(mem) - k + g
    BY <1>1, <1>2, <1>6, <1>7, <1>9
  <2>2. k \in Int /\ g \in Int /\ BFFR_DEPTH \in Int /\ Used(bffr) \in Int
        /\ Used(bffr') \in Int /\ Len(mem) \in Int
    BY <1>2, <1>8, VideoAssumption
  <2> HIDE DEF k, g
  <2>3. Len(mem) - k + g \in Int
    BY <2>2
  <2> QED BY <2>1, <2>2, <2>3, StillFits, Zenon
<1>11. Len(mem') <= MaxOut
  <2>1. MaxOut \in Nat /\ Len(mem) <= MaxOut
    BY <1>1, VideoAssumption
  <2>2. k \in {0, 1}
    BY <1>8
  <2> HIDE DEF k
  <2>3. CASE grant
    <3>1. Len(mem) < MaxOut /\ Len(mem') = Len(mem) - k + 1
      BY <2>3, <1>5, <1>7
    <3> QED BY <3>1, <2>1, <2>2, <1>2
  <2>4. CASE ~grant
    <3>1. Len(mem') = Len(mem) - k + 0
      BY <2>4, <1>7
    <3> QED BY <3>1, <2>1, <2>2, <1>2
  <2> QED BY <2>3, <2>4
<1>12. pxl_cntr' \in Nat
  BY <1>1 DEF Fetch, NextPxl, SYS_MEM_START_ADDR
<1>13. bffr_ovrflw' = 0
  <2>1. ~WrFull(bffr, BFFR_DEPTH)
    BY <1>1, <1>2, VideoAssumption DEF WrFull, Used
  <2> QED BY <1>1, <2>1 DEF Fetch
<1> QED
  BY <1>6, <1>7, <1>10, <1>11, <1>12, <1>13
  DEF BffrInv, BffrType, NeverOverflows, FifoOK, Used

LEMMA BffrInit == Init => BffrInv
BY VideoAssumption
DEF Init, BffrInv, BffrType, NeverOverflows, FifoOf, EmptyFifo, SYS_MEM_START_ADDR

LEMMA BffrNext == BffrInv /\ [Next]_vars => BffrInv'
<1> SUFFICES ASSUME BffrInv, [Next]_vars PROVE BffrInv'
  OBVIOUS
<1>1. ASSUME NEW grant \in BOOLEAN, NEW rdv \in BOOLEAN, ClkEdge(grant, rdv)
      PROVE  BffrInv'
  <2>1. Fetch(grant, rdv) /\ Store(rdv)
    BY <1>1, Zenon DEF ClkEdge
  <2> QED BY <2>1, FetchStep
<1>2. ASSUME bffr' = bffr \/ bffr' = FifoPop(bffr)
               \/ bffr' \in {SyncRdSide(bffr), SyncWrSide(bffr)},
             UNCHANGED clkVars
      PROVE  BffrInv'
  <2>1. FifoOK(bffr) /\ Used(bffr) \in Nat
    BY UsedNat DEF BffrInv, BffrType, FifoOK
  <2>2. FifoOK(bffr') /\ Used(bffr') <= Used(bffr)
    BY <1>2, <2>1, PopUsed, SyncUsed
  <2>3. Used(bffr') \in Nat
    BY <2>2, UsedNat
  <2>4. mem' = mem /\ pxl_cntr' = pxl_cntr /\ bffr_ovrflw' = bffr_ovrflw
    BY <1>2 DEF clkVars
  <2>5. Used(bffr) + Len(mem) < BFFR_DEPTH /\ Len(mem) \in Nat
    <3>1. NeverOverflows /\ mem \in Seq(Nat)
      BY DEF BffrInv, BffrType
    <3> QED BY <3>1 DEF NeverOverflows, Used
  <2>6. Used(bffr') + Len(mem') < BFFR_DEPTH
    <3>1. BFFR_DEPTH \in Nat
      BY VideoAssumption
    <3>2. Used(bffr') + Len(mem) <= Used(bffr) + Len(mem)
      BY <2>1, <2>2, <2>3, <2>5
    <3>3. Used(bffr') + Len(mem) < BFFR_DEPTH
      BY <2>1, <2>3, <2>5, <3>1, <3>2
    <3> QED BY <2>4, <3>3
  <2> QED
    BY <2>2, <2>4, <2>6 DEF BffrInv, BffrType, NeverOverflows, FifoOK, Used
<1>3. ASSUME HdmiEdge PROVE BffrInv'
  <2>1. (bffr' = bffr \/ bffr' = FifoPop(bffr)) /\ UNCHANGED clkVars
    BY <1>3, Zenon DEF HdmiEdge
  <2> QED BY <1>2, <2>1
<1>4. ASSUME Sync PROVE BffrInv'
  BY <1>2, <1>4 DEF Sync
<1>5. ASSUME UNCHANGED vars PROVE BffrInv'
  BY <1>2, <1>5 DEF vars
<1> QED BY <1>1, <1>3, <1>4, <1>5 DEF Next

(***************************************************************************)
(* adv7513_cntrlr's line buffer loses no pixel, for every memory system    *)
(* that holds fewer reads than the margin, however slowly it answers.      *)
(***************************************************************************)
THEOREM LineBufferSafe == Spec => []NeverOverflows
<1>1. BffrInv => NeverOverflows
  BY DEF BffrInv
<1> QED BY <1>1, BffrInit, BffrNext, PTL DEF Spec

-----------------------------------------------------------------------------
(***************************************************************************)
(* The driver's timing.  The theorem needs to know what state the machines *)
(* are in when the enable bit changes: they have come to rest before it is *)
(* set, and they have only left IDLE while it may still be seen changing.  *)
(***************************************************************************)
Rest ==
  /\ drvr_en = 0 /\ since >= 2 => hfsm = "IDLE" /\ vfsm = "IDLE"
  /\ drvr_en = 1 /\ since = 0 => hfsm = "IDLE" /\ vfsm = "IDLE"
  /\ drvr_en = 1 /\ since = 1 => hfsm \in {"IDLE", "FP"} /\ vfsm \in {"IDLE", "FP"}

DrvType ==
  /\ drvr_en \in Bit /\ since \in 0 .. CFG_GAP
  /\ hfsm \in States /\ vfsm \in States
  /\ hcntr \in 0 .. HTOTAL_W - 1 /\ vcntr \in 0 .. VTOTAL_W - 1

DrvInv == DrvType /\ Rest /\ TimingInStep

LEMMA Widths ==
  /\ HVALID_W \in Nat \ {0} /\ HFP_W \in Nat \ {0} /\ HSYNC_W \in Nat \ {0}
  /\ HBP_W \in Nat \ {0} /\ VVALID_W \in Nat \ {0} /\ VFP_W \in Nat \ {0}
  /\ VSYNC_W \in Nat \ {0} /\ VBP_W \in Nat \ {0} /\ CFG_GAP \in Nat \ {0, 1}
BY VideoAssumption

LEMMA Ends ==
  /\ HEnd["FP"] = HFP_W - 1 /\ HEnd["SYNC"] = HFP_W + HSYNC_W - 1
  /\ HEnd["BP"] = HFP_W + HSYNC_W + HBP_W - 1 /\ HEnd["VALID"] = HTOTAL_W - 1
  /\ VEnd["FP"] = VFP_W - 1 /\ VEnd["SYNC"] = VFP_W + VSYNC_W - 1
  /\ VEnd["BP"] = VFP_W + VSYNC_W + VBP_W - 1 /\ VEnd["VALID"] = VTOTAL_W - 1
  /\ After["FP"] = "SYNC" /\ After["SYNC"] = "BP" /\ After["BP"] = "VALID"
  /\ After["VALID"] = "FP"
BY DEF HEnd, VEnd, After

LEMMA CounterType ==
  ASSUME DrvType, Counters
  PROVE  hcntr' \in 0 .. HTOTAL_W - 1 /\ vcntr' \in 0 .. VTOTAL_W - 1
BY Widths DEF DrvType, Counters, hcntr_wrap, vcntr_wrap, HTOTAL_W, VTOTAL_W

\* An enabled machine: its next state and the next count agree.
LEMMA HStep ==
  ASSUME DrvType, Counters,
         hfsm = "SYNC"  => hcntr \in HFP_W .. HFP_W + HSYNC_W - 1,
         hfsm = "BP"    => hcntr \in HFP_W + HSYNC_W .. HStart - 1,
         hfsm = "VALID" => hcntr \in HStart .. HTOTAL_W - 1
  PROVE  /\ hfsm_nstate(1) \in States
         /\ hfsm_nstate(1) = "SYNC"  => hcntr' \in HFP_W .. HFP_W + HSYNC_W - 1
         /\ hfsm_nstate(1) = "BP"    => hcntr' \in HFP_W + HSYNC_W .. HStart - 1
         /\ hfsm_nstate(1) = "VALID" => hcntr' \in HStart .. HTOTAL_W - 1
<1>1. /\ hcntr \in 0 .. HTOTAL_W - 1
      /\ hcntr' = (IF hcntr = HTOTAL_W - 1 THEN 0
                   ELSE IF hfsm # "IDLE" THEN hcntr + 1 ELSE hcntr)
  BY DEF DrvType, Counters, hcntr_wrap
<1>2. CASE hfsm = "IDLE"
  BY <1>2 DEF hfsm_nstate, States
<1>3. CASE hfsm = "FP"
  BY <1>1, <1>3, Widths, Ends DEF hfsm_nstate, States, HTOTAL_W
<1>4. CASE hfsm = "SYNC"
  BY <1>1, <1>4, Widths, Ends DEF hfsm_nstate, States, HTOTAL_W, HStart
<1>5. CASE hfsm = "BP"
  BY <1>1, <1>5, Widths, Ends DEF hfsm_nstate, States, HTOTAL_W, HStart
<1>6. CASE hfsm = "VALID"
  BY <1>1, <1>6, Widths, Ends DEF hfsm_nstate, States, HTOTAL_W, HStart
<1> QED BY <1>2, <1>3, <1>4, <1>5, <1>6 DEF DrvType, States

LEMMA VStep ==
  ASSUME DrvType, Counters,
         vfsm = "SYNC"  => vcntr \in VFP_W .. VFP_W + VSYNC_W - 1,
         vfsm = "BP"    => vcntr \in VFP_W + VSYNC_W .. VStart - 1,
         vfsm = "VALID" => vcntr \in VStart .. VTOTAL_W - 1
  PROVE  /\ vfsm_nstate(1) \in States
         /\ vfsm_nstate(1) = "SYNC"  => vcntr' \in VFP_W .. VFP_W + VSYNC_W - 1
         /\ vfsm_nstate(1) = "BP"    => vcntr' \in VFP_W + VSYNC_W .. VStart - 1
         /\ vfsm_nstate(1) = "VALID" => vcntr' \in VStart .. VTOTAL_W - 1
<1>1. /\ vcntr \in 0 .. VTOTAL_W - 1
      /\ vcntr' = (IF vcntr = VTOTAL_W - 1 /\ hcntr_wrap THEN 0
                   ELSE IF vfsm # "IDLE" /\ hcntr_wrap THEN vcntr + 1 ELSE vcntr)
  BY DEF DrvType, Counters, vcntr_wrap
<1>2. CASE vfsm = "IDLE"
  BY <1>2 DEF vfsm_nstate, States
<1>3. CASE vfsm = "FP"
  BY <1>1, <1>3, Widths, Ends DEF vfsm_nstate, States, VTOTAL_W
<1>4. CASE vfsm = "SYNC"
  BY <1>1, <1>4, Widths, Ends DEF vfsm_nstate, States, VTOTAL_W, VStart
<1>5. CASE vfsm = "BP"
  BY <1>1, <1>5, Widths, Ends DEF vfsm_nstate, States, VTOTAL_W, VStart
<1>6. CASE vfsm = "VALID"
  BY <1>1, <1>6, Widths, Ends DEF vfsm_nstate, States, VTOTAL_W, VStart
<1> QED BY <1>2, <1>3, <1>4, <1>5, <1>6 DEF DrvType, States

\* A write of the register happens when the machines have had time to see
\* the last change.
LEMMA ClkTiming ==
  ASSUME DrvInv, NEW grant \in BOOLEAN, NEW rdv \in BOOLEAN, ClkEdge(grant, rdv)
  PROVE  DrvInv'
<1>1. UNCHANGED <<hfsm, vfsm, hcntr, vcntr>>
  BY Zenon DEF ClkEdge, drvVars
<1>2. ASSUME NEW l \in Bit, NEW d \in Bit, WriteConfig(l, d)
      PROVE  DrvInv'
  <2>1. since = CFG_GAP /\ drvr_en' = d /\ since' = (IF d = drvr_en THEN since ELSE 0)
    BY <1>2 DEF WriteConfig
  <2>2. DrvType'
    BY <1>1, <2>1, Widths DEF DrvInv, DrvType
  <2>3. since >= 2 /\ since # 1 /\ drvr_en \in {0, 1} /\ d \in {0, 1}
    BY <2>1, Widths DEF DrvInv, DrvType, Bit
  <2>4. Rest'
    BY <1>1, <2>1, <2>3 DEF DrvInv, Rest
  <2>5. TimingInStep'
    BY <1>1, <2>1, <2>3 DEF DrvInv, TimingInStep
  <2> QED BY <2>2, <2>4, <2>5 DEF DrvInv
<1>3. ASSUME NoConfig(rdv) PROVE DrvInv'
  <2>1. drvr_en' = drvr_en /\ since' = since
    BY <1>3 DEF NoConfig, cfgVars
  <2> QED BY <1>1, <2>1 DEF DrvInv, DrvType, Rest, TimingInStep
<1> QED BY <1>2, <1>3, Zenon DEF ClkEdge

LEMMA HdmiTiming ==
  ASSUME DrvInv, HdmiEdge
  PROVE  DrvInv'
<1>1. /\ DrvType /\ Rest /\ TimingInStep /\ Counters
      /\ drvr_en' = drvr_en
      /\ since' = (IF since < CFG_GAP THEN since + 1 ELSE since)
      /\ hfsm' \in (IF since = 0 THEN Torn(hfsm_nstate(1)) ELSE {hfsm_nstate(drvr_en)})
      /\ vfsm' \in (IF since = 0 THEN Torn(vfsm_nstate(1)) ELSE {vfsm_nstate(drvr_en)})
  BY Zenon DEF DrvInv, HdmiEdge, cfgVars
<1>2. drvr_en \in {0, 1} /\ since \in 0 .. CFG_GAP /\ CFG_GAP \in Nat \ {0, 1}
  BY <1>1, Widths DEF DrvType, Bit
<1>3. since' \in 0 .. CFG_GAP /\ hcntr' \in 0 .. HTOTAL_W - 1 /\ vcntr' \in 0 .. VTOTAL_W - 1
  BY <1>1, <1>2, CounterType
<1>4. hfsm_nstate(0) = "IDLE" /\ vfsm_nstate(0) = "IDLE"
  BY DEF hfsm_nstate, vfsm_nstate
\* On the first edge after the bit was set the machines can only leave IDLE.
<1>5. CASE since = 0 /\ drvr_en = 1
  <2>1. hfsm = "IDLE" /\ vfsm = "IDLE"
    BY <1>1, <1>5 DEF Rest
  <2>2. hfsm' \in {"IDLE", "FP"} /\ vfsm' \in {"IDLE", "FP"}
    BY <1>1, <1>5, <2>1 DEF Torn, hfsm_nstate, vfsm_nstate
  <2> QED BY <1>1, <1>2, <1>3, <1>5, <2>2
      DEF DrvInv, DrvType, Rest, TimingInStep, States, Bit
\* On the first edge after it was cleared they go anywhere but to VALID.
<1>6. CASE since = 0 /\ drvr_en = 0
  <2>1. /\ hfsm_nstate(1) \in States /\ vfsm_nstate(1) \in States
        /\ hfsm_nstate(1) = "VALID" => hcntr' \in HStart .. HTOTAL_W - 1
        /\ vfsm_nstate(1) = "VALID" => vcntr' \in VStart .. VTOTAL_W - 1
    BY <1>1, <1>6, HStep, VStep DEF TimingInStep
  <2>2. hfsm' \in Torn(hfsm_nstate(1)) /\ vfsm' \in Torn(vfsm_nstate(1)) /\ since' = 1
    BY <1>1, <1>2, <1>6
  <2>3. /\ hfsm' \in States /\ vfsm' \in States
        /\ hfsm' = "VALID" => hfsm_nstate(1) = "VALID"
        /\ vfsm' = "VALID" => vfsm_nstate(1) = "VALID"
    BY <2>1, <2>2 DEF Torn, States
  <2> QED BY <1>1, <1>2, <1>3, <1>6, <2>1, <2>2, <2>3
      DEF DrvInv, DrvType, Rest, TimingInStep, Bit
\* From then on a disabled driver is idle.
<1>7. CASE since # 0 /\ drvr_en = 0
  <2>1. hfsm' = "IDLE" /\ vfsm' = "IDLE"
    BY <1>1, <1>4, <1>7
  <2> QED BY <1>1, <1>2, <1>3, <1>7, <2>1
      DEF DrvInv, DrvType, Rest, TimingInStep, States, Bit
<1>8. CASE since # 0 /\ drvr_en = 1
  <2>1. hfsm' = hfsm_nstate(1) /\ vfsm' = vfsm_nstate(1) /\ since' \notin {0, 1}
    BY <1>1, <1>2, <1>8
  <2>2. /\ hfsm = "SYNC"  => hcntr \in HFP_W .. HFP_W + HSYNC_W - 1
        /\ hfsm = "BP"    => hcntr \in HFP_W + HSYNC_W .. HStart - 1
        /\ hfsm = "VALID" => hcntr \in HStart .. HTOTAL_W - 1
        /\ vfsm = "SYNC"  => vcntr \in VFP_W .. VFP_W + VSYNC_W - 1
        /\ vfsm = "BP"    => vcntr \in VFP_W + VSYNC_W .. VStart - 1
        /\ vfsm = "VALID" => vcntr \in VStart .. VTOTAL_W - 1
    BY <1>1, <1>8 DEF Rest, TimingInStep
  <2>3. /\ hfsm' \in States
        /\ hfsm' = "SYNC"  => hcntr' \in HFP_W .. HFP_W + HSYNC_W - 1
        /\ hfsm' = "BP"    => hcntr' \in HFP_W + HSYNC_W .. HStart - 1
        /\ hfsm' = "VALID" => hcntr' \in HStart .. HTOTAL_W - 1
    BY <1>1, <2>1, <2>2, HStep
  <2>4. /\ vfsm' \in States
        /\ vfsm' = "SYNC"  => vcntr' \in VFP_W .. VFP_W + VSYNC_W - 1
        /\ vfsm' = "BP"    => vcntr' \in VFP_W + VSYNC_W .. VStart - 1
        /\ vfsm' = "VALID" => vcntr' \in VStart .. VTOTAL_W - 1
    BY <1>1, <2>1, <2>2, VStep
  <2>5. drvr_en' = 1 /\ drvr_en' \in Bit
    BY <1>1, <1>8 DEF Bit
  <2> QED BY <1>3, <2>1, <2>3, <2>4, <2>5
      DEF DrvInv, DrvType, Rest, TimingInStep, HStart, VStart
<1> QED BY <1>2, <1>5, <1>6, <1>7, <1>8

LEMMA DrvInit == Init => DrvInv
BY Widths DEF Init, DrvInv, DrvType, Rest, TimingInStep, States, Bit, HTOTAL_W, VTOTAL_W

LEMMA DrvNext == DrvInv /\ [Next]_vars => DrvInv'
<1> SUFFICES ASSUME DrvInv, [Next]_vars PROVE DrvInv'
  OBVIOUS
<1>1. ASSUME NEW grant \in BOOLEAN, NEW rdv \in BOOLEAN, ClkEdge(grant, rdv)
      PROVE  DrvInv'
  BY <1>1, ClkTiming
<1>2. ASSUME HdmiEdge PROVE DrvInv'
  BY <1>2, HdmiTiming
<1>3. ASSUME Sync \/ UNCHANGED vars PROVE DrvInv'
  <2>1. UNCHANGED <<drvr_en, since, hfsm, vfsm, hcntr, vcntr>>
    BY <1>3 DEF Sync, vars, cfgVars, drvVars
  <2> QED BY <2>1 DEF DrvInv, DrvType, Rest, TimingInStep
<1> QED BY <1>1, <1>2, <1>3 DEF Next

(***************************************************************************)
(* For every timing and for every moment at which the driver is enabled    *)
(* and disabled, its state machines agree with its counters.               *)
(***************************************************************************)
THEOREM DriverInStep == Spec => []TimingInStep
<1>1. DrvInv => TimingInStep
  BY DEF DrvInv
<1> QED BY <1>1, DrvInit, DrvNext, PTL DEF Spec

-----------------------------------------------------------------------------
(***************************************************************************)
(* Pixels in their place.  The pixels on their way to the screen are those *)
(* in the line buffer, then those the memory still has to answer; the next *)
(* one to be asked for follows them.  Place(i) is the address of the i-th. *)
(***************************************************************************)
Place(q, m, p, i) ==
  IF i <= Len(q) THEN q[i]
  ELSE IF i <= Len(q) + Len(m) THEN m[i - Len(q)] ELSE p

Succ(a) == IF a = SYS_MEM_STOP_ADDR THEN SYS_MEM_START_ADDR ELSE a + 1

\* They follow each other in the order of the screen, starting with e.
Chained(q, m, p, e) ==
  /\ Place(q, m, p, 1) = e
  /\ \A i \in 1 .. Len(q) + Len(m) : Place(q, m, p, i + 1) = Succ(Place(q, m, p, i))

\* The next position of the screen that takes a pixel.
NextPos ==
  IF vfsm # "VALID" THEN 0
  ELSE (vcntr - VStart) * HVALID_W + (IF hcntr >= HStart THEN hcntr - HStart ELSE 0)

\* From the first line of a frame on, the line's machine follows its counter.
LineFollows ==
  vfsm \in {"SYNC", "BP", "VALID"} => hfsm # "IDLE" /\ (hfsm = "FP" => hcntr < HFP_W)

PixelInv ==
  clean => /\ line_bffr_en = 1 /\ drvr_en = 1
           /\ LineFollows
           /\ Chained(bffr.q, mem, pxl_cntr, NextPos)

AllInv == BffrInv /\ DrvInv /\ PixelInv

LEMMA PlaceAnswer ==
  ASSUME NEW q \in Seq(Nat), NEW m \in Seq(Nat), NEW p, NEW e, m # << >>, Chained(q, m, p, e)
  PROVE  Chained(Append(q, Head(m)), Tail(m), p, e)
<1> DEFINE q1 == Append(q, Head(m))
           m1 == Tail(m)
<1>1. q1 \in Seq(Nat) /\ m1 \in Seq(Nat) /\ Len(q1) = Len(q) + 1 /\ Len(m1) = Len(m) - 1
  OBVIOUS
<1>2. \A i \in 1 .. Len(q) + Len(m) + 1 : Place(q1, m1, p, i) = Place(q, m, p, i)
  <2> SUFFICES ASSUME NEW i \in 1 .. Len(q) + Len(m) + 1
               PROVE  Place(q1, m1, p, i) = Place(q, m, p, i)
    OBVIOUS
  <2>1. CASE i <= Len(q)
    BY <2>1, <1>1 DEF Place
  <2>2. CASE i = Len(q) + 1
    BY <2>2, <1>1 DEF Place
  <2>3. CASE i > Len(q) + 1 /\ i <= Len(q) + Len(m)
    <3>1. m1[i - (Len(q) + 1)] = m[i - Len(q)]
      BY <2>3
    <3> QED BY <2>3, <3>1, <1>1 DEF Place
  <2>4. CASE i > Len(q) + Len(m)
    BY <2>4, <1>1 DEF Place
  <2> QED BY <2>1, <2>2, <2>3, <2>4
<1>3. Len(q1) + Len(m1) = Len(q) + Len(m) /\ Len(q) + Len(m) \in Nat
  BY <1>1
<1> DEFINE n == Len(q) + Len(m)
<1>4. Place(q, m, p, 1) = e /\ \A i \in 1 .. n : Place(q, m, p, i + 1) = Succ(Place(q, m, p, i))
  BY DEF Chained
<1> HIDE DEF q1, m1, n
<1>5. ASSUME NEW i \in 1 .. n PROVE Place(q1, m1, p, i + 1) = Succ(Place(q1, m1, p, i))
  <2>1. i \in 1 .. n + 1 /\ i + 1 \in 1 .. n + 1
    BY <1>3 DEF n
  <2> QED BY <2>1, <1>2, <1>4 DEF n
<1>6. Place(q1, m1, p, 1) = e
  <2>1. 1 \in 1 .. n + 1
    BY <1>3 DEF n
  <2> QED BY <2>1, <1>2, <1>4 DEF n
<1> QED BY <1>3, <1>5, <1>6 DEF Chained, q1, m1, n

LEMMA PlaceAsk ==
  ASSUME NEW q \in Seq(Nat), NEW m \in Seq(Nat), NEW p \in Nat, NEW e, Chained(q, m, p, e)
  PROVE  Chained(q, Append(m, p), Succ(p), e)
<1> DEFINE m1 == Append(m, p)
           n == Len(q) + Len(m)
<1>1. m1 \in Seq(Nat) /\ Len(m1) = Len(m) + 1 /\ n \in Nat
  OBVIOUS
<1>2. \A i \in 1 .. n + 1 : Place(q, m1, Succ(p), i) = Place(q, m, p, i)
  <2> SUFFICES ASSUME NEW i \in 1 .. n + 1
               PROVE  Place(q, m1, Succ(p), i) = Place(q, m, p, i)
    OBVIOUS
  <2>1. CASE i <= Len(q)
    BY <2>1 DEF Place
  <2>2. CASE i > Len(q) /\ i <= n
    <3>1. m1[i - Len(q)] = m[i - Len(q)]
      BY <2>2
    <3> QED BY <2>2, <3>1, <1>1 DEF Place
  <2>3. CASE i = n + 1
    <3>1. m1[i - Len(q)] = p
      BY <2>3
    <3> QED BY <2>3, <3>1, <1>1 DEF Place
  <2> QED BY <2>1, <2>2, <2>3
<1>3. Place(q, m1, Succ(p), n + 2) = Succ(p) /\ Place(q, m, p, n + 1) = p
  BY <1>1 DEF Place
<1>4. Len(q) + Len(m1) = n + 1
  BY <1>1
<1>5. Place(q, m, p, 1) = e /\ \A i \in 1 .. n : Place(q, m, p, i + 1) = Succ(Place(q, m, p, i))
  BY DEF Chained
<1> HIDE DEF m1, n
<1>6. ASSUME NEW i \in 1 .. n + 1
      PROVE  Place(q, m1, Succ(p), i + 1) = Succ(Place(q, m1, Succ(p), i))
  <2>1. CASE i = n + 1
    <3>1. i + 1 = n + 2
      BY <2>1, <1>1
    <3> QED BY <2>1, <3>1, <1>2, <1>3
  <2>2. CASE i # n + 1
    <3>1. i \in 1 .. n /\ i + 1 \in 1 .. n + 1
      BY <2>2, <1>1
    <3> QED BY <3>1, <1>2, <1>5
  <2> QED BY <2>1, <2>2
<1>7. Place(q, m1, Succ(p), 1) = e
  BY <1>1, <1>2, <1>5
<1> QED BY <1>4, <1>6, <1>7 DEF Chained, m1

LEMMA PlaceTake ==
  ASSUME NEW q \in Seq(Nat), NEW m \in Seq(Nat), NEW p, NEW e, q # << >>, Chained(q, m, p, e)
  PROVE  Chained(Tail(q), m, p, Succ(e))
<1> DEFINE q1 == Tail(q)
           n == Len(q) + Len(m)
<1>1. q1 \in Seq(Nat) /\ Len(q1) = Len(q) - 1 /\ n \in Nat /\ Len(q) >= 1
  OBVIOUS
<1>2. \A i \in 1 .. n : Place(q1, m, p, i) = Place(q, m, p, i + 1)
  <2> SUFFICES ASSUME NEW i \in 1 .. n
               PROVE  Place(q1, m, p, i) = Place(q, m, p, i + 1)
    OBVIOUS
  <2>1. CASE i < Len(q)
    BY <2>1, <1>1 DEF Place
  <2>2. CASE i >= Len(q)
    <3>1. i - Len(q1) = (i + 1) - Len(q)
      BY <2>2, <1>1
    <3> QED BY <2>2, <3>1, <1>1 DEF Place
  <2> QED BY <2>1, <2>2
<1>3. Len(q1) + Len(m) = n - 1 /\ n >= 1
  BY <1>1
<1>4. Place(q, m, p, 1) = e /\ \A i \in 1 .. n : Place(q, m, p, i + 1) = Succ(Place(q, m, p, i))
  BY DEF Chained
<1> HIDE DEF q1, n
<1>5. ASSUME NEW i \in 1 .. n - 1
      PROVE  Place(q1, m, p, i + 1) = Succ(Place(q1, m, p, i))
  <2>1. i \in 1 .. n /\ i + 1 \in 1 .. n
    BY <1>1, <1>3
  <2> QED BY <2>1, <1>2, <1>4
<1>6. Place(q1, m, p, 1) = Succ(e)
  <2>1. 1 \in 1 .. n
    BY <1>1, <1>3
  <2> QED BY <2>1, <1>2, <1>4
<1> QED BY <1>3, <1>5, <1>6 DEF Chained, q1

-----------------------------------------------------------------------------
\* The product of whole lines: the last position of the screen is the stop address.
LEMMA Frame ==
  ASSUME NEW a \in 0 .. VVALID_W - 1
  PROVE  /\ a * HVALID_W \in Nat
         /\ (a + 1) * HVALID_W = a * HVALID_W + HVALID_W
         /\ a < VVALID_W - 1 => a * HVALID_W + HVALID_W - 1 < SYS_MEM_STOP_ADDR
         /\ a = VVALID_W - 1 => a * HVALID_W + HVALID_W - 1 = SYS_MEM_STOP_ADDR
<1>1. VVALID_W \in Nat \ {0} /\ HVALID_W \in Nat \ {0} /\ a \in Nat
  BY Widths
<1>2. \A x, y \in Nat : x * y \in Nat /\ (x + 1) * y = x * y + y
  OBVIOUS
<1>3. a * HVALID_W \in Nat /\ (a + 1) * HVALID_W = a * HVALID_W + HVALID_W
  BY <1>1, <1>2
<1>4. \A x, y, z \in Nat : x <= y => x * z <= y * z
  <2> SUFFICES ASSUME NEW x \in Nat, NEW y \in Nat, NEW z \in Nat, x <= y
               PROVE  x * z <= y * z
    OBVIOUS
  <2>1. y - x \in Nat /\ (y - x) * z \in Nat /\ y * z = x * z + (y - x) * z
    OBVIOUS
  <2> QED BY <2>1
<1>5. (VVALID_W - 1) * HVALID_W + HVALID_W = HVALID_W * VVALID_W
  BY <1>1
<1>6. a + 1 <= VVALID_W /\ (a + 1) * HVALID_W \in Nat
  BY <1>1, <1>2
<1>7. CASE a = VVALID_W - 1
  BY <1>7, <1>1, <1>3, <1>5 DEF SYS_MEM_STOP_ADDR
<1>8. CASE a < VVALID_W - 1
  <2>1. (a + 1) * HVALID_W <= (VVALID_W - 1) * HVALID_W
    BY <1>8, <1>1, <1>4
  <2>2. (VVALID_W - 1) * HVALID_W \in Nat /\ HVALID_W * VVALID_W \in Nat
    BY <1>1, <1>2
  <2> QED BY <1>8, <2>1, <2>2, <1>1, <1>3, <1>5 DEF SYS_MEM_STOP_ADDR
<1> QED BY <1>3, <1>7, <1>8, <1>1

\* The driver's step from a position: with a visible pixel to the next one,
\* otherwise nowhere.
LEMMA NextPosStep ==
  ASSUME DrvInv, LineFollows, drvr_en = 1, HdmiEdge
  PROVE  /\ LineFollows'
         /\ NextPos' = IF valid_pxl_range THEN Succ(NextPos) ELSE NextPos
<1>1. /\ DrvType /\ Rest /\ TimingInStep /\ Counters
      /\ hfsm' \in (IF since = 0 THEN Torn(hfsm_nstate(1)) ELSE {hfsm_nstate(drvr_en)})
      /\ vfsm' \in (IF since = 0 THEN Torn(vfsm_nstate(1)) ELSE {vfsm_nstate(drvr_en)})
  BY Zenon DEF DrvInv, HdmiEdge
<1>2. /\ hcntr \in 0 .. HTOTAL_W - 1 /\ vcntr \in 0 .. VTOTAL_W - 1
      /\ hcntr' = (IF hcntr = HTOTAL_W - 1 THEN 0
                   ELSE IF hfsm # "IDLE" THEN hcntr + 1 ELSE hcntr)
      /\ vcntr' = (IF vcntr = VTOTAL_W - 1 /\ hcntr = HTOTAL_W - 1 THEN 0
                   ELSE IF vfsm # "IDLE" /\ hcntr = HTOTAL_W - 1 THEN vcntr + 1 ELSE vcntr)
      /\ hfsm \in States /\ vfsm \in States
  BY <1>1 DEF DrvType, Counters, hcntr_wrap, vcntr_wrap
\* While the bit may still be seen changing no line has begun.
<1>3. CASE since = 0
  <2>1. hfsm = "IDLE" /\ vfsm = "IDLE"
    BY <1>1, <1>3 DEF Rest
  <2>2. vfsm' \in {"IDLE", "FP"}
    BY <1>1, <1>3, <2>1 DEF Torn, vfsm_nstate
  <2> QED BY <2>1, <2>2 DEF LineFollows, NextPos, valid_pxl_range
<1>4. CASE since # 0
  <2>1. hfsm' = hfsm_nstate(1) /\ vfsm' = vfsm_nstate(1)
    BY <1>1, <1>4
  <2>2. vfsm \in {"SYNC", "BP", "VALID"} => since # 1
    BY <1>1 DEF Rest
  \* A line that ends leaves the front porch of the next.
  <2>3. ASSUME hcntr = HTOTAL_W - 1, vfsm # "IDLE"
        PROVE  hcntr' = 0 /\ hfsm' = "FP"
    <3>1. hfsm = "SYNC" => hcntr <= HFP_W + HSYNC_W - 1 \/ since = 1
      BY <1>1, <1>2, Widths DEF TimingInStep, HTOTAL_W, HStart
    <3>2. hfsm = "BP" => hcntr <= HStart - 1 \/ since = 1
      BY <1>1, <1>2, Widths DEF TimingInStep, HTOTAL_W, HStart
    <3>3. since = 1 => hfsm \in {"IDLE", "FP"}
      BY <1>1 DEF Rest
    <3>4. hfsm \in {"IDLE", "FP", "VALID"}
      BY <2>3, <3>1, <3>2, <3>3, <1>2, Widths DEF States, HTOTAL_W, HStart
    <3>5. hfsm_nstate(1) = "FP"
      BY <2>3, <3>4, Widths, Ends DEF hfsm_nstate, HTOTAL_W
    <3> QED BY <2>1, <2>3, <3>5, <1>2
  <2>4. LineFollows'
    <3>1. CASE hcntr = HTOTAL_W - 1 /\ vfsm # "IDLE"
      BY <3>1, <2>3, Widths DEF LineFollows
    <3>2. CASE vfsm = "IDLE"
      BY <3>2, <2>1 DEF vfsm_nstate, LineFollows
    <3>3. CASE hcntr # HTOTAL_W - 1 /\ vfsm # "IDLE"
      <4>1. vfsm' = vfsm
        BY <3>3, <2>1 DEF vfsm_nstate, hcntr_wrap
      <4>2. CASE vfsm \in {"SYNC", "BP", "VALID"}
        <5>1. hfsm # "IDLE" /\ (hfsm = "FP" => hcntr < HFP_W) /\ hcntr' = hcntr + 1
          BY <4>2, <3>3, <1>2 DEF LineFollows
        <5>2. hfsm \in {"FP", "SYNC", "BP", "VALID"}
          BY <5>1, <1>2 DEF States
        <5>3. hfsm = "VALID" => hfsm' = "VALID"
          BY <2>1, <3>3, Ends DEF hfsm_nstate
        <5>4. hfsm = "BP" => hfsm' \in {"BP", "VALID"}
          BY <2>1, Ends DEF hfsm_nstate
        <5>5. hfsm = "SYNC" => hfsm' \in {"SYNC", "BP"}
          BY <2>1, Ends DEF hfsm_nstate
        <5>6. hfsm = "FP" => hfsm' = "SYNC" \/ (hfsm' = "FP" /\ hcntr # HFP_W - 1)
          BY <2>1, Ends DEF hfsm_nstate
        <5>7. hfsm' # "IDLE" /\ (hfsm' = "FP" => hcntr' < HFP_W)
          BY <5>1, <5>2, <5>3, <5>4, <5>5, <5>6, <1>2, Widths
        <5> QED BY <5>7 DEF LineFollows
      <4>3. CASE vfsm = "FP"
        BY <4>1, <4>3 DEF LineFollows
      <4> QED BY <3>3, <4>2, <4>3, <1>2 DEF States
    <3> QED BY <3>1, <3>2, <3>3
  \* Outside the visible lines.
  <2>5. CASE vfsm # "VALID"
    <3>1. ~valid_pxl_range /\ NextPos = 0
      BY <2>5 DEF valid_pxl_range, NextPos
    <3>2. CASE vfsm' # "VALID"
      BY <2>4, <3>1, <3>2 DEF NextPos
    <3>3. CASE vfsm' = "VALID"
      <4>1. vfsm = "BP" /\ vcntr = VStart - 1 /\ hcntr = HTOTAL_W - 1
        <5>1. vfsm \in {"IDLE", "FP", "SYNC", "BP"}
          BY <2>5, <1>2 DEF States
        <5>2. vfsm = "BP" /\ vcntr = VEnd["BP"] /\ hcntr_wrap
          BY <5>1, <3>3, <2>1, Ends DEF vfsm_nstate
        <5> QED BY <5>2, Ends, Widths DEF hcntr_wrap, VStart
      <4>2. hcntr' = 0 /\ vcntr' = VStart
        BY <4>1, <1>2, Widths DEF VStart, VTOTAL_W
      <4>3. HStart \in Nat \ {0} /\ VStart \in Nat
        BY Widths DEF HStart, VStart
      <4>4. VStart - VStart = 0 /\ 0 * HVALID_W = 0
        BY <4>3, Widths
      <4>5. NextPos' = 0 * HVALID_W + 0
        BY <3>3, <4>2, <4>3, <4>4 DEF NextPos, HStart, VStart
      <4> QED BY <2>4, <4>4, <4>5, <3>1
    <3> QED BY <3>2, <3>3
  \* In a visible line, before and in its visible part.
  <2>6. CASE vfsm = "VALID"
    <3> DEFINE a == vcntr - VStart
    <3>1. a \in 0 .. VVALID_W - 1 /\ vcntr = VStart + a /\ VStart \in Nat /\ HStart \in Nat \ {0}
          /\ HTOTAL_W = HStart + HVALID_W /\ VTOTAL_W = VStart + VVALID_W
      BY <2>6, <1>1, <1>2, Widths DEF TimingInStep, VStart, VTOTAL_W, HStart, HTOTAL_W
    <3>2. /\ a * HVALID_W \in Nat
          /\ (a + 1) * HVALID_W = a * HVALID_W + HVALID_W
          /\ a < VVALID_W - 1 => a * HVALID_W + HVALID_W - 1 < SYS_MEM_STOP_ADDR
          /\ a = VVALID_W - 1 => a * HVALID_W + HVALID_W - 1 = SYS_MEM_STOP_ADDR
      BY <3>1, Frame
    <3>3. NextPos = a * HVALID_W + (IF hcntr >= HStart THEN hcntr - HStart ELSE 0)
      BY <2>6 DEF NextPos
    <3>4. hfsm = "VALID" <=> hcntr >= HStart
      <4>1. hfsm # "IDLE" /\ (hfsm = "FP" => hcntr < HFP_W) /\ since # 1
        BY <2>6, <2>2 DEF LineFollows
      <4>2. hfsm \in {"FP", "SYNC", "BP", "VALID"}
        BY <4>1, <1>2 DEF States
      <4>3. /\ hfsm = "VALID" => hcntr \in HStart .. HTOTAL_W - 1
            /\ hfsm = "SYNC" => hcntr \in HFP_W .. HFP_W + HSYNC_W - 1
            /\ hfsm = "BP"   => hcntr \in HFP_W + HSYNC_W .. HStart - 1
        BY <4>1, <1>1 DEF TimingInStep
      <4> QED BY <4>1, <4>2, <4>3, <1>2, Widths DEF HStart, HTOTAL_W
    <3> HIDE DEF a
    <3>5. CASE hfsm # "VALID"
      <4>1. hcntr < HStart /\ ~valid_pxl_range
        BY <3>4, <3>5, <3>1, <1>2, Widths DEF valid_pxl_range
      <4>2. hcntr # HTOTAL_W - 1 /\ hfsm # "IDLE"
        BY <4>1, <3>1, <2>6, <1>2, Widths DEF LineFollows
      <4>3. hcntr' = hcntr + 1 /\ vcntr' = vcntr /\ vfsm' = "VALID"
        BY <4>2, <1>2, <2>1, <2>6 DEF vfsm_nstate, hcntr_wrap
      <4>4. NextPos' = a * HVALID_W + (IF hcntr + 1 >= HStart THEN hcntr + 1 - HStart ELSE 0)
        <5>1. vcntr' - VStart = a
          BY <4>3 DEF a
        <5>2. NextPos' = (vcntr' - VStart) * HVALID_W
                           + (IF hcntr' >= HStart THEN hcntr' - HStart ELSE 0)
          BY <4>3 DEF NextPos, HStart, VStart
        <5>3. (vcntr' - VStart) * HVALID_W = a * HVALID_W
          BY <5>1
        <5>4. (IF hcntr' >= HStart THEN hcntr' - HStart ELSE 0)
                = IF hcntr + 1 >= HStart THEN hcntr + 1 - HStart ELSE 0
          BY <4>3, <1>2, <3>1
        <5> QED BY <5>2, <5>3, <5>4
      <4>5. NextPos' = a * HVALID_W + 0 /\ NextPos = a * HVALID_W + 0
        BY <4>1, <4>4, <3>1, <3>3, <1>2, Widths
      <4> QED BY <2>4, <4>1, <4>5
    <3>6. CASE hfsm = "VALID" /\ hcntr # HTOTAL_W - 1
      <4>1. hcntr >= HStart /\ valid_pxl_range
        BY <3>4, <3>6, <2>6 DEF valid_pxl_range
      <4>2. hcntr' = hcntr + 1 /\ vcntr' = vcntr /\ vfsm' = "VALID"
        BY <3>6, <1>2, <2>1, <2>6 DEF vfsm_nstate, hcntr_wrap
      <4>3. NextPos' = a * HVALID_W + (IF hcntr + 1 >= HStart THEN hcntr + 1 - HStart ELSE 0)
        <5>1. vcntr' - VStart = a
          BY <4>2 DEF a
        <5>2. NextPos' = (vcntr' - VStart) * HVALID_W
                           + (IF hcntr' >= HStart THEN hcntr' - HStart ELSE 0)
          BY <4>2 DEF NextPos, HStart, VStart
        <5>3. (vcntr' - VStart) * HVALID_W = a * HVALID_W
          BY <5>1
        <5>4. (IF hcntr' >= HStart THEN hcntr' - HStart ELSE 0)
                = IF hcntr + 1 >= HStart THEN hcntr + 1 - HStart ELSE 0
          BY <4>2, <1>2, <3>1
        <5> QED BY <5>2, <5>3, <5>4
      <4>4. NextPos' = NextPos + 1
        BY <4>1, <4>3, <3>1, <3>2, <3>3, <1>2, Widths
      <4>5. NextPos < SYS_MEM_STOP_ADDR
        <5> DEFINE ab == a * HVALID_W
        <5>1. ab \in Nat /\ ab + HVALID_W - 1 <= SYS_MEM_STOP_ADDR
          <6>1. SYS_MEM_STOP_ADDR \in Int
            BY Widths DEF SYS_MEM_STOP_ADDR
          <6> QED BY <6>1, <3>1, <3>2, Widths
        <5>2. SYS_MEM_STOP_ADDR \in Int
          BY Widths DEF SYS_MEM_STOP_ADDR
        <5>3. NextPos = ab + (hcntr - HStart)
          BY <4>1, <3>3
        <5>4. hcntr - HStart < HVALID_W - 1 /\ hcntr - HStart \in Nat
          BY <4>1, <3>6, <3>1, <1>2, Widths
        <5> HIDE DEF ab
        <5> QED BY <5>1, <5>2, <5>3, <5>4, Widths
      <4>6. SYS_MEM_STOP_ADDR \in Int /\ NextPos \in Int
        BY <3>1, <3>2, <3>3, <1>2, Widths DEF SYS_MEM_STOP_ADDR
      <4> QED BY <2>4, <4>1, <4>4, <4>5, <4>6 DEF Succ
    <3>7. CASE hfsm = "VALID" /\ hcntr = HTOTAL_W - 1
      <4>1. valid_pxl_range /\ hcntr' = 0
        BY <3>7, <2>6, <1>2 DEF valid_pxl_range
      <4>2. NextPos = a * HVALID_W + HVALID_W - 1
        BY <3>7, <3>1, <3>2, <3>3, <1>2, Widths
      <4>3. CASE a = VVALID_W - 1
        <5>1. vcntr = VTOTAL_W - 1
          BY <4>3, <3>1, <1>2, Widths
        <5>2. vfsm' = "FP"
          BY <5>1, <2>1, <2>6, <3>7, Ends DEF vfsm_nstate, hcntr_wrap
        <5>3. NextPos' = 0 /\ NextPos = SYS_MEM_STOP_ADDR
          BY <5>2, <4>2, <4>3, <3>2 DEF NextPos
        <5> QED BY <2>4, <4>1, <5>3 DEF Succ, SYS_MEM_START_ADDR
      <4>4. CASE a # VVALID_W - 1
        <5>1. vcntr # VTOTAL_W - 1 /\ a < VVALID_W - 1
          BY <4>4, <3>1, <1>2, Widths
        <5>2. vfsm' = "VALID" /\ vcntr' = vcntr + 1
          BY <5>1, <2>1, <2>6, <3>7, <1>2, Ends DEF vfsm_nstate, hcntr_wrap
        <5>3. vcntr' - VStart = a + 1
          BY <5>2, <3>1, <1>2
        <5>4. NextPos' = (a + 1) * HVALID_W + 0
          BY <5>2, <5>3, <4>1, <3>1, Widths DEF NextPos, HStart, VStart
        <5>5. NextPos' = NextPos + 1 /\ NextPos # SYS_MEM_STOP_ADDR
          <6>1. SYS_MEM_STOP_ADDR \in Int
            BY <3>1, <3>2, Widths DEF SYS_MEM_STOP_ADDR
          <6> QED BY <5>1, <5>4, <4>2, <3>1, <3>2, <6>1, Widths
        <5> QED BY <2>4, <4>1, <5>5 DEF Succ
      <4> QED BY <4>3, <4>4
    <3> QED BY <3>5, <3>6, <3>7
  <2> QED BY <2>4, <2>5, <2>6
<1> QED BY <1>3, <1>4

-----------------------------------------------------------------------------
\* Switching on with nothing under way begins a chain at the first pixel.
LEMMA ClkPixel ==
  ASSUME AllInv, NEW grant \in BOOLEAN, NEW rdv \in BOOLEAN, ClkEdge(grant, rdv), clean'
  PROVE  PixelInv'
<1>1. /\ mem \in Seq(Nat) /\ pxl_cntr \in Nat /\ bffr.q \in Seq(Nat) /\ bffr.seen <= Len(bffr.q)
      /\ ~WrFull(bffr, BFFR_DEPTH)
  <2>1. bffr.q \in Seq(Nat) /\ bffr.held \in Nat /\ mem \in Seq(Nat)
    BY DEF AllInv, BffrInv, BffrType, FifoOf
  <2> QED BY <2>1, VideoAssumption DEF AllInv, BffrInv, BffrType, NeverOverflows, WrFull
<1>2. /\ Fetch(grant, rdv) /\ Store(rdv)
      /\ UNCHANGED <<hfsm, vfsm, hcntr, vcntr>>
  BY Zenon DEF ClkEdge, drvVars
<1>3. NextPos' = NextPos /\ LineFollows' = LineFollows
  BY <1>2 DEF NextPos, LineFollows, HStart, VStart
<1>4. ASSUME NEW l \in Bit, NEW d \in Bit, WriteConfig(l, d)
      PROVE  PixelInv'
  <2>1. line_bffr_en = 0 /\ drvr_en = 0 /\ line_bffr_en' = 1 /\ drvr_en' = 1
        /\ mem' = << >> /\ since = CFG_GAP
    BY <1>4 DEF WriteConfig
  <2>2. bffr' = EmptyFifo /\ pxl_cntr' = 0
    BY <1>2, <2>1 DEF Fetch, Store, SYS_MEM_START_ADDR
  <2>3. hfsm = "IDLE" /\ vfsm = "IDLE"
    BY <2>1, Widths DEF AllInv, DrvInv, Rest
  <2>4. NextPos' = 0 /\ LineFollows'
    BY <1>3, <2>3 DEF NextPos, LineFollows
  <2>5. bffr'.q = << >>
    BY <2>2 DEF EmptyFifo
  <2>6. Chained(<< >>, << >>, 0, 0)
    BY DEF Chained, Place
  <2> QED BY <2>1, <2>2, <2>4, <2>5, <2>6 DEF PixelInv
<1>5. ASSUME NoConfig(rdv) PROVE PixelInv'
  <2>1. clean /\ line_bffr_en' = line_bffr_en /\ drvr_en' = drvr_en
    BY <1>5 DEF NoConfig, cfgVars
  <2>2. line_bffr_en = 1 /\ drvr_en = 1 /\ LineFollows
        /\ Chained(bffr.q, mem, pxl_cntr, NextPos)
    BY <2>1 DEF AllInv, PixelInv
  <2> DEFINE rest == IF rdv THEN Tail(mem) ELSE mem
  <2>3. rdv => mem # << >>
    BY <1>2 DEF Fetch
  <2>4. bffr'.q = IF rdv THEN Append(bffr.q, Head(mem)) ELSE bffr.q
    <3>1. bffr' = IF rdv THEN FifoPush(bffr, BFFR_DEPTH, Head(mem)) ELSE bffr
      BY <1>2, <2>1, <2>2 DEF Store
    <3>2. bffr \in FifoOf(Nat)
      BY DEF AllInv, BffrInv, BffrType
    <3> QED BY <3>1, <3>2, <1>1 DEF FifoPush, FifoOf
  <2>5. bffr'.q \in Seq(Nat) /\ rest \in Seq(Nat) /\ Chained(bffr'.q, rest, pxl_cntr, NextPos)
    <3>1. CASE rdv
      BY <3>1, <2>2, <2>3, <2>4, <1>1, PlaceAnswer
    <3>2. CASE ~rdv
      BY <3>2, <2>2, <2>4, <1>1
    <3> QED BY <3>1, <3>2
  <2>6. mem' = (IF grant THEN Append(rest, pxl_cntr) ELSE rest)
        /\ pxl_cntr' = (IF grant THEN Succ(pxl_cntr) ELSE pxl_cntr)
    BY <1>2, <2>2 DEF Fetch, NextPxl, Succ
  <2> HIDE DEF rest
  <2>7. Chained(bffr'.q, mem', pxl_cntr', NextPos)
    <3>1. CASE grant
      BY <3>1, <2>5, <2>6, <1>1, PlaceAsk
    <3>2. CASE ~grant
      BY <3>2, <2>5, <2>6
    <3> QED BY <3>1, <3>2
  <2> QED BY <2>1, <2>2, <2>7, <1>3 DEF PixelInv
<1> QED BY <1>4, <1>5, Zenon DEF ClkEdge

LEMMA HdmiPixel ==
  ASSUME AllInv, HdmiEdge, clean'
  PROVE  PixelInv'
<1>1. /\ clean /\ ~(valid_pxl_range /\ RdEmpty(bffr))
      /\ line_bffr_en' = line_bffr_en /\ drvr_en' = drvr_en
      /\ mem' = mem /\ pxl_cntr' = pxl_cntr
      /\ bffr' = IF ff_rd_en THEN FifoPop(bffr) ELSE bffr
  BY Zenon DEF HdmiEdge, cfgVars, clkVars
<1>2. line_bffr_en = 1 /\ drvr_en = 1 /\ LineFollows
      /\ Chained(bffr.q, mem, pxl_cntr, NextPos)
  BY <1>1 DEF AllInv, PixelInv
<1>3. LineFollows' /\ NextPos' = IF valid_pxl_range THEN Succ(NextPos) ELSE NextPos
  BY <1>2, NextPosStep DEF AllInv
<1>4. bffr.q \in Seq(Nat) /\ mem \in Seq(Nat) /\ bffr.seen \in Nat /\ bffr.seen <= Len(bffr.q)
  BY DEF AllInv, BffrInv, BffrType, FifoOf
<1>5. CASE valid_pxl_range
  <2>1. ~RdEmpty(bffr) /\ ff_rd_en
    BY <1>1, <1>5 DEF ff_rd_en
  <2>2. bffr.q # << >> /\ bffr'.q = Tail(bffr.q)
    BY <2>1, <1>1, <1>4 DEF FifoPop, RdEmpty
  <2>3. Chained(bffr'.q, mem, pxl_cntr, Succ(NextPos))
    BY <2>2, <1>2, <1>4, PlaceTake
  <2> QED BY <2>3, <1>1, <1>2, <1>3, <1>5 DEF PixelInv
<1>6. CASE ~valid_pxl_range
  BY <1>1, <1>2, <1>3, <1>6 DEF PixelInv, ff_rd_en
<1> QED BY <1>5, <1>6

LEMMA SyncPixel ==
  ASSUME AllInv, Sync \/ UNCHANGED vars, clean'
  PROVE  PixelInv'
<1>1. /\ clean' = clean /\ line_bffr_en' = line_bffr_en /\ drvr_en' = drvr_en
      /\ mem' = mem /\ pxl_cntr' = pxl_cntr
      /\ UNCHANGED <<hfsm, vfsm, hcntr, vcntr>>
  BY DEF Sync, vars, cfgVars, clkVars, drvVars
<1>2. bffr'.q = bffr.q
  <2>1. bffr \in FifoOf(Nat)
    BY DEF AllInv, BffrInv, BffrType
  <2> QED BY <2>1 DEF Sync, vars, SyncRdSide, SyncWrSide, FifoOf
<1>3. NextPos' = NextPos /\ LineFollows' = LineFollows
  BY <1>1 DEF NextPos, LineFollows, HStart, VStart
<1>4. line_bffr_en = 1 /\ drvr_en = 1 /\ LineFollows
      /\ Chained(bffr.q, mem, pxl_cntr, NextPos)
  BY <1>1 DEF AllInv, PixelInv
<1> QED BY <1>1, <1>2, <1>3, <1>4 DEF PixelInv

(***************************************************************************)
(* The line buffer and the driver only agree by counting, and they do: the *)
(* pixel shown is the one stored for the position, for every picture size, *)
(* every timing and every pattern of grants and answers of the memory.     *)
(***************************************************************************)
THEOREM PixelsInPlace == Spec => []PixelInPlace
<1>1. Init => PixelInv
  BY DEF Init, PixelInv
<1>2. BffrInv /\ DrvInv /\ PixelInv /\ [Next]_vars => PixelInv'
  <2> SUFFICES ASSUME AllInv, [Next]_vars, clean' PROVE PixelInv'
    BY DEF AllInv, PixelInv
  <2>1. ASSUME NEW grant \in BOOLEAN, NEW rdv \in BOOLEAN, ClkEdge(grant, rdv)
        PROVE  PixelInv'
    BY <2>1, ClkPixel
  <2>2. ASSUME HdmiEdge PROVE PixelInv'
    BY <2>2, HdmiPixel
  <2>3. ASSUME Sync \/ UNCHANGED vars PROVE PixelInv'
    BY <2>3, SyncPixel
  <2> QED BY <2>1, <2>2, <2>3 DEF Next
<1>3. BffrInv /\ DrvInv /\ PixelInv => PixelInPlace
  <2> SUFFICES ASSUME BffrInv, DrvInv, PixelInv, clean, ff_rd_en
               PROVE  Head(bffr.q) = (vcntr - VStart) * HVALID_W + (hcntr - HStart)
    BY DEF PixelInPlace
  <2>1. bffr.q \in Seq(Nat) /\ bffr.q # << >>
    BY DEF BffrInv, BffrType, FifoOf, ff_rd_en, RdEmpty
  <2>2. Place(bffr.q, mem, pxl_cntr, 1) = bffr.q[1] /\ Head(bffr.q) = bffr.q[1]
    BY <2>1 DEF Place
  <2>3. Head(bffr.q) = NextPos
    BY <2>2 DEF PixelInv, Chained
  <2>4. vfsm = "VALID" /\ hcntr \in HStart .. HTOTAL_W - 1
    BY DEF ff_rd_en, valid_pxl_range, DrvInv, TimingInStep
  <2>5. hcntr >= HStart
    BY <2>4, Widths DEF HStart, HTOTAL_W
  <2> QED BY <2>3, <2>4, <2>5 DEF NextPos
<1>4. Spec => [](BffrInv /\ DrvInv)
  <2>1. Init => BffrInv /\ DrvInv
    BY BffrInit, DrvInit
  <2>2. BffrInv /\ DrvInv /\ [Next]_vars => BffrInv' /\ DrvInv'
    BY BffrNext, DrvNext
  <2> QED BY <2>1, <2>2, PTL DEF Spec
<1> QED BY <1>1, <1>2, <1>3, <1>4, PTL DEF Spec
=============================================================================

------------------------------ MODULE VideoOut ------------------------------
(***************************************************************************)
(* adv7513_cntrlr: the line buffer that fetches the picture from system    *)
(* memory (line_bffr) and the driver that generates the video timing and   *)
(* takes a pixel out of the buffer for every visible position              *)
(* (adv7513_video_drvr).                                                   *)
(*                                                                         *)
(* A step is an edge of clk (register write, memory request and answer) or *)
(* an edge of clk_hdmi (driver), or a pointer of the dual-clock FIFO       *)
(* arriving at the other side.  The enable bit of the driver is used on    *)
(* clk_hdmi without a synchroniser, so that on the first edge after it     *)
(* changes each state bit of the two state machines may be set by the old  *)
(* or by the new value.                                                    *)
(***************************************************************************)
EXTENDS Integers, Sequences, DcFifo

CONSTANTS
  HVALID_W, HFP_W, HSYNC_W, HBP_W,   \* horizontal timing (1280, 110, 40, 220)
  VVALID_W, VFP_W, VSYNC_W, VBP_W,   \* vertical timing (720, 5, 5, 20)
  BFFR_DEPTH,                        \* pixels in the line buffer (2048)
  AFULL_MARGIN,                      \* room left when requests stop (32)
  MaxOut,                            \* bound: reads the memory system holds
  CFG_GAP,                           \* clk_hdmi edges from a change of drvr_en
                                     \* to the next register write
  MaxCfg                             \* bound: register writes

ASSUME VideoAssumption ==
  /\ \A w \in {HVALID_W, HFP_W, HSYNC_W, HBP_W, VVALID_W, VFP_W, VSYNC_W, VBP_W} :
       w \in Nat \ {0}
  /\ BFFR_DEPTH \in Nat /\ AFULL_MARGIN \in Nat
  /\ 0 < MaxOut /\ MaxOut < AFULL_MARGIN /\ AFULL_MARGIN < BFFR_DEPTH
  /\ MaxOut \in Nat /\ MaxCfg \in Nat
  /\ CFG_GAP \in Nat \ {0, 1}

Bit == {0, 1}
States == {"IDLE", "FP", "SYNC", "BP", "VALID"}

HTOTAL_W == HVALID_W + HFP_W + HSYNC_W + HBP_W
VTOTAL_W == VVALID_W + VFP_W + VSYNC_W + VBP_W

SYS_MEM_START_ADDR == 0
SYS_MEM_STOP_ADDR  == HVALID_W * VVALID_W - 1

VARIABLES
  line_bffr_en, drvr_en,   \* the configuration register
  pxl_cntr,                \* address of the next pixel to fetch
  mem,                     \* memory system: addresses of reads under way
  bffr,                    \* line buffer: the addresses its pixels come from
  bffr_ovrflw, bffr_undrflw_int,
  bffr_undrflw_f,          \* the two flip-flops of its synchroniser
  hfsm, vfsm, hcntr, vcntr,\* the driver
  hdmi,                    \* its outputs
  since,                   \* clk_hdmi edges since drvr_en changed, up to
                           \* CFG_GAP
  cfgs,                    \* ghost: register writes so far
  clean                    \* ghost: since both parts were enabled together,
                           \*        with no read under way, no pixel has been
                           \*        missing or dropped

cfgVars == <<line_bffr_en, drvr_en, cfgs>>
clkVars == <<pxl_cntr, mem, bffr_ovrflw, bffr_undrflw_f>>
drvVars == <<hfsm, vfsm, hcntr, vcntr, hdmi, bffr_undrflw_int>>
vars    == <<cfgVars, clkVars, drvVars, bffr, since, clean>>

-----------------------------------------------------------------------------
(***************************************************************************)
(* clk: line buffer, write side                                            *)
(***************************************************************************)

\* wrusedw is log2(BFFR_DEPTH) bits wide: a full buffer reports none used.
wrusedw == (Len(bffr.q) + bffr.held) % BFFR_DEPTH

\* Mutant: the margin is forgotten.
bffr_afull_Full == wrusedw >= BFFR_DEPTH - 1
bffr_afull == wrusedw > BFFR_DEPTH - AFULL_MARGIN

sys_mem_rden == line_bffr_en = 1 /\ ~bffr_afull

NextPxl == IF pxl_cntr = SYS_MEM_STOP_ADDR THEN SYS_MEM_START_ADDR
                                           ELSE pxl_cntr + 1

\* The memory takes the request of this clock (grant), and answers the oldest
\* read under way (rdv).
Fetch(grant, rdv) ==
  LET rest == IF rdv THEN Tail(mem) ELSE mem
  IN  /\ grant => sys_mem_rden /\ Len(mem) < MaxOut
      /\ rdv => mem # << >>
      /\ mem' = IF grant THEN Append(rest, pxl_cntr) ELSE rest
      /\ pxl_cntr' = IF line_bffr_en = 0 THEN SYS_MEM_START_ADDR
                     ELSE IF grant THEN NextPxl ELSE pxl_cntr
      /\ bffr_ovrflw' = IF rdv /\ WrFull(bffr, BFFR_DEPTH) THEN 1 ELSE bffr_ovrflw

\* A disabled line buffer is held in asynchronous reset.
Store(rdv) ==
  bffr' = IF line_bffr_en = 0 \/ line_bffr_en' = 0 THEN EmptyFifo
          ELSE IF rdv THEN FifoPush(bffr, BFFR_DEPTH, Head(mem))
          ELSE bffr

\* Bits 0 and 1 of ADV7513_CNTRLR_CONFIG_REG.
WriteConfig(l, d) ==
  /\ since = CFG_GAP /\ cfgs < MaxCfg
  /\ line_bffr_en' = l /\ drvr_en' = d
  /\ cfgs' = cfgs + 1
  /\ since' = IF d = drvr_en THEN since ELSE 0
  /\ clean' = (l = 1 /\ d = 1 /\ line_bffr_en = 0 /\ drvr_en = 0 /\ mem' = << >>)

NoConfig(rdv) ==
  /\ UNCHANGED <<cfgVars, since>>
  /\ clean' = (clean /\ ~(rdv /\ WrFull(bffr, BFFR_DEPTH)))

ClkEdge(grant, rdv) ==
  /\ Fetch(grant, rdv)
  /\ (\E l, d \in Bit : WriteConfig(l, d)) \/ NoConfig(rdv)
  /\ Store(rdv)
  /\ bffr_undrflw_f' = <<bffr_undrflw_int, bffr_undrflw_f[1]>>
  /\ UNCHANGED drvVars

-----------------------------------------------------------------------------
(***************************************************************************)
(* clk_hdmi: the driver.  A part of a line or of a frame ends at the count *)
(* HEnd or VEnd gives for it; lines are counted where hcntr wraps.         *)
(***************************************************************************)
HEnd == [FP |-> HFP_W - 1, SYNC |-> HFP_W + HSYNC_W - 1,
         BP |-> HFP_W + HSYNC_W + HBP_W - 1, VALID |-> HTOTAL_W - 1]
VEnd == [FP |-> VFP_W - 1, SYNC |-> VFP_W + VSYNC_W - 1,
         BP |-> VFP_W + VSYNC_W + VBP_W - 1, VALID |-> VTOTAL_W - 1]
After == [IDLE |-> "FP", FP |-> "SYNC", SYNC |-> "BP", BP |-> "VALID",
          VALID |-> "FP"]

hcntr_wrap == hcntr = HTOTAL_W - 1
vcntr_wrap == vcntr = VTOTAL_W - 1 /\ hcntr_wrap

\* Mutant: a part of a line ends one clock early.
hfsm_nstate_Early(en) ==
  IF en = 0 THEN "IDLE"
  ELSE IF hfsm = "IDLE" THEN "FP"
  ELSE IF hcntr + 1 = HEnd[hfsm] THEN After[hfsm] ELSE hfsm
hfsm_nstate(en) ==
  IF en = 0 THEN "IDLE"
  ELSE IF hfsm = "IDLE" THEN "FP"
  ELSE IF hcntr = HEnd[hfsm] THEN After[hfsm] ELSE hfsm

\* Mutants: the state machine goes on when disabled; the end of a part is
\* looked for on the line after it.
vfsm_nstate_Go(en) ==
  IF vfsm = "IDLE" THEN (IF en = 0 THEN "IDLE" ELSE "FP")
  ELSE IF vcntr = VEnd[vfsm] /\ hcntr_wrap THEN After[vfsm] ELSE vfsm
vfsm_nstate_Late(en) ==
  IF en = 0 THEN "IDLE"
  ELSE IF vfsm = "IDLE" THEN "FP"
  ELSE IF vcntr = VEnd[vfsm] + 1 /\ hcntr_wrap THEN After[vfsm] ELSE vfsm
vfsm_nstate(en) ==
  IF en = 0 THEN "IDLE"
  ELSE IF vfsm = "IDLE" THEN "FP"
  ELSE IF vcntr = VEnd[vfsm] /\ hcntr_wrap THEN After[vfsm] ELSE vfsm

valid_pxl_range == hfsm = "VALID" /\ vfsm = "VALID"
ff_rd_en == ~RdEmpty(bffr) /\ valid_pxl_range

\* The state bits, IDLE_S=0, FP_S=1, SYNC_S=2, BP_S=3, VALID_S=4, that may
\* result when only some of them are set by the value of an enabled driver.
Torn(s) == IF s = "BP" THEN {"IDLE", "FP", "SYNC", "BP"} ELSE {"IDLE", s}

Counters ==
  /\ hcntr' = IF hcntr_wrap THEN 0
              ELSE IF hfsm # "IDLE" THEN hcntr + 1 ELSE hcntr
  /\ vcntr' = IF vcntr_wrap THEN 0
              ELSE IF vfsm # "IDLE" /\ hcntr_wrap THEN vcntr + 1 ELSE vcntr

\* The sync signals are active low.  The data output is assigned the pixel
\* and, without an else, zero after it.
Outputs ==
  hdmi' = [de |-> IF valid_pxl_range THEN 1 ELSE 0,
           hs |-> IF hfsm = "SYNC" THEN 0 ELSE 1,
           vs |-> IF vfsm = "SYNC" THEN 0 ELSE 1,
           d  |-> 0]

HdmiEdge ==
  /\ hfsm' \in IF since = 0 THEN Torn(hfsm_nstate(1)) ELSE {hfsm_nstate(drvr_en)}
  /\ vfsm' \in IF since = 0 THEN Torn(vfsm_nstate(1)) ELSE {vfsm_nstate(drvr_en)}
  /\ Counters
  /\ Outputs
  /\ bffr' = IF ff_rd_en THEN FifoPop(bffr) ELSE bffr
  /\ bffr_undrflw_int' = IF ff_rd_en /\ RdEmpty(bffr) THEN 1 ELSE bffr_undrflw_int
  /\ clean' = (clean /\ ~(valid_pxl_range /\ RdEmpty(bffr)))
  /\ since' = IF since < CFG_GAP THEN since + 1 ELSE since
  /\ UNCHANGED <<cfgVars, clkVars>>

\* The pointer synchronisers of the FIFO (external).
Sync ==
  /\ bffr' \in {SyncRdSide(bffr), SyncWrSide(bffr)}
  /\ UNCHANGED <<cfgVars, clkVars, drvVars, since, clean>>

-----------------------------------------------------------------------------
Init ==
  /\ line_bffr_en = 0 /\ drvr_en = 0
  /\ pxl_cntr = SYS_MEM_START_ADDR /\ mem = << >> /\ bffr = EmptyFifo
  /\ bffr_ovrflw = 0 /\ bffr_undrflw_int = 0 /\ bffr_undrflw_f = <<0, 0>>
  /\ hfsm = "IDLE" /\ vfsm = "IDLE" /\ hcntr = 0 /\ vcntr = 0
  /\ hdmi = [de |-> 0, hs |-> 1, vs |-> 1, d |-> 0]
  /\ since = CFG_GAP /\ cfgs = 0 /\ clean = FALSE

Next == \/ \E grant, rdv \in BOOLEAN : ClkEdge(grant, rdv)
        \/ HdmiEdge
        \/ Sync

Spec == Init /\ [][Next]_vars

\* The pixel clock runs.
LiveSpec == Spec /\ WF_vars(HdmiEdge)

-----------------------------------------------------------------------------
\* Counters stay within a line, a frame and the frame buffer, and the line
\* buffer holds pixels.
TypeOK ==
  /\ line_bffr_en \in Bit /\ drvr_en \in Bit
  /\ pxl_cntr \in SYS_MEM_START_ADDR .. SYS_MEM_STOP_ADDR
  /\ mem \in Seq(Nat) /\ Len(mem) <= MaxOut
  /\ bffr \in FifoOf(Nat) /\ bffr.seen <= Len(bffr.q)
  /\ bffr_ovrflw \in Bit /\ bffr_undrflw_int \in Bit
  /\ bffr_undrflw_f \in Bit \X Bit
  /\ hfsm \in States /\ vfsm \in States
  /\ hcntr \in 0 .. HTOTAL_W - 1 /\ vcntr \in 0 .. VTOTAL_W - 1
  /\ hdmi \in [de : Bit, hs : Bit, vs : Bit, d : {0}]
  /\ since \in 0 .. CFG_GAP /\ cfgs \in Nat
  /\ clean \in BOOLEAN

(***************************************************************************)
(* The line buffer never overflows, and its used-words count never wraps   *)
(* around to zero, provided the memory system holds fewer reads than the   *)
(* margin at which requests stop, because the almost-full test knows       *)
(* nothing of the reads that are still to be answered.                     *)
(***************************************************************************)
NeverOverflows ==
  Len(bffr.q) + bffr.held + Len(mem) < BFFR_DEPTH /\ bffr_ovrflw = 0

HStart == HFP_W + HSYNC_W + HBP_W
VStart == VFP_W + VSYNC_W + VBP_W

(***************************************************************************)
(* The pixel taken out of the buffer for a visible position is the one     *)
(* stored in memory for that position, frame after frame, and also after   *)
(* the display was switched off in the middle of a frame and on again, as  *)
(* long as no pixel was missing and nothing of the old picture was under   *)
(* way.  The two sides only agree by counting: nothing marks the start of  *)
(* a frame in the buffer.                                                  *)
(***************************************************************************)
PixelInPlace ==
  clean /\ ff_rd_en =>
    Head(bffr.q) = (vcntr - VStart) * HVALID_W + (hcntr - HStart)

(***************************************************************************)
(* The state machines agree with the counters, although the counters keep  *)
(* their values while the driver is disabled, go on from there, and the    *)
(* two machines may see the enable bit change on different clocks: a       *)
(* visible part never happens at the wrong count, a sync pulse only on the *)
(* one clock on which the driver's enable bit was caught changing.         *)
(***************************************************************************)
TimingInStep ==
  /\ hfsm = "VALID" => hcntr \in HStart .. HTOTAL_W - 1
  /\ vfsm = "VALID" => vcntr \in VStart .. VTOTAL_W - 1
  /\ since # 1 =>
       /\ hfsm = "SYNC" => hcntr \in HFP_W .. HFP_W + HSYNC_W - 1
       /\ hfsm = "BP"   => hcntr \in HFP_W + HSYNC_W .. HStart - 1
       /\ vfsm = "SYNC" => vcntr \in VFP_W .. VFP_W + VSYNC_W - 1
       /\ vfsm = "BP"   => vcntr \in VFP_W + VSYNC_W .. VStart - 1

(***************************************************************************)
(* A driver that is enabled gets to the visible part of a frame unless it  *)
(* is disabled first, whatever counts it was left with.                    *)
(***************************************************************************)
ShowsFrame == drvr_en = 1 ~> (drvr_en = 0 \/ valid_pxl_range)
=============================================================================

----------------------------- MODULE Sequencer -----------------------------
(***************************************************************************)
(* The calibration sequencer: main, run_mem_calibrate, the calibration of  *)
(* each group (DQS enable, read deskew, write deskew and DM, read deskew   *)
(* again), the read latency, the report, and the requests of the host that *)
(* follow.                                                                 *)
(*                                                                         *)
(* The program is sequential; the manager that tracks the DQS enable       *)
(* (external) runs beside it and is stalled for the calibration.  A step   *)
(* is one attempt of a search loop, or one of the numbered steps of the    *)
(* search for the DQS enable.                                              *)
(***************************************************************************)
EXTENDS SeqPhy

CONSTANTS
  Boards,        \* set of functions: what the windows of each group can be
  Drifted,       \* the same, after temperature and voltage have changed
  ReadLatency,   \* MEM_T_RL_ADD: what the controller says the memory needs
  WriteLatency,  \* MEM_T_WL_ADD plus the additive latency
  LatencySlack,  \* what is added to it at first (16)
  MaxLatency,    \* max_latency
  MaxRequests    \* bound on the requests of the host

ASSUME SequencerAssumption ==
  /\ ReadLatency \in Nat /\ WriteLatency \in Nat /\ LatencySlack \in Nat /\ MaxRequests \in Nat
  /\ MaxLatency \in Nat \ {0} /\ ReadLatency + LatencySlack > 0
  /\ ReadLatency + LatencySlack < MaxLatency      \* 8 + 16 < 31 in the slowest LPDDR2
  /\ dtaps_per_ptap <= IO_IO_OUT1_DELAY_MAX       \* 15 <= 31
  /\ \A b \in Boards \cup Drifted : \A x \in Groups : b[x].lat \in Nat /\ {b[x].dm[1], b[x].dm[2]} \subseteq Int

VARIABLES
  pc,
  board,   \* the windows, fixed during a calibration
  scc,     \* the delay chains of each group
  vfifo,   \* the position of each group's VFIFO
  mem,     \* the memory: which MR1 it was given, are rows 0 open, and has the
           \* last load left the patterns in it?
  phy,     \* registers of the PHY manager: MUX_SEL, RESET_MEM_STBL, CAL_STATUS,
           \* CAL_DEBUG_INFO, PHY_RLAT, AFI_WLAT
  trk,     \* the tracking manager: TRK_STALL, taps per phase, the other settings
  gbl,     \* error stage, substage and group, figures of merit
  rf,      \* register file: current stage, substage and group, figures, failing stage
  L,       \* locals of the functions in progress
  pass,    \* what the last run_mem_calibrate returned
  requests

vars == <<pc, board, scc, vfifo, mem, phy, trk, gbl, rf, L, pass, requests>>

NIL == 0                  \* CAL_STAGE_NIL and CAL_SUBSTAGE_NIL
CAL_STAGE_VFIFO == 1
CAL_STAGE_LFIFO == 3
CAL_STAGE_WRITES == 4
CAL_STAGE_VFIFO_AFTER_WRITES == 9
GUARANTEED_READ == 1      \* the substages of the first
DQS_EN_PHASE == 2
VFIFO_CENTER == 3
WRITES_CENTER == 1        \* of the writes
READ_LATENCY == 1         \* and of the read latency

OutIll == IO_IO_OUT1_DELAY_MAX + 1   \* the illegal values of the edges
InIll == IO_IO_IN_DELAY_MAX + 1

\* Locals: group, loop counters, results of the searches in progress.
NoLocals ==
  [g |-> 0, d |-> 0, dqs |-> 0, orig |-> 0, sub |-> GUARANTEED_READ, first |-> TRUE,
   v |-> 0, i |-> 0, p |-> 0, e |-> 0, bgn |-> 0, end |-> 0, start |-> 0,
   left |-> [i \in Bits |-> 0], right |-> [i \in Bits |-> 0], sticky |-> {},
   curr |-> << >>, best |-> << >>, dq |-> 0, dqsm |-> 0]

Init ==
  /\ pc = "boot" /\ board \in Boards
  /\ scc = [x \in Groups |->
              [bypass |-> FALSE, dqs_in |-> 0, en_phase |-> 0, en_delay |-> 0, dqs_out1 |-> 0, dm_out1 |-> 0,
               dq_in |-> [i \in Bits |-> 0], dq_out1 |-> [i \in Bits |-> 0]]]
  /\ vfifo = [x \in Groups |-> 0] /\ mem = [mr1 |-> "none", rows |-> "closed", patterns |-> FALSE]
  /\ phy = [mux |-> 0, stable |-> FALSE, status |-> "reset", debug |-> << >>,
            rlat |-> 0, wlat |-> 0]
  /\ trk = [stall |-> "no", dtaps |-> 0, told |-> FALSE]
  /\ gbl = [stage |-> NIL, sub |-> NIL, group |-> NIL, fom_in |-> 0, fom_out |-> 0]
  /\ rf = [stage |-> NIL, sub |-> NIL, group |-> 0, fom |-> <<0, 0>>, failing |-> << >>]
  /\ L = NoLocals /\ pass = FALSE /\ requests = 0

-----------------------------------------------------------------------------
\* Only the first failure is recorded.
set_failing_group_stage(gg, grp, stg, sub) ==
  IF gg.stage = NIL THEN [gg EXCEPT !.stage = stg, !.sub = sub, !.group = grp] ELSE gg

\* The fields of REG_FILE_CUR_STAGE: a new stage clears the substage.
reg_file_set_stage(r, stg) == [r EXCEPT !.stage = stg, !.sub = NIL]
reg_file_set_sub_stage(r, sub) == [r EXCEPT !.sub = sub]
reg_file_set_group(r, grp) == [r EXCEPT !.group = grp]

g == L.g
S == scc[g]
B == board[g]
Put(s) == scc' = [scc EXCEPT ![g] = s]

\* The tests run in rows that must be open, with the MR1 of the calibration.
Accessible == mem.mr1 = "calib" /\ mem.rows = "open"
ReadBits(s, vp) ==
  rw_mgr_mem_calibrate_read_test(B, s, vp, Accessible /\ mem.patterns, phy.rlat)
WriteBits(s, use_dm) ==
  IF Accessible THEN rw_mgr_mem_calibrate_write_test(B, s, vfifo[g], phy.rlat, use_dm) ELSE {}

\* mem_calibrate gives up; run_mem_calibrate goes on to the report.
GiveUp(gg) == pc' = "report" /\ pass' = FALSE /\ gbl' = gg
Goto(where) == pc' = where /\ UNCHANGED pass

Still == UNCHANGED <<board, requests>>
StillPhy == UNCHANGED <<phy, trk>>

\* Before a deskew every edge is illegal.
StartDeskew(l, ill) ==
  [l EXCEPT !.e = 0, !.sticky = {},
            !.left = [i \in Bits |-> ill], !.right = [i \in Bits |-> ill]]

-----------------------------------------------------------------------------
(* The search for the DQS enable, rw_mgr_mem_calibrate_vfifo_find_dqs_en_phase. *)

\* A loop over a..n stops at the first index with P; n + 1 when there is none.
FirstIn(a, n, P(_)) ==
  IF a > n THEN n + 1
  ELSE CHOOSE k \in a..(n + 1) : (k > n \/ P(k)) /\ \A j \in a..(k - 1) : ~P(j)

EnableAt(s, pp, dd) ==
  scc_mgr_set_dqs_en_delay_all_ranks(scc_mgr_set_dqs_en_phase_all_ranks(s, pp), dd)

EnTest(pp, dd, pushes) ==
  ReadBits(EnableAt(S, pp, dd), rw_mgr_incr_vfifo(vfifo[g], pushes)) # {}

SetEn_AllGroups(pp, dd, pushes) ==
  /\ Put(EnableAt(S, pp, dd))
  /\ vfifo' = [x \in Groups |-> rw_mgr_incr_vfifo(vfifo[x], pushes)]

\* The phase and delay registers after a search, and the pushes it made.
SetEn(pp, dd, pushes) ==
  /\ Put(EnableAt(S, pp, dd))
  /\ vfifo' = [vfifo EXCEPT ![g] = rw_mgr_incr_vfifo(@, pushes)]

NotFound_SameDelay(pp, dd, pushes) ==
  /\ Put(EnableAt(scc_mgr_apply_group_dq_in_delay(S, 0), pp, dd))
  /\ vfifo' = [vfifo EXCEPT ![g] = rw_mgr_incr_vfifo(@, pushes)]
  /\ L' = [L EXCEPT !.sub = DQS_EN_PHASE]
  /\ Goto("dqs_in")

\* ..._sweep_dq_in_delay puts the DQ chains back to zero and returns what was found.
NotFound(pp, dd, pushes) ==
  /\ Put(EnableAt(scc_mgr_apply_group_dq_in_delay(S, 0), pp, dd))
  /\ vfifo' = [vfifo EXCEPT ![g] = rw_mgr_incr_vfifo(@, pushes)]
  /\ L' = [L EXCEPT !.sub = DQS_EN_PHASE, !.dqs = @ + 1]
  /\ Goto("dqs_in")

\* Step 1: push the VFIFO until the second failing read.
FindFailing ==
  LET Fails(k) == ~EnTest(S.en_phase, S.en_delay, k)
      second == FirstIn(0, VFIFO_SIZE - 1, LAMBDA k : Fails(k) /\ \E j \in 0..(k - 1) : Fails(j))
  IN  /\ pc = "find_failing"
      /\ IF second = VFIFO_SIZE THEN NotFound(S.en_phase, S.en_delay, second)
         ELSE /\ SetEn(S.en_phase, S.en_delay, second)
              /\ L' = L /\ Goto("find_first")
      /\ UNCHANGED <<mem, gbl, rf>> /\ Still /\ StillPhy

\* Step 2: delays outside, VFIFO positions, and phases inside; phase 0 cannot
\* be used.  The k-th attempt:
FirstTry(k) ==
  LET per == IO_DQS_EN_PHASE_MAX
  IN  [d |-> k \div (VFIFO_SIZE * per), i |-> (k \div per) % VFIFO_SIZE,
       p |-> (k % per) + 1, pushes |-> k \div per]
FindFirst ==
  LET last == (dtaps_per_ptap + 1) * VFIFO_SIZE * IO_DQS_EN_PHASE_MAX - 1
      k == FirstIn(0, last, LAMBDA j : LET t == FirstTry(j) IN EnTest(t.p, t.d, t.pushes))
      t == FirstTry(k)
      bgn == t.d * IO_DELAY_PER_DQS_EN_DCHAIN_TAP + (t.i * Phases + t.p) * IO_DELAY_PER_OPA_TAP
  IN  /\ pc = "find_first"
      /\ IF k > last THEN NotFound(IO_DQS_EN_PHASE_MAX, dtaps_per_ptap, t.pushes)
         ELSE /\ SetEn(t.p, t.d, t.pushes)
              /\ L' = [L EXCEPT !.i = t.i, !.p = t.p, !.e = t.d, !.bgn = bgn, !.end = bgn]
              /\ Goto(IF t.d = 0 THEN "back_off" ELSE "right_edge")
      /\ UNCHANGED <<mem, gbl, rf>> /\ Still /\ StillPhy

\* Step 3a: back off a phase, as far as there is one, and look for the left
\* edge in delays; then restore the phase, one too far when it was not moved.
BackOff ==
  LET moved == L.p > 1
      p0 == IF moved THEN L.p - 1 ELSE 1
      steps == IF moved THEN Min({IO_DQS_EN_DELAY_MAX, dtaps_per_ptap}) ELSE -1
      k == FirstIn(0, steps, LAMBDA j : EnTest(p0, j, 0))
      bgn == IF k > steps THEN L.bgn
             ELSE L.bgn - IO_DELAY_PER_OPA_TAP + k * IO_DELAY_PER_DQS_EN_DCHAIN_TAP
      p1 == (p0 + 1) % Phases
      w1 == (p0 + 1) \div Phases
  IN  /\ pc = "back_off"
      /\ SetEn(p0, 0, w1 + (p1 + 1) \div Phases)
      /\ L' = [L EXCEPT !.bgn = bgn, !.p = (p1 + 1) % Phases, !.end = @ + IO_DELAY_PER_OPA_TAP]
      /\ Goto("forward")
      /\ UNCHANGED <<mem, gbl, rf>> /\ Still /\ StillPhy

\* Steps 4a and 5a: forward in phases to a failing read (phase 0 is passed
\* over), then one phase back, which may be a whole turn of the VFIFO.
Forward ==
  LET last == (VFIFO_SIZE + 1 - L.i) * Phases - L.p - 1
      PhaseAt(j) == (L.p + j) % Phases
      PushesAt(j) == (L.p + j) \div Phases
      k == FirstIn(0, last, LAMBDA j : PhaseAt(j) # 0 /\ ~EnTest(PhaseAt(j), 0, PushesAt(j)))
      pk == IF PhaseAt(k) = 1 THEN 0 ELSE PhaseAt(k)
      ek == L.end + k * IO_DELAY_PER_OPA_TAP
              - (IF PhaseAt(k) = 1 THEN 2 ELSE 1) * IO_DELAY_PER_OPA_TAP
      p1 == IF pk = 0 THEN IO_DQS_EN_PHASE_MAX ELSE pk - 1
      back == IF pk = 0 THEN rw_mgr_decr_vfifo ELSE 0
  IN  /\ pc = "forward"
      /\ IF k > last THEN NotFound(IO_DQS_EN_PHASE_MAX, 0, PushesAt(last) + 1)
         ELSE /\ SetEn(p1, 0, PushesAt(k) + back)
              /\ L' = [L EXCEPT !.p = p1, !.e = 0, !.end = ek]
              /\ Goto("right_edge")
      /\ UNCHANGED <<mem, gbl, rf>> /\ Still /\ StillPhy

\* The right edge in delays; a range that ends before it begins is no range.
RightEdge ==
  LET k == FirstIn(L.e, IO_DQS_EN_DELAY_MAX, LAMBDA j : ~EnTest(L.p, j, 0))
      end == L.end + (k - L.e - (IF k # 0 THEN 1 ELSE 0)) * IO_DELAY_PER_DQS_EN_DCHAIN_TAP
      dk == Min({k, IO_DQS_EN_DELAY_MAX})
  IN  /\ pc = "right_edge"
      /\ IF end < L.bgn THEN NotFound(L.p, dk, 0)
         ELSE /\ SetEn(L.p, dk, 0)
              /\ L' = [L EXCEPT !.e = k, !.end = end]
              /\ Goto("dtaps")
      /\ UNCHANGED <<mem, gbl, rf>> /\ Still /\ StillPhy

\* How many delays make a phase, measured for the tracking: back a phase, to
\* a passing read and on to a failing one.
DtapsPerPtap ==
  LET turn == L.p <= 1
      p1 == IF turn THEN IO_DQS_EN_PHASE_MAX ELSE L.p - 1
      back == IF turn THEN rw_mgr_decr_vfifo ELSE 0
      good == FirstIn(L.e, IO_DQS_EN_DELAY_MAX, LAMBDA j : EnTest(p1, j, back))
      bad == FirstIn(good + 1, IO_DQS_EN_DELAY_MAX, LAMBDA j : ~EnTest(p1, j, back))
      measured == good <= IO_DQS_EN_DELAY_MAX /\ bad <= IO_DQS_EN_DELAY_MAX
  IN  /\ pc = "dtaps"
      /\ trk' = [trk EXCEPT !.dtaps = IF measured THEN bad - L.e ELSE dtaps_per_ptap]
      /\ SetEn(p1, IF L.e > IO_DQS_EN_DELAY_MAX THEN S.en_delay ELSE Min({bad, IO_DQS_EN_DELAY_MAX}),
               back)
      /\ L' = L /\ Goto("centre")
      /\ UNCHANGED <<mem, phy, gbl, rf>> /\ Still

\* Step 6: the middle of the range, less whole cycles, as a phase and a
\* delay; then push the VFIFO until a read passes.
\* Mutant: the start of the range in place of its middle.
work_mid_First(bgn, end) == ((bgn - 1) % Cycle) + 1
work_mid(bgn, end) == (((bgn + end) \div 2 - 1) % Cycle) + 1
Middle(bgn, end) ==
  LET mid == work_mid(bgn, end)
      p1 == (mid + IO_DELAY_PER_OPA_TAP - 1) \div IO_DELAY_PER_OPA_TAP
      rest == mid - (p1 - 1) * IO_DELAY_PER_OPA_TAP
  IN  IF p1 = 1 THEN [p |-> 1, d |-> 0]
      ELSE [p |-> p1 - 1,
            d |-> (rest + IO_DELAY_PER_DQS_EN_DCHAIN_TAP - 1) \div IO_DELAY_PER_DQS_EN_DCHAIN_TAP]
Centre ==
  LET mid == Middle(L.bgn, L.end)
      k == FirstIn(0, VFIFO_SIZE - 1, LAMBDA j : EnTest(mid.p, mid.d, j))
      s1 == EnableAt(scc_mgr_apply_group_dq_in_delay(S, 0), mid.p, mid.d)
  IN  /\ pc = "centre"
      /\ IF k = VFIFO_SIZE THEN NotFound(mid.p, mid.d, k)
         ELSE /\ Put(scc_mgr_set_dqs_bus_in_delay(s1, L.orig))
              /\ vfifo' = [vfifo EXCEPT ![g] = rw_mgr_incr_vfifo(@, k)]
              /\ L' = [StartDeskew(L, InIll) EXCEPT !.start = L.orig, !.first = TRUE]
              /\ Goto("read_left")
      /\ UNCHANGED <<mem, gbl, rf>> /\ Still /\ StillPhy

-----------------------------------------------------------------------------
(* rw_mgr_mem_calibrate_vfifo: the loops around the search. *)

\* mem_calibrate takes the next group; no group is skipped (param->skip_groups).
GroupStart ==
  /\ pc = "group" /\ g < NumGroups
  /\ Put(scc_mgr_zero_group(S, FALSE))
  /\ L' = [NoLocals EXCEPT !.g = g]
  /\ rf' = reg_file_set_sub_stage(
             reg_file_set_group(reg_file_set_stage(rf, CAL_STAGE_VFIFO), g), GUARANTEED_READ)
  /\ Goto("delay")
  /\ UNCHANGED <<vfifo, mem, gbl>> /\ Still /\ StillPhy

\* After the last group, none of which failed, the read latency.
GroupsDone ==
  /\ pc = "group" /\ g = NumGroups
  /\ rf' = reg_file_set_sub_stage(reg_file_set_stage(rf, CAL_STAGE_LFIFO), READ_LATENCY)
  /\ mem' = [mem EXCEPT !.patterns =
               Accessible /\ \A x \in Groups : rw_mgr_mem_calibrate_read_load_patterns(board[x], scc[x])]
  /\ L' = [L EXCEPT !.d = phy.rlat, !.first = TRUE]
  /\ Goto("lfifo")
  /\ UNCHANGED <<scc, vfifo, gbl>> /\ Still /\ StillPhy

\* Output delays, two taps at a time, until the guaranteed read passes.
DelayLoop ==
  LET s1 == IF L.d > 0 THEN scc_mgr_apply_group_all_out_delay_add(S, L.d) ELSE S
      ok == Accessible /\ rw_mgr_mem_calibrate_read_load_patterns(B, s1)
      r == rw_mgr_mem_calibrate_read_test_patterns_all_ranks(B, s1, ok)
  IN  /\ pc = "delay"
      /\ IF L.d > dtaps_per_ptap
           THEN /\ GiveUp(set_failing_group_stage(gbl, g, CAL_STAGE_VFIFO, L.sub))
                /\ UNCHANGED <<scc, mem, L>>
           ELSE /\ Put(r.s) /\ mem' = [mem EXCEPT !.patterns = ok] /\ UNCHANGED gbl
                /\ IF r.ok THEN /\ L' = [L EXCEPT !.orig = r.s.dqs_in, !.dqs = r.s.dqs_in]
                                /\ Goto("dqs_in")
                           ELSE L' = [L EXCEPT !.d = @ + 2] /\ Goto("delay")
      /\ UNCHANGED <<vfifo, rf>> /\ Still /\ StillPhy

\* DQS input delays, from the one the chain has, until the group calibrates.
DqsInLoop ==
  /\ pc = "dqs_in"
  /\ IF L.dqs > IO_DQS_IN_DELAY_MAX
       THEN L' = [L EXCEPT !.d = @ + 2] /\ Goto("delay") /\ UNCHANGED <<scc, rf>>
       ELSE /\ Put(EnableAt(SweepDqIn(scc_mgr_set_dqs_bus_in_delay(S, L.dqs)), 1, 0))
            /\ rf' = reg_file_set_sub_stage(rf, VFIFO_CENTER)
            /\ Goto("find_failing") /\ UNCHANGED L
  /\ UNCHANGED <<vfifo, mem, gbl>> /\ Still /\ StillPhy

-----------------------------------------------------------------------------
(* The deskew searches, shared by reads and writes. *)

\* Moving the bits: a passing attempt is the left edge so far; a failure
\* before any pass makes the next attempt the right edge.
LeftEdges(l, chk, ill) ==
  [l EXCEPT !.left = [i \in Bits |-> IF i \in chk THEN l.e ELSE @[i]],
            !.right = [i \in Bits |-> IF i \notin chk /\ l.left[i] = ill THEN -(l.e + 1) ELSE @[i]]]

\* Moving the strobe: a passing attempt is the right edge so far.
RightEdges(l, chk, ill) ==
  LET new(i) == i \notin chk /\ l.right[i] = ill
      marginal(i) == new(i) /\ l.e = 0 /\ l.left[i] # ill
  IN  [l EXCEPT !.right = [i \in Bits |-> IF i \in chk THEN l.e
                                          ELSE IF marginal(i) THEN -1 ELSE @[i]],
                !.left = [i \in Bits |-> IF new(i) /\ ~marginal(i) THEN -(l.e + 1) ELSE @[i]]]

\* Between the two: a right edge without a left one is forgotten.  The bits
\* that count as seen have a left edge; in the read centring, both edges.
NextSearch(l, ill, both) ==
  LET right == [i \in Bits |-> IF l.left[i] = ill THEN ill ELSE l.right[i]]
  IN  [l EXCEPT !.right = right, !.e = 0,
                !.sticky = {i \in Bits : l.left[i] # ill /\ (both => right[i] # ill)}]

Windowless(ill) == {i \in Bits : L.left[i] = ill \/ L.right[i] = ill}

\* C's division by two.
Half(a) == IF a < 0 THEN -((-a) \div 2) ELSE a \div 2
\* Mutant: no upper bound.
Clamp_LowOnly(a, lo, hi) == IF a < lo THEN lo ELSE a
Clamp(a, lo, hi) == IF a > hi THEN hi ELSE IF a < lo THEN lo ELSE a

\* The middle of the window of a bit, and the least of them.
Mid(i) == L.left[i] - L.right[i]
LeastMid == Min({Mid(i) : i \in Bits})
MidMin == Half(IF LeastMid > 0 THEN LeastMid + 1 ELSE LeastMid)

\* Every bit is shifted to the level of the strobe, which moves by -moved;
\* the margins are the least distances to the two edges.
Shift(i, moved, ill) == Clamp(Half(Mid(i) - LeastMid) + MidMin - moved, 0, ill - 1)
DqMargin(moved, ill) ==
  Min({ill} \cup {L.left[i] - Shift(i, moved, ill) - moved : i \in Bits})
DqsMargin(moved, ill) ==
  Min({ill} \cup {L.right[i] + Shift(i, moved, ill) + moved : i \in Bits})

-----------------------------------------------------------------------------
(* rw_mgr_mem_calibrate_vfifo_center: first with reads, then with writes. *)

CenterTest(s) == IF L.first THEN ReadBits(s, vfifo[g]) ELSE WriteBits(s, FALSE)

ReadLeft ==
  LET s1 == scc_mgr_apply_group_dq_in_delay(S, L.e)
      chk == CenterTest(s1)
      seen == L.sticky \cup chk
      stop == chk = {} /\ seen = Bits
      l1 == IF stop THEN L ELSE LeftEdges(L, chk, InIll)
  IN  /\ pc = "read_left"
      /\ IF stop \/ L.e = IO_IO_IN_DELAY_MAX
           THEN /\ Put(scc_mgr_apply_group_dq_in_delay(S, 0))
                /\ L' = NextSearch(l1, InIll, TRUE) /\ Goto("read_right")
           ELSE /\ Put(s1) /\ L' = [l1 EXCEPT !.sticky = seen, !.e = @ + 1] /\ Goto("read_left")
      /\ UNCHANGED <<vfifo, mem, gbl, rf>> /\ Still /\ StillPhy

ReadRight ==
  LET s1 == scc_mgr_set_dqs_bus_in_delay(S, L.start + L.e)
      chk == CenterTest(s1)
      seen == L.sticky \cup chk
      stop == chk = {} /\ seen = Bits
      l1 == IF stop THEN L ELSE RightEdges(L, chk, InIll)
  IN  /\ pc = "read_right"
      /\ Put(s1)
      /\ L' = [l1 EXCEPT !.sticky = seen, !.e = @ + 1]
      /\ Goto(IF stop \/ L.e = IO_DQS_IN_DELAY_MAX - L.start THEN "read_centre" ELSE "read_right")
      /\ UNCHANGED <<vfifo, mem, gbl, rf>> /\ Still /\ StillPhy

\* What follows a failed centring: another DQS delay, or the end.
CenterFailed(gg) ==
  IF L.first
    THEN /\ L' = [L EXCEPT !.sub = VFIFO_CENTER, !.dqs = @ + 1]
         /\ gbl' = gg /\ Goto("dqs_in")
    ELSE /\ GiveUp(set_failing_group_stage(gg, g, CAL_STAGE_VFIFO_AFTER_WRITES, VFIFO_CENTER))
         /\ UNCHANGED L

\* A bit without a window: the strobe goes back where it was.
ReadWindowless ==
  /\ pc = "read_centre" /\ Windowless(InIll) # {}
  /\ Put(scc_mgr_set_dqs_bus_in_delay(S, L.start))
  /\ CenterFailed(set_failing_group_stage(
                    gbl, g * DqPerGroup + Min(Windowless(InIll)),
                    IF L.first THEN CAL_STAGE_VFIFO ELSE CAL_STAGE_VFIFO_AFTER_WRITES, VFIFO_CENTER))
  /\ UNCHANGED <<vfifo, mem, rf>> /\ Still /\ StillPhy

\* The stages that follow within a group, as the register file shows them.
rw_mgr_mem_calibrate_writes(r) ==
  reg_file_set_group(reg_file_set_sub_stage(
    reg_file_set_stage(r, CAL_STAGE_WRITES), WRITES_CENTER), g)
rw_mgr_mem_calibrate_vfifo_end(r) ==
  reg_file_set_group(reg_file_set_sub_stage(
    reg_file_set_stage(r, CAL_STAGE_VFIFO_AFTER_WRITES), VFIFO_CENTER), g)

\* The strobe and the bits are centred.  After the first centring the output
\* chains go back to their start if they were moved, and the writes follow;
\* after the second the group is done.
ReadCentre ==
  LET new_dqs == Clamp(L.start - MidMin, 0, IO_DQS_IN_DELAY_MAX)
      moved == L.start - new_dqs
      dq == DqMargin(moved, InIll)
      dqs == DqsMargin(moved, InIll)
      s1 == scc_mgr_set_dq_in_delay(scc_mgr_set_dqs_bus_in_delay(S, new_dqs),
                                    [i \in Bits |-> Shift(i, moved, InIll)])
      s2 == IF L.d > 0 THEN scc_mgr_zero_group(s1, TRUE) ELSE s1
      gg == IF L.first THEN gbl ELSE [gbl EXCEPT !.fom_in = @ + dq + dqs]
  IN  /\ pc = "read_centre" /\ Windowless(InIll) = {}
      /\ IF dq < 0 \/ dqs < 0 THEN Put(s1) /\ CenterFailed(gg) /\ UNCHANGED rf
         ELSE /\ gbl' = gg
              /\ IF L.first
                   THEN /\ Put(s2) /\ Goto("write_left")
                        /\ rf' = rw_mgr_mem_calibrate_writes(rf)
                        /\ L' = [StartDeskew(L, OutIll) EXCEPT !.start = s2.dqs_out1]
                   ELSE /\ Put(s1) /\ Goto("group") /\ L' = [L EXCEPT !.g = @ + 1] /\ UNCHANGED rf
      /\ UNCHANGED <<vfifo, mem>> /\ Still /\ StillPhy

-----------------------------------------------------------------------------
(* rw_mgr_mem_calibrate_writes_center: the bits, then the data mask. *)

WriteLeft ==
  LET s1 == scc_mgr_apply_group_dq_out1_delay(S, L.e)
      chk == WriteBits(s1, FALSE)
      seen == L.sticky \cup chk
      stop == chk = {} /\ seen = Bits
      l1 == IF stop THEN L ELSE LeftEdges(L, chk, OutIll)
  IN  /\ pc = "write_left"
      /\ IF stop \/ L.e = IO_IO_OUT1_DELAY_MAX
           THEN /\ Put(scc_mgr_apply_group_dq_out1_delay(S, 0))
                /\ L' = NextSearch(l1, OutIll, FALSE) /\ Goto("write_right")
           ELSE /\ Put(s1) /\ L' = [l1 EXCEPT !.sticky = seen, !.e = @ + 1] /\ Goto("write_left")
      /\ UNCHANGED <<vfifo, mem, gbl, rf>> /\ Still /\ StillPhy

\* A stop at the first attempt marks the bits that passed before as marginal.
WriteRight ==
  LET s1 == scc_mgr_apply_group_dqs_io_and_oct_out1(S, L.start + L.e)
      chk == WriteBits(s1, FALSE)
      seen == L.sticky \cup chk
      stop == chk = {} /\ seen = Bits
      l1 == IF ~stop THEN RightEdges(L, chk, OutIll)
            ELSE [L EXCEPT !.right = [i \in Bits |->
                    IF L.e = 0 /\ @[i] = OutIll /\ L.left[i] # OutIll THEN -1 ELSE @[i]]]
  IN  /\ pc = "write_right"
      /\ Put(s1)
      /\ L' = [l1 EXCEPT !.sticky = seen, !.e = @ + 1]
      /\ Goto(IF stop \/ L.e = IO_IO_OUT1_DELAY_MAX - L.start THEN "write_centre" ELSE "write_right")
      /\ UNCHANGED <<vfifo, mem, gbl, rf>> /\ Still /\ StillPhy

\* The strobe returns to its start and only the bits move: without a window
\* for every bit the group fails here, otherwise the data mask is next.
WriteCentre ==
  /\ pc = "write_centre"
  /\ IF Windowless(OutIll) # {}
       THEN /\ GiveUp(set_failing_group_stage(
                        gbl, g * DqPerGroup + Min(Windowless(OutIll)), CAL_STAGE_WRITES, WRITES_CENTER))
            /\ UNCHANGED <<scc, L>>
       ELSE /\ Put(scc_mgr_set_dq_out1_delay(scc_mgr_apply_group_dqs_io_and_oct_out1(S, L.start),
                                              [i \in Bits |-> Shift(i, 0, OutIll)]))
            /\ L' = [L EXCEPT !.dq = DqMargin(0, OutIll), !.dqsm = DqsMargin(0, OutIll),
                              !.e = IO_IO_OUT1_DELAY_MAX, !.curr = << >>, !.best = << >>]
            /\ Goto("dm_left") /\ UNCHANGED gbl
  /\ UNCHANGED <<vfifo, mem, rf>> /\ Still /\ StillPhy

\* The windows of the mask: the one in progress, and the widest so far.
Width(w) == IF w = << >> THEN 0 ELSE w[2] - w[1] + 1
Extend(l, at, ok) ==
  LET curr == IF ~ok THEN << >> ELSE IF l.curr = << >> THEN <<at, at>> ELSE <<l.curr[1], at>>
  IN  [l EXCEPT !.curr = curr, !.best = IF Width(curr) > Width(@) THEN curr ELSE @]

\* With the mask's delay falling to zero ...
DmLeft ==
  LET s1 == scc_mgr_apply_group_dm_out1_delay(S, L.e)
      l1 == Extend(L, -L.e, WriteBits(s1, TRUE) = Bits)
  IN  /\ pc = "dm_left"
      /\ IF L.e > 0 THEN Put(s1) /\ L' = [l1 EXCEPT !.e = @ - 1] /\ Goto("dm_left")
         ELSE /\ Put(scc_mgr_apply_group_dm_out1_delay(S, 0))
              /\ L' = l1 /\ Goto("dm_right")
      /\ UNCHANGED <<vfifo, mem, gbl, rf>> /\ Still /\ StillPhy

\* ... and then with the strobe's rising, until what is left of the chain
\* cannot hold a wider window.
DmRight ==
  LET s1 == scc_mgr_apply_group_dqs_io_and_oct_out1(S, L.start + L.e)
      ok == WriteBits(s1, TRUE) = Bits
      left == IO_IO_OUT1_DELAY_MAX - L.start - L.e
      l1 == Extend(L, L.e, ok)
  IN  /\ pc = "dm_right"
      /\ Put(s1)
      /\ L' = [l1 EXCEPT !.e = @ + 1]
      /\ Goto(IF left = 0 \/ (~ok /\ Width(l1.best) - 1 > left) THEN "dm_centre" ELSE "dm_right")
      /\ UNCHANGED <<vfifo, mem, gbl, rf>> /\ Still /\ StillPhy

DmMargin_NoWindow(best, mid) == IF best = << >> THEN 0 ELSE -best[1] - mid

\* Without a window the margin must fail.
DmMargin(best, mid) == IF best = << >> THEN -1 ELSE -best[1] - mid

\* The figure of merit of the writes takes the margins of the bits, good or bad.
ExportWrites(gg) == [gg EXCEPT !.fom_out = @ + L.dq + L.dqsm]

\* The mask moves to the middle of its widest window, right only; the strobe
\* goes back.  Reads are then centred again with the final writes.
DmCentre ==
  LET mid == IF L.best = << >> THEN 0 ELSE Max({0, Half(-L.best[1] - L.best[2])})
      margin == DmMargin(L.best, mid)
      gg == ExportWrites(gbl)
  IN  /\ pc = "dm_centre"
      /\ Put(scc_mgr_apply_group_dm_out1_delay(
               scc_mgr_apply_group_dqs_io_and_oct_out1(S, L.start), mid))
      /\ IF L.dq >= 0 /\ L.dqsm >= 0 /\ margin >= 0
           THEN /\ gbl' = gg /\ Goto("read_left")
                /\ rf' = rw_mgr_mem_calibrate_vfifo_end(rf)
                /\ L' = [StartDeskew(L, InIll) EXCEPT !.start = S.dqs_in, !.first = FALSE]
           ELSE /\ GiveUp(set_failing_group_stage(gg, g, CAL_STAGE_WRITES, WRITES_CENTER))
                /\ UNCHANGED <<L, rf>>
      /\ UNCHANGED <<vfifo, mem>> /\ Still /\ StillPhy

-----------------------------------------------------------------------------
\* The read latency goes down while every group reads, then up by two.
rw_mgr_mem_calibrate_lfifo ==
  LET ok == \A x \in Groups :
              rw_mgr_mem_calibrate_read_test(board[x], scc[x], vfifo[x], Accessible /\ mem.patterns, L.d) = Bits
      curr == IF ok THEN L.d - 1 ELSE L.d
  IN  /\ pc = "lfifo"
      /\ IF ok /\ curr > 0
           THEN /\ phy' = [phy EXCEPT !.rlat = L.d]
                /\ L' = [L EXCEPT !.d = curr, !.first = FALSE]
                /\ Goto("lfifo") /\ UNCHANGED gbl
           ELSE IF ok \/ ~L.first
           THEN /\ phy' = [phy EXCEPT !.rlat = curr + 2]
                /\ pc' = "report" /\ pass' = TRUE /\ UNCHANGED <<L, gbl>>
           ELSE /\ phy' = [phy EXCEPT !.rlat = L.d]
                /\ GiveUp(set_failing_group_stage(gbl, 255, CAL_STAGE_LFIFO, READ_LATENCY))
                /\ UNCHANGED L
      /\ UNCHANGED <<scc, vfifo, mem, trk, rf>> /\ Still

-----------------------------------------------------------------------------
(* main, run_mem_calibrate and mem_calibrate. *)

initialize_reg_file ==
  [stage |-> NIL, sub |-> NIL, group |-> 0, fom |-> <<0, 0>>, failing |-> << >>]

\* What the tracking manager is told: of a phase, until it is measured, and
\* the counts, delays and addresses it works with, which never change.
initialize_tracking(t) == [t EXCEPT !.dtaps = dtaps_per_ptap, !.told = TRUE]

main ==
  /\ pc = "boot" /\ Goto("run")
  /\ rf' = reg_file_set_group(reg_file_set_stage(initialize_reg_file, NIL), 0)
  /\ trk' = initialize_tracking(trk)
  /\ UNCHANGED <<scc, vfifo, mem, phy, gbl, L>> /\ Still

\* The tracking manager is asked to stall ...
StallTracking ==
  /\ pc = "run" /\ Goto("stall")
  /\ phy' = [phy EXCEPT !.status = "reset"]
  /\ trk' = [trk EXCEPT !.stall = "requested"]
  /\ UNCHANGED <<scc, vfifo, mem, gbl, rf, L>> /\ Still

\* ... does so in its own time (external) ...
TrackerAcks ==
  /\ trk.stall = "requested"
  /\ trk' = [trk EXCEPT !.stall = "acked"]
  /\ UNCHANGED <<pc, board, scc, vfifo, mem, phy, gbl, rf, L, pass, requests>>

\* initialize: the path to the memory is taken, and the status cleared.
initialize(ph) ==
  [ph EXCEPT !.mux = 3, !.stable = FALSE, !.status = "reset", !.debug = << >>]

\* The memory is reset with its clock stable, and given the MR1 of the
\* calibration; its rows are closed and its contents lost.
rw_mgr_mem_initialize ==
  [mr1 |-> "calib", rows |-> "closed", patterns |-> FALSE]
ClockStable(ph) == [ph EXCEPT !.stable = TRUE]

\* Row 0 of the first and the last bank is opened; all are closed again, and
\* the MR1 of the user given, before the controller has the memory.
mem_precharge_and_activate(m) == [m EXCEPT !.rows = "open"]
rw_mgr_mem_handoff_NoPrecharge(m) == [m EXCEPT !.mr1 = "user"]
rw_mgr_mem_handoff(m) == [m EXCEPT !.rows = "closed", !.mr1 = "user"]

\* ... and only then is the memory reset, mem_config run and every group zeroed.
mem_config(ph) ==
  [ph EXCEPT !.rlat = Min({ReadLatency + LatencySlack, MaxLatency}), !.wlat = WriteLatency + 2 - 2]
StartCalibration_KeepError ==
  /\ pc = "stall" /\ trk.stall = "acked" /\ Goto("group")
  /\ phy' = mem_config(ClockStable(initialize(phy)))
  /\ mem' = mem_precharge_and_activate(rw_mgr_mem_initialize)
  /\ gbl' = [gbl EXCEPT !.fom_in = 0, !.fom_out = 0]
  /\ scc' = [x \in Groups |-> scc_mgr_zero_all(scc_set_bypass_mode(scc[x], TRUE))]
  /\ L' = NoLocals
  /\ UNCHANGED <<vfifo, trk, rf>> /\ Still
StartCalibration_NoWait ==
  /\ pc = "stall" /\ Goto("group")
  /\ phy' = mem_config(ClockStable(initialize(phy)))
  /\ mem' = mem_precharge_and_activate(rw_mgr_mem_initialize)
  /\ gbl' = [stage |-> NIL, sub |-> NIL, group |-> 255, fom_in |-> 0, fom_out |-> 0]
  /\ scc' = [x \in Groups |-> scc_mgr_zero_all(scc_set_bypass_mode(scc[x], TRUE))]
  /\ L' = NoLocals
  /\ UNCHANGED <<vfifo, trk, rf>> /\ Still

StartCalibration ==
  /\ pc = "stall" /\ trk.stall = "acked" /\ Goto("group")
  /\ phy' = mem_config(ClockStable(initialize(phy)))
  /\ mem' = mem_precharge_and_activate(rw_mgr_mem_initialize)
  /\ gbl' = [stage |-> NIL, sub |-> NIL, group |-> 255, fom_in |-> 0, fom_out |-> 0]
  /\ scc' = [x \in Groups |-> scc_mgr_zero_all(scc_set_bypass_mode(scc[x], TRUE))]
  /\ L' = NoLocals
  /\ UNCHANGED <<vfifo, trk, rf>> /\ Still

\* The memory is handed to the controller whatever the result.
HandOff ==
  /\ pc = "report" /\ Goto("resume")
  /\ mem' = rw_mgr_mem_handoff(mem_precharge_and_activate(mem))
  /\ phy' = [phy EXCEPT !.mux = 2]
  /\ UNCHANGED <<scc, vfifo, trk, gbl, rf, L>> /\ Still

Report ==
  /\ pc = "resume" /\ Goto("idle")
  /\ trk' = [trk EXCEPT !.stall = "no"]
  /\ LET fom == <<Min({gbl.fom_in \div 2, 255}), Min({gbl.fom_out \div 2, 255})>>
         where == <<gbl.stage, gbl.sub, gbl.group>>
     IN  IF pass
           THEN /\ gbl' = [gbl EXCEPT !.fom_in = fom[1], !.fom_out = fom[2]]
                /\ rf' = [rf EXCEPT !.fom = fom]
                /\ phy' = [phy EXCEPT !.status = "success", !.debug = fom]
           ELSE /\ rf' = [rf EXCEPT !.failing = where]
                /\ phy' = [phy EXCEPT !.status = "fail", !.debug = where]
                /\ UNCHANGED gbl
  /\ UNCHANGED <<scc, vfifo, mem, L>> /\ Still

\* A request of the host: initialise only, or calibrate again.
user_init_cal_req ==
  /\ pc = "idle" /\ requests < MaxRequests
  /\ requests' = requests + 1
  /\ \/ /\ phy' = [ClockStable(initialize(phy)) EXCEPT !.mux = 0, !.status = "success"]
        /\ mem' = rw_mgr_mem_handoff(rw_mgr_mem_initialize)
        /\ UNCHANGED <<pc, board>>
     \/ pc' = "run" /\ board' \in Drifted /\ UNCHANGED <<phy, mem>>
  /\ UNCHANGED <<scc, vfifo, trk, gbl, rf, L, pass>>

Search == FindFailing \/ FindFirst \/ BackOff \/ Forward \/ RightEdge \/ DtapsPerPtap \/ Centre
Deskew == ReadLeft \/ ReadRight \/ ReadWindowless \/ ReadCentre
            \/ WriteLeft \/ WriteRight \/ WriteCentre \/ DmLeft \/ DmRight \/ DmCentre
Program == main \/ StallTracking \/ StartCalibration \/ GroupStart \/ GroupsDone \/ DelayLoop \/ DqsInLoop
             \/ Search \/ Deskew \/ rw_mgr_mem_calibrate_lfifo \/ HandOff \/ Report
Next == Program \/ TrackerAcks \/ user_init_cal_req

\* The sequencer's processor runs nothing else, and the tracking manager is a
\* free-running state machine; the host need not ask for anything.
Spec == Init /\ [][Next]_vars /\ WF_vars(Program) /\ WF_vars(TrackerAcks)

-----------------------------------------------------------------------------
Calibrating == pc \notin {"boot", "run", "stall", "resume", "idle"}

\* Every delay the searches and the centring write fits its chain, and the
\* read latency its register.
TypeOK ==
  /\ scc \in [Groups -> Chains] /\ vfifo \in [Groups -> 0..(VFIFO_SIZE - 1)]
  /\ phy.rlat \in 0..MaxLatency /\ trk.dtaps \in 0..IO_DQS_EN_DELAY_MAX
  /\ trk.stall \in {"no", "requested", "acked"} /\ pass \in BOOLEAN
  /\ mem \in [mr1: {"none", "calib", "user"}, rows: {"closed", "open"}, patterns: BOOLEAN]

\* After success every bit of every group reads with the settings that are
\* left, the read latency that rw_mgr_mem_calibrate_lfifo settles on included.
ReadsGood ==
  pc = "idle" /\ pass =>
    \A x \in Groups :
      /\ phy.rlat >= board[x].lat
      /\ \A i \in Bits : ReadOk(board[x], scc[x], vfifo[x], i)

\* When run_mem_calibrate reports success (PHY_MGR_CAL_SUCCESS), every bit of
\* every group reads, writes and is masked correctly with the settings that
\* are left in the chains; the clamped, halved and rounded centring of five
\* searches never leaves a bit outside its window.
SuccessIsGood ==
  /\ ReadsGood
  /\ pc = "idle" /\ pass =>
       \A x \in Groups :
         DmOk(board[x], scc[x]) /\ \A i \in Bits : WriteOk(board[x], scc[x], i)

\* A failure names the stage that gave up (REG_FILE_FAILING_STAGE), or the
\* first centring of that same calibration that found a bit without a window,
\* which the loop of rw_mgr_mem_calibrate_vfifo may have recovered from.
FailureNamed ==
  pc = "idle" /\ phy.status = "fail" =>
    /\ rf.failing # << >> /\ rf.failing[1] # NIL
    /\ \/ rf.failing[1] = rf.stage
       \/ rf.failing[1] = CAL_STAGE_VFIFO /\ rf.failing[2] = VFIFO_CENTER

\* What the sequencer reports to the host is so, success and failure alike.
StatusTrue == SuccessIsGood /\ FailureNamed

\* The chains and the VFIFOs only change while the tracking manager, which
\* moves the same DQS enables, has acknowledged its stall and the sequencer
\* owns the path to the memory.
TrackingStalled ==
  [][scc' # scc \/ vfifo' # vfifo => trk.stall = "acked" /\ (phy.mux = 3 \/ phy'.mux = 3)]_vars

\* What was found for a group survives the calibration of the ones after it.
GroupsKept ==
  [][Calibrating /\ L.g < NumGroups =>
       \A x \in Groups : x < L.g => scc'[x] = scc[x] /\ vfifo'[x] = vfifo[x]]_vars

\* Nobody else moves the chains of the group that is calibrated, and its
\* calibration moves no chain of a group that is done.
ChainsOwned == TrackingStalled /\ GroupsKept

\* Every calibration ends, with the tracking running again.
CalibrationEnds == pc # "idle" ~> pc = "idle" /\ trk.stall = "no"

\* How far the DQS enable is from the nearer edge of its window.
Slack(x) ==
  LET at == (EnPos(scc[x], vfifo[x]) - board[x].en_lo) % (VFIFO_SIZE * Cycle)
  IN  Min({at, board[x].en_w - 1 - at})

\* The DQS enable that the search settles on (work_mid) is less than a phase
\* away from the middle of the true window, although phase 0 is never tried,
\* the edges are found in two different grids, and the VFIFO only goes round.
EnCentred ==
  pc = "idle" /\ pass =>
    \A x \in Groups : board[x].en_w < VFIFO_SIZE * Cycle =>
      Slack(x) + IO_DELAY_PER_OPA_TAP > (board[x].en_w - 1) \div 2

\* Rows are open to the tests as long as the calibration lasts; when the
\* controller has the memory they are closed and the user's MR1 is in.
HandedOver ==
  /\ Calibrating => phy.mux = 3 /\ phy.stable /\ Accessible
  /\ pc \in {"resume", "idle"} =>
       phy.mux # 3 /\ mem.mr1 = "user" /\ mem.rows = "closed" /\ \A x \in Groups : scc[x].bypass
=============================================================================

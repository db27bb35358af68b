------------------------------- MODULE SeqPhy -------------------------------
(***************************************************************************)
(* The delay chains of the LPDDR2 PHY as the calibration sequencer sets    *)
(* them through the SCC manager, and the tests it runs on the memory.      *)
(*                                                                         *)
(* The chains of a group are a record.  dqs_out1 stands for the output     *)
(* chain of DQS and for that of OCT, which are set together (zero_all sets *)
(* that of OCT alone; zero_group sets both before the first test); the     *)
(* Cyclone V has no out2 chains (IO_IO_OUT2_DELAY_MAX = 0) and one output  *)
(* phase (IO_DQDQS_OUT_PHASE_MAX = 0).                                     *)
(*                                                                         *)
(* The board (external) is described by windows: a bit of a group is read  *)
(* correctly when dq_in - dqs_in lies in its read window and the DQS       *)
(* enable in the enable window; it is written correctly when               *)
(* dq_out1 - dqs_out1 lies in its write window and the DQS in the range    *)
(* the memory accepts against its clock.                                   *)
(***************************************************************************)
EXTENDS Integers, FiniteSets, FiniteSetsExt

CONSTANTS
  NumGroups,                \* RW_MGR_MEM_IF_READ_DQS_WIDTH: DQS groups
  DqPerGroup,               \* RW_MGR_MEM_DQ_PER_READ_DQS: bits of a group
  VFIFO_SIZE,
  IO_DQS_EN_PHASE_MAX, IO_DQS_EN_DELAY_MAX,
  IO_DELAY_PER_OPA_TAP, IO_DELAY_PER_DQS_EN_DCHAIN_TAP,
  IO_DQS_IN_DELAY_MAX, IO_IO_IN_DELAY_MAX, IO_IO_OUT1_DELAY_MAX,
  IO_DQS_IN_RESERVE, IO_DQS_OUT_RESERVE

\* What the generated parameters of every build satisfy.
ASSUME PhyAssumption ==
  /\ NumGroups \in Nat \ {0} /\ DqPerGroup \in Nat /\ DqPerGroup > 1
  /\ VFIFO_SIZE \in Nat \ {0} /\ IO_DQS_EN_PHASE_MAX \in Nat \ {0}
  /\ IO_DELAY_PER_OPA_TAP \in Nat \ {0} /\ IO_DELAY_PER_DQS_EN_DCHAIN_TAP \in Nat \ {0}
  /\ {IO_DQS_EN_DELAY_MAX, IO_DQS_IN_DELAY_MAX, IO_IO_IN_DELAY_MAX, IO_IO_OUT1_DELAY_MAX} \subseteq Nat
  /\ IO_DQS_EN_DELAY_MAX * IO_DELAY_PER_DQS_EN_DCHAIN_TAP >= IO_DELAY_PER_OPA_TAP
  /\ IO_DQS_IN_RESERVE \in 0..IO_DQS_IN_DELAY_MAX
  /\ IO_DQS_OUT_RESERVE \in 0..IO_IO_OUT1_DELAY_MAX

Groups == 0..(NumGroups - 1)
Bits == 0..(DqPerGroup - 1)
Phases == IO_DQS_EN_PHASE_MAX + 1
Cycle == Phases * IO_DELAY_PER_OPA_TAP

-----------------------------------------------------------------------------
\* The chains of one group.
Chains ==
  [bypass: BOOLEAN, dqs_in: 0..IO_DQS_IN_DELAY_MAX, en_phase: 0..IO_DQS_EN_PHASE_MAX,
   en_delay: 0..IO_DQS_EN_DELAY_MAX, dqs_out1: 0..IO_IO_OUT1_DELAY_MAX,
   dm_out1: 0..IO_IO_OUT1_DELAY_MAX, dq_in: [Bits -> 0..IO_IO_IN_DELAY_MAX],
   dq_out1: [Bits -> 0..IO_IO_OUT1_DELAY_MAX]]

\* Full rate: the half-rate registers of every pin of the group are bypassed.
scc_set_bypass_mode(s, mode) == [s EXCEPT !.bypass = mode]

\* The setters: the value, the enables that load it, and the update.
scc_mgr_set_dqs_bus_in_delay(s, dd) == [s EXCEPT !.dqs_in = dd]
scc_mgr_set_dqs_en_phase_all_ranks(s, pp) == [s EXCEPT !.en_phase = pp]
scc_mgr_set_dqs_en_delay_all_ranks(s, dd) == [s EXCEPT !.en_delay = dd]
scc_mgr_set_dq_in_delay(s, dq) == [s EXCEPT !.dq_in = dq]       \* a delay for each bit
scc_mgr_set_dq_out1_delay(s, dq) == [s EXCEPT !.dq_out1 = dq]
scc_mgr_set_dm_out1_delay(s, dd) == [s EXCEPT !.dm_out1 = dd]
scc_mgr_set_dqs_out1_delay(s, dd) == [s EXCEPT !.dqs_out1 = dd]

\* The same delay for all the pins of a group.
scc_mgr_apply_group_dq_in_delay(s, dd) == scc_mgr_set_dq_in_delay(s, [i \in Bits |-> dd])
scc_mgr_apply_group_dq_out1_delay(s, dd) == scc_mgr_set_dq_out1_delay(s, [i \in Bits |-> dd])
scc_mgr_apply_group_dm_out1_delay(s, dd) == scc_mgr_set_dm_out1_delay(s, dd)
scc_mgr_apply_group_dqs_io_and_oct_out1(s, dd) == scc_mgr_set_dqs_out1_delay(s, dd)

\* Without out2 chains the DQ and DM parts add nothing (they are clamped),
\* and what does not fit the DQS chain goes to its out1: the delay itself.
scc_mgr_apply_group_all_out_delay_add(s, dd) == scc_mgr_set_dqs_out1_delay(s, dd)

\* zero_all leaves the DQ and DM chains to zero_group.
scc_mgr_zero_all(s) ==
  [s EXCEPT !.dqs_in = IO_DQS_IN_RESERVE, !.en_phase = 0, !.en_delay = 0]

scc_mgr_zero_group(s, out_only) ==
  [s EXCEPT !.dq_out1 = [i \in Bits |-> 0], !.dm_out1 = 0, !.dqs_out1 = IO_DQS_OUT_RESERVE,
            !.dq_in = IF out_only THEN @ ELSE [i \in Bits |-> 0]]

\* The steps of dq_in delays that spread the bits of a group over the range.
SweepDqIn(s) ==
  [s EXCEPT !.dq_in = [i \in Bits |-> i * (IO_IO_IN_DELAY_MAX \div (DqPerGroup - 1))]]

-----------------------------------------------------------------------------
\* The board: windows of a group, external.
In(w, val) == w[1] <= val /\ val <= w[2]

\* Where the enable opens: pushes of the VFIFO count cycles, in a ring.
EnPos(s, vp) ==
  (vp * Cycle + s.en_phase * IO_DELAY_PER_OPA_TAP
     + s.en_delay * IO_DELAY_PER_DQS_EN_DCHAIN_TAP) % (VFIFO_SIZE * Cycle)
EnOk(b, s, vp) == (EnPos(s, vp) - b.en_lo) % (VFIFO_SIZE * Cycle) < b.en_w

CkOk(b, s) == s.dqs_out1 \in b.ck
ReadOk(b, s, vp, i) == EnOk(b, s, vp) /\ In(b.rd[i], s.dq_in[i] - s.dqs_in)
WriteOk(b, s, i) == CkOk(b, s) /\ In(b.wr[i], s.dq_out1[i] - s.dqs_out1)
DmOk(b, s) == In(b.dm, s.dm_out1 - s.dqs_out1)

\* bit_chk of the tests: the bits that came back right.  A read needs the
\* patterns the last load wrote, and a read latency the memory can meet.
rw_mgr_mem_calibrate_read_test(b, s, vp, loaded, lat) ==
  IF loaded /\ lat >= b.lat THEN {i \in Bits : ReadOk(b, s, vp, i)} ELSE {}

\* The bits a write burst gets right; with the mask in use all depend on it.
rw_mgr_mem_calibrate_write_test_issue(b, s, test_dm) ==
  IF test_dm /\ ~DmOk(b, s) THEN {} ELSE {i \in Bits : WriteOk(b, s, i)}

rw_mgr_mem_calibrate_write_test(b, s, vp, lat, use_dm) ==
  IF lat < b.lat THEN {}
  ELSE {i \in rw_mgr_mem_calibrate_write_test_issue(b, s, use_dm) : ReadOk(b, s, vp, i)}

\* The guaranteed write is slow enough for every bit; only the clock
\* relation counts.
rw_mgr_mem_calibrate_read_load_patterns(b, s) == CkOk(b, s)

\* The guaranteed read passes unless the enable's phase cuts the burst.
rw_mgr_mem_calibrate_read_test_patterns(b, s, loaded) == loaded /\ s.en_phase \notin b.cut

\* It is tried with the phase as it is and then with each phase from 0; the
\* phase of the attempt that passes stays, or the last one.
rw_mgr_mem_calibrate_read_test_patterns_all_ranks(b, s, loaded) ==
  LET Passes(pp) == rw_mgr_mem_calibrate_read_test_patterns(
                       b, scc_mgr_set_dqs_en_phase_all_ranks(s, pp), loaded)
      good == {pp \in 0..IO_DQS_EN_PHASE_MAX : Passes(pp)}
  IN  IF Passes(s.en_phase) THEN [ok |-> TRUE, s |-> s]
      ELSE [ok |-> good # {},
            s |-> scc_mgr_set_dqs_en_phase_all_ranks(
                    s, IF good # {} THEN Min(good) ELSE IO_DQS_EN_PHASE_MAX)]

-----------------------------------------------------------------------------
\* Pushes of the VFIFO: there is no way back but all the way round.
rw_mgr_incr_vfifo(vp, n) == (vp + n) % VFIFO_SIZE
rw_mgr_decr_vfifo == VFIFO_SIZE - 1   \* pushes that make one step back

\* Delay taps that fit in a phase tap: the first count that covers it, less one.
dtaps_per_ptap ==
  (IO_DELAY_PER_OPA_TAP + IO_DELAY_PER_DQS_EN_DCHAIN_TAP - 1)
     \div IO_DELAY_PER_DQS_EN_DCHAIN_TAP - 1
=============================================================================

------------------------------ MODULE FfFlags -------------------------------
(***************************************************************************)
(* The overflow flag of a FIFO of the memory arbiter (ff_flags), from the  *)
(* clock domain of the FIFO's write side to the status register that the   *)
(* host reads, and back: reading the register sends a clear pulse through  *)
(* pulse_toggle_sync.  The underflow flag is built in the same way.        *)
(*                                                                         *)
(* The two clocks are unrelated: a step is an edge of clk, on which the    *)
(* host may read the status register, or an edge of wr_clk, on which the   *)
(* FIFO may be pushed while full.                                          *)
(***************************************************************************)
EXTENDS Integers, Sequences

CONSTANT MaxEvents   \* bound: status reads, and overflows

ASSUME FlagsAssumption == MaxEvents \in Nat

Level == {0, 1}
Xor(a, b) == IF a = b THEN 0 ELSE 1

VARIABLES
  in_tggl,        \* pulse_toggle_sync, clk side
  sync_f,         \* its dd_sync, wr_clk side
  out_tggl_1d,
  pulse_out_reg,  \* the clear pulse on wr_clk
  ff_ovrflw,      \* the flag
  stat_f,         \* dd_sync of the flag, clk side
  lb_rd_data,     \* the flag's bit of the status register as last read
  clears,         \* ghost: status reads, each a clear pulse
  pulses,         \* ghost: clear pulses that came out
  spaced,         \* ghost: no clear has been sent before the last arrived
  ovrflws         \* ghost: overflows

syncVars == <<in_tggl, sync_f, out_tggl_1d, pulse_out_reg, clears, pulses, spaced>>
flagVars == <<ff_ovrflw, stat_f, lb_rd_data, ovrflws>>
FlagsVars == <<syncVars, flagVars>>

FlagsInit ==
  /\ in_tggl = 0 /\ sync_f = <<0, 0>> /\ out_tggl_1d = 0 /\ pulse_out_reg = 0
  /\ ff_ovrflw = 0 /\ stat_f = <<0, 0>> /\ lb_rd_data = 0
  /\ clears = 0 /\ pulses = 0 /\ spaced = TRUE
  /\ ovrflws = 0

\* The toggle has passed all stages of the synchroniser.
Settled == \A s \in {sync_f[1], sync_f[2], out_tggl_1d} : s = in_tggl

(***************************************************************************)
(* clk: the status register is read, or not.                               *)
(***************************************************************************)
\* Mutant: the toggle is set, not toggled.
TogglePulse_Set(rd) == in_tggl' = IF rd THEN 1 ELSE in_tggl
TogglePulse(rd) == in_tggl' = IF rd THEN Xor(in_tggl, 1) ELSE in_tggl

ClkEdge(rd) ==
  /\ rd => clears < MaxEvents
  /\ TogglePulse(rd)
  /\ stat_f' = <<ff_ovrflw, stat_f[1]>>
  /\ lb_rd_data' = IF rd THEN stat_f[2] ELSE lb_rd_data
  /\ clears' = IF rd THEN clears + 1 ELSE clears
  /\ spaced' = (spaced /\ (rd => Settled))
  /\ UNCHANGED <<sync_f, out_tggl_1d, pulse_out_reg, pulses, ff_ovrflw, ovrflws>>

(***************************************************************************)
(* wr_clk: the FIFO is pushed while full, or not.                          *)
(***************************************************************************)
PulseOut == pulse_out_reg' = Xor(sync_f[2], out_tggl_1d)

WrEdge(ovr) ==
  /\ ovr => ovrflws < MaxEvents
  /\ sync_f' = <<in_tggl, sync_f[1]>>
  /\ out_tggl_1d' = sync_f[2]
  /\ PulseOut
  /\ pulses' = pulses + pulse_out_reg'
  /\ ff_ovrflw' = IF pulse_out_reg = 1 THEN 0 ELSE (IF ovr THEN 1 ELSE 0)
  /\ ovrflws' = IF ovr THEN ovrflws + 1 ELSE ovrflws
  /\ UNCHANGED <<in_tggl, stat_f, lb_rd_data, clears, spaced>>

FlagsNext ==
  \/ \E rd \in BOOLEAN : ClkEdge(rd)
  \/ \E ovr \in BOOLEAN : WrEdge(ovr)

FlagsSpec == FlagsInit /\ [][FlagsNext]_FlagsVars

-----------------------------------------------------------------------------
\* Every register holds a bit and the ghosts count events.
FlagsTypeOK ==
  /\ {in_tggl, out_tggl_1d, pulse_out_reg, ff_ovrflw, lb_rd_data} \subseteq Level
  /\ sync_f \in Level \X Level /\ stat_f \in Level \X Level
  /\ clears \in Nat /\ pulses \in Nat /\ ovrflws \in Nat
  /\ spaced \in BOOLEAN

(***************************************************************************)
(* pulse_toggle_sync: the clear pulses that have come out and the toggles  *)
(* still on their way account for every pulse sent, as long as none was    *)
(* sent before the one before it had arrived; then each comes out once.    *)
(***************************************************************************)
InFlight ==
  Xor(in_tggl, sync_f[1]) + Xor(sync_f[1], sync_f[2]) + Xor(sync_f[2], out_tggl_1d)

EveryClearArrives == spaced => clears = pulses + InFlight

(***************************************************************************)
(* Pulses sent too close together cancel each other, and only in pairs: a  *)
(* clear never comes out that was not sent, and what is missing is even.   *)
(***************************************************************************)
ClearsCancelInPairs ==
  pulses + InFlight <= clears /\ (clears - pulses - InFlight) % 2 = 0

(***************************************************************************)
(* The clear pulses are accounted for however close together they are      *)
(* sent (in_tggl, sync_f and pulse_out_reg of pulse_toggle_sync).          *)
(***************************************************************************)
ClearsAccounted == EveryClearArrives /\ ClearsCancelInPairs
=============================================================================

---------------------------- MODULE MCSequencer ----------------------------
(***************************************************************************)
(* Small instance of the sequencer: two groups of two bits, a VFIFO of     *)
(* three entries, three phases of three delay taps.                        *)
(***************************************************************************)
EXTENDS Sequencer

\* A board on which everything is in the middle, and what may be off.
Nominal ==
  [en_lo |-> 5, en_w |-> 8, rd |-> [i \in Bits |-> <<-2, 1>>], wr |-> [i \in Bits |-> <<-2, 1>>],
   dm |-> <<-2, 1>>, ck |-> 0..IO_IO_OUT1_DELAY_MAX, cut |-> {}, lat |-> 2]

Windows(lo, hi) == {w \in (lo..hi) \X (lo..hi) : w[1] <= w[2]}
EnOff == {[Nominal EXCEPT !.en_lo = a, !.en_w = w, !.rd[1] = r] :
            a \in 0..26, w \in {0, 1, 3, 5, 8, 9, 14, 27}, r \in {<<-2, 1>>, <<3, 3>>}}
RdOff == {[Nominal EXCEPT !.rd[0] = a, !.rd[1] = b] : a \in Windows(-3, 3), b \in Windows(-3, 3)}
WrOff == {[Nominal EXCEPT !.wr[0] = a, !.wr[1] = b, !.dm = c] :
            a \in Windows(-3, 3), b \in {<<-2, 1>>, <<0, 2>>, <<-3, -3>>},
            c \in {<<-2, 1>>, <<-3, -2>>, <<0, 0>>, <<1, 3>>, <<3, 3>>}}
CkOff == {[Nominal EXCEPT !.ck = c, !.cut = x, !.lat = l] :
            c \in SUBSET (0..IO_IO_OUT1_DELAY_MAX), x \in {{}, {0}, {0, 1, 2}}, l \in 0..5}

MCBoards ==
  {[x \in Groups |-> IF x = 0 THEN b ELSE Nominal] : b \in EnOff \cup RdOff \cup WrOff \cup CkOff}
    \cup {[x \in Groups |-> IF x = 0 THEN Nominal ELSE b] : b \in CkOff}

\* Later the second bit can no longer be written.
MCDrifted == {[x \in Groups |-> [Nominal EXCEPT !.wr[1] = <<-3, -3>>]]}
=============================================================================

------------------------------- MODULE DcFifo -------------------------------
(***************************************************************************)
(* The dual-clock, show-ahead FIFO that the design instantiates wherever   *)
(* data crosses a clock domain (the Altera dcfifo behind ff_80x32_fwft_    *)
(* async, ff_10x1024_fwft_async, ff_40x32_fwft_async, ...), as far as the  *)
(* RTL can see it: rdempty, rdusedw, wrfull, q, rdreq and wrreq.           *)
(*                                                                         *)
(* Each side sees the other side's pointer through a synchroniser, hence   *)
(* late.  A FIFO is a record                                               *)
(*   q     the words in the memory, oldest first;                          *)
(*   seen  how many of them the read side already knows of;                *)
(*   held  how many words the read side has popped that the write side     *)
(*         still counts as occupying the memory.                           *)
(* The instances are generated with overflow_checking and                  *)
(* underflow_checking ON: a push into a full and a pop of an empty FIFO    *)
(* are ignored.                                                            *)
(***************************************************************************)
LOCAL INSTANCE Naturals
LOCAL INSTANCE Sequences

FifoOf(W) == [q : Seq(W), seen : Nat, held : Nat]

EmptyFifo == [q |-> << >>, seen |-> 0, held |-> 0]

\* wrfull of a FIFO of d words.
WrFull(f, d) == Len(f.q) + f.held >= d

\* rdempty.
RdEmpty(f) == f.seen = 0

(***************************************************************************)
(* rdusedw is log2(d) bits wide (add_usedw_msb_bit is OFF), so a FIFO whose *)
(* d words are all used reports zero words, exactly like an empty one.     *)
(***************************************************************************)
RdUsedw(f, d) == f.seen % d

\* wrreq, on the write clock.
FifoPush(f, d, x) == IF WrFull(f, d) THEN f ELSE [f EXCEPT !.q = Append(@, x)]

\* rdreq, on the read clock.
FifoPop(f) ==
  IF RdEmpty(f) THEN f
  ELSE [q |-> Tail(f.q), seen |-> f.seen - 1, held |-> f.held + 1]

\* The read side's, the write side's synchroniser catches up.
SyncRdSide(f) == [f EXCEPT !.seen = Len(f.q)]
SyncWrSide(f) == [f EXCEPT !.held = 0]
=============================================================================

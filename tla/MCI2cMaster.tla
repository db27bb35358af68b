---------------------------- MODULE MCI2cMaster -----------------------------
(***************************************************************************)
(* The I2C master for TLC.  The transactions are those the firmware makes: *)
(* a write of one byte that keeps the bus, a write of two bytes, a read of *)
(* one or two bytes, one too long; an address probe besides.               *)
(***************************************************************************)
EXTENDS I2cMaster, TLC

A1 == <<0, 0, 1, 1, 0, 1, 0>>
A2 == <<0, 1, 1, 1, 0, 0, 1>>
D1 == <<1, 0, 1, 1, 0, 0, 0, 1>>
D2 == <<0, 1, 0, 0, 1, 1, 1, 0>>

Xtn(rd, addr, data, n, stop) ==
  [rd |-> rd, addr |-> addr, data |-> data, n |-> n, stop |-> stop]

MCXtns == { Xtn(0, A1, <<D1>>, 1, 0), Xtn(0, A2, <<D1, D2>>, 2, 1),
            Xtn(1, A1, << >>, 2, 1), Xtn(1, A2, << >>, 1, 1),
            Xtn(0, A2, << >>, 0, 1), Xtn(0, A1, <<D1, D1, D1>>, 3, 1) }
MCSlaveBytes == {D1, D2}
=============================================================================

------------------------------ MODULE MCLedos ------------------------------
(***************************************************************************)
(* Instances of the firmware: what main() runs with the monitor coming and *)
(* going, the audio calls without a monitor, and an application that polls *)
(* for the monitor.                                                        *)
(***************************************************************************)
EXTENDS Ledos

PassApps == {"main", "fft", "cap", "poll"}
=============================================================================

-------------------------------- MODULE MCHal --------------------------------
(***************************************************************************)
(* The hardware abstraction layer for TLC.  A behaviour is bounded in one  *)
(* of six ways: it is about the JTAG UART and a host that is there or not, *)
(* about a host that comes or goes, about the JTAG UART while the other    *)
(* line is active too, about the UART and its line, about descriptors and  *)
(* their locks, or about alarms.                                           *)
(***************************************************************************)
EXTENDS Hal

Bound(ops, devs, used, ncalls, nhost, nline, nplugs, ticks) ==
  [ops |-> ops, devs |-> devs, fds |-> used, calls |-> ncalls, host |-> nhost,
   line |-> nline, plugs |-> nplugs, ticks |-> ticks]

HalBounds == {
  Bound({"read", "write", "close"}, {"jtag"}, {0, 1}, 2, 2, 0, 0, TRUE),
  Bound({"write", "close", "timeout", "fcntl"}, {"jtag"}, {1}, 2, 0, 0, 1, TRUE),
  Bound({"read", "write"}, {"jtag"}, {0, 1}, 1, 1, 1, 0, TRUE),
  Bound({"open", "read", "write", "close"}, {"uart"}, {3}, 3, 0, 3, 0, FALSE),
  Bound({"open", "close", "lock", "fcntl"}, {"null", "uart"}, {3, 4, 5}, 5, 0, 0, 0, FALSE),
  Bound({"alarm"}, {}, {}, 3, 0, 0, 0, TRUE)}
=============================================================================

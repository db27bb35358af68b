------------------------------- MODULE AltTick -------------------------------
(***************************************************************************)
(* The system clock of the hardware abstraction layer: the tick counter,   *)
(* which is a 32-bit word that rolls over after 49 days, and the alarms.   *)
(*                                                                         *)
(* A clock tk is a record                                                  *)
(*   rate    _alt_tick_rate, 0 until the timer is initialised              *)
(*   nticks  _alt_nticks, modulo TICK_MOD                                  *)
(*   alarms  the registered alarms by name, each with the time it is to    *)
(*           run at, the rollover flag and, as a ghost, the number of      *)
(*           ticks that are still to pass                                  *)
(*   exact   ghost: every alarm has run at its tick and at no other        *)
(* The callbacks do not touch each other's data, so the order of the list  *)
(* of alarms is left out.                                                  *)
(***************************************************************************)
EXTENDS Integers

CONSTANTS
  TICK_MOD,           \* 2^32 in the code
  TICKS_PER_SECOND

ASSUME TickAssumption ==
  /\ TICK_MOD \in Nat /\ TICKS_PER_SECOND \in Nat \ {0}
  /\ TICKS_PER_SECOND + 1 < TICK_MOD

Clock0 == [rate |-> 0, nticks |-> 0, alarms |-> << >>, exact |-> TRUE]

alt_sysclk_init(tk, freq) == IF tk.rate = 0 THEN [tk EXCEPT !.rate = freq] ELSE tk

\* Mutant: the rollover flag is not set.
alt_alarm_start_NoRollover(tk, id, n) ==
  [tk EXCEPT !.alarms =
     [i \in DOMAIN @ \cup {id} |->
        IF i = id THEN [time |-> (n + tk.nticks + 1) % TICK_MOD,
                        rollover |-> FALSE, due |-> n + 1] ELSE @[i]]]
\* Without a clock the call fails and the alarm is not registered.
alt_alarm_start(tk, id, n) ==
  LET time == (n + tk.nticks + 1) % TICK_MOD
  IN  IF tk.rate = 0 THEN tk
      ELSE [tk EXCEPT !.alarms =
              [i \in DOMAIN @ \cup {id} |->
                 IF i = id THEN [time |-> time, rollover |-> time < tk.nticks,
                                 due |-> n + 1] ELSE @[i]]]

alt_alarm_stop(tk, id) ==
  [tk EXCEPT !.alarms = [i \in DOMAIN @ \ {id} |-> @[i]]]

-----------------------------------------------------------------------------
RolledOver(a, n) == a.rollover /\ n # 0

\* The alarms that run when the counter has become n.
Fires(tk, n) ==
  {i \in DOMAIN tk.alarms :
     tk.alarms[i].time <= n /\ ~RolledOver(tk.alarms[i], n)}

\* Again[i] is what the callback of alarm i returns: the ticks to the next
\* time, 0 to stop the alarm.
alt_tick(tk, Again) ==
  LET n    == (tk.nticks + 1) % TICK_MOD
      runs == Fires(tk, n)
      kept == {i \in DOMAIN tk.alarms : i \in runs => Again[i] > 0}
      After(i) ==
        LET a == tk.alarms[i]
            t == (a.time + Again[i]) % TICK_MOD
        IN  IF i \in runs
            THEN [time |-> t, rollover |-> t < n, due |-> Again[i]]
            ELSE [a EXCEPT !.rollover = RolledOver(a, n), !.due = @ - 1]
  IN  [tk EXCEPT
         !.nticks = n,
         !.alarms = [i \in kept |-> After(i)],
         !.exact  = @ /\ runs = {i \in DOMAIN tk.alarms : tk.alarms[i].due = 1}]
=============================================================================

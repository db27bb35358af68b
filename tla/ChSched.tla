------------------------------ MODULE ChSched ------------------------------
(***************************************************************************)
(* The scheduler, the thread queues and the virtual timers of ChibiOS/RT   *)
(* 2.6.8 (chschd.c, chinline.h, chvt.c, chthreads.c, chsys.c), as           *)
(* operators from a kernel state to the next one.  Every kernel call runs   *)
(* with interrupts masked, so a call is one operator application up to the  *)
(* place where it switches to another thread; what it still has to do when  *)
(* it is switched back in is its continuation, k.cont.                      *)
(*                                                                         *)
(* A kernel state k is a record:                                            *)
(*   cur, ready     rlist: the running thread and the ready queue           *)
(*   st, prio, rprio, preempt, u, waiting, epending, mtxlist                *)
(*                  the fields of struct Thread; u is the union p_u, the    *)
(*                  pair of which member was written last and its value     *)
(*   q, cnt, owner  the wait queues, semaphore counters, mutex owners       *)
(*   vt, systime    vtlist: the armed timers in order of expiry, each with  *)
(*                  its distance to the one before it                       *)
(*   due            history: the ticks left to each armed timer             *)
(*   cont           the rest of the call a thread is blocked or queued in   *)
(***************************************************************************)
EXTENDS Integers, Sequences, FiniteSets

CONSTANTS Threads,          \* the threads of the application
          Idle,             \* the idle thread
          CH_TIME_QUANTUM,  \* ticks before a thread yields to its equals
          TimeMod           \* 2^width of systime_t

ASSUME SchedAssumption ==
    /\ Idle \notin Threads
    /\ CH_TIME_QUANTUM \in Nat \ {0}
    /\ TimeMod \in Nat /\ TimeMod >= 4

All == Threads \cup {Idle}

NOPRIO == 0
IDLEPRIO == 1
TIME_IMMEDIATE == 0
TIME_INFINITE == TimeMod - 1

States == {"READY", "CURRENT", "SUSPENDED", "WTSEM", "WTMTX", "WTCOND",
           "SLEEPING", "WTEXIT", "WTOREVT", "WTANDEVT", "SNDMSGQ", "SNDMSG",
           "WTMSG", "WTQUEUE", "FINAL"}

\* The rest of a call that has nothing left to do: the thread is in its own code.
NoCont == [fn |-> "none"]

Msg(m) == <<"rdymsg", m>>
Obj(o) == <<"wtobjp", o>>
WaitObj(k, t) == k.u[t][2]
RdyMsg(k, t) == k.u[t][2]

----------------------------------------------------------------------------
(* Thread queues: a queue is the sequence of its threads.                   *)

\* The queue q with t put in front of the first thread that is behind it.
InsertBefore(q, t, Behind(_)) ==
    LET P == {i \in DOMAIN q : Behind(q[i])}
        n == IF P = {} THEN Len(q) + 1
             ELSE CHOOSE i \in P : \A j \in P : i <= j
    IN  SubSeq(q, 1, n - 1) \o <<t>> \o SubSeq(q, n, Len(q))

prio_insert(q, t, prio) == InsertBefore(q, t, LAMBDA c : prio[c] < prio[t])
queue_insert(q, t) == Append(q, t)
\* The list without its n-th member.
Unlink(s, n) == SubSeq(s, 1, n - 1) \o SubSeq(s, n + 1, Len(s))
dequeue(q, t) == Unlink(q, CHOOSE i \in DOMAIN q : q[i] = t)
list_insert(q, t) == <<t>> \o q

firstprio(k) == IF k.ready = <<>> THEN NOPRIO ELSE k.prio[Head(k.ready)]

----------------------------------------------------------------------------
(* Scheduler.                                                               *)

chSchReadyI(k, t) ==
    [k EXCEPT !.st[t] = "READY", !.ready = prio_insert(@, t, k.prio)]

\* chSchReadyI(tp)->p_u.rdymsg = msg
ReadyMsg(k, t, msg) == [chSchReadyI(k, t) EXCEPT !.u[t] = Msg(msg)]

\* ReadyMsg for the threads of s, in that order.
ReadyEach(k, s, msg) ==
    LET f[n \in 0..Len(s)] == IF n = 0 THEN k ELSE ReadyMsg(f[n - 1], s[n], msg)
    IN  f[Len(s)]

\* setcurrp(fifo_remove(&rlist.r_queue)); currp->p_state = THD_STATE_CURRENT
SwitchToFirst(k) ==
    [k EXCEPT !.cur = Head(k.ready), !.ready = Tail(@),
              !.st[Head(k.ready)] = "CURRENT"]

\* The running thread sleeps; cont is what its call does when it runs again.
chSchGoSleepS(k, newstate, cont) ==
    SwitchToFirst([k EXCEPT !.st[k.cur] = newstate,
                            !.preempt[k.cur] = CH_TIME_QUANTUM,
                            !.cont[k.cur] = cont])

chSchWakeupS(k, ntp, msg) ==
    LET k1 == [k EXCEPT !.u[ntp] = Msg(msg)]
    IN  IF k.prio[ntp] <= k.prio[k.cur]
        THEN chSchReadyI(k1, ntp)
        ELSE [chSchReadyI(k1, k.cur) EXCEPT !.cur = ntp, !.st[ntp] = "CURRENT"]

chSchIsRescRequiredI(k) == firstprio(k) > k.prio[k.cur]

chSchDoRescheduleBehind(k) ==
    chSchReadyI([SwitchToFirst(k) EXCEPT !.preempt[k.cur] = CH_TIME_QUANTUM], k.cur)

chSchDoRescheduleAhead(k) ==
    LET k1 == SwitchToFirst(k)
    IN  [k1 EXCEPT !.st[k.cur] = "READY",
                   !.ready = InsertBefore(@, k.cur,
                                 LAMBDA c : k.prio[c] <= k.prio[k.cur])]

chSchRescheduleS(k) ==
    IF chSchIsRescRequiredI(k) THEN chSchDoRescheduleAhead(k) ELSE k

chSchIsPreemptionRequired(k) ==
    IF k.preempt[k.cur] > 0 THEN firstprio(k) > k.prio[k.cur]
    ELSE firstprio(k) >= k.prio[k.cur]

chSchDoReschedule(k) ==
    IF k.preempt[k.cur] = 0 THEN chSchDoRescheduleBehind(k)
    ELSE chSchDoRescheduleAhead(k)

chSchDoYieldS(k) ==
    IF firstprio(k) >= k.prio[k.cur] THEN chSchDoRescheduleBehind(k) ELSE k

\* The end of every interrupt service routine.
ALT_OS_INT_EXIT(k) ==
    IF chSchIsPreemptionRequired(k) THEN chSchDoReschedule(k) ELSE k

----------------------------------------------------------------------------
(* Virtual timers.  The only timers here are the ones on the stack of       *)
(* chSchGoSleepTimeoutS, so a timer is named by its thread.                 *)

\* The ticks to the expiry of each timer of a list.
Expiries(vt) ==
    LET f[i \in 0..Len(vt)] == IF i = 0 THEN 0 ELSE f[i - 1] + vt[i].time IN f

chVTSetI(k, t, time) ==
    LET f == Expiries(k.vt)
        P == {i \in DOMAIN k.vt : f[i] >= time}
        n == IF P = {} THEN Len(k.vt) + 1
             ELSE CHOOSE i \in P : \A j \in P : i <= j
        new == [par |-> t, time |-> time - f[n - 1]]
        rest == [SubSeq(k.vt, n, Len(k.vt)) EXCEPT ![1].time = @ - new.time]
    IN  [k EXCEPT !.vt = SubSeq(@, 1, n - 1) \o <<new>> \o
                         (IF P = {} THEN <<>> ELSE rest),
                  !.due[t] = time]

chVTIsArmedI(k, t) == \E i \in DOMAIN k.vt : k.vt[i].par = t

\* Mutant: the next timer is not given the time of the removed one.
chVTResetI_NoAdd(k, t) ==
    LET n == CHOOSE i \in DOMAIN k.vt : k.vt[i].par = t
        rest == [SubSeq(k.vt, n + 1, Len(k.vt)) EXCEPT
                    ![1].time = @]
    IN  [k EXCEPT !.vt = SubSeq(@, 1, n - 1) \o
                         (IF n = Len(k.vt) THEN <<>> ELSE rest),
                  !.due[t] = 0]

chVTResetI(k, t) ==
    LET n == CHOOSE i \in DOMAIN k.vt : k.vt[i].par = t
        rest == [SubSeq(k.vt, n + 1, Len(k.vt)) EXCEPT
                    ![1].time = @ + k.vt[n].time]
    IN  [k EXCEPT !.vt = SubSeq(@, 1, n - 1) \o
                         (IF n = Len(k.vt) THEN <<>> ELSE rest),
                  !.due[t] = 0]

chSchGoSleepTimeoutS(k, newstate, time, cont) ==
    IF time = TIME_INFINITE THEN chSchGoSleepS(k, newstate, cont)
    ELSE chSchGoSleepS(chVTSetI(k, k.cur, time), newstate, cont)

\* What chSchGoSleepTimeoutS does when its thread runs again.
AfterSleep(k) == IF chVTIsArmedI(k, k.cur) THEN chVTResetI(k, k.cur) ELSE k

\* Mutant: a timed out wait on a condition stays in its queue.
wakeup_NoCond(k, t) ==
    LET o == WaitObj(k, t)
        k1 == CASE k.st[t] = "WTSEM" -> [k EXCEPT !.cnt[o] = @ + 1,
                                                  !.q[o] = dequeue(@, t)]
                [] k.st[t] \in {"WTQUEUE"} ->
                       [k EXCEPT !.q[o] = dequeue(@, t)]
                [] OTHER -> k
    IN  IF k.st[t] = "READY" THEN k
        ELSE chSchReadyI([k1 EXCEPT !.u[t] = Msg("RDY_TIMEOUT")], t)

\* The callback of the timer of a sleeping thread.
wakeup(k, t) ==
    LET o == WaitObj(k, t)
        k1 == CASE k.st[t] = "WTSEM" -> [k EXCEPT !.cnt[o] = @ + 1,
                                                  !.q[o] = dequeue(@, t)]
                [] k.st[t] \in {"WTQUEUE", "WTCOND"} ->
                       [k EXCEPT !.q[o] = dequeue(@, t)]
                [] OTHER -> k
    IN  IF k.st[t] = "READY" THEN k
        ELSE chSchReadyI([k1 EXCEPT !.u[t] = Msg("RDY_TIMEOUT")], t)

chVTDoTickI(k) ==
    LET k1 == [k EXCEPT !.systime = (@ + 1) % TimeMod,
                        !.due = [t \in All |-> IF @[t] > 0 THEN @[t] - 1 ELSE 0]]
        vt1 == [k.vt EXCEPT ![1].time = @ - 1]
        P == {i \in DOMAIN vt1 : vt1[i].time # 0}
        n == IF P = {} THEN Len(vt1) ELSE (CHOOSE i \in P : \A j \in P : i <= j) - 1
        k2 == [k1 EXCEPT !.vt = SubSeq(vt1, n + 1, Len(vt1))]
        f[i \in 0..n] == IF i = 0 THEN k2 ELSE wakeup(f[i - 1], vt1[i].par)
    IN  IF k.vt = <<>> THEN k1 ELSE f[n]

\* Mutant: the timers only count while no quantum does.
chSysTimerHandlerI_Else(k) ==
    IF k.preempt[k.cur] > 0 THEN [k EXCEPT !.preempt[k.cur] = @ - 1] ELSE chVTDoTickI(k)

chSysTimerHandlerI(k) ==
    chVTDoTickI([k EXCEPT !.preempt[k.cur] = IF @ > 0 THEN @ - 1 ELSE 0])

----------------------------------------------------------------------------
(* Threads.                                                                 *)

_thread_init(k, t, prio) ==
    [k EXCEPT !.prio[t] = prio, !.rprio[t] = prio, !.st[t] = "SUSPENDED",
              !.preempt[t] = CH_TIME_QUANTUM, !.mtxlist[t] = <<>>,
              !.epending[t] = {}, !.waiting[t] = <<>>, !.q[t] = <<>>,
              !.cont[t] = NoCont]

chThdSetPriority(k, newprio) ==
    chSchRescheduleS(
        [k EXCEPT !.prio[k.cur] = IF @ = k.rprio[k.cur] \/ newprio > @
                                  THEN newprio ELSE @,
                  !.rprio[k.cur] = newprio])

chThdSleepS(k, time) ==
    chSchGoSleepTimeoutS(k, "SLEEPING", time, [fn |-> "sleep"])

\* The difference is unsigned.
chThdSleepUntil(k, time) ==
    LET d == (time - k.systime) % TimeMod IN IF d > 0 THEN chThdSleepS(k, d) ELSE k
============================================================================

------------------------------- MODULE ChSync -------------------------------
(***************************************************************************)
(* Counting and binary semaphores, mutexes with priority inheritance and    *)
(* condition variables of ChibiOS/RT 2.6.8 (chsem.c, chbsem.h, chmtx.c,      *)
(* chcond.c) as operators on the kernel state of ChSched.                   *)
(***************************************************************************)
EXTENDS ChSched

CONSTANTS Mutexes   \* the mutexes of the application

NoThread == "none"

----------------------------------------------------------------------------
(* Semaphores: s_cnt is k.cnt[s], s_queue is k.q[s] (FIFO: the option       *)
(* CH_USE_SEMAPHORES_PRIORITY is off).                                      *)

\* All waiters are made ready with RDY_RESET, the last one queued first.
chSemResetI(k, s, n) ==
    LET w == k.q[s]
    IN  ReadyEach([k EXCEPT !.cnt[s] = n, !.q[s] = <<>>],
                  [i \in 1..Len(w) |-> w[Len(w) + 1 - i]], "RDY_RESET")

\* Mutant: no reschedule after the waiters were made ready.
chSemReset_NoResched(k, s, n) == chSemResetI(k, s, n)

chSemReset(k, s, n) == chSchRescheduleS(chSemResetI(k, s, n))

\* Then is what the caller does with the semaphore taken without sleeping.
chSemWaitTimeoutS(k, s, time, cont, Then(_)) ==
    LET k1 == [k EXCEPT !.cnt[s] = @ - 1]
    IN  IF k1.cnt[s] >= 0 THEN Then(k1)
        ELSE IF time = TIME_IMMEDIATE THEN k
        ELSE chSchGoSleepTimeoutS([k1 EXCEPT !.u[k.cur] = Obj(s),
                                             !.q[s] = queue_insert(@, k.cur)],
                                  "WTSEM", time, cont)

\* chSemWait: without a timeout.
chSemWaitS(k, s) ==
    LET k1 == [k EXCEPT !.cnt[s] = @ - 1]
    IN  IF k1.cnt[s] >= 0 THEN k1
        ELSE chSchGoSleepS([k1 EXCEPT !.u[k.cur] = Obj(s),
                                      !.q[s] = queue_insert(@, k.cur)],
                           "WTSEM", [fn |-> "sem"])

chSemSignal(k, s) ==
    LET k1 == [k EXCEPT !.cnt[s] = @ + 1]
    IN  IF k1.cnt[s] <= 0
        THEN chSchWakeupS([k1 EXCEPT !.q[s] = Tail(@)], Head(k.q[s]), "RDY_OK")
        ELSE k1

chSemSignalI(k, s) ==
    LET k1 == [k EXCEPT !.cnt[s] = @ + 1]
    IN  IF k1.cnt[s] <= 0
        THEN ReadyMsg([k1 EXCEPT !.q[s] = Tail(@)], Head(k.q[s]), "RDY_OK")
        ELSE k1

chSemAddCounterI(k, s, n) ==
    LET f[i \in 0..n] == IF i = 0 THEN k ELSE chSemSignalI(f[i - 1], s) IN f[n]

\* Signals sps and waits on spw in one critical section.
chSemSignalWait(k, sps, spw) ==
    LET k1 == chSemSignalI(k, sps)
        k2 == [k1 EXCEPT !.cnt[spw] = @ - 1]
    IN  IF k2.cnt[spw] < 0
        THEN chSchGoSleepS([k2 EXCEPT !.q[spw] = queue_insert(@, k.cur),
                                      !.u[k.cur] = Obj(spw)],
                           "WTSEM", [fn |-> "sem"])
        ELSE chSchRescheduleS(k2)

\* Binary semaphores: the counter is at most 1.
chBSemResetI(k, s, taken) == chSemResetI(k, s, IF taken THEN 0 ELSE 1)

chBSemSignalI(k, s) == IF k.cnt[s] < 1 THEN chSemSignalI(k, s) ELSE k

chBSemSignal(k, s) == chSchRescheduleS(chBSemSignalI(k, s))

----------------------------------------------------------------------------
(* Mutexes: m_owner is k.owner[m]; the list of the mutexes a thread owns    *)
(* (p_mtxlist, m_next) is the sequence k.mtxlist[t], newest first.          *)

\* Mutant: the loop stops at an owner that waits for a mutex itself.
Inherit_NoChain(k, tp, p) ==
    LET k1 == [k EXCEPT !.prio[tp] = p]
        o == WaitObj(k, tp)
        requeued == [k1 EXCEPT !.q[o] = prio_insert(dequeue(@, tp), tp, k1.prio)]
    IN  CASE k.st[tp] = "WTMTX" -> <<requeued, NoThread>>
          [] k.st[tp] = "WTCOND" -> <<requeued, NoThread>>
          [] k.st[tp] = "READY" ->
                 <<chSchReadyI([k1 EXCEPT !.ready = dequeue(@, tp)], tp), NoThread>>
          [] OTHER -> <<k1, NoThread>>

\* One turn of the priority inheritance loop of chMtxLockS: the priority p
\* of the thread that has to wait is given to tp; <<new state, next thread>>.
Inherit(k, tp, p) ==
    LET k1 == [k EXCEPT !.prio[tp] = p]
        o == WaitObj(k, tp)
        requeued == [k1 EXCEPT !.q[o] = prio_insert(dequeue(@, tp), tp, k1.prio)]
    IN  CASE k.st[tp] = "WTMTX" -> <<requeued, k.owner[o]>>
          [] k.st[tp] = "WTCOND" -> <<requeued, NoThread>>
          [] k.st[tp] = "READY" ->
                 <<chSchReadyI([k1 EXCEPT !.ready = dequeue(@, tp)], tp), NoThread>>
          [] OTHER -> <<k1, NoThread>>

\* The whole loop: it follows the owners and ends at one that is high enough.
InheritAll(k, tp, p) ==
    LET f[n \in 0..Cardinality(All)] ==
            IF n = 0 THEN <<k, tp>>
            ELSE LET s == f[n - 1]
                 IN  IF s[2] = NoThread THEN s
                     ELSE IF s[1].prio[s[2]] >= p THEN <<s[1], NoThread>>
                     ELSE Inherit(s[1], s[2], p)
    IN  f[Cardinality(All)][1]

Own(k, m, t) == [k EXCEPT !.owner[m] = t, !.mtxlist[t] = <<m>> \o @]

chMtxLockS(k, m) ==
    IF k.owner[m] = NoThread THEN Own(k, m, k.cur)
    ELSE LET k1 == InheritAll(k, k.owner[m], k.prio[k.cur])
         IN  chSchGoSleepS([k1 EXCEPT !.q[m] = prio_insert(@, k.cur, k1.prio),
                                      !.u[k.cur] = Obj(m)],
                           "WTMTX", [fn |-> "mtx"])

chMtxTryLockS(k, m) == IF k.owner[m] # NoThread THEN k ELSE Own(k, m, k.cur)

\* The priority of the running thread once it only owns the mutexes of ms.
PrioOwning(k, ms) ==
    LET W == {k.prio[Head(k.q[m])] : m \in {x \in ms : k.q[x] # <<>>}}
             \cup {k.rprio[k.cur]}
    IN  CHOOSE p \in W : \A x \in W : x <= p

\* The newest mutex leaves the list of the running thread and goes to its
\* first waiter, which Wake then makes ready.
HandOver(k, Wake(_, _)) ==
    LET m == Head(k.mtxlist[k.cur])
        k1 == [k EXCEPT !.mtxlist[k.cur] = Tail(@)]
        tp == Head(k.q[m])
        k2 == [k1 EXCEPT !.prio[k.cur] =
                   PrioOwning(k, {k1.mtxlist[k.cur][i] : i \in DOMAIN k1.mtxlist[k.cur]})]
    IN  IF k.q[m] = <<>> THEN [k1 EXCEPT !.owner[m] = NoThread]
        ELSE Wake(Own([k2 EXCEPT !.q[m] = Tail(@)], m, tp), tp)

chMtxUnlock(k) == HandOver(k, LAMBDA s, t : chSchWakeupS(s, t, "RDY_OK"))

chMtxUnlockS(k) == HandOver(k, chSchReadyI)

chMtxUnlockAll(k) ==
    LET ms == k.mtxlist[k.cur]
        Release(s, m) ==
            IF s.q[m] = <<>> THEN [s EXCEPT !.owner[m] = NoThread]
            ELSE LET tp == Head(s.q[m])
                 IN  chSchReadyI(Own([s EXCEPT !.q[m] = Tail(@)], m, tp), tp)
        f[n \in 0..Len(ms)] ==
            IF n = 0 THEN [k EXCEPT !.mtxlist[k.cur] = <<>>]
            ELSE Release(f[n - 1], ms[n])
    IN  IF ms = <<>> THEN k
        ELSE chSchRescheduleS([f[Len(ms)] EXCEPT !.prio[k.cur] = k.rprio[k.cur]])

----------------------------------------------------------------------------
(* Condition variables: c_queue is k.q[c].                                  *)

chCondSignal(k, c) ==
    IF k.q[c] = <<>> THEN k
    ELSE chSchWakeupS([k EXCEPT !.q[c] = Tail(@)], Head(k.q[c]), "RDY_OK")

chCondSignalI(k, c) ==
    IF k.q[c] = <<>> THEN k
    ELSE ReadyMsg([k EXCEPT !.q[c] = Tail(@)], Head(k.q[c]), "RDY_OK")

chCondBroadcastI(k, c) == ReadyEach([k EXCEPT !.q[c] = <<>>], k.q[c], "RDY_RESET")

chCondBroadcast(k, c) == chSchRescheduleS(chCondBroadcastI(k, c))

\* The newest mutex is released, the thread sleeps, and takes it again.
chCondWaitS(k, c) ==
    LET m == Head(k.mtxlist[k.cur])
        k1 == chMtxUnlockS(k)
    IN  chSchGoSleepS([k1 EXCEPT !.u[k.cur] = Obj(c),
                                 !.q[c] = prio_insert(@, k.cur, k1.prio)],
                      "WTCOND", [fn |-> "cond", mp |-> m])

chCondWaitTimeoutS(k, c, time) ==
    LET m == Head(k.mtxlist[k.cur])
        k1 == chMtxUnlockS(k)
    IN  chSchGoSleepTimeoutS([k1 EXCEPT !.u[k.cur] = Obj(c),
                                        !.q[c] = prio_insert(@, k.cur, k1.prio)],
                             "WTCOND", time, [fn |-> "condt", mp |-> m])

\* What the two waits do when their thread runs again: after a timeout
\* chCondWaitTimeoutS leaves without the mutex.
AfterCondWait(k, m) == chMtxLockS([k EXCEPT !.cont[k.cur] = NoCont], m)

AfterCondWaitTimeout(k, m) ==
    IF RdyMsg(k, k.cur) = "RDY_TIMEOUT" THEN [k EXCEPT !.cont[k.cur] = NoCont]
    ELSE AfterCondWait(k, m)
============================================================================

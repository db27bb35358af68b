------------------------------ MODULE ChKernel ------------------------------
(***************************************************************************)
(* The ChibiOS/RT kernel under an application: threads that call the API in *)
(* any order, the system tick, and interrupt routines that call the I-class *)
(* functions.  Interrupts stay masked from the start of a call until a       *)
(* thread is back in its own code: when a call switches threads, the thread *)
(* switched in first finishes the call it was in.                           *)
(***************************************************************************)
EXTENDS ChMem

CONSTANTS Main,          \* the thread of main()
          Sems, Conds, Items,
          MaxCnt,        \* bound on the counter of a semaphore
          Apps,          \* the applications: [threads, prio, calls, delays, objs,
                         \* events, sizes], the threads main() creates, their
                         \* priorities, the calls they make and the arguments
          ResetRaces,    \* whether a mailbox is reset while a thread that was
                         \* given a slot or a message has not run yet
          RegRaces       \* whether the registry is used while a thread is being
                         \* taken out of it, and static threads end under a scan

ASSUME KernelAssumption ==
    /\ Main \in Threads
    /\ ResetRaces \in BOOLEAN /\ RegRaces \in BOOLEAN
    /\ \A a \in Apps : \A t \in Threads :
           a.prio[t] \in Nat /\ IDLEPRIO < a.prio[t] /\ a.prio[t] <= a.prio[Main]
    /\ \A a \in Apps : Main \in a.threads /\ a.objs \subseteq Sems \cup Mutexes /\ a.delays \subseteq 0..(TimeMod - 1)

AllSems == Sems \cup {"mb_emptysem", "mb_fullsem"}
AllMutexes == Mutexes \cup {"h_mtx"}

\* The kernel objects and the threads are different things.
ASSUME NamesAssumption ==
    /\ AllSems \cap AllMutexes = {} /\ AllSems \cap Conds = {} /\ AllMutexes \cap Conds = {}
    /\ {"iq", "oq"} \cap (AllSems \cup AllMutexes \cup Conds) = {}
    /\ All \cap (AllSems \cup AllMutexes \cup Conds \cup {"iq", "oq"}) = {}
    /\ NoThread \notin All
    /\ IsFiniteSet(Threads) /\ \A a \in Apps : a.threads \subseteq Threads

VARIABLES app,    \* the application that runs, constant
          k,      \* the kernel state
          tick,   \* level of the clock of the timer interrupt
          pie     \* the PIE bit: interrupts are enabled
vars == <<app, k, tick, pie>>

WaitQueues == AllSems \cup AllMutexes \cup Conds \cup {"iq", "oq"} \cup All
Times == 0..(TimeMod - 1)

----------------------------------------------------------------------------
(* Start: chSysInit makes main() the running thread and creates the idle    *)
(* thread, then main() creates the others and sets up the objects.          *)

\* The objects as they are set up.
queue_init == <<>>
chSemInit(s) == IF s = "mb_emptysem" THEN Size ELSE 0
chMtxInit == NoThread
chEvtInit == <<>>
chMBInit == [rd |-> 0, wr |-> 0, out |-> NoItem,
             buf |-> [i \in 0..(Size - 1) |-> NoItem]]
chIQInit == [rd |-> 0, wr |-> 0, counter |-> 0, out |-> NoItem,
             buf |-> [i \in 0..(Size - 1) |-> NoItem]]
chOQInit == [chIQInit EXCEPT !.counter = Size]
_heap_init == <<>>
chPoolInit == <<>>

Cleared ==
    [cur |-> Main, ready |-> <<>>,
     st |-> [t \in All |-> "FINAL"], prio |-> [t \in All |-> NOPRIO],
     rprio |-> [t \in All |-> NOPRIO], preempt |-> [t \in All |-> 0],
     u |-> [t \in All |-> Msg("RDY_OK")], waiting |-> [t \in All |-> <<>>],
     epending |-> [t \in All |-> {}], mtxlist |-> [t \in All |-> <<>>],
     q |-> [o \in WaitQueues |-> queue_init],
     cnt |-> [s \in AllSems |-> chSemInit(s)],
     owner |-> [m \in AllMutexes |-> chMtxInit],
     vt |-> <<>>, systime |-> 0, due |-> [t \in All |-> 0],
     cont |-> [t \in All |-> NoCont], more |-> [t \in All |-> NoCont],
     listeners |-> chEvtInit, flags |-> [t \in All |-> {}],
     msg |-> [t \in All |-> NoItem],
     nextmem |-> 0, free |-> _heap_init, pool |-> chPoolInit, hold |-> [t \in All |-> {}],
     wa |-> [t \in All |-> Static], refs |-> [t \in All |-> 0],
     ref0 |-> [t \in All |-> FALSE], scan |-> [t \in All |-> NoThread],
     newer |-> [t \in All \cup {"rlist"} |-> "rlist"],
     older |-> [t \in All \cup {"rlist"} |-> "rlist"],
     mb |-> chMBInit,
     io |-> [x \in {"iq", "oq"} |-> IF x = "iq" THEN chIQInit ELSE chOQInit]]

chSysInit ==
    chThdCreateStatic([InitThread(Cleared, Main, app.prio[Main], Static) EXCEPT
                           !.st[Main] = "CURRENT", !.ref0[Main] = FALSE],
                      Idle, IDLEPRIO)

\* Then main() creates the static threads of the application in some order.
Boot(S) ==
    LET N == Cardinality(S)
        order == CHOOSE s \in [1..N -> S] : \A t \in S : \E i \in 1..N : s[i] = t
        f[n \in 0..N] ==
            IF n = 0 THEN chSysInit
            ELSE chThdCreateStatic(f[n - 1], order[n], app.prio[order[n]])
    IN  f[N]

Init == app \in Apps /\ k = Boot(app.threads \ {Main}) /\ tick = FALSE /\ pie = TRUE

----------------------------------------------------------------------------
(* Who may do something.                                                    *)

Call(c) ==
    /\ c \in app.calls /\ pie
    /\ k.cur \in Threads /\ k.more[k.cur] = NoCont
    /\ UNCHANGED <<app, tick>>

Isr(c) == c \in app.calls /\ pie /\ UNCHANGED <<app, tick>>

\* Interrupts are enabled again unless the thread that now runs was switched
\* in in the middle of a call.
Do(k1) == k' = k1 /\ pie' = (k1.cont[k1.cur] = NoCont)
DoIsr(k1) == Do(ALT_OS_INT_EXIT(k1))

\* Such a thread goes on with its call.
Resume ==
    /\ ~ pie
    /\ UNCHANGED <<app, tick>>
    /\ LET c == k.cont[k.cur]
           a == AfterSleep(k)
           done == [k EXCEPT !.cont[k.cur] = NoCont]
       IN  Do(CASE c.fn \in {"sleep", "sem"} -> [a EXCEPT !.cont[k.cur] = NoCont]
                [] c.fn \in {"mtx", "send", "join"} -> done
                [] c.fn = "cond" -> AfterCondWait(k, c.mp)
                [] c.fn = "condt" -> AfterCondWaitTimeout(a, c.mp)
                [] c.fn = "evt" -> AfterEvtWait(k, c)
                [] c.fn = "evtt" -> AfterEvtWaitTimeout(a, c)
                [] c.fn = "msgwait" -> TakeSender(k)
                [] c.fn \in {"post", "ahead", "fetch"} -> AfterMB(a, c)
                [] OTHER -> AfterQueue(a, c))

\* The threads taken out of a wait of these calls with RDY_OK that have not
\* run since.
Granted(fns) ==
    {t \in Threads : /\ k.cont[t].fn \in fns
                     /\ k.st[t] \in {"READY", "CURRENT"}
                     /\ RdyMsg(k, t) = "RDY_OK"}

\* No thread is between the end of another one and the release of its memory,
\* or at a thread of the registry.
RegAlone == RegRaces \/ \A t \in Threads : k.more[t].fn \notin {"unlink1", "unlink2"}
Scanning == \E t \in Threads : k.scan[t] # NoThread

\* A rest of a call that is about thread t.
Names(c, t) ==
    \/ c.fn \in {"release", "unlink1", "unlink2", "mem"} /\ c.tp = t
    \/ c.fn \in {"alloc", "core", "spawn"} /\ c.for # ForData /\ c.for.tp = t

\* The thread was never created or has ended, and nobody has a pointer to it.
Startable(t) ==
    /\ k.st[t] = "FINAL" /\ k.wa[t] = Static /\ ~ k.ref0[t]
    /\ \A x \in Threads : k.scan[x] # t /\ ~ Names(k.more[x], t)

\* The running thread is registered with the event source.
Listening == \E i \in DOMAIN k.listeners : k.listeners[i].tp = k.cur

----------------------------------------------------------------------------
(* The system tick.                                                         *)

port_time_tick ==
    pie /\ tick' = ~ tick /\ UNCHANGED app /\ DoIsr(chSysTimerHandlerI(k))

----------------------------------------------------------------------------
(* Threads.                                                                 *)

ThdSleep == Call("chThdSleep") /\ \E d \in app.delays \ {TIME_IMMEDIATE} : Do(chThdSleepS(k, d))
ThdSleepUntil ==
    Call("chThdSleepUntil") /\ \E d \in Times \ {(k.systime - 1) % TimeMod} :
                                   Do(chThdSleepUntil(k, d))
ThdYield == Call("chThdYield") /\ Do(chSchDoYieldS(k))
ThdSetPriority ==
    Call("chThdSetPriority") /\ \E p \in {app.prio[t] : t \in Threads} :
                                    Do(chThdSetPriority(k, p))
ThdExit ==
    /\ Call("chThdExit")
    /\ k.mtxlist[k.cur] = <<>> /\ k.q[k.cur] = <<>> /\ ~ Listening
    /\ k.hold[k.cur] = {} /\ k.scan[k.cur] = NoThread
    /\ RegAlone /\ (RegRaces \/ k.wa[k.cur] # Static \/ ~ Scanning)
    /\ \E m \in Items : Do(chThdExitS(k, m))
\* A thread pointer is used for one wait only.
ThdWait == Call("chThdWait") /\ \E t \in Threads \ {k.cur} :
               k.ref0[t] /\ Do(chThdWait(k, t))
\* A thread that ended is started again in the same working area.
ThdCreateStatic ==
    Call("chThdCreateStatic") /\ \E t \in app.threads :
        Startable(t) /\ RegAlone /\ Do(chThdCreateStatic(k, t, app.prio[t]))

----------------------------------------------------------------------------
(* Semaphores.                                                              *)

Below(s) == k.cnt[s] < MaxCnt

SemWait == Call("chSemWait") /\ \E s \in app.objs \cap Sems : Do(chSemWaitS(k, s))
SemWaitTimeout ==
    Call("chSemWaitTimeout") /\ \E s \in app.objs \cap Sems, d \in app.delays :
        Do(chSemWaitTimeoutS(k, s, d, [fn |-> "sem"], LAMBDA x : x))
SemSignal == Call("chSemSignal") /\ \E s \in app.objs \cap Sems : Below(s) /\ Do(chSemSignal(k, s))
SemReset == Call("chSemReset") /\ \E s \in app.objs \cap Sems : Do(chSemReset(k, s, 0))
SemSignalWait ==
    Call("chSemSignalWait") /\ \E s, w \in app.objs \cap Sems : Below(s) /\ Do(chSemSignalWait(k, s, w))
BSemSignal == Call("chBSemSignal") /\ \E s \in app.objs \cap Sems : Do(chBSemSignal(k, s))
IsrSemAddCounter ==
    Isr("chSemAddCounterI") /\ \E s \in app.objs \cap Sems, n \in 1..2 :
        k.cnt[s] + n <= MaxCnt /\ DoIsr(chSemAddCounterI(k, s, n))
IsrSemReset == Isr("chSemResetI") /\ \E s \in app.objs \cap Sems : DoIsr(chBSemResetI(k, s, FALSE))

----------------------------------------------------------------------------
(* Mutexes and condition variables.                                         *)

MtxLock == Call("chMtxLock") /\ \E m \in app.objs \cap Mutexes :
               k.owner[m] # k.cur /\ Do(chMtxLockS(k, m))
MtxTryLock == Call("chMtxTryLock") /\ \E m \in app.objs \cap Mutexes : Do(chMtxTryLockS(k, m))
MtxUnlock == Call("chMtxUnlock") /\ k.mtxlist[k.cur] # <<>> /\ Do(chMtxUnlock(k))
MtxUnlockAll == Call("chMtxUnlockAll") /\ Do(chMtxUnlockAll(k))

CondWait == Call("chCondWait") /\ k.mtxlist[k.cur] # <<>>
            /\ \E c \in Conds : Do(chCondWaitS(k, c))
CondWaitTimeout ==
    Call("chCondWaitTimeout") /\ k.mtxlist[k.cur] # <<>>
    /\ \E c \in Conds, d \in app.delays \ {TIME_IMMEDIATE} : Do(chCondWaitTimeoutS(k, c, d))
CondSignal == Call("chCondSignal") /\ \E c \in Conds : Do(chCondSignal(k, c))
CondBroadcast == Call("chCondBroadcast") /\ \E c \in Conds : Do(chCondBroadcast(k, c))
IsrCondSignal == Isr("chCondSignalI") /\ \E c \in Conds : DoIsr(chCondSignalI(k, c))

----------------------------------------------------------------------------
(* Events and synchronous messages.                                         *)

Masks == SUBSET app.events \ {{}}
Kinds == {"One", "Any", "All"}
EvtRegister == Call("chEvtRegisterMask") /\ ~ Listening
               /\ \E m \in Masks : Do(chEvtRegisterMask(k, m))
EvtUnregister == Call("chEvtUnregister") /\ Do(chEvtUnregister(k))
EvtGetAndClear == Call("chEvtGetAndClearEvents")
                  /\ \E m \in Masks : Do(chEvtGetAndClearEvents(k, m))
EvtAdd == Call("chEvtAddEvents") /\ \E m \in Masks : Do(chEvtAddEvents(k, m))
EvtGetAndClearFlags == Call("chEvtGetAndClearFlags") /\ Do(chEvtGetAndClearFlags(k))
EvtSignal == Call("chEvtSignal") /\ \E t \in Threads, m \in Masks :
                 k.st[t] # "FINAL" /\ Do(chEvtSignal(k, t, m))
EvtWait == Call("chEvtWait") /\ \E x \in Kinds, m \in Masks : Do(chEvtWait(k, x, m))
EvtWaitTimeout ==
    Call("chEvtWaitTimeout") /\ \E x \in Kinds, m \in Masks, d \in app.delays :
        Do(chEvtWaitTimeout(k, x, m, d))
IsrEvtBroadcast == Isr("chEvtBroadcastFlagsI") /\ DoIsr(chEvtBroadcastFlagsI(k, {1}))
EvtBroadcast == Call("chEvtBroadcastFlags") /\ Do(chEvtBroadcastFlags(k, {1}))

MsgSend == Call("chMsgSend") /\ \E t \in Threads \ {k.cur}, m \in Items :
               k.st[t] # "FINAL" /\ Do(chMsgSend(k, t, m))
MsgWait == Call("chMsgWait") /\ Do(chMsgWait(k))
\* A server releases a sender it took; it is the one that answers.
MsgRelease == Call("chMsgRelease") /\ \E t \in Threads, m \in Items :
                  /\ k.st[t] = "SNDMSG" /\ WaitObj(k, t) = k.cur
                  /\ Do(chMsgRelease(k, t, m))

----------------------------------------------------------------------------
(* Mailbox and I/O queues.                                                  *)

MBPost == Call("chMBPost") /\ \E m \in Items, d \in app.delays : Do(chMBPostS(k, m, d))
MBPostAhead == Call("chMBPostAhead") /\ \E m \in Items, d \in app.delays :
                   Do(chMBPostAheadS(k, m, d))
MBFetch == Call("chMBFetch") /\ \E d \in app.delays : Do(chMBFetchS(k, d))
MBReset == Call("chMBReset") /\ (ResetRaces \/ Granted({"post", "ahead", "fetch"}) = {})
           /\ Do(chMBReset(k))
IsrMBPost == Isr("chMBPostI") /\ \E m \in Items : DoIsr(chMBPostI(k, m))
IsrMBPostAhead == Isr("chMBPostAheadI") /\ \E m \in Items : DoIsr(chMBPostAheadI(k, m))
IsrMBFetch == Isr("chMBFetchI") /\ DoIsr(chMBFetchI(k))

IQGet == Call("chIQGetTimeout") /\ \E d \in app.delays : Do(chIQGetTimeout(k, d))
OQPut == Call("chOQPutTimeout") /\ \E b \in Items, d \in app.delays :
             Do(chOQPutTimeout(k, b, d))
IQRead == Call("chIQReadTimeout") /\ \E d \in app.delays : Do(chIQReadTimeout(k, 2, d))
OQWrite == Call("chOQWriteTimeout") /\ \E b \in Items, d \in app.delays :
               Do(chOQWriteTimeout(k, b, 2, d))
NextByte == /\ pie /\ k.more[k.cur].fn \in {"iqread", "oqwrite"}
            /\ UNCHANGED <<app, tick>> /\ Do(QueueCall(k, k.more[k.cur]))
IsrIQPut == Isr("chIQPutI") /\ \E b \in Items : DoIsr(chIQPutI(k, b))
IsrOQGet == Isr("chOQGetI") /\ DoIsr(chOQGetI(k))
IsrIQReset == Isr("chIQResetI") /\ DoIsr(QResetI(k, "iq", 0))
IsrOQReset == Isr("chOQResetI") /\ DoIsr(QResetI(k, "oq", Size))

----------------------------------------------------------------------------
(* Memory, dynamic threads and the registry.                                *)

HeapAlloc == Call("chHeapAlloc") /\ \E n \in app.sizes : Do(chHeapAlloc(k, n, ForData))
HeapFree ==
    Call("chHeapFree") /\ \E b \in k.hold[k.cur] :
        Do(chHeapFree([k EXCEPT !.hold[k.cur] = @ \ {b}], b))
PoolAlloc == Call("chPoolAlloc") /\ Do(chPoolAlloc(k, ForData))
PoolFree ==
    Call("chPoolFree") /\ \E b \in k.hold[k.cur] :
        Do(chPoolFree([k EXCEPT !.hold[k.cur] = @ \ {b}], b))
CoreAlloc ==
    Call("chCoreAlloc") /\ \E n \in app.sizes :
        LET r == chCoreAllocI(k, n) IN Do(Deliver(r[1], r[2], ForData))

Spawning(mode) == {[mode |-> mode, tp |-> t, prio |-> app.prio[t]] :
                      t \in {t \in Threads \ app.threads : Startable(t)}}
ThdCreateFromHeap ==
    Call("chThdCreateFromHeap") /\ \E n \in app.sizes, f \in Spawning("HEAP") :
        Do(chHeapAlloc(k, n, f))
ThdCreateFromMemoryPool ==
    Call("chThdCreateFromMemoryPool") /\ \E f \in Spawning("MEMPOOL") :
        Do(chPoolAlloc(k, f))

RegFirstThread ==
    Call("chRegFirstThread") /\ RegAlone /\ k.scan[k.cur] = NoThread
    /\ Do(chRegFirstThread(k))
RegNextThread ==
    Call("chRegNextThread") /\ RegAlone /\ k.scan[k.cur] # NoThread
    /\ Do(chRegNextThread(k))

\* The next critical section of one of these calls.
MemSection ==
    /\ pie /\ k.more[k.cur].fn \in MemFns /\ UNCHANGED <<app, tick>>
    /\ k.more[k.cur].fn = "spawn" => RegAlone
    /\ Do(MemStep(k, k.more[k.cur]))

----------------------------------------------------------------------------
Next ==
    \/ port_time_tick \/ Resume
    \/ ThdSleep \/ ThdSleepUntil \/ ThdYield \/ ThdSetPriority \/ ThdExit \/ ThdWait
    \/ ThdCreateStatic
    \/ SemWait \/ SemWaitTimeout \/ SemSignal \/ SemReset \/ SemSignalWait
    \/ BSemSignal \/ IsrSemAddCounter \/ IsrSemReset
    \/ MtxLock \/ MtxTryLock \/ MtxUnlock \/ MtxUnlockAll
    \/ CondWait \/ CondWaitTimeout \/ CondSignal \/ CondBroadcast \/ IsrCondSignal
    \/ EvtRegister \/ EvtUnregister \/ EvtGetAndClear \/ EvtAdd \/ EvtGetAndClearFlags
    \/ EvtSignal \/ EvtWait \/ EvtWaitTimeout \/ EvtBroadcast \/ IsrEvtBroadcast
    \/ MsgSend \/ MsgWait \/ MsgRelease
    \/ MBPost \/ MBPostAhead \/ MBFetch \/ MBReset
    \/ IsrMBPost \/ IsrMBPostAhead \/ IsrMBFetch
    \/ IQGet \/ OQPut \/ IQRead \/ OQWrite \/ NextByte
    \/ IsrIQPut \/ IsrOQGet \/ IsrIQReset \/ IsrOQReset
    \/ HeapAlloc \/ HeapFree \/ PoolAlloc \/ PoolFree \/ CoreAlloc
    \/ ThdCreateFromHeap \/ ThdCreateFromMemoryPool
    \/ RegFirstThread \/ RegNextThread \/ MemSection

Spec == Init /\ [][Next]_vars

\* A call that masked the interrupts ends, and the timer interrupt is taken:
\* it stays pending while they are masked (only port_time_tick changes tick).
FairSpec == Spec /\ WF_pie(~ pie /\ pie' = TRUE) /\ SF_tick(pie /\ tick' = ~ tick)

----------------------------------------------------------------------------
(* Properties.                                                              *)

Used(s) == {s[i] : i \in DOMAIN s}

\* The fields of the kernel objects are in their ranges.
TypeOK ==
    /\ app \in Apps /\ tick \in BOOLEAN
    /\ pie = (k.cont[k.cur] = NoCont)
    /\ k.cur \in All /\ Used(k.ready) \subseteq All
    /\ k.st \in [All -> States]
    /\ \A t \in All : k.preempt[t] \in 0..CH_TIME_QUANTUM
    /\ \A i \in DOMAIN k.vt : k.vt[i].time \in Times
    /\ k.mb.rd \in 0..(Size - 1) /\ k.mb.wr \in 0..(Size - 1)
    /\ \A x \in {"iq", "oq"} : k.io[x].counter \in 0..Size

\* The queue a thread must be linked in, by its state (p_next and p_prev are
\* a single pair of links, so a thread is in one queue at a time).
QueueOf(t) ==
    CASE k.st[t] = "READY" -> {"ready"}
      [] k.st[t] \in {"WTSEM", "WTMTX", "WTCOND", "WTQUEUE", "SNDMSGQ"} -> {WaitObj(k, t)}
      [] k.st[t] = "WTEXIT" -> {<<"waiting", k.cont[t].tp>>}
      [] OTHER -> {}

Linked(t) ==
    {o \in WaitQueues : t \in Used(k.q[o])}
    \cup {<<"waiting", x>> : x \in {x \in All : t \in Used(k.waiting[x])}}
    \cup (IF t \in Used(k.ready) THEN {"ready"} ELSE {})

NoRepeats(s) == \A i, j \in DOMAIN s : s[i] = s[j] => i = j

\* A thread is linked in exactly the queue its state and its wtobjp name,
\* once, and only the current thread is CURRENT: a timeout, a signal and a
\* reset that meet leave no thread in two queues or in none
\* (wakeup() in chschd.c takes the thread off by its state).
OnePlace ==
    /\ \A t \in All : Linked(t) = QueueOf(t) /\ (k.st[t] = "CURRENT" <=> t = k.cur)
    /\ NoRepeats(k.ready) /\ \A o \in WaitQueues : NoRepeats(k.q[o])

\* The counter of a semaphore is negative exactly by the number of its
\* waiters (the assertion "inconsistent semaphore" of chsem.c), also when
\* waits time out or are reset.
SemConsistent ==
    \A s \in AllSems : IF k.cnt[s] < 0 THEN Len(k.q[s]) = -k.cnt[s] ELSE k.q[s] = <<>>

\* Together, with all fields in range: what lists and counters say of who waits
\* for what is the same everywhere.
QueuesConsistent == TypeOK /\ OnePlace /\ SemConsistent

Sorted(s) == \A i, j \in DOMAIN s : i < j => k.prio[s[i]] >= k.prio[s[j]]

\* Whenever interrupts are enabled the running thread has the highest
\* priority of all ready threads, and the ready list and the queues of
\* mutexes are in priority order: no call forgets to reschedule.
HighestRuns ==
    /\ pie => firstprio(k) <= k.prio[k.cur]
    /\ Sorted(k.ready) /\ \A m \in AllMutexes : Sorted(k.q[m])

\* Priority inheritance: the owner of a mutex runs at no less than the
\* priority of each of its waiters, through chains of owners that wait
\* themselves, and at no more than it needs (chMtxLockS, chMtxUnlock).
Inherited ==
    \A m \in AllMutexes : LET o == k.owner[m] IN
        /\ k.q[m] # <<>> => o # NoThread
        /\ o # NoThread =>
               /\ m \in Used(k.mtxlist[o])
               /\ \A i \in DOMAIN k.q[m] : k.prio[k.q[m][i]] <= k.prio[o]

\* The distances in the timer list add up to the ticks each armed timer has
\* left, whatever was inserted before or removed in between (chVTSetI,
\* chVTResetI), and a thread in its own code has no timer armed.
TimersExact ==
    /\ \A i \in DOMAIN k.vt : Expiries(k.vt)[i] = k.due[k.vt[i].par]
    /\ \A t \in All : chVTIsArmedI(k, t) => k.cont[t] # NoCont
    /\ NoRepeats([i \in DOMAIN k.vt |-> k.vt[i].par])

\* No wake-up is missed: nobody sleeps for events that are pending, for a
\* message that is queued, or for a thread that has ended.
NoMissedWakeup ==
    \A t \in Threads :
        /\ k.st[t] = "WTOREVT" => k.epending[t] \cap k.u[t][2] = {}
        /\ k.st[t] = "WTANDEVT" => ~ k.u[t][2] \subseteq k.epending[t]
        /\ k.st[t] = "WTMSG" => k.q[t] = <<>>
        /\ k.st[t] = "FINAL" => k.waiting[t] = <<>>

\* Nor does a thread sleep on an I/O queue while there are more bytes (or
\* free slots) than threads already woken for them.
NoIdleQueue ==
    /\ k.q["iq"] # <<>> =>
           k.io["iq"].counter <= Cardinality(Granted({"iqget", "iqread"}))
    /\ k.q["oq"] # <<>> =>
           k.io["oq"].counter <= Cardinality(Granted({"oqput", "oqwrite"}))

\* The blocks of the core, each with the place that has it.
Blocks ==
    {[at |-> <<"free">>, mem |-> b] : b \in Used(k.free)}
    \cup {[at |-> <<"pool">>, mem |-> b] : b \in Used(k.pool)}
    \cup UNION {{[at |-> <<"hold", t>>, mem |-> b] : b \in k.hold[t]} : t \in Threads}
    \cup {[at |-> <<"wa", t>>, mem |-> k.wa[t].mem] :
              t \in {t \in Threads : k.wa[t] # Static}}
    \cup {[at |-> <<"more", t>>, mem |-> k.more[t].mem] :
              t \in {t \in Threads : k.more[t].fn \in {"spawn", "free"}}}

\* The blocks tile the memory handed out by the core: none is lost, no two
\* overlap and none is in two places, whatever is split, merged, recycled by
\* the pool or failed on the way; and the free list is in address order with
\* neighbours merged, each block with room for its header (chHeapAlloc,
\* chHeapFree).
MemTiled ==
    /\ \A x, y \in Blocks : x # y => \/ LIMIT(x.mem) <= y.mem.addr
                                     \/ LIMIT(y.mem) <= x.mem.addr
    /\ \A a \in 0..(CoreSize - 1) :
           a < k.nextmem <=> \E x \in Blocks : x.mem.addr <= a /\ a < LIMIT(x.mem)
    /\ \A i \in 1..(Len(k.free) - 1) : LIMIT(k.free[i]) < k.free[i + 1].addr
    /\ \A i \in DOMAIN k.free : k.free[i].len >= HeaderSize

\* The memory of a dynamic thread is not released while the thread can run,
\* while its creator may still wait for it, or while a scan of the registry
\* is at it (the reference counts of chdynamic.c and chregistry.c).
ReferencedKept ==
    \A t \in Threads \ app.threads :
        \/ k.st[t] # "FINAL"
        \/ k.ref0[t]
        \/ \E x \in Threads : k.scan[x] = t
        => k.wa[t] # Static

\* The registry holds "all the active threads in the system"
\* (chregistry.c:35-36), and the ended ones whose memory is still there,
\* linked the same way in both directions.
RegistryWhole ==
    LET past == {k.more[t].tp : t \in {t \in Threads : k.more[t].fn = "mem"}}
        R == {t \in All : k.st[t] # "FINAL" \/ (k.wa[t] # Static /\ t \notin past)}
        N == Cardinality(R)
        f[i \in 0..(N + 1)] == IF i = 0 THEN "rlist"
                               ELSE LET x == f[i - 1] IN k.newer[x]
    IN  (\A t \in Threads : k.more[t].fn # "unlink2") =>
            /\ {f[i] : i \in 1..N} = R /\ f[N + 1] = "rlist"
            /\ \A t \in R \cup {"rlist"} : k.older[k.newer[t]] = t

\* No thread is freed, or drops out of the registry, while somebody has it.
ThreadsKept == ReferencedKept /\ RegistryWhole

\* The unread items of a ring, from its read pointer.
Ring(r, n) == [i \in 1..n |-> r.buf[(r.rd + i - 1) % Size]]

Free(s) == IF k.cnt[s] < 0 THEN 0 ELSE k.cnt[s]

\* The mailbox is a bounded buffer: each step of the kernel posts, fetches or
\* resets it or leaves it alone, and a fetch returns its first message.
Mailbox == INSTANCE BoundedBuffer WITH
    Capacity <- Size, Urgent <- TRUE,
    items <- Ring(k.mb, Free("mb_fullsem") + Cardinality(Granted({"fetch"}))),
    out <- k.mb.out
MailboxIsBuffer == Mailbox!Spec

\* So are the input queue (an interrupt writes, threads read) and the
\* output queue (threads write, an interrupt reads).
InputQueue == INSTANCE BoundedBuffer WITH
    Capacity <- Size, Urgent <- FALSE,
    items <- Ring(k.io["iq"], k.io["iq"].counter), out <- k.io["iq"].out
InputQueueIsBuffer == InputQueue!Spec

OutputQueue == INSTANCE BoundedBuffer WITH
    Capacity <- Size, Urgent <- FALSE,
    items <- Ring(k.io["oq"], Size - k.io["oq"].counter), out <- k.io["oq"].out
OutputQueueIsBuffer == OutputQueue!Spec

\* All three implement the bounded buffer (chmboxes.c and chqueues.c).
QueuesAreBuffers == MailboxIsBuffer /\ InputQueueIsBuffer /\ OutputQueueIsBuffer

\* Threads of equal priority share the processor: under an application that
\* only computes, each thread of the highest priority runs again and again
\* (the quantum of chSysTimerHandlerI and chSchIsPreemptionRequired).
Top == {t \in app.threads : \A x \in app.threads : app.prio[x] <= app.prio[t]}
RoundRobin == \A t \in Threads : []<>(app.calls = {} /\ t \in Top => k.cur = t)

\* A wait with a timeout ends, whatever the other threads do: its timer is
\* disarmed again by chVTDoTickI or by the thread itself.
TimedWaitEnds == \A t \in Threads : chVTIsArmedI(k, t) ~> ~ chVTIsArmedI(k, t)

\* What the tick handler owes to the threads: turns and ends of waits.
TickServes == RoundRobin /\ TimedWaitEnds
============================================================================

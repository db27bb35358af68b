----------------------------- MODULE MCChKernel -----------------------------
(***************************************************************************)
(* Instances of the kernel for TLC: three threads, at most two of them of   *)
(* equal priority, and applications that each use one group of calls.           *)
(***************************************************************************)
EXTENDS ChKernel

Two == [t \in Threads |-> IF t = "low" THEN 2 ELSE 3]
Three == [t \in Threads |-> CASE t = "low" -> 2 [] t = "peer" -> 3 [] OTHER -> 4]

\* An application of all threads with objects o, timeouts d, event numbers e.
Using(calls, o, d, e) ==
    [threads |-> Threads, prio |-> Two, calls |-> calls, delays |-> d, objs |-> o, events |-> e,
     sizes |-> {}]

\* An application of the static threads ts with blocks of sizes n.
Allocating(ts, calls, n) ==
    [Using(calls, {}, {}, {}) EXCEPT !.threads = ts, !.sizes = n]

\* An application of two threads of different priority.
TwoOf(a) == [a EXCEPT !.threads = {"main", "low"}]

\* Threads, semaphores, mutexes, condition variables, events and messages.
SyncApps ==
    {[Using({"chMtxLock", "chMtxTryLock", "chMtxUnlock", "chMtxUnlockAll",
             "chThdSleep"}, Mutexes, {1}, {}) EXCEPT !.prio = Three],
     Using({"chMtxLock", "chMtxUnlock", "chCondWait", "chCondWaitTimeout",
            "chCondSignal", "chCondBroadcast", "chCondSignalI"}, {"m1"}, {1}, {}),
     Using({"chMtxLock", "chCondWait", "chCondSignal"}, Mutexes, {}, {}),
     Using({"chSemWait", "chSemWaitTimeout", "chSemSignal", "chSemReset"}, {"s1"},
           {0, 1, 2, 3}, {}),
     Using({"chSemWait", "chSemSignalWait", "chBSemSignal", "chSemAddCounterI",
            "chSemResetI"}, Sems, {}, {}),
     Using({"chSemWait", "chSemSignal", "chThdSetPriority"}, {"s1"}, {}, {}),
     Using({"chThdSleep", "chThdSleepUntil", "chThdYield", "chThdExit", "chThdWait",
            "chThdCreateStatic"}, {}, {1, 2}, {}),
     Using({"chEvtRegisterMask", "chEvtUnregister", "chEvtBroadcastFlags",
            "chEvtBroadcastFlagsI", "chEvtWait", "chEvtGetAndClearFlags"}, {}, {}, {1}),
     Using({"chEvtSignal", "chEvtWaitTimeout", "chEvtGetAndClearEvents"}, {}, {0, 1}, {1}),
     Using({"chEvtAddEvents", "chEvtWait", "chEvtSignal"}, {}, {}, {1, 2}),
     Using({"chMsgSend", "chMsgWait", "chMsgRelease", "chThdSleep"}, {}, {1}, {})}

\* The mailbox, the I/O queues, time, and memory.
BufferApps ==
    {TwoOf(Using({"chMBPost", "chMBPostAhead", "chMBFetch", "chMBReset"}, {},
                 {0, 1, 3}, {})),
     TwoOf(Using({"chMBPost", "chMBFetch", "chMBPostI", "chMBPostAheadI", "chMBFetchI"},
                 {}, {1}, {})),
     TwoOf(Using({"chIQGetTimeout", "chIQReadTimeout", "chIQPutI", "chIQResetI"}, {},
                 {0, 1}, {})),
     TwoOf(Using({"chOQPutTimeout", "chOQWriteTimeout", "chOQGetI"}, {}, {1}, {})),
     TwoOf(Using({"chOQPutTimeout", "chOQGetI", "chOQResetI"}, {}, {0, 1}, {})),
     Using({}, {}, {}, {}),
     Using({"chSemWaitTimeout", "chSemSignal", "chThdSleep"}, {"s1"}, {1, 2}, {})}

MemApps ==
    {Allocating({"main", "peer"}, {"chHeapAlloc", "chHeapFree"}, {1, 3}),
     Allocating({"main", "peer"}, {"chPoolAlloc", "chPoolFree", "chCoreAlloc"}, {3}),
     Allocating({"main"}, {"chThdCreateFromHeap", "chThdExit", "chThdWait"}, {1, 3}),
     Allocating({"main", "low"},
                {"chThdCreateFromHeap", "chThdExit", "chThdWait", "chRegFirstThread",
                 "chRegNextThread"}, {3}),
     Allocating({"main", "low"},
                {"chThdCreateFromMemoryPool", "chThdExit", "chThdWait", "chRegFirstThread",
                 "chRegNextThread"}, {3})}

OtherApps == BufferApps \cup MemApps
============================================================================

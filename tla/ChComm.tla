------------------------------- MODULE ChComm -------------------------------
(***************************************************************************)
(* Events, synchronous messages, mailboxes and I/O queues of ChibiOS/RT     *)
(* 2.6.8 (chevents.c, chmsg.c, chmboxes.c, chqueues.c) as operators on the  *)
(* kernel state, with these fields more:                                    *)
(*   listeners, flags  the registered listeners of the event source (each a *)
(*                  [tp, mask]; newest first) and the el_flags of each       *)
(*   msg            p_msg of each thread                                    *)
(*   mb             the mailbox: [rd, wr, buf, out]; its semaphores are     *)
(*                  "mb_emptysem" and "mb_fullsem"                          *)
(*   io             the two I/O queues: io["iq"], io["oq"], each             *)
(*                  [rd, wr, counter, buf, out]                             *)
(*                  (out is history: the item handed out last)              *)
(*   more           the rest of a transfer of several bytes                *)
(* An event mask is a set of event numbers.                                 *)
(***************************************************************************)
EXTENDS ChSync

CONSTANTS Size,      \* slots of the mailbox and of the I/O queues
          NoItem     \* content of a slot never written

ASSUME CommAssumption == Size \in Nat \ {0}

----------------------------------------------------------------------------
(* Events.                                                                  *)

EventListener(tp, mask) == [tp |-> tp, mask |-> mask]

chEvtRegisterMask(k, mask) ==
    [k EXCEPT !.listeners = <<EventListener(k.cur, mask)>> \o @,
              !.flags[k.cur] = {}]

chEvtUnregister(k) ==
    LET P == {i \in DOMAIN k.listeners : k.listeners[i].tp = k.cur}
    IN  IF P = {} THEN k
        ELSE [k EXCEPT !.listeners = Unlink(@, CHOOSE i \in P : TRUE)]

chEvtGetAndClearEvents(k, mask) == [k EXCEPT !.epending[k.cur] = @ \ mask]

chEvtAddEvents(k, mask) == [k EXCEPT !.epending[k.cur] = @ \cup mask]

chEvtGetAndClearFlags(k) == [k EXCEPT !.flags[k.cur] = {}]

\* Mutant: only threads in WTOREVT are woken.
chEvtSignalI_OrOnly(k, tp, mask) ==
    LET k1 == [k EXCEPT !.epending[tp] = @ \cup mask]
        ewmask == k.u[tp][2]
    IN  IF \/ k.st[tp] = "WTOREVT" /\ k1.epending[tp] \cap ewmask # {}
        THEN ReadyMsg(k1, tp, "RDY_OK")
        ELSE k1

chEvtSignalI(k, tp, mask) ==
    LET k1 == [k EXCEPT !.epending[tp] = @ \cup mask]
        ewmask == k.u[tp][2]
    IN  IF \/ k.st[tp] = "WTOREVT" /\ k1.epending[tp] \cap ewmask # {}
           \/ k.st[tp] = "WTANDEVT" /\ ewmask \subseteq k1.epending[tp]
        THEN ReadyMsg(k1, tp, "RDY_OK")
        ELSE k1

chEvtSignal(k, tp, mask) == chSchRescheduleS(chEvtSignalI(k, tp, mask))

chEvtBroadcastFlagsI(k, flags) ==
    LET f[n \in 0..Len(k.listeners)] ==
            IF n = 0 THEN k
            ELSE LET l == k.listeners[n]
                 IN  chEvtSignalI([f[n - 1] EXCEPT !.flags[l.tp] = @ \cup flags],
                                  l.tp, l.mask)
    IN  f[Len(k.listeners)]

chEvtBroadcastFlags(k, flags) == chSchRescheduleS(chEvtBroadcastFlagsI(k, flags))

\* m ^= m & (m - 1): the lowest bit of a mask.
LowestEvent(m) == IF m = {} THEN {} ELSE {CHOOSE e \in m : \A x \in m : e <= x}

\* The events a wait takes, by its kind, once it does not have to sleep (again).
Taken(k, kind, mask) ==
    LET m == k.epending[k.cur] \cap mask
    IN  CASE kind = "One" -> LowestEvent(m) [] kind = "Any" -> m [] OTHER -> mask

TakeEvents(k, kind, mask) ==
    [k EXCEPT !.epending[k.cur] = @ \ Taken(k, kind, mask), !.cont[k.cur] = NoCont]

MustWait(k, kind, mask) ==
    IF kind = "All" THEN ~ mask \subseteq k.epending[k.cur]
    ELSE k.epending[k.cur] \cap mask = {}

WaitState(kind) == IF kind = "All" THEN "WTANDEVT" ELSE "WTOREVT"

\* chEvtWaitOne, chEvtWaitAny and chEvtWaitAll.
chEvtWait(k, kind, mask) ==
    IF MustWait(k, kind, mask)
    THEN chSchGoSleepS([k EXCEPT !.u[k.cur] = <<"ewmask", mask>>], WaitState(kind),
                       [fn |-> "evt", kind |-> kind, mask |-> mask])
    ELSE TakeEvents(k, kind, mask)

\* chEvtWaitOneTimeout, chEvtWaitAnyTimeout and chEvtWaitAllTimeout.
chEvtWaitTimeout(k, kind, mask, time) ==
    IF ~ MustWait(k, kind, mask) THEN TakeEvents(k, kind, mask)
    ELSE IF time = TIME_IMMEDIATE THEN k
    ELSE chSchGoSleepTimeoutS([k EXCEPT !.u[k.cur] = <<"ewmask", mask>>],
                              WaitState(kind), time,
                              [fn |-> "evtt", kind |-> kind, mask |-> mask])

AfterEvtWait(k, c) == TakeEvents(k, c.kind, c.mask)

AfterEvtWaitTimeout(k, c) ==
    IF RdyMsg(k, k.cur) # "RDY_OK" THEN [k EXCEPT !.cont[k.cur] = NoCont]
    ELSE TakeEvents(k, c.kind, c.mask)

----------------------------------------------------------------------------
(* Synchronous messages: p_msgqueue of a thread is k.q[tp].                 *)

chMsgSend(k, tp, msg) ==
    LET k1 == [k EXCEPT !.msg[k.cur] = msg, !.u[k.cur] = Obj(tp),
                        !.q[tp] = queue_insert(@, k.cur)]
        k2 == IF k.st[tp] = "WTMSG" THEN chSchReadyI(k1, tp) ELSE k1
    IN  chSchGoSleepS(k2, "SNDMSGQ", [fn |-> "send"])

\* The first sender is taken off the queue; it stays asleep until released.
TakeSender(k) ==
    LET s == Head(k.q[k.cur])
    IN  [k EXCEPT !.q[k.cur] = Tail(@), !.st[s] = "SNDMSG",
                  !.cont[k.cur] = NoCont]

chMsgWait(k) ==
    IF k.q[k.cur] # <<>> THEN TakeSender(k)
    ELSE chSchGoSleepS(k, "WTMSG", [fn |-> "msgwait"])

chMsgRelease(k, tp, msg) == chSchWakeupS(k, tp, msg)

----------------------------------------------------------------------------
(* Mailboxes.                                                               *)

Up(p) == IF p + 1 >= Size THEN 0 ELSE p + 1
Down(p) == IF p = 0 THEN Size - 1 ELSE p - 1

chMBReset(k) ==
    LET k1 == [k EXCEPT !.mb.rd = 0, !.mb.wr = 0]
    IN  chSchRescheduleS(chSemResetI(chSemResetI(k1, "mb_emptysem", Size),
                                     "mb_fullsem", 0))

\* The part of a post, of a post ahead and of a fetch after the semaphore.
MBWrite(k, m) ==
    chSemSignalI([k EXCEPT !.mb.buf[k.mb.wr] = m, !.mb.wr = Up(@)], "mb_fullsem")

\* Mutant: the message is written before the read pointer moves.
MBWriteAhead_AtRd(k, m) ==
    chSemSignalI([k EXCEPT !.mb.rd = Down(@), !.mb.buf[k.mb.rd] = m],
                 "mb_fullsem")

MBWriteAhead(k, m) ==
    chSemSignalI([k EXCEPT !.mb.rd = Down(@), !.mb.buf[Down(k.mb.rd)] = m],
                 "mb_fullsem")

MBRead(k) ==
    chSemSignalI([k EXCEPT !.mb.out = k.mb.buf[k.mb.rd], !.mb.rd = Up(@)],
                 "mb_emptysem")

chMBPostS(k, m, time) ==
    chSemWaitTimeoutS(k, "mb_emptysem", time, [fn |-> "post", msg |-> m],
                      LAMBDA s : chSchRescheduleS(MBWrite(s, m)))

chMBPostAheadS(k, m, time) ==
    chSemWaitTimeoutS(k, "mb_emptysem", time, [fn |-> "ahead", msg |-> m],
                      LAMBDA s : chSchRescheduleS(MBWriteAhead(s, m)))

chMBFetchS(k, time) ==
    chSemWaitTimeoutS(k, "mb_fullsem", time, [fn |-> "fetch"],
                      LAMBDA s : chSchRescheduleS(MBRead(s)))

\* The three calls when their thread runs again.
AfterMB(k, c) ==
    LET k1 == [k EXCEPT !.cont[k.cur] = NoCont]
    IN  IF RdyMsg(k, k.cur) # "RDY_OK" THEN k1
        ELSE chSchRescheduleS(CASE c.fn = "post" -> MBWrite(k1, c.msg)
                                [] c.fn = "ahead" -> MBWriteAhead(k1, c.msg)
                                [] OTHER -> MBRead(k1))

chSemFastWaitI(k, s) == [k EXCEPT !.cnt[s] = @ - 1]

chMBPostI(k, m) ==
    IF k.cnt["mb_emptysem"] <= 0 THEN k
    ELSE MBWrite(chSemFastWaitI(k, "mb_emptysem"), m)

chMBPostAheadI(k, m) ==
    IF k.cnt["mb_emptysem"] <= 0 THEN k
    ELSE MBWriteAhead(chSemFastWaitI(k, "mb_emptysem"), m)

chMBFetchI(k) ==
    IF k.cnt["mb_fullsem"] <= 0 THEN k
    ELSE MBRead(chSemFastWaitI(k, "mb_fullsem"))

----------------------------------------------------------------------------
(* I/O queues.  counter counts the full slots of the input queue and the    *)
(* empty slots of the output queue.                                         *)

chQSpaceI(k, x) == k.io[x].counter
chIQIsEmptyI(k) == chQSpaceI(k, "iq") <= 0
chIQIsFullI(k) == k.io["iq"].wr = k.io["iq"].rd /\ k.io["iq"].counter # 0
chOQIsEmptyI(k) == k.io["oq"].wr = k.io["oq"].rd /\ k.io["oq"].counter # 0
chOQIsFullI(k) == chQSpaceI(k, "oq") <= 0

qwait(k, x, time, cont) ==
    IF time = TIME_IMMEDIATE THEN [k EXCEPT !.cont[k.cur] = NoCont]
    ELSE chSchGoSleepTimeoutS([k EXCEPT !.u[k.cur] = Obj(x),
                                        !.q[x] = queue_insert(@, k.cur)],
                              "WTQUEUE", time, cont)

\* A byte written or read by the running thread or, in WakeOne, by an ISR.
Put(k, x, b, d) ==
    [k EXCEPT !.io[x].counter = @ + d, !.io[x].buf[k.io[x].wr] = b,
              !.io[x].wr = Up(@)]

Get(k, x, d) ==
    [k EXCEPT !.io[x].counter = @ + d, !.io[x].out = k.io[x].buf[k.io[x].rd],
              !.io[x].rd = Up(@)]

WakeOne(k, x) ==
    IF k.q[x] = <<>> THEN k
    ELSE ReadyMsg([k EXCEPT !.q[x] = Tail(@)], Head(k.q[x]), "RDY_OK")

chIQGetTimeout(k, time) ==
    IF chIQIsEmptyI(k)
    THEN qwait(k, "iq", time, [fn |-> "iqget", time |-> time])
    ELSE [Get(k, "iq", -1) EXCEPT !.cont[k.cur] = NoCont]

chOQPutTimeout(k, b, time) ==
    IF chOQIsFullI(k)
    THEN qwait(k, "oq", time, [fn |-> "oqput", msg |-> b, time |-> time])
    ELSE [Put(k, "oq", b, -1) EXCEPT !.cont[k.cur] = NoCont]

\* The transfers of n bytes are a critical section per byte: more holds the
\* bytes still to be moved while the thread is between two of them.
More(k, c) == [k EXCEPT !.cont[k.cur] = NoCont,
                        !.more[k.cur] = IF c.n = 1 THEN NoCont
                                        ELSE [c EXCEPT !.n = @ - 1]]

chIQReadTimeout(k, n, time) ==
    LET c == [fn |-> "iqread", n |-> n, time |-> time]
        k1 == [k EXCEPT !.more[k.cur] = NoCont]
    IN  IF chIQIsEmptyI(k) THEN qwait(k1, "iq", time, c)
        ELSE More(Get(k1, "iq", -1), c)

chOQWriteTimeout(k, b, n, time) ==
    LET c == [fn |-> "oqwrite", msg |-> b, n |-> n, time |-> time]
        k1 == [k EXCEPT !.more[k.cur] = NoCont]
    IN  IF chOQIsFullI(k) THEN qwait(k1, "oq", time, c)
        ELSE More(Put(k1, "oq", b, -1), c)

\* A thread woken on a queue looks at it again, and may have to wait again.
QueueCall(k, c) ==
    CASE c.fn = "iqget" -> chIQGetTimeout(k, c.time)
      [] c.fn = "oqput" -> chOQPutTimeout(k, c.msg, c.time)
      [] c.fn = "iqread" -> chIQReadTimeout(k, c.n, c.time)
      [] OTHER -> chOQWriteTimeout(k, c.msg, c.n, c.time)

AfterQueue(k, c) ==
    IF RdyMsg(k, k.cur) # "RDY_OK" THEN [k EXCEPT !.cont[k.cur] = NoCont]
    ELSE QueueCall(k, c)

\* Mutant: the waiting reader is not woken.
chIQPutI_NoWake(k, b) ==
    IF chIQIsFullI(k) THEN k
    ELSE Put(k, "iq", b, 1)

chIQPutI(k, b) ==
    IF chIQIsFullI(k) THEN k
    ELSE WakeOne(Put(k, "iq", b, 1), "iq")

chOQGetI(k) ==
    IF chOQIsEmptyI(k) THEN k
    ELSE WakeOne(Get(k, "oq", 1), "oq")

\* chIQResetI and chOQResetI.
QResetI(k, x, n) ==
    ReadyEach([k EXCEPT !.io[x].rd = 0, !.io[x].wr = 0, !.io[x].counter = n,
                        !.q[x] = <<>>], k.q[x], "RDY_RESET")
============================================================================

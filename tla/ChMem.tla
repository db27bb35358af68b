------------------------------- MODULE ChMem -------------------------------
(***************************************************************************)
(* The memory core, the heap, the memory pool, the dynamic threads and the  *)
(* thread registry of ChibiOS/RT 2.6.8 (chmemcore.c, chheap.c,              *)
(* chmempools.c, chdynamic.c, chregistry.c) as operators on the kernel      *)
(* state, with these fields more:                                           *)
(*   nextmem        the first byte of the core that was not handed out      *)
(*   free           h_free: the free blocks of the default heap, in order   *)
(*   pool           mp_next: the free objects of the memory pool            *)
(*   hold           history: the blocks and objects each thread obtained    *)
(*   wa, refs       p_flags with the working area, and p_refs of a thread   *)
(*   newer, older   p_newer and p_older of the registry, a list through     *)
(*                  rlist                                                   *)
(*   ref0           history: the reference of the creator is not used up    *)
(*   scan           the thread that a scan of the registry is at            *)
(* A block is [addr, len]: its first byte and its length, the header of a   *)
(* heap block included.  These calls are made of several critical sections: *)
(* k.more is what the running thread still has to do.                       *)
(***************************************************************************)
EXTENDS ChComm

CONSTANTS CoreSize,        \* bytes from __heap_base__ to __heap_end__
          MEM_ALIGN_SIZE,
          HeaderSize,      \* sizeof(union heap_header)
          ObjectSize       \* mp_object_size

ASSUME MemAssumption ==
    /\ MEM_ALIGN_SIZE \in Nat \ {0}
    /\ {CoreSize, HeaderSize} \subseteq {n * MEM_ALIGN_SIZE : n \in 1..100}
    /\ ObjectSize \in Nat \ {0}

NoMem == [addr |-> -1, len |-> 0]
Static == [mode |-> "STATIC", mem |-> NoMem]
ForData == [mode |-> "DATA", tp |-> NoThread, prio |-> NOPRIO]

MEM_ALIGN_NEXT(n) == ((n + MEM_ALIGN_SIZE - 1) \div MEM_ALIGN_SIZE) * MEM_ALIGN_SIZE

\* The byte after a block.
LIMIT(b) == b.addr + b.len

----------------------------------------------------------------------------
(* An allocation gives <<the state after it, the block or NoMem>>.          *)

chCoreAllocI(k, size) ==
    LET n == MEM_ALIGN_NEXT(size)
    IN  IF CoreSize - k.nextmem < n THEN <<k, NoMem>>
        ELSE <<[k EXCEPT !.nextmem = @ + n], [addr |-> k.nextmem, len |-> n]>>

\* Mutant: a rest smaller than a header is split off.
FirstFit_AlwaysSplit(k, size) ==
    LET len == size + HeaderSize
        P == {i \in DOMAIN k.free : k.free[i].len >= len}
        n == CHOOSE i \in P : \A j \in P : i <= j
        b == k.free[n]
        rest == [addr |-> b.addr + len, len |-> b.len - len]
        split == rest.len > 0
    IN  IF P = {} THEN <<k, NoMem>>
        ELSE <<[k EXCEPT !.free = SubSeq(@, 1, n - 1)
                                  \o (IF split THEN <<rest>> ELSE <<>>)
                                  \o SubSeq(@, n + 1, Len(@))],
               IF split THEN [b EXCEPT !.len = len] ELSE b>>

\* The first free block that is large enough, split if a header fits in the rest.
FirstFit(k, size) ==
    LET len == size + HeaderSize
        P == {i \in DOMAIN k.free : k.free[i].len >= len}
        n == CHOOSE i \in P : \A j \in P : i <= j
        b == k.free[n]
        rest == [addr |-> b.addr + len, len |-> b.len - len]
        split == rest.len >= HeaderSize
    IN  IF P = {} THEN <<k, NoMem>>
        ELSE <<[k EXCEPT !.free = SubSeq(@, 1, n - 1)
                                  \o (IF split THEN <<rest>> ELSE <<>>)
                                  \o SubSeq(@, n + 1, Len(@))],
               IF split THEN [b EXCEPT !.len = len] ELSE b>>

\* The block goes back in address order and is merged with its neighbours.
PutBack(k, b) ==
    LET n == Cardinality({i \in DOMAIN k.free : k.free[i].addr < b.addr})
        up == n < Len(k.free) /\ LIMIT(b) = k.free[n + 1].addr
        down == n > 0 /\ LIMIT(k.free[n]) = b.addr
        b1 == IF up THEN [b EXCEPT !.len = @ + k.free[n + 1].len] ELSE b
        b2 == IF down THEN [k.free[n] EXCEPT !.len = @ + b1.len] ELSE b1
    IN  [k EXCEPT !.free = SubSeq(@, 1, IF down THEN n - 1 ELSE n) \o <<b2>>
                           \o SubSeq(@, IF up THEN n + 2 ELSE n + 1, Len(@))]

chPoolAllocI(k) ==
    IF k.pool # <<>> THEN <<[k EXCEPT !.pool = Tail(@)], Head(k.pool)>>
    ELSE chCoreAllocI(k, ObjectSize)

chPoolFreeI(k, b) == [k EXCEPT !.pool = <<b>> \o @]

----------------------------------------------------------------------------
(* The registry.                                                            *)

REG_INSERT(k, t) ==
    [k EXCEPT !.newer = [@ EXCEPT ![t] = "rlist", ![k.older["rlist"]] = t],
              !.older = [@ EXCEPT ![t] = k.older["rlist"], !["rlist"] = t]]

\* The two assignments of REG_REMOVE.
Unlink1(k, t) == [k EXCEPT !.newer[k.older[t]] = k.newer[t]]
Unlink2(k, t) == [k EXCEPT !.older[k.newer[t]] = k.older[t]]
REG_REMOVE(k, t) == Unlink2(Unlink1(k, t), t)

\* _thread_init with what the options CH_USE_DYNAMIC and CH_USE_REGISTRY add.
InitThread(k, t, prio, wa) ==
    REG_INSERT([_thread_init(k, t, prio) EXCEPT !.refs[t] = 1, !.ref0[t] = TRUE,
                                                !.wa[t] = wa], t)

Spawn(k, t, prio, wa) == chSchWakeupS(InitThread(k, t, prio, wa), t, "RDY_OK")

chThdCreateStatic(k, t, prio) == Spawn(k, t, prio, Static)

\* The waiting threads are made ready; a static thread leaves the registry.
chThdExitS(k, msg) ==
    LET w == k.waiting[k.cur]
        k1 == [k EXCEPT !.u[k.cur] = <<"exitcode", msg>>, !.waiting[k.cur] = <<>>]
        f[n \in 0..Len(w)] == IF n = 0 THEN k1 ELSE chSchReadyI(f[n - 1], w[n])
        k2 == f[Len(w)]
    IN  chSchGoSleepS(IF k.wa[k.cur] = Static THEN REG_REMOVE(k2, k.cur) ELSE k2,
                      "FINAL", NoCont)

\* The wait uses up the reference of the creator.
chThdWait(k, t) ==
    LET k1 == [k EXCEPT !.more[k.cur] = [fn |-> "release", tp |-> t],
                        !.ref0[t] = FALSE]
    IN  IF k.st[t] = "FINAL" THEN k1
        ELSE chSchGoSleepS([k1 EXCEPT !.waiting[t] = list_insert(@, k.cur)], "WTEXIT",
                           [fn |-> "join", tp |-> t])

chThdAddRef(k, t) == [k EXCEPT !.refs[t] = (@ + 1) % 256]

chRegFirstThread(k) ==
    chThdAddRef([k EXCEPT !.scan[k.cur] = k.newer["rlist"]], k.newer["rlist"])

\* Mutant: the next thread gets no reference.
chRegNextThread_NoRef(k) ==
    LET tp == k.scan[k.cur]
        k1 == [k EXCEPT !.more[k.cur] = [fn |-> "release", tp |-> tp]]
    IN  IF k.newer[tp] = "rlist" THEN [k1 EXCEPT !.scan[k.cur] = NoThread]
        ELSE [k1 EXCEPT !.scan[k.cur] = k.newer[tp]]

\* The next thread gets a reference, then the present one is released.
chRegNextThread(k) ==
    LET tp == k.scan[k.cur]
        k1 == [k EXCEPT !.more[k.cur] = [fn |-> "release", tp |-> tp]]
    IN  IF k.newer[tp] = "rlist" THEN [k1 EXCEPT !.scan[k.cur] = NoThread]
        ELSE chThdAddRef([k1 EXCEPT !.scan[k.cur] = k.newer[tp]], k.newer[tp])

----------------------------------------------------------------------------
(* The calls, section by section.                                           *)

Then(k, c) == [k EXCEPT !.more[k.cur] = c]

\* What an allocation was for: a block of the thread, or a working area.
Deliver(k, mem, for) ==
    IF mem = NoMem THEN Then(k, NoCont)
    ELSE IF for = ForData
    THEN [Then(k, NoCont) EXCEPT !.hold[k.cur] = @ \cup {mem}]
    ELSE Then(k, [fn |-> "spawn", for |-> for, mem |-> mem])

chHeapAlloc(k, size, for) ==
    chMtxLockS(Then(k, [fn |-> "alloc", size |-> MEM_ALIGN_NEXT(size), for |-> for]),
               "h_mtx")

\* The search under the lock; without a block the core is asked afterwards.
AllocLocked(k, c) ==
    LET r == FirstFit(k, c.size)
    IN  chMtxUnlock(IF r[2] = NoMem THEN Then(k, [c EXCEPT !.fn = "core"])
                    ELSE Deliver(r[1], r[2], c.for))

AllocCore(k, c) ==
    LET r == chCoreAllocI(k, c.size + HeaderSize) IN Deliver(r[1], r[2], c.for)

chHeapFree(k, mem) == chMtxLockS(Then(k, [fn |-> "free", mem |-> mem]), "h_mtx")

FreeLocked(k, c) == chMtxUnlock(Then(PutBack(k, c.mem), NoCont))

chPoolAlloc(k, for) == LET r == chPoolAllocI(k) IN Deliver(r[1], r[2], for)

chPoolFree(k, mem) == Then(chPoolFreeI(k, mem), NoCont)

CreateLocked(k, c) ==
    Spawn(Then(k, NoCont), c.for.tp, c.for.prio, [mode |-> c.for.mode, mem |-> c.mem])

\* chThdRelease: the count goes down with interrupts masked, the rest is not.
chThdRelease(k, t) ==
    LET k1 == [k EXCEPT !.refs[t] = (@ - 1) % 256]
    IN  Then(k1, IF k1.refs[t] = 0 /\ k.st[t] = "FINAL" /\ k.wa[t] # Static
                 THEN [fn |-> "unlink1", tp |-> t] ELSE NoCont)

\* The memory of the thread goes back to where it came from.
ReleaseMem(k, t) ==
    LET k1 == [k EXCEPT !.wa[t] = Static]
    IN  IF k.wa[t].mode = "HEAP" THEN chHeapFree(k1, k.wa[t].mem)
        ELSE chPoolFree(k1, k.wa[t].mem)

MemFns == {"alloc", "core", "free", "spawn", "release", "unlink1", "unlink2", "mem"}

\* The next section of a call.
MemStep(k, c) ==
    CASE c.fn = "alloc" -> AllocLocked(k, c)
      [] c.fn = "core" -> AllocCore(k, c)
      [] c.fn = "free" -> FreeLocked(k, c)
      [] c.fn = "spawn" -> CreateLocked(k, c)
      [] c.fn = "release" -> chThdRelease(k, c.tp)
      [] c.fn = "unlink1" -> Then(Unlink1(k, c.tp), [c EXCEPT !.fn = "unlink2"])
      [] c.fn = "unlink2" -> Then(Unlink2(k, c.tp), [c EXCEPT !.fn = "mem"])
      [] OTHER -> ReleaseMem(k, c.tp)
============================================================================

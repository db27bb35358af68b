--------------------------- MODULE ChKernelProofs ---------------------------
(***************************************************************************)
(* Theorems about the kernel, for any number of threads and objects:       *)
(* queues, counters and timers are consistent, no wake-up is missed, the   *)
(* thread of the highest priority runs, and owners of mutexes inherit.     *)
(*                                                                         *)
(* ChKernelCalls shows that every call keeps the kernel Good.  Here the    *)
(* calls are shown to keep the priorities right as well, Peak, and then    *)
(* every action of the specification to keep both.                         *)
(***************************************************************************)
EXTENDS ChKernelCalls

-----------------------------------------------------------------------------
(***************************************************************************)
(* Priorities.  A second invariant says that lists are in order, who owns  *)
(* which mutex, and that no thread has more priority than its own or that  *)
(* of a thread that waits for it: a thread whose priority falls when it    *)
(* passes a mutex on passes it to a thread of at least the old priority.   *)
(* With b it also says that no owner has less than its waiters have.       *)
(***************************************************************************)

Ordered(prio, s) == \A i, j \in 1..Len(s) : i < j => prio[s[j]] <= prio[s[i]]

\* The list of a thread has the mutexes that it owns, each once.
Has(s, M) == s \in Seq(AllMutexes) /\ NoRepeats(s) /\ Used(s) = M
Owns(owner, t) == {m \in AllMutexes : owner[m] = t}
Owned(owner, mtxlist) == \A t \in All : Has(mtxlist[t], Owns(owner, t))

\* A thread of W[m], which waits for m, has at least the priority p, and t owns m.
Needs(prio, W, owner, t, p) ==
    \E m \in AllMutexes : owner[m] = t /\ \E w \in W[m] : p <= prio[w]

Bounded(prio, rprio, W, owner) ==
    \A t \in All : /\ rprio[t] <= prio[t]
                   /\ prio[t] <= rprio[t] \/ Needs(prio, W, owner, t, prio[t])

\* The thread o is about to get the priority p.
Lifted(prio, W, owner, o, p) ==
    \A m \in AllMutexes : \A w \in W[m] :
        /\ owner[m] # NoThread
        /\ prio[w] <= prio[owner[m]] \/ (owner[m] = o /\ prio[w] <= p)

Held(b, prio, rprio, W, owner, mtxlist) ==
    /\ Owned(owner, mtxlist) /\ Bounded(prio, rprio, W, owner)
    /\ b => Lifted(prio, W, owner, NoThread, 0)

Waits(q) == [m \in AllMutexes |-> Used(q[m])]

\* A thread that is to be created has a priority.
Price(c) == c.fn \in {"alloc", "core", "spawn"} /\ c.for # ForData => c.for.prio \in Int

Ranks(prio) == DOMAIN prio = All /\ \A t \in All : prio[t] \in Int

RankShape(x) ==
    /\ DOMAIN x = Fields /\ x.cur \in All /\ DOMAIN x.st = All /\ DOMAIN x.q = WaitQueues
    /\ Ranks(x.prio) /\ Ranks(x.rprio) /\ x.prio[Idle] = IDLEPRIO /\ DOMAIN x.mtxlist = All
    /\ x.owner \in [AllMutexes -> Threads \cup {NoThread}]
    /\ DOMAIN x.more = All /\ \A t \in All : Price(x.more[t])
    /\ x.ready \in Seq(All) /\ \A m \in AllMutexes : x.q[m] \in Seq(All)
    /\ x.cur = Idle \/ Idle \in Used(x.ready)

Listed(x) ==
    /\ RankShape(x)
    /\ Ordered(x.prio, x.ready) /\ \A m \in AllMutexes : Ordered(x.prio, x.q[m])
    /\ \A t \in All : x.st[t] = "FINAL" => x.mtxlist[t] = <<>>

Ranked(b, x) == Listed(x) /\ Held(b, x.prio, x.rprio, Waits(x.q), x.owner, x.mtxlist)

\* The running thread has the highest priority.
Highest(x) == \A t \in Used(x.ready) : x.prio[t] <= x.prio[x.cur]

Peak(b, x) == Ranked(b, x) /\ Highest(x)

-----------------------------------------------------------------------------
\* y is x as far as priorities go.
Like(x, y) ==
    /\ DOMAIN y = Fields /\ y.cur = x.cur /\ y.ready = x.ready /\ y.prio = x.prio
    /\ y.rprio = x.rprio /\ y.owner = x.owner
    /\ DOMAIN y.mtxlist = All /\ (\A t \in All : y.mtxlist[t] = x.mtxlist[t])
    /\ DOMAIN y.st = All /\ (\A t \in All : y.st[t] = "FINAL" => x.st[t] = "FINAL")
    /\ DOMAIN y.q = WaitQueues /\ (\A m \in AllMutexes : y.q[m] = x.q[m])
    /\ DOMAIN y.more = All /\ \A t \in All : Price(y.more[t])

LEMMA LikeRanked ==
  ASSUME NEW b, NEW x, Ranked(b, x), NEW y, Like(x, y)
  PROVE  Ranked(b, y) /\ (Highest(x) => Highest(y))
  <1>1. RankShape(y)
    BY DEF Ranked, Listed, RankShape, Like
  <1>2. Listed(y)
    BY <1>1 DEF Ranked, Listed, Like
  <1>3. Waits(y.q) = Waits(x.q)
    BY DEF Waits, Like
  <1>4. Held(b, y.prio, y.rprio, Waits(y.q), y.owner, y.mtxlist)
    BY <1>3 DEF Ranked, Like, Held, Owned
  <1>5. Highest(x) => Highest(y)
    BY DEF Highest, Like
  <1> QED BY <1>2, <1>4, <1>5 DEF Ranked

\* The fields the priorities do not depend on.
Plain == Fields \ {"cur", "ready", "st", "prio", "rprio", "mtxlist", "q", "owner", "more"}

\* The queues that are in no order.
Apart == WaitQueues \ AllMutexes

LEMMA PlainLike ==
  ASSUME NEW b, NEW x, Ranked(b, x), NEW y, Keeps(x, y, Plain \cup {"q", "more", "st"}),
         y.q = x.q \/ \E o \in Apart : \E r : Upd(x.q, y.q, o, r),
         y.more = x.more \/ \E c, m : Price(m) /\ Upd(x.more, y.more, c, m),
         y.st = x.st \/ \E t, s : s # "FINAL" /\ Upd(x.st, y.st, t, s)
  PROVE  Like(x, y)
  <1>1. /\ DOMAIN y = Fields /\ y.cur = x.cur /\ y.ready = x.ready /\ y.prio = x.prio
        /\ y.rprio = x.rprio /\ y.owner = x.owner /\ y.mtxlist = x.mtxlist
    BY DEF Keeps, Plain, Fields
  <1>2. /\ DOMAIN x.st = All /\ DOMAIN x.q = WaitQueues /\ DOMAIN x.more = All
        /\ DOMAIN x.mtxlist = All /\ \A t \in All : Price(x.more[t])
    BY DEF Ranked, Listed, RankShape
  <1>3. DOMAIN y.q = WaitQueues /\ \A m \in AllMutexes : y.q[m] = x.q[m]
    BY <1>2 DEF Upd, Apart, WaitQueues
  <1>4. DOMAIN y.more = All /\ \A t \in All : Price(y.more[t])
    BY <1>2 DEF Upd
  <1>5. DOMAIN y.st = All /\ \A t \in All : y.st[t] = "FINAL" => x.st[t] = "FINAL"
    BY <1>2 DEF Upd
  <1> QED BY <1>1, <1>2, <1>3, <1>4, <1>5 DEF Like

\* What InsertBefore makes.
Inserts(s, t, r, Behind(_)) ==
    /\ r \in Seq(All) /\ Len(r) = Len(s) + 1
    /\ \E n \in 1..(Len(s) + 1) :
           /\ \A i \in 1..Len(r) : r[i] = IF i < n THEN s[i] ELSE IF i = n THEN t ELSE s[i - 1]
           /\ \A i \in 1..(n - 1) : ~ Behind(s[i])
           /\ n <= Len(s) => Behind(s[n])

LEMMA Inserted ==
  ASSUME NEW s \in Seq(All), NEW t \in All, NEW Behind(_)
  PROVE  Inserts(s, t, InsertBefore(s, t, Behind), Behind)
  <1> DEFINE r == InsertBefore(s, t, Behind)
             P == {i \in DOMAIN s : Behind(s[i])}
             n == IF P = {} THEN Len(s) + 1 ELSE CHOOSE i \in P : \A j \in P : i <= j
             a == SubSeq(s, n, Len(s))
  <1>1. Len(s) \in Nat /\ P \subseteq 1..Len(s) /\ DOMAIN s = 1..Len(s)
    OBVIOUS
  <1>2. /\ n \in 1..(Len(s) + 1) /\ (n <= Len(s) => Behind(s[n]))
        /\ \A i \in 1..(n - 1) : ~ Behind(s[i])
    <2>1. CASE P = {}
      <3>1. n = Len(s) + 1
        BY <2>1
      <3>2. \A i \in 1..Len(s) : ~ Behind(s[i])
        BY <2>1, <1>1
      <3> HIDE DEF n, P
      <3> QED BY <1>1, <3>1, <3>2
    <2>2. CASE P # {}
      <3>1. n \in P /\ \A j \in P : n <= j
        <4> HIDE DEF P
        <4> QED BY <2>2, <1>1, FirstOf
      <3> HIDE DEF n
      <3>2. n \in 1..Len(s) /\ Behind(s[n])
        BY <3>1, <1>1
      <3>3. ASSUME NEW i \in 1..(n - 1) PROVE ~ Behind(s[i])
        <4>1. i \in 1..Len(s) /\ ~ (n <= i)
          BY <3>2, <1>1
        <4> QED BY <4>1, <3>1, <1>1
      <3> QED BY <3>2, <3>3, <1>1
    <2> QED BY <2>1, <2>2
  <1>3. r = SubSeq(s, 1, n - 1) \o <<t>> \o a
    BY DEF InsertBefore
  <1> HIDE DEF n, r
  <1>4. a \in Seq(All) /\ Len(a) = Len(s) + 1 - n /\ \A i \in 1..(Len(s) + 1 - n) : a[i] = s[n + i - 1]
    BY <1>1, <1>2
  <1> HIDE DEF a
  <1>5. /\ r \in Seq(All) /\ Len(r) = n + Len(a) /\ r[n] = t
        /\ \A i \in 1..(n - 1) : r[i] = s[i]
        /\ \A i \in (n + 1)..(n + Len(a)) : r[i] = a[i - n]
    BY <1>2, <1>3, <1>4, PutAt
  <1>6. Len(r) = Len(s) + 1
    BY <1>1, <1>2, <1>4, <1>5
  <1>7. ASSUME NEW i \in 1..Len(r)
        PROVE  r[i] = IF i < n THEN s[i] ELSE IF i = n THEN t ELSE s[i - 1]
    <2>1. CASE i < n
      BY <2>1, <1>2, <1>5
    <2>2. CASE i = n
      BY <2>2, <1>5
    <2>3. CASE i > n
      <3>1. i \in (n + 1)..(n + Len(a)) /\ i - n \in 1..(Len(s) + 1 - n) /\ n + (i - n) - 1 = i - 1
        BY <2>3, <1>1, <1>2, <1>4, <1>6
      <3> QED BY <2>3, <3>1, <1>4, <1>5, <1>2
    <2> QED BY <2>1, <2>2, <2>3, <1>2, <1>1, <1>6
  <1>8. Inserts(s, t, r, Behind)
    BY <1>2, <1>5, <1>6, <1>7 DEF Inserts
  <1> QED BY <1>8 DEF r

LEMMA UsedOf ==
  ASSUME NEW s \in Seq(All)
  PROVE  /\ \A i \in 1..Len(s) : s[i] \in Used(s) /\ s[i] \in All
         /\ \A t \in Used(s) : t \in All /\ \E i \in 1..Len(s) : s[i] = t
         /\ Len(s) \in Nat /\ (s = <<>> <=> Used(s) = {})
  <1>1. DOMAIN s = 1..Len(s) /\ Len(s) \in Nat /\ \A i \in 1..Len(s) : s[i] \in All
    OBVIOUS
  <1>2. Used(s) = {s[i] : i \in 1..Len(s)}
    BY <1>1 DEF Used
  <1>3. s # <<>> => 1 \in 1..Len(s)
    BY <1>1
  <1>4. s = <<>> => Used(s) = {}
    BY <1>2
  <1> QED BY <1>1, <1>2, <1>3, <1>4

\* Behind all that are not behind, and in front of the others.
OrderKept(s, t, prio, r, Behind(_)) ==
    /\ \A c \in All : Behind(c) => prio[c] <= prio[t]
    /\ \A c \in All : ~ Behind(c) => prio[t] <= prio[c]
    => r \in Seq(All) /\ Ordered(prio, r) /\ Used(r) = Used(s) \cup {t}

LEMMA OrderInsert ==
  ASSUME NEW s \in Seq(All), NEW t \in All, NEW prio, Ranks(prio), Ordered(prio, s), NEW Behind(_)
  PROVE  OrderKept(s, t, prio, InsertBefore(s, t, Behind), Behind)
  <1> DEFINE r == InsertBefore(s, t, Behind)
  <1> SUFFICES ASSUME \A c \in All : Behind(c) => prio[c] <= prio[t],
                      \A c \in All : ~ Behind(c) => prio[t] <= prio[c]
               PROVE  r \in Seq(All) /\ Ordered(prio, r) /\ Used(r) = Used(s) \cup {t}
    BY DEF OrderKept
  <1>0. Inserts(s, t, r, Behind)
    BY Inserted
  <1> HIDE DEF r
  <1>1. PICK n \in 1..(Len(s) + 1) :
               /\ \A i \in 1..Len(r) : r[i] = IF i < n THEN s[i] ELSE IF i = n THEN t ELSE s[i - 1]
               /\ \A i \in 1..(n - 1) : ~ Behind(s[i])
               /\ n <= Len(s) => Behind(s[n])
    BY <1>0 DEF Inserts
  <1>2. r \in Seq(All) /\ Len(r) = Len(s) + 1
    BY <1>0 DEF Inserts
  <1>3. /\ \A i \in 1..Len(s) : s[i] \in Used(s) /\ s[i] \in All
        /\ \A x \in Used(s) : x \in All /\ \E i \in 1..Len(s) : s[i] = x
        /\ Len(s) \in Nat
    BY UsedOf
  <1>4. /\ \A i \in 1..Len(r) : r[i] \in Used(r) /\ r[i] \in All
        /\ \A x \in Used(r) : x \in All /\ \E i \in 1..Len(r) : r[i] = x
    BY <1>2, UsedOf
  <1>5. Used(r) = Used(s) \cup {t}
    <2>1. t \in Used(r)
      BY <1>1, <1>2, <1>3, <1>4
    <2>2. ASSUME NEW x \in Used(s) PROVE x \in Used(r)
      <3>1. PICK i \in 1..Len(s) : s[i] = x
        BY <1>3
      <3>2. CASE i < n
        <4>1. i \in 1..Len(r) /\ r[i] = s[i]
          BY <3>2, <1>1, <1>2, <1>3
        <4> QED BY <4>1, <3>1, <1>4
      <3>3. CASE i >= n
        <4>1. i + 1 \in 1..Len(r) /\ r[i + 1] = s[(i + 1) - 1] /\ (i + 1) - 1 = i
          BY <3>3, <1>1, <1>2, <1>3
        <4> QED BY <4>1, <3>1, <1>4
      <3> QED BY <3>2, <3>3, <1>1, <1>3
    <2>3. ASSUME NEW x \in Used(r), x # t PROVE x \in Used(s)
      <3>1. PICK i \in 1..Len(r) : r[i] = x
        BY <1>4
      <3>2. i # n
        BY <3>1, <2>3, <1>1
      <3>3. CASE i < n
        BY <3>1, <3>3, <1>1, <1>2, <1>3
      <3>4. CASE i > n
        BY <3>1, <3>4, <1>1, <1>2, <1>3
      <3> QED BY <3>2, <3>3, <3>4, <1>1, <1>2, <1>3
    <2> QED BY <2>1, <2>2, <2>3
  <1>6. ASSUME NEW i \in 1..Len(r), NEW j \in 1..Len(r), i < j PROVE prio[r[j]] <= prio[r[i]]
    <2>1. /\ \A e \in 1..Len(s) : prio[s[e]] \in Int
          /\ \A e, f \in 1..Len(s) : e < f => prio[s[f]] <= prio[s[e]]
          /\ prio[t] \in Int
      BY <1>3 DEF Ranks, Ordered
    <2>2. \A e \in 1..Len(s) : e < n => prio[t] <= prio[s[e]]
      <3> TAKE e \in 1..Len(s)
      <3> HAVE e < n
      <3>1. ~ Behind(s[e]) /\ s[e] \in All
        BY <1>1, <1>3
      <3> QED BY <3>1
    <2>3. \A e \in 1..Len(s) : n <= e => prio[s[e]] <= prio[t]
      <3> TAKE e \in 1..Len(s)
      <3> HAVE n <= e
      <3>1. n \in 1..Len(s) /\ Behind(s[n]) /\ s[n] \in All
        BY <1>1, <1>3
      <3>2. prio[s[n]] <= prio[t]
        BY <3>1
      <3>3. prio[s[e]] <= prio[s[n]]
        BY <2>1, <3>1, <1>3
      <3> QED BY <2>1, <3>1, <3>2, <3>3, <1>3
    <2>4. CASE j < n
      <3>1. i \in 1..Len(s) /\ j \in 1..Len(s) /\ r[i] = s[i] /\ r[j] = s[j]
        BY <2>4, <1>1, <1>2, <1>3, <1>6
      <3> QED BY <3>1, <2>1, <1>6
    <2>5. CASE j = n
      <3>1. i \in 1..Len(s) /\ i < n /\ r[i] = s[i] /\ r[j] = t
        BY <2>5, <1>1, <1>2, <1>3, <1>6
      <3> QED BY <3>1, <2>2
    <2>6. CASE j > n
      <3>1. j - 1 \in 1..Len(s) /\ n <= j - 1 /\ r[j] = s[j - 1]
        BY <2>6, <1>1, <1>2, <1>3, <1>6
      <3>2. CASE i < n
        <4>1. i \in 1..Len(s) /\ i < j - 1 /\ r[i] = s[i]
          BY <3>1, <3>2, <1>1, <1>2, <1>3
        <4> QED BY <4>1, <3>1, <2>1
      <3>3. CASE i = n
        <4>1. r[i] = t
          BY <3>3, <1>1
        <4> QED BY <4>1, <3>1, <2>3
      <3>4. CASE i > n
        <4>1. i - 1 \in 1..Len(s) /\ i - 1 < j - 1 /\ r[i] = s[i - 1]
          BY <3>4, <1>1, <1>2, <1>3, <1>6
        <4> QED BY <4>1, <3>1, <2>1
      <3> QED BY <3>2, <3>3, <3>4, <1>1, <1>2, <1>3
    <2> QED BY <2>4, <2>5, <2>6, <1>1, <1>2, <1>3
  <1> QED BY <1>2, <1>5, <1>6 DEF Ordered

LEMMA OrderPrio ==
  ASSUME NEW s \in Seq(All), NEW t \in All, NEW prio, Ranks(prio), Ordered(prio, s)
  PROVE  /\ prio_insert(s, t, prio) \in Seq(All) /\ Ordered(prio, prio_insert(s, t, prio))
         /\ Used(prio_insert(s, t, prio)) = Used(s) \cup {t}
  <1> DEFINE B(c) == prio[c] < prio[t]
             r == InsertBefore(s, t, B)
  <1>1. /\ \A c \in All : B(c) => prio[c] <= prio[t]
        /\ \A c \in All : ~ B(c) => prio[t] <= prio[c]
    BY DEF Ranks
  <1>2. OrderKept(s, t, prio, InsertBefore(s, t, B), B)
    BY OrderInsert
  <1>3. prio_insert(s, t, prio) = r
    BY DEF prio_insert
  <1>4. r \in Seq(All) /\ Ordered(prio, r) /\ Used(r) = Used(s) \cup {t}
    <2>1. OrderKept(s, t, prio, r, B)
      BY <1>2
    <2> HIDE DEF r
    <2> QED BY <2>1, <1>1 DEF OrderKept
  <1> HIDE DEF r
  <1> QED BY <1>3, <1>4

\* t in front of the threads of its priority.
AheadIn(s, t, prio) == InsertBefore(s, t, LAMBDA c : prio[c] <= prio[t])

LEMMA OrderAhead ==
  ASSUME NEW s \in Seq(All), NEW t \in All, NEW prio, Ranks(prio), Ordered(prio, s),
         NEW r, r = AheadIn(s, t, prio)
  PROVE  r \in Seq(All) /\ Ordered(prio, r) /\ Used(r) = Used(s) \cup {t}
  <1> DEFINE B(c) == prio[c] <= prio[t]
             r1 == InsertBefore(s, t, B)
  <1>1. /\ \A c \in All : B(c) => prio[c] <= prio[t]
        /\ \A c \in All : ~ B(c) => prio[t] <= prio[c]
    BY DEF Ranks
  <1>2. OrderKept(s, t, prio, InsertBefore(s, t, B), B)
    BY OrderInsert
  <1>3. r = r1
    BY DEF AheadIn
  <1>4. r1 \in Seq(All) /\ Ordered(prio, r1) /\ Used(r1) = Used(s) \cup {t}
    <2>1. OrderKept(s, t, prio, r1, B)
      BY <1>2
    <2> HIDE DEF r1
    <2> QED BY <2>1, <1>1 DEF OrderKept
  <1> HIDE DEF r1
  <1> QED BY <1>3, <1>4

-----------------------------------------------------------------------------
\* The scheduler moves threads between the ready list and the processor.
LEMMA Rescheduled ==
  ASSUME NEW b, NEW x, Ranked(b, x), NEW y, Keeps(x, y, Plain \cup {"st", "ready", "cur"}),
         y.cur \in All, y.ready \in Seq(All), Ordered(x.prio, y.ready),
         y.cur = Idle \/ Idle \in Used(y.ready), DOMAIN y.st = All,
         \A t \in All : y.st[t] = "FINAL" => x.mtxlist[t] = <<>>
  PROVE  Ranked(b, y)
  <1>1. /\ DOMAIN y = Fields /\ y.prio = x.prio /\ y.q = x.q /\ y.more = x.more
        /\ y.rprio = x.rprio /\ y.owner = x.owner /\ y.mtxlist = x.mtxlist
    BY DEF Keeps, Plain, Fields
  <1>2. RankShape(y)
    BY <1>1 DEF Ranked, Listed, RankShape
  <1> QED BY <1>1, <1>2 DEF Ranked, Listed

LEMMA RankFacts ==
  ASSUME NEW b, NEW x, Ranked(b, x)
  PROVE  /\ DOMAIN x = Fields /\ x.cur \in All /\ DOMAIN x.st = All /\ DOMAIN x.q = WaitQueues
         /\ Ranks(x.prio) /\ Ranks(x.rprio) /\ DOMAIN x.mtxlist = All /\ DOMAIN x.more = All
         /\ x.ready \in Seq(All) /\ Ordered(x.prio, x.ready)
         /\ (x.cur = Idle \/ Idle \in Used(x.ready)) /\ Idle \in All
         /\ \A t \in All : x.st[t] = "FINAL" => x.mtxlist[t] = <<>>
         /\ \A t \in All : x.prio[t] \in Int
         /\ \A m \in AllMutexes : x.q[m] \in Seq(All) /\ Ordered(x.prio, x.q[m])
         /\ \A t \in All : Price(x.more[t])
         /\ x.prio[Idle] = 1 /\ x.owner \in [AllMutexes -> Threads \cup {NoThread}]
  BY DEF Ranked, Listed, RankShape, Ranks, All, IDLEPRIO

\* The list r has the threads of s, and t.
Adds(s, r, t) == Used(r) = Used(s) \cup {t}

LEMMA ReadyRanked ==
  ASSUME NEW b, NEW x, Ranked(b, x), NEW t \in All, NEW y, y = chSchReadyI(x, t)
  PROVE  /\ Ranked(b, y) /\ Adds(x.ready, y.ready, t)
         /\ Keeps(x, y, {"st", "ready"}) /\ y.cur = x.cur /\ y.prio = x.prio /\ y.mtxlist = x.mtxlist
  <1> DEFINE r == prio_insert(x.ready, t, x.prio)
  <1>1. r \in Seq(All) /\ Ordered(x.prio, r) /\ Used(r) = Used(x.ready) \cup {t}
    BY RankFacts, OrderPrio
  <1>2. /\ Keeps(x, y, {"st", "ready"}) /\ y.ready = r /\ Upd(x.st, y.st, t, "READY")
        /\ y.cur = x.cur /\ y.prio = x.prio /\ y.mtxlist = x.mtxlist
    BY RankFacts DEF chSchReadyI, Keeps, Fields, Upd
  <1> HIDE DEF r
  <1>3. DOMAIN y.st = All /\ \A p \in All : y.st[p] = "FINAL" => x.mtxlist[p] = <<>>
    BY <1>2, RankFacts DEF Upd
  <1>4. Keeps(x, y, Plain \cup {"st", "ready", "cur"})
    BY <1>2 DEF Keeps
  <1>5. Ranked(b, y)
    <2>1. x.cur \in All /\ (x.cur = Idle \/ Idle \in Used(r))
      BY RankFacts, <1>1
    <2> QED BY <1>1, <1>2, <1>3, <1>4, <2>1, Rescheduled
  <1> QED BY <1>1, <1>2, <1>5 DEF Adds

\* Like it, with another field u.
LEMMA MsgRanked ==
  ASSUME NEW b, NEW x, Ranked(b, x), NEW y, Keeps(x, y, {"u"})
  PROVE  Ranked(b, y) /\ Like(x, y)
  <1>1. Keeps(x, y, Plain \cup {"q", "more", "st"}) /\ y.q = x.q /\ y.more = x.more /\ y.st = x.st
    BY DEF Keeps, Plain, Fields
  <1> QED BY <1>1, PlainLike, LikeRanked

LEMMA ReadyMsgRanked ==
  ASSUME NEW b, NEW x, Ranked(b, x), NEW t \in All, NEW m, NEW y, y = ReadyMsg(x, t, m)
  PROVE  /\ Ranked(b, y) /\ Adds(x.ready, y.ready, t)
         /\ Keeps(x, y, {"st", "ready", "u"}) /\ y.cur = x.cur /\ y.prio = x.prio /\ y.mtxlist = x.mtxlist
  <1> DEFINE z == chSchReadyI(x, t)
  <1>1. /\ Ranked(b, z) /\ Adds(x.ready, z.ready, t)
        /\ Keeps(x, z, {"st", "ready"}) /\ z.cur = x.cur /\ z.prio = x.prio /\ z.mtxlist = x.mtxlist
    BY ReadyRanked
  <1> HIDE DEF z
  <1>2. y = [z EXCEPT !.u[t] = Msg(m)]
    BY DEF ReadyMsg, z
  <1>3. DOMAIN z = Fields
    BY <1>1 DEF Keeps
  <1>4. Keeps(z, y, {"u"}) /\ y.ready = z.ready /\ y.cur = z.cur /\ y.prio = z.prio /\ y.mtxlist = z.mtxlist
    BY <1>2, <1>3 DEF Keeps, Fields
  <1>5. Keeps(x, y, {"st", "ready", "u"})
    BY <1>1, <1>4 DEF Keeps
  <1> QED BY <1>1, <1>4, <1>5, MsgRanked

\* The first of a list that is in order.
LEMMA HeadOrdered ==
  ASSUME NEW s \in Seq(All), s # <<>>, NEW prio, Ranks(prio), Ordered(prio, s)
  PROVE  /\ Head(s) \in All /\ Tail(s) \in Seq(All) /\ Ordered(prio, Tail(s))
         /\ Used(s) = Used(Tail(s)) \cup {Head(s)} /\ Len(Tail(s)) = Len(s) - 1
         /\ \A t \in Used(s) : prio[t] <= prio[Head(s)]
  <1> DEFINE r == Tail(s)
             h == Head(s)
  <1>1. /\ Len(s) \in Nat /\ Len(s) >= 1 /\ h = s[1] /\ r \in Seq(All) /\ Len(r) = Len(s) - 1
        /\ \A i \in 1..Len(r) : r[i] = s[i + 1]
    OBVIOUS
  <1>2. /\ \A i \in 1..Len(s) : s[i] \in Used(s) /\ s[i] \in All
        /\ \A t \in Used(s) : t \in All /\ \E i \in 1..Len(s) : s[i] = t
    BY UsedOf
  <1>3. /\ \A i \in 1..Len(r) : r[i] \in Used(r) /\ r[i] \in All
        /\ \A t \in Used(r) : t \in All /\ \E i \in 1..Len(r) : r[i] = t
    BY <1>1, UsedOf
  <1> HIDE DEF r, h
  <1>4. h \in Used(s) /\ h \in All
    BY <1>1, <1>2
  <1>5. ASSUME NEW t \in Used(s) PROVE prio[t] <= prio[h]
    <2>1. PICK i \in 1..Len(s) : s[i] = t
      BY <1>2
    <2>2. 1 \in 1..Len(s) /\ prio[s[1]] \in Int
      BY <1>1, <1>4 DEF Ranks
    <2>3. CASE i = 1
      BY <2>1, <2>2, <2>3, <1>1
    <2>4. CASE i # 1
      <3>1. 1 < i
        BY <2>4, <1>1
      <3>2. prio[s[i]] <= prio[s[1]]
        BY <3>1, <2>2 DEF Ordered
      <3> QED BY <3>2, <2>1, <1>1
    <2> QED BY <2>3, <2>4
  <1>6. Used(s) = Used(r) \cup {h}
    <2>1. ASSUME NEW t \in Used(s), t # h PROVE t \in Used(r)
      <3>1. PICK i \in 1..Len(s) : s[i] = t
        BY <1>2
      <3>2. i # 1
        BY <3>1, <2>1, <1>1
      <3>3. i - 1 \in 1..Len(r) /\ r[i - 1] = s[(i - 1) + 1] /\ (i - 1) + 1 = i
        BY <3>2, <1>1
      <3> QED BY <3>1, <3>3, <1>3
    <2>2. ASSUME NEW t \in Used(r) PROVE t \in Used(s)
      <3>1. PICK i \in 1..Len(r) : r[i] = t
        BY <1>3
      <3>2. i + 1 \in 1..Len(s) /\ r[i] = s[i + 1]
        BY <1>1
      <3> QED BY <3>1, <3>2, <1>2
    <2> QED BY <2>1, <2>2, <1>4
  <1>7. Ordered(prio, r)
    <2> SUFFICES ASSUME NEW i \in 1..Len(r), NEW j \in 1..Len(r), i < j PROVE prio[r[j]] <= prio[r[i]]
      BY DEF Ordered
    <2>1. i + 1 \in 1..Len(s) /\ j + 1 \in 1..Len(s) /\ i + 1 < j + 1 /\ r[i] = s[i + 1] /\ r[j] = s[j + 1]
      BY <1>1
    <2> QED BY <2>1 DEF Ordered
  <1> QED BY <1>1, <1>4, <1>5, <1>6, <1>7 DEF r, h

\* The first ready thread runs; the one that ran sleeps.
LEMMA SleepPeak ==
  ASSUME NEW b, NEW x, Ranked(b, x), x.cur # Idle, NEW s, s # "FINAL" \/ x.mtxlist[x.cur] = <<>>,
         NEW cont, NEW y, y = chSchGoSleepS(x, s, cont)
  PROVE  Peak(b, y)
  <1> DEFINE h == Head(x.ready)
             st == [[x.st EXCEPT ![x.cur] = s] EXCEPT ![h] = "CURRENT"]
  <1>1. x.ready \in Seq(All) /\ x.ready # <<>> /\ Ranks(x.prio) /\ Ordered(x.prio, x.ready)
    BY RankFacts, UsedOf
  <1>2. /\ h \in All /\ Tail(x.ready) \in Seq(All) /\ Ordered(x.prio, Tail(x.ready))
        /\ Used(x.ready) = Used(Tail(x.ready)) \cup {h}
        /\ \A t \in Used(x.ready) : x.prio[t] <= x.prio[h]
    BY <1>1, HeadOrdered
  <1>3. /\ Keeps(x, y, {"st", "ready", "cur", "preempt", "cont"}) /\ y.cur = h /\ y.ready = Tail(x.ready)
        /\ y.st = st /\ y.prio = x.prio
    BY RankFacts DEF chSchGoSleepS, SwitchToFirst, Keeps, Fields
  <1>4. DOMAIN st = All /\ \A t \in All : st[t] = "FINAL" => x.mtxlist[t] = <<>>
    <2>1. DOMAIN x.st = All /\ x.cur \in All /\ \A t \in All : x.st[t] = "FINAL" => x.mtxlist[t] = <<>>
      BY RankFacts
    <2>2. \A t \in All : st[t] = IF t = h THEN "CURRENT" ELSE IF t = x.cur THEN s ELSE x.st[t]
      BY <2>1
    <2>3. DOMAIN st = All
      BY <2>1
    <2> HIDE DEF st, h
    <2> QED BY <2>1, <2>2, <2>3
  <1> HIDE DEF st, h
  <1>5. Keeps(x, y, Plain \cup {"st", "ready", "cur"})
    BY <1>3 DEF Keeps, Plain, Fields
  <1>6. Idle \in Used(x.ready)
    BY RankFacts
  <1>7. Ranked(b, y)
    BY <1>2, <1>3, <1>4, <1>5, <1>6, Rescheduled
  <1>8. Highest(y)
    BY <1>2, <1>3 DEF Highest
  <1> QED BY <1>7, <1>8 DEF Peak

LEMMA SleepTimeoutPeak ==
  ASSUME NEW b, NEW x, Ranked(b, x), x.cur # Idle, NEW s, s # "FINAL" \/ x.mtxlist[x.cur] = <<>>,
         NEW cont, NEW time
  PROVE  Peak(b, chSchGoSleepTimeoutS(x, s, time, cont))
  <1>1. CASE time = TIME_INFINITE
    BY <1>1, SleepPeak DEF chSchGoSleepTimeoutS
  <1>2. CASE time # TIME_INFINITE
    <2> DEFINE z == chVTSetI(x, x.cur, time)
    <2>1. Keeps(x, z, {"vt", "due"})
      BY RankFacts DEF chVTSetI, Keeps, Fields
    <2>2. chSchGoSleepTimeoutS(x, s, time, cont) = chSchGoSleepS(z, s, cont)
      BY <1>2 DEF chSchGoSleepTimeoutS
    <2> HIDE DEF z
    <2>3. /\ Keeps(x, z, Plain \cup {"q", "more", "st"}) /\ z.q = x.q /\ z.more = x.more /\ z.st = x.st
          /\ z.cur = x.cur /\ z.mtxlist = x.mtxlist
      BY <2>1 DEF Keeps, Plain, Fields
    <2>4. Ranked(b, z)
      BY <2>3, PlainLike, LikeRanked
    <2> QED BY <2>2, <2>3, <2>4, SleepPeak
  <1> QED BY <1>1, <1>2

\* A thread is woken by one that has the highest priority, or with no less
\* than the ready threads have.
LEMMA WakePeak ==
  ASSUME NEW b, NEW x, Ranked(b, x), NEW t \in All,
         Highest(x) \/ \A p \in Used(x.ready) : x.prio[p] <= x.prio[t], NEW m
  PROVE  Peak(b, chSchWakeupS(x, t, m))
  <1> DEFINE k1 == [x EXCEPT !.u[t] = Msg(m)]
             c == x.cur
             y == chSchReadyI(k1, t)
             y1 == chSchReadyI(k1, c)
             z == [y1 EXCEPT !.cur = t, !.st[t] = "CURRENT"]
  <1>1. /\ Ranks(x.prio) /\ c \in All /\ x.ready \in Seq(All) /\ Ordered(x.prio, x.ready)
        /\ (c = Idle \/ Idle \in Used(x.ready)) /\ (\A p \in All : x.prio[p] \in Int)
        /\ \A p \in All : x.st[p] = "FINAL" => x.mtxlist[p] = <<>>
    BY RankFacts
  <1>2. Keeps(x, k1, {"u"}) /\ k1.cur = x.cur /\ k1.prio = x.prio /\ k1.ready = x.ready
    BY RankFacts DEF Keeps, Fields
  <1>3. chSchWakeupS(x, t, m) = IF x.prio[t] <= x.prio[c] THEN y ELSE z
    BY DEF chSchWakeupS
  <1> HIDE DEF k1
  <1>4. Ranked(b, k1)
    BY <1>2, MsgRanked
  <1>5. CASE x.prio[t] <= x.prio[c]
    <2>1. Ranked(b, y) /\ Adds(k1.ready, y.ready, t) /\ y.cur = k1.cur /\ y.prio = k1.prio
      BY <1>4, ReadyRanked
    <2> HIDE DEF y
    <2>2. \A p \in Used(x.ready) : p \in All
      BY <1>1, UsedOf
    <2>3. \A p \in Used(x.ready) : x.prio[p] <= x.prio[c]
      BY <2>2, <1>1, <1>5 DEF Highest
    <2>4. Highest(y)
      BY <2>1, <2>3, <1>2, <1>5 DEF Highest, Adds
    <2> QED BY <1>3, <1>5, <2>1, <2>4 DEF Peak
  <1>6. CASE ~ (x.prio[t] <= x.prio[c])
    <2>1. /\ Ranked(b, y1) /\ Adds(k1.ready, y1.ready, c) /\ y1.cur = k1.cur /\ y1.prio = k1.prio
      <3>1. c \in All
        BY <1>1
      <3> HIDE DEF c
      <3> QED BY <3>1, <1>4, ReadyRanked
    <2> HIDE DEF y1
    <2>2. /\ Keeps(y1, z, {"cur", "st"}) /\ z.cur = t /\ Upd(y1.st, z.st, t, "CURRENT") /\ z.ready = y1.ready
          /\ z.prio = y1.prio
      BY <2>1, RankFacts DEF Keeps, Fields, Upd
    <2> HIDE DEF z, c
    <2>3. DOMAIN y1.st = All /\ \A p \in All : y1.st[p] = "FINAL" => y1.mtxlist[p] = <<>>
      BY <2>1, RankFacts
    <2>4. DOMAIN z.st = All /\ \A p \in All : z.st[p] = "FINAL" => y1.mtxlist[p] = <<>>
      BY <2>2, <2>3 DEF Upd
    <2>5. y1.ready \in Seq(All) /\ Ordered(y1.prio, y1.ready) /\ Idle \in Used(y1.ready)
      BY <2>1, <1>1, <1>2, RankFacts DEF Adds
    <2>6. Keeps(y1, z, Plain \cup {"st", "ready", "cur"})
      BY <2>2 DEF Keeps
    <2>7. Ranked(b, z)
      BY <2>1, <2>2, <2>4, <2>5, <2>6, Rescheduled
    <2>8. \A p \in Used(x.ready) : p \in All
      BY <1>1, UsedOf
    <2>9. \A p \in Used(x.ready) \cup {c} : x.prio[p] <= x.prio[t]
      BY <2>8, <1>1, <1>6 DEF Highest, c
    <2>10. Highest(z)
      BY <2>1, <2>2, <2>9, <1>2 DEF Highest, Adds
    <2> QED BY <1>3, <1>6, <2>7, <2>10 DEF Peak
  <1> QED BY <1>5, <1>6

LEMMA ReschedulePeak ==
  ASSUME NEW b, NEW x, Ranked(b, x)
  PROVE  Peak(b, chSchRescheduleS(x)) /\ Peak(b, chSchDoYieldS(x)) /\ Peak(b, ALT_OS_INT_EXIT(x))
  <1> DEFINE h == Head(x.ready)
             c == x.cur
             y == SwitchToFirst(x)
             a == chSchDoRescheduleAhead(x)
             e == chSchDoRescheduleBehind(x)
  <1>1. /\ x.ready \in Seq(All) /\ Ranks(x.prio) /\ Ordered(x.prio, x.ready) /\ c \in All
        /\ (c = Idle \/ Idle \in Used(x.ready)) /\ (\A t \in All : x.prio[t] \in Int)
    BY RankFacts
  <1>2. x.ready = <<>> => c = Idle /\ x.prio[c] = 1
    BY UsedOf, RankFacts
  <1>3. firstprio(x) = IF x.ready = <<>> THEN 0 ELSE x.prio[h]
    BY DEF firstprio, NOPRIO
  <1>4. ASSUME firstprio(x) <= x.prio[c] PROVE Peak(b, x)
    <2>1. CASE x.ready = <<>>
      <3>1. Used(x.ready) = {}
        BY <2>1, <1>1, UsedOf
      <3> QED BY <3>1 DEF Peak, Highest
    <2>2. CASE x.ready # <<>>
      <3>1. h \in All /\ \A t \in Used(x.ready) : t \in All /\ x.prio[t] <= x.prio[h]
        BY <2>2, <1>1, HeadOrdered, UsedOf
      <3>2. \A t \in Used(x.ready) : x.prio[t] <= x.prio[c]
        <4> HIDE DEF c, h
        <4> QED BY <3>1, <2>2, <1>1, <1>3, <1>4
      <3> QED BY <3>2 DEF Peak, Highest
    <2> QED BY <2>1, <2>2
  <1>5. ASSUME firstprio(x) >= x.prio[c] PROVE Peak(b, a) /\ Peak(b, e)
    <2>1. x.ready # <<>> /\ x.prio[h] >= x.prio[c]
      BY <1>2, <1>3, <1>5
    <2>2. /\ h \in All /\ Tail(x.ready) \in Seq(All) /\ Ordered(x.prio, Tail(x.ready))
          /\ Used(x.ready) = Used(Tail(x.ready)) \cup {h}
          /\ \A t \in Used(x.ready) : x.prio[t] <= x.prio[h]
      BY <2>1, <1>1, HeadOrdered
    <2>3. /\ Keeps(x, y, {"st", "ready", "cur"}) /\ y.cur = h /\ y.ready = Tail(x.ready)
          /\ Upd(x.st, y.st, h, "CURRENT") /\ y.prio = x.prio
      BY RankFacts DEF SwitchToFirst, Keeps, Fields, Upd
    <2> DEFINE r == InsertBefore(y.ready, c, LAMBDA p : x.prio[p] <= x.prio[c])
               y1 == [y EXCEPT !.preempt[c] = CH_TIME_QUANTUM]
               r1 == prio_insert(y.ready, c, x.prio)
    <2>4. a = [y EXCEPT !.st[c] = "READY", !.ready = r]
      BY <2>3 DEF chSchDoRescheduleAhead
    <2>5. e = chSchReadyI(y1, c)
      BY DEF chSchDoRescheduleBehind
    <2>6. r \in Seq(All) /\ Ordered(x.prio, r) /\ Used(r) = Used(y.ready) \cup {c}
      <3>1. y.ready \in Seq(All) /\ Ordered(x.prio, y.ready) /\ c \in All /\ Ranks(x.prio)
        BY <2>2, <2>3, <1>1
      <3>2. r = AheadIn(y.ready, c, x.prio)
        BY DEF AheadIn
      <3> HIDE DEF y, c, r
      <3> QED BY <3>1, <3>2, OrderAhead
    <2>7. r1 \in Seq(All) /\ Ordered(x.prio, r1) /\ Used(r1) = Used(y.ready) \cup {c}
      <3>1. y.ready \in Seq(All) /\ Ordered(x.prio, y.ready) /\ c \in All /\ Ranks(x.prio)
        BY <2>2, <2>3, <1>1
      <3> HIDE DEF y, c
      <3> QED BY <3>1, OrderPrio
    <2> HIDE DEF y, r, r1, a, e
    <2>8. DOMAIN y = Fields
      BY <2>3 DEF Keeps
    <2>9. /\ Keeps(y, a, {"st", "ready"}) /\ Upd(y.st, a.st, c, "READY") /\ a.ready = r
          /\ a.cur = h /\ a.prio = x.prio
      BY <2>3, <2>4, <2>8 DEF Keeps, Fields, Upd
    <2>10. /\ Keeps(y, e, {"st", "ready", "preempt"}) /\ Upd(y.st, e.st, c, "READY") /\ e.ready = r1
           /\ e.cur = h /\ e.prio = x.prio
      <3>1. Keeps(y, y1, {"preempt"}) /\ y1.st = y.st /\ y1.cur = h /\ y1.prio = x.prio /\ y1.ready = y.ready
        BY <2>3, <2>8 DEF Keeps, Fields
      <3> HIDE DEF y1
      <3>2. DOMAIN y1 = Fields
        BY <3>1 DEF Keeps
      <3>3. /\ Keeps(y1, e, {"st", "ready"}) /\ Upd(y1.st, e.st, c, "READY")
            /\ e.ready = prio_insert(y1.ready, c, y1.prio) /\ e.cur = y1.cur /\ e.prio = y1.prio
        BY <2>5, <3>2 DEF chSchReadyI, Keeps, Fields, Upd
      <3>4. Keeps(y, e, {"st", "ready", "preempt"})
        BY <3>1, <3>3 DEF Keeps
      <3> QED BY <3>1, <3>3, <3>4 DEF r1
    <2>11. DOMAIN x.st = All /\ \A t \in All : x.st[t] = "FINAL" => x.mtxlist[t] = <<>>
      BY RankFacts
    <2>12. DOMAIN y.st = All /\ \A t \in All : y.st[t] = "FINAL" => x.st[t] = "FINAL"
      BY <2>3, <2>11 DEF Upd
    <2>13. /\ DOMAIN a.st = All /\ \A t \in All : a.st[t] = "FINAL" => x.mtxlist[t] = <<>>
           /\ DOMAIN e.st = All /\ \A t \in All : e.st[t] = "FINAL" => x.mtxlist[t] = <<>>
      BY <2>9, <2>10, <2>11, <2>12 DEF Upd
    <2>14. /\ Keeps(x, a, Plain \cup {"st", "ready", "cur"})
           /\ Keeps(x, e, Plain \cup {"st", "ready", "cur"})
      BY <2>3, <2>9, <2>10 DEF Keeps, Plain, Fields
    <2>15. \A t \in Used(y.ready) \cup {c} : x.prio[t] <= x.prio[h]
      BY <2>1, <2>2, <2>3, <1>1
    <2>16. h = Idle \/ Idle \in Used(y.ready) \cup {c}
      BY <2>2, <2>3, <1>1
    <2> HIDE DEF h, c
    <2>17. Ranked(b, a)
      BY <2>2, <2>6, <2>9, <2>13, <2>14, <2>16, Rescheduled
    <2>18. Ranked(b, e)
      BY <2>2, <2>7, <2>10, <2>13, <2>14, <2>16, Rescheduled
    <2>19. Highest(a) /\ Highest(e)
      BY <2>6, <2>7, <2>9, <2>10, <2>15 DEF Highest
    <2> QED BY <2>17, <2>18, <2>19 DEF Peak
  <1>6. firstprio(x) \in Int /\ x.prio[c] \in Int
    <2>1. x.ready # <<>> => h \in All
      BY <1>1, HeadOrdered
    <2> QED BY <2>1, <1>1, <1>3
  <1> HIDE DEF a, e, c, h
  <1>7. CASE firstprio(x) > x.prio[c]
    BY <1>5, <1>6, <1>7 DEF chSchRescheduleS, chSchIsRescRequiredI, chSchDoYieldS, ALT_OS_INT_EXIT,
        chSchIsPreemptionRequired, chSchDoReschedule, a, e, c
  <1>8. CASE firstprio(x) = x.prio[c]
    BY <1>4, <1>5, <1>6, <1>8 DEF chSchRescheduleS, chSchIsRescRequiredI, chSchDoYieldS, ALT_OS_INT_EXIT,
        chSchIsPreemptionRequired, chSchDoReschedule, a, e, c
  <1>9. CASE firstprio(x) < x.prio[c]
    BY <1>4, <1>6, <1>9 DEF chSchRescheduleS, chSchIsRescRequiredI, chSchDoYieldS, ALT_OS_INT_EXIT,
        chSchIsPreemptionRequired, chSchDoReschedule, a, e, c
  <1> QED BY <1>6, <1>7, <1>8, <1>9

-----------------------------------------------------------------------------
(***************************************************************************)
(* Changes of priorities and owners.                                       *)
(***************************************************************************)

\* More threads wait, or none less.
LEMMA HeldFacts ==
  ASSUME NEW b, NEW prio, NEW rprio, NEW W, NEW owner, NEW mtxlist,
         Held(b, prio, rprio, W, owner, mtxlist)
  PROVE  /\ Owned(owner, mtxlist) /\ Bounded(prio, rprio, W, owner)
         /\ b => Lifted(prio, W, owner, NoThread, 0)
         /\ \A t \in All : /\ rprio[t] <= prio[t]
                           /\ prio[t] <= rprio[t] \/ Needs(prio, W, owner, t, prio[t])
         /\ NoThread \notin All
  BY NamesAssumption DEF Held, Bounded

\* The thread t, for which nobody would have to be put elsewhere.
Off(t, ready, W) == t \notin Used(ready) /\ \A m \in AllMutexes : t \notin W[m]

\* The priority p and the base priority r are right for t.
Fits(b, prio, W, owner, t, p, r) ==
    /\ r <= p /\ (p <= r \/ Needs(prio, W, owner, t, p))
    /\ b => \A m \in AllMutexes : owner[m] = t => \A w \in W[m] : prio[w] <= p
Absent(t, W) == \A m \in AllMutexes : t \notin W[m] /\ W[m] \subseteq All

\* The function g gives v to the thread t, and to the others what f gives.
Gives(f, g, t, v) == DOMAIN g = All /\ g[t] = v /\ \A e \in All : e # t => g[e] = f[e]

LEMMA HeldPrio ==
  ASSUME NEW b, NEW prio, NEW rprio, NEW W, NEW owner, NEW mtxlist,
         Held(b, prio, rprio, W, owner, mtxlist), NEW t \in All,
         Absent(t, W), NEW p \in Int, NEW r \in Int, Fits(b, prio, W, owner, t, p, r),
         NEW prio2, Gives(prio, prio2, t, p), NEW rprio2, Gives(rprio, rprio2, t, r),
         Ranks(prio), Ranks(rprio), owner \in [AllMutexes -> Threads \cup {NoThread}]
  PROVE  Held(b, prio2, rprio2, W, owner, mtxlist) /\ Ranks(prio2) /\ Ranks(rprio2)
  <1>1. Ranks(prio2) /\ Ranks(rprio2)
    BY DEF Ranks, Gives
  <1>2. /\ \A e \in All : e # t => prio2[e] = prio[e] /\ rprio2[e] = rprio[e]
        /\ prio2[t] = p /\ rprio2[t] = r
    BY DEF Gives
  <1>3. \A e \in All : /\ rprio[e] <= prio[e]
                       /\ prio[e] <= rprio[e] \/ Needs(prio, W, owner, e, prio[e])
    BY HeldFacts
  <1>4. ASSUME NEW e, NEW d, Needs(prio, W, owner, e, d) PROVE Needs(prio2, W, owner, e, d)
    <2>1. PICK m \in AllMutexes : owner[m] = e /\ \E w \in W[m] : d <= prio[w]
      BY <1>4 DEF Needs
    <2>2. PICK w \in W[m] : d <= prio[w]
      BY <2>1
    <2>3. w # t /\ w \in All
      BY DEF Absent
    <2> QED BY <2>1, <2>2, <2>3, <1>2 DEF Needs
  <1>5. Bounded(prio2, rprio2, W, owner)
    <2> SUFFICES ASSUME NEW e \in All
                 PROVE  /\ rprio2[e] <= prio2[e]
                        /\ prio2[e] <= rprio2[e] \/ Needs(prio2, W, owner, e, prio2[e])
      BY DEF Bounded
    <2>1. CASE e = t
      BY <2>1, <1>2, <1>4 DEF Fits
    <2>2. CASE e # t
      BY <2>2, <1>2, <1>3, <1>4
    <2> QED BY <2>1, <2>2
  <1>6. ASSUME b PROVE Lifted(prio2, W, owner, NoThread, 0)
    <2> SUFFICES ASSUME NEW m \in AllMutexes, NEW w \in W[m]
                 PROVE  owner[m] # NoThread /\ prio2[w] <= prio2[owner[m]]
      BY DEF Lifted
    <2>0. Lifted(prio, W, owner, NoThread, 0)
      BY <1>6, HeldFacts
    <2>1. w # t /\ w \in All /\ owner[m] # NoThread /\ prio[w] <= prio[owner[m]]
      BY <2>0 DEF Lifted, Absent
    <2>2. CASE owner[m] = t
      BY <2>1, <2>2, <1>2, <1>6 DEF Fits
    <2>3. CASE owner[m] # t
      BY <2>1, <2>3, <1>2 DEF All
    <2> QED BY <2>2, <2>3
  <1> QED BY <1>1, <1>5, <1>6 DEF Held

LEMMA OrderFrame ==
  ASSUME NEW s \in Seq(All), NEW prio, Ordered(prio, s), NEW prio2,
         \A t \in Used(s) : prio2[t] = prio[t]
  PROVE  Ordered(prio2, s)
  BY UsedOf DEF Ordered

\* x with other priorities of t.
Reprices(x, y, t, p, r) ==
    Keeps(x, y, {"prio", "rprio"}) /\ Gives(x.prio, y.prio, t, p) /\ Gives(x.rprio, y.rprio, t, r)

LEMMA WaitsIn ==
  ASSUME NEW b, NEW x, Ranked(b, x)
  PROVE  \A m \in AllMutexes : Waits(x.q)[m] = Used(x.q[m]) /\ Waits(x.q)[m] \subseteq All
  BY RankFacts, UsedOf DEF Waits

LEMMA RepricedRanked ==
  ASSUME NEW b, NEW x, Ranked(b, x), NEW t \in All, t # Idle, Off(t, x.ready, Waits(x.q)),
         NEW p \in Int, NEW r \in Int, Fits(b, x.prio, Waits(x.q), x.owner, t, p, r),
         NEW y, Reprices(x, y, t, p, r)
  PROVE  Ranked(b, y)
  <1> DEFINE W == Waits(x.q)
  <1>1. \A m \in AllMutexes : W[m] = Used(x.q[m]) /\ W[m] \subseteq All /\ t \notin W[m]
    BY WaitsIn DEF Off
  <1>2. /\ Held(b, x.prio, x.rprio, W, x.owner, x.mtxlist) /\ Ranks(x.prio) /\ Ranks(x.rprio)
        /\ x.owner \in [AllMutexes -> Threads \cup {NoThread}]
    BY RankFacts DEF Ranked
  <1>3. Gives(x.prio, y.prio, t, p) /\ Gives(x.rprio, y.rprio, t, r)
    BY DEF Reprices
  <1>4. /\ DOMAIN y = Fields /\ y.cur = x.cur /\ y.ready = x.ready /\ y.owner = x.owner
        /\ y.mtxlist = x.mtxlist /\ y.q = x.q /\ y.st = x.st /\ y.more = x.more
    BY DEF Reprices, Keeps, Fields
  <1>5. Held(b, y.prio, y.rprio, W, x.owner, x.mtxlist) /\ Ranks(y.prio) /\ Ranks(y.rprio)
    <2>1. Fits(b, x.prio, W, x.owner, t, p, r)
      OBVIOUS
    <2> HIDE DEF W
    <2>2. Absent(t, W)
      BY <1>1 DEF Absent
    <2> QED BY <1>2, <1>3, <2>1, <2>2, HeldPrio
  <1>6. \A e \in All : e # t => y.prio[e] = x.prio[e]
    BY <1>3 DEF Gives
  <1>7. RankShape(y)
    BY <1>4, <1>5, <1>6, RankFacts DEF Ranked, Listed, RankShape
  <1>8. Ordered(y.prio, y.ready)
    <2>1. \A e \in Used(x.ready) : y.prio[e] = x.prio[e]
      BY <1>6, RankFacts, UsedOf DEF Off
    <2> QED BY <2>1, <1>4, RankFacts, OrderFrame
  <1>9. ASSUME NEW m \in AllMutexes PROVE Ordered(y.prio, y.q[m])
    <2>1. \A e \in Used(x.q[m]) : y.prio[e] = x.prio[e]
      BY <1>1, <1>6
    <2> QED BY <2>1, <1>4, RankFacts, OrderFrame
  <1>10. Listed(y)
    BY <1>4, <1>7, <1>8, <1>9, RankFacts DEF Listed
  <1> QED BY <1>4, <1>5, <1>10 DEF Ranked

LEMMA HasSub ==
  ASSUME NEW s, NEW M, Has(s, M)
  PROVE  /\ s \in Seq(AllMutexes) /\ Len(s) \in Nat /\ \A i \in 1..Len(s) : s[i] \in M
         /\ \A x \in M : \E i \in 1..Len(s) : s[i] = x
         /\ \A i, j \in 1..Len(s) : s[i] = s[j] => i = j
  <1>1. DOMAIN s = 1..Len(s)
    BY DEF Has
  <1> QED BY <1>1 DEF Has, NoRepeats, Used

LEMMA HasIf ==
  ASSUME NEW s \in Seq(AllMutexes), NEW M, \A i \in 1..Len(s) : s[i] \in M,
         \A x \in M : \E i \in 1..Len(s) : s[i] = x,
         \A i, j \in 1..Len(s) : s[i] = s[j] => i = j
  PROVE  Has(s, M)
  <1>1. DOMAIN s = 1..Len(s)
    OBVIOUS
  <1> QED BY <1>1 DEF Has, NoRepeats, Used

LEMMA HasTail ==
  ASSUME NEW s, NEW M, Has(s, M), s # <<>>
  PROVE  Head(s) \in M /\ Head(s) \in AllMutexes /\ Has(Tail(s), M \ {Head(s)})
  <1> DEFINE r == Tail(s)
  <1>1. /\ s \in Seq(AllMutexes) /\ Len(s) \in Nat /\ \A i \in 1..Len(s) : s[i] \in M
        /\ \A x \in M : \E i \in 1..Len(s) : s[i] = x
        /\ \A i, j \in 1..Len(s) : s[i] = s[j] => i = j
    BY HasSub
  <1>2. /\ r \in Seq(AllMutexes) /\ Len(r) = Len(s) - 1 /\ Len(s) >= 1 /\ Head(s) = s[1]
        /\ \A i \in 1..Len(r) : r[i] = s[i + 1]
    BY <1>1
  <1> HIDE DEF r
  <1>3. \A i \in 1..Len(r) : r[i] \in M \ {Head(s)}
    BY <1>1, <1>2
  <1>4. ASSUME NEW x \in M \ {Head(s)} PROVE \E i \in 1..Len(r) : r[i] = x
    <2>1. PICK i \in 1..Len(s) : s[i] = x
      BY <1>1
    <2>2. i - 1 \in 1..Len(r) /\ r[i - 1] = x
      BY <2>1, <1>1, <1>2
    <2> QED BY <2>2
  <1>5. ASSUME NEW i \in 1..Len(r), NEW j \in 1..Len(r), r[i] = r[j] PROVE i = j
    <2>1. i + 1 \in 1..Len(s) /\ j + 1 \in 1..Len(s) /\ s[i + 1] = s[j + 1]
      BY <1>1, <1>2, <1>5
    <2>2. i + 1 = j + 1
      BY <2>1, <1>1
    <2> QED BY <2>2
  <1>6. Has(r, M \ {Head(s)})
    BY <1>2, <1>3, <1>4, <1>5, HasIf
  <1> QED BY <1>1, <1>2, <1>6 DEF r

LEMMA HasFront ==
  ASSUME NEW s, NEW M, Has(s, M), NEW t \in AllMutexes \ M
  PROVE  Has(<<t>> \o s, M \cup {t})
  <1> DEFINE r == <<t>> \o s
  <1>1. /\ s \in Seq(AllMutexes) /\ Len(s) \in Nat /\ \A i \in 1..Len(s) : s[i] \in M
        /\ \A x \in M : \E i \in 1..Len(s) : s[i] = x
        /\ \A i, j \in 1..Len(s) : s[i] = s[j] => i = j
    BY HasSub
  <1>2. /\ r \in Seq(AllMutexes) /\ Len(r) = Len(s) + 1 /\ r[1] = t
        /\ \A i \in 1..Len(r) : r[i] = IF i = 1 THEN t ELSE s[i - 1]
    BY <1>1
  <1> HIDE DEF r
  <1>3. \A i \in 1..Len(r) : r[i] \in M \cup {t}
    BY <1>1, <1>2
  <1>4. ASSUME NEW x \in M \cup {t} PROVE \E i \in 1..Len(r) : r[i] = x
    <2>1. CASE x = t
      BY <2>1, <1>1, <1>2
    <2>2. CASE x \in M
      <3>1. PICK i \in 1..Len(s) : s[i] = x
        BY <2>2, <1>1
      <3>2. i + 1 \in 1..Len(r) /\ r[i + 1] = x
        BY <3>1, <1>1, <1>2
      <3> QED BY <3>2
    <2> QED BY <2>1, <2>2
  <1>5. ASSUME NEW i \in 1..Len(r), NEW j \in 1..Len(r), r[i] = r[j] PROVE i = j
    <2>1. ASSUME NEW m \in 1..Len(r), m # 1
          PROVE  m - 1 \in 1..Len(s) /\ r[m] = s[m - 1] /\ r[m] # t
      BY <2>1, <1>1, <1>2
    <2>2. CASE i = 1 \/ j = 1
      BY <2>1, <2>2, <1>2, <1>5
    <2>3. CASE i # 1 /\ j # 1
      <3>1. i - 1 \in 1..Len(s) /\ j - 1 \in 1..Len(s) /\ s[i - 1] = s[j - 1]
        BY <2>1, <2>3, <1>5
      <3>2. i - 1 = j - 1
        BY <3>1, <1>1
      <3> QED BY <3>2
    <2> QED BY <2>2, <2>3
  <1>6. Has(r, M \cup {t})
    BY <1>2, <1>3, <1>4, <1>5, HasIf
  <1> QED BY <1>6 DEF r

\* The threads that wait for the other mutexes are the same.
Elsewhere(W, W2, m) == \A e \in AllMutexes : e # m => W2[e] = W[e]

\* m is the newest mutex of c; it leaves the list of c; m is put in the list of t.
Newest(mtxlist, c, m) == mtxlist[c] # <<>> /\ m = Head(mtxlist[c])
Shorter(f, g, c) == Upd(f, g, c, Tail(f[c]))
Longer(f, g, t, m) == Upd(f, g, t, <<m>> \o f[t])

\* A mutex that nobody owns goes to t, and W2[m] wait for it.
LEMMA HeldTake ==
  ASSUME NEW b, NEW prio, NEW rprio, NEW W, NEW owner, NEW mtxlist,
         Held(b, prio, rprio, W, owner, mtxlist), NEW t \in All, NEW m \in AllMutexes,
         owner[m] = NoThread, NEW W2, Elsewhere(W, W2, m), DOMAIN owner = AllMutexes,
         DOMAIN mtxlist = All, b => \A w \in W2[m] : prio[w] <= prio[t],
         NEW owner2, Upd(owner, owner2, m, t),
         NEW mtxlist2, Longer(mtxlist, mtxlist2, t, m)
  PROVE  Held(b, prio, rprio, W2, owner2, mtxlist2)
  <1>1. owner2[m] = t /\ \A e \in AllMutexes : e # m => owner2[e] = owner[e]
    BY DEF Upd
  <1>2. \A e \in All : mtxlist2[e] = IF e = t THEN <<m>> \o mtxlist[t] ELSE mtxlist[e]
    BY DEF Upd, Longer
  <1>3. t # NoThread /\ NoThread \notin All
    BY NamesAssumption
  <1>4. Owned(owner2, mtxlist2)
    <2> SUFFICES ASSUME NEW e \in All PROVE Has(mtxlist2[e], Owns(owner2, e))
      BY DEF Owned
    <2>1. Has(mtxlist[e], Owns(owner, e))
      BY DEF Held, Owned
    <2>2. CASE e = t
      <3>1. Owns(owner2, e) = Owns(owner, e) \cup {m} /\ m \in AllMutexes \ Owns(owner, e)
        BY <2>2, <1>1, <1>3 DEF Owns
      <3> QED BY <2>1, <2>2, <3>1, <1>2, HasFront
    <2>3. CASE e # t
      <3>1. Owns(owner2, e) = Owns(owner, e)
        BY <2>3, <1>1, <1>3 DEF Owns
      <3> QED BY <2>1, <2>3, <3>1, <1>2
    <2> QED BY <2>2, <2>3
  <1>5. ASSUME NEW e \in All, NEW d, Needs(prio, W, owner, e, d) PROVE Needs(prio, W2, owner2, e, d)
    <2>1. PICK o \in AllMutexes : owner[o] = e /\ \E w \in W[o] : d <= prio[w]
      BY <1>5 DEF Needs
    <2>2. o # m
      BY <2>1, <1>3
    <2> QED BY <2>1, <2>2, <1>1 DEF Needs, Elsewhere
  <1>6. Bounded(prio, rprio, W2, owner2)
    BY <1>5, HeldFacts DEF Bounded
  <1>7. ASSUME b PROVE Lifted(prio, W2, owner2, NoThread, 0)
    <2>1. Lifted(prio, W, owner, NoThread, 0)
      BY <1>7, HeldFacts
    <2> SUFFICES ASSUME NEW o \in AllMutexes, NEW w \in W2[o]
                 PROVE  owner2[o] # NoThread /\ prio[w] <= prio[owner2[o]]
      BY DEF Lifted
    <2>2. CASE o = m
      BY <2>2, <1>1, <1>3, <1>7
    <2>3. CASE o # m
      BY <2>1, <2>3, <1>1 DEF Lifted, Elsewhere
    <2> QED BY <2>2, <2>3
  <1> QED BY <1>4, <1>6, <1>7 DEF Held

\* Nobody waits for m.
Bare(W, m) == W[m] = {}

\* The newest mutex of c, which runs at its own priority, goes to nobody.
LEMMA HeldDrop ==
  ASSUME NEW b, NEW prio, NEW rprio, NEW W, NEW owner, NEW mtxlist,
         Held(b, prio, rprio, W, owner, mtxlist), NEW c \in All,
         NEW m, Newest(mtxlist, c, m), prio[c] <= rprio[c],
         NEW W2, Elsewhere(W, W2, m), Bare(W2, m), DOMAIN owner = AllMutexes,
         DOMAIN mtxlist = All, NEW owner2, Upd(owner, owner2, m, NoThread),
         NEW mtxlist2, Shorter(mtxlist, mtxlist2, c)
  PROVE  Held(b, prio, rprio, W2, owner2, mtxlist2) /\ m \in AllMutexes /\ owner[m] = c
  <1>1. NoThread \notin All
    BY NamesAssumption
  <1>2. Has(mtxlist[c], Owns(owner, c))
    BY DEF Held, Owned
  <1>3. m \in AllMutexes /\ owner[m] = c /\ Has(Tail(mtxlist[c]), Owns(owner, c) \ {m})
    <2>1. m \in Owns(owner, c) /\ Has(Tail(mtxlist[c]), Owns(owner, c) \ {m})
      BY <1>2, HasTail DEF Newest
    <2> QED BY <2>1 DEF Owns
  <1>4. owner2[m] = NoThread /\ \A e \in AllMutexes : e # m => owner2[e] = owner[e]
    BY <1>3 DEF Upd
  <1>5. \A e \in All : mtxlist2[e] = IF e = c THEN Tail(mtxlist[c]) ELSE mtxlist[e]
    BY DEF Upd, Shorter
  <1>6. Owned(owner2, mtxlist2)
    <2> SUFFICES ASSUME NEW e \in All PROVE Has(mtxlist2[e], Owns(owner2, e))
      BY DEF Owned
    <2>1. CASE e = c
      <3>1. Owns(owner2, e) = Owns(owner, c) \ {m}
        BY <2>1, <1>1, <1>3, <1>4 DEF Owns
      <3> QED BY <2>1, <3>1, <1>3, <1>5
    <2>2. CASE e # c
      <3>1. Owns(owner2, e) = Owns(owner, e) /\ Has(mtxlist[e], Owns(owner, e))
        BY <2>2, <1>1, <1>3, <1>4 DEF Owns, Held, Owned
      <3> QED BY <2>2, <3>1, <1>5
    <2> QED BY <2>1, <2>2
  <1>7. Bounded(prio, rprio, W2, owner2)
    <2> SUFFICES ASSUME NEW e \in All
                 PROVE  /\ rprio[e] <= prio[e]
                        /\ prio[e] <= rprio[e] \/ Needs(prio, W2, owner2, e, prio[e])
      BY DEF Bounded
    <2>1. rprio[e] <= prio[e] /\ (prio[e] <= rprio[e] \/ Needs(prio, W, owner, e, prio[e]))
      BY HeldFacts
    <2>2. CASE e # c /\ Needs(prio, W, owner, e, prio[e])
      <3>1. PICK o \in AllMutexes : owner[o] = e /\ \E w \in W[o] : prio[e] <= prio[w]
        BY <2>2 DEF Needs
      <3>2. o # m
        BY <2>2, <3>1, <1>3
      <3> QED BY <2>1, <3>1, <3>2, <1>4 DEF Needs, Elsewhere
    <2> QED BY <2>1, <2>2
  <1>8. ASSUME b PROVE Lifted(prio, W2, owner2, NoThread, 0)
    <2>1. Lifted(prio, W, owner, NoThread, 0)
      BY <1>8, HeldFacts
    <2> SUFFICES ASSUME NEW o \in AllMutexes, NEW w \in W2[o]
                 PROVE  owner2[o] # NoThread /\ prio[w] <= prio[owner2[o]]
      BY DEF Lifted
    <2>2. o # m
      BY DEF Bare
    <2> QED BY <2>1, <2>2, <1>4 DEF Lifted, Elsewhere
  <1> QED BY <1>3, <1>6, <1>7, <1>8 DEF Held

\* A mutex that nobody owns is taken by t.
LEMMA OwnRanked ==
  ASSUME NEW b, NEW x, Ranked(b, x), NEW m \in AllMutexes, x.owner[m] = NoThread, NEW t \in Threads,
         x.st[t] # "FINAL"
  PROVE  /\ Ranked(b, Own(x, m, t)) /\ Keeps(x, Own(x, m, t), {"owner", "mtxlist"})
         /\ Highest(x) => Highest(Own(x, m, t))
  <1> DEFINE y == Own(x, m, t)
             W == Waits(x.q)
  <1>1. /\ DOMAIN x = Fields /\ DOMAIN x.mtxlist = All /\ DOMAIN x.owner = AllMutexes /\ t \in All
        /\ x.owner \in [AllMutexes -> Threads \cup {NoThread}]
    BY RankFacts DEF All
  <1>2. /\ Keeps(x, y, {"owner", "mtxlist"}) /\ Upd(x.owner, y.owner, m, t)
        /\ Longer(x.mtxlist, y.mtxlist, t, m)
    BY <1>1 DEF Own, Keeps, Fields, Upd, Longer
  <1> HIDE DEF y
  <1>3. Held(b, x.prio, x.rprio, W, y.owner, y.mtxlist)
    <2>1. Held(b, x.prio, x.rprio, W, x.owner, x.mtxlist)
      BY DEF Ranked
    <2> HIDE DEF W
    <2>2. b => \A w \in W[m] : x.prio[w] <= x.prio[t]
      <3>1. b => Lifted(x.prio, W, x.owner, NoThread, 0)
        BY <2>1, HeldFacts
      <3> QED BY <3>1 DEF Lifted
    <2>3. Elsewhere(W, W, m)
      BY DEF Elsewhere
    <2> QED BY <1>1, <1>2, <2>1, <2>2, <2>3, HeldTake
  <1>4. /\ DOMAIN y = Fields /\ y.cur = x.cur /\ y.ready = x.ready /\ y.prio = x.prio /\ y.rprio = x.rprio
        /\ y.q = x.q /\ y.st = x.st /\ y.more = x.more
    BY <1>2 DEF Keeps, Fields
  <1>5. /\ DOMAIN y.mtxlist = All /\ y.owner \in [AllMutexes -> Threads \cup {NoThread}]
        /\ \A e \in All : e # t => y.mtxlist[e] = x.mtxlist[e]
    BY <1>1, <1>2 DEF Upd, Longer
  <1>6. RankShape(y)
    BY <1>4, <1>5 DEF Ranked, Listed, RankShape
  <1>7. Listed(y)
    BY <1>4, <1>5, <1>6 DEF Ranked, Listed
  <1>8. Ranked(b, y)
    BY <1>3, <1>4, <1>7 DEF Ranked
  <1>9. Highest(x) => Highest(y)
    BY <1>4 DEF Highest
  <1> QED BY <1>2, <1>8, <1>9 DEF y

\* Before c passes its newest mutex m on.
Passing(b, x, c, m) ==
    /\ Ranked(b, x) /\ c \in Threads /\ x.st[c] # "FINAL" /\ Newest(x.mtxlist, c, m)
    /\ x.prio[c] = x.rprio[c] /\ Off(c, x.ready, Waits(x.q))

\* The newest mutex of c goes to nobody.
LEMMA DropRanked ==
  ASSUME NEW b, NEW x, NEW c, NEW m, Passing(b, x, c, m), x.q[m] = <<>>,
         NEW y, Keeps(x, y, {"owner", "mtxlist"}), Upd(x.owner, y.owner, m, NoThread),
         Shorter(x.mtxlist, y.mtxlist, c)
  PROVE  Ranked(b, y) /\ m \in AllMutexes /\ x.owner[m] = c
  <1> DEFINE W == Waits(x.q)
  <1>1. /\ DOMAIN x = Fields /\ DOMAIN x.mtxlist = All /\ DOMAIN x.owner = AllMutexes /\ c \in All
        /\ x.owner \in [AllMutexes -> Threads \cup {NoThread}] /\ Ranked(b, x) /\ Ranks(x.prio)
    BY RankFacts DEF All, Passing
  <1>2. Held(b, x.prio, x.rprio, W, x.owner, x.mtxlist)
    BY <1>1 DEF Ranked
  <1>3. Elsewhere(W, W, m) /\ x.prio[c] <= x.rprio[c]
    BY <1>1 DEF Elsewhere, Passing, Ranks
  <1>4. Has(x.mtxlist[c], Owns(x.owner, c)) /\ Newest(x.mtxlist, c, m)
    BY <1>1, <1>2 DEF Held, Owned, Passing
  <1>5. m \in AllMutexes
    BY <1>4, HasTail DEF Newest
  <1>6. Bare(W, m)
    BY <1>5 DEF Waits, Used, Bare
  <1> HIDE DEF W
  <1>7. Held(b, x.prio, x.rprio, W, y.owner, y.mtxlist) /\ x.owner[m] = c
    BY <1>1, <1>2, <1>3, <1>4, <1>6, HeldDrop
  <1>8. /\ DOMAIN y = Fields /\ y.cur = x.cur /\ y.ready = x.ready /\ y.prio = x.prio /\ y.rprio = x.rprio
        /\ y.q = x.q /\ y.st = x.st /\ y.more = x.more
    BY DEF Keeps, Fields
  <1>9. /\ DOMAIN y.mtxlist = All /\ y.owner \in [AllMutexes -> Threads \cup {NoThread}]
        /\ \A e \in All : e # c => y.mtxlist[e] = x.mtxlist[e]
    BY <1>1 DEF Upd, Shorter
  <1>10. RankShape(y)
    BY <1>1, <1>8, <1>9 DEF Ranked, Listed, RankShape
  <1>11. Listed(y)
    BY <1>1, <1>8, <1>9, <1>10 DEF Ranked, Listed, Passing
  <1> QED BY <1>5, <1>7, <1>8, <1>11 DEF Ranked, W

\* The newest mutex of c goes to the first thread that waits for it.
LEMMA PassRanked ==
  ASSUME NEW b, NEW x, NEW c, NEW m, Passing(b, x, c, m), NEW t, Newest(x.q, m, t),
         t \in Threads, x.st[t] # "FINAL",
         NEW y, Keeps(x, y, {"owner", "mtxlist", "q"}), Upd(x.owner, y.owner, m, t),
         NEW f, Shorter(x.mtxlist, f, c), Longer(f, y.mtxlist, t, m), Shorter(x.q, y.q, m)
  PROVE  Ranked(b, y) /\ m \in AllMutexes /\ x.owner[m] = c
  <1> DEFINE W == Waits(x.q)
             W1 == [W EXCEPT ![m] = {}]
             W2 == Waits(y.q)
             owner1 == [x.owner EXCEPT ![m] = NoThread]
  <1>1. /\ DOMAIN x = Fields /\ DOMAIN x.mtxlist = All /\ DOMAIN x.owner = AllMutexes /\ c \in All
        /\ x.owner \in [AllMutexes -> Threads \cup {NoThread}] /\ Ranked(b, x) /\ Ranks(x.prio)
        /\ t \in All /\ DOMAIN x.q = WaitQueues
    BY RankFacts DEF All, Passing
  <1>2. Held(b, x.prio, x.rprio, W, x.owner, x.mtxlist)
    BY <1>1 DEF Ranked
  <1>3. Has(x.mtxlist[c], Owns(x.owner, c)) /\ Newest(x.mtxlist, c, m)
    BY <1>1, <1>2 DEF Held, Owned, Passing
  <1>4. m \in AllMutexes /\ m \in WaitQueues
    BY <1>3, HasTail DEF WaitQueues, Newest
  <1>5. DOMAIN W = AllMutexes
    BY DEF Waits
  <1>6. Elsewhere(W, W1, m) /\ Bare(W1, m) /\ x.prio[c] <= x.rprio[c]
    <2> HIDE DEF W
    <2>1. Elsewhere(W, W1, m)
      BY <1>4, <1>5 DEF Elsewhere
    <2>2. Bare(W1, m)
      BY <1>4, <1>5 DEF Bare
    <2>3. x.prio[c] \in Int /\ x.prio[c] = x.rprio[c]
      BY <1>1, Zenon DEF Passing, Ranks
    <2>4. x.prio[c] <= x.rprio[c]
      BY ONLY <2>3
    <2> QED BY <2>1, <2>2, <2>4
  <1>7. /\ x.q[m] \in Seq(All) /\ Ordered(x.prio, x.q[m]) /\ Tail(x.q[m]) \in Seq(All)
        /\ Ordered(x.prio, Tail(x.q[m])) /\ \A w \in Used(Tail(x.q[m])) : x.prio[w] <= x.prio[t]
    BY <1>1, <1>4, RankFacts, HeadOrdered DEF Newest
  <1>8. DOMAIN y.q = WaitQueues /\ y.q[m] = Tail(x.q[m]) /\ \A e \in AllMutexes : e # m => y.q[e] = x.q[e]
    BY <1>1, <1>4 DEF Upd, WaitQueues, Shorter
  <1>9. Elsewhere(W1, W2, m) /\ W2[m] = Used(Tail(x.q[m]))
    BY <1>4, <1>6, <1>8 DEF Elsewhere, Waits
  <1> HIDE DEF W, W1, W2
  <1>10. Upd(x.owner, owner1, m, NoThread) /\ Upd(owner1, y.owner, m, t) /\ owner1[m] = NoThread
         /\ DOMAIN owner1 = AllMutexes
    BY <1>1, <1>4 DEF Upd
  <1> HIDE DEF owner1
  <1>11. Held(b, x.prio, x.rprio, W1, owner1, f) /\ x.owner[m] = c
    BY <1>1, <1>2, <1>3, <1>6, <1>10, HeldDrop
  <1>12. DOMAIN f = All /\ \A e \in All : e # c => f[e] = x.mtxlist[e]
    BY <1>1 DEF Upd, Shorter
  <1>13. Held(b, x.prio, x.rprio, W2, y.owner, y.mtxlist)
    <2>1. b => \A w \in W2[m] : x.prio[w] <= x.prio[t]
      BY <1>7, <1>9
    <2> QED BY <1>1, <1>4, <1>9, <1>10, <1>11, <1>12, <2>1, HeldTake
  <1>14. /\ DOMAIN y = Fields /\ y.cur = x.cur /\ y.ready = x.ready /\ y.prio = x.prio /\ y.rprio = x.rprio
         /\ y.st = x.st /\ y.more = x.more
    BY DEF Keeps, Fields
  <1>15. /\ DOMAIN y.mtxlist = All /\ y.owner \in [AllMutexes -> Threads \cup {NoThread}]
         /\ \A e \in All : e # c /\ e # t => y.mtxlist[e] = x.mtxlist[e]
    <2>1. DOMAIN y.mtxlist = All /\ \A e \in All : e # t => y.mtxlist[e] = f[e]
      BY <1>12 DEF Upd, Longer
    <2>2. y.owner \in [AllMutexes -> Threads \cup {NoThread}]
      BY <1>1 DEF Upd
    <2> QED BY <2>1, <2>2, <1>12
  <1>16. \A e \in AllMutexes : y.q[e] \in Seq(All) /\ Ordered(x.prio, y.q[e])
    BY <1>1, <1>7, <1>8, RankFacts
  <1>17. RankShape(y)
    BY <1>1, <1>8, <1>14, <1>15, <1>16 DEF Ranked, Listed, RankShape
  <1>18. Listed(y)
    BY <1>1, <1>14, <1>15, <1>16, <1>17 DEF Ranked, Listed, Passing
  <1> QED BY <1>4, <1>11, <1>13, <1>14, <1>18 DEF Ranked, W2

\* One of some threads has the highest priority.
LEMMA TopThread ==
  ASSUME NEW S, S \subseteq All, S # {}, NEW prio, Ranks(prio)
  PROVE  \E t \in S : \A e \in S : prio[e] <= prio[t]
  <1> DEFINE Above(t) == {e \in S : prio[e] > prio[t]}
             T == {Cardinality(Above(t)) : t \in S}
  <1>1. IsFiniteSet(S)
    <2>1. IsFiniteSet(All)
      BY NamesAssumption, FS_AddElement DEF All
    <2> QED BY <2>1, FS_Subset
  <1>2. \A t \in S : IsFiniteSet(Above(t)) /\ Cardinality(Above(t)) \in Nat
    <2> TAKE t \in S
    <2>1. Above(t) \in SUBSET S
      OBVIOUS
    <2> QED BY <1>1, <2>1, FS_Subset, FS_CardinalityType
  <1> HIDE DEF Above
  <1>3. T \subseteq Nat /\ T # {}
    BY <1>2
  <1>4. PICK n \in T : \A i \in T : n <= i
    BY <1>3, Least
  <1>5. PICK t \in S : n = Cardinality(Above(t))
    OBVIOUS
  <1>6. ASSUME NEW e \in S, ~ (prio[e] <= prio[t]) PROVE FALSE
    <2>1. \A d \in S : prio[d] \in Int
      BY DEF Ranks
    <2>2. e \in Above(t) /\ e \notin Above(e) /\ Above(e) \in SUBSET Above(t)
      BY <1>6, <2>1 DEF Above
    <2>3. Cardinality(Above(e)) <= Cardinality(Above(t)) /\ Cardinality(Above(e)) # Cardinality(Above(t))
      BY <1>2, <2>2, FS_Subset
    <2>4. n <= Cardinality(Above(e))
      BY <1>4
    <2> QED BY <1>2, <1>5, <2>3, <2>4
  <1> QED BY <1>6

\* A thread that is neither ready nor waits for a mutex is in no list in order.
LEMMA OffGood ==
  ASSUME NEW x, Good(x)
  PROVE  /\ \A t \in All : x.st[t] \notin {"READY", "WTMTX"} => Off(t, x.ready, Waits(x.q))
         /\ \A m \in AllMutexes : \A t \in Used(x.q[m]) :
                x.st[t] = "WTMTX" /\ t \in Threads /\ x.u[t][2] = m
         /\ x.st[x.cur] = "CURRENT" /\ x.cur \in All
         /\ \A t \in Used(x.ready) : x.st[t] = "READY"
         /\ \A m \in AllMutexes : Exactly(x.q[m], Waiters(x, x.st, m)) /\ m \in Objects /\ m \in WaitQueues
  <1>1. Core(x, x.st) /\ x.st[x.cur] = "CURRENT" /\ x.cur \in All
    BY GoodShape DEF Good
  <1>2. Used(x.ready) = AreReady(x.st) /\ \A o \in WaitQueues : Exactly(x.q[o], Waiters(x, x.st, o))
    BY <1>1 DEF Core, Queues, Exactly
  <1>3. x.st[Idle] \in Running
    BY <1>1, CoreShape
  <1>4. ASSUME NEW m \in AllMutexes
        PROVE  /\ \A t \in Used(x.q[m]) : x.st[t] = "WTMTX" /\ t \in Threads /\ x.u[t][2] = m
               /\ Exactly(x.q[m], Waiters(x, x.st, m)) /\ m \in Objects /\ m \in WaitQueues
    <2>1. m \in Objects /\ m \in WaitQueues
      BY DEF Objects, WaitQueues
    <2>2. \A t \in Waiters(x, x.st, m) : t \in All /\ x.st[t] = "WTMTX" /\ x.u[t][2] = m
      BY <1>1, <2>1, WaiterKind
    <2>3. Exactly(x.q[m], Waiters(x, x.st, m)) /\ Used(x.q[m]) = Waiters(x, x.st, m)
      BY <1>2, <2>1 DEF Exactly
    <2> QED BY <2>1, <2>2, <2>3, <1>3 DEF Running, All
  <1>5. \A t \in Used(x.ready) : x.st[t] = "READY"
    BY <1>2 DEF AreReady
  <1>6. ASSUME NEW t \in All, x.st[t] \notin {"READY", "WTMTX"} PROVE Off(t, x.ready, Waits(x.q))
    BY <1>4, <1>5, <1>6 DEF Off, Waits
  <1> QED BY <1>1, <1>4, <1>5, <1>6

\* The priority that is left to a thread c with the mutexes of M.
LEMMA OwningPrio ==
  ASSUME NEW b, NEW x, Ranked(b, x), NEW M, M \subseteq AllMutexes, NEW c, c = x.cur,
         NEW p, p = PrioOwning(x, M)
  PROVE  /\ p \in Int /\ x.rprio[c] <= p
         /\ p = x.rprio[c] \/ \E m \in M : \E w \in Used(x.q[m]) : p = x.prio[w]
         /\ \A m \in M : \A w \in Used(x.q[m]) : x.prio[w] <= p
  <1> DEFINE Q == {m \in M : x.q[m] # <<>>}
             H == {Head(x.q[m]) : m \in Q}
             W == {x.prio[Head(x.q[m])] : m \in Q} \cup {x.rprio[c]}
  <1>1. /\ c \in All /\ x.rprio[c] \in Int /\ Ranks(x.prio) /\ \A t \in All : x.prio[t] \in Int
        /\ \A m \in M : x.q[m] \in Seq(All) /\ Ordered(x.prio, x.q[m])
    BY RankFacts DEF Ranks
  <1>2. \A m \in Q : /\ Head(x.q[m]) \in All /\ Head(x.q[m]) \in Used(x.q[m])
                     /\ \A w \in Used(x.q[m]) : x.prio[w] <= x.prio[Head(x.q[m])]
    BY <1>1, HeadOrdered
  <1>3. \A m \in M : m \notin Q => Used(x.q[m]) = {}
    BY <1>1, UsedOf
  <1>4. p = CHOOSE n \in W : \A i \in W : i <= n
    BY DEF PrioOwning
  <1>5. \E n \in W : \A i \in W : i <= n
    <2>1. CASE H = {}
      <3>1. Q = {}
        <4>1. \A m \in Q : Head(x.q[m]) \in H
          OBVIOUS
        <4> HIDE DEF Q, H
        <4> QED BY <4>1, <2>1
      <3>2. x.rprio[c] \in W /\ \A i \in W : i = x.rprio[c]
        BY <3>1
      <3> HIDE DEF W, Q, H
      <3> QED BY <3>2, <1>1
    <2>2. CASE H # {}
      <3>1. H \subseteq All
        BY <1>2
      <3>2. PICK t \in H : \A e \in H : x.prio[e] <= x.prio[t]
        BY <2>2, <3>1, <1>1, TopThread
      <3>3. \A i \in W : i \in Int /\ (i = x.rprio[c] \/ i <= x.prio[t])
        BY <3>1, <3>2, <1>1, <1>2
      <3>4. x.prio[t] \in W /\ x.prio[t] \in Int /\ x.rprio[c] \in W
        BY <3>1, <1>1
      <3> HIDE DEF W
      <3>5. CASE x.rprio[c] <= x.prio[t]
        BY <3>3, <3>4, <3>5, <1>1
      <3>6. CASE ~ (x.rprio[c] <= x.prio[t])
        BY <3>3, <3>4, <3>6, <1>1
      <3> QED BY <3>5, <3>6
    <2> QED BY <2>1, <2>2
  <1>6. p \in W /\ \A i \in W : i <= p
    <2> HIDE DEF W
    <2> QED BY <1>4, <1>5
  <1>7. p \in Int /\ x.rprio[c] <= p
    BY <1>1, <1>2, <1>6
  <1>8. p = x.rprio[c] \/ \E m \in M : \E w \in Used(x.q[m]) : p = x.prio[w]
    BY <1>2, <1>6
  <1>9. ASSUME NEW m \in M, NEW w \in Used(x.q[m]) PROVE x.prio[w] <= p
    <2>1. m \in Q
      BY <1>3
    <2>2. w \in All /\ x.prio[w] <= x.prio[Head(x.q[m])] /\ Head(x.q[m]) \in All
      BY <2>1, <1>1, <1>2, UsedOf
    <2>3. x.prio[Head(x.q[m])] <= p
      BY <2>1, <1>6
    <2> QED BY <2>2, <2>3, <1>1, <1>7
  <1> QED BY <1>7, <1>8, <1>9

\* The running thread c with mutexes, in x, and x with its priority as its own.
LEMMA OwnPrice ==
  ASSUME NEW b, NEW x, Ranked(b, x), NEW c \in Threads, Off(c, x.ready, Waits(x.q)),
         NEW y, Reprices(x, y, c, x.prio[c], x.prio[c])
  PROVE  Ranked(b, y)
  <1> DEFINE W == Waits(x.q)
  <1>1. c \in All /\ c # Idle /\ c # NoThread /\ x.prio[c] \in Int
    BY RankFacts, SchedAssumption, NamesAssumption DEF All, Ranks
  <1>2. b => Lifted(x.prio, W, x.owner, NoThread, 0)
    BY DEF Ranked, Held
  <1> HIDE DEF W
  <1>3. Fits(b, x.prio, W, x.owner, c, x.prio[c], x.prio[c])
    BY <1>1, <1>2 DEF Fits, Lifted
  <1> QED BY <1>1, <1>3, RepricedRanked DEF W

\* The mutexes of the thread c: m, and the others M.
Others(x, c, m, M) ==
    /\ m \in AllMutexes /\ x.owner[m] = c /\ M \subseteq AllMutexes
    /\ \A e \in AllMutexes : e \in M <=> x.owner[e] = c /\ e # m

LEMMA Mutexes1 ==
  ASSUME NEW b, NEW x, Ranked(b, x), NEW c \in All, NEW m, Newest(x.mtxlist, c, m)
  PROVE  Others(x, c, m, Used(Tail(x.mtxlist[c])))
  <1>1. Has(x.mtxlist[c], Owns(x.owner, c))
    BY DEF Ranked, Held, Owned
  <1>2. m \in Owns(x.owner, c) /\ Has(Tail(x.mtxlist[c]), Owns(x.owner, c) \ {m})
    BY <1>1, HasTail DEF Newest
  <1>3. Used(Tail(x.mtxlist[c])) = Owns(x.owner, c) \ {m}
    BY <1>2 DEF Has
  <1> QED BY <1>2, <1>3 DEF Owns, Others

\* The newest mutex, for which nobody waits, is given up.
LEMMA GiveUpRanked ==
  ASSUME NEW b, NEW x, Ranked(b, x), NEW c \in Threads, Off(c, x.ready, Waits(x.q)), x.st[c] # "FINAL",
         NEW m, Newest(x.mtxlist, c, m), x.q[m] = <<>>,
         NEW y, Keeps(x, y, {"owner", "mtxlist"}), Upd(x.owner, y.owner, m, NoThread),
         Shorter(x.mtxlist, y.mtxlist, c)
  PROVE  Ranked(b, y)
  <1> DEFINE a == [x EXCEPT !.rprio = [x.rprio EXCEPT ![c] = x.prio[c]]]
             d == [y EXCEPT !.rprio = [x.rprio EXCEPT ![c] = x.prio[c]]]
             W == Waits(x.q)
  <1>1. /\ DOMAIN x = Fields /\ Ranks(x.prio) /\ Ranks(x.rprio) /\ c \in All /\ c # Idle /\ c # NoThread
        /\ x.prio[c] \in Int /\ x.rprio[c] \in Int /\ DOMAIN x.owner = AllMutexes
    BY RankFacts, SchedAssumption, NamesAssumption DEF All, Ranks
  <1>2. m \in AllMutexes
    BY <1>1, Mutexes1 DEF Others
  <1>3. /\ DOMAIN y = Fields /\ y.ready = x.ready /\ y.prio = x.prio /\ y.rprio = x.rprio
        /\ y.q = x.q /\ y.st = x.st
    BY <1>1 DEF Keeps, Fields
  <1>4. /\ Reprices(x, a, c, x.prio[c], x.prio[c]) /\ a.ready = x.ready /\ a.q = x.q /\ a.st = x.st
        /\ a.mtxlist = x.mtxlist /\ a.prio = x.prio /\ a.rprio[c] = x.prio[c] /\ a.owner = x.owner
    BY <1>1 DEF Reprices, Keeps, Fields, Gives, Ranks
  <1>5. Keeps(a, d, {"owner", "mtxlist"}) /\ d.owner = y.owner /\ d.mtxlist = y.mtxlist
    BY <1>1, <1>3 DEF Keeps, Fields
  <1>6. Reprices(d, y, c, x.prio[c], x.rprio[c]) /\ d.ready = x.ready /\ d.q = x.q /\ d.prio = x.prio
    BY <1>1, <1>3 DEF Reprices, Keeps, Fields, Gives, Ranks
  <1> HIDE DEF a, d
  <1>7. Ranked(b, a)
    BY <1>4, OwnPrice
  <1>8. Passing(b, a, c, m)
    BY <1>4, <1>7 DEF Passing, Newest
  <1>9. Ranked(b, d)
    BY <1>4, <1>5, <1>8, DropRanked
  <1>10. /\ x.rprio[c] <= x.prio[c] /\ (x.prio[c] <= x.rprio[c] \/ Needs(x.prio, W, x.owner, c, x.prio[c]))
         /\ b => Lifted(x.prio, W, x.owner, NoThread, 0)
    BY <1>1, HeldFacts DEF Ranked
  <1>11. Bare(W, m)
    BY <1>2 DEF Waits, Used, Bare
  <1>12. \A e \in AllMutexes : e # m => y.owner[e] = x.owner[e]
    BY <1>1 DEF Upd
  <1>13. y.owner[m] = NoThread
    BY <1>1, <1>2 DEF Upd
  <1> HIDE DEF W
  <1>14. Fits(b, x.prio, W, y.owner, c, x.prio[c], x.rprio[c])
    <2>1. Needs(x.prio, W, x.owner, c, x.prio[c]) => Needs(x.prio, W, y.owner, c, x.prio[c])
      BY <1>11, <1>12 DEF Needs, Bare
    <2>2. b => \A e \in AllMutexes : y.owner[e] = c => \A w \in W[e] : x.prio[w] <= x.prio[c]
      BY <1>1, <1>10, <1>12, <1>13 DEF Lifted
    <2> QED BY <1>10, <2>1, <2>2 DEF Fits
  <1>15. Fits(b, d.prio, Waits(d.q), d.owner, c, x.prio[c], x.rprio[c]) /\ Off(c, d.ready, Waits(d.q))
    BY <1>5, <1>6, <1>14 DEF W
  <1> QED BY <1>1, <1>6, <1>9, <1>15, RepricedRanked

\* The newest mutex goes to its first waiter t, and c keeps the priority that the others need.
LEMMA HandRanked ==
  ASSUME NEW b, NEW x, Ranked(b, x), NEW c \in Threads, c = x.cur, Off(c, x.ready, Waits(x.q)),
         x.st[c] # "FINAL", NEW m, Newest(x.mtxlist, c, m), NEW t \in Threads, Newest(x.q, m, t),
         x.st[t] # "FINAL", NEW p, p = PrioOwning(x, Used(Tail(x.mtxlist[c]))),
         NEW y, Keeps(x, y, {"owner", "mtxlist", "q", "prio"}), Upd(x.owner, y.owner, m, t),
         NEW f, Shorter(x.mtxlist, f, c), Longer(f, y.mtxlist, t, m), Shorter(x.q, y.q, m),
         Gives(x.prio, y.prio, c, p)
  PROVE  /\ Ranked(b, y)
         /\ Highest(x) => Highest(y) \/ \A e \in Used(y.ready) : y.prio[e] <= y.prio[t]
  <1> DEFINE a == [x EXCEPT !.rprio = [x.rprio EXCEPT ![c] = x.prio[c]]]
             d == [y EXCEPT !.rprio = [x.rprio EXCEPT ![c] = x.prio[c]], !.prio = x.prio]
             W == Waits(x.q)
             V == Waits(y.q)
             M == Used(Tail(x.mtxlist[c]))
  <1>1. /\ DOMAIN x = Fields /\ Ranks(x.prio) /\ Ranks(x.rprio) /\ c \in All /\ c # Idle /\ c # NoThread
        /\ x.prio[c] \in Int /\ x.rprio[c] \in Int /\ DOMAIN x.owner = AllMutexes
        /\ (\A e \in All : x.prio[e] \in Int) /\ t \in All /\ DOMAIN x.q = WaitQueues
    BY RankFacts, SchedAssumption, NamesAssumption DEF All, Ranks
  <1>2. /\ m \in AllMutexes /\ x.owner[m] = c /\ M \subseteq AllMutexes
        /\ \A e \in AllMutexes : e \in M <=> x.owner[e] = c /\ e # m
    <2>1. c \in All
      BY <1>1
    <2>2. Others(x, c, m, M)
      BY <2>1, Mutexes1
    <2> QED BY <2>2 DEF Others
  <1>3. /\ x.q[m] \in Seq(All) /\ x.q[m] # <<>> /\ t = Head(x.q[m]) /\ Ordered(x.prio, x.q[m])
    BY <1>2, RankFacts DEF Newest
  <1>4. /\ \A e \in Used(x.q[m]) : x.prio[e] <= x.prio[t]
        /\ Used(x.q[m]) = Used(Tail(x.q[m])) \cup {t}
    BY <1>1, <1>3, HeadOrdered
  <1>5. /\ W[m] = Used(x.q[m]) /\ c \notin W[m]
        /\ \A e \in AllMutexes : W[e] = Used(x.q[e]) /\ c \notin W[e] /\ W[e] \subseteq All
    BY <1>2, WaitsIn DEF Off
  <1>6. c # t
    BY <1>4, <1>5
  <1>7. y.q[m] = Tail(x.q[m]) /\ \A e \in AllMutexes : e # m => y.q[e] = x.q[e]
    BY <1>1, <1>2 DEF Shorter, Upd, WaitQueues
  <1>8. /\ V[m] \subseteq W[m] /\ V[m] = Used(y.q[m])
        /\ \A e \in AllMutexes : e # m => V[e] = W[e]
    BY <1>2, <1>4, <1>7 DEF Waits
  <1>9. y.owner[m] = t /\ \A e \in AllMutexes : e # m => y.owner[e] = x.owner[e]
    BY <1>1, <1>2 DEF Upd
  <1>10. /\ p \in Int /\ x.rprio[c] <= p
         /\ p = x.rprio[c] \/ \E e \in M : \E w \in Used(x.q[e]) : p = x.prio[w]
         /\ \A e \in M : \A w \in Used(x.q[e]) : x.prio[w] <= p
    BY <1>2, OwningPrio
  <1>11. /\ DOMAIN y = Fields /\ y.ready = x.ready /\ y.cur = x.cur /\ y.rprio = x.rprio /\ y.st = x.st
    BY DEF Keeps, Fields
  <1>12. /\ Reprices(x, a, c, x.prio[c], x.prio[c]) /\ a.ready = x.ready /\ a.q = x.q /\ a.st = x.st
         /\ a.mtxlist = x.mtxlist /\ a.prio = x.prio /\ a.rprio[c] = x.prio[c] /\ a.owner = x.owner
    BY <1>1 DEF Reprices, Keeps, Fields, Gives, Ranks
  <1>13. Keeps(a, d, {"owner", "mtxlist", "q"}) /\ d.owner = y.owner /\ d.mtxlist = y.mtxlist /\ d.q = y.q
    BY <1>1, <1>11 DEF Keeps, Fields
  <1>14. Reprices(d, y, c, p, x.rprio[c]) /\ d.ready = x.ready /\ d.prio = x.prio
    BY <1>1, <1>11 DEF Reprices, Keeps, Fields, Gives, Ranks
  <1>15. /\ x.rprio[c] <= x.prio[c] /\ (x.prio[c] <= x.rprio[c] \/ Needs(x.prio, W, x.owner, c, x.prio[c]))
    BY <1>1, HeldFacts DEF Ranked
  <1>16. /\ y.prio[c] = p /\ y.prio[t] = x.prio[t] /\ (\A e \in All : e # c => y.prio[e] = x.prio[e])
         /\ \A e \in Used(x.ready) : e # c /\ e \in All
    BY <1>1, <1>6, RankFacts, UsedOf DEF Gives, Off
  <1> HIDE DEF a, d, V, W, M
  <1>17. Ranked(b, a)
    BY <1>12, OwnPrice
  <1>18. Passing(b, a, c, m)
    BY <1>12, <1>17 DEF Passing, Newest
  <1>19. Ranked(b, d)
    <2>1. Newest(a.q, m, t) /\ a.st[t] # "FINAL" /\ Upd(a.owner, d.owner, m, t) /\ Shorter(a.mtxlist, f, c)
          /\ Longer(f, d.mtxlist, t, m) /\ Shorter(a.q, d.q, m)
      BY <1>12, <1>13
    <2> QED BY <1>13, <1>18, <2>1, PassRanked
  <1>20. Fits(b, x.prio, V, y.owner, c, p, x.rprio[c])
    <2>1. p <= x.rprio[c] \/ Needs(x.prio, V, y.owner, c, p)
      <3>1. CASE p = x.rprio[c]
        BY <3>1, <1>10
      <3>2. ASSUME NEW e \in M, NEW w \in Used(x.q[e]), p = x.prio[w]
            PROVE  Needs(x.prio, V, y.owner, c, p)
        <4>1. e \in AllMutexes /\ e # m /\ y.owner[e] = c /\ w \in V[e] /\ p <= x.prio[w]
          BY <3>2, <1>2, <1>5, <1>8, <1>9, <1>10
        <4> QED BY <4>1 DEF Needs
      <3> QED BY <3>1, <3>2, <1>10
    <2>2. b => \A e \in AllMutexes : y.owner[e] = c => \A w \in V[e] : x.prio[w] <= p
      BY <1>2, <1>5, <1>6, <1>8, <1>9, <1>10
    <2> QED BY <1>10, <2>1, <2>2 DEF Fits
  <1>21. Fits(b, d.prio, Waits(d.q), d.owner, c, p, x.rprio[c]) /\ Off(c, d.ready, Waits(d.q))
    <2>1. Waits(d.q) = V
      BY <1>13 DEF V
    <2>2. Off(c, d.ready, V)
      BY <1>5, <1>8, <1>14 DEF Off
    <2> QED BY <1>13, <1>14, <1>20, <2>1, <2>2
  <1>22. Ranked(b, y)
    BY <1>1, <1>10, <1>14, <1>19, <1>21, RepricedRanked
  <1>23. ASSUME Highest(x) PROVE Highest(y) \/ \A e \in Used(y.ready) : y.prio[e] <= y.prio[t]
    <2>1. \A e \in Used(y.ready) : y.prio[e] = x.prio[e] /\ x.prio[e] <= x.prio[c] /\ x.prio[e] \in Int
      BY <1>1, <1>11, <1>16, <1>23 DEF Highest
    <2>2. CASE x.prio[c] <= p
      BY <1>1, <1>10, <1>11, <1>16, <2>1, <2>2 DEF Highest
    <2>3. CASE x.prio[c] <= x.prio[t]
      BY <1>1, <1>16, <2>1, <2>3
    <2>4. x.prio[c] <= p \/ x.prio[c] <= x.prio[t]
      <3>1. CASE x.prio[c] <= x.rprio[c]
        BY ONLY <3>1, <1>1, <1>10
      <3>2. ASSUME NEW e \in AllMutexes, x.owner[e] = c, NEW w \in W[e], x.prio[c] <= x.prio[w]
            PROVE  x.prio[c] <= p \/ x.prio[c] <= x.prio[t]
        <4>1. w \in All /\ w \in Used(x.q[e]) /\ x.prio[w] \in Int /\ x.prio[t] \in Int
          BY <1>1, <1>5
        <4>2. x.prio[w] <= x.prio[t] \/ x.prio[w] <= p
          BY <3>2, <4>1, <1>2, <1>4, <1>10
        <4> QED BY ONLY <3>2, <4>1, <4>2, <1>1, <1>10
      <3> QED BY <3>1, <3>2, <1>15 DEF Needs
    <2> QED BY <2>2, <2>3, <2>4
  <1> QED BY <1>22, <1>23

\* The running thread, in a call.
LEMMA CallerOff ==
  ASSUME NEW x, InCall(x)
  PROVE  /\ x.cur \in Threads /\ x.cur # Idle /\ x.cur \in All /\ x.st[x.cur] # "FINAL"
         /\ Off(x.cur, x.ready, Waits(x.q)) /\ Good(x)
  <1>1. Good(x) /\ x.cur \in All /\ x.cur # Idle
    BY InCallFacts DEF InCall
  <1>2. x.st[x.cur] = "CURRENT"
    BY <1>1, OffGood
  <1> QED BY <1>1, <1>2, OffGood DEF All

LEMMA HandOverPeak ==
  ASSUME NEW b, NEW x, InCall(x), Ranked(b, x), x.mtxlist[x.cur] # <<>>
  PROVE  (Highest(x) => Peak(b, chMtxUnlock(x))) /\ Ranked(b, chMtxUnlockS(x))
  <1> DEFINE c == x.cur
             m == Head(x.mtxlist[c])
             k1 == [x EXCEPT !.mtxlist[c] = Tail(@)]
             t == Head(x.q[m])
             p == PrioOwning(x, {k1.mtxlist[c][i] : i \in DOMAIN k1.mtxlist[c]})
             k2 == [k1 EXCEPT !.prio[c] = p]
             k3 == Own([k2 EXCEPT !.q[m] = Tail(@)], m, t)
             k4 == [k1 EXCEPT !.owner[m] = NoThread]
  <1>1. /\ DOMAIN x = Fields /\ DOMAIN x.mtxlist = All /\ Ranks(x.prio) /\ DOMAIN x.q = WaitQueues
        /\ DOMAIN x.owner = AllMutexes
    BY RankFacts
  <1>2. /\ c \in Threads /\ c # Idle /\ c \in All /\ x.st[c] # "FINAL" /\ Good(x)
        /\ Off(c, x.ready, Waits(x.q))
    BY CallerOff
  <1>3. Newest(x.mtxlist, c, m)
    BY DEF Newest
  <1>4. m \in AllMutexes
    BY <1>2, <1>3, Mutexes1 DEF Others
  <1>5. /\ chMtxUnlock(x) = IF x.q[m] = <<>> THEN k4 ELSE chSchWakeupS(k3, t, "RDY_OK")
        /\ chMtxUnlockS(x) = IF x.q[m] = <<>> THEN k4 ELSE chSchReadyI(k3, t)
    BY DEF chMtxUnlock, chMtxUnlockS, HandOver
  <1>6. p = PrioOwning(x, Used(Tail(x.mtxlist[c])))
    <2>1. k1.mtxlist[c] = Tail(x.mtxlist[c])
      BY <1>1, <1>2 DEF Fields
    <2> HIDE DEF k1
    <2> QED BY <2>1 DEF Used
  <1> HIDE DEF m, p
  <1>7. CASE x.q[m] = <<>>
    <2>1. /\ Keeps(x, k4, {"owner", "mtxlist"}) /\ Upd(x.owner, k4.owner, m, NoThread)
          /\ Shorter(x.mtxlist, k4.mtxlist, c) /\ k4.ready = x.ready /\ k4.prio = x.prio /\ k4.cur = x.cur
      BY <1>1 DEF Keeps, Fields, Upd, Shorter
    <2> HIDE DEF k4
    <2>2. Ranked(b, k4)
      BY <1>2, <1>3, <1>7, <2>1, GiveUpRanked
    <2>3. Highest(x) => Highest(k4)
      BY <2>1 DEF Highest
    <2> QED BY <1>5, <1>7, <2>2, <2>3 DEF Peak
  <1>8. CASE x.q[m] # <<>>
    <2>1. Newest(x.q, m, t) /\ x.q[m] \in Seq(All) /\ t \in Used(x.q[m])
      <3>1. x.q[m] \in Seq(All) /\ Ordered(x.prio, x.q[m])
        BY <1>4, RankFacts
      <3>2. t \in Used(x.q[m])
        BY <3>1, <1>1, <1>8, HeadOrdered
      <3> QED BY <3>1, <3>2, <1>8 DEF Newest
    <2>2. t \in Threads /\ t \in All /\ x.st[t] # "FINAL"
      BY <2>1, <1>2, <1>4, OffGood DEF All
    <2> HIDE DEF t, c
    <2>3. Shorter(x.mtxlist, k1.mtxlist, c)
      BY <1>1 DEF Shorter, Upd
    <2>4. /\ Keeps(x, k3, {"owner", "mtxlist", "q", "prio"}) /\ Upd(x.owner, k3.owner, m, t)
          /\ Longer(k1.mtxlist, k3.mtxlist, t, m) /\ Shorter(x.q, k3.q, m)
          /\ Gives(x.prio, k3.prio, c, p)
      <3>1. Keeps(x, k3, {"owner", "mtxlist", "q", "prio"})
        BY <1>1 DEF Keeps, Fields, Own
      <3>2. Upd(x.owner, k3.owner, m, t) /\ Longer(k1.mtxlist, k3.mtxlist, t, m) /\ Shorter(x.q, k3.q, m)
        BY <1>1 DEF Fields, Own, Upd, Longer, Shorter
      <3>3. Gives(x.prio, k3.prio, c, p)
        BY <1>1, <1>2 DEF Fields, Own, Gives, Ranks, c
      <3> QED BY <3>1, <3>2, <3>3
    <2> HIDE DEF k3, k1
    <2>5. /\ Ranked(b, k3)
          /\ Highest(x) => Highest(k3) \/ \A e \in Used(k3.ready) : k3.prio[e] <= k3.prio[t]
      BY <1>2, <1>3, <1>6, <2>1, <2>2, <2>3, <2>4, HandRanked DEF c
    <2>6. Highest(x) => Peak(b, chSchWakeupS(k3, t, "RDY_OK"))
      BY <2>2, <2>5, WakePeak
    <2>7. Ranked(b, chSchReadyI(k3, t))
      BY <2>2, <2>5, ReadyRanked
    <2> QED BY <1>5, <1>8, <2>6, <2>7
  <1> QED BY <1>7, <1>8

\* While c gives up its mutexes ms, in the state a, they are off its list: the state e is
\* a with the ones it still has, and with the priority of c as its own.
Left(s, ms, i) ==
    s \in Seq(AllMutexes) /\ Len(s) = Len(ms) - i /\ \A j \in 1..Len(s) : s[j] = ms[i + j]

Letting(b, x, c, ms, i, a, e) ==
    /\ Ranked(b, e) /\ Keeps(e, a, {"mtxlist", "rprio"}) /\ Upd(e.mtxlist, a.mtxlist, c, <<>>)
    /\ Left(e.mtxlist[c], ms, i) /\ e.prio[c] = e.rprio[c] /\ Gives(e.rprio, a.rprio, c, x.rprio[c])
    /\ Off(c, e.ready, Waits(e.q)) /\ e.st[c] # "FINAL" /\ e.cur = c

LEMMA LeftTail ==
  ASSUME NEW ms \in Seq(AllMutexes), NEW i \in 1..Len(ms), NEW s, Left(s, ms, i - 1)
  PROVE  s # <<>> /\ Head(s) = ms[i] /\ Left(Tail(s), ms, i)
  <1>1. Len(s) \in Nat /\ Len(s) = Len(ms) - (i - 1) /\ Len(ms) \in Nat /\ s \in Seq(AllMutexes)
    BY DEF Left
  <1>2. Len(s) >= 1
    BY <1>1
  <1>3. s # <<>> /\ Head(s) = s[1] /\ s[1] = ms[(i - 1) + 1]
    BY <1>1, <1>2 DEF Left
  <1>4. /\ Tail(s) \in Seq(AllMutexes) /\ Len(Tail(s)) = Len(s) - 1
        /\ \A j \in 1..Len(Tail(s)) : Tail(s)[j] = s[j + 1]
    BY <1>1, <1>3
  <1>5. \A j \in 1..Len(Tail(s)) : Tail(s)[j] = ms[i + j]
    BY <1>1, <1>4 DEF Left
  <1> QED BY <1>1, <1>3, <1>4, <1>5 DEF Left

LEMMA LettingFacts ==
  ASSUME NEW b, NEW x, NEW c \in Threads, NEW ms \in Seq(AllMutexes), NEW i \in 1..Len(ms), NEW a, NEW e,
         Letting(b, x, c, ms, i - 1, a, e), NEW m, m = ms[i]
  PROVE  /\ Passing(b, e, c, m) /\ Left(Tail(e.mtxlist[c]), ms, i) /\ m \in AllMutexes
         /\ DOMAIN e = Fields /\ DOMAIN a = Fields /\ c \in All /\ e.q = a.q /\ e.st = a.st /\ e.prio = a.prio
         /\ e.owner = a.owner /\ e.ready = a.ready /\ e.cur = a.cur /\ c = e.cur
         /\ DOMAIN e.mtxlist = All /\ DOMAIN e.owner = AllMutexes /\ DOMAIN e.st = All
         /\ DOMAIN a.rprio = All /\ DOMAIN e.rprio = All /\ DOMAIN e.q = WaitQueues
         /\ Ranked(b, e) /\ m \in WaitQueues
  <1>1. /\ Ranked(b, e) /\ Left(e.mtxlist[c], ms, i - 1) /\ Keeps(e, a, {"mtxlist", "rprio"})
        /\ Off(c, e.ready, Waits(e.q)) /\ e.prio[c] = e.rprio[c] /\ e.st[c] # "FINAL" /\ e.cur = c
        /\ DOMAIN a.rprio = All
    BY DEF Letting, Gives
  <1>2. e.mtxlist[c] # <<>> /\ Head(e.mtxlist[c]) = m /\ Left(Tail(e.mtxlist[c]), ms, i)
    BY <1>1, LeftTail
  <1>3. Newest(e.mtxlist, c, m)
    BY <1>2 DEF Newest
  <1>4. m \in AllMutexes /\ c \in All /\ m \in WaitQueues
    BY Member DEF All, WaitQueues
  <1>5. Passing(b, e, c, m)
    BY <1>1, <1>3 DEF Passing
  <1>6. /\ DOMAIN a = Fields /\ e.q = a.q /\ e.st = a.st /\ e.prio = a.prio
        /\ e.owner = a.owner /\ e.ready = a.ready /\ e.cur = a.cur
    BY <1>1 DEF Keeps, Fields
  <1>7. /\ DOMAIN e = Fields /\ DOMAIN e.mtxlist = All /\ DOMAIN e.owner = AllMutexes /\ DOMAIN e.st = All
        /\ DOMAIN e.rprio = All /\ DOMAIN e.q = WaitQueues
    BY <1>1, RankFacts DEF Ranks
  <1> QED BY <1>1, <1>2, <1>4, <1>5, <1>6, <1>7

\* f without the mutexes of c, and g with those of c that are left.
LEMMA Blank ==
  ASSUME NEW f, NEW c \in DOMAIN f, NEW s, NEW h
  PROVE  Upd([f EXCEPT ![c] = s], [f EXCEPT ![c] = h], c, h)
  BY DEF Upd

LEMMA BlankMore ==
  ASSUME NEW f, NEW c \in DOMAIN f, NEW t \in DOMAIN f, t # c, NEW m, NEW s, NEW h,
         NEW f1, Upd(f, f1, c, s), NEW g1, Longer(f1, g1, t, m),
         NEW f2, Upd(f, f2, c, h), NEW g2, Longer(f2, g2, t, m)
  PROVE  Upd(g1, g2, c, h) /\ g1[c] = s
  <1>1. f1[t] = f[t] /\ f2[t] = f[t]
    BY DEF Upd
  <1> DEFINE v == <<m>> \o f[t]
  <1>2. g1 = [f1 EXCEPT ![t] = v] /\ g2 = [f2 EXCEPT ![t] = v]
    BY <1>1 DEF Longer, Upd
  <1> HIDE DEF v
  <1> QED BY <1>2 DEF Upd

LEMMA ReleaseDrop ==
  ASSUME NEW b, NEW x, NEW c \in Threads, NEW ms \in Seq(AllMutexes), NEW i \in 1..Len(ms), NEW a, NEW e,
         Letting(b, x, c, ms, i - 1, a, e), NEW m, m = ms[i], a.q[m] = <<>>
  PROVE  \E d : Letting(b, x, c, ms, i, Release(a, m), d)
  <1> DEFINE d == [e EXCEPT !.owner[m] = NoThread, !.mtxlist = [e.mtxlist EXCEPT ![c] = Tail(e.mtxlist[c])]]
             y == [a EXCEPT !.owner[m] = NoThread]
  <1>1. /\ Passing(b, e, c, m) /\ Left(Tail(e.mtxlist[c]), ms, i) /\ m \in AllMutexes
        /\ DOMAIN e = Fields /\ DOMAIN a = Fields /\ c \in All /\ e.q = a.q
        /\ e.owner = a.owner /\ c = e.cur
        /\ DOMAIN e.mtxlist = All /\ DOMAIN e.owner = AllMutexes
    BY LettingFacts
  <1>2. /\ Keeps(e, a, {"mtxlist", "rprio"}) /\ a.mtxlist = [e.mtxlist EXCEPT ![c] = <<>>]
        /\ e.prio[c] = e.rprio[c] /\ Gives(e.rprio, a.rprio, c, x.rprio[c])
        /\ Off(c, e.ready, Waits(e.q)) /\ e.st[c] # "FINAL"
    BY DEF Letting, Upd
  <1>3. /\ Keeps(e, d, {"owner", "mtxlist"}) /\ Upd(e.owner, d.owner, m, NoThread)
        /\ d.mtxlist = [e.mtxlist EXCEPT ![c] = Tail(e.mtxlist[c])]
        /\ d.prio = e.prio /\ d.rprio = e.rprio /\ d.st = e.st /\ d.ready = e.ready /\ d.q = e.q /\ d.cur = e.cur
    BY <1>1 DEF Keeps, Fields, Upd
  <1>4. Release(a, m) = y
    BY DEF Release
  <1>5. Keeps(d, y, {"mtxlist", "rprio"}) /\ y.mtxlist = a.mtxlist /\ y.rprio = a.rprio
    <2>1. \A f \in Fields \ {"mtxlist", "rprio"} : a[f] = e[f]
      BY <1>2 DEF Keeps
    <2>2. DOMAIN y = Fields /\ y.mtxlist = a.mtxlist /\ y.rprio = a.rprio
      BY <1>1 DEF Fields
    <2>3. y.owner = d.owner
      BY <1>1 DEF Fields
    <2>4. \A f \in Fields \ {"mtxlist", "rprio", "owner"} : y[f] = d[f]
      BY <1>1, <2>1
    <2> QED BY <2>2, <2>3, <2>4 DEF Keeps
  <1> HIDE DEF d, y
  <1>6. Ranked(b, d)
    <2>1. Shorter(e.mtxlist, d.mtxlist, c)
      BY <1>3 DEF Shorter, Upd
    <2> QED BY <1>1, <1>3, <2>1, DropRanked
  <1>7. Upd(d.mtxlist, y.mtxlist, c, <<>>)
    BY <1>1, <1>2, <1>3, <1>5, Blank
  <1>8. d.mtxlist[c] = Tail(e.mtxlist[c])
    BY <1>1, <1>3
  <1>9. Letting(b, x, c, ms, i, y, d)
    BY <1>1, <1>2, <1>3, <1>5, <1>6, <1>7, <1>8 DEF Letting
  <1> QED BY <1>4, <1>9

LEMMA ReleasePass ==
  ASSUME NEW b, NEW x, NEW c \in Threads, NEW ms \in Seq(AllMutexes), NEW i \in 1..Len(ms), NEW a, NEW e,
         Letting(b, x, c, ms, i - 1, a, e), NEW m, m = ms[i], a.q[m] # <<>>, Good(a)
  PROVE  \E d : Letting(b, x, c, ms, i, Release(a, m), d)
  <1> DEFINE t == Head(a.q[m])
             f == [e.mtxlist EXCEPT ![c] = Tail(e.mtxlist[c])]
             r == Tail(a.q[m])
             g == [e EXCEPT !.q[m] = r, !.owner[m] = t, !.mtxlist = [f EXCEPT ![t] = <<m>> \o @]]
             h == Own([a EXCEPT !.q[m] = Tail(@)], m, t)
             d == chSchReadyI(g, t)
             y == chSchReadyI(h, t)
  <1>1. /\ Passing(b, e, c, m) /\ Left(Tail(e.mtxlist[c]), ms, i) /\ m \in AllMutexes
        /\ DOMAIN e = Fields /\ DOMAIN a = Fields /\ c \in All /\ e.q = a.q /\ e.st = a.st /\ e.prio = a.prio
        /\ e.owner = a.owner /\ e.ready = a.ready /\ c = e.cur
        /\ DOMAIN e.mtxlist = All /\ DOMAIN e.owner = AllMutexes /\ DOMAIN e.st = All
        /\ DOMAIN e.q = WaitQueues /\ Ranked(b, e) /\ m \in WaitQueues
    BY LettingFacts
  <1>2. /\ Keeps(e, a, {"mtxlist", "rprio"}) /\ a.mtxlist = [e.mtxlist EXCEPT ![c] = <<>>]
        /\ e.prio[c] = e.rprio[c] /\ Gives(e.rprio, a.rprio, c, x.rprio[c])
        /\ Off(c, e.ready, Waits(e.q)) /\ e.st[c] # "FINAL"
    BY DEF Letting, Upd
  <1>3. Newest(e.q, m, t) /\ t \in Used(a.q[m]) /\ t # c
    <2>1. e.q[m] \in Seq(All) /\ Ordered(e.prio, e.q[m]) /\ Ranks(e.prio)
      BY <1>1, RankFacts
    <2>2. t \in Used(a.q[m])
      BY <1>1, <2>1, HeadOrdered
    <2>3. c \notin Used(a.q[m])
      BY <1>1, <1>2 DEF Off, Waits
    <2> QED BY <1>1, <2>2, <2>3 DEF Newest
  <1>4. t \in Threads /\ t \in All /\ e.st[t] # "FINAL"
    BY <1>1, <1>3, OffGood DEF All
  <1>5. Release(a, m) = y
    BY DEF Release
  <1> HIDE DEF t
  <1>6. /\ Keeps(e, g, {"owner", "mtxlist", "q"}) /\ Upd(e.owner, g.owner, m, t) /\ Shorter(e.q, g.q, m)
        /\ g.mtxlist = [f EXCEPT ![t] = <<m>> \o @]
        /\ g.prio = e.prio /\ g.rprio = e.rprio /\ g.st = e.st /\ g.ready = e.ready /\ g.cur = e.cur
        /\ DOMAIN g = Fields
    BY <1>1 DEF Keeps, Fields, Upd, Shorter
  <1>7. /\ Shorter(e.mtxlist, f, c) /\ Longer(f, g.mtxlist, t, m) /\ DOMAIN f = All
        /\ f[c] = Tail(e.mtxlist[c])
    BY <1>1, <1>6 DEF Upd, Shorter, Longer

  <1>9. \A n \in Fields \ {"mtxlist", "rprio"} : h[n] = g[n]
    <2>1. \A n \in Fields \ {"mtxlist", "rprio"} : a[n] = e[n]
      BY <1>2 DEF Keeps
    <2>2. h.owner = g.owner
      BY <1>1 DEF Fields, Own
    <2>3. h.q = g.q
      BY <1>1 DEF Fields, Own
    <2>4. \A n \in Fields \ {"mtxlist", "rprio", "owner", "q"} : h[n] = g[n]
      BY <1>1, <2>1 DEF Own
    <2> QED BY <2>2, <2>3, <2>4
  <1>10. h.mtxlist = [a.mtxlist EXCEPT ![t] = <<m>> \o @] /\ h.rprio = a.rprio /\ DOMAIN h = Fields
    BY <1>1 DEF Fields, Own
  <1>8. Longer(a.mtxlist, h.mtxlist, t, m)
    BY <1>10 DEF Longer, Upd
  <1> HIDE DEF h, g, f
  <1>11. Upd(g.mtxlist, h.mtxlist, c, <<>>) /\ g.mtxlist[c] = Tail(e.mtxlist[c])
    <2>1. Upd(e.mtxlist, f, c, Tail(e.mtxlist[c])) /\ Upd(e.mtxlist, a.mtxlist, c, <<>>)
      BY <1>2, <1>7 DEF Upd, Shorter
    <2>2. c \in DOMAIN e.mtxlist /\ t \in DOMAIN e.mtxlist /\ t # c
      BY <1>1, <1>3, <1>4
    <2>3. Longer(f, g.mtxlist, t, m)
      BY <1>7
    <2> DEFINE s == Tail(e.mtxlist[c])
               o == <<>>
    <2> HIDE DEF s, o
    <2>4. Upd(e.mtxlist, f, c, s) /\ Upd(e.mtxlist, a.mtxlist, c, o)
      BY <2>1 DEF s, o
    <2>5. Upd(g.mtxlist, h.mtxlist, c, o) /\ g.mtxlist[c] = s
      BY ONLY <1>8, <2>2, <2>3, <2>4, BlankMore
    <2> QED BY <2>5 DEF s, o
  <1>12. Ranked(b, g)
    BY <1>1, <1>3, <1>4, <1>6, <1>7, PassRanked
  <1>13. /\ Ranked(b, d) /\ Adds(g.ready, d.ready, t)
         /\ Keeps(g, d, {"st", "ready"}) /\ d.cur = g.cur /\ d.prio = g.prio /\ d.mtxlist = g.mtxlist
    BY <1>4, <1>12, ReadyRanked
  <1>14. d.rprio = g.rprio /\ d.q = g.q
    BY <1>13 DEF Keeps, Fields
  <1>15. Keeps(d, y, {"mtxlist", "rprio"}) /\ y.mtxlist = h.mtxlist /\ y.rprio = h.rprio
    <2>1. h.prio = g.prio /\ h.ready = g.ready /\ h.st = g.st
      BY <1>9 DEF Fields
    <2>2. DOMAIN y = Fields /\ y.mtxlist = h.mtxlist /\ y.rprio = h.rprio
      BY <1>10 DEF Fields, chSchReadyI
    <2>3. y.st = d.st /\ y.ready = d.ready
      BY <1>6, <1>10, <2>1 DEF Fields, chSchReadyI
    <2>4. \A n \in Fields \ {"mtxlist", "rprio", "st", "ready"} : y[n] = d[n]
      BY <1>6, <1>9, <1>10 DEF chSchReadyI
    <2> QED BY <2>2, <2>3, <2>4 DEF Keeps
  <1>16. d.st[c] # "FINAL"
    BY <1>1, <1>2, <1>3, <1>6 DEF Fields, chSchReadyI
  <1>17. Off(c, d.ready, Waits(d.q))
    <2>1. c \notin Used(d.ready)
      BY <1>2, <1>3, <1>6, <1>13 DEF Adds, Off
    <2>2. \A n \in AllMutexes : Used(d.q[n]) \subseteq Used(e.q[n])
      <3>1. g.q[m] = Tail(e.q[m]) /\ \A n \in AllMutexes : n # m => g.q[n] = e.q[n]
        BY <1>1, <1>6 DEF Shorter, Upd, WaitQueues
      <3>2. e.q[m] \in Seq(All) /\ Ordered(e.prio, e.q[m]) /\ Ranks(e.prio) /\ e.q[m] # <<>>
        BY <1>1, RankFacts
      <3>3. Used(Tail(e.q[m])) \subseteq Used(e.q[m])
        BY <3>2, HeadOrdered
      <3> QED BY <3>1, <3>3, <1>14
    <2>3. \A n \in AllMutexes : c \notin Used(d.q[n])
      BY <1>2, <2>2 DEF Off, Waits
    <2> QED BY <2>1, <2>3 DEF Off, Waits
  <1> HIDE DEF d, y
  <1>18. Letting(b, x, c, ms, i, y, d)
    <2>1. Upd(d.mtxlist, y.mtxlist, c, <<>>) /\ Left(d.mtxlist[c], ms, i)
      BY <1>1, <1>11, <1>13, <1>15
    <2>2. d.prio[c] = d.rprio[c] /\ Gives(d.rprio, y.rprio, c, x.rprio[c]) /\ d.cur = c
      BY <1>1, <1>2, <1>6, <1>10, <1>13, <1>14, <1>15
    <2> QED BY <1>13, <1>15, <1>16, <1>17, <2>1, <2>2 DEF Letting
  <1> QED BY <1>5, <1>18

\* All mutexes are given up: c has its own priority.
LEMMA LettingEnd ==
  ASSUME NEW b, NEW x, Ranked(b, x), NEW c \in Threads, NEW ms \in Seq(AllMutexes), NEW y, NEW e,
         Letting(b, x, c, ms, Len(ms), y, e), DOMAIN y.prio = All,
         NEW z, z = [y EXCEPT !.prio[c] = x.rprio[c]]
  PROVE  Ranked(b, z)
  <1> DEFINE w == [e EXCEPT !.prio = z.prio, !.rprio = z.rprio]
             r == x.rprio[c]
  <1>1. /\ Ranked(b, e) /\ Left(e.mtxlist[c], ms, Len(ms)) /\ Keeps(e, y, {"mtxlist", "rprio"})
        /\ Upd(e.mtxlist, y.mtxlist, c, <<>>)
        /\ Off(c, e.ready, Waits(e.q)) /\ Gives(e.rprio, y.rprio, c, r)
    BY DEF Letting
  <1>2. /\ DOMAIN e = Fields /\ DOMAIN e.mtxlist = All /\ c \in All /\ c # Idle
        /\ r \in Int /\ Ranks(e.prio) /\ Ranks(e.rprio) /\ DOMAIN e.st = All /\ DOMAIN e.q = WaitQueues
        /\ DOMAIN e.more = All /\ \A t \in All : Price(e.more[t])
    BY <1>1, RankFacts, SchedAssumption DEF All, Ranks
  <1>3. e.mtxlist[c] = <<>>
    <2>1. e.mtxlist[c] \in Seq(AllMutexes) /\ Len(e.mtxlist[c]) = Len(ms) - Len(ms) /\ Len(ms) \in Nat
      BY <1>1 DEF Left
    <2> QED BY <2>1
  <1>4. Has(e.mtxlist[c], Owns(e.owner, c))
    BY <1>1, <1>2 DEF Ranked, Held, Owned
  <1>5. \A m \in AllMutexes : e.owner[m] # c
    BY <1>3, <1>4 DEF Has, Used, Owns
  <1>6. Fits(b, e.prio, Waits(e.q), e.owner, c, r, r)
    BY <1>2, <1>5 DEF Fits
  <1>7. /\ Keeps(y, z, {"prio"}) /\ Gives(e.prio, z.prio, c, r) /\ z.rprio = y.rprio
    <2>1. y.prio = e.prio /\ DOMAIN y = Fields
      BY <1>1 DEF Keeps, Fields
    <2>2. Keeps(y, z, {"prio"}) /\ z.prio = [y.prio EXCEPT ![c] = r] /\ z.rprio = y.rprio
      BY <2>1 DEF Keeps, Fields
    <2> QED BY <1>2, <2>1, <2>2 DEF Gives
  <1>8. /\ Keeps(e, w, {"prio", "rprio"}) /\ w.prio = z.prio /\ w.rprio = z.rprio /\ DOMAIN w = Fields
    BY <1>2 DEF Keeps, Fields
  <1> HIDE DEF w, r
  <1>9. Ranked(b, w)
    <2>1. Reprices(e, w, c, r, r)
      BY <1>1, <1>7, <1>8 DEF Reprices
    <2> QED BY <1>1, <1>2, <1>6, <2>1, RepricedRanked
  <1>10. Like(w, z)
    <2>1. /\ w.cur = e.cur /\ w.ready = e.ready /\ w.owner = e.owner /\ w.mtxlist = e.mtxlist
          /\ w.st = e.st /\ w.q = e.q /\ w.more = e.more
      BY <1>8 DEF Keeps, Fields
    <2>2. /\ y.cur = e.cur /\ y.ready = e.ready /\ y.owner = e.owner
          /\ y.st = e.st /\ y.q = e.q /\ y.more = e.more
      BY <1>1 DEF Keeps, Fields
    <2>3. /\ z.cur = y.cur /\ z.ready = y.ready /\ z.owner = y.owner /\ z.mtxlist = y.mtxlist
          /\ z.st = y.st /\ z.q = y.q /\ z.more = y.more /\ DOMAIN z = Fields
      BY <1>7 DEF Keeps, Fields
    <2>4. DOMAIN y.mtxlist = All /\ \A t \in All : y.mtxlist[t] = e.mtxlist[t]
      BY <1>1, <1>2, <1>3 DEF Upd
    <2> QED BY <1>2, <1>8, <2>1, <2>2, <2>3, <2>4 DEF Like
  <1> QED BY <1>9, <1>10, LikeRanked

LEMMA UnlockAllPeak ==
  ASSUME NEW b, NEW x, Calling(x), Peak(b, x)
  PROVE  Peak(b, chMtxUnlockAll(x))
  <1> DEFINE c == x.cur
             ms == x.mtxlist[c]
             N == Len(ms)
             x0 == [x EXCEPT !.mtxlist[c] = <<>>]
             g(a, i) == Release(a, ms[i])
             P(i, a) == Good(a) /\ \E e : Letting(b, x, c, ms, i, a, e)
             y == Fold(x0, N, g)[N]
             z == [y EXCEPT !.prio[c] = x.rprio[c]]
  <1>1. Good(x) /\ InCall(x) /\ x.more[c].fn = "none" /\ c \in All /\ c # Idle /\ c \in Threads
    BY CallingFacts, CallingIn DEF All
  <1>2. /\ DOMAIN x = Fields /\ ms \in Seq(AllMutexes) /\ Ranked(b, x) /\ DOMAIN x.mtxlist = All
        /\ x.owner \in [AllMutexes -> Threads \cup {NoThread}] /\ Ranks(x.rprio) /\ Ranks(x.prio)
    BY <1>1, InCallFacts, RankFacts DEF Peak
  <1>3. N \in Nat /\ \A i \in 1..N : ms[i] \in AllMutexes
    BY <1>2, Member
  <1>4. chMtxUnlockAll(x) = IF ms = <<>> THEN x ELSE chSchRescheduleS(z)
    BY DEF chMtxUnlockAll, Fold, Release
  <1>5. P(0, x0)
    <2> DEFINE e == [x EXCEPT !.rprio = [x.rprio EXCEPT ![c] = x.prio[c]]]
    <2>1. /\ Keeps(x, x0, {"mtxlist", "owner"}) /\ Upd(x.mtxlist, x0.mtxlist, c, <<>>) /\ x0.owner = x.owner
          /\ x0.rprio = x.rprio
      BY <1>2 DEF Keeps, Fields, Upd
    <2>2. <<>> \in Seq(AllMutexes)
      OBVIOUS
    <2>3. /\ Reprices(x, e, c, x.prio[c], x.prio[c]) /\ e.mtxlist = x.mtxlist /\ e.prio = x.prio
          /\ e.ready = x.ready /\ e.q = x.q /\ e.st = x.st /\ e.cur = x.cur /\ e.rprio[c] = x.prio[c]
      BY <1>1, <1>2 DEF Reprices, Keeps, Fields, Gives, Ranks
    <2>4. Keeps(e, x0, {"mtxlist", "rprio"})
      BY <1>2 DEF Keeps, Fields
    <2>5. Gives(e.rprio, x0.rprio, c, x.rprio[c])
      BY <1>1, <1>2, <2>1 DEF Gives, Ranks, Fields
    <2> HIDE DEF x0, e
    <2>6. Good(x0)
      BY <1>1, <1>2, <2>1, <2>2, DropGood
    <2>7. Off(c, x.ready, Waits(x.q)) /\ x.st[c] # "FINAL"
      BY <1>1, CallerOff
    <2>8. Ranked(b, e)
      BY <1>1, <1>2, <2>3, <2>7, OwnPrice
    <2>9. Left(ms, ms, 0)
      BY <1>2, <1>3 DEF Left
    <2>10. Letting(b, x, c, ms, 0, x0, e)
      BY <2>1, <2>3, <2>4, <2>5, <2>7, <2>8, <2>9 DEF Letting
    <2> QED BY <2>6, <2>10
  <1> HIDE DEF x0
  <1>6. \A i \in 1..N : \A a : P(i - 1, a) => P(i, g(a, i))
    <2> SUFFICES ASSUME NEW i \in 1..N, NEW a, P(i - 1, a) PROVE P(i, g(a, i))
      OBVIOUS
    <2>1. Good(g(a, i))
      BY <1>3, ReleaseGood
    <2>2. PICK e : Letting(b, x, c, ms, i - 1, a, e)
      OBVIOUS
    <2> HIDE DEF c, ms
    <2>3. \E d : Letting(b, x, c, ms, i, Release(a, ms[i]), d)
      BY <1>1, <1>2, <2>2, ReleaseDrop, ReleasePass
    <2> QED BY <2>1, <2>3
  <1> HIDE DEF g, P, N
  <1>7. FoldKeeps(x0, N, g, P)
    BY <1>3, FoldKept
  <1>8. P(N, y)
    BY <1>5, <1>6, <1>7 DEF FoldKeeps
  <1> HIDE DEF y
  <1>9. Good(y) /\ \E e : Letting(b, x, c, ms, N, y, e)
    BY <1>8 DEF P
  <1>10. PICK e : Letting(b, x, c, ms, Len(ms), y, e)
    BY <1>9 DEF N
  <1>11. DOMAIN y.prio = All
    BY <1>9, GoodShape, CoreShape
  <1>12. Ranked(b, z)
    BY <1>1, <1>2, <1>10, <1>11, LettingEnd
  <1> HIDE DEF z
  <1>13. Peak(b, chSchRescheduleS(z))
    BY <1>12, ReschedulePeak
  <1> QED BY <1>4, <1>13

-----------------------------------------------------------------------------
(***************************************************************************)
(* The priority that goes up along the chain of owners.                    *)
(***************************************************************************)

LEMMA OrderDequeue ==
  ASSUME NEW s, NEW M, Exactly(s, M), NEW t \in M, NEW prio, Ordered(prio, s), NEW r, r = dequeue(s, t)
  PROVE  Exactly(r, M \ {t}) /\ Ordered(prio, r)
  <1> DEFINE n == CHOOSE i \in DOMAIN s : s[i] = t
             d == SubSeq(s, n + 1, Len(s))
  <1>1. s \in Seq(All) /\ Len(s) \in Nat /\ \A x \in M : \E i \in 1..Len(s) : s[i] = x
    BY ExactSub
  <1>2. n \in 1..Len(s)
    BY <1>1
  <1>3. r = SubSeq(s, 1, n - 1) \o d
    BY DEF dequeue, Unlink
  <1> HIDE DEF n
  <1>4. d \in Seq(All) /\ Len(d) = Len(s) - n /\ \A i \in 1..(Len(s) - n) : d[i] = s[n + i]
    BY <1>1, <1>2
  <1> HIDE DEF d
  <1>5. /\ r \in Seq(All) /\ Len(r) = n - 1 + Len(d)
        /\ \A i \in 1..(n - 1) : r[i] = s[i]
        /\ \A i \in n..(n - 1 + Len(d)) : r[i] = d[i - (n - 1)]
    <2>1. n \in 1..(Len(s) + 1)
      BY <1>1, <1>2
    <2>2. s \in Seq(All) /\ d \in Seq(All)
      BY <1>1, <1>4
    <2> QED BY ONLY <1>3, <2>1, <2>2, CutAt
  <1>6. ASSUME NEW i \in 1..Len(r)
        PROVE  \E a \in 1..Len(s) : r[i] = s[a] /\ a = IF i < n THEN i ELSE i + 1
    <2>1. CASE i < n
      BY <2>1, <1>1, <1>2, <1>5
    <2>2. CASE ~ (i < n)
      <3>1. i \in n..(n - 1 + Len(d)) /\ i - (n - 1) \in 1..(Len(s) - n) /\ n + (i - (n - 1)) = i + 1
            /\ i + 1 \in 1..Len(s)
        BY <2>2, <1>1, <1>2, <1>4, <1>5
      <3>2. r[i] = d[i - (n - 1)] /\ d[i - (n - 1)] = s[n + (i - (n - 1))]
        BY <3>1, <1>4, <1>5
      <3>3. r[i] = s[i + 1]
        BY <3>1, <3>2
      <3> QED BY <2>2, <3>1, <3>3
    <2> QED BY <2>1, <2>2
  <1>7. ASSUME NEW i \in 1..Len(r), NEW j \in 1..Len(r), i < j PROVE prio[r[j]] <= prio[r[i]]
    <2>1. PICK a \in 1..Len(s) : r[i] = s[a] /\ a = IF i < n THEN i ELSE i + 1
      BY <1>6
    <2>2. PICK e \in 1..Len(s) : r[j] = s[e] /\ e = IF j < n THEN j ELSE j + 1
      BY <1>6
    <2>3. a < e
      BY <2>1, <2>2, <1>2, <1>7
    <2> QED BY <2>1, <2>2, <2>3 DEF Ordered
  <1>8. Exactly(r, M \ {t})
    BY ExactDequeue
  <1> QED BY <1>7, <1>8 DEF Ordered

\* A thread of a list gets another priority and its place for it.
LEMMA OrderRequeue ==
  ASSUME NEW s, NEW M, Exactly(s, M), NEW t \in M, t \in All, NEW prio, Ordered(prio, s), NEW prio2,
         Ranks(prio2), \A e \in All : e # t => prio2[e] = prio[e],
         NEW r, r = prio_insert(dequeue(s, t), t, prio2)
  PROVE  r \in Seq(All) /\ Ordered(prio2, r) /\ Used(r) = M
  <1> DEFINE d == dequeue(s, t)
  <1>1. Exactly(d, M \ {t}) /\ Ordered(prio, d)
    BY OrderDequeue
  <1> HIDE DEF d
  <1>2. d \in Seq(All) /\ Used(d) = M \ {t}
    BY <1>1 DEF Exactly
  <1>3. \A e \in Used(d) : prio2[e] = prio[e]
    BY <1>2, UsedOf
  <1>4. Ordered(prio2, d)
    BY <1>1, <1>2, <1>3, OrderFrame
  <1>5. r \in Seq(All) /\ Ordered(prio2, r) /\ Used(r) = Used(d) \cup {t}
    BY <1>2, <1>4, OrderPrio DEF d
  <1> QED BY <1>2, <1>5

\* Where the threads are.
Placed(x) ==
    /\ \A t \in All : /\ t \in Used(x.ready) <=> x.st[t] = "READY"
                      /\ x.st[t] = "WTMTX" => x.u[t][2] \in AllMutexes
                      /\ x.st[t] = "WTCOND" => x.u[t][2] \in Conds
    /\ \A m \in AllMutexes : /\ Exactly(x.q[m], Used(x.q[m]))
                             /\ \A t \in All : t \in Used(x.q[m]) <=> x.st[t] = "WTMTX" /\ x.u[t][2] = m
    /\ Exactly(x.ready, Used(x.ready))

LEMMA DoingPlaced ==
  ASSUME NEW x, NEW v, NEW s0, Doing(x, v, s0)
  PROVE  Placed(x)
  <1>1. /\ Core(x, v) /\ v = [x.st EXCEPT ![x.cur] = s0] /\ s0 \in {"CURRENT", "SUSPENDED"}
        /\ x.st \in [All -> States] /\ x.st[x.cur] = "CURRENT" /\ x.cur \in All
    BY CoreShape DEF Doing
  <1>2. \A t \in All : /\ v[t] = "READY" <=> x.st[t] = "READY"
                       /\ v[t] = "WTMTX" <=> x.st[t] = "WTMTX"
                       /\ v[t] = "WTCOND" <=> x.st[t] = "WTCOND"
    BY <1>1
  <1>3. Exactly(x.ready, AreReady(v)) /\ \A o \in WaitQueues : Exactly(x.q[o], Waiters(x, v, o))
    BY <1>1 DEF Core, Queues
  <1>4. \A t \in All : Kind(v[t], x.u[t], x.cont[t])
    BY <1>1 DEF Core, Locals, Local
  <1>5. ASSUME NEW m \in AllMutexes
        PROVE  /\ Exactly(x.q[m], Used(x.q[m]))
               /\ \A t \in All : t \in Used(x.q[m]) <=> x.st[t] = "WTMTX" /\ x.u[t][2] = m
    <2>1. m \in Objects /\ m \in WaitQueues
      BY DEF Objects, WaitQueues
    <2>2. \A t \in Waiters(x, v, m) : t \in All /\ v[t] = "WTMTX" /\ x.u[t][2] = m
      BY <1>1, <2>1, WaiterKind
    <2>3. Exactly(x.q[m], Waiters(x, v, m)) /\ Used(x.q[m]) = Waiters(x, v, m)
      BY <1>3, <2>1 DEF Exactly
    <2>4. \A t \in All : v[t] = "WTMTX" /\ x.u[t][2] = m => t \in Waiters(x, v, m)
      BY DEF Waiters, Queued
    <2> QED BY <2>2, <2>3, <2>4, <1>2
  <1>6. Exactly(x.ready, Used(x.ready)) /\ \A t \in All : t \in Used(x.ready) <=> x.st[t] = "READY"
    BY <1>2, <1>3 DEF Exactly, AreReady
  <1>7. \A t \in All : /\ x.st[t] = "WTMTX" => x.u[t][2] \in AllMutexes
                       /\ x.st[t] = "WTCOND" => x.u[t][2] \in Conds
    BY <1>2, <1>4 DEF Kind
  <1> QED BY <1>5, <1>6, <1>7 DEF Placed

\* The owner tp has still to get the priority p, that of a waiter.
Rise(b, prio, rprio, W, owner, mtxlist, tp, p) ==
    /\ Owned(owner, mtxlist) /\ Bounded(prio, rprio, W, owner)
    /\ b => Lifted(prio, W, owner, tp, p)
    /\ tp # NoThread => Needs(prio, W, owner, tp, p)

\* Who is next, after tp: the owner of what tp waits for.
After(W, owner, tp, t2) ==
    \/ t2 = NoThread /\ \A m \in AllMutexes : tp \notin W[m]
    \/ \E o \in AllMutexes : tp \in W[o] /\ t2 = owner[o] /\ \A m \in AllMutexes : tp \in W[m] => m = o

LEMMA RiseStep ==
  ASSUME NEW b, NEW prio, NEW rprio, NEW W, NEW owner, NEW mtxlist, NEW tp \in Threads, NEW p \in Int,
         Rise(b, prio, rprio, W, owner, mtxlist, tp, p), prio[tp] < p, Ranks(prio), Ranks(rprio),
         owner \in [AllMutexes -> Threads \cup {NoThread}], \A m \in AllMutexes : W[m] \subseteq All,
         NEW prio2, Gives(prio, prio2, tp, p), NEW t2, After(W, owner, tp, t2)
  PROVE  Rise(b, prio2, rprio, W, owner, mtxlist, t2, p)
  <1>1. /\ tp \in All /\ tp # NoThread /\ prio2[tp] = p
        /\ \A e \in All : e # tp => prio2[e] = prio[e]
        /\ \A e \in All : prio[e] \in Int /\ prio2[e] \in Int /\ rprio[e] \in Int
    BY NamesAssumption DEF Gives, Ranks, All
  <1>2. \A e \in All : prio[e] <= prio2[e]
    BY <1>1
  <1>3. ASSUME NEW e, NEW d \in Int, Needs(prio, W, owner, e, d) PROVE Needs(prio2, W, owner, e, d)
    <2>1. PICK m \in AllMutexes : owner[m] = e /\ \E w \in W[m] : d <= prio[w]
      BY <1>3 DEF Needs
    <2>2. PICK w \in W[m] : d <= prio[w]
      BY <2>1
    <2>3. w \in All
      OBVIOUS
    <2>4. d <= prio2[w]
      BY <1>1, <1>2, <2>2, <2>3
    <2> QED BY <2>1, <2>4 DEF Needs
  <1>4. Bounded(prio2, rprio, W, owner)
    <2> SUFFICES ASSUME NEW e \in All
                 PROVE  /\ rprio[e] <= prio2[e]
                        /\ prio2[e] <= rprio[e] \/ Needs(prio2, W, owner, e, prio2[e])
      BY DEF Bounded
    <2>1. rprio[e] <= prio[e] /\ (prio[e] <= rprio[e] \/ Needs(prio, W, owner, e, prio[e]))
      BY DEF Rise, Bounded
    <2>2. CASE e = tp
      <3>1. Needs(prio2, W, owner, tp, p)
        BY <1>1, <1>3 DEF Rise
      <3> QED BY <1>1, <1>2, <2>1, <2>2, <3>1
    <2>3. CASE e # tp
      BY <1>1, <1>3, <2>1, <2>3
    <2> QED BY <2>2, <2>3
  <1>5. ASSUME b PROVE Lifted(prio2, W, owner, t2, p)
    <2> SUFFICES ASSUME NEW m \in AllMutexes, NEW w \in W[m]
                 PROVE  /\ owner[m] # NoThread
                        /\ prio2[w] <= prio2[owner[m]] \/ (owner[m] = t2 /\ prio2[w] <= p)
      BY DEF Lifted
    <2>1. /\ owner[m] # NoThread /\ owner[m] \in All /\ w \in All
          /\ prio[w] <= prio[owner[m]] \/ (owner[m] = tp /\ prio[w] <= p)
      BY <1>5 DEF Rise, Lifted, All
    <2>2. CASE w = tp
      <3>1. owner[m] = t2
        BY <2>2 DEF After
      <3> QED BY <1>1, <2>1, <2>2, <3>1
    <2>3. CASE w # tp
      <3>1. prio2[w] = prio[w] /\ prio[owner[m]] <= prio2[owner[m]] /\ prio[w] \in Int
            /\ prio[owner[m]] \in Int /\ prio2[owner[m]] \in Int
        BY <1>1, <1>2, <2>1, <2>3
      <3>2. CASE prio[w] <= prio[owner[m]]
        BY <2>1, <3>1, <3>2
      <3>3. CASE owner[m] = tp /\ prio[w] <= p
        BY <1>1, <2>1, <3>1, <3>3
      <3> QED BY <2>1, <3>2, <3>3
    <2> QED BY <2>2, <2>3
  <1>6. ASSUME t2 # NoThread PROVE Needs(prio2, W, owner, t2, p)
    <2>1. PICK o \in AllMutexes : tp \in W[o] /\ t2 = owner[o]
      BY <1>6 DEF After
    <2>2. p <= prio2[tp]
      BY <1>1
    <2> QED BY <2>1, <2>2 DEF Needs
  <1> QED BY <1>4, <1>5, <1>6 DEF Rise

LEMMA RiseEnd ==
  ASSUME NEW b, NEW prio, NEW rprio, NEW W, NEW owner, NEW mtxlist, NEW tp \in Threads, NEW p \in Int,
         Rise(b, prio, rprio, W, owner, mtxlist, tp, p), p <= prio[tp], Ranks(prio),
         \A m \in AllMutexes : W[m] \subseteq All
  PROVE  Rise(b, prio, rprio, W, owner, mtxlist, NoThread, p)
  <1>1. \A e \in All : prio[e] \in Int
    BY DEF Ranks
  <1>2. tp \in All
    BY DEF All
  <1>3. ASSUME b PROVE Lifted(prio, W, owner, NoThread, p)
    <2> SUFFICES ASSUME NEW m \in AllMutexes, NEW w \in W[m]
                 PROVE  owner[m] # NoThread /\ prio[w] <= prio[owner[m]]
      BY DEF Lifted
    <2>1. w \in All /\ owner[m] # NoThread /\ (prio[w] <= prio[owner[m]] \/ (owner[m] = tp /\ prio[w] <= p))
      BY <1>3 DEF Rise, Lifted
    <2> QED BY <1>1, <1>2, <2>1
  <1> QED BY <1>3 DEF Rise

LEMMA RiseHeld ==
  ASSUME NEW b, NEW prio, NEW rprio, NEW W, NEW owner, NEW mtxlist, NEW tp, NEW p,
         Rise(b, prio, rprio, W, owner, mtxlist, tp, p), b => tp = NoThread
  PROVE  Held(b, prio, rprio, W, owner, mtxlist)
  BY DEF Rise, Held, Lifted

\* The thread c is about to wait for the mutex m.
LEMMA RiseStart ==
  ASSUME NEW b, NEW prio, NEW rprio, NEW W, NEW owner, NEW mtxlist,
         Held(b, prio, rprio, W, owner, mtxlist), NEW m \in AllMutexes, owner[m] # NoThread,
         NEW c \in All, Ranks(prio), NEW W2, Elsewhere(W, W2, m), W2[m] = W[m] \cup {c}
  PROVE  Rise(b, prio, rprio, W2, owner, mtxlist, owner[m], prio[c])
  <1>1. prio[c] \in Int
    BY DEF Ranks
  <1>2. \A e \in AllMutexes : W[e] \subseteq W2[e]
    BY DEF Elsewhere
  <1>3. ASSUME NEW e, NEW d, Needs(prio, W, owner, e, d) PROVE Needs(prio, W2, owner, e, d)
    BY <1>2, <1>3 DEF Needs
  <1>4. Bounded(prio, rprio, W2, owner)
    BY <1>3 DEF Held, Bounded
  <1>5. ASSUME b PROVE Lifted(prio, W2, owner, owner[m], prio[c])
    <2> SUFFICES ASSUME NEW n \in AllMutexes, NEW w \in W2[n]
                 PROVE  /\ owner[n] # NoThread
                        /\ prio[w] <= prio[owner[n]] \/ (owner[n] = owner[m] /\ prio[w] <= prio[c])
      BY DEF Lifted
    <2>1. CASE w \in W[n]
      BY <2>1, <1>5 DEF Held, Lifted
    <2>2. CASE w \notin W[n]
      <3>1. n = m /\ w = c
        BY <2>2 DEF Elsewhere
      <3> QED BY <3>1, <1>1
    <2> QED BY <2>1, <2>2
  <1>6. Needs(prio, W2, owner, owner[m], prio[c])
    BY <1>1 DEF Needs
  <1> QED BY <1>4, <1>5, <1>6 DEF Held, Rise

\* y is x with the priority p of tp and the threads in the same lists.
Raised(x, y, tp, p) ==
    /\ Keeps(x, y, Inheriting) /\ Gives(x.prio, y.prio, tp, p)
    /\ \A m \in AllMutexes : Used(y.q[m]) = Used(x.q[m])

LEMMA RequeuedListed ==
  ASSUME NEW x, Listed(x), NEW t \in Threads, NEW p \in Int, NEW y, Keeps(x, y, Inheriting),
         Gives(x.prio, y.prio, t, p), DOMAIN y.st = All, \A e \in All : y.st[e] = x.st[e],
         y.ready \in Seq(All), Ordered(y.prio, y.ready), Used(y.ready) = Used(x.ready),
         DOMAIN y.q = WaitQueues,
         \A m \in AllMutexes : y.q[m] \in Seq(All) /\ Ordered(y.prio, y.q[m])
  PROVE  Listed(y)
  <1>1. /\ DOMAIN y = Fields /\ y.cur = x.cur /\ y.rprio = x.rprio /\ y.owner = x.owner
        /\ y.mtxlist = x.mtxlist /\ y.more = x.more
    BY DEF Keeps, Inheriting, Fields
  <1>2. t # Idle /\ Idle \in All
    BY SchedAssumption DEF All
  <1>3. Ranks(y.prio) /\ y.prio[Idle] = x.prio[Idle]
    BY <1>2 DEF Listed, RankShape, Ranks, Gives
  <1>4. RankShape(y)
    BY <1>1, <1>3 DEF Listed, RankShape
  <1> QED BY <1>1, <1>4 DEF Listed

LEMMA InheritListed ==
  ASSUME NEW x, Listed(x), Placed(x), NEW tp \in Threads, NEW p \in Int
  PROVE  /\ Listed(Inherit(x, tp, p)[1]) /\ Raised(x, Inherit(x, tp, p)[1], tp, p)
         /\ After(Waits(x.q), x.owner, tp, Inherit(x, tp, p)[2])
  <1> DEFINE k1 == [x EXCEPT !.prio[tp] = p]
             o == WaitObj(x, tp)
             r == prio_insert(dequeue(x.q[o], tp), tp, k1.prio)
             requeued == [k1 EXCEPT !.q[o] = r]
             z == [k1 EXCEPT !.ready = dequeue(@, tp)]
  <1>1. /\ DOMAIN x = Fields /\ DOMAIN x.st = All /\ DOMAIN x.q = WaitQueues /\ Ranks(x.prio)
        /\ x.ready \in Seq(All) /\ Ordered(x.prio, x.ready)
        /\ \A m \in AllMutexes : x.q[m] \in Seq(All) /\ Ordered(x.prio, x.q[m])
    BY DEF Listed, RankShape
  <1>2. tp \in All
    BY DEF All
  <1>3. /\ \A t \in All : t \in Used(x.ready) <=> x.st[t] = "READY"
        /\ x.st[tp] = "WTMTX" => o \in AllMutexes
        /\ x.st[tp] = "WTCOND" => o \in Conds
        /\ \A m \in AllMutexes : /\ Exactly(x.q[m], Used(x.q[m]))
                                 /\ \A t \in All : t \in Used(x.q[m]) <=> x.st[t] = "WTMTX" /\ x.u[t][2] = m
        /\ Exactly(x.ready, Used(x.ready)) /\ o = x.u[tp][2]
    BY <1>2 DEF Placed, WaitObj
  <1>4. /\ Keeps(x, k1, Inheriting) /\ k1.prio = [x.prio EXCEPT ![tp] = p] /\ k1.st = x.st
        /\ k1.q = x.q /\ k1.ready = x.ready
    BY <1>1 DEF Keeps, Fields, Inheriting
  <1>5. Gives(x.prio, k1.prio, tp, p) /\ Ranks(k1.prio)
    BY <1>1, <1>2, <1>4 DEF Gives, Ranks
  <1>6. \A e \in All : e # tp => k1.prio[e] = x.prio[e]
    BY <1>5 DEF Gives
  <1>7. Inherit(x, tp, p) = CASE x.st[tp] = "WTMTX" -> <<requeued, x.owner[o]>>
                              [] x.st[tp] = "WTCOND" -> <<requeued, NoThread>>
                              [] x.st[tp] = "READY" -> <<chSchReadyI(z, tp), NoThread>>
                              [] OTHER -> <<k1, NoThread>>
    BY <1>4 DEF Inherit
  <1>8. \A s \in Seq(All) : Ordered(x.prio, s) /\ tp \notin Used(s) => Ordered(k1.prio, s)
    <2> SUFFICES ASSUME NEW s \in Seq(All), Ordered(x.prio, s), tp \notin Used(s) PROVE Ordered(k1.prio, s)
      OBVIOUS
    <2>1. \A e \in Used(s) : k1.prio[e] = x.prio[e]
      BY <1>6, UsedOf
    <2> QED BY <2>1, OrderFrame
  <1> HIDE DEF k1, o
  <1>9. CASE x.st[tp] = "WTMTX"
    <2>1. o \in AllMutexes /\ o \in WaitQueues /\ tp \in Used(x.q[o])
      BY <1>2, <1>3, <1>9 DEF WaitQueues
    <2>2. /\ Keeps(x, requeued, Inheriting) /\ requeued.prio = k1.prio /\ requeued.st = x.st
          /\ requeued.ready = x.ready /\ requeued.q = [x.q EXCEPT ![o] = r]
      BY <1>4 DEF Keeps, Fields, Inheriting
    <2>3. r \in Seq(All) /\ Ordered(k1.prio, r) /\ Used(r) = Used(x.q[o])
      BY <1>1, <1>2, <1>3, <1>5, <1>6, <2>1, OrderRequeue
    <2> HIDE DEF r, requeued
    <2>4. ASSUME NEW m \in AllMutexes
          PROVE  /\ requeued.q[m] \in Seq(All) /\ Ordered(k1.prio, requeued.q[m])
                 /\ Used(requeued.q[m]) = Used(x.q[m])
      <3>1. CASE m = o
        BY <1>1, <2>1, <2>2, <2>3, <3>1
      <3>2. CASE m # o
        <4>1. requeued.q[m] = x.q[m]
          BY <1>1, <2>2, <3>2 DEF WaitQueues
        <4>2. tp \notin Used(x.q[m])
          BY <1>2, <1>3, <3>2
        <4> QED BY <1>1, <1>8, <4>1, <4>2
      <3> QED BY <3>1, <3>2
    <2>5. DOMAIN requeued.q = WaitQueues
      BY <1>1, <2>2
    <2>6. Ordered(k1.prio, x.ready)
      BY <1>1, <1>2, <1>3, <1>8, <1>9
    <2>7. Listed(requeued)
      BY <1>1, <1>5, <2>2, <2>4, <2>5, <2>6, RequeuedListed
    <2>8. Raised(x, requeued, tp, p)
      BY <1>5, <2>2, <2>4 DEF Raised
    <2>9. After(Waits(x.q), x.owner, tp, x.owner[o])
      BY <1>2, <1>3, <2>1 DEF After, Waits
    <2> QED BY <1>7, <1>9, <2>7, <2>8, <2>9
  <1>10. x.st[tp] # "WTMTX" => /\ \A m \in AllMutexes : tp \notin Used(x.q[m])
                               /\ After(Waits(x.q), x.owner, tp, NoThread)
                               /\ \A m \in AllMutexes : Ordered(k1.prio, x.q[m])
    <2> SUFFICES ASSUME x.st[tp] # "WTMTX"
                 PROVE  /\ \A m \in AllMutexes : tp \notin Used(x.q[m])
                        /\ After(Waits(x.q), x.owner, tp, NoThread)
                        /\ \A m \in AllMutexes : Ordered(k1.prio, x.q[m])
      OBVIOUS
    <2>1. \A m \in AllMutexes : tp \notin Used(x.q[m])
      BY <1>2, <1>3
    <2> QED BY <2>1, <1>1, <1>8 DEF After, Waits
  <1>11. CASE x.st[tp] = "WTCOND"
    <2>1. o \in Conds /\ o \notin AllMutexes
      BY <1>3, <1>11, NamesAssumption DEF AllMutexes
    <2>2. /\ Keeps(x, requeued, Inheriting) /\ requeued.prio = k1.prio /\ requeued.st = x.st
          /\ requeued.ready = x.ready /\ requeued.q = [x.q EXCEPT ![o] = r]
      BY <1>4 DEF Keeps, Fields, Inheriting
    <2> HIDE DEF r, requeued
    <2>3. DOMAIN requeued.q = WaitQueues /\ \A m \in AllMutexes : requeued.q[m] = x.q[m]
      BY <1>1, <2>1, <2>2 DEF WaitQueues
    <2>4. Ordered(k1.prio, x.ready)
      BY <1>1, <1>2, <1>3, <1>8, <1>11
    <2>5. \A m \in AllMutexes : requeued.q[m] \in Seq(All) /\ Ordered(requeued.prio, requeued.q[m])
      BY <1>1, <1>10, <1>11, <2>2, <2>3
    <2>6. Listed(requeued)
      BY <1>1, <1>5, <2>2, <2>3, <2>4, <2>5, RequeuedListed
    <2>7. Raised(x, requeued, tp, p)
      BY <1>5, <2>2, <2>3 DEF Raised
    <2> QED BY <1>7, <1>10, <1>11, <2>6, <2>7
  <1>12. CASE x.st[tp] = "READY"
    <2> DEFINE y == chSchReadyI(z, tp)
    <2>1. /\ Keeps(x, z, Inheriting) /\ z.prio = k1.prio /\ z.st = x.st
          /\ z.ready = dequeue(x.ready, tp) /\ z.q = x.q /\ DOMAIN z = Fields
      BY <1>4 DEF Keeps, Fields, Inheriting
    <2> HIDE DEF z
    <2>2. /\ Keeps(z, y, Inheriting) /\ y.prio = k1.prio /\ y.st = [x.st EXCEPT ![tp] = "READY"]
          /\ y.ready = prio_insert(dequeue(x.ready, tp), tp, k1.prio) /\ y.q = x.q
      BY <2>1 DEF Keeps, Fields, Inheriting, chSchReadyI
    <2> HIDE DEF y
    <2>3. Keeps(x, y, Inheriting)
      BY <2>1, <2>2 DEF Keeps
    <2>4. tp \in Used(x.ready)
      BY <1>2, <1>3, <1>12
    <2>5. y.ready \in Seq(All) /\ Ordered(y.prio, y.ready) /\ Used(y.ready) = Used(x.ready)
      BY <1>1, <1>2, <1>3, <1>5, <1>6, <2>2, <2>4, OrderRequeue
    <2>6. DOMAIN y.st = All /\ \A e \in All : y.st[e] = x.st[e]
      BY <1>1, <1>12, <2>2
    <2>7. \A m \in AllMutexes : y.q[m] \in Seq(All) /\ Ordered(y.prio, y.q[m])
      BY <1>1, <1>10, <1>12, <2>2
    <2>8. Listed(y)
      BY <1>1, <1>5, <2>2, <2>3, <2>5, <2>6, <2>7, RequeuedListed
    <2>9. Raised(x, y, tp, p)
      BY <1>5, <2>2, <2>3 DEF Raised
    <2> QED BY <1>7, <1>10, <1>12, <2>8, <2>9 DEF y
  <1>13. CASE x.st[tp] \notin {"WTMTX", "WTCOND", "READY"}
    <2>1. Ordered(k1.prio, x.ready)
      BY <1>1, <1>2, <1>3, <1>8, <1>13
    <2>2. \A m \in AllMutexes : k1.q[m] \in Seq(All) /\ Ordered(k1.prio, k1.q[m])
      BY <1>1, <1>4, <1>10, <1>13
    <2>3. Listed(k1)
      BY <1>1, <1>4, <1>5, <2>1, <2>2, RequeuedListed
    <2>4. Raised(x, k1, tp, p)
      BY <1>4, <1>5 DEF Raised
    <2> QED BY <1>7, <1>10, <1>13, <2>3, <2>4
  <1> QED BY <1>9, <1>11, <1>12, <1>13

Low(prio, p) == {t \in All : prio[t] < p}

LEMMA LowFacts ==
  ASSUME NEW prio, Ranks(prio), NEW p \in Int
  PROVE  /\ IsFiniteSet(Low(prio, p)) /\ Cardinality(Low(prio, p)) \in Nat
         /\ \A c \in All : prio[c] = p => Cardinality(Low(prio, p)) <= Cardinality(All) - 1
         /\ \A t \in All : \A prio2 : prio[t] < p /\ Gives(prio, prio2, t, p) =>
                Cardinality(Low(prio2, p)) = Cardinality(Low(prio, p)) - 1
  <1>1. IsFiniteSet(All) /\ Cardinality(All) \in Nat
    BY NamesAssumption, FS_AddElement, FS_CardinalityType DEF All
  <1>2. Low(prio, p) \in SUBSET All
    BY DEF Low
  <1>3. IsFiniteSet(Low(prio, p)) /\ Cardinality(Low(prio, p)) \in Nat
    BY <1>1, <1>2, FS_Subset, FS_CardinalityType
  <1>4. ASSUME NEW c \in All, prio[c] = p PROVE Cardinality(Low(prio, p)) <= Cardinality(All) - 1
    <2>1. Low(prio, p) \in SUBSET (All \ {c})
      BY <1>4 DEF Low
    <2>2. IsFiniteSet(All \ {c}) /\ Cardinality(All \ {c}) = Cardinality(All) - 1
      BY <1>1, FS_RemoveElement
    <2> QED BY <2>1, <2>2, FS_Subset
  <1>5. ASSUME NEW t \in All, NEW prio2, prio[t] < p, Gives(prio, prio2, t, p)
        PROVE  Cardinality(Low(prio2, p)) = Cardinality(Low(prio, p)) - 1
    <2>1. t \in Low(prio, p)
      BY <1>5 DEF Low
    <2>2. \A e \in All : prio2[e] < p <=> prio[e] < p /\ e # t
      BY <1>5 DEF Gives, Ranks
    <2>3. Low(prio2, p) = Low(prio, p) \ {t}
      BY <2>2 DEF Low
    <2> QED BY <1>3, <2>1, <2>3, FS_RemoveElement
  <1> QED BY <1>3, <1>4, <1>5

\* The waiters of x and the thread c, that is about to wait for m.
Waiting(x, c, m) == [n \in AllMutexes |-> IF n = m THEN Used(x.q[n]) \cup {c} ELSE Used(x.q[n])]

\* The state of the loop after i turns: y is x with the priority p for the owners so far.
Climbing(b, x, c, m, p, i, y, tp) ==
    /\ Listed(y) /\ Keeps(x, y, Inheriting) /\ tp \in Threads \cup {NoThread}
    /\ \A n \in AllMutexes : Used(y.q[n]) = Used(x.q[n])
    /\ y.prio[c] = p /\ Rise(b, y.prio, x.rprio, Waiting(x, c, m), x.owner, x.mtxlist, tp, p)
    /\ tp # NoThread => Cardinality(Low(y.prio, p)) <= Cardinality(All) - 1 - i

LEMMA ClimbStart ==
  ASSUME NEW b, NEW x, Ranked(b, x), NEW c \in All, NEW m \in AllMutexes, x.owner[m] # NoThread
  PROVE  Climbing(b, x, c, m, x.prio[c], 0, x, x.owner[m])
  <1> DEFINE W == Waits(x.q)
             V == Waiting(x, c, m)
  <1>1. /\ Listed(x) /\ Held(b, x.prio, x.rprio, W, x.owner, x.mtxlist) /\ DOMAIN x = Fields
        /\ x.owner \in [AllMutexes -> Threads \cup {NoThread}] /\ Ranks(x.prio) /\ x.prio[c] \in Int
    BY RankFacts DEF Ranked
  <1>2. Elsewhere(W, V, m) /\ V[m] = W[m] \cup {c}
    BY DEF Elsewhere, Waits, Waiting
  <1>3. Keeps(x, x, Inheriting)
    BY <1>1 DEF Keeps
  <1>4. Cardinality(Low(x.prio, x.prio[c])) <= Cardinality(All) - 1 - 0
    <2>1. Cardinality(All) \in Nat
      BY NamesAssumption, FS_AddElement, FS_CardinalityType DEF All
    <2>2. Cardinality(Low(x.prio, x.prio[c])) <= Cardinality(All) - 1
      BY <1>1, LowFacts
    <2> QED BY <2>1, <2>2
  <1> HIDE DEF W, V
  <1>5. Rise(b, x.prio, x.rprio, V, x.owner, x.mtxlist, x.owner[m], x.prio[c])
    BY <1>1, <1>2, RiseStart
  <1> QED BY <1>1, <1>3, <1>4, <1>5 DEF Climbing, V

LEMMA ClimbStep ==
  ASSUME NEW b, NEW x, Ranked(b, x), NEW c \in All, NEW m \in AllMutexes, NEW p \in Int, NEW i \in Nat,
         NEW y, NEW tp \in Threads, Climbing(b, x, c, m, p, i, y, tp), Placed(y)
  PROVE  /\ y.prio[tp] >= p => Climbing(b, x, c, m, p, i + 1, y, NoThread)
         /\ ~ (y.prio[tp] >= p) =>
                Climbing(b, x, c, m, p, i + 1, Inherit(y, tp, p)[1], Inherit(y, tp, p)[2])
  <1> DEFINE V == Waiting(x, c, m)
             z == Inherit(y, tp, p)[1]
             t2 == Inherit(y, tp, p)[2]
  <1>1. /\ Listed(y) /\ Keeps(x, y, Inheriting) /\ (\A n \in AllMutexes : Used(y.q[n]) = Used(x.q[n]))
        /\ y.prio[c] = p /\ Rise(b, y.prio, x.rprio, V, x.owner, x.mtxlist, tp, p)
        /\ tp # NoThread => Cardinality(Low(y.prio, p)) <= Cardinality(All) - 1 - i
    BY DEF Climbing
  <1>2. /\ x.owner \in [AllMutexes -> Threads \cup {NoThread}] /\ Ranks(x.rprio) /\ Ranks(y.prio)
        /\ tp \in All /\ y.prio[tp] \in Int /\ tp # NoThread /\ Cardinality(All) \in Nat
    <2>1. Cardinality(All) \in Nat
      BY NamesAssumption, FS_AddElement, FS_CardinalityType DEF All
    <2> QED BY <1>1, <2>1, RankFacts, NamesAssumption DEF Listed, RankShape, Ranks, All
  <1>3. \A n \in AllMutexes : V[n] \subseteq All /\ \A e : e # c => (e \in V[n] <=> e \in Used(x.q[n]))
    BY WaitsIn DEF Waiting
  <1>4. y.owner = x.owner
    BY <1>1 DEF Keeps, Fields, Inheriting
  <1>5. ASSUME y.prio[tp] >= p PROVE Climbing(b, x, c, m, p, i + 1, y, NoThread)
    <2> HIDE DEF V
    <2>1. p <= y.prio[tp]
      BY <1>2, <1>5
    <2>2. Rise(b, y.prio, x.rprio, V, x.owner, x.mtxlist, NoThread, p)
      BY <1>1, <1>2, <1>3, <2>1, RiseEnd
    <2> QED BY <1>1, <2>2 DEF Climbing, V
  <1>6. ASSUME ~ (y.prio[tp] >= p) PROVE Climbing(b, x, c, m, p, i + 1, z, t2)
    <2>1. y.prio[tp] < p /\ tp # c
      BY <1>1, <1>2, <1>6
    <2>2. Listed(z) /\ Raised(y, z, tp, p) /\ After(Waits(y.q), y.owner, tp, t2)
      BY <1>1, InheritListed
    <2> HIDE DEF z, t2
    <2>3. After(V, x.owner, tp, t2)
      <3>1. \A n \in AllMutexes : tp \in Waits(y.q)[n] <=> tp \in V[n]
        BY <1>1, <1>3, <2>1 DEF Waits
      <3> HIDE DEF V
      <3> QED BY <1>4, <2>2, <3>1 DEF After
    <2> HIDE DEF V
    <2>4. Rise(b, z.prio, x.rprio, V, x.owner, x.mtxlist, t2, p)
      <3>1. Gives(y.prio, z.prio, tp, p)
        BY <2>2 DEF Raised
      <3> QED BY <1>1, <1>2, <1>3, <2>1, <2>3, <3>1, RiseStep
    <2>5. /\ Keeps(x, z, Inheriting) /\ (\A n \in AllMutexes : Used(z.q[n]) = Used(x.q[n]))
          /\ z.prio[c] = p
      BY <1>1, <2>1, <2>2 DEF Raised, Keeps, Gives
    <2>6. t2 \in Threads \cup {NoThread}
      BY <1>2, <2>3 DEF After
    <2>7. Cardinality(Low(z.prio, p)) <= Cardinality(All) - 1 - (i + 1)
      <3>1. Cardinality(Low(z.prio, p)) = Cardinality(Low(y.prio, p)) - 1
            /\ Cardinality(Low(y.prio, p)) \in Nat
        BY <1>2, <2>1, <2>2, LowFacts DEF Raised
      <3>2. Cardinality(Low(y.prio, p)) <= Cardinality(All) - 1 - i
        BY <1>1, <1>2
      <3> QED BY ONLY <1>2, <3>1, <3>2, i \in Nat
    <2> QED BY <2>2, <2>4, <2>5, <2>6, <2>7 DEF Climbing, V
  <1> QED BY <1>5, <1>6

LEMMA InheritAllRanked ==
  ASSUME NEW b, NEW x, Ranked(b, x), NEW v, NEW s0, Doing(x, v, s0), NEW c \in All, NEW m \in AllMutexes,
         x.owner[m] # NoThread, NEW y, y = InheritAll(x, x.owner[m], x.prio[c])
  PROVE  /\ Listed(y) /\ Keeps(x, y, Inheriting) /\ \A n \in AllMutexes : Used(y.q[n]) = Used(x.q[n])
         /\ Held(b, y.prio, x.rprio, Waiting(x, c, m), x.owner, x.mtxlist)
  <1> DEFINE N == Cardinality(All)
             p == x.prio[c]
             tp == x.owner[m]
             g(a, i) == IF a[2] = NoThread THEN a
                        ELSE IF a[1].prio[a[2]] >= p THEN <<a[1], NoThread>>
                        ELSE Inherit(a[1], a[2], p)
             P(i, a) == Doing(a[1], v, s0) /\ Climbing(b, x, c, m, p, i, a[1], a[2])
  <1>1. N \in Nat
    BY NamesAssumption, FS_AddElement, FS_CardinalityType DEF All
  <1>2. InheritAll(x, tp, p) = Fold(<<x, tp>>, N, g)[N][1]
    BY DEF InheritAll, Fold
  <1>3. P(0, <<x, tp>>)
    BY ClimbStart
  <1>4. p \in Int
    BY RankFacts
  <1> HIDE DEF p
  <1>5. \A i \in 1..N : \A a : P(i - 1, a) => P(i, g(a, i))
    <2> SUFFICES ASSUME NEW i \in 1..N, NEW a, P(i - 1, a) PROVE P(i, g(a, i))
      OBVIOUS
    <2>0. i - 1 \in Nat /\ (i - 1) + 1 = i
      BY <1>1
    <2>1. CASE a[2] = NoThread
      <3>1. Climbing(b, x, c, m, p, i, a[1], a[2])
        BY <2>1 DEF Climbing
      <3> QED BY <2>1, <3>1
    <2>2. CASE a[2] # NoThread
      <3>1. a[2] \in Threads /\ Placed(a[1])
        BY <2>2, DoingPlaced DEF Climbing
      <3>2. /\ a[1].prio[a[2]] >= p => Climbing(b, x, c, m, p, i, a[1], NoThread)
            /\ ~ (a[1].prio[a[2]] >= p) =>
                   Climbing(b, x, c, m, p, i, Inherit(a[1], a[2], p)[1], Inherit(a[1], a[2], p)[2])
        BY <1>4, <2>0, <3>1, ClimbStep
      <3>3. Doing(Inherit(a[1], a[2], p)[1], v, s0)
        BY <3>1, InheritGood
      <3> QED BY <2>2, <3>2, <3>3
    <2> QED BY <2>1, <2>2
  <1> HIDE DEF g, P, N
  <1>6. FoldKeeps(<<x, tp>>, N, g, P)
    BY <1>1, FoldKept
  <1> DEFINE a == Fold(<<x, tp>>, N, g)[N]
  <1>7. P(N, a)
    BY <1>3, <1>5, <1>6 DEF FoldKeeps
  <1>8. y = a[1]
    BY <1>2 DEF p
  <1> HIDE DEF a
  <1>9. Climbing(b, x, c, m, p, N, y, a[2])
    BY <1>7, <1>8 DEF P
  <1>10. a[2] = NoThread
    <2> SUFFICES ASSUME a[2] # NoThread PROVE FALSE
      OBVIOUS
    <2>1. Cardinality(Low(y.prio, p)) <= N - 1 - N /\ Ranks(y.prio)
      BY <1>9 DEF Climbing, N, Listed, RankShape
    <2>2. Cardinality(Low(y.prio, p)) \in Nat
      BY <1>4, <2>1, LowFacts
    <2> QED BY <1>1, <2>1, <2>2
  <1>11. Held(b, y.prio, x.rprio, Waiting(x, c, m), x.owner, x.mtxlist)
    BY <1>9, <1>10, RiseHeld DEF Climbing
  <1> QED BY <1>9, <1>11 DEF Climbing

LEMMA LockPeak ==
  ASSUME NEW b, NEW x, Peak(b, x), NEW v, NEW s0, Doing(x, v, s0), x.cur # Idle, NEW m \in AllMutexes
  PROVE  Peak(b, chMtxLockS(x, m)) /\ Peak(b, chMtxTryLockS(x, m))
  <1> DEFINE c == x.cur
             k1 == InheritAll(x, x.owner[m], x.prio[c])
             k2 == [k1 EXCEPT !.q[m] = prio_insert(@, c, k1.prio), !.u[c] = Obj(m)]
  <1>1. /\ Ranked(b, x) /\ c \in All /\ c \in Threads /\ x.st[c] = "CURRENT" /\ DOMAIN x = Fields
    BY RankFacts DEF Peak, Doing, All
  <1>2. CASE x.owner[m] = NoThread
    <2>1. chMtxLockS(x, m) = Own(x, m, c) /\ chMtxTryLockS(x, m) = Own(x, m, c)
      BY <1>2 DEF chMtxLockS, chMtxTryLockS
    <2>2. Peak(b, Own(x, m, c))
      BY <1>1, <1>2, OwnRanked DEF Peak
    <2> QED BY <2>1, <2>2
  <1>3. CASE x.owner[m] # NoThread
    <2>1. chMtxLockS(x, m) = chSchGoSleepS(k2, "WTMTX", [fn |-> "mtx"]) /\ chMtxTryLockS(x, m) = x
      BY <1>3 DEF chMtxLockS, chMtxTryLockS
    <2>2. /\ Listed(k1) /\ Keeps(x, k1, Inheriting) /\ (\A n \in AllMutexes : Used(k1.q[n]) = Used(x.q[n]))
          /\ Held(b, k1.prio, x.rprio, Waiting(x, c, m), x.owner, x.mtxlist)
      BY <1>1, <1>3, InheritAllRanked
    <2> HIDE DEF k1
    <2>3. /\ k1.rprio = x.rprio /\ k1.owner = x.owner /\ k1.mtxlist = x.mtxlist /\ k1.cur = c
          /\ DOMAIN k1 = Fields
      BY <2>2 DEF Keeps, Fields, Inheriting
    <2> DEFINE r == prio_insert(k1.q[m], c, k1.prio)
    <2>4. k1.q[m] \in Seq(All) /\ Ordered(k1.prio, k1.q[m]) /\ Ranks(k1.prio) /\ DOMAIN k1.q = WaitQueues
          /\ m \in WaitQueues
      BY <2>2 DEF Listed, RankShape, WaitQueues
    <2>5. r \in Seq(All) /\ Ordered(k1.prio, r) /\ Used(r) = Used(k1.q[m]) \cup {c}
      BY <1>1, <2>4, OrderPrio
    <2>6. Keeps(k1, k2, {"q", "u"}) /\ k2.q = [k1.q EXCEPT ![m] = r]
      BY <2>3 DEF Keeps, Fields
    <2> HIDE DEF r, k2
    <2>7. k2.q[m] = r /\ DOMAIN k2.q = WaitQueues /\ \A n \in AllMutexes : n # m => k2.q[n] = k1.q[n]
      BY <2>4, <2>6 DEF WaitQueues
    <2>8. /\ DOMAIN k2 = Fields /\ k2.cur = c /\ k2.ready = k1.ready /\ k2.prio = k1.prio
          /\ k2.rprio = k1.rprio /\ k2.owner = k1.owner /\ k2.mtxlist = k1.mtxlist
          /\ k2.st = k1.st /\ k2.more = k1.more
      BY <2>3, <2>6 DEF Keeps, Fields
    <2>9. Listed(k2)
      <3>1. \A n \in AllMutexes : k2.q[n] \in Seq(All) /\ Ordered(k2.prio, k2.q[n])
        BY <2>2, <2>5, <2>7, <2>8 DEF Listed, RankShape
      <3>2. RankShape(k2)
        BY <2>2, <2>3, <2>7, <2>8, <3>1 DEF Listed, RankShape
      <3> QED BY <2>2, <2>8, <3>1, <3>2 DEF Listed
    <2>10. Waits(k2.q) = Waiting(x, c, m)
      <3>1. ASSUME NEW n \in AllMutexes
            PROVE  Used(k2.q[n]) = IF n = m THEN Used(x.q[n]) \cup {c} ELSE Used(x.q[n])
        BY <2>2, <2>5, <2>7
      <3> QED BY <3>1 DEF Waits, Waiting
    <2>11. Ranked(b, k2)
      BY <2>2, <2>3, <2>8, <2>9, <2>10 DEF Ranked
    <2>12. Peak(b, chSchGoSleepS(k2, "WTMTX", [fn |-> "mtx"]))
      BY <2>8, <2>11, SleepPeak
    <2> QED BY <2>1, <2>12
  <1> QED BY <1>2, <1>3

-----------------------------------------------------------------------------
\* The calls that change nothing that priorities depend on.
LEMMA PlainPeak ==
  ASSUME NEW b, NEW x, Ranked(b, x), NEW y, Keeps(x, y, Plain \cup {"q", "more", "st"}),
         y.q = x.q \/ \E o \in Apart : \E r : Upd(x.q, y.q, o, r),
         y.more = x.more \/ \E c, m : Price(m) /\ Upd(x.more, y.more, c, m),
         y.st = x.st \/ \E t, s : s # "FINAL" /\ Upd(x.st, y.st, t, s)
  PROVE  Ranked(b, y) /\ (Highest(x) => Highest(y)) /\ y.cur = x.cur /\ y.mtxlist = x.mtxlist
  <1>1. Like(x, y)
    BY PlainLike
  <1>2. y.cur = x.cur /\ y.mtxlist = x.mtxlist
    BY DEF Keeps, Plain, Fields
  <1> QED BY <1>1, <1>2, LikeRanked

LEMMA SlotIn ==
  ASSUME NEW x, Good(x), NEW o \in WaitQueues
  PROVE  x.q[o] \in Seq(All) /\ (x.q[o] # <<>> => Head(x.q[o]) \in All)
  <1>1. Exactly(x.q[o], Waiters(x, x.st, o))
    BY DEF Good, Core, Queues
  <1>2. x.q[o] \in Seq(All)
    BY <1>1, UsedIs
  <1> QED BY <1>2

LEMMA ApartFacts ==
  Apart \subseteq WaitQueues /\ (AllSems \cup Conds \cup {"iq", "oq"} \cup All) \subseteq Apart
  BY NamesAssumption DEF Apart, WaitQueues

LEMMA SemHead ==
  ASSUME NEW x, Good(x), NEW s \in AllSems, x.cnt[s] + 1 <= 0
  PROVE  Head(x.q[s]) \in All
  <1>1. x.cnt[s] \in Int /\ Len(x.q[s]) = IF x.cnt[s] < 0 THEN -x.cnt[s] ELSE 0
    BY DEF Good, Core, Counters
  <1>2. x.q[s] # <<>>
    BY <1>1
  <1>3. s \in WaitQueues
    BY DEF WaitQueues
  <1> QED BY <1>2, <1>3, SlotIn

\* The running thread sleeps in a queue that is in no order, or in none.
LEMMA GoesTo ==
  ASSUME NEW b, NEW x, Ranked(b, x), x.cur # Idle, NEW y, Keeps(x, y, Plain \cup {"q", "more"}),
         y.q = x.q \/ \E o \in Apart : \E r : Upd(x.q, y.q, o, r),
         y.more = x.more \/ \E c, m : Price(m) /\ Upd(x.more, y.more, c, m),
         NEW s, s # "FINAL", NEW cont, NEW time
  PROVE  Peak(b, chSchGoSleepS(y, s, cont)) /\ Peak(b, chSchGoSleepTimeoutS(y, s, time, cont))
  <1>1. Keeps(x, y, Plain \cup {"q", "more", "st"}) /\ y.st = x.st /\ y.cur = x.cur
    BY DEF Keeps, Plain, Fields
  <1>2. Ranked(b, y) /\ y.cur # Idle
    BY <1>1, PlainPeak
  <1> QED BY <1>2, SleepPeak, SleepTimeoutPeak

LEMMA NoPrice == Price(NoCont)
  BY DEF Price, NoCont

\* Threads are made ready one after the other.
LEMMA EachRanked ==
  ASSUME NEW b, NEW x, Ranked(b, x), NEW s \in Seq(All), NEW m
  PROVE  /\ Ranked(b, ReadyEach(x, s, m)) /\ ReadyEach(x, s, m).cur = x.cur
         /\ ReadyEach(x, s, m).mtxlist = x.mtxlist
  <1> DEFINE g(a, i) == ReadyMsg(a, s[i], m)
             P(i, a) == Ranked(b, a) /\ a.cur = x.cur /\ a.mtxlist = x.mtxlist
             N == Len(s)
  <1>1. ReadyEach(x, s, m) = Fold(x, N, g)[N]
    BY DEF ReadyEach, Fold
  <1>2. N \in Nat /\ \A i \in 1..N : s[i] \in All
    OBVIOUS
  <1>3. P(0, x)
    OBVIOUS
  <1> HIDE DEF N
  <1>4. \A i \in 1..N : \A a : P(i - 1, a) => P(i, g(a, i))
    BY <1>2, ReadyMsgRanked
  <1>5. FoldKeeps(x, N, g, P)
    <2> HIDE DEF g, P
    <2> QED BY <1>2, FoldKept
  <1>6. P(N, Fold(x, N, g)[N])
    <2> HIDE DEF g, P
    <2> QED BY <1>2, <1>3, <1>4, <1>5 DEF FoldKeeps
  <1> QED BY <1>1, <1>6

LEMMA ThdSleepPeak ==
  ASSUME NEW b, NEW x, Peak(b, x), x.cur # Idle, NEW time
  PROVE  Peak(b, chThdSleepS(x, time)) /\ Peak(b, chThdSleepUntil(x, time))
  <1>1. Ranked(b, x)
    BY DEF Peak
  <1>2. \A d : Peak(b, chThdSleepS(x, d))
    BY <1>1, SleepTimeoutPeak DEF chThdSleepS
  <1> QED BY <1>2 DEF chThdSleepUntil

LEMMA CountRanked ==
  ASSUME NEW b, NEW x, Ranked(b, x), NEW s \in AllSems, NEW n, NEW y, y = [x EXCEPT !.cnt[s] = n]
  PROVE  /\ Ranked(b, y) /\ (Highest(x) => Highest(y)) /\ y.cur = x.cur /\ y.q = x.q /\ y.u = x.u
         /\ Keeps(x, y, Plain)
  <1>1. DOMAIN x = Fields
    BY RankFacts
  <1>2. Keeps(x, y, Plain) /\ y.q = x.q /\ y.st = x.st /\ y.more = x.more /\ y.u = x.u /\ y.cur = x.cur
    BY <1>1 DEF Keeps, Plain, Fields
  <1>3. Keeps(x, y, Plain \cup {"q", "more", "st"})
    BY <1>2 DEF Keeps
  <1> QED BY <1>2, <1>3, PlainPeak

\* The first thread of a queue that is in no order leaves it.
LEMMA TakenRanked ==
  ASSUME NEW b, NEW x, Ranked(b, x), NEW o \in Apart, NEW r, NEW y, y = [x EXCEPT !.q[o] = r]
  PROVE  Ranked(b, y) /\ (Highest(x) => Highest(y)) /\ y.cur = x.cur /\ y.mtxlist = x.mtxlist
  <1>1. DOMAIN x = Fields
    BY RankFacts
  <1>2. /\ Keeps(x, y, Plain \cup {"q", "more", "st"}) /\ Upd(x.q, y.q, o, r) /\ y.st = x.st
        /\ y.more = x.more /\ y.cur = x.cur
    BY <1>1 DEF Keeps, Plain, Fields, Upd
  <1> QED BY <1>2, PlainPeak

LEMMA SignalFrom ==
  ASSUME NEW b, NEW x0, Good(x0), NEW x, Ranked(b, x), x.cnt = x0.cnt, x.q = x0.q, NEW s \in AllSems
  PROVE  /\ Ranked(b, chSemSignalI(x, s)) /\ (Highest(x) => Peak(b, chSemSignal(x, s)))
  <1> DEFINE k1 == [x EXCEPT !.cnt[s] = @ + 1]
             k2 == [k1 EXCEPT !.q[s] = Tail(@)]
             t == Head(x.q[s])
  <1>1. Ranked(b, k1) /\ (Highest(x) => Highest(k1))
    BY CountRanked
  <1>2. s \in Apart
    BY ApartFacts
  <1>3. Ranked(b, k2) /\ (Highest(k1) => Highest(k2))
    <2> HIDE DEF k1
    <2> QED BY <1>1, <1>2, TakenRanked
  <1>4. k1.cnt[s] <= 0 => t \in All
    <2>1. k1.cnt[s] = x.cnt[s] + 1
      <3>1. DOMAIN x.cnt = AllSems /\ DOMAIN x = Fields
        BY CoreShape, RankFacts DEF Good
      <3> QED BY <3>1 DEF Fields
    <2> HIDE DEF k1, t
    <2> QED BY <2>1, SemHead DEF t
  <1>5. chSemSignalI(x, s) = IF k1.cnt[s] <= 0 THEN ReadyMsg(k2, t, "RDY_OK") ELSE k1
    BY DEF chSemSignalI
  <1>6. chSemSignal(x, s) = IF k1.cnt[s] <= 0 THEN chSchWakeupS(k2, t, "RDY_OK") ELSE k1
    BY DEF chSemSignal
  <1> HIDE DEF k1, k2, t
  <1>7. k1.cnt[s] <= 0 => Ranked(b, ReadyMsg(k2, t, "RDY_OK"))
    BY <1>3, <1>4, ReadyMsgRanked
  <1>8. k1.cnt[s] <= 0 /\ Highest(k2) => Peak(b, chSchWakeupS(k2, t, "RDY_OK"))
    BY <1>3, <1>4, WakePeak
  <1> QED BY <1>1, <1>3, <1>5, <1>6, <1>7, <1>8 DEF Peak

LEMMA SignalPeak ==
  ASSUME NEW b, NEW x, Good(x), Ranked(b, x), NEW s \in AllSems
  PROVE  /\ Ranked(b, chSemSignalI(x, s)) /\ (Highest(x) => Peak(b, chSemSignal(x, s)))
  BY SignalFrom

\* The two ways a wait for a semaphore can go.
LEMMA SemWaitRanked ==
  ASSUME NEW b, NEW x, Ranked(b, x), x.cur # Idle, NEW s \in AllSems, NEW k1, k1 = [x EXCEPT !.cnt[s] = @ - 1],
         NEW k2, k2 = [k1 EXCEPT !.u[x.cur] = Obj(s), !.q[s] = queue_insert(@, x.cur)], NEW cont, NEW time
  PROVE  /\ Ranked(b, k1) /\ (Highest(x) => Highest(k1)) /\ k1.cur = x.cur
         /\ Peak(b, chSchGoSleepS(k2, "WTSEM", cont)) /\ Peak(b, chSchGoSleepTimeoutS(k2, "WTSEM", time, cont))
  <1>1. Ranked(b, k1) /\ (Highest(x) => Highest(k1)) /\ k1.cur = x.cur
    BY CountRanked
  <1>2. DOMAIN k1 = Fields
    BY <1>1, RankFacts
  <1>3. s \in Apart
    BY ApartFacts
  <1>4. /\ Keeps(k1, k2, Plain \cup {"q", "more"}) /\ Upd(k1.q, k2.q, s, queue_insert(k1.q[s], x.cur))
        /\ k2.more = k1.more
    BY <1>2 DEF Keeps, Plain, Fields, Upd
  <1> QED BY <1>1, <1>3, <1>4, GoesTo

LEMMA SemWaitPeak ==
  ASSUME NEW b, NEW x, Peak(b, x), x.cur # Idle, NEW s \in AllSems
  PROVE  Peak(b, chSemWaitS(x, s))
  <1> DEFINE k1 == [x EXCEPT !.cnt[s] = @ - 1]
             k2 == [k1 EXCEPT !.u[x.cur] = Obj(s), !.q[s] = queue_insert(@, x.cur)]
             cont == [fn |-> "sem"]
  <1>1. chSemWaitS(x, s) = IF k1.cnt[s] >= 0 THEN k1 ELSE chSchGoSleepS(k2, "WTSEM", cont)
    BY DEF chSemWaitS
  <1> HIDE DEF cont
  <1>2. k1 = [x EXCEPT !.cnt[s] = @ - 1] /\ Ranked(b, x) /\ Highest(x)
    BY DEF Peak
  <1> HIDE DEF k1
  <1>3. k2 = [k1 EXCEPT !.u[x.cur] = Obj(s), !.q[s] = queue_insert(@, x.cur)]
    OBVIOUS
  <1> HIDE DEF k2
  <1>4. Ranked(b, k1) /\ (Highest(x) => Highest(k1))
    BY <1>2, CountRanked
  <1>5. Peak(b, chSchGoSleepS(k2, "WTSEM", cont))
    BY <1>2, <1>3, SemWaitRanked
  <1> QED BY <1>1, <1>2, <1>4, <1>5 DEF Peak

LEMMA SemWaitTimeoutPeak ==
  ASSUME NEW b, NEW x, Peak(b, x), x.cur # Idle, NEW s \in AllSems, NEW time
  PROVE  Peak(b, chSemWaitTimeoutS(x, s, time, [fn |-> "sem"], LAMBDA a : a))
  <1> DEFINE k1 == [x EXCEPT !.cnt[s] = @ - 1]
             k2 == [k1 EXCEPT !.u[x.cur] = Obj(s), !.q[s] = queue_insert(@, x.cur)]
             cont == [fn |-> "sem"]
             z == chSemWaitTimeoutS(x, s, time, [fn |-> "sem"], LAMBDA a : a)
  <1>1. z = IF k1.cnt[s] >= 0 THEN k1
            ELSE IF time = TIME_IMMEDIATE THEN x ELSE chSchGoSleepTimeoutS(k2, "WTSEM", time, cont)
    BY DEF chSemWaitTimeoutS
  <1>2. Ranked(b, x) /\ Highest(x)
    BY DEF Peak
  <1>3. Peak(b, k1)
    BY <1>2, CountRanked DEF Peak
  <1>4. k1 = [x EXCEPT !.cnt[s] = @ - 1]
    OBVIOUS
  <1> HIDE DEF k1
  <1>5. k2 = [k1 EXCEPT !.u[x.cur] = Obj(s), !.q[s] = queue_insert(@, x.cur)]
    OBVIOUS
  <1> HIDE DEF k2, cont, z
  <1>6. Peak(b, chSchGoSleepTimeoutS(k2, "WTSEM", time, cont))
    BY <1>2, <1>4, <1>5, SemWaitRanked
  <1>7. Peak(b, z)
    BY <1>1, <1>3, <1>6
  <1> QED BY <1>7 DEF z

LEMMA AddCounterPeak ==
  ASSUME NEW b, NEW x, Good(x), Ranked(b, x), NEW s \in AllSems, NEW n \in Nat
  PROVE  Ranked(b, chSemAddCounterI(x, s, n))
  <1> DEFINE g(a, i) == chSemSignalI(a, s)
             P(i, a) == Good(a) /\ Ranked(b, a)
  <1>1. chSemAddCounterI(x, s, n) = Fold(x, n, g)[n]
    BY DEF chSemAddCounterI, Fold
  <1>2. P(0, x)
    OBVIOUS
  <1>3. \A i \in 1..n : \A a : P(i - 1, a) => P(i, g(a, i))
    BY SignalI, SignalPeak
  <1>4. FoldKeeps(x, n, g, P)
    <2> HIDE DEF g, P
    <2> QED BY FoldKept
  <1>5. P(n, Fold(x, n, g)[n])
    <2> HIDE DEF g, P
    <2> QED BY <1>2, <1>3, <1>4 DEF FoldKeeps
  <1> QED BY <1>1, <1>5

LEMMA SignalWaitPeak ==
  ASSUME NEW b, NEW x, Calling(x), Ranked(b, x), NEW s \in AllSems, NEW w \in AllSems
  PROVE  Peak(b, chSemSignalWait(x, s, w))
  <1> DEFINE k0 == chSemSignalI(x, s)
             k1 == [k0 EXCEPT !.cnt[w] = @ - 1]
             k2 == [k1 EXCEPT !.u[k0.cur] = Obj(w), !.q[w] = queue_insert(@, k0.cur)]
             cont == [fn |-> "sem"]
  <1>1. Good(x) /\ x.cur # Idle
    BY DEF Calling
  <1>2. Ranked(b, k0) /\ k0.cur = x.cur
    BY <1>1, SignalI, SignalPeak DEF Same
  <1>3. k2 = [k1 EXCEPT !.q[w] = queue_insert(@, x.cur), !.u[x.cur] = Obj(w)]
    BY <1>2
  <1>4. chSemSignalWait(x, s, w) = IF k1.cnt[w] < 0 THEN chSchGoSleepS(k2, "WTSEM", cont)
                                   ELSE chSchRescheduleS(k1)
    BY <1>3 DEF chSemSignalWait
  <1> HIDE DEF k0, cont
  <1>5. k1 = [k0 EXCEPT !.cnt[w] = @ - 1]
    OBVIOUS
  <1> HIDE DEF k1
  <1>6. k2 = [k1 EXCEPT !.u[k0.cur] = Obj(w), !.q[w] = queue_insert(@, k0.cur)]
    OBVIOUS
  <1> HIDE DEF k2
  <1>7. Ranked(b, k1) /\ Peak(b, chSchGoSleepS(k2, "WTSEM", cont))
    BY <1>1, <1>2, <1>5, <1>6, SemWaitRanked
  <1> QED BY <1>4, <1>7, ReschedulePeak

LEMMA BSemSignalPeak ==
  ASSUME NEW b, NEW x, Good(x), Ranked(b, x), NEW s \in AllSems
  PROVE  Peak(b, chBSemSignal(x, s))
  BY SignalPeak, ReschedulePeak DEF chBSemSignal, chBSemSignalI

\* All threads of a queue that is in no order are made ready.
LEMMA EmptiedRanked ==
  ASSUME NEW b, NEW x, Ranked(b, x), NEW y, Keeps(x, y, Plain \cup {"q"}),
         \E o \in Apart : \E r : Upd(x.q, y.q, o, r), NEW s \in Seq(All), NEW m
  PROVE  /\ Ranked(b, ReadyEach(y, s, m)) /\ ReadyEach(y, s, m).cur = x.cur
         /\ ReadyEach(y, s, m).mtxlist = x.mtxlist
  <1>1. Keeps(x, y, Plain \cup {"q", "more", "st"}) /\ y.st = x.st /\ y.more = x.more
    BY DEF Keeps, Plain, Fields
  <1>2. Ranked(b, y) /\ y.cur = x.cur /\ y.mtxlist = x.mtxlist
    BY <1>1, PlainPeak
  <1> QED BY <1>2, EachRanked

LEMMA SemResetPeak ==
  ASSUME NEW b, NEW x, Good(x), Ranked(b, x), NEW s \in AllSems, NEW n
  PROVE  Ranked(b, chSemResetI(x, s, n)) /\ Ranked(b, chBSemResetI(x, s, n)) /\ Peak(b, chSemReset(x, s, n))
  <1>1. ASSUME NEW c PROVE Ranked(b, chSemResetI(x, s, c))
    <2> DEFINE w == x.q[s]
               r == [i \in 1..Len(w) |-> w[Len(w) + 1 - i]]
               y == [x EXCEPT !.cnt[s] = c, !.q[s] = <<>>]
    <2>1. s \in Apart /\ s \in WaitQueues
      BY ApartFacts
    <2>2. w \in Seq(All)
      BY <2>1, SlotIn
    <2>3. r \in Seq(All)
      <3> HIDE DEF w
      <3>1. Len(w) \in Nat /\ \A i \in 1..Len(w) : w[Len(w) + 1 - i] \in All
        BY <2>2
      <3> QED BY <3>1
    <2>0. Keeps(x, y, Plain \cup {"q"})
      BY RankFacts DEF Keeps, Plain, Fields
    <2>4. Upd(x.q, y.q, s, <<>>)
      BY RankFacts DEF Fields, Upd
    <2>5. chSemResetI(x, s, c) = ReadyEach(y, r, "RDY_RESET")
      BY DEF chSemResetI
    <2> HIDE DEF y, r, w
    <2>6. \E o \in Apart : \E e : Upd(x.q, y.q, o, e)
      BY <2>1, <2>4
    <2>7. Ranked(b, ReadyEach(y, r, "RDY_RESET"))
      BY <2>0, <2>3, <2>6, EmptiedRanked
    <2> QED BY <2>5, <2>7
  <1> QED BY <1>1, ReschedulePeak DEF chBSemResetI, chSemReset

LEMMA CondPeak ==
  ASSUME NEW b, NEW x, Good(x), Ranked(b, x), NEW o \in Conds
  PROVE  /\ Ranked(b, chCondSignalI(x, o)) /\ (Highest(x) => Peak(b, chCondSignal(x, o)))
         /\ Peak(b, chCondBroadcast(x, o))
  <1> DEFINE k1 == [x EXCEPT !.q[o] = Tail(@)]
             k2 == [x EXCEPT !.q[o] = <<>>]
             t == Head(x.q[o])
  <1>1. o \in Apart /\ o \in WaitQueues
    BY ApartFacts
  <1>2. Ranked(b, k1) /\ (Highest(x) => Highest(k1)) /\ Ranked(b, k2)
    <2> DEFINE r1 == Tail(x.q[o])
               r2 == <<>>
    <2>1. k1 = [x EXCEPT !.q[o] = r1] /\ k2 = [x EXCEPT !.q[o] = r2]
      OBVIOUS
    <2> HIDE DEF k1, k2, r1, r2
    <2> QED BY <1>1, <2>1, TakenRanked
  <1>3. x.q[o] \in Seq(All) /\ (x.q[o] # <<>> => t \in All)
    BY <1>1, SlotIn
  <1>4. /\ chCondSignalI(x, o) = IF x.q[o] = <<>> THEN x ELSE ReadyMsg(k1, t, "RDY_OK")
        /\ chCondSignal(x, o) = IF x.q[o] = <<>> THEN x ELSE chSchWakeupS(k1, t, "RDY_OK")
        /\ chCondBroadcast(x, o) = chSchRescheduleS(ReadyEach(k2, x.q[o], "RDY_RESET"))
    BY DEF chCondSignalI, chCondSignal, chCondBroadcast, chCondBroadcastI
  <1> HIDE DEF k1, k2, t
  <1>5. x.q[o] # <<>> => Ranked(b, ReadyMsg(k1, t, "RDY_OK"))
    BY <1>2, <1>3, ReadyMsgRanked
  <1>6. x.q[o] # <<>> /\ Highest(x) => Peak(b, chSchWakeupS(k1, t, "RDY_OK"))
    BY <1>2, <1>3, WakePeak
  <1>7. Peak(b, chSchRescheduleS(ReadyEach(k2, x.q[o], "RDY_RESET")))
    BY <1>2, <1>3, EachRanked, ReschedulePeak
  <1> QED BY <1>4, <1>5, <1>6, <1>7 DEF Peak

LEMMA PlainSame ==
  ASSUME NEW b, NEW x, Ranked(b, x), NEW y, Keeps(x, y, Plain)
  PROVE  Ranked(b, y) /\ (Highest(x) => Highest(y)) /\ y.cur = x.cur /\ y.mtxlist = x.mtxlist
  <1>1. Keeps(x, y, Plain \cup {"q", "more", "st"}) /\ y.q = x.q /\ y.st = x.st /\ y.more = x.more
    BY DEF Keeps, Plain, Fields
  <1> QED BY <1>1, PlainPeak

LEMMA CondWaitPeak ==
  ASSUME NEW b, NEW x, Calling(x), Ranked(b, x), x.mtxlist[x.cur] # <<>>, NEW o \in Conds, NEW time
  PROVE  Peak(b, chCondWaitS(x, o)) /\ Peak(b, chCondWaitTimeoutS(x, o, time))
  <1> DEFINE m == Head(x.mtxlist[x.cur])
             k1 == chMtxUnlockS(x)
             r == prio_insert(k1.q[o], x.cur, k1.prio)
             k2 == [k1 EXCEPT !.u[x.cur] = Obj(o), !.q[o] = prio_insert(@, x.cur, k1.prio)]
             c1 == [fn |-> "cond", mp |-> m]
             c2 == [fn |-> "condt", mp |-> m]
  <1>1. InCall(x) /\ x.more[x.cur].fn = "none" /\ x.cur # Idle
    BY CallingIn, CallingFacts
  <1>2. Ranked(b, k1)
    BY <1>1, HandOverPeak
  <1>3. k1.cur = x.cur
    BY <1>1, HandOverGood DEF Same
  <1>4. /\ chCondWaitS(x, o) = chSchGoSleepS(k2, "WTCOND", c1)
        /\ chCondWaitTimeoutS(x, o, time) = chSchGoSleepTimeoutS(k2, "WTCOND", time, c2)
    BY DEF chCondWaitS, chCondWaitTimeoutS
  <1> HIDE DEF k1, c1, c2
  <1>5. Keeps(k1, k2, Plain \cup {"q", "more"}) /\ Upd(k1.q, k2.q, o, r) /\ k2.more = k1.more
    BY <1>2, RankFacts DEF Keeps, Plain, Fields, Upd
  <1> HIDE DEF k2, r
  <1>6. o \in Apart
    BY ApartFacts
  <1>7. Peak(b, chSchGoSleepS(k2, "WTCOND", c1)) /\ Peak(b, chSchGoSleepTimeoutS(k2, "WTCOND", time, c1))
    BY <1>1, <1>2, <1>3, <1>5, <1>6, GoesTo
  <1>8. Peak(b, chSchGoSleepS(k2, "WTCOND", c2)) /\ Peak(b, chSchGoSleepTimeoutS(k2, "WTCOND", time, c2))
    BY <1>1, <1>2, <1>3, <1>5, <1>6, GoesTo
  <1> QED BY <1>4, <1>7, <1>8

LEMMA ContPeak ==
  ASSUME NEW b, NEW x, Peak(b, x), NEW c, NEW y, y = [x EXCEPT !.cont[c] = NoCont]
  PROVE  Peak(b, y) /\ y.cur = x.cur
  <1>1. Ranked(b, x) /\ Highest(x)
    BY DEF Peak
  <1>2. Keeps(x, y, Plain)
    BY <1>1, RankFacts DEF Keeps, Plain, Fields
  <1> QED BY <1>1, <1>2, PlainSame DEF Peak

LEMMA AfterCondPeak ==
  ASSUME NEW b, NEW x, InCall(x), Peak(b, x), NEW m \in AllMutexes
  PROVE  Peak(b, AfterCondWait(x, m)) /\ Peak(b, AfterCondWaitTimeout(x, m))
  <1> DEFINE y == [x EXCEPT !.cont[x.cur] = NoCont]
  <1>1. Good(y) /\ x.cur # Idle
    BY CallDone DEF InCall
  <1>2. Peak(b, y) /\ y.cur = x.cur
    BY ContPeak
  <1>3. AfterCondWait(x, m) = chMtxLockS(y, m)
    BY DEF AfterCondWait
  <1>4. AfterCondWaitTimeout(x, m) = y \/ AfterCondWaitTimeout(x, m) = AfterCondWait(x, m)
    BY DEF AfterCondWaitTimeout
  <1> HIDE DEF y
  <1>5. Doing(y, y.st, "CURRENT")
    BY <1>1, DoingGood
  <1>6. Peak(b, chMtxLockS(y, m))
    BY <1>1, <1>2, <1>5, LockPeak
  <1> QED BY <1>2, <1>3, <1>4, <1>6

\* Events.
LEMMA EvtOwnPeak ==
  ASSUME NEW b, NEW x, Peak(b, x), NEW mask, NEW kind
  PROVE  /\ Peak(b, chEvtGetAndClearEvents(x, mask)) /\ Peak(b, chEvtAddEvents(x, mask))
         /\ Peak(b, TakeEvents(x, kind, mask)) /\ Peak(b, chEvtGetAndClearFlags(x))
         /\ Peak(b, chEvtRegisterMask(x, mask)) /\ Peak(b, chEvtUnregister(x))
  <1>1. Ranked(b, x) /\ Highest(x) /\ DOMAIN x = Fields
    BY RankFacts DEF Peak
  <1>2. \A y : Keeps(x, y, Plain) => Peak(b, y)
    BY <1>1, PlainSame DEF Peak
  <1>3. Keeps(x, chEvtGetAndClearEvents(x, mask), Plain)
    BY <1>1 DEF chEvtGetAndClearEvents, Keeps, Plain, Fields
  <1>4. Keeps(x, chEvtAddEvents(x, mask), Plain)
    BY <1>1 DEF chEvtAddEvents, Keeps, Plain, Fields
  <1>5. Keeps(x, TakeEvents(x, kind, mask), Plain)
    BY <1>1 DEF TakeEvents, Keeps, Plain, Fields
  <1>6. Keeps(x, chEvtGetAndClearFlags(x), Plain)
    BY <1>1 DEF chEvtGetAndClearFlags, Keeps, Plain, Fields
  <1>7. Keeps(x, chEvtRegisterMask(x, mask), Plain)
    BY <1>1 DEF chEvtRegisterMask, Keeps, Plain, Fields
  <1>8. Keeps(x, chEvtUnregister(x), Plain)
    BY <1>1 DEF chEvtUnregister, Keeps, Plain, Fields
  <1> QED BY <1>2, <1>3, <1>4, <1>5, <1>6, <1>7, <1>8

LEMMA AfterEvtPeak ==
  ASSUME NEW b, NEW x, Peak(b, x), NEW c
  PROVE  Peak(b, AfterEvtWait(x, c)) /\ Peak(b, AfterEvtWaitTimeout(x, c))
  <1>1. Peak(b, TakeEvents(x, c.kind, c.mask))
    BY EvtOwnPeak
  <1>2. Peak(b, [x EXCEPT !.cont[x.cur] = NoCont])
    BY ContPeak
  <1> QED BY <1>1, <1>2 DEF AfterEvtWait, AfterEvtWaitTimeout

LEMMA EvtSignalRanked ==
  ASSUME NEW b, NEW x, Ranked(b, x), NEW t \in All, NEW mask
  PROVE  Ranked(b, chEvtSignalI(x, t, mask)) /\ Peak(b, chEvtSignal(x, t, mask))
  <1> DEFINE y == [x EXCEPT !.epending[t] = @ \cup mask]
  <1>1. chEvtSignalI(x, t, mask) \in {ReadyMsg(y, t, "RDY_OK"), y}
    BY DEF chEvtSignalI
  <1>2. Keeps(x, y, Plain)
    BY RankFacts DEF Keeps, Plain, Fields
  <1> HIDE DEF y
  <1>3. Ranked(b, y)
    BY <1>2, PlainSame
  <1>4. Ranked(b, ReadyMsg(y, t, "RDY_OK"))
    BY <1>3, ReadyMsgRanked
  <1>5. Ranked(b, chEvtSignalI(x, t, mask))
    BY <1>1, <1>3, <1>4
  <1> QED BY <1>5, ReschedulePeak DEF chEvtSignal

LEMMA EvtBroadcastPeak ==
  ASSUME NEW b, NEW x, Good(x), Ranked(b, x), NEW flags
  PROVE  Ranked(b, chEvtBroadcastFlagsI(x, flags)) /\ Peak(b, chEvtBroadcastFlags(x, flags))
  <1> DEFINE ls == x.listeners
             N == Len(ls)
             h(a, i) == [a EXCEPT !.flags[ls[i].tp] = @ \cup flags]
             g(a, i) == chEvtSignalI(h(a, i), ls[i].tp, ls[i].mask)
             P(i, a) == Ranked(b, a)
  <1>1. ls \in Seq(Listening1)
    BY GoodShape DEF Core, Listeners, Listening1
  <1>2. N \in Nat /\ \A i \in 1..N : ls[i] \in Listening1
    BY <1>1, Member
  <1>3. \A i \in 1..N : ls[i].tp \in All
    BY <1>2 DEF Listening1
  <1>4. chEvtBroadcastFlagsI(x, flags) = Fold(x, N, g)[N]
    BY DEF chEvtBroadcastFlagsI, Fold
  <1>5. P(0, x)
    OBVIOUS
  <1> HIDE DEF N
  <1>6. \A i \in 1..N : \A a : P(i - 1, a) => P(i, g(a, i))
    <2> SUFFICES ASSUME NEW i \in 1..N, NEW a, Ranked(b, a) PROVE Ranked(b, g(a, i))
      OBVIOUS
    <2>1. Keeps(a, h(a, i), Plain)
      BY RankFacts DEF Keeps, Fields, Plain
    <2> HIDE DEF h
    <2>2. Ranked(b, h(a, i))
      BY <2>1, PlainSame
    <2> QED BY <1>3, <2>2, EvtSignalRanked
  <1> HIDE DEF g, P
  <1>7. FoldKeeps(x, N, g, P)
    BY <1>2, FoldKept
  <1>8. P(N, Fold(x, N, g)[N])
    BY <1>5, <1>6, <1>7 DEF FoldKeeps
  <1> QED BY <1>4, <1>8, ReschedulePeak DEF P, chEvtBroadcastFlags

LEMMA EvtWaitPeak ==
  ASSUME NEW b, NEW x, Peak(b, x), x.cur # Idle, NEW kind, NEW mask, NEW time
  PROVE  Peak(b, chEvtWait(x, kind, mask)) /\ Peak(b, chEvtWaitTimeout(x, kind, mask, time))
  <1> DEFINE y == [x EXCEPT !.u[x.cur] = <<"ewmask", mask>>]
             c1 == [fn |-> "evt", kind |-> kind, mask |-> mask]
             c2 == [fn |-> "evtt", kind |-> kind, mask |-> mask]
             s == WaitState(kind)
             z == TakeEvents(x, kind, mask)
  <1>1. Ranked(b, x)
    BY DEF Peak
  <1>2. Keeps(x, y, Plain \cup {"q", "more"}) /\ y.q = x.q /\ y.more = x.more
    BY <1>1, RankFacts DEF Keeps, Plain, Fields
  <1>3. chEvtWait(x, kind, mask) \in {chSchGoSleepS(y, s, c1), z}
    BY DEF chEvtWait
  <1>4. chEvtWaitTimeout(x, kind, mask, time) \in {chSchGoSleepTimeoutS(y, s, time, c2), z, x}
    BY DEF chEvtWaitTimeout
  <1>5. s # "FINAL"
    BY DEF WaitState
  <1>6. Peak(b, z)
    BY EvtOwnPeak
  <1> HIDE DEF y, c1, c2, s, z
  <1>7. Peak(b, chSchGoSleepS(y, s, c1)) /\ Peak(b, chSchGoSleepTimeoutS(y, s, time, c1))
    BY <1>1, <1>2, <1>5, GoesTo
  <1>8. Peak(b, chSchGoSleepS(y, s, c2)) /\ Peak(b, chSchGoSleepTimeoutS(y, s, time, c2))
    BY <1>1, <1>2, <1>5, GoesTo
  <1> QED BY <1>3, <1>4, <1>6, <1>7, <1>8

\* Messages.
LEMMA MsgSendPeak ==
  ASSUME NEW b, NEW x, Ranked(b, x), x.cur # Idle, NEW t \in All, NEW msg
  PROVE  Peak(b, chMsgSend(x, t, msg))
  <1> DEFINE r == queue_insert(x.q[t], x.cur)
             k1 == [x EXCEPT !.msg[x.cur] = msg, !.u[x.cur] = Obj(t), !.q[t] = queue_insert(@, x.cur)]
             k2 == chSchReadyI(k1, t)
             cont == [fn |-> "send"]
  <1>1. chMsgSend(x, t, msg) \in {chSchGoSleepS(k2, "SNDMSGQ", cont), chSchGoSleepS(k1, "SNDMSGQ", cont)}
    BY DEF chMsgSend
  <1>2. /\ Keeps(x, k1, Plain \cup {"q", "more", "st"}) /\ Upd(x.q, k1.q, t, r) /\ k1.st = x.st
        /\ k1.more = x.more
    BY RankFacts DEF Keeps, Plain, Fields, Upd
  <1>3. t \in Apart
    BY ApartFacts
  <1> HIDE DEF k1, r, cont
  <1>4. Ranked(b, k1) /\ k1.cur # Idle
    BY <1>2, <1>3, PlainPeak
  <1>5. Ranked(b, k2) /\ k2.cur # Idle
    BY <1>4, ReadyRanked
  <1> HIDE DEF k2
  <1>6. Peak(b, chSchGoSleepS(k1, "SNDMSGQ", cont)) /\ Peak(b, chSchGoSleepS(k2, "SNDMSGQ", cont))
    BY <1>4, <1>5, SleepPeak
  <1> QED BY <1>1, <1>6

LEMMA TakeSenderPeak ==
  ASSUME NEW b, NEW x, Peak(b, x)
  PROVE  Peak(b, TakeSender(x))
  <1> DEFINE y == TakeSender(x)
             r == Tail(x.q[x.cur])
             t == Head(x.q[x.cur])
  <1>1. Ranked(b, x) /\ Highest(x) /\ x.cur \in All
    BY RankFacts DEF Peak
  <1>2. /\ Keeps(x, y, Plain \cup {"q", "more", "st"}) /\ Upd(x.q, y.q, x.cur, r) /\ y.more = x.more
        /\ Upd(x.st, y.st, t, "SNDMSG")
    <2>1. y = [x EXCEPT !.q[x.cur] = r, !.st[t] = "SNDMSG", !.cont[x.cur] = NoCont]
      BY DEF TakeSender
    <2>2. DOMAIN x = Fields
      BY <1>1, RankFacts
    <2> HIDE DEF y, r, t
    <2>3. Keeps(x, y, Plain \cup {"q", "more", "st"})
      BY <2>1, <2>2 DEF Keeps, Plain, Fields
    <2> QED BY <2>1, <2>2, <2>3 DEF Fields, Upd
  <1>3. x.cur \in Apart
    BY <1>1, ApartFacts
  <1> HIDE DEF y, r, t
  <1>4. \E s, e : e # "FINAL" /\ Upd(x.st, y.st, s, e)
    BY <1>2
  <1>5. Ranked(b, y) /\ Highest(y)
    BY <1>1, <1>2, <1>3, <1>4, PlainPeak
  <1> QED BY <1>5 DEF Peak, y

LEMMA MsgPeak ==
  ASSUME NEW b, NEW x, Peak(b, x), x.cur # Idle, NEW t \in All, NEW msg
  PROVE  Peak(b, chMsgWait(x)) /\ Peak(b, chMsgRelease(x, t, msg))
  <1> DEFINE c == [fn |-> "msgwait"]
  <1>1. Ranked(b, x) /\ Highest(x)
    BY DEF Peak
  <1>2. chMsgWait(x) \in {TakeSender(x), chSchGoSleepS(x, "WTMSG", c)}
    BY DEF chMsgWait
  <1> HIDE DEF c
  <1>3. Peak(b, chSchGoSleepS(x, "WTMSG", c))
    BY <1>1, SleepPeak
  <1>4. Peak(b, chMsgRelease(x, t, msg))
    BY <1>1, WakePeak DEF chMsgRelease
  <1> QED BY <1>2, <1>3, <1>4, TakeSenderPeak

\* Mailboxes.
LEMMA MBDataRanked ==
  ASSUME NEW b, NEW x, Good(x), Ranked(b, x), NEW m
  PROVE  Ranked(b, MBWrite(x, m)) /\ Ranked(b, MBWriteAhead(x, m)) /\ Ranked(b, MBRead(x))
  <1> DEFINE y1 == [x EXCEPT !.mb.buf[x.mb.wr] = m, !.mb.wr = Up(@)]
             y2 == [x EXCEPT !.mb.rd = Down(@), !.mb.buf[Down(x.mb.rd)] = m]
             y3 == [x EXCEPT !.mb.out = x.mb.buf[x.mb.rd], !.mb.rd = Up(@)]
  <1>1. "mb_emptysem" \in AllSems /\ "mb_fullsem" \in AllSems
    BY DEF AllSems
  <1>2. DOMAIN x = Fields
    BY RankFacts
  <1>3. \A y : Keeps(x, y, {"mb"}) => \A s \in AllSems : Ranked(b, chSemSignalI(y, s))
    <2> SUFFICES ASSUME NEW y, Keeps(x, y, {"mb"}), NEW s \in AllSems PROVE Ranked(b, chSemSignalI(y, s))
      OBVIOUS
    <2>1. Keeps(x, y, Plain) /\ y.cnt = x.cnt /\ y.q = x.q
      BY DEF Keeps, Plain, Fields
    <2>2. Ranked(b, y)
      BY <2>1, PlainSame
    <2> QED BY <2>1, <2>2, SignalFrom
  <1>4. Keeps(x, y1, {"mb"})
    BY <1>2 DEF Keeps, Fields
  <1>5. Keeps(x, y2, {"mb"})
    BY <1>2 DEF Keeps, Fields
  <1>6. Keeps(x, y3, {"mb"})
    BY <1>2 DEF Keeps, Fields
  <1>7. /\ MBWrite(x, m) = chSemSignalI(y1, "mb_fullsem") /\ MBRead(x) = chSemSignalI(y3, "mb_emptysem")
        /\ MBWriteAhead(x, m) = chSemSignalI(y2, "mb_fullsem")
    BY DEF MBWrite, MBRead, MBWriteAhead
  <1> HIDE DEF y1, y2, y3
  <1> QED BY <1>1, <1>3, <1>4, <1>5, <1>6, <1>7

LEMMA MBPeak ==
  ASSUME NEW b, NEW x, Good(x), Peak(b, x), x.cur # Idle, NEW m, NEW time
  PROVE  /\ Peak(b, chMBPostS(x, m, time)) /\ Peak(b, chMBPostAheadS(x, m, time))
         /\ Peak(b, chMBFetchS(x, time))
  <1>0. Ranked(b, x)
    BY DEF Peak
  <1>1. ASSUME NEW s \in AllSems, NEW y, y = [x EXCEPT !.cnt[s] = @ - 1], y.cnt[s] >= 0
        PROVE  /\ Peak(b, chSchRescheduleS(MBWrite(y, m))) /\ Peak(b, chSchRescheduleS(MBRead(y)))
               /\ Peak(b, chSchRescheduleS(MBWriteAhead(y, m)))
    <2>1. x.cnt[s] - 1 >= 0
      BY <1>1, CoreShape DEF Good, Fields
    <2>2. Ranked(b, x)
      BY DEF Peak
    <2>3. Good(y) /\ Ranked(b, y)
      BY <1>1, <2>1, <2>2, SemTake, CountRanked
    <2> QED BY <2>3, MBDataRanked, ReschedulePeak
  <1>2. Peak(b, chMBPostS(x, m, time))
    <2> DEFINE s == "mb_emptysem"
               c == [fn |-> "post", msg |-> m]
               k1 == [x EXCEPT !.cnt[s] = @ - 1]
               k2 == [k1 EXCEPT !.u[x.cur] = Obj(s), !.q[s] = queue_insert(@, x.cur)]
               y == chSchRescheduleS(MBWrite(k1, m))
               z == chMBPostS(x, m, time)
    <2>1. z = IF k1.cnt[s] >= 0 THEN y
              ELSE IF time = TIME_IMMEDIATE THEN x ELSE chSchGoSleepTimeoutS(k2, "WTSEM", time, c)
      BY DEF chMBPostS, chSemWaitTimeoutS
    <2>2. s \in AllSems
      BY DEF AllSems
    <2>3. k1 = [x EXCEPT !.cnt[s] = @ - 1]
      OBVIOUS
    <2> HIDE DEF k1, c, s
    <2>4. k2 = [k1 EXCEPT !.u[x.cur] = Obj(s), !.q[s] = queue_insert(@, x.cur)]
      OBVIOUS
    <2> HIDE DEF k2
    <2>5. k1.cnt[s] >= 0 => Peak(b, y)
      BY <1>1, <2>2, <2>3
    <2> HIDE DEF y, z
    <2>6. Peak(b, chSchGoSleepTimeoutS(k2, "WTSEM", time, c))
      BY <1>0, <2>2, <2>3, <2>4, SemWaitRanked
    <2>7. Peak(b, z)
      BY <2>1, <2>5, <2>6
    <2> QED BY <2>7 DEF z
  <1>3. Peak(b, chMBPostAheadS(x, m, time))
    <2> DEFINE s == "mb_emptysem"
               c == [fn |-> "ahead", msg |-> m]
               k1 == [x EXCEPT !.cnt[s] = @ - 1]
               k2 == [k1 EXCEPT !.u[x.cur] = Obj(s), !.q[s] = queue_insert(@, x.cur)]
               y == chSchRescheduleS(MBWriteAhead(k1, m))
               z == chMBPostAheadS(x, m, time)
    <2>1. z = IF k1.cnt[s] >= 0 THEN y
              ELSE IF time = TIME_IMMEDIATE THEN x ELSE chSchGoSleepTimeoutS(k2, "WTSEM", time, c)
      BY DEF chMBPostAheadS, chSemWaitTimeoutS
    <2>2. s \in AllSems
      BY DEF AllSems
    <2>3. k1 = [x EXCEPT !.cnt[s] = @ - 1]
      OBVIOUS
    <2> HIDE DEF k1, c, s
    <2>4. k2 = [k1 EXCEPT !.u[x.cur] = Obj(s), !.q[s] = queue_insert(@, x.cur)]
      OBVIOUS
    <2> HIDE DEF k2
    <2>5. k1.cnt[s] >= 0 => Peak(b, y)
      BY <1>1, <2>2, <2>3
    <2> HIDE DEF y, z
    <2>6. Peak(b, chSchGoSleepTimeoutS(k2, "WTSEM", time, c))
      BY <1>0, <2>2, <2>3, <2>4, SemWaitRanked
    <2>7. Peak(b, z)
      BY <2>1, <2>5, <2>6
    <2> QED BY <2>7 DEF z
  <1>4. Peak(b, chMBFetchS(x, time))
    <2> DEFINE s == "mb_fullsem"
               c == [fn |-> "fetch"]
               k1 == [x EXCEPT !.cnt[s] = @ - 1]
               k2 == [k1 EXCEPT !.u[x.cur] = Obj(s), !.q[s] = queue_insert(@, x.cur)]
               y == chSchRescheduleS(MBRead(k1))
               z == chMBFetchS(x, time)
    <2>1. z = IF k1.cnt[s] >= 0 THEN y
              ELSE IF time = TIME_IMMEDIATE THEN x ELSE chSchGoSleepTimeoutS(k2, "WTSEM", time, c)
      BY DEF chMBFetchS, chSemWaitTimeoutS
    <2>2. s \in AllSems
      BY DEF AllSems
    <2>3. k1 = [x EXCEPT !.cnt[s] = @ - 1]
      OBVIOUS
    <2> HIDE DEF k1, c, s
    <2>4. k2 = [k1 EXCEPT !.u[x.cur] = Obj(s), !.q[s] = queue_insert(@, x.cur)]
      OBVIOUS
    <2> HIDE DEF k2
    <2>5. k1.cnt[s] >= 0 => Peak(b, y)
      BY <1>1, <2>2, <2>3
    <2> HIDE DEF y, z
    <2>6. Peak(b, chSchGoSleepTimeoutS(k2, "WTSEM", time, c))
      BY <1>0, <2>2, <2>3, <2>4, SemWaitRanked
    <2>7. Peak(b, z)
      BY <2>1, <2>5, <2>6
    <2> QED BY <2>7 DEF z
  <1> QED BY <1>2, <1>3, <1>4

LEMMA AfterMBPeak ==
  ASSUME NEW b, NEW x, InCall(x), Peak(b, x), NEW c
  PROVE  Peak(b, AfterMB(x, c))
  <1> DEFINE y == [x EXCEPT !.cont[x.cur] = NoCont]
  <1>1. Good(y)
    BY CallDone
  <1>2. Peak(b, y)
    BY ContPeak
  <1>3. AfterMB(x, c) = IF RdyMsg(x, x.cur) # "RDY_OK" THEN y
                        ELSE chSchRescheduleS(IF c.fn = "post" THEN MBWrite(y, c.msg)
                                              ELSE IF c.fn = "ahead" THEN MBWriteAhead(y, c.msg)
                                              ELSE MBRead(y))
    BY DEF AfterMB
  <1> HIDE DEF y
  <1>4. Ranked(b, y)
    BY <1>2 DEF Peak
  <1> QED BY <1>1, <1>2, <1>3, <1>4, MBDataRanked, ReschedulePeak

LEMMA MBResetPeak ==
  ASSUME NEW b, NEW x, Good(x), Ranked(b, x)
  PROVE  Peak(b, chMBReset(x))
  <1> DEFINE y == [x EXCEPT !.mb.rd = 0, !.mb.wr = 0]
             z == chSemResetI(y, "mb_emptysem", Size)
  <1>1. DOMAIN x = Fields /\ MBOK(x.mb) /\ IOOK(x.io)
    BY DataOK
  <1>2. Keeps(x, y, {"mb", "io"}) /\ Keeps(x, y, Plain) /\ y.io = x.io
    BY <1>1 DEF Keeps, Plain, Fields
  <1>3. y.mb.rd = 0 /\ y.mb.wr = 0 /\ DOMAIN y.mb = {"rd", "wr", "out", "buf"}
    BY <1>1 DEF Fields, MBOK
  <1>4. Size \in Nat /\ 0 \in 0..(Size - 1)
    BY CommAssumption
  <1>5. chMBReset(x) = chSchRescheduleS(chSemResetI(z, "mb_fullsem", 0))
    BY DEF chMBReset
  <1>6. "mb_emptysem" \in AllSems /\ "mb_fullsem" \in AllSems
    BY DEF AllSems
  <1> HIDE DEF y
  <1>7. Good(y) /\ Ranked(b, y)
    <2>1. Good(y)
      BY <1>1, <1>2, <1>3, <1>4, GoodData DEF MBOK
    <2> QED BY <1>2, <2>1, PlainSame
  <1>8. Good(z) /\ Ranked(b, z)
    BY <1>4, <1>6, <1>7, SemResetGood, SemResetPeak
  <1> HIDE DEF z
  <1> QED BY <1>5, <1>6, <1>8, SemResetPeak, ReschedulePeak

LEMMA IsrMBRanked ==
  ASSUME NEW b, NEW x, Good(x), Ranked(b, x), NEW m
  PROVE  Ranked(b, chMBPostI(x, m)) /\ Ranked(b, chMBPostAheadI(x, m)) /\ Ranked(b, chMBFetchI(x))
  <1>1. "mb_emptysem" \in AllSems /\ "mb_fullsem" \in AllSems
    BY DEF AllSems
  <1>2. \A s \in AllSems : Ranked(b, chSemFastWaitI(x, s))
    BY CountRanked DEF chSemFastWaitI
  <1> QED BY <1>1, <1>2, FastWait, MBDataRanked DEF chMBPostI, chMBPostAheadI, chMBFetchI

\* I/O queues.
LEMMA PutGetKeep ==
  ASSUME NEW x, DOMAIN x = Fields, NEW o, NEW e, NEW d
  PROVE  Keeps(x, Put(x, o, e, d), {"io"}) /\ Keeps(x, Get(x, o, d), {"io"})
  <1>1. Keeps(x, Put(x, o, e, d), {"io"})
    BY DEF Put, Keeps, Fields
  <1>2. Keeps(x, Get(x, o, d), {"io"})
    BY DEF Get, Keeps, Fields
  <1> QED BY <1>1, <1>2

LEMMA PutGetPeak ==
  ASSUME NEW b, NEW x, Ranked(b, x), NEW o, NEW e, NEW d, NEW y, y \in {Put(x, o, e, d), Get(x, o, d)}
  PROVE  Ranked(b, y) /\ (Highest(x) => Highest(y)) /\ y.q = x.q /\ y.cur = x.cur
  <1>1. Keeps(x, y, {"io"})
    BY RankFacts, PutGetKeep
  <1>2. Keeps(x, y, Plain) /\ y.q = x.q /\ y.cur = x.cur
    BY <1>1 DEF Keeps, Plain, Fields
  <1> QED BY <1>2, PlainSame

LEMMA QWaitPeak ==
  ASSUME NEW b, NEW x, Peak(b, x), x.cur # Idle, NEW o \in {"iq", "oq"}, NEW time, NEW cont
  PROVE  Peak(b, qwait(x, o, time, cont))
  <1> DEFINE y == [x EXCEPT !.cont[x.cur] = NoCont]
             z == [x EXCEPT !.u[x.cur] = Obj(o), !.q[o] = queue_insert(@, x.cur)]
             r == queue_insert(x.q[o], x.cur)
  <1>1. Ranked(b, x)
    BY DEF Peak
  <1>2. qwait(x, o, time, cont) \in {y, chSchGoSleepTimeoutS(z, "WTQUEUE", time, cont)}
    BY DEF qwait
  <1>3. Peak(b, y)
    BY ContPeak
  <1>4. Keeps(x, z, Plain \cup {"q", "more"}) /\ Upd(x.q, z.q, o, r) /\ z.more = x.more
    BY <1>1, RankFacts DEF Keeps, Plain, Fields, Upd
  <1>5. o \in Apart
    BY ApartFacts
  <1> HIDE DEF y, z, r
  <1>6. Peak(b, chSchGoSleepTimeoutS(z, "WTQUEUE", time, cont))
    BY <1>1, <1>4, <1>5, GoesTo
  <1> QED BY <1>2, <1>3, <1>6

\* The rest of a transfer is no thread to be created.
LEMMA MorePeak ==
  ASSUME NEW b, NEW x, Peak(b, x), NEW c, NEW n, NEW time, NEW e,
         \/ c = [fn |-> "iqread", n |-> n, time |-> time]
         \/ c = [fn |-> "oqwrite", msg |-> e, n |-> n, time |-> time]
  PROVE  Peak(b, More(x, c)) /\ Peak(b, [x EXCEPT !.more[x.cur] = NoCont])
  <1> DEFINE m == IF c.n = 1 THEN NoCont ELSE [c EXCEPT !.n = @ - 1]
             y == More(x, c)
             z == [x EXCEPT !.more[x.cur] = NoCont]
  <1>1. Ranked(b, x) /\ Highest(x) /\ DOMAIN x = Fields
    BY RankFacts DEF Peak
  <1>2. Keeps(x, y, Plain \cup {"q", "more", "st"}) /\ Upd(x.more, y.more, x.cur, m) /\ y.q = x.q /\ y.st = x.st
    BY <1>1 DEF More, Keeps, Plain, Fields, Upd
  <1>3. Keeps(x, z, Plain \cup {"q", "more", "st"}) /\ Upd(x.more, z.more, x.cur, NoCont) /\ z.q = x.q /\ z.st = x.st
    BY <1>1 DEF Keeps, Plain, Fields, Upd
  <1>4. Price(m)
    <2>1. CASE c.n = 1
      BY <2>1, NoPrice
    <2>2. CASE c.n # 1
      <3>1. m.fn \in {"iqread", "oqwrite"}
        BY <2>2
      <3> HIDE DEF m
      <3> QED BY <3>1 DEF Price
    <2> QED BY <2>1, <2>2
  <1> HIDE DEF m, y, z
  <1>5. Ranked(b, y) /\ Highest(y)
    BY <1>1, <1>2, <1>4, PlainPeak
  <1>6. Ranked(b, z) /\ Highest(z)
    BY <1>1, <1>3, NoPrice, PlainPeak
  <1> QED BY <1>5, <1>6 DEF Peak, y, z

LEMMA QueueCallsPeak ==
  ASSUME NEW b, NEW x, Peak(b, x), x.cur # Idle, NEW time, NEW e, NEW n
  PROVE  /\ Peak(b, chIQGetTimeout(x, time)) /\ Peak(b, chOQPutTimeout(x, e, time))
         /\ Peak(b, chIQReadTimeout(x, n, time)) /\ Peak(b, chOQWriteTimeout(x, e, n, time))
  <1>1. ASSUME NEW a, Peak(b, a), a.cur = x.cur
        PROVE  /\ Peak(b, Get(a, "iq", -1)) /\ Peak(b, Put(a, "oq", e, -1))
               /\ Get(a, "iq", -1).cur = x.cur /\ Put(a, "oq", e, -1).cur = x.cur
    <2>1. Ranked(b, a) /\ Highest(a)
      BY <1>1 DEF Peak
    <2>2. \A y : y \in {Put(a, "oq", e, -1), Get(a, "oq", -1)} => Ranked(b, y) /\ Highest(y) /\ y.cur = x.cur
      BY <1>1, <2>1, PutGetPeak
    <2>3. \A y : y \in {Put(a, "iq", e, -1), Get(a, "iq", -1)} => Ranked(b, y) /\ Highest(y) /\ y.cur = x.cur
      BY <1>1, <2>1, PutGetPeak
    <2> QED BY <2>2, <2>3 DEF Peak
  <1>2. Peak(b, chIQGetTimeout(x, time)) /\ Peak(b, chOQPutTimeout(x, e, time))
    <2> DEFINE c1 == [fn |-> "iqget", time |-> time]
               c2 == [fn |-> "oqput", msg |-> e, time |-> time]
               g == Get(x, "iq", -1)
               p == Put(x, "oq", e, -1)
    <2>1. /\ chIQGetTimeout(x, time) \in {qwait(x, "iq", time, c1), [g EXCEPT !.cont[x.cur] = NoCont]}
          /\ chOQPutTimeout(x, e, time) \in {qwait(x, "oq", time, c2), [p EXCEPT !.cont[x.cur] = NoCont]}
      BY DEF chIQGetTimeout, chOQPutTimeout
    <2>2. Peak(b, g) /\ Peak(b, p)
      BY <1>1
    <2> HIDE DEF c1, c2, g, p
    <2>3. Peak(b, qwait(x, "iq", time, c1)) /\ Peak(b, qwait(x, "oq", time, c2))
      BY QWaitPeak
    <2>4. Peak(b, [g EXCEPT !.cont[x.cur] = NoCont]) /\ Peak(b, [p EXCEPT !.cont[x.cur] = NoCont])
      BY <2>2, ContPeak
    <2> QED BY <2>1, <2>3, <2>4
  <1> DEFINE k1 == [x EXCEPT !.more[x.cur] = NoCont]
             c3 == [fn |-> "iqread", n |-> n, time |-> time]
             c4 == [fn |-> "oqwrite", msg |-> e, n |-> n, time |-> time]
  <1>3. /\ chIQReadTimeout(x, n, time) \in {qwait(k1, "iq", time, c3), More(Get(k1, "iq", -1), c3)}
        /\ chOQWriteTimeout(x, e, n, time) \in {qwait(k1, "oq", time, c4), More(Put(k1, "oq", e, -1), c4)}
    BY DEF chIQReadTimeout, chOQWriteTimeout
  <1>4. Peak(b, k1) /\ k1.cur = x.cur
    <2>1. DOMAIN x = Fields
      BY RankFacts DEF Peak
    <2>2. c3 = [fn |-> "iqread", n |-> n, time |-> time]
      OBVIOUS
    <2>3. k1.cur = x.cur
      BY <2>1 DEF Fields
    <2> HIDE DEF c3, k1
    <2> QED BY <2>2, <2>3, MorePeak DEF k1
  <1> HIDE DEF k1
  <1>5. Peak(b, More(Get(k1, "iq", -1), c3)) /\ Peak(b, More(Put(k1, "oq", e, -1), c4))
    <2>1. c3 = [fn |-> "iqread", n |-> n, time |-> time] /\ c4 = [fn |-> "oqwrite", msg |-> e, n |-> n, time |-> time]
      OBVIOUS
    <2>2. Peak(b, Get(k1, "iq", -1)) /\ Peak(b, Put(k1, "oq", e, -1))
      BY <1>1, <1>4
    <2> HIDE DEF c3, c4
    <2> QED BY <2>1, <2>2, MorePeak
  <1> HIDE DEF c3, c4
  <1>6. Peak(b, qwait(k1, "iq", time, c3)) /\ Peak(b, qwait(k1, "oq", time, c4))
    BY <1>4, QWaitPeak
  <1> QED BY <1>2, <1>3, <1>5, <1>6

LEMMA AfterQueuePeak ==
  ASSUME NEW b, NEW x, Peak(b, x), x.cur # Idle, NEW c
  PROVE  Peak(b, QueueCall(x, c)) /\ Peak(b, AfterQueue(x, c))
  <1>1. QueueCall(x, c) \in {chIQGetTimeout(x, c.time), chOQPutTimeout(x, c.msg, c.time),
                             chIQReadTimeout(x, c.n, c.time), chOQWriteTimeout(x, c.msg, c.n, c.time)}
    BY DEF QueueCall
  <1>2. Peak(b, QueueCall(x, c))
    BY <1>1, QueueCallsPeak
  <1>3. Peak(b, [x EXCEPT !.cont[x.cur] = NoCont])
    BY ContPeak
  <1> QED BY <1>2, <1>3 DEF AfterQueue

LEMMA WakeOneRanked ==
  ASSUME NEW b, NEW x0, Good(x0), NEW x, Ranked(b, x), x.q = x0.q, NEW o \in {"iq", "oq"}
  PROVE  Ranked(b, WakeOne(x, o))
  <1> DEFINE r == Tail(x.q[o])
             t == Head(x.q[o])
             y == [x EXCEPT !.q[o] = r]
  <1>1. o \in Apart /\ o \in WaitQueues
    BY ApartFacts
  <1>2. x.q[o] # <<>> => t \in All
    BY <1>1, SlotIn
  <1>3. WakeOne(x, o) = IF x.q[o] = <<>> THEN x ELSE ReadyMsg(y, t, "RDY_OK")
    BY DEF WakeOne
  <1>4. y = [x EXCEPT !.q[o] = r]
    OBVIOUS
  <1> HIDE DEF y, r, t
  <1>5. Ranked(b, y)
    BY <1>1, <1>4, TakenRanked
  <1>6. x.q[o] # <<>> => Ranked(b, ReadyMsg(y, t, "RDY_OK"))
    BY <1>2, <1>5, ReadyMsgRanked
  <1> QED BY <1>3, <1>6

LEMMA IsrQueuesRanked ==
  ASSUME NEW b, NEW x, Good(x), Ranked(b, x), NEW e
  PROVE  Ranked(b, chIQPutI(x, e)) /\ Ranked(b, chOQGetI(x))
  <1> DEFINE p == Put(x, "iq", e, 1)
             g == Get(x, "oq", 1)
  <1>1. chIQPutI(x, e) \in {x, WakeOne(p, "iq")} /\ chOQGetI(x) \in {x, WakeOne(g, "oq")}
    BY DEF chIQPutI, chOQGetI
  <1>2. p \in {Put(x, "iq", e, 1), Get(x, "iq", 1)} /\ g \in {Put(x, "oq", e, 1), Get(x, "oq", 1)}
    OBVIOUS
  <1> HIDE DEF p, g
  <1>3. Ranked(b, p) /\ p.q = x.q /\ Ranked(b, g) /\ g.q = x.q
    BY <1>2, PutGetPeak
  <1>4. Ranked(b, WakeOne(p, "iq")) /\ Ranked(b, WakeOne(g, "oq"))
    BY <1>3, WakeOneRanked
  <1> QED BY <1>1, <1>4

LEMMA QResetRanked ==
  ASSUME NEW b, NEW x, Good(x), Ranked(b, x), NEW o \in {"iq", "oq"}, NEW n
  PROVE  Ranked(b, QResetI(x, o, n))
  <1> DEFINE r == <<>>
             s == x.q[o]
             y == [x EXCEPT !.io[o].rd = 0, !.io[o].wr = 0, !.io[o].counter = n, !.q[o] = r]
  <1>1. o \in Apart /\ o \in WaitQueues
    BY ApartFacts
  <1>2. QResetI(x, o, n) = ReadyEach(y, s, "RDY_RESET")
    BY DEF QResetI
  <1>3. s \in Seq(All)
    BY <1>1, SlotIn
  <1> HIDE DEF r, s
  <1>4. Keeps(x, y, Plain \cup {"q"}) /\ Upd(x.q, y.q, o, r)
    BY RankFacts DEF Keeps, Plain, Fields, Upd
  <1> HIDE DEF y
  <1>5. Ranked(b, ReadyEach(y, s, "RDY_RESET"))
    BY <1>1, <1>3, <1>4, EmptiedRanked
  <1> QED BY <1>2, <1>5

-----------------------------------------------------------------------------
\* Threads.
LEMMA NoMutex ==
  ASSUME NEW b, NEW x, Ranked(b, x), NEW t \in All, x.mtxlist[t] = <<>>
  PROVE  \A m \in AllMutexes : x.owner[m] # t
  <1>1. Has(x.mtxlist[t], Owns(x.owner, t))
    BY DEF Ranked, Held, Owned
  <1>2. \A m \in Owns(x.owner, t) : \E i \in 1..Len(x.mtxlist[t]) : x.mtxlist[t][i] = m
    BY <1>1, HasSub
  <1>3. Owns(x.owner, t) = {}
    BY <1>2
  <1> QED BY <1>3 DEF Owns

LEMMA SetPriorityPeak ==
  ASSUME NEW b, NEW x, InCall(x), Ranked(b, x), b => x.mtxlist[x.cur] = <<>>, NEW p \in Int
  PROVE  Peak(b, chThdSetPriority(x, p))
  <1> DEFINE c == x.cur
             W == Waits(x.q)
             p1 == IF x.prio[c] = x.rprio[c] \/ p > x.prio[c] THEN p ELSE x.prio[c]
             y == [x EXCEPT !.prio[c] = IF @ = x.rprio[c] \/ p > @ THEN p ELSE @, !.rprio[c] = p]
  <1>1. c \in Threads /\ c # Idle /\ c \in All /\ Off(c, x.ready, W)
    BY CallerOff
  <1>2. DOMAIN x = Fields /\ Ranks(x.prio) /\ Ranks(x.rprio)
    BY RankFacts
  <1>3. Reprices(x, y, c, p1, p)
    <2>1. Keeps(x, y, {"prio", "rprio"}) /\ y.prio = [x.prio EXCEPT ![c] = p1] /\ y.rprio = [x.rprio EXCEPT ![c] = p]
      BY <1>2 DEF Keeps, Fields
    <2> HIDE DEF y, p1
    <2> QED BY <1>1, <1>2, <2>1 DEF Reprices, Gives, Ranks
  <1>4. chThdSetPriority(x, p) = chSchRescheduleS(y)
    BY DEF chThdSetPriority
  <1>5. x.prio[c] \in Int /\ x.rprio[c] \in Int
    BY <1>1, <1>2 DEF Ranks
  <1>6. x.rprio[c] <= x.prio[c] /\ (x.prio[c] <= x.rprio[c] \/ Needs(x.prio, W, x.owner, c, x.prio[c]))
    BY <1>1 DEF Ranked, Held, Bounded
  <1>7. b => \A m \in AllMutexes : x.owner[m] # c
    BY <1>1, NoMutex
  <1>8. p1 \in Int /\ Fits(b, x.prio, W, x.owner, c, p1, p)
    <2>1. p1 \in Int /\ p <= p1 /\ (p1 <= p \/ Needs(x.prio, W, x.owner, c, p1))
      <3>1. CASE x.prio[c] = x.rprio[c] \/ p > x.prio[c]
        <4>1. p1 = p
          BY <3>1
        <4> QED BY <4>1
      <3>2. CASE ~ (x.prio[c] = x.rprio[c] \/ p > x.prio[c])
        <4>1. p1 = x.prio[c]
          BY <3>2
        <4>2. p <= x.prio[c] /\ ~ x.prio[c] <= x.rprio[c]
          BY <1>5, <1>6, <3>2
        <4> HIDE DEF p1
        <4> QED BY <1>5, <1>6, <4>1, <4>2
      <3> QED BY <3>1, <3>2
    <2> HIDE DEF p1, W
    <2> QED BY <1>7, <2>1 DEF Fits
  <1> HIDE DEF y, p1
  <1>9. Ranked(b, y)
    BY <1>1, <1>3, <1>8, RepricedRanked
  <1> QED BY <1>4, <1>9, ReschedulePeak

LEMMA SpawnPeak ==
  ASSUME NEW b, NEW x, Good(x), Peak(b, x), NEW t \in Threads, x.st[t] = "FINAL", NEW p \in Int, NEW wa
  PROVE  Peak(b, Spawn(x, t, p, wa))
  <1> DEFINE W == Waits(x.q)
             y == InitThread(x, t, p, wa)
             z == [x EXCEPT !.prio[t] = p, !.rprio[t] = p]
  <1>1. Ranked(b, x) /\ Highest(x)
    BY DEF Peak
  <1>2. t \in All /\ t # Idle /\ t # x.cur /\ Off(t, x.ready, W)
    BY OffGood, SchedAssumption DEF All
  <1>3. /\ DOMAIN x = Fields /\ Ranks(x.prio) /\ Ranks(x.rprio) /\ x.mtxlist[t] = <<>> /\ DOMAIN x.mtxlist = All
        /\ DOMAIN x.st = All /\ DOMAIN x.q = WaitQueues /\ DOMAIN x.more = All /\ x.cur \in All
        /\ \A e \in All : Price(x.more[e])
    BY <1>1, <1>2, RankFacts
  <1>4. Reprices(x, z, t, p, p)
    <2>1. Keeps(x, z, {"prio", "rprio"}) /\ z.prio = [x.prio EXCEPT ![t] = p] /\ z.rprio = [x.rprio EXCEPT ![t] = p]
      BY <1>3 DEF Keeps, Fields
    <2> HIDE DEF z
    <2> QED BY <1>2, <1>3, <2>1 DEF Reprices, Gives, Ranks
  <1>5. Fits(b, x.prio, W, x.owner, t, p, p)
    <2>1. \A m \in AllMutexes : x.owner[m] # t
      BY <1>1, <1>2, <1>3, NoMutex
    <2> QED BY <2>1 DEF Fits
  <1>6. Made(x, y, t, p)
    BY <1>3, InitThreadFields
  <1>7. Spawn(x, t, p, wa) = chSchWakeupS(y, t, "RDY_OK")
    BY DEF Spawn
  <1>8. /\ Keeps(x, z, {"prio", "rprio"}) /\ z.prio = [x.prio EXCEPT ![t] = p]
        /\ z.rprio = [x.rprio EXCEPT ![t] = p]
    BY <1>3 DEF Keeps, Fields
  <1> HIDE DEF y, z, W
  <1>9. Ranked(b, z)
    BY <1>1, <1>2, <1>4, <1>5, RepricedRanked DEF W
  <1>10. Highest(z)
    <2>1. z.ready = x.ready /\ z.cur = x.cur
      BY <1>8 DEF Keeps, Fields
    <2>2. \A e \in All : e # t => z.prio[e] = x.prio[e]
      BY <1>4 DEF Reprices, Gives
    <2>3. x.ready \in Seq(All) /\ \A e \in Used(x.ready) : e \in All /\ e # t
      BY <1>1, <1>2, RankFacts, UsedOf DEF Off
    <2> QED BY <1>1, <1>2, <1>3, <2>1, <2>2, <2>3 DEF Highest
  <1>11. Like(z, y)
    <2>1. /\ z.cur = x.cur /\ z.ready = x.ready /\ z.owner = x.owner /\ z.mtxlist = x.mtxlist /\ z.st = x.st
          /\ z.q = x.q /\ z.more = x.more
      BY <1>8 DEF Keeps, Fields
    <2>2. /\ DOMAIN y = Fields /\ y.cur = x.cur /\ y.ready = x.ready /\ y.owner = x.owner /\ y.more = x.more
      BY <1>6 DEF Made, Keeps, Fields
    <2>3. /\ y.st = [x.st EXCEPT ![t] = "SUSPENDED"] /\ y.prio = z.prio /\ y.rprio = z.rprio
          /\ y.mtxlist = [x.mtxlist EXCEPT ![t] = <<>>] /\ y.q = [x.q EXCEPT ![t] = <<>>]
      BY <1>6, <1>8 DEF Made
    <2>4. DOMAIN y.mtxlist = All /\ \A e \in All : y.mtxlist[e] = x.mtxlist[e]
      BY <1>2, <1>3, <2>3
    <2>5. DOMAIN y.st = All /\ \A e \in All : y.st[e] = "FINAL" => x.st[e] = "FINAL"
      BY <1>3, <2>3
    <2>6. DOMAIN y.q = WaitQueues /\ \A m \in AllMutexes : y.q[m] = x.q[m]
      <3>1. t \in Apart
        BY <1>2, ApartFacts
      <3> QED BY <1>3, <2>3, <3>1 DEF Apart, WaitQueues
    <2>7. DOMAIN y.more = All /\ \A e \in All : Price(y.more[e])
      BY <1>3, <2>2
    <2> QED BY <2>1, <2>2, <2>3, <2>4, <2>5, <2>6, <2>7 DEF Like
  <1>12. Ranked(b, y) /\ Highest(y)
    BY <1>9, <1>10, <1>11, LikeRanked
  <1> QED BY <1>2, <1>7, <1>12, WakePeak

LEMMA ThdExitPeak ==
  ASSUME NEW b, NEW x, InCall(x), Ranked(b, x), x.mtxlist[x.cur] = <<>>, NEW m
  PROVE  Peak(b, chThdExitS(x, m))
  <1> DEFINE c == x.cur
             s == x.waiting[c]
             k1 == [x EXCEPT !.u[c] = <<"exitcode", m>>, !.waiting[c] = <<>>]
             g(a, i) == chSchReadyI(a, s[i])
             N == Len(s)
             k2 == Fold(k1, N, g)[N]
             k3 == REG_REMOVE(k2, c)
             P(i, a) == Ranked(b, a) /\ a.cur = x.cur /\ a.mtxlist = x.mtxlist
  <1>1. c \in All /\ c # Idle
    BY CallerOff
  <1>2. chThdExitS(x, m) \in {chSchGoSleepS(k3, "FINAL", NoCont), chSchGoSleepS(k2, "FINAL", NoCont)}
    BY DEF chThdExitS, Fold
  <1>3. Keeps(x, k1, Plain)
    BY RankFacts DEF Keeps, Plain, Fields
  <1>4. s \in Seq(All)
    <2>1. Exactly(s, Joining(x, x.st, c))
      BY <1>1, InCallFacts DEF Core, Queues
    <2> QED BY <2>1 DEF Exactly
  <1>5. N \in Nat /\ \A i \in 1..N : s[i] \in All
    BY <1>4
  <1> HIDE DEF k1, s, N
  <1>6. P(0, k1)
    BY <1>3, PlainSame
  <1>7. \A i \in 1..N : \A a : P(i - 1, a) => P(i, g(a, i))
    BY <1>5, ReadyRanked
  <1>8. P(N, k2)
    <2> HIDE DEF P, g
    <2>1. FoldKeeps(k1, N, g, P)
      BY <1>5, FoldKept
    <2> QED BY <1>5, <1>6, <1>7, <2>1 DEF FoldKeeps
  <1> HIDE DEF k2
  <1>9. Ranked(b, k2) /\ k2.cur = x.cur /\ k2.mtxlist = x.mtxlist
    BY <1>8
  <1>10. Keeps(k2, k3, Plain)
    BY <1>9, RankFacts DEF REG_REMOVE, Unlink1, Unlink2, Keeps, Plain, Fields
  <1> HIDE DEF k3
  <1>11. Ranked(b, k3) /\ k3.cur = x.cur /\ k3.mtxlist = x.mtxlist
    BY <1>9, <1>10, PlainSame
  <1>12. Peak(b, chSchGoSleepS(k2, "FINAL", NoCont))
    <2>1. k2.cur # Idle /\ k2.mtxlist[k2.cur] = <<>>
      BY <1>1, <1>9
    <2> QED BY <1>9, <2>1, SleepPeak
  <1>13. Peak(b, chSchGoSleepS(k3, "FINAL", NoCont))
    <2>1. k3.cur # Idle /\ k3.mtxlist[k3.cur] = <<>>
      BY <1>1, <1>11
    <2> QED BY <1>11, <2>1, SleepPeak
  <1> QED BY <1>2, <1>12, <1>13

\* Memory and the registry: a field that is not in Quiet stays.
LEMMA QuietPeak ==
  ASSUME NEW b, NEW x, Peak(b, x), NEW y, Keeps(x, y, Quiet)
  PROVE  Peak(b, y) /\ y.cur = x.cur /\ y.mtxlist = x.mtxlist
  <1>1. Keeps(x, y, Plain)
    BY DEF Keeps, Quiet, Inert, Plain, Fields
  <1>2. Ranked(b, x) /\ Highest(x)
    BY DEF Peak
  <1>3. Ranked(b, y) /\ Highest(y) /\ y.cur = x.cur /\ y.mtxlist = x.mtxlist
    BY <1>1, <1>2, PlainSame
  <1> QED BY <1>3 DEF Peak

LEMMA ThenPeak ==
  ASSUME NEW b, NEW x, Peak(b, x), NEW m, Price(m)
  PROVE  Peak(b, Then(x, m)) /\ Then(x, m).cur = x.cur /\ Then(x, m).mtxlist = x.mtxlist
  <1> DEFINE y == Then(x, m)
  <1>1. Ranked(b, x) /\ Highest(x) /\ DOMAIN x = Fields
    BY RankFacts DEF Peak
  <1>2. /\ Keeps(x, y, Plain \cup {"q", "more", "st"}) /\ Upd(x.more, y.more, x.cur, m) /\ y.q = x.q
        /\ y.st = x.st
    BY <1>1 DEF Then, Keeps, Plain, Fields, Upd
  <1> HIDE DEF y
  <1>3. Ranked(b, y) /\ Highest(y) /\ y.cur = x.cur /\ y.mtxlist = x.mtxlist
    BY <1>1, <1>2, PlainPeak
  <1> QED BY <1>3 DEF Peak, y

LEMMA ReleasePrice ==
  ASSUME NEW m, m.fn \notin {"alloc", "core", "spawn"}
  PROVE  Price(m)
  BY DEF Price

\* The price of what memory is for.
For(for) == for = ForData \/ for.prio \in Int

LEMMA DeliverPeak ==
  ASSUME NEW b, NEW x, Peak(b, x), NEW mem, NEW for, For(for)
  PROVE  /\ Peak(b, Deliver(x, mem, for)) /\ Deliver(x, mem, for).cur = x.cur
         /\ Deliver(x, mem, for).mtxlist = x.mtxlist
  <1> DEFINE y == Then(x, NoCont)
             z == [y EXCEPT !.hold[x.cur] = @ \cup {mem}]
             m == [fn |-> "spawn", for |-> for, mem |-> mem]
  <1>1. Deliver(x, mem, for) \in {y, z} \/ (for # ForData /\ Deliver(x, mem, for) = Then(x, m))
    BY DEF Deliver
  <1>2. m.for = for
    OBVIOUS
  <1> HIDE DEF m
  <1>3. Peak(b, y) /\ y.cur = x.cur /\ y.mtxlist = x.mtxlist
    BY NoPrice, ThenPeak
  <1> HIDE DEF y
  <1>4. Peak(b, z) /\ z.cur = x.cur /\ z.mtxlist = x.mtxlist
    <2>1. DOMAIN y = Fields
      BY <1>3, RankFacts DEF Peak
    <2>2. Keeps(y, z, Quiet)
      BY <2>1 DEF Keeps, Fields, Quiet, Inert
    <2> HIDE DEF z
    <2> QED BY <1>3, <2>2, QuietPeak
  <1> HIDE DEF z
  <1>5. ASSUME for # ForData
        PROVE  Peak(b, Then(x, m)) /\ Then(x, m).cur = x.cur /\ Then(x, m).mtxlist = x.mtxlist
    <2>1. Price(m)
      BY <1>2, <1>5 DEF Price, For
    <2> QED BY <2>1, ThenPeak
  <1> QED BY <1>1, <1>3, <1>4, <1>5

LEMMA AllocPeak ==
  ASSUME NEW b, NEW x, InCall(x), Peak(b, x), NEW for, For(for), NEW n
  PROVE  /\ Peak(b, chPoolAlloc(x, for))
         /\ Peak(b, Deliver(chCoreAllocI(x, n)[1], chCoreAllocI(x, n)[2], for))
         /\ Peak(b, Deliver(FirstFit(x, n)[1], FirstFit(x, n)[2], for))
         /\ Deliver(FirstFit(x, n)[1], FirstFit(x, n)[2], for).mtxlist = x.mtxlist
  <1>1. /\ Keeps(x, chCoreAllocI(x, n)[1], Quiet) /\ Keeps(x, FirstFit(x, n)[1], Quiet)
        /\ Keeps(x, chPoolAllocI(x)[1], Quiet)
    BY AllocQuiet
  <1>2. /\ Peak(b, chCoreAllocI(x, n)[1]) /\ Peak(b, FirstFit(x, n)[1]) /\ FirstFit(x, n)[1].mtxlist = x.mtxlist
        /\ Peak(b, chPoolAllocI(x)[1])
    BY <1>1, QuietPeak
  <1>3. chPoolAlloc(x, for) = Deliver(chPoolAllocI(x)[1], chPoolAllocI(x)[2], for)
    BY DEF chPoolAlloc
  <1> QED BY <1>2, <1>3, DeliverPeak

LEMMA PoolFreePeak ==
  ASSUME NEW b, NEW x, Peak(b, x), NEW mem
  PROVE  Peak(b, chPoolFree(x, mem))
  <1> DEFINE y == chPoolFreeI(x, mem)
  <1>1. DOMAIN x = Fields
    BY RankFacts DEF Peak
  <1>2. Keeps(x, y, Quiet)
    BY <1>1 DEF chPoolFreeI, Keeps, Fields, Quiet, Inert
  <1>3. chPoolFree(x, mem) = Then(y, NoCont)
    BY DEF chPoolFree
  <1> HIDE DEF y
  <1>4. Peak(b, y)
    BY <1>2, QuietPeak
  <1> QED BY <1>3, <1>4, NoPrice, ThenPeak

LEMMA ForHeapPeak ==
  ASSUME NEW b, NEW x, InCall(x), x.cont[x.cur] = NoCont, Peak(b, x), NEW m, MoreOK(m),
         Claims(m, x.more, x.st, x.cur), Price(m)
  PROVE  Peak(b, chMtxLockS(Then(x, m), "h_mtx"))
  <1> DEFINE y == Then(x, m)
             v == [x.st EXCEPT ![x.cur] = "SUSPENDED"]
  <1>1. Doing(y, v, "SUSPENDED") /\ y.cur # Idle /\ "h_mtx" \in AllMutexes
    BY DoingForHeap
  <1>2. Peak(b, y)
    BY ThenPeak
  <1> HIDE DEF y, v
  <1>3. Peak(b, chMtxLockS(y, "h_mtx"))
    BY <1>1, <1>2, LockPeak
  <1> QED BY <1>3 DEF y

LEMMA HeapPeak ==
  ASSUME NEW b, NEW x, InCall(x), x.cont[x.cur] = NoCont, Peak(b, x), NEW size, NEW for, NEW mem
  PROVE  /\ MayCreate(x, for) /\ For(for) => Peak(b, chHeapAlloc(x, size, for))
         /\ Peak(b, chHeapFree(x, mem))
  <1>1. ASSUME MayCreate(x, for), For(for) PROVE Peak(b, chHeapAlloc(x, size, for))
    <2>1. PICK m : /\ chHeapAlloc(x, size, for) = chMtxLockS(Then(x, m), "h_mtx")
                   /\ m.fn = "alloc" /\ m.for = for /\ MoreOK(m) /\ Claims(m, x.more, x.st, x.cur)
      BY <1>1, HeapAllocMore
    <2>2. Price(m)
      BY <1>1, <2>1 DEF Price, For
    <2> QED BY <2>1, <2>2, ForHeapPeak
  <1>2. Peak(b, chHeapFree(x, mem))
    <2>1. PICK m : /\ chHeapFree(x, mem) = chMtxLockS(Then(x, m), "h_mtx")
                   /\ m.fn = "free" /\ MoreOK(m) /\ Claims(m, x.more, x.st, x.cur)
      BY HeapFreeMore
    <2>2. Price(m)
      BY <2>1, ReleasePrice
    <2> QED BY <2>1, <2>2, ForHeapPeak
  <1> QED BY <1>1, <1>2

\* What is to be done next has a price.
LEMMA OwnFor ==
  ASSUME NEW b, NEW x, Peak(b, x), x.more[x.cur].fn \in {"alloc", "core", "spawn"}
  PROVE  For(x.more[x.cur].for)
  <1>1. Price(x.more[x.cur])
    BY RankFacts DEF Peak
  <1> QED BY <1>1 DEF Price, For

LEMMA UnlockPeak ==
  ASSUME NEW b, NEW z, MayUnlock(z), Peak(b, z)
  PROVE  Peak(b, chMtxUnlock(z))
  <1>1. Ranked(b, z) /\ Highest(z) /\ InCall(z) /\ z.mtxlist[z.cur] # <<>>
    BY DEF Peak, MayUnlock
  <1> QED BY <1>1, HandOverPeak

LEMMA LockedPeak ==
  ASSUME NEW b, NEW x, InCall(x), Peak(b, x), NEW c, c = x.more[x.cur]
  PROVE  /\ c.fn = "alloc" => Peak(b, AllocLocked(x, c))
         /\ c.fn = "free" => Peak(b, FreeLocked(x, c))
  <1>1. ASSUME c.fn = "alloc" PROVE Peak(b, AllocLocked(x, c))
    <2> DEFINE d == [c EXCEPT !.fn = "core"]
               y == Then(x, d)
               r == FirstFit(x, c.size)
               z == Deliver(r[1], r[2], c.for)
               e == AllocEnd(x, c)
    <2>1. AllocLocked(x, c) = chMtxUnlock(e) /\ e \in {y, z}
      BY DEF AllocLocked, AllocEnd
    <2>2. MayUnlock(e)
      BY <1>1, AllocEndMay
    <2>3. For(c.for)
      BY <1>1, OwnFor
    <2>4. Price(d)
      <3>1. MoreOK(c)
        BY InCallFacts
      <3>2. "fn" \in DOMAIN c /\ "for" \in DOMAIN c
        BY <1>1, <3>1, NoContFacts DEF MoreOK
      <3>3. d.for = c.for
        BY <3>2
      <3> HIDE DEF d
      <3> QED BY <2>3, <3>3 DEF For, Price
    <2> HIDE DEF d, e
    <2>5. Peak(b, y)
      BY <2>4, ThenPeak
    <2>6. Peak(b, z)
      BY <2>3, AllocPeak
    <2> HIDE DEF y, z
    <2>7. Peak(b, e)
      BY <2>1, <2>5, <2>6
    <2> QED BY <2>1, <2>2, <2>7, UnlockPeak
  <1>2. ASSUME c.fn = "free" PROVE Peak(b, FreeLocked(x, c))
    <2> DEFINE y == PutBack(x, c.mem)
               e == FreeEnd(x, c)
    <2>1. FreeLocked(x, c) = chMtxUnlock(e) /\ e = Then(y, NoCont)
      BY DEF FreeLocked, FreeEnd
    <2>2. MayUnlock(e)
      BY <1>2, FreeEndMay
    <2>3. Keeps(x, y, Quiet)
      <3>1. DOMAIN x = Fields
        BY InCallFacts
      <3>2. \A a : Keeps(x, [x EXCEPT !.free = a], Quiet)
        BY <3>1 DEF Keeps, Fields, Quiet, Inert
      <3> QED BY <3>2 DEF PutBack
    <2> HIDE DEF y, e
    <2>4. Peak(b, y)
      BY <2>3, QuietPeak
    <2>5. Peak(b, e)
      BY <2>1, <2>4, NoPrice, ThenPeak
    <2> QED BY <2>1, <2>2, <2>5, UnlockPeak
  <1> QED BY <1>1, <1>2

LEMMA CreateLockedPeak ==
  ASSUME NEW b, NEW x, InCall(x), Peak(b, x), NEW c, c = x.more[x.cur], c.fn = "spawn"
  PROVE  Peak(b, CreateLocked(x, c))
  <1> DEFINE t == c.for.tp
             y == Then(x, NoCont)
             wa == [mode |-> c.for.mode, mem |-> c.mem]
  <1>1. MayCreate(x, c.for) /\ MoreOK(c) /\ For(c.for)
    BY StillMay, InCallFacts, OwnFor
  <1>2. c.for # ForData /\ t \in Threads
    BY <1>1, NoContFacts, ForDataFacts DEF MoreOK, All
  <1>3. x.st[t] = "FINAL" /\ c.for.prio \in Int
    BY <1>1, <1>2 DEF MayCreate, For
  <1>4. Good(y) /\ y.st = x.st
    BY ThenDone, ThenFields DEF InCall
  <1>5. Peak(b, y)
    BY NoPrice, ThenPeak
  <1>6. CreateLocked(x, c) = Spawn(y, t, c.for.prio, wa)
    BY DEF CreateLocked
  <1> HIDE DEF y, t, wa
  <1> QED BY <1>2, <1>3, <1>4, <1>5, <1>6, SpawnPeak

LEMMA ReleasePeak ==
  ASSUME NEW b, NEW x, Peak(b, x), NEW t
  PROVE  Peak(b, chThdRelease(x, t))
  <1> DEFINE k1 == [x EXCEPT !.refs[t] = (@ - 1) % 256]
             m == [fn |-> "unlink1", tp |-> t]
  <1>1. DOMAIN x = Fields
    BY RankFacts DEF Peak
  <1>2. Keeps(x, k1, Quiet)
    BY <1>1 DEF Keeps, Fields, Quiet, Inert
  <1>3. chThdRelease(x, t) \in {Then(k1, m), Then(k1, NoCont)}
    BY DEF chThdRelease
  <1>4. Price(m)
    BY DEF Price
  <1> HIDE DEF k1, m
  <1>5. Peak(b, k1)
    BY <1>2, QuietPeak
  <1>6. Peak(b, Then(k1, m)) /\ Peak(b, Then(k1, NoCont))
    BY <1>4, <1>5, NoPrice, ThenPeak
  <1> QED BY <1>3, <1>6

LEMMA UnlinkPeak ==
  ASSUME NEW b, NEW x, Peak(b, x), NEW t, NEW m, m.fn \in {"unlink2", "mem"}
  PROVE  Peak(b, Then(Unlink1(x, t), m)) /\ Peak(b, Then(Unlink2(x, t), m))
  <1> DEFINE y == Unlink1(x, t)
             z == Unlink2(x, t)
  <1>1. DOMAIN x = Fields
    BY RankFacts DEF Peak
  <1>2. Keeps(x, y, Quiet) /\ Keeps(x, z, Quiet)
    BY <1>1 DEF Unlink1, Unlink2, Keeps, Fields, Quiet, Inert
  <1>3. Price(m)
    BY ReleasePrice
  <1> HIDE DEF y, z
  <1>4. Peak(b, y) /\ Peak(b, z)
    BY <1>2, QuietPeak
  <1>5. Peak(b, Then(y, m)) /\ Peak(b, Then(z, m))
    BY <1>3, <1>4, ThenPeak
  <1> QED BY <1>5 DEF y, z

LEMMA ReleaseMemPeak ==
  ASSUME NEW b, NEW x, InCall(x), x.cont[x.cur] = NoCont, Peak(b, x), NEW t
  PROVE  Peak(b, ReleaseMem(x, t))
  <1> DEFINE y == [x EXCEPT !.wa[t] = Static]
             mem == x.wa[t].mem
  <1>1. DOMAIN x = Fields
    BY InCallFacts
  <1>2. Keeps(x, y, Quiet)
    BY <1>1 DEF Keeps, Fields, Quiet, Inert
  <1>3. ReleaseMem(x, t) \in {chHeapFree(y, mem), chPoolFree(y, mem)}
    BY DEF ReleaseMem
  <1> HIDE DEF y, mem
  <1>4. InCall(y) /\ y.cont[y.cur] = NoCont
    BY <1>2, InCallInert DEF Same
  <1>5. Peak(b, y)
    BY <1>2, QuietPeak
  <1> QED BY <1>3, <1>4, <1>5, HeapPeak, PoolFreePeak

LEMMA MemStepPeak ==
  ASSUME NEW b, NEW x, InCall(x), x.cont[x.cur] = NoCont, x.more[x.cur].fn \in MemFns, Peak(b, x)
  PROVE  Peak(b, MemStep(x, x.more[x.cur]))
  <1> DEFINE c == x.more[x.cur]
  <1>0. c = x.more[x.cur] /\ c.fn \in MemFns
    OBVIOUS
  <1>1. MoreOK(c) /\ c # NoCont
    BY InCallFacts, NoContFacts DEF MemFns
  <1>2. "fn" \in DOMAIN c
    BY <1>1 DEF MoreOK
  <1> SUFFICES Peak(b, MemStep(x, c))
    OBVIOUS
  <1> HIDE DEF c
  <1>3. CASE c.fn = "alloc"
    <2>1. MemStep(x, c) = AllocLocked(x, c)
      BY <1>3 DEF MemStep
    <2> QED BY <1>0, <1>3, <2>1, LockedPeak
  <1>4. CASE c.fn = "core"
    <2>1. MemStep(x, c) = Deliver(chCoreAllocI(x, c.size + HeaderSize)[1], chCoreAllocI(x, c.size + HeaderSize)[2], c.for)
      BY <1>4 DEF MemStep, AllocCore
    <2>2. For(c.for)
      BY <1>0, <1>4, OwnFor
    <2> QED BY <2>1, <2>2, AllocPeak
  <1>5. CASE c.fn = "free"
    <2>1. MemStep(x, c) = FreeLocked(x, c)
      BY <1>5 DEF MemStep
    <2> QED BY <1>0, <1>5, <2>1, LockedPeak
  <1>6. CASE c.fn = "spawn"
    <2>1. MemStep(x, c) = CreateLocked(x, c)
      BY <1>6 DEF MemStep
    <2> QED BY <1>0, <1>6, <2>1, CreateLockedPeak
  <1>7. CASE c.fn = "release"
    <2>1. MemStep(x, c) = chThdRelease(x, c.tp)
      BY <1>7 DEF MemStep
    <2> QED BY <2>1, ReleasePeak
  <1>8. CASE c.fn = "unlink1"
    <2> DEFINE d == [c EXCEPT !.fn = "unlink2"]
    <2>1. MemStep(x, c) = Then(Unlink1(x, c.tp), d)
      BY <1>8 DEF MemStep
    <2>2. d.fn = "unlink2"
      BY <1>2
    <2> HIDE DEF d
    <2> QED BY <2>1, <2>2, UnlinkPeak
  <1>9. CASE c.fn = "unlink2"
    <2> DEFINE d == [c EXCEPT !.fn = "mem"]
    <2>1. MemStep(x, c) = Then(Unlink2(x, c.tp), d)
      BY <1>9 DEF MemStep
    <2>2. d.fn = "mem"
      BY <1>2
    <2> HIDE DEF d
    <2> QED BY <2>1, <2>2, UnlinkPeak
  <1>10. CASE c.fn = "mem"
    <2>1. MemStep(x, c) = ReleaseMem(x, c.tp)
      BY <1>10 DEF MemStep
    <2> QED BY <2>1, ReleaseMemPeak
  <1> QED BY <1>0, <1>3, <1>4, <1>5, <1>6, <1>7, <1>8, <1>9, <1>10 DEF MemFns

LEMMA RegPeak ==
  ASSUME NEW b, NEW x, Peak(b, x)
  PROVE  Peak(b, chRegFirstThread(x)) /\ Peak(b, chRegNextThread(x))
  <1> DEFINE m == [fn |-> "release", tp |-> x.scan[x.cur]]
             k1 == [x EXCEPT !.more[x.cur] = [fn |-> "release", tp |-> x.scan[x.cur]]]
             y == chRegNextThread(x)
             z == chRegFirstThread(x)
  <1>1. DOMAIN x = Fields
    BY RankFacts DEF Peak
  <1>2. k1 = Then(x, m)
    BY DEF Then
  <1>3. Price(m)
    BY DEF Price
  <1>4. Peak(b, z)
    <2>1. Keeps(x, z, Quiet)
      BY <1>1 DEF chRegFirstThread, chThdAddRef, Keeps, Fields, Quiet, Inert
    <2> HIDE DEF z
    <2> QED BY <2>1, QuietPeak
  <1>5. y = IF x.newer[x.scan[x.cur]] = "rlist" THEN [k1 EXCEPT !.scan[x.cur] = NoThread]
            ELSE chThdAddRef([k1 EXCEPT !.scan[x.cur] = x.newer[x.scan[x.cur]]], x.newer[x.scan[x.cur]])
    BY DEF chRegNextThread
  <1> HIDE DEF y, k1, m
  <1>6. Peak(b, k1)
    BY <1>2, <1>3, ThenPeak
  <1>7. DOMAIN k1 = Fields
    BY <1>6, RankFacts DEF Peak
  <1>8. Keeps(k1, y, Quiet)
    BY <1>5, <1>7 DEF chThdAddRef, Keeps, Fields, Quiet, Inert
  <1>9. Peak(b, y)
    BY <1>6, <1>8, QuietPeak
  <1> QED BY <1>4, <1>9 DEF y

LEMMA ThdWaitPeak ==
  ASSUME NEW b, NEW x, Peak(b, x), x.cur # Idle, NEW t
  PROVE  Peak(b, chThdWait(x, t))
  <1> DEFINE m == [fn |-> "release", tp |-> t]
             k1 == [x EXCEPT !.more[x.cur] = [fn |-> "release", tp |-> t], !.ref0[t] = FALSE]
             k2 == [k1 EXCEPT !.waiting[t] = list_insert(@, x.cur)]
             cont == [fn |-> "join", tp |-> t]
             y == Then(x, m)
  <1>1. DOMAIN x = Fields
    BY RankFacts DEF Peak
  <1>2. chThdWait(x, t) \in {k1, chSchGoSleepS(k2, "WTEXIT", cont)}
    BY DEF chThdWait
  <1>3. Price(m)
    BY DEF Price
  <1>4. Keeps(y, k1, Quiet)
    BY <1>1 DEF Then, Keeps, Fields, Quiet, Inert
  <1> HIDE DEF m, k1, cont
  <1>5. Peak(b, y) /\ y.cur = x.cur
    BY <1>3, ThenPeak
  <1> HIDE DEF y
  <1>6. Peak(b, k1) /\ k1.cur # Idle
    BY <1>4, <1>5, QuietPeak
  <1>7. Ranked(b, k1)
    BY <1>6 DEF Peak
  <1>8. Keeps(k1, k2, Plain)
    BY <1>7, RankFacts DEF Keeps, Plain, Fields
  <1> HIDE DEF k2
  <1>9. Ranked(b, k2) /\ k2.cur # Idle
    BY <1>6, <1>7, <1>8, PlainSame
  <1>10. Peak(b, chSchGoSleepS(k2, "WTEXIT", cont))
    BY <1>9, SleepPeak
  <1> QED BY <1>2, <1>6, <1>10

-----------------------------------------------------------------------------
(***************************************************************************)
(* The timer interrupt.                                                    *)
(***************************************************************************)

\* A thread that its timer wakes waits for no mutex.
LEMMA WakeupRanked ==
  ASSUME NEW b, NEW x, Good(x), Ranked(b, x), NEW t \in All
  PROVE  Ranked(b, wakeup(x, t))
  <1> DEFINE o == x.u[t][2]
             k1 == IF x.st[t] = "WTSEM" THEN [x EXCEPT !.cnt[o] = @ + 1, !.q[o] = dequeue(@, t)]
                   ELSE IF x.st[t] \in {"WTQUEUE", "WTCOND"} THEN [x EXCEPT !.q[o] = dequeue(@, t)] ELSE x
             k2 == [k1 EXCEPT !.u[t] = Msg("RDY_TIMEOUT")]
  <1>1. wakeup(x, t) = IF x.st[t] = "READY" THEN x ELSE chSchReadyI(k2, t)
    BY DEF wakeup, WaitObj
  <1>2. Ranked(b, k1)
    <2>1. CASE x.st[t] \in {"WTSEM", "WTQUEUE", "WTCOND"}
      <3>1. Local(x.st[t], x.u[t], x.cont[t], x.q[t], x.waiting[t], x.epending[t], x.mtxlist[t],
                  x.more[t], x.preempt[t])
        BY GoodShape DEF Core, Locals
      <3>2. o \in Apart
        <4>1. Kind(x.st[t], x.u[t], x.cont[t])
          BY <2>1, <3>1 DEF Local, Running, Sleeps
        <4> QED BY <2>1, <4>1, ApartFacts DEF Kind
      <3>3. Keeps(x, k1, Plain \cup {"q", "more", "st"}) /\ k1.more = x.more /\ k1.st = x.st
            /\ Upd(x.q, k1.q, o, dequeue(x.q[o], t))
        <4>1. o \in WaitQueues
          BY <3>2 DEF Apart
        <4> HIDE DEF o
        <4> QED BY <2>1, <4>1, RankFacts DEF Keeps, Plain, Fields, Upd
      <3> HIDE DEF k1, o
      <3> QED BY <3>2, <3>3, PlainPeak
    <2>2. CASE x.st[t] \notin {"WTSEM", "WTQUEUE", "WTCOND"}
      BY <2>2
    <2> QED BY <2>1, <2>2
  <1> HIDE DEF k1
  <1>3. Keeps(k1, k2, Plain)
    BY <1>2, RankFacts DEF Keeps, Plain, Fields
  <1> HIDE DEF k2
  <1>4. Ranked(b, k2)
    BY <1>2, <1>3, PlainSame
  <1>5. Ranked(b, chSchReadyI(k2, t))
    BY <1>4, ReadyRanked
  <1> QED BY <1>1, <1>5

LEMMA DoTickRanked ==
  ASSUME NEW b, NEW x, Good(x), x.cont[x.cur] = NoCont, Ranked(b, x)
  PROVE  Ranked(b, chVTDoTickI(x))
  <1> DEFINE due1 == [t \in All |-> IF x.due[t] > 0 THEN x.due[t] - 1 ELSE 0]
             k1 == [x EXCEPT !.systime = (@ + 1) % TimeMod, !.due = due1]
             vt1 == [x.vt EXCEPT ![1].time = @ - 1]
             n == TickEnd(vt1)
             k2 == [k1 EXCEPT !.vt = SubSeq(vt1, n + 1, Len(vt1))]
             g(a, i) == wakeup(a, vt1[i].par)
  <1>1. chVTDoTickI(x) = IF x.vt = <<>> THEN k1 ELSE Fold(k2, n, g)[n]
    BY DEF chVTDoTickI, Fold, TickEnd
  <1>2. DOMAIN x = Fields /\ Timers(x.vt, x.due, x.cont) /\ x.systime \in Times
    BY CoreShape DEF Good, Core
  <1>3. (x.systime + 1) % TimeMod \in Times
    BY <1>2, SchedAssumption DEF Times
  <1>4. Ranked(b, k1)
    <2>1. Keeps(x, k1, Plain)
      BY <1>2 DEF Keeps, Plain, Fields
    <2> HIDE DEF k1
    <2> QED BY <2>1, PlainSame
  <1>5. CASE x.vt = <<>>
    BY <1>1, <1>4, <1>5
  <1>6. CASE x.vt # <<>>
    <2>1. Keeps(x, k2, {"vt", "due", "systime"}) /\ k2.systime = (x.systime + 1) % TimeMod
          /\ k2.due = due1 /\ k2.vt = SubSeq(vt1, n + 1, Len(vt1))
      BY <1>2 DEF Keeps, Fields
    <2> HIDE DEF k2, k1
    <2>2. /\ n \in Nat /\ n \in 0..Len(x.vt)
          /\ \A i \in 1..n : vt1[i].par = x.vt[i].par
          /\ Timers(SubSeq(vt1, n + 1, Len(vt1)), due1, x.cont)
      <3>1. Upd(x.vt, vt1, 1, [x.vt[1] EXCEPT !.time = @ - 1]) /\ n = TickEnd(vt1)
        BY DEF Upd
      <3> HIDE DEF vt1, n
      <3>2. /\ n \in Nat /\ n \in 0..Len(x.vt)
            /\ \A i \in 1..n : vt1[i].par = x.vt[i].par
            /\ Timers(SubSeq(vt1, n + 1, Len(vt1)),
                      [t \in All |-> IF x.due[t] > 0 THEN x.due[t] - 1 ELSE 0], x.cont)
        BY <1>2, <1>6, <3>1, TickTimers
      <3> QED BY <3>2
    <2> HIDE DEF vt1, n, due1
    <2>3. Good(k2) /\ k2.cur = x.cur /\ k2.cont = x.cont
      BY <1>3, <2>1, <2>2, GoodTimers
    <2>4. Ranked(b, k2)
      <3>1. Keeps(x, k2, Plain)
        BY <2>1 DEF Keeps, Plain, Fields
      <3> QED BY <3>1, PlainSame
    <2> DEFINE P(i, a) == Good(a) /\ Same(k2, a) /\ Ranked(b, a)
    <2>5. P(0, k2)
      BY <2>3, <2>4 DEF Same
    <2>6. \A i \in 1..n : \A a : P(i - 1, a) => P(i, g(a, i))
      <3> SUFFICES ASSUME NEW i \in 1..n, NEW a, Good(a), Same(k2, a), Ranked(b, a)
                   PROVE  P(i, wakeup(a, vt1[i].par))
        OBVIOUS
      <3> DEFINE t == vt1[i].par
      <3>1. i \in 1..Len(x.vt) /\ t = x.vt[i].par
        BY <2>2, <1>2, TimerFacts
      <3> HIDE DEF t
      <3>2. t \in All /\ x.cont[t].fn \in Timed
        BY <1>2, <3>1, TimerFacts
      <3>3. NoCont.fn \notin Timed
        BY NoContFacts DEF Timed
      <3>4. a.cont = x.cont /\ a.cur = x.cur
        BY <2>3 DEF Same
      <3>5. Good(wakeup(a, t)) /\ Same(a, wakeup(a, t))
        BY <3>2, <3>3, <3>4, WakeupGood
      <3>6. Ranked(b, wakeup(a, t))
        BY <3>2, WakeupRanked
      <3>7. Same(k2, wakeup(a, t))
        BY <3>5 DEF Same
      <3> QED BY <3>5, <3>6, <3>7 DEF t
    <2>7. FoldKeeps(k2, n, g, P)
      <3> HIDE DEF g, P
      <3> QED BY <2>2, FoldKept
    <2>8. P(n, Fold(k2, n, g)[n])
      <3> HIDE DEF g, P
      <3> QED BY <2>5, <2>6, <2>7 DEF FoldKeeps
    <2> QED BY <1>1, <1>6, <2>8
  <1> QED BY <1>5, <1>6

LEMMA TimerHandlerRanked ==
  ASSUME NEW b, NEW x, Good(x), x.cont[x.cur] = NoCont, Ranked(b, x)
  PROVE  Ranked(b, chSysTimerHandlerI(x))
  <1> DEFINE c == x.cur
             y == [x EXCEPT !.preempt[c] = IF @ > 0 THEN @ - 1 ELSE 0]
  <1>1. /\ DOMAIN x = Fields /\ DOMAIN x.prio = All /\ DOMAIN x.preempt = All /\ x.systime \in Times
        /\ x.prio[Idle] = IDLEPRIO /\ c \in All /\ \A t \in All : x.preempt[t] \in 0..CH_TIME_QUANTUM
    BY CoreShape DEF IDLEPRIO, Good
  <1>2. /\ Keeps(x, y, Inert \ {"cur", "st"}) /\ y.systime = x.systime /\ y.prio = x.prio
        /\ y.preempt = [x.preempt EXCEPT ![c] = IF @ > 0 THEN @ - 1 ELSE 0]
        /\ y.cont = x.cont /\ y.cur = x.cur
    BY <1>1 DEF Keeps, Fields, Inert
  <1>3. Keeps(x, y, Plain)
    BY <1>1 DEF Keeps, Plain, Fields
  <1>4. chSysTimerHandlerI(x) = chVTDoTickI(y)
    BY DEF chSysTimerHandlerI
  <1> HIDE DEF y
  <1>5. DOMAIN y.preempt = All /\ \A t \in All : y.preempt[t] \in 0..CH_TIME_QUANTUM
    BY <1>1, <1>2, SchedAssumption
  <1>6. Good(y)
    BY <1>1, <1>2, <1>5, GoodFrame
  <1>7. Ranked(b, y)
    BY <1>3, PlainSame
  <1> QED BY <1>2, <1>4, <1>6, <1>7, DoTickRanked

LEMMA AfterSleepPeak ==
  ASSUME NEW b, NEW x, Good(x), Peak(b, x)
  PROVE  Peak(b, AfterSleep(x))
  <1> DEFINE y == AfterSleep(x)
  <1>1. Keeps(x, y, {"vt", "due"})
    BY AfterSleepGood
  <1> HIDE DEF y
  <1>2. Keeps(x, y, Plain)
    BY <1>1 DEF Keeps, Plain, Fields
  <1>3. Ranked(b, x) /\ Highest(x)
    BY DEF Peak
  <1>4. Ranked(b, y) /\ Highest(y)
    BY <1>2, <1>3, PlainSame
  <1> QED BY <1>4 DEF Peak, y

-----------------------------------------------------------------------------
(***************************************************************************)
(* The start.                                                              *)
(***************************************************************************)

LEMMA SysInitPeak ==
  ASSUME app \in Apps, NEW b
  PROVE  Peak(b, chSysInit)
  <1>1. PICK x : /\ Starting(x) /\ chSysInit = chSchWakeupS(x, Idle, "RDY_OK") /\ x.rprio = x.prio
                 /\ x.prio[Main] = app.prio[Main]
                 /\ \A t \in All : t # Main /\ t # Idle => x.prio[t] = NOPRIO
    BY SysStart
  <1>2. /\ Main \in All /\ Idle \in All /\ Main # Idle
        /\ app.prio[Main] \in Int /\ IDLEPRIO < app.prio[Main] /\ IDLEPRIO \in Int /\ NOPRIO \in Int
    BY SchedAssumption, KernelAssumption DEF All, IDLEPRIO, NOPRIO
  <1>3. /\ DOMAIN x = Fields /\ x.cur = Main /\ x.ready = <<>> /\ DOMAIN x.st = All
        /\ Fill(x.mtxlist, All, <<>>) /\ Fill(x.q, WaitQueues, <<>>)
        /\ x.owner = [m \in AllMutexes |-> NoThread] /\ x.more = [t \in All |-> NoCont]
    BY <1>1 DEF Starting
  <1>4. /\ Ranks(x.prio) /\ x.prio[Idle] = IDLEPRIO /\ x.prio[Main] = app.prio[Main]
    BY <1>1, <1>2 DEF Ranks, Starting
  <1> DEFINE z == [x EXCEPT !.u[Idle] = Msg("RDY_OK")]
             r == prio_insert(x.ready, Idle, x.prio)
             y == chSchReadyI(z, Idle)
  <1>5. chSysInit = y
    BY <1>1, <1>2, <1>3, <1>4 DEF chSchWakeupS
  <1>6. /\ DOMAIN y = Fields /\ y.cur = x.cur /\ y.ready = r /\ DOMAIN y.st = All
        /\ y.prio = x.prio /\ y.rprio = x.prio /\ y.mtxlist = x.mtxlist /\ y.q = x.q
        /\ y.owner = x.owner /\ y.more = x.more
    BY <1>1, <1>3 DEF chSchReadyI, Fields
  <1>7. r \in Seq(All) /\ Ordered(x.prio, r) /\ Used(r) = {Idle}
    <2>1. x.ready \in Seq(All) /\ Ordered(x.prio, x.ready) /\ Used(x.ready) = {}
      BY <1>3 DEF Ordered, Used
    <2> QED BY <1>2, <1>4, <2>1, OrderPrio
  <1> HIDE DEF y, r
  <1>8. \A m \in AllMutexes : x.q[m] \in Seq(All) /\ Ordered(x.prio, x.q[m]) /\ Used(x.q[m]) = {}
    <2>1. \A m \in AllMutexes : x.q[m] = <<>>
      BY <1>3 DEF Fill, WaitQueues
    <2>2. <<>> \in Seq(All) /\ Ordered(x.prio, <<>>) /\ Used(<<>>) = {}
      BY DEF Ordered, Used
    <2> QED BY <2>1, <2>2
  <1>9. \A t \in All : Price(x.more[t]) /\ x.mtxlist[t] = <<>>
    BY <1>3, NoPrice DEF Fill
  <1>10. Listed(y)
    <2>1. DOMAIN x.mtxlist = All /\ DOMAIN x.q = WaitQueues /\ DOMAIN x.more = All
          /\ x.owner \in [AllMutexes -> Threads \cup {NoThread}]
      BY <1>3 DEF Fill
    <2>2. RankShape(y)
      BY <1>2, <1>3, <1>4, <1>6, <1>7, <1>8, <1>9, <2>1 DEF RankShape
    <2> QED BY <1>6, <1>7, <1>8, <1>9, <2>2 DEF Listed
  <1>11. Held(b, x.prio, x.prio, Waits(x.q), x.owner, x.mtxlist)
    <2>1. Bounded(x.prio, x.prio, Waits(x.q), x.owner)
      BY <1>4 DEF Bounded, Ranks
    <2>2. Lifted(x.prio, Waits(x.q), x.owner, NoThread, 0)
      BY <1>8 DEF Lifted, Waits
    <2>3. Owned(x.owner, x.mtxlist)
      <3> SUFFICES ASSUME NEW t \in All PROVE Has(x.mtxlist[t], Owns(x.owner, t))
        BY DEF Owned
      <3>1. x.mtxlist[t] = <<>>
        BY <1>9
      <3>2. Owns(x.owner, t) = {}
        BY <1>3, NamesAssumption DEF Owns
      <3>3. Has(<<>>, {})
        BY DEF Has, NoRepeats, Used
      <3> QED BY <3>1, <3>2, <3>3
    <2> QED BY <2>1, <2>2, <2>3 DEF Held
  <1>12. Highest(y)
    BY <1>2, <1>3, <1>4, <1>6, <1>7 DEF Highest
  <1>13. Ranked(b, y)
    BY <1>6, <1>10, <1>11 DEF Ranked
  <1> QED BY <1>5, <1>12, <1>13 DEF Peak

LEMMA BootPeak ==
  ASSUME app \in Apps, NEW b
  PROVE  Peak(b, Boot(app.threads \ {Main}))
  <1> DEFINE S == app.threads \ {Main}
             N == Cardinality(S)
             order == OrderOf(S)
             g(a, i) == chThdCreateStatic(a, order[i], app.prio[order[i]])
             P(i, a) == Booting(N, order, i, a) /\ Peak(b, a)
  <1>1. Boot(S) = Fold(chSysInit, N, g)[N]
    BY DEF Boot, Fold, OrderOf
  <1>2. S \subseteq Threads \ {Main} /\ IsFiniteSet(S)
    <2>1. app.threads \subseteq Threads /\ IsFiniteSet(Threads)
      BY NamesAssumption
    <2>2. S \in SUBSET Threads
      BY <2>1
    <2> QED BY <2>1, <2>2, FS_Subset
  <1> HIDE DEF S
  <1>3. N \in Nat /\ order \in [1..N -> S] /\ \A i, j \in 1..N : order[i] = order[j] => i = j
    BY <1>2, OrderFacts
  <1> HIDE DEF N, order
  <1>4. order \in [1..N -> Threads]
    BY <1>2, <1>3
  <1>5. P(0, chSysInit)
    <2>1. \A i \in (0 + 1)..N : order[i] \in Threads \ {Main}
      BY <1>2, <1>3
    <2>2. Booting(N, order, 0, chSysInit)
      BY <2>1, SysInitGood DEF Booting
    <2> QED BY <2>2, SysInitPeak
  <1>6. \A i \in 1..N : \A a : P(i - 1, a) => P(i, g(a, i))
    <2> SUFFICES ASSUME NEW i \in 1..N, NEW a, Booting(N, order, i - 1, a), Peak(b, a)
                 PROVE  P(i, g(a, i))
      OBVIOUS
    <2>1. Booting(N, order, i, g(a, i))
      BY <1>3, <1>4, BootStep
    <2>2. order[i] \in Threads /\ app.prio[order[i]] \in Int
      BY <1>4, KernelAssumption
    <2>3. Good(a) /\ a.st[order[i]] = "FINAL"
      <3>1. i \in ((i - 1) + 1)..N
        BY <1>3
      <3> QED BY <3>1 DEF Booting
    <2>4. Peak(b, Spawn(a, order[i], app.prio[order[i]], Static))
      BY <2>2, <2>3, SpawnPeak
    <2> QED BY <2>1, <2>4 DEF chThdCreateStatic
  <1>7. FoldKeeps(chSysInit, N, g, P)
    <2> HIDE DEF P, g
    <2> QED BY <1>3, FoldKept
  <1>8. P(N, Fold(chSysInit, N, g)[N])
    <2> HIDE DEF P, g
    <2> QED BY <1>5, <1>6, <1>7 DEF FoldKeeps
  <1> QED BY <1>1, <1>8 DEF S

-----------------------------------------------------------------------------
(***************************************************************************)
(* The actions.                                                            *)
(***************************************************************************)

Inv ==
    Good(k) /\ app \in Apps /\ tick \in BOOLEAN /\ pie = (k.cont[k.cur] = NoCont)

\* What every action does to the kernel.
Stepped(r) == Good(k') /\ Peak(r, k') /\ pie' = (k'.cont[k'.cur] = NoCont)

LEMMA Done ==
  ASSUME NEW r, NEW z, Good(z), Peak(r, z), Do(z)
  PROVE  Stepped(r)
  BY DEF Do, Stepped

LEMMA DoneIsr ==
  ASSUME NEW r, NEW z, Good(z), Ranked(r, z), DoIsr(z)
  PROVE  Stepped(r)
  <1> DEFINE y == ALT_OS_INT_EXIT(z)
  <1>1. Good(y) /\ Peak(r, y) /\ Do(y)
    BY Reschedule, ReschedulePeak DEF DoIsr
  <1> HIDE DEF y
  <1> QED BY <1>1, Done

LEMMA Caller ==
  ASSUME Inv, NEW c, Call(c)
  PROVE  Calling(k) /\ InCall(k) /\ Good(k) /\ k.cur \in Threads /\ k.cur # Idle
  <1>1. k.cur \in Threads /\ k.cur \in All /\ k.cur # Idle /\ k.more[k.cur] = NoCont
    BY SchedAssumption DEF Call, All
  <1>2. Calling(k)
    BY <1>1 DEF Inv, Call, Calling
  <1> QED BY <1>1, <1>2, CallingIn DEF Calling

\* The arguments the applications use.
LEMMA Arguments ==
  ASSUME Inv
  PROVE  /\ app.delays \subseteq Times /\ app.delays \ {TIME_IMMEDIATE} \subseteq 1..(TimeMod - 1)
         /\ app.delays \ {TIME_IMMEDIATE} \subseteq Times \ {TIME_IMMEDIATE}
         /\ app.objs \cap Sems \subseteq AllSems /\ app.objs \cap Mutexes \subseteq AllMutexes
         /\ app.threads \subseteq Threads /\ Threads \subseteq All
         /\ \A m \in Masks : m \in SUBSET UNION {a.events : a \in Apps}
  <1>1. app \in Apps
    BY DEF Inv
  <1>2. app.delays \subseteq 0..(TimeMod - 1)
    BY <1>1, KernelAssumption
  <1>3. app.delays \ {TIME_IMMEDIATE} \subseteq 1..(TimeMod - 1)
    BY <1>2, SchedAssumption DEF TIME_IMMEDIATE
  <1>4. app.threads \subseteq Threads
    BY <1>1, NamesAssumption
  <1>5. \A m \in Masks : m \in SUBSET UNION {a.events : a \in Apps}
    BY <1>1 DEF Masks
  <1> QED BY <1>2, <1>3, <1>4, <1>5 DEF Times, AllSems, AllMutexes, All

LEMMA TickStep ==
  ASSUME NEW r, Inv, Peak(r, k), port_time_tick
  PROVE  Stepped(r)
  <1>1. Good(chSysTimerHandlerI(k)) /\ DoIsr(chSysTimerHandlerI(k))
    BY TimerHandlerGood DEF Inv, port_time_tick
  <1>2. Ranked(r, chSysTimerHandlerI(k))
    BY TimerHandlerRanked DEF Inv, Peak, port_time_tick
  <1> QED BY <1>1, <1>2, DoneIsr

LEMMA ThreadSteps ==
  ASSUME NEW r, Inv, Peak(r, k),
         r /\ ThdSetPriority => k.mtxlist[k.cur] = <<>>,
         ThdSleep \/ ThdSleepUntil \/ ThdYield \/ ThdSetPriority \/ ThdExit \/ ThdWait
  PROVE  Stepped(r)
  <1>0. Good(k) /\ Ranked(r, k) /\ Highest(k) /\ Peak(r, k)
    BY DEF Inv, Peak
  <1>1. CASE ThdSleep
    <2>1. PICK d \in app.delays \ {TIME_IMMEDIATE} : Do(chThdSleepS(k, d))
      BY <1>1 DEF ThdSleep
    <2>2. Good(chThdSleepS(k, d))
      BY <1>1, Caller, Arguments, ThdSleepGood DEF ThdSleep
    <2>3. Peak(r, chThdSleepS(k, d))
      BY <1>0, <1>1, Caller, ThdSleepPeak DEF ThdSleep
    <2> QED BY <2>1, <2>2, <2>3, Done
  <1>2. CASE ThdSleepUntil
    <2>1. PICK d \in Times : Do(chThdSleepUntil(k, d))
      BY <1>2 DEF ThdSleepUntil
    <2>2. Good(chThdSleepUntil(k, d))
      BY <1>2, Caller, ThdSleepUntilGood DEF ThdSleepUntil
    <2>3. Peak(r, chThdSleepUntil(k, d))
      BY <1>0, <1>2, Caller, ThdSleepPeak DEF ThdSleepUntil
    <2> QED BY <2>1, <2>2, <2>3, Done
  <1>3. CASE ThdYield
    <2>1. Good(chSchDoYieldS(k)) /\ Peak(r, chSchDoYieldS(k)) /\ Do(chSchDoYieldS(k))
      BY <1>0, <1>3, Reschedule, ReschedulePeak DEF ThdYield
    <2> QED BY <2>1, Done
  <1>4. CASE ThdSetPriority
    <2>1. PICK p \in {app.prio[t] : t \in Threads} : Do(chThdSetPriority(k, p))
      BY <1>4 DEF ThdSetPriority
    <2>2. Calling(k) /\ InCall(k) /\ p \in Int
      BY <1>4, Caller, KernelAssumption DEF ThdSetPriority, Inv
    <2>3. Good(chThdSetPriority(k, p))
      BY <2>2, ThdSetPriorityGood
    <2>4. Peak(r, chThdSetPriority(k, p))
      BY <1>0, <1>4, <2>2, SetPriorityPeak
    <2> QED BY <2>1, <2>3, <2>4, Done
  <1>5. CASE ThdExit
    <2>1. PICK m : Do(chThdExitS(k, m))
      BY <1>5 DEF ThdExit
    <2>2. Good(chThdExitS(k, m))
      BY <1>5, Caller, ThdExitGood DEF ThdExit
    <2>3. InCall(k) /\ k.mtxlist[k.cur] = <<>>
      BY <1>5, Caller DEF ThdExit
    <2>4. Peak(r, chThdExitS(k, m))
      BY <1>0, <2>3, ThdExitPeak
    <2> QED BY <2>1, <2>2, <2>4, Done
  <1>6. CASE ThdWait
    <2>1. PICK t \in Threads \ {k.cur} : Do(chThdWait(k, t))
      BY <1>6 DEF ThdWait
    <2>2. Good(chThdWait(k, t))
      BY <1>6, Caller, Arguments, ThdWaitGood DEF ThdWait
    <2>3. Peak(r, chThdWait(k, t))
      BY <1>0, <1>6, Caller, ThdWaitPeak DEF ThdWait
    <2> QED BY <2>1, <2>2, <2>3, Done
  <1> QED BY <1>1, <1>2, <1>3, <1>4, <1>5, <1>6

\* A thread that can be started is reserved by nobody.
LEMMA StartableFree ==
  ASSUME Inv, NEW t \in Threads, Startable(t)
  PROVE  k.st[t] = "FINAL" /\ \A a \in All : ~ Reserves(k.more[a], t)
  <1>1. k.more[Idle] = NoCont
    BY GoodShape, CoreShape DEF Inv
  <1>2. \A a \in Threads : ~ Reserves(k.more[a], t)
    BY DEF Startable, Names, Reserves
  <1>3. ~ Reserves(k.more[Idle], t)
    BY <1>1, NoContFacts DEF Reserves
  <1> QED BY <1>2, <1>3 DEF Startable, All

LEMMA CreateStep ==
  ASSUME NEW r, Inv, Peak(r, k), ThdCreateStatic
  PROVE  Stepped(r)
  <1>1. PICK t \in app.threads : Startable(t) /\ Do(chThdCreateStatic(k, t, app.prio[t]))
    BY DEF ThdCreateStatic
  <1>2. t \in Threads /\ Good(k)
    BY Arguments DEF Inv
  <1>3. Good(Spawn(k, t, app.prio[t], Static))
    BY <1>1, <1>2, StartableFree, SpawnGood
  <1>4. Good(chThdCreateStatic(k, t, app.prio[t]))
    BY <1>3 DEF chThdCreateStatic
  <1>5. k.st[t] = "FINAL" /\ app.prio[t] \in Int
    BY <1>1, <1>2, KernelAssumption DEF Startable, Inv
  <1>6. Peak(r, Spawn(k, t, app.prio[t], Static))
    BY <1>2, <1>5, SpawnPeak
  <1>7. Peak(r, chThdCreateStatic(k, t, app.prio[t]))
    BY <1>6 DEF chThdCreateStatic
  <1> QED BY <1>1, <1>4, <1>7, Done

LEMMA SemSteps ==
  ASSUME NEW r, Inv, Peak(r, k), \/ SemWait \/ SemWaitTimeout \/ SemSignal \/ SemReset \/ SemSignalWait
              \/ BSemSignal \/ IsrSemAddCounter \/ IsrSemReset
  PROVE  Stepped(r)
  <1>0. Good(k) /\ Ranked(r, k) /\ Highest(k) /\ Peak(r, k)
    BY DEF Inv, Peak
  <1>1. CASE SemWait
    <2>1. PICK s \in app.objs \cap Sems : Do(chSemWaitS(k, s))
      BY <1>1 DEF SemWait
    <2>2. Good(chSemWaitS(k, s))
      BY <1>1, Caller, Arguments, SemWaitGood DEF SemWait
    <2>3. Peak(r, chSemWaitS(k, s))
      BY <1>0, <1>1, Caller, Arguments, SemWaitPeak DEF SemWait
    <2> QED BY <2>1, <2>2, <2>3, Done
  <1>2. CASE SemWaitTimeout
    <2>1. PICK s \in app.objs \cap Sems, d \in app.delays :
              Do(chSemWaitTimeoutS(k, s, d, [fn |-> "sem"], LAMBDA x : x))
      BY <1>2 DEF SemWaitTimeout
    <2>2. Calling(k) /\ s \in AllSems /\ d \in Times /\ k.cur # Idle
      BY <1>2, Caller, Arguments DEF SemWaitTimeout
    <2>3. Good(chSemWaitTimeoutS(k, s, d, [fn |-> "sem"], LAMBDA x : x))
      BY <2>2, SemWaitTimeoutGood DEF chSemWaitTimeoutS
    <2>4. Peak(r, chSemWaitTimeoutS(k, s, d, [fn |-> "sem"], LAMBDA x : x))
      BY <1>0, <2>2, SemWaitTimeoutPeak DEF chSemWaitTimeoutS
    <2> QED BY <2>1, <2>3, <2>4 DEF Do, Stepped
  <1>3. CASE SemSignal
    <2>1. PICK s \in app.objs \cap Sems : Do(chSemSignal(k, s))
      BY <1>3 DEF SemSignal
    <2>2. Good(chSemSignal(k, s))
      BY <1>0, Arguments, SignalGood
    <2>3. Peak(r, chSemSignal(k, s))
      BY <1>0, Arguments, SignalPeak
    <2> QED BY <2>1, <2>2, <2>3, Done
  <1>4. CASE SemReset
    <2>1. PICK s \in app.objs \cap Sems : Do(chSemReset(k, s, 0))
      BY <1>4 DEF SemReset
    <2>2. Good(chSemResetI(k, s, 0))
      BY <1>0, Arguments, SemResetGood
    <2>3. Good(chSemReset(k, s, 0))
      BY <2>2, Reschedule DEF chSemReset
    <2>4. Peak(r, chSemReset(k, s, 0))
      BY <1>0, Arguments, SemResetPeak
    <2> QED BY <2>1, <2>3, <2>4, Done
  <1>5. CASE SemSignalWait
    <2>1. PICK s \in app.objs \cap Sems, w \in app.objs \cap Sems : Do(chSemSignalWait(k, s, w))
      BY <1>5 DEF SemSignalWait
    <2>2. Good(chSemSignalWait(k, s, w))
      BY <1>5, Caller, Arguments, SignalWaitGood DEF SemSignalWait
    <2>3. Peak(r, chSemSignalWait(k, s, w))
      BY <1>0, <1>5, Caller, Arguments, SignalWaitPeak DEF SemSignalWait
    <2> QED BY <2>1, <2>2, <2>3, Done
  <1>6. CASE BSemSignal
    <2>1. PICK s \in app.objs \cap Sems : Do(chBSemSignal(k, s))
      BY <1>6 DEF BSemSignal
    <2>2. Good(chBSemSignal(k, s))
      BY <1>0, Arguments, BSemSignalGood
    <2>3. Peak(r, chBSemSignal(k, s))
      BY <1>0, Arguments, BSemSignalPeak
    <2> QED BY <2>1, <2>2, <2>3, Done
  <1>7. CASE IsrSemAddCounter
    <2>1. PICK s \in app.objs \cap Sems, n \in 1..2 : DoIsr(chSemAddCounterI(k, s, n))
      BY <1>7 DEF IsrSemAddCounter
    <2>2. Good(chSemAddCounterI(k, s, n))
      BY <1>0, Arguments, AddCounterGood
    <2>3. Ranked(r, chSemAddCounterI(k, s, n))
      BY <1>0, Arguments, AddCounterPeak
    <2> QED BY <2>1, <2>2, <2>3, DoneIsr
  <1>8. CASE IsrSemReset
    <2>1. PICK s \in app.objs \cap Sems : DoIsr(chBSemResetI(k, s, FALSE))
      BY <1>8 DEF IsrSemReset
    <2>2. Good(chBSemResetI(k, s, FALSE))
      BY <1>0, Arguments, BSemResetGood
    <2>3. Ranked(r, chBSemResetI(k, s, FALSE))
      BY <1>0, Arguments, SemResetPeak
    <2> QED BY <2>1, <2>2, <2>3, DoneIsr
  <1> QED BY <1>1, <1>2, <1>3, <1>4, <1>5, <1>6, <1>7, <1>8

LEMMA MtxSteps ==
  ASSUME NEW r, Inv, Peak(r, k), \/ MtxLock \/ MtxTryLock \/ MtxUnlock \/ MtxUnlockAll
              \/ CondWait \/ CondWaitTimeout \/ CondSignal \/ CondBroadcast \/ IsrCondSignal
  PROVE  Stepped(r)
  <1>0. Good(k) /\ Ranked(r, k) /\ Highest(k) /\ Peak(r, k)
    BY DEF Inv, Peak
  <1>1. CASE MtxLock
    <2>1. PICK m \in app.objs \cap Mutexes : Do(chMtxLockS(k, m))
      BY <1>1 DEF MtxLock
    <2>2. Calling(k) /\ m \in AllMutexes
      BY <1>1, Caller, Arguments DEF MtxLock
    <2>3. Doing(k, k.st, "CURRENT") /\ k.cur # Idle /\ Unarmed(k, k.cur)
      BY <2>2, CallingFacts
    <2>4. k.cont[k.cur] = NoCont
      BY <2>2 DEF Calling
    <2>5. Good(chMtxLockS(k, m))
      BY <2>2, <2>3, <2>4, LockGood
    <2>6. Peak(r, chMtxLockS(k, m))
      BY <1>0, <2>2, <2>3, LockPeak
    <2> QED BY <2>1, <2>5, <2>6, Done
  <1>2. CASE MtxTryLock
    <2>1. PICK m \in app.objs \cap Mutexes : Do(chMtxTryLockS(k, m))
      BY <1>2 DEF MtxTryLock
    <2>2. Good(chMtxTryLockS(k, m))
      BY <1>2, Caller, Arguments, TryLockGood DEF MtxTryLock
    <2>3. Doing(k, k.st, "CURRENT") /\ k.cur # Idle /\ m \in AllMutexes
      BY <1>2, Caller, CallingFacts, Arguments DEF MtxTryLock
    <2>4. Peak(r, chMtxTryLockS(k, m))
      BY <1>0, <2>3, LockPeak
    <2> QED BY <2>1, <2>2, <2>4, Done
  <1>3. CASE MtxUnlock
    <2>1. Do(chMtxUnlock(k)) /\ InCall(k) /\ Calling(k) /\ k.mtxlist[k.cur] # <<>>
      BY <1>3, Caller DEF MtxUnlock
    <2>2. k.more[k.cur].fn = "none"
      BY <2>1, CallingFacts
    <2>3. Good(chMtxUnlock(k))
      BY <2>1, <2>2, HandOverGood
    <2>4. Peak(r, chMtxUnlock(k))
      BY <1>0, <2>1, HandOverPeak
    <2> QED BY <2>1, <2>3, <2>4, Done
  <1>4. CASE MtxUnlockAll
    <2>1. Do(chMtxUnlockAll(k)) /\ Good(chMtxUnlockAll(k))
      BY <1>4, Caller, UnlockAllGood DEF MtxUnlockAll
    <2>2. Peak(r, chMtxUnlockAll(k))
      BY <1>0, <1>4, Caller, UnlockAllPeak DEF MtxUnlockAll
    <2> QED BY <2>1, <2>2, Done
  <1>5. CASE CondWait
    <2>1. PICK c \in Conds : Do(chCondWaitS(k, c))
      BY <1>5 DEF CondWait
    <2>2. Calling(k) /\ k.mtxlist[k.cur] # <<>>
      BY <1>5, Caller DEF CondWait
    <2>3. Good(chCondWaitS(k, c))
      BY <2>2, CondWaitGood
    <2>4. Peak(r, chCondWaitS(k, c))
      BY <1>0, <2>2, CondWaitPeak
    <2> QED BY <2>1, <2>3, <2>4, Done
  <1>6. CASE CondWaitTimeout
    <2>1. PICK c \in Conds, d \in app.delays \ {TIME_IMMEDIATE} : Do(chCondWaitTimeoutS(k, c, d))
      BY <1>6 DEF CondWaitTimeout
    <2>2. Calling(k) /\ k.mtxlist[k.cur] # <<>> /\ d \in Times \ {TIME_IMMEDIATE}
      BY <1>6, Caller, Arguments DEF CondWaitTimeout
    <2>3. Good(chCondWaitTimeoutS(k, c, d))
      BY <2>2, CondWaitGood
    <2>4. Peak(r, chCondWaitTimeoutS(k, c, d))
      BY <1>0, <2>2, CondWaitPeak
    <2> QED BY <2>1, <2>3, <2>4, Done
  <1>7. CASE CondSignal
    <2>1. PICK c \in Conds : Do(chCondSignal(k, c))
      BY <1>7 DEF CondSignal
    <2>2. Good(chCondSignal(k, c))
      BY <1>0, CondSignalGood
    <2>3. Peak(r, chCondSignal(k, c))
      BY <1>0, CondPeak
    <2> QED BY <2>1, <2>2, <2>3, Done
  <1>8. CASE CondBroadcast
    <2>1. PICK c \in Conds : Do(chCondBroadcast(k, c))
      BY <1>8 DEF CondBroadcast
    <2>2. Good(chCondBroadcast(k, c))
      BY <1>0, CondBroadcastGood
    <2>3. Peak(r, chCondBroadcast(k, c))
      BY <1>0, CondPeak
    <2> QED BY <2>1, <2>2, <2>3, Done
  <1>9. CASE IsrCondSignal
    <2>1. PICK c \in Conds : DoIsr(chCondSignalI(k, c))
      BY <1>9 DEF IsrCondSignal
    <2>2. Good(chCondSignalI(k, c))
      BY <1>0, CondSignalGood
    <2>3. Ranked(r, chCondSignalI(k, c))
      BY <1>0, CondPeak
    <2> QED BY <2>1, <2>2, <2>3, DoneIsr
  <1> QED BY <1>1, <1>2, <1>3, <1>4, <1>5, <1>6, <1>7, <1>8, <1>9

LEMMA EvtMsgSteps ==
  ASSUME NEW r, Inv, Peak(r, k),  \/ EvtRegister \/ EvtUnregister \/ EvtGetAndClear \/ EvtAdd \/ EvtGetAndClearFlags
              \/ EvtSignal \/ EvtWait \/ EvtWaitTimeout \/ EvtBroadcast \/ IsrEvtBroadcast
              \/ MsgSend \/ MsgWait \/ MsgRelease
  PROVE  Stepped(r)
  <1>0. Good(k) /\ Ranked(r, k) /\ Highest(k) /\ Peak(r, k)
    BY DEF Inv, Peak
  <1>1. CASE EvtRegister
    <2>1. PICK m \in Masks : Do(chEvtRegisterMask(k, m))
      BY <1>1 DEF EvtRegister
    <2>2. m \in SUBSET UNION {a.events : a \in Apps}
      BY Arguments
    <2>3. Good(chEvtRegisterMask(k, m))
      BY <1>0, <2>2, RegisterGood
    <2>4. Peak(r, chEvtRegisterMask(k, m))
      BY <1>0, EvtOwnPeak
    <2> QED BY <2>1, <2>3, <2>4, Done
  <1>2. CASE EvtUnregister
    <2>1. Do(chEvtUnregister(k))
      BY <1>2 DEF EvtUnregister
    <2>2. Good(chEvtUnregister(k))
      BY <1>0, RegisterGood
    <2>3. Peak(r, chEvtUnregister(k))
      BY <1>0, EvtOwnPeak
    <2> QED BY <2>1, <2>2, <2>3, Done
  <1>3. CASE EvtGetAndClear
    <2>1. PICK m \in Masks : Do(chEvtGetAndClearEvents(k, m))
      BY <1>3 DEF EvtGetAndClear
    <2>2. Good(chEvtGetAndClearEvents(k, m))
      BY <1>3, Caller, EvtOwnGood DEF EvtGetAndClear
    <2>3. Peak(r, chEvtGetAndClearEvents(k, m))
      BY <1>0, EvtOwnPeak
    <2> QED BY <2>1, <2>2, <2>3, Done
  <1>4. CASE EvtAdd
    <2>1. PICK m \in Masks : Do(chEvtAddEvents(k, m))
      BY <1>4 DEF EvtAdd
    <2>2. Good(chEvtAddEvents(k, m))
      BY <1>4, Caller, EvtOwnGood DEF EvtAdd
    <2>3. Peak(r, chEvtAddEvents(k, m))
      BY <1>0, EvtOwnPeak
    <2> QED BY <2>1, <2>2, <2>3, Done
  <1>5. CASE EvtGetAndClearFlags
    <2>1. Do(chEvtGetAndClearFlags(k))
      BY <1>5 DEF EvtGetAndClearFlags
    <2>2. Good(chEvtGetAndClearFlags(k))
      BY <1>5, Caller, EvtOwnGood DEF EvtGetAndClearFlags
    <2>3. Peak(r, chEvtGetAndClearFlags(k))
      BY <1>0, EvtOwnPeak
    <2> QED BY <2>1, <2>2, <2>3, Done
  <1>6. CASE EvtSignal
    <2>1. PICK t \in Threads, m \in Masks : Do(chEvtSignal(k, t, m))
      BY <1>6 DEF EvtSignal
    <2>2. t \in All
      BY DEF All
    <2>3. Good(chEvtSignalI(k, t, m))
      BY <1>0, <2>2, EvtSignalI
    <2>4. Good(chEvtSignal(k, t, m))
      BY <2>3, Reschedule DEF chEvtSignal
    <2>5. Peak(r, chEvtSignal(k, t, m))
      BY <1>0, <2>2, EvtSignalRanked
    <2> QED BY <2>1, <2>4, <2>5, Done
  <1>7. CASE EvtWait
    <2>1. PICK x \in Kinds, m \in Masks : Do(chEvtWait(k, x, m))
      BY <1>7 DEF EvtWait
    <2>2. Good(chEvtWait(k, x, m))
      BY <1>7, Caller, EvtWaitGood DEF EvtWait
    <2>3. Peak(r, chEvtWait(k, x, m))
      BY <1>0, <1>7, Caller, EvtWaitPeak DEF EvtWait
    <2> QED BY <2>1, <2>2, <2>3, Done
  <1>8. CASE EvtWaitTimeout
    <2>1. PICK x \in Kinds, m \in Masks, d \in app.delays : Do(chEvtWaitTimeout(k, x, m, d))
      BY <1>8 DEF EvtWaitTimeout
    <2>2. Good(chEvtWaitTimeout(k, x, m, d))
      BY <1>8, Caller, Arguments, EvtWaitGood DEF EvtWaitTimeout
    <2>3. Peak(r, chEvtWaitTimeout(k, x, m, d))
      BY <1>0, <1>8, Caller, EvtWaitPeak DEF EvtWaitTimeout
    <2> QED BY <2>1, <2>2, <2>3, Done
  <1>9. CASE EvtBroadcast
    <2>1. Do(chEvtBroadcastFlags(k, {1}))
      BY <1>9 DEF EvtBroadcast
    <2>2. Good(chEvtBroadcastFlagsI(k, {1}))
      BY <1>0, EvtBroadcastGood
    <2>3. Good(chEvtBroadcastFlags(k, {1}))
      BY <2>2, Reschedule DEF chEvtBroadcastFlags
    <2>4. Peak(r, chEvtBroadcastFlags(k, {1}))
      BY <1>0, EvtBroadcastPeak
    <2> QED BY <2>1, <2>3, <2>4, Done
  <1>10. CASE IsrEvtBroadcast
    <2>1. DoIsr(chEvtBroadcastFlagsI(k, {1}))
      BY <1>10 DEF IsrEvtBroadcast
    <2>2. Good(chEvtBroadcastFlagsI(k, {1}))
      BY <1>0, EvtBroadcastGood
    <2>3. Ranked(r, chEvtBroadcastFlagsI(k, {1}))
      BY <1>0, EvtBroadcastPeak
    <2> QED BY <2>1, <2>2, <2>3, DoneIsr
  <1>11. CASE MsgSend
    <2>1. PICK t \in Threads \ {k.cur}, m \in Items : k.st[t] # "FINAL" /\ Do(chMsgSend(k, t, m))
      BY <1>11 DEF MsgSend
    <2>2. t \in All /\ t # k.cur /\ Calling(k)
      BY <1>11, Caller DEF MsgSend, All
    <2>3. Good(chMsgSend(k, t, m))
      BY <2>1, <2>2, MsgSendGood
    <2>4. Peak(r, chMsgSend(k, t, m))
      BY <1>0, <1>11, Caller, <2>2, MsgSendPeak DEF MsgSend
    <2> QED BY <2>1, <2>3, <2>4, Done
  <1>12. CASE MsgWait
    <2>1. Do(chMsgWait(k))
      BY <1>12 DEF MsgWait
    <2>2. Good(chMsgWait(k))
      BY <1>12, Caller, MsgWaitGood DEF MsgWait
    <2>3. k.cur \in All /\ k.cur # Idle
      BY <1>12, Caller DEF MsgWait, All
    <2>4. Peak(r, chMsgWait(k))
      BY <1>0, <2>3, MsgPeak
    <2> QED BY <2>1, <2>2, <2>4, Done
  <1>13. CASE MsgRelease
    <2>1. PICK t \in Threads, m \in Items : k.st[t] = "SNDMSG" /\ Do(chMsgRelease(k, t, m))
      BY <1>13 DEF MsgRelease
    <2>2. t \in All
      BY DEF All
    <2>3. Good(chMsgRelease(k, t, m))
      BY <1>0, <2>1, <2>2, MsgReleaseGood
    <2>4. Peak(r, chMsgRelease(k, t, m))
      BY <1>0, <1>13, Caller, <2>2, MsgPeak DEF MsgRelease
    <2> QED BY <2>1, <2>3, <2>4, Done
  <1> QED BY <1>1, <1>2, <1>3, <1>4, <1>5, <1>6, <1>7, <1>8, <1>9, <1>10, <1>11, <1>12, <1>13

\* A thread in its own code in the middle of a call of several sections.
LEMMA Middle ==
  ASSUME Inv, pie, k.more[k.cur].fn \in MemFns \cup {"iqread", "oqwrite"}
  PROVE  InCall(k) /\ MoreOK(k.more[k.cur]) /\ k.cont[k.cur] = NoCont
  <1>1. Good(k) /\ k.cur \in All /\ k.cont[k.cur] = NoCont /\ Core(k, k.st) /\ k.more[Idle] = NoCont
    BY GoodShape, CoreShape DEF Inv
  <1>2. k.cur # Idle
    BY <1>1, NoContFacts DEF MemFns
  <1>3. MoreOK(k.more[k.cur])
    BY <1>1 DEF Core, Locals, Local
  <1>4. Unarmed(k, k.cur)
    <2>1. k.cont[k.cur].fn \notin Timed
      BY <1>1, NoContFacts DEF Timed
    <2> QED BY <1>1, <2>1, NoTimer
  <1> QED BY <1>1, <1>2, <1>3, <1>4 DEF InCall

LEMMA BufferSteps ==
  ASSUME NEW r, Inv, Peak(r, k),  \/ MBPost \/ MBPostAhead \/ MBFetch \/ MBReset \/ IsrMBPost \/ IsrMBPostAhead
              \/ IsrMBFetch \/ IQGet \/ OQPut \/ IQRead \/ OQWrite \/ NextByte \/ IsrIQPut
              \/ IsrOQGet \/ IsrIQReset \/ IsrOQReset
  PROVE  Stepped(r)
  <1>0. Good(k) /\ Ranked(r, k) /\ Highest(k) /\ Peak(r, k)
    BY DEF Inv, Peak
  <1>1. CASE MBPost
    <2>1. PICK m \in Items, d \in app.delays : Do(chMBPostS(k, m, d))
      BY <1>1 DEF MBPost
    <2>2. Good(chMBPostS(k, m, d))
      BY <1>1, Caller, Arguments, MBCallsGood DEF MBPost
    <2>3. Peak(r, chMBPostS(k, m, d))
      BY <1>0, <1>1, Caller, MBPeak DEF MBPost
    <2> QED BY <2>1, <2>2, <2>3, Done
  <1>2. CASE MBPostAhead
    <2>1. PICK m \in Items, d \in app.delays : Do(chMBPostAheadS(k, m, d))
      BY <1>2 DEF MBPostAhead
    <2>2. Good(chMBPostAheadS(k, m, d))
      BY <1>2, Caller, Arguments, MBCallsGood DEF MBPostAhead
    <2>3. Peak(r, chMBPostAheadS(k, m, d))
      BY <1>0, <1>2, Caller, MBPeak DEF MBPostAhead
    <2> QED BY <2>1, <2>2, <2>3, Done
  <1>3. CASE MBFetch
    <2>1. PICK d \in app.delays : Do(chMBFetchS(k, d))
      BY <1>3 DEF MBFetch
    <2>2. Good(chMBFetchS(k, d))
      BY <1>3, Caller, Arguments, MBCallsGood DEF MBFetch
    <2>3. Peak(r, chMBFetchS(k, d))
      BY <1>0, <1>3, Caller, MBPeak DEF MBFetch
    <2> QED BY <2>1, <2>2, <2>3, Done
  <1>4. CASE MBReset
    <2>1. Do(chMBReset(k))
      BY <1>4 DEF MBReset
    <2>2. Good(chMBReset(k))
      BY <1>0, MBResetGood
    <2>3. Peak(r, chMBReset(k))
      BY <1>0, MBResetPeak
    <2> QED BY <2>1, <2>2, <2>3, Done
  <1>5. CASE IsrMBPost
    <2>1. PICK m \in Items : DoIsr(chMBPostI(k, m))
      BY <1>5 DEF IsrMBPost
    <2>2. Good(chMBPostI(k, m))
      BY <1>0, IsrMBGood
    <2>3. Ranked(r, chMBPostI(k, m))
      BY <1>0, IsrMBRanked
    <2> QED BY <2>1, <2>2, <2>3, DoneIsr
  <1>6. CASE IsrMBPostAhead
    <2>1. PICK m \in Items : DoIsr(chMBPostAheadI(k, m))
      BY <1>6 DEF IsrMBPostAhead
    <2>2. Good(chMBPostAheadI(k, m))
      BY <1>0, IsrMBGood
    <2>3. Ranked(r, chMBPostAheadI(k, m))
      BY <1>0, IsrMBRanked
    <2> QED BY <2>1, <2>2, <2>3, DoneIsr
  <1>7. CASE IsrMBFetch
    <2>1. DoIsr(chMBFetchI(k))
      BY <1>7 DEF IsrMBFetch
    <2>2. Good(chMBFetchI(k))
      BY <1>0, IsrMBGood
    <2>3. Ranked(r, chMBFetchI(k))
      BY <1>0, IsrMBRanked
    <2> QED BY <2>1, <2>2, <2>3, DoneIsr
  <1>8. CASE IQGet
    <2>1. PICK d \in app.delays : Do(chIQGetTimeout(k, d))
      BY <1>8 DEF IQGet
    <2>2. Good(chIQGetTimeout(k, d))
      BY <1>8, Caller, Arguments, QueueCallsGood DEF IQGet
    <2>3. Peak(r, chIQGetTimeout(k, d))
      BY <1>0, <1>8, Caller, QueueCallsPeak DEF IQGet
    <2> QED BY <2>1, <2>2, <2>3, Done
  <1>9. CASE OQPut
    <2>1. PICK b \in Items, d \in app.delays : Do(chOQPutTimeout(k, b, d))
      BY <1>9 DEF OQPut
    <2>2. Good(chOQPutTimeout(k, b, d))
      BY <1>9, Caller, Arguments, QueueCallsGood DEF OQPut
    <2>3. Peak(r, chOQPutTimeout(k, b, d))
      BY <1>0, <1>9, Caller, QueueCallsPeak DEF OQPut
    <2> QED BY <2>1, <2>2, <2>3, Done
  <1>10. CASE IQRead
    <2>1. PICK d \in app.delays : Do(chIQReadTimeout(k, 2, d))
      BY <1>10 DEF IQRead
    <2>2. Good(chIQReadTimeout(k, 2, d))
      BY <1>10, Caller, Arguments, QueueCallsGood DEF IQRead
    <2>3. Peak(r, chIQReadTimeout(k, 2, d))
      BY <1>0, <1>10, Caller, QueueCallsPeak DEF IQRead
    <2> QED BY <2>1, <2>2, <2>3, Done
  <1>11. CASE OQWrite
    <2>1. PICK b \in Items, d \in app.delays : Do(chOQWriteTimeout(k, b, 2, d))
      BY <1>11 DEF OQWrite
    <2>2. Good(chOQWriteTimeout(k, b, 2, d))
      BY <1>11, Caller, Arguments, QueueCallsGood DEF OQWrite
    <2>3. Peak(r, chOQWriteTimeout(k, b, 2, d))
      BY <1>0, <1>11, Caller, QueueCallsPeak DEF OQWrite
    <2> QED BY <2>1, <2>2, <2>3, Done
  <1>12. CASE NextByte
    <2>1. Do(QueueCall(k, k.more[k.cur]))
      BY <1>12 DEF NextByte
    <2>2. InCall(k) /\ MoreOK(k.more[k.cur])
      BY <1>12, Middle DEF NextByte
    <2>3. k.more[k.cur].time \in Times
      BY <1>12, <2>2, NoContFacts DEF MoreOK, NextByte
    <2>4. Good(QueueCall(k, k.more[k.cur]))
      BY <2>2, <2>3, QueueCallGood
    <2>5. Peak(r, QueueCall(k, k.more[k.cur]))
      BY <1>0, <2>2, AfterQueuePeak DEF InCall
    <2> QED BY <2>1, <2>4, <2>5, Done
  <1>13. CASE IsrIQPut
    <2>1. PICK b \in Items : DoIsr(chIQPutI(k, b))
      BY <1>13 DEF IsrIQPut
    <2>2. Good(chIQPutI(k, b))
      BY <1>0, IsrQueues
    <2>3. Ranked(r, chIQPutI(k, b))
      BY <1>0, IsrQueuesRanked
    <2> QED BY <2>1, <2>2, <2>3, DoneIsr
  <1>14. CASE IsrOQGet
    <2>1. DoIsr(chOQGetI(k))
      BY <1>14 DEF IsrOQGet
    <2>2. Good(chOQGetI(k))
      BY <1>0, IsrQueues
    <2>3. Ranked(r, chOQGetI(k))
      BY <1>0, IsrQueuesRanked
    <2> QED BY <2>1, <2>2, <2>3, DoneIsr
  <1>15. CASE IsrIQReset
    <2>1. DoIsr(QResetI(k, "iq", 0))
      BY <1>15 DEF IsrIQReset
    <2>2. Good(QResetI(k, "iq", 0))
      BY <1>0, QResetGood
    <2>3. Ranked(r, QResetI(k, "iq", 0))
      BY <1>0, QResetRanked
    <2> QED BY <2>1, <2>2, <2>3, DoneIsr
  <1>16. CASE IsrOQReset
    <2>1. DoIsr(QResetI(k, "oq", Size))
      BY <1>16 DEF IsrOQReset
    <2>2. Good(QResetI(k, "oq", Size))
      BY <1>0, QResetGood
    <2>3. Ranked(r, QResetI(k, "oq", Size))
      BY <1>0, QResetRanked
    <2> QED BY <2>1, <2>2, <2>3, DoneIsr
  <1> QED BY <1>1, <1>2, <1>3, <1>4, <1>5, <1>6, <1>7, <1>8, <1>9, <1>10, <1>11, <1>12, <1>13, <1>14, <1>15, <1>16

LEMMA SpawningMay ==
  ASSUME Inv, NEW mode, NEW f \in Spawning(mode)
  PROVE  MayCreate(k, f) /\ For(f)
  <1>1. PICK t \in Threads : Startable(t) /\ f.tp = t /\ f.prio = app.prio[t]
    BY DEF Spawning
  <1>2. k.st[t] = "FINAL" /\ \A a \in All : ~ Reserves(k.more[a], t)
    BY <1>1, StartableFree
  <1>3. For(f)
    BY <1>1, KernelAssumption DEF For, Inv
  <1> QED BY <1>1, <1>2, <1>3 DEF MayCreate

\* A block is taken from those of the thread that frees it.
LEMMA HoldLess ==
  ASSUME NEW r, NEW x, InCall(x), Peak(r, x), NEW b, NEW y, y = [x EXCEPT !.hold[x.cur] = @ \ {b}]
  PROVE  InCall(y) /\ Peak(r, y) /\ y.cur = x.cur /\ y.cont = x.cont
  <1>1. DOMAIN x = Fields
    BY InCallFacts
  <1>2. Keeps(x, y, Quiet) /\ y.cont = x.cont /\ y.cur = x.cur
    BY <1>1 DEF Keeps, Fields, Quiet, Inert
  <1> QED BY <1>2, InCallInert, QuietPeak

LEMMA MemSteps ==
  ASSUME NEW r, Inv, Peak(r, k),  \/ HeapAlloc \/ HeapFree \/ PoolAlloc \/ PoolFree \/ CoreAlloc \/ ThdCreateFromHeap
              \/ ThdCreateFromMemoryPool \/ RegFirstThread \/ RegNextThread \/ MemSection
  PROVE  Stepped(r)
  <1>0. Good(k) /\ Ranked(r, k) /\ Highest(k) /\ Peak(r, k)
    BY DEF Inv, Peak
  <1>1. CASE HeapAlloc
    <2>1. PICK n \in app.sizes : Do(chHeapAlloc(k, n, ForData))
      BY <1>1 DEF HeapAlloc
    <2>2. InCall(k) /\ k.cont[k.cur] = NoCont
      BY <1>1, Caller DEF HeapAlloc, Calling
    <2>3. MayCreate(k, ForData)
      BY DEF MayCreate
    <2>4. Good(chHeapAlloc(k, n, ForData))
      BY <2>2, <2>3, HeapAllocGood
    <2>5. Peak(r, chHeapAlloc(k, n, ForData))
      BY <1>0, <2>2, <2>3, HeapPeak DEF For
    <2> QED BY <2>1, <2>4, <2>5, Done
  <1>2. CASE HeapFree
    <2>1. PICK b \in k.hold[k.cur] : Do(chHeapFree([k EXCEPT !.hold[k.cur] = @ \ {b}], b))
      BY <1>2 DEF HeapFree
    <2> DEFINE y == [k EXCEPT !.hold[k.cur] = @ \ {b}]
    <2>2. InCall(k) /\ k.cont[k.cur] = NoCont
      BY <1>2, Caller DEF HeapFree, Calling
    <2>3. InCall(y) /\ y.cont[y.cur] = NoCont /\ Peak(r, y)
      BY <2>2, HoldLess
    <2>4. Do(chHeapFree(y, b))
      BY <2>1
    <2> HIDE DEF y
    <2>5. Good(chHeapFree(y, b))
      BY <2>3, HeapFreeGood
    <2>6. Peak(r, chHeapFree(y, b))
      BY <2>3, HeapPeak
    <2> QED BY <2>4, <2>5, <2>6, Done
  <1>3. CASE PoolAlloc
    <2>1. Do(chPoolAlloc(k, ForData))
      BY <1>3 DEF PoolAlloc
    <2>2. InCall(k)
      BY <1>3, Caller DEF PoolAlloc
    <2>3. MayCreate(k, ForData)
      BY DEF MayCreate
    <2>4. Good(chPoolAlloc(k, ForData))
      BY <2>2, <2>3, PoolAllocGood
    <2>5. Peak(r, chPoolAlloc(k, ForData))
      BY <1>0, <2>2, AllocPeak DEF For
    <2> QED BY <2>1, <2>4, <2>5, Done
  <1>4. CASE PoolFree
    <2>1. PICK b \in k.hold[k.cur] : Do(chPoolFree([k EXCEPT !.hold[k.cur] = @ \ {b}], b))
      BY <1>4 DEF PoolFree
    <2> DEFINE y == [k EXCEPT !.hold[k.cur] = @ \ {b}]
    <2>2. InCall(k) /\ k.cont[k.cur] = NoCont
      BY <1>4, Caller DEF PoolFree, Calling
    <2>3. InCall(y) /\ y.cont[y.cur] = NoCont /\ Peak(r, y)
      BY <2>2, HoldLess
    <2>4. Do(chPoolFree(y, b))
      BY <2>1
    <2> HIDE DEF y
    <2>5. Good(chPoolFree(y, b))
      BY <2>3, PoolFreeGood
    <2>6. Peak(r, chPoolFree(y, b))
      BY <2>3, PoolFreePeak
    <2> QED BY <2>4, <2>5, <2>6, Done
  <1>5. CASE CoreAlloc
    <2>1. PICK n \in app.sizes : Do(Deliver(chCoreAllocI(k, n)[1], chCoreAllocI(k, n)[2], ForData))
      BY <1>5 DEF CoreAlloc
    <2>2. InCall(k)
      BY <1>5, Caller DEF CoreAlloc
    <2>3. MayCreate(k, ForData)
      BY DEF MayCreate
    <2>4. Good(Deliver(chCoreAllocI(k, n)[1], chCoreAllocI(k, n)[2], ForData))
      BY <2>2, <2>3, CoreAllocGood
    <2>5. Peak(r, Deliver(chCoreAllocI(k, n)[1], chCoreAllocI(k, n)[2], ForData))
      BY <1>0, <2>2, AllocPeak DEF For
    <2> QED BY <2>1, <2>4, <2>5, Done
  <1>6. CASE ThdCreateFromHeap
    <2>1. PICK n \in app.sizes, f \in Spawning("HEAP") : Do(chHeapAlloc(k, n, f))
      BY <1>6 DEF ThdCreateFromHeap
    <2>2. InCall(k) /\ k.cont[k.cur] = NoCont
      BY <1>6, Caller DEF ThdCreateFromHeap, Calling
    <2>3. MayCreate(k, f)
      BY SpawningMay
    <2>4. Good(chHeapAlloc(k, n, f))
      BY <2>2, <2>3, HeapAllocGood
    <2>5. Peak(r, chHeapAlloc(k, n, f))
      BY <1>0, <2>2, <2>3, SpawningMay, HeapPeak
    <2> QED BY <2>1, <2>4, <2>5, Done
  <1>7. CASE ThdCreateFromMemoryPool
    <2>1. PICK f \in Spawning("MEMPOOL") : Do(chPoolAlloc(k, f))
      BY <1>7 DEF ThdCreateFromMemoryPool
    <2>2. InCall(k)
      BY <1>7, Caller DEF ThdCreateFromMemoryPool
    <2>3. MayCreate(k, f)
      BY SpawningMay
    <2>4. Good(chPoolAlloc(k, f))
      BY <2>2, <2>3, PoolAllocGood
    <2>5. Peak(r, chPoolAlloc(k, f))
      BY <1>0, <2>2, SpawningMay, AllocPeak
    <2> QED BY <2>1, <2>4, <2>5, Done
  <1>8. CASE RegFirstThread
    <2>1. Do(chRegFirstThread(k))
      BY <1>8 DEF RegFirstThread
    <2>2. Good(chRegFirstThread(k))
      BY <1>8, Caller, RegFirstGood DEF RegFirstThread
    <2>3. Peak(r, chRegFirstThread(k))
      BY <1>0, RegPeak
    <2> QED BY <2>1, <2>2, <2>3, Done
  <1>9. CASE RegNextThread
    <2>1. Do(chRegNextThread(k))
      BY <1>9 DEF RegNextThread
    <2>2. Good(chRegNextThread(k))
      BY <1>9, Caller, RegNextGood DEF RegNextThread
    <2>3. Peak(r, chRegNextThread(k))
      BY <1>0, RegPeak
    <2> QED BY <2>1, <2>2, <2>3, Done
  <1>10. CASE MemSection
    <2>1. Do(MemStep(k, k.more[k.cur]))
      BY <1>10 DEF MemSection
    <2>2. InCall(k) /\ k.cont[k.cur] = NoCont /\ k.more[k.cur].fn \in MemFns
      BY <1>10, Middle DEF MemSection
    <2>3. Good(MemStep(k, k.more[k.cur]))
      BY <2>2, MemStepGood
    <2>4. Peak(r, MemStep(k, k.more[k.cur]))
      BY <1>0, <2>2, MemStepPeak
    <2> QED BY <2>1, <2>3, <2>4, Done
  <1> QED BY <1>1, <1>2, <1>3, <1>4, <1>5, <1>6, <1>7, <1>8, <1>9, <1>10

\* What the thread that is back from a sleep was doing.
LEMMA Resumed ==
  ASSUME Inv, ~ pie
  PROVE  /\ Good(k) /\ k.cur \in All /\ k.cur # Idle /\ ContOK(k.cont[k.cur])
         /\ k.cont[k.cur] # NoCont
         /\ InCall(AfterSleep(k)) /\ AfterSleep(k).cur = k.cur
         /\ (k.cont[k.cur].fn \notin Timed => InCall(k))
         /\ (k.cont[k.cur].fn = "msgwait" => k.q[k.cur] # <<>>)
  <1> DEFINE c == k.cont[k.cur]
             a == AfterSleep(k)
  <1>1. /\ Good(k) /\ k.cur \in All /\ Core(k, k.st) /\ k.cont[Idle] = NoCont /\ c # NoCont
        /\ k.st[k.cur] = "CURRENT"
    BY GoodShape, CoreShape DEF Inv
  <1>2. k.cur # Idle
    BY <1>1
  <1>3. ContOK(c) /\ (c.fn = "msgwait" => k.q[k.cur] # <<>>)
    BY <1>1 DEF Core, Locals, Local, Running
  <1>4. Good(a) /\ Unarmed(a, k.cur) /\ a.cur = k.cur
    BY <1>1, AfterSleepGood
  <1>5. c.fn \notin Timed => Unarmed(k, k.cur)
    BY <1>1, NoTimer
  <1> HIDE DEF a
  <1>6. InCall(a)
    BY <1>1, <1>2, <1>4 DEF InCall
  <1>7. c.fn \notin Timed => InCall(k)
    BY <1>1, <1>2, <1>5 DEF InCall
  <1> QED BY <1>1, <1>2, <1>3, <1>4, <1>6, <1>7 DEF a

LEMMA ResumeStep ==
  ASSUME NEW r, Inv, Peak(r, k), Resume
  PROVE  Stepped(r)
  <1> DEFINE c == k.cont[k.cur]
             a == AfterSleep(k)
  <1>0. ~ pie
    BY DEF Resume
  <1>1. /\ Good(k) /\ k.cur \in All /\ ContOK(c) /\ c # NoCont
        /\ InCall(a) /\ a.cur = k.cur /\ (c.fn \notin Timed => InCall(k))
        /\ (c.fn = "msgwait" => k.q[k.cur] # <<>>)
    BY <1>0, Resumed
  <1>R. Peak(r, a) /\ a.cur # Idle /\ k.cur # Idle
    BY <1>0, <1>1, Resumed, AfterSleepPeak
  <1>2. c.fn \in Timed \cup {"mtx", "send", "join", "cond", "evt", "msgwait"}
    BY <1>1 DEF ContOK
  <1>3. CASE c.fn \in {"sleep", "sem"}
    <2>1. Do([a EXCEPT !.cont[k.cur] = NoCont])
      BY <1>3 DEF Resume
    <2>2. Good([a EXCEPT !.cont[k.cur] = NoCont])
      BY <1>1, CallDone
    <2>3. Peak(r, [a EXCEPT !.cont[k.cur] = NoCont])
      BY <1>R, ContPeak
    <2> QED BY <2>1, <2>2, <2>3, Done
  <1>4. CASE c.fn \in {"mtx", "send", "join"}
    <2>1. Do([k EXCEPT !.cont[k.cur] = NoCont])
      BY <1>4 DEF Resume
    <2>2. InCall(k)
      BY <1>1, <1>4 DEF Timed
    <2>3. Good([k EXCEPT !.cont[k.cur] = NoCont])
      BY <2>2, CallDone
    <2>4. Peak(r, [k EXCEPT !.cont[k.cur] = NoCont])
      BY ContPeak
    <2> QED BY <2>1, <2>3, <2>4, Done
  <1>5. CASE c.fn = "cond"
    <2>1. Do(AfterCondWait(k, c.mp))
      BY <1>5 DEF Resume
    <2>2. InCall(k) /\ c.mp \in AllMutexes
      BY <1>1, <1>5 DEF Timed, ContOK
    <2>3. Good(AfterCondWait(k, c.mp))
      BY <2>2, AfterCondGood
    <2>4. Peak(r, AfterCondWait(k, c.mp))
      BY <2>2, AfterCondPeak
    <2> QED BY <2>1, <2>3, <2>4, Done
  <1>6. CASE c.fn = "condt"
    <2>1. Do(AfterCondWaitTimeout(a, c.mp))
      BY <1>6 DEF Resume
    <2>2. c.mp \in AllMutexes
      BY <1>1, <1>6 DEF ContOK
    <2>3. Good(AfterCondWaitTimeout(a, c.mp))
      BY <1>1, <2>2, AfterCondGood
    <2>4. Peak(r, AfterCondWaitTimeout(a, c.mp))
      BY <1>1, <1>R, <2>2, AfterCondPeak
    <2> QED BY <2>1, <2>3, <2>4, Done
  <1>7. CASE c.fn = "evt"
    <2>1. Do(AfterEvtWait(k, c))
      BY <1>7 DEF Resume
    <2>2. InCall(k)
      BY <1>1, <1>7 DEF Timed
    <2>3. Good(AfterEvtWait(k, c))
      BY <2>2, AfterEvtGood
    <2>4. Peak(r, AfterEvtWait(k, c))
      BY AfterEvtPeak
    <2> QED BY <2>1, <2>3, <2>4, Done
  <1>8. CASE c.fn = "evtt"
    <2>1. Do(AfterEvtWaitTimeout(a, c))
      BY <1>8 DEF Resume
    <2>2. Good(AfterEvtWaitTimeout(a, c))
      BY <1>1, AfterEvtGood
    <2>3. Peak(r, AfterEvtWaitTimeout(a, c))
      BY <1>R, AfterEvtPeak
    <2> QED BY <2>1, <2>2, <2>3, Done
  <1>9. CASE c.fn = "msgwait"
    <2>1. Do(TakeSender(k))
      BY <1>9 DEF Resume
    <2>2. InCall(k) /\ k.q[k.cur] # <<>>
      BY <1>1, <1>9 DEF Timed
    <2>3. Good(TakeSender(k))
      BY <2>2, TakeSenderGood
    <2>4. Peak(r, TakeSender(k))
      BY TakeSenderPeak
    <2> QED BY <2>1, <2>3, <2>4, Done
  <1>10. CASE c.fn \in {"post", "ahead", "fetch"}
    <2>1. Do(AfterMB(a, c))
      BY <1>10 DEF Resume
    <2>2. Good(AfterMB(a, c))
      BY <1>1, AfterMBGood
    <2>3. Peak(r, AfterMB(a, c))
      BY <1>1, <1>R, AfterMBPeak
    <2> QED BY <2>1, <2>2, <2>3, Done
  <1>11. CASE c.fn \in {"iqget", "oqput", "iqread", "oqwrite"}
    <2>1. Do(AfterQueue(a, c))
      BY <1>11 DEF Resume
    <2>2. c.time \in Times
      BY <1>1, <1>11 DEF ContOK
    <2>3. Good(AfterQueue(a, c))
      BY <1>1, <2>2, AfterQueueGood
    <2>4. Peak(r, AfterQueue(a, c))
      BY <1>R, AfterQueuePeak
    <2> QED BY <2>1, <2>3, <2>4, Done
  <1> QED BY <1>2, <1>3, <1>4, <1>5, <1>6, <1>7, <1>8, <1>9, <1>10, <1>11 DEF Timed

-----------------------------------------------------------------------------
(***************************************************************************)
(* The theorems.                                                           *)
(***************************************************************************)

\* Every step leaves the application alone.
LEMMA Rest ==
  ASSUME Inv, Next
  PROVE  app' = app /\ tick' \in BOOLEAN
  <1>1. CASE port_time_tick
    BY <1>1 DEF port_time_tick, Inv
  <1>2. CASE Resume \/ NextByte \/ MemSection
    BY <1>2 DEF Resume, NextByte, MemSection, Inv
  <1>3. CASE \E c : Call(c) \/ Isr(c)
    BY <1>3 DEF Call, Isr, Inv
  <1>4. CASE \/ ThdSleep \/ ThdSleepUntil \/ ThdYield \/ ThdSetPriority \/ ThdExit \/ ThdWait
             \/ ThdCreateStatic
    BY <1>3, <1>4 DEF ThdSleep, ThdSleepUntil, ThdYield, ThdSetPriority, ThdExit, ThdWait,
                      ThdCreateStatic
  <1>5. CASE \/ SemWait \/ SemWaitTimeout \/ SemSignal \/ SemReset \/ SemSignalWait
             \/ BSemSignal \/ IsrSemAddCounter \/ IsrSemReset
    BY <1>3, <1>5 DEF SemWait, SemWaitTimeout, SemSignal, SemReset, SemSignalWait, BSemSignal,
                      IsrSemAddCounter, IsrSemReset
  <1>6. CASE \/ MtxLock \/ MtxTryLock \/ MtxUnlock \/ MtxUnlockAll
             \/ CondWait \/ CondWaitTimeout \/ CondSignal \/ CondBroadcast \/ IsrCondSignal
    BY <1>3, <1>6 DEF MtxLock, MtxTryLock, MtxUnlock, MtxUnlockAll, CondWait, CondWaitTimeout,
                      CondSignal, CondBroadcast, IsrCondSignal
  <1>7. CASE \/ EvtRegister \/ EvtUnregister \/ EvtGetAndClear \/ EvtAdd \/ EvtGetAndClearFlags
             \/ EvtSignal \/ EvtWait \/ EvtWaitTimeout \/ EvtBroadcast \/ IsrEvtBroadcast
             \/ MsgSend \/ MsgWait \/ MsgRelease
    BY <1>3, <1>7 DEF EvtRegister, EvtUnregister, EvtGetAndClear, EvtAdd, EvtGetAndClearFlags,
                      EvtSignal, EvtWait, EvtWaitTimeout, EvtBroadcast, IsrEvtBroadcast,
                      MsgSend, MsgWait, MsgRelease
  <1>8. CASE \/ MBPost \/ MBPostAhead \/ MBFetch \/ MBReset \/ IsrMBPost \/ IsrMBPostAhead
             \/ IsrMBFetch \/ IQGet \/ OQPut \/ IQRead \/ OQWrite \/ IsrIQPut \/ IsrOQGet
             \/ IsrIQReset \/ IsrOQReset
    BY <1>3, <1>8 DEF MBPost, MBPostAhead, MBFetch, MBReset, IsrMBPost, IsrMBPostAhead,
                      IsrMBFetch, IQGet, OQPut, IQRead, OQWrite, IsrIQPut, IsrOQGet,
                      IsrIQReset, IsrOQReset
  <1>9. CASE \/ HeapAlloc \/ HeapFree \/ PoolAlloc \/ PoolFree \/ CoreAlloc
             \/ ThdCreateFromHeap \/ ThdCreateFromMemoryPool \/ RegFirstThread \/ RegNextThread
    BY <1>3, <1>9 DEF HeapAlloc, HeapFree, PoolAlloc, PoolFree, CoreAlloc, ThdCreateFromHeap,
                      ThdCreateFromMemoryPool, RegFirstThread, RegNextThread
  <1> QED BY <1>1, <1>2, <1>4, <1>5, <1>6, <1>7, <1>8, <1>9 DEF Next

LEMMA NextKeeps ==
  ASSUME NEW r, Inv, Peak(r, k), Next, r /\ ThdSetPriority => k.mtxlist[k.cur] = <<>>
  PROVE  Inv' /\ Peak(r, k')
  <1>1. app' = app /\ tick' \in BOOLEAN
    BY Rest
  <1>2. Stepped(r)
    BY TickStep, ResumeStep, ThreadSteps, CreateStep, SemSteps, MtxSteps, EvtMsgSteps,
       BufferSteps, MemSteps DEF Next
  <1> QED BY <1>1, <1>2 DEF Inv, Stepped

LEMMA InitGood ==
  ASSUME Init, NEW r
  PROVE  Inv /\ Peak(r, k)
  <1> DEFINE b == Boot(app.threads \ {Main})
  <1>1. app \in Apps /\ k = b /\ tick = FALSE /\ pie = TRUE
    BY DEF Init
  <1>2. Good(b) /\ \A t \in All : b.cont[t] = NoCont
    BY <1>1, BootGood
  <1>3. Peak(r, b)
    BY <1>1, BootPeak
  <1> HIDE DEF b
  <1>4. b.cur \in All
    BY <1>2, GoodShape
  <1> QED BY <1>1, <1>2, <1>3, <1>4 DEF Inv

\* The invariant holds in every state of the kernel, and so does that of the
\* priorities.
THEOREM KernelInvariant == Spec => [](Inv /\ Peak(FALSE, k))
  <1> DEFINE I == Inv /\ Peak(FALSE, k)
  <1>1. Init => I
    BY InitGood
  <1>2. I /\ [Next]_vars => I'
    <2> SUFFICES ASSUME Inv, Peak(FALSE, k), [Next]_vars PROVE Inv' /\ Peak(FALSE, k')
      OBVIOUS
    <2>1. CASE Next
      BY <2>1, NextKeeps
    <2>2. CASE UNCHANGED vars
      BY <2>2 DEF vars, Inv
    <2> QED BY <2>1, <2>2
  <1> HIDE DEF I
  <1>3. Spec => []I
    BY <1>1, <1>2, PTL DEF Spec
  <1> QED BY <1>3 DEF I

\* The owner of a mutex also has the priority of its waiters, when nobody sets
\* its own priority while it has a mutex.
LEMMA KernelInherits ==
  Spec /\ [][ThdSetPriority => k.mtxlist[k.cur] = <<>>]_vars => [](Inv /\ Peak(TRUE, k))
  <1> DEFINE I == Inv /\ Peak(TRUE, k)
             Allowed == ThdSetPriority => k.mtxlist[k.cur] = <<>>
  <1>1. Init => I
    BY InitGood
  <1>2. I /\ [Next]_vars /\ [Allowed]_vars => I'
    <2> SUFFICES ASSUME Inv, Peak(TRUE, k), [Next]_vars, [Allowed]_vars PROVE Inv' /\ Peak(TRUE, k')
      OBVIOUS
    <2>1. CASE UNCHANGED vars
      BY <2>1 DEF vars, Inv
    <2>2. CASE Next /\ Allowed
      BY <2>2, NextKeeps
    <2> QED BY <2>1, <2>2
  <1> HIDE DEF I, Allowed
  <1>3. Spec /\ [][Allowed]_vars => []I
    BY <1>1, <1>2, PTL DEF Spec
  <1> QED BY <1>3 DEF I, Allowed

LEMMA Places ==
  ASSUME Inv
  PROVE  OnePlace
  <1>1. Good(k) /\ Core(k, k.st) /\ k.cur \in All /\ k.st \in [All -> States]
        /\ \A t \in All : k.st[t] = "CURRENT" <=> t = k.cur
    BY GoodShape DEF Inv
  <1>2. Queues(k, k.st) /\ Locals(k, k.st)
    BY <1>1 DEF Core
  <1>3. Used(k.ready) = AreReady(k.st) /\ NoRepeats(k.ready)
    BY <1>2, UsedIs DEF Queues
  <1>4. \A o \in WaitQueues : Used(k.q[o]) = Waiters(k, k.st, o) /\ NoRepeats(k.q[o])
    BY <1>2, UsedIs DEF Queues
  <1>5. \A p \in All : Used(k.waiting[p]) = Joining(k, k.st, p)
    BY <1>2, UsedIs DEF Queues
  <1>6. ASSUME NEW t \in All PROVE Linked(t) = QueueOf(t)
    <2> DEFINE A == {o \in WaitQueues : t \in Used(k.q[o])}
               B == {<<"waiting", x>> : x \in {x \in All : t \in Used(k.waiting[x])}}
               C == IF t \in Used(k.ready) THEN {"ready"} ELSE {}
    <2>1. Linked(t) = A \cup B \cup C
      BY DEF Linked
    <2>2. Kind(k.st[t], k.u[t], k.cont[t])
      BY <1>2 DEF Locals, Local
    <2>3. A = {o \in WaitQueues : k.st[t] \in Queued /\ k.u[t][2] = o}
      BY <1>4 DEF Waiters
    <2>4. B = {<<"waiting", x>> : x \in {x \in All : k.st[t] = "WTEXIT" /\ k.cont[t].tp = x}}
      BY <1>5 DEF Joining
    <2>5. C = IF k.st[t] = "READY" THEN {"ready"} ELSE {}
      BY <1>3 DEF AreReady
    <2> HIDE DEF A, B, C
    <2>6. CASE k.st[t] = "READY"
      <3>1. A = {} /\ B = {} /\ C = {"ready"}
        BY <2>3, <2>4, <2>5, <2>6 DEF Queued
      <3>2. QueueOf(t) = {"ready"}
        BY <2>6 DEF QueueOf
      <3> QED BY <2>1, <3>1, <3>2
    <2>7. CASE k.st[t] \in Queued
      <3>1. B = {} /\ C = {}
        BY <2>4, <2>5, <2>7 DEF Queued
      <3>2. k.u[t][2] \in WaitQueues
        BY <2>2, <2>7 DEF Kind, Queued, WaitQueues
      <3>3. A = {k.u[t][2]}
        BY <2>3, <2>7, <3>2
      <3>4. QueueOf(t) = {k.u[t][2]}
        BY <2>7 DEF QueueOf, WaitObj, Queued
      <3> QED BY <2>1, <3>1, <3>3, <3>4
    <2>8. CASE k.st[t] = "WTEXIT"
      <3>1. A = {} /\ C = {}
        BY <2>3, <2>5, <2>8 DEF Queued
      <3>2. k.cont[t].tp \in All
        BY <2>2, <2>8 DEF Kind
      <3>3. B = {<<"waiting", k.cont[t].tp>>}
        BY <2>4, <2>8, <3>2
      <3>4. QueueOf(t) = {<<"waiting", k.cont[t].tp>>}
        BY <2>8 DEF QueueOf
      <3> QED BY <2>1, <3>1, <3>3, <3>4
    <2>9. CASE k.st[t] # "READY" /\ k.st[t] \notin Queued /\ k.st[t] # "WTEXIT"
      <3>1. A = {} /\ B = {} /\ C = {}
        BY <2>3, <2>4, <2>5, <2>9
      <3>2. QueueOf(t) = {}
        BY <2>9 DEF QueueOf, Queued
      <3> QED BY <2>1, <3>1, <3>2
    <2> QED BY <2>6, <2>7, <2>8, <2>9
  <1> QED BY <1>1, <1>3, <1>4, <1>6 DEF OnePlace

LEMMA Types ==
  ASSUME Inv
  PROVE  TypeOK
  <1>1. Good(k) /\ Core(k, k.st) /\ k.cur \in All /\ k.st \in [All -> States]
    BY GoodShape DEF Inv
  <1>2. Used(k.ready) \subseteq All
    <2>1. Exactly(k.ready, AreReady(k.st))
      BY <1>1, CoreShape
    <2> QED BY <2>1, UsedIs
  <1>3. \A t \in All : k.preempt[t] \in 0..CH_TIME_QUANTUM
    BY <1>1, CoreShape
  <1>4. \A i \in DOMAIN k.vt : k.vt[i].time \in Times
    <2>1. Timers(k.vt, k.due, k.cont)
      BY <1>1 DEF Core
    <2>2. DOMAIN k.vt = 1..Len(k.vt)
      BY <2>1 DEF Timers
    <2> QED BY <2>1, <2>2, TimerFacts
  <1>5. /\ k.mb.rd \in 0..(Size - 1) /\ k.mb.wr \in 0..(Size - 1)
        /\ \A x \in {"iq", "oq"} : k.io[x].counter \in 0..Size
    BY <1>1 DEF Core, MBOK, IOOK, QueueOK
  <1> QED BY <1>1, <1>2, <1>3, <1>4, <1>5 DEF Inv, TypeOK

LEMMA Semaphores ==
  ASSUME Inv
  PROVE  SemConsistent
  <1>1. Core(k, k.st)
    BY GoodShape DEF Inv
  <1> SUFFICES ASSUME NEW s \in AllSems
               PROVE  IF k.cnt[s] < 0 THEN Len(k.q[s]) = -k.cnt[s] ELSE k.q[s] = <<>>
    BY DEF SemConsistent
  <1>2. k.cnt[s] \in Int /\ Len(k.q[s]) = IF k.cnt[s] < 0 THEN -k.cnt[s] ELSE 0
    BY <1>1 DEF Core, Counters
  <1>3. k.q[s] \in Seq(All)
    BY <1>1, UsedIs DEF Core, Queues, WaitQueues
  <1> QED BY <1>2, <1>3

LEMMA TimersOK ==
  ASSUME Inv
  PROVE  TimersExact
  <1>1. Good(k) /\ Timers(k.vt, k.due, k.cont)
    BY DEF Inv, Good, Core
  <1>2. k.vt \in Seq(TimerRecs) /\ DOMAIN k.vt = 1..Len(k.vt)
    BY <1>1 DEF Timers, TimerRecs
  <1>3. \A i \in DOMAIN k.vt : Expiries(k.vt)[i] = k.due[k.vt[i].par]
    BY <1>1, <1>2, ExpiriesAre
  <1>4. \A i \in DOMAIN k.vt : k.cont[k.vt[i].par] # NoCont
    BY <1>1, <1>2, NoContFacts DEF Timers, Timed
  <1>5. \A t \in All : chVTIsArmedI(k, t) => k.cont[t] # NoCont
    BY <1>4 DEF chVTIsArmedI
  <1>6. NoRepeats([i \in DOMAIN k.vt |-> k.vt[i].par])
    BY <1>1, <1>2 DEF Timers, NoRepeats
  <1> QED BY <1>3, <1>5, <1>6 DEF TimersExact

LEMMA Wakeups ==
  ASSUME Inv
  PROVE  NoMissedWakeup
  <1>1. Locals(k, k.st)
    BY DEF Inv, Good, Core
  <1> SUFFICES ASSUME NEW t \in Threads
               PROVE  /\ k.st[t] = "WTOREVT" => k.epending[t] \cap k.u[t][2] = {}
                      /\ k.st[t] = "WTANDEVT" => ~ k.u[t][2] \subseteq k.epending[t]
                      /\ k.st[t] = "WTMSG" => k.q[t] = <<>>
                      /\ k.st[t] = "FINAL" => k.waiting[t] = <<>>
    BY DEF NoMissedWakeup
  <1>2. t \in All
    BY DEF All
  <1>3. Local(k.st[t], k.u[t], k.cont[t], k.q[t], k.waiting[t], k.epending[t],
              k.mtxlist[t], k.more[t], k.preempt[t])
    BY <1>1, <1>2 DEF Locals
  <1> QED BY <1>3 DEF Local, Running, Sleeps

\* Every thread is in the one queue that its state names, the counters of the
\* semaphores agree with their queues, and all fields are in range, whatever
\* threads, interrupt routines and timeouts do (wakeup() in chschd.c and the
\* calls that put a thread to sleep).
THEOREM KernelQueuesConsistent == Spec => []QueuesConsistent
  <1>1. Inv => QueuesConsistent
    BY Places, Types, Semaphores DEF QueuesConsistent
  <1> QED BY <1>1, KernelInvariant, PTL

\* The distances of the timer list add up to the ticks that each timer has
\* left, and nobody in its own code has a timer armed (chVTSetI, chVTResetI,
\* chVTDoTickI).
THEOREM KernelTimersExact == Spec => []TimersExact
  <1>1. Inv => TimersExact
    BY TimersOK
  <1> QED BY <1>1, KernelInvariant, PTL

\* Nobody sleeps for events that are pending, for a message that is queued or
\* for a thread that has ended (chevents.c, chmsg.c, chThdWait).
THEOREM KernelNoMissedWakeup == Spec => []NoMissedWakeup
  <1>1. Inv => NoMissedWakeup
    BY Wakeups
  <1> QED BY <1>1, KernelInvariant, PTL

LEMMA HighestIs ==
  ASSUME Inv, NEW r, Peak(r, k)
  PROVE  HighestRuns
  <1>1. /\ k.ready \in Seq(All) /\ Ordered(k.prio, k.ready) /\ Highest(k)
        /\ \A m \in AllMutexes : k.q[m] \in Seq(All) /\ Ordered(k.prio, k.q[m])
    BY RankFacts DEF Peak
  <1>2. /\ k.cur \in All /\ (\A t \in All : k.prio[t] \in Int) /\ k.prio[Idle] = 1
        /\ k.cur = Idle \/ Idle \in Used(k.ready)
    BY RankFacts DEF Peak
  <1>3. ASSUME NEW s \in Seq(All), Ordered(k.prio, s) PROVE Sorted(s)
    <2>1. DOMAIN s = 1..Len(s) /\ \A i \in 1..Len(s) : s[i] \in All
      OBVIOUS
    <2> QED BY <1>2, <1>3, <2>1 DEF Ordered, Sorted
  <1>4. firstprio(k) <= k.prio[k.cur]
    <2>1. CASE k.ready = <<>>
      <3>1. Used(k.ready) = {}
        BY <2>1 DEF Used
      <3> QED BY <1>2, <2>1, <3>1 DEF firstprio, NOPRIO
    <2>2. CASE k.ready # <<>>
      BY <1>1, <2>2, UsedOf DEF firstprio, Highest
    <2> QED BY <2>1, <2>2
  <1> QED BY <1>1, <1>3, <1>4 DEF HighestRuns

LEMMA InheritedIs ==
  ASSUME Peak(TRUE, k)
  PROVE  Inherited
  <1>1. /\ Owned(k.owner, k.mtxlist) /\ Lifted(k.prio, Waits(k.q), k.owner, NoThread, 0)
        /\ k.owner \in [AllMutexes -> Threads \cup {NoThread}] /\ NoThread \notin All
        /\ \A m \in AllMutexes : k.q[m] \in Seq(All)
    BY RankFacts, NamesAssumption DEF Peak, Ranked, Held
  <1> SUFFICES ASSUME NEW m \in AllMutexes
               PROVE  /\ k.q[m] # <<>> => k.owner[m] # NoThread
                      /\ k.owner[m] # NoThread =>
                             /\ m \in Used(k.mtxlist[k.owner[m]])
                             /\ \A i \in DOMAIN k.q[m] : k.prio[k.q[m][i]] <= k.prio[k.owner[m]]
    BY DEF Inherited
  <1>2. \A w \in Used(k.q[m]) : k.owner[m] # NoThread /\ k.prio[w] <= k.prio[k.owner[m]]
    <2>1. \A w \in Waits(k.q)[m] : k.owner[m] # NoThread /\ (k.prio[w] <= k.prio[k.owner[m]] \/ k.owner[m] = NoThread)
      BY <1>1 DEF Lifted
    <2> QED BY <2>1 DEF Waits
  <1>3. k.q[m] # <<>> => Used(k.q[m]) # {}
    BY <1>1, UsedOf
  <1>4. ASSUME k.owner[m] # NoThread PROVE m \in Used(k.mtxlist[k.owner[m]])
    <2>1. k.owner[m] \in All
      BY <1>1, <1>4 DEF All
    <2> QED BY <1>1, <2>1 DEF Owned, Has, Owns
  <1> QED BY <1>2, <1>3, <1>4 DEF Used

\* Whenever interrupts are enabled no thread that is ready has more priority
\* than the one that runs, and the ready list and the queues of mutexes are in
\* the order of priorities: no call and no interrupt forgets to reschedule
\* (chSchRescheduleS, chSchWakeupS, chSchIsPreemptionRequired), also when a
\* priority is inherited, given back or set.
THEOREM KernelHighestRuns == Spec => []HighestRuns
  <1>1. Inv /\ Peak(FALSE, k) => HighestRuns
    BY HighestIs
  <1> QED BY <1>1, KernelInvariant, PTL

\* The owner of a mutex has at least the priority of every thread that waits for
\* it, through chains of owners that wait themselves (chMtxLockS,
\* chMtxUnlock, chMtxUnlockAll), when no thread sets its own priority while it
\* owns a mutex: chThdSetPriority also lowers an owner that its waiters have not
\* raised, because they have no more priority than it has.
THEOREM KernelInherited ==
  Spec /\ [][ThdSetPriority => k.mtxlist[k.cur] = <<>>]_vars => []Inherited
  <1>1. Inv /\ Peak(TRUE, k) => Inherited
    BY InheritedIs
  <1> QED BY <1>1, KernelInherits, PTL
=============================================================================

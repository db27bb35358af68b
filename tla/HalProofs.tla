------------------------------ MODULE HalProofs ------------------------------
(***************************************************************************)
(* Theorems about the hardware abstraction layer, for every number of      *)
(* descriptors, every length of the rings and of the FIFO, every width of  *)
(* the tick counter and every bound on what the program does.              *)
(***************************************************************************)
EXTENDS Hal, TLAPS, WellFoundedInduction, NaturalsInduction, SequenceTheorems

-----------------------------------------------------------------------------
(***************************************************************************)
(* The descriptor table.                                                   *)
(***************************************************************************)
Flags == [acc : {"rd", "wr", "rw"}, nonblock : BOOLEAN, excl : BOOLEAN, isdev : BOOLEAN]

FdTable ==
  [dev : [Fds -> Devices \cup {None}], flags : [Fds -> Flags], max : Int,
   devs : SUBSET Devices, older : [Fds -> SUBSET Fds]]

\* The standard descriptors are always open, the others only up to max, and
\* only an open descriptor holds a lock.
TableOK(ft) ==
  /\ ft \in FdTable
  /\ \A i \in Fds : /\ i < 3 => ft.dev[i] # None
                    /\ i > 2 /\ ft.dev[i] # None => i <= ft.max
                    /\ ft.flags[i].excl => ft.dev[i] # None

LocksOK(ft) ==
  \A i \in Fds : ft.flags[i].excl =>
    /\ Sharing(ft, i) \subseteq ft.older[i]
    /\ \A j, k \in ft.older[i] : j = k /\ i < j

\* While the system starts no descriptor but the standard ones stays open,
\* and nothing is locked.
Starting(ft) ==
  \A i \in Fds : ~ft.flags[i].excl /\ (i > 2 => ft.dev[i] = None)

LEMMA FdsNat == Fds \subseteq Nat /\ {0, 1, 2, 3} \subseteq Fds
<1>1. ALT_MAX_FD \in Nat /\ ALT_MAX_FD > 3
  BY FdAssumption
<1> QED BY <1>1 DEF Fds

LEMMA LeastOf ==
  ASSUME NEW T, T \subseteq Nat, T # {}
  PROVE  Min(T) \in T
<1> DEFINE R == {ss \in Nat \X Nat : ss[1] < ss[2]}
<1>1. IsWellFoundedOn(R, Nat)
  <2>1. OpToRel(<, Nat) = R
    BY DEF OpToRel
  <2> QED BY <2>1, NatLessThanWellFounded
<1>2. \E x \in T : \A y \in T : ~ (<<y, x>> \in R)
  <2> HIDE DEF R
  <2> QED BY <1>1, WFMin
<1>3. PICK x \in T : \A y \in T : ~ (<<y, x>> \in R)
  BY <1>2
<1>4. \A y \in T : x <= y
  <2> SUFFICES ASSUME NEW y \in T PROVE x <= y
    OBVIOUS
  <2>1. x \in Nat /\ y \in Nat
    OBVIOUS
  <2>2. ~ (y < x)
    BY <1>3, <2>1
  <2> QED BY <2>1, <2>2
<1> QED BY <1>4 DEF Min

LEMMA GetFd ==
  ASSUME NEW ft, TableOK(ft)
  PROVE  LET i == alt_get_fd(ft)
         IN  /\ i = -1 \/ (i \in Fds /\ i > 2 /\ ft.dev[i] = None /\ ~ft.flags[i].excl)
             /\ (\E j \in Fds : ft.dev[j] = None) => i # -1
<1> DEFINE free == {i \in Fds : ft.dev[i] = None}
<1>1. alt_get_fd(ft) = IF free = {} THEN -1 ELSE Min(free)
  BY DEF alt_get_fd
<1>2. free \subseteq Nat
  BY FdsNat
<1>3. CASE free = {}
  BY <1>1, <1>3
<1>4. CASE free # {}
  <2>1. Min(free) \in free
    <3> HIDE DEF free
    <3> QED BY <1>2, <1>4, LeastOf
  <2> DEFINE m == Min(free)
  <2>2. m \in Fds /\ ft.dev[m] = None /\ m \in Nat
    BY <1>2, <2>1
  <2>3. alt_get_fd(ft) = m
    BY <1>1, <1>4
  <2> HIDE DEF m, free
  <2>4. ~(m < 3) /\ ~ft.flags[m].excl
    BY <2>2 DEF TableOK
  <2>5. m > 2 /\ m # -1
    BY <2>2, <2>4
  <2> QED BY <2>2, <2>3, <2>4, <2>5
<1> QED BY <1>3, <1>4

LEMMA MaxTwo ==
  ASSUME NEW a \in Int, NEW b \in Int
  PROVE  Max({a, b}) \in Int /\ a <= Max({a, b}) /\ b <= Max({a, b})
<1>1. \E x \in {a, b} : \A y \in {a, b} : x >= y
  OBVIOUS
<1>2. Max({a, b}) \in {a, b} /\ \A y \in {a, b} : Max({a, b}) >= y
  BY <1>1 DEF Max
<1> QED BY <1>2

LEMMA ReleaseOK ==
  ASSUME NEW ft, TableOK(ft), NEW i \in Fds
  PROVE  LET r == alt_release_fd(ft, i)
         IN  /\ TableOK(r)
             /\ LocksOK(ft) => LocksOK(r)
             /\ Starting(ft) => Starting(r)
             /\ r.max = ft.max /\ r.devs = ft.devs
<1>1. CASE ~(i > 2)
  BY <1>1 DEF alt_release_fd
<1>2. CASE i > 2
  <2> DEFINE r == [ft EXCEPT !.dev[i] = None, !.flags[i] = NoFlags, !.older[i] = {}]
  <2>1. alt_release_fd(ft, i) = r
    BY <1>2 DEF alt_release_fd
  <2>2. NoFlags \in Flags /\ ~NoFlags.excl
    BY DEF NoFlags, Flags
  <2>3. ft \in FdTable
    BY DEF TableOK
  <2>4. /\ r \in FdTable /\ r.max = ft.max /\ r.devs = ft.devs
        /\ r.dev[i] = None /\ r.flags[i] = NoFlags
        /\ \A j \in Fds : j # i => r.dev[j] = ft.dev[j] /\ r.flags[j] = ft.flags[j]
                                   /\ r.older[j] = ft.older[j]
    BY <2>2, <2>3 DEF FdTable
  <2> HIDE DEF r
  <2>5. TableOK(r)
    BY <1>2, <2>2, <2>4, FdsNat DEF TableOK
  <2>6. ASSUME LocksOK(ft) PROVE LocksOK(r)
    <3> SUFFICES ASSUME NEW j \in Fds, r.flags[j].excl
                 PROVE  /\ Sharing(r, j) \subseteq r.older[j]
                        /\ \A k, l \in r.older[j] : k = l /\ j < k
      BY DEF LocksOK
    <3>1. j # i /\ ft.flags[j].excl /\ r.older[j] = ft.older[j] /\ r.dev[j] = ft.dev[j] /\ ft.dev[j] # None
      BY <2>2, <2>4 DEF TableOK
    <3>2. Sharing(r, j) \subseteq Sharing(ft, j)
      BY <2>4, <3>1 DEF Sharing
    <3> QED BY <2>6, <3>1, <3>2 DEF LocksOK
  <2>7. Starting(ft) => Starting(r)
    BY <2>2, <2>4 DEF Starting
  <2> QED BY <2>1, <2>4, <2>5, <2>6, <2>7
<1> QED BY <1>1, <1>2

LEMMA OpenOK ==
  ASSUME NEW ft, TableOK(ft), NEW d \in Devices, NEW acc \in {"rd", "wr", "rw"}, NEW nb \in BOOLEAN
  PROVE  LET r == ALT_OPEN(ft, d, acc, nb)
         IN  /\ TableOK(r) /\ r.max >= ft.max /\ r.devs = ft.devs
             /\ LocksOK(ft) => LocksOK(r)
<1> DEFINE i == alt_get_fd(ft)
           f == [NoFlags EXCEPT !.acc = acc, !.nonblock = nb, !.isdev = TRUE]
           got == [ft EXCEPT !.dev[i] = d, !.max = Max({@, i}), !.flags[i] = f]
<1>1. ft \in FdTable /\ ft.max \in Int
  BY DEF TableOK, FdTable
<1>2. ALT_OPEN(ft, d, acc, nb) = IF d \notin ft.devs \/ i < 0 THEN ft
                                 ELSE IF alt_file_locked(got, i) THEN alt_release_fd(got, i)
                                 ELSE got
  BY DEF ALT_OPEN
<1>3. CASE d \notin ft.devs \/ i < 0
  BY <1>1, <1>2, <1>3
<1>4. CASE ~(d \notin ft.devs \/ i < 0)
  <2>1. i \in Fds /\ i > 2 /\ ft.dev[i] = None /\ ~ft.flags[i].excl /\ i \in Int
    <3>1. i = -1 \/ (i \in Fds /\ i > 2 /\ ft.dev[i] = None /\ ~ft.flags[i].excl)
      BY GetFd
    <3> HIDE DEF i
    <3>2. i # -1
      BY <1>4
    <3>3. i \in Fds /\ i > 2 /\ ft.dev[i] = None /\ ~ft.flags[i].excl
      BY <3>1, <3>2
    <3> QED BY <3>3, FdsNat
  <2>2. f \in Flags /\ ~f.excl
    BY DEF f, NoFlags, Flags
  <2>3. Max({ft.max, i}) \in Int /\ ft.max <= Max({ft.max, i}) /\ i <= Max({ft.max, i})
    BY <1>1, <2>1, MaxTwo
  <2> HIDE DEF i, f
  <2>4. /\ got \in FdTable /\ got.max = Max({ft.max, i}) /\ got.devs = ft.devs
        /\ got.older = ft.older
        /\ got.dev[i] = d /\ got.flags[i] = f
        /\ \A j \in Fds : j # i => got.dev[j] = ft.dev[j] /\ got.flags[j] = ft.flags[j]
    BY <1>1, <2>1, <2>2, <2>3 DEF FdTable
  <2> HIDE DEF got
  <2>5. TableOK(got)
    <3> SUFFICES ASSUME NEW j \in Fds
                 PROVE  /\ j < 3 => got.dev[j] # None
                        /\ j > 2 /\ got.dev[j] # None => j <= got.max
                        /\ got.flags[j].excl => got.dev[j] # None
      BY <2>4 DEF TableOK
    <3>1. d # None
      BY DEF Devices, None
    <3>2. CASE j = i
      BY <2>1, <2>2, <2>3, <2>4, <3>1, <3>2
    <3>3. CASE j # i
      <4>1. j \in Int
        BY FdsNat
      <4> QED BY <1>1, <2>3, <2>4, <3>3, <4>1 DEF TableOK
    <3> QED BY <3>2, <3>3
  <2>6. CASE alt_file_locked(got, i)
    <3> DEFINE r == alt_release_fd(got, i)
    <3>1. TableOK(r) /\ r.max = got.max /\ r.devs = got.devs
      BY <2>1, <2>5, ReleaseOK
    <3>2. ASSUME LocksOK(ft) PROVE LocksOK(r)
      <4>1. r = [got EXCEPT !.dev[i] = None, !.flags[i] = NoFlags, !.older[i] = {}]
        BY <2>1 DEF alt_release_fd
      <4>2. /\ r.flags[i] = NoFlags /\ r.dev[i] = None
            /\ \A j \in Fds : j # i => r.dev[j] = ft.dev[j] /\ r.flags[j] = ft.flags[j]
                                       /\ r.older[j] = ft.older[j]
        BY <2>1, <2>4, <4>1 DEF FdTable
      <4> HIDE DEF r
      <4> SUFFICES ASSUME NEW j \in Fds, r.flags[j].excl
                   PROVE  /\ Sharing(r, j) \subseteq r.older[j]
                          /\ \A k, l \in r.older[j] : k = l /\ j < k
        BY DEF LocksOK
      <4>3. j # i /\ ft.flags[j].excl
        BY <4>2 DEF NoFlags
      <4>4. ft.dev[j] # None
        BY <4>3 DEF TableOK
      <4>5. Sharing(r, j) \subseteq Sharing(ft, j)
        BY <4>2, <4>3, <4>4 DEF Sharing
      <4> QED BY <3>2, <4>2, <4>3, <4>5 DEF LocksOK
    <3>3. ALT_OPEN(ft, d, acc, nb) = r
      BY <1>2, <1>4, <2>6
    <3>4. r.max >= ft.max
      BY <1>1, <2>3, <2>4, <3>1
    <3> QED BY <2>4, <3>1, <3>2, <3>3, <3>4
  <2>7. CASE ~alt_file_locked(got, i)
    <3>1. ALT_OPEN(ft, d, acc, nb) = got
      BY <1>2, <1>4, <2>7
    <3>2. ASSUME LocksOK(ft) PROVE LocksOK(got)
      <4> SUFFICES ASSUME NEW j \in Fds, got.flags[j].excl
                   PROVE  /\ Sharing(got, j) \subseteq got.older[j]
                          /\ \A k, l \in got.older[j] : k = l /\ j < k
        BY DEF LocksOK
      <4>1. j # i /\ ft.flags[j].excl /\ got.dev[j] = ft.dev[j]
        BY <2>2, <2>4
      <4>2. got.max >= j
        <5>1. j \in Int /\ got.dev[j] # None /\ got.max \in Int
          BY <2>4, <2>5, FdsNat DEF TableOK, FdTable
        <5>2. CASE j > 2
          BY <2>5, <5>1, <5>2 DEF TableOK
        <5>3. CASE ~(j > 2)
          BY <2>1, <2>3, <2>4, <5>1, <5>3
        <5> QED BY <5>2, <5>3
      <4>3. j \notin Sharing(got, i)
        <5>1. j \in Int /\ got.max \in Int
          BY <2>4, FdsNat DEF FdTable
        <5> QED BY <2>7, <4>1, <4>2, <5>1 DEF alt_file_locked
      <4>4. got.dev[j] # got.dev[i]
        BY <4>1, <4>3 DEF Sharing
      <4>5. Sharing(got, j) \subseteq Sharing(ft, j)
        BY <2>4, <4>1, <4>4 DEF Sharing
      <4> QED BY <2>4, <3>2, <4>1, <4>5 DEF LocksOK
    <3>3. got.max >= ft.max
      BY <1>1, <2>3, <2>4
    <3> QED BY <2>4, <2>5, <3>1, <3>2, <3>3
  <2> QED BY <2>6, <2>7
<1> QED BY <1>3, <1>4

LEMMA LockUnlockOK ==
  ASSUME NEW ft, TableOK(ft), LocksOK(ft), NEW i \in Fds, ft.dev[i] # None, ft.max > 2
  PROVE  LET r == alt_fd_lock(ft, i)
             u == alt_fd_unlock(ft, i)
         IN  /\ TableOK(r) /\ LocksOK(r) /\ r.max = ft.max /\ r.devs = ft.devs
             /\ TableOK(u) /\ LocksOK(u) /\ u.max = ft.max /\ u.devs = ft.devs
<1>1. ft \in FdTable /\ ft.max \in Int
  BY DEF TableOK, FdTable
<1>2. \A j \in Fds : j \in Int /\ (ft.dev[j] # None => j <= ft.max)
  <2> SUFFICES ASSUME NEW j \in Fds PROVE j \in Int /\ (ft.dev[j] # None => j <= ft.max)
    OBVIOUS
  <2>1. j \in Int
    BY FdsNat
  <2> QED BY <1>1, <2>1 DEF TableOK
<1>3. Sharing(ft, i) \subseteq Fds
  BY DEF Sharing
<1> DEFINE r == [ft EXCEPT !.flags[i].excl = TRUE, !.older[i] = Sharing(ft, i)]
           u == [ft EXCEPT !.flags[i].excl = FALSE, !.older[i] = {}]
<1>4. /\ r \in FdTable /\ r.dev = ft.dev /\ r.max = ft.max /\ r.devs = ft.devs
      /\ r.older[i] = Sharing(ft, i)
      /\ \A j \in Fds : j # i => r.flags[j] = ft.flags[j] /\ r.older[j] = ft.older[j]
  <2>1. [ft.flags[i] EXCEPT !.excl = TRUE] \in Flags
    BY <1>1 DEF FdTable, Flags
  <2>2. r = [ft EXCEPT !.flags = [ft.flags EXCEPT ![i] = [ft.flags[i] EXCEPT !.excl = TRUE]],
                       !.older = [ft.older EXCEPT ![i] = Sharing(ft, i)]]
    BY <1>1 DEF FdTable
  <2> HIDE DEF r
  <2> QED BY <1>1, <1>3, <2>1, <2>2 DEF FdTable
<1>5. /\ u \in FdTable /\ u.dev = ft.dev /\ u.max = ft.max /\ u.devs = ft.devs
      /\ ~u.flags[i].excl
      /\ \A j \in Fds : j # i => u.flags[j] = ft.flags[j] /\ u.older[j] = ft.older[j]
  <2>1. [ft.flags[i] EXCEPT !.excl = FALSE] \in Flags /\ ~[ft.flags[i] EXCEPT !.excl = FALSE].excl
    BY <1>1 DEF FdTable, Flags
  <2>2. u = [ft EXCEPT !.flags = [ft.flags EXCEPT ![i] = [ft.flags[i] EXCEPT !.excl = FALSE]],
                       !.older = [ft.older EXCEPT ![i] = {}]]
    BY <1>1 DEF FdTable
  <2> HIDE DEF u
  <2> QED BY <1>1, <2>1, <2>2 DEF FdTable
<1> HIDE DEF r, u
<1>6. TableOK(u) /\ LocksOK(u)
  BY <1>5 DEF TableOK, LocksOK, Sharing
<1>7. ASSUME ~\E j \in Sharing(ft, i) : j < ft.max PROVE TableOK(r) /\ LocksOK(r)
  <2>1. TableOK(r)
    <3>1. \A j \in Fds : r.flags[j].excl => r.dev[j] # None
      BY <1>4 DEF TableOK
    <3> QED BY <1>4, <3>1 DEF TableOK
  <2>2. \A j \in Sharing(ft, i) : j = ft.max /\ i < j
    <3> SUFFICES ASSUME NEW j \in Sharing(ft, i) PROVE j = ft.max /\ i < j
      OBVIOUS
    <3>1. j \in Fds /\ j # i /\ ft.dev[j] # None
      BY DEF Sharing
    <3>2. j \in Int /\ i \in Int /\ j <= ft.max /\ i <= ft.max /\ ~(j < ft.max)
      BY <1>2, <1>7, <3>1
    <3> QED BY <1>1, <3>1, <3>2
  <2>3. LocksOK(r)
    <3> SUFFICES ASSUME NEW j \in Fds, r.flags[j].excl
                 PROVE  /\ Sharing(r, j) \subseteq r.older[j]
                        /\ \A k, l \in r.older[j] : k = l /\ j < k
      BY DEF LocksOK
    <3>1. Sharing(r, j) = Sharing(ft, j)
      BY <1>4 DEF Sharing
    <3>2. CASE j = i
      BY <1>4, <2>2, <3>1, <3>2
    <3>3. CASE j # i
      BY <1>4, <3>1, <3>3 DEF LocksOK
    <3> QED BY <3>2, <3>3
  <2> QED BY <2>1, <2>3
<1>8. alt_fd_lock(ft, i) = (IF \E j \in Sharing(ft, i) : j < ft.max THEN ft ELSE r)
  BY DEF alt_fd_lock, r
<1>9. alt_fd_unlock(ft, i) = u
  BY DEF alt_fd_unlock, u
<1> QED BY <1>4, <1>5, <1>6, <1>7, <1>8, <1>9

LEMMA FcntlOK ==
  ASSUME NEW ft, TableOK(ft), LocksOK(ft), NEW i \in Fds, NEW nb \in BOOLEAN
  PROVE  LET r == ALT_FCNTL(ft, i, nb)
         IN  TableOK(r) /\ LocksOK(r) /\ r.max = ft.max /\ r.devs = ft.devs
<1>1. ft \in FdTable
  BY DEF TableOK
<1> DEFINE f == [ft.flags[i] EXCEPT !.nonblock = nb]
           r == ALT_FCNTL(ft, i, nb)
<1>2. f \in Flags /\ f.excl = ft.flags[i].excl
  BY <1>1 DEF FdTable, Flags
<1>3. r = [ft EXCEPT !.flags = [ft.flags EXCEPT ![i] = f]]
  BY <1>1 DEF ALT_FCNTL, FdTable
<1> HIDE DEF r, f
<1>4. /\ r \in FdTable /\ r.dev = ft.dev /\ r.max = ft.max /\ r.devs = ft.devs /\ r.older = ft.older
      /\ \A j \in Fds : r.flags[j].excl = ft.flags[j].excl
  BY <1>1, <1>2, <1>3 DEF FdTable
<1>5. TableOK(r) /\ LocksOK(r)
  BY <1>4 DEF TableOK, LocksOK, Sharing
<1> QED BY <1>4, <1>5 DEF r

LEMMA DevRegOK ==
  ASSUME NEW ft, TableOK(ft), Starting(ft), NEW d \in Devices
  PROVE  LET r == alt_dev_reg(ft, d)
         IN  TableOK(r) /\ Starting(r) /\ r.max = ft.max /\ r.devs = ft.devs \cup {d}
<1> DEFINE r == alt_dev_reg(ft, d)
<1>1. ft \in FdTable /\ r = [ft EXCEPT !.devs = ft.devs \cup {d}]
  BY DEF TableOK, alt_dev_reg
<1> HIDE DEF r
<1>2. /\ r \in FdTable /\ r.dev = ft.dev /\ r.flags = ft.flags /\ r.max = ft.max
      /\ r.devs = ft.devs \cup {d}
  BY <1>1 DEF FdTable
<1> QED BY <1>2 DEF TableOK, Starting, r

\* A standard descriptor is redirected while the system starts: a descriptor
\* is there for it, and is free again afterwards.
LEMMA RedirectOK ==
  ASSUME NEW ft, TableOK(ft), Starting(ft), "jtag" \in ft.devs,
         NEW std \in {0, 1, 2}, NEW acc \in {"rd", "wr", "rw"}
  PROVE  LET r == alt_open_fd(ft, std, "jtag", acc)
         IN  TableOK(r) /\ Starting(r) /\ r.max > 2 /\ r.devs = ft.devs
<1> DEFINE i == alt_get_fd(ft)
           o == ALT_OPEN(ft, "jtag", acc, FALSE)
           f == [NoFlags EXCEPT !.acc = acc, !.nonblock = FALSE, !.isdev = TRUE]
           got == [ft EXCEPT !.dev[i] = "jtag", !.max = Max({@, i}), !.flags[i] = f]
<1>1. ft \in FdTable /\ ft.max \in Int
  BY DEF TableOK, FdTable
<1>2. i \in Fds /\ i > 2 /\ i \in Int
  <2>1. \E j \in Fds : ft.dev[j] = None
    BY FdsNat DEF Starting
  <2>2. i \in Fds /\ i > 2
    BY <2>1, GetFd
  <2> HIDE DEF i
  <2> QED BY <2>2, FdsNat
<1>3. f \in Flags /\ ~f.excl /\ "jtag" \in Devices
  BY DEF f, NoFlags, Flags, Devices
<1>4. Max({ft.max, i}) \in Int /\ i <= Max({ft.max, i})
  BY <1>1, <1>2, MaxTwo
<1>5. o = IF alt_file_locked(got, i) THEN alt_release_fd(got, i) ELSE got
  <2>1. ~(i < 0)
    BY <1>2
  <2> QED BY <2>1 DEF ALT_OPEN
<1>6. alt_open_fd(ft, std, "jtag", acc)
        = IF i < 0 \/ o.dev[i] = None THEN o
          ELSE alt_release_fd([o EXCEPT !.dev[std] = o.dev[i], !.flags[std] = o.flags[i]], i)
  BY DEF alt_open_fd
<1>7. TableOK(o) /\ o.devs = ft.devs
  BY <1>3, OpenOK
<1> HIDE DEF i, f, o
<1>8. /\ got \in FdTable /\ got.max = Max({ft.max, i}) /\ got.dev[i] = "jtag" /\ got.flags[i] = f
      /\ \A j \in Fds : j # i => got.dev[j] = ft.dev[j] /\ got.flags[j] = ft.flags[j]
  BY <1>1, <1>2, <1>3, <1>4 DEF FdTable
<1> HIDE DEF got
<1>9. ~alt_file_locked(got, i)
  BY <1>3, <1>8 DEF alt_file_locked, Starting, Sharing
<1>10. o = got
  BY <1>5, <1>9
<1> DEFINE m == [o EXCEPT !.dev[std] = o.dev[i], !.flags[std] = o.flags[i]]
<1>11. std \in Fds /\ std < 3 /\ std # i
  BY <1>2, FdsNat
<1>12. /\ m \in FdTable /\ m.max = o.max /\ m.devs = o.devs
       /\ m.dev[std] = "jtag" /\ m.flags[std] = f /\ m.flags[i] = f
       /\ \A j \in Fds : j # std /\ j # i => m.dev[j] = ft.dev[j] /\ m.flags[j] = ft.flags[j]
       /\ m.dev[i] = "jtag"
  <2>1. o \in FdTable /\ o.dev[i] = "jtag" /\ o.flags[i] = f
    BY <1>8, <1>10
  <2>2. m = [o EXCEPT !.dev = [o.dev EXCEPT ![std] = "jtag"], !.flags = [o.flags EXCEPT ![std] = f]]
    BY <2>1 DEF FdTable
  <2> HIDE DEF m
  <2>3. m \in FdTable /\ m.max = o.max /\ m.devs = o.devs
        /\ m.dev = [o.dev EXCEPT ![std] = "jtag"] /\ m.flags = [o.flags EXCEPT ![std] = f]
    BY <1>3, <1>11, <2>1, <2>2 DEF FdTable
  <2>4. o.dev \in [Fds -> Devices \cup {None}] /\ o.flags \in [Fds -> Flags]
    BY <2>1 DEF FdTable
  <2> QED BY <1>2, <1>8, <1>10, <1>11, <2>1, <2>3, <2>4
<1>13. i <= o.max /\ o.max > 2 /\ o.max \in Int
  BY <1>2, <1>4, <1>8, <1>10
<1> HIDE DEF m
<1>14. TableOK(m)
  <2> SUFFICES ASSUME NEW j \in Fds
               PROVE  /\ j < 3 => m.dev[j] # None
                      /\ j > 2 /\ m.dev[j] # None => j <= m.max
                      /\ m.flags[j].excl => m.dev[j] # None
    BY <1>12 DEF TableOK
  <2>1. "jtag" # None
    BY DEF None
  <2>2. CASE j = std
    BY <1>11, <1>12, <2>1, <2>2
  <2>3. CASE j = i
    BY <1>12, <1>13, <2>1, <2>3
  <2>4. CASE j # std /\ j # i
    BY <1>12, <2>4 DEF Starting, TableOK
  <2> QED BY <2>2, <2>3, <2>4
<1> DEFINE r == alt_release_fd(m, i)
<1>15. TableOK(r) /\ r.max = m.max /\ r.devs = m.devs
  BY <1>2, <1>14, ReleaseOK
<1>16. r = [m EXCEPT !.dev[i] = None, !.flags[i] = NoFlags, !.older[i] = {}]
  BY <1>2 DEF alt_release_fd
<1>17. Starting(r)
  <2>1. /\ r.dev[i] = None /\ r.flags[i] = NoFlags
        /\ \A j \in Fds : j # i => r.dev[j] = m.dev[j] /\ r.flags[j] = m.flags[j]
    BY <1>2, <1>12, <1>16 DEF FdTable
  <2> HIDE DEF r
  <2> QED BY <1>3, <1>11, <1>12, <2>1 DEF Starting, NoFlags
<1>18. alt_open_fd(ft, std, "jtag", acc) = r
  <2>1. ~(i < 0) /\ o.dev[i] # None
    BY <1>2, <1>8, <1>10 DEF None
  <2> QED BY <1>6, <2>1 DEF m
<1> QED BY <1>7, <1>12, <1>13, <1>15, <1>17, <1>18

-----------------------------------------------------------------------------
(***************************************************************************)
(* LockHeld needs to know what the table looks like while the system       *)
(* starts: the lock's search is wrong only about the highest descriptor    *)
(* because every open one is at most max, and for the standard ones that   *)
(* is so only once a first descriptor has been handed out.                 *)
(***************************************************************************)
BootPcs == {"timer_init", "jtag_init", "jtag_alarm", "uart_init", "redirect", "stdin", "stderr"}

CallOK(c) == DOMAIN c = {"fd", "n", "k", "in", "out"} /\ c.fd \in Fds

FdInv ==
  /\ TableOK(fds) /\ LocksOK(fds) /\ CallOK(call) /\ bound \in Bounds
  /\ pc \in BootPcs => Starting(fds)
  /\ pc \in {"uart_init", "redirect", "stdin", "stderr"} => "jtag" \in fds.devs
  /\ pc \notin BootPcs \ {"stdin", "stderr"} => fds.max > 2

LEMMA StartingLocks == ASSUME NEW ft, Starting(ft) PROVE LocksOK(ft)
BY DEF Starting, LocksOK

LEMMA IdleCall ==
  /\ CallOK(Idle)
  /\ \A i \in Fds : \A n : CallOK([Idle EXCEPT !.fd = i, !.n = n]) /\ CallOK([Idle EXCEPT !.fd = i])
BY FdsNat DEF CallOK, Idle

LEMMA BoundOK ==
  ASSUME bound \in Bounds
  PROVE  Used \subseteq Fds /\ bound.devs \subseteq Devices
<1>1. bound.fds \subseteq Fds /\ bound.devs \subseteq Devices
  BY BoundAssumption
<1> QED BY <1>1 DEF Used

LEMMA FdCall == ASSUME FdInv, Call PROVE FdInv'
<1>1. pc = "idle" /\ bound' = bound /\ bound \in Bounds /\ TableOK(fds) /\ LocksOK(fds) /\ CallOK(call)
      /\ fds.max > 2
  <2>1. pc = "idle" /\ bound' = bound
    BY DEF Call, Open, Fcntl, Exclusive, SetTimeout, ALT_READ, ALT_WRITE, ALT_CLOSE,
           AlarmStart, AlarmStop, NewCall, hwVars
  <2> QED BY <2>1 DEF FdInv, BootPcs
<1>2. Used \subseteq Fds /\ bound.devs \subseteq Devices
  BY <1>1, BoundOK
<1>3. fds \in FdTable /\ fds.max \in Int
  BY <1>1 DEF TableOK, FdTable
<1> DEFINE Good(ft) == TableOK(ft) /\ LocksOK(ft) /\ ft.max > 2
           Go2 == pc' \notin BootPcs /\ CallOK(call')
<1>4. ASSUME Good(fds'), Go2 PROVE FdInv'
  BY <1>1, <1>4 DEF FdInv, BootPcs
<1>5. ASSUME UNCHANGED <<pc, call>> PROVE Go2
  BY <1>1, <1>5 DEF BootPcs
<1>6. ASSUME NEW d \in bound.devs, NEW nb \in BOOLEAN, Open(d, nb) PROVE FdInv'
  <2>1. fds' = ALT_OPEN(fds, d, "rw", nb) /\ UNCHANGED <<pc, call>>
    BY <1>6 DEF Open
  <2>2. TableOK(fds') /\ fds'.max >= fds.max /\ LocksOK(fds')
    BY <1>1, <1>2, <2>1, OpenOK
  <2>3. fds'.max \in Int
    BY <2>2 DEF TableOK, FdTable
  <2>4. fds'.max > 2
    BY <1>1, <1>3, <2>2, <2>3
  <2> QED BY <1>4, <1>5, <2>1, <2>2, <2>4
<1>7. ASSUME NEW i \in Used, NEW nb \in BOOLEAN, Fcntl(i, nb) PROVE FdInv'
  <2>1. fds' = ALT_FCNTL(fds, i, nb) /\ UNCHANGED <<pc, call>>
    BY <1>7 DEF Fcntl
  <2>2. Good(fds')
    BY <1>1, <1>2, <2>1, FcntlOK
  <2> QED BY <1>4, <1>5, <2>1, <2>2
<1>8. ASSUME NEW i \in Used, NEW on \in BOOLEAN, Exclusive(i, on) PROVE FdInv'
  <2>1. (fds' = alt_fd_lock(fds, i) \/ fds' = alt_fd_unlock(fds, i)) /\ UNCHANGED <<pc, call>>
    BY <1>8 DEF Exclusive
  <2>2. fds.dev[i] # None
    BY <1>2 DEF Used, Devices, None
  <2>3. Good(fds')
    BY <1>1, <1>2, <2>1, <2>2, LockUnlockOK
  <2> QED BY <1>4, <1>5, <2>1, <2>3
<1>9. ASSUME UNCHANGED <<fds, pc, call>> PROVE FdInv'
  BY <1>1, <1>4, <1>5, <1>9
<1>10. ASSUME NEW i \in Used, NEW len \in Lens, ALT_READ(i, len) \/ ALT_WRITE(i, len) PROVE FdInv'
  <2>1. fds' = fds /\ call' = [Idle EXCEPT !.fd = i, !.n = len]
    BY <1>10 DEF ALT_READ, ALT_WRITE
  <2>2. fds.dev[i] \in {"jtag", "uart"}
    <3>1. fds.dev[i] \in Devices /\ fds.dev[i] # "null"
      BY <1>2, <1>10 DEF Used, ALT_READ, ALT_WRITE, MayRead
    <3> QED BY <3>1 DEF Devices
  <2>3. pc' \notin BootPcs
    BY <1>10, <2>2 DEF ALT_READ, ALT_WRITE, Enter, BootPcs
  <2> QED BY <1>1, <1>2, <1>4, <2>1, <2>3, IdleCall
<1>11. ASSUME NEW i \in Used, ALT_CLOSE(i) PROVE FdInv'
  <2>1. CASE fds.dev[i] = "null"
    <3>1. fds' = alt_release_fd(fds, i) /\ UNCHANGED <<pc, call>>
      BY <1>11, <2>1 DEF ALT_CLOSE
    <3>2. Good(fds')
      BY <1>1, <1>2, <3>1, ReleaseOK
    <3> QED BY <1>4, <1>5, <3>1, <3>2
  <2>2. CASE fds.dev[i] # "null"
    <3>1. fds' = fds /\ call' = [Idle EXCEPT !.fd = i] /\ pc' = Enter[fds.dev[i]].close
      BY <1>11, <2>2 DEF ALT_CLOSE
    <3>2. fds.dev[i] \in {"jtag", "uart"}
      BY <1>2, <2>2 DEF Used, Devices
    <3>3. pc' \notin BootPcs
      BY <3>1, <3>2 DEF Enter, BootPcs
    <3> QED BY <1>1, <1>2, <1>4, <3>1, <3>3, IdleCall
  <2> QED BY <2>1, <2>2
<1>12. ASSUME NEW i \in Used, NEW secs \in Timeouts, SetTimeout(i, secs) PROVE FdInv'
  BY <1>9, <1>12 DEF SetTimeout
<1>13. ASSUME AlarmStart(TICKS_PER_SECOND) \/ AlarmStop PROVE FdInv'
  BY <1>9, <1>13 DEF AlarmStart, AlarmStop
<1> QED BY <1>6, <1>7, <1>8, <1>10, <1>11, <1>12, <1>13 DEF Call

LEMMA FdBoot == ASSUME FdInv, Boot PROVE FdInv'
<1>1. bound' = bound /\ call' = call
  BY DEF Boot, alt_avalon_timer_sc_init, altera_avalon_jtag_uart_init, JtagAlarm,
         altera_avalon_uart_init, alt_io_redirect, hwVars
<1>2. TableOK(fds) /\ LocksOK(fds) /\ CallOK(call) /\ bound \in Bounds /\ (pc \in BootPcs => Starting(fds))
  BY DEF FdInv
<1>3. "jtag" \in Devices /\ "uart" \in Devices /\ STDIN_FILENO = 0 /\ STDOUT_FILENO = 1 /\ STDERR_FILENO = 2
  BY DEF Devices, STDIN_FILENO, STDOUT_FILENO, STDERR_FILENO
<1>4. CASE alt_avalon_timer_sc_init
  BY <1>1, <1>2, <1>4 DEF FdInv, alt_avalon_timer_sc_init, BootStep, BootPcs
<1>5. CASE altera_avalon_jtag_uart_init
  BY <1>1, <1>2, <1>5 DEF FdInv, altera_avalon_jtag_uart_init, BootStep, BootPcs
<1>6. CASE JtagAlarm
  <2>1. pc = "jtag_alarm" /\ pc' = "uart_init" /\ fds' = alt_dev_reg(fds, "jtag")
    BY <1>6 DEF JtagAlarm, BootStep
  <2>2. TableOK(fds') /\ Starting(fds') /\ "jtag" \in fds'.devs
    BY <1>2, <1>3, <2>1, DevRegOK DEF BootPcs
  <2> QED BY <1>1, <1>2, <2>1, <2>2, StartingLocks DEF FdInv, BootPcs
<1>7. CASE altera_avalon_uart_init
  <2>1. pc = "uart_init" /\ pc' = "redirect" /\ fds' = alt_dev_reg(fds, "uart") /\ "jtag" \in fds.devs
    BY <1>7 DEF altera_avalon_uart_init, BootStep, FdInv
  <2>2. TableOK(fds') /\ Starting(fds') /\ "jtag" \in fds'.devs
    BY <1>2, <1>3, <2>1, DevRegOK DEF BootPcs
  <2> QED BY <1>1, <1>2, <2>1, <2>2, StartingLocks DEF FdInv, BootPcs
<1>8. ASSUME NEW at \in {"redirect", "stdin", "stderr"}, NEW then \in {"stdin", "stderr", "idle"},
             NEW std \in {0, 1, 2}, NEW acc \in {"rd", "wr"}, alt_io_redirect(at, then, std, acc)
      PROVE  FdInv'
  <2>1. pc = at /\ pc' = then /\ fds' = alt_open_fd(fds, std, "jtag", acc)
    BY <1>8 DEF alt_io_redirect, BootStep
  <2>2. Starting(fds) /\ "jtag" \in fds.devs
    BY <2>1 DEF FdInv, BootPcs
  <2>3. TableOK(fds') /\ Starting(fds') /\ fds'.max > 2 /\ fds'.devs = fds.devs
    BY <1>2, <2>1, <2>2, RedirectOK
  <2> QED BY <1>1, <1>2, <2>1, <2>2, <2>3, StartingLocks DEF FdInv, BootPcs
<1> QED BY <1>3, <1>4, <1>5, <1>6, <1>7, <1>8 DEF Boot

LEMMA FdNext == ASSUME FdInv, [Next]_vars PROVE FdInv'
<1>1. ASSUME UNCHANGED <<fds, bound, pc>>, CallOK(call') PROVE FdInv'
  BY <1>1 DEF FdInv
<1>2. ASSUME UNCHANGED <<fds, bound>>, CallOK(call'), pc \notin BootPcs, pc' \notin BootPcs PROVE FdInv'
  BY <1>2 DEF FdInv, BootPcs
<1>3. TableOK(fds) /\ LocksOK(fds) /\ CallOK(call) /\ CallOK(Idle)
  BY IdleCall DEF FdInv
<1>4. CASE JtagReadLook \/ JtagReadCopy \/ JtagReadWait \/ JtagReadEnd
  <2>1. UNCHANGED <<fds, bound>> /\ pc \notin BootPcs /\ pc' \notin BootPcs
    BY <1>4 DEF JtagReadLook, JtagReadCopy, JtagReadWait, JtagReadEnd, JtagStep, Go, Return, hwVars, BootPcs
  <2>2. CallOK(call')
    BY <1>3, <1>4 DEF JtagReadLook, JtagReadCopy, JtagReadWait, JtagReadEnd, Go, Return, CallOK
  <2> QED BY <1>2, <2>1, <2>2
<1>5. CASE JtagWriteLook \/ JtagWriteCopy \/ JtagWriteKick \/ JtagWriteWait
  <2>1. UNCHANGED <<fds, bound>> /\ pc \notin BootPcs /\ pc' \notin BootPcs
    BY <1>5 DEF JtagWriteLook, JtagWriteCopy, JtagWriteKick, JtagWriteWait, JtagStep, Go, Return, hwVars, BootPcs
  <2>2. CallOK(call')
    BY <1>3, <1>5 DEF JtagWriteLook, JtagWriteCopy, JtagWriteKick, JtagWriteWait, Go, Return, CallOK
  <2> QED BY <1>2, <2>1, <2>2
<1>6. CASE UartRead \/ UartReadWait \/ UartReadEnd \/ UartWrite \/ UartWriteWait \/ UartWriteEnd
  <2>1. UNCHANGED <<fds, bound>> /\ pc \notin BootPcs /\ pc' \notin BootPcs
    BY <1>6 DEF UartRead, UartReadWait, UartReadEnd, UartWrite, UartWriteWait, UartWriteEnd, UartStep,
                Go, Return, hwVars, BootPcs
  <2>2. CallOK(call')
    BY <1>3, <1>6 DEF UartRead, UartReadWait, UartReadEnd, UartWrite, UartWriteWait, UartWriteEnd,
                      Go, Return, CallOK
  <2> QED BY <1>2, <2>1, <2>2
<1>7. CASE JtagClose \/ UartClose
  <2>1. /\ fds' = alt_release_fd(fds, call.fd) /\ call' = Idle /\ bound' = bound
        /\ pc \notin BootPcs /\ pc' \notin BootPcs
    BY <1>7 DEF JtagClose, UartClose, CloseEnds, Go, Return, hwVars, BootPcs
  <2>2. TableOK(fds') /\ LocksOK(fds') /\ fds'.max = fds.max
    BY <1>3, <2>1, ReleaseOK DEF CallOK
  <2> QED BY <1>3, <2>1, <2>2 DEF FdInv, BootPcs
<1>8. CASE Spin \/ Handlers \/ World \/ UNCHANGED vars
  <2>1. UNCHANGED <<fds, bound, pc, call>>
    BY <1>8 DEF Spin, Handlers, Interrupt, JtagIsr, Dispatch, alt_avalon_timer_sc_irq, UartIsr, UartIsrRest,
                IrqReturn, World, Tick, HostSend, HostPoll, Plug, LineBring, LineTake, Outside,
                vars, hwVars, progVars
  <2> QED BY <1>1, <1>3, <2>1
<1> QED BY <1>4, <1>5, <1>6, <1>7, <1>8, FdCall, FdBoot DEF Next, Program

LEMMA FdStart == Init => FdInv
<1> SUFFICES ASSUME Init PROVE FdInv
  OBVIOUS
<1>1. fds = alt_fd_list /\ pc = "timer_init" /\ call = Idle /\ bound \in Bounds
  BY DEF Init
<1>2. fds \in FdTable
  BY <1>1, FdsNat DEF alt_fd_list, FdTable, Devices, Flags, NoFlags
<1>3. \A i \in Fds : /\ fds.dev[i] = (IF i < 3 THEN "null" ELSE None)
                     /\ ~fds.flags[i].excl /\ i \in Int
  BY <1>1, FdsNat DEF alt_fd_list, NoFlags
<1>4. TableOK(fds) /\ Starting(fds)
  BY <1>2, <1>3 DEF TableOK, Starting, None
<1> QED BY <1>1, <1>4, StartingLocks, IdleCall DEF FdInv, BootPcs

(***************************************************************************)
(* However many descriptors there are and in whatever order they are       *)
(* opened, closed and locked: a lock that was granted stays effective, and *)
(* the off-by-one in alt_fd_lock's search lets at most one other user of   *)
(* the device in, the highest descriptor of that time.                     *)
(***************************************************************************)
THEOREM LocksHold == Spec => []LockHeld
<1>1. Init => FdInv
  BY FdStart
<1>2. FdInv /\ [Next]_vars => FdInv'
  BY FdNext
<1>3. FdInv => LockHeld
  BY DEF FdInv, LocksOK, LockHeld
<1> QED BY <1>1, <1>2, <1>3, PTL DEF Spec

\* No two descriptors hold the lock of one device at the same time.
OneHolder ==
  \A i, j \in Fds : fds.flags[i].excl /\ fds.flags[j].excl /\ fds.dev[i] = fds.dev[j] => i = j

(***************************************************************************)
(* The lock excludes: no two descriptors hold it for the same device,      *)
(* although alt_fd_lock does not look at all of them (ioctl TIOCEXCL).     *)
(***************************************************************************)
THEOREM LocksExclude == Spec => []OneHolder
<1>1. LockHeld => OneHolder
  <2> SUFFICES ASSUME LockHeld, NEW i \in Fds, NEW j \in Fds, fds.flags[i].excl, fds.flags[j].excl,
                      fds.dev[i] = fds.dev[j], i # j
               PROVE  FALSE
    BY DEF OneHolder
  <2>1. j \in Sharing(fds, i) /\ i \in Sharing(fds, j)
    BY DEF Sharing
  <2>2. i < j /\ j < i
    BY <2>1 DEF LockHeld
  <2> QED BY <2>2, FdsNat
<1> QED BY <1>1, LocksHold, PTL

-----------------------------------------------------------------------------
\* The remainder of a number that is at most one modulus out of range.
LEMMA ModNear ==
  ASSUME NEW m \in Nat \ {0}, NEW x \in Int, -m <= x, x < m + m
  PROVE  /\ x % m = (IF x < 0 THEN x + m ELSE IF x < m THEN x ELSE x - m)
         /\ x % m \in 0 .. m - 1
<1> DEFINE q == x \div m
           r == x % m
<1>1. q \in Int /\ r \in 0 .. m - 1
  OBVIOUS
<1>2. x = m * q + r
  BY SMTT(30)
<1> HIDE DEF q, r
<1>3. q >= 2 => m * q >= m + m
  BY <1>1
<1>4. q <= -2 => m * q <= -m - m
  BY <1>1
<1>5. q \in {-1, 0, 1}
  BY <1>1, <1>2, <1>3, <1>4
<1>6. CASE q = -1
  BY <1>1, <1>2, <1>6 DEF r
<1>7. CASE q = 0
  BY <1>1, <1>2, <1>7 DEF r
<1>8. CASE q = 1
  BY <1>1, <1>2, <1>8 DEF r
<1> QED BY <1>5, <1>6, <1>7, <1>8

(***************************************************************************)
(* The alarms.  AlarmsExact is about the past; what makes it inductive is  *)
(* what time and the rollover flag of an alarm say about the ticks that    *)
(* are still to pass.                                                      *)
(***************************************************************************)
AlarmOK(a, nticks) ==
  /\ DOMAIN a = {"time", "rollover", "due"}
  /\ a.due \in 1 .. TICKS_PER_SECOND + 1
  /\ a.time = IF nticks + a.due < TICK_MOD THEN nticks + a.due ELSE nticks + a.due - TICK_MOD
  /\ a.rollover <=> ~(nticks + a.due < TICK_MOD)

ClockOK(tk) ==
  /\ DOMAIN tk = {"rate", "nticks", "alarms", "exact"}
  /\ tk.nticks \in 0 .. TICK_MOD - 1
  /\ DOMAIN tk.alarms \subseteq {"jtag", "program"}
  /\ \A i \in DOMAIN tk.alarms : AlarmOK(tk.alarms[i], tk.nticks)
  /\ tk.exact = TRUE

\* The record of an alarm that is due in d ticks.
LEMMA AlarmSet ==
  ASSUME NEW nt \in 0 .. TICK_MOD - 1, NEW d \in 1 .. TICKS_PER_SECOND + 1,
         NEW t, t = (nt + d) % TICK_MOD
  PROVE  AlarmOK([time |-> t, rollover |-> t < nt, due |-> d], nt)
<1> DEFINE x == nt + d
           a == [time |-> t, rollover |-> t < nt, due |-> d]
<1>1. TICK_MOD \in Nat \ {0} /\ TICKS_PER_SECOND \in Nat /\ TICKS_PER_SECOND + 1 < TICK_MOD
  BY TickAssumption
<1>2. x \in Int /\ -TICK_MOD <= x /\ x < TICK_MOD + TICK_MOD /\ ~(x < 0) /\ x > nt /\ x < nt + TICK_MOD
  BY <1>1
<1>3. DOMAIN a = {"time", "rollover", "due"} /\ a.time = t /\ (a.rollover <=> t < nt) /\ a.due = d
  OBVIOUS
<1> HIDE DEF a
<1>4. t = x % TICK_MOD
  OBVIOUS
<1> HIDE DEF x
<1>5. x % TICK_MOD = (IF x < 0 THEN x + TICK_MOD ELSE IF x < TICK_MOD THEN x ELSE x - TICK_MOD)
  BY <1>1, <1>2, ModNear
<1>6. t = IF x < TICK_MOD THEN x ELSE x - TICK_MOD
  BY <1>2, <1>4, <1>5
<1>7. CASE x < TICK_MOD
  <2>1. t = x /\ ~(t < nt)
    BY <1>1, <1>2, <1>6, <1>7
  <2> QED BY <1>1, <1>2, <1>3, <1>7, <2>1 DEF AlarmOK, x
<1>8. CASE ~(x < TICK_MOD)
  <2>1. t = x - TICK_MOD /\ t < nt
    BY <1>1, <1>2, <1>6, <1>8
  <2>2. ~(nt + a.due < TICK_MOD) /\ a.time = nt + a.due - TICK_MOD /\ a.rollover
        /\ a.due \in 1 .. TICKS_PER_SECOND + 1
    BY <1>1, <1>2, <1>3, <1>8, <2>1 DEF x
  <2> QED BY <1>3, <2>2 DEF AlarmOK
<1> QED BY <1>7, <1>8, <1>3 DEF a

LEMMA AlarmStartOK ==
  ASSUME NEW tk, ClockOK(tk), NEW id \in {"jtag", "program"}
  PROVE  ClockOK(alt_alarm_start(tk, id, TICKS_PER_SECOND))
<1> DEFINE n == TICKS_PER_SECOND
           nt == tk.nticks
           time == (n + nt + 1) % TICK_MOD
           a == [time |-> time, rollover |-> time < nt, due |-> n + 1]
           al == [i \in DOMAIN tk.alarms \cup {id} |-> IF i = id THEN a ELSE tk.alarms[i]]
           r == [tk EXCEPT !.alarms = al]
<1>1. TICK_MOD \in Nat \ {0} /\ n \in Nat \ {0} /\ n + 1 < TICK_MOD /\ nt \in 0 .. TICK_MOD - 1
  BY TickAssumption DEF ClockOK
<1>2. nt + (n + 1) = n + nt + 1 /\ n + 1 \in 1 .. TICKS_PER_SECOND + 1
  BY <1>1
<1>3. AlarmOK(a, nt)
  <2>1. time = (nt + (n + 1)) % TICK_MOD
    BY <1>2
  <2> HIDE DEF time, nt
  <2> QED BY <1>1, <1>2, <2>1, AlarmSet
<1>4. alt_alarm_start(tk, id, n) = IF tk.rate = 0 THEN tk ELSE r
  BY DEF alt_alarm_start
<1> HIDE DEF a
<1>5. DOMAIN r = DOMAIN tk /\ r.nticks = tk.nticks /\ r.exact = tk.exact /\ r.alarms = al
  BY DEF ClockOK
<1>6. DOMAIN al \subseteq {"jtag", "program"} /\ \A i \in DOMAIN al : AlarmOK(al[i], nt)
  BY <1>3 DEF ClockOK
<1> HIDE DEF r, al
<1>7. ClockOK(r)
  BY <1>5, <1>6 DEF ClockOK
<1> QED BY <1>4, <1>7

LEMMA AlarmStopOK ==
  ASSUME NEW tk, ClockOK(tk), NEW id
  PROVE  ClockOK(alt_alarm_stop(tk, id))
<1> DEFINE al == [i \in DOMAIN tk.alarms \ {id} |-> tk.alarms[i]]
           r == alt_alarm_stop(tk, id)
<1>1. r = [tk EXCEPT !.alarms = al]
  BY DEF alt_alarm_stop
<1> HIDE DEF r
<1>2. DOMAIN r = DOMAIN tk /\ r.nticks = tk.nticks /\ r.exact = tk.exact /\ r.alarms = al
  BY <1>1 DEF ClockOK
<1> QED BY <1>2 DEF ClockOK, r

LEMMA TickOK ==
  ASSUME NEW tk, ClockOK(tk)
  PROVE  ClockOK(alt_tick(tk, [jtag |-> TICKS_PER_SECOND, program |-> 0]))
<1> DEFINE Again == [jtag |-> TICKS_PER_SECOND, program |-> 0]
           nt == tk.nticks
           n == (nt + 1) % TICK_MOD
           runs == Fires(tk, n)
           kept == {i \in DOMAIN tk.alarms : i \in runs => Again[i] > 0}
           After(i) == LET a == tk.alarms[i]
                           t == (a.time + Again[i]) % TICK_MOD
                       IN  IF i \in runs
                           THEN [time |-> t, rollover |-> t < n, due |-> Again[i]]
                           ELSE [a EXCEPT !.rollover = RolledOver(a, n), !.due = @ - 1]
           al == [i \in kept |-> After(i)]
           e == tk.exact /\ runs = {i \in DOMAIN tk.alarms : tk.alarms[i].due = 1}
           r == alt_tick(tk, Again)
<1>1. TICK_MOD \in Nat \ {0} /\ TICKS_PER_SECOND \in Nat \ {0} /\ TICKS_PER_SECOND + 1 < TICK_MOD
      /\ nt \in 0 .. TICK_MOD - 1
  BY TickAssumption DEF ClockOK
<1>2. n = (IF nt + 1 < TICK_MOD THEN nt + 1 ELSE 0) /\ n \in 0 .. TICK_MOD - 1
  <2>1. nt + 1 \in Int /\ -TICK_MOD <= nt + 1 /\ nt + 1 < TICK_MOD + TICK_MOD /\ ~(nt + 1 < 0)
        /\ (~(nt + 1 < TICK_MOD) => nt + 1 - TICK_MOD = 0)
    BY <1>1
  <2> DEFINE x == nt + 1
  <2>2. n = x % TICK_MOD
    OBVIOUS
  <2> HIDE DEF nt, n, x
  <2>3. x \in Int /\ -TICK_MOD <= x /\ x < TICK_MOD + TICK_MOD /\ ~(x < 0)
    BY <2>1 DEF x
  <2>4. x % TICK_MOD = (IF x < 0 THEN x + TICK_MOD ELSE IF x < TICK_MOD THEN x ELSE x - TICK_MOD)
        /\ x % TICK_MOD \in 0 .. TICK_MOD - 1
    BY <1>1, <2>3, ModNear
  <2>5. n = (IF x < TICK_MOD THEN x ELSE x - TICK_MOD) /\ n \in 0 .. TICK_MOD - 1
    BY <2>2, <2>3, <2>4
  <2> QED BY <1>1, <2>1, <2>5 DEF x
<1> HIDE DEF n
<1>3. ASSUME NEW i \in DOMAIN tk.alarms
      PROVE  /\ i \in runs <=> tk.alarms[i].due = 1
             /\ i \in runs => tk.alarms[i].time = n
  <2> DEFINE a == tk.alarms[i]
  <2>1. AlarmOK(a, nt)
    BY DEF ClockOK
  <2>2. i \in runs <=> a.time <= n /\ ~(a.rollover /\ n # 0)
    BY DEF Fires, RolledOver
  <2> HIDE DEF a, nt, runs
  <2>3. a.due \in 1 .. TICKS_PER_SECOND + 1
    BY <2>1 DEF AlarmOK
  <2>4. CASE nt + a.due < TICK_MOD
    <3>1. a.time = nt + a.due /\ ~a.rollover
      BY <2>1, <2>4 DEF AlarmOK
    <3>2. n = nt + 1
      BY <1>1, <1>2, <2>3, <2>4
    <3> QED BY <1>1, <2>2, <2>3, <3>1, <3>2 DEF a
  <2>5. CASE ~(nt + a.due < TICK_MOD)
    <3>1. a.time = nt + a.due - TICK_MOD /\ a.rollover
      BY <1>1, <2>1, <2>3, <2>5 DEF AlarmOK
    <3> QED BY <1>1, <1>2, <2>2, <2>3, <2>5, <3>1 DEF a
  <2> QED BY <2>4, <2>5
<1>4. runs \subseteq DOMAIN tk.alarms
  BY DEF Fires
<1>5. e = TRUE
  BY <1>3, <1>4 DEF ClockOK
<1>6. ASSUME NEW i \in kept PROVE AlarmOK(After(i), n)
  <2> DEFINE a == tk.alarms[i]
             t == (a.time + Again[i]) % TICK_MOD
  <2>1. i \in DOMAIN tk.alarms /\ AlarmOK(a, nt) /\ i \in {"jtag", "program"}
    BY DEF ClockOK
  <2>2. CASE i \in runs
    <3>1. a.time = n /\ Again[i] > 0
      BY <1>3, <2>1, <2>2
    <3>2. Again[i] = TICKS_PER_SECOND
      BY <2>1, <3>1
    <3>3. t = (n + TICKS_PER_SECOND) % TICK_MOD
      BY <3>1, <3>2
    <3>4. After(i) = [time |-> t, rollover |-> t < n, due |-> TICKS_PER_SECOND]
      BY <2>2, <3>2
    <3> DEFINE b == [time |-> t, rollover |-> t < n, due |-> TICKS_PER_SECOND]
    <3>5. AlarmOK(b, n)
      <4> HIDE DEF t
      <4>1. n \in 0 .. TICK_MOD - 1 /\ TICKS_PER_SECOND \in 1 .. TICKS_PER_SECOND + 1
        BY <1>1, <1>2
      <4> QED BY <3>3, <4>1, AlarmSet
    <3> QED BY <3>4, <3>5
  <2>3. CASE i \notin runs
    <3> DEFINE b == [a EXCEPT !.rollover = RolledOver(a, n), !.due = @ - 1]
    <3>1. After(i) = b
      BY <2>3
    <3>2. a.due # 1
      BY <1>3, <2>1, <2>3
    <3>3. AlarmOK(b, n)
      <4> HIDE DEF a, nt
      <4>1. /\ DOMAIN b = {"time", "rollover", "due"} /\ b.time = a.time
            /\ b.rollover <=> a.rollover /\ n # 0
            /\ b.due = a.due - 1
        BY <2>1 DEF AlarmOK, RolledOver
      <4>2. a.due \in 2 .. TICKS_PER_SECOND + 1
        BY <1>1, <2>1, <3>2 DEF AlarmOK
      <4> HIDE DEF b
      <4>3. CASE nt + a.due < TICK_MOD
        <5>1. a.time = nt + a.due /\ ~a.rollover
          BY <2>1, <4>3 DEF AlarmOK
        <5>2. n = nt + 1 /\ n + b.due = nt + a.due
          BY <1>1, <1>2, <4>1, <4>2, <4>3
        <5>3. b.due \in 1 .. TICKS_PER_SECOND + 1 /\ ~b.rollover
          BY <1>1, <4>1, <4>2, <5>1
        <5> QED BY <1>1, <4>1, <4>3, <5>1, <5>2, <5>3 DEF AlarmOK
      <4>4. CASE ~(nt + a.due < TICK_MOD)
        <5>1. a.time = nt + a.due - TICK_MOD /\ a.rollover
          BY <1>1, <2>1, <4>2, <4>4 DEF AlarmOK
        <5>2. b.due \in 1 .. TICKS_PER_SECOND + 1
          BY <1>1, <4>1, <4>2
        <5>3. CASE n = nt + 1 /\ nt + 1 < TICK_MOD
          <6>1. n + b.due = nt + a.due /\ b.rollover
            BY <1>1, <4>1, <4>2, <5>1, <5>3
          <6>2. ~(n + b.due < TICK_MOD) /\ b.time = n + b.due - TICK_MOD
            BY <1>1, <1>2, <5>3, <4>1, <4>2, <4>4, <5>1, <6>1
          <6> QED BY <4>1, <5>2, <6>1, <6>2 DEF AlarmOK
        <5>4. CASE n = 0 /\ ~(nt + 1 < TICK_MOD)
          <6>1. nt = TICK_MOD - 1 /\ b.time = n + b.due /\ ~b.rollover
            BY <1>1, <4>1, <4>2, <5>1, <5>4
          <6>2. n + b.due < TICK_MOD
            BY <1>1, <4>1, <4>2, <5>4
          <6> QED BY <1>1, <4>1, <5>2, <6>1, <6>2 DEF AlarmOK
        <5> QED BY <1>2, <5>3, <5>4
      <4> QED BY <4>3, <4>4
    <3> QED BY <3>1, <3>3
  <2> QED BY <2>2, <2>3
<1>7. r = [tk EXCEPT !.nticks = n, !.alarms = al, !.exact = e]
  BY DEF alt_tick, n
<1> HIDE DEF r, e, al
<1>8. DOMAIN r = DOMAIN tk /\ r.nticks = n /\ r.alarms = al /\ r.exact = e
  BY <1>7 DEF ClockOK
<1>9. DOMAIN al \subseteq {"jtag", "program"} /\ \A i \in DOMAIN al : AlarmOK(al[i], n)
  BY <1>6 DEF ClockOK, al
<1> QED BY <1>2, <1>5, <1>8, <1>9 DEF ClockOK, r

LEMMA ClockNext == ASSUME ClockOK(clock), [Next]_vars PROVE ClockOK(clock')
<1>1. ASSUME clock' = clock PROVE ClockOK(clock')
  BY <1>1
<1>2. CASE alt_avalon_timer_sc_init
  <2>1. clock' = alt_sysclk_init(clock, TICKS_PER_SECOND)
    BY <1>2 DEF alt_avalon_timer_sc_init
  <2> DEFINE r == [clock EXCEPT !.rate = TICKS_PER_SECOND]
  <2>2. DOMAIN r = DOMAIN clock /\ r.nticks = clock.nticks /\ r.alarms = clock.alarms /\ r.exact = clock.exact
    BY DEF ClockOK
  <2> HIDE DEF r
  <2>3. ClockOK(r)
    BY <2>2 DEF ClockOK
  <2> QED BY <2>1, <2>3 DEF alt_sysclk_init, r
<1>3. CASE JtagAlarm \/ AlarmStart(TICKS_PER_SECOND)
  BY <1>3, AlarmStartOK DEF JtagAlarm, AlarmStart
<1>4. CASE AlarmStop
  BY <1>4, AlarmStopOK DEF AlarmStop
<1>5. CASE alt_avalon_timer_sc_irq
  BY <1>5, TickOK DEF alt_avalon_timer_sc_irq
<1>6. CASE Call /\ ~AlarmStart(TICKS_PER_SECOND) /\ ~AlarmStop
  <2>1. clock' = clock
    BY <1>6 DEF Call, Open, Fcntl, Exclusive, SetTimeout, ALT_READ, ALT_WRITE, ALT_CLOSE
  <2> QED BY <1>1, <2>1
<1>7. CASE Program /\ ~alt_avalon_timer_sc_init /\ ~JtagAlarm
  <2>1. clock' = clock
    BY <1>7 DEF Program, Boot, altera_avalon_jtag_uart_init, altera_avalon_uart_init, alt_io_redirect,
                JtagReadLook, JtagReadCopy, JtagReadWait, JtagReadEnd, JtagWriteLook, JtagWriteCopy,
                JtagWriteKick, JtagWriteWait, JtagClose, JtagStep, UartRead, UartReadWait, UartReadEnd,
                UartWrite, UartWriteWait, UartWriteEnd, UartClose, UartStep, Spin
  <2> QED BY <1>1, <2>1
<1>8. CASE (Handlers /\ ~alt_avalon_timer_sc_irq) \/ World \/ UNCHANGED vars
  <2>1. clock' = clock
    BY <1>8 DEF Handlers, Interrupt, JtagIsr, UartIsr, UartIsrRest, IrqReturn, World, Tick, HostSend,
                HostPoll, Plug, LineBring, LineTake, Outside, vars
  <2> QED BY <1>1, <2>1
<1> QED BY <1>2, <1>3, <1>4, <1>5, <1>6, <1>7, <1>8 DEF Next, Program, Boot, Handlers, Call

(***************************************************************************)
(* For every width of the tick counter and every tick rate below it: no    *)
(* alarm runs early, late or not at all, the rollover of the counter       *)
(* included (alt_alarm_start.c, alt_tick.c).                               *)
(***************************************************************************)
THEOREM AlarmsAreExact == Spec => []AlarmsExact
<1>1. Init => ClockOK(clock)
  <2>1. TICK_MOD \in Nat \ {0}
    BY TickAssumption
  <2> QED BY <2>1 DEF Init, Clock0, ClockOK
<1>2. ClockOK(clock) /\ [Next]_vars => ClockOK(clock')
  BY ClockNext
<1>3. ClockOK(clock) => AlarmsExact
  BY DEF ClockOK, AlarmsExact
<1>4. ClockOK(clock)' <=> ClockOK(clock')
  OBVIOUS
<1> QED BY <1>1, <1>2, <1>3, <1>4, PTL DEF Spec

-----------------------------------------------------------------------------
(***************************************************************************)
(* The rings of the JTAG UART.  JOff(i, j) is how far slot i is ahead of   *)
(* slot j; written without a remainder it is linear, which is what the     *)
(* arithmetic of the following lemmas needs.                               *)
(***************************************************************************)
JOff(i, j) == IF j <= i THEN i - j ELSE i - j + JTAG_BUF_LEN

LEMMA JLen == JTAG_BUF_LEN \in Nat \ {0, 1} /\ JTAG_FIFO \in Nat \ {0}
  BY JtagAssumption

LEMMA JOffIs ==
  ASSUME NEW i \in JSlots, NEW j \in JSlots
  PROVE  (i - j) % JTAG_BUF_LEN = JOff(i, j) /\ JOff(i, j) \in JSlots
<1> DEFINE x == i - j
<1>1. JTAG_BUF_LEN \in Nat \ {0} /\ i \in 0 .. JTAG_BUF_LEN - 1 /\ j \in 0 .. JTAG_BUF_LEN - 1
  BY JLen DEF JSlots
<1>2. x \in Int /\ -JTAG_BUF_LEN <= x /\ x < JTAG_BUF_LEN /\ x < JTAG_BUF_LEN + JTAG_BUF_LEN /\ (x < 0 <=> ~(j <= i))
  BY <1>1
<1>3. JOff(i, j) = (IF x < 0 THEN x + JTAG_BUF_LEN ELSE x) /\ JOff(i, j) \in JSlots
  BY <1>1, <1>2 DEF JOff, JSlots
<1> HIDE DEF x
<1>4. x % JTAG_BUF_LEN
        = (IF x < 0 THEN x + JTAG_BUF_LEN ELSE IF x < JTAG_BUF_LEN THEN x ELSE x - JTAG_BUF_LEN)
  BY <1>1, <1>2, ModNear
<1>5. x % JTAG_BUF_LEN = JOff(i, j)
  BY <1>2, <1>3, <1>4
<1> QED BY <1>3, <1>5 DEF x

LEMMA JPlusIs ==
  ASSUME NEW i \in JSlots, NEW n \in 0 .. JTAG_BUF_LEN
  PROVE  /\ JPlus(i, n) = (IF i + n < JTAG_BUF_LEN THEN i + n ELSE i + n - JTAG_BUF_LEN)
         /\ JPlus(i, n) \in JSlots
<1> DEFINE x == i + n
<1>1. JTAG_BUF_LEN \in Nat \ {0} /\ i \in 0 .. JTAG_BUF_LEN - 1
  BY JLen DEF JSlots
<1>2. x \in Int /\ -JTAG_BUF_LEN <= x /\ x < JTAG_BUF_LEN + JTAG_BUF_LEN /\ ~(x < 0)
  BY <1>1
<1>3. JPlus(i, n) = x % JTAG_BUF_LEN
  BY DEF JPlus
<1> HIDE DEF x
<1>4. /\ x % JTAG_BUF_LEN
           = (IF x < 0 THEN x + JTAG_BUF_LEN ELSE IF x < JTAG_BUF_LEN THEN x ELSE x - JTAG_BUF_LEN)
      /\ x % JTAG_BUF_LEN \in 0 .. JTAG_BUF_LEN - 1
  BY <1>1, <1>2, ModNear
<1>5. JPlus(i, n) = IF x < JTAG_BUF_LEN THEN x ELSE x - JTAG_BUF_LEN
  BY <1>2, <1>3, <1>4
<1>6. JPlus(i, n) \in JSlots
  BY <1>3, <1>4 DEF JSlots
<1> QED BY <1>1, <1>2, <1>5, <1>6 DEF x

\* Moving one end of a stretch of slots moves its length.
LEMMA JAdvance ==
  ASSUME NEW i \in JSlots, NEW j \in JSlots, NEW n \in Int, 0 <= n
  PROVE  /\ JOff(i, j) + n < JTAG_BUF_LEN => JOff(JPlus(i, n), j) = JOff(i, j) + n
         /\ n <= JOff(i, j) => /\ JOff(i, JPlus(j, n)) = JOff(i, j) - n
                               /\ \A s \in JSlots : n <= JOff(s, j) =>
                                    JOff(s, JPlus(j, n)) = JOff(s, j) - n
                               /\ \A s \in JSlots : JOff(s, JPlus(j, n)) < JOff(i, j) - n =>
                                    n <= JOff(s, j) /\ JOff(s, JPlus(j, n)) = JOff(s, j) - n
<1>1. JTAG_BUF_LEN \in Nat \ {0} /\ i \in 0 .. JTAG_BUF_LEN - 1 /\ j \in 0 .. JTAG_BUF_LEN - 1
      /\ JOff(i, j) \in 0 .. JTAG_BUF_LEN - 1
  BY JLen, JOffIs DEF JSlots
<1>2. ASSUME JOff(i, j) + n < JTAG_BUF_LEN PROVE JOff(JPlus(i, n), j) = JOff(i, j) + n
  <2>1. n \in 0 .. JTAG_BUF_LEN
    BY <1>1, <1>2
  <2>2. JPlus(i, n) = (IF i + n < JTAG_BUF_LEN THEN i + n ELSE i + n - JTAG_BUF_LEN)
    BY <2>1, JPlusIs
  <2> DEFINE p == JPlus(i, n)
  <2> HIDE DEF p
  <2> QED BY <1>1, <1>2, <2>1, <2>2 DEF JOff
<1>3. ASSUME n <= JOff(i, j), NEW s \in JSlots
      PROVE  /\ n <= JOff(s, j) => JOff(s, JPlus(j, n)) = JOff(s, j) - n
             /\ JOff(s, JPlus(j, n)) < JOff(i, j) - n =>
                  n <= JOff(s, j) /\ JOff(s, JPlus(j, n)) = JOff(s, j) - n
  <2>1. n \in 0 .. JTAG_BUF_LEN
    BY <1>1, <1>3
  <2>2. JPlus(j, n) = (IF j + n < JTAG_BUF_LEN THEN j + n ELSE j + n - JTAG_BUF_LEN)
    BY <2>1, JPlusIs
  <2>3. s \in 0 .. JTAG_BUF_LEN - 1
    BY DEF JSlots
  <2> QED BY <1>1, <1>3, <2>1, <2>2, <2>3 DEF JOff
<1> QED BY <1>2, <1>3

LEMMA RingIs ==
  ASSUME NEW buf \in [JSlots -> Int], NEW in \in JSlots, NEW out \in JSlots
  PROVE  /\ Ring(buf, in, out) \in Seq(Int)
         /\ Len(Ring(buf, in, out)) = JOff(in, out)
         /\ \A i \in 1 .. JOff(in, out) :
              /\ JPlus(out, i - 1) \in JSlots
              /\ JOff(JPlus(out, i - 1), out) = i - 1
              /\ Ring(buf, in, out)[i] = buf[JPlus(out, i - 1)]
<1> DEFINE n == JOff(in, out)
           r == [i \in 1 .. n |-> buf[JPlus(out, i - 1)]]
<1>1. n \in Nat /\ n < JTAG_BUF_LEN /\ JTAG_BUF_LEN \in Nat
  <2>1. n \in JSlots
    BY JOffIs
  <2> HIDE DEF n
  <2> QED BY <2>1, JLen DEF JSlots
<1>2. Ring(buf, in, out) = r
  BY JOffIs DEF Ring
<1>3. ASSUME NEW i \in 1 .. n
      PROVE  JPlus(out, i - 1) \in JSlots /\ JOff(JPlus(out, i - 1), out) = i - 1
  <2>1. i - 1 \in 0 .. JTAG_BUF_LEN /\ i - 1 \in Int /\ 0 <= i - 1 /\ i - 1 < JTAG_BUF_LEN
    BY <1>1
  <2>2. JOff(out, out) = 0
    BY JLen DEF JOff, JSlots
  <2>3. JOff(out, out) + (i - 1) < JTAG_BUF_LEN /\ JOff(out, out) + (i - 1) = i - 1
    BY <2>1, <2>2
  <2>4. JOff(JPlus(out, i - 1), out) = JOff(out, out) + (i - 1)
    BY <2>1, <2>3, JAdvance
  <2> QED BY <2>1, <2>3, <2>4, JPlusIs
<1>4. r \in [1 .. n -> Int]
  BY <1>3
<1>5. r \in Seq(Int) /\ Len(r) = n
  <2> HIDE DEF r, n
  <2> QED BY <1>1, <1>4
<1>6. \A i \in 1 .. n : r[i] = buf[JPlus(out, i - 1)]
  OBVIOUS
<1> HIDE DEF r, n
<1>7. /\ Ring(buf, in, out) \in Seq(Int)
      /\ Len(Ring(buf, in, out)) = n
  BY <1>2, <1>5
<1>8. \A i \in 1 .. n : Ring(buf, in, out)[i] = buf[JPlus(out, i - 1)]
  BY <1>2, <1>6
<1> QED BY <1>3, <1>7, <1>8 DEF n

LEMMA MinTwo ==
  ASSUME NEW a \in Int, NEW b \in Int
  PROVE  Min({a, b}) = IF a <= b THEN a ELSE b
<1> DEFINE m == IF a <= b THEN a ELSE b
<1>1. m \in {a, b} /\ \A y \in {a, b} : m <= y
  OBVIOUS
<1>2. \A x \in {a, b} : (\A y \in {a, b} : x <= y) => x = m
  OBVIOUS
<1> HIDE DEF m
<1> QED BY <1>1, <1>2 DEF Min, m

(***************************************************************************)
(* Both directions of the JTAG UART, slot by slot.                         *)
(***************************************************************************)
JtagTx(js) ==
  /\ js.tx_in \in JSlots /\ js.tx_out \in JSlots /\ js.tx_buf \in [JSlots -> Int]
  /\ js.txfifo \in Seq(Int) /\ js.to \in Int /\ js.written \in Int
  /\ \A i \in 1 .. Len(js.txfifo) : js.txfifo[i] = js.to + i
  /\ \A s \in JSlots : JOff(s, js.tx_out) < JOff(js.tx_in, js.tx_out) =>
       js.tx_buf[s] = js.to + Len(js.txfifo) + 1 + JOff(s, js.tx_out)
  /\ js.to + Len(js.txfifo) + JOff(js.tx_in, js.tx_out) = js.written

JtagRx(js) ==
  /\ js.ok = TRUE
  /\ js.rx_in \in JSlots /\ js.rx_out \in JSlots /\ js.rx_buf \in [JSlots -> Int]
  /\ js.rxfifo \in Seq(Int) /\ js.from \in Int /\ js.read \in Int
  /\ \A s \in JSlots : JOff(s, js.rx_out) < JOff(js.rx_in, js.rx_out) =>
       js.rx_buf[s] = js.read + 1 + JOff(s, js.rx_out)
  /\ \A i \in 1 .. Len(js.rxfifo) : js.rxfifo[i] = js.read + JOff(js.rx_in, js.rx_out) + i
  /\ js.read + JOff(js.rx_in, js.rx_out) + Len(js.rxfifo) = js.from

JtagOK(js) == DOMAIN js = DOMAIN Jtag0 /\ JtagTx(js) /\ JtagRx(js)

SameTx(js, r) ==
  /\ r.tx_in = js.tx_in /\ r.tx_out = js.tx_out /\ r.tx_buf = js.tx_buf
  /\ r.txfifo = js.txfifo /\ r.to = js.to /\ r.written = js.written

SameRx(js, r) ==
  /\ r.rx_in = js.rx_in /\ r.rx_out = js.rx_out /\ r.rx_buf = js.rx_buf
  /\ r.rxfifo = js.rxfifo /\ r.from = js.from /\ r.read = js.read /\ r.ok = js.ok

LEMMA TxSame == ASSUME NEW js, NEW r, JtagTx(js), SameTx(js, r) PROVE JtagTx(r)
  BY DEF JtagTx, SameTx

LEMMA RxSame == ASSUME NEW js, NEW r, JtagRx(js), SameRx(js, r) PROVE JtagRx(r)
  BY DEF JtagRx, SameRx

\* A piece of the ring that is full ends where the positions say it does.
LEMMA WriteRoomFits ==
  ASSUME NEW in \in JSlots, NEW out \in JSlots, NEW seen \in JSlots,
         JOff(in, out) <= JOff(in, seen)
  PROVE  /\ WriteRoom(in, seen) \in Nat
         /\ in + WriteRoom(in, seen) <= JTAG_BUF_LEN
         /\ JOff(in, out) + WriteRoom(in, seen) < JTAG_BUF_LEN
  BY JLen DEF JSlots, JOff, WriteRoom

LEMMA ReadAvailFits ==
  ASSUME NEW in \in JSlots, NEW out \in JSlots, NEW seen \in JSlots,
         JOff(seen, out) <= JOff(in, out)
  PROVE  /\ ReadAvail(seen, out) \in Nat
         /\ out + ReadAvail(seen, out) <= JTAG_BUF_LEN
         /\ ReadAvail(seen, out) <= JOff(in, out)
  BY JLen DEF JSlots, JOff, ReadAvail

LEMMA JOffType == JSlots \subseteq Int /\ \A i, j \in JSlots : JOff(i, j) \in JSlots /\ JOff(i, j) \in Int
<1>1. JSlots \subseteq Int
  BY JLen DEF JSlots
<1> QED BY <1>1, JOffIs

\* The slots of the piece that is written, and of the piece that is read.
LEMMA JPiece ==
  ASSUME NEW i \in JSlots, NEW j \in JSlots, NEW s \in JSlots, NEW n \in Nat, i + n <= JTAG_BUF_LEN
  PROVE  /\ JOff(i, j) + n < JTAG_BUF_LEN /\ s \in i .. i + n - 1 => JOff(s, j) = JOff(i, j) + (s - i)
         /\ JOff(i, j) + n < JTAG_BUF_LEN /\ s \notin i .. i + n - 1 /\ JOff(s, j) < JOff(i, j) + n =>
              JOff(s, j) < JOff(i, j)
<1>1. JTAG_BUF_LEN \in Nat \ {0} /\ i \in 0 .. JTAG_BUF_LEN - 1 /\ j \in 0 .. JTAG_BUF_LEN - 1
      /\ s \in 0 .. JTAG_BUF_LEN - 1
  BY JLen DEF JSlots
<1> QED BY <1>1 DEF JOff

LEMMA JShift ==
  ASSUME NEW i \in JSlots, NEW j \in JSlots, NEW n \in Nat, JOff(i, j) + n < JTAG_BUF_LEN
  PROVE  JPlus(i, n) \in JSlots /\ JOff(JPlus(i, n), j) = JOff(i, j) + n
<1>1. JOff(i, j) \in 0 .. JTAG_BUF_LEN - 1
  BY JOffIs DEF JSlots
<1>2. n \in 0 .. JTAG_BUF_LEN /\ n \in Int /\ 0 <= n
  BY <1>1, JLen
<1>3. JPlus(i, n) \in JSlots
  BY <1>2, JPlusIs
<1> QED BY <1>2, <1>3, JAdvance

LEMMA JUnshift ==
  ASSUME NEW i \in JSlots, NEW j \in JSlots, NEW n \in Nat, n <= JOff(i, j)
  PROVE  /\ JPlus(j, n) \in JSlots /\ JOff(i, JPlus(j, n)) = JOff(i, j) - n
         /\ \A s \in JSlots : JOff(s, JPlus(j, n)) < JOff(i, j) - n =>
              /\ n <= JOff(s, j) /\ JOff(s, j) < JOff(i, j)
              /\ JOff(s, JPlus(j, n)) = JOff(s, j) - n
<1>1. JOff(i, j) \in 0 .. JTAG_BUF_LEN - 1
  BY JOffIs DEF JSlots
<1>2. n \in 0 .. JTAG_BUF_LEN /\ n \in Int /\ 0 <= n
  BY <1>1, JLen
<1>3. JPlus(j, n) \in JSlots /\ JOff(i, JPlus(j, n)) = JOff(i, j) - n
  BY <1>2, JPlusIs, JAdvance
<1>4. ASSUME NEW s \in JSlots, JOff(s, JPlus(j, n)) < JOff(i, j) - n
      PROVE  /\ n <= JOff(s, j) /\ JOff(s, j) < JOff(i, j)
             /\ JOff(s, JPlus(j, n)) = JOff(s, j) - n
  <2>1. n <= JOff(s, j) /\ JOff(s, JPlus(j, n)) = JOff(s, j) - n
    BY <1>2, <1>4, JAdvance
  <2>2. JOff(s, j) \in Int
    BY JOffType
  <2> QED BY <1>1, <1>2, <1>4, <2>1, <2>2
<1> QED BY <1>3, <1>4

LEMMA WriteCopyOK ==
  ASSUME NEW js, JtagOK(js), NEW n \in Nat, js.tx_in + n <= JTAG_BUF_LEN,
         JOff(js.tx_in, js.tx_out) + n < JTAG_BUF_LEN
  PROVE  JtagOK(WriteCopy(js, js.tx_in, n))
<1> DEFINE in == js.tx_in
           out == js.tx_out
           buf == [i \in JSlots |-> IF i \in in .. in + n - 1
                                    THEN js.written + 1 + (i - in) ELSE js.tx_buf[i]]
           r == WriteCopy(js, in, n)
           D == JOff(in, out)
           L == Len(js.txfifo)
<1>1. /\ DOMAIN r = DOMAIN Jtag0 /\ SameRx(js, r)
      /\ r.tx_buf = buf /\ r.tx_in = JPlus(in, n) /\ r.written = js.written + n
      /\ r.tx_out = out /\ r.txfifo = js.txfifo /\ r.to = js.to
  BY DEF JtagOK, WriteCopy, SameRx, Jtag0
<1>2. JtagRx(r)
  BY <1>1, RxSame DEF JtagOK
<1>3. /\ in \in JSlots /\ out \in JSlots /\ js.tx_buf \in [JSlots -> Int] /\ js.txfifo \in Seq(Int)
      /\ js.to \in Int /\ js.written \in Int /\ js.to + L + D = js.written
      /\ \A i \in 1 .. L : js.txfifo[i] = js.to + i
      /\ \A s \in JSlots : JOff(s, out) < D => js.tx_buf[s] = js.to + L + 1 + JOff(s, out)
  BY DEF JtagOK, JtagTx
<1>4. D \in Int /\ L \in Int /\ JSlots \subseteq Int /\ D + n < JTAG_BUF_LEN /\ in + n <= JTAG_BUF_LEN
  <2>1. D \in Int /\ JSlots \subseteq Int
    BY <1>3, JOffType
  <2>2. L \in Int
    BY <1>3
  <2> QED BY <2>1, <2>2
<1>5. JPlus(in, n) \in JSlots /\ JOff(JPlus(in, n), out) = D + n
  BY <1>3, <1>4, JShift
<1>6. buf \in [JSlots -> Int]
  <2>1. ASSUME NEW i \in JSlots PROVE buf[i] \in Int
    <3>1. i \in Int /\ in \in Int /\ js.written \in Int /\ js.tx_buf[i] \in Int
      BY <1>3, <1>4
    <3>2. buf[i] = js.written + 1 + (i - in) \/ buf[i] = js.tx_buf[i]
      OBVIOUS
    <3> HIDE DEF buf, in
    <3> QED BY <3>1, <3>2
  <2> QED BY <2>1
<1>7. ASSUME NEW s \in JSlots, JOff(s, out) < D + n
      PROVE  buf[s] = js.to + L + 1 + JOff(s, out)
  <2>1. JOff(s, out) \in Int /\ s \in Int /\ in \in Int
    BY <1>3, JOffType
  <2>2. CASE s \in in .. in + n - 1
    <3>1. JOff(s, out) = D + (s - in)
      BY <1>3, <1>4, <2>2, JPiece
    <3>2. buf[s] = js.written + 1 + (s - in)
      BY <2>2
    <3> HIDE DEF D, L, buf, in, out
    <3>3. js.to + L + D = js.written /\ js.to \in Int /\ js.written \in Int
      BY <1>3
    <3> QED BY <1>4, <2>1, <3>1, <3>2, <3>3
  <2>3. CASE s \notin in .. in + n - 1
    <3>1. JOff(s, out) < D
      BY <1>3, <1>4, <1>7, <2>3, JPiece
    <3> QED BY <1>3, <2>3, <3>1
  <2> QED BY <2>2, <2>3
<1> HIDE DEF r, buf
<1>8. js.to + L + (D + n) = js.written + n
  <2> HIDE DEF D, L
  <2> QED BY <1>3, <1>4
<1>9. JtagTx(r)
  <2>1. js.written + n \in Int
    BY <1>3
  <2> QED BY <1>1, <1>3, <1>5, <1>6, <1>7, <1>8, <2>1 DEF JtagTx
<1> QED BY <1>1, <1>2, <1>9 DEF JtagOK, r

LEMMA ReadCopyOK ==
  ASSUME NEW js, JtagOK(js), NEW n \in Nat, js.rx_out + n <= JTAG_BUF_LEN,
         n <= JOff(js.rx_in, js.rx_out)
  PROVE  JtagOK(ReadCopy(js, js.rx_out, n))
<1> DEFINE in == js.rx_in
           out == js.rx_out
           r == ReadCopy(js, out, n)
           D == JOff(in, out)
<1>1. /\ in \in JSlots /\ out \in JSlots /\ js.rx_buf \in [JSlots -> Int] /\ js.rxfifo \in Seq(Int)
      /\ js.from \in Int /\ js.read \in Int /\ js.ok = TRUE /\ js.read + D + Len(js.rxfifo) = js.from
      /\ \A s \in JSlots : JOff(s, out) < D => js.rx_buf[s] = js.read + 1 + JOff(s, out)
      /\ \A i \in 1 .. Len(js.rxfifo) : js.rxfifo[i] = js.read + D + i
  BY DEF JtagOK, JtagRx
<1>2. D \in Int /\ D < JTAG_BUF_LEN /\ JSlots \subseteq Int /\ n <= D /\ out + n <= JTAG_BUF_LEN
      /\ Len(js.rxfifo) \in Int
  <2>1. JSlots \subseteq Int /\ D \in JSlots
    BY <1>1, JOffType
  <2> QED BY <1>1, <2>1, JLen DEF JSlots
<1>3. \A i \in 0 .. n - 1 : js.rx_buf[out + i] = js.read + 1 + i
  <2> SUFFICES ASSUME NEW i \in 0 .. n - 1 PROVE js.rx_buf[out + i] = js.read + 1 + i
    OBVIOUS
  <2>1. out + i \in JSlots /\ JOff(out + i, out) = i
    <3>1. out \in 0 .. JTAG_BUF_LEN - 1 /\ out + n <= JTAG_BUF_LEN
      BY <1>1, <1>2 DEF JSlots
    <3> HIDE DEF out
    <3> QED BY <3>1, JLen DEF JSlots, JOff
  <2>2. i < D
    <3> HIDE DEF D
    <3> QED BY <1>2
  <2> QED BY <1>1, <2>1, <2>2
<1>4. /\ DOMAIN r = DOMAIN Jtag0 /\ SameTx(js, r) /\ r.ok = TRUE
      /\ r.rx_out = JPlus(out, n) /\ r.read = js.read + n
      /\ r.rx_in = in /\ r.rx_buf = js.rx_buf /\ r.rxfifo = js.rxfifo /\ r.from = js.from
  BY <1>1, <1>3 DEF JtagOK, ReadCopy, SameTx, Jtag0
<1>5. JtagTx(r)
  BY <1>4, TxSame DEF JtagOK
<1>6. /\ JPlus(out, n) \in JSlots /\ JOff(in, JPlus(out, n)) = D - n
      /\ \A s \in JSlots : JOff(s, JPlus(out, n)) < D - n =>
           /\ n <= JOff(s, out) /\ JOff(s, out) < D
           /\ JOff(s, JPlus(out, n)) = JOff(s, out) - n
  BY <1>1, <1>2, JUnshift
<1> DEFINE o == JPlus(out, n)
<1>7. ASSUME NEW s \in JSlots, JOff(s, o) < D - n
      PROVE  js.rx_buf[s] = js.read + n + 1 + JOff(s, o)
  <2>1. JOff(s, out) \in Int /\ JOff(s, o) = JOff(s, out) - n /\ JOff(s, out) < D
    BY <1>1, <1>6, <1>7, JOffType
  <2>2. js.rx_buf[s] = js.read + 1 + JOff(s, out)
    BY <1>1, <2>1
  <2> HIDE DEF D, o
  <2> QED BY <1>1, <2>1, <2>2
<1>8. /\ js.read + n \in Int
      /\ js.read + n + (D - n) + Len(js.rxfifo) = js.from
      /\ \A i \in 1 .. Len(js.rxfifo) : js.rxfifo[i] = js.read + n + (D - n) + i
  <2> HIDE DEF D
  <2> QED BY <1>1, <1>2
<1> HIDE DEF r
<1>9. JtagRx(r)
  BY <1>1, <1>4, <1>6, <1>7, <1>8 DEF JtagRx
<1> QED BY <1>4, <1>5, <1>9 DEF JtagOK, r

\* The interrupt handler's two halves.
LEMMA ReceiveOK ==
  ASSUME NEW js, JtagOK(js)
  PROVE  LET r == ReceivePass(js)
         IN  /\ JtagOK(r) /\ SameTx(js, r) /\ r.rx_out = js.rx_out
             /\ JOff(js.rx_in, js.rx_out) <= JOff(r.rx_in, js.rx_out)
<1> DEFINE in == js.rx_in
           out == js.rx_out
           D == JOff(in, out)
           L == Len(js.rxfifo)
           n == Min({L, JTAG_BUF_LEN - 1 - Len(RxRing(js))})
           buf == [i \in JSlots |-> LET k == (i - in) % JTAG_BUF_LEN
                                    IN  IF k < n THEN js.rxfifo[k + 1] ELSE js.rx_buf[i]]
           fifo == SubSeq(js.rxfifo, n + 1, L)
           r == ReceivePass(js)
<1>1. /\ in \in JSlots /\ out \in JSlots /\ js.rx_buf \in [JSlots -> Int] /\ js.rxfifo \in Seq(Int)
      /\ js.from \in Int /\ js.read \in Int /\ js.ok = TRUE /\ js.read + D + L = js.from
  BY DEF JtagOK, JtagRx
<1>2. /\ \A s \in JSlots : JOff(s, out) < D => js.rx_buf[s] = js.read + 1 + JOff(s, out)
      /\ \A i \in 1 .. L : js.rxfifo[i] = js.read + D + i
  BY DEF JtagOK, JtagRx
<1>3. D \in 0 .. JTAG_BUF_LEN - 1 /\ L \in Nat /\ JTAG_BUF_LEN \in Nat
  <2>1. D \in JSlots
    BY <1>1, JOffType
  <2>2. L \in Nat
    BY <1>1
  <2> QED BY <2>1, <2>2, JLen DEF JSlots
<1>4. n \in Nat /\ n <= L /\ D + n < JTAG_BUF_LEN
  <2>1. Len(RxRing(js)) = D
    BY <1>1, RingIs DEF RxRing
  <2> HIDE DEF D, L
  <2>2. Min({L, JTAG_BUF_LEN - 1 - D}) = IF L <= JTAG_BUF_LEN - 1 - D THEN L ELSE JTAG_BUF_LEN - 1 - D
    BY <1>3, MinTwo
  <2>3. n = Min({L, JTAG_BUF_LEN - 1 - D})
    BY <2>1
  <2> HIDE DEF n
  <2> QED BY <1>3, <2>2, <2>3
<1>5. /\ DOMAIN r = DOMAIN Jtag0 /\ SameTx(js, r) /\ r.ok = js.ok
      /\ r.rx_buf = buf /\ r.rx_in = JPlus(in, n) /\ r.rxfifo = fifo
      /\ r.rx_out = out /\ r.from = js.from /\ r.read = js.read
  BY DEF JtagOK, ReceivePass, SameTx, Jtag0
<1> HIDE DEF r, n
<1>6. JtagTx(r)
  BY <1>5, TxSame DEF JtagOK
<1>7. JPlus(in, n) \in JSlots /\ JOff(JPlus(in, n), out) = D + n
  BY <1>1, <1>4, JShift
<1>8. /\ fifo \in Seq(Int) /\ Len(fifo) = L - n
      /\ \A i \in 1 .. Len(fifo) : fifo[i] = js.rxfifo[n + i]
  <2>1. \A i \in n + 1 .. L : js.rxfifo[i] \in Int
    BY <1>1, <1>4
  <2>2. n + 1 \in Int /\ L \in Int
    BY <1>3, <1>4
  <2>3. /\ fifo \in Seq(Int) /\ Len(fifo) = (IF n + 1 <= L THEN L - (n + 1) + 1 ELSE 0)
        /\ \A i \in 1 .. L - (n + 1) + 1 : fifo[i] = js.rxfifo[(n + 1) + i - 1]
    BY <2>1, <2>2, SubSeqProperties
  <2> HIDE DEF fifo, L
  <2>4. Len(fifo) = L - n /\ L - (n + 1) + 1 = L - n
    BY <1>3, <1>4, <2>3
  <2>5. \A i \in 1 .. Len(fifo) : fifo[i] = js.rxfifo[(n + 1) + i - 1] /\ (n + 1) + i - 1 = n + i
    BY <1>3, <1>4, <2>3, <2>4
  <2> QED BY <2>3, <2>4, <2>5
<1>9. ASSUME NEW s \in JSlots
      PROVE  /\ buf[s] = IF JOff(s, in) < n THEN js.rxfifo[JOff(s, in) + 1] ELSE js.rx_buf[s]
             /\ JOff(s, in) < n => JOff(s, in) + 1 \in 1 .. L
             /\ JOff(s, in) < n => JOff(s, out) = D + JOff(s, in)
             /\ ~(JOff(s, in) < n) /\ JOff(s, out) < D + n => JOff(s, out) < D
  <2>1. (s - in) % JTAG_BUF_LEN = JOff(s, in)
    BY <1>1, JOffIs
  <2>2. buf[s] = IF JOff(s, in) < n THEN js.rxfifo[JOff(s, in) + 1] ELSE js.rx_buf[s]
    BY <2>1
  <2>3. JOff(s, in) \in JSlots /\ JOff(s, out) \in JSlots
    BY <1>1, JOffType
  <2>4. JOff(s, in) < n => JOff(s, in) + 1 \in 1 .. L
    <3> HIDE DEF L
    <3> QED BY <1>3, <1>4, <2>3 DEF JSlots
  <2>5. /\ in \in 0 .. JTAG_BUF_LEN - 1 /\ out \in 0 .. JTAG_BUF_LEN - 1
        /\ s \in 0 .. JTAG_BUF_LEN - 1
    BY <1>1 DEF JSlots
  <2> HIDE DEF L, in, out
  <2>6. /\ JOff(s, in) < n => JOff(s, out) = D + JOff(s, in)
        /\ ~(JOff(s, in) < n) /\ JOff(s, out) < D + n => JOff(s, out) < D
    BY <1>3, <1>4, <2>5 DEF JOff
  <2> QED BY <2>2, <2>4, <2>6
<1>10. buf \in [JSlots -> Int]
  <2>1. ASSUME NEW i \in JSlots PROVE buf[i] \in Int
    <3>1. js.rx_buf[i] \in Int /\ (JOff(i, in) < n => js.rxfifo[JOff(i, in) + 1] \in Int)
      BY <1>1, <1>9
    <3> HIDE DEF buf
    <3> QED BY <1>9, <3>1
  <2> QED BY <2>1
<1> HIDE DEF buf, fifo
<1>11. ASSUME NEW s \in JSlots, JOff(s, out) < D + n
       PROVE  buf[s] = js.read + 1 + JOff(s, out)
  <2>1. JOff(s, in) \in Int /\ JOff(s, out) \in Int
    BY <1>1, JOffType
  <2>2. CASE JOff(s, in) < n
    <3>1. buf[s] = js.read + D + (JOff(s, in) + 1)
      BY <1>2, <1>9, <2>2
    <3>2. JOff(s, out) = D + JOff(s, in) /\ js.read \in Int
      BY <1>1, <1>9, <2>2
    <3>3. D \in Int
      BY <1>3
    <3> DEFINE k == JOff(s, in)
               m == JOff(s, out)
    <3> HIDE DEF D, k, m
    <3>4. m = D + k /\ k \in Int /\ buf[s] = js.read + D + (k + 1) /\ js.read \in Int
      BY <2>1, <3>1, <3>2 DEF k, m
    <3>5. buf[s] = js.read + 1 + m
      BY <3>3, <3>4
    <3> QED BY <3>5 DEF m
  <2>3. CASE ~(JOff(s, in) < n)
    BY <1>2, <1>9, <1>11, <2>3
  <2> QED BY <2>2, <2>3
<1>12. \A i \in 1 .. Len(fifo) : fifo[i] = js.read + (D + n) + i
  <2> SUFFICES ASSUME NEW i \in 1 .. Len(fifo) PROVE fifo[i] = js.read + (D + n) + i
    OBVIOUS
  <2>1. n + i \in 1 .. L /\ fifo[i] = js.rxfifo[n + i]
    BY <1>3, <1>4, <1>8
  <2>2. fifo[i] = js.read + D + (n + i) /\ js.read \in Int /\ i \in Int
    BY <1>1, <1>2, <2>1
  <2> HIDE DEF D
  <2> QED BY <1>3, <1>4, <2>2
<1>13. js.read + (D + n) + Len(fifo) = js.from
  <2>1. js.read + D + L = js.from /\ js.read \in Int
    BY <1>1
  <2> HIDE DEF D, L
  <2> QED BY <1>3, <1>4, <1>8, <2>1
<1>14. JtagRx(r)
  BY <1>1, <1>5, <1>7, <1>8, <1>10, <1>11, <1>12, <1>13 DEF JtagRx
<1>15. D <= D + n
  <2> HIDE DEF D
  <2> QED BY <1>3, <1>4
<1> QED BY <1>5, <1>6, <1>7, <1>14, <1>15 DEF JtagOK, r

LEMMA TransmitOK ==
  ASSUME NEW js, JtagOK(js), NEW space \in Nat
  PROVE  LET r == TransmitPass(js, space)
         IN  /\ JtagOK(r) /\ SameRx(js, r) /\ r.tx_in = js.tx_in
             /\ JOff(js.tx_in, r.tx_out) <= JOff(js.tx_in, js.tx_out)
<1> DEFINE in == js.tx_in
           out == js.tx_out
           D == JOff(in, out)
           L == Len(js.txfifo)
           ring == TxRing(js)
           n == Min({space, Len(ring)})
           part == SubSeq(ring, 1, n)
           fifo == js.txfifo \o part
           o == JPlus(out, n)
           r == TransmitPass(js, space)
<1>1. /\ in \in JSlots /\ out \in JSlots /\ js.tx_buf \in [JSlots -> Int] /\ js.txfifo \in Seq(Int)
      /\ js.to \in Int /\ js.written \in Int /\ js.to + L + D = js.written
  BY DEF JtagOK, JtagTx
<1>2. /\ \A i \in 1 .. L : js.txfifo[i] = js.to + i
      /\ \A s \in JSlots : JOff(s, out) < D => js.tx_buf[s] = js.to + L + 1 + JOff(s, out)
  BY DEF JtagOK, JtagTx
<1>3. D \in Nat /\ L \in Nat /\ D < JTAG_BUF_LEN /\ JTAG_BUF_LEN \in Nat
  <2>1. D \in JSlots
    BY <1>1, JOffType
  <2>2. L \in Nat
    BY <1>1
  <2> HIDE DEF D, L
  <2> QED BY <2>1, <2>2, JLen DEF JSlots
<1>4. /\ ring \in Seq(Int) /\ Len(ring) = D
      /\ \A i \in 1 .. D : ring[i] = js.to + L + i
  <2>1. ring \in Seq(Int) /\ Len(ring) = D
    BY <1>1, RingIs DEF TxRing
  <2>3. \A i \in 1 .. D : /\ JPlus(out, i - 1) \in JSlots /\ JOff(JPlus(out, i - 1), out) = i - 1
                          /\ ring[i] = js.tx_buf[JPlus(out, i - 1)]
    <3> DEFINE b == js.tx_buf
    <3>1. ring = Ring(b, in, out) /\ b \in [JSlots -> Int] /\ in \in JSlots /\ out \in JSlots
      BY <1>1 DEF TxRing
    <3> HIDE DEF ring, b, in, out
    <3> QED BY <3>1, RingIs DEF b
  <2>2. ASSUME NEW i \in 1 .. D PROVE ring[i] = js.to + L + i
    <3>1. /\ JPlus(out, i - 1) \in JSlots /\ JOff(JPlus(out, i - 1), out) = i - 1
          /\ ring[i] = js.tx_buf[JPlus(out, i - 1)]
      BY <2>3
    <3>2. i - 1 < D /\ i \in Int
      BY <1>3
    <3>3. ring[i] = js.to + L + 1 + (i - 1)
      BY <1>2, <3>1, <3>2
    <3> HIDE DEF L, ring
    <3> QED BY <1>1, <1>3, <3>2, <3>3
  <2> QED BY <2>1, <2>2
<1> HIDE DEF ring
<1>5. n \in Nat /\ n <= D
  <2> HIDE DEF D
  <2>1. Min({space, D}) = IF space <= D THEN space ELSE D
    BY <1>3, MinTwo
  <2>2. n = Min({space, D})
    BY <1>4
  <2> HIDE DEF n
  <2> QED BY <1>3, <2>1, <2>2
<1>6. /\ DOMAIN r = DOMAIN Jtag0 /\ SameRx(js, r)
      /\ r.txfifo = fifo /\ r.tx_out = o /\ r.tx_in = in /\ r.tx_buf = js.tx_buf
      /\ r.to = js.to /\ r.written = js.written
  BY DEF JtagOK, TransmitPass, SameRx, Jtag0, ring
<1> HIDE DEF n
<1>7. /\ o \in JSlots /\ JOff(in, o) = D - n
      /\ \A s \in JSlots : JOff(s, o) < D - n =>
           /\ n <= JOff(s, out) /\ JOff(s, out) < D
           /\ JOff(s, o) = JOff(s, out) - n
  BY <1>1, <1>5, JUnshift
<1> HIDE DEF r, o
<1>8. /\ part \in Seq(Int) /\ Len(part) = n
      /\ \A i \in 1 .. n : part[i] = js.to + L + i
  <2>1. \A i \in 1 .. n : ring[i] \in Int /\ ring[i] = js.to + L + i
    <3> HIDE DEF L, D
    <3>1. \A i \in 1 .. n : i \in 1 .. D /\ i \in Int
      BY <1>3, <1>5
    <3> QED BY <1>1, <1>3, <1>4, <3>1
  <2>2. 1 \in Int /\ n \in Int
    BY <1>5
  <2>3. /\ part \in Seq(Int) /\ Len(part) = (IF 1 <= n THEN n - 1 + 1 ELSE 0)
        /\ \A i \in 1 .. n - 1 + 1 : part[i] = ring[1 + i - 1]
    BY <2>1, <2>2, SubSeqProperties
  <2> HIDE DEF part, L
  <2>4. Len(part) = n /\ n - 1 + 1 = n
    BY <1>5, <2>3
  <2>5. \A i \in 1 .. n : part[i] = ring[1 + i - 1] /\ 1 + i - 1 = i
    BY <1>5, <2>3, <2>4
  <2> QED BY <2>1, <2>3, <2>4, <2>5
<1> HIDE DEF part
<1>9. /\ fifo \in Seq(Int) /\ Len(fifo) = L + n
      /\ \A i \in 1 .. Len(fifo) : fifo[i] = js.to + i
  <2>1. /\ fifo \in Seq(Int) /\ Len(fifo) = L + n
        /\ \A i \in 1 .. L + n : fifo[i] = IF i <= L THEN js.txfifo[i] ELSE part[i - L]
    BY <1>1, <1>8, ConcatProperties
  <2> HIDE DEF fifo
  <2>2. ASSUME NEW i \in 1 .. L + n PROVE fifo[i] = js.to + i
    <3>1. CASE i <= L
      <4>1. i \in 1 .. L
        BY <1>3, <3>1
      <4> QED BY <1>2, <2>1, <3>1, <4>1
    <3>2. CASE ~(i <= L)
      <4> HIDE DEF L
      <4>1. i - L \in 1 .. n /\ L + (i - L) = i /\ i \in Int
        BY <1>3, <1>5, <3>2
      <4>2. fifo[i] = js.to + L + (i - L)
        BY <1>8, <2>1, <3>2, <4>1
      <4> QED BY <1>1, <1>3, <4>1, <4>2
    <3> QED BY <3>1, <3>2
  <2> QED BY <2>1, <2>2
<1> HIDE DEF fifo
<1>10. ASSUME NEW s \in JSlots, JOff(s, o) < D - n
       PROVE  js.tx_buf[s] = js.to + Len(fifo) + 1 + JOff(s, o)
  <2> DEFINE k == JOff(s, out)
             m == JOff(s, o)
  <2>1. k \in Int /\ k < D /\ m = k - n
    BY <1>1, <1>7, <1>10, JOffType
  <2>2. js.tx_buf[s] = js.to + L + 1 + k
    BY <1>2, <2>1
  <2> HIDE DEF k, m, L
  <2>3. js.tx_buf[s] = js.to + Len(fifo) + 1 + m
    BY <1>1, <1>3, <1>5, <1>9, <2>1, <2>2
  <2> QED BY <2>3 DEF m
<1>11. js.to + Len(fifo) + (D - n) = js.written
  <2>1. js.to + L + D = js.written /\ js.to \in Int
    BY <1>1
  <2> HIDE DEF D, L
  <2> QED BY <1>3, <1>5, <1>9, <2>1
<1>12. JtagTx(r)
  BY <1>1, <1>6, <1>7, <1>9, <1>10, <1>11 DEF JtagTx
<1>13. JtagRx(r)
  BY <1>6, RxSame DEF JtagOK
<1>14. D - n <= D
  <2> HIDE DEF D
  <2> QED BY <1>3, <1>5
<1> QED BY <1>6, <1>7, <1>12, <1>13, <1>14 DEF JtagOK, r

LEMMA JtagIrqOK ==
  ASSUME NEW js, JtagOK(js)
  PROVE  LET r == altera_avalon_jtag_uart_irq(js)
         IN  /\ JtagOK(r) /\ r.rx_out = js.rx_out /\ r.tx_in = js.tx_in
             /\ JOff(js.rx_in, js.rx_out) <= JOff(r.rx_in, js.rx_out)
             /\ JOff(js.tx_in, r.tx_out) <= JOff(js.tx_in, js.tx_out)
<1> DEFINE rx == IF RI(js) THEN ReceivePass(js) ELSE js
           space == JTAG_FIFO - Len(js.txfifo)
           r == altera_avalon_jtag_uart_irq(js)
<1>1. /\ js.rx_in \in JSlots /\ js.rx_out \in JSlots /\ js.tx_in \in JSlots /\ js.tx_out \in JSlots
      /\ js.txfifo \in Seq(Int)
  BY DEF JtagOK, JtagTx, JtagRx
<1>2. JOff(js.rx_in, js.rx_out) \in Int /\ JOff(js.tx_in, js.tx_out) \in Int
  BY <1>1, JOffType
<1>3. /\ JtagOK(rx) /\ SameTx(js, rx) /\ rx.rx_out = js.rx_out
      /\ JOff(js.rx_in, js.rx_out) <= JOff(rx.rx_in, js.rx_out)
  <2>1. CASE RI(js)
    BY <2>1, ReceiveOK
  <2>2. CASE ~RI(js)
    BY <1>2, <2>2 DEF SameTx
  <2> QED BY <2>1, <2>2
<1>4. r = IF WI(js) THEN TransmitPass(rx, space) ELSE rx
  BY DEF altera_avalon_jtag_uart_irq
<1> HIDE DEF rx, r
<1>5. CASE WI(js)
  <2>1. space \in Nat
    BY <1>1, <1>5, JLen DEF WI
  <2> HIDE DEF space
  <2>2. /\ JtagOK(r) /\ SameRx(rx, r) /\ r.tx_in = rx.tx_in
        /\ JOff(rx.tx_in, r.tx_out) <= JOff(rx.tx_in, rx.tx_out)
    BY <1>3, <1>4, <1>5, <2>1, TransmitOK
  <2> QED BY <1>3, <2>2 DEF SameTx, SameRx, r
<1>6. CASE ~WI(js)
  BY <1>2, <1>3, <1>4, <1>6 DEF SameTx, r
<1> QED BY <1>5, <1>6

\* What changes neither the rings nor the FIFOs.
LEMMA JtagSame ==
  ASSUME NEW js, NEW r, JtagOK(js), DOMAIN r = DOMAIN js, SameTx(js, r), SameRx(js, r)
  PROVE  JtagOK(r)
  BY TxSame, RxSame DEF JtagOK

LEMMA HostSendsOK == ASSUME NEW js, JtagOK(js) PROVE JtagOK(HostSends(js))
<1> DEFINE r == HostSends(js)
           fifo == Append(js.rxfifo, js.from + 1)
           D == JOff(js.rx_in, js.rx_out)
           L == Len(js.rxfifo)
<1>1. /\ DOMAIN r = DOMAIN Jtag0 /\ SameTx(js, r) /\ r.rxfifo = fifo /\ r.from = js.from + 1
      /\ r.rx_in = js.rx_in /\ r.rx_out = js.rx_out /\ r.rx_buf = js.rx_buf
      /\ r.read = js.read /\ r.ok = js.ok
  BY DEF JtagOK, HostSends, SameTx, Jtag0
<1>2. /\ js.rx_in \in JSlots /\ js.rx_out \in JSlots /\ js.rxfifo \in Seq(Int)
      /\ js.from \in Int /\ js.read \in Int /\ js.read + D + L = js.from
      /\ \A i \in 1 .. L : js.rxfifo[i] = js.read + D + i
  BY DEF JtagOK, JtagRx
<1>3. D \in Int /\ L \in Nat
  <2>1. D \in Int
    BY <1>2, JOffType
  <2>2. L \in Nat
    BY <1>2
  <2> QED BY <2>1, <2>2
<1>4. /\ fifo \in Seq(Int) /\ Len(fifo) = L + 1
      /\ \A i \in 1 .. L + 1 : fifo[i] = IF i <= L THEN js.rxfifo[i] ELSE js.from + 1
  <2>1. fifo \in Seq(Int) /\ Len(fifo) = L + 1 /\ fifo[L + 1] = js.from + 1
    BY <1>2
  <2>2. \A i \in 1 .. L : fifo[i] = js.rxfifo[i]
    BY <1>2
  <2> HIDE DEF fifo, L
  <2> QED BY <1>3, <2>1, <2>2
<1> HIDE DEF r, fifo
<1>5. \A i \in 1 .. Len(fifo) : fifo[i] = js.read + D + i
  <2> SUFFICES ASSUME NEW i \in 1 .. L + 1 PROVE fifo[i] = js.read + D + i
    BY <1>4
  <2>1. i \in 1 .. L \/ i = L + 1
    BY <1>3
  <2>2. js.read + D + (L + 1) = js.from + 1
    <3>1. js.read + D + L = js.from /\ js.read \in Int
      BY <1>2
    <3> HIDE DEF D, L
    <3> QED BY <1>3, <3>1
  <2>3. ~(L + 1 <= L)
    <3> HIDE DEF L
    <3> QED BY <1>3
  <2> QED BY <1>2, <1>3, <1>4, <2>1, <2>2, <2>3
<1>6. js.read + D + Len(fifo) = js.from + 1 /\ js.from + 1 \in Int
  <2>1. js.read + D + L = js.from /\ js.read \in Int /\ js.from \in Int
    BY <1>2
  <2> HIDE DEF D, L
  <2> QED BY <1>3, <1>4, <2>1
<1>7. JtagRx(r)
  BY <1>1, <1>4, <1>5, <1>6 DEF JtagOK, JtagRx
<1> QED BY <1>1, <1>7, TxSame DEF JtagOK, r

LEMMA HostTakesOK == ASSUME NEW js, JtagOK(js), js.txfifo # << >> PROVE JtagOK(HostTakes(js))
<1> DEFINE r == HostTakes(js)
           fifo == Tail(js.txfifo)
           L == Len(js.txfifo)
           D == JOff(js.tx_in, js.tx_out)
<1>1. /\ DOMAIN r = DOMAIN Jtag0 /\ SameRx(js, r) /\ r.txfifo = fifo /\ r.to = js.to + 1
      /\ r.tx_in = js.tx_in /\ r.tx_out = js.tx_out /\ r.tx_buf = js.tx_buf /\ r.written = js.written
  BY DEF JtagOK, HostTakes, SameRx, Jtag0
<1>2. /\ js.tx_in \in JSlots /\ js.tx_out \in JSlots /\ js.txfifo \in Seq(Int) /\ js.tx_buf \in [JSlots -> Int]
      /\ js.to \in Int /\ js.written \in Int /\ js.to + L + D = js.written
      /\ \A i \in 1 .. L : js.txfifo[i] = js.to + i
      /\ \A s \in JSlots : JOff(s, js.tx_out) < D => js.tx_buf[s] = js.to + L + 1 + JOff(s, js.tx_out)
  BY DEF JtagOK, JtagTx
<1>3. D \in Int /\ L \in Nat
  <2>1. D \in Int
    BY <1>2, JOffType
  <2>2. L \in Nat
    BY <1>2
  <2> QED BY <2>1, <2>2
<1>4. /\ fifo \in Seq(Int) /\ Len(fifo) = L - 1
      /\ \A i \in 1 .. Len(fifo) : fifo[i] = js.txfifo[i + 1]
  BY <1>2, HeadTailProperties
<1> HIDE DEF r, fifo
<1>5. \A i \in 1 .. Len(fifo) : fifo[i] = js.to + 1 + i
  <2> SUFFICES ASSUME NEW i \in 1 .. Len(fifo) PROVE fifo[i] = js.to + 1 + i
    OBVIOUS
  <2>1. i + 1 \in 1 .. L /\ i \in Int
    <3> HIDE DEF L
    <3> QED BY <1>3, <1>4
  <2>2. fifo[i] = js.to + (i + 1)
    BY <1>2, <1>4, <2>1
  <2>3. js.to \in Int
    BY <1>2
  <2> QED BY <2>1, <2>2, <2>3
<1>6. js.to + 1 + Len(fifo) = js.to + L
  <2>1. js.to \in Int
    BY <1>2
  <2> HIDE DEF L
  <2> QED BY <1>3, <1>4, <2>1
<1>7. JtagTx(r)
  <2>1. js.to + 1 \in Int
    BY <1>2
  <2> QED BY <1>1, <1>2, <1>4, <1>5, <1>6, <2>1 DEF JtagTx
<1> QED BY <1>1, <1>7, RxSame DEF JtagOK, r

LEMMA NumberedIs ==
  ASSUME NEW s \in Seq(Int), NEW k \in Int, \A i \in 1 .. Len(s) : s[i] = k + i
  PROVE  Numbered(s, k)
<1> DEFINE t == [i \in 1 .. Len(s) |-> k + i]
<1>1. s \in [1 .. Len(s) -> Int] /\ Len(s) \in Nat
  OBVIOUS
<1>2. t \in [1 .. Len(s) -> Int] /\ \A i \in 1 .. Len(s) : t[i] = s[i]
  BY <1>1
<1>3. s = t
  <2> HIDE DEF t
  <2> QED BY <1>1, <1>2
<1> QED BY <1>3 DEF Numbered

LEMMA JtagOKKept == ASSUME NEW js, JtagOK(js) PROVE JtagKept(js)
<1>1. js.ok = TRUE
  BY DEF JtagOK, JtagRx
<1>2. LET tx == js.txfifo \o TxRing(js)
      IN  Numbered(tx, js.to) /\ js.to + Len(tx) = js.written
  <2> DEFINE ring == TxRing(js)
             out == js.tx_out
             b == js.tx_buf
             in == js.tx_in
             L == Len(js.txfifo)
             D == JOff(in, out)
             tx == js.txfifo \o ring
  <2>1. /\ in \in JSlots /\ out \in JSlots /\ b \in [JSlots -> Int] /\ js.txfifo \in Seq(Int)
        /\ js.to \in Int /\ js.to + L + D = js.written /\ ring = Ring(b, in, out)
    BY DEF JtagOK, JtagTx, TxRing
  <2>2. /\ \A i \in 1 .. L : js.txfifo[i] = js.to + i
        /\ \A s \in JSlots : JOff(s, out) < D => b[s] = js.to + L + 1 + JOff(s, out)
    BY DEF JtagOK, JtagTx
  <2> HIDE DEF ring, out, in, b
  <2>3. /\ ring \in Seq(Int) /\ Len(ring) = D
        /\ \A i \in 1 .. D : /\ JPlus(out, i - 1) \in JSlots /\ JOff(JPlus(out, i - 1), out) = i - 1
                             /\ ring[i] = b[JPlus(out, i - 1)]
    BY <2>1, RingIs
  <2>4. D \in Nat /\ L \in Nat
    <3>1. Len(ring) \in Nat /\ L \in Nat
      BY <2>1, <2>3
    <3> QED BY <2>3, <3>1
  <2>5. /\ tx \in Seq(Int) /\ Len(tx) = L + D
        /\ \A i \in 1 .. L + D : tx[i] = IF i <= L THEN js.txfifo[i] ELSE ring[i - L]
    BY <2>1, <2>3, ConcatProperties
  <2>6. ASSUME NEW i \in 1 .. D PROVE ring[i] = js.to + L + i
    <3>1. i - 1 < D /\ i \in Int
      BY <2>4
    <3>2. ring[i] = js.to + L + 1 + (i - 1)
      BY <2>2, <2>3, <3>1
    <3>3. js.to \in Int
      BY <2>1
    <3> HIDE DEF L
    <3> QED BY <2>4, <3>1, <3>2, <3>3
  <2> HIDE DEF tx, D
  <2>7. ASSUME NEW i \in 1 .. L + D PROVE tx[i] = js.to + i
    <3>1. CASE i <= L
      <4>1. i \in 1 .. L
        BY <2>4, <3>1
      <4> QED BY <2>2, <2>5, <3>1, <4>1
    <3>2. CASE ~(i <= L)
      <4> HIDE DEF L
      <4>1. i - L \in 1 .. D /\ i \in Int
        BY <2>4, <3>2
      <4>2. tx[i] = js.to + L + (i - L)
        BY <2>5, <2>6, <3>2, <4>1
      <4>3. js.to \in Int
        BY <2>1
      <4> QED BY <2>4, <4>1, <4>2, <4>3
    <3> QED BY <3>1, <3>2
  <2>8. Numbered(tx, js.to)
    BY <2>1, <2>5, <2>7, NumberedIs
  <2>9. js.to + Len(tx) = js.written
    <3>1. js.to + L + D = js.written /\ js.to \in Int
      BY <2>1
    <3> HIDE DEF L
    <3> QED BY <2>4, <2>5, <3>1
  <2> QED BY <2>8, <2>9 DEF tx, ring
<1>3. LET rx == RxRing(js) \o js.rxfifo
      IN  Numbered(rx, js.read) /\ js.read + Len(rx) = js.from
  <2> DEFINE ring == RxRing(js)
             out == js.rx_out
             b == js.rx_buf
             in == js.rx_in
             L == Len(js.rxfifo)
             D == JOff(in, out)
             rx == ring \o js.rxfifo
  <2>1. /\ in \in JSlots /\ out \in JSlots /\ b \in [JSlots -> Int] /\ js.rxfifo \in Seq(Int)
        /\ js.read \in Int /\ js.read + D + L = js.from /\ ring = Ring(b, in, out)
    BY DEF JtagOK, JtagRx, RxRing
  <2>2. /\ \A i \in 1 .. L : js.rxfifo[i] = js.read + D + i
        /\ \A s \in JSlots : JOff(s, out) < D => b[s] = js.read + 1 + JOff(s, out)
    BY DEF JtagOK, JtagRx
  <2> HIDE DEF ring, out, in, b
  <2>3. /\ ring \in Seq(Int) /\ Len(ring) = D
        /\ \A i \in 1 .. D : /\ JPlus(out, i - 1) \in JSlots /\ JOff(JPlus(out, i - 1), out) = i - 1
                             /\ ring[i] = b[JPlus(out, i - 1)]
    BY <2>1, RingIs
  <2>4. D \in Nat /\ L \in Nat
    <3>1. Len(ring) \in Nat /\ L \in Nat
      BY <2>1, <2>3
    <3> QED BY <2>3, <3>1
  <2>5. /\ rx \in Seq(Int) /\ Len(rx) = D + L
        /\ \A i \in 1 .. D + L : rx[i] = IF i <= D THEN ring[i] ELSE js.rxfifo[i - D]
    BY <2>1, <2>3, ConcatProperties
  <2>6. ASSUME NEW i \in 1 .. D PROVE ring[i] = js.read + i
    <3>1. i - 1 < D /\ i \in Int
      BY <2>4
    <3>2. ring[i] = js.read + 1 + (i - 1)
      BY <2>2, <2>3, <3>1
    <3>3. js.read \in Int
      BY <2>1
    <3> QED BY <3>1, <3>2, <3>3
  <2> HIDE DEF rx, D
  <2>7. ASSUME NEW i \in 1 .. D + L PROVE rx[i] = js.read + i
    <3>1. CASE i <= D
      <4>1. i \in 1 .. D
        BY <2>4, <3>1
      <4> QED BY <2>6, <2>5, <3>1, <4>1
    <3>2. CASE ~(i <= D)
      <4>1. i - D \in 1 .. L /\ i \in Int
        <5> HIDE DEF L
        <5> QED BY <2>4, <3>2
      <4>2. rx[i] = js.read + D + (i - D)
        BY <2>2, <2>5, <3>2, <4>1
      <4>3. js.read \in Int
        BY <2>1
      <4> QED BY <2>4, <4>1, <4>2, <4>3
    <3> QED BY <3>1, <3>2
  <2>8. Numbered(rx, js.read)
    BY <2>1, <2>5, <2>7, NumberedIs
  <2>9. js.read + Len(rx) = js.from
    <3>1. js.read + D + L = js.from /\ js.read \in Int
      BY <2>1
    <3> HIDE DEF L
    <3> QED BY <2>4, <2>5, <3>1
  <2> QED BY <2>8, <2>9 DEF rx, ring
<1> QED BY <1>1, <1>2, <1>3 DEF JtagKept

(***************************************************************************)
(* What a call has seen of the positions is still good when it uses it:    *)
(* the handler has only put more into the receive ring and taken more from *)
(* the transmit ring.                                                      *)
(***************************************************************************)
JtagPcs == {"jtag_read", "jtag_read_copy", "jtag_read_wait",
            "jtag_write", "jtag_write_copy", "jtag_write_we", "jtag_write_wait"}

JtagCall(p, c, js) ==
  /\ p \in JtagPcs => c.n \in Nat
  /\ p = "jtag_read_copy" =>
       /\ c.out = js.rx_out /\ c.in \in JSlots
       /\ JOff(c.in, js.rx_out) <= JOff(js.rx_in, js.rx_out)
  /\ p = "jtag_write_copy" =>
       /\ c.in = js.tx_in /\ c.out \in JSlots
       /\ JOff(js.tx_in, js.tx_out) <= JOff(js.tx_in, c.out)

JtagInv == JtagOK(jtag) /\ JtagCall(pc, call, jtag)

LEMMA JtagCallSame ==
  ASSUME NEW p, NEW c, NEW js, NEW r, JtagCall(p, c, js),
         r.rx_in = js.rx_in, r.rx_out = js.rx_out, r.tx_in = js.tx_in, r.tx_out = js.tx_out
  PROVE  JtagCall(p, c, r)
  BY DEF JtagCall

LEMMA JtagProgram ==
  ASSUME FdInv, JtagInv, Program PROVE JtagInv'
<1>1. JtagOK(jtag) /\ JtagCall(pc, call, jtag) /\ DOMAIN call = {"fd", "n", "k", "in", "out"}
  BY DEF JtagInv, FdInv, CallOK
<1>2. ASSUME JtagOK(jtag'), pc' \notin JtagPcs PROVE JtagInv'
  BY <1>2 DEF JtagInv, JtagCall, JtagPcs
<1>3. /\ jtag.rx_in \in JSlots /\ jtag.rx_out \in JSlots /\ jtag.tx_in \in JSlots /\ jtag.tx_out \in JSlots
      /\ DOMAIN jtag = DOMAIN Jtag0
  BY <1>1 DEF JtagOK, JtagTx, JtagRx
<1>4. /\ JOff(jtag.rx_in, jtag.rx_out) \in Int /\ JOff(jtag.tx_in, jtag.tx_out) \in Int
  BY <1>3, JOffType
<1>5. CASE Boot
  <2>1. pc' \notin JtagPcs
    BY <1>5 DEF Boot, alt_avalon_timer_sc_init, altera_avalon_jtag_uart_init, JtagAlarm,
         altera_avalon_uart_init, alt_io_redirect, BootStep, JtagPcs
  <2>2. \/ jtag' = jtag
        \/ jtag' = [jtag EXCEPT !.irq_enable = {"RE"}]
        \/ jtag' = [jtag EXCEPT !.host_inactive = 0, !.timeout = IF clock.rate = 0 THEN INT_MAX ELSE @]
    BY <1>5 DEF Boot, alt_avalon_timer_sc_init, altera_avalon_jtag_uart_init, JtagAlarm,
         altera_avalon_uart_init, alt_io_redirect
  <2>3. DOMAIN jtag' = DOMAIN jtag /\ SameTx(jtag, jtag') /\ SameRx(jtag, jtag')
    BY <1>3, <2>2 DEF SameTx, SameRx, Jtag0
  <2> QED BY <1>1, <1>2, <2>1, <2>3, JtagSame
<1>6. CASE JtagReadLook
  <2> DEFINE c == [call EXCEPT !.in = jtag.rx_in, !.out = jtag.rx_out]
  <2>1. jtag' = jtag /\ pc = "jtag_read"
    BY <1>6 DEF JtagReadLook, JtagStep
  <2>2. c.n = call.n /\ c.in = jtag.rx_in /\ c.out = jtag.rx_out
    BY <1>1
  <2>3. call.n \in Nat
    BY <1>1, <2>1 DEF JtagCall, JtagPcs
  <2>4. pc' \notin JtagPcs \/ (call' = c /\ pc' \in {"jtag_read_copy", "jtag_read_re", "jtag_read_wait"})
    BY <1>6 DEF JtagReadLook, Go, Return, JtagPcs
  <2> HIDE DEF c
  <2>5. CASE pc' \notin JtagPcs
    BY <1>1, <1>2, <2>1, <2>5
  <2>6. CASE call' = c /\ pc' \in {"jtag_read_copy", "jtag_read_re", "jtag_read_wait"}
    BY <1>1, <1>3, <1>4, <2>1, <2>2, <2>3, <2>6 DEF JtagInv, JtagCall
  <2> QED BY <2>4, <2>5, <2>6
<1>7. CASE JtagReadCopy
  <2> DEFINE a == ReadAvail(call.in, call.out)
             n == Min({a, call.n})
  <2>1. /\ pc = "jtag_read_copy" /\ jtag' = ReadCopy(jtag, call.out, n)
        /\ call' = [call EXCEPT !.n = @ - n, !.k = @ + n]
        /\ pc' = (IF n < call.n THEN "jtag_read" ELSE "jtag_read_re")
    BY <1>7 DEF JtagReadCopy, JtagStep, Go
  <2>2. /\ call.n \in Nat /\ call.out = jtag.rx_out /\ call.in \in JSlots
        /\ JOff(call.in, jtag.rx_out) <= JOff(jtag.rx_in, jtag.rx_out)
    BY <1>1, <2>1 DEF JtagCall, JtagPcs
  <2>3. a \in Nat /\ jtag.rx_out + a <= JTAG_BUF_LEN /\ a <= JOff(jtag.rx_in, jtag.rx_out)
    BY <1>3, <2>2, ReadAvailFits
  <2>4. call'.n = call.n - n
    BY <1>1, <2>1
  <2> HIDE DEF a
  <2>5. n = IF a <= call.n THEN a ELSE call.n
    BY <2>2, <2>3, MinTwo
  <2> HIDE DEF n
  <2>6. n \in Nat /\ n <= a /\ n <= call.n /\ call.n - n \in Nat
    BY <2>2, <2>3, <2>5
  <2>7. jtag.rx_out + n <= JTAG_BUF_LEN /\ n <= JOff(jtag.rx_in, jtag.rx_out)
    <3>1. jtag.rx_out \in Int
      BY <1>3, JOffType
    <3> QED BY <1>4, <2>3, <2>6, <3>1, JLen
  <2>8. JtagOK(jtag')
    BY <1>1, <2>1, <2>2, <2>6, <2>7, ReadCopyOK
  <2>9. JtagCall(pc', call', jtag')
    BY <2>1, <2>4, <2>6 DEF JtagCall
  <2> QED BY <2>8, <2>9 DEF JtagInv
<1>8. CASE JtagReadWait
  <2>1. /\ jtag' = jtag /\ pc = "jtag_read_wait"
        /\ pc' \notin JtagPcs \/ (pc' = "jtag_read" /\ call' = call)
    BY <1>8 DEF JtagReadWait, JtagStep, Go, Return, JtagPcs
  <2> QED BY <1>1, <1>2, <2>1 DEF JtagInv, JtagCall, JtagPcs
<1>9. CASE JtagReadEnd
  <2>1. jtag' = EnableIrq(jtag, "RE") /\ pc' \notin JtagPcs
    BY <1>9 DEF JtagReadEnd, Go, Return, JtagPcs
  <2>2. DOMAIN jtag' = DOMAIN jtag /\ SameTx(jtag, jtag') /\ SameRx(jtag, jtag')
    BY <1>3, <2>1 DEF EnableIrq, SameTx, SameRx, Jtag0
  <2> QED BY <1>1, <1>2, <2>1, <2>2, JtagSame
<1>10. CASE JtagWriteLook
  <2> DEFINE c == [call EXCEPT !.in = jtag.tx_in, !.out = jtag.tx_out]
  <2>1. jtag' = jtag /\ pc = "jtag_write" /\ call' = c /\ pc' \in {"jtag_write_copy", "jtag_write_we"}
    BY <1>10 DEF JtagWriteLook, JtagStep, Go
  <2>2. c.n = call.n /\ c.in = jtag.tx_in /\ c.out = jtag.tx_out
    BY <1>1
  <2>3. call.n \in Nat
    BY <1>1, <2>1 DEF JtagCall, JtagPcs
  <2> HIDE DEF c
  <2> QED BY <1>1, <1>3, <1>4, <2>1, <2>2, <2>3 DEF JtagInv, JtagCall
<1>11. CASE JtagWriteCopy
  <2> DEFINE a == WriteRoom(call.in, call.out)
             n == Min({a, call.n})
  <2>1. /\ pc = "jtag_write_copy" /\ jtag' = WriteCopy(jtag, call.in, n)
        /\ call' = [call EXCEPT !.n = @ - n, !.k = @ + n]
        /\ pc' = (IF n < call.n THEN "jtag_write" ELSE "jtag_write_we")
    BY <1>11 DEF JtagWriteCopy, JtagStep, Go
  <2>2. /\ call.n \in Nat /\ call.in = jtag.tx_in /\ call.out \in JSlots
        /\ JOff(jtag.tx_in, jtag.tx_out) <= JOff(jtag.tx_in, call.out)
    BY <1>1, <2>1 DEF JtagCall, JtagPcs
  <2>3. a \in Nat /\ jtag.tx_in + a <= JTAG_BUF_LEN /\ JOff(jtag.tx_in, jtag.tx_out) + a < JTAG_BUF_LEN
    BY <1>3, <2>2, WriteRoomFits
  <2>4. call'.n = call.n - n
    BY <1>1, <2>1
  <2> HIDE DEF a
  <2>5. n = IF a <= call.n THEN a ELSE call.n
    BY <2>2, <2>3, MinTwo
  <2> HIDE DEF n
  <2>6. n \in Nat /\ n <= a /\ n <= call.n /\ call.n - n \in Nat
    BY <2>2, <2>3, <2>5
  <2>7. jtag.tx_in + n <= JTAG_BUF_LEN /\ JOff(jtag.tx_in, jtag.tx_out) + n < JTAG_BUF_LEN
    <3>1. jtag.tx_in \in Int
      BY <1>3, JOffType
    <3> QED BY <1>4, <2>3, <2>6, <3>1, JLen
  <2>8. JtagOK(jtag')
    BY <1>1, <2>1, <2>2, <2>6, <2>7, WriteCopyOK
  <2>9. JtagCall(pc', call', jtag')
    BY <2>1, <2>4, <2>6 DEF JtagCall
  <2> QED BY <2>8, <2>9 DEF JtagInv
<1>12. CASE JtagWriteKick
  <2>1. /\ jtag' = EnableIrq(jtag, "WE") /\ pc = "jtag_write_we"
        /\ pc' \notin JtagPcs \/ (pc' = "jtag_write_wait" /\ call' = call)
    BY <1>12 DEF JtagWriteKick, JtagStep, Go, Return, JtagPcs
  <2>2. DOMAIN jtag' = DOMAIN jtag /\ SameTx(jtag, jtag') /\ SameRx(jtag, jtag')
    BY <1>3, <2>1 DEF EnableIrq, SameTx, SameRx, Jtag0
  <2>3. JtagOK(jtag')
    BY <1>1, <2>2, JtagSame
  <2> QED BY <1>1, <1>2, <2>1, <2>3 DEF JtagInv, JtagCall, JtagPcs
<1>13. CASE JtagWriteWait
  <2>1. /\ jtag' = jtag /\ pc = "jtag_write_wait"
        /\ pc' \notin JtagPcs \/ (pc' = "jtag_write" /\ call' = call)
    BY <1>13 DEF JtagWriteWait, JtagStep, Go, Return, JtagPcs
  <2> QED BY <1>1, <1>2, <2>1 DEF JtagInv, JtagCall, JtagPcs
<1>14. CASE \/ JtagClose \/ UartRead \/ UartReadWait \/ UartReadEnd
            \/ UartWrite \/ UartWriteWait \/ UartWriteEnd \/ UartClose
  <2>1. jtag' = jtag /\ pc' \notin JtagPcs
    BY <1>14 DEF JtagClose, UartRead, UartReadWait, UartReadEnd, UartWrite, UartWriteWait, UartWriteEnd,
                 UartClose, UartStep, CloseEnds, Go, Return, JtagPcs
  <2> QED BY <1>1, <1>2, <2>1
<1>15. CASE Spin
  BY <1>1, <1>15 DEF Spin, progVars, JtagInv
<1> QED BY <1>5, <1>6, <1>7, <1>8, <1>9, <1>10, <1>11, <1>12, <1>13, <1>14, <1>15 DEF Program

LEMMA JtagCalls ==
  ASSUME FdInv, JtagInv, Call PROVE JtagInv'
<1>1. JtagOK(jtag) /\ JtagCall(pc, call, jtag) /\ DOMAIN jtag = DOMAIN Jtag0 /\ bound \in Bounds
  BY DEF JtagInv, JtagOK, FdInv
<1>2. ASSUME JtagOK(jtag'), pc' \notin JtagPcs PROVE JtagInv'
  BY <1>2 DEF JtagInv, JtagCall, JtagPcs
<1>3. ASSUME UNCHANGED <<jtag, pc, call>> PROVE JtagInv'
  BY <1>1, <1>3 DEF JtagInv
<1>4. ASSUME NEW i \in Used, NEW secs \in Timeouts, SetTimeout(i, secs) PROVE JtagInv'
  <2>1. jtag' = altera_avalon_jtag_uart_ioctl(jtag, secs) /\ UNCHANGED <<pc, call>>
    BY <1>4 DEF SetTimeout
  <2>2. DOMAIN jtag' = DOMAIN jtag /\ SameTx(jtag, jtag') /\ SameRx(jtag, jtag')
    BY <1>1, <2>1 DEF altera_avalon_jtag_uart_ioctl, SameTx, SameRx, Jtag0
  <2>3. JtagOK(jtag')
    BY <1>1, <2>2, JtagSame
  <2>4. JtagCall(pc, call, jtag')
    BY <1>1, <2>2, JtagCallSame DEF SameTx, SameRx
  <2> QED BY <2>1, <2>3, <2>4 DEF JtagInv
<1>5. ASSUME NEW i \in Used, NEW len \in Lens, ALT_READ(i, len) \/ ALT_WRITE(i, len) PROVE JtagInv'
  <2>1. jtag' = jtag /\ call' = [Idle EXCEPT !.fd = i, !.n = len]
    BY <1>5 DEF ALT_READ, ALT_WRITE
  <2>2. fds.dev[i] \in {"jtag", "uart"}
    <3>1. bound.devs \subseteq Devices
      BY <1>1, BoundOK
    <3>2. fds.dev[i] \in Devices /\ fds.dev[i] # "null"
      BY <1>5, <3>1 DEF Used, ALT_READ, ALT_WRITE, MayRead
    <3> QED BY <3>2 DEF Devices
  <2>3. pc' # "jtag_read_copy" /\ pc' # "jtag_write_copy"
    BY <1>5, <2>2 DEF ALT_READ, ALT_WRITE, Enter
  <2>4. call'.n \in Nat
    BY <2>1, BoundAssumption DEF Idle
  <2> QED BY <1>1, <2>1, <2>3, <2>4 DEF JtagInv, JtagCall
<1>6. ASSUME NEW i \in Used, ALT_CLOSE(i) PROVE JtagInv'
  <2>1. CASE fds.dev[i] = "null"
    BY <1>3, <1>6, <2>1 DEF ALT_CLOSE
  <2>2. CASE fds.dev[i] # "null"
    <3>1. jtag' = jtag /\ pc' = Enter[fds.dev[i]].close
      BY <1>6, <2>2 DEF ALT_CLOSE
    <3>2. fds.dev[i] \in {"jtag", "uart"}
      <4>1. bound.devs \subseteq Devices
        BY <1>1, BoundOK
      <4> QED BY <2>2, <4>1 DEF Used, Devices
    <3>3. pc' \notin JtagPcs
      BY <3>1, <3>2 DEF Enter, JtagPcs
    <3> QED BY <1>1, <1>2, <3>1, <3>3
  <2> QED BY <2>1, <2>2
<1>7. ASSUME NEW d, NEW nb, Open(d, nb) PROVE JtagInv'
  BY <1>3, <1>7 DEF Open
<1>8. ASSUME NEW i, NEW nb, Fcntl(i, nb) \/ Exclusive(i, nb) PROVE JtagInv'
  BY <1>3, <1>8 DEF Fcntl, Exclusive
<1>9. ASSUME AlarmStart(TICKS_PER_SECOND) \/ AlarmStop PROVE JtagInv'
  BY <1>3, <1>9 DEF AlarmStart, AlarmStop
<1> QED BY <1>4, <1>5, <1>6, <1>7, <1>8, <1>9 DEF Call

LEMMA JtagNext ==
  ASSUME FdInv, JtagInv, [Next]_vars PROVE JtagInv'
<1>1. JtagOK(jtag) /\ JtagCall(pc, call, jtag) /\ DOMAIN jtag = DOMAIN Jtag0
  BY DEF JtagInv, JtagOK
<1>2. CASE JtagIsr
  <2>1. UNCHANGED <<pc, call>> /\ (jtag' = jtag \/ jtag' = altera_avalon_jtag_uart_irq(jtag))
    BY <1>2 DEF JtagIsr, progVars
  <2>2. CASE jtag' = jtag
    BY <1>1, <2>1, <2>2 DEF JtagInv
  <2>3. CASE jtag' = altera_avalon_jtag_uart_irq(jtag)
    <3>1. /\ JtagOK(jtag') /\ jtag'.rx_out = jtag.rx_out /\ jtag'.tx_in = jtag.tx_in
          /\ JOff(jtag.rx_in, jtag.rx_out) <= JOff(jtag'.rx_in, jtag.rx_out)
          /\ JOff(jtag.tx_in, jtag'.tx_out) <= JOff(jtag.tx_in, jtag.tx_out)
      BY <1>1, <2>3, JtagIrqOK
    <3>2. /\ jtag.rx_in \in JSlots /\ jtag.rx_out \in JSlots /\ jtag.tx_in \in JSlots
          /\ jtag.tx_out \in JSlots /\ jtag'.rx_in \in JSlots /\ jtag'.tx_out \in JSlots
      BY <1>1, <3>1 DEF JtagOK, JtagTx, JtagRx
    <3>3. /\ JOff(jtag.rx_in, jtag.rx_out) \in Int /\ JOff(jtag'.rx_in, jtag.rx_out) \in Int
          /\ JOff(jtag.tx_in, jtag.tx_out) \in Int /\ JOff(jtag.tx_in, jtag'.tx_out) \in Int
      BY <3>2, JOffType
    <3>4. ASSUME pc = "jtag_read_copy"
          PROVE  /\ call.out = jtag'.rx_out /\ call.in \in JSlots
                 /\ JOff(call.in, jtag'.rx_out) <= JOff(jtag'.rx_in, jtag'.rx_out)
      <4>1. /\ call.out = jtag.rx_out /\ call.in \in JSlots
            /\ JOff(call.in, jtag.rx_out) <= JOff(jtag.rx_in, jtag.rx_out)
        BY <1>1, <3>4 DEF JtagCall
      <4>2. JOff(call.in, jtag.rx_out) \in Int
        BY <3>2, <4>1, JOffType
      <4> QED BY <3>1, <3>3, <4>1, <4>2
    <3>5. ASSUME pc = "jtag_write_copy"
          PROVE  /\ call.in = jtag'.tx_in /\ call.out \in JSlots
                 /\ JOff(jtag'.tx_in, jtag'.tx_out) <= JOff(jtag'.tx_in, call.out)
      <4>1. /\ call.in = jtag.tx_in /\ call.out \in JSlots
            /\ JOff(jtag.tx_in, jtag.tx_out) <= JOff(jtag.tx_in, call.out)
        BY <1>1, <3>5 DEF JtagCall
      <4>2. JOff(jtag.tx_in, call.out) \in Int
        BY <3>2, <4>1, JOffType
      <4> QED BY <3>1, <3>3, <4>1, <4>2
    <3>6. JtagCall(pc', call', jtag')
      BY <1>1, <2>1, <3>4, <3>5 DEF JtagCall
    <3> QED BY <3>1, <3>6 DEF JtagInv
  <2> QED BY <2>1, <2>2, <2>3
<1>3. CASE alt_avalon_timer_sc_irq
  <2>1. UNCHANGED <<pc, call>> /\ (jtag' = jtag \/ jtag' = altera_avalon_jtag_uart_timeout(jtag))
    BY <1>3 DEF alt_avalon_timer_sc_irq, Dispatch, progVars
  <2>2. DOMAIN jtag' = DOMAIN jtag /\ SameTx(jtag, jtag') /\ SameRx(jtag, jtag')
    BY <1>1, <2>1 DEF altera_avalon_jtag_uart_timeout, SameTx, SameRx, Jtag0
  <2>3. JtagOK(jtag')
    BY <1>1, <2>2, JtagSame
  <2>4. JtagCall(pc, call, jtag')
    BY <1>1, <2>2, JtagCallSame DEF SameTx, SameRx
  <2> QED BY <2>1, <2>3, <2>4 DEF JtagInv
<1>4. CASE HostSend
  <2>1. UNCHANGED <<pc, call>> /\ jtag' = HostSends(jtag)
    BY <1>4 DEF HostSend, Outside, progVars
  <2>2. JtagOK(jtag')
    BY <1>1, <2>1, HostSendsOK
  <2>3. /\ jtag'.rx_in = jtag.rx_in /\ jtag'.rx_out = jtag.rx_out
        /\ jtag'.tx_in = jtag.tx_in /\ jtag'.tx_out = jtag.tx_out
    BY <1>1, <2>1 DEF HostSends, Jtag0
  <2>4. JtagCall(pc, call, jtag')
    BY <1>1, <2>3, JtagCallSame
  <2> QED BY <2>1, <2>2, <2>4 DEF JtagInv
<1>5. CASE HostPoll
  <2>1. UNCHANGED <<pc, call>>
    BY <1>5 DEF HostPoll, Outside, progVars
  <2>2. CASE jtag.txfifo # << >>
    <3>1. jtag' = HostTakes(jtag)
      BY <1>5, <2>2 DEF HostPoll
    <3>2. JtagOK(jtag')
      BY <1>1, <2>2, <3>1, HostTakesOK
    <3>3. /\ jtag'.rx_in = jtag.rx_in /\ jtag'.rx_out = jtag.rx_out
          /\ jtag'.tx_in = jtag.tx_in /\ jtag'.tx_out = jtag.tx_out
      BY <1>1, <3>1 DEF HostTakes, Jtag0
    <3>4. JtagCall(pc, call, jtag')
      BY <1>1, <3>3, JtagCallSame
    <3> QED BY <2>1, <3>2, <3>4 DEF JtagInv
  <2>3. CASE jtag.txfifo = << >>
    <3>1. jtag' = [jtag EXCEPT !.ac = TRUE]
      BY <1>5, <2>3 DEF HostPoll
    <3>2. DOMAIN jtag' = DOMAIN jtag /\ SameTx(jtag, jtag') /\ SameRx(jtag, jtag')
      BY <1>1, <3>1 DEF SameTx, SameRx, Jtag0
    <3>3. JtagOK(jtag')
      BY <1>1, <3>2, JtagSame
    <3>4. JtagCall(pc, call, jtag')
      BY <1>1, <3>2, JtagCallSame DEF SameTx, SameRx
    <3> QED BY <2>1, <3>3, <3>4 DEF JtagInv
  <2> QED BY <2>2, <2>3
<1>6. CASE \/ Interrupt \/ UartIsr \/ UartIsrRest \/ IrqReturn \/ Tick \/ Plug \/ LineTake \/ UNCHANGED vars
           \/ \E bad \in BOOLEAN : LineBring(bad)
  <2>1. UNCHANGED <<jtag, pc, call>>
    BY <1>6 DEF Interrupt, UartIsr, UartIsrRest, IrqReturn, Tick, Plug, LineTake, LineBring, Outside,
                Dispatch, progVars, vars
  <2> QED BY <1>1, <2>1 DEF JtagInv
<1> QED BY <1>2, <1>3, <1>4, <1>5, <1>6, JtagCalls, JtagProgram DEF Next, Handlers, World

LEMMA JtagStart == ASSUME Init PROVE JtagInv
<1>1. jtag = Jtag0 /\ pc = "timer_init"
  BY DEF Init
<1>2. 0 \in JSlots /\ JSlots \subseteq Int
  BY JLen DEF JSlots
<1>3. JOff(0, 0) = 0
  BY DEF JOff
<1>4. \A s \in JSlots : ~(JOff(s, 0) < 0)
  BY <1>2, JOffIs, JLen DEF JSlots
<1>5. JtagTx(Jtag0)
  <2>1. Jtag0.tx_buf = [s \in JSlots |-> 0] /\ Jtag0.tx_in = 0 /\ Jtag0.tx_out = 0 /\ Jtag0.txfifo = << >>
        /\ Jtag0.to = 0 /\ Jtag0.written = 0
    BY DEF Jtag0
  <2>2. Jtag0.tx_buf \in [JSlots -> Int] /\ << >> \in Seq(Int) /\ Len(<< >>) = 0
    BY <2>1
  <2> QED BY <1>2, <1>3, <1>4, <2>1, <2>2 DEF JtagTx
<1>6. JtagRx(Jtag0)
  <2>1. Jtag0.rx_buf = [s \in JSlots |-> 0] /\ Jtag0.rx_in = 0 /\ Jtag0.rx_out = 0 /\ Jtag0.rxfifo = << >>
        /\ Jtag0.from = 0 /\ Jtag0.read = 0 /\ Jtag0.ok = TRUE
    BY DEF Jtag0
  <2>2. Jtag0.rx_buf \in [JSlots -> Int] /\ << >> \in Seq(Int) /\ Len(<< >>) = 0
    BY <2>1
  <2> QED BY <1>2, <1>3, <1>4, <2>1, <2>2 DEF JtagRx
<1> QED BY <1>1, <1>5, <1>6 DEF JtagInv, JtagOK, JtagCall, JtagPcs

-----------------------------------------------------------------------------
(***************************************************************************)
(* The rings of the UART, in the same way.                                 *)
(***************************************************************************)
UOff(i, j) == IF j <= i THEN i - j ELSE i - j + UART_BUF_LEN

LEMMA ULen == UART_BUF_LEN \in Nat \ {0, 1} /\ USlots = 0 .. UART_BUF_LEN - 1
  BY UartAssumption DEF USlots

LEMMA UOffIs ==
  ASSUME NEW i \in USlots, NEW j \in USlots
  PROVE  /\ (i - j) % UART_BUF_LEN = UOff(i, j)
         /\ UOff(i, j) \in Nat /\ UOff(i, j) < UART_BUF_LEN
<1> DEFINE x == i - j
<1>1. UART_BUF_LEN \in Nat \ {0} /\ i \in 0 .. UART_BUF_LEN - 1 /\ j \in 0 .. UART_BUF_LEN - 1
  BY ULen
<1>2. x \in Int /\ -UART_BUF_LEN <= x /\ x < UART_BUF_LEN /\ x < UART_BUF_LEN + UART_BUF_LEN /\ (x < 0 <=> ~(j <= i))
  BY <1>1
<1>3. /\ UOff(i, j) = (IF x < 0 THEN x + UART_BUF_LEN ELSE x)
      /\ UOff(i, j) \in Nat /\ UOff(i, j) < UART_BUF_LEN
  BY <1>1, <1>2 DEF UOff
<1> HIDE DEF x
<1>4. x % UART_BUF_LEN
        = (IF x < 0 THEN x + UART_BUF_LEN ELSE IF x < UART_BUF_LEN THEN x ELSE x - UART_BUF_LEN)
  BY <1>1, <1>2, ModNear
<1>5. x % UART_BUF_LEN = UOff(i, j)
  BY <1>2, <1>3, <1>4
<1> QED BY <1>3, <1>5 DEF x

LEMMA USum ==
  ASSUME NEW i \in USlots, NEW n \in 0 .. UART_BUF_LEN - 1
  PROVE  /\ (i + n) % UART_BUF_LEN = (IF i + n < UART_BUF_LEN THEN i + n ELSE (i + n) - UART_BUF_LEN)
         /\ (i + n) % UART_BUF_LEN \in USlots
         /\ UOff((i + n) % UART_BUF_LEN, i) = n
<1> DEFINE x == i + n
<1>1. UART_BUF_LEN \in Nat \ {0} /\ i \in 0 .. UART_BUF_LEN - 1
  BY ULen
<1>2. x \in Int /\ -UART_BUF_LEN <= x /\ x < UART_BUF_LEN + UART_BUF_LEN /\ ~(x < 0)
  BY <1>1
<1> HIDE DEF x
<1>3. /\ x % UART_BUF_LEN
           = (IF x < 0 THEN x + UART_BUF_LEN ELSE IF x < UART_BUF_LEN THEN x ELSE x - UART_BUF_LEN)
      /\ x % UART_BUF_LEN \in 0 .. UART_BUF_LEN - 1
  BY <1>1, <1>2, ModNear
<1>4. x % UART_BUF_LEN = IF x < UART_BUF_LEN THEN x ELSE x - UART_BUF_LEN
  BY <1>2, <1>3
<1> DEFINE y == x % UART_BUF_LEN
<1> HIDE DEF y
<1>5. y = (IF x < UART_BUF_LEN THEN x ELSE x - UART_BUF_LEN) /\ x = i + n
  BY <1>4 DEF x, y
<1>6. UOff(y, i) = n
  BY <1>1, <1>5 DEF UOff
<1>7. y \in USlots
  BY <1>3, ULen DEF y
<1> QED BY <1>4, <1>6, <1>7 DEF x, y

\* One step of either end of a ring.
LEMMA UStep ==
  ASSUME NEW i \in USlots, NEW j \in USlots
  PROVE  /\ UPlus(i) \in USlots /\ (UOff(i, j) = 0 <=> i = j)
         /\ UPlus(i) # j => UOff(UPlus(i), j) = UOff(i, j) + 1
         /\ UPlus(i) = j => UOff(UPlus(i), j) = 0
         /\ i # j => /\ UOff(i, UPlus(j)) = UOff(i, j) - 1
                     /\ \A s \in USlots : s # j => UOff(s, UPlus(j)) = UOff(s, j) - 1
                     /\ UOff(j, UPlus(j)) = UART_BUF_LEN - 1
<1>1. UART_BUF_LEN \in Nat \ {0, 1} /\ i \in 0 .. UART_BUF_LEN - 1 /\ j \in 0 .. UART_BUF_LEN - 1
  BY ULen
<1>2. 1 \in 0 .. UART_BUF_LEN - 1
  BY <1>1
<1>3. /\ UPlus(i) = (IF i + 1 < UART_BUF_LEN THEN i + 1 ELSE (i + 1) - UART_BUF_LEN)
      /\ UPlus(j) = (IF j + 1 < UART_BUF_LEN THEN j + 1 ELSE (j + 1) - UART_BUF_LEN)
      /\ UPlus(i) \in USlots
  BY <1>2, USum DEF UPlus
<1>4. UOff(i, j) = 0 <=> i = j
  BY <1>1 DEF UOff
<1>5. /\ UPlus(i) # j => UOff(UPlus(i), j) = UOff(i, j) + 1
      /\ UPlus(i) = j => UOff(UPlus(i), j) = 0
  BY <1>1, <1>3 DEF UOff
<1>6. ASSUME NEW s \in USlots, s # j PROVE UOff(s, UPlus(j)) = UOff(s, j) - 1
  <2>1. s \in 0 .. UART_BUF_LEN - 1
    BY ULen
  <2> QED BY <1>1, <1>3, <1>6, <2>1 DEF UOff
<1>7. UOff(j, UPlus(j)) = UART_BUF_LEN - 1
  BY <1>1, <1>3 DEF UOff
<1> QED BY <1>3, <1>4, <1>5, <1>6, <1>7

LEMMA UInj ==
  ASSUME NEW s \in USlots, NEW t \in USlots, NEW j \in USlots, UOff(s, j) = UOff(t, j)
  PROVE  s = t
<1>1. UART_BUF_LEN \in Nat \ {0, 1} /\ s \in 0 .. UART_BUF_LEN - 1 /\ j \in 0 .. UART_BUF_LEN - 1
      /\ t \in 0 .. UART_BUF_LEN - 1
  BY ULen
<1> QED BY <1>1 DEF UOff

LEMMA URingIs ==
  ASSUME NEW buf \in [USlots -> Int], NEW start \in USlots, NEW end \in USlots
  PROVE  /\ URing(buf, start, end) \in Seq(Int)
         /\ Len(URing(buf, start, end)) = UOff(end, start)
         /\ \A i \in 1 .. UOff(end, start) :
              /\ (start + i - 1) % UART_BUF_LEN \in USlots
              /\ UOff((start + i - 1) % UART_BUF_LEN, start) = i - 1
              /\ URing(buf, start, end)[i] = buf[(start + i - 1) % UART_BUF_LEN]
<1> DEFINE n == UOff(end, start)
           r == [i \in 1 .. n |-> buf[(start + i - 1) % UART_BUF_LEN]]
<1>1. n \in Nat /\ n < UART_BUF_LEN /\ UART_BUF_LEN \in Nat
  BY UOffIs, ULen
<1>2. URing(buf, start, end) = r
  BY UOffIs DEF URing
<1>3. ASSUME NEW i \in 1 .. n
      PROVE  /\ (start + i - 1) % UART_BUF_LEN \in USlots
             /\ UOff((start + i - 1) % UART_BUF_LEN, start) = i - 1
  <2> HIDE DEF n
  <2>1. i - 1 \in 0 .. UART_BUF_LEN - 1 /\ i \in Int
    BY <1>1
  <2>2. start \in Int
    BY ULen
  <2>3. start + i - 1 = start + (i - 1)
    BY <2>1, <2>2
  <2> QED BY <2>1, <2>3, USum
<1>4. r \in [1 .. n -> Int]
  BY <1>3
<1>5. r \in Seq(Int) /\ Len(r) = n
  <2> HIDE DEF r, n
  <2> QED BY <1>1, <1>4
<1>6. \A i \in 1 .. n : r[i] = buf[(start + i - 1) % UART_BUF_LEN]
  OBVIOUS
<1> HIDE DEF r, n
<1>7. /\ URing(buf, start, end) \in Seq(Int)
      /\ Len(URing(buf, start, end)) = n
  BY <1>2, <1>5
<1>8. \A i \in 1 .. n : URing(buf, start, end)[i] = buf[(start + i - 1) % UART_BUF_LEN]
  BY <1>2, <1>6
<1> QED BY <1>3, <1>7, <1>8 DEF n

(***************************************************************************)
(* Both directions of the UART.  A stored character is newer than those    *)
(* before it also when the handler has stored into a full ring: only that  *)
(* none is missing has to be given up then.                                *)
(***************************************************************************)
InReg(us) == IF us.txdata = 0 THEN 0 ELSE 1

UartTx(us) ==
  /\ us.tx_start \in USlots /\ us.tx_end \in USlots /\ us.tx_buf \in [USlots -> Int]
  /\ us.to \in Nat /\ us.written \in Int
  /\ us.txdata # 0 => us.txdata = us.to + 1
  /\ \A s \in USlots : UOff(s, us.tx_start) < UOff(us.tx_end, us.tx_start) =>
       us.tx_buf[s] = us.to + InReg(us) + 1 + UOff(s, us.tx_start)
  /\ us.to + InReg(us) + UOff(us.tx_end, us.tx_start) = us.written

InRing(us, s) == UOff(s, us.rx_start) < UOff(us.rx_end, us.rx_start)

UartRx(us) ==
  /\ us.rx_start \in USlots /\ us.rx_end \in USlots /\ us.rx_buf \in [USlots -> Int]
  /\ us.from \in Int /\ us.rxdata = us.from /\ us.last \in Int /\ us.lost \subseteq Int
  /\ us.last <= us.from /\ (us.rrdy => us.last < us.from)
  /\ \A c \in us.lost : c <= us.from /\ (us.rrdy => c < us.from)
  /\ \A s \in USlots : InRing(us, s) =>
       us.last < us.rx_buf[s] /\ us.rx_buf[s] <= us.from /\ (us.rrdy => us.rx_buf[s] < us.from)
  /\ \A s, t \in USlots : InRing(us, s) /\ InRing(us, t) /\ UOff(s, us.rx_start) < UOff(t, us.rx_start) =>
       us.rx_buf[s] < us.rx_buf[t]
  /\ ~us.wrapped => \A c \in Int :
       (us.last < c /\ c <= us.from /\ c \notin us.lost) <=>
         (us.rrdy /\ c = us.from) \/ \E s \in USlots : InRing(us, s) /\ us.rx_buf[s] = c

UartOK(us) == DOMAIN us = DOMAIN Uart0 /\ us.ok = TRUE /\ UartTx(us) /\ UartRx(us)

SameUTx(us, r) ==
  /\ r.tx_start = us.tx_start /\ r.tx_end = us.tx_end /\ r.tx_buf = us.tx_buf
  /\ r.txdata = us.txdata /\ r.to = us.to /\ r.written = us.written

SameURx(us, r) ==
  /\ r.rx_start = us.rx_start /\ r.rx_end = us.rx_end /\ r.rx_buf = us.rx_buf
  /\ r.from = us.from /\ r.rxdata = us.rxdata /\ r.last = us.last /\ r.lost = us.lost
  /\ r.rrdy = us.rrdy /\ r.wrapped = us.wrapped

LEMMA UTxSame == ASSUME NEW us, NEW r, UartTx(us), SameUTx(us, r) PROVE UartTx(r)
  BY DEF UartTx, SameUTx, InReg

LEMMA URxSame == ASSUME NEW us, NEW r, UartRx(us), SameURx(us, r) PROVE UartRx(r)
<1>1. \A s : InRing(r, s) <=> InRing(us, s)
  BY DEF SameURx, InRing
<1> QED BY <1>1 DEF UartRx, SameURx

LEMMA WriteOneOK ==
  ASSUME NEW us, UartOK(us), ~TxFull(us)
  PROVE  UartOK(WriteOne(us))
<1> DEFINE r == WriteOne(us)
           start == us.tx_start
           end == us.tx_end
           k == InReg(us)
           D == UOff(end, start)
           buf == [us.tx_buf EXCEPT ![end] = us.written + 1]
<1>1. /\ DOMAIN r = DOMAIN Uart0 /\ r.ok = us.ok /\ SameURx(us, r) /\ r.tx_buf = buf
      /\ r.written = us.written + 1 /\ r.tx_end = UPlus(end)
      /\ r.tx_start = start /\ r.txdata = us.txdata /\ r.to = us.to
  BY DEF UartOK, WriteOne, SameURx, Uart0
<1>2. /\ start \in USlots /\ end \in USlots /\ us.tx_buf \in [USlots -> Int] /\ us.to \in Nat /\ us.written \in Int
      /\ (us.txdata # 0 => us.txdata = us.to + 1) /\ us.to + k + D = us.written
  BY DEF UartOK, UartTx
<1>3. \A s \in USlots : UOff(s, start) < D => us.tx_buf[s] = us.to + k + 1 + UOff(s, start)
  BY DEF UartOK, UartTx
<1>4. UPlus(end) \in USlots /\ UOff(UPlus(end), start) = D + 1
  BY <1>2, UStep DEF TxFull
<1>5. D \in Int /\ k \in Int
  BY <1>2, UOffIs DEF InReg
<1>6. InReg(r) = k
  BY <1>1 DEF InReg
<1>7. ASSUME NEW s \in USlots, UOff(s, start) < D + 1
      PROVE  buf[s] = us.to + k + 1 + UOff(s, start)
  <2>1. UOff(s, start) \in Int
    BY <1>2, UOffIs
  <2>2. CASE s = end
    <3>1. buf[s] = us.written + 1 /\ UOff(s, start) = D
      BY <1>2, <2>2
    <3> HIDE DEF D, k, buf, start
    <3> QED BY <1>2, <1>5, <3>1
  <2>3. CASE s # end
    <3>1. UOff(s, start) # D
      BY <1>2, <2>3, UInj
    <3>2. UOff(s, start) < D
      <4> HIDE DEF D
      <4> QED BY <1>5, <1>7, <2>1, <3>1
    <3> QED BY <1>2, <1>3, <2>3, <3>2
  <2> QED BY <2>2, <2>3
<1>8. buf \in [USlots -> Int] /\ us.written + 1 \in Int
  BY <1>2
<1>9. us.to + k + (D + 1) = us.written + 1
  <2> HIDE DEF D, k
  <2> QED BY <1>2, <1>5
<1> HIDE DEF r, buf
<1>10. UartTx(r)
  <2> HIDE DEF k
  <2> QED BY <1>1, <1>2, <1>4, <1>6, <1>7, <1>8, <1>9 DEF UartTx
<1> QED BY <1>1, <1>10, URxSame DEF UartOK, r

LEMMA LineTakesOK ==
  ASSUME NEW us, UartOK(us), us.txdata # 0
  PROVE  UartOK(LineTakes(us))
<1> DEFINE r == LineTakes(us)
<1>1. us.txdata = us.to + 1 /\ us.ok = TRUE /\ us.to \in Nat /\ InReg(us) = 1
  BY DEF UartOK, UartTx, InReg
<1>2. /\ DOMAIN r = DOMAIN Uart0 /\ r.ok = TRUE /\ SameURx(us, r) /\ r.txdata = 0 /\ r.to = us.to + 1
      /\ r.tx_start = us.tx_start /\ r.tx_end = us.tx_end /\ r.tx_buf = us.tx_buf /\ r.written = us.written
  BY <1>1 DEF UartOK, LineTakes, SameURx, Uart0
<1> HIDE DEF r
<1>3. InReg(r) = 0 /\ r.to + InReg(r) = us.to + InReg(us) /\ r.to \in Nat
  BY <1>1, <1>2 DEF InReg
<1>4. UartTx(r)
  BY <1>2, <1>3 DEF UartOK, UartTx
<1> QED BY <1>2, <1>4, URxSame DEF UartOK, r

LEMMA TxIrqOK ==
  ASSUME NEW us, UartOK(us), us.txdata = 0
  PROVE  LET r == altera_avalon_uart_txirq(us)
         IN  UartOK(r) /\ SameURx(us, r)
<1> DEFINE start == us.tx_start
           end == us.tx_end
           v == [us EXCEPT !.txdata = us.tx_buf[start], !.tx_start = UPlus(@), !.ctrl = @ \cup {"TRDY"}]
           sent == IF start = end THEN us ELSE v
           r == altera_avalon_uart_txirq(us)
           D == UOff(end, start)
<1>1. DOMAIN us = DOMAIN Uart0 /\ us.ok = TRUE /\ UartTx(us) /\ UartRx(us)
  BY DEF UartOK
<1>2. UartOK(sent) /\ SameURx(us, sent)
  <2>1. CASE start = end
    BY <2>1 DEF SameURx
  <2>2. CASE start # end
    <3>1. /\ DOMAIN v = DOMAIN Uart0 /\ v.ok = us.ok /\ SameURx(us, v) /\ v.txdata = us.tx_buf[start]
          /\ v.tx_start = UPlus(start) /\ v.tx_end = end /\ v.tx_buf = us.tx_buf
          /\ v.to = us.to /\ v.written = us.written
      BY <1>1 DEF SameURx, Uart0
    <3>2. /\ start \in USlots /\ end \in USlots /\ us.tx_buf \in [USlots -> Int] /\ us.to \in Nat
          /\ us.written \in Int /\ InReg(us) = 0
          /\ us.to + 0 + D = us.written
      BY <1>1 DEF UartTx, InReg
    <3>3. \A s \in USlots : UOff(s, start) < D => us.tx_buf[s] = us.to + 0 + 1 + UOff(s, start)
      BY <1>1, <3>2 DEF UartTx
    <3>4. D \in Nat /\ D # 0 /\ UOff(start, start) = 0
      BY <2>2, <3>2, UOffIs, UStep
    <3>5. us.tx_buf[start] = us.to + 0 + 1 + 0
      BY <3>2, <3>3, <3>4
    <3> HIDE DEF v
    <3>6. v.txdata = us.to + 1 /\ v.txdata # 0 /\ InReg(v) = 1
      BY <3>1, <3>2, <3>5 DEF InReg
    <3>7. UPlus(start) \in USlots /\ UOff(end, UPlus(start)) = D - 1
      BY <2>2, <3>2, UStep
    <3>8. ASSUME NEW s \in USlots, UOff(s, UPlus(start)) < D - 1
          PROVE  us.tx_buf[s] = us.to + 1 + 1 + UOff(s, UPlus(start))
      <4> DEFINE a == UOff(s, start)
                 b == UOff(s, UPlus(start))
      <4>1. a \in Int /\ D \in Int /\ D < UART_BUF_LEN
        BY <3>2, UOffIs
      <4>2. s # start
        <5>1. UOff(start, UPlus(start)) = UART_BUF_LEN - 1
          BY <2>2, <3>2, UStep
        <5>2. ~(UART_BUF_LEN - 1 < D - 1)
          <6> HIDE DEF D
          <6> QED BY <4>1, ULen
        <5> QED BY <3>8, <5>1, <5>2
      <4>3. b = a - 1
        BY <2>2, <3>2, <4>2, UStep
      <4>4. b < D - 1
        BY <3>8
      <4> HIDE DEF b
      <4>5. a < D
        <5> HIDE DEF a, D
        <5> QED BY <4>1, <4>3, <4>4
      <4>6. us.tx_buf[s] = us.to + 0 + 1 + a
        BY <3>3, <4>5
      <4> HIDE DEF a
      <4>7. us.tx_buf[s] = us.to + 1 + 1 + b
        BY <3>2, <4>1, <4>3, <4>6
      <4> QED BY <4>7 DEF b
    <3>9. us.to + 1 + (D - 1) = us.written
      <4> HIDE DEF D
      <4> QED BY <3>2, <3>4
    <3>10. UartTx(v)
      BY <3>1, <3>2, <3>6, <3>7, <3>8, <3>9 DEF UartTx
    <3>11. UartOK(v)
      BY <1>1, <3>1, <3>10, URxSame DEF UartOK
    <3> QED BY <2>2, <3>1, <3>11
  <2> QED BY <2>1, <2>2
<1>3. r = IF sent.tx_start = sent.tx_end THEN [sent EXCEPT !.ctrl = @ \ {"TRDY", "DCTS"}] ELSE sent
  BY DEF altera_avalon_uart_txirq
<1> HIDE DEF r, sent
<1>4. /\ DOMAIN r = DOMAIN sent /\ r.ok = sent.ok /\ SameUTx(sent, r) /\ SameURx(sent, r)
  BY <1>2, <1>3 DEF UartOK, SameUTx, SameURx, Uart0
<1>5. UartOK(r)
  BY <1>2, <1>4, UTxSame, URxSame DEF UartOK
<1>6. SameURx(us, r)
  BY <1>2, <1>4 DEF SameURx
<1> QED BY <1>5, <1>6 DEF r

LEMMA ReadOneOK ==
  ASSUME NEW us, UartOK(us), us.rx_start # us.rx_end
  PROVE  UartOK(ReadOne(us))
<1> DEFINE r == ReadOne(us)
           start == us.rx_start
           end == us.rx_end
           D == UOff(end, start)
           x == us.rx_buf[start]
<1>1. DOMAIN us = DOMAIN Uart0 /\ us.ok = TRUE /\ UartTx(us) /\ UartRx(us)
  BY DEF UartOK
<1>2. /\ start \in USlots /\ end \in USlots /\ us.rx_buf \in [USlots -> Int] /\ us.from \in Int
      /\ us.rxdata = us.from /\ us.last \in Int /\ us.lost \subseteq Int
  BY <1>1 DEF UartRx
<1>3. D \in Nat /\ D # 0 /\ UOff(start, start) = 0
  BY <1>2, UOffIs, UStep
<1>4. InRing(us, start)
  BY <1>3 DEF InRing
<1>5. x \in Int /\ us.last < x /\ x <= us.from /\ (us.rrdy => x < us.from)
  BY <1>1, <1>2, <1>4 DEF UartRx
<1>6. /\ DOMAIN r = DOMAIN Uart0 /\ r.ok = TRUE /\ SameUTx(us, r) /\ r.last = x /\ r.rx_start = UPlus(start)
      /\ r.rx_end = end /\ r.rx_buf = us.rx_buf /\ r.from = us.from /\ r.rxdata = us.rxdata
      /\ r.lost = us.lost /\ r.rrdy = us.rrdy /\ r.wrapped = us.wrapped
  BY <1>1, <1>5 DEF ReadOne, SameUTx, Uart0
<1>7. /\ UPlus(start) \in USlots /\ UOff(end, UPlus(start)) = D - 1
      /\ \A s \in USlots : s # start => UOff(s, UPlus(start)) = UOff(s, start) - 1
      /\ UOff(start, UPlus(start)) = UART_BUF_LEN - 1
  BY <1>2, UStep
<1> HIDE DEF r
<1>8. ASSUME NEW s \in USlots
      PROVE  /\ InRing(r, s) <=> InRing(us, s) /\ s # start
             /\ s # start => UOff(s, UPlus(start)) = UOff(s, start) - 1
             /\ UOff(s, start) \in Nat
             /\ s # start => UOff(s, start) > 0
  <2>1. InRing(r, s) <=> UOff(s, UPlus(start)) < D - 1
    BY <1>6, <1>7 DEF InRing
  <2>2. InRing(us, s) <=> UOff(s, start) < D
    BY DEF InRing
  <2>3. UOff(s, start) \in Nat /\ D < UART_BUF_LEN
    BY <1>2, UOffIs
  <2>4. CASE s = start
    <3>1. ~(UART_BUF_LEN - 1 < D - 1)
      <4> HIDE DEF D
      <4> QED BY <1>3, <2>3, ULen
    <3>3. UOff(s, UPlus(start)) = UART_BUF_LEN - 1
      BY <1>7, <2>4
    <3>2. ~InRing(r, s)
      BY <2>1, <3>1, <3>3
    <3> QED BY <2>3, <2>4, <3>2
  <2>5. CASE s # start
    <3>1. UOff(s, UPlus(start)) = UOff(s, start) - 1
      BY <1>7, <2>5
    <3>2. UOff(s, start) # 0
      BY <1>2, <2>5, UStep
    <3> HIDE DEF D, start
    <3> QED BY <1>3, <2>1, <2>2, <2>3, <2>5, <3>1, <3>2
  <2> QED BY <2>4, <2>5
<1>9. ASSUME NEW s \in USlots, InRing(r, s)
      PROVE  x < us.rx_buf[s] /\ us.rx_buf[s] <= us.from /\ (us.rrdy => us.rx_buf[s] < us.from)
  <2>1. InRing(us, s) /\ UOff(start, start) < UOff(s, start)
    BY <1>3, <1>8, <1>9
  <2> QED BY <1>1, <1>2, <1>4, <2>1 DEF UartRx
<1>10. ASSUME NEW s \in USlots, NEW t \in USlots, InRing(r, s), InRing(r, t),
              UOff(s, UPlus(start)) < UOff(t, UPlus(start))
       PROVE  us.rx_buf[s] < us.rx_buf[t]
  <2>1. InRing(us, s) /\ InRing(us, t) /\ s # start /\ t # start
    BY <1>8, <1>10
  <2>2. /\ UOff(s, UPlus(start)) = UOff(s, start) - 1 /\ UOff(t, UPlus(start)) = UOff(t, start) - 1
        /\ UOff(s, start) \in Int /\ UOff(t, start) \in Int
    BY <1>8, <2>1
  <2>3. UOff(s, start) < UOff(t, start)
    BY <1>10, <2>2
  <2> QED BY <1>1, <2>1, <2>3 DEF UartRx
<1>11. ASSUME ~us.wrapped, NEW c \in Int
       PROVE  (x < c /\ c <= us.from /\ c \notin us.lost) <=>
                (us.rrdy /\ c = us.from) \/ \E s \in USlots : InRing(r, s) /\ us.rx_buf[s] = c
  <2>1. (us.last < c /\ c <= us.from /\ c \notin us.lost) <=>
          (us.rrdy /\ c = us.from) \/ \E s \in USlots : InRing(us, s) /\ us.rx_buf[s] = c
    BY <1>1, <1>11 DEF UartRx
  <2>2. ASSUME x < c, c <= us.from, c \notin us.lost
        PROVE  (us.rrdy /\ c = us.from) \/ \E s \in USlots : InRing(r, s) /\ us.rx_buf[s] = c
    <3>1. us.last < c
      BY <1>2, <1>5, <2>2
    <3>2. CASE us.rrdy /\ c = us.from
      BY <3>2
    <3>3. ASSUME NEW s \in USlots, InRing(us, s), us.rx_buf[s] = c
          PROVE  \E t \in USlots : InRing(r, t) /\ us.rx_buf[t] = c
      <4>1. s # start
        BY <1>5, <2>2, <3>3
      <4> QED BY <1>8, <3>3, <4>1
    <3> QED BY <2>1, <2>2, <3>1, <3>2, <3>3
  <2>3. ASSUME us.rrdy, c = us.from PROVE x < c /\ c <= us.from /\ c \notin us.lost
    BY <1>5, <2>1, <2>3
  <2>4. ASSUME NEW s \in USlots, InRing(r, s), us.rx_buf[s] = c
        PROVE  x < c /\ c <= us.from /\ c \notin us.lost
    <3>1. InRing(us, s)
      BY <1>8, <2>4
    <3> QED BY <1>9, <2>1, <2>4, <3>1
  <2> QED BY <2>2, <2>3, <2>4
<1>12. UartRx(r)
  <2>1. \A c \in r.lost : c <= r.from /\ (r.rrdy => c < r.from)
    BY <1>1, <1>6 DEF UartRx
  <2> QED BY <1>2, <1>5, <1>6, <1>7, <1>9, <1>10, <1>11, <2>1 DEF UartRx
<1> QED BY <1>1, <1>6, <1>12, UTxSame DEF UartOK, r

LEMMA LineBringsOK ==
  ASSUME NEW us, UartOK(us), NEW bad
  PROVE  LET r == LineBrings(us, bad)
         IN  UartOK(r) /\ SameUTx(us, r) /\ r.rrdy
<1> DEFINE r == LineBrings(us, bad)
<1>1. DOMAIN us = DOMAIN Uart0 /\ us.ok = TRUE /\ UartTx(us) /\ UartRx(us)
  BY DEF UartOK
<1>2. /\ DOMAIN r = DOMAIN Uart0 /\ r.ok = TRUE /\ SameUTx(us, r) /\ r.from = us.from + 1
      /\ r.rxdata = us.from + 1 /\ r.rrdy = TRUE
      /\ r.lost = (IF us.rrdy THEN us.lost \cup {us.rxdata} ELSE us.lost)
      /\ r.rx_start = us.rx_start /\ r.rx_end = us.rx_end /\ r.rx_buf = us.rx_buf
      /\ r.last = us.last /\ r.wrapped = us.wrapped
  BY <1>1 DEF LineBrings, SameUTx, Uart0
<1>3. /\ us.rx_start \in USlots /\ us.rx_end \in USlots /\ us.rx_buf \in [USlots -> Int] /\ us.from \in Int
      /\ us.rxdata = us.from /\ us.last \in Int /\ us.lost \subseteq Int
      /\ us.last <= us.from /\ (us.rrdy => us.last < us.from)
  BY <1>1 DEF UartRx
<1> HIDE DEF r
<1>4. \A s : InRing(r, s) <=> InRing(us, s)
  BY <1>2 DEF InRing
<1>5. \A c \in us.lost : c <= us.from /\ c \in Int /\ (us.rrdy => c < us.from)
  BY <1>1 DEF UartRx
<1>6. \A s \in USlots : InRing(us, s) =>
        /\ us.rx_buf[s] \in Int /\ us.last < us.rx_buf[s] /\ us.rx_buf[s] <= us.from
        /\ us.rrdy => us.rx_buf[s] < us.from
  BY <1>1 DEF UartRx
<1>7. r.lost \subseteq Int /\ \A c \in r.lost : c <= us.from /\ c < us.from + 1
  <2>1. \A c \in r.lost : c \in us.lost \/ c = us.from
    BY <1>2, <1>3
  <2> QED BY <1>3, <1>5, <2>1
<1>8. ASSUME ~us.wrapped, NEW c \in Int
      PROVE  (us.last < c /\ c <= us.from + 1 /\ c \notin r.lost) <=>
               c = us.from + 1 \/ \E s \in USlots : InRing(us, s) /\ us.rx_buf[s] = c
  <2>1. (us.last < c /\ c <= us.from /\ c \notin us.lost) <=>
          (us.rrdy /\ c = us.from) \/ \E s \in USlots : InRing(us, s) /\ us.rx_buf[s] = c
    BY <1>1, <1>8 DEF UartRx
  <2>2. CASE c = us.from + 1
    BY <1>3, <1>7, <2>2
  <2>3. CASE c # us.from + 1 /\ us.rrdy /\ c = us.from
    <3>1. c \in r.lost
      BY <1>2, <1>3, <2>3
    <3>2. ~ \E s \in USlots : InRing(us, s) /\ us.rx_buf[s] = c
      BY <1>3, <1>6, <2>3
    <3> QED BY <2>3, <3>1, <3>2
  <2>4. CASE c # us.from + 1 /\ ~(us.rrdy /\ c = us.from)
    <3>1. c \in r.lost <=> c \in us.lost
      BY <1>2, <1>3, <2>4
    <3>2. c <= us.from + 1 <=> c <= us.from
      BY <1>3, <2>4
    <3> QED BY <2>1, <2>4, <3>1, <3>2
  <2> QED BY <2>2, <2>3, <2>4
<1>9. UartRx(r)
  <2>1. /\ us.from + 1 \in Int /\ us.last <= us.from + 1 /\ us.last < us.from + 1
    BY <1>3
  <2>2. \A s \in USlots : InRing(r, s) =>
          us.last < us.rx_buf[s] /\ us.rx_buf[s] <= us.from + 1 /\ us.rx_buf[s] < us.from + 1
    BY <1>3, <1>4, <1>6
  <2>3. \A c \in r.lost : c <= us.from + 1 /\ c < us.from + 1
    BY <1>3, <1>7
  <2>4. \A s, t \in USlots : InRing(r, s) /\ InRing(r, t) /\ UOff(s, us.rx_start) < UOff(t, us.rx_start) =>
          us.rx_buf[s] < us.rx_buf[t]
    BY <1>1, <1>4 DEF UartRx
  <2>5. ~us.wrapped => \A c \in Int :
          (us.last < c /\ c <= us.from + 1 /\ c \notin r.lost) <=>
            (r.rrdy /\ c = us.from + 1) \/ \E s \in USlots : InRing(r, s) /\ us.rx_buf[s] = c
    BY <1>2, <1>4, <1>8
  <2> QED BY <1>2, <1>3, <1>7, <2>1, <2>2, <2>3, <2>4, <2>5 DEF UartRx
<1> QED BY <1>1, <1>2, <1>9, UTxSame DEF UartOK, r

LEMMA RxIrqOK ==
  ASSUME NEW us, UartOK(us), us.rrdy
  PROVE  LET r == altera_avalon_uart_rxirq(us)
         IN  UartOK(r) /\ SameUTx(us, r)
<1> DEFINE r == altera_avalon_uart_rxirq(us)
           start == us.rx_start
           end == us.rx_end
           D == UOff(end, start)
           buf == [us.rx_buf EXCEPT ![end] = us.rxdata]
<1>1. DOMAIN us = DOMAIN Uart0 /\ us.ok = TRUE /\ UartTx(us) /\ UartRx(us)
  BY DEF UartOK
<1>2. /\ DOMAIN r = DOMAIN Uart0 /\ r.ok = TRUE /\ SameUTx(us, r) /\ r.rx_buf = buf
      /\ r.rx_end = UPlus(end) /\ r.rrdy = FALSE /\ (r.wrapped <=> us.wrapped \/ UPlus(end) = start)
      /\ r.rx_start = start /\ r.from = us.from /\ r.rxdata = us.rxdata /\ r.last = us.last /\ r.lost = us.lost
  BY <1>1 DEF altera_avalon_uart_rxirq, SameUTx, Uart0
<1>3. /\ start \in USlots /\ end \in USlots /\ us.rx_buf \in [USlots -> Int] /\ us.from \in Int
      /\ us.rxdata = us.from /\ us.last \in Int /\ us.lost \subseteq Int
      /\ us.last <= us.from /\ us.last < us.from
  BY <1>1 DEF UartRx
<1> HIDE DEF r
<1>4. \A c \in us.lost : c <= us.from /\ c < us.from
  BY <1>1 DEF UartRx
<1>5. \A s \in USlots : InRing(us, s) =>
        us.last < us.rx_buf[s] /\ us.rx_buf[s] <= us.from /\ us.rx_buf[s] < us.from
  BY <1>1 DEF UartRx
<1>6. UPlus(end) \in USlots /\ buf \in [USlots -> Int] /\ D \in Nat
  BY <1>3, UStep, UOffIs
<1>7. CASE UPlus(end) = start
  <2>1. \A s \in USlots : ~InRing(r, s)
    <3> SUFFICES ASSUME NEW s \in USlots PROVE ~InRing(r, s)
      OBVIOUS
    <3>1. UOff(UPlus(end), start) = 0 /\ UOff(s, start) \in Nat
      BY <1>3, <1>7, UStep, UOffIs
    <3> QED BY <1>2, <3>1 DEF InRing
  <2>2. r.wrapped
    BY <1>2, <1>7
  <2>3. UartRx(r)
    BY <1>2, <1>3, <1>4, <1>6, <2>1, <2>2 DEF UartRx
  <2> QED BY <1>1, <1>2, <2>3, UTxSame DEF UartOK, r
<1>8. CASE UPlus(end) # start
  <2>1. UOff(UPlus(end), start) = D + 1
    BY <1>3, <1>8, UStep
  <2>2. ASSUME NEW s \in USlots
        PROVE  /\ InRing(r, s) <=> InRing(us, s) \/ s = end
               /\ UOff(s, start) \in Nat
               /\ InRing(us, s) => s # end /\ UOff(s, start) < D
               /\ s = end => UOff(s, start) = D
               /\ s # end => buf[s] = us.rx_buf[s]
               /\ s = end => buf[s] = us.from
    <3>1. UOff(s, start) \in Nat
      BY <1>3, UOffIs
    <3>2. (InRing(us, s) <=> UOff(s, start) < D) /\ (InRing(r, s) <=> UOff(s, start) < D + 1)
      BY <1>2, <2>1 DEF InRing
    <3>3. s = end <=> UOff(s, start) = D
      BY <1>3, UInj
    <3>4. buf[s] = IF s = end THEN us.from ELSE us.rx_buf[s]
      BY <1>3
    <3> HIDE DEF D, start, end, buf
    <3> QED BY <1>6, <3>1, <3>2, <3>3, <3>4
  <2>3. ASSUME NEW s \in USlots, InRing(r, s) PROVE us.last < buf[s] /\ buf[s] <= us.from
    BY <1>3, <1>5, <2>2, <2>3
  <2>4. ASSUME NEW s \in USlots, NEW t \in USlots, InRing(r, s), InRing(r, t), UOff(s, start) < UOff(t, start)
        PROVE  buf[s] < buf[t]
    <3>1. UOff(s, start) \in Nat /\ UOff(t, start) \in Nat
      BY <2>2
    <3>2. s # end /\ InRing(us, s)
      <4>1. CASE t = end
        <5>1. UOff(s, start) # D
          BY <1>6, <2>2, <2>4, <3>1, <4>1
        <5> QED BY <2>2, <2>4, <5>1
      <4>2. CASE t # end
        <5>1. UOff(t, start) < D
          BY <2>2, <2>4, <4>2
        <5>2. UOff(s, start) # D
          <6> HIDE DEF D
          <6> QED BY <1>6, <2>4, <3>1, <5>1
        <5> QED BY <2>2, <2>4, <5>2
      <4> QED BY <4>1, <4>2
    <3>3. CASE t = end
      BY <1>5, <2>2, <3>2, <3>3
    <3>4. CASE t # end
      <4>1. InRing(us, t) /\ buf[s] = us.rx_buf[s] /\ buf[t] = us.rx_buf[t]
        BY <2>2, <2>4, <3>2, <3>4
      <4>2. us.rx_buf[s] < us.rx_buf[t]
        BY <1>1, <2>4, <3>2, <4>1 DEF UartRx
      <4> QED BY <4>1, <4>2
    <3> QED BY <3>3, <3>4
  <2>5. ASSUME ~r.wrapped, NEW c \in Int
        PROVE  (us.last < c /\ c <= us.from /\ c \notin us.lost) <=>
                 \E s \in USlots : InRing(r, s) /\ buf[s] = c
    <3>1. (us.last < c /\ c <= us.from /\ c \notin us.lost) <=>
            c = us.from \/ \E s \in USlots : InRing(us, s) /\ us.rx_buf[s] = c
      <4>1. ~us.wrapped
        BY <1>2, <2>5
      <4> QED BY <1>1, <4>1 DEF UartRx
    <3>2. ASSUME c = us.from PROVE \E s \in USlots : InRing(r, s) /\ buf[s] = c
      BY <1>3, <2>2, <3>2
    <3>3. ASSUME NEW s \in USlots, InRing(us, s), us.rx_buf[s] = c
          PROVE  \E t \in USlots : InRing(r, t) /\ buf[t] = c
      BY <2>2, <3>3
    <3>4. ASSUME NEW s \in USlots, InRing(r, s), buf[s] = c
          PROVE  c = us.from \/ \E t \in USlots : InRing(us, t) /\ us.rx_buf[t] = c
      BY <2>2, <3>4
    <3> QED BY <3>1, <3>2, <3>3, <3>4
  <2> HIDE DEF buf
  <2>6. UartRx(r)
    BY <1>2, <1>3, <1>4, <1>6, <2>3, <2>4, <2>5 DEF UartRx
  <2> QED BY <1>1, <1>2, <2>6, UTxSame DEF UartOK, r
<1> QED BY <1>7, <1>8

LEMMA UartIrqOK ==
  ASSUME NEW us, UartOK(us), NEW status, "RRDY" \in status => us.rrdy, "TRDY" \in status => us.txdata = 0
  PROVE  UartOK(altera_avalon_uart_irq(us, status))
<1> DEFINE clear == [us EXCEPT !.err = FALSE]
           rx == IF "RRDY" \in status /\ "ERR" \notin status THEN altera_avalon_uart_rxirq(clear) ELSE clear
           r == altera_avalon_uart_irq(us, status)
<1>1. /\ DOMAIN clear = DOMAIN us /\ clear.ok = us.ok /\ SameUTx(us, clear) /\ SameURx(us, clear)
  BY DEF UartOK, SameUTx, SameURx, Uart0
<1> HIDE DEF clear
<1>2. UartOK(clear)
  BY <1>1, UTxSame, URxSame DEF UartOK
<1>3. UartOK(rx) /\ rx.txdata = us.txdata
  <2>1. CASE "RRDY" \in status /\ "ERR" \notin status
    <3>1. clear.rrdy
      BY <1>1, <2>1 DEF SameURx
    <3> QED BY <1>1, <1>2, <2>1, <3>1, RxIrqOK DEF SameUTx
  <2>2. CASE ~("RRDY" \in status /\ "ERR" \notin status)
    BY <1>1, <1>2, <2>2 DEF SameUTx
  <2> QED BY <2>1, <2>2
<1>4. r = IF "TRDY" \in status THEN altera_avalon_uart_txirq(rx) ELSE rx
  BY DEF altera_avalon_uart_irq, clear
<1> HIDE DEF rx, r
<1>5. UartOK(r)
  BY <1>3, <1>4, TxIrqOK
<1> QED BY <1>5 DEF r

(***************************************************************************)
(* From the slots back to what the property says.                          *)
(***************************************************************************)
LEMMA UartOKKept == ASSUME NEW us, UartOK(us) PROVE UartKept(us)
<1>1. DOMAIN us = DOMAIN Uart0 /\ us.ok = TRUE /\ UartTx(us) /\ UartRx(us)
  BY DEF UartOK
<1>2. LET tx == (IF us.txdata = 0 THEN << >> ELSE <<us.txdata>>) \o UTx(us)
      IN  tx = [i \in 1 .. us.written - us.to |-> us.to + i]
  <2> DEFINE reg == IF us.txdata = 0 THEN << >> ELSE <<us.txdata>>
             start == us.tx_start
             end == us.tx_end
             b == us.tx_buf
             ring == UTx(us)
             D == UOff(end, start)
             K == InReg(us)
             tx == reg \o ring
             N == us.written - us.to
             goal == [i \in 1 .. N |-> us.to + i]
  <2>1. /\ start \in USlots /\ end \in USlots /\ b \in [USlots -> Int] /\ us.to \in Nat /\ us.written \in Int
        /\ (us.txdata # 0 => us.txdata = us.to + 1) /\ us.to + K + D = us.written
        /\ ring = URing(b, start, end)
    BY <1>1 DEF UartTx, UTx
  <2>2. \A s \in USlots : UOff(s, start) < D => b[s] = us.to + K + 1 + UOff(s, start)
    BY <1>1 DEF UartTx
  <2>3. /\ reg \in Seq(Int) /\ Len(reg) = K /\ K \in {0, 1} /\ \A i \in 1 .. K : reg[i] = us.to + i
    <3>1. CASE us.txdata = 0
      <4>1. reg = << >> /\ K = 0
        BY <3>1 DEF InReg
      <4> QED BY <4>1
    <3>2. CASE us.txdata # 0
      <4>1. reg = <<us.txdata>> /\ K = 1 /\ us.txdata \in Int /\ us.txdata = us.to + 1
        BY <2>1, <3>2 DEF InReg
      <4> HIDE DEF reg, K
      <4>2. reg \in Seq(Int) /\ Len(reg) = 1 /\ reg[1] = us.to + 1
        BY <4>1
      <4>3. \A i \in 1 .. K : i = 1
        BY <4>1
      <4> QED BY <4>1, <4>2, <4>3
    <3> QED BY <3>1, <3>2
  <2> HIDE DEF reg, ring, start, end, b, K
  <2>4. /\ ring \in Seq(Int) /\ Len(ring) = D
        /\ \A i \in 1 .. D : /\ (start + i - 1) % UART_BUF_LEN \in USlots
                             /\ UOff((start + i - 1) % UART_BUF_LEN, start) = i - 1
                             /\ ring[i] = b[(start + i - 1) % UART_BUF_LEN]
    BY <2>1, URingIs
  <2>5. D \in Nat
    BY <2>1, UOffIs
  <2>6. ASSUME NEW i \in 1 .. D PROVE ring[i] = us.to + K + i
    <3>1. i - 1 < D /\ i \in Int
      BY <2>5
    <3>2. ring[i] = us.to + K + 1 + (i - 1)
      BY <2>2, <2>4, <3>1
    <3> QED BY <2>1, <2>3, <3>1, <3>2
  <2> HIDE DEF D
  <2>7. /\ tx \in Seq(Int) /\ Len(tx) = K + D
        /\ \A i \in 1 .. K + D : tx[i] = IF i <= K THEN reg[i] ELSE ring[i - K]
    BY <2>3, <2>4, ConcatProperties
  <2> HIDE DEF tx
  <2>8. ASSUME NEW i \in 1 .. K + D PROVE tx[i] = us.to + i
    <3>1. CASE i <= K
      <4>1. i \in 1 .. K
        BY <2>3, <2>5, <3>1
      <4> QED BY <2>3, <2>7, <3>1, <4>1
    <3>2. CASE ~(i <= K)
      <4>1. i - K \in 1 .. D /\ i \in Int
        BY <2>3, <2>5, <3>2
      <4>2. tx[i] = us.to + K + (i - K)
        BY <2>6, <2>7, <3>2, <4>1
      <4> QED BY <2>1, <2>3, <4>1, <4>2
    <3> QED BY <3>1, <3>2
  <2>9. N = K + D
    BY <2>1, <2>3, <2>5
  <2>10. tx \in [1 .. K + D -> Int]
    BY <2>7
  <2>11. goal \in [1 .. K + D -> Int] /\ \A i \in 1 .. K + D : goal[i] = tx[i]
    <3> HIDE DEF N
    <3> QED BY <2>1, <2>3, <2>5, <2>8, <2>9
  <2>12. tx = goal
    <3> DEFINE M == K + D
    <3>1. tx \in [1 .. M -> Int] /\ goal \in [1 .. M -> Int] /\ \A i \in 1 .. M : goal[i] = tx[i]
      BY <2>10, <2>11
    <3> HIDE DEF goal, M
    <3>2. tx = [i \in 1 .. M |-> tx[i]] /\ goal = [i \in 1 .. M |-> goal[i]]
      BY <3>1
    <3> QED BY <3>1, <3>2, Zenon
  <2> QED BY <2>12 DEF tx, reg, ring
<1>3. ASSUME ~us.wrapped
      PROVE  LET rx == URx(us) \o (IF us.rrdy THEN <<us.rxdata>> ELSE << >>)
             IN  /\ \A i \in 1 .. Len(rx) - 1 : rx[i] < rx[i + 1]
                 /\ {rx[i] : i \in 1 .. Len(rx)} = us.last + 1 .. us.from \ us.lost
  <2> DEFINE reg == IF us.rrdy THEN <<us.rxdata>> ELSE << >>
             start == us.rx_start
             end == us.rx_end
             b == us.rx_buf
             ring == URx(us)
             D == UOff(end, start)
             K == IF us.rrdy THEN 1 ELSE 0
             rx == ring \o reg
  <2>1. /\ start \in USlots /\ end \in USlots /\ b \in [USlots -> Int] /\ us.from \in Int /\ us.rxdata = us.from
        /\ us.last \in Int /\ us.lost \subseteq Int /\ us.last <= us.from /\ (us.rrdy => us.last < us.from)
        /\ ring = URing(b, start, end)
    BY <1>1 DEF UartRx, URx
  <2>2. /\ \A s \in USlots : UOff(s, start) < D =>
             us.last < b[s] /\ b[s] <= us.from /\ (us.rrdy => b[s] < us.from)
        /\ \A s, t \in USlots : UOff(s, start) < D /\ UOff(t, start) < D /\ UOff(s, start) < UOff(t, start) =>
             b[s] < b[t]
        /\ \A c \in Int : (us.last < c /\ c <= us.from /\ c \notin us.lost) <=>
             (us.rrdy /\ c = us.from) \/ \E s \in USlots : UOff(s, start) < D /\ b[s] = c
    BY <1>1, <1>3 DEF UartRx, InRing
  <2>3. /\ reg \in Seq(Int) /\ Len(reg) = K /\ K \in {0, 1} /\ \A i \in 1 .. K : reg[i] = us.from
        /\ K = 1 <=> us.rrdy
    <3>1. CASE ~us.rrdy
      <4>1. reg = << >> /\ K = 0
        BY <3>1
      <4> HIDE DEF reg, K
      <4>2. reg \in Seq(Int) /\ Len(reg) = 0
        BY <4>1
      <4> QED BY <3>1, <4>1, <4>2
    <3>2. CASE us.rrdy
      <4>1. reg = <<us.from>> /\ K = 1 /\ us.from \in Int
        BY <2>1, <3>2
      <4> HIDE DEF reg, K
      <4>2. reg \in Seq(Int) /\ Len(reg) = 1 /\ reg[1] = us.from
        BY <4>1
      <4>3. \A i \in 1 .. K : i = 1
        BY <4>1
      <4> QED BY <3>2, <4>1, <4>2, <4>3
    <3> QED BY <3>1, <3>2
  <2> HIDE DEF reg, ring, start, end, b, K
  <2> DEFINE slot(i) == (start + i - 1) % UART_BUF_LEN
  <2>4. /\ ring \in Seq(Int) /\ Len(ring) = D
        /\ \A i \in 1 .. D : slot(i) \in USlots /\ UOff(slot(i), start) = i - 1 /\ ring[i] = b[slot(i)]
    BY <2>1, URingIs
  <2> HIDE DEF slot
  <2>5. D \in Nat
    BY <2>1, UOffIs
  <2>6. ASSUME NEW s \in USlots, UOff(s, start) < D
        PROVE  UOff(s, start) + 1 \in 1 .. D /\ ring[UOff(s, start) + 1] = b[s]
    <3> DEFINE k == UOff(s, start)
    <3>1. k \in Nat
      BY <2>1, UOffIs
    <3>2. k < D
      BY <2>6
    <3> HIDE DEF D
    <3>3. k + 1 \in 1 .. D /\ (k + 1) - 1 = k
      <4> HIDE DEF k
      <4> QED BY <2>5, <3>1, <3>2
    <3>4. slot(k + 1) \in USlots /\ UOff(slot(k + 1), start) = k /\ ring[k + 1] = b[slot(k + 1)]
      BY <2>4, <3>3
    <3>5. slot(k + 1) = s
      BY <2>1, <3>4, UInj
    <3> QED BY <3>3, <3>4, <3>5
  <2>7. ASSUME NEW i \in 1 .. D
        PROVE  /\ ring[i] \in Int /\ us.last < ring[i] /\ ring[i] <= us.from /\ (us.rrdy => ring[i] < us.from)
               /\ ring[i] \notin us.lost
    <3>1. i - 1 < D
      BY <2>5
    <3>2. slot(i) \in USlots /\ UOff(slot(i), start) < D /\ ring[i] = b[slot(i)] /\ ring[i] \in Int
      BY <2>1, <2>4, <3>1
    <3> QED BY <2>2, <3>2
  <2>8. ASSUME NEW i \in 1 .. D, NEW j \in 1 .. D, i < j PROVE ring[i] < ring[j]
    <3>1. i - 1 < D /\ j - 1 < D /\ i - 1 < j - 1
      BY <2>5, <2>8
    <3>2. /\ slot(i) \in USlots /\ slot(j) \in USlots /\ UOff(slot(i), start) < D /\ UOff(slot(j), start) < D
          /\ UOff(slot(i), start) < UOff(slot(j), start) /\ ring[i] = b[slot(i)] /\ ring[j] = b[slot(j)]
      BY <2>4, <3>1
    <3> QED BY <2>2, <3>2
  <2>9. /\ rx \in Seq(Int) /\ Len(rx) = D + K
        /\ \A i \in 1 .. D + K : rx[i] = IF i <= D THEN ring[i] ELSE reg[i - D]
    BY <2>3, <2>4, ConcatProperties
  <2>10. \A i \in 1 .. D + K : \/ i \in 1 .. D /\ rx[i] = ring[i]
                               \/ us.rrdy /\ i = D + 1 /\ rx[i] = us.from
    <3> HIDE DEF D, rx
    <3> SUFFICES ASSUME NEW i \in 1 .. D + K, ~(i <= D)
                 PROVE  us.rrdy /\ i = D + 1 /\ rx[i] = us.from
      BY <2>3, <2>5, <2>9
    <3>1. K = 1 /\ i = D + 1 /\ i - D = 1
      BY <2>3, <2>5
    <3> QED BY <2>3, <2>9, <3>1
  <2>11. ASSUME NEW c \in Int, us.last < c, c <= us.from, c \notin us.lost
         PROVE  \E i \in 1 .. D + K : rx[i] = c
    <3>1. CASE us.rrdy /\ c = us.from
      <4>1. K = 1 /\ D + 1 \in 1 .. D + K /\ ~(D + 1 <= D) /\ (D + 1) - D = 1
        <5> HIDE DEF D
        <5> QED BY <2>3, <2>5, <3>1
      <4>2. rx[D + 1] = us.from
        BY <2>3, <2>9, <4>1
      <4> QED BY <3>1, <4>1, <4>2
    <3>2. ASSUME NEW s \in USlots, UOff(s, start) < D, b[s] = c
          PROVE  \E i \in 1 .. D + K : rx[i] = c
      <4>1. PICK i \in 1 .. D : ring[i] = c
        BY <2>6, <3>2
      <4>2. i \in 1 .. D + K /\ i <= D
        <5> HIDE DEF D
        <5> QED BY <2>3, <2>5
      <4> QED BY <2>9, <4>1, <4>2
    <3> QED BY <2>2, <2>11, <3>1, <3>2
  <2>12. ASSUME NEW i \in 1 .. D + K
         PROVE  rx[i] \in Int /\ us.last < rx[i] /\ rx[i] <= us.from /\ rx[i] \notin us.lost
    <3>1. us.rrdy => us.from \in Int /\ us.last < us.from /\ us.from <= us.from /\ us.from \notin us.lost
      BY <2>1, <2>2
    <3> HIDE DEF rx, D
    <3> QED BY <2>7, <2>10, <3>1
  <2>13. {rx[i] : i \in 1 .. Len(rx)} = us.last + 1 .. us.from \ us.lost
    <3> HIDE DEF rx, D
    <3>1. ASSUME NEW c \in us.last + 1 .. us.from \ us.lost PROVE c \in {rx[i] : i \in 1 .. Len(rx)}
      <4>1. c \in Int /\ us.last < c /\ c <= us.from /\ c \notin us.lost
        BY <2>1
      <4> QED BY <2>9, <2>11, <4>1
    <3>2. ASSUME NEW i \in 1 .. Len(rx) PROVE rx[i] \in us.last + 1 .. us.from \ us.lost
      <4>1. rx[i] \in Int /\ us.last < rx[i] /\ rx[i] <= us.from /\ rx[i] \notin us.lost
        BY <2>9, <2>12
      <4> QED BY <2>1, <4>1
    <3> QED BY <3>1, <3>2
  <2>14. \A i \in 1 .. Len(rx) - 1 : rx[i] < rx[i + 1]
    <3> HIDE DEF rx, D
    <3> SUFFICES ASSUME NEW i \in 1 .. (D + K) - 1 PROVE rx[i] < rx[i + 1]
      BY <2>9
    <3>1. i \in 1 .. D /\ i \in 1 .. D + K /\ i + 1 \in 1 .. D + K /\ i # D + 1 /\ i < i + 1
      BY <2>3, <2>5
    <3>2. rx[i] = ring[i]
      BY <2>10, <3>1
    <3>3. CASE i + 1 \in 1 .. D /\ rx[i + 1] = ring[i + 1]
      BY <2>8, <3>1, <3>2, <3>3
    <3>4. CASE us.rrdy /\ rx[i + 1] = us.from
      BY <2>7, <3>1, <3>2, <3>4
    <3> QED BY <2>10, <3>1, <3>3, <3>4
  <2> QED BY <2>13, <2>14 DEF rx, ring, reg
<1> QED BY <1>1, <1>2, <1>3 DEF UartKept

(***************************************************************************)
(* The status that the handler has read is still good when it acts on it:  *)
(* a received character stays until the handler reads it, and nobody else  *)
(* writes to the transmit register.                                        *)
(***************************************************************************)
UartInv ==
  /\ UartOK(uart)
  /\ isr = "uart" => ("RRDY" \in ustatus => uart.rrdy) /\ ("TRDY" \in ustatus => uart.txdata = 0)

LEMMA UartNext == ASSUME UartInv, [Next]_vars PROVE UartInv'
<1>1. UartOK(uart) /\ DOMAIN uart = DOMAIN Uart0 /\ uart.ok = TRUE /\ UartTx(uart) /\ UartRx(uart)
  BY DEF UartInv, UartOK
<1>2. ASSUME UartOK(uart'), isr' # "uart" PROVE UartInv'
  BY <1>2 DEF UartInv
<1>3. ASSUME UNCHANGED <<uart, ustatus>>, isr' = isr \/ isr' # "uart" PROVE UartInv'
  BY <1>3 DEF UartInv
<1>4. ASSUME DOMAIN uart' = DOMAIN uart, uart'.ok = uart.ok, SameUTx(uart, uart'), SameURx(uart, uart')
      PROVE  UartOK(uart')
  BY <1>1, <1>4, UTxSame, URxSame DEF UartOK
<1>5. CASE altera_avalon_uart_init
  <2>1. uart' = [uart EXCEPT !.ctrl = {"RRDY", "DCTS"}] /\ isr = "none" /\ isr' = isr
    BY <1>5 DEF altera_avalon_uart_init, BootStep
  <2>2. DOMAIN uart' = DOMAIN uart /\ uart'.ok = uart.ok /\ SameUTx(uart, uart') /\ SameURx(uart, uart')
    BY <1>1, <2>1 DEF SameUTx, SameURx, Uart0
  <2> QED BY <1>2, <1>4, <2>1, <2>2
<1>6. CASE UartRead
  <2>1. isr = "none" /\ isr' = isr /\ (uart' = uart \/ (URx(uart) # << >> /\ uart' = ReadOne(uart)))
    BY <1>6 DEF UartRead, UartStep
  <2>2. ASSUME URx(uart) # << >> PROVE uart.rx_start # uart.rx_end
    <3> SUFFICES ASSUME uart.rx_start = uart.rx_end PROVE FALSE
      OBVIOUS
    <3> DEFINE b == uart.rx_buf
               i == uart.rx_start
    <3>1. b \in [USlots -> Int] /\ i \in USlots /\ URx(uart) = URing(b, i, i)
      BY <1>1 DEF UartRx, URx
    <3> HIDE DEF b, i
    <3>2. URing(b, i, i) \in Seq(Int) /\ Len(URing(b, i, i)) = 0
      <4>1. UOff(i, i) = 0
        BY <3>1, UStep
      <4> QED BY <3>1, <4>1, URingIs
    <3> QED BY <2>2, <3>1, <3>2, EmptySeq
  <2> QED BY <1>1, <1>2, <2>1, <2>2, ReadOneOK
<1>7. CASE UartReadWait \/ UartReadEnd \/ UartWriteEnd
  <2>1. isr = "none" /\ isr' = isr /\ (uart' = EnableRead(uart) \/ uart' = EnableWrite(uart))
    BY <1>7 DEF UartReadWait, UartReadEnd, UartWriteEnd, UartStep
  <2>2. DOMAIN uart' = DOMAIN uart /\ uart'.ok = uart.ok /\ SameUTx(uart, uart') /\ SameURx(uart, uart')
    BY <1>1, <2>1 DEF SameUTx, SameURx, Uart0, EnableRead, EnableWrite
  <2> QED BY <1>2, <1>4, <2>1, <2>2
<1>8. CASE UartWrite \/ UartWriteWait
  <2>1. isr = "none" /\ isr' = isr
    BY <1>8 DEF UartWrite, UartWriteWait, UartStep
  <2>2. \/ uart' = uart
        \/ uart' = EnableWrite(uart)
        \/ ~TxFull(uart) /\ uart' = WriteOne(uart)
    BY <1>8 DEF UartWrite, UartWriteWait
  <2>3. CASE uart' = EnableWrite(uart)
    <3>1. DOMAIN uart' = DOMAIN uart /\ uart'.ok = uart.ok /\ SameUTx(uart, uart') /\ SameURx(uart, uart')
      BY <1>1, <2>3 DEF SameUTx, SameURx, Uart0, EnableWrite
    <3> QED BY <1>2, <1>4, <2>1, <3>1
  <2> QED BY <1>1, <1>2, <2>1, <2>2, <2>3, WriteOneOK
<1>9. CASE UartIsr
  <2>1. isr' = "uart" /\ ustatus' = UartStatus(uart) /\ uart' = uart
    BY <1>9 DEF UartIsr
  <2>2. "RRDY" \in UartStatus(uart) => uart.rrdy
    BY DEF UartStatus
  <2>3. "TRDY" \in UartStatus(uart) => uart.txdata = 0
    BY DEF UartStatus
  <2> QED BY <1>1, <2>1, <2>2, <2>3 DEF UartInv
<1>10. CASE UartIsrRest
  <2>1. isr = "uart" /\ isr' # "uart" /\ uart' = altera_avalon_uart_irq(uart, ustatus)
    BY <1>10 DEF UartIsrRest
  <2>2. ("RRDY" \in ustatus => uart.rrdy) /\ ("TRDY" \in ustatus => uart.txdata = 0)
    BY <2>1 DEF UartInv
  <2> QED BY <1>1, <1>2, <2>1, <2>2, UartIrqOK
<1>11. ASSUME NEW bad \in BOOLEAN, LineBring(bad) PROVE UartInv'
  <2>1. isr' = isr /\ ustatus' = ustatus /\ uart' = LineBrings(uart, bad)
    BY <1>11 DEF LineBring, Outside, hwVars
  <2>2. UartOK(uart') /\ SameUTx(uart, uart') /\ uart'.rrdy
    BY <1>1, <2>1, LineBringsOK
  <2> QED BY <2>1, <2>2 DEF UartInv, SameUTx
<1>12. CASE LineTake
  <2>1. isr' = isr /\ ustatus' = ustatus /\ uart' = LineTakes(uart) /\ uart.txdata # 0
    BY <1>12 DEF LineTake, Outside, hwVars
  <2>2. UartOK(uart')
    BY <1>1, <2>1, LineTakesOK
  <2>3. uart'.rrdy = uart.rrdy /\ uart'.txdata = 0
    BY <1>1, <2>1 DEF LineTakes, Uart0
  <2> QED BY <2>1, <2>2, <2>3 DEF UartInv
<1>13. CASE Call
  <2>1. UNCHANGED <<uart, isr, ustatus>>
    BY <1>13 DEF Call, Open, Fcntl, Exclusive, SetTimeout, ALT_READ, ALT_WRITE, ALT_CLOSE, AlarmStart, AlarmStop,
                 NewCall, hwVars
  <2> QED BY <1>3, <2>1
<1>14. CASE Boot /\ ~altera_avalon_uart_init
  <2>1. UNCHANGED <<uart, isr, ustatus>>
    BY <1>14 DEF Boot, alt_avalon_timer_sc_init, altera_avalon_jtag_uart_init, JtagAlarm, alt_io_redirect, hwVars
  <2> QED BY <1>3, <2>1
<1>15. CASE \/ JtagReadLook \/ JtagReadCopy \/ JtagReadWait \/ JtagReadEnd
            \/ JtagWriteLook \/ JtagWriteCopy \/ JtagWriteKick \/ JtagWriteWait
            \/ JtagClose \/ UartClose \/ Spin
  <2>1. UNCHANGED <<uart, isr, ustatus>>
    BY <1>15 DEF JtagReadLook, JtagReadCopy, JtagReadWait, JtagReadEnd, JtagWriteLook, JtagWriteCopy,
                 JtagWriteKick, JtagWriteWait, JtagClose, UartClose, Spin, JtagStep, hwVars
  <2> QED BY <1>3, <2>1
<1>16. CASE \/ Interrupt \/ JtagIsr \/ alt_avalon_timer_sc_irq \/ IrqReturn
            \/ Tick \/ HostSend \/ HostPoll \/ Plug \/ UNCHANGED vars
  <2>1. UNCHANGED <<uart, ustatus>> /\ (isr' = isr \/ isr' # "uart")
    BY <1>16 DEF Interrupt, JtagIsr, alt_avalon_timer_sc_irq, IrqReturn, Tick, HostSend, HostPoll, Plug,
                 Outside, hwVars, vars, Dispatch
  <2> QED BY <1>3, <2>1
<1> QED BY <1>5, <1>6, <1>7, <1>8, <1>9, <1>10, <1>11, <1>12, <1>13, <1>14, <1>15, <1>16
        DEF Next, Program, Handlers, World

LEMMA UartStart == ASSUME Init PROVE UartInv
<1>1. uart = Uart0 /\ isr = "none"
  BY DEF Init
<1>2. 0 \in USlots /\ USlots \subseteq Int
  BY ULen
<1>3. UOff(0, 0) = 0 /\ \A s \in USlots : ~(UOff(s, 0) < 0)
  BY <1>2, UOffIs, UStep
<1>4. UartTx(Uart0)
  <2>1. Uart0.tx_buf = [s \in USlots |-> 0] /\ Uart0.tx_start = 0 /\ Uart0.tx_end = 0 /\ Uart0.txdata = 0
        /\ Uart0.to = 0 /\ Uart0.written = 0
    BY DEF Uart0
  <2>2. Uart0.tx_buf \in [USlots -> Int] /\ InReg(Uart0) = 0
    BY <2>1 DEF InReg
  <2> QED BY <1>2, <1>3, <2>1, <2>2 DEF UartTx
<1>5. UartRx(Uart0)
  <2>1. Uart0.rx_buf = [s \in USlots |-> 0] /\ Uart0.rx_start = 0 /\ Uart0.rx_end = 0 /\ Uart0.rrdy = FALSE
        /\ Uart0.from = 0 /\ Uart0.rxdata = 0 /\ Uart0.last = 0 /\ Uart0.lost = {}
    BY DEF Uart0
  <2>2. Uart0.rx_buf \in [USlots -> Int]
    BY <2>1
  <2>3. \A s \in USlots : ~InRing(Uart0, s)
    BY <1>3, <2>1 DEF InRing
  <2>4. \A c \in Int : ~(0 < c /\ c <= 0)
    OBVIOUS
  <2>5. ~Uart0.rrdy
    BY <2>1
  <2> DEFINE u == Uart0
  <2>6. \A c \in Int :
          (u.last < c /\ c <= u.from /\ c \notin u.lost) <=>
            (u.rrdy /\ c = u.from) \/ \E s \in USlots : InRing(u, s) /\ u.rx_buf[s] = c
    BY <2>1, <2>3, <2>4, <2>5
  <2>7. /\ u.rx_start \in USlots /\ u.rx_end \in USlots /\ u.rx_buf \in [USlots -> Int]
        /\ u.from \in Int /\ u.rxdata = u.from /\ u.last \in Int /\ u.lost = {} /\ u.last <= u.from
    BY <1>2, <2>1, <2>2
  <2> HIDE DEF u
  <2>8. UartRx(u)
    BY <2>3, <2>5, <2>6, <2>7 DEF UartRx, u
  <2> QED BY <2>8 DEF u
<1>6. Uart0.ok = TRUE
  BY DEF Uart0
<1> QED BY <1>1, <1>4, <1>5, <1>6 DEF UartInv, UartOK

(***************************************************************************)
(* For every length of the rings and of the hardware FIFO, every number    *)
(* and length of calls, and wherever interrupts fall among their steps: no *)
(* character is lost, doubled or reordered by either driver, but for       *)
(* overruns and the full receive ring of the UART.                         *)
(***************************************************************************)
THEOREM BytesAreKept == Spec => []BytesKept
<1>1. Init => JtagInv /\ UartInv
  BY JtagStart, UartStart
<1>2. FdInv /\ JtagInv /\ UartInv /\ [Next]_vars => (JtagInv /\ UartInv)'
  BY JtagNext, UartNext
<1>3. JtagInv /\ UartInv => BytesKept
  BY JtagOKKept, UartOKKept DEF JtagInv, UartInv, BytesKept
<1>4. Spec => []FdInv
  BY FdStart, FdNext, PTL DEF Spec
<1> QED BY <1>1, <1>2, <1>3, <1>4, PTL DEF Spec
=============================================================================

---------------------------- MODULE ChKernelCalls ---------------------------
(***************************************************************************)
(* What each call of the kernel keeps: queues, counters and timers are     *)
(* consistent, for any number of threads and objects.  ChKernelProofs      *)
(* proves the theorems from these lemmas.                                  *)
(*                                                                         *)
(* Between two calls the kernel is Good: its lists are those of the        *)
(* threads whose states say so, a thread that sleeps does so in a call     *)
(* that sleeps like this (Local), and the timer list is that of the times  *)
(* left.  Inside a call the current thread has already left its state and  *)
(* is not yet in its next one.  Core(x, v) says the same of a state x      *)
(* whose threads are in the states v, so that the steps of a call can be   *)
(* followed one at a time; chSchReadyI and chSchGoSleepS make it Good      *)
(* again.  The lemmas go up from lists to scheduler and objects.           *)
(***************************************************************************)
EXTENDS ChKernel, FiniteSetTheorems, WellFoundedInduction, NaturalsInduction, TLAPS

-----------------------------------------------------------------------------
(***************************************************************************)
(* Sequences without repetitions.                                          *)
(***************************************************************************)

\* s lists the threads of M, each once.
Exactly(s, M) == s \in Seq(All) /\ NoRepeats(s) /\ Used(s) = M

\* A non-empty set of naturals has a least element.
LEMMA Least ==
  ASSUME NEW T, T \subseteq Nat, T # {}
  PROVE  \E x \in T : \A y \in T : x <= y
  <1> DEFINE R == {ss \in Nat \X Nat : ss[1] < ss[2]}
  <1>1. IsWellFoundedOn(R, Nat)
    <2>1. OpToRel(<, Nat) = R
      BY DEF OpToRel
    <2> QED BY <2>1, NatLessThanWellFounded
  <1>2. \E x \in T : \A y \in T : ~ (<<y, x>> \in R)
    <2> HIDE DEF R
    <2> QED BY <1>1, WFMin
  <1>3. PICK x \in T : \A y \in T : ~ (<<y, x>> \in R)
    BY <1>2
  <1>4. ASSUME NEW y \in T PROVE x <= y
    <2>1. x \in Nat /\ y \in Nat
      OBVIOUS
    <2>2. ~ (y < x)
      BY <1>3, <2>1
    <2> QED BY <2>1, <2>2
  <1> QED BY <1>4

\* The members of two lists put together.
LEMMA Joined ==
  ASSUME NEW A, NEW a \in Seq(A), NEW b \in Seq(A)
  PROVE  /\ a \o b \in Seq(A) /\ Len(a) \in Nat /\ Len(b) \in Nat
         /\ Len(a \o b) = Len(a) + Len(b)
         /\ \A i \in 1..Len(a) : (a \o b)[i] = a[i]
         /\ \A i \in (Len(a) + 1)..(Len(a) + Len(b)) : (a \o b)[i] = b[i - Len(a)]
  OBVIOUS

LEMMA Exact0 == Exactly(<<>>, {})
  BY DEF Exactly, NoRepeats, Used

LEMMA ExactSub ==
  ASSUME NEW s, NEW M, Exactly(s, M)
  PROVE  /\ M \subseteq All /\ s \in Seq(All) /\ Len(s) \in Nat
         /\ (s = <<>>) <=> (M = {})
         /\ \A i \in 1..Len(s) : s[i] \in M
         /\ \A t \in M : \E i \in 1..Len(s) : s[i] = t
         /\ \A i, j \in 1..Len(s) : s[i] = s[j] => i = j
  <1>1. s \in Seq(All) /\ DOMAIN s = 1..Len(s) /\ Len(s) \in Nat
    BY DEF Exactly
  <1>2. M = {s[i] : i \in 1..Len(s)}
    BY <1>1 DEF Exactly, Used
  <1>3. (s = <<>>) <=> (Len(s) = 0)
    BY <1>1
  <1>4. \A i \in 1..Len(s) : s[i] \in M /\ s[i] \in All
    BY <1>1, <1>2
  <1>5. \A t \in M : \E i \in 1..Len(s) : s[i] = t
    BY <1>2
  <1>6. (Len(s) = 0) <=> (M = {})
    <2>1. CASE Len(s) = 0
      BY <2>1, <1>5
    <2>2. CASE Len(s) # 0
      BY <2>2, <1>1, <1>4
    <2> QED BY <2>1, <2>2
  <1> QED BY <1>1, <1>3, <1>4, <1>5, <1>6 DEF Exactly, NoRepeats

\* A list is exact when its members are those of M and different.
LEMMA ExactIf ==
  ASSUME NEW s \in Seq(All), NEW M,
         \A i \in 1..Len(s) : s[i] \in M,
         \A t \in M : \E i \in 1..Len(s) : s[i] = t,
         \A i, j \in 1..Len(s) : s[i] = s[j] => i = j
  PROVE  Exactly(s, M)
  <1>1. DOMAIN s = 1..Len(s)
    OBVIOUS
  <1>2. Used(s) = M
    BY <1>1 DEF Used
  <1> QED BY <1>1, <1>2 DEF Exactly, NoRepeats

LEMMA ExactAppend ==
  ASSUME NEW s, NEW M, Exactly(s, M), NEW t \in All \ M
  PROVE  Exactly(Append(s, t), M \cup {t}) /\ Len(Append(s, t)) = Len(s) + 1
  <1> DEFINE r == Append(s, t)
  <1>1. /\ s \in Seq(All) /\ Len(s) \in Nat /\ \A i \in 1..Len(s) : s[i] \in M
        /\ \A x \in M : \E i \in 1..Len(s) : s[i] = x
        /\ \A i, j \in 1..Len(s) : s[i] = s[j] => i = j
    BY ExactSub
  <1>2. /\ r \in Seq(All) /\ Len(r) = Len(s) + 1 /\ r[Len(s) + 1] = t
        /\ \A i \in 1..Len(s) : r[i] = s[i]
    BY <1>1
  <1> HIDE DEF r
  <1>3. \A i \in 1..Len(r) : r[i] \in M \cup {t}
    BY <1>1, <1>2
  <1>4. \A x \in M \cup {t} : \E i \in 1..Len(r) : r[i] = x
    BY <1>1, <1>2
  <1>5. \A i, j \in 1..Len(r) : r[i] = r[j] => i = j
    BY <1>1, <1>2
  <1>6. Exactly(r, M \cup {t})
    BY <1>2, <1>3, <1>4, <1>5, ExactIf
  <1> QED BY <1>2, <1>6 DEF r

LEMMA ExactTail ==
  ASSUME NEW s, NEW M, Exactly(s, M), s # <<>>
  PROVE  /\ Head(s) \in M /\ Exactly(Tail(s), M \ {Head(s)})
         /\ Len(Tail(s)) = Len(s) - 1 /\ Len(s) >= 1
  <1> DEFINE r == Tail(s)
  <1>1. /\ s \in Seq(All) /\ Len(s) \in Nat /\ \A i \in 1..Len(s) : s[i] \in M
        /\ \A x \in M : \E i \in 1..Len(s) : s[i] = x
        /\ \A i, j \in 1..Len(s) : s[i] = s[j] => i = j
    BY ExactSub
  <1>2. /\ r \in Seq(All) /\ Len(r) = Len(s) - 1 /\ Len(s) >= 1 /\ Head(s) = s[1]
        /\ \A i \in 1..Len(r) : r[i] = s[i + 1]
    BY <1>1
  <1> HIDE DEF r
  <1>3. \A i \in 1..Len(r) : r[i] \in M \ {Head(s)}
    BY <1>1, <1>2
  <1>4. ASSUME NEW x \in M \ {Head(s)} PROVE \E i \in 1..Len(r) : r[i] = x
    <2>1. PICK i \in 1..Len(s) : s[i] = x
      BY <1>1
    <2>2. i - 1 \in 1..Len(r) /\ r[i - 1] = x
      BY <2>1, <1>1, <1>2
    <2> QED BY <2>2
  <1>5. ASSUME NEW i \in 1..Len(r), NEW j \in 1..Len(r), r[i] = r[j] PROVE i = j
    <2>1. i + 1 \in 1..Len(s) /\ j + 1 \in 1..Len(s) /\ s[i + 1] = s[j + 1]
      BY <1>1, <1>2, <1>5
    <2>2. i + 1 = j + 1
      BY <2>1, <1>1
    <2> QED BY <2>2
  <1>6. Exactly(r, M \ {Head(s)})
    BY <1>2, <1>3, <1>4, <1>5, ExactIf
  <1> QED BY <1>1, <1>2, <1>6 DEF r

\* A thread put in at any place.
LEMMA ExactPut ==
  ASSUME NEW s, NEW M, Exactly(s, M), NEW t \in All \ M, NEW n \in 1..(Len(s) + 1)
  PROVE  Exactly(SubSeq(s, 1, n - 1) \o <<t>> \o SubSeq(s, n, Len(s)), M \cup {t})
  <1> DEFINE r == SubSeq(s, 1, n - 1) \o <<t>> \o SubSeq(s, n, Len(s))
  <1>1. /\ s \in Seq(All) /\ Len(s) \in Nat /\ \A i \in 1..Len(s) : s[i] \in M
        /\ \A x \in M : \E i \in 1..Len(s) : s[i] = x
        /\ \A i, j \in 1..Len(s) : s[i] = s[j] => i = j
    BY ExactSub
  <1>2. /\ r \in Seq(All) /\ Len(r) = Len(s) + 1 /\ r[n] = t
        /\ \A i \in 1..Len(r) : r[i] = IF i < n THEN s[i] ELSE IF i = n THEN t ELSE s[i - 1]
    <2> DEFINE a == SubSeq(s, 1, n - 1)
               b == SubSeq(s, n, Len(s))
               c == a \o <<t>>
    <2>1. a \in Seq(All) /\ Len(a) = n - 1 /\ \A i \in 1..(n - 1) : a[i] = s[i]
      BY <1>1
    <2>2. b \in Seq(All) /\ Len(b) = Len(s) + 1 - n
          /\ \A i \in 1..(Len(s) + 1 - n) : b[i] = s[n + i - 1]
      BY <1>1
    <2> HIDE DEF a, b
    <2>3. c \in Seq(All) /\ Len(c) = n /\ c[n] = t /\ \A i \in 1..(n - 1) : c[i] = a[i]
      BY <2>1, <1>1
    <2> HIDE DEF c
    <2>4. r = c \o b
      BY DEF r, c, a, b
    <2> HIDE DEF r
    <2>5. r \in Seq(All) /\ Len(r) = Len(s) + 1
      <3>1. r \in Seq(All) /\ Len(r) = Len(c) + Len(b)
        BY <2>2, <2>3, <2>4, Joined
      <3> QED BY <3>1, <2>2, <2>3, <1>1
    <2>6. \A i \in 1..n : r[i] = c[i]
      BY <2>2, <2>3, <2>4, <1>1
    <2>7. ASSUME NEW i \in 1..Len(r), i > n PROVE r[i] = s[i - 1]
      <3>1. r[i] = b[i - n]
        BY <2>2, <2>3, <2>4, <2>5, <2>7, <1>1
      <3>2. i - n \in 1..(Len(s) + 1 - n) /\ n + (i - n) - 1 = i - 1
        BY <2>5, <2>7, <1>1
      <3> QED BY <3>1, <3>2, <2>2
    <2>8. ASSUME NEW i \in 1..Len(r)
          PROVE  r[i] = IF i < n THEN s[i] ELSE IF i = n THEN t ELSE s[i - 1]
      <3>1. CASE i < n
        BY <3>1, <2>1, <2>3, <2>6, <1>1
      <3>2. CASE i = n
        BY <3>2, <2>3, <2>6, <1>1
      <3>3. CASE i > n
        BY <3>3, <2>7
      <3> QED BY <3>1, <3>2, <3>3
    <2>9. r[n] = t
      BY <2>3, <2>6, <1>1
    <2> QED BY <2>5, <2>8, <2>9
  <1> HIDE DEF r
  <1>3. ASSUME NEW i \in 1..Len(r) PROVE r[i] \in M \cup {t}
    <2>1. CASE i < n
      BY <2>1, <1>1, <1>2
    <2>2. CASE i = n
      BY <2>2, <1>2
    <2>3. CASE i > n
      <3>1. i - 1 \in 1..Len(s) /\ r[i] = s[i - 1]
        BY <2>3, <1>1, <1>2
      <3> QED BY <3>1, <1>1
    <2> QED BY <2>1, <2>2, <2>3
  <1>4. ASSUME NEW x \in M \cup {t} PROVE \E i \in 1..Len(r) : r[i] = x
    <2>1. CASE x = t
      BY <2>1, <1>1, <1>2
    <2>2. CASE x \in M
      <3>1. PICK i \in 1..Len(s) : s[i] = x
        BY <2>2, <1>1
      <3>2. CASE i < n
        BY <3>1, <3>2, <1>1, <1>2
      <3>3. CASE i >= n
        <4>1. i + 1 \in 1..Len(r) /\ r[i + 1] = x
          BY <3>1, <3>3, <1>1, <1>2
        <4> QED BY <4>1
      <3> QED BY <3>2, <3>3
    <2> QED BY <2>1, <2>2
  <1>5. ASSUME NEW i \in 1..Len(r), NEW j \in 1..Len(r), r[i] = r[j] PROVE i = j
    <2> DEFINE at(m) == IF m < n THEN m ELSE m - 1
    <2>1. ASSUME NEW m \in 1..Len(r), m # n PROVE at(m) \in 1..Len(s) /\ r[m] = s[at(m)]
      <3>1. CASE m < n
        BY <3>1, <1>1, <1>2
      <3>2. CASE m > n
        BY <3>2, <1>1, <1>2
      <3> QED BY <3>1, <3>2, <2>1
    <2>2. CASE i = n
      <3>1. CASE j # n
        BY <3>1, <2>1, <2>2, <1>1, <1>2, <1>5
      <3> QED BY <3>1, <2>2
    <2>3. CASE j = n /\ i # n
      BY <2>1, <2>3, <1>1, <1>2, <1>5
    <2>4. CASE i # n /\ j # n
      <3>1. at(i) \in 1..Len(s) /\ at(j) \in 1..Len(s) /\ s[at(i)] = s[at(j)]
        BY <2>1, <2>4, <1>5
      <3>2. at(i) = at(j)
        BY <3>1, <1>1
      <3> QED BY <3>2, <2>4, <1>1
    <2> QED BY <2>2, <2>3, <2>4
  <1>6. Exactly(r, M \cup {t})
    BY <1>2, <1>3, <1>4, <1>5, ExactIf
  <1> QED BY <1>6 DEF r

\* The place that InsertBefore takes.
LEMMA FirstOf ==
  ASSUME NEW N \in Nat, NEW P, P \subseteq 1..N, P # {}
  PROVE  LET n == CHOOSE i \in P : \A j \in P : i <= j
         IN  n \in P /\ \A j \in P : n <= j
  <1>1. P \subseteq Nat
    OBVIOUS
  <1>2. \E i \in P : \A j \in P : i <= j
    BY <1>1, Least
  <1> QED BY <1>2

LEMMA ExactInsert ==
  ASSUME NEW s, NEW M, Exactly(s, M), NEW t \in All \ M, NEW Behind(_)
  PROVE  Exactly(InsertBefore(s, t, Behind), M \cup {t})
  <1> DEFINE P == {i \in DOMAIN s : Behind(s[i])}
             n == IF P = {} THEN Len(s) + 1 ELSE CHOOSE i \in P : \A j \in P : i <= j
  <1>1. s \in Seq(All) /\ Len(s) \in Nat
    BY ExactSub
  <1>2. P \subseteq 1..Len(s)
    BY <1>1
  <1>3. n \in 1..(Len(s) + 1)
    <2>1. CASE P = {}
      BY <2>1, <1>1
    <2>2. CASE P # {}
      <3> HIDE DEF P
      <3>1. n \in P
        BY <2>2, <1>1, <1>2, FirstOf
      <3> HIDE DEF n
      <3>2. n \in 1..Len(s)
        BY <3>1, <1>2
      <3> QED BY <3>2, <1>1
    <2> QED BY <2>1, <2>2
  <1>4. InsertBefore(s, t, Behind) = SubSeq(s, 1, n - 1) \o <<t>> \o SubSeq(s, n, Len(s))
    BY DEF InsertBefore
  <1> HIDE DEF n
  <1> QED BY <1>3, <1>4, ExactPut

LEMMA ExactPrio ==
  ASSUME NEW s, NEW M, Exactly(s, M), NEW t \in All \ M, NEW prio
  PROVE  Exactly(prio_insert(s, t, prio), M \cup {t})
  <1> DEFINE B(c) == prio[c] < prio[t]
  <1>1. Exactly(InsertBefore(s, t, B), M \cup {t})
    BY ExactInsert
  <1> QED BY <1>1 DEF prio_insert

LEMMA ExactFront ==
  ASSUME NEW s, NEW M, Exactly(s, M), NEW t \in All \ M
  PROVE  Exactly(list_insert(s, t), M \cup {t})
  <1> DEFINE r == <<t>> \o s
  <1>1. /\ s \in Seq(All) /\ Len(s) \in Nat /\ \A i \in 1..Len(s) : s[i] \in M
        /\ \A x \in M : \E i \in 1..Len(s) : s[i] = x
        /\ \A i, j \in 1..Len(s) : s[i] = s[j] => i = j
    BY ExactSub
  <1>2. /\ r \in Seq(All) /\ Len(r) = Len(s) + 1 /\ r[1] = t
        /\ \A i \in 1..Len(r) : r[i] = IF i = 1 THEN t ELSE s[i - 1]
    BY <1>1
  <1> HIDE DEF r
  <1>3. \A i \in 1..Len(r) : r[i] \in M \cup {t}
    BY <1>1, <1>2
  <1>4. ASSUME NEW x \in M \cup {t} PROVE \E i \in 1..Len(r) : r[i] = x
    <2>1. CASE x = t
      BY <2>1, <1>1, <1>2
    <2>2. CASE x \in M
      <3>1. PICK i \in 1..Len(s) : s[i] = x
        BY <2>2, <1>1
      <3>2. i + 1 \in 1..Len(r) /\ r[i + 1] = x
        BY <3>1, <1>1, <1>2
      <3> QED BY <3>2
    <2> QED BY <2>1, <2>2
  <1>5. ASSUME NEW i \in 1..Len(r), NEW j \in 1..Len(r), r[i] = r[j] PROVE i = j
    <2>1. ASSUME NEW m \in 1..Len(r), m # 1
          PROVE  m - 1 \in 1..Len(s) /\ r[m] = s[m - 1] /\ r[m] # t
      BY <2>1, <1>1, <1>2
    <2>2. CASE i = 1 \/ j = 1
      BY <2>1, <2>2, <1>2, <1>5
    <2>3. CASE i # 1 /\ j # 1
      <3>1. i - 1 \in 1..Len(s) /\ j - 1 \in 1..Len(s) /\ s[i - 1] = s[j - 1]
        BY <2>1, <2>3, <1>5
      <3>2. i - 1 = j - 1
        BY <3>1, <1>1
      <3> QED BY <3>2
    <2> QED BY <2>2, <2>3
  <1>6. Exactly(r, M \cup {t})
    BY <1>2, <1>3, <1>4, <1>5, ExactIf
  <1> QED BY <1>6 DEF r, list_insert

LEMMA ExactDequeue ==
  ASSUME NEW s, NEW M, Exactly(s, M), NEW t \in M
  PROVE  /\ Exactly(dequeue(s, t), M \ {t}) /\ Len(dequeue(s, t)) = Len(s) - 1
         /\ Len(s) >= 1
  <1> DEFINE n == CHOOSE i \in DOMAIN s : s[i] = t
             r == SubSeq(s, 1, n - 1) \o SubSeq(s, n + 1, Len(s))
  <1>1. /\ s \in Seq(All) /\ Len(s) \in Nat /\ \A i \in 1..Len(s) : s[i] \in M
        /\ \A x \in M : \E i \in 1..Len(s) : s[i] = x
        /\ \A i, j \in 1..Len(s) : s[i] = s[j] => i = j
    BY ExactSub
  <1>2. n \in 1..Len(s) /\ s[n] = t
    BY <1>1
  <1>3. dequeue(s, t) = r
    BY DEF dequeue, Unlink
  <1> HIDE DEF n
  <1>4. /\ r \in Seq(All) /\ Len(r) = Len(s) - 1
        /\ \A i \in 1..Len(r) : r[i] = IF i < n THEN s[i] ELSE s[i + 1]
    <2> DEFINE a == SubSeq(s, 1, n - 1)
               b == SubSeq(s, n + 1, Len(s))
    <2>1. a \in Seq(All) /\ Len(a) = n - 1 /\ \A i \in 1..(n - 1) : a[i] = s[i]
      BY <1>1, <1>2
    <2>2. b \in Seq(All) /\ Len(b) = Len(s) - n
          /\ \A i \in 1..(Len(s) - n) : b[i] = s[n + i]
      BY <1>1, <1>2
    <2>3. r = a \o b
      BY DEF r, a, b
    <2> HIDE DEF a, b, r
    <2>4. r \in Seq(All) /\ Len(r) = Len(s) - 1
      BY <2>1, <2>2, <2>3, <1>1, <1>2
    <2>5. ASSUME NEW i \in 1..Len(r), i < n PROVE r[i] = s[i]
      <3>1. i \in 1..Len(a)
        BY <2>1, <2>5, <1>2
      <3>2. r[i] = a[i]
        BY <3>1, <2>1, <2>2, <2>3, Joined
      <3> QED BY <3>1, <3>2, <2>1
    <2>6. ASSUME NEW i \in 1..Len(r), i >= n PROVE r[i] = s[i + 1]
      <3>1. r[i] = b[i - (n - 1)]
        BY <2>1, <2>2, <2>3, <2>4, <2>6, <1>1, <1>2, SMTT(30)
      <3>2. i - (n - 1) \in 1..(Len(s) - n) /\ n + (i - (n - 1)) = i + 1
        BY <2>4, <2>6, <1>1, <1>2
      <3> QED BY <3>1, <3>2, <2>2
    <2> QED BY <2>4, <2>5, <2>6, <1>2
  <1> HIDE DEF r
  <1>5. \A i \in 1..Len(r) : r[i] \in M \ {t}
    BY <1>1, <1>2, <1>4
  <1>6. ASSUME NEW x \in M \ {t} PROVE \E i \in 1..Len(r) : r[i] = x
    <2>1. PICK i \in 1..Len(s) : s[i] = x
      BY <1>1
    <2>2. i # n
      BY <2>1, <1>2
    <2>3. CASE i < n
      BY <2>1, <2>3, <1>1, <1>2, <1>4
    <2>4. CASE i > n
      <3>1. i - 1 \in 1..Len(r) /\ r[i - 1] = x
        BY <2>1, <2>4, <1>1, <1>2, <1>4
      <3> QED BY <3>1
    <2> QED BY <2>2, <2>3, <2>4, <1>2
  <1>7. ASSUME NEW i \in 1..Len(r), NEW j \in 1..Len(r), r[i] = r[j] PROVE i = j
    <2> DEFINE at(m) == IF m < n THEN m ELSE m + 1
    <2>1. \A m \in 1..Len(r) : at(m) \in 1..Len(s) /\ r[m] = s[at(m)]
      BY <1>1, <1>2, <1>4
    <2>2. at(i) \in 1..Len(s) /\ at(j) \in 1..Len(s) /\ s[at(i)] = s[at(j)]
      BY <2>1, <1>7
    <2> HIDE DEF at
    <2>3. at(i) = at(j)
      BY <2>2, <1>1
    <2> QED BY <2>3, <1>2, <1>4 DEF at
  <1>8. Exactly(r, M \ {t})
    BY <1>4, <1>5, <1>6, <1>7, ExactIf
  <1> QED BY <1>1, <1>2, <1>3, <1>4, <1>8

\* The same list the other way round.
LEMMA ExactReverse ==
  ASSUME NEW s, NEW M, Exactly(s, M)
  PROVE  Exactly([i \in 1..Len(s) |-> s[Len(s) + 1 - i]], M)
  <1> DEFINE r == [i \in 1..Len(s) |-> s[Len(s) + 1 - i]]
  <1>1. /\ s \in Seq(All) /\ Len(s) \in Nat /\ \A i \in 1..Len(s) : s[i] \in M
        /\ \A x \in M : \E i \in 1..Len(s) : s[i] = x
        /\ \A i, j \in 1..Len(s) : s[i] = s[j] => i = j
    BY ExactSub
  <1>2. r \in Seq(All) /\ Len(r) = Len(s) /\ \A i \in 1..Len(s) : r[i] = s[Len(s) + 1 - i]
    BY <1>1
  <1> HIDE DEF r
  <1>3. \A i \in 1..Len(r) : r[i] \in M
    BY <1>1, <1>2
  <1>4. ASSUME NEW x \in M PROVE \E i \in 1..Len(r) : r[i] = x
    <2>1. PICK i \in 1..Len(s) : s[i] = x
      BY <1>1
    <2>2. Len(s) + 1 - i \in 1..Len(s) /\ Len(s) + 1 - (Len(s) + 1 - i) = i
      BY <2>1, <1>1
    <2>3. r[Len(s) + 1 - i] = s[i]
      BY <2>2, <1>2
    <2> QED BY <2>1, <2>2, <2>3, <1>2
  <1>5. ASSUME NEW i \in 1..Len(r), NEW j \in 1..Len(r), r[i] = r[j] PROVE i = j
    <2>1. Len(s) + 1 - i \in 1..Len(s) /\ Len(s) + 1 - j \in 1..Len(s)
      BY <1>1, <1>2
    <2>2. s[Len(s) + 1 - i] = s[Len(s) + 1 - j]
      BY <1>2, <1>5
    <2>3. Len(s) + 1 - i = Len(s) + 1 - j
      BY <2>1, <2>2, <1>1
    <2> QED BY <2>3, <1>1, <1>2
  <1>6. Exactly(r, M)
    BY <1>2, <1>3, <1>4, <1>5, ExactIf
  <1> QED BY <1>6 DEF r

-----------------------------------------------------------------------------
(***************************************************************************)
(* Loops.  Fold(c, N, g)[n] is the state after n turns.  Folds and         *)
(* FoldKeeps hide the operators they are about, so that a lemma can be     *)
(* stated for all of them.                                                 *)
(***************************************************************************)

Fold(c, N, g(_, _)) ==
    CHOOSE f : f = [n \in 0..N |-> IF n = 0 THEN c ELSE g(f[n - 1], n)]

Folds(c, N, g(_, _)) ==
    \A n \in 0..N : Fold(c, N, g)[n] = IF n = 0 THEN c ELSE g(Fold(c, N, g)[n - 1], n)

FoldKeeps(c, N, g(_, _), P(_, _)) ==
    /\ P(0, c)
    /\ \A n \in 1..N : \A x : P(n - 1, x) => P(n, g(x, n))
    => P(N, Fold(c, N, g)[N])

Inductive(P(_)) ==
    P(0) /\ (\A n \in Nat : P(n) => P(n + 1)) => \A n \in Nat : P(n)

\* Induction on the naturals.
LEMMA Induction ==
  ASSUME NEW P(_)
  PROVE  Inductive(P)
  <1> SUFFICES ASSUME P(0), \A n \in Nat : P(n) => P(n + 1), \E n \in Nat : ~ P(n)
               PROVE  FALSE
    BY DEF Inductive
  <1> DEFINE T == {n \in Nat : ~ P(n)}
  <1>1. PICK x \in T : \A y \in T : x <= y
    <2>1. T \subseteq Nat /\ T # {}
      OBVIOUS
    <2> HIDE DEF T
    <2> QED BY <2>1, Least
  <1>2. x \in Nat /\ x # 0 /\ x - 1 \in Nat /\ ~ P(x)
    OBVIOUS
  <1>3. P(x - 1)
    BY <1>1, <1>2
  <1>4. P((x - 1) + 1) /\ (x - 1) + 1 = x
    BY <1>2, <1>3
  <1> QED BY <1>2, <1>4

\* A loop has a result.
LEMMA FoldsAll ==
  ASSUME NEW N \in Nat, NEW c, NEW g(_, _)
  PROVE  Folds(c, N, g)
  <1> DEFINE Eq(f, M) == f = [n \in 0..M |-> IF n = 0 THEN c ELSE g(f[n - 1], n)]
             P(M) == \E f : Eq(f, M)
  <1>1. P(0)
    <2> DEFINE f == [n \in 0..0 |-> c]
    <2>1. Eq(f, 0)
      OBVIOUS
    <2> QED BY <2>1
  <1>2. ASSUME NEW M \in Nat, P(M) PROVE P(M + 1)
    <2>1. PICK f : Eq(f, M)
      BY <1>2
    <2> DEFINE h == [n \in 0..(M + 1) |-> IF n = M + 1 THEN g(f[M], M + 1) ELSE f[n]]
    <2>2. \A n \in 0..(M + 1) : h[n] = IF n = 0 THEN c ELSE g(h[n - 1], n)
      <3> TAKE n \in 0..(M + 1)
      <3>1. CASE n = M + 1
        <4>1. n # 0 /\ n - 1 \in 0..(M + 1) /\ n - 1 = M /\ n - 1 # M + 1
          BY <3>1
        <4>2. h[n] = g(f[M], M + 1) /\ h[n - 1] = f[M]
          BY <3>1, <4>1
        <4> QED BY <3>1, <4>1, <4>2
      <3>2. CASE n # M + 1
        <4>1. n \in 0..M /\ h[n] = f[n]
          BY <3>2
        <4>2. f[n] = IF n = 0 THEN c ELSE g(f[n - 1], n)
          BY <2>1, <4>1
        <4>3. CASE n # 0
          <5>1. n - 1 \in 0..(M + 1) /\ n - 1 # M + 1
            BY <4>1, <4>3
          <5>2. h[n - 1] = f[n - 1]
            BY <5>1
          <5> QED BY <4>1, <4>2, <4>3, <5>2
        <4> QED BY <4>1, <4>2, <4>3
      <3> QED BY <3>1, <3>2
    <2>3. Eq(h, M + 1)
      <3>1. h = [n \in 0..(M + 1) |-> h[n]]
        OBVIOUS
      <3> HIDE DEF h
      <3> QED BY <2>2, <3>1
    <2> QED BY <2>3
  <1>3. Inductive(P)
    <2> HIDE DEF P
    <2> QED BY Induction
  <1>4. P(N)
    <2> HIDE DEF P
    <2> QED BY <1>1, <1>2, <1>3 DEF Inductive
  <1> DEFINE F == Fold(c, N, g)
  <1>5. Eq(F, N)
    BY <1>4 DEF Fold
  <1>6. \A n \in 0..N : F[n] = IF n = 0 THEN c ELSE g(F[n - 1], n)
    <2> HIDE DEF F
    <2> QED BY <1>5
  <1> QED BY <1>6 DEF Folds

\* What holds at its start and is kept by each turn holds at its end.
LEMMA FoldKept ==
  ASSUME NEW N \in Nat, NEW c, NEW g(_, _), NEW P(_, _)
  PROVE  FoldKeeps(c, N, g, P)
  <1> SUFFICES ASSUME P(0, c), \A n \in 1..N : \A x : P(n - 1, x) => P(n, g(x, n))
               PROVE  P(N, Fold(c, N, g)[N])
    BY DEF FoldKeeps
  <1> DEFINE F == Fold(c, N, g)
             Q(n) == n \in 0..N => P(n, F[n])
  <1>1. \A n \in 0..N : F[n] = IF n = 0 THEN c ELSE g(F[n - 1], n)
    <2>1. Folds(c, N, g)
      BY FoldsAll
    <2> QED BY <2>1 DEF Folds
  <1> HIDE DEF F
  <1>2. Q(0)
    BY <1>1
  <1>3. ASSUME NEW n \in Nat, Q(n) PROVE Q(n + 1)
    <2> SUFFICES ASSUME n + 1 \in 0..N PROVE P(n + 1, F[n + 1])
      OBVIOUS
    <2>1. n \in 0..N /\ n + 1 \in 1..N /\ (n + 1) - 1 = n /\ n + 1 # 0
      OBVIOUS
    <2>2. P((n + 1) - 1, F[n])
      BY <1>3, <2>1
    <2>3. P(n + 1, g(F[n], n + 1))
      BY <2>1, <2>2
    <2>4. F[n + 1] = g(F[(n + 1) - 1], n + 1)
      BY <1>1, <2>1
    <2> QED BY <2>1, <2>3, <2>4
  <1>4. Inductive(Q)
    <2> HIDE DEF Q
    <2> QED BY Induction
  <1>5. Q(N)
    <2> HIDE DEF Q
    <2> QED BY <1>2, <1>3, <1>4 DEF Inductive
  <1> QED BY <1>5 DEF F
-----------------------------------------------------------------------------
(***************************************************************************)
(* The inductive invariant.  In the middle of a call a thread can be in no *)
(* queue although its state still names one: the states that the lists     *)
(* agree with are then not the field st but a function v, in which such a  *)
(* thread is CURRENT (or SUSPENDED, while it goes for the heap's mutex).   *)
(***************************************************************************)

Fields == {"cur", "ready", "st", "prio", "rprio", "preempt", "u", "waiting", "epending",
           "mtxlist", "q", "cnt", "owner", "vt", "systime", "due", "cont", "more",
           "listeners", "flags", "msg", "nextmem", "free", "pool", "hold", "wa", "refs",
           "ref0", "scan", "newer", "older", "mb", "io"}

\* g is the function f with another value at a.
Upd(f, g, a, b) == g = [f EXCEPT ![a] = b]

\* y is the state x with other values of the fields F.
Keeps(x, y, F) == DOMAIN y = Fields /\ \A f \in Fields \ F : y[f] = x[f]

Queued == {"WTSEM", "WTMTX", "WTCOND", "WTQUEUE", "SNDMSGQ"}
Running == {"READY", "CURRENT"}

\* A thread sleeps in state s in the middle of the call fn.
Sleeps(fn, s) ==
    \/ fn = "sleep" /\ s = "SLEEPING"
    \/ fn \in {"sem", "post", "ahead", "fetch"} /\ s = "WTSEM"
    \/ fn = "mtx" /\ s = "WTMTX"
    \/ fn = "send" /\ s \in {"SNDMSGQ", "SNDMSG"}
    \/ fn = "join" /\ s = "WTEXIT"
    \/ fn \in {"cond", "condt"} /\ s = "WTCOND"
    \/ fn \in {"evt", "evtt"} /\ s \in {"WTOREVT", "WTANDEVT"}
    \/ fn = "msgwait" /\ s = "WTMSG"
    \/ fn \in {"iqget", "oqput", "iqread", "oqwrite"} /\ s = "WTQUEUE"

\* The calls that can have a timer armed.
Timed == {"sleep", "sem", "post", "ahead", "fetch", "condt", "evtt",
          "iqget", "oqput", "iqread", "oqwrite"}

\* The object a sleeping thread waits for is of the kind its state says.
Kind(s, u, c) ==
    /\ s = "WTSEM" => u[2] \in AllSems
    /\ s = "WTMTX" => u[2] \in AllMutexes
    /\ s = "WTCOND" => u[2] \in Conds
    /\ s = "WTQUEUE" => u[2] \in {"iq", "oq"}
    /\ s = "SNDMSGQ" => u[2] \in All
    /\ s = "WTEXIT" => c.tp \in All

\* The rest of a call is the one of a call that sleeps, or nothing.
ContOK(c) ==
    \/ c = NoCont
    \/ /\ c.fn \in Timed \cup {"mtx", "send", "join", "cond", "evt", "msgwait"}
       /\ c.fn \in {"cond", "condt"} => c.mp \in AllMutexes
       /\ c.fn \in {"iqget", "oqput", "iqread", "oqwrite"} => c.time \in Times

MoreOK(c) ==
    \/ c = NoCont
    \/ /\ "fn" \in DOMAIN c /\ c.fn \in MemFns \cup {"iqread", "oqwrite"}
       /\ c.fn \in {"iqread", "oqwrite"} => c.time \in Times
       /\ c.fn \in {"alloc", "core", "spawn"} =>
              "for" \in DOMAIN c /\ (c.for.tp \in Threads \/ (c.for = ForData /\ c.fn # "spawn"))

\* What is true of a thread in state s: own is its queue of messages.
Local(s, u, c, own, waiting, epending, mtxlist, more, preempt) ==
    /\ Kind(s, u, c) /\ ContOK(c) /\ MoreOK(more)
    /\ \/ s \in Running \/ s = "SUSPENDED"
       \/ s = "FINAL" /\ c = NoCont /\ more = NoCont /\ own = <<>> /\ waiting = <<>>
       \/ Sleeps(c.fn, s)
    /\ c.fn = "msgwait" /\ s \in Running => own # <<>>
    /\ s = "WTMSG" => own = <<>>
    /\ s = "WTOREVT" => epending \cap u[2] = {}
    /\ s = "WTANDEVT" => ~ u[2] \subseteq epending
    /\ more.fn \in {"alloc", "free"} => s \in {"WTMTX", "SUSPENDED"} \/ mtxlist # <<>>
    /\ mtxlist \in Seq(AllMutexes) /\ preempt \in 0..CH_TIME_QUANTUM

Locals(x, v) ==
    \A t \in All : Local(v[t], x.u[t], x.cont[t], x.q[t], x.waiting[t], x.epending[t],
                         x.mtxlist[t], x.more[t], x.preempt[t])

Waiters(x, v, o) == {t \in All : v[t] \in Queued /\ x.u[t][2] = o}
Joining(x, v, p) == {t \in All : v[t] = "WTEXIT" /\ x.cont[t].tp = p}
AreReady(v) == {t \in All : v[t] = "READY"}

\* The lists are those of the threads whose state says so.
Queues(x, v) ==
    /\ Exactly(x.ready, AreReady(v))
    /\ \A o \in WaitQueues : Exactly(x.q[o], Waiters(x, v, o))
    /\ \A p \in All : Exactly(x.waiting[p], Joining(x, v, p))

Counters(cnt, q) ==
    \A s \in AllSems : cnt[s] \in Int /\ Len(q[s]) = IF cnt[s] < 0 THEN -cnt[s] ELSE 0

\* The time of a timer is the time after the one before it.
Gap(vt, due, i) == due[vt[i].par] - (IF i = 1 THEN 0 ELSE due[vt[i - 1].par])

Timers(vt, due, cont) ==
    /\ vt \in Seq([par : All, time : Times]) /\ due \in [All -> Times]
    /\ \A i \in 1..Len(vt) : vt[i].time = Gap(vt, due, i) /\ due[vt[i].par] >= 1
                              /\ cont[vt[i].par].fn \in Timed
    /\ \A i, j \in 1..Len(vt) : vt[i].par = vt[j].par => i = j

\* A thread that is about to be created is FINAL and is created once.
Reserves(c, t) == c.fn \in {"alloc", "core", "spawn"} /\ c.for # ForData /\ c.for.tp = t
Reserved(more, v) ==
    \A a, t \in All : Reserves(more[a], t) =>
        v[t] = "FINAL" /\ \A b \in All : Reserves(more[b], t) => a = b

\* The pointers of a queue are its counter apart.
QueueOK(r, ahead) ==
    /\ DOMAIN r = {"rd", "wr", "counter", "out", "buf"}
    /\ r.rd \in 0..(Size - 1) /\ r.wr \in 0..(Size - 1) /\ r.counter \in 0..Size
    /\ LET a == IF ahead THEN r.rd ELSE r.wr
           b == IF ahead THEN r.wr ELSE r.rd
       IN  b = a + r.counter \/ b = a + r.counter - Size

MBOK(mb) ==
    DOMAIN mb = {"rd", "wr", "out", "buf"} /\ mb.rd \in 0..(Size - 1) /\ mb.wr \in 0..(Size - 1)
IOOK(io) == DOMAIN io = {"iq", "oq"} /\ QueueOK(io["iq"], TRUE) /\ QueueOK(io["oq"], FALSE)

Listeners(s) == s \in Seq([tp : All, mask : SUBSET UNION {a.events : a \in Apps}])

IdleOK(prio, s, c, more) == prio[Idle] = IDLEPRIO /\ s \in Running /\ c = NoCont /\ more = NoCont

Shapes(x) ==
    /\ DOMAIN x = Fields /\ x.cur \in All /\ x.systime \in Times
    /\ DOMAIN x.st = All /\ DOMAIN x.q = WaitQueues /\ DOMAIN x.cnt = AllSems
    /\ DOMAIN x.u = All /\ DOMAIN x.cont = All /\ DOMAIN x.more = All
    /\ DOMAIN x.waiting = All /\ DOMAIN x.epending = All /\ DOMAIN x.mtxlist = All
    /\ DOMAIN x.preempt = All /\ DOMAIN x.prio = All

Core(x, v) ==
    /\ Shapes(x) /\ v \in [All -> States]
    /\ Queues(x, v) /\ Locals(x, v)
    /\ Counters(x.cnt, x.q) /\ Timers(x.vt, x.due, x.cont) /\ Reserved(x.more, v)
    /\ x.owner \in [AllMutexes -> Threads \cup {NoThread}]
    /\ Listeners(x.listeners) /\ MBOK(x.mb) /\ IOOK(x.io)
    /\ IdleOK(x.prio, v[Idle], x.cont[Idle], x.more[Idle])

\* A state between two calls.
Good(x) ==
    /\ Core(x, x.st)
    /\ \A t \in All : (x.st[t] = "CURRENT" <=> t = x.cur) /\ x.st[t] # "SUSPENDED"

-----------------------------------------------------------------------------
(***************************************************************************)
(* How the invariant bears the change of a few fields.                     *)
(***************************************************************************)

\* The fields the invariant says little of.
Inert == {"cur", "st", "prio", "rprio", "preempt", "systime", "flags", "msg", "nextmem",
          "free", "pool", "hold", "wa", "refs", "ref0", "scan", "newer", "older"}

LEMMA CoreFrame ==
  ASSUME NEW x, NEW v, NEW y, Core(x, v), Keeps(x, y, Inert),
         y.cur \in All, y.systime \in Times, DOMAIN y.st = All,
         DOMAIN y.prio = All, y.prio[Idle] = IDLEPRIO,
         DOMAIN y.preempt = All, \A t \in All : y.preempt[t] \in 0..CH_TIME_QUANTUM
  PROVE  Core(y, v)
  <1>1. Shapes(y)
    BY DEF Core, Shapes, Keeps, Fields, Inert
  <1>2. /\ y.q = x.q /\ y.u = x.u /\ y.cont = x.cont /\ y.waiting = x.waiting
        /\ y.epending = x.epending /\ y.mtxlist = x.mtxlist /\ y.more = x.more
        /\ y.cnt = x.cnt /\ y.vt = x.vt /\ y.due = x.due /\ y.owner = x.owner
        /\ y.listeners = x.listeners /\ y.mb = x.mb /\ y.io = x.io /\ y.ready = x.ready
    BY DEF Keeps, Fields, Inert
  <1>3. Queues(y, v)
    BY <1>2 DEF Core, Queues, Waiters, Joining
  <1>4. Locals(y, v)
    <2> SUFFICES ASSUME NEW t \in All
                 PROVE  Local(v[t], y.u[t], y.cont[t], y.q[t], y.waiting[t], y.epending[t],
                              y.mtxlist[t], y.more[t], y.preempt[t])
      BY DEF Locals
    <2>1. Local(v[t], x.u[t], x.cont[t], x.q[t], x.waiting[t], x.epending[t],
                x.mtxlist[t], x.more[t], x.preempt[t])
      BY DEF Core, Locals
    <2>2. y.preempt[t] \in 0..CH_TIME_QUANTUM
      OBVIOUS
    <2> QED BY <1>2, <2>1, <2>2 DEF Local
  <1> QED BY <1>1, <1>2, <1>3, <1>4 DEF Core, IdleOK

\* A thread goes between CURRENT and READY.
LEMMA CoreState ==
  ASSUME NEW x, NEW v, NEW y, Core(x, v), NEW t \in All, NEW s \in Running,
         v[t] \in Running, Keeps(x, y, {"ready", "st"}), DOMAIN y.st = All,
         NEW w, w = [v EXCEPT ![t] = s], Exactly(y.ready, AreReady(w))
  PROVE  Core(y, w)
  <1>1. Shapes(y)
    BY DEF Core, Shapes, Keeps, Fields
  <1>2. /\ y.q = x.q /\ y.u = x.u /\ y.cont = x.cont /\ y.waiting = x.waiting
        /\ y.epending = x.epending /\ y.mtxlist = x.mtxlist /\ y.more = x.more
        /\ y.cnt = x.cnt /\ y.vt = x.vt /\ y.due = x.due /\ y.owner = x.owner
        /\ y.listeners = x.listeners /\ y.mb = x.mb /\ y.io = x.io /\ y.prio = x.prio
        /\ y.preempt = x.preempt
    BY DEF Keeps, Fields
  <1>3. v \in [All -> States] /\ w \in [All -> States] /\ w[t] = s
        /\ \A p \in All : p # t => w[p] = v[p]
    BY DEF Core, States, Running
  <1>4. Queues(y, w)
    <2>1. \A o : Waiters(y, w, o) = Waiters(x, v, o)
      BY <1>2, <1>3 DEF Waiters, Queued, Running
    <2>2. \A p : Joining(y, w, p) = Joining(x, v, p)
      BY <1>2, <1>3 DEF Joining, Running
    <2> QED BY <1>2, <2>1, <2>2 DEF Core, Queues
  <1>5. Locals(y, w)
    <2> SUFFICES ASSUME NEW p \in All
                 PROVE  Local(w[p], x.u[p], x.cont[p], x.q[p], x.waiting[p], x.epending[p],
                              x.mtxlist[p], x.more[p], x.preempt[p])
      BY <1>2 DEF Locals
    <2>1. Local(v[p], x.u[p], x.cont[p], x.q[p], x.waiting[p], x.epending[p],
                x.mtxlist[p], x.more[p], x.preempt[p])
      BY DEF Core, Locals
    <2>2. CASE p = t
      BY <1>3, <2>1, <2>2 DEF Local, Kind, Running
    <2> QED BY <1>3, <2>1, <2>2
  <1>6. Reserved(y.more, w)
    BY <1>2, <1>3 DEF Core, Reserved, Running
  <1>7. IdleOK(y.prio, w[Idle], y.cont[Idle], y.more[Idle])
    BY <1>2, <1>3 DEF Core, IdleOK, All
  <1> QED BY <1>1, <1>2, <1>3, <1>4, <1>5, <1>6, <1>7 DEF Core

\* A waiter is taken out of the queue of its object.
LEMMA CoreTake ==
  ASSUME NEW x, NEW v, NEW y, Core(x, v), NEW t \in All, NEW o, NEW r,
         v[t] \in {"WTSEM", "WTMTX", "WTCOND", "WTQUEUE"}, o = x.u[t][2],
         v[t] = "WTMTX" => x.mtxlist[t] # <<>>,
         Keeps(x, y, {"q", "cnt"}), Upd(x.q, y.q, o, r),
         Exactly(r, Waiters(x, v, o) \ {t}), Len(r) = Len(x.q[o]) - 1,
         v[t] = "WTSEM" => Upd(x.cnt, y.cnt, o, x.cnt[o] + 1), v[t] # "WTSEM" => y.cnt = x.cnt,
         NEW w, Upd(v, w, t, "CURRENT")
  PROVE  Core(y, w)
  <1> USE DEF Upd
  <1>1. Shapes(y)
    BY DEF Core, Shapes, Keeps, Fields
  <1>2. /\ y.u = x.u /\ y.cont = x.cont /\ y.waiting = x.waiting
        /\ y.epending = x.epending /\ y.mtxlist = x.mtxlist /\ y.more = x.more
        /\ y.vt = x.vt /\ y.due = x.due /\ y.owner = x.owner /\ y.ready = x.ready
        /\ y.listeners = x.listeners /\ y.mb = x.mb /\ y.io = x.io /\ y.prio = x.prio
        /\ y.preempt = x.preempt
    BY DEF Keeps, Fields
  <1>3. v \in [All -> States] /\ w \in [All -> States] /\ w[t] = "CURRENT"
        /\ \A p \in All : p # t => w[p] = v[p]
    BY DEF Core, States
  <1>4. Local(v[t], x.u[t], x.cont[t], x.q[t], x.waiting[t], x.epending[t],
              x.mtxlist[t], x.more[t], x.preempt[t])
    BY DEF Core, Locals
  <1>5. /\ o \in WaitQueues /\ o \notin All /\ (v[t] = "WTSEM" <=> o \in AllSems)
        /\ x.q[o] # <<>> /\ t # Idle
    <2>1. /\ v[t] = "WTSEM" => o \in AllSems
          /\ v[t] = "WTMTX" => o \in AllMutexes
          /\ v[t] = "WTCOND" => o \in Conds
          /\ v[t] = "WTQUEUE" => o \in {"iq", "oq"}
      BY <1>4 DEF Local, Kind
    <2>2. o \in WaitQueues /\ o \notin All /\ (v[t] = "WTSEM" <=> o \in AllSems)
      BY <2>1, NamesAssumption DEF WaitQueues
    <2>3. Exactly(x.q[o], Waiters(x, v, o)) /\ t \in Waiters(x, v, o)
      BY <2>2 DEF Core, Queues, Waiters, Queued
    <2>4. x.q[o] # <<>>
      BY <2>3, ExactSub
    <2>5. t # Idle
      BY DEF Core, IdleOK, Running
    <2> QED BY <2>2, <2>4, <2>5
  <1>6. DOMAIN x.q = WaitQueues /\ DOMAIN x.cnt = AllSems
    BY DEF Core, Shapes
  <1>7. Queues(y, w)
    <2>1. \A p \in WaitQueues : Exactly(y.q[p], Waiters(y, w, p))
      <3> TAKE p \in WaitQueues
      <3>1. CASE p = o
        <4>1. Waiters(y, w, o) = Waiters(x, v, o) \ {t}
          BY <1>2, <1>3 DEF Waiters, Queued
        <4> QED BY <3>1, <4>1, <1>5, <1>6
      <3>2. CASE p # o
        <4>1. Waiters(y, w, p) = Waiters(x, v, p)
          BY <1>2, <1>3, <3>2 DEF Waiters, Queued
        <4> QED BY <3>2, <4>1, <1>6 DEF Core, Queues
      <3> QED BY <3>1, <3>2
    <2>2. \A p : Joining(y, w, p) = Joining(x, v, p)
      BY <1>2, <1>3 DEF Joining
    <2>3. AreReady(w) = AreReady(v)
      BY <1>3 DEF AreReady
    <2> QED BY <1>2, <2>1, <2>2, <2>3 DEF Core, Queues
  <1>8. Locals(y, w)
    <2> SUFFICES ASSUME NEW p \in All
                 PROVE  Local(w[p], x.u[p], x.cont[p], x.q[p], x.waiting[p], x.epending[p],
                              x.mtxlist[p], x.more[p], x.preempt[p])
      <3>1. \A p \in All : y.q[p] = x.q[p]
        BY <1>5, <1>6 DEF WaitQueues
      <3> QED BY <1>2, <3>1 DEF Locals
    <2>1. CASE p = t
      <3>1. x.cont[t].fn # "msgwait"
        BY <1>4 DEF Local, Sleeps, Running
      <3> QED BY <1>3, <1>4, <2>1, <3>1 DEF Local, Kind, Running
    <2> QED BY <1>3, <2>1 DEF Core, Locals
  <1>9. Counters(y.cnt, y.q)
    <2> SUFFICES ASSUME NEW s \in AllSems
                 PROVE  y.cnt[s] \in Int /\ Len(y.q[s]) = IF y.cnt[s] < 0 THEN -y.cnt[s] ELSE 0
      BY DEF Counters
    <2>1. x.cnt[s] \in Int /\ Len(x.q[s]) = IF x.cnt[s] < 0 THEN -x.cnt[s] ELSE 0
      BY DEF Core, Counters
    <2>2. s \in WaitQueues
      BY DEF WaitQueues
    <2>3. CASE s = o
      <3>1. Len(x.q[o]) >= 1
        <4>1. x.q[o] \in Seq(All)
          BY <1>5 DEF Core, Queues, Exactly
        <4> QED BY <4>1, <1>5
      <3>2. v[t] = "WTSEM"
        BY <2>3, <1>5
      <3>3. y.cnt[s] = x.cnt[s] + 1
        BY <3>2, <2>3, <1>6
      <3>4. Len(y.q[s]) = Len(x.q[s]) - 1
        BY <2>2, <2>3, <1>6
      <3> QED BY <2>1, <2>3, <3>1, <3>3, <3>4
    <2>4. CASE s # o
      BY <2>1, <2>2, <2>4, <1>5, <1>6
    <2> QED BY <2>3, <2>4
  <1>10. Reserved(y.more, w)
    BY <1>2, <1>3 DEF Core, Reserved
  <1> QED BY <1>1, <1>2, <1>3, <1>5, <1>7, <1>8, <1>9, <1>10 DEF Core, IdleOK, All

\* All waiters of an object are taken out of its queue.
LEMMA CoreEmpty ==
  ASSUME NEW x, NEW v, NEW y, Core(x, v), NEW o \in AllSems \cup Conds \cup {"iq", "oq"},
         NEW n \in Nat, Keeps(x, y, {"q", "cnt"}), Upd(x.q, y.q, o, <<>>),
         o \in AllSems => Upd(x.cnt, y.cnt, o, n), o \notin AllSems => y.cnt = x.cnt,
         NEW w, w = [t \in All |-> IF t \in Waiters(x, v, o) THEN "CURRENT" ELSE v[t]]
  PROVE  Core(y, w)
  <1> USE DEF Upd
  <1>1. Shapes(y)
    BY DEF Core, Shapes, Keeps, Fields
  <1>2. /\ y.u = x.u /\ y.cont = x.cont /\ y.waiting = x.waiting
        /\ y.epending = x.epending /\ y.mtxlist = x.mtxlist /\ y.more = x.more
        /\ y.vt = x.vt /\ y.due = x.due /\ y.owner = x.owner /\ y.ready = x.ready
        /\ y.listeners = x.listeners /\ y.mb = x.mb /\ y.io = x.io /\ y.prio = x.prio
        /\ y.preempt = x.preempt
    BY DEF Keeps, Fields
  <1> DEFINE W == Waiters(x, v, o)
  <1>3. v \in [All -> States] /\ w \in [All -> States]
        /\ \A p \in All : w[p] = IF p \in W THEN "CURRENT" ELSE v[p]
    BY DEF Core, States
  <1>4. o \in WaitQueues /\ o \notin All /\ o \notin AllMutexes
    BY NamesAssumption DEF WaitQueues
  <1>5. \A t \in W : t \in All /\ v[t] \in {"WTSEM", "WTCOND", "WTQUEUE"}
    <2> SUFFICES ASSUME NEW t \in W PROVE t \in All /\ v[t] \in {"WTSEM", "WTCOND", "WTQUEUE"}
      OBVIOUS
    <2>1. t \in All /\ v[t] \in Queued /\ x.u[t][2] = o
      BY DEF Waiters
    <2>2. Kind(v[t], x.u[t], x.cont[t])
      BY <2>1 DEF Core, Locals, Local
    <2> QED BY <1>4, <2>1, <2>2 DEF Kind, Queued
  <1>6. DOMAIN x.q = WaitQueues /\ DOMAIN x.cnt = AllSems
    BY DEF Core, Shapes
  <1>7. Queues(y, w)
    <2>1. \A p \in WaitQueues : Exactly(y.q[p], Waiters(y, w, p))
      <3> TAKE p \in WaitQueues
      <3>1. CASE p = o
        <4>1. Waiters(y, w, o) = {}
          BY <1>2, <1>3 DEF Waiters, Queued
        <4> QED BY <3>1, <4>1, <1>4, <1>6, Exact0
      <3>2. CASE p # o
        <4>1. Waiters(y, w, p) = Waiters(x, v, p)
          BY <1>2, <1>3, <3>2 DEF Waiters, Queued
        <4> QED BY <3>2, <4>1, <1>6 DEF Core, Queues
      <3> QED BY <3>1, <3>2
    <2> HIDE DEF W
    <2>2. \A p : Joining(y, w, p) = Joining(x, v, p)
      BY <1>2, <1>3, <1>5 DEF Joining
    <2>3. AreReady(w) = AreReady(v)
      BY <1>3, <1>5 DEF AreReady
    <2> QED BY <1>2, <2>1, <2>2, <2>3 DEF Core, Queues
  <1> HIDE DEF W
  <1>8. Locals(y, w)
    <2> SUFFICES ASSUME NEW p \in All
                 PROVE  Local(w[p], x.u[p], x.cont[p], x.q[p], x.waiting[p], x.epending[p],
                              x.mtxlist[p], x.more[p], x.preempt[p])
      <3>1. \A p \in All : y.q[p] = x.q[p]
        BY <1>4, <1>6 DEF WaitQueues
      <3> QED BY <1>2, <3>1 DEF Locals
    <2>1. Local(v[p], x.u[p], x.cont[p], x.q[p], x.waiting[p], x.epending[p],
                x.mtxlist[p], x.more[p], x.preempt[p])
      BY DEF Core, Locals
    <2>2. CASE p \in W
      <3>1. x.cont[p].fn # "msgwait"
        BY <1>5, <2>1, <2>2 DEF Local, Sleeps, Running
      <3> QED BY <1>3, <1>5, <2>1, <2>2, <3>1 DEF Local, Kind, Running
    <2> QED BY <1>3, <2>1, <2>2
  <1>9. Counters(y.cnt, y.q)
    <2> SUFFICES ASSUME NEW s \in AllSems
                 PROVE  y.cnt[s] \in Int /\ Len(y.q[s]) = IF y.cnt[s] < 0 THEN -y.cnt[s] ELSE 0
      BY DEF Counters
    <2>1. x.cnt[s] \in Int /\ Len(x.q[s]) = IF x.cnt[s] < 0 THEN -x.cnt[s] ELSE 0
      BY DEF Core, Counters
    <2>2. s \in WaitQueues
      BY DEF WaitQueues
    <2>3. CASE s = o
      BY <2>2, <2>3, <1>6
    <2>4. CASE s # o
      BY <2>1, <2>2, <2>4, <1>6
    <2> QED BY <2>3, <2>4
  <1>10. Reserved(y.more, w)
    BY <1>2, <1>3, <1>5 DEF Core, Reserved
  <1>11. w[Idle] = v[Idle]
    BY <1>3, <1>5 DEF Core, IdleOK, Running, All
  <1> QED BY <1>1, <1>2, <1>3, <1>7, <1>8, <1>9, <1>10, <1>11 DEF Core

\* Fields of one thread that its place in the lists does not depend on.
LEMMA CoreLocal ==
  ASSUME NEW x, NEW v, NEW y, Core(x, v), NEW t \in All,
         Keeps(x, y, {"u", "cont", "mtxlist", "owner", "more", "epending", "vt", "due"}),
         DOMAIN y.u = All, DOMAIN y.cont = All, DOMAIN y.mtxlist = All,
         DOMAIN y.more = All, DOMAIN y.epending = All,
         \A p \in All : p # t => /\ y.u[p] = x.u[p] /\ y.cont[p] = x.cont[p]
                                 /\ y.mtxlist[p] = x.mtxlist[p] /\ y.more[p] = x.more[p]
                                 /\ y.epending[p] = x.epending[p],
         v[t] \in Queued => y.u[t] = x.u[t],
         v[t] = "WTEXIT" => y.cont[t] = x.cont[t],
         Local(v[t], y.u[t], y.cont[t], x.q[t], x.waiting[t], y.epending[t],
               y.mtxlist[t], y.more[t], x.preempt[t]),
         Timers(y.vt, y.due, y.cont), Reserved(y.more, v),
         y.owner \in [AllMutexes -> Threads \cup {NoThread}],
         t = Idle => y.cont[t] = NoCont /\ y.more[t] = NoCont
  PROVE  Core(y, v)
  <1>1. Shapes(y)
    BY DEF Core, Shapes, Keeps, Fields
  <1>2. /\ y.q = x.q /\ y.waiting = x.waiting /\ y.cnt = x.cnt /\ y.ready = x.ready
        /\ y.listeners = x.listeners /\ y.mb = x.mb /\ y.io = x.io /\ y.prio = x.prio
        /\ y.preempt = x.preempt
    BY DEF Keeps, Fields
  <1>3. Queues(y, v)
    <2>1. \A o : Waiters(y, v, o) = Waiters(x, v, o)
      BY DEF Waiters
    <2>2. \A p : Joining(y, v, p) = Joining(x, v, p)
      BY DEF Joining
    <2> QED BY <1>2, <2>1, <2>2 DEF Core, Queues
  <1>4. Locals(y, v)
    <2> SUFFICES ASSUME NEW p \in All
                 PROVE  Local(v[p], y.u[p], y.cont[p], x.q[p], x.waiting[p], y.epending[p],
                              y.mtxlist[p], y.more[p], x.preempt[p])
      BY <1>2 DEF Locals
    <2>1. CASE p # t
      BY <2>1 DEF Core, Locals
    <2> QED BY <2>1
  <1>5. IdleOK(y.prio, v[Idle], y.cont[Idle], y.more[Idle])
    BY <1>2 DEF Core, IdleOK, All
  <1> QED BY <1>1, <1>2, <1>3, <1>4, <1>5 DEF Core

\* t is put in the queue its state s names, and in no other one.
PutIn(x, v, t, s, u, q) ==
    \A o \in WaitQueues : Exactly(q[o], IF s \in Queued /\ u[2] = o
                                        THEN Waiters(x, v, o) \cup {t} ELSE Waiters(x, v, o))
PutOn(x, v, t, s, c, waiting) ==
    \A p \in All : Exactly(waiting[p], IF s = "WTEXIT" /\ c.tp = p
                                       THEN Joining(x, v, p) \cup {t} ELSE Joining(x, v, p))
\* It is put in no list of a thread that must have none.
PutOther(x, v, t, q, waiting) ==
    \A p \in All : p # t =>
        /\ q[p] = x.q[p] \/ (v[p] \notin {"WTMSG", "FINAL"} /\ q[p] # <<>>)
        /\ waiting[p] = x.waiting[p] \/ v[p] # "FINAL"

\* A thread that runs goes to sleep, or ends.
LEMMA CoreSleep ==
  ASSUME NEW x, NEW v, NEW y, Core(x, v), NEW t \in All \ {Idle}, NEW s \in States \ Running,
         v[t] \in {"CURRENT", "SUSPENDED"},
         Keeps(x, y, {"st", "u", "q", "cnt", "cont", "preempt", "vt", "due", "waiting", "msg"}),
         DOMAIN y.st = All, DOMAIN y.u = All, DOMAIN y.q = WaitQueues, DOMAIN y.cnt = AllSems,
         DOMAIN y.cont = All, DOMAIN y.preempt = All, DOMAIN y.waiting = All,
         \A p \in All : p # t => /\ y.u[p] = x.u[p] /\ y.cont[p] = x.cont[p]
                                 /\ y.preempt[p] = x.preempt[p],
         PutIn(x, v, t, s, y.u[t], y.q), PutOn(x, v, t, s, y.cont[t], y.waiting),
         PutOther(x, v, t, y.q, y.waiting),
         Local(s, y.u[t], y.cont[t], y.q[t], y.waiting[t], x.epending[t], x.mtxlist[t],
               x.more[t], y.preempt[t]),
         Counters(y.cnt, y.q), Timers(y.vt, y.due, y.cont),
         NEW w, w = [v EXCEPT ![t] = s]
  PROVE  Core(y, w)
  <1>0. /\ \A o \in WaitQueues :
               Exactly(y.q[o], IF s \in Queued /\ y.u[t][2] = o
                               THEN Waiters(x, v, o) \cup {t} ELSE Waiters(x, v, o))
        /\ \A p \in All :
               Exactly(y.waiting[p], IF s = "WTEXIT" /\ y.cont[t].tp = p
                                     THEN Joining(x, v, p) \cup {t} ELSE Joining(x, v, p))
        /\ \A p \in All : p # t =>
               y.q[p] = x.q[p] \/ (v[p] \notin {"WTMSG", "FINAL"} /\ y.q[p] # <<>>)
        /\ \A p \in All : p # t => y.waiting[p] = x.waiting[p] \/ v[p] # "FINAL"
    BY DEF PutIn, PutOn, PutOther
  <1> USE <1>0
  <1>1. Shapes(y)
    BY DEF Core, Shapes, Keeps, Fields
  <1>2. /\ y.epending = x.epending /\ y.mtxlist = x.mtxlist /\ y.more = x.more
        /\ y.owner = x.owner /\ y.ready = x.ready
        /\ y.listeners = x.listeners /\ y.mb = x.mb /\ y.io = x.io /\ y.prio = x.prio
    BY DEF Keeps, Fields
  <1>3. v \in [All -> States] /\ w \in [All -> States] /\ w[t] = s
        /\ \A p \in All : p # t => w[p] = v[p]
    BY DEF Core
  <1>4. Queues(y, w)
    <2>1. ASSUME NEW o \in WaitQueues PROVE Exactly(y.q[o], Waiters(y, w, o))
      <3>1. Waiters(y, w, o) = IF s \in Queued /\ y.u[t][2] = o
                               THEN Waiters(x, v, o) \cup {t} ELSE Waiters(x, v, o)
        BY <1>3 DEF Waiters, Queued
      <3> QED BY <3>1
    <2>2. ASSUME NEW p \in All PROVE Exactly(y.waiting[p], Joining(y, w, p))
      <3>1. Joining(y, w, p) = IF s = "WTEXIT" /\ y.cont[t].tp = p
                               THEN Joining(x, v, p) \cup {t} ELSE Joining(x, v, p)
        BY <1>3 DEF Joining
      <3> QED BY <3>1
    <2>3. AreReady(w) = AreReady(v)
      BY <1>3 DEF AreReady, Running
    <2> QED BY <1>2, <2>1, <2>2, <2>3 DEF Core, Queues
  <1>5. Locals(y, w)
    <2> SUFFICES ASSUME NEW p \in All
                 PROVE  Local(w[p], y.u[p], y.cont[p], y.q[p], y.waiting[p], x.epending[p],
                              x.mtxlist[p], x.more[p], y.preempt[p])
      BY <1>2 DEF Locals
    <2>1. CASE p # t
      <3>1. Local(v[p], x.u[p], x.cont[p], x.q[p], x.waiting[p], x.epending[p],
                  x.mtxlist[p], x.more[p], x.preempt[p])
        BY DEF Core, Locals
      <3>2. /\ y.u[p] = x.u[p] /\ y.cont[p] = x.cont[p] /\ y.preempt[p] = x.preempt[p]
            /\ w[p] = v[p]
        BY <1>3, <2>1
      <3>3. /\ y.q[p] = x.q[p] \/ (v[p] \notin {"WTMSG", "FINAL"} /\ y.q[p] # <<>>)
            /\ y.waiting[p] = x.waiting[p] \/ v[p] # "FINAL"
        BY <2>1
      <3> QED BY <3>1, <3>2, <3>3 DEF Local
    <2> QED BY <1>3, <2>1
  <1>6. Reserved(y.more, w)
    BY <1>2, <1>3 DEF Core, Reserved
  <1>7. IdleOK(y.prio, w[Idle], y.cont[Idle], y.more[Idle])
    BY <1>2, <1>3 DEF Core, IdleOK, All
  <1> QED BY <1>1, <1>2, <1>3, <1>4, <1>5, <1>6, <1>7 DEF Core

\* A thread that sleeps in no queue is about to run.
LEMMA CoreRouse ==
  ASSUME NEW x, NEW v, Core(x, v), NEW t \in All \ {Idle}, NEW s \in {"CURRENT", "SUSPENDED"},
         v[t] \notin Queued \cup {"READY", "WTEXIT", "FINAL"},
         Local(s, x.u[t], x.cont[t], x.q[t], x.waiting[t], x.epending[t], x.mtxlist[t],
               x.more[t], x.preempt[t]),
         NEW w, w = [v EXCEPT ![t] = s]
  PROVE  Core(x, w)
  <1>1. v \in [All -> States] /\ w \in [All -> States] /\ w[t] = s
        /\ \A p \in All : p # t => w[p] = v[p]
    BY DEF Core, States
  <1>2. Queues(x, w)
    <2>1. \A o : Waiters(x, w, o) = Waiters(x, v, o)
      BY <1>1 DEF Waiters, Queued
    <2>2. \A p : Joining(x, w, p) = Joining(x, v, p)
      BY <1>1 DEF Joining
    <2>3. AreReady(w) = AreReady(v)
      BY <1>1 DEF AreReady
    <2> QED BY <2>1, <2>2, <2>3 DEF Core, Queues
  <1>3. Locals(x, w)
    BY <1>1 DEF Core, Locals
  <1>4. Reserved(x.more, w)
    BY <1>1 DEF Core, Reserved
  <1>5. w[Idle] = v[Idle]
    BY <1>1 DEF All
  <1> QED BY <1>1, <1>2, <1>3, <1>4, <1>5 DEF Core

\* The threads that wait for the end of p are taken out of its list.
LEMMA CoreJoined ==
  ASSUME NEW x, NEW v, NEW y, Core(x, v), NEW p \in All,
         Keeps(x, y, {"waiting"}), Upd(x.waiting, y.waiting, p, <<>>),
         NEW w, w = [t \in All |-> IF t \in Joining(x, v, p) THEN "CURRENT" ELSE v[t]]
  PROVE  Core(y, w)
  <1> USE DEF Upd
  <1>1. Shapes(y)
    BY DEF Core, Shapes, Keeps, Fields
  <1>2. /\ y.u = x.u /\ y.cont = x.cont /\ y.q = x.q /\ y.cnt = x.cnt
        /\ y.epending = x.epending /\ y.mtxlist = x.mtxlist /\ y.more = x.more
        /\ y.vt = x.vt /\ y.due = x.due /\ y.owner = x.owner /\ y.ready = x.ready
        /\ y.listeners = x.listeners /\ y.mb = x.mb /\ y.io = x.io /\ y.prio = x.prio
        /\ y.preempt = x.preempt
    BY DEF Keeps, Fields
  <1> DEFINE W == Joining(x, v, p)
  <1>3. v \in [All -> States] /\ w \in [All -> States]
        /\ \A t \in All : w[t] = IF t \in W THEN "CURRENT" ELSE v[t]
    BY DEF Core, States
  <1>4. \A t \in W : t \in All /\ v[t] = "WTEXIT"
    BY DEF Joining
  <1>5. DOMAIN x.waiting = All
    BY DEF Core, Shapes
  <1>6. Queues(y, w)
    <2>1. ASSUME NEW t \in All PROVE Exactly(y.waiting[t], Joining(y, w, t))
      <3>1. CASE t = p
        <4>1. Joining(y, w, p) = {}
          BY <1>2, <1>3 DEF Joining
        <4> QED BY <3>1, <4>1, <1>5, Exact0
      <3>2. CASE t # p
        <4>1. Joining(y, w, t) = Joining(x, v, t)
          BY <1>2, <1>3, <3>2 DEF Joining
        <4> QED BY <3>2, <4>1, <1>5 DEF Core, Queues
      <3> QED BY <3>1, <3>2
    <2> HIDE DEF W
    <2>2. \A o : Waiters(y, w, o) = Waiters(x, v, o)
      BY <1>2, <1>3, <1>4 DEF Waiters, Queued
    <2>3. AreReady(w) = AreReady(v)
      BY <1>3, <1>4 DEF AreReady
    <2> QED BY <1>2, <2>1, <2>2, <2>3 DEF Core, Queues
  <1> HIDE DEF W
  <1>7. Locals(y, w)
    <2> SUFFICES ASSUME NEW t \in All
                 PROVE  Local(w[t], x.u[t], x.cont[t], x.q[t], y.waiting[t], x.epending[t],
                              x.mtxlist[t], x.more[t], x.preempt[t])
      BY <1>2 DEF Locals
    <2>1. Local(v[t], x.u[t], x.cont[t], x.q[t], x.waiting[t], x.epending[t],
                x.mtxlist[t], x.more[t], x.preempt[t])
      BY DEF Core, Locals
    <2>2. y.waiting[t] = x.waiting[t] \/ y.waiting[t] = <<>>
      BY <1>5
    <2>3. CASE t \in W
      <3>1. x.cont[t].fn # "msgwait"
        BY <1>4, <2>1, <2>3 DEF Local, Sleeps, Running
      <3> QED BY <1>3, <1>4, <2>1, <2>2, <2>3, <3>1 DEF Local, Kind, Running
    <2>4. CASE t \notin W
      BY <1>3, <2>1, <2>2, <2>4 DEF Local
    <2> QED BY <2>3, <2>4
  <1>8. Reserved(y.more, w)
    BY <1>2, <1>3, <1>4 DEF Core, Reserved
  <1>9. w[Idle] = v[Idle]
    BY <1>3, <1>4 DEF Core, IdleOK, Running, All
  <1> QED BY <1>1, <1>2, <1>3, <1>6, <1>7, <1>8, <1>9 DEF Core

LEMMA Member ==
  ASSUME NEW S, NEW s \in Seq(S)
  PROVE  /\ Len(s) \in Nat /\ DOMAIN s = 1..Len(s) /\ (s = <<>> <=> Len(s) = 0)
         /\ \A i \in 1..Len(s) : s[i] \in S
  OBVIOUS

LEMMA TimerFacts ==
  ASSUME NEW vt, NEW due, NEW cont, Timers(vt, due, cont)
  PROVE  /\ Len(vt) \in Nat /\ DOMAIN vt = 1..Len(vt)
         /\ \A i \in 1..Len(vt) : /\ vt[i].par \in All /\ vt[i].time \in Times
                                  /\ cont[vt[i].par].fn \in Timed
  <1>1. vt \in Seq([par : All, time : Times])
    BY DEF Timers
  <1>2. \A i \in 1..Len(vt) : vt[i] \in [par : All, time : Times]
    <2> DEFINE S == [par : All, time : Times]
    <2>1. vt \in Seq(S)
      BY <1>1
    <2> HIDE DEF S
    <2>2. \A i \in 1..Len(vt) : vt[i] \in S
      BY <2>1, Member
    <2> QED BY <2>2 DEF S
  <1>3. \A i \in 1..Len(vt) : vt[i].par \in All /\ vt[i].time \in Times
    BY <1>2
  <1> QED BY <1>1, <1>3 DEF Timers

LEMMA NoContFacts == NoCont.fn = "none" /\ ContOK(NoCont) /\ MoreOK(NoCont)
  BY DEF NoCont, ContOK, MoreOK

\* The timers only look at the calls of their threads.
LEMMA TimersKeep ==
  ASSUME NEW vt, NEW due, NEW cont, NEW cont2, Timers(vt, due, cont),
         \A i \in 1..Len(vt) : cont2[vt[i].par].fn \in Timed
  PROVE  Timers(vt, due, cont2)
  BY DEF Timers

\* A thread that ended, or was never created, is created.
LEMMA CoreCreate ==
  ASSUME NEW x, NEW v, NEW y, Core(x, v), NEW t \in All \ {Idle}, v[t] = "FINAL",
         Keeps(x, y, {"st", "prio", "rprio", "preempt", "mtxlist", "epending", "waiting", "q",
                      "cont", "refs", "ref0", "wa", "newer", "older"}),
         DOMAIN y.st = All, DOMAIN y.prio = All, y.prio[Idle] = IDLEPRIO,
         y.preempt = [x.preempt EXCEPT ![t] = CH_TIME_QUANTUM],
         y.mtxlist = [x.mtxlist EXCEPT ![t] = <<>>],
         y.epending = [x.epending EXCEPT ![t] = {}],
         y.waiting = [x.waiting EXCEPT ![t] = <<>>], y.q = [x.q EXCEPT ![t] = <<>>],
         y.cont = [x.cont EXCEPT ![t] = NoCont],
         x.more[t].fn \notin {"alloc", "free"},
         \A a \in All : ~ Reserves(x.more[a], t),
         NEW w, w = [v EXCEPT ![t] = "CURRENT"]
  PROVE  Core(y, w)
  <1>1. Shapes(y)
    BY DEF Core, Shapes, Keeps, Fields
  <1>2. Local(v[t], x.u[t], x.cont[t], x.q[t], x.waiting[t], x.epending[t],
              x.mtxlist[t], x.more[t], x.preempt[t])
    BY DEF Core, Locals
  <1>3. x.cont[t] = NoCont /\ x.q[t] = <<>> /\ x.waiting[t] = <<>> /\ MoreOK(x.more[t])
    BY <1>2 DEF Local, Running, Sleeps
  <1>4. /\ \A o \in WaitQueues : y.q[o] = x.q[o]
        /\ \A p \in All : y.q[p] = x.q[p] /\ y.waiting[p] = x.waiting[p] /\ y.cont[p] = x.cont[p]
        /\ \A s \in AllSems : y.q[s] = x.q[s]
    BY <1>3 DEF Core, Shapes, WaitQueues
  <1>5. /\ y.u = x.u /\ y.more = x.more /\ y.cnt = x.cnt
        /\ y.vt = x.vt /\ y.due = x.due /\ y.owner = x.owner /\ y.ready = x.ready
        /\ y.listeners = x.listeners /\ y.mb = x.mb /\ y.io = x.io
    BY DEF Keeps, Fields
  <1>6. v \in [All -> States] /\ w \in [All -> States] /\ w[t] = "CURRENT"
        /\ \A p \in All : p # t => w[p] = v[p]
    BY DEF Core, States
  <1>7. Queues(y, w)
    <2>1. \A o : Waiters(y, w, o) = Waiters(x, v, o)
      BY <1>5, <1>6 DEF Waiters, Queued
    <2>2. \A p : Joining(y, w, p) = Joining(x, v, p)
      BY <1>4, <1>6 DEF Joining
    <2>3. AreReady(w) = AreReady(v)
      BY <1>6 DEF AreReady
    <2> QED BY <1>4, <1>5, <2>1, <2>2, <2>3 DEF Core, Queues
  <1>8. Locals(y, w)
    <2> SUFFICES ASSUME NEW p \in All
                 PROVE  Local(w[p], x.u[p], x.cont[p], x.q[p], x.waiting[p], y.epending[p],
                              y.mtxlist[p], x.more[p], y.preempt[p])
      BY <1>4, <1>5 DEF Locals
    <2>1. CASE p = t
      <3>1. y.mtxlist[t] = <<>> /\ y.preempt[t] = CH_TIME_QUANTUM
        BY DEF Core, Shapes
      <3>2. CH_TIME_QUANTUM \in 0..CH_TIME_QUANTUM /\ <<>> \in Seq(AllMutexes)
        BY SchedAssumption
      <3> QED BY <1>3, <1>6, <2>1, <3>1, <3>2, NoContFacts DEF Local, Kind, Running
    <2>2. CASE p # t
      <3>1. /\ y.mtxlist[p] = x.mtxlist[p] /\ y.preempt[p] = x.preempt[p]
            /\ y.epending[p] = x.epending[p]
        BY <2>2 DEF Core, Shapes
      <3> QED BY <1>6, <2>2, <3>1 DEF Core, Locals
    <2> QED BY <2>1, <2>2
  <1>9. Counters(y.cnt, y.q)
    BY <1>4, <1>5 DEF Core, Counters
  <1>10. Reserved(y.more, w)
    BY <1>5, <1>6 DEF Core, Reserved
  <1>11. Timers(y.vt, y.due, y.cont)
    <2>1. Timers(x.vt, x.due, x.cont)
      BY DEF Core
    <2>2. \A i \in 1..Len(x.vt) : x.vt[i].par \in All /\ x.cont[x.vt[i].par].fn \in Timed
      BY <2>1, TimerFacts
    <2>3. \A i \in 1..Len(x.vt) : y.cont[x.vt[i].par].fn \in Timed
      BY <2>2, <1>4
    <2> QED BY <2>1, <2>3, <1>5, TimersKeep
  <1>12. IdleOK(y.prio, w[Idle], y.cont[Idle], y.more[Idle])
    BY <1>4, <1>5, <1>6 DEF Core, IdleOK, All
  <1> QED BY <1>1, <1>5, <1>6, <1>7, <1>8, <1>9, <1>10, <1>11, <1>12 DEF Core

\* A sender leaves the queue of the thread it sends to; c has its message.
LEMMA CoreSender ==
  ASSUME NEW x, NEW v, NEW y, Core(x, v), NEW c \in All, NEW t \in All, c # t,
         v[t] = "SNDMSGQ", x.u[t][2] = c, v[c] = "CURRENT",
         \A i \in 1..Len(x.vt) : x.vt[i].par # c,
         Keeps(x, y, {"q", "st", "cont"}), DOMAIN y.st = All, NEW r,
         Exactly(r, Waiters(x, v, c) \ {t}), Upd(x.q, y.q, c, r), Upd(x.cont, y.cont, c, NoCont),
         NEW w, Upd(v, w, t, "SNDMSG")
  PROVE  Core(y, w)
  <1> USE DEF Upd
  <1>1. Shapes(y)
    BY DEF Core, Shapes, Keeps, Fields
  <1>2. /\ y.u = x.u /\ y.more = x.more /\ y.cnt = x.cnt /\ y.waiting = x.waiting
        /\ y.epending = x.epending /\ y.mtxlist = x.mtxlist /\ y.preempt = x.preempt
        /\ y.vt = x.vt /\ y.due = x.due /\ y.owner = x.owner /\ y.ready = x.ready
        /\ y.listeners = x.listeners /\ y.mb = x.mb /\ y.io = x.io /\ y.prio = x.prio
    BY DEF Keeps, Fields
  <1>3. v \in [All -> States] /\ w \in [All -> States] /\ w[t] = "SNDMSG"
        /\ \A p \in All : p # t => w[p] = v[p]
    BY DEF Core, States
  <1>4. /\ c \in WaitQueues /\ y.q[c] = r /\ y.cont[c] = NoCont
        /\ \A o \in WaitQueues : o # c => y.q[o] = x.q[o]
        /\ \A p \in All : p # c => y.q[p] = x.q[p] /\ y.cont[p] = x.cont[p]
        /\ \A s \in AllSems : y.q[s] = x.q[s]
    BY NamesAssumption DEF Core, Shapes, WaitQueues
  <1>5. Queues(y, w)
    <2>1. ASSUME NEW o \in WaitQueues PROVE Exactly(y.q[o], Waiters(y, w, o))
      <3>1. CASE o = c
        <4>1. Waiters(y, w, c) = Waiters(x, v, c) \ {t}
          BY <1>2, <1>3 DEF Waiters, Queued
        <4> QED BY <3>1, <4>1, <1>4
      <3>2. CASE o # c
        <4>1. Waiters(y, w, o) = Waiters(x, v, o)
          BY <1>2, <1>3, <3>2 DEF Waiters, Queued
        <4> QED BY <3>2, <4>1, <1>4 DEF Core, Queues
      <3> QED BY <3>1, <3>2
    <2>2. \A p : Joining(y, w, p) = Joining(x, v, p)
      BY <1>3, <1>4 DEF Joining
    <2>3. AreReady(w) = AreReady(v)
      BY <1>3 DEF AreReady
    <2> QED BY <1>2, <2>1, <2>2, <2>3 DEF Core, Queues
  <1>6. Locals(y, w)
    <2> SUFFICES ASSUME NEW p \in All
                 PROVE  Local(w[p], x.u[p], y.cont[p], y.q[p], x.waiting[p], x.epending[p],
                              x.mtxlist[p], x.more[p], x.preempt[p])
      BY <1>2 DEF Locals
    <2>1. Local(v[p], x.u[p], x.cont[p], x.q[p], x.waiting[p], x.epending[p],
                x.mtxlist[p], x.more[p], x.preempt[p])
      BY DEF Core, Locals
    <2>2. CASE p = c
      BY <1>3, <1>4, <2>1, <2>2 DEF Local, Kind, ContOK, Running, NoCont
    <2>3. CASE p = t
      <3>1. x.cont[t].fn = "send"
        BY <2>1, <2>3 DEF Local, Sleeps, Running
      <3>2. Sleeps(x.cont[t].fn, "SNDMSG") /\ x.cont[t].fn # "msgwait"
        BY <3>1 DEF Sleeps
      <3> QED BY <1>3, <1>4, <2>1, <2>3, <3>2 DEF Local, Kind, Running
    <2>4. CASE p # c /\ p # t
      BY <1>3, <1>4, <2>1, <2>4
    <2> QED BY <2>2, <2>3, <2>4
  <1>7. Counters(y.cnt, y.q)
    BY <1>2, <1>4 DEF Core, Counters
  <1>8. Reserved(y.more, w)
    BY <1>2, <1>3 DEF Core, Reserved
  <1>9. Timers(y.vt, y.due, y.cont)
    <2>1. Timers(x.vt, x.due, x.cont)
      BY DEF Core
    <2>2. \A i \in 1..Len(x.vt) : x.vt[i].par \in All /\ x.cont[x.vt[i].par].fn \in Timed
      BY <2>1, TimerFacts
    <2>3. \A i \in 1..Len(x.vt) : y.cont[x.vt[i].par].fn \in Timed
      BY <2>2, <1>4
    <2> QED BY <2>1, <2>3, <1>2, TimersKeep
  <1>10. IdleOK(y.prio, w[Idle], y.cont[Idle], y.more[Idle])
    BY <1>2, <1>3, <1>4 DEF Core, IdleOK, All, Running
  <1> QED BY <1>1, <1>2, <1>3, <1>5, <1>6, <1>7, <1>8, <1>9, <1>10 DEF Core

\* A queue in another order.
LEMMA CoreRequeue ==
  ASSUME NEW x, NEW v, NEW y, Core(x, v), NEW o \in AllMutexes \cup Conds,
         Keeps(x, y, {"q"}), NEW r, Exactly(r, Waiters(x, v, o)), Upd(x.q, y.q, o, r)
  PROVE  Core(y, v)
  <1> USE DEF Upd
  <1>1. Shapes(y)
    BY DEF Core, Shapes, Keeps, Fields
  <1>2. /\ y.u = x.u /\ y.more = x.more /\ y.cnt = x.cnt /\ y.waiting = x.waiting
        /\ y.epending = x.epending /\ y.mtxlist = x.mtxlist /\ y.preempt = x.preempt
        /\ y.vt = x.vt /\ y.due = x.due /\ y.owner = x.owner /\ y.ready = x.ready
        /\ y.listeners = x.listeners /\ y.mb = x.mb /\ y.io = x.io /\ y.prio = x.prio
        /\ y.cont = x.cont
    BY DEF Keeps, Fields
  <1>3. /\ o \in WaitQueues /\ y.q[o] = r
        /\ \A p \in WaitQueues : p # o => y.q[p] = x.q[p]
        /\ \A p \in All : y.q[p] = x.q[p]
        /\ \A s \in AllSems : y.q[s] = x.q[s]
    BY NamesAssumption DEF Core, Shapes, WaitQueues
  <1>4. Queues(y, v)
    <2>1. \A p : Waiters(y, v, p) = Waiters(x, v, p) /\ Joining(y, v, p) = Joining(x, v, p)
      BY <1>2 DEF Waiters, Joining
    <2> QED BY <1>2, <1>3, <2>1 DEF Core, Queues
  <1>5. Locals(y, v)
    BY <1>2, <1>3 DEF Core, Locals
  <1>6. Counters(y.cnt, y.q)
    BY <1>2, <1>3 DEF Core, Counters
  <1> QED BY <1>1, <1>2, <1>4, <1>5, <1>6 DEF Core

\* The data of the mailbox and the queues, counters and listeners.
LEMMA CoreData ==
  ASSUME NEW x, NEW v, NEW y, Core(x, v), Keeps(x, y, {"mb", "io", "listeners", "cnt", "flags"}),
         MBOK(y.mb), IOOK(y.io), Listeners(y.listeners), DOMAIN y.cnt = AllSems,
         Counters(y.cnt, x.q)
  PROVE  Core(y, v)
  <1>1. Shapes(y)
    BY DEF Core, Shapes, Keeps, Fields
  <1>2. /\ y.u = x.u /\ y.more = x.more /\ y.waiting = x.waiting /\ y.q = x.q
        /\ y.epending = x.epending /\ y.mtxlist = x.mtxlist /\ y.preempt = x.preempt
        /\ y.vt = x.vt /\ y.due = x.due /\ y.owner = x.owner /\ y.ready = x.ready
        /\ y.prio = x.prio /\ y.cont = x.cont
    BY DEF Keeps, Fields
  <1>3. Queues(y, v)
    BY <1>2 DEF Core, Queues, Waiters, Joining
  <1>4. Locals(y, v)
    BY <1>2 DEF Core, Locals
  <1> QED BY <1>1, <1>2, <1>3, <1>4 DEF Core

-----------------------------------------------------------------------------
(***************************************************************************)
(* The list of timers.                                                     *)
(***************************************************************************)

\* A list with e put in at n, followed by b.
LEMMA PutAt ==
  ASSUME NEW A, NEW s \in Seq(A), NEW e \in A, NEW n \in 1..(Len(s) + 1), NEW b \in Seq(A),
         NEW r, r = SubSeq(s, 1, n - 1) \o <<e>> \o b
  PROVE  /\ r \in Seq(A) /\ Len(r) = n + Len(b) /\ r[n] = e /\ Len(b) \in Nat
         /\ \A i \in 1..(n - 1) : r[i] = s[i]
         /\ \A i \in (n + 1)..(n + Len(b)) : r[i] = b[i - n]
  <1> DEFINE a == SubSeq(s, 1, n - 1)
             c == a \o <<e>>
  <1>1. a \in Seq(A) /\ Len(a) = n - 1 /\ \A i \in 1..(n - 1) : a[i] = s[i]
    OBVIOUS
  <1> HIDE DEF a
  <1>2. c \in Seq(A) /\ Len(c) = n /\ c[n] = e /\ \A i \in 1..(n - 1) : c[i] = a[i]
    <2> DEFINE d == <<e>>
    <2>1. d \in Seq(A) /\ Len(d) = 1 /\ d[1] = e
      OBVIOUS
    <2> HIDE DEF d
    <2>2. /\ a \o d \in Seq(A) /\ Len(a \o d) = Len(a) + Len(d)
          /\ \A i \in 1..Len(a) : (a \o d)[i] = a[i]
          /\ \A i \in (Len(a) + 1)..(Len(a) + Len(d)) : (a \o d)[i] = d[i - Len(a)]
      BY <1>1, <2>1, Joined
    <2>3. n \in (Len(a) + 1)..(Len(a) + Len(d)) /\ n - Len(a) = 1 /\ Len(a) + Len(d) = n
      BY <1>1, <2>1
    <2>4. c = a \o d
      BY DEF d
    <2> HIDE DEF c
    <2> QED BY <1>1, <2>1, <2>2, <2>3, <2>4
  <1>3. r = c \o b
    BY DEF c, a
  <1> HIDE DEF c
  <1>4. /\ r \in Seq(A) /\ Len(r) = Len(c) + Len(b) /\ Len(b) \in Nat
        /\ \A i \in 1..Len(c) : r[i] = c[i]
        /\ \A i \in (Len(c) + 1)..(Len(c) + Len(b)) : r[i] = b[i - Len(c)]
    <2>1. c \in Seq(A) /\ b \in Seq(A)
      BY <1>2
    <2>2. /\ c \o b \in Seq(A) /\ Len(c \o b) = Len(c) + Len(b) /\ Len(b) \in Nat
          /\ \A i \in 1..Len(c) : (c \o b)[i] = c[i]
          /\ \A i \in (Len(c) + 1)..(Len(c) + Len(b)) : (c \o b)[i] = b[i - Len(c)]
      BY <2>1, Joined, SMTT(30)
    <2> QED BY <2>2, <1>3, Zenon
  <1>5. \A i \in 1..(n - 1) : r[i] = s[i]
    BY <1>1, <1>2, <1>4
  <1> QED BY <1>2, <1>4, <1>5, SMTT(30)

\* A list whose part from n on is replaced by b.
LEMMA CutAt ==
  ASSUME NEW A, NEW s \in Seq(A), NEW n \in 1..(Len(s) + 1), NEW b \in Seq(A),
         NEW r, r = SubSeq(s, 1, n - 1) \o b
  PROVE  /\ r \in Seq(A) /\ Len(r) = n - 1 + Len(b) /\ Len(b) \in Nat
         /\ \A i \in 1..(n - 1) : r[i] = s[i]
         /\ \A i \in n..(n - 1 + Len(b)) : r[i] = b[i - (n - 1)]
  <1> DEFINE a == SubSeq(s, 1, n - 1)
  <1>1. a \in Seq(A) /\ Len(a) = n - 1 /\ \A i \in 1..(n - 1) : a[i] = s[i]
    OBVIOUS
  <1>2. r = a \o b
    BY DEF a
  <1> HIDE DEF a
  <1>3. /\ r \in Seq(A) /\ Len(r) = Len(a) + Len(b) /\ Len(b) \in Nat
        /\ \A i \in 1..Len(a) : r[i] = a[i]
        /\ \A i \in (Len(a) + 1)..(Len(a) + Len(b)) : r[i] = b[i - Len(a)]
    BY <1>1, <1>2, Joined, SMTT(30)
  <1>4. \A i \in 1..(n - 1) : r[i] = s[i]
    BY <1>1, <1>3
  <1>5. \A i \in n..(n - 1 + Len(b)) : r[i] = b[i - (n - 1)]
    BY <1>1, <1>3, SMTT(30)
  <1> QED BY <1>1, <1>3, <1>4, <1>5

TimerRecs == [par : All, time : Times]

\* The distances add up to the ticks that are left, which do not decrease.
LEMMA ExpiriesAre ==
  ASSUME NEW vt, NEW due, NEW cont, Timers(vt, due, cont)
  PROVE  /\ Expiries(vt)[0] = 0
         /\ \A i \in 1..Len(vt) : Expiries(vt)[i] = due[vt[i].par]
  <1> DEFINE g(a, i) == a + vt[i].time
             N == Len(vt)
             F == Fold(0, N, g)
  <1>1. Expiries(vt) = F
    BY DEF Expiries, Fold
  <1>2. N \in Nat /\ \A i \in 1..N : vt[i].par \in All /\ vt[i].time \in Times
    BY TimerFacts
  <1>3. \A i \in 1..N : vt[i].time = Gap(vt, due, i)
    BY DEF Timers
  <1>4. \A t \in All : due[t] \in Int
    BY SchedAssumption DEF Timers, Times
  <1> DEFINE P(n, a) == a = IF n = 0 THEN 0 ELSE due[vt[n].par]
  <1> HIDE DEF N
  <1>5. Folds(0, N, g)
    <2> HIDE DEF g
    <2> QED BY <1>2, FoldsAll
  <1>6. \A n \in 0..N : F[n] = IF n = 0 THEN 0 ELSE F[n - 1] + vt[n].time
    BY <1>5 DEF Folds
  <1> HIDE DEF F
  <1> DEFINE Q(n) == n \in 0..N => P(n, F[n])
  <1>7. Q(0)
    BY <1>2, <1>6
  <1>8. ASSUME NEW n \in Nat, Q(n) PROVE Q(n + 1)
    <2> SUFFICES ASSUME n + 1 \in 0..N PROVE P(n + 1, F[n + 1])
      OBVIOUS
    <2>1. n \in 0..N /\ n + 1 \in 1..N /\ (n + 1) - 1 = n /\ n + 1 # 0
      BY <1>2
    <2>2. F[n + 1] = F[n] + vt[n + 1].time
      BY <1>6, <2>1
    <2>3. vt[n + 1].time = due[vt[n + 1].par] - (IF n + 1 = 1 THEN 0 ELSE due[vt[n].par])
      BY <1>3, <2>1 DEF Gap
    <2>4. F[n] = IF n = 0 THEN 0 ELSE due[vt[n].par]
      BY <1>8, <2>1
    <2>5. due[vt[n + 1].par] \in Int
      BY <2>1, <1>2, <1>4
    <2>6. CASE n = 0
      BY <2>2, <2>3, <2>4, <2>5, <2>6
    <2>7. CASE n # 0
      <3>1. n \in 1..N
        BY <2>1, <2>7
      <3>2. due[vt[n].par] \in Int
        BY <3>1, <1>2, <1>4
      <3> QED BY <2>2, <2>3, <2>4, <2>5, <2>7, <3>2
    <2> QED BY <2>6, <2>7
  <1>9. Inductive(Q)
    <2> HIDE DEF Q
    <2> QED BY Induction
  <1>10. \A n \in Nat : Q(n)
    <2> HIDE DEF Q
    <2> QED BY <1>7, <1>8, <1>9 DEF Inductive
  <1> QED BY <1>1, <1>2, <1>10 DEF N

LEMMA DueFacts ==
  ASSUME NEW vt, NEW due, NEW cont, Timers(vt, due, cont)
  PROVE  /\ \A t \in All : due[t] \in Times /\ due[t] \in Int
         /\ \A i \in 1..Len(vt) : /\ due[vt[i].par] >= 1 /\ vt[i].time >= 0 /\ vt[i].time \in Int
                                  /\ vt[i].time = due[vt[i].par]
                                         - (IF i = 1 THEN 0 ELSE due[vt[i - 1].par])
  <1>1. \A t \in All : due[t] \in Times
    BY DEF Timers
  <1>2. \A i \in 1..Len(vt) : vt[i].time \in Times
    BY TimerFacts
  <1>3. \A a \in Times : a \in Int /\ a >= 0
    BY SchedAssumption DEF Times
  <1> QED BY <1>1, <1>2, <1>3 DEF Timers, Gap

\* A list of timers with the distances of due.
LEMMA TimersIf ==
  ASSUME NEW vt \in Seq(TimerRecs), NEW due \in [All -> Times], NEW cont,
         \A i \in 1..Len(vt) : /\ vt[i].time = due[vt[i].par]
                                       - (IF i = 1 THEN 0 ELSE due[vt[i - 1].par])
                               /\ due[vt[i].par] >= 1 /\ cont[vt[i].par].fn \in Timed,
         \A i, j \in 1..Len(vt) : vt[i].par = vt[j].par => i = j
  PROVE  Timers(vt, due, cont)
  BY DEF Timers, TimerRecs, Gap

\* chVTSetI keeps the list exact.
LEMMA SetTimers ==
  ASSUME NEW x, DOMAIN x = Fields, Timers(x.vt, x.due, x.cont), NEW t \in All,
         NEW time \in 1..(TimeMod - 1), \A i \in 1..Len(x.vt) : x.vt[i].par # t,
         NEW y, y = chVTSetI(x, t, time), NEW cont, cont[t].fn \in Timed,
         \A p \in All : p # t => cont[p] = x.cont[p]
  PROVE  Keeps(x, y, {"vt", "due"}) /\ Timers(y.vt, y.due, cont)
  <1> DEFINE vt == x.vt
             due == x.due
             N == Len(vt)
             f == Expiries(vt)
             P == {i \in DOMAIN vt : f[i] >= time}
             n == IF P = {} THEN Len(vt) + 1 ELSE CHOOSE i \in P : \A j \in P : i <= j
             new == [par |-> t, time |-> time - f[n - 1]]
             tail == SubSeq(vt, n, Len(vt))
             rest == [tail EXCEPT ![1].time = @ - new.time]
             b == IF P = {} THEN <<>> ELSE rest
             r == SubSeq(vt, 1, n - 1) \o <<new>> \o b
             d(i) == due[vt[i].par]
  <1>1. Keeps(x, y, {"vt", "due"}) /\ y.vt = r /\ y.due = [x.due EXCEPT ![t] = time]
    BY DEF chVTSetI, Keeps, Fields
  <1>2. vt \in Seq(TimerRecs) /\ due \in [All -> Times]
    BY DEF Timers, TimerRecs
  <1>3. /\ N \in Nat /\ DOMAIN vt = 1..N
        /\ \A i \in 1..N : vt[i].par \in All /\ vt[i].time \in Times /\ x.cont[vt[i].par].fn \in Timed
    BY TimerFacts
  <1>4. f[0] = 0 /\ \A i \in 1..N : f[i] = d(i)
    BY ExpiriesAre
  <1>5. \A i \in 1..N : /\ d(i) \in Int /\ d(i) >= 1 /\ vt[i].time >= 0 /\ vt[i].time \in Int
                        /\ vt[i].time = d(i) - (IF i = 1 THEN 0 ELSE d(i - 1))
    BY <1>3, DueFacts
  <1>6. \A i, j \in 1..N : vt[i].par = vt[j].par => i = j
    BY DEF Timers
  <1>7. TimeMod \in Nat /\ TimeMod >= 4 /\ time \in Int /\ time >= 1 /\ time \in Times
    BY SchedAssumption DEF Times
  <1> HIDE DEF f, N
  <1>8. /\ n \in 1..(N + 1) /\ (P = {} => n = N + 1) /\ (P # {} => n \in 1..N /\ d(n) >= time)
        /\ \A i \in 1..(n - 1) : d(i) < time
    <2>1. CASE P = {}
      <3>1. \A i \in 1..N : ~ (f[i] >= time)
        BY <2>1, <1>3
      <3>2. n = N + 1
        BY <2>1 DEF N
      <3> HIDE DEF n, P
      <3>3. ASSUME NEW i \in 1..(n - 1) PROVE d(i) < time
        <4>1. i \in 1..N
          BY <3>2, <1>3
        <4> QED BY <4>1, <3>1, <1>4, <1>5, <1>7
      <3> QED BY <2>1, <3>2, <3>3, <1>3
    <2>2. CASE P # {}
      <3>1. P \subseteq 1..N
        BY <1>3
      <3>2. n \in P /\ \A j \in P : n <= j
        <4> HIDE DEF P
        <4> QED BY <2>2, <3>1, <1>3, FirstOf
      <3> HIDE DEF n
      <3>3. n \in 1..N /\ d(n) >= time
        BY <3>2, <1>3, <1>4
      <3>4. ASSUME NEW i \in 1..(n - 1) PROVE d(i) < time
        <4>1. i \in 1..N /\ i < n
          BY <3>3, <1>3
        <4>2. i \notin P
          BY <3>2, <3>3, <4>1
        <4>3. ~ (d(i) >= time)
          BY <4>1, <4>2, <1>3, <1>4
        <4> QED BY <4>1, <4>3, <1>5, <1>7
      <3> QED BY <2>2, <3>3, <3>4, <1>3
    <2> QED BY <2>1, <2>2
  <1> HIDE DEF P, n
  <1> DEFINE before == IF n = 1 THEN 0 ELSE d(n - 1)
  <1>9. before \in Int /\ before >= 0 /\ before < time /\ f[n - 1] = before
    BY <1>3, <1>4, <1>5, <1>7, <1>8
  <1> HIDE DEF before
  <1>10. new \in TimerRecs /\ new.par = t /\ new.time = time - before /\ new.time \in Int
    BY <1>7, <1>9 DEF TimerRecs, Times
  <1> HIDE DEF new
  <1>11. /\ b \in Seq(TimerRecs) /\ Len(b) = N + 1 - n
         /\ \A i \in 1..(N + 1 - n) :
                /\ b[i].par = vt[n + i - 1].par
                /\ b[i].time = vt[n + i - 1].time - (IF i = 1 THEN new.time ELSE 0)
    <2>1. CASE P = {}
      BY <2>1, <1>3, <1>8
    <2>2. CASE P # {}
      <3>1. tail \in Seq(TimerRecs) /\ Len(tail) = N + 1 - n /\ DOMAIN tail = 1..(N + 1 - n)
            /\ \A i \in 1..(N + 1 - n) : tail[i] = vt[n + i - 1]
        BY <1>2, <1>3, <1>8 DEF N
      <3> HIDE DEF tail
      <3>2. \A i \in 1..(N + 1 - n) : tail[i] \in TimerRecs
        BY <3>1, Member
      <3>3. /\ DOMAIN rest = 1..(N + 1 - n)
            /\ \A i \in 1..(N + 1 - n) :
                  rest[i] = IF i = 1 THEN [tail[1] EXCEPT !.time = @ - new.time] ELSE tail[i]
        BY <3>1
      <3>4. 1 \in 1..(N + 1 - n) /\ n + 1 - 1 = n /\ tail[1] = vt[n]
        BY <3>1, <1>3, <1>8, <2>2
      <3>5. vt[n].time - new.time \in Times
        <4>1. vt[n].time - new.time = d(n) - time
          <5>1. n \in 1..N
            BY <1>8, <2>2
          <5>2. vt[n].time = d(n) - before /\ d(n) \in Int
            BY <5>1, <1>5 DEF before
          <5> QED BY <5>2, <1>7, <1>9, <1>10
        <4>2. d(n) \in Times
          BY <1>3, <1>2, <1>8, <2>2
        <4> QED BY <4>1, <4>2, <1>7, <1>8, <2>2 DEF Times
      <3>6. rest[1] \in TimerRecs /\ rest[1].par = tail[1].par
            /\ rest[1].time = tail[1].time - new.time
        <4>1. tail[1] \in [par : All, time : Times] /\ tail[1].time - new.time \in Times
          BY <3>2, <3>4, <3>5 DEF TimerRecs
        <4>2. rest[1] = [tail[1] EXCEPT !.time = @ - new.time]
          BY <3>3, <3>4
        <4> HIDE DEF rest
        <4> QED BY <4>1, <4>2 DEF TimerRecs
      <3>7. rest \in Seq(TimerRecs) /\ Len(rest) = N + 1 - n
        <4>1. \A i \in 1..(N + 1 - n) : rest[i] \in TimerRecs
          BY <3>2, <3>3, <3>6
        <4>2. rest = [i \in 1..(N + 1 - n) |-> rest[i]]
          BY <3>1
        <4>3. N + 1 - n \in Nat
          BY <1>3, <1>8
        <4> HIDE DEF rest
        <4> QED BY <4>1, <4>2, <4>3
      <3>8. \A i \in 1..(N + 1 - n) :
                /\ rest[i].par = vt[n + i - 1].par
                /\ rest[i].time = vt[n + i - 1].time - (IF i = 1 THEN new.time ELSE 0)
        <4> TAKE i \in 1..(N + 1 - n)
        <4>1. CASE i = 1
          BY <4>1, <3>4, <3>6
        <4>2. CASE i # 1
          <5>3. rest[i] = tail[i] /\ tail[i] = vt[n + i - 1]
            BY <4>2, <3>1, <3>3
          <5> HIDE DEF rest
          <5>0. rest[i] = vt[n + i - 1] /\ n + i - 1 \in 1..N
            BY <5>3, <1>3, <1>8
          <5>2. vt[n + i - 1].time \in Int
            BY <5>0, <1>5
          <5> QED BY <4>2, <5>0, <5>2
        <4> QED BY <4>1, <4>2
      <3> HIDE DEF rest
      <3> QED BY <2>2, <3>7, <3>8
    <2> QED BY <2>1, <2>2
  <1> HIDE DEF b
  <1>12. /\ r \in Seq(TimerRecs) /\ Len(r) = N + 1 /\ r[n] = new
         /\ \A i \in 1..(n - 1) : r[i] = vt[i]
         /\ \A i \in (n + 1)..(N + 1) : r[i] = b[i - n]
    <2>1. /\ vt \in Seq(TimerRecs) /\ new \in TimerRecs /\ b \in Seq(TimerRecs)
          /\ n \in 1..(Len(vt) + 1) /\ r = SubSeq(vt, 1, n - 1) \o <<new>> \o b
      BY <1>2, <1>8, <1>10, <1>11 DEF N
    <2> HIDE DEF r, vt
    <2>2. /\ r \in Seq(TimerRecs) /\ Len(r) = n + Len(b) /\ r[n] = new
          /\ \A i \in 1..(n - 1) : r[i] = vt[i]
          /\ \A i \in (n + 1)..(n + Len(b)) : r[i] = b[i - n]
      BY <2>1, PutAt
    <2>3. n + Len(b) = N + 1
      BY <1>3, <1>8, <1>11
    <2> QED BY <2>2, <2>3
  <1> HIDE DEF r
  <1> DEFINE due2 == [due EXCEPT ![t] = time]
             at(i) == IF i < n THEN i ELSE i - 1
  <1>13. due2 \in [All -> Times] /\ due2[t] = time /\ \A i \in 1..N : due2[vt[i].par] = d(i)
    BY <1>2, <1>3, <1>7 DEF N
  <1> HIDE DEF due2
  <1>14. ASSUME NEW i \in 1..(N + 1), i # n
         PROVE  at(i) \in 1..N /\ r[i].par = vt[at(i)].par
    <2>1. CASE i < n
      BY <2>1, <1>3, <1>8, <1>12
    <2>2. CASE i > n
      <3>1. i - n \in 1..(N + 1 - n) /\ n + (i - n) - 1 = i - 1 /\ i - 1 \in 1..N
        BY <2>2, <1>3, <1>8
      <3>2. r[i] = b[i - n] /\ b[i - n].par = vt[i - 1].par
        BY <2>2, <3>1, <1>11, <1>12, <1>8, <1>3
      <3>3. at(i) = i - 1
        BY <2>2, <1>8
      <3> QED BY <3>1, <3>2, <3>3
    <2> QED BY <2>1, <2>2, <1>14, <1>8
  <1>15. r[n].par = t
    BY <1>10, <1>12
  <1>16. \A i \in 1..(N + 1) : due2[r[i].par] = IF i = n THEN time ELSE d(at(i))
    BY <1>13, <1>14, <1>15
  <1>17. ASSUME NEW i \in 1..(N + 1)
         PROVE  r[i].time = due2[r[i].par] - (IF i = 1 THEN 0 ELSE due2[r[i - 1].par])
    <2>1. CASE i < n
      <3>1. r[i] = vt[i] /\ i \in 1..N /\ due2[r[i].par] = d(i)
        <4>1. i \in 1..(n - 1) /\ i \in 1..N /\ i # n
          BY <2>1, <1>3, <1>8
        <4> QED BY <2>1, <4>1, <1>12, <1>16
      <3>2. i # 1 => i - 1 \in 1..(N + 1) /\ i - 1 # n /\ i - 1 < n /\ due2[r[i - 1].par] = d(i - 1)
        BY <2>1, <1>3, <1>8, <1>16
      <3> QED BY <3>1, <3>2, <1>5
    <2>2. CASE i = n
      <3>1. i # 1 => i - 1 \in 1..(N + 1) /\ i - 1 # n /\ i - 1 < n /\ due2[r[i - 1].par] = d(i - 1)
        BY <2>2, <1>3, <1>8, <1>16
      <3> QED BY <2>2, <3>1, <1>10, <1>12, <1>13, <1>15 DEF before
    <2>3. CASE i > n
      <3>1. i - n \in 1..(N + 1 - n) /\ n + (i - n) - 1 = i - 1 /\ i - 1 \in 1..N /\ i # 1
            /\ i - 1 \in 1..(N + 1)
        BY <2>3, <1>3, <1>8
      <3>2. r[i].time = vt[i - 1].time - (IF i - n = 1 THEN new.time ELSE 0)
        <4>1. i \in (n + 1)..(N + 1)
          BY <2>3, <1>3, <1>8
        <4>2. r[i] = b[i - n]
          BY <4>1, <1>12
        <4>3. b[i - n].time = vt[n + (i - n) - 1].time - (IF i - n = 1 THEN new.time ELSE 0)
          BY <3>1, <1>11
        <4> QED BY <3>1, <4>2, <4>3
      <3>3. due2[r[i].par] = d(i - 1)
        <4>1. i # n /\ at(i) = i - 1
          BY <2>3, <1>8
        <4> HIDE DEF at, d
        <4> QED BY <4>1, <1>16
      <3>4. CASE i = n + 1
        <4>1. due2[r[i - 1].par] = time /\ i - 1 = n
          BY <3>4, <3>1, <1>16, <1>8
        <4>2. vt[n].time = d(n) - before
          BY <3>1, <4>1, <1>5 DEF before
        <4>3. r[i].time = vt[n].time - new.time /\ due2[r[i].par] = d(n)
          BY <3>2, <3>3, <3>4, <4>1, <1>8
        <4>4. d(n) \in Int
          BY <3>1, <4>1, <1>5
        <4>5. r[i].time = d(n) - time
          BY <4>2, <4>3, <4>4, <1>7, <1>9, <1>10
        <4> QED BY <3>1, <4>1, <4>3, <4>5
      <3>5. CASE i # n + 1
        <4>1. due2[r[i - 1].par] = d(i - 2) /\ i - 1 # 1
          <5>1. i - 1 # n /\ ~ (i - 1 < n) /\ (i - 1) - 1 = i - 2
            BY <2>3, <3>5, <1>8
          <5> QED BY <3>1, <5>1, <1>16, <1>8, <2>3
        <4>2. vt[i - 1].time = d(i - 1) - d(i - 2)
          <5>1. vt[i - 1].time = d(i - 1) - d((i - 1) - 1) /\ (i - 1) - 1 = i - 2
            BY <3>1, <4>1, <1>5
          <5> QED BY <5>1
        <4>3. i - n # 1 /\ vt[i - 1].time \in Int
          BY <3>1, <3>5, <1>5, <1>8
        <4> QED BY <3>1, <3>2, <3>3, <4>1, <4>2, <4>3
      <3> QED BY <3>4, <3>5
    <2> QED BY <2>1, <2>2, <2>3, <1>8
  <1>18. \A i \in 1..(N + 1) : due2[r[i].par] >= 1 /\ cont[r[i].par].fn \in Timed
    <2> TAKE i \in 1..(N + 1)
    <2>1. CASE i = n
      BY <2>1, <1>7, <1>15, <1>16
    <2>2. CASE i # n
      <3>1. at(i) \in 1..N /\ r[i].par = vt[at(i)].par /\ due2[r[i].par] = d(at(i))
        BY <2>2, <1>14, <1>16
      <3> HIDE DEF at
      <3>2. d(at(i)) >= 1 /\ vt[at(i)].par \in All /\ vt[at(i)].par # t
            /\ x.cont[vt[at(i)].par].fn \in Timed
        BY <3>1, <1>3, <1>5 DEF N
      <3> QED BY <3>1, <3>2
    <2> QED BY <2>1, <2>2
  <1>19. ASSUME NEW i \in 1..(N + 1), NEW j \in 1..(N + 1), r[i].par = r[j].par PROVE i = j
    <2>1. ASSUME NEW m \in 1..(N + 1), m # n PROVE r[m].par # t
      <3>1. at(m) \in 1..N /\ r[m].par = vt[at(m)].par
        BY <2>1, <1>14
      <3> HIDE DEF at
      <3> QED BY <3>1 DEF N
    <2>2. CASE i = n \/ j = n
      BY <2>1, <2>2, <1>15, <1>19
    <2>3. CASE i # n /\ j # n
      <3>1. at(i) \in 1..N /\ at(j) \in 1..N /\ vt[at(i)].par = vt[at(j)].par
        BY <2>3, <1>14, <1>19
      <3> HIDE DEF at
      <3>2. at(i) = at(j)
        BY <3>1, <1>6
      <3> QED BY <3>2, <2>3, <1>8 DEF at
    <2> QED BY <2>2, <2>3
  <1>20. Timers(r, due2, cont)
    BY <1>12, <1>13, <1>17, <1>18, <1>19, TimersIf
  <1> QED BY <1>1, <1>20 DEF due2

\* chVTResetI does, too, and the timer is gone.
LEMMA ResetTimers ==
  ASSUME NEW x, DOMAIN x = Fields, Timers(x.vt, x.due, x.cont), NEW t \in All,
         \E i \in 1..Len(x.vt) : x.vt[i].par = t,
         NEW y, y = chVTResetI(x, t)
  PROVE  /\ Keeps(x, y, {"vt", "due"}) /\ Timers(y.vt, y.due, x.cont)
         /\ \A i \in 1..Len(y.vt) : y.vt[i].par # t
  <1> DEFINE vt == x.vt
             due == x.due
             N == Len(vt)
             n == CHOOSE i \in DOMAIN vt : vt[i].par = t
             tail == SubSeq(vt, n + 1, Len(vt))
             rest == [tail EXCEPT ![1].time = @ + vt[n].time]
             b == IF n = Len(vt) THEN <<>> ELSE rest
             r == SubSeq(vt, 1, n - 1) \o b
             d(i) == due[vt[i].par]
  <1>1. Keeps(x, y, {"vt", "due"}) /\ y.vt = r /\ y.due = [x.due EXCEPT ![t] = 0]
    BY DEF chVTResetI, Keeps, Fields
  <1>2. vt \in Seq(TimerRecs) /\ due \in [All -> Times]
    BY DEF Timers, TimerRecs
  <1>3. /\ N \in Nat /\ DOMAIN vt = 1..N
        /\ \A i \in 1..N : vt[i].par \in All /\ vt[i].time \in Times /\ x.cont[vt[i].par].fn \in Timed
    BY TimerFacts
  <1>4. n \in 1..N /\ vt[n].par = t
    BY <1>3
  <1>5. \A i \in 1..N : /\ d(i) \in Int /\ d(i) >= 1 /\ vt[i].time >= 0 /\ vt[i].time \in Int
                        /\ vt[i].time = d(i) - (IF i = 1 THEN 0 ELSE d(i - 1))
    BY <1>3, DueFacts
  <1>6. \A i, j \in 1..N : vt[i].par = vt[j].par => i = j
    BY DEF Timers
  <1>7. TimeMod \in Nat /\ TimeMod >= 4 /\ 0 \in Times
    BY SchedAssumption DEF Times
  <1> HIDE DEF n, N
  <1> DEFINE before == IF n = 1 THEN 0 ELSE d(n - 1)
  <1>8. before \in Int /\ before >= 0 /\ vt[n].time = d(n) - before /\ d(n) \in Int
        /\ vt[n].time \in Int /\ vt[n].time >= 0
    <2>1. /\ d(n) \in Int /\ vt[n].time >= 0 /\ vt[n].time \in Int
          /\ vt[n].time = d(n) - (IF n = 1 THEN 0 ELSE d(n - 1))
      BY <1>4, <1>5
    <2>2. n # 1 => d(n - 1) \in Int /\ d(n - 1) >= 1
      <3>1. n # 1 => n - 1 \in 1..N
        BY <1>3, <1>4
      <3> HIDE DEF d
      <3> QED BY <3>1, <1>5
    <2> HIDE DEF d
    <2> QED BY <2>1, <2>2
  <1> HIDE DEF before
  <1>9. /\ b \in Seq(TimerRecs) /\ Len(b) = N - n
        /\ \A i \in 1..(N - n) :
                /\ b[i].par = vt[n + i].par
                /\ b[i].time = vt[n + i].time + (IF i = 1 THEN vt[n].time ELSE 0)
    <2>1. CASE n = N
      <3>1. b = <<>> /\ N - n = 0
        BY <2>1, <1>3, <1>4 DEF N
      <3>2. <<>> \in Seq(TimerRecs) /\ Len(<<>>) = 0 /\ 1..0 = {}
        OBVIOUS
      <3> HIDE DEF b
      <3> QED BY <3>1, <3>2
    <2>2. CASE n # N
      <3>1. tail \in Seq(TimerRecs) /\ Len(tail) = N - n /\ DOMAIN tail = 1..(N - n)
            /\ \A i \in 1..(N - n) : tail[i] = vt[n + i]
        BY <1>2, <1>3, <1>4 DEF N
      <3> HIDE DEF tail
      <3>2. \A i \in 1..(N - n) : tail[i] \in TimerRecs
        BY <3>1, Member
      <3>3. /\ DOMAIN rest = 1..(N - n)
            /\ \A i \in 1..(N - n) :
                  rest[i] = IF i = 1 THEN [tail[1] EXCEPT !.time = @ + vt[n].time] ELSE tail[i]
        BY <3>1
      <3>4. 1 \in 1..(N - n) /\ tail[1] = vt[n + 1] /\ n + 1 \in 1..N
        BY <3>1, <1>3, <1>4, <2>2
      <3>5. vt[n + 1].time + vt[n].time \in Times
        <4>1. vt[n + 1].time = d(n + 1) - d(n) /\ d(n + 1) \in Int /\ vt[n + 1].time >= 0
          <5>1. n + 1 # 1 /\ (n + 1) - 1 = n
            BY <1>4
          <5> QED BY <5>1, <3>4, <1>5
        <4>2. d(n + 1) \in Times
          BY <1>3, <1>2, <3>4
        <4>3. vt[n + 1].time + vt[n].time = d(n + 1) - before /\ vt[n + 1].time + vt[n].time >= 0
          <5>1. vt[n + 1].time \in Int
            BY <3>4, <1>5
          <5> HIDE DEF d, vt
          <5> QED BY <4>1, <5>1, <1>8
        <4> QED BY <4>1, <4>2, <4>3, <1>7, <1>8 DEF Times
      <3>6. rest[1] \in TimerRecs /\ rest[1].par = tail[1].par
            /\ rest[1].time = tail[1].time + vt[n].time
        <4>1. tail[1] \in [par : All, time : Times] /\ tail[1].time + vt[n].time \in Times
          BY <3>2, <3>4, <3>5 DEF TimerRecs
        <4>2. rest[1] = [tail[1] EXCEPT !.time = @ + vt[n].time]
          BY <3>3, <3>4
        <4> HIDE DEF rest
        <4> QED BY <4>1, <4>2 DEF TimerRecs
      <3>7. rest \in Seq(TimerRecs) /\ Len(rest) = N - n
        <4>1. \A i \in 1..(N - n) : rest[i] \in TimerRecs
          BY <3>2, <3>3, <3>6
        <4>2. rest = [i \in 1..(N - n) |-> rest[i]]
          BY <3>1
        <4>3. N - n \in Nat
          BY <1>3, <1>4
        <4> HIDE DEF rest
        <4> QED BY <4>1, <4>2, <4>3
      <3>8. \A i \in 1..(N - n) :
                /\ rest[i].par = vt[n + i].par
                /\ rest[i].time = vt[n + i].time + (IF i = 1 THEN vt[n].time ELSE 0)
        <4> TAKE i \in 1..(N - n)
        <4>1. CASE i = 1
          BY <4>1, <3>4, <3>6
        <4>2. CASE i # 1
          <5>1. rest[i] = vt[n + i] /\ n + i \in 1..N
            BY <4>2, <3>1, <3>3, <1>3, <1>4
          <5> HIDE DEF rest
          <5>2. vt[n + i].time \in Int
            BY <5>1, <1>5
          <5> QED BY <4>2, <5>1, <5>2
        <4> QED BY <4>1, <4>2
      <3> HIDE DEF rest
      <3>9. b = rest
        BY <2>2 DEF N
      <3> QED BY <3>7, <3>8, <3>9
    <2> QED BY <2>1, <2>2
  <1> HIDE DEF b
  <1>10. /\ r \in Seq(TimerRecs) /\ Len(r) = N - 1
         /\ \A i \in 1..(n - 1) : r[i] = vt[i]
         /\ \A i \in n..(N - 1) : r[i] = b[i - (n - 1)]
    <2>1. /\ vt \in Seq(TimerRecs) /\ b \in Seq(TimerRecs)
          /\ n \in 1..(Len(vt) + 1) /\ r = SubSeq(vt, 1, n - 1) \o b
      BY <1>2, <1>3, <1>4, <1>9 DEF N
    <2> HIDE DEF r, vt
    <2>2. /\ r \in Seq(TimerRecs) /\ Len(r) = n - 1 + Len(b)
          /\ \A i \in 1..(n - 1) : r[i] = vt[i]
          /\ \A i \in n..(n - 1 + Len(b)) : r[i] = b[i - (n - 1)]
      BY <2>1, CutAt
    <2>3. n - 1 + Len(b) = N - 1
      BY <1>3, <1>4, <1>9
    <2> QED BY <2>2, <2>3
  <1> HIDE DEF r
  <1> DEFINE due2 == [due EXCEPT ![t] = 0]
             at(i) == IF i < n THEN i ELSE i + 1
  <1>11. due2 \in [All -> Times] /\ \A i \in 1..N : i # n => due2[vt[i].par] = d(i)
    BY <1>2, <1>3, <1>4, <1>6, <1>7
  <1> HIDE DEF due2
  <1>12. ASSUME NEW i \in 1..(N - 1)
         PROVE  /\ at(i) \in 1..N /\ at(i) # n /\ r[i].par = vt[at(i)].par
                /\ r[i].time = vt[at(i)].time + (IF i = n THEN vt[n].time ELSE 0)
    <2>1. CASE i < n
      <3>1. i \in 1..(n - 1) /\ i \in 1..N /\ i # n
        BY <2>1, <1>3, <1>4
      <3>2. r[i] = vt[i] /\ vt[i].time \in Int
        BY <3>1, <1>10, <1>5
      <3> QED BY <2>1, <3>1, <3>2
    <2>2. CASE i >= n
      <3>1. i - (n - 1) \in 1..(N - n) /\ n + (i - (n - 1)) = i + 1 /\ i + 1 \in 1..N
            /\ i \in n..(N - 1) /\ (i - (n - 1) = 1 <=> i = n)
        BY <2>2, <1>3, <1>4
      <3>2. r[i] = b[i - (n - 1)]
        BY <3>1, <1>10
      <3>3. /\ b[i - (n - 1)].par = vt[n + (i - (n - 1))].par
            /\ b[i - (n - 1)].time
                   = vt[n + (i - (n - 1))].time + (IF i - (n - 1) = 1 THEN vt[n].time ELSE 0)
        BY <3>1, <1>9
      <3>4. at(i) = i + 1 /\ i + 1 # n
        BY <2>2, <1>4
      <3> QED BY <3>1, <3>2, <3>3, <3>4
    <2> QED BY <2>1, <2>2, <1>4
  <1>13. \A i \in 1..(N - 1) : due2[r[i].par] = d(at(i))
    BY <1>11, <1>12
  <1>14. ASSUME NEW i \in 1..(N - 1)
         PROVE  r[i].time = due2[r[i].par] - (IF i = 1 THEN 0 ELSE due2[r[i - 1].par])
    <2>1. i # 1 => i - 1 \in 1..(N - 1) /\ due2[r[i - 1].par] = d(at(i - 1))
      BY <1>3, <1>13
    <2>2. due2[r[i].par] = d(at(i))
      BY <1>13
    <2>3. CASE i < n
      <3>1. at(i) = i /\ i \in 1..N /\ (i # 1 => at(i - 1) = i - 1) /\ i # n
        BY <2>3, <1>3, <1>4
      <3>2. r[i].time = vt[i].time /\ vt[i].time = d(i) - (IF i = 1 THEN 0 ELSE d(i - 1))
        BY <3>1, <1>12, <1>5
      <3> QED BY <2>1, <2>2, <3>1, <3>2
    <2>4. CASE i = n
      <3>1. at(i) = n + 1 /\ n + 1 \in 1..N /\ (i # 1 => at(i - 1) = n - 1) /\ n + 1 # 1
            /\ (n + 1) - 1 = n
        BY <2>4, <1>3, <1>4
      <3>2. vt[n + 1].time = d(n + 1) - d(n) /\ d(n + 1) \in Int
        BY <3>1, <1>5
      <3>3. r[i].time = vt[n + 1].time + vt[n].time
        BY <2>4, <3>1, <1>12
      <3>4. r[i].time = d(n + 1) - before
        <4> HIDE DEF d, vt
        <4> QED BY <3>2, <3>3, <1>8
      <3> QED BY <2>1, <2>2, <2>4, <3>1, <3>4 DEF before
    <2>5. CASE i > n
      <3>1. at(i) = i + 1 /\ i + 1 \in 1..N /\ i # 1 /\ at(i - 1) = i /\ i + 1 # 1 /\ i # n
            /\ (i + 1) - 1 = i
        BY <2>5, <1>3, <1>4
      <3>2. vt[i + 1].time = d(i + 1) - d(i) /\ vt[i + 1].time \in Int
        BY <3>1, <1>5
      <3>3. r[i].time = vt[i + 1].time
        BY <3>1, <3>2, <1>12
      <3> QED BY <2>1, <2>2, <3>1, <3>2, <3>3
    <2> QED BY <2>3, <2>4, <2>5, <1>4
  <1> HIDE DEF at
  <1>15. \A i \in 1..(N - 1) : due2[r[i].par] >= 1 /\ x.cont[r[i].par].fn \in Timed
    BY <1>3, <1>5, <1>12, <1>13
  <1>16. ASSUME NEW i \in 1..(N - 1), NEW j \in 1..(N - 1), r[i].par = r[j].par PROVE i = j
    <2>1. at(i) \in 1..N /\ at(j) \in 1..N /\ vt[at(i)].par = vt[at(j)].par
      BY <1>12, <1>16
    <2>2. at(i) = at(j)
      BY <2>1, <1>6
    <2> QED BY <2>2, <1>4 DEF at
  <1>17. Timers(r, due2, x.cont)
    BY <1>10, <1>11, <1>14, <1>15, <1>16, TimersIf
  <1>18. \A i \in 1..(N - 1) : r[i].par # t
    BY <1>4, <1>6, <1>12
  <1> QED BY <1>1, <1>10, <1>17, <1>18 DEF due2

\* When the first n timers of a list expire, the others stay exact.
Ticked(vt, due, cont, vt1, N, n) ==
    /\ Timers(vt, due, cont) /\ vt1 \in Seq(TimerRecs)
    /\ N \in Nat /\ N = Len(vt) /\ Len(vt1) = N /\ n \in Nat /\ n <= N
    /\ \A i \in 1..N : /\ vt1[i].par = vt[i].par
                       /\ vt1[i].time = due[vt[i].par] - (IF i = 1 THEN 1 ELSE due[vt[i - 1].par])
    /\ \A i \in 1..n : vt1[i].time = 0
    /\ n < N => vt1[n + 1].time # 0

LEMMA TickRest ==
  ASSUME NEW vt, NEW due, NEW cont, NEW vt1, NEW N, NEW n, Ticked(vt, due, cont, vt1, N, n)
  PROVE  Timers(SubSeq(vt1, n + 1, N),
                [t \in All |-> IF due[t] > 0 THEN due[t] - 1 ELSE 0], cont)
  <1> SUFFICES ASSUME /\ Timers(vt, due, cont) /\ vt1 \in Seq(TimerRecs)
                      /\ N \in Nat /\ N = Len(vt) /\ Len(vt1) = N /\ n \in Nat /\ n <= N
                      /\ n < N => vt1[n + 1].time # 0,
                      \A i \in 1..N : /\ vt1[i].par = vt[i].par
                                      /\ vt1[i].time = due[vt[i].par]
                                             - (IF i = 1 THEN 1 ELSE due[vt[i - 1].par]),
                      \A i \in 1..n : vt1[i].time = 0
               PROVE  Timers(SubSeq(vt1, n + 1, N),
                             [t \in All |-> IF due[t] > 0 THEN due[t] - 1 ELSE 0], cont)
    BY DEF Ticked
  <1> DEFINE d(i) == due[vt[i].par]
             due2 == [t \in All |-> IF due[t] > 0 THEN due[t] - 1 ELSE 0]
             r == SubSeq(vt1, n + 1, N)
  <1>1. due \in [All -> Times]
    BY DEF Timers
  <1>2. \A i \in 1..N : vt[i].par \in All /\ cont[vt[i].par].fn \in Timed
    BY TimerFacts
  <1>3. \A i \in 1..N : d(i) \in Int /\ d(i) >= 1 /\ vt[i].time >= 0 /\ vt[i].time \in Int
                        /\ vt[i].time = d(i) - (IF i = 1 THEN 0 ELSE d(i - 1))
    BY <1>2, DueFacts
  <1>4. \A i, j \in 1..N : vt[i].par = vt[j].par => i = j
    BY DEF Timers
  <1>5. TimeMod \in Nat /\ TimeMod >= 4 /\ 0 \in Times
    BY SchedAssumption DEF Times
  <1>6. \A i \in 1..N : vt1[i].time = d(i) - (IF i = 1 THEN 1 ELSE d(i - 1))
    OBVIOUS
  <1>7. \A i \in 2..N : d(i) >= d(i - 1) /\ d(i - 1) \in Int
    <2> TAKE i \in 2..N
    <2>1. i \in 1..N /\ i - 1 \in 1..N /\ i # 1
      OBVIOUS
    <2>2. vt[i].time = d(i) - d(i - 1) /\ vt[i].time >= 0 /\ d(i) \in Int /\ d(i - 1) \in Int
      BY <2>1, <1>3
    <2> HIDE DEF d
    <2> QED BY <2>2
  <1> HIDE DEF d
  <1>8. \A i \in Nat : i \in 1..n => d(i) = 1
    <2> DEFINE Q(i) == i \in 1..n => d(i) = 1
    <2>1. Q(0)
      OBVIOUS
    <2>2. ASSUME NEW i \in Nat, Q(i) PROVE Q(i + 1)
      <3> SUFFICES ASSUME i + 1 \in 1..n PROVE d(i + 1) = 1
        OBVIOUS
      <3>1. i + 1 \in 1..N /\ (i + 1) - 1 = i /\ vt1[i + 1].time = 0 /\ (i # 0 => i \in 1..n)
        OBVIOUS
      <3>2. vt1[i + 1].time = d(i + 1) - (IF i + 1 = 1 THEN 1 ELSE d(i))
        BY <3>1, <1>6
      <3>3. d(i + 1) \in Int
        BY <3>1, <1>3
      <3>4. (IF i + 1 = 1 THEN 1 ELSE d(i)) = 1
        BY <2>2, <3>1
      <3> QED BY <3>1, <3>2, <3>3, <3>4
    <2>3. Inductive(Q)
      <3> HIDE DEF Q
      <3> QED BY Induction
    <2> HIDE DEF Q
    <2>4. \A i \in Nat : Q(i)
      BY <2>1, <2>2, <2>3 DEF Inductive
    <2> QED BY <2>4 DEF Q
  <1>9. \A i \in Nat : i \in (n + 1)..N => d(i) >= 2
    <2> DEFINE Q(i) == i \in (n + 1)..N => d(i) >= 2
    <2>1. Q(0)
      OBVIOUS
    <2>2. ASSUME NEW i \in Nat, Q(i) PROVE Q(i + 1)
      <3> SUFFICES ASSUME i + 1 \in (n + 1)..N PROVE d(i + 1) >= 2
        OBVIOUS
      <3>1. i + 1 \in 1..N /\ (i + 1) - 1 = i
        OBVIOUS
      <3>2. vt1[i + 1].time = d(i + 1) - (IF i + 1 = 1 THEN 1 ELSE d(i))
        BY <3>1, <1>6
      <3>3. d(i + 1) \in Int /\ d(i + 1) >= 1
        BY <3>1, <1>3
      <3>4. CASE i = n
        <4>1. vt1[i + 1].time # 0
          BY <3>1, <3>4
        <4>2. (IF i + 1 = 1 THEN 1 ELSE d(i)) = 1
          BY <3>4, <1>8
        <4> QED BY <3>2, <3>3, <4>1, <4>2
      <3>5. CASE i # n
        <4>1. i \in (n + 1)..N /\ i + 1 \in 2..N
          BY <3>5
        <4>2. d(i) >= 2 /\ d(i) \in Int /\ d(i + 1) >= d(i)
          BY <2>2, <4>1, <3>1, <1>7
        <4> QED BY <3>3, <4>2
      <3> QED BY <3>4, <3>5
    <2>3. Inductive(Q)
      <3> HIDE DEF Q
      <3> QED BY Induction
    <2> HIDE DEF Q
    <2>4. \A i \in Nat : Q(i)
      BY <2>1, <2>2, <2>3 DEF Inductive
    <2> QED BY <2>4 DEF Q
  <1>10. /\ r \in Seq(TimerRecs) /\ Len(r) = N - n /\ N - n \in Nat
         /\ \A i \in 1..(N - n) : r[i] = vt1[n + i] /\ n + i \in 1..N
    BY SMTT(30)
  <1> HIDE DEF r
  <1>11. due2 \in [All -> Times] /\ \A i \in 1..N : due2[vt[i].par] = d(i) - 1
    <2>1. \A a \in Times : a \in Int /\ a >= 0 /\ (a > 0 => a - 1 \in Times)
      BY <1>5 DEF Times
    <2>2. due2 \in [All -> Times]
      BY <2>1, <1>1, <1>5
    <2>3. ASSUME NEW i \in 1..N PROVE due2[vt[i].par] = d(i) - 1
      <3>1. vt[i].par \in All /\ d(i) \in Int /\ d(i) >= 1
        BY <1>2, <1>3
      <3> QED BY <3>1 DEF d
    <2> QED BY <2>2, <2>3
  <1> HIDE DEF due2
  <1>12. \A i \in 1..(N - n) : due2[r[i].par] = d(n + i) - 1
    <2> TAKE i \in 1..(N - n)
    <2>1. PICK m \in 1..N : m = n + i
      BY <1>10
    <2>2. r[i] = vt1[m] /\ vt1[m].par = vt[m].par
      BY <2>1, <1>10
    <2>3. due2[r[i].par] = d(m) - 1
      BY <2>2, <1>11
    <2> QED BY <2>1, <2>3
  <1>13. ASSUME NEW i \in 1..(N - n)
         PROVE  r[i].time = due2[r[i].par] - (IF i = 1 THEN 0 ELSE due2[r[i - 1].par])
    <2>1. n + i \in 1..N /\ r[i].time = vt1[n + i].time /\ d(n + i) \in Int
          /\ due2[r[i].par] = d(n + i) - 1
      BY <1>3, <1>10, <1>12
    <2>2. r[i].time = d(n + i) - (IF n + i = 1 THEN 1 ELSE d(n + i - 1))
      <3>1. PICK m \in 1..N : m = n + i
        BY <2>1
      <3>2. vt1[m].time = d(m) - (IF m = 1 THEN 1 ELSE d(m - 1))
        BY <1>6
      <3> QED BY <2>1, <3>1, <3>2
    <2>3. CASE i = 1
      <3>1. (IF n + i = 1 THEN 1 ELSE d(n + i - 1)) = 1
        <4>1. CASE n = 0
          BY <4>1, <2>3
        <4>2. CASE n # 0
          <5>1. n \in 1..n /\ n + i - 1 = n /\ n + i # 1
            BY <4>2, <2>3
          <5> QED BY <5>1, <1>8
        <4> QED BY <4>1, <4>2
      <3> QED BY <2>1, <2>2, <2>3, <3>1
    <2>4. CASE i # 1
      <3>1. i - 1 \in 1..(N - n) /\ n + i # 1 /\ n + (i - 1) = n + i - 1 /\ n + i - 1 \in 1..N
        BY <2>4
      <3>2. due2[r[i - 1].par] = d(n + (i - 1)) - 1 /\ d(n + i - 1) \in Int
        BY <3>1, <1>12, <1>3
      <3>3. due2[r[i - 1].par] = d(n + i - 1) - 1
        BY <3>1, <3>2
      <3> HIDE DEF d
      <3> QED BY <2>1, <2>2, <2>4, <3>1, <3>2, <3>3
    <2> QED BY <2>3, <2>4
  <1>14. \A i \in 1..(N - n) : due2[r[i].par] >= 1 /\ cont[r[i].par].fn \in Timed
    <2> TAKE i \in 1..(N - n)
    <2>1. n + i \in 1..N /\ r[i] = vt1[n + i] /\ n + i \in (n + 1)..N /\ n + i \in Nat
      BY <1>10
    <2>2. d(n + i) >= 2 /\ d(n + i) \in Int
      BY <2>1, <1>3, <1>9
    <2>3. due2[r[i].par] = d(n + i) - 1
      BY <1>12
    <2>4. cont[r[i].par].fn \in Timed
      BY <2>1, <1>2
    <2> QED BY <2>2, <2>3, <2>4
  <1>15. ASSUME NEW i \in 1..(N - n), NEW j \in 1..(N - n), r[i].par = r[j].par PROVE i = j
    <2>1. n + i \in 1..N /\ n + j \in 1..N /\ vt[n + i].par = vt[n + j].par
      BY <1>10, <1>15
    <2>2. n + i = n + j
      BY <2>1, <1>4
    <2> QED BY <2>2
  <1>16. Timers(r, due2, cont)
    BY <1>10, <1>11, <1>13, <1>14, <1>15, TimersIf
  <1> QED BY <1>16 DEF r, due2

\* A tick takes the first timers off, and the others stay exact.
TickEnd(vt1) ==
    LET P == {i \in DOMAIN vt1 : vt1[i].time # 0}
    IN  IF P = {} THEN Len(vt1) ELSE (CHOOSE i \in P : \A j \in P : i <= j) - 1

LEMMA TickTimers ==
  ASSUME NEW vt, NEW due, NEW cont, Timers(vt, due, cont), vt # <<>>,
         NEW vt1, Upd(vt, vt1, 1, [vt[1] EXCEPT !.time = @ - 1]), NEW n, n = TickEnd(vt1)
  PROVE  /\ n \in Nat /\ n \in 0..Len(vt)
         /\ \A i \in 1..n : vt1[i].par = vt[i].par
         /\ Timers(SubSeq(vt1, n + 1, Len(vt1)),
                   [t \in All |-> IF due[t] > 0 THEN due[t] - 1 ELSE 0], cont)
  <1> DEFINE N == Len(vt)
             d(i) == due[vt[i].par]
             P == {i \in DOMAIN vt1 : vt1[i].time # 0}
  <1>1. vt \in Seq(TimerRecs) /\ due \in [All -> Times]
    BY DEF Timers, TimerRecs
  <1>2. /\ N \in Nat /\ DOMAIN vt = 1..N
        /\ \A i \in 1..N : vt[i].par \in All /\ vt[i].time \in Times /\ cont[vt[i].par].fn \in Timed
    BY TimerFacts
  <1>3. N >= 1
    BY <1>1, <1>2
  <1>4. \A i \in 1..N : /\ d(i) \in Int /\ d(i) >= 1 /\ vt[i].time >= 0 /\ vt[i].time \in Int
                        /\ vt[i].time = d(i) - (IF i = 1 THEN 0 ELSE d(i - 1))
    BY <1>2, DueFacts
  <1>6. TimeMod \in Nat /\ TimeMod >= 4 /\ 0 \in Times
    BY SchedAssumption DEF Times
  <1>7. \A i \in 1..N : vt[i] \in TimerRecs
    BY <1>1, Member
  <1>8. n = IF P = {} THEN Len(vt1) ELSE (CHOOSE i \in P : \A j \in P : i <= j) - 1
    BY DEF TickEnd
  <1> HIDE DEF N
  <1>9. /\ DOMAIN vt1 = 1..N /\ vt1[1] = [vt[1] EXCEPT !.time = @ - 1]
        /\ \A i \in 1..N : i # 1 => vt1[i] = vt[i]
        /\ vt1 = [i \in 1..N |-> vt1[i]]
    <2>1. DOMAIN vt1 = 1..N
      BY <1>2 DEF Upd
    <2>2. 1 \in 1..N
      BY <1>2, <1>3
    <2> QED BY <2>1, <2>2, <1>2 DEF Upd
  <1>10. vt1[1] \in TimerRecs /\ vt1[1].par = vt[1].par /\ vt1[1].time = d(1) - 1
    <2>1. 1 \in 1..N
      BY <1>2, <1>3
    <2>2. vt[1] \in [par : All, time : Times] /\ vt[1].time = d(1) /\ d(1) >= 1 /\ d(1) \in Int
      BY <2>1, <1>4, <1>7 DEF TimerRecs
    <2>3. vt[1].time - 1 \in Times
      BY <2>2, <1>6 DEF Times
    <2> QED BY <1>9, <2>2, <2>3 DEF TimerRecs
  <1>11. vt1 \in Seq(TimerRecs) /\ Len(vt1) = N
    <2>1. \A i \in 1..N : vt1[i] \in TimerRecs
      BY <1>7, <1>9, <1>10
    <2> QED BY <2>1, <1>2, <1>9
  <1>12. \A i \in 1..N : vt1[i].par = vt[i].par
                         /\ vt1[i].time = d(i) - (IF i = 1 THEN 1 ELSE d(i - 1))
    <2> TAKE i \in 1..N
    <2>1. CASE i = 1
      BY <2>1, <1>10
    <2>2. CASE i # 1
      BY <2>2, <1>9, <1>4
    <2> QED BY <2>1, <2>2
  <1>13. /\ n \in Nat /\ n <= N /\ \A i \in 1..n : vt1[i].time = 0
         /\ n < N => vt1[n + 1].time # 0
    <2>1. P \subseteq 1..N /\ \A i \in 1..N : i \in P <=> vt1[i].time # 0
      BY <1>9
    <2> HIDE DEF P
    <2>3. CASE P = {}
      BY <2>1, <2>3, <1>2, <1>8, <1>11
    <2>4. CASE P # {}
      <3> DEFINE m == CHOOSE i \in P : \A j \in P : i <= j
      <3>1. m \in P /\ \A j \in P : m <= j
        BY <2>1, <2>4, <1>2, FirstOf
      <3>2. n = m - 1
        BY <1>8, <2>4
      <3> HIDE DEF m
      <3>3. m \in 1..N /\ vt1[m].time # 0
        BY <2>1, <3>1
      <3>4. ASSUME NEW i \in 1..n PROVE vt1[i].time = 0
        <4>1. i \in 1..N /\ i < m
          BY <3>2, <3>3, <1>2
        <4>2. i \notin P
          BY <3>1, <3>3, <4>1
        <4> QED BY <2>1, <4>1, <4>2
      <3>5. n + 1 = m /\ n \in Nat /\ n <= N
        BY <3>2, <3>3, <1>2
      <3> QED BY <3>3, <3>4, <3>5
    <2> QED BY <2>3, <2>4
  <1> HIDE DEF P
  <1>14. Timers(SubSeq(vt1, n + 1, N), [t \in All |-> IF due[t] > 0 THEN due[t] - 1 ELSE 0], cont)
    <2>1. N = Len(vt)
      BY DEF N
    <2>2. Ticked(vt, due, cont, vt1, N, n)
      BY <2>1, <1>2, <1>11, <1>12, <1>13 DEF Ticked
    <2> QED BY <2>2, TickRest
  <1>15. \A i \in 1..n : i \in 1..N
    BY <1>2, <1>13
  <1> QED BY <1>2, <1>11, <1>12, <1>13, <1>14, <1>15 DEF N

-----------------------------------------------------------------------------
(***************************************************************************)
(* The scheduler.                                                          *)
(***************************************************************************)

\* What the calls that only wake threads leave alone.
Same(x, y) ==
    /\ y.cur = x.cur /\ y.cont = x.cont /\ y.vt = x.vt /\ y.due = x.due /\ y.more = x.more
    /\ y.mb = x.mb /\ y.io = x.io /\ y.listeners = x.listeners

\* t was taken out of its queue and has to be made ready.
Waking(x, t) ==
    /\ t \in All \ {x.cur} /\ Core(x, [x.st EXCEPT ![t] = "CURRENT"])
    /\ \A p \in All : p # t => (x.st[p] = "CURRENT" <=> p = x.cur) /\ x.st[p] # "SUSPENDED"

LEMMA CoreShape ==
  ASSUME NEW x, NEW v, Core(x, v)
  PROVE  /\ DOMAIN x = Fields /\ x.cur \in All /\ v \in [All -> States] /\ DOMAIN x.st = All
         /\ DOMAIN x.u = All /\ DOMAIN x.prio = All /\ DOMAIN x.preempt = All
         /\ DOMAIN x.q = WaitQueues /\ DOMAIN x.cnt = AllSems /\ DOMAIN x.cont = All
         /\ DOMAIN x.more = All /\ DOMAIN x.waiting = All /\ DOMAIN x.epending = All
         /\ DOMAIN x.mtxlist = All
         /\ Exactly(x.ready, AreReady(v)) /\ v[Idle] \in Running /\ x.prio[Idle] = 1
         /\ x.cont[Idle] = NoCont /\ x.more[Idle] = NoCont
         /\ \A t \in All : x.preempt[t] \in 0..CH_TIME_QUANTUM
         /\ x.systime \in Times
  BY DEF Core, Shapes, Queues, IdleOK, IDLEPRIO, Locals, Local

\* chSchReadyI of a thread that is in no queue.
LEMMA ReadyI ==
  ASSUME NEW x, NEW v, Core(x, v), NEW t \in All, v[t] = "CURRENT", NEW y, y = chSchReadyI(x, t)
  PROVE  /\ Core(y, [v EXCEPT ![t] = "READY"]) /\ Keeps(x, y, {"st", "ready"})
         /\ y.st = [x.st EXCEPT ![t] = "READY"]
  <1>1. DOMAIN x = Fields /\ Exactly(x.ready, AreReady(v)) /\ v \in [All -> States] /\ DOMAIN x.st = All
    BY CoreShape
  <1>2. /\ Keeps(x, y, {"ready", "st"}) /\ y.st = [x.st EXCEPT ![t] = "READY"]
        /\ y.ready = prio_insert(x.ready, t, x.prio)
    BY <1>1 DEF chSchReadyI, Keeps, Fields
  <1>3. t \in All \ AreReady(v)
    BY DEF AreReady
  <1> DEFINE w == [v EXCEPT ![t] = "READY"]
  <1>4. AreReady(w) = AreReady(v) \cup {t} /\ w = [v EXCEPT ![t] = "READY"]
    BY <1>1 DEF AreReady
  <1> HIDE DEF w
  <1>5. Exactly(y.ready, AreReady(w))
    <2>1. Exactly(prio_insert(x.ready, t, x.prio), AreReady(v) \cup {t})
      BY <1>1, <1>3, ExactPrio
    <2> QED BY <1>2, <1>4, <2>1
  <1>6. DOMAIN y.st = All
    BY <1>1, <1>2
  <1>7. Core(y, w)
    BY <1>2, <1>4, <1>5, <1>6, CoreState DEF Running
  <1>8. Keeps(x, y, {"st", "ready"})
    BY <1>2 DEF Keeps
  <1> QED BY <1>2, <1>7, <1>8 DEF w

\* The union of a thread in no queue can be written.
LEMMA SetMsg ==
  ASSUME NEW x, NEW v, Core(x, v), NEW t \in All, v[t] \in {"CURRENT", "READY", "SUSPENDED"}, NEW m,
         NEW y, Keeps(x, y, {"u"}), y.u = [x.u EXCEPT ![t] = m]
  PROVE  Core(y, v)
  <1>1. DOMAIN x = Fields /\ DOMAIN x.u = All /\ DOMAIN x.cont = All /\ DOMAIN x.mtxlist = All
        /\ DOMAIN x.more = All /\ DOMAIN x.epending = All /\ x.cont[Idle] = NoCont
        /\ x.more[Idle] = NoCont
    BY CoreShape
  <1>3. /\ y.cont = x.cont /\ y.mtxlist = x.mtxlist /\ y.more = x.more /\ y.epending = x.epending
        /\ y.vt = x.vt /\ y.due = x.due /\ y.owner = x.owner
        /\ Keeps(x, y, {"u", "cont", "mtxlist", "owner", "more", "epending", "vt", "due"})
    BY DEF Keeps, Fields
  <1>4. Timers(x.vt, x.due, x.cont) /\ Reserved(x.more, v)
        /\ x.owner \in [AllMutexes -> Threads \cup {NoThread}]
    BY DEF Core
  <1>5. Local(v[t], y.u[t], x.cont[t], x.q[t], x.waiting[t], x.epending[t], x.mtxlist[t],
              x.more[t], x.preempt[t])
    <2>1. Local(v[t], x.u[t], x.cont[t], x.q[t], x.waiting[t], x.epending[t], x.mtxlist[t],
                x.more[t], x.preempt[t])
      BY DEF Core, Locals
    <2> QED BY <2>1 DEF Local, Kind
  <1>6. DOMAIN y.u = All /\ \A p \in All : p # t => y.u[p] = x.u[p]
    BY <1>1
  <1>7. v[t] \notin Queued /\ v[t] # "WTEXIT"
    BY DEF Queued
  <1>8. Core(y, v)
    BY <1>1, <1>3, <1>4, <1>5, <1>6, <1>7, CoreLocal
  <1> QED BY <1>8

\* ReadyMsg of a thread that is in no queue.
LEMMA ReadyMsgI ==
  ASSUME NEW x, NEW v, Core(x, v), NEW t \in All, v[t] = "CURRENT", NEW m,
         NEW y, y = ReadyMsg(x, t, m)
  PROVE  /\ Core(y, [v EXCEPT ![t] = "READY"]) /\ Keeps(x, y, {"st", "ready", "u"})
         /\ y.st = [x.st EXCEPT ![t] = "READY"]
  <1> DEFINE z == chSchReadyI(x, t)
             w == [v EXCEPT ![t] = "READY"]
  <1>1. /\ Core(z, w) /\ Keeps(x, z, {"st", "ready"}) /\ z.st = [x.st EXCEPT ![t] = "READY"]
    BY ReadyI
  <1>2. Keeps(z, y, {"u"}) /\ y.u = [z.u EXCEPT ![t] = Msg(m)]
    <2>1. y = [z EXCEPT !.u[t] = Msg(m)]
      BY DEF ReadyMsg
    <2>2. DOMAIN z = Fields
      BY <1>1 DEF Keeps
    <2> HIDE DEF z
    <2> QED BY <2>1, <2>2 DEF Keeps, Fields
  <1>3. w[t] = "READY"
    BY CoreShape
  <1> HIDE DEF z, w
  <1>4. Core(y, w)
    BY <1>1, <1>2, <1>3, SetMsg
  <1>5. Keeps(x, y, {"st", "ready", "u"}) /\ y.st = z.st
    BY <1>1, <1>2 DEF Keeps, Fields
  <1> QED BY <1>1, <1>4, <1>5 DEF w

\* The first thread of the ready list is switched to.
LEMMA SwitchCore ==
  ASSUME NEW x, NEW v, Core(x, v), x.ready # <<>>, NEW t, t = Head(x.ready),
         NEW y, y = SwitchToFirst(x)
  PROVE  /\ t \in All /\ v[t] = "READY" /\ Core(y, [v EXCEPT ![t] = "CURRENT"])
         /\ Keeps(x, y, {"st", "ready", "cur"}) /\ y.st = [x.st EXCEPT ![t] = "CURRENT"]
         /\ y.cur = t
  <1> DEFINE z == [x EXCEPT !.ready = Tail(@), !.st[t] = "CURRENT"]
             w == [v EXCEPT ![t] = "CURRENT"]
  <1>1. DOMAIN x = Fields /\ Exactly(x.ready, AreReady(v)) /\ v \in [All -> States] /\ DOMAIN x.st = All
    BY CoreShape
  <1>2. t \in AreReady(v) /\ Exactly(Tail(x.ready), AreReady(v) \ {t})
    BY <1>1, ExactTail
  <1>3. t \in All /\ v[t] = "READY"
    BY <1>2 DEF AreReady
  <1>4. /\ Keeps(x, z, {"ready", "st"}) /\ z.ready = Tail(x.ready) /\ z.st = [x.st EXCEPT ![t] = "CURRENT"]
    BY <1>1 DEF Keeps, Fields
  <1>5. AreReady(w) = AreReady(v) \ {t} /\ w = [v EXCEPT ![t] = "CURRENT"]
    BY <1>1 DEF AreReady
  <1>6. /\ Keeps(x, y, {"st", "ready", "cur"}) /\ y.ready = Tail(x.ready)
        /\ y.st = [x.st EXCEPT ![t] = "CURRENT"] /\ y.cur = t
    BY <1>1 DEF SwitchToFirst, Keeps, Fields
  <1> HIDE DEF z, w
  <1>7. Core(z, w)
    <2>1. DOMAIN z.st = All /\ Exactly(z.ready, AreReady(w))
      BY <1>1, <1>2, <1>4, <1>5
    <2> QED BY <1>3, <1>4, <1>5, <2>1, CoreState DEF Running
  <1>8. Keeps(z, y, Inert) /\ y.systime = z.systime /\ y.prio = z.prio /\ y.preempt = z.preempt
        /\ y.st = z.st
    BY <1>4, <1>6 DEF Keeps, Fields, Inert
  <1>9. Core(y, w)
    BY <1>3, <1>6, <1>7, <1>8, CoreFrame, CoreShape DEF IDLEPRIO
  <1> QED BY <1>3, <1>6, <1>9 DEF w

\* When no thread is CURRENT, the switch makes the first one so.
LEMMA SwitchGood ==
  ASSUME NEW x, Core(x, x.st), \A t \in All : x.st[t] \notin {"CURRENT", "SUSPENDED"}
  PROVE  Good(SwitchToFirst(x))
  <1>1. x.st[Idle] = "READY" /\ x.st \in [All -> States] /\ Exactly(x.ready, AreReady(x.st)) /\ Idle \in All
    BY CoreShape DEF Running, All
  <1>2. x.ready # <<>>
    <2>1. Idle \in AreReady(x.st)
      BY <1>1 DEF AreReady
    <2> QED BY <1>1, <2>1, ExactSub
  <1> DEFINE y == SwitchToFirst(x)
             t == Head(x.ready)
  <1>3. /\ t \in All /\ Core(y, [x.st EXCEPT ![t] = "CURRENT"])
        /\ y.st = [x.st EXCEPT ![t] = "CURRENT"] /\ y.cur = t
    BY <1>2, SwitchCore
  <1> HIDE DEF y, t
  <1>4. \A p \in All : (y.st[p] = "CURRENT" <=> p = y.cur) /\ y.st[p] # "SUSPENDED"
    BY <1>1, <1>3
  <1> QED BY <1>3, <1>4 DEF Good, y

LEMMA GoodShape ==
  ASSUME NEW x, Good(x)
  PROVE  /\ x.st \in [All -> States] /\ x.cur \in All /\ x.st[x.cur] = "CURRENT" /\ Core(x, x.st)
         /\ \A t \in All : (x.st[t] = "CURRENT" <=> t = x.cur) /\ x.st[t] # "SUSPENDED"
         /\ (x.ready = <<>> => x.cur = Idle)
  <1>1. Core(x, x.st) /\ x.cur \in All /\ x.st \in [All -> States] /\ Idle \in All
        /\ Exactly(x.ready, AreReady(x.st)) /\ x.st[Idle] \in Running
    BY CoreShape DEF Good, All
  <1>2. x.ready = <<>> => Idle \notin AreReady(x.st)
    BY <1>1, ExactSub
  <1> QED BY <1>1, <1>2 DEF Good, AreReady, Running

\* A thread that was taken out of its queue is made ready.
LEMMA WakeReady ==
  ASSUME NEW x, NEW t, Waking(x, t)
  PROVE  /\ Good(chSchReadyI(x, t)) /\ Same(x, chSchReadyI(x, t))
         /\ Keeps(x, chSchReadyI(x, t), {"st", "ready"})
         /\ chSchReadyI(x, t).st = [x.st EXCEPT ![t] = "READY"]
  <1> DEFINE y == chSchReadyI(x, t)
             v == [x.st EXCEPT ![t] = "CURRENT"]
             w == [v EXCEPT ![t] = "READY"]
  <1>1. t \in All /\ t # x.cur /\ Core(x, v) /\ DOMAIN x.st = All
        /\ \A p \in All : p # t => (x.st[p] = "CURRENT" <=> p = x.cur) /\ x.st[p] # "SUSPENDED"
    BY CoreShape DEF Waking
  <1>2. v[t] = "CURRENT" /\ w = [x.st EXCEPT ![t] = "READY"]
    BY <1>1
  <1>3. /\ Core(y, w) /\ Keeps(x, y, {"st", "ready"}) /\ y.st = [x.st EXCEPT ![t] = "READY"]
    BY <1>1, <1>2, ReadyI
  <1> HIDE DEF y, v, w
  <1>4. Same(x, y)
    BY <1>3 DEF Same, Keeps, Fields
  <1>5. \A p \in All : (y.st[p] = "CURRENT" <=> p = y.cur) /\ y.st[p] # "SUSPENDED"
    BY <1>1, <1>3, <1>4 DEF Same
  <1>6. Good(y)
    BY <1>2, <1>3, <1>5 DEF Good
  <1> QED BY <1>3, <1>4, <1>6 DEF y

LEMMA WakeMsg ==
  ASSUME NEW x, NEW t, Waking(x, t), NEW m
  PROVE  /\ Good(ReadyMsg(x, t, m)) /\ Same(x, ReadyMsg(x, t, m))
         /\ Keeps(x, ReadyMsg(x, t, m), {"st", "ready", "u"})
  <1> DEFINE y == ReadyMsg(x, t, m)
             v == [x.st EXCEPT ![t] = "CURRENT"]
             w == [v EXCEPT ![t] = "READY"]
  <1>1. t \in All /\ t # x.cur /\ Core(x, v) /\ DOMAIN x.st = All
        /\ \A p \in All : p # t => (x.st[p] = "CURRENT" <=> p = x.cur) /\ x.st[p] # "SUSPENDED"
    BY CoreShape DEF Waking
  <1>2. v[t] = "CURRENT" /\ w = [x.st EXCEPT ![t] = "READY"]
    BY <1>1
  <1>3. /\ Core(y, w) /\ Keeps(x, y, {"st", "ready", "u"}) /\ y.st = [x.st EXCEPT ![t] = "READY"]
    BY <1>1, <1>2, ReadyMsgI
  <1> HIDE DEF y, v, w
  <1>4. Same(x, y)
    BY <1>3 DEF Same, Keeps, Fields
  <1>5. \A p \in All : (y.st[p] = "CURRENT" <=> p = y.cur) /\ y.st[p] # "SUSPENDED"
    BY <1>1, <1>3, <1>4 DEF Same
  <1>6. Good(y)
    BY <1>2, <1>3, <1>5 DEF Good
  <1> QED BY <1>3, <1>4, <1>6 DEF y

LEMMA WakeupS ==
  ASSUME NEW x, NEW t, Waking(x, t), NEW m
  PROVE  Good(chSchWakeupS(x, t, m))
  <1> DEFINE x1 == [x EXCEPT !.u[t] = Msg(m)]
             v == [x.st EXCEPT ![t] = "CURRENT"]
             c == x.cur
  <1>1. t \in All /\ t # c /\ Core(x, v) /\ DOMAIN x.st = All /\ DOMAIN x = Fields /\ c \in All
        /\ v \in [All -> States]
        /\ \A p \in All : p # t => (x.st[p] = "CURRENT" <=> p = x.cur) /\ x.st[p] # "SUSPENDED"
    BY CoreShape DEF Waking
  <1>2. v[t] = "CURRENT" /\ v[c] = "CURRENT" /\ v = [x.st EXCEPT ![t] = "CURRENT"]
    BY <1>1
  <1>3. Keeps(x, x1, {"u"}) /\ x1.u = [x.u EXCEPT ![t] = Msg(m)]
    BY <1>1 DEF Keeps, Fields
  <1>4. x1.st = x.st /\ x1.cur = x.cur /\ x1.prio = x.prio
    BY <1>3 DEF Keeps, Fields
  <1> HIDE DEF x1, v
  <1>5. Core(x1, v)
    BY <1>1, <1>2, <1>3, SetMsg
  <1>6. CASE x.prio[t] <= x.prio[c]
    <2>1. chSchWakeupS(x, t, m) = chSchReadyI(x1, t)
      BY <1>6 DEF chSchWakeupS, x1
    <2>2. Waking(x1, t)
      BY <1>1, <1>2, <1>4, <1>5 DEF Waking
    <2>3. Good(chSchReadyI(x1, t))
      BY <2>2, WakeReady
    <2> QED BY <2>1, <2>3
  <1>7. CASE ~ (x.prio[t] <= x.prio[c])
    <2> DEFINE z == chSchReadyI(x1, c)
               y == [z EXCEPT !.cur = t, !.st[t] = "CURRENT"]
               w == [v EXCEPT ![c] = "READY"]
    <2>1. chSchWakeupS(x, t, m) = y
      BY <1>7 DEF chSchWakeupS, x1
    <2>2. Core(z, w) /\ Keeps(x1, z, {"st", "ready"}) /\ z.st = [x1.st EXCEPT ![c] = "READY"]
      BY <1>1, <1>2, <1>5, ReadyI
    <2>3. DOMAIN z = Fields /\ DOMAIN z.st = All
      BY <2>2, CoreShape
    <2> HIDE DEF z
    <2>4. Keeps(z, y, Inert) /\ y.cur = t /\ y.st = [z.st EXCEPT ![t] = "CURRENT"]
          /\ y.systime = z.systime /\ y.prio = z.prio /\ y.preempt = z.preempt
      BY <2>3 DEF Keeps, Inert, Fields
    <2> HIDE DEF y
    <2>5. y.st = w
      BY <2>2, <2>4, <1>1, <1>2, <1>4
    <2>6. DOMAIN y.st = All
      BY <2>3, <2>4
    <2>7. Core(y, w)
      <3> HIDE DEF w
      <3> QED BY <2>2, <2>4, <2>6, <1>1, CoreFrame, CoreShape DEF IDLEPRIO
    <2>8. \A p \in All : (y.st[p] = "CURRENT" <=> p = y.cur) /\ y.st[p] # "SUSPENDED"
      BY <2>4, <2>5, <1>1, <1>2
    <2> HIDE DEF w
    <2> QED BY <2>1, <2>5, <2>7, <2>8 DEF Good
  <1> QED BY <1>6, <1>7

\* The running thread goes back to the ready list, before or behind its equals.
LEMMA DoReschedule ==
  ASSUME NEW x, Good(x), x.ready # <<>>
  PROVE  Good(chSchDoRescheduleAhead(x)) /\ Good(chSchDoRescheduleBehind(x))
  <1> DEFINE z == SwitchToFirst(x)
             t == Head(x.ready)
             c == x.cur
             w == [x.st EXCEPT ![t] = "CURRENT"]
             w2 == [w EXCEPT ![c] = "READY"]
  <1>1. /\ x.st \in [All -> States] /\ c \in All /\ x.st[c] = "CURRENT" /\ Core(x, x.st)
        /\ \A p \in All : (x.st[p] = "CURRENT" <=> p = c) /\ x.st[p] # "SUSPENDED"
    BY GoodShape
  <1>2. /\ t \in All /\ x.st[t] = "READY" /\ Core(z, w) /\ Keeps(x, z, {"st", "ready", "cur"})
        /\ z.st = w /\ z.cur = t
    BY <1>1, SwitchCore
  <1>3. w[c] = "CURRENT" /\ w \in [All -> States] /\ w2 \in [All -> States]
        /\ \A p \in All : (w2[p] = "CURRENT" <=> p = t) /\ w2[p] # "SUSPENDED"
    BY <1>1, <1>2 DEF States
  <1>4. DOMAIN z = Fields /\ Exactly(z.ready, AreReady(w)) /\ DOMAIN z.st = All /\ DOMAIN z.preempt = All
        /\ z.prio[Idle] = IDLEPRIO /\ DOMAIN z.prio = All /\ z.systime \in Times
        /\ \A p \in All : z.preempt[p] \in 0..CH_TIME_QUANTUM
    BY <1>2, CoreShape DEF IDLEPRIO
  <1>5. AreReady(w2) = AreReady(w) \cup {c} /\ c \notin AreReady(w) /\ w2 = [w EXCEPT ![c] = "READY"]
    BY <1>1, <1>3 DEF AreReady
  <1> HIDE DEF z, t, w, w2
  <1>6. Good(chSchDoRescheduleAhead(x))
    <2> DEFINE B(p) == x.prio[p] <= x.prio[c]
               y == chSchDoRescheduleAhead(x)
    <2>1. y = [z EXCEPT !.st[c] = "READY", !.ready = InsertBefore(@, c, B)]
      BY DEF chSchDoRescheduleAhead, z
    <2>2. Keeps(z, y, {"ready", "st"}) /\ y.st = [z.st EXCEPT ![c] = "READY"]
          /\ y.ready = InsertBefore(z.ready, c, B)
      BY <2>1, <1>4 DEF Keeps, Fields
    <2>3. Exactly(InsertBefore(z.ready, c, B), AreReady(w) \cup {c})
      <3> HIDE DEF B
      <3> QED BY <1>1, <1>4, <1>5, ExactInsert
    <2> HIDE DEF y, B
    <2>4. Core(y, w2)
      <3>1. DOMAIN y.st = All /\ Exactly(y.ready, AreReady(w2))
        BY <2>2, <2>3, <1>4, <1>5
      <3> QED BY <1>1, <1>2, <1>3, <1>5, <2>2, <3>1, CoreState DEF Running
    <2>5. y.st = w2 /\ y.cur = t
      BY <1>2, <1>5, <2>2 DEF Keeps, Fields
    <2> QED BY <1>3, <2>4, <2>5 DEF Good, y
  <1>7. Good(chSchDoRescheduleBehind(x))
    <2> DEFINE u == [z EXCEPT !.preempt[c] = CH_TIME_QUANTUM]
               y == chSchReadyI(u, c)
    <2>1. chSchDoRescheduleBehind(x) = y
      BY DEF chSchDoRescheduleBehind, z
    <2>2. Keeps(z, u, Inert) /\ u.st = z.st /\ u.cur = z.cur /\ u.prio = z.prio /\ u.systime = z.systime
          /\ u.preempt = [z.preempt EXCEPT ![c] = CH_TIME_QUANTUM]
      BY <1>4 DEF Keeps, Fields, Inert
    <2>3. DOMAIN u.preempt = All /\ \A p \in All : u.preempt[p] \in 0..CH_TIME_QUANTUM
      BY <1>4, <2>2, SchedAssumption
    <2> HIDE DEF u
    <2>4. Core(u, w)
      BY <1>2, <1>4, <2>2, <2>3, CoreFrame
    <2>5. Core(y, w2) /\ Keeps(u, y, {"st", "ready"}) /\ y.st = [u.st EXCEPT ![c] = "READY"]
      <3>1. /\ Core(y, [w EXCEPT ![c] = "READY"]) /\ Keeps(u, y, {"st", "ready"})
            /\ y.st = [u.st EXCEPT ![c] = "READY"]
        <4>1. c \in All /\ w[c] = "CURRENT"
          BY <1>1, <1>3
        <4> HIDE DEF c
        <4> QED BY <4>1, <2>4, ReadyI
      <3> QED BY <3>1, <1>5
    <2> HIDE DEF y
    <2>6. y.st = w2 /\ y.cur = t
      BY <1>2, <1>5, <2>2, <2>5 DEF Keeps, Fields
    <2> QED BY <1>3, <2>1, <2>5, <2>6 DEF Good
  <1> QED BY <1>6, <1>7

\* All that give up the processor only when another thread is ready.
LEMMA Reschedule ==
  ASSUME NEW x, Good(x)
  PROVE  /\ Good(chSchRescheduleS(x)) /\ Good(chSchDoYieldS(x)) /\ Good(ALT_OS_INT_EXIT(x))
  <1>1. x.ready = <<>> => firstprio(x) = 0 /\ x.prio[x.cur] = 1
    BY GoodShape, CoreShape DEF firstprio, NOPRIO
  <1>2. firstprio(x) >= x.prio[x.cur] => x.ready # <<>>
    BY <1>1
  <1>3. firstprio(x) > x.prio[x.cur] => x.ready # <<>>
    BY <1>1
  <1>4. Good(chSchRescheduleS(x))
    BY <1>3, DoReschedule DEF chSchRescheduleS, chSchIsRescRequiredI
  <1>5. Good(chSchDoYieldS(x))
    BY <1>2, DoReschedule DEF chSchDoYieldS
  <1>6. Good(ALT_OS_INT_EXIT(x))
    <2>1. chSchIsPreemptionRequired(x) => x.ready # <<>>
      BY <1>2, <1>3 DEF chSchIsPreemptionRequired
    <2> QED BY <2>1, DoReschedule DEF ALT_OS_INT_EXIT, chSchDoReschedule
  <1> QED BY <1>4, <1>5, <1>6

\* The running thread is in a call; s is SUSPENDED while it goes for the heap.
Doing(x, v, s) ==
    /\ s \in {"CURRENT", "SUSPENDED"} /\ v = [x.st EXCEPT ![x.cur] = s] /\ Core(x, v)
    /\ x.st \in [All -> States]
    /\ \A t \in All : (x.st[t] = "CURRENT" <=> t = x.cur) /\ x.st[t] # "SUSPENDED"

LEMMA DoingGood ==
  ASSUME NEW x, Good(x)
  PROVE  Doing(x, x.st, "CURRENT")
  <1>1. x.st = [x.st EXCEPT ![x.cur] = "CURRENT"]
    BY GoodShape
  <1> QED BY <1>1, GoodShape DEF Doing

Unarmed(x, t) == \A i \in 1..Len(x.vt) : x.vt[i].par # t

\* The running thread goes to sleep, in the queues it was put in, with or
\* without a timer.
LEMMA GoSleep ==
  ASSUME NEW x, NEW v, NEW s0, Doing(x, v, s0), NEW c, c = x.cur, c # Idle, Unarmed(x, c),
         NEW k1, Keeps(x, k1, {"u", "q", "cnt", "waiting", "msg"}),
         DOMAIN k1.u = All, DOMAIN k1.q = WaitQueues, DOMAIN k1.cnt = AllSems,
         DOMAIN k1.waiting = All,
         NEW s \in States \ (Running \cup {"SUSPENDED"}), NEW cont,
         \A p \in All : p # c => k1.u[p] = x.u[p],
         PutIn(x, v, c, s, k1.u[c], k1.q), PutOn(x, v, c, s, cont, k1.waiting),
         PutOther(x, v, c, k1.q, k1.waiting),
         Local(s, k1.u[c], cont, k1.q[c], k1.waiting[c], x.epending[c], x.mtxlist[c],
               x.more[c], CH_TIME_QUANTUM),
         Counters(k1.cnt, k1.q),
         NEW time \in 1..(TimeMod - 1), time # TIME_INFINITE => cont.fn \in Timed
  PROVE  Good(chSchGoSleepTimeoutS(k1, s, time, cont))
  <1> DEFINE k2 == IF time = TIME_INFINITE THEN k1 ELSE chVTSetI(k1, c, time)
             z == [k2 EXCEPT !.st[c] = s, !.preempt[c] = CH_TIME_QUANTUM, !.cont[c] = cont]
             cont2 == [x.cont EXCEPT ![c] = cont]
  <1>1. /\ c \in All /\ x.st \in [All -> States] /\ Core(x, v) /\ v = [x.st EXCEPT ![c] = s0]
        /\ DOMAIN x = Fields /\ DOMAIN x.cont = All /\ DOMAIN x.preempt = All
        /\ s0 \in {"CURRENT", "SUSPENDED"} /\ DOMAIN x.st = All
        /\ \A p \in All : (x.st[p] = "CURRENT" <=> p = c) /\ x.st[p] # "SUSPENDED"
    BY CoreShape DEF Doing
  <1>2. /\ k1.vt = x.vt /\ k1.due = x.due /\ k1.cont = x.cont /\ k1.st = x.st /\ k1.preempt = x.preempt
        /\ DOMAIN k1 = Fields /\ k1.cur = c
    BY DEF Keeps, Fields
  <1>3. Timers(x.vt, x.due, x.cont)
    BY <1>1 DEF Core
  <1>4. Keeps(k1, k2, {"vt", "due"}) /\ Timers(k2.vt, k2.due, cont2)
    <2>1. cont2[c] = cont /\ \A p \in All : p # c => cont2[p] = x.cont[p]
      BY <1>1
    <2> HIDE DEF cont2
    <2>2. CASE time = TIME_INFINITE
      <3>1. k2 = k1 /\ Keeps(k1, k1, {"vt", "due"})
        BY <1>2, <2>2 DEF Keeps
      <3>2. \A i \in 1..Len(x.vt) : cont2[x.vt[i].par].fn \in Timed
        <4> TAKE i \in 1..Len(x.vt)
        <4>1. x.vt[i].par \in All /\ x.cont[x.vt[i].par].fn \in Timed /\ x.vt[i].par # c
          BY <1>3, TimerFacts DEF Unarmed
        <4> QED BY <4>1, <2>1
      <3>3. Timers(x.vt, x.due, cont2)
        BY <1>3, <3>2, TimersKeep
      <3> HIDE DEF k2
      <3> QED BY <1>2, <3>1, <3>3
    <2>3. CASE time # TIME_INFINITE
      <3>1. k2 = chVTSetI(k1, c, time)
        BY <2>3
      <3> HIDE DEF k2
      <3>2. \A i \in 1..Len(k1.vt) : k1.vt[i].par # c
        BY <1>2 DEF Unarmed
      <3>3. cont2[c].fn \in Timed /\ \A p \in All : p # c => cont2[p] = k1.cont[p]
        BY <1>2, <2>1, <2>3
      <3>4. Timers(k1.vt, k1.due, k1.cont)
        BY <1>2, <1>3
      <3> QED BY <1>1, <1>2, <3>1, <3>2, <3>3, <3>4, SetTimers
    <2> QED BY <2>2, <2>3
  <1> HIDE DEF k2
  <1>5. /\ DOMAIN k2 = Fields /\ k2.st = x.st /\ k2.cont = x.cont /\ k2.preempt = x.preempt
        /\ k2.u = k1.u /\ k2.q = k1.q /\ k2.cnt = k1.cnt /\ k2.waiting = k1.waiting /\ k2.cur = c
        /\ Keeps(x, k2, {"u", "q", "cnt", "waiting", "msg", "vt", "due"})
    BY <1>2, <1>4 DEF Keeps, Fields
  <1>6. /\ z.st = [x.st EXCEPT ![c] = s] /\ z.cont = cont2
        /\ z.preempt = [x.preempt EXCEPT ![c] = CH_TIME_QUANTUM]
        /\ z.u = k1.u /\ z.q = k1.q /\ z.cnt = k1.cnt /\ z.waiting = k1.waiting
        /\ z.vt = k2.vt /\ z.due = k2.due
        /\ Keeps(x, z, {"st", "u", "q", "cnt", "cont", "preempt", "vt", "due", "waiting", "msg"})
    BY <1>5 DEF Keeps, Fields
  <1>7. chSchGoSleepTimeoutS(k1, s, time, cont) = SwitchToFirst(z)
    BY <1>2, <1>5 DEF chSchGoSleepTimeoutS, chSchGoSleepS, k2
  <1> HIDE DEF z
  <1>8. /\ DOMAIN z.st = All /\ DOMAIN z.cont = All /\ DOMAIN z.preempt = All
        /\ z.cont[c] = cont /\ z.preempt[c] = CH_TIME_QUANTUM
        /\ \A p \in All : p # c => z.u[p] = x.u[p] /\ z.cont[p] = x.cont[p] /\ z.preempt[p] = x.preempt[p]
    BY <1>1, <1>6
  <1> DEFINE w == [v EXCEPT ![c] = s]
  <1>9. z.st = w
    BY <1>1, <1>6
  <1>10. Core(z, w)
    <2>1. c \in All \ {Idle} /\ s \in States \ Running /\ v[c] \in {"CURRENT", "SUSPENDED"}
      BY <1>1
    <2>2. w = [v EXCEPT ![c] = s]
      OBVIOUS
    <2>3. Timers(z.vt, z.due, z.cont)
      BY <1>4, <1>6
    <2>4. /\ PutIn(x, v, c, s, z.u[c], z.q) /\ PutOn(x, v, c, s, z.cont[c], z.waiting)
          /\ PutOther(x, v, c, z.q, z.waiting)
      BY <1>6, <1>8
    <2>5. /\ Counters(z.cnt, z.q)
          /\ DOMAIN z.u = All /\ DOMAIN z.q = WaitQueues /\ DOMAIN z.cnt = AllSems /\ DOMAIN z.waiting = All
      BY <1>6
    <2>6. Local(s, z.u[c], z.cont[c], z.q[c], z.waiting[c], x.epending[c], x.mtxlist[c], x.more[c],
                z.preempt[c])
      BY <1>6, <1>8
    <2> HIDE DEF w, cont2
    <2> QED BY <1>1, <1>6, <1>8, <2>1, <2>2, <2>3, <2>4, <2>5, <2>6, CoreSleep
  <1>11. \A p \in All : z.st[p] \notin {"CURRENT", "SUSPENDED"}
    BY <1>1, <1>6 DEF Running
  <1> HIDE DEF w
  <1> QED BY <1>7, <1>9, <1>10, <1>11, SwitchGood

Objects == AllSems \cup AllMutexes \cup Conds \cup {"iq", "oq"}

LEMMA DoingShape ==
  ASSUME NEW x, NEW v, NEW s0, Doing(x, v, s0)
  PROVE  /\ x.cur \in All /\ Core(x, v) /\ v[x.cur] = s0 /\ v \in [All -> States]
         /\ s0 \in {"CURRENT", "SUSPENDED"} /\ DOMAIN x = Fields /\ DOMAIN x.u = All
         /\ DOMAIN x.q = WaitQueues /\ DOMAIN x.waiting = All /\ DOMAIN x.cnt = AllSems
         /\ \A o \in WaitQueues : Exactly(x.q[o], Waiters(x, v, o)) /\ x.cur \notin Waiters(x, v, o)
         /\ \A p \in All : Exactly(x.waiting[p], Joining(x, v, p)) /\ x.cur \notin Joining(x, v, p)
         /\ Local(s0, x.u[x.cur], x.cont[x.cur], x.q[x.cur], x.waiting[x.cur], x.epending[x.cur],
                  x.mtxlist[x.cur], x.more[x.cur], x.preempt[x.cur])
         /\ Counters(x.cnt, x.q)
  <1>1. Core(x, v) /\ v = [x.st EXCEPT ![x.cur] = s0] /\ s0 \in {"CURRENT", "SUSPENDED"}
    BY DEF Doing
  <1>2. x.cur \in All /\ v \in [All -> States] /\ DOMAIN x.st = All
        /\ DOMAIN x = Fields /\ DOMAIN x.u = All /\ DOMAIN x.cnt = AllSems
        /\ DOMAIN x.q = WaitQueues /\ DOMAIN x.waiting = All
    BY <1>1, CoreShape
  <1>3. v[x.cur] = s0
    BY <1>1, <1>2
  <1>4. /\ \A o \in WaitQueues : Exactly(x.q[o], Waiters(x, v, o))
        /\ \A p \in All : Exactly(x.waiting[p], Joining(x, v, p))
        /\ Counters(x.cnt, x.q)
    BY <1>1 DEF Core, Queues
  <1>5. /\ \A o \in WaitQueues : x.cur \notin Waiters(x, v, o)
        /\ \A p \in All : x.cur \notin Joining(x, v, p)
    BY <1>1, <1>3 DEF Waiters, Joining, Queued
  <1>6. Local(s0, x.u[x.cur], x.cont[x.cur], x.q[x.cur], x.waiting[x.cur], x.epending[x.cur],
              x.mtxlist[x.cur], x.more[x.cur], x.preempt[x.cur])
    BY <1>1, <1>2, <1>3 DEF Core, Locals
  <1> QED BY <1>1, <1>2, <1>3, <1>4, <1>5, <1>6

LEMMA ObjectsApart == \A o \in Objects : o \in WaitQueues /\ o \notin All
  BY NamesAssumption DEF Objects, WaitQueues

\* A wait in the queue of an object.
Going(x, v, s0, c, o, r, k1, s, cont, time) ==
    /\ Doing(x, v, s0) /\ c = x.cur /\ c # Idle /\ Unarmed(x, c)
    /\ o \in Objects /\ Exactly(r, Waiters(x, v, o) \cup {c})
    /\ Keeps(x, k1, {"u", "q", "cnt"}) /\ Upd(x.u, k1.u, c, Obj(o)) /\ Upd(x.q, k1.q, o, r)
    /\ DOMAIN k1.cnt = AllSems /\ Counters(k1.cnt, k1.q)
    /\ s \in {"WTSEM", "WTMTX", "WTCOND", "WTQUEUE"} /\ Kind(s, Obj(o), cont) /\ ContOK(cont)
    /\ Sleeps(cont.fn, s)
    /\ x.more[c].fn \in {"alloc", "free"} => s = "WTMTX" \/ x.mtxlist[c] # <<>>
    /\ time \in 1..(TimeMod - 1)
    /\ time # TIME_INFINITE => cont.fn \in Timed

LEMMA SleepOn ==
  ASSUME NEW x, NEW v, NEW s0, NEW c, NEW o, NEW r, NEW k1, NEW s, NEW cont, NEW time,
         Going(x, v, s0, c, o, r, k1, s, cont, time)
  PROVE  Good(chSchGoSleepTimeoutS(k1, s, time, cont))
  <1> USE DEF Going
  <1>1. /\ c \in All /\ Core(x, v) /\ DOMAIN x.u = All /\ DOMAIN x.q = WaitQueues /\ DOMAIN x.waiting = All
        /\ \A p \in WaitQueues : Exactly(x.q[p], Waiters(x, v, p)) /\ c \notin Waiters(x, v, p)
        /\ \A p \in All : Exactly(x.waiting[p], Joining(x, v, p)) /\ c \notin Joining(x, v, p)
    BY DoingShape
  <1>2. o \in WaitQueues /\ o \notin All
    BY ObjectsApart
  <1>3. /\ Keeps(x, k1, {"u", "q", "cnt", "waiting", "msg"}) /\ k1.waiting = x.waiting
    BY DEF Keeps, Fields
  <1>4. /\ DOMAIN k1.u = All /\ DOMAIN k1.q = WaitQueues /\ DOMAIN k1.waiting = All
        /\ k1.u[c] = Obj(o) /\ k1.u[c][2] = o /\ \A p \in All : p # c => k1.u[p] = x.u[p]
        /\ k1.q[o] = r /\ \A p \in WaitQueues : p # o => k1.q[p] = x.q[p]
    BY <1>1, <1>2, <1>3 DEF Obj, Upd
  <1>5. \A p \in All : k1.q[p] = x.q[p] /\ k1.waiting[p] = x.waiting[p]
    BY <1>2, <1>3, <1>4 DEF WaitQueues
  <1>6. s \in Queued /\ s # "WTEXIT" /\ s \in States \ (Running \cup {"SUSPENDED"})
    BY DEF Queued, States, Running
  <1>7. PutIn(x, v, c, s, k1.u[c], k1.q)
    <2> SUFFICES ASSUME NEW p \in WaitQueues
                 PROVE  Exactly(k1.q[p], IF p = o THEN Waiters(x, v, p) \cup {c} ELSE Waiters(x, v, p))
      BY <1>4, <1>6 DEF PutIn
    <2> QED BY <1>1, <1>4
  <1>8. PutOn(x, v, c, s, cont, k1.waiting)
    BY <1>1, <1>3, <1>6 DEF PutOn
  <1>9. PutOther(x, v, c, k1.q, k1.waiting)
    BY <1>5 DEF PutOther
  <1>10. Local(s, k1.u[c], cont, k1.q[c], k1.waiting[c], x.epending[c], x.mtxlist[c], x.more[c],
               CH_TIME_QUANTUM)
    <2>1. MoreOK(x.more[c]) /\ x.mtxlist[c] \in Seq(AllMutexes)
      BY DoingShape DEF Local
    <2>2. CH_TIME_QUANTUM \in 0..CH_TIME_QUANTUM
      BY SchedAssumption
    <2> QED BY <1>4, <2>1, <2>2 DEF Local, Running
  <1> QED BY <1>1, <1>3, <1>4, <1>6, <1>7, <1>8, <1>9, <1>10, GoSleep

\* A wait in no queue, or the end of the thread.
LEMMA SleepFree ==
  ASSUME NEW x, NEW v, NEW s0, Doing(x, v, s0), NEW c, c = x.cur, c # Idle, Unarmed(x, c),
         NEW k1, Keeps(x, k1, {"u"}), DOMAIN k1.u = All, \A p \in All : p # c => k1.u[p] = x.u[p],
         NEW s \in {"SLEEPING", "WTOREVT", "WTANDEVT", "WTMSG", "FINAL"}, NEW cont,
         Local(s, k1.u[c], cont, x.q[c], x.waiting[c], x.epending[c], x.mtxlist[c], x.more[c],
               CH_TIME_QUANTUM),
         NEW time \in 1..(TimeMod - 1), time # TIME_INFINITE => cont.fn \in Timed
  PROVE  Good(chSchGoSleepTimeoutS(k1, s, time, cont))
  <1>1. /\ c \in All /\ Core(x, v) /\ DOMAIN x.u = All /\ DOMAIN x.q = WaitQueues /\ DOMAIN x.waiting = All
        /\ \A p \in WaitQueues : Exactly(x.q[p], Waiters(x, v, p)) /\ c \notin Waiters(x, v, p)
        /\ \A p \in All : Exactly(x.waiting[p], Joining(x, v, p)) /\ c \notin Joining(x, v, p)
        /\ Counters(x.cnt, x.q) /\ DOMAIN x.cnt = AllSems
    BY DoingShape
  <1>2. /\ Keeps(x, k1, {"u", "q", "cnt", "waiting", "msg"}) /\ k1.waiting = x.waiting /\ k1.q = x.q
        /\ k1.cnt = x.cnt
    BY DEF Keeps, Fields
  <1>4. s \notin Queued /\ s # "WTEXIT" /\ s \in States \ (Running \cup {"SUSPENDED"})
    BY DEF Queued, States, Running
  <1>5. PutIn(x, v, c, s, k1.u[c], k1.q)
    BY <1>1, <1>2, <1>4 DEF PutIn
  <1>6. PutOn(x, v, c, s, cont, k1.waiting)
    BY <1>1, <1>2, <1>4 DEF PutOn
  <1>7. PutOther(x, v, c, k1.q, k1.waiting)
    BY <1>2 DEF PutOther
  <1> QED BY <1>1, <1>2, <1>4, <1>5, <1>6, <1>7, GoSleep

\* A call without a timeout.
LEMMA SleepForever ==
  ASSUME NEW x, NEW s, NEW cont
  PROVE  /\ chSchGoSleepS(x, s, cont) = chSchGoSleepTimeoutS(x, s, TIME_INFINITE, cont)
         /\ TIME_INFINITE \in 1..(TimeMod - 1)
  BY SchedAssumption DEF chSchGoSleepTimeoutS, TIME_INFINITE

\* A thread in its own code has no timer.
LEMMA NoTimer ==
  ASSUME NEW x, Good(x), NEW t \in All, x.cont[t].fn \notin Timed
  PROVE  Unarmed(x, t)
  <1>1. Timers(x.vt, x.due, x.cont)
    BY DEF Good, Core
  <1> QED BY <1>1, TimerFacts DEF Unarmed

\* The counter of a semaphore with one waiter more.
LEMMA CountWait ==
  ASSUME NEW cnt, NEW q, Counters(cnt, q), DOMAIN cnt = AllSems, DOMAIN q = WaitQueues,
         NEW s \in AllSems, cnt[s] - 1 < 0, NEW r, Len(r) = Len(q[s]) + 1,
         NEW cnt1, cnt1 = [cnt EXCEPT ![s] = @ - 1], NEW q1, q1 = [q EXCEPT ![s] = r]
  PROVE  Counters(cnt1, q1) /\ DOMAIN cnt1 = AllSems
  <1>1. \A p \in AllSems : p \in WaitQueues
    BY DEF WaitQueues
  <1>2. cnt[s] \in Int /\ Len(q[s]) = IF cnt[s] < 0 THEN -cnt[s] ELSE 0
    BY DEF Counters
  <1>3. cnt1[s] = cnt[s] - 1 /\ q1[s] = r /\ \A p \in AllSems : p # s => cnt1[p] = cnt[p] /\ q1[p] = q[p]
    BY <1>1
  <1> SUFFICES ASSUME NEW p \in AllSems
               PROVE  cnt1[p] \in Int /\ Len(q1[p]) = IF cnt1[p] < 0 THEN -cnt1[p] ELSE 0
    BY DEF Counters
  <1>4. CASE p = s
    <2>1. cnt1[p] = cnt[s] - 1 /\ Len(q1[p]) = (IF cnt[s] < 0 THEN -cnt[s] ELSE 0) + 1
      BY <1>2, <1>3, <1>4
    <2> QED BY <1>2, <2>1
  <1>5. CASE p # s
    BY <1>3, <1>5 DEF Counters
  <1> QED BY <1>4, <1>5

-----------------------------------------------------------------------------
(***************************************************************************)
(* States between two calls.                                               *)
(***************************************************************************)

LEMMA GoodIf ==
  ASSUME NEW x, Good(x), NEW y, Core(y, x.st), y.st = x.st, y.cur = x.cur
  PROVE  Good(y)
  BY DEF Good

\* Fields the invariant says little of.
LEMMA GoodFrame ==
  ASSUME NEW x, Good(x), NEW y, Keeps(x, y, Inert \ {"cur", "st"}), y.systime \in Times,
         DOMAIN y.prio = All, y.prio[Idle] = IDLEPRIO, DOMAIN y.preempt = All,
         \A t \in All : y.preempt[t] \in 0..CH_TIME_QUANTUM
  PROVE  Good(y) /\ Same(x, y)
  <1>1. Keeps(x, y, Inert) /\ y.cur = x.cur /\ y.st = x.st /\ Same(x, y)
    BY DEF Keeps, Fields, Inert, Same
  <1>2. Core(x, x.st) /\ x.cur \in All /\ DOMAIN x.st = All
    BY CoreShape DEF Good
  <1>3. Core(y, x.st)
    BY <1>1, <1>2, CoreFrame
  <1> QED BY <1>1, <1>3, GoodIf

\* Fields that the invariant says nothing of.
LEMMA GoodInert ==
  ASSUME NEW x, Good(x), NEW y, Keeps(x, y, Inert \ {"cur", "st", "prio", "preempt", "systime"})
  PROVE  Good(y) /\ Same(x, y)
  <1>1. Keeps(x, y, Inert \ {"cur", "st"}) /\ y.prio = x.prio /\ y.preempt = x.preempt
        /\ y.systime = x.systime
    BY DEF Keeps, Fields, Inert
  <1>2. Core(x, x.st)
    BY DEF Good
  <1>3. /\ x.systime \in Times /\ DOMAIN x.prio = All /\ x.prio[Idle] = IDLEPRIO /\ DOMAIN x.preempt = All
        /\ \A t \in All : x.preempt[t] \in 0..CH_TIME_QUANTUM
    BY <1>2, CoreShape DEF IDLEPRIO
  <1> QED BY <1>1, <1>3, GoodFrame

\* The running thread reserves with m only what is free.
Claims(m, more, v, c) ==
    \A t \in All : Reserves(m, t) =>
        v[t] = "FINAL" /\ \A b \in All \ {c} : ~ Reserves(more[b], t)

LEMMA ReservedWith ==
  ASSUME NEW more, NEW v, Reserved(more, v), NEW c \in All, NEW m, Claims(m, more, v, c),
         NEW more2, more2[c] = m, \A a \in All : a # c => more2[a] = more[a]
  PROVE  Reserved(more2, v)
  BY DEF Reserved, Claims

\* What the thread alone has reserved it can keep.
LEMMA ClaimsKept ==
  ASSUME NEW more, NEW v, Reserved(more, v), NEW c \in All, NEW m,
         \A t \in All : Reserves(m, t) => Reserves(more[c], t)
  PROVE  Claims(m, more, v, c)
  BY DEF Reserved, Claims

\* Fields of the running thread.
LEMMA DoingLocal ==
  ASSUME NEW x, NEW v, NEW s0, Doing(x, v, s0), NEW c, c = x.cur, c # Idle,
         NEW y, Keeps(x, y, {"cont", "more", "mtxlist", "owner", "epending"}),
         DOMAIN y.cont = All, DOMAIN y.more = All, DOMAIN y.mtxlist = All, DOMAIN y.epending = All,
         \A p \in All : p # c => /\ y.cont[p] = x.cont[p] /\ y.more[p] = x.more[p]
                                 /\ y.mtxlist[p] = x.mtxlist[p] /\ y.epending[p] = x.epending[p],
         y.cont[c] = x.cont[c] \/ Unarmed(x, c),
         Local(s0, x.u[c], y.cont[c], x.q[c], x.waiting[c], y.epending[c], y.mtxlist[c],
               y.more[c], x.preempt[c]),
         Claims(y.more[c], x.more, v, c),
         y.owner \in [AllMutexes -> Threads \cup {NoThread}]
  PROVE  Doing(y, v, s0)
  <1>1. /\ c \in All /\ Core(x, v) /\ v[c] = s0 /\ s0 \in {"CURRENT", "SUSPENDED"}
        /\ DOMAIN x.u = All
    BY DoingShape
  <1>2. /\ y.u = x.u /\ y.vt = x.vt /\ y.due = x.due /\ y.st = x.st /\ y.cur = x.cur
        /\ Keeps(x, y, {"u", "cont", "mtxlist", "owner", "more", "epending", "vt", "due"})
    BY DEF Keeps, Fields
  <1>3. Timers(y.vt, y.due, y.cont)
    <2>1. Timers(x.vt, x.due, x.cont)
      BY <1>1 DEF Core
    <2>2. \A i \in 1..Len(x.vt) : y.cont[x.vt[i].par].fn \in Timed
      <3> TAKE i \in 1..Len(x.vt)
      <3>1. x.vt[i].par \in All /\ x.cont[x.vt[i].par].fn \in Timed
        BY <2>1, TimerFacts
      <3>2. x.vt[i].par = c => y.cont[c] = x.cont[c]
        BY DEF Unarmed
      <3> QED BY <3>1, <3>2
    <2> QED BY <1>2, <2>1, <2>2, TimersKeep
  <1>4. Reserved(y.more, v)
    <2>1. Reserved(x.more, v)
      BY <1>1 DEF Core
    <2> QED BY <1>1, <2>1, ReservedWith
  <1>5. v[c] \notin Queued /\ v[c] # "WTEXIT"
    BY <1>1 DEF Queued
  <1>6. Core(y, v)
    BY <1>1, <1>2, <1>3, <1>4, <1>5, CoreLocal
  <1> QED BY <1>2, <1>6 DEF Doing

LEMMA DoingIsGood ==
  ASSUME NEW x, NEW v, Doing(x, v, "CURRENT")
  PROVE  Good(x)
  <1>1. v = x.st
    BY CoreShape DEF Doing
  <1> QED BY <1>1 DEF Doing, Good

LEMMA Suspend ==
  ASSUME NEW x, Good(x), x.cur # Idle
  PROVE  Doing(x, [x.st EXCEPT ![x.cur] = "SUSPENDED"], "SUSPENDED")
  <1> DEFINE c == x.cur
             w == [x.st EXCEPT ![c] = "SUSPENDED"]
  <1>1. /\ x.st \in [All -> States] /\ c \in All /\ x.st[c] = "CURRENT" /\ Core(x, x.st)
        /\ \A t \in All : (x.st[t] = "CURRENT" <=> t = c) /\ x.st[t] # "SUSPENDED"
    BY GoodShape
  <1>2. Local("CURRENT", x.u[c], x.cont[c], x.q[c], x.waiting[c], x.epending[c], x.mtxlist[c],
              x.more[c], x.preempt[c])
    BY <1>1 DEF Core, Locals
  <1>3. Local("SUSPENDED", x.u[c], x.cont[c], x.q[c], x.waiting[c], x.epending[c], x.mtxlist[c],
              x.more[c], x.preempt[c])
    BY <1>2 DEF Local, Running, Kind
  <1>4. x.st[c] \notin Queued \cup {"READY", "WTEXIT", "FINAL"} /\ c \in All \ {Idle}
        /\ w = [x.st EXCEPT ![c] = "SUSPENDED"]
    BY <1>1 DEF Queued
  <1> HIDE DEF w
  <1>5. Core(x, w)
    BY <1>1, <1>3, <1>4, CoreRouse
  <1> QED BY <1>1, <1>4, <1>5 DEF Doing, w

LEMMA Unsuspend ==
  ASSUME NEW x, NEW v, Doing(x, v, "SUSPENDED"), NEW c, c = x.cur, c # Idle, x.mtxlist[c] # <<>>,
         x.cont[c] = NoCont
  PROVE  Good(x)
  <1>1. /\ c \in All /\ v[c] = "SUSPENDED" /\ Core(x, v) /\ v \in [All -> States]
        /\ Local("SUSPENDED", x.u[c], x.cont[c], x.q[c], x.waiting[c], x.epending[c], x.mtxlist[c],
                 x.more[c], x.preempt[c])
    BY DoingShape
  <1>2. Local("CURRENT", x.u[c], x.cont[c], x.q[c], x.waiting[c], x.epending[c], x.mtxlist[c],
              x.more[c], x.preempt[c])
    <2>1. x.cont[c].fn = "none"
      BY DEF NoCont
    <2> QED BY <1>1, <2>1 DEF Local, Running, Kind
  <1>3. x.st \in [All -> States] /\ v = [x.st EXCEPT ![c] = "SUSPENDED"] /\ x.st[c] = "CURRENT"
        /\ \A t \in All : (x.st[t] = "CURRENT" <=> t = c) /\ x.st[t] # "SUSPENDED"
    BY <1>1 DEF Doing
  <1>4. x.st = [v EXCEPT ![c] = "CURRENT"]
    BY <1>1, <1>3
  <1>5. v[c] \notin Queued \cup {"READY", "WTEXIT", "FINAL"} /\ c \in All \ {Idle}
    BY <1>1 DEF Queued
  <1>6. Core(x, x.st)
    <2> DEFINE w == x.st
    <2> HIDE DEF w
    <2>1. w = [v EXCEPT ![c] = "CURRENT"]
      BY <1>4 DEF w
    <2>2. Core(x, w)
      BY <1>1, <1>2, <1>5, <2>1, CoreRouse
    <2> QED BY <2>2 DEF w
  <1> QED BY <1>3, <1>6 DEF Good

\* The call the running thread was in is at its end.
LEMMA ContDone ==
  ASSUME NEW x, Good(x), NEW c, c = x.cur, c # Idle, Unarmed(x, c),
         NEW y, Keeps(x, y, {"cont"}), Upd(x.cont, y.cont, c, NoCont)
  PROVE  Good(y)
  <1>1. Doing(x, x.st, "CURRENT") /\ Core(x, x.st)
    BY DoingGood DEF Good
  <1>2. c \in All /\ DOMAIN x.cont = All /\ DOMAIN x.more = All /\ DOMAIN x.mtxlist = All
        /\ DOMAIN x.epending = All
    BY <1>1, CoreShape
  <1>3. /\ y.more = x.more /\ y.mtxlist = x.mtxlist /\ y.epending = x.epending /\ y.owner = x.owner
        /\ Keeps(x, y, {"cont", "more", "mtxlist", "owner", "epending"})
    BY DEF Keeps, Fields
  <1>4. DOMAIN y.cont = All /\ y.cont[c] = NoCont /\ \A p \in All : p # c => y.cont[p] = x.cont[p]
    BY <1>2 DEF Upd
  <1>5. Local("CURRENT", x.u[c], NoCont, x.q[c], x.waiting[c], x.epending[c], x.mtxlist[c],
              x.more[c], x.preempt[c])
    <2>1. Local("CURRENT", x.u[c], x.cont[c], x.q[c], x.waiting[c], x.epending[c], x.mtxlist[c],
                x.more[c], x.preempt[c])
      BY <1>1, DoingShape
    <2> QED BY <2>1, NoContFacts DEF Local, Kind, Running
  <1>6. Claims(y.more[c], x.more, x.st, c) /\ x.owner \in [AllMutexes -> Threads \cup {NoThread}]
    <2>1. Reserved(x.more, x.st) /\ x.owner \in [AllMutexes -> Threads \cup {NoThread}]
      BY <1>1 DEF Core
    <2> QED BY <1>2, <1>3, <2>1, ClaimsKept
  <1>7. Doing(y, x.st, "CURRENT")
    BY <1>1, <1>2, <1>3, <1>4, <1>5, <1>6, DoingLocal
  <1> QED BY <1>7, DoingIsGood

-----------------------------------------------------------------------------
(***************************************************************************)
(* Threads and timers.                                                     *)
(***************************************************************************)

\* When a thread runs again after a wait with a timeout.
LEMMA AfterSleepGood ==
  ASSUME NEW x, Good(x), NEW y, y = AfterSleep(x)
  PROVE  /\ Good(y) /\ Unarmed(y, x.cur) /\ Keeps(x, y, {"vt", "due"})
         /\ y.cur = x.cur /\ y.cont = x.cont /\ y.u = x.u /\ y.more = x.more
  <1>1. Core(x, x.st) /\ x.cur \in All /\ Timers(x.vt, x.due, x.cont) /\ DOMAIN x = Fields
    BY CoreShape DEF Good, Core
  <1>2. DOMAIN x.vt = 1..Len(x.vt)
    BY <1>1, TimerFacts
  <1>3. CASE ~ chVTIsArmedI(x, x.cur)
    BY <1>1, <1>2, <1>3 DEF AfterSleep, chVTIsArmedI, Unarmed, Keeps
  <1>4. CASE chVTIsArmedI(x, x.cur)
    <2>1. y = chVTResetI(x, x.cur)
      BY <1>4 DEF AfterSleep
    <2>2. \E i \in 1..Len(x.vt) : x.vt[i].par = x.cur
      BY <1>2, <1>4 DEF chVTIsArmedI
    <2>3. /\ Keeps(x, y, {"vt", "due"}) /\ Timers(y.vt, y.due, x.cont)
          /\ \A i \in 1..Len(y.vt) : y.vt[i].par # x.cur
      BY <1>1, <2>1, <2>2, ResetTimers
    <2>4. /\ y.st = x.st /\ y.cur = x.cur /\ y.cont = x.cont /\ y.u = x.u /\ y.more = x.more
          /\ y.mtxlist = x.mtxlist /\ y.epending = x.epending /\ y.owner = x.owner
          /\ Keeps(x, y, {"u", "cont", "mtxlist", "owner", "more", "epending", "vt", "due"})
      BY <2>3 DEF Keeps, Fields
    <2>5. Core(y, x.st)
      <3>1. /\ DOMAIN x.u = All /\ DOMAIN x.cont = All /\ DOMAIN x.mtxlist = All
            /\ DOMAIN x.more = All /\ DOMAIN x.epending = All
            /\ x.cont[Idle] = NoCont /\ x.more[Idle] = NoCont
        BY <1>1, CoreShape
      <3>2. /\ Local(x.st[x.cur], x.u[x.cur], x.cont[x.cur], x.q[x.cur], x.waiting[x.cur],
                     x.epending[x.cur], x.mtxlist[x.cur], x.more[x.cur], x.preempt[x.cur])
            /\ Reserved(x.more, x.st) /\ x.owner \in [AllMutexes -> Threads \cup {NoThread}]
        BY <1>1 DEF Core, Locals
      <3> QED BY <1>1, <2>3, <2>4, <3>1, <3>2, CoreLocal
    <2>6. Good(y)
      BY <2>4, <2>5, GoodIf
    <2> QED BY <2>3, <2>4, <2>6 DEF Unarmed
  <1> QED BY <1>3, <1>4

\* What a thread that makes a call has not to do.
Calling(x) ==
    Good(x) /\ x.cur \in All /\ x.cur # Idle /\ x.cont[x.cur] = NoCont /\ x.more[x.cur] = NoCont

LEMMA CallingFacts ==
  ASSUME NEW x, Calling(x), NEW c, c = x.cur
  PROVE  /\ Good(x) /\ c \in All /\ c # Idle /\ Unarmed(x, c) /\ Doing(x, x.st, "CURRENT")
         /\ Core(x, x.st) /\ x.st[c] = "CURRENT" /\ x.mtxlist[c] \in Seq(AllMutexes)
         /\ MoreOK(x.more[c]) /\ x.more[c].fn = "none" /\ x.cont[c].fn = "none"
         /\ x.preempt[c] \in 0..CH_TIME_QUANTUM
  <1>1. Good(x) /\ c \in All /\ c # Idle /\ x.cont[c] = NoCont /\ x.more[c] = NoCont
    BY DEF Calling
  <1>2. Core(x, x.st) /\ x.st[c] = "CURRENT"
    BY <1>1, GoodShape
  <1>3. x.mtxlist[c] \in Seq(AllMutexes) /\ x.preempt[c] \in 0..CH_TIME_QUANTUM
    BY <1>1, <1>2 DEF Core, Locals, Local
  <1>4. "none" \notin Timed
    BY DEF Timed
  <1>5. x.cont[c].fn = "none" /\ x.more[c].fn = "none" /\ MoreOK(x.more[c])
    BY <1>1, NoContFacts
  <1>6. Unarmed(x, c)
    BY <1>1, <1>4, <1>5, NoTimer
  <1> QED BY <1>1, <1>2, <1>3, <1>5, <1>6, DoingGood

LEMMA ThdSleepGood ==
  ASSUME NEW x, Calling(x), NEW time \in 1..(TimeMod - 1)
  PROVE  Good(chThdSleepS(x, time))
  <1> DEFINE c == x.cur
             cont == [fn |-> "sleep"]
  <1>1. /\ c \in All /\ c # Idle /\ Unarmed(x, c) /\ Doing(x, x.st, "CURRENT") /\ Core(x, x.st)
        /\ x.mtxlist[c] \in Seq(AllMutexes) /\ MoreOK(x.more[c]) /\ x.more[c].fn = "none"
    BY CallingFacts
  <1>2. Local("SLEEPING", x.u[c], cont, x.q[c], x.waiting[c], x.epending[c], x.mtxlist[c], x.more[c],
              CH_TIME_QUANTUM)
    <2>1. CH_TIME_QUANTUM \in 0..CH_TIME_QUANTUM
      BY SchedAssumption
    <2>2. cont.fn = "sleep" /\ cont.fn \in Timed
      BY DEF Timed
    <2>3. ContOK(cont)
      BY <2>2 DEF ContOK
    <2> HIDE DEF cont
    <2> QED BY <1>1, <2>1, <2>2, <2>3 DEF Local, Kind, Running, Sleeps
  <1>3. cont.fn \in Timed
    BY DEF Timed
  <1>4. Keeps(x, x, {"u"}) /\ DOMAIN x.u = All
    BY <1>1, CoreShape DEF Keeps
  <1> HIDE DEF c, cont
  <1>5. Good(chSchGoSleepTimeoutS(x, "SLEEPING", time, cont))
    <2>1. c = x.cur
      BY DEF c
    <2> QED BY <1>1, <1>2, <1>3, <1>4, <2>1, SleepFree
  <1> QED BY <1>5 DEF chThdSleepS, cont

LEMMA ThdSleepUntilGood ==
  ASSUME NEW x, Calling(x), NEW time \in Times
  PROVE  Good(chThdSleepUntil(x, time))
  <1>1. Good(x) /\ x.systime \in Times
    BY CallingFacts, CoreShape
  <1>2. (time - x.systime) % TimeMod \in 0..(TimeMod - 1)
    BY <1>1, SchedAssumption DEF Times
  <1> DEFINE d == (time - x.systime) % TimeMod
  <1> HIDE DEF d
  <1>3. d \in 0..(TimeMod - 1) /\ (d > 0 => d \in 1..(TimeMod - 1))
    BY <1>2, SchedAssumption DEF d
  <1> QED BY <1>1, <1>3, ThdSleepGood DEF chThdSleepUntil, d

LEMMA ThdSetPriorityGood ==
  ASSUME NEW x, Calling(x), NEW p
  PROVE  Good(chThdSetPriority(x, p))
  <1> DEFINE c == x.cur
             y == [x EXCEPT !.prio[c] = IF @ = x.rprio[c] \/ p > @ THEN p ELSE @, !.rprio[c] = p]
  <1>1. Good(x) /\ c \in All /\ c # Idle /\ Core(x, x.st)
    BY CallingFacts
  <1>2. /\ DOMAIN x = Fields /\ DOMAIN x.prio = All /\ DOMAIN x.preempt = All /\ x.systime \in Times
        /\ x.prio[Idle] = IDLEPRIO /\ \A t \in All : x.preempt[t] \in 0..CH_TIME_QUANTUM
    BY <1>1, CoreShape DEF IDLEPRIO
  <1>3. /\ Keeps(x, y, Inert \ {"cur", "st"}) /\ y.systime = x.systime /\ y.preempt = x.preempt
        /\ DOMAIN y.prio = All /\ y.prio[Idle] = x.prio[Idle]
    BY <1>1, <1>2 DEF Keeps, Fields, Inert, All
  <1>4. chThdSetPriority(x, p) = chSchRescheduleS(y)
    BY DEF chThdSetPriority
  <1> HIDE DEF y
  <1>5. Good(y)
    BY <1>1, <1>2, <1>3, GoodFrame
  <1> QED BY <1>4, <1>5, Reschedule

-----------------------------------------------------------------------------
(***************************************************************************)
(* Semaphores.                                                             *)
(***************************************************************************)

\* The state of a waiter is that of the kind of its object.
LEMMA WaiterKind ==
  ASSUME NEW x, NEW v, Core(x, v), NEW o \in Objects, NEW t \in Waiters(x, v, o)
  PROVE  /\ t \in All /\ x.u[t][2] = o /\ v[t] \in {"WTSEM", "WTMTX", "WTCOND", "WTQUEUE"}
         /\ v[t] = "WTSEM" <=> o \in AllSems
         /\ v[t] = "WTMTX" <=> o \in AllMutexes
         /\ v[t] = "WTCOND" <=> o \in Conds
  <1>1. t \in All /\ v[t] \in Queued /\ x.u[t][2] = o
    BY DEF Waiters
  <1>2. Kind(v[t], x.u[t], x.cont[t])
    BY <1>1 DEF Core, Locals, Local
  <1>3. o \notin All
    BY ObjectsApart
  <1> QED BY <1>1, <1>2, <1>3, NamesAssumption DEF Kind, Queued, Objects

\* The first waiter of an object is taken out of its queue.
LEMMA TakeFirst ==
  ASSUME NEW x, Good(x), NEW o \in Objects, x.q[o] # <<>>, NEW t, t = Head(x.q[o]),
         o \in AllMutexes => x.mtxlist[t] # <<>>,
         NEW y, Keeps(x, y, {"q", "cnt"}), Upd(x.q, y.q, o, Tail(x.q[o])),
         o \in AllSems => Upd(x.cnt, y.cnt, o, x.cnt[o] + 1), o \notin AllSems => y.cnt = x.cnt
  PROVE  Waking(y, t) /\ Same(x, y)
  <1>1. /\ Core(x, x.st) /\ x.st \in [All -> States] /\ x.cur \in All
        /\ \A p \in All : (x.st[p] = "CURRENT" <=> p = x.cur) /\ x.st[p] # "SUSPENDED"
    BY GoodShape
  <1>2. o \in WaitQueues
    BY ObjectsApart
  <1>3. Exactly(x.q[o], Waiters(x, x.st, o))
    BY <1>1, <1>2 DEF Core, Queues
  <1>4. t \in Waiters(x, x.st, o) /\ Exactly(Tail(x.q[o]), Waiters(x, x.st, o) \ {t})
        /\ Len(Tail(x.q[o])) = Len(x.q[o]) - 1
    BY <1>3, ExactTail
  <1>5. /\ t \in All /\ x.u[t][2] = o /\ x.st[t] \in {"WTSEM", "WTMTX", "WTCOND", "WTQUEUE"}
        /\ x.st[t] = "WTSEM" <=> o \in AllSems
        /\ x.st[t] = "WTMTX" <=> o \in AllMutexes
    BY <1>1, <1>4, WaiterKind
  <1> DEFINE r == Tail(x.q[o])
             w == [x.st EXCEPT ![t] = "CURRENT"]
  <1>6. Upd(x.q, y.q, o, r) /\ Upd(x.st, w, t, "CURRENT") /\ w = [x.st EXCEPT ![t] = "CURRENT"]
    BY DEF Upd
  <1>7. y.st = x.st /\ y.cur = x.cur /\ Same(x, y)
    BY DEF Keeps, Fields, Same
  <1>8. Exactly(r, Waiters(x, x.st, o) \ {t}) /\ Len(r) = Len(x.q[o]) - 1
    BY <1>4
  <1> HIDE DEF r, w
  <1>9. /\ Core(x, x.st) /\ t \in All /\ o = x.u[t][2]
        /\ x.st[t] \in {"WTSEM", "WTMTX", "WTCOND", "WTQUEUE"}
        /\ x.st[t] = "WTMTX" => x.mtxlist[t] # <<>>
        /\ x.st[t] = "WTSEM" => Upd(x.cnt, y.cnt, o, x.cnt[o] + 1)
        /\ x.st[t] # "WTSEM" => y.cnt = x.cnt
        /\ Keeps(x, y, {"q", "cnt"})
    BY <1>1, <1>5
  <1>10. Core(y, w)
    BY ONLY <1>6, <1>8, <1>9, CoreTake
  <1> QED BY <1>1, <1>5, <1>6, <1>7, <1>10 DEF Waking

\* A semaphore without waiters.
LEMMA CountFree ==
  ASSUME NEW x, Good(x), NEW s \in AllSems, NEW n \in Int, n >= 0, x.cnt[s] >= 0,
         NEW y, Keeps(x, y, {"cnt"}), Upd(x.cnt, y.cnt, s, n)
  PROVE  Good(y) /\ Same(x, y)
  <1>1. Core(x, x.st) /\ Counters(x.cnt, x.q) /\ DOMAIN x.cnt = AllSems
        /\ MBOK(x.mb) /\ IOOK(x.io) /\ Listeners(x.listeners)
    BY CoreShape DEF Good, Core
  <1>2. /\ Same(x, y) /\ y.st = x.st /\ y.cur = x.cur /\ y.mb = x.mb /\ y.io = x.io
        /\ y.listeners = x.listeners /\ Keeps(x, y, {"mb", "io", "listeners", "cnt", "flags"})
    BY DEF Keeps, Fields, Same
  <1>3. DOMAIN y.cnt = AllSems /\ Counters(y.cnt, x.q)
    BY <1>1 DEF Counters, Upd
  <1>4. Core(y, x.st)
    BY <1>1, <1>2, <1>3, CoreData
  <1> QED BY <1>2, <1>4, GoodIf

LEMMA SignalI ==
  ASSUME NEW x, Good(x), NEW s \in AllSems
  PROVE  Good(chSemSignalI(x, s)) /\ Same(x, chSemSignalI(x, s))
  <1> DEFINE k1 == [x EXCEPT !.cnt[s] = @ + 1]
             k2 == [k1 EXCEPT !.q[s] = Tail(@)]
             t == Head(x.q[s])
  <1>1. Core(x, x.st) /\ Counters(x.cnt, x.q) /\ DOMAIN x.cnt = AllSems /\ DOMAIN x = Fields
        /\ DOMAIN x.q = WaitQueues
    BY CoreShape DEF Good, Core
  <1>2. /\ x.cnt[s] \in Int /\ Len(x.q[s]) = IF x.cnt[s] < 0 THEN -x.cnt[s] ELSE 0
        /\ s \in Objects /\ s \notin AllMutexes
    BY <1>1, NamesAssumption DEF Counters, Objects
  <1>3. Keeps(x, k1, {"cnt"}) /\ k1.cnt = [x.cnt EXCEPT ![s] = @ + 1] /\ k1.cnt[s] = x.cnt[s] + 1
    BY <1>1 DEF Keeps, Fields
  <1>4. CASE k1.cnt[s] <= 0
    <2>1. x.q[s] # <<>>
      BY <1>2, <1>3, <1>4
    <2>2. Keeps(x, k2, {"q", "cnt"}) /\ Upd(x.q, k2.q, s, Tail(x.q[s])) /\ Upd(x.cnt, k2.cnt, s, x.cnt[s] + 1)
      BY <1>1 DEF Keeps, Fields, Upd
    <2>3. chSemSignalI(x, s) = ReadyMsg(k2, t, "RDY_OK")
      BY <1>4 DEF chSemSignalI
    <2> HIDE DEF k1, k2, t
    <2>4. Waking(k2, t) /\ Same(x, k2)
      BY <1>2, <2>1, <2>2, TakeFirst DEF t
    <2>5. Good(ReadyMsg(k2, t, "RDY_OK")) /\ Same(k2, ReadyMsg(k2, t, "RDY_OK"))
      BY <2>4, WakeMsg
    <2> QED BY <2>3, <2>4, <2>5 DEF Same
  <1>5. CASE ~ (k1.cnt[s] <= 0)
    <2>1. chSemSignalI(x, s) = k1
      BY <1>5 DEF chSemSignalI
    <2>2. Upd(x.cnt, k1.cnt, s, x.cnt[s] + 1) /\ x.cnt[s] + 1 \in Int /\ x.cnt[s] >= 0
          /\ x.cnt[s] + 1 >= 0
      BY <1>2, <1>3, <1>5 DEF Upd
    <2> HIDE DEF k1
    <2> QED BY <1>3, <2>1, <2>2, CountFree
  <1> QED BY <1>4, <1>5

LEMMA SignalGood ==
  ASSUME NEW x, Good(x), NEW s \in AllSems
  PROVE  Good(chSemSignal(x, s))
  <1> DEFINE k1 == [x EXCEPT !.cnt[s] = @ + 1]
             k2 == [k1 EXCEPT !.q[s] = Tail(@)]
             t == Head(x.q[s])
  <1>1. Core(x, x.st) /\ Counters(x.cnt, x.q) /\ DOMAIN x.cnt = AllSems /\ DOMAIN x = Fields
        /\ DOMAIN x.q = WaitQueues
    BY CoreShape DEF Good, Core
  <1>2. /\ x.cnt[s] \in Int /\ Len(x.q[s]) = IF x.cnt[s] < 0 THEN -x.cnt[s] ELSE 0
        /\ s \in Objects /\ s \notin AllMutexes
    BY <1>1, NamesAssumption DEF Counters, Objects
  <1>3. k1.cnt[s] = x.cnt[s] + 1
    BY <1>1 DEF Fields
  <1>4. CASE k1.cnt[s] <= 0
    <2>1. x.q[s] # <<>>
      BY <1>2, <1>3, <1>4
    <2>2. Keeps(x, k2, {"q", "cnt"}) /\ Upd(x.q, k2.q, s, Tail(x.q[s])) /\ Upd(x.cnt, k2.cnt, s, x.cnt[s] + 1)
      BY <1>1 DEF Keeps, Fields, Upd
    <2>3. chSemSignal(x, s) = chSchWakeupS(k2, t, "RDY_OK")
      BY <1>4 DEF chSemSignal
    <2> HIDE DEF k1, k2, t
    <2>4. Waking(k2, t)
      BY <1>2, <2>1, <2>2, TakeFirst DEF t
    <2> QED BY <2>3, <2>4, WakeupS
  <1>5. CASE ~ (k1.cnt[s] <= 0)
    <2>1. chSemSignal(x, s) = chSemSignalI(x, s)
      BY <1>5 DEF chSemSignal, chSemSignalI
    <2> QED BY <2>1, SignalI
  <1> QED BY <1>4, <1>5

\* The wait of a thread that has to sleep.
LEMMA SemSleep ==
  ASSUME NEW x, Good(x), NEW c, c = x.cur, c # Idle, Unarmed(x, c),
         x.more[c].fn \notin {"alloc", "free"}, NEW s \in AllSems, x.cnt[s] - 1 < 0,
         NEW k1, Keeps(x, k1, {"u", "q", "cnt"}), Upd(x.u, k1.u, c, Obj(s)),
         Upd(x.cnt, k1.cnt, s, x.cnt[s] - 1), Upd(x.q, k1.q, s, Append(x.q[s], c)),
         NEW cont, ContOK(cont), cont.fn \in {"sem", "post", "ahead", "fetch"},
         NEW time \in 1..(TimeMod - 1)
  PROVE  Good(chSchGoSleepTimeoutS(k1, "WTSEM", time, cont))
  <1>1. Doing(x, x.st, "CURRENT")
    BY DoingGood
  <1>2. s \in Objects /\ s \in WaitQueues
    BY ObjectsApart DEF Objects
  <1>3. Exactly(x.q[s], Waiters(x, x.st, s)) /\ c \in All \ Waiters(x, x.st, s) /\ Counters(x.cnt, x.q)
        /\ DOMAIN x.cnt = AllSems /\ DOMAIN x.q = WaitQueues
    BY <1>1, <1>2, DoingShape
  <1> DEFINE r == Append(x.q[s], c)
  <1>4. Exactly(r, Waiters(x, x.st, s) \cup {c}) /\ Len(r) = Len(x.q[s]) + 1
    BY <1>3, ExactAppend
  <1>5. Upd(x.q, k1.q, s, r)
    OBVIOUS
  <1> HIDE DEF r
  <1>6. Counters(k1.cnt, k1.q) /\ DOMAIN k1.cnt = AllSems
    BY <1>3, <1>4, <1>5, CountWait DEF Upd
  <1>7. Kind("WTSEM", Obj(s), cont) /\ Sleeps(cont.fn, "WTSEM") /\ cont.fn \in Timed
    BY DEF Kind, Sleeps, Timed, Obj
  <1>8. Going(x, x.st, "CURRENT", c, s, r, k1, "WTSEM", cont, time)
    BY <1>1, <1>2, <1>4, <1>5, <1>6, <1>7 DEF Going
  <1> QED BY <1>8, SleepOn

\* The wait of a thread that takes the semaphore.
LEMMA SemTake ==
  ASSUME NEW x, Good(x), NEW s \in AllSems, x.cnt[s] - 1 >= 0, NEW y, y = [x EXCEPT !.cnt[s] = @ - 1]
  PROVE  Good(y) /\ Same(x, y)
  <1>1. DOMAIN x = Fields /\ DOMAIN x.cnt = AllSems /\ x.cnt[s] \in Int
    BY CoreShape DEF Good, Core, Counters
  <1>2. Keeps(x, y, {"cnt"}) /\ Upd(x.cnt, y.cnt, s, x.cnt[s] - 1)
    BY <1>1 DEF Keeps, Fields, Upd
  <1>3. x.cnt[s] - 1 \in Int /\ x.cnt[s] >= 0
    BY <1>1
  <1> QED BY <1>2, <1>3, CountFree

LEMMA CallingSame ==
  ASSUME NEW x, Calling(x), NEW y, Good(y), Same(x, y)
  PROVE  Calling(y)
  BY DEF Calling, Same

\* The two ways a wait on a semaphore can go on.
LEMMA SemWaitCases ==
  ASSUME NEW x, Calling(x), NEW s \in AllSems, NEW k1, k1 = [x EXCEPT !.cnt[s] = @ - 1],
         NEW k2, k2 = [k1 EXCEPT !.u[x.cur] = Obj(s), !.q[s] = queue_insert(@, x.cur)],
         NEW cont, ContOK(cont), cont.fn \in {"sem", "post", "ahead", "fetch"}
  PROVE  /\ k1.cnt[s] >= 0 => Good(k1) /\ Same(x, k1)
         /\ k1.cnt[s] < 0 =>
                \A time \in 1..(TimeMod - 1) : Good(chSchGoSleepTimeoutS(k2, "WTSEM", time, cont))
         /\ k1.cnt[s] \in Int
  <1> DEFINE c == x.cur
  <1>1. /\ Good(x) /\ c \in All /\ c # Idle /\ Unarmed(x, c) /\ Core(x, x.st)
        /\ x.more[c].fn \notin {"alloc", "free"}
    BY CallingFacts
  <1>2. DOMAIN x = Fields /\ DOMAIN x.cnt = AllSems /\ DOMAIN x.u = All /\ DOMAIN x.q = WaitQueues
    BY <1>1, CoreShape
  <1>3. k1.cnt[s] = x.cnt[s] - 1 /\ x.cnt[s] \in Int
    BY <1>1, <1>2 DEF Fields, Core, Counters
  <1>4. CASE k1.cnt[s] >= 0
    BY <1>1, <1>3, <1>4, SemTake
  <1>5. ASSUME k1.cnt[s] < 0, NEW time \in 1..(TimeMod - 1)
        PROVE  Good(chSchGoSleepTimeoutS(k2, "WTSEM", time, cont))
    <2>1. /\ Keeps(x, k2, {"u", "q", "cnt"}) /\ Upd(x.u, k2.u, c, Obj(s))
          /\ Upd(x.cnt, k2.cnt, s, x.cnt[s] - 1) /\ Upd(x.q, k2.q, s, Append(x.q[s], c))
      BY <1>2 DEF Keeps, Fields, Upd, queue_insert
    <2>2. x.cnt[s] - 1 < 0
      BY <1>3, <1>5
    <2> HIDE DEF c
    <2>3. c = x.cur
      BY DEF c
    <2> QED BY <1>1, <1>5, <2>1, <2>2, <2>3, SemSleep, ZenonT(60)
  <1> QED BY <1>3, <1>4, <1>5

LEMMA SemWaitGood ==
  ASSUME NEW x, Calling(x), NEW s \in AllSems
  PROVE  Good(chSemWaitS(x, s))
  <1> DEFINE k1 == [x EXCEPT !.cnt[s] = @ - 1]
             k2 == [k1 EXCEPT !.u[x.cur] = Obj(s), !.q[s] = queue_insert(@, x.cur)]
             cont == [fn |-> "sem"]
  <1>1. ContOK(cont) /\ cont.fn = "sem"
    BY DEF ContOK, Timed
  <1>2. chSemWaitS(x, s) = IF k1.cnt[s] >= 0 THEN k1
                           ELSE chSchGoSleepTimeoutS(k2, "WTSEM", TIME_INFINITE, cont)
    BY SleepForever DEF chSemWaitS
  <1> HIDE DEF k1, k2, cont
  <1>3. /\ k1.cnt[s] >= 0 => Good(k1)
        /\ k1.cnt[s] < 0 => Good(chSchGoSleepTimeoutS(k2, "WTSEM", TIME_INFINITE, cont))
        /\ k1.cnt[s] \in Int
    BY <1>1, SemWaitCases, SleepForever DEF k1, k2
  <1> QED BY <1>2, <1>3

\* chSemWaitTimeout.
LEMMA SemWaitTimeoutGood ==
  ASSUME NEW x, Calling(x), NEW s \in AllSems, NEW time \in Times
  PROVE  Good(chSemWaitTimeoutS(x, s, time, [fn |-> "sem"], LAMBDA y : y))
  <1> DEFINE k1 == [x EXCEPT !.cnt[s] = @ - 1]
             k2 == [k1 EXCEPT !.u[x.cur] = Obj(s), !.q[s] = queue_insert(@, x.cur)]
             cont == [fn |-> "sem"]
  <1>1. ContOK(cont) /\ cont.fn = "sem"
    BY DEF ContOK, Timed
  <1>2. chSemWaitTimeoutS(x, s, time, [fn |-> "sem"], LAMBDA y : y)
            = IF k1.cnt[s] >= 0 THEN k1
              ELSE IF time = TIME_IMMEDIATE THEN x
              ELSE chSchGoSleepTimeoutS(k2, "WTSEM", time, cont)
    BY DEF chSemWaitTimeoutS
  <1>3. time # TIME_IMMEDIATE => time \in 1..(TimeMod - 1)
    BY SchedAssumption DEF Times, TIME_IMMEDIATE
  <1>4. Good(x)
    BY DEF Calling
  <1> HIDE DEF k1, k2, cont
  <1>5. /\ k1.cnt[s] >= 0 => Good(k1)
        /\ k1.cnt[s] < 0 =>
               \A d \in 1..(TimeMod - 1) : Good(chSchGoSleepTimeoutS(k2, "WTSEM", d, cont))
        /\ k1.cnt[s] \in Int
    BY <1>1, SemWaitCases DEF k1, k2
  <1> QED BY <1>2, <1>3, <1>4, <1>5

LEMMA AddCounterGood ==
  ASSUME NEW x, Good(x), NEW s \in AllSems, NEW n \in Nat
  PROVE  Good(chSemAddCounterI(x, s, n)) /\ Same(x, chSemAddCounterI(x, s, n))
  <1> DEFINE g(a, i) == chSemSignalI(a, s)
             P(i, a) == Good(a) /\ Same(x, a)
  <1>1. chSemAddCounterI(x, s, n) = Fold(x, n, g)[n]
    BY DEF chSemAddCounterI, Fold
  <1>2. P(0, x)
    BY DEF Same
  <1>3. \A i \in 1..n : \A a : P(i - 1, a) => P(i, g(a, i))
    BY SignalI DEF Same
  <1>4. FoldKeeps(x, n, g, P)
    <2> HIDE DEF g, P
    <2> QED BY FoldKept
  <1>5. P(n, Fold(x, n, g)[n])
    <2> HIDE DEF g, P
    <2> QED BY <1>2, <1>3, <1>4 DEF FoldKeeps
  <1> QED BY <1>1, <1>5

LEMMA SignalWaitGood ==
  ASSUME NEW x, Calling(x), NEW s \in AllSems, NEW w \in AllSems
  PROVE  Good(chSemSignalWait(x, s, w))
  <1> DEFINE k0 == chSemSignalI(x, s)
             k1 == [k0 EXCEPT !.cnt[w] = @ - 1]
             k2 == [k1 EXCEPT !.u[k0.cur] = Obj(w), !.q[w] = queue_insert(@, k0.cur)]
             cont == [fn |-> "sem"]
  <1>1. ContOK(cont) /\ cont.fn = "sem"
    BY DEF ContOK, Timed
  <1>2. Calling(k0) /\ k0.cur = x.cur
    BY SignalI, CallingSame DEF Calling, Same
  <1>3. k2 = [k1 EXCEPT !.q[w] = queue_insert(@, x.cur), !.u[x.cur] = Obj(w)]
    BY <1>2
  <1>4. chSemSignalWait(x, s, w) = IF k1.cnt[w] < 0
                                   THEN chSchGoSleepTimeoutS(k2, "WTSEM", TIME_INFINITE, cont)
                                   ELSE chSchRescheduleS(k1)
    BY <1>3, SleepForever DEF chSemSignalWait
  <1> HIDE DEF k0, k1, k2, cont
  <1>5. /\ k1.cnt[w] >= 0 => Good(k1)
        /\ k1.cnt[w] < 0 => Good(chSchGoSleepTimeoutS(k2, "WTSEM", TIME_INFINITE, cont))
        /\ k1.cnt[w] \in Int
    BY <1>1, <1>2, SemWaitCases, SleepForever DEF k1, k2
  <1> QED BY <1>4, <1>5, Reschedule

LEMMA BSemSignalGood ==
  ASSUME NEW x, Good(x), NEW s \in AllSems
  PROVE  Good(chBSemSignal(x, s))
  BY SignalI, Reschedule DEF chBSemSignal, chBSemSignalI

-----------------------------------------------------------------------------
(***************************************************************************)
(* Several threads are made ready.                                         *)
(***************************************************************************)

\* v with the threads of S ready.
Mark(v, S) == [t \in All |-> IF t \in S THEN "READY" ELSE v[t]]
First(s, n) == {s[i] : i \in 1..n}

\* The state after the first n turns.
Marked(x, v, s, n, a) ==
    /\ Core(a, Mark(v, First(s, n))) /\ a.st = Mark(x.st, First(s, n))
    /\ Keeps(x, a, {"st", "ready", "u"})

LEMMA MarkMore ==
  ASSUME NEW v, NEW s, NEW M, Exactly(s, M), NEW n \in 1..Len(s)
  PROVE  /\ s[n] \in All /\ s[n] \in M /\ s[n] \notin First(s, n - 1)
         /\ [Mark(v, First(s, n - 1)) EXCEPT ![s[n]] = "READY"] = Mark(v, First(s, n))
  <1>1. /\ s \in Seq(All) /\ Len(s) \in Nat /\ \A i \in 1..Len(s) : s[i] \in M
        /\ \A i, j \in 1..Len(s) : s[i] = s[j] => i = j
    BY ExactSub
  <1>2. s[n] \in All /\ s[n] \in M
    BY <1>1, Member
  <1>3. s[n] \notin First(s, n - 1)
    <2>1. \A i \in 1..(n - 1) : i \in 1..Len(s) /\ i # n
      BY <1>1
    <2> QED BY <1>1, <2>1 DEF First
  <1>4. First(s, n) = First(s, n - 1) \cup {s[n]}
    <2>1. 1..n = 1..(n - 1) \cup {n}
      OBVIOUS
    <2> QED BY <2>1 DEF First
  <1>5. \A t \in All : t \in First(s, n) <=> t \in First(s, n - 1) \/ t = s[n]
    BY <1>4
  <1>6. [Mark(v, First(s, n - 1)) EXCEPT ![s[n]] = "READY"] = Mark(v, First(s, n))
    BY <1>2, <1>5 DEF Mark
  <1> QED BY <1>2, <1>3, <1>6

LEMMA MarkStart ==
  ASSUME NEW x, NEW v, NEW s, Core(x, v), DOMAIN x.st = All, x.st = [t \in All |-> x.st[t]]
  PROVE  Marked(x, v, s, 0, x)
  <1>1. First(s, 0) = {}
    BY DEF First
  <1>2. v \in [All -> States] /\ DOMAIN x = Fields
    BY CoreShape
  <1>3. Mark(v, {}) = v /\ Mark(x.st, {}) = x.st
    BY <1>2 DEF Mark
  <1> QED BY <1>1, <1>2, <1>3 DEF Marked, Keeps

LEMMA KeepsAgain ==
  ASSUME NEW x, NEW y, NEW z, NEW F, NEW G, Keeps(x, y, F), Keeps(y, z, G), G \subseteq F
  PROVE  Keeps(x, z, F)
  BY DEF Keeps

LEMMA MarkTurn ==
  ASSUME NEW x, NEW v, NEW s, NEW M, Exactly(s, M), NEW n \in 1..Len(s), NEW a,
         \A t \in M : v[t] = "CURRENT", Marked(x, v, s, n - 1, a), NEW m,
         NEW b, b = ReadyMsg(a, s[n], m) \/ b = chSchReadyI(a, s[n])
  PROVE  Marked(x, v, s, n, b)
  <1> DEFINE t == s[n]
             u == Mark(v, First(s, n - 1))
  <1>1. t \in All /\ t \in M /\ t \notin First(s, n - 1)
    BY MarkMore
  <1>2. Core(a, u) /\ u[t] = "CURRENT"
    BY <1>1 DEF Marked, Mark
  <1>3. b = ReadyMsg(a, t, m) \/ b = chSchReadyI(a, t)
    OBVIOUS
  <1>4. [u EXCEPT ![t] = "READY"] = Mark(v, First(s, n))
    BY MarkMore
  <1>5. a.st = Mark(x.st, First(s, n - 1)) /\ Keeps(x, a, {"st", "ready", "u"})
    BY DEF Marked
  <1>6. [Mark(x.st, First(s, n - 1)) EXCEPT ![t] = "READY"] = Mark(x.st, First(s, n))
    BY MarkMore
  <1> HIDE DEF t, u
  <1>7. /\ Core(b, [u EXCEPT ![t] = "READY"]) /\ b.st = [a.st EXCEPT ![t] = "READY"]
        /\ Keeps(a, b, {"st", "ready", "u"})
    <2>1. CASE b = ReadyMsg(a, t, m)
      BY <1>1, <1>2, <2>1, ReadyMsgI
    <2>2. CASE b = chSchReadyI(a, t)
      <3>1. /\ Core(b, [u EXCEPT ![t] = "READY"]) /\ b.st = [a.st EXCEPT ![t] = "READY"]
            /\ Keeps(a, b, {"st", "ready"})
        BY <1>1, <1>2, <2>2, ReadyI
      <3> QED BY <3>1 DEF Keeps
    <2> QED BY <1>3, <2>1, <2>2
  <1>8. Keeps(x, b, {"st", "ready", "u"})
    BY <1>5, <1>7, KeepsAgain
  <1> QED BY <1>4, <1>5, <1>6, <1>7, <1>8 DEF Marked

LEMMA ReadyEachMarks ==
  ASSUME NEW x, NEW v, NEW s, NEW M, Exactly(s, M), Core(x, v), x.st \in [All -> States],
         \A t \in M : v[t] = "CURRENT", NEW m
  PROVE  Marked(x, v, s, Len(s), ReadyEach(x, s, m))
  <1> DEFINE g(a, i) == ReadyMsg(a, s[i], m)
             P(i, a) == Marked(x, v, s, i, a)
             N == Len(s)
  <1>1. ReadyEach(x, s, m) = Fold(x, N, g)[N]
    BY DEF ReadyEach, Fold
  <1>2. N \in Nat
    BY ExactSub
  <1>3. P(0, x)
    BY MarkStart
  <1>4. \A i \in 1..N : \A a : P(i - 1, a) => P(i, g(a, i))
    BY MarkTurn
  <1> HIDE DEF N
  <1>5. FoldKeeps(x, N, g, P)
    <2> HIDE DEF g, P
    <2> QED BY <1>2, FoldKept
  <1>6. P(N, Fold(x, N, g)[N])
    <2> HIDE DEF g, P
    <2> QED BY <1>3, <1>4, <1>5 DEF FoldKeeps
  <1> QED BY <1>1, <1>6 DEF N

LEMMA FirstAll ==
  ASSUME NEW s, NEW M, Exactly(s, M)
  PROVE  First(s, Len(s)) = M
  BY ExactSub DEF First

\* The waiters that were taken out of a queue are made ready.
LEMMA ReadyAll ==
  ASSUME NEW x, NEW s, NEW M, Exactly(s, M), x.st \in [All -> States], x.cur \notin M,
         Core(x, [t \in All |-> IF t \in M THEN "CURRENT" ELSE x.st[t]]),
         \A t \in All : (x.st[t] = "CURRENT" <=> t = x.cur) /\ x.st[t] # "SUSPENDED", NEW m
  PROVE  Good(ReadyEach(x, s, m)) /\ Same(x, ReadyEach(x, s, m))
  <1> DEFINE v == [t \in All |-> IF t \in M THEN "CURRENT" ELSE x.st[t]]
             y == ReadyEach(x, s, m)
  <1>1. M \subseteq All
    BY ExactSub
  <1>2. Core(x, v) /\ \A t \in M : v[t] = "CURRENT"
    BY <1>1
  <1>3. Mark(v, M) = Mark(x.st, M)
    BY DEF Mark
  <1> HIDE DEF v, y
  <1>4. Marked(x, v, s, Len(s), y)
    BY <1>2, ReadyEachMarks DEF y
  <1>5. Core(y, y.st) /\ y.st = Mark(x.st, M) /\ Keeps(x, y, {"st", "ready", "u"})
    BY <1>3, <1>4, FirstAll DEF Marked
  <1>6. Same(x, y)
    BY <1>5 DEF Same, Keeps, Fields
  <1>7. \A t \in All : (y.st[t] = "CURRENT" <=> t = y.cur) /\ y.st[t] # "SUSPENDED"
    BY <1>5, <1>6 DEF Same, Mark
  <1> QED BY <1>5, <1>6, <1>7 DEF Good, y

\* All waiters of an object are taken out of its queue and made ready.
LEMMA WakeAll ==
  ASSUME NEW x, Good(x), NEW o \in AllSems \cup Conds \cup {"iq", "oq"}, NEW n \in Nat,
         NEW y, Keeps(x, y, {"q", "cnt"}), Upd(x.q, y.q, o, <<>>),
         o \in AllSems => Upd(x.cnt, y.cnt, o, n), o \notin AllSems => y.cnt = x.cnt,
         NEW s, Exactly(s, Waiters(x, x.st, o)), NEW m
  PROVE  Good(ReadyEach(y, s, m)) /\ Same(x, ReadyEach(y, s, m))
  <1> DEFINE M == Waiters(x, x.st, o)
             v == [t \in All |-> IF t \in M THEN "CURRENT" ELSE x.st[t]]
  <1>1. /\ Core(x, x.st) /\ x.st \in [All -> States] /\ x.cur \in All /\ x.st[x.cur] = "CURRENT"
        /\ \A p \in All : (x.st[p] = "CURRENT" <=> p = x.cur) /\ x.st[p] # "SUSPENDED"
    BY GoodShape
  <1>2. y.st = x.st /\ y.cur = x.cur /\ Same(x, y)
    BY DEF Keeps, Fields, Same
  <1>3. x.cur \notin M
    BY <1>1 DEF Waiters, Queued
  <1>4. Core(y, v)
    <2>1. v = [t \in All |-> IF t \in Waiters(x, x.st, o) THEN "CURRENT" ELSE x.st[t]]
      OBVIOUS
    <2> HIDE DEF v, M
    <2> QED BY <1>1, <2>1, CoreEmpty
  <1>5. Core(y, [t \in All |-> IF t \in M THEN "CURRENT" ELSE y.st[t]])
    BY <1>2, <1>4
  <1>6. Exactly(s, M)
    OBVIOUS
  <1> HIDE DEF M, v
  <1>7. Good(ReadyEach(y, s, m)) /\ Same(y, ReadyEach(y, s, m))
    BY <1>1, <1>2, <1>3, <1>5, <1>6, ReadyAll
  <1> QED BY <1>2, <1>7 DEF Same

LEMMA SemResetGood ==
  ASSUME NEW x, Good(x), NEW s \in AllSems, NEW n \in Nat
  PROVE  Good(chSemResetI(x, s, n)) /\ Same(x, chSemResetI(x, s, n))
  <1> DEFINE y == [x EXCEPT !.cnt[s] = n, !.q[s] = <<>>]
             w == x.q[s]
             r == [i \in 1..Len(w) |-> w[Len(w) + 1 - i]]
  <1>1. Core(x, x.st)
    BY GoodShape
  <1>2. DOMAIN x = Fields /\ DOMAIN x.cnt = AllSems /\ DOMAIN x.q = WaitQueues
    BY <1>1, CoreShape
  <1>3. Keeps(x, y, {"q", "cnt"}) /\ Upd(x.q, y.q, s, <<>>) /\ Upd(x.cnt, y.cnt, s, n)
    BY <1>2 DEF Keeps, Fields, Upd
  <1>4. Exactly(w, Waiters(x, x.st, s))
    BY <1>1, ObjectsApart DEF Core, Queues, Objects
  <1>5. Exactly(r, Waiters(x, x.st, s))
    <2> HIDE DEF w
    <2> QED BY <1>4, ExactReverse
  <1>6. chSemResetI(x, s, n) = ReadyEach(y, r, "RDY_RESET")
    BY DEF chSemResetI
  <1> HIDE DEF y, w, r
  <1> QED BY <1>3, <1>5, <1>6, WakeAll

LEMMA BSemResetGood ==
  ASSUME NEW x, Good(x), NEW s \in AllSems, NEW taken
  PROVE  Good(chBSemResetI(x, s, taken)) /\ Same(x, chBSemResetI(x, s, taken))
  <1>1. (IF taken THEN 0 ELSE 1) \in Nat
    OBVIOUS
  <1> QED BY <1>1, SemResetGood DEF chBSemResetI

-----------------------------------------------------------------------------
(***************************************************************************)
(* Signals of condition variables, and the I/O queues.                     *)
(***************************************************************************)

\* The first waiter of a condition variable or of an I/O queue.
LEMMA TakeOne ==
  ASSUME NEW x, Good(x), NEW o \in Conds \cup {"iq", "oq"}, x.q[o] # <<>>,
         NEW y, y = [x EXCEPT !.q[o] = Tail(@)]
  PROVE  Waking(y, Head(x.q[o])) /\ Same(x, y)
  <1>1. DOMAIN x = Fields /\ DOMAIN x.q = WaitQueues
    BY CoreShape DEF Good
  <1>2. Keeps(x, y, {"q", "cnt"}) /\ Upd(x.q, y.q, o, Tail(x.q[o])) /\ y.cnt = x.cnt
    BY <1>1 DEF Keeps, Fields, Upd
  <1>3. o \in Objects /\ o \notin AllMutexes /\ o \notin AllSems
    BY NamesAssumption DEF Objects
  <1> QED BY <1>2, <1>3, TakeFirst

LEMMA CondSignalGood ==
  ASSUME NEW x, Good(x), NEW c \in Conds
  PROVE  Good(chCondSignal(x, c)) /\ Good(chCondSignalI(x, c))
  <1> DEFINE y == [x EXCEPT !.q[c] = Tail(@)]
  <1>1. CASE x.q[c] # <<>>
    <2>1. Waking(y, Head(x.q[c]))
      BY <1>1, TakeOne
    <2>2. /\ chCondSignal(x, c) = chSchWakeupS(y, Head(x.q[c]), "RDY_OK")
          /\ chCondSignalI(x, c) = ReadyMsg(y, Head(x.q[c]), "RDY_OK")
      BY <1>1 DEF chCondSignal, chCondSignalI
    <2> HIDE DEF y
    <2> QED BY <2>1, <2>2, WakeupS, WakeMsg
  <1>2. CASE x.q[c] = <<>>
    BY <1>2 DEF chCondSignal, chCondSignalI
  <1> QED BY <1>1, <1>2

LEMMA WakeOneGood ==
  ASSUME NEW x, Good(x), NEW o \in {"iq", "oq"}
  PROVE  Good(WakeOne(x, o))
  <1> DEFINE y == [x EXCEPT !.q[o] = Tail(@)]
  <1>1. CASE x.q[o] # <<>>
    <2>1. Waking(y, Head(x.q[o]))
      BY <1>1, TakeOne
    <2>2. WakeOne(x, o) = ReadyMsg(y, Head(x.q[o]), "RDY_OK")
      BY <1>1 DEF WakeOne
    <2> HIDE DEF y
    <2> QED BY <2>1, <2>2, WakeMsg
  <1>2. CASE x.q[o] = <<>>
    BY <1>2 DEF WakeOne
  <1> QED BY <1>1, <1>2

\* All waiters of a condition variable or of an I/O queue.
LEMMA EmptyGood ==
  ASSUME NEW x, Good(x), NEW o \in Conds \cup {"iq", "oq"}, NEW m
  PROVE  /\ Good(ReadyEach([x EXCEPT !.q[o] = <<>>], x.q[o], m))
         /\ Same(x, ReadyEach([x EXCEPT !.q[o] = <<>>], x.q[o], m))
  <1> DEFINE y == [x EXCEPT !.q[o] = <<>>]
             r == x.q[o]
  <1>1. Core(x, x.st)
    BY GoodShape
  <1>2. DOMAIN x = Fields /\ DOMAIN x.q = WaitQueues
    BY <1>1, CoreShape
  <1>3. Keeps(x, y, {"q", "cnt"}) /\ Upd(x.q, y.q, o, <<>>) /\ y.cnt = x.cnt
    BY <1>2 DEF Keeps, Fields, Upd
  <1>4. Exactly(r, Waiters(x, x.st, o))
    BY <1>1, ObjectsApart DEF Core, Queues, Objects
  <1>5. o \notin AllSems
    BY NamesAssumption
  <1> HIDE DEF y, r
  <1>6. Good(ReadyEach(y, r, m)) /\ Same(x, ReadyEach(y, r, m))
    BY <1>3, <1>4, <1>5, WakeAll
  <1> QED BY <1>6 DEF y, r

LEMMA CondBroadcastGood ==
  ASSUME NEW x, Good(x), NEW c \in Conds
  PROVE  Good(chCondBroadcast(x, c))
  BY EmptyGood, Reschedule DEF chCondBroadcast, chCondBroadcastI

\* Other contents of the mailbox or of an I/O queue.
LEMMA GoodData ==
  ASSUME NEW x, Good(x), NEW y, Keeps(x, y, {"mb", "io"}), MBOK(y.mb), IOOK(y.io)
  PROVE  Good(y)
  <1>1. Core(x, x.st) /\ Counters(x.cnt, x.q) /\ DOMAIN x.cnt = AllSems /\ Listeners(x.listeners)
    BY CoreShape DEF Good, Core
  <1>2. /\ y.cnt = x.cnt /\ y.listeners = x.listeners /\ y.st = x.st /\ y.cur = x.cur
        /\ Keeps(x, y, {"mb", "io", "listeners", "cnt", "flags"})
    BY DEF Keeps, Fields
  <1>3. Core(y, x.st)
    BY <1>1, <1>2, CoreData
  <1> QED BY <1>2, <1>3, GoodIf

LEMMA DataOK ==
  ASSUME NEW x, Good(x)
  PROVE  DOMAIN x = Fields /\ MBOK(x.mb) /\ IOOK(x.io)
  BY CoreShape DEF Good, Core

\* The running thread goes on in a call and has no timer.
InCall(x) == Good(x) /\ x.cur \in All /\ x.cur # Idle /\ Unarmed(x, x.cur)

LEMMA InCallFacts ==
  ASSUME NEW x, InCall(x), NEW c, c = x.cur
  PROVE  /\ Good(x) /\ c \in All /\ c # Idle /\ Unarmed(x, c) /\ Doing(x, x.st, "CURRENT")
         /\ Core(x, x.st) /\ DOMAIN x = Fields /\ DOMAIN x.cont = All /\ DOMAIN x.more = All
         /\ DOMAIN x.mtxlist = All /\ DOMAIN x.epending = All /\ DOMAIN x.u = All
         /\ DOMAIN x.q = WaitQueues /\ DOMAIN x.waiting = All
         /\ x.more[c].fn \in {"alloc", "free"} => x.mtxlist[c] # <<>>
         /\ x.mtxlist[c] \in Seq(AllMutexes) /\ MoreOK(x.more[c]) /\ ContOK(x.cont[c])
         /\ Local("CURRENT", x.u[c], x.cont[c], x.q[c], x.waiting[c], x.epending[c], x.mtxlist[c],
                  x.more[c], x.preempt[c])
         /\ Reserved(x.more, x.st) /\ x.owner \in [AllMutexes -> Threads \cup {NoThread}]
  <1>1. Good(x) /\ c \in All /\ c # Idle /\ Unarmed(x, c)
    BY DEF InCall
  <1>2. Core(x, x.st) /\ Doing(x, x.st, "CURRENT")
    BY <1>1, DoingGood DEF Good
  <1>3. Local("CURRENT", x.u[c], x.cont[c], x.q[c], x.waiting[c], x.epending[c], x.mtxlist[c],
              x.more[c], x.preempt[c])
    BY <1>2, DoingShape
  <1>4. /\ x.more[c].fn \in {"alloc", "free"} => x.mtxlist[c] # <<>>
        /\ x.mtxlist[c] \in Seq(AllMutexes) /\ MoreOK(x.more[c]) /\ ContOK(x.cont[c])
    BY <1>3 DEF Local
  <1>5. Reserved(x.more, x.st) /\ x.owner \in [AllMutexes -> Threads \cup {NoThread}]
    BY <1>2 DEF Core
  <1> QED BY <1>1, <1>2, <1>3, <1>4, <1>5, CoreShape

LEMMA CallingIn ==
  ASSUME NEW x, Calling(x)
  PROVE  InCall(x)
  BY CallingFacts DEF InCall

LEMMA NoClaims ==
  ASSUME NEW m, m.fn \notin {"alloc", "core", "spawn"}, NEW more, NEW v, NEW c
  PROVE  Claims(m, more, v, c)
  BY DEF Claims, Reserves

\* What the running thread still has to do.
LEMMA RunGood ==
  ASSUME NEW x, InCall(x), NEW c, c = x.cur, NEW y, Keeps(x, y, {"cont", "more"}),
         Upd(x.cont, y.cont, c, NoCont) \/ y.cont = x.cont,
         NEW m, Upd(x.more, y.more, c, m), MoreOK(m),
         m.fn \in {"alloc", "free"} => x.mtxlist[c] # <<>>, Claims(m, x.more, x.st, c)
  PROVE  InCall(y)
  <1>1. /\ Good(x) /\ c \in All /\ c # Idle /\ Unarmed(x, c) /\ Doing(x, x.st, "CURRENT")
        /\ DOMAIN x.cont = All /\ DOMAIN x.more = All /\ DOMAIN x.mtxlist = All /\ DOMAIN x.epending = All
        /\ x.owner \in [AllMutexes -> Threads \cup {NoThread}]
    BY InCallFacts
  <1>2. Local("CURRENT", x.u[c], x.cont[c], x.q[c], x.waiting[c], x.epending[c], x.mtxlist[c],
              x.more[c], x.preempt[c])
    BY InCallFacts
  <1>3. /\ y.mtxlist = x.mtxlist /\ y.epending = x.epending /\ y.owner = x.owner /\ y.vt = x.vt
        /\ y.cur = x.cur /\ Keeps(x, y, {"cont", "more", "mtxlist", "owner", "epending"})
    BY DEF Keeps, Fields
  <1>4. /\ DOMAIN y.cont = All /\ y.cont[c] \in {x.cont[c], NoCont}
        /\ \A p \in All : p # c => y.cont[p] = x.cont[p]
    BY <1>1 DEF Upd
  <1>5. DOMAIN y.more = All /\ y.more[c] = m /\ \A p \in All : p # c => y.more[p] = x.more[p]
    BY <1>1 DEF Upd
  <1>6. Local("CURRENT", x.u[c], y.cont[c], x.q[c], x.waiting[c], x.epending[c], x.mtxlist[c],
              m, x.preempt[c])
    BY <1>2, <1>4, NoContFacts DEF Local, Kind, Running
  <1>7. Doing(y, x.st, "CURRENT")
    BY <1>1, <1>3, <1>4, <1>5, <1>6, DoingLocal
  <1>8. Good(y)
    BY <1>7, DoingIsGood
  <1> QED BY <1>1, <1>3, <1>8 DEF InCall, Unarmed

LEMMA QWaitGood ==
  ASSUME NEW x, InCall(x), NEW o \in {"iq", "oq"}, NEW time \in Times,
         NEW cont, ContOK(cont), cont.fn \in {"iqget", "oqput", "iqread", "oqwrite"}
  PROVE  Good(qwait(x, o, time, cont))
  <1> DEFINE c == x.cur
             y == [x EXCEPT !.cont[c] = NoCont]
             k1 == [x EXCEPT !.u[c] = Obj(o), !.q[o] = queue_insert(@, c)]
             r == Append(x.q[o], c)
  <1>1. /\ Good(x) /\ c \in All /\ c # Idle /\ Unarmed(x, c) /\ Doing(x, x.st, "CURRENT")
        /\ DOMAIN x = Fields /\ DOMAIN x.cont = All /\ DOMAIN x.u = All /\ DOMAIN x.q = WaitQueues
        /\ x.more[c].fn \in {"alloc", "free"} => x.mtxlist[c] # <<>>
    BY InCallFacts
  <1>2. CASE time = TIME_IMMEDIATE
    <2>1. qwait(x, o, time, cont) = y
      BY <1>2 DEF qwait
    <2>2. Keeps(x, y, {"cont"}) /\ Upd(x.cont, y.cont, c, NoCont)
      BY <1>1 DEF Keeps, Fields, Upd
    <2> HIDE DEF y
    <2> QED BY <1>1, <2>1, <2>2, ContDone
  <1>3. CASE time # TIME_IMMEDIATE
    <2>1. qwait(x, o, time, cont) = chSchGoSleepTimeoutS(k1, "WTQUEUE", time, cont)
      BY <1>3 DEF qwait
    <2>2. time \in 1..(TimeMod - 1)
      BY <1>3, SchedAssumption DEF Times, TIME_IMMEDIATE
    <2>3. /\ Keeps(x, k1, {"u", "q", "cnt"}) /\ Upd(x.u, k1.u, c, Obj(o)) /\ Upd(x.q, k1.q, o, r)
          /\ k1.cnt = x.cnt
      BY <1>1 DEF Keeps, Fields, Upd, queue_insert
    <2>4. o \in Objects /\ o \in WaitQueues /\ o \notin AllSems
      BY NamesAssumption, ObjectsApart DEF Objects
    <2>5. Exactly(x.q[o], Waiters(x, x.st, o)) /\ c \in All \ Waiters(x, x.st, o) /\ Counters(x.cnt, x.q)
          /\ DOMAIN x.cnt = AllSems
      BY <1>1, <2>4, DoingShape
    <2>6. Exactly(r, Waiters(x, x.st, o) \cup {c})
      BY <2>5, ExactAppend
    <2> HIDE DEF r, k1, c
    <2>7. Counters(k1.cnt, k1.q) /\ DOMAIN k1.cnt = AllSems
      BY <1>1, <2>3, <2>4, <2>5 DEF Counters, Upd, WaitQueues
    <2>8. Kind("WTQUEUE", Obj(o), cont) /\ Sleeps(cont.fn, "WTQUEUE") /\ cont.fn \in Timed
      BY DEF Kind, Sleeps, Timed, Obj
    <2>9. Going(x, x.st, "CURRENT", c, o, r, k1, "WTQUEUE", cont, time)
      BY <1>1, <2>2, <2>3, <2>4, <2>6, <2>7, <2>8 DEF Going, c
    <2> QED BY <2>1, <2>9, SleepOn
  <1> QED BY <1>2, <1>3

\* A byte more, or less.
LEMMA QueuePut ==
  ASSUME NEW r, NEW ahead \in BOOLEAN, QueueOK(r, ahead), NEW b, NEW d,
         \/ ahead /\ d = 1 /\ r.counter < Size
         \/ ~ ahead /\ d = -1 /\ r.counter > 0
  PROVE  QueueOK([r EXCEPT !.counter = @ + d, !.buf[r.wr] = b, !.wr = Up(@)], ahead)
  <1> DEFINE s == [r EXCEPT !.counter = @ + d, !.buf[r.wr] = b, !.wr = Up(@)]
  <1>1. /\ DOMAIN r = {"rd", "wr", "counter", "out", "buf"}
        /\ r.rd \in 0..(Size - 1) /\ r.wr \in 0..(Size - 1) /\ r.counter \in 0..Size
        /\ ahead => r.wr = r.rd + r.counter \/ r.wr = r.rd + r.counter - Size
        /\ ~ ahead => r.rd = r.wr + r.counter \/ r.rd = r.wr + r.counter - Size
    BY DEF QueueOK
  <1>2. /\ DOMAIN s = {"rd", "wr", "counter", "out", "buf"} /\ s.rd = r.rd
        /\ s.wr = (IF r.wr + 1 >= Size THEN 0 ELSE r.wr + 1) /\ s.counter = r.counter + d
    BY <1>1 DEF Up
  <1> HIDE DEF s
  <1>3. Size \in Nat /\ Size > 0
    BY CommAssumption
  <1>4. /\ s.rd \in 0..(Size - 1) /\ s.wr \in 0..(Size - 1) /\ s.counter \in 0..Size
    BY <1>1, <1>2, <1>3
  <1>5. CASE ahead
    <2>1. s.wr = s.rd + s.counter \/ s.wr = s.rd + s.counter - Size
      BY <1>1, <1>2, <1>3, <1>5
    <2> QED BY <1>2, <1>4, <1>5, <2>1 DEF QueueOK, s
  <1>6. CASE ~ ahead
    <2>1. s.rd = s.wr + s.counter \/ s.rd = s.wr + s.counter - Size
      BY <1>1, <1>2, <1>3, <1>6
    <2> QED BY <1>2, <1>4, <1>6, <2>1 DEF QueueOK, s
  <1> QED BY <1>5, <1>6

LEMMA QueueGet ==
  ASSUME NEW r, NEW ahead \in BOOLEAN, QueueOK(r, ahead), NEW b, NEW d,
         \/ ahead /\ d = -1 /\ r.counter > 0
         \/ ~ ahead /\ d = 1 /\ r.counter < Size
  PROVE  QueueOK([r EXCEPT !.counter = @ + d, !.out = b, !.rd = Up(@)], ahead)
  <1> DEFINE s == [r EXCEPT !.counter = @ + d, !.out = b, !.rd = Up(@)]
  <1>1. /\ DOMAIN r = {"rd", "wr", "counter", "out", "buf"}
        /\ r.rd \in 0..(Size - 1) /\ r.wr \in 0..(Size - 1) /\ r.counter \in 0..Size
        /\ ahead => r.wr = r.rd + r.counter \/ r.wr = r.rd + r.counter - Size
        /\ ~ ahead => r.rd = r.wr + r.counter \/ r.rd = r.wr + r.counter - Size
    BY DEF QueueOK
  <1>2. /\ DOMAIN s = {"rd", "wr", "counter", "out", "buf"} /\ s.wr = r.wr
        /\ s.rd = (IF r.rd + 1 >= Size THEN 0 ELSE r.rd + 1) /\ s.counter = r.counter + d
    BY <1>1 DEF Up
  <1> HIDE DEF s
  <1>3. Size \in Nat /\ Size > 0
    BY CommAssumption
  <1>4. /\ s.rd \in 0..(Size - 1) /\ s.wr \in 0..(Size - 1) /\ s.counter \in 0..Size
    BY <1>1, <1>2, <1>3
  <1>5. CASE ahead
    <2>1. s.wr = s.rd + s.counter \/ s.wr = s.rd + s.counter - Size
      BY <1>1, <1>2, <1>3, <1>5
    <2> QED BY <1>2, <1>4, <1>5, <2>1 DEF QueueOK, s
  <1>6. CASE ~ ahead
    <2>1. s.rd = s.wr + s.counter \/ s.rd = s.wr + s.counter - Size
      BY <1>1, <1>2, <1>3, <1>6
    <2> QED BY <1>2, <1>4, <1>6, <2>1 DEF QueueOK, s
  <1> QED BY <1>5, <1>6

\* The contents of an I/O queue.
LEMMA IoGood ==
  ASSUME NEW x, Good(x), NEW o \in {"iq", "oq"}, NEW r, QueueOK(r, o = "iq"),
         NEW y, Keeps(x, y, {"io"}), Upd(x.io, y.io, o, r)
  PROVE  Good(y) /\ (InCall(x) => InCall(y))
  <1>1. IOOK(x.io) /\ MBOK(x.mb)
    BY DataOK
  <1>2. y.mb = x.mb /\ y.cur = x.cur /\ y.vt = x.vt /\ Keeps(x, y, {"mb", "io"})
    BY DEF Keeps, Fields
  <1>3. /\ DOMAIN y.io = {"iq", "oq"} /\ y.io[o] = r
        /\ \A p \in {"iq", "oq"} : p # o => y.io[p] = x.io[p]
    BY <1>1 DEF IOOK, Upd
  <1>4. CASE o = "iq"
    <2>1. QueueOK(r, TRUE)
      BY <1>4
    <2>2. IOOK(y.io)
      BY <1>1, <1>3, <1>4, <2>1 DEF IOOK
    <2> QED BY <1>1, <1>2, <2>2, GoodData DEF InCall, Unarmed
  <1>5. CASE o = "oq"
    <2>1. QueueOK(r, FALSE)
      BY <1>5
    <2>2. IOOK(y.io)
      BY <1>1, <1>3, <1>5, <2>1 DEF IOOK
    <2> QED BY <1>1, <1>2, <2>2, GoodData DEF InCall, Unarmed
  <1> QED BY <1>4, <1>5

LEMMA PutGood ==
  ASSUME NEW x, Good(x), NEW o \in {"iq", "oq"}, NEW b, NEW d,
         \/ o = "iq" /\ d = 1 /\ x.io[o].counter < Size
         \/ o = "oq" /\ d = -1 /\ x.io[o].counter > 0
  PROVE  /\ Good(Put(x, o, b, d)) /\ Keeps(x, Put(x, o, b, d), {"io"})
         /\ InCall(x) => InCall(Put(x, o, b, d))
  <1> DEFINE p == x.io[o]
             r == [p EXCEPT !.counter = @ + d, !.buf[p.wr] = b, !.wr = Up(@)]
             y == Put(x, o, b, d)
             ahead == o = "iq"
  <1>1. IOOK(x.io) /\ DOMAIN x = Fields
    BY DataOK
  <1>2. QueueOK(p, ahead) /\ ahead \in BOOLEAN
    BY <1>1 DEF IOOK
  <1>3. /\ DOMAIN x.io = {"iq", "oq"} /\ DOMAIN p = {"rd", "wr", "counter", "out", "buf"}
    BY <1>1, <1>2 DEF IOOK, QueueOK
  <1>4. Keeps(x, y, {"io"}) /\ Upd(x.io, y.io, o, r)
    BY <1>1, <1>3 DEF Put, Keeps, Fields, Upd
  <1>5. QueueOK(r, ahead)
    <2>1. \/ ahead /\ d = 1 /\ p.counter < Size
          \/ ~ ahead /\ d = -1 /\ p.counter > 0
      OBVIOUS
    <2> HIDE DEF p, ahead
    <2> QED BY <1>2, <2>1, QueuePut
  <1> HIDE DEF r, y
  <1>6. Good(y) /\ (InCall(x) => InCall(y))
    BY <1>4, <1>5, IoGood
  <1> QED BY <1>4, <1>6 DEF y

LEMMA GetGood ==
  ASSUME NEW x, Good(x), NEW o \in {"iq", "oq"}, NEW d,
         \/ o = "iq" /\ d = -1 /\ x.io[o].counter > 0
         \/ o = "oq" /\ d = 1 /\ x.io[o].counter < Size
  PROVE  /\ Good(Get(x, o, d)) /\ Keeps(x, Get(x, o, d), {"io"})
         /\ InCall(x) => InCall(Get(x, o, d))
  <1> DEFINE p == x.io[o]
             r == [p EXCEPT !.counter = @ + d, !.out = p.buf[p.rd], !.rd = Up(@)]
             y == Get(x, o, d)
             ahead == o = "iq"
  <1>1. IOOK(x.io) /\ DOMAIN x = Fields
    BY DataOK
  <1>2. QueueOK(p, ahead) /\ ahead \in BOOLEAN
    BY <1>1 DEF IOOK
  <1>3. /\ DOMAIN x.io = {"iq", "oq"} /\ DOMAIN p = {"rd", "wr", "counter", "out", "buf"}
    BY <1>1, <1>2 DEF IOOK, QueueOK
  <1>4. Keeps(x, y, {"io"}) /\ Upd(x.io, y.io, o, r)
    BY <1>1, <1>3 DEF Get, Keeps, Fields, Upd
  <1>5. QueueOK(r, ahead)
    <2>1. \/ ahead /\ d = -1 /\ p.counter > 0
          \/ ~ ahead /\ d = 1 /\ p.counter < Size
      OBVIOUS
    <2> HIDE DEF p, ahead
    <2> QED BY <1>2, <2>1, QueueGet
  <1> HIDE DEF r, y
  <1>6. Good(y) /\ (InCall(x) => InCall(y))
    BY <1>4, <1>5, IoGood
  <1> QED BY <1>4, <1>6 DEF y

\* The pointers and counters tell a full queue from an empty one.
LEMMA FullEmpty ==
  ASSUME NEW x, Good(x)
  PROVE  /\ x.io["iq"].counter \in 0..Size /\ x.io["oq"].counter \in 0..Size
         /\ ~ chIQIsEmptyI(x) => x.io["iq"].counter > 0
         /\ ~ chOQIsFullI(x) => x.io["oq"].counter > 0
         /\ ~ chIQIsFullI(x) => x.io["iq"].counter < Size
         /\ ~ chOQIsEmptyI(x) => x.io["oq"].counter < Size
  <1>1. QueueOK(x.io["iq"], TRUE) /\ QueueOK(x.io["oq"], FALSE)
    BY DataOK DEF IOOK
  <1>2. Size \in Nat /\ Size > 0
    BY CommAssumption
  <1>3. x.io["iq"].counter \in 0..Size /\ x.io["oq"].counter \in 0..Size
    BY <1>1 DEF QueueOK
  <1>4. ~ chIQIsEmptyI(x) => x.io["iq"].counter > 0
    BY <1>2, <1>3 DEF chIQIsEmptyI, chQSpaceI
  <1>5. ~ chOQIsFullI(x) => x.io["oq"].counter > 0
    BY <1>2, <1>3 DEF chOQIsFullI, chQSpaceI
  <1>6. ~ chIQIsFullI(x) => x.io["iq"].counter < Size
    BY <1>1, <1>2, <1>3 DEF QueueOK, chIQIsFullI
  <1>7. ~ chOQIsEmptyI(x) => x.io["oq"].counter < Size
    BY <1>1, <1>2, <1>3 DEF QueueOK, chOQIsEmptyI
  <1> QED BY <1>3, <1>4, <1>5, <1>6, <1>7

LEMMA IsrQueues ==
  ASSUME NEW x, Good(x), NEW b
  PROVE  Good(chIQPutI(x, b)) /\ Good(chOQGetI(x))
  <1>1. Good(chIQPutI(x, b))
    <2>1. CASE ~ chIQIsFullI(x)
      BY <2>1, FullEmpty, PutGood, WakeOneGood DEF chIQPutI
    <2> QED BY <2>1 DEF chIQPutI
  <1>2. Good(chOQGetI(x))
    <2>1. CASE ~ chOQIsEmptyI(x)
      BY <2>1, FullEmpty, GetGood, WakeOneGood DEF chOQGetI
    <2> QED BY <2>1 DEF chOQGetI
  <1> QED BY <1>1, <1>2

LEMMA QResetGood ==
  ASSUME NEW x, Good(x)
  PROVE  Good(QResetI(x, "iq", 0)) /\ Good(QResetI(x, "oq", Size))
  <1>1. ASSUME NEW o \in {"iq", "oq"}, NEW n, n = IF o = "iq" THEN 0 ELSE Size
        PROVE  Good(QResetI(x, o, n))
    <2> DEFINE p == x.io[o]
               r == [p EXCEPT !.rd = 0, !.wr = 0, !.counter = n]
               y == [x EXCEPT !.io[o].rd = 0, !.io[o].wr = 0, !.io[o].counter = n]
               z == [y EXCEPT !.q[o] = <<>>]
    <2>1. IOOK(x.io) /\ DOMAIN x = Fields
      BY DataOK
    <2>2. QueueOK(p, o = "iq") /\ DOMAIN x.io = {"iq", "oq"}
      BY <2>1 DEF IOOK
    <2>3. DOMAIN p = {"rd", "wr", "counter", "out", "buf"}
      BY <2>2 DEF QueueOK
    <2>4. Keeps(x, y, {"io"}) /\ Upd(x.io, y.io, o, r) /\ y.q = x.q
      BY <2>1, <2>2, <2>3 DEF Keeps, Fields, Upd
    <2>5. QueueOK(r, o = "iq")
      <3>1. r.rd = 0 /\ r.wr = 0 /\ r.counter = n /\ DOMAIN r = {"rd", "wr", "counter", "out", "buf"}
        BY <2>3
      <3>2. Size \in Nat /\ Size > 0
        BY CommAssumption
      <3> HIDE DEF r
      <3> QED BY <1>1, <3>1, <3>2 DEF QueueOK
    <2>6. QResetI(x, o, n) = ReadyEach(z, x.q[o], "RDY_RESET")
      <3>1. z = [x EXCEPT !.io[o].rd = 0, !.io[o].wr = 0, !.io[o].counter = n, !.q[o] = <<>>]
        BY <2>1 DEF Fields
      <3> QED BY <3>1 DEF QResetI
    <2> HIDE DEF r, y
    <2>7. Good(y)
      BY <2>4, <2>5, IoGood
    <2>8. Good(ReadyEach(z, y.q[o], "RDY_RESET"))
      BY <2>7, EmptyGood
    <2> QED BY <2>4, <2>6, <2>8
  <1>2. Good(QResetI(x, "iq", 0))
    BY <1>1
  <1>3. Good(QResetI(x, "oq", Size))
    BY <1>1
  <1> QED BY <1>2, <1>3

\* The call of the running thread is over.
LEMMA CallDone ==
  ASSUME NEW x, InCall(x), NEW c, c = x.cur
  PROVE  Good([x EXCEPT !.cont[c] = NoCont])
  <1> DEFINE y == [x EXCEPT !.cont[c] = NoCont]
  <1>1. Good(x) /\ c # Idle /\ Unarmed(x, c) /\ DOMAIN x = Fields
    BY InCallFacts
  <1>2. Keeps(x, y, {"cont"}) /\ Upd(x.cont, y.cont, c, NoCont)
    BY <1>1 DEF Keeps, Fields, Upd
  <1> HIDE DEF y
  <1>3. Good(y)
    BY <1>1, <1>2, ContDone
  <1> QED BY <1>3 DEF y

\* The bytes that are still to be moved.
LEMMA MoreGood ==
  ASSUME NEW x, InCall(x), NEW c, NEW n, NEW time \in Times, NEW b,
         \/ c = [fn |-> "iqread", n |-> n, time |-> time]
         \/ c = [fn |-> "oqwrite", msg |-> b, n |-> n, time |-> time]
  PROVE  Good(More(x, c))
  <1> DEFINE m == IF c.n = 1 THEN NoCont ELSE [c EXCEPT !.n = @ - 1]
             y == More(x, c)
  <1>1. DOMAIN x = Fields
    BY InCallFacts
  <1>2. Keeps(x, y, {"cont", "more"}) /\ Upd(x.cont, y.cont, x.cur, NoCont) /\ Upd(x.more, y.more, x.cur, m)
    BY <1>1 DEF More, Keeps, Fields, Upd
  <1>3. MoreOK(m) /\ m.fn \notin {"alloc", "free", "core", "spawn"}
    <2>1. CASE c.n = 1
      BY <2>1, NoContFacts
    <2>2. CASE c.n # 1
      <3>1. /\ "fn" \in DOMAIN m /\ m.fn \in {"iqread", "oqwrite"} /\ m.time = time
        BY <2>2
      <3> HIDE DEF m
      <3> QED BY <3>1 DEF MoreOK
    <2> QED BY <2>1, <2>2
  <1> HIDE DEF m, y
  <1>4. Claims(m, x.more, x.st, x.cur)
    BY <1>3, NoClaims
  <1>5. InCall(y)
    BY <1>2, <1>3, <1>4, RunGood
  <1> QED BY <1>5 DEF y, InCall

\* A transfer starts with nothing left of another one.
LEMMA NoMore ==
  ASSUME NEW x, InCall(x), NEW y, y = [x EXCEPT !.more[x.cur] = NoCont]
  PROVE  InCall(y) /\ y.io = x.io /\ y.cur = x.cur
  <1>1. DOMAIN x = Fields
    BY InCallFacts
  <1>2. /\ Keeps(x, y, {"cont", "more"}) /\ y.cont = x.cont /\ Upd(x.more, y.more, x.cur, NoCont)
        /\ y.io = x.io /\ y.cur = x.cur
    BY <1>1 DEF Keeps, Fields, Upd
  <1>3. MoreOK(NoCont) /\ NoCont.fn \notin {"alloc", "free"} /\ Claims(NoCont, x.more, x.st, x.cur)
    BY NoContFacts, NoClaims
  <1> QED BY <1>2, <1>3, RunGood

LEMMA QueueCallsGood ==
  ASSUME NEW x, InCall(x), NEW time \in Times, NEW b, NEW n
  PROVE  /\ Good(chIQGetTimeout(x, time)) /\ Good(chOQPutTimeout(x, b, time))
         /\ Good(chIQReadTimeout(x, n, time)) /\ Good(chOQWriteTimeout(x, b, n, time))
  <1>1. Good(x) /\ DOMAIN x = Fields
    BY InCallFacts
  <1>2. Good(chIQGetTimeout(x, time))
    <2> DEFINE cont == [fn |-> "iqget", time |-> time]
               y == Get(x, "iq", -1)
    <2>1. ContOK(cont) /\ cont.fn = "iqget"
      BY DEF ContOK, Timed
    <2>2. CASE chIQIsEmptyI(x)
      BY <2>1, <2>2, QWaitGood DEF chIQGetTimeout
    <2>3. CASE ~ chIQIsEmptyI(x)
      <3>1. InCall(y) /\ Keeps(x, y, {"io"})
        BY <1>1, <2>3, FullEmpty, GetGood
      <3>2. y.cur = x.cur
        BY <3>1 DEF Keeps, Fields
      <3>3. chIQGetTimeout(x, time) = [y EXCEPT !.cont[x.cur] = NoCont]
        BY <2>3 DEF chIQGetTimeout
      <3> HIDE DEF y
      <3> QED BY <3>1, <3>2, <3>3, CallDone
    <2> QED BY <2>2, <2>3
  <1>3. Good(chOQPutTimeout(x, b, time))
    <2> DEFINE cont == [fn |-> "oqput", msg |-> b, time |-> time]
               y == Put(x, "oq", b, -1)
    <2>1. ContOK(cont) /\ cont.fn = "oqput"
      BY DEF ContOK, Timed
    <2>2. CASE chOQIsFullI(x)
      BY <2>1, <2>2, QWaitGood DEF chOQPutTimeout
    <2>3. CASE ~ chOQIsFullI(x)
      <3>1. InCall(y) /\ Keeps(x, y, {"io"})
        BY <1>1, <2>3, FullEmpty, PutGood
      <3>2. y.cur = x.cur
        BY <3>1 DEF Keeps, Fields
      <3>3. chOQPutTimeout(x, b, time) = [y EXCEPT !.cont[x.cur] = NoCont]
        BY <2>3 DEF chOQPutTimeout
      <3> HIDE DEF y
      <3> QED BY <3>1, <3>2, <3>3, CallDone
    <2> QED BY <2>2, <2>3
  <1> DEFINE k1 == [x EXCEPT !.more[x.cur] = NoCont]
  <1>4. InCall(k1) /\ k1.io = x.io /\ Good(k1)
    BY NoMore DEF InCall
  <1>5. Good(chIQReadTimeout(x, n, time))
    <2> DEFINE c == [fn |-> "iqread", n |-> n, time |-> time]
    <2>1. ContOK(c) /\ c.fn = "iqread"
      BY DEF ContOK, Timed
    <2>2. chIQReadTimeout(x, n, time) = IF chIQIsEmptyI(x) THEN qwait(k1, "iq", time, c)
                                        ELSE More(Get(k1, "iq", -1), c)
      BY DEF chIQReadTimeout
    <2>3. chIQIsEmptyI(x) <=> chIQIsEmptyI(k1)
      BY <1>4 DEF chIQIsEmptyI, chQSpaceI
    <2> HIDE DEF k1, c
    <2>4. CASE chIQIsEmptyI(x)
      BY <1>4, <2>1, <2>2, <2>4, QWaitGood
    <2>5. CASE ~ chIQIsEmptyI(x)
      <3>1. InCall(Get(k1, "iq", -1))
        BY <1>4, <2>3, <2>5, FullEmpty, GetGood
      <3> QED BY <2>2, <2>5, <3>1, MoreGood DEF c
    <2> QED BY <2>4, <2>5
  <1>6. Good(chOQWriteTimeout(x, b, n, time))
    <2> DEFINE c == [fn |-> "oqwrite", msg |-> b, n |-> n, time |-> time]
    <2>1. ContOK(c) /\ c.fn = "oqwrite"
      BY DEF ContOK, Timed
    <2>2. chOQWriteTimeout(x, b, n, time) = IF chOQIsFullI(x) THEN qwait(k1, "oq", time, c)
                                            ELSE More(Put(k1, "oq", b, -1), c)
      BY DEF chOQWriteTimeout
    <2>3. chOQIsFullI(x) <=> chOQIsFullI(k1)
      BY <1>4 DEF chOQIsFullI, chQSpaceI
    <2> HIDE DEF k1, c
    <2>4. CASE chOQIsFullI(x)
      BY <1>4, <2>1, <2>2, <2>4, QWaitGood
    <2>5. CASE ~ chOQIsFullI(x)
      <3>1. InCall(Put(k1, "oq", b, -1))
        BY <1>4, <2>3, <2>5, FullEmpty, PutGood
      <3> QED BY <2>2, <2>5, <3>1, MoreGood DEF c
    <2> QED BY <2>4, <2>5
  <1> QED BY <1>2, <1>3, <1>5, <1>6

LEMMA QueueCallGood ==
  ASSUME NEW x, InCall(x), NEW c, c.time \in Times
  PROVE  Good(QueueCall(x, c))
  BY QueueCallsGood DEF QueueCall

LEMMA AfterQueueGood ==
  ASSUME NEW x, InCall(x), NEW c, c.time \in Times
  PROVE  Good(AfterQueue(x, c))
  BY QueueCallGood, CallDone DEF AfterQueue

-----------------------------------------------------------------------------
(***************************************************************************)
(* Mailboxes.                                                              *)
(***************************************************************************)

LEMMA UpDown ==
  ASSUME NEW p \in 0..(Size - 1)
  PROVE  Up(p) \in 0..(Size - 1) /\ Down(p) \in 0..(Size - 1)
  BY CommAssumption DEF Up, Down

LEMMA MBDataGood ==
  ASSUME NEW x, Good(x), NEW m
  PROVE  Good(MBWrite(x, m)) /\ Good(MBWriteAhead(x, m)) /\ Good(MBRead(x))
  <1>1. DOMAIN x = Fields /\ MBOK(x.mb) /\ IOOK(x.io)
    BY DataOK
  <1>2. DOMAIN x.mb = {"rd", "wr", "out", "buf"} /\ x.mb.rd \in 0..(Size - 1) /\ x.mb.wr \in 0..(Size - 1)
    BY <1>1 DEF MBOK
  <1>3. /\ Up(x.mb.rd) \in 0..(Size - 1) /\ Up(x.mb.wr) \in 0..(Size - 1)
        /\ Down(x.mb.rd) \in 0..(Size - 1)
    BY <1>2, UpDown
  <1>4. "mb_emptysem" \in AllSems /\ "mb_fullsem" \in AllSems
    BY DEF AllSems
  <1>5. Good(MBWrite(x, m))
    <2> DEFINE y == [x EXCEPT !.mb.buf[x.mb.wr] = m, !.mb.wr = Up(@)]
    <2>1. Keeps(x, y, {"mb", "io"}) /\ y.io = x.io
      BY <1>1 DEF Keeps, Fields
    <2>2. y.mb.rd = x.mb.rd /\ y.mb.wr = Up(x.mb.wr) /\ DOMAIN y.mb = {"rd", "wr", "out", "buf"}
      BY <1>1, <1>2 DEF Fields
    <2>3. MBWrite(x, m) = chSemSignalI(y, "mb_fullsem")
      BY DEF MBWrite
    <2> HIDE DEF y
    <2>4. Good(y)
      BY <1>1, <1>2, <1>3, <2>1, <2>2, GoodData DEF MBOK
    <2> QED BY <1>4, <2>3, <2>4, SignalI
  <1>6. Good(MBWriteAhead(x, m))
    <2> DEFINE y == [x EXCEPT !.mb.rd = Down(@), !.mb.buf[Down(x.mb.rd)] = m]
    <2>1. Keeps(x, y, {"mb", "io"}) /\ y.io = x.io
      BY <1>1 DEF Keeps, Fields
    <2>2. y.mb.rd = Down(x.mb.rd) /\ y.mb.wr = x.mb.wr /\ DOMAIN y.mb = {"rd", "wr", "out", "buf"}
      BY <1>1, <1>2 DEF Fields
    <2>3. MBWriteAhead(x, m) = chSemSignalI(y, "mb_fullsem")
      BY DEF MBWriteAhead
    <2> HIDE DEF y
    <2>4. Good(y)
      BY <1>1, <1>2, <1>3, <2>1, <2>2, GoodData DEF MBOK
    <2> QED BY <1>4, <2>3, <2>4, SignalI
  <1>7. Good(MBRead(x))
    <2> DEFINE y == [x EXCEPT !.mb.out = x.mb.buf[x.mb.rd], !.mb.rd = Up(@)]
    <2>1. Keeps(x, y, {"mb", "io"}) /\ y.io = x.io
      BY <1>1 DEF Keeps, Fields
    <2>2. y.mb.rd = Up(x.mb.rd) /\ y.mb.wr = x.mb.wr /\ DOMAIN y.mb = {"rd", "wr", "out", "buf"}
      BY <1>1, <1>2 DEF Fields
    <2>3. MBRead(x) = chSemSignalI(y, "mb_emptysem")
      BY DEF MBRead
    <2> HIDE DEF y
    <2>4. Good(y)
      BY <1>1, <1>2, <1>3, <2>1, <2>2, GoodData DEF MBOK
    <2> QED BY <1>4, <2>3, <2>4, SignalI
  <1> QED BY <1>5, <1>6, <1>7

LEMMA MBCallsGood ==
  ASSUME NEW x, Calling(x), NEW m, NEW time \in Times
  PROVE  Good(chMBPostS(x, m, time)) /\ Good(chMBPostAheadS(x, m, time)) /\ Good(chMBFetchS(x, time))
  <1>1. Good(x)
    BY DEF Calling
  <1>2. time # TIME_IMMEDIATE => time \in 1..(TimeMod - 1)
    BY SchedAssumption DEF Times, TIME_IMMEDIATE
  <1>3. "mb_emptysem" \in AllSems /\ "mb_fullsem" \in AllSems
    BY DEF AllSems
  <1> DEFINE take(s) == [x EXCEPT !.cnt[s] = @ - 1]
             wait(s) == [take(s) EXCEPT !.u[x.cur] = Obj(s), !.q[s] = queue_insert(@, x.cur)]
  <1>4. ASSUME NEW s \in AllSems, NEW cont, ContOK(cont), cont.fn \in {"sem", "post", "ahead", "fetch"}
        PROVE  /\ take(s).cnt[s] >= 0 => Good(take(s))
               /\ take(s).cnt[s] < 0 =>
                      \A d \in 1..(TimeMod - 1) : Good(chSchGoSleepTimeoutS(wait(s), "WTSEM", d, cont))
               /\ take(s).cnt[s] \in Int
    <2> DEFINE k1 == take(s)
               k2 == wait(s)
    <2>1. k1 = [x EXCEPT !.cnt[s] = @ - 1]
          /\ k2 = [k1 EXCEPT !.u[x.cur] = Obj(s), !.q[s] = queue_insert(@, x.cur)]
      OBVIOUS
    <2> HIDE DEF k1, k2
    <2>2. /\ k1.cnt[s] >= 0 => Good(k1)
          /\ k1.cnt[s] < 0 => \A d \in 1..(TimeMod - 1) : Good(chSchGoSleepTimeoutS(k2, "WTSEM", d, cont))
          /\ k1.cnt[s] \in Int
      BY <1>4, <2>1, SemWaitCases
    <2> QED BY <2>2 DEF k1, k2
  <1>5. Good(chMBPostS(x, m, time))
    <2> DEFINE s == "mb_emptysem"
               cont == [fn |-> "post", msg |-> m]
    <2>1. chMBPostS(x, m, time) = IF take(s).cnt[s] >= 0 THEN chSchRescheduleS(MBWrite(take(s), m))
                                  ELSE IF time = TIME_IMMEDIATE THEN x
                                  ELSE chSchGoSleepTimeoutS(wait(s), "WTSEM", time, cont)
      BY DEF chMBPostS, chSemWaitTimeoutS
    <2>2. ContOK(cont) /\ cont.fn = "post"
      BY DEF ContOK, Timed
    <2> HIDE DEF take, wait, cont
    <2> QED BY <1>1, <1>2, <1>3, <1>4, <2>1, <2>2, MBDataGood, Reschedule
  <1>6. Good(chMBPostAheadS(x, m, time))
    <2> DEFINE s == "mb_emptysem"
               cont == [fn |-> "ahead", msg |-> m]
    <2>1. chMBPostAheadS(x, m, time) = IF take(s).cnt[s] >= 0
                                       THEN chSchRescheduleS(MBWriteAhead(take(s), m))
                                       ELSE IF time = TIME_IMMEDIATE THEN x
                                       ELSE chSchGoSleepTimeoutS(wait(s), "WTSEM", time, cont)
      BY DEF chMBPostAheadS, chSemWaitTimeoutS
    <2>2. ContOK(cont) /\ cont.fn = "ahead"
      BY DEF ContOK, Timed
    <2> HIDE DEF take, wait, cont
    <2> QED BY <1>1, <1>2, <1>3, <1>4, <2>1, <2>2, MBDataGood, Reschedule
  <1>7. Good(chMBFetchS(x, time))
    <2> DEFINE s == "mb_fullsem"
               cont == [fn |-> "fetch"]
    <2>1. chMBFetchS(x, time) = IF take(s).cnt[s] >= 0 THEN chSchRescheduleS(MBRead(take(s)))
                                ELSE IF time = TIME_IMMEDIATE THEN x
                                ELSE chSchGoSleepTimeoutS(wait(s), "WTSEM", time, cont)
      BY DEF chMBFetchS, chSemWaitTimeoutS
    <2>2. ContOK(cont) /\ cont.fn = "fetch"
      BY DEF ContOK, Timed
    <2> HIDE DEF take, wait, cont
    <2> QED BY <1>1, <1>2, <1>3, <1>4, <2>1, <2>2, MBDataGood, Reschedule
  <1> QED BY <1>5, <1>6, <1>7

LEMMA AfterMBGood ==
  ASSUME NEW x, InCall(x), NEW c
  PROVE  Good(AfterMB(x, c))
  <1> DEFINE y == [x EXCEPT !.cont[x.cur] = NoCont]
  <1>1. Good(y)
    BY CallDone
  <1>2. AfterMB(x, c) = IF RdyMsg(x, x.cur) # "RDY_OK" THEN y
                        ELSE chSchRescheduleS(IF c.fn = "post" THEN MBWrite(y, c.msg)
                                              ELSE IF c.fn = "ahead" THEN MBWriteAhead(y, c.msg)
                                              ELSE MBRead(y))
    BY DEF AfterMB
  <1> HIDE DEF y
  <1> QED BY <1>1, <1>2, MBDataGood, Reschedule

LEMMA MBResetGood ==
  ASSUME NEW x, Good(x)
  PROVE  Good(chMBReset(x))
  <1> DEFINE y == [x EXCEPT !.mb.rd = 0, !.mb.wr = 0]
  <1>1. DOMAIN x = Fields /\ MBOK(x.mb) /\ IOOK(x.io)
    BY DataOK
  <1>2. Keeps(x, y, {"mb", "io"}) /\ y.io = x.io
    BY <1>1 DEF Keeps, Fields
  <1>3. y.mb.rd = 0 /\ y.mb.wr = 0 /\ DOMAIN y.mb = {"rd", "wr", "out", "buf"}
    BY <1>1 DEF Fields, MBOK
  <1>4. Size \in Nat /\ 0 \in 0..(Size - 1)
    BY CommAssumption
  <1>5. chMBReset(x) = chSchRescheduleS(chSemResetI(chSemResetI(y, "mb_emptysem", Size), "mb_fullsem", 0))
    BY DEF chMBReset
  <1> HIDE DEF y
  <1>6. Good(y)
    BY <1>1, <1>2, <1>3, <1>4, GoodData DEF MBOK
  <1>7. Good(chSemResetI(y, "mb_emptysem", Size))
    BY <1>4, <1>6, SemResetGood DEF AllSems
  <1>8. Good(chSemResetI(chSemResetI(y, "mb_emptysem", Size), "mb_fullsem", 0))
    BY <1>7, SemResetGood DEF AllSems
  <1> QED BY <1>5, <1>8, Reschedule

LEMMA FastWait ==
  ASSUME NEW x, Good(x), NEW s \in AllSems, ~ x.cnt[s] <= 0
  PROVE  Good(chSemFastWaitI(x, s))
  <1>1. x.cnt[s] \in Int
    BY DEF Good, Core, Counters
  <1>2. x.cnt[s] - 1 >= 0
    BY <1>1
  <1> QED BY <1>2, SemTake DEF chSemFastWaitI

LEMMA IsrMBGood ==
  ASSUME NEW x, Good(x), NEW m
  PROVE  Good(chMBPostI(x, m)) /\ Good(chMBPostAheadI(x, m)) /\ Good(chMBFetchI(x))
  <1>1. "mb_emptysem" \in AllSems /\ "mb_fullsem" \in AllSems
    BY DEF AllSems
  <1> QED BY <1>1, FastWait, MBDataGood DEF chMBPostI, chMBPostAheadI, chMBFetchI

-----------------------------------------------------------------------------
(***************************************************************************)
(* The system tick.                                                        *)
(***************************************************************************)

\* A waiter, not only the first one, is taken out of the queue of its object.
LEMMA TakeAny ==
  ASSUME NEW x, Good(x), NEW t \in All, x.st[t] \in {"WTSEM", "WTCOND", "WTQUEUE"},
         NEW o, o = x.u[t][2], NEW y, Keeps(x, y, {"q", "cnt"}), Upd(x.q, y.q, o, dequeue(x.q[o], t)),
         x.st[t] = "WTSEM" => Upd(x.cnt, y.cnt, o, x.cnt[o] + 1), x.st[t] # "WTSEM" => y.cnt = x.cnt
  PROVE  Waking(y, t) /\ Same(x, y)
  <1>1. /\ Core(x, x.st) /\ x.st \in [All -> States] /\ x.cur \in All
        /\ \A p \in All : (x.st[p] = "CURRENT" <=> p = x.cur) /\ x.st[p] # "SUSPENDED"
    BY GoodShape
  <1>2. o \in Objects
    <2>1. Kind(x.st[t], x.u[t], x.cont[t])
      BY <1>1 DEF Core, Locals, Local
    <2> QED BY <2>1 DEF Kind, Objects
  <1>3. Exactly(x.q[o], Waiters(x, x.st, o)) /\ t \in Waiters(x, x.st, o)
    BY <1>1, <1>2, ObjectsApart DEF Core, Queues, Waiters, Queued
  <1> DEFINE r == dequeue(x.q[o], t)
             w == [x.st EXCEPT ![t] = "CURRENT"]
  <1>4. Exactly(r, Waiters(x, x.st, o) \ {t}) /\ Len(r) = Len(x.q[o]) - 1
    BY <1>3, ExactDequeue
  <1>5. Upd(x.q, y.q, o, r) /\ Upd(x.st, w, t, "CURRENT") /\ w = [x.st EXCEPT ![t] = "CURRENT"]
    BY DEF Upd
  <1>6. y.st = x.st /\ y.cur = x.cur /\ Same(x, y)
    BY DEF Keeps, Fields, Same
  <1>7. /\ Core(x, x.st) /\ t \in All /\ o = x.u[t][2]
        /\ x.st[t] \in {"WTSEM", "WTMTX", "WTCOND", "WTQUEUE"}
        /\ x.st[t] = "WTMTX" => x.mtxlist[t] # <<>>
        /\ x.st[t] = "WTSEM" => Upd(x.cnt, y.cnt, o, x.cnt[o] + 1)
        /\ x.st[t] # "WTSEM" => y.cnt = x.cnt
        /\ Keeps(x, y, {"q", "cnt"})
    BY <1>1
  <1> HIDE DEF r, w
  <1>8. Core(y, w)
    BY ONLY <1>4, <1>5, <1>7, CoreTake
  <1> QED BY <1>1, <1>5, <1>6, <1>8 DEF Waking

\* A thread that sleeps in no queue is woken.
LEMMA RouseFree ==
  ASSUME NEW x, Good(x), NEW t \in All, x.st[t] \in {"SLEEPING", "WTOREVT", "WTANDEVT", "SNDMSG"}
  PROVE  Waking(x, t) /\ t # Idle
  <1>1. /\ Core(x, x.st) /\ x.st \in [All -> States] /\ x.cur \in All
        /\ \A p \in All : (x.st[p] = "CURRENT" <=> p = x.cur) /\ x.st[p] # "SUSPENDED"
    BY GoodShape
  <1>2. Local(x.st[t], x.u[t], x.cont[t], x.q[t], x.waiting[t], x.epending[t], x.mtxlist[t],
              x.more[t], x.preempt[t])
    BY <1>1 DEF Core, Locals
  <1>3. t # Idle
    BY <1>1, CoreShape DEF Running
  <1>4. Local("CURRENT", x.u[t], x.cont[t], x.q[t], x.waiting[t], x.epending[t], x.mtxlist[t],
              x.more[t], x.preempt[t])
    BY <1>2 DEF Local, Kind, Running, Sleeps
  <1>5. x.st[t] \notin Queued \cup {"READY", "WTEXIT", "FINAL"}
    BY DEF Queued
  <1> DEFINE w == [x.st EXCEPT ![t] = "CURRENT"]
  <1>6. Core(x, w)
    <2>1. w = [x.st EXCEPT ![t] = "CURRENT"]
      OBVIOUS
    <2> HIDE DEF w
    <2> QED BY <1>1, <1>3, <1>4, <1>5, <2>1, CoreRouse
  <1> QED BY <1>1, <1>3, <1>6 DEF Waking

\* The message of a thread that is about to be made ready.
LEMMA WakingMsg ==
  ASSUME NEW x, NEW t, Waking(x, t), NEW m, NEW y, Keeps(x, y, {"u"}), Upd(x.u, y.u, t, m)
  PROVE  Waking(y, t) /\ Same(x, y)
  <1> DEFINE v == [x.st EXCEPT ![t] = "CURRENT"]
  <1>1. t \in All /\ Core(x, v)
    BY DEF Waking
  <1>2. v[t] = "CURRENT"
    BY <1>1, CoreShape
  <1>3. y.st = x.st /\ y.cur = x.cur /\ Same(x, y)
    BY DEF Keeps, Fields, Same
  <1> HIDE DEF v
  <1>4. Core(y, v)
    BY <1>1, <1>2, SetMsg DEF Upd
  <1> QED BY <1>3, <1>4 DEF Waking, v

LEMMA WakeupGood ==
  ASSUME NEW x, Good(x), NEW t \in All, t # x.cur, x.cont[t].fn \in Timed
  PROVE  Good(wakeup(x, t)) /\ Same(x, wakeup(x, t))
  <1> DEFINE o == x.u[t][2]
             a == [x EXCEPT !.cnt[o] = @ + 1, !.q[o] = dequeue(@, t)]
             b == [x EXCEPT !.q[o] = dequeue(@, t)]
             k1 == IF x.st[t] = "WTSEM" THEN a ELSE IF x.st[t] \in {"WTQUEUE", "WTCOND"} THEN b ELSE x
             k2 == [k1 EXCEPT !.u[t] = Msg("RDY_TIMEOUT")]
  <1>1. /\ Core(x, x.st) /\ x.st \in [All -> States]
        /\ \A p \in All : (x.st[p] = "CURRENT" <=> p = x.cur) /\ x.st[p] # "SUSPENDED"
    BY GoodShape
  <1>2. DOMAIN x = Fields /\ DOMAIN x.u = All /\ DOMAIN x.q = WaitQueues /\ DOMAIN x.cnt = AllSems
    BY <1>1, CoreShape
  <1>3. x.st[t] \in {"READY", "SLEEPING", "WTSEM", "WTCOND", "WTQUEUE", "WTOREVT", "WTANDEVT"}
    <2>1. Local(x.st[t], x.u[t], x.cont[t], x.q[t], x.waiting[t], x.epending[t], x.mtxlist[t],
                x.more[t], x.preempt[t])
      BY <1>1 DEF Core, Locals
    <2>2. x.cont[t] # NoCont
      BY NoContFacts DEF Timed
    <2> QED BY <1>1, <2>1, <2>2 DEF Local, Running, Sleeps, Timed
  <1>4. wakeup(x, t) = IF x.st[t] = "READY" THEN x ELSE chSchReadyI(k2, t)
    BY DEF wakeup, WaitObj
  <1>5. CASE x.st[t] = "READY"
    BY <1>4, <1>5 DEF Same
  <1>6. CASE x.st[t] # "READY"
    <2>1. Waking(k1, t) /\ Same(x, k1)
      <3>1. CASE x.st[t] = "WTSEM"
        <4>1. Keeps(x, a, {"q", "cnt"}) /\ Upd(x.q, a.q, o, dequeue(x.q[o], t)) /\ Upd(x.cnt, a.cnt, o, x.cnt[o] + 1)
          BY <1>2 DEF Keeps, Fields, Upd
        <4>2. k1 = a
          BY <3>1
        <4> HIDE DEF a, k1, o
        <4>3. o = x.u[t][2]
          BY DEF o
        <4> QED BY <3>1, <4>1, <4>2, <4>3, TakeAny
      <3>2. CASE x.st[t] \in {"WTQUEUE", "WTCOND"}
        <4>1. Keeps(x, b, {"q", "cnt"}) /\ Upd(x.q, b.q, o, dequeue(x.q[o], t)) /\ b.cnt = x.cnt
          BY <1>2 DEF Keeps, Fields, Upd
        <4>2. k1 = b
          BY <3>2
        <4> HIDE DEF b, k1, o
        <4>3. o = x.u[t][2]
          BY DEF o
        <4> QED BY <3>2, <4>1, <4>2, <4>3, TakeAny
      <3>3. CASE x.st[t] \in {"SLEEPING", "WTOREVT", "WTANDEVT"}
        BY <3>3, RouseFree DEF Same
      <3> QED BY <1>3, <1>6, <3>1, <3>2, <3>3
    <2> HIDE DEF k1
    <2>2. DOMAIN k1 = Fields /\ DOMAIN k1.u = All
      BY <2>1, CoreShape DEF Waking
    <2>3. Keeps(k1, k2, {"u"}) /\ Upd(k1.u, k2.u, t, Msg("RDY_TIMEOUT"))
      BY <2>2 DEF Keeps, Fields, Upd
    <2> HIDE DEF k2
    <2>4. Waking(k2, t) /\ Same(k1, k2)
      BY <2>1, <2>3, WakingMsg
    <2>5. Good(chSchReadyI(k2, t)) /\ Same(k2, chSchReadyI(k2, t))
      BY <2>4, WakeReady
    <2> QED BY <1>4, <1>6, <2>1, <2>4, <2>5 DEF Same
  <1> QED BY <1>5, <1>6

LEMMA GoodTimers ==
  ASSUME NEW x, Good(x), NEW y, Keeps(x, y, {"vt", "due", "systime"}), y.systime \in Times,
         Timers(y.vt, y.due, x.cont)
  PROVE  Good(y) /\ y.cur = x.cur /\ y.cont = x.cont
  <1> DEFINE z == [x EXCEPT !.systime = y.systime]
  <1>1. DOMAIN x = Fields
    BY DataOK
  <1>2. Keeps(x, z, Inert \ {"cur", "st"}) /\ z.systime = y.systime /\ z.prio = x.prio
        /\ z.preempt = x.preempt
    BY <1>1 DEF Keeps, Fields, Inert
  <1>3. Keeps(z, y, {"vt", "due"}) /\ z.cont = x.cont /\ z.cur = x.cur
    BY <1>1 DEF Keeps, Fields
  <1> HIDE DEF z
  <1>4. DOMAIN x.prio = All /\ x.prio[Idle] = IDLEPRIO /\ DOMAIN x.preempt = All
        /\ \A t \in All : x.preempt[t] \in 0..CH_TIME_QUANTUM
    BY CoreShape DEF Good, IDLEPRIO
  <1>5. Good(z)
    BY <1>2, <1>4, GoodFrame
  <1>6. /\ y.st = z.st /\ y.cur = z.cur /\ y.cont = z.cont /\ y.u = z.u /\ y.more = z.more
        /\ y.mtxlist = z.mtxlist /\ y.epending = z.epending /\ y.owner = z.owner
        /\ Keeps(z, y, {"u", "cont", "mtxlist", "owner", "more", "epending", "vt", "due"})
    BY <1>3 DEF Keeps, Fields
  <1>7. Core(y, z.st)
    <2>1. Core(z, z.st) /\ z.cur \in All
      BY <1>5, GoodShape
    <2>2. /\ DOMAIN z.u = All /\ DOMAIN z.cont = All /\ DOMAIN z.mtxlist = All
          /\ DOMAIN z.more = All /\ DOMAIN z.epending = All
          /\ z.cont[Idle] = NoCont /\ z.more[Idle] = NoCont
      BY <2>1, CoreShape
    <2>3. /\ Local(z.st[z.cur], z.u[z.cur], z.cont[z.cur], z.q[z.cur], z.waiting[z.cur],
                   z.epending[z.cur], z.mtxlist[z.cur], z.more[z.cur], z.preempt[z.cur])
          /\ Reserved(z.more, z.st) /\ z.owner \in [AllMutexes -> Threads \cup {NoThread}]
      BY <2>1 DEF Core, Locals
    <2>4. Timers(y.vt, y.due, y.cont)
      BY <1>3, <1>6
    <2> QED BY <1>6, <2>1, <2>2, <2>3, <2>4, CoreLocal
  <1> QED BY <1>3, <1>5, <1>6, <1>7, GoodIf

LEMMA DoTickGood ==
  ASSUME NEW x, Good(x), x.cont[x.cur] = NoCont
  PROVE  Good(chVTDoTickI(x))
  <1> DEFINE due1 == [t \in All |-> IF x.due[t] > 0 THEN x.due[t] - 1 ELSE 0]
             k1 == [x EXCEPT !.systime = (@ + 1) % TimeMod, !.due = due1]
             vt1 == [x.vt EXCEPT ![1].time = @ - 1]
             n == TickEnd(vt1)
             k2 == [k1 EXCEPT !.vt = SubSeq(vt1, n + 1, Len(vt1))]
             g(a, i) == wakeup(a, vt1[i].par)
  <1>1. chVTDoTickI(x) = IF x.vt = <<>> THEN k1 ELSE Fold(k2, n, g)[n]
    BY DEF chVTDoTickI, Fold, TickEnd
  <1>2. DOMAIN x = Fields /\ Timers(x.vt, x.due, x.cont) /\ x.systime \in Times
    BY CoreShape DEF Good, Core
  <1>3. (x.systime + 1) % TimeMod \in Times
    BY <1>2, SchedAssumption DEF Times
  <1>4. due1 \in [All -> Times]
    <2>1. \A t \in All : x.due[t] \in Times
      BY <1>2, DueFacts
    <2> QED BY <2>1, SchedAssumption DEF Times
  <1>5. CASE x.vt = <<>>
    <2>1. Keeps(x, k1, {"vt", "due", "systime"}) /\ k1.systime = (x.systime + 1) % TimeMod
          /\ k1.due = due1 /\ k1.vt = <<>>
      BY <1>2, <1>5 DEF Keeps, Fields
    <2> HIDE DEF k1, due1
    <2>2. Timers(k1.vt, k1.due, x.cont)
      BY <1>4, <2>1 DEF Timers
    <2> QED BY <1>1, <1>3, <1>5, <2>1, <2>2, GoodTimers
  <1>6. CASE x.vt # <<>>
    <2>1. Keeps(x, k2, {"vt", "due", "systime"}) /\ k2.systime = (x.systime + 1) % TimeMod
          /\ k2.due = due1 /\ k2.vt = SubSeq(vt1, n + 1, Len(vt1))
      BY <1>2 DEF Keeps, Fields
    <2> HIDE DEF k2, k1
    <2>2. /\ n \in Nat /\ n \in 0..Len(x.vt)
          /\ \A i \in 1..n : vt1[i].par = x.vt[i].par
          /\ Timers(SubSeq(vt1, n + 1, Len(vt1)), due1, x.cont)
      <3>1. Upd(x.vt, vt1, 1, [x.vt[1] EXCEPT !.time = @ - 1]) /\ n = TickEnd(vt1)
        BY DEF Upd
      <3> HIDE DEF vt1, n
      <3>2. /\ n \in Nat /\ n \in 0..Len(x.vt)
            /\ \A i \in 1..n : vt1[i].par = x.vt[i].par
            /\ Timers(SubSeq(vt1, n + 1, Len(vt1)),
                      [t \in All |-> IF x.due[t] > 0 THEN x.due[t] - 1 ELSE 0], x.cont)
        BY <1>2, <1>6, <3>1, TickTimers
      <3> QED BY <3>2
    <2> HIDE DEF vt1, n, due1
    <2>3. Good(k2) /\ k2.cur = x.cur /\ k2.cont = x.cont
      BY <1>3, <2>1, <2>2, GoodTimers
    <2> DEFINE P(i, a) == Good(a) /\ Same(k2, a)
    <2>4. P(0, k2)
      BY <2>3 DEF Same
    <2>5. \A i \in 1..n : vt1[i].par \in All /\ x.cont[vt1[i].par].fn \in Timed /\ vt1[i].par # x.cur
      <3> SUFFICES ASSUME NEW i \in 1..n
                   PROVE  vt1[i].par \in All /\ x.cont[vt1[i].par].fn \in Timed /\ vt1[i].par # x.cur
        OBVIOUS
      <3>1. i \in 1..Len(x.vt) /\ vt1[i].par = x.vt[i].par
        BY <2>2, <1>2, TimerFacts
      <3>2. x.vt[i].par \in All /\ x.cont[x.vt[i].par].fn \in Timed
        BY <1>2, <3>1, TimerFacts
      <3>3. NoCont.fn \notin Timed
        BY NoContFacts DEF Timed
      <3> QED BY <3>1, <3>2, <3>3
    <2>6. \A i \in 1..n : \A a : P(i - 1, a) => P(i, g(a, i))
      <3> SUFFICES ASSUME NEW i \in 1..n, NEW a, Good(a), Same(k2, a)
                   PROVE  Good(wakeup(a, vt1[i].par)) /\ Same(k2, wakeup(a, vt1[i].par))
        OBVIOUS
      <3>1. a.cont = x.cont /\ a.cur = x.cur
        BY <2>3 DEF Same
      <3>2. Good(wakeup(a, vt1[i].par)) /\ Same(a, wakeup(a, vt1[i].par))
        BY <2>5, <3>1, WakeupGood
      <3> QED BY <3>2 DEF Same
    <2>7. FoldKeeps(k2, n, g, P)
      <3> HIDE DEF g, P
      <3> QED BY <2>2, FoldKept
    <2>8. P(n, Fold(k2, n, g)[n])
      <3> HIDE DEF g, P
      <3> QED BY <2>4, <2>6, <2>7 DEF FoldKeeps
    <2> QED BY <1>1, <1>6, <2>8
  <1> QED BY <1>5, <1>6

LEMMA TimerHandlerGood ==
  ASSUME NEW x, Good(x), x.cont[x.cur] = NoCont
  PROVE  Good(chSysTimerHandlerI(x))
  <1> DEFINE c == x.cur
             y == [x EXCEPT !.preempt[c] = IF @ > 0 THEN @ - 1 ELSE 0]
  <1>1. /\ DOMAIN x = Fields /\ DOMAIN x.prio = All /\ DOMAIN x.preempt = All /\ x.systime \in Times
        /\ x.prio[Idle] = IDLEPRIO /\ c \in All /\ \A t \in All : x.preempt[t] \in 0..CH_TIME_QUANTUM
    BY CoreShape DEF IDLEPRIO, Good
  <1>2. /\ Keeps(x, y, Inert \ {"cur", "st"}) /\ y.systime = x.systime /\ y.prio = x.prio
        /\ y.preempt = [x.preempt EXCEPT ![c] = IF @ > 0 THEN @ - 1 ELSE 0]
        /\ y.cont = x.cont /\ y.cur = x.cur
    BY <1>1 DEF Keeps, Fields, Inert
  <1>3. chSysTimerHandlerI(x) = chVTDoTickI(y)
    BY DEF chSysTimerHandlerI
  <1> HIDE DEF y
  <1>4. DOMAIN y.preempt = All /\ \A t \in All : y.preempt[t] \in 0..CH_TIME_QUANTUM
    BY <1>1, <1>2, SchedAssumption
  <1>5. Good(y)
    BY <1>1, <1>2, <1>4, GoodFrame
  <1> QED BY <1>2, <1>3, <1>5, DoTickGood

-----------------------------------------------------------------------------
(***************************************************************************)
(* Mutexes.                                                                *)
(***************************************************************************)

LEMMA DoingIf ==
  ASSUME NEW x, NEW v, NEW s0, Doing(x, v, s0), NEW y, Core(y, v), y.st = x.st, y.cur = x.cur
  PROVE  Doing(y, v, s0)
  BY DEF Doing

Inheriting == {"prio", "q", "ready", "st"}

\* One turn of the priority inheritance.
LEMMA InheritGood ==
  ASSUME NEW x, NEW v, NEW s0, Doing(x, v, s0), NEW tp \in Threads, NEW p
  PROVE  /\ Doing(Inherit(x, tp, p)[1], v, s0) /\ Keeps(x, Inherit(x, tp, p)[1], Inheriting)
         /\ Inherit(x, tp, p)[2] \in Threads \cup {NoThread}
  <1> DEFINE k1 == [x EXCEPT !.prio[tp] = p]
             o == WaitObj(x, tp)
             requeued == [k1 EXCEPT !.q[o] = prio_insert(dequeue(@, tp), tp, k1.prio)]
             z == [k1 EXCEPT !.ready = dequeue(@, tp)]
  <1>1. Core(x, v) /\ x.st \in [All -> States] /\ x.cur \in All /\ tp \in All /\ tp # Idle
        /\ v = [x.st EXCEPT ![x.cur] = s0] /\ s0 \in {"CURRENT", "SUSPENDED"}
        /\ x.st[x.cur] = "CURRENT"
    BY CoreShape, SchedAssumption DEF Doing, All
  <1>2. DOMAIN x = Fields /\ DOMAIN x.prio = All /\ DOMAIN x.st = All /\ DOMAIN x.preempt = All
        /\ x.prio[Idle] = IDLEPRIO /\ x.systime \in Times
        /\ \A t \in All : x.preempt[t] \in 0..CH_TIME_QUANTUM
    BY <1>1, CoreShape DEF IDLEPRIO
  <1>3. /\ Keeps(x, k1, Inert) /\ k1.prio = [x.prio EXCEPT ![tp] = p] /\ k1.st = x.st /\ k1.cur = x.cur
        /\ k1.preempt = x.preempt /\ k1.systime = x.systime /\ k1.q = x.q /\ k1.u = x.u
        /\ k1.ready = x.ready
        /\ Keeps(x, k1, Inheriting)
    BY <1>2 DEF Keeps, Fields, Inert, Inheriting
  <1>4. DOMAIN k1.prio = All /\ k1.prio[Idle] = IDLEPRIO
    BY <1>1, <1>2, <1>3
  <1> HIDE DEF k1
  <1>5. Core(k1, v)
    BY <1>1, <1>2, <1>3, <1>4, CoreFrame
  <1>6. Doing(k1, v, s0)
    BY <1>3, <1>5, DoingIf
  <1>7. x.owner \in [AllMutexes -> Threads \cup {NoThread}]
    BY <1>1 DEF Core
  <1>8. x.st[tp] # "CURRENT" => v[tp] = x.st[tp]
    BY <1>1
  <1>9. ASSUME x.st[tp] \in {"WTMTX", "WTCOND"}
        PROVE  /\ Doing(requeued, v, s0) /\ Keeps(x, requeued, Inheriting)
               /\ x.st[tp] = "WTMTX" => x.owner[o] \in Threads \cup {NoThread}
    <2>1. v[tp] = x.st[tp] /\ v[tp] \in Queued
      BY <1>8, <1>9 DEF Queued
    <2>2. Kind(v[tp], x.u[tp], x.cont[tp])
      BY <1>1 DEF Core, Locals, Local
    <2>3. o = x.u[tp][2] /\ o \in AllMutexes \cup Conds /\ (x.st[tp] = "WTMTX" => o \in AllMutexes)
      BY <1>9, <2>1, <2>2 DEF WaitObj, Kind
    <2>4. o \in WaitQueues /\ tp \in Waiters(x, v, o)
      BY <1>1, <2>1, <2>3 DEF Waiters, WaitQueues
    <2>5. Waiters(k1, v, o) = Waiters(x, v, o) /\ Exactly(k1.q[o], Waiters(k1, v, o))
          /\ DOMAIN k1.q = WaitQueues /\ DOMAIN k1 = Fields
      <3>1. Waiters(k1, v, o) = Waiters(x, v, o)
        BY <1>3 DEF Waiters
      <3> QED BY <3>1, <1>5, <2>4, CoreShape DEF Core, Queues
    <2> DEFINE r == prio_insert(dequeue(k1.q[o], tp), tp, k1.prio)
    <2>6. Exactly(r, Waiters(k1, v, o))
      <3>1. Exactly(dequeue(k1.q[o], tp), Waiters(k1, v, o) \ {tp})
        BY <2>4, <2>5, ExactDequeue
      <3>2. Exactly(r, (Waiters(k1, v, o) \ {tp}) \cup {tp})
        BY <1>1, <3>1, ExactPrio
      <3> QED BY <3>2, <2>4, <2>5, Zenon
    <2>7. requeued = [k1 EXCEPT !.q[o] = r]
      OBVIOUS
    <2> HIDE DEF r, o
    <2>8. Keeps(k1, requeued, {"q"}) /\ Upd(k1.q, requeued.q, o, r)
          /\ requeued.st = k1.st /\ requeued.cur = k1.cur
      BY <2>5, <2>7 DEF Keeps, Fields, Upd
    <2> HIDE DEF requeued
    <2>9. Core(requeued, v)
      BY <1>5, <2>3, <2>6, <2>8, CoreRequeue
    <2>10. Doing(requeued, v, s0)
      BY <1>6, <2>8, <2>9, DoingIf
    <2>11. Keeps(x, requeued, Inheriting)
      BY <1>3, <2>8 DEF Keeps, Inheriting
    <2> QED BY <2>3, <2>10, <2>11, <1>7
  <1>10. ASSUME x.st[tp] = "READY"
         PROVE  Doing(chSchReadyI(z, tp), v, s0) /\ Keeps(x, chSchReadyI(z, tp), Inheriting)
    <2> DEFINE w == [v EXCEPT ![tp] = "CURRENT"]
               y == chSchReadyI(z, tp)
    <2>1. v[tp] = "READY" /\ Exactly(k1.ready, AreReady(v)) /\ v \in [All -> States] /\ DOMAIN k1 = Fields
      BY <1>5, <1>8, <1>10, CoreShape
    <2>2. tp \in AreReady(v) /\ AreReady(w) = AreReady(v) \ {tp} /\ w[tp] = "CURRENT"
          /\ w = [v EXCEPT ![tp] = "CURRENT"] /\ [w EXCEPT ![tp] = "READY"] = v
      BY <1>1, <2>1 DEF AreReady
    <2>3. Keeps(k1, z, {"ready", "st"}) /\ z.st = k1.st /\ z.ready = dequeue(k1.ready, tp) /\ z.cur = k1.cur
      BY <2>1 DEF Keeps, Fields
    <2> HIDE DEF w, z
    <2>4. Exactly(z.ready, AreReady(w))
      BY <2>1, <2>2, <2>3, ExactDequeue
    <2>5. Core(z, w)
      <3>1. DOMAIN z.st = All
        BY <2>3, <1>2, <1>3
      <3>2. "CURRENT" \in Running /\ v[tp] \in Running
        BY <2>1 DEF Running
      <3> QED BY ONLY <1>1, <1>5, <2>2, <2>3, <2>4, <3>1, <3>2, CoreState
    <2>6. /\ Core(y, v) /\ Keeps(z, y, {"st", "ready"}) /\ y.st = [z.st EXCEPT ![tp] = "READY"]
      BY <1>1, <2>2, <2>5, ReadyI
    <2> HIDE DEF y
    <2>7. y.st = x.st /\ y.cur = x.cur
      BY <1>1, <1>3, <1>10, <2>3, <2>6 DEF Keeps, Fields
    <2>8. Keeps(x, y, Inheriting)
      BY <1>3, <2>3, <2>6 DEF Keeps, Inheriting
    <2> QED BY <2>6, <2>7, <2>8, DoingIf DEF y
  <1>11. Inherit(x, tp, p) = CASE x.st[tp] = "WTMTX" -> <<requeued, x.owner[o]>>
                               [] x.st[tp] = "WTCOND" -> <<requeued, NoThread>>
                               [] x.st[tp] = "READY" -> <<chSchReadyI(z, tp), NoThread>>
                               [] OTHER -> <<k1, NoThread>>
    BY DEF Inherit, k1
  <1> HIDE DEF requeued, z, o
  <1> QED BY <1>3, <1>6, <1>9, <1>10, <1>11

\* The whole loop.
LEMMA InheritAllGood ==
  ASSUME NEW x, NEW v, NEW s0, Doing(x, v, s0), NEW tp \in Threads \cup {NoThread}, NEW p
  PROVE  Doing(InheritAll(x, tp, p), v, s0) /\ Keeps(x, InheritAll(x, tp, p), Inheriting)
  <1> DEFINE N == Cardinality(All)
             g(a, i) == IF a[2] = NoThread THEN a
                        ELSE IF a[1].prio[a[2]] >= p THEN <<a[1], NoThread>>
                        ELSE Inherit(a[1], a[2], p)
             P(i, a) == /\ Doing(a[1], v, s0) /\ Keeps(x, a[1], Inheriting)
                        /\ a[2] \in Threads \cup {NoThread}
  <1>1. N \in Nat
    BY NamesAssumption, FS_AddElement, FS_CardinalityType DEF All
  <1>2. InheritAll(x, tp, p) = Fold(<<x, tp>>, N, g)[N][1]
    BY DEF InheritAll, Fold
  <1>3. P(0, <<x, tp>>)
    <2>1. DOMAIN x = Fields
      BY CoreShape DEF Doing
    <2> QED BY <2>1 DEF Keeps
  <1>4. \A i \in 1..N : \A a : P(i - 1, a) => P(i, g(a, i))
    <2> SUFFICES ASSUME NEW i \in 1..N, NEW a, P(i - 1, a) PROVE P(i, g(a, i))
      OBVIOUS
    <2>1. CASE a[2] = NoThread
      BY <2>1
    <2>2. CASE a[2] # NoThread /\ a[1].prio[a[2]] >= p
      BY <2>2
    <2>3. CASE a[2] # NoThread /\ ~ (a[1].prio[a[2]] >= p)
      <3>1. a[2] \in Threads
        BY <2>3
      <3>2. /\ Doing(Inherit(a[1], a[2], p)[1], v, s0)
            /\ Keeps(a[1], Inherit(a[1], a[2], p)[1], Inheriting)
            /\ Inherit(a[1], a[2], p)[2] \in Threads \cup {NoThread}
        BY <3>1, InheritGood
      <3>3. Keeps(x, Inherit(a[1], a[2], p)[1], Inheriting)
        BY <3>2 DEF Keeps
      <3> QED BY <2>3, <3>2, <3>3
    <2> QED BY <2>1, <2>2, <2>3
  <1> HIDE DEF g, P, N
  <1>5. FoldKeeps(<<x, tp>>, N, g, P)
    BY <1>1, FoldKept
  <1>6. P(N, Fold(<<x, tp>>, N, g)[N])
    BY <1>3, <1>4, <1>5 DEF FoldKeeps
  <1> QED BY <1>2, <1>6 DEF P

\* The running thread becomes the owner of a mutex.
LEMMA OwnGood ==
  ASSUME NEW x, NEW v, NEW s0, Doing(x, v, s0), NEW c, c = x.cur, c # Idle, NEW m \in AllMutexes
  PROVE  /\ Doing(Own(x, m, c), v, s0) /\ Keeps(x, Own(x, m, c), {"owner", "mtxlist"})
         /\ Own(x, m, c).mtxlist[c] # <<>>
  <1> DEFINE y == Own(x, m, c)
  <1>1. /\ c \in All /\ DOMAIN x = Fields /\ Core(x, v)
        /\ Local(s0, x.u[c], x.cont[c], x.q[c], x.waiting[c], x.epending[c], x.mtxlist[c],
                 x.more[c], x.preempt[c])
    BY DoingShape
  <1>2. DOMAIN x.cont = All /\ DOMAIN x.more = All /\ DOMAIN x.mtxlist = All /\ DOMAIN x.epending = All
    BY <1>1, CoreShape
  <1>3. Reserved(x.more, v) /\ x.owner \in [AllMutexes -> Threads \cup {NoThread}] /\ c \in Threads
    BY <1>1 DEF Core, All
  <1>4. /\ Keeps(x, y, {"owner", "mtxlist"}) /\ y.owner = [x.owner EXCEPT ![m] = c]
        /\ y.mtxlist = [x.mtxlist EXCEPT ![c] = <<m>> \o x.mtxlist[c]]
    BY <1>1 DEF Own, Keeps, Fields
  <1>5. y.cont = x.cont /\ y.more = x.more /\ y.epending = x.epending
        /\ Keeps(x, y, {"cont", "more", "mtxlist", "owner", "epending"})
    BY <1>4 DEF Keeps, Fields
  <1>6. DOMAIN y.mtxlist = All /\ (\A p \in All : p # c => y.mtxlist[p] = x.mtxlist[p])
        /\ y.mtxlist[c] = <<m>> \o x.mtxlist[c] /\ y.owner \in [AllMutexes -> Threads \cup {NoThread}]
    BY <1>1, <1>2, <1>3, <1>4
  <1>7. x.mtxlist[c] \in Seq(AllMutexes)
    BY <1>1 DEF Local
  <1>8. <<m>> \o x.mtxlist[c] \in Seq(AllMutexes) /\ <<m>> \o x.mtxlist[c] # <<>>
    <2>1. <<m>> \in Seq(AllMutexes) /\ Len(<<m>>) = 1
      OBVIOUS
    <2>2. <<m>> \o x.mtxlist[c] \in Seq(AllMutexes) /\ Len(<<m>> \o x.mtxlist[c]) = 1 + Len(x.mtxlist[c])
          /\ Len(x.mtxlist[c]) \in Nat
      BY <1>7, <2>1, Joined
    <2> QED BY <2>2, Member
  <1> HIDE DEF y
  <1>9. Local(s0, x.u[c], x.cont[c], x.q[c], x.waiting[c], x.epending[c], y.mtxlist[c],
                 x.more[c], x.preempt[c])
    BY <1>1, <1>6, <1>8 DEF Local
  <1>10. Claims(x.more[c], x.more, v, c)
    BY <1>1, <1>3, ClaimsKept
  <1>11. Doing(y, v, s0)
    BY <1>2, <1>5, <1>6, <1>9, <1>10, DoingLocal
  <1> QED BY <1>4, <1>6, <1>8, <1>11 DEF y

\* The counters do not look at the queues of other objects.
LEMMA CountersApart ==
  ASSUME NEW cnt, NEW q, Counters(cnt, q), NEW o, o \notin AllSems, NEW r, NEW q1, Upd(q, q1, o, r)
  PROVE  Counters(cnt, q1)
  BY DEF Counters, Upd

LEMMA LockGood ==
  ASSUME NEW x, NEW v, NEW s0, Doing(x, v, s0), x.cur # Idle, Unarmed(x, x.cur),
         x.cont[x.cur] = NoCont, NEW m \in AllMutexes
  PROVE  Good(chMtxLockS(x, m))
  <1> DEFINE c == x.cur
             k1 == InheritAll(x, x.owner[m], x.prio[c])
             k2 == [k1 EXCEPT !.q[m] = prio_insert(@, c, k1.prio), !.u[c] = Obj(m)]
  <1>1. CASE x.owner[m] = NoThread
    <2>1. chMtxLockS(x, m) = Own(x, m, c)
      BY <1>1 DEF chMtxLockS
    <2>2. /\ Doing(Own(x, m, c), v, s0) /\ Keeps(x, Own(x, m, c), {"owner", "mtxlist"})
          /\ Own(x, m, c).mtxlist[c] # <<>>
      BY OwnGood
    <2> DEFINE y == Own(x, m, c)
    <2> HIDE DEF y
    <2>3. Doing(y, v, s0) /\ y.mtxlist[c] # <<>> /\ y.cont = x.cont /\ y.cur = x.cur
      BY <2>2 DEF Keeps, Fields, y
    <2>4. s0 \in {"CURRENT", "SUSPENDED"}
      BY DEF Doing
    <2>5. Good(y)
      BY <2>3, <2>4, DoingIsGood, Unsuspend
    <2> QED BY <2>1, <2>5 DEF y
  <1>2. CASE x.owner[m] # NoThread
    <2>1. chMtxLockS(x, m) = chSchGoSleepS(k2, "WTMTX", [fn |-> "mtx"])
      BY <1>2 DEF chMtxLockS
    <2>2. x.owner[m] \in Threads \cup {NoThread}
      BY DEF Doing, Core
    <2>3. Doing(k1, v, s0) /\ Keeps(x, k1, Inheriting)
      BY <2>2, InheritAllGood
    <2> HIDE DEF k1
    <2>4. k1.cur = c /\ k1.vt = x.vt /\ Unarmed(k1, c) /\ k1.more = x.more /\ k1.mtxlist = x.mtxlist
      BY <2>3 DEF Keeps, Fields, Inheriting, Unarmed
    <2>5. m \in Objects /\ m \in WaitQueues /\ m \notin AllSems
      BY NamesAssumption DEF Objects, WaitQueues
    <2> DEFINE r == prio_insert(k1.q[m], c, k1.prio)
    <2>6. /\ c \in All /\ Exactly(k1.q[m], Waiters(k1, v, m)) /\ c \notin Waiters(k1, v, m)
          /\ DOMAIN k1 = Fields /\ DOMAIN k1.cnt = AllSems /\ Counters(k1.cnt, k1.q)
      <3> HIDE DEF c
      <3> QED BY ONLY <2>3, <2>4, <2>5, DoingShape
    <2>7. Exactly(r, Waiters(k1, v, m) \cup {c})
      <3> HIDE DEF c
      <3> QED BY <2>6, ExactPrio
    <2>8. /\ Keeps(k1, k2, {"u", "q", "cnt"}) /\ Upd(k1.u, k2.u, c, Obj(m)) /\ Upd(k1.q, k2.q, m, r)
          /\ k2.cnt = k1.cnt
      <3> HIDE DEF c
      <3> QED BY <2>6 DEF Keeps, Fields, Upd
    <2> HIDE DEF k2, r
    <2>9. Counters(k2.cnt, k2.q)
      BY <2>5, <2>6, <2>8, CountersApart
    <2> DEFINE cont == [fn |-> "mtx"]
    <2>10. Kind("WTMTX", Obj(m), cont) /\ ContOK(cont) /\ Sleeps(cont.fn, "WTMTX")
      BY DEF Kind, ContOK, Sleeps, Obj
    <2> HIDE DEF cont
    <2>11. TIME_INFINITE \in 1..(TimeMod - 1)
      BY SleepForever
    <2>12. Going(k1, v, s0, c, m, r, k2, "WTMTX", cont, TIME_INFINITE)
      BY <2>3, <2>4, <2>5, <2>6, <2>7, <2>8, <2>9, <2>10, <2>11 DEF Going
    <2>13. Good(chSchGoSleepTimeoutS(k2, "WTMTX", TIME_INFINITE, cont))
      BY <2>12, SleepOn
    <2> QED BY <2>1, <2>13, SleepForever DEF cont
  <1> QED BY <1>1, <1>2

LEMMA TryLockGood ==
  ASSUME NEW x, Calling(x), NEW m \in AllMutexes
  PROVE  Good(chMtxTryLockS(x, m))
  <1>1. Doing(x, x.st, "CURRENT") /\ x.cur # Idle /\ Good(x)
    BY CallingFacts
  <1>2. Doing(Own(x, m, x.cur), x.st, "CURRENT")
    BY <1>1, OwnGood
  <1> QED BY <1>1, <1>2, DoingIsGood DEF chMtxTryLockS

\* The first waiter of a mutex gets it and leaves the queue.
LEMMA GiveGood ==
  ASSUME NEW x, Good(x), NEW m \in AllMutexes, x.q[m] # <<>>, NEW t, t = Head(x.q[m]),
         NEW z, z = Own([x EXCEPT !.q[m] = Tail(@)], m, t)
  PROVE  Waking(z, t) /\ Same(x, z)
  <1> DEFINE y == Own(x, m, t)
  <1>1. m \in Objects /\ m \in WaitQueues /\ m \notin AllSems
    BY NamesAssumption DEF Objects, WaitQueues
  <1>2. Core(x, x.st) /\ x.st \in [All -> States]
    BY GoodShape
  <1>3. t \in Waiters(x, x.st, m)
    <2>1. Exactly(x.q[m], Waiters(x, x.st, m))
      BY <1>1, <1>2 DEF Core, Queues
    <2> QED BY <2>1, ExactTail
  <1>4. t \in All /\ x.st[t] = "WTMTX" /\ x.u[t][2] = m
    BY <1>1, <1>2, <1>3, WaiterKind
  <1>5. t \in Threads /\ t # Idle
    <2>1. x.st[Idle] \in Running
      BY <1>2, CoreShape
    <2> QED BY <2>1, <1>4 DEF Running, All
  <1>6. DOMAIN x = Fields /\ DOMAIN x.cont = All /\ DOMAIN x.more = All /\ DOMAIN x.mtxlist = All
        /\ DOMAIN x.epending = All /\ DOMAIN x.u = All /\ DOMAIN x.q = WaitQueues
    BY <1>2, CoreShape
  <1>7. /\ Keeps(x, y, {"owner", "mtxlist"}) /\ y.owner = [x.owner EXCEPT ![m] = t]
        /\ y.mtxlist = [x.mtxlist EXCEPT ![t] = <<m>> \o x.mtxlist[t]]
    BY <1>6 DEF Own, Keeps, Fields
  <1>8. Keeps(y, z, {"q", "cnt"}) /\ Upd(y.q, z.q, m, Tail(y.q[m])) /\ z.cnt = y.cnt
    BY <1>6 DEF Own, Keeps, Fields, Upd
  <1> HIDE DEF y
  <1>9. Local(x.st[t], x.u[t], x.cont[t], x.q[t], x.waiting[t], x.epending[t], x.mtxlist[t],
                 x.more[t], x.preempt[t])
    BY <1>2, <1>4 DEF Core, Locals
  <1>10. <<m>> \o x.mtxlist[t] \in Seq(AllMutexes) /\ <<m>> \o x.mtxlist[t] # <<>>
    <2>1. <<m>> \in Seq(AllMutexes) /\ Len(<<m>>) = 1
      OBVIOUS
    <2>2. x.mtxlist[t] \in Seq(AllMutexes)
      BY <1>9 DEF Local
    <2>3. <<m>> \o x.mtxlist[t] \in Seq(AllMutexes) /\ Len(<<m>> \o x.mtxlist[t]) = 1 + Len(x.mtxlist[t])
          /\ Len(x.mtxlist[t]) \in Nat
      BY <2>2, <2>1, Joined
    <2> QED BY <2>3, Member
  <1>11. y.mtxlist[t] = <<m>> \o x.mtxlist[t] /\ DOMAIN y.mtxlist = All
         /\ \A p \in All : p # t => y.mtxlist[p] = x.mtxlist[p]
    BY <1>4, <1>6, <1>7
  <1>12. Local(x.st[t], x.u[t], x.cont[t], x.q[t], x.waiting[t], x.epending[t], y.mtxlist[t],
                 x.more[t], x.preempt[t])
    BY <1>9, <1>10, <1>11 DEF Local
  <1>13. Timers(x.vt, x.due, x.cont) /\ Reserved(x.more, x.st)
         /\ x.owner \in [AllMutexes -> Threads \cup {NoThread}]
    BY <1>2 DEF Core
  <1>14. y.owner \in [AllMutexes -> Threads \cup {NoThread}]
    BY <1>5, <1>7, <1>13
  <1>15. /\ Keeps(x, y, {"u", "cont", "mtxlist", "owner", "more", "epending", "vt", "due"})
         /\ y.u = x.u /\ y.cont = x.cont /\ y.more = x.more /\ y.epending = x.epending
         /\ y.vt = x.vt /\ y.due = x.due /\ y.st = x.st /\ y.cur = x.cur /\ y.q = x.q
    BY <1>7 DEF Keeps, Fields
  <1>16. Core(y, x.st)
    BY <1>2, <1>4, <1>5, <1>6, <1>11, <1>12, <1>13, <1>14, <1>15, CoreLocal
  <1>17. Good(y)
    BY <1>15, <1>16, GoodIf
  <1>18. Waking(z, t) /\ Same(y, z)
    BY <1>1, <1>8, <1>10, <1>11, <1>15, <1>17, TakeFirst
  <1>19. Same(x, y)
    BY <1>7 DEF Same, Keeps, Fields
  <1> QED BY <1>18, <1>19 DEF Same

\* The running thread has one mutex less.
LEMMA DropGood ==
  ASSUME NEW x, InCall(x), x.more[x.cur].fn \notin {"alloc", "free"}, NEW ms \in Seq(AllMutexes),
         NEW y, Keeps(x, y, {"mtxlist", "owner"}), Upd(x.mtxlist, y.mtxlist, x.cur, ms),
         y.owner \in [AllMutexes -> Threads \cup {NoThread}]
  PROVE  Good(y) /\ Same(x, y)
  <1> DEFINE c == x.cur
  <1>1. /\ c \in All /\ c # Idle /\ Doing(x, x.st, "CURRENT")
        /\ DOMAIN x.cont = All /\ DOMAIN x.more = All /\ DOMAIN x.mtxlist = All /\ DOMAIN x.epending = All
        /\ Local("CURRENT", x.u[c], x.cont[c], x.q[c], x.waiting[c], x.epending[c], x.mtxlist[c],
                 x.more[c], x.preempt[c])
        /\ Reserved(x.more, x.st)
    BY InCallFacts
  <1>2. y.cont = x.cont /\ y.more = x.more /\ y.epending = x.epending
        /\ Keeps(x, y, {"cont", "more", "mtxlist", "owner", "epending"}) /\ Same(x, y)
    BY DEF Keeps, Fields, Same
  <1>3. DOMAIN y.mtxlist = All /\ y.mtxlist[c] = ms
        /\ \A p \in All : p # c => y.mtxlist[p] = x.mtxlist[p]
    BY <1>1 DEF Upd
  <1>4. Local("CURRENT", x.u[c], x.cont[c], x.q[c], x.waiting[c], x.epending[c], ms,
                 x.more[c], x.preempt[c])
    BY <1>1 DEF Local
  <1>5. Claims(x.more[c], x.more, x.st, c)
    BY <1>1, ClaimsKept
  <1>6. Doing(y, x.st, "CURRENT")
    BY <1>1, <1>2, <1>3, <1>4, <1>5, DoingLocal
  <1> QED BY <1>2, <1>6, DoingIsGood

LEMMA HandOverGood ==
  ASSUME NEW x, InCall(x), x.more[x.cur].fn \notin {"alloc", "free"}, x.mtxlist[x.cur] # <<>>
  PROVE  Good(chMtxUnlock(x)) /\ Good(chMtxUnlockS(x)) /\ Same(x, chMtxUnlockS(x))
  <1> DEFINE c == x.cur
             m == Head(x.mtxlist[c])
             k1 == [x EXCEPT !.mtxlist[c] = Tail(@)]
             t == Head(x.q[m])
             p == PrioOwning(x, {k1.mtxlist[c][i] : i \in DOMAIN k1.mtxlist[c]})
             k2 == [k1 EXCEPT !.prio[c] = p]
             k3 == Own([k2 EXCEPT !.q[m] = Tail(@)], m, t)
             k4 == [k1 EXCEPT !.owner[m] = NoThread]
  <1>1. /\ DOMAIN x = Fields /\ x.mtxlist[c] \in Seq(AllMutexes) /\ DOMAIN x.mtxlist = All /\ c \in All
        /\ x.owner \in [AllMutexes -> Threads \cup {NoThread}] /\ Core(x, x.st) /\ c # Idle
    BY InCallFacts
  <1>2. m \in AllMutexes /\ Tail(x.mtxlist[c]) \in Seq(AllMutexes)
    BY <1>1
  <1>3. /\ chMtxUnlock(x) = IF x.q[m] = <<>> THEN k4 ELSE chSchWakeupS(k3, t, "RDY_OK")
        /\ chMtxUnlockS(x) = IF x.q[m] = <<>> THEN k4 ELSE chSchReadyI(k3, t)
    BY DEF chMtxUnlock, chMtxUnlockS, HandOver
  <1> HIDE DEF m, p
  <1>4. CASE x.q[m] = <<>>
    <2>1. /\ Keeps(x, k4, {"mtxlist", "owner"}) /\ Upd(x.mtxlist, k4.mtxlist, c, Tail(x.mtxlist[c]))
          /\ k4.owner = [x.owner EXCEPT ![m] = NoThread]
      BY <1>1 DEF Keeps, Fields, Upd
    <2>2. k4.owner \in [AllMutexes -> Threads \cup {NoThread}]
      BY <1>1, <1>2, <2>1
    <2> HIDE DEF k4
    <2>3. Good(k4) /\ Same(x, k4)
      BY <1>2, <2>1, <2>2, DropGood
    <2> QED BY <1>3, <1>4, <2>3
  <1>5. CASE x.q[m] # <<>>
    <2>1. /\ Keeps(x, k1, {"mtxlist", "owner"}) /\ Upd(x.mtxlist, k1.mtxlist, c, Tail(x.mtxlist[c]))
          /\ k1.owner = x.owner /\ k1.q = x.q
      BY <1>1 DEF Keeps, Fields, Upd
    <2> HIDE DEF k1
    <2>2. Good(k1) /\ Same(x, k1)
      BY <1>1, <1>2, <2>1, DropGood
    <2>3. DOMAIN k1 = Fields /\ DOMAIN k1.prio = All /\ k1.prio[Idle] = IDLEPRIO
          /\ DOMAIN k1.preempt = All /\ k1.systime \in Times
          /\ \A a \in All : k1.preempt[a] \in 0..CH_TIME_QUANTUM
      BY <2>2, GoodShape, CoreShape DEF IDLEPRIO
    <2>4. Keeps(k1, k2, Inert \ {"cur", "st"}) /\ k2.prio = [k1.prio EXCEPT ![c] = p] /\ k2.q = k1.q
          /\ k2.preempt = k1.preempt /\ k2.systime = k1.systime
      <3> HIDE DEF c
      <3> QED BY <2>3 DEF Keeps, Fields, Inert
    <2> HIDE DEF k2
    <2>5. Good(k2) /\ Same(k1, k2)
      <3>1. DOMAIN k2.prio = All /\ k2.prio[Idle] = IDLEPRIO
        BY <1>1, <2>3, <2>4
      <3> QED BY <2>2, <2>3, <2>4, <3>1, GoodFrame
    <2>6. Waking(k3, t) /\ Same(k2, k3)
      BY <1>2, <1>5, <2>1, <2>4, <2>5, GiveGood
    <2> HIDE DEF k3
    <2>7. Good(chSchWakeupS(k3, t, "RDY_OK")) /\ Good(chSchReadyI(k3, t)) /\ Same(k3, chSchReadyI(k3, t))
      BY <2>6, WakeReady, WakeupS
    <2>8. Same(x, chSchReadyI(k3, t))
      BY <2>2, <2>5, <2>6, <2>7 DEF Same
    <2> QED BY <1>3, <1>5, <2>7, <2>8
  <1> QED BY <1>4, <1>5

\* A mutex is given to its first waiter, or to nobody.
Release(s, m) ==
    IF s.q[m] = <<>> THEN [s EXCEPT !.owner[m] = NoThread]
    ELSE chSchReadyI(Own([s EXCEPT !.q[m] = Tail(@)], m, Head(s.q[m])), Head(s.q[m]))

LEMMA ReleaseGood ==
  ASSUME NEW x, Good(x), NEW m \in AllMutexes
  PROVE  Good(Release(x, m)) /\ Same(x, Release(x, m))
  <1>1. CASE x.q[m] = <<>>
    <2> DEFINE y == [x EXCEPT !.owner[m] = NoThread]
    <2>1. /\ Core(x, x.st) /\ DOMAIN x = Fields /\ DOMAIN x.cont = All /\ DOMAIN x.more = All /\ DOMAIN x.mtxlist = All
          /\ DOMAIN x.epending = All /\ DOMAIN x.u = All
      BY GoodShape, CoreShape
    <2>2. Timers(x.vt, x.due, x.cont) /\ Reserved(x.more, x.st) /\ Locals(x, x.st)
          /\ x.owner \in [AllMutexes -> Threads \cup {NoThread}]
          /\ x.cont[Idle] = NoCont /\ x.more[Idle] = NoCont
      BY <2>1 DEF Core, IdleOK
    <2>3. /\ Keeps(x, y, {"u", "cont", "mtxlist", "owner", "more", "epending", "vt", "due"})
          /\ y.u = x.u /\ y.cont = x.cont /\ y.more = x.more /\ y.epending = x.epending
          /\ y.mtxlist = x.mtxlist
          /\ y.vt = x.vt /\ y.due = x.due /\ y.st = x.st /\ y.cur = x.cur /\ Same(x, y)
          /\ y.owner = [x.owner EXCEPT ![m] = NoThread]
      BY <2>1 DEF Keeps, Fields, Same
    <2>4. y.owner \in [AllMutexes -> Threads \cup {NoThread}]
      BY <2>2, <2>3
    <2> HIDE DEF y
    <2>5. x.cur \in All
      BY GoodShape
    <2>6. Local(x.st[x.cur], x.u[x.cur], x.cont[x.cur], x.q[x.cur], x.waiting[x.cur], x.epending[x.cur],
                x.mtxlist[x.cur], x.more[x.cur], x.preempt[x.cur])
      BY <2>2, <2>5 DEF Locals
    <2>7. Core(y, x.st)
      BY <2>1, <2>2, <2>3, <2>4, <2>5, <2>6, CoreLocal
    <2>8. Good(y)
      BY <2>3, <2>7, GoodIf
    <2> QED BY <1>1, <2>3, <2>8 DEF Release, y
  <1>2. CASE x.q[m] # <<>>
    <2> DEFINE t == Head(x.q[m])
               z == Own([x EXCEPT !.q[m] = Tail(@)], m, t)
    <2>1. Waking(z, t) /\ Same(x, z)
      BY <1>2, GiveGood
    <2>2. Release(x, m) = chSchReadyI(z, t)
      BY <1>2 DEF Release
    <2> HIDE DEF z, t
    <2>3. Good(chSchReadyI(z, t)) /\ Same(z, chSchReadyI(z, t))
      BY <2>1, WakeReady
    <2> QED BY <2>1, <2>2, <2>3 DEF Same
  <1> QED BY <1>1, <1>2

LEMMA UnlockAllGood ==
  ASSUME NEW x, Calling(x)
  PROVE  Good(chMtxUnlockAll(x))
  <1> DEFINE c == x.cur
             ms == x.mtxlist[c]
             N == Len(ms)
             x0 == [x EXCEPT !.mtxlist[c] = <<>>]
             g(a, i) == Release(a, ms[i])
             P(i, a) == Good(a) /\ Same(x0, a)
             y == Fold(x0, N, g)[N]
             z == [y EXCEPT !.prio[c] = x.rprio[c]]
  <1>1. Good(x) /\ InCall(x) /\ x.more[c].fn = "none" /\ c \in All /\ c # Idle
    BY CallingFacts, CallingIn
  <1>2. DOMAIN x = Fields /\ ms \in Seq(AllMutexes)
        /\ x.owner \in [AllMutexes -> Threads \cup {NoThread}]
    BY <1>1, InCallFacts
  <1>3. N \in Nat /\ \A i \in 1..N : ms[i] \in AllMutexes
    BY <1>2, Member
  <1>4. chMtxUnlockAll(x) = IF ms = <<>> THEN x ELSE chSchRescheduleS(z)
    BY DEF chMtxUnlockAll, Fold, Release
  <1>5. P(0, x0)
    <2>1. Keeps(x, x0, {"mtxlist", "owner"}) /\ Upd(x.mtxlist, x0.mtxlist, c, <<>>) /\ x0.owner = x.owner
      BY <1>2 DEF Keeps, Fields, Upd
    <2>2. <<>> \in Seq(AllMutexes)
      OBVIOUS
    <2> HIDE DEF x0
    <2>3. Good(x0)
      BY <1>1, <1>2, <2>1, <2>2, DropGood
    <2> QED BY <2>3 DEF Same
  <1> HIDE DEF N, x0
  <1>6. \A i \in 1..N : \A a : P(i - 1, a) => P(i, g(a, i))
    <2> SUFFICES ASSUME NEW i \in 1..N, NEW a, P(i - 1, a) PROVE P(i, g(a, i))
      OBVIOUS
    <2>1. Good(g(a, i)) /\ Same(a, g(a, i))
      BY <1>3, ReleaseGood
    <2> HIDE DEF g
    <2> QED BY <2>1 DEF Same
  <1> HIDE DEF g, P
  <1>7. FoldKeeps(x0, N, g, P)
    BY <1>3, FoldKept
  <1>8. P(N, y)
    BY <1>5, <1>6, <1>7 DEF FoldKeeps
  <1> HIDE DEF y
  <1>9. Good(y)
    BY <1>8 DEF P
  <1>10. DOMAIN y = Fields /\ DOMAIN y.prio = All /\ y.prio[Idle] = IDLEPRIO
         /\ DOMAIN y.preempt = All /\ y.systime \in Times
         /\ \A a \in All : y.preempt[a] \in 0..CH_TIME_QUANTUM
    BY <1>9, GoodShape, CoreShape DEF IDLEPRIO
  <1>11. Keeps(y, z, Inert \ {"cur", "st"}) /\ z.prio = [y.prio EXCEPT ![c] = x.rprio[c]]
         /\ z.preempt = y.preempt /\ z.systime = y.systime
    BY <1>10 DEF Keeps, Fields, Inert
  <1>12. Good(z)
    <2>1. DOMAIN z.prio = All /\ z.prio[Idle] = IDLEPRIO
      BY <1>1, <1>10, <1>11
    <2> HIDE DEF z
    <2> QED BY <1>9, <1>10, <1>11, <2>1, GoodFrame
  <1> HIDE DEF z
  <1> QED BY <1>1, <1>4, <1>12, Reschedule

-----------------------------------------------------------------------------
(***************************************************************************)
(* Waits on condition variables.                                           *)
(***************************************************************************)

LEMMA CondSleep ==
  ASSUME NEW x, Calling(x), x.mtxlist[x.cur] # <<>>, NEW o \in Conds, NEW m, m = Head(x.mtxlist[x.cur]),
         NEW k1, k1 = chMtxUnlockS(x), NEW k2,
         k2 = [k1 EXCEPT !.u[x.cur] = Obj(o), !.q[o] = prio_insert(@, x.cur, k1.prio)],
         NEW cont, NEW time \in 1..(TimeMod - 1),
         \/ cont = [fn |-> "cond", mp |-> m] /\ time = TIME_INFINITE
         \/ cont = [fn |-> "condt", mp |-> m]
  PROVE  Good(chSchGoSleepTimeoutS(k2, "WTCOND", time, cont))
  <1> DEFINE c == x.cur
             r == prio_insert(k1.q[o], c, k1.prio)
  <1>1. InCall(x) /\ x.more[c].fn = "none" /\ c \in All /\ c # Idle /\ x.mtxlist[c] \in Seq(AllMutexes)
    BY CallingFacts, CallingIn
  <1>2. Good(k1) /\ Same(x, k1)
    BY <1>1, HandOverGood
  <1>3. Calling(k1) /\ k1.cur = c
    BY <1>2, CallingSame DEF Same
  <1>4. m \in AllMutexes
    BY <1>1
  <1> HIDE DEF c
  <1>5. Doing(k1, k1.st, "CURRENT") /\ c # Idle /\ Unarmed(k1, c) /\ k1.more[c].fn = "none"
    BY <1>3, CallingFacts
  <1>6. o \in Objects /\ o \in WaitQueues /\ o \notin AllSems
    BY NamesAssumption DEF Objects, WaitQueues
  <1>7. /\ Exactly(k1.q[o], Waiters(k1, k1.st, o)) /\ c \notin Waiters(k1, k1.st, o)
        /\ DOMAIN k1 = Fields /\ DOMAIN k1.cnt = AllSems /\ Counters(k1.cnt, k1.q)
    BY <1>3, <1>5, <1>6, DoingShape
  <1>8. Exactly(r, Waiters(k1, k1.st, o) \cup {c})
    BY <1>1, <1>7, ExactPrio
  <1>9. /\ Keeps(k1, k2, {"u", "q", "cnt"}) /\ Upd(k1.u, k2.u, c, Obj(o)) /\ Upd(k1.q, k2.q, o, r)
        /\ k2.cnt = k1.cnt
    <2>1. k2 = [k1 EXCEPT !.u[c] = Obj(o), !.q[o] = r]
      BY DEF c
    <2> HIDE DEF r
    <2> QED BY <2>1, <1>7 DEF Keeps, Fields, Upd
  <1> HIDE DEF r
  <1>10. Counters(k2.cnt, k2.q)
    BY <1>6, <1>7, <1>9, CountersApart
  <1>11. Kind("WTCOND", Obj(o), cont) /\ ContOK(cont) /\ Sleeps(cont.fn, "WTCOND")
         /\ (time # TIME_INFINITE => cont.fn \in Timed)
    BY <1>4 DEF Kind, ContOK, Sleeps, Obj, Timed
  <1>12. Going(k1, k1.st, "CURRENT", c, o, r, k2, "WTCOND", cont, time)
    BY <1>3, <1>5, <1>6, <1>7, <1>8, <1>9, <1>10, <1>11 DEF Going
  <1> QED BY <1>12, SleepOn

LEMMA CondWaitGood ==
  ASSUME NEW x, Calling(x), x.mtxlist[x.cur] # <<>>, NEW o \in Conds
  PROVE  /\ Good(chCondWaitS(x, o))
         /\ \A time \in Times \ {TIME_IMMEDIATE} : Good(chCondWaitTimeoutS(x, o, time))
  <1> DEFINE m == Head(x.mtxlist[x.cur])
             k1 == chMtxUnlockS(x)
             k2 == [k1 EXCEPT !.u[x.cur] = Obj(o), !.q[o] = prio_insert(@, x.cur, k1.prio)]
             c1 == [fn |-> "cond", mp |-> m]
             c2 == [fn |-> "condt", mp |-> m]
  <1>1. chCondWaitS(x, o) = chSchGoSleepS(k2, "WTCOND", c1)
    BY DEF chCondWaitS
  <1>2. \A time : chCondWaitTimeoutS(x, o, time) = chSchGoSleepTimeoutS(k2, "WTCOND", time, c2)
    BY DEF chCondWaitTimeoutS
  <1>3. TIME_INFINITE \in 1..(TimeMod - 1)
        /\ chSchGoSleepS(k2, "WTCOND", c1) = chSchGoSleepTimeoutS(k2, "WTCOND", TIME_INFINITE, c1)
    BY SleepForever
  <1> HIDE DEF k1, m
  <1>4. Good(chSchGoSleepTimeoutS(k2, "WTCOND", TIME_INFINITE, c1))
    BY <1>3, CondSleep DEF k1, m
  <1>5. ASSUME NEW time \in Times \ {TIME_IMMEDIATE} PROVE Good(chSchGoSleepTimeoutS(k2, "WTCOND", time, c2))
    <2>1. time \in 1..(TimeMod - 1)
      BY <1>5, SchedAssumption DEF Times, TIME_IMMEDIATE
    <2> QED BY <2>1, CondSleep DEF k1, m
  <1> QED BY <1>1, <1>2, <1>3, <1>4, <1>5

\* The mutex is taken again.
LEMMA AfterCondGood ==
  ASSUME NEW x, InCall(x), NEW m \in AllMutexes
  PROVE  Good(AfterCondWait(x, m)) /\ Good(AfterCondWaitTimeout(x, m))
  <1> DEFINE c == x.cur
             y == [x EXCEPT !.cont[c] = NoCont]
  <1>1. DOMAIN x = Fields /\ c # Idle /\ Unarmed(x, c) /\ c \in All /\ DOMAIN x.cont = All
    BY InCallFacts
  <1>2. Good(y)
    BY CallDone
  <1>3. y.cur = c /\ y.vt = x.vt /\ y.cont[c] = NoCont
    <2>1. y.cur = x.cur /\ y.vt = x.vt /\ y.cont = [x.cont EXCEPT ![c] = NoCont]
      BY <1>1 DEF Fields
    <2> QED BY <1>1, <2>1
  <1> HIDE DEF y
  <1>4. Doing(y, y.st, "CURRENT") /\ Unarmed(y, y.cur) /\ y.cur # Idle /\ y.cont[y.cur] = NoCont
    BY <1>1, <1>2, <1>3, DoingGood DEF Unarmed
  <1>5. Good(chMtxLockS(y, m))
    BY <1>4, LockGood
  <1> QED BY <1>2, <1>5 DEF AfterCondWait, AfterCondWaitTimeout, y

-----------------------------------------------------------------------------
(***************************************************************************)
(* Events.                                                                 *)
(***************************************************************************)

\* The pending events of the running thread, which may be at the end of a call.
LEMMA PendingGood ==
  ASSUME NEW x, InCall(x), NEW e, NEW y, Keeps(x, y, {"epending", "cont"}),
         Upd(x.epending, y.epending, x.cur, e), y.cont = x.cont \/ Upd(x.cont, y.cont, x.cur, NoCont)
  PROVE  Good(y)
  <1> DEFINE c == x.cur
  <1>1. /\ c \in All /\ c # Idle /\ Doing(x, x.st, "CURRENT") /\ Unarmed(x, c)
        /\ DOMAIN x.cont = All /\ DOMAIN x.more = All /\ DOMAIN x.mtxlist = All /\ DOMAIN x.epending = All
        /\ Local("CURRENT", x.u[c], x.cont[c], x.q[c], x.waiting[c], x.epending[c], x.mtxlist[c],
                 x.more[c], x.preempt[c])
        /\ Reserved(x.more, x.st) /\ x.owner \in [AllMutexes -> Threads \cup {NoThread}]
    BY InCallFacts
  <1>2. y.mtxlist = x.mtxlist /\ y.more = x.more /\ y.owner = x.owner
        /\ Keeps(x, y, {"cont", "more", "mtxlist", "owner", "epending"})
    BY DEF Keeps, Fields
  <1>3. DOMAIN y.epending = All /\ \A p \in All : p # c => y.epending[p] = x.epending[p]
    BY <1>1 DEF Upd
  <1>4. DOMAIN y.cont = All /\ (y.cont[c] = x.cont[c] \/ y.cont[c] = NoCont)
        /\ \A p \in All : p # c => y.cont[p] = x.cont[p]
    BY <1>1 DEF Upd
  <1>5. Local("CURRENT", x.u[c], y.cont[c], x.q[c], x.waiting[c], y.epending[c], x.mtxlist[c],
                 x.more[c], x.preempt[c])
    BY <1>1, <1>4, NoContFacts DEF Local, Kind, Running
  <1>6. Claims(x.more[c], x.more, x.st, c)
    BY <1>1, ClaimsKept
  <1>7. Doing(y, x.st, "CURRENT")
    BY <1>1, <1>2, <1>3, <1>4, <1>5, <1>6, DoingLocal
  <1> QED BY <1>7, DoingIsGood

LEMMA EvtOwnGood ==
  ASSUME NEW x, InCall(x), NEW mask, NEW kind
  PROVE  /\ Good(chEvtGetAndClearEvents(x, mask)) /\ Good(chEvtAddEvents(x, mask))
         /\ Good(TakeEvents(x, kind, mask)) /\ Good(chEvtGetAndClearFlags(x))
  <1> DEFINE c == x.cur
  <1>1. DOMAIN x = Fields /\ Good(x)
    BY InCallFacts
  <1>2. Good(chEvtGetAndClearEvents(x, mask))
    <2> DEFINE y == [x EXCEPT !.epending[c] = @ \ mask]
    <2>1. Keeps(x, y, {"epending", "cont"}) /\ Upd(x.epending, y.epending, c, x.epending[c] \ mask)
          /\ y.cont = x.cont
      BY <1>1 DEF Keeps, Fields, Upd
    <2> HIDE DEF y
    <2>2. Good(y)
      BY <2>1, PendingGood
    <2> QED BY <2>2 DEF chEvtGetAndClearEvents, y
  <1>3. Good(chEvtAddEvents(x, mask))
    <2> DEFINE y == [x EXCEPT !.epending[c] = @ \cup mask]
    <2>1. Keeps(x, y, {"epending", "cont"}) /\ Upd(x.epending, y.epending, c, x.epending[c] \cup mask)
          /\ y.cont = x.cont
      BY <1>1 DEF Keeps, Fields, Upd
    <2> HIDE DEF y
    <2>2. Good(y)
      BY <2>1, PendingGood
    <2> QED BY <2>2 DEF chEvtAddEvents, y
  <1>4. Good(TakeEvents(x, kind, mask))
    <2> DEFINE e == Taken(x, kind, mask)
               y == [x EXCEPT !.epending[c] = @ \ e, !.cont[c] = NoCont]
    <2>0. y = TakeEvents(x, kind, mask)
      BY DEF TakeEvents
    <2> HIDE DEF e
    <2>1. Keeps(x, y, {"epending", "cont"}) /\ Upd(x.epending, y.epending, c, x.epending[c] \ e)
          /\ Upd(x.cont, y.cont, c, NoCont)
      BY <1>1 DEF Keeps, Fields, Upd
    <2> HIDE DEF y
    <2>2. Good(y)
      BY <2>1, PendingGood
    <2> QED BY <2>0, <2>2
  <1>5. Good(chEvtGetAndClearFlags(x))
    <2> DEFINE y == [x EXCEPT !.flags[c] = {}]
    <2>1. Keeps(x, y, Inert \ {"cur", "st", "prio", "preempt", "systime"})
      BY <1>1 DEF Keeps, Fields, Inert
    <2> HIDE DEF y
    <2>2. Good(y)
      BY <1>1, <2>1, GoodInert
    <2> QED BY <2>2 DEF chEvtGetAndClearFlags, y
  <1> QED BY <1>2, <1>3, <1>4, <1>5

LEMMA AfterEvtGood ==
  ASSUME NEW x, InCall(x), NEW c
  PROVE  Good(AfterEvtWait(x, c)) /\ Good(AfterEvtWaitTimeout(x, c))
  <1>1. Good(TakeEvents(x, c.kind, c.mask)) /\ Good([x EXCEPT !.cont[x.cur] = NoCont])
    BY EvtOwnGood, CallDone
  <1> QED BY <1>1 DEF AfterEvtWait, AfterEvtWaitTimeout

\* The listeners of the event source.
LEMMA ListenersGood ==
  ASSUME NEW x, Good(x), NEW y, Keeps(x, y, {"listeners", "flags"}), Listeners(y.listeners)
  PROVE  Good(y)
  <1>1. Core(x, x.st) /\ MBOK(x.mb) /\ IOOK(x.io) /\ Counters(x.cnt, x.q) /\ DOMAIN x.cnt = AllSems
    BY GoodShape, CoreShape DEF Core
  <1>2. y.mb = x.mb /\ y.io = x.io /\ y.cnt = x.cnt /\ y.st = x.st /\ y.cur = x.cur
        /\ Keeps(x, y, {"mb", "io", "listeners", "cnt", "flags"})
    BY DEF Keeps, Fields
  <1>3. Core(y, x.st)
    BY <1>1, <1>2, CoreData
  <1> QED BY <1>2, <1>3, GoodIf

Listening1 == [tp : All, mask : SUBSET UNION {a.events : a \in Apps}]

LEMMA RegisterGood ==
  ASSUME NEW x, Good(x), NEW mask \in SUBSET UNION {a.events : a \in Apps}
  PROVE  Good(chEvtRegisterMask(x, mask)) /\ Good(chEvtUnregister(x))
  <1>1. DOMAIN x = Fields /\ x.cur \in All /\ Core(x, x.st)
    BY GoodShape, CoreShape
  <1>2. x.listeners \in Seq(Listening1)
    BY <1>1 DEF Core, Listeners, Listening1
  <1>3. Good(chEvtRegisterMask(x, mask))
    <2> DEFINE l == EventListener(x.cur, mask)
               y == [x EXCEPT !.listeners = <<l>> \o @, !.flags[x.cur] = {}]
    <2>1. l \in Listening1
      BY <1>1 DEF EventListener, Listening1
    <2>2. chEvtRegisterMask(x, mask) = y
      BY DEF chEvtRegisterMask
    <2> HIDE DEF l
    <2>3. Keeps(x, y, {"listeners", "flags"}) /\ y.listeners = <<l>> \o x.listeners
      BY <1>1 DEF Keeps, Fields
    <2>4. <<l>> \o x.listeners \in Seq(Listening1)
      BY <1>2, <2>1
    <2> HIDE DEF y
    <2>5. Listeners(y.listeners)
      BY <2>3, <2>4 DEF Listeners, Listening1
    <2> QED BY <2>2, <2>3, <2>5, ListenersGood
  <1>4. Good(chEvtUnregister(x))
    <2> DEFINE S == {i \in DOMAIN x.listeners : x.listeners[i].tp = x.cur}
               n == CHOOSE i \in S : TRUE
               r == Unlink(x.listeners, n)
               y == [x EXCEPT !.listeners = r]
    <2>1. CASE S = {}
      BY <2>1 DEF chEvtUnregister
    <2>2. CASE S # {}
      <3>1. n \in S
        BY <2>2
      <3>2. n \in 1..Len(x.listeners) /\ Len(x.listeners) \in Nat
        BY <1>2, <3>1
      <3> HIDE DEF n
      <3>3. r \in Seq(Listening1)
        <4>1. n \in Nat /\ n >= 1 /\ n <= Len(x.listeners)
          BY <3>2
        <4>2. SubSeq(x.listeners, 1, n - 1) \in Seq(Listening1)
          BY <1>2, <4>1
        <4>3. SubSeq(x.listeners, n + 1, Len(x.listeners)) \in Seq(Listening1)
          BY <1>2, <3>2, <4>1
        <4> QED BY <4>2, <4>3 DEF Unlink
      <3>4. chEvtUnregister(x) = y
        BY <2>2 DEF chEvtUnregister, n
      <3> HIDE DEF r
      <3>5. Keeps(x, y, {"listeners", "flags"}) /\ y.listeners = r
        BY <1>1 DEF Keeps, Fields
      <3> HIDE DEF y
      <3>6. Listeners(y.listeners)
        BY <3>3, <3>5 DEF Listeners, Listening1
      <3> QED BY <3>4, <3>5, <3>6, ListenersGood
    <2> QED BY <2>1, <2>2
  <1> QED BY <1>3, <1>4

\* An event is signalled to a thread, which is woken if it waits for it.
LEMMA EvtSignalI ==
  ASSUME NEW x, Good(x), NEW t \in All, NEW mask
  PROVE  Good(chEvtSignalI(x, t, mask)) /\ Same(x, chEvtSignalI(x, t, mask))
  <1> DEFINE e == x.epending[t] \cup mask
             y == [x EXCEPT !.epending[t] = @ \cup mask]
             B == \/ x.st[t] = "WTOREVT" /\ e \cap x.u[t][2] # {}
                  \/ x.st[t] = "WTANDEVT" /\ x.u[t][2] \subseteq e
  <1>1. /\ Core(x, x.st) /\ DOMAIN x = Fields /\ DOMAIN x.cont = All /\ DOMAIN x.more = All
        /\ DOMAIN x.mtxlist = All /\ DOMAIN x.epending = All /\ DOMAIN x.u = All
        /\ x.cont[Idle] = NoCont /\ x.more[Idle] = NoCont /\ x.st \in [All -> States]
    BY GoodShape, CoreShape
  <1>2. /\ Keeps(x, y, {"u", "cont", "mtxlist", "owner", "more", "epending", "vt", "due"})
        /\ y.u = x.u /\ y.cont = x.cont /\ y.more = x.more /\ y.mtxlist = x.mtxlist
        /\ y.vt = x.vt /\ y.due = x.due /\ y.st = x.st /\ y.cur = x.cur /\ y.owner = x.owner
        /\ y.epending = [x.epending EXCEPT ![t] = e] /\ Same(x, y)
    BY <1>1 DEF Keeps, Fields, Same
  <1>3. y.epending[t] = e /\ DOMAIN y.epending = All
        /\ \A p \in All : p # t => y.epending[p] = x.epending[p]
    BY <1>1, <1>2
  <1>4. chEvtSignalI(x, t, mask) = IF B THEN ReadyMsg(y, t, "RDY_OK") ELSE y
    <2>1. chEvtSignalI(x, t, mask) =
              IF \/ x.st[t] = "WTOREVT" /\ y.epending[t] \cap x.u[t][2] # {}
                 \/ x.st[t] = "WTANDEVT" /\ x.u[t][2] \subseteq y.epending[t]
              THEN ReadyMsg(y, t, "RDY_OK") ELSE y
      BY DEF chEvtSignalI
    <2> HIDE DEF y, e
    <2> QED BY <2>1, <1>3
  <1>5. Local(x.st[t], x.u[t], x.cont[t], x.q[t], x.waiting[t], x.epending[t], x.mtxlist[t],
              x.more[t], x.preempt[t])
    BY <1>1 DEF Core, Locals
  <1>6. x.owner \in [AllMutexes -> Threads \cup {NoThread}] /\ Timers(x.vt, x.due, x.cont)
    BY <1>1 DEF Core
  <1> HIDE DEF y, e
  <1>7. CASE B
    <2> DEFINE v == [x.st EXCEPT ![t] = "CURRENT"]
    <2>1. Waking(x, t) /\ t # Idle
      BY <1>7, RouseFree
    <2>2. Core(x, v) /\ v[t] = "CURRENT"
      BY <1>1, <2>1 DEF Waking
    <2>3. Local("CURRENT", x.u[t], x.cont[t], x.q[t], x.waiting[t], x.epending[t], x.mtxlist[t],
                x.more[t], x.preempt[t])
      BY <2>2 DEF Core, Locals
    <2> HIDE DEF v
    <2>4. Local("CURRENT", x.u[t], x.cont[t], x.q[t], x.waiting[t], e, x.mtxlist[t],
                x.more[t], x.preempt[t])
      BY <2>3 DEF Local
    <2>5. Reserved(x.more, v)
      BY <2>2 DEF Core
    <2>6. Core(y, v)
      <3>1. v[t] \notin Queued /\ v[t] # "WTEXIT"
        BY <2>2 DEF Queued
      <3> QED BY <1>1, <1>2, <1>3, <1>6, <2>1, <2>2, <2>4, <2>5, <3>1, CoreLocal
    <2>7. Waking(y, t)
      BY <1>2, <2>1, <2>6 DEF Waking, v
    <2>8. Good(ReadyMsg(y, t, "RDY_OK")) /\ Same(y, ReadyMsg(y, t, "RDY_OK"))
      BY <2>7, WakeMsg
    <2> QED BY <1>2, <1>4, <1>7, <2>8 DEF Same
  <1>8. CASE ~ B
    <2>1. Local(x.st[t], x.u[t], x.cont[t], x.q[t], x.waiting[t], e, x.mtxlist[t],
                x.more[t], x.preempt[t])
      BY <1>5, <1>8 DEF Local
    <2>2. Reserved(x.more, x.st)
      BY <1>1 DEF Core
    <2>3. Core(y, x.st)
      <3> HIDE DEF B
      <3> QED BY <1>1, <1>2, <1>3, <1>6, <2>1, <2>2, CoreLocal
    <2>4. Good(y)
      BY <1>2, <2>3, GoodIf
    <2> QED BY <1>2, <1>4, <1>8, <2>4
  <1> QED BY <1>7, <1>8

LEMMA EvtBroadcastGood ==
  ASSUME NEW x, Good(x), NEW flags
  PROVE  Good(chEvtBroadcastFlagsI(x, flags))
  <1> DEFINE ls == x.listeners
             N == Len(ls)
             h(a, i) == [a EXCEPT !.flags[ls[i].tp] = @ \cup flags]
             g(a, i) == chEvtSignalI(h(a, i), ls[i].tp, ls[i].mask)
             P(i, a) == Good(a)
  <1>1. ls \in Seq(Listening1)
    BY GoodShape DEF Core, Listeners, Listening1
  <1>2. N \in Nat /\ \A i \in 1..N : ls[i] \in Listening1
    BY <1>1, Member
  <1>3. \A i \in 1..N : ls[i].tp \in All
    BY <1>2 DEF Listening1
  <1>4. chEvtBroadcastFlagsI(x, flags) = Fold(x, N, g)[N]
    BY DEF chEvtBroadcastFlagsI, Fold
  <1>5. P(0, x)
    OBVIOUS
  <1> HIDE DEF N
  <1>6. \A i \in 1..N : \A a : P(i - 1, a) => P(i, g(a, i))
    <2> SUFFICES ASSUME NEW i \in 1..N, NEW a, Good(a) PROVE Good(g(a, i))
      OBVIOUS
    <2>1. DOMAIN a = Fields
      BY GoodShape, CoreShape
    <2>2. Keeps(a, h(a, i), Inert \ {"cur", "st", "prio", "preempt", "systime"})
      BY <2>1 DEF Keeps, Fields, Inert
    <2> HIDE DEF h
    <2>3. Good(h(a, i))
      BY <2>2, GoodInert
    <2> QED BY <1>3, <2>3, EvtSignalI
  <1> HIDE DEF g, P
  <1>7. FoldKeeps(x, N, g, P)
    BY <1>2, FoldKept
  <1>8. P(N, Fold(x, N, g)[N])
    BY <1>5, <1>6, <1>7 DEF FoldKeeps
  <1> QED BY <1>4, <1>8 DEF P

\* The wait of a thread for events that are not pending.
LEMMA EvtSleep ==
  ASSUME NEW x, Calling(x), NEW kind, NEW mask, MustWait(x, kind, mask),
         NEW y, y = [x EXCEPT !.u[x.cur] = <<"ewmask", mask>>], NEW cont, NEW time \in 1..(TimeMod - 1),
         \/ cont = [fn |-> "evt", kind |-> kind, mask |-> mask] /\ time = TIME_INFINITE
         \/ cont = [fn |-> "evtt", kind |-> kind, mask |-> mask]
  PROVE  Good(chSchGoSleepTimeoutS(y, WaitState(kind), time, cont))
  <1> DEFINE c == x.cur
             s == WaitState(kind)
  <1>1. /\ c \in All /\ c # Idle /\ Unarmed(x, c) /\ Doing(x, x.st, "CURRENT") /\ Core(x, x.st)
        /\ x.mtxlist[c] \in Seq(AllMutexes) /\ MoreOK(x.more[c]) /\ x.more[c].fn = "none"
    BY CallingFacts
  <1>2. DOMAIN x = Fields /\ DOMAIN x.u = All
    BY <1>1, CoreShape
  <1>3. Keeps(x, y, {"u"}) /\ y.u = [x.u EXCEPT ![c] = <<"ewmask", mask>>]
    BY <1>2 DEF Keeps, Fields
  <1>4. DOMAIN y.u = All /\ y.u[c] = <<"ewmask", mask>> /\ \A p \in All : p # c => y.u[p] = x.u[p]
    BY <1>1, <1>2, <1>3
  <1>5. ContOK(cont) /\ cont.fn \in {"evt", "evtt"} /\ (time # TIME_INFINITE => cont.fn \in Timed)
    BY DEF ContOK, Timed
  <1>6. /\ s \in {"WTOREVT", "WTANDEVT"} /\ (s = "WTOREVT" => x.epending[c] \cap mask = {})
        /\ (s = "WTANDEVT" => ~ (mask \subseteq x.epending[c]))
    BY DEF WaitState, MustWait
  <1> HIDE DEF s, c
  <1>7. Local(s, y.u[c], cont, x.q[c], x.waiting[c], x.epending[c], x.mtxlist[c], x.more[c],
              CH_TIME_QUANTUM)
    <2>1. CH_TIME_QUANTUM \in 0..CH_TIME_QUANTUM
      BY SchedAssumption
    <2>2. y.u[c][2] = mask
      BY <1>4
    <2> QED BY <1>1, <1>5, <1>6, <2>1, <2>2 DEF Local, Kind, Running, Sleeps
  <1>8. Good(chSchGoSleepTimeoutS(y, s, time, cont))
    <2>1. c = x.cur /\ s \in {"SLEEPING", "WTOREVT", "WTANDEVT", "WTMSG", "FINAL"}
      BY <1>6 DEF c
    <2>2. time \in 1..(TimeMod - 1)
      OBVIOUS
    <2> QED BY ONLY <1>1, <1>3, <1>4, <1>5, <1>7, <2>1, <2>2, SleepFree, SMTT(30)
  <1> QED BY <1>8 DEF s

LEMMA EvtWaitGood ==
  ASSUME NEW x, Calling(x), NEW kind, NEW mask
  PROVE  /\ Good(chEvtWait(x, kind, mask))
         /\ \A time \in Times : Good(chEvtWaitTimeout(x, kind, mask, time))
  <1> DEFINE y == [x EXCEPT !.u[x.cur] = <<"ewmask", mask>>]
             c1 == [fn |-> "evt", kind |-> kind, mask |-> mask]
             c2 == [fn |-> "evtt", kind |-> kind, mask |-> mask]
             s == WaitState(kind)
  <1>1. Good(x) /\ Good(TakeEvents(x, kind, mask))
    BY CallingFacts, CallingIn, EvtOwnGood
  <1>2. /\ TIME_INFINITE \in 1..(TimeMod - 1)
        /\ chSchGoSleepS(y, s, c1) = chSchGoSleepTimeoutS(y, s, TIME_INFINITE, c1)
    BY SleepForever
  <1>3. MustWait(x, kind, mask) => Good(chSchGoSleepTimeoutS(y, s, TIME_INFINITE, c1))
    BY <1>2, EvtSleep
  <1>4. Good(chEvtWait(x, kind, mask))
    BY <1>1, <1>2, <1>3 DEF chEvtWait
  <1>5. ASSUME NEW time \in Times PROVE Good(chEvtWaitTimeout(x, kind, mask, time))
    <2>1. time # TIME_IMMEDIATE => time \in 1..(TimeMod - 1)
      BY SchedAssumption DEF Times, TIME_IMMEDIATE
    <2>2. MustWait(x, kind, mask) /\ time # TIME_IMMEDIATE => Good(chSchGoSleepTimeoutS(y, s, time, c2))
      BY <2>1, EvtSleep
    <2> QED BY <1>1, <2>2 DEF chEvtWaitTimeout
  <1> QED BY <1>4, <1>5

-----------------------------------------------------------------------------
(***************************************************************************)
(* Messages.                                                               *)
(***************************************************************************)

\* A thread in the queue of messages of a thread is a sender.
LEMMA SenderKind ==
  ASSUME NEW x, NEW v, Core(x, v), NEW c \in All, NEW t \in Waiters(x, v, c)
  PROVE  t \in All /\ x.u[t][2] = c /\ v[t] = "SNDMSGQ"
  <1>1. t \in All /\ x.u[t][2] = c /\ v[t] \in Queued
    BY DEF Waiters
  <1>2. Kind(v[t], x.u[t], x.cont[t])
    BY <1>1 DEF Core, Locals, Local
  <1> QED BY <1>1, <1>2, NamesAssumption DEF Kind, Queued

\* The running thread c puts itself in the queue of t, in a state where t is not
\* (or no more) waiting for a message.
Sending(x, v, c, t, k1) ==
    /\ Core(x, v) /\ c \in All /\ t \in All /\ c # t /\ v[c] = "CURRENT"
    /\ v[t] \notin {"WTMSG", "FINAL"}
    /\ Keeps(x, k1, {"u", "q", "msg"}) /\ Upd(x.u, k1.u, c, Obj(t))
    /\ Upd(x.q, k1.q, t, Append(x.q[t], c))
    /\ x.more[c].fn \notin {"alloc", "free"}

LEMMA SendFacts ==
  ASSUME NEW x, NEW v, NEW c, NEW t, NEW k1, Sending(x, v, c, t, k1), NEW cont, cont = [fn |-> "send"]
  PROVE  /\ PutIn(x, v, c, "SNDMSGQ", k1.u[c], k1.q) /\ PutOn(x, v, c, "SNDMSGQ", cont, k1.waiting)
         /\ PutOther(x, v, c, k1.q, k1.waiting)
         /\ Local("SNDMSGQ", k1.u[c], cont, k1.q[c], k1.waiting[c], x.epending[c], x.mtxlist[c],
                  x.more[c], CH_TIME_QUANTUM)
         /\ Counters(k1.cnt, k1.q) /\ (\A p \in All : p # c => k1.u[p] = x.u[p])
         /\ DOMAIN k1.u = All /\ DOMAIN k1.q = WaitQueues /\ k1.q[t] # <<>> /\ k1.cnt = x.cnt
         /\ k1.waiting = x.waiting
  <1>1. /\ Core(x, v) /\ c \in All /\ t \in All /\ c # t /\ v[c] = "CURRENT"
        /\ v[t] \notin {"WTMSG", "FINAL"} /\ x.more[c].fn \notin {"alloc", "free"}
    BY DEF Sending
  <1>2. DOMAIN x = Fields /\ DOMAIN x.u = All /\ DOMAIN x.q = WaitQueues
    BY <1>1, CoreShape
  <1>3. k1.waiting = x.waiting /\ k1.cnt = x.cnt
    BY DEF Sending, Keeps, Fields
  <1>4. /\ DOMAIN k1.u = All /\ k1.u[c] = Obj(t) /\ \A p \in All : p # c => k1.u[p] = x.u[p]
    BY <1>1, <1>2 DEF Sending, Upd
  <1>5. t \in WaitQueues /\ t \notin AllSems
    BY <1>1, NamesAssumption DEF WaitQueues
  <1>6. DOMAIN k1.q = WaitQueues /\ k1.q[t] = Append(x.q[t], c)
        /\ \A o \in WaitQueues : o # t => k1.q[o] = x.q[o]
    BY <1>2, <1>5 DEF Sending, Upd
  <1>7. \A o \in WaitQueues : Exactly(x.q[o], Waiters(x, v, o)) /\ c \notin Waiters(x, v, o)
    BY <1>1 DEF Core, Queues, Waiters, Queued
  <1>8. Exactly(k1.q[t], Waiters(x, v, t) \cup {c})
    BY <1>1, <1>5, <1>6, <1>7, ExactAppend
  <1>9. k1.q[t] # <<>>
    BY <1>8, ExactSub
  <1>10. PutIn(x, v, c, "SNDMSGQ", k1.u[c], k1.q)
    <2>1. k1.u[c][2] = t /\ "SNDMSGQ" \in Queued
      BY <1>4 DEF Obj, Queued
    <2> QED BY <1>6, <1>7, <1>8, <2>1 DEF PutIn
  <1>11. PutOn(x, v, c, "SNDMSGQ", cont, k1.waiting)
    <2>1. \A p \in All : Exactly(x.waiting[p], Joining(x, v, p))
      BY <1>1 DEF Core, Queues
    <2> QED BY <1>3, <2>1 DEF PutOn
  <1>12. PutOther(x, v, c, k1.q, k1.waiting)
    <2>1. \A p \in All : p \in WaitQueues
      BY DEF WaitQueues
    <2> QED BY <1>1, <1>3, <1>6, <1>9, <2>1 DEF PutOther
  <1>13. Counters(k1.cnt, k1.q)
    <2>1. Counters(x.cnt, x.q)
      BY <1>1 DEF Core
    <2> QED BY <1>3, <1>5, <2>1, CountersApart DEF Sending
  <1>14. Local("SNDMSGQ", k1.u[c], cont, k1.q[c], k1.waiting[c], x.epending[c], x.mtxlist[c],
               x.more[c], CH_TIME_QUANTUM)
    <2>1. CH_TIME_QUANTUM \in 0..CH_TIME_QUANTUM
      BY SchedAssumption
    <2>2. MoreOK(x.more[c]) /\ x.mtxlist[c] \in Seq(AllMutexes)
      BY <1>1 DEF Core, Locals, Local
    <2>3. ContOK(cont) /\ cont.fn = "send"
      BY DEF ContOK
    <2>4. k1.u[c][2] = t
      BY <1>4 DEF Obj
    <2> QED BY <1>1, <2>1, <2>2, <2>3, <2>4 DEF Local, Kind, Running, Sleeps
  <1> QED BY <1>3, <1>4, <1>6, <1>9, <1>10, <1>11, <1>12, <1>13, <1>14

\* A message is sent to a thread that does not wait for one.
LEMMA SendPlain ==
  ASSUME NEW x, Calling(x), NEW t \in All, t # x.cur, x.st[t] \notin {"FINAL", "WTMSG"}, NEW k1,
         Keeps(x, k1, {"u", "q", "msg"}), Upd(x.u, k1.u, x.cur, Obj(t)),
         Upd(x.q, k1.q, t, Append(x.q[t], x.cur)), NEW cont, cont = [fn |-> "send"]
  PROVE  Good(chSchGoSleepS(k1, "SNDMSGQ", cont))
  <1> DEFINE c == x.cur
  <1>1. c \in All /\ c # Idle /\ Unarmed(x, c) /\ Doing(x, x.st, "CURRENT") /\ Core(x, x.st)
        /\ x.more[c].fn = "none" /\ x.st[c] = "CURRENT"
    BY CallingFacts
  <1> HIDE DEF c
  <1>2. Sending(x, x.st, c, t, k1)
    BY <1>1 DEF Sending, c
  <1>3. /\ PutIn(x, x.st, c, "SNDMSGQ", k1.u[c], k1.q) /\ PutOn(x, x.st, c, "SNDMSGQ", cont, k1.waiting)
        /\ PutOther(x, x.st, c, k1.q, k1.waiting)
        /\ Local("SNDMSGQ", k1.u[c], cont, k1.q[c], k1.waiting[c], x.epending[c], x.mtxlist[c],
                 x.more[c], CH_TIME_QUANTUM)
        /\ Counters(k1.cnt, k1.q) /\ (\A p \in All : p # c => k1.u[p] = x.u[p])
        /\ DOMAIN k1.u = All /\ DOMAIN k1.q = WaitQueues /\ k1.cnt = x.cnt /\ k1.waiting = x.waiting
    BY <1>2, SendFacts
  <1>4. Keeps(x, k1, {"u", "q", "cnt", "waiting", "msg"})
    BY DEF Keeps
  <1>5. DOMAIN k1.cnt = AllSems /\ DOMAIN k1.waiting = All
    BY <1>1, <1>3, CoreShape
  <1>6. "SNDMSGQ" \in States \ (Running \cup {"SUSPENDED"}) /\ c = x.cur
    BY DEF States, Running, c
  <1>7. TIME_INFINITE \in 1..(TimeMod - 1)
    BY SleepForever
  <1>8. Good(chSchGoSleepTimeoutS(k1, "SNDMSGQ", TIME_INFINITE, cont))
    <2> QED BY <1>1, <1>3, <1>4, <1>5, <1>6, <1>7, GoSleep, ZenonT(60)
  <1> QED BY <1>8, SleepForever

\* A message is sent to a thread that waits for one: it is made ready.
LEMMA SendWaiting ==
  ASSUME NEW x, Calling(x), NEW t \in All, t # x.cur, x.st[t] = "WTMSG", NEW k1,
         Keeps(x, k1, {"u", "q", "msg"}), Upd(x.u, k1.u, x.cur, Obj(t)),
         Upd(x.q, k1.q, t, Append(x.q[t], x.cur)), NEW cont, cont = [fn |-> "send"]
  PROVE  Good(chSchGoSleepS(chSchReadyI(k1, t), "SNDMSGQ", cont))
  <1> DEFINE c == x.cur
             v1 == [x.st EXCEPT ![t] = "SUSPENDED"]
             y1 == [k1 EXCEPT !.st[c] = "SNDMSGQ", !.preempt[c] = CH_TIME_QUANTUM, !.cont[c] = cont]
             w1 == [v1 EXCEPT ![c] = "SNDMSGQ"]
             w2 == [w1 EXCEPT ![t] = "CURRENT"]
             y2 == chSchReadyI(y1, t)
             k2 == chSchReadyI(k1, t)
             z == [k2 EXCEPT !.st[c] = "SNDMSGQ", !.preempt[c] = CH_TIME_QUANTUM, !.cont[c] = cont]
  <1>1. c \in All /\ c # Idle /\ Unarmed(x, c) /\ Core(x, x.st) /\ x.more[c].fn = "none"
        /\ x.st[c] = "CURRENT"
    BY CallingFacts
  <1>2. /\ x.st \in [All -> States]
        /\ \A p \in All : (x.st[p] = "CURRENT" <=> p = x.cur) /\ x.st[p] # "SUSPENDED"
    BY GoodShape DEF Calling
  <1>3. t # Idle
    BY <1>1, CoreShape DEF Running
  <1>4. Local(x.st[t], x.u[t], x.cont[t], x.q[t], x.waiting[t], x.epending[t], x.mtxlist[t],
              x.more[t], x.preempt[t])
    BY <1>1 DEF Core, Locals
  <1>5. Core(x, v1)
    <2>1. Local("SUSPENDED", x.u[t], x.cont[t], x.q[t], x.waiting[t], x.epending[t], x.mtxlist[t],
                x.more[t], x.preempt[t])
      BY <1>4 DEF Local, Kind, Running, Sleeps
    <2>2. x.st[t] \notin Queued \cup {"READY", "WTEXIT", "FINAL"}
      BY DEF Queued
    <2>3. v1 = [x.st EXCEPT ![t] = "SUSPENDED"]
      OBVIOUS
    <2> HIDE DEF v1
    <2> QED BY <1>1, <1>3, <2>1, <2>2, <2>3, CoreRouse
  <1>6. v1[c] = "CURRENT" /\ v1[t] = "SUSPENDED" /\ v1 \in [All -> States]
    BY <1>1, <1>2 DEF States
  <1> HIDE DEF c
  <1>7. Sending(x, v1, c, t, k1)
    BY <1>1, <1>5, <1>6 DEF Sending, c
  <1>8. /\ PutIn(x, v1, c, "SNDMSGQ", k1.u[c], k1.q) /\ PutOn(x, v1, c, "SNDMSGQ", cont, k1.waiting)
        /\ PutOther(x, v1, c, k1.q, k1.waiting)
        /\ Local("SNDMSGQ", k1.u[c], cont, k1.q[c], k1.waiting[c], x.epending[c], x.mtxlist[c],
                 x.more[c], CH_TIME_QUANTUM)
        /\ Counters(k1.cnt, k1.q) /\ (\A p \in All : p # c => k1.u[p] = x.u[p])
        /\ DOMAIN k1.u = All /\ DOMAIN k1.q = WaitQueues /\ k1.cnt = x.cnt /\ k1.waiting = x.waiting
        /\ k1.q[t] # <<>>
    BY <1>7, SendFacts
  <1>9. DOMAIN x = Fields /\ DOMAIN x.st = All /\ DOMAIN x.preempt = All /\ DOMAIN x.cont = All
        /\ DOMAIN x.cnt = AllSems /\ DOMAIN x.waiting = All
    BY <1>1, CoreShape
  <1>10. DOMAIN k1 = Fields /\ k1.st = x.st /\ k1.preempt = x.preempt /\ k1.cont = x.cont
         /\ k1.cur = c /\ k1.vt = x.vt /\ k1.due = x.due
    BY DEF Keeps, Fields, c
  <1>11. /\ Keeps(k1, y1, {"st", "preempt", "cont"}) /\ y1.st = [x.st EXCEPT ![c] = "SNDMSGQ"]
         /\ y1.preempt = [x.preempt EXCEPT ![c] = CH_TIME_QUANTUM]
         /\ y1.cont = [x.cont EXCEPT ![c] = cont] /\ y1.prio = k1.prio /\ y1.ready = k1.ready
    BY <1>10 DEF Keeps, Fields
  <1>12. y1.u = k1.u /\ y1.q = k1.q /\ y1.cnt = k1.cnt /\ y1.waiting = k1.waiting /\ y1.vt = x.vt
         /\ y1.due = x.due /\ y1.cur = c
         /\ Keeps(x, y1, {"st", "u", "q", "cnt", "cont", "preempt", "vt", "due", "waiting", "msg"})
    BY <1>10, <1>11 DEF Keeps, Fields
  <1>13. /\ DOMAIN y1.st = All /\ DOMAIN y1.preempt = All /\ DOMAIN y1.cont = All
         /\ y1.cont[c] = cont /\ y1.preempt[c] = CH_TIME_QUANTUM
         /\ \A p \in All : p # c => y1.cont[p] = x.cont[p] /\ y1.preempt[p] = x.preempt[p]
    BY <1>1, <1>9, <1>11
  <1> HIDE DEF y1
  <1>14. Timers(y1.vt, y1.due, y1.cont)
    <2>1. Timers(x.vt, x.due, x.cont)
      BY <1>1 DEF Core
    <2>2. \A i \in 1..Len(x.vt) : y1.cont[x.vt[i].par].fn \in Timed
      BY <1>1, <1>13, <2>1, TimerFacts DEF Unarmed
    <2> QED BY <1>12, <2>1, <2>2, TimersKeep
  <1>15. Core(y1, w1)
    <2> DEFINE s == "SNDMSGQ"
    <2>1. s \in States \ Running
      BY DEF States, Running
    <2>2. w1 = [v1 EXCEPT ![c] = s]
      OBVIOUS
    <2> HIDE DEF w1, v1
    <2>3. /\ PutIn(x, v1, c, s, y1.u[c], y1.q) /\ PutOn(x, v1, c, s, y1.cont[c], y1.waiting)
          /\ PutOther(x, v1, c, y1.q, y1.waiting)
          /\ Local(s, y1.u[c], y1.cont[c], y1.q[c], y1.waiting[c], x.epending[c], x.mtxlist[c],
                   x.more[c], y1.preempt[c])
          /\ Counters(y1.cnt, y1.q)
      BY <1>8, <1>12, <1>13
    <2>4. /\ DOMAIN y1.u = All /\ DOMAIN y1.q = WaitQueues /\ DOMAIN y1.cnt = AllSems
          /\ DOMAIN y1.waiting = All
          /\ \A p \in All : p # c => /\ y1.u[p] = x.u[p] /\ y1.cont[p] = x.cont[p]
                                     /\ y1.preempt[p] = x.preempt[p]
      BY <1>8, <1>9, <1>12, <1>13
    <2>5. c \in All \ {Idle} /\ v1[c] \in {"CURRENT", "SUSPENDED"}
      BY <1>1, <1>6
    <2>6. /\ DOMAIN y1.st = All /\ DOMAIN y1.cont = All /\ DOMAIN y1.preempt = All
          /\ Keeps(x, y1, {"st", "u", "q", "cnt", "cont", "preempt", "vt", "due", "waiting", "msg"})
      BY <1>12, <1>13
    <2> HIDE DEF s
    <2> QED BY ONLY <1>5, <1>14, <2>1, <2>2, <2>3, <2>4, <2>5, <2>6, CoreSleep
  <1>16. w1[t] = "SUSPENDED"
    BY <1>6, <1>7 DEF Sending
  <1>17. Core(y1, w2)
    <2>1. Local("SUSPENDED", y1.u[t], y1.cont[t], y1.q[t], y1.waiting[t], y1.epending[t], y1.mtxlist[t],
                y1.more[t], y1.preempt[t])
      BY <1>15, <1>16 DEF Core, Locals
    <2>2. y1.q[t] # <<>> /\ y1.mtxlist = x.mtxlist /\ y1.more = x.more
      BY <1>8, <1>12 DEF Keeps, Fields
    <2>3. x.more[t].fn \in {"alloc", "free"} => x.mtxlist[t] # <<>>
      BY <1>4 DEF Local
    <2>4. Local("CURRENT", y1.u[t], y1.cont[t], y1.q[t], y1.waiting[t], y1.epending[t], y1.mtxlist[t],
                y1.more[t], y1.preempt[t])
      BY <2>1, <2>2, <2>3 DEF Local, Kind, Running
    <2>5. w1[t] \notin Queued \cup {"READY", "WTEXIT", "FINAL"}
      BY <1>16 DEF Queued
    <2>6. w2 = [w1 EXCEPT ![t] = "CURRENT"]
      OBVIOUS
    <2> HIDE DEF w1, w2
    <2> QED BY <1>3, <1>15, <2>4, <2>5, <2>6, CoreRouse
  <1>18. w2[t] = "CURRENT" /\ [w2 EXCEPT ![t] = "READY"] = [y1.st EXCEPT ![t] = "READY"]
         /\ \A p \in All : [y1.st EXCEPT ![t] = "READY"][p] \notin {"CURRENT", "SUSPENDED"}
    BY <1>1, <1>2, <1>6, <1>7, <1>11 DEF Sending
  <1> HIDE DEF w2, w1, v1
  <1>19. /\ Core(y2, [w2 EXCEPT ![t] = "READY"]) /\ Keeps(y1, y2, {"st", "ready"})
         /\ y2.st = [y1.st EXCEPT ![t] = "READY"]
    BY <1>17, <1>18, ReadyI
  <1>20. y2.ready = prio_insert(k1.ready, t, k1.prio)
    <2>1. DOMAIN y1 = Fields
      BY <1>11 DEF Keeps
    <2>2. y2.ready = prio_insert(y1.ready, t, y1.prio)
      BY <2>1 DEF chSchReadyI, Fields
    <2> QED BY <2>2, <1>11
  <1> HIDE DEF y2
  <1>21. chSchGoSleepS(k2, "SNDMSGQ", cont) = SwitchToFirst(z)
    <2>1. k2.cur = c
      BY <1>10 DEF chSchReadyI, Fields
    <2> HIDE DEF k2
    <2> QED BY <2>1 DEF chSchGoSleepS
  <1>22. DOMAIN k2 = Fields /\ Keeps(k1, k2, {"st", "ready"}) /\ k2.st = [x.st EXCEPT ![t] = "READY"]
         /\ k2.ready = prio_insert(k1.ready, t, k1.prio) /\ k2.preempt = x.preempt /\ k2.cont = x.cont
    BY <1>10 DEF chSchReadyI, Keeps, Fields
  <1> HIDE DEF k2
  <1>23. /\ Keeps(k2, z, {"st", "preempt", "cont"}) /\ z.st = [k2.st EXCEPT ![c] = "SNDMSGQ"]
         /\ z.preempt = y1.preempt /\ z.cont = y1.cont /\ z.ready = y2.ready
    BY <1>11, <1>20, <1>22 DEF Keeps, Fields
  <1> HIDE DEF z
  <1>24. z.st = y2.st
    BY <1>1, <1>2, <1>7, <1>11, <1>19, <1>22, <1>23 DEF Sending
  <1>25. Keeps(y2, z, Inert) /\ z.cur = y2.cur /\ z.prio = y2.prio /\ z.systime = y2.systime
         /\ z.preempt = y2.preempt
    BY <1>11, <1>19, <1>22, <1>23 DEF Keeps, Fields, Inert
  <1>26. Core(z, [w2 EXCEPT ![t] = "READY"])
    BY <1>19, <1>24, <1>25, CoreShape, CoreFrame DEF IDLEPRIO
  <1>27. Good(SwitchToFirst(z))
    BY <1>18, <1>19, <1>24, <1>26, SwitchGood
  <1> QED BY <1>21, <1>27 DEF k2

LEMMA MsgSendGood ==
  ASSUME NEW x, Calling(x), NEW t \in All, t # x.cur, x.st[t] # "FINAL", NEW m
  PROVE  Good(chMsgSend(x, t, m))
  <1> DEFINE k1 == [x EXCEPT !.msg[x.cur] = m, !.u[x.cur] = Obj(t), !.q[t] = queue_insert(@, x.cur)]
             cont == [fn |-> "send"]
  <1>1. DOMAIN x = Fields
    BY CallingFacts, CoreShape
  <1>2. Keeps(x, k1, {"u", "q", "msg"}) /\ Upd(x.u, k1.u, x.cur, Obj(t))
        /\ Upd(x.q, k1.q, t, Append(x.q[t], x.cur))
    BY <1>1 DEF Keeps, Fields, Upd, queue_insert
  <1>3. chMsgSend(x, t, m) = IF x.st[t] = "WTMSG" THEN chSchGoSleepS(chSchReadyI(k1, t), "SNDMSGQ", cont)
                             ELSE chSchGoSleepS(k1, "SNDMSGQ", cont)
    BY DEF chMsgSend
  <1> HIDE DEF k1
  <1>4. x.st[t] = "WTMSG" => Good(chSchGoSleepS(chSchReadyI(k1, t), "SNDMSGQ", cont))
    BY <1>2, SendWaiting
  <1>5. x.st[t] # "WTMSG" => Good(chSchGoSleepS(k1, "SNDMSGQ", cont))
    BY <1>2, SendPlain
  <1> QED BY <1>3, <1>4, <1>5

LEMMA TakeSenderGood ==
  ASSUME NEW x, InCall(x), x.q[x.cur] # <<>>
  PROVE  Good(TakeSender(x))
  <1> DEFINE c == x.cur
             t == Head(x.q[c])
             y == [x EXCEPT !.q[c] = Tail(@), !.st[t] = "SNDMSG", !.cont[c] = NoCont]
             w == [x.st EXCEPT ![t] = "SNDMSG"]
  <1>1. c \in All /\ Core(x, x.st) /\ Unarmed(x, c) /\ DOMAIN x = Fields /\ Good(x)
    BY InCallFacts
  <1>2. /\ x.st \in [All -> States] /\ x.st[c] = "CURRENT"
        /\ \A p \in All : (x.st[p] = "CURRENT" <=> p = c) /\ x.st[p] # "SUSPENDED"
    BY <1>1, GoodShape
  <1>3. c \in WaitQueues
    BY <1>1 DEF WaitQueues
  <1>4. Exactly(x.q[c], Waiters(x, x.st, c))
    BY <1>1, <1>3 DEF Core, Queues
  <1>5. t \in Waiters(x, x.st, c) /\ Exactly(Tail(x.q[c]), Waiters(x, x.st, c) \ {t})
    BY <1>4, ExactTail
  <1>6. t \in All /\ x.u[t][2] = c /\ x.st[t] = "SNDMSGQ"
    BY <1>1, <1>5, SenderKind
  <1>7. c # t
    BY <1>2, <1>6
  <1>8. y = TakeSender(x)
    BY DEF TakeSender
  <1> HIDE DEF t, c
  <1>9. /\ Keeps(x, y, {"q", "st", "cont"}) /\ Upd(x.q, y.q, c, Tail(x.q[c]))
        /\ Upd(x.cont, y.cont, c, NoCont) /\ y.st = w /\ y.cur = x.cur
    BY <1>1 DEF Keeps, Fields, Upd
  <1>10. DOMAIN y.st = All /\ Upd(x.st, w, t, "SNDMSG")
         /\ \A p \in All : (w[p] = "CURRENT" <=> p = c) /\ w[p] # "SUSPENDED"
    BY <1>2, <1>6, <1>7, <1>9 DEF Upd
  <1> HIDE DEF y, w
  <1>11. Core(y, w)
    <2>1. \A i \in 1..Len(x.vt) : x.vt[i].par # c
      BY <1>1 DEF Unarmed
    <2> QED BY <1>1, <1>2, <1>5, <1>6, <1>7, <1>9, <1>10, <2>1, CoreSender
  <1>12. Good(y)
    BY <1>9, <1>10, <1>11 DEF Good, c
  <1> QED BY <1>8, <1>12

LEMMA MsgWaitGood ==
  ASSUME NEW x, Calling(x)
  PROVE  Good(chMsgWait(x))
  <1> DEFINE c == x.cur
             cont == [fn |-> "msgwait"]
  <1>1. /\ c \in All /\ c # Idle /\ Unarmed(x, c) /\ Doing(x, x.st, "CURRENT") /\ Core(x, x.st)
        /\ x.mtxlist[c] \in Seq(AllMutexes) /\ MoreOK(x.more[c]) /\ x.more[c].fn = "none"
    BY CallingFacts
  <1>2. CASE x.q[c] # <<>>
    BY <1>2, CallingIn, TakeSenderGood DEF chMsgWait
  <1>3. CASE x.q[c] = <<>>
    <2>1. Local("WTMSG", x.u[c], cont, x.q[c], x.waiting[c], x.epending[c], x.mtxlist[c], x.more[c],
                CH_TIME_QUANTUM)
      <3>1. CH_TIME_QUANTUM \in 0..CH_TIME_QUANTUM
        BY SchedAssumption
      <3>2. cont.fn = "msgwait" /\ ContOK(cont)
        BY DEF ContOK
      <3> HIDE DEF cont
      <3> QED BY <1>1, <1>3, <3>1, <3>2 DEF Local, Kind, Running, Sleeps
    <2>2. Keeps(x, x, {"u"}) /\ DOMAIN x.u = All
      BY <1>1, CoreShape DEF Keeps
    <2> HIDE DEF c, cont
    <2>3. Good(chSchGoSleepTimeoutS(x, "WTMSG", TIME_INFINITE, cont))
      <3>1. c = x.cur /\ TIME_INFINITE \in 1..(TimeMod - 1)
        BY SleepForever DEF c
      <3> QED BY <1>1, <2>1, <2>2, <3>1, SleepFree
    <2> QED BY <1>3, <2>3, SleepForever DEF chMsgWait, cont, c
  <1> QED BY <1>2, <1>3

LEMMA MsgReleaseGood ==
  ASSUME NEW x, Good(x), NEW t \in All, x.st[t] = "SNDMSG", NEW m
  PROVE  Good(chMsgRelease(x, t, m))
  BY RouseFree, WakeupS DEF chMsgRelease

-----------------------------------------------------------------------------
(***************************************************************************)
(* The start and the end of threads.                                       *)
(***************************************************************************)

\* y is the state x with the thread t initialised.
Made(x, y, t, prio) ==
    /\ Keeps(x, y, {"st", "prio", "rprio", "preempt", "mtxlist", "epending", "waiting", "q",
                    "cont", "refs", "ref0", "wa", "newer", "older"})
    /\ y.st = [x.st EXCEPT ![t] = "SUSPENDED"] /\ y.prio = [x.prio EXCEPT ![t] = prio]
    /\ y.rprio = [x.rprio EXCEPT ![t] = prio]
    /\ y.preempt = [x.preempt EXCEPT ![t] = CH_TIME_QUANTUM]
    /\ y.mtxlist = [x.mtxlist EXCEPT ![t] = <<>>]
    /\ y.epending = [x.epending EXCEPT ![t] = {}]
    /\ y.waiting = [x.waiting EXCEPT ![t] = <<>>] /\ y.q = [x.q EXCEPT ![t] = <<>>]
    /\ y.cont = [x.cont EXCEPT ![t] = NoCont]

LEMMA InitThreadFields ==
  ASSUME NEW x, DOMAIN x = Fields, NEW t, NEW prio, NEW wa
  PROVE  Made(x, InitThread(x, t, prio, wa), t, prio)
  <1> DEFINE a == _thread_init(x, t, prio)
             b == [a EXCEPT !.refs[t] = 1, !.ref0[t] = TRUE, !.wa[t] = wa]
             y == InitThread(x, t, prio, wa)
  <1>1. /\ Keeps(x, a, {"st", "prio", "rprio", "preempt", "mtxlist", "epending", "waiting", "q", "cont"})
        /\ a.st = [x.st EXCEPT ![t] = "SUSPENDED"] /\ a.prio = [x.prio EXCEPT ![t] = prio]
        /\ a.rprio = [x.rprio EXCEPT ![t] = prio]
        /\ a.preempt = [x.preempt EXCEPT ![t] = CH_TIME_QUANTUM]
        /\ a.mtxlist = [x.mtxlist EXCEPT ![t] = <<>>]
        /\ a.epending = [x.epending EXCEPT ![t] = {}]
        /\ a.waiting = [x.waiting EXCEPT ![t] = <<>>] /\ a.q = [x.q EXCEPT ![t] = <<>>]
        /\ a.cont = [x.cont EXCEPT ![t] = NoCont]
    BY DEF _thread_init, Keeps, Fields
  <1> HIDE DEF a
  <1>2. Keeps(a, b, {"refs", "ref0", "wa"})
    BY <1>1 DEF Keeps, Fields
  <1>3. y = REG_INSERT(b, t)
    BY DEF InitThread, a
  <1> HIDE DEF b, y
  <1>4. Keeps(b, y, {"newer", "older"})
    BY <1>2, <1>3 DEF REG_INSERT, Keeps, Fields
  <1>5. Made(x, y, t, prio)
    BY <1>1, <1>2, <1>4 DEF Keeps, Fields, Made
  <1> QED BY <1>5 DEF y

\* A thread is created and made ready.
LEMMA SpawnGood ==
  ASSUME NEW x, Good(x), NEW t \in Threads, x.st[t] = "FINAL",
         \A a \in All : ~ Reserves(x.more[a], t), NEW prio, NEW wa
  PROVE  Good(Spawn(x, t, prio, wa))
  <1> DEFINE y == InitThread(x, t, prio, wa)
             w == [x.st EXCEPT ![t] = "CURRENT"]
  <1>1. /\ Core(x, x.st) /\ x.st \in [All -> States] /\ x.cur \in All
        /\ \A p \in All : (x.st[p] = "CURRENT" <=> p = x.cur) /\ x.st[p] # "SUSPENDED"
    BY GoodShape
  <1>2. t \in All /\ t # Idle /\ t # x.cur
    BY <1>1, SchedAssumption DEF All
  <1>3. DOMAIN x = Fields /\ DOMAIN x.st = All /\ DOMAIN x.prio = All /\ x.prio[Idle] = IDLEPRIO
    BY <1>1, CoreShape DEF IDLEPRIO
  <1>4. /\ Keeps(x, y, {"st", "prio", "rprio", "preempt", "mtxlist", "epending", "waiting", "q",
                        "cont", "refs", "ref0", "wa", "newer", "older"})
        /\ y.st = [x.st EXCEPT ![t] = "SUSPENDED"] /\ y.prio = [x.prio EXCEPT ![t] = prio]
        /\ y.preempt = [x.preempt EXCEPT ![t] = CH_TIME_QUANTUM]
        /\ y.mtxlist = [x.mtxlist EXCEPT ![t] = <<>>]
        /\ y.epending = [x.epending EXCEPT ![t] = {}]
        /\ y.waiting = [x.waiting EXCEPT ![t] = <<>>] /\ y.q = [x.q EXCEPT ![t] = <<>>]
        /\ y.cont = [x.cont EXCEPT ![t] = NoCont]
    <2>1. Made(x, y, t, prio)
      BY <1>3, InitThreadFields
    <2> HIDE DEF y
    <2> QED BY <2>1 DEF Made
  <1>5. Spawn(x, t, prio, wa) = chSchWakeupS(y, t, "RDY_OK")
    BY DEF Spawn
  <1> HIDE DEF y
  <1>6. x.more[t].fn \notin {"alloc", "free"}
    <2>1. Local(x.st[t], x.u[t], x.cont[t], x.q[t], x.waiting[t], x.epending[t], x.mtxlist[t],
                x.more[t], x.preempt[t])
      BY <1>1, <1>2 DEF Core, Locals
    <2> QED BY <2>1, NoContFacts DEF Local, Running, Sleeps
  <1>7. DOMAIN y.st = All /\ DOMAIN y.prio = All /\ y.prio[Idle] = IDLEPRIO
    BY <1>2, <1>3, <1>4
  <1>8. Core(y, w)
    <2>1. w = [x.st EXCEPT ![t] = "CURRENT"] /\ t \in All \ {Idle}
      BY <1>2
    <2> HIDE DEF w
    <2> QED BY <1>1, <1>4, <1>6, <1>7, <2>1, CoreCreate
  <1>9. y.cur = x.cur /\ [y.st EXCEPT ![t] = "CURRENT"] = w
        /\ \A p \in All : p # t => (y.st[p] = "CURRENT" <=> p = y.cur) /\ y.st[p] # "SUSPENDED"
    BY <1>1, <1>4 DEF Keeps, Fields
  <1>10. Waking(y, t)
    BY <1>2, <1>8, <1>9 DEF Waking
  <1> QED BY <1>5, <1>10, WakeupS

\* When all threads of a list are ready again nothing is in between.
LEMMA MarkedGood ==
  ASSUME NEW x, NEW s, NEW M, Exactly(s, M), x.st \in [All -> States], x.cur \notin M,
         NEW v, v = [t \in All |-> IF t \in M THEN "CURRENT" ELSE x.st[t]],
         \A t \in All : (x.st[t] = "CURRENT" <=> t = x.cur) /\ x.st[t] # "SUSPENDED",
         NEW y, Marked(x, v, s, Len(s), y)
  PROVE  Good(y) /\ Keeps(x, y, {"st", "ready", "u"})
  <1>1. M \subseteq All
    BY ExactSub
  <1>3. Mark(v, M) = Mark(x.st, M)
    BY DEF Mark
  <1>9. Core(y, y.st) /\ y.st = Mark(x.st, M) /\ Keeps(x, y, {"st", "ready", "u"})
    BY <1>3, FirstAll DEF Marked
  <1>10. y.cur = x.cur
    BY <1>9 DEF Keeps, Fields
  <1>11. \A t \in All : (y.st[t] = "CURRENT" <=> t = y.cur) /\ y.st[t] # "SUSPENDED"
    BY <1>9, <1>10 DEF Mark
  <1> QED BY <1>9, <1>11 DEF Good

LEMMA ThdExitGood ==
  ASSUME NEW x, Calling(x), x.q[x.cur] = <<>>, NEW m
  PROVE  Good(chThdExitS(x, m))
  <1> DEFINE c == x.cur
             s == x.waiting[c]
             xu == [x EXCEPT !.u[c] = <<"exitcode", m>>]
             k1 == [x EXCEPT !.u[c] = <<"exitcode", m>>, !.waiting[c] = <<>>]
             g(a, i) == chSchReadyI(a, s[i])
             k2 == Fold(k1, Len(s), g)[Len(s)]
             k3 == IF x.wa[c] = Static THEN REG_REMOVE(k2, c) ELSE k2
             M == Joining(x, x.st, c)
  <1>1. /\ c \in All /\ c # Idle /\ Unarmed(x, c) /\ Core(x, x.st) /\ x.st[c] = "CURRENT"
        /\ x.mtxlist[c] \in Seq(AllMutexes)
    BY CallingFacts
  <1>2. /\ x.st \in [All -> States]
        /\ \A p \in All : (x.st[p] = "CURRENT" <=> p = x.cur) /\ x.st[p] # "SUSPENDED"
    BY GoodShape DEF Calling
  <1>3. chThdExitS(x, m) = chSchGoSleepS(k3, "FINAL", NoCont)
    BY DEF chThdExitS, Fold
  <1>4. DOMAIN x = Fields /\ DOMAIN x.waiting = All
    BY <1>1, CoreShape
  <1>5. Keeps(x, xu, {"u"}) /\ xu.u = [x.u EXCEPT ![c] = <<"exitcode", m>>]
    BY <1>4 DEF Keeps, Fields
  <1>6. Keeps(xu, k1, {"waiting"}) /\ Upd(xu.waiting, k1.waiting, c, <<>>)
    BY <1>4 DEF Keeps, Fields, Upd
  <1> HIDE DEF xu, k1
  <1>7. Core(xu, x.st) /\ xu.cont = x.cont
    <2>1. Core(xu, x.st)
      BY <1>1, <1>5, SetMsg
    <2> QED BY <2>1, <1>5 DEF Keeps, Fields
  <1>8. Joining(xu, x.st, c) = M
    BY <1>7 DEF Joining
  <1>9. Core(k1, [t \in All |-> IF t \in M THEN "CURRENT" ELSE x.st[t]])
    <2> DEFINE w == [t \in All |-> IF t \in Joining(xu, x.st, c) THEN "CURRENT" ELSE x.st[t]]
    <2>1. w = [t \in All |-> IF t \in Joining(xu, x.st, c) THEN "CURRENT" ELSE x.st[t]]
      OBVIOUS
    <2> HIDE DEF w
    <2>2. Core(k1, w)
      BY <1>1, <1>6, <1>7, <2>1, CoreJoined
    <2> QED BY <2>2, <1>8 DEF w
  <1>10. Exactly(s, M) /\ c \notin M
    BY <1>1 DEF Core, Queues, Joining
  <1>11. k1.st = x.st /\ k1.cur = c /\ Keeps(x, k1, {"u", "waiting"})
         /\ k1.waiting = [x.waiting EXCEPT ![c] = <<>>]
    BY <1>5, <1>6 DEF Keeps, Fields, Upd
  <1>12. Good(k2) /\ Keeps(k1, k2, {"st", "ready", "u"})
    <2> DEFINE v == [t \in All |-> IF t \in M THEN "CURRENT" ELSE k1.st[t]]
               P(i, a) == Marked(k1, v, s, i, a)
               N == Len(s)
    <2>1. M \subseteq All /\ N \in Nat
      BY <1>10, ExactSub
    <2>2. Core(k1, v) /\ \A t \in M : v[t] = "CURRENT"
      BY <1>9, <1>11, <2>1
    <2>3. k1.st \in [All -> States] /\ k1.cur \notin M
          /\ \A t \in All : (k1.st[t] = "CURRENT" <=> t = k1.cur) /\ k1.st[t] # "SUSPENDED"
      BY <1>2, <1>10, <1>11
    <2>4. v = [t \in All |-> IF t \in M THEN "CURRENT" ELSE k1.st[t]]
      OBVIOUS
    <2> HIDE DEF v, s, M
    <2>5. P(0, k1)
      BY <2>2, <2>3, MarkStart
    <2>6. \A i \in 1..N : \A a : P(i - 1, a) => P(i, g(a, i))
      BY <1>10, <2>2, MarkTurn
    <2> HIDE DEF N
    <2>7. FoldKeeps(k1, N, g, P)
      <3> HIDE DEF P, g
      <3> QED BY <2>1, FoldKept
    <2>8. P(N, Fold(k1, N, g)[N])
      <3> HIDE DEF P, g
      <3> QED BY <2>5, <2>6, <2>7 DEF FoldKeeps
    <2>9. Marked(k1, v, s, Len(s), k2)
      BY <2>8 DEF N
    <2> QED BY <1>10, <2>3, <2>4, <2>9, MarkedGood
  <1> HIDE DEF k2, g
  <1>13. Good(k3) /\ Keeps(k2, k3, {"newer", "older"})
    <2>1. DOMAIN k2 = Fields
      BY <1>12, GoodShape, CoreShape
    <2>2. Keeps(k2, k3, {"newer", "older"})
      BY <2>1 DEF REG_REMOVE, Unlink1, Unlink2, Keeps, Fields
    <2> HIDE DEF k3
    <2>3. Keeps(k2, k3, Inert \ {"cur", "st", "prio", "preempt", "systime"})
      BY <2>2 DEF Keeps, Inert
    <2> QED BY <1>12, <2>2, <2>3, GoodInert
  <1> HIDE DEF k3
  <1>14. /\ k3.cur = c /\ k3.vt = x.vt /\ k3.more = x.more /\ k3.q = x.q /\ k3.waiting = k1.waiting
         /\ k3.mtxlist = x.mtxlist
    BY <1>11, <1>12, <1>13 DEF Keeps, Fields
  <1>15. k3.waiting[c] = <<>> /\ k3.q[c] = <<>> /\ k3.more[c] = NoCont
    BY <1>1, <1>4, <1>11, <1>14 DEF Calling
  <1>16. Local("FINAL", k3.u[c], NoCont, k3.q[c], k3.waiting[c], k3.epending[c], k3.mtxlist[c], k3.more[c],
               CH_TIME_QUANTUM)
    <2>1. CH_TIME_QUANTUM \in 0..CH_TIME_QUANTUM
      BY SchedAssumption
    <2> QED BY <1>1, <1>14, <1>15, <2>1, NoContFacts DEF Local, Kind, Running
  <1>17. Doing(k3, k3.st, "CURRENT") /\ Keeps(k3, k3, {"u"}) /\ DOMAIN k3.u = All /\ Unarmed(k3, c)
    <2>1. Core(k3, k3.st)
      BY <1>13, GoodShape
    <2> QED BY <1>1, <1>13, <1>14, <2>1, DoingGood, CoreShape DEF Keeps, Unarmed
  <1>18. Good(chSchGoSleepTimeoutS(k3, "FINAL", TIME_INFINITE, NoCont))
    <2>1. c = k3.cur /\ TIME_INFINITE \in 1..(TimeMod - 1)
      BY <1>14, SleepForever
    <2> HIDE DEF c
    <2> QED BY <1>1, <1>16, <1>17, <2>1, SleepFree
  <1> QED BY <1>3, <1>18, SleepForever

-----------------------------------------------------------------------------
(***************************************************************************)
(* What a thread still has to do of a call of several sections.            *)
(***************************************************************************)

Quiet == Inert \ {"cur", "st", "prio", "rprio", "preempt", "systime"}

LEMMA InCallInert ==
  ASSUME NEW x, InCall(x), NEW y, Keeps(x, y, Quiet)
  PROVE  InCall(y) /\ Same(x, y) /\ y.mtxlist = x.mtxlist /\ y.st = x.st
  <1>1. Good(y) /\ Same(x, y)
    <2>1. Keeps(x, y, Inert \ {"cur", "st", "prio", "preempt", "systime"})
      BY DEF Keeps, Quiet, Inert, Fields
    <2>2. Good(x)
      BY DEF InCall
    <2> QED BY <2>1, <2>2, GoodInert
  <1>2. y.mtxlist = x.mtxlist /\ y.st = x.st
    BY DEF Keeps, Quiet, Inert, Fields
  <1> QED BY <1>1, <1>2 DEF InCall, Same, Unarmed

LEMMA ThenGood ==
  ASSUME NEW x, InCall(x), NEW m, MoreOK(m),
         m.fn \in {"alloc", "free"} => x.mtxlist[x.cur] # <<>>, Claims(m, x.more, x.st, x.cur)
  PROVE  InCall(Then(x, m))
  <1> DEFINE y == Then(x, m)
  <1>1. DOMAIN x = Fields
    BY InCallFacts
  <1>2. Keeps(x, y, {"more"}) /\ Upd(x.more, y.more, x.cur, m)
    BY <1>1 DEF Then, Keeps, Fields, Upd
  <1> HIDE DEF y
  <1>3. Keeps(x, y, {"cont", "more"}) /\ y.cont = x.cont
    BY <1>2 DEF Keeps, Fields
  <1>4. InCall(y)
    BY <1>2, <1>3, RunGood
  <1> QED BY <1>4 DEF y

\* Nothing is left to do.
LEMMA ThenDone ==
  ASSUME NEW x, InCall(x)
  PROVE  InCall(Then(x, NoCont))
  <1>1. MoreOK(NoCont) /\ NoCont.fn = "none"
    BY NoContFacts
  <1>2. Claims(NoCont, x.more, x.st, x.cur)
    BY <1>1, NoClaims
  <1> QED BY <1>1, <1>2, ThenGood

\* A section of the calls that take a thread pointer is left.
LEMMA ThenThread ==
  ASSUME NEW x, InCall(x), NEW m, "fn" \in DOMAIN m, m.fn \in {"release", "unlink1", "unlink2", "mem"}
  PROVE  InCall(Then(x, m))
  <1>1. MoreOK(m)
    BY DEF MoreOK, MemFns
  <1>2. Claims(m, x.more, x.st, x.cur)
    BY NoClaims
  <1> QED BY <1>1, <1>2, ThenGood

LEMMA ThdWaitGood ==
  ASSUME NEW x, Calling(x), NEW t \in All, t # x.cur
  PROVE  Good(chThdWait(x, t))
  <1> DEFINE c == x.cur
             m == [fn |-> "release", tp |-> t]
             y == Then(x, m)
             k1 == [x EXCEPT !.more[x.cur] = [fn |-> "release", tp |-> t], !.ref0[t] = FALSE]
             k2 == [k1 EXCEPT !.waiting[t] = list_insert(@, c)]
             cont == [fn |-> "join", tp |-> t]
  <1>1. InCall(x) /\ DOMAIN x = Fields
    BY CallingIn, InCallFacts
  <1>2. InCall(y)
    BY <1>1, ThenThread
  <1>3. Keeps(y, k1, {"ref0"}) /\ k1.st = x.st /\ k1.cur = c /\ k1.waiting = x.waiting
    BY <1>1 DEF Then, Keeps, Fields
  <1>4. chThdWait(x, t) = IF x.st[t] = "FINAL" THEN k1 ELSE chSchGoSleepS(k2, "WTEXIT", cont)
    BY DEF chThdWait
  <1> HIDE DEF y, k1
  <1>5. InCall(k1)
    <2>1. Keeps(y, k1, Quiet)
      BY <1>3 DEF Keeps, Quiet, Inert
    <2> QED BY <1>2, <2>1, InCallInert
  <1>6. CASE x.st[t] = "FINAL"
    BY <1>4, <1>5, <1>6 DEF InCall
  <1>7. CASE x.st[t] # "FINAL"
    <2>1. /\ c \in All /\ c # Idle /\ Unarmed(k1, c) /\ Doing(k1, x.st, "CURRENT") /\ DOMAIN k1 = Fields
          /\ DOMAIN k1.waiting = All
      BY <1>3, <1>5, InCallFacts
    <2>2. /\ DOMAIN k1.u = All /\ DOMAIN k1.q = WaitQueues /\ DOMAIN k1.cnt = AllSems
          /\ \A o \in WaitQueues : Exactly(k1.q[o], Waiters(k1, x.st, o))
          /\ \A p \in All : Exactly(k1.waiting[p], Joining(k1, x.st, p)) /\ c \notin Joining(k1, x.st, p)
          /\ Local("CURRENT", k1.u[c], k1.cont[c], k1.q[c], k1.waiting[c], k1.epending[c],
                   k1.mtxlist[c], k1.more[c], k1.preempt[c])
          /\ Counters(k1.cnt, k1.q)
      BY <1>3, <2>1, DoingShape
    <2>3. Keeps(k1, k2, {"waiting"}) /\ Upd(k1.waiting, k2.waiting, t, list_insert(k1.waiting[t], c))
      BY <2>1 DEF Keeps, Fields, Upd
    <2>4. cont.fn = "join" /\ cont.tp = t /\ ContOK(cont)
      BY DEF ContOK
    <2> HIDE DEF k2, cont, c
    <2>5. Keeps(k1, k2, {"u", "q", "cnt", "waiting", "msg"}) /\ k2.u = k1.u /\ k2.q = k1.q /\ k2.cnt = k1.cnt
      BY <2>3 DEF Keeps, Fields
    <2>6. DOMAIN k2.waiting = All /\ k2.waiting[t] = list_insert(k1.waiting[t], c)
          /\ \A p \in All : p # t => k2.waiting[p] = k1.waiting[p]
      BY <2>1, <2>3 DEF Upd
    <2>7. PutIn(k1, x.st, c, "WTEXIT", k2.u[c], k2.q)
      BY <2>2, <2>5 DEF PutIn, Queued
    <2>8. PutOn(k1, x.st, c, "WTEXIT", cont, k2.waiting)
      <3>1. Exactly(list_insert(k1.waiting[t], c), Joining(k1, x.st, t) \cup {c})
        BY <2>1, <2>2, ExactFront
      <3> QED BY <2>2, <2>4, <2>6, <3>1 DEF PutOn
    <2>9. PutOther(k1, x.st, c, k2.q, k2.waiting)
      BY <1>7, <2>5, <2>6 DEF PutOther
    <2>10. k2.waiting[c] = k1.waiting[c]
      BY <2>1, <2>6 DEF c
    <2>11. x.more[c].fn = "none" /\ k1.more[c].fn = "release"
      <3>1. x.more[c].fn = "none" /\ DOMAIN x.more = All
        BY <1>1, CallingFacts, InCallFacts DEF c
      <3> QED BY <2>1, <3>1, <1>1 DEF k1, Fields, c
    <2>12. Local("WTEXIT", k2.u[c], cont, k2.q[c], k2.waiting[c], k1.epending[c], k1.mtxlist[c],
                k1.more[c], CH_TIME_QUANTUM)
      <3>1. CH_TIME_QUANTUM \in 0..CH_TIME_QUANTUM
        BY SchedAssumption
      <3> QED BY <2>2, <2>4, <2>11, <3>1 DEF Local, Kind, Running, Sleeps
    <2>13. Good(chSchGoSleepTimeoutS(k2, "WTEXIT", TIME_INFINITE, cont))
      <3> DEFINE s == "WTEXIT"
      <3>1. s \in States \ (Running \cup {"SUSPENDED"})
        BY DEF States, Running
      <3>2. PutIn(k1, x.st, c, s, k2.u[c], k2.q) /\ PutOn(k1, x.st, c, s, cont, k2.waiting)
            /\ Local(s, k2.u[c], cont, k2.q[c], k2.waiting[c], k1.epending[c], k1.mtxlist[c],
                k1.more[c], CH_TIME_QUANTUM)
        BY <2>7, <2>8, <2>12
      <3>3. TIME_INFINITE \in 1..(TimeMod - 1) /\ c = k1.cur /\ Counters(k2.cnt, k2.q)
            /\ DOMAIN k2.u = All /\ DOMAIN k2.q = WaitQueues /\ DOMAIN k2.cnt = AllSems
            /\ \A p \in All : p # c => k2.u[p] = k1.u[p]
        BY <1>3, <2>2, <2>5, SleepForever DEF c
      <3> HIDE DEF s
      <3>4. Good(chSchGoSleepTimeoutS(k2, s, TIME_INFINITE, cont))
        BY ONLY <2>1, <2>5, <2>6, <2>9, <3>1, <3>2, <3>3, GoSleep
      <3> QED BY <3>4 DEF s
    <2> QED BY <1>4, <1>7, <2>13, SleepForever DEF k2, cont, c
  <1> QED BY <1>6, <1>7

LEMMA ThenFields ==
  ASSUME NEW x, InCall(x), NEW m
  PROVE  /\ Keeps(x, Then(x, m), {"more"}) /\ Then(x, m).cur = x.cur /\ Then(x, m).st = x.st
         /\ Then(x, m).mtxlist = x.mtxlist /\ Then(x, m).cont = x.cont /\ Then(x, m).vt = x.vt
         /\ Then(x, m).owner = x.owner /\ Then(x, m).epending = x.epending
         /\ DOMAIN Then(x, m).more = All /\ Then(x, m).more[x.cur] = m
         /\ \A a \in All : a # x.cur => Then(x, m).more[a] = x.more[a]
  <1>1. DOMAIN x = Fields /\ DOMAIN x.more = All /\ x.cur \in All
    BY InCallFacts
  <1> QED BY <1>1 DEF Then, Keeps, Fields

LEMMA RegFirstGood ==
  ASSUME NEW x, InCall(x)
  PROVE  Good(chRegFirstThread(x))
  <1> DEFINE y == chRegFirstThread(x)
  <1>1. DOMAIN x = Fields
    BY InCallFacts
  <1>2. Keeps(x, y, {"scan", "refs"})
    BY <1>1 DEF chRegFirstThread, chThdAddRef, Keeps, Fields
  <1> HIDE DEF y
  <1>3. Keeps(x, y, Quiet)
    BY <1>2 DEF Keeps, Quiet, Inert
  <1>4. Good(y)
    BY <1>3, InCallInert DEF InCall
  <1> QED BY <1>4 DEF y

LEMMA RegNextGood ==
  ASSUME NEW x, InCall(x)
  PROVE  Good(chRegNextThread(x))
  <1> DEFINE m == [fn |-> "release", tp |-> x.scan[x.cur]]
             k1 == [x EXCEPT !.more[x.cur] = [fn |-> "release", tp |-> x.scan[x.cur]]]
             y == chRegNextThread(x)
  <1>1. InCall(Then(x, m))
    BY ThenThread
  <1>2. k1 = Then(x, m)
    BY DEF Then
  <1> HIDE DEF m
  <1>3. DOMAIN Then(x, m) = Fields
    BY <1>1, InCallFacts
  <1>4. y = IF x.newer[x.scan[x.cur]] = "rlist" THEN [k1 EXCEPT !.scan[x.cur] = NoThread]
            ELSE chThdAddRef([k1 EXCEPT !.scan[x.cur] = x.newer[x.scan[x.cur]]], x.newer[x.scan[x.cur]])
    BY DEF chRegNextThread
  <1> HIDE DEF y, k1
  <1>5. Keeps(k1, y, {"scan", "refs"})
    BY <1>2, <1>3, <1>4 DEF chThdAddRef, Keeps, Fields
  <1>6. Keeps(k1, y, Quiet)
    BY <1>5 DEF Keeps, Quiet, Inert
  <1>7. Good(y)
    BY <1>1, <1>2, <1>6, InCallInert DEF InCall
  <1> QED BY <1>7 DEF y

LEMMA ThdReleaseGood ==
  ASSUME NEW x, InCall(x), NEW t
  PROVE  Good(chThdRelease(x, t))
  <1> DEFINE k1 == [x EXCEPT !.refs[t] = (@ - 1) % 256]
             b == k1.refs[t] = 0 /\ x.st[t] = "FINAL" /\ x.wa[t] # Static
  <1>1. DOMAIN x = Fields
    BY InCallFacts
  <1>2. Keeps(x, k1, Quiet)
    BY <1>1 DEF Keeps, Fields, Quiet, Inert
  <1>3. chThdRelease(x, t) = Then(k1, IF b THEN [fn |-> "unlink1", tp |-> t] ELSE NoCont)
    BY DEF chThdRelease
  <1> HIDE DEF k1, b
  <1>4. InCall(k1)
    BY <1>2, InCallInert
  <1>5. CASE b
    <2>1. InCall(Then(k1, [fn |-> "unlink1", tp |-> t]))
      BY <1>4, ThenThread
    <2> QED BY <1>3, <1>5, <2>1 DEF InCall
  <1>6. CASE ~ b
    <2>1. InCall(Then(k1, NoCont))
      BY <1>4, ThenDone
    <2> QED BY <1>3, <1>6, <2>1 DEF InCall
  <1> QED BY <1>5, <1>6

LEMMA UnlinkGood ==
  ASSUME NEW x, InCall(x), NEW t, NEW m, "fn" \in DOMAIN m, m.fn \in {"unlink2", "mem"}
  PROVE  Good(Then(Unlink1(x, t), m)) /\ Good(Then(Unlink2(x, t), m))
  <1> DEFINE y == Unlink1(x, t)
             z == Unlink2(x, t)
  <1>1. DOMAIN x = Fields
    BY InCallFacts
  <1>2. Keeps(x, y, Quiet) /\ Keeps(x, z, Quiet)
    BY <1>1 DEF Unlink1, Unlink2, Keeps, Fields, Quiet, Inert
  <1> HIDE DEF y, z
  <1>3. InCall(y) /\ InCall(z)
    BY <1>2, InCallInert
  <1>4. InCall(Then(y, m)) /\ InCall(Then(z, m))
    BY <1>3, ThenThread
  <1> QED BY <1>4 DEF InCall, y, z

-----------------------------------------------------------------------------
(***************************************************************************)
(* Memory.                                                                 *)
(***************************************************************************)

\* An allocation is for data, or for a thread that the running one may create.
MayCreate(x, for) ==
    \/ for = ForData
    \/ /\ for.tp \in Threads /\ x.st[for.tp] = "FINAL"
       /\ \A b \in All \ {x.cur} : ~ Reserves(x.more[b], for.tp)

LEMMA ForDataFacts == ForData.tp \notin All
  BY NamesAssumption DEF ForData

LEMMA ClaimFor ==
  ASSUME NEW x, NEW for, MayCreate(x, for), NEW m, m.for = for
  PROVE  Claims(m, x.more, x.st, x.cur)
  BY DEF MayCreate, Claims, Reserves

\* The thread that a section names is still to be created by it alone.
LEMMA StillMay ==
  ASSUME NEW x, InCall(x), x.more[x.cur].fn \in {"alloc", "core", "spawn"}
  PROVE  MayCreate(x, x.more[x.cur].for)
  <1> DEFINE c == x.more[x.cur]
  <1>1. Reserved(x.more, x.st) /\ MoreOK(c) /\ x.cur \in All
    BY InCallFacts
  <1>2. c.for = ForData \/ c.for.tp \in Threads
    BY <1>1, NoContFacts DEF MoreOK
  <1>3. ASSUME c.for # ForData PROVE MayCreate(x, c.for)
    <2>1. Reserves(c, c.for.tp) /\ c.for.tp \in Threads /\ c.for.tp \in All
      BY <1>2, <1>3 DEF Reserves, All
    <2>2. x.st[c.for.tp] = "FINAL" /\ \A b \in All : Reserves(x.more[b], c.for.tp) => b = x.cur
      BY <1>1, <2>1 DEF Reserved
    <2> QED BY <2>1, <2>2 DEF MayCreate
  <1> QED BY <1>3 DEF MayCreate

LEMMA MayInert ==
  ASSUME NEW x, InCall(x), NEW for, MayCreate(x, for), NEW y, Keeps(x, y, Quiet)
  PROVE  MayCreate(y, for)
  <1>1. y.st = x.st /\ y.cur = x.cur /\ y.more = x.more
    BY InCallInert DEF Same
  <1> QED BY <1>1 DEF MayCreate

LEMMA DeliverGood ==
  ASSUME NEW x, InCall(x), NEW mem, NEW for, MayCreate(x, for)
  PROVE  /\ InCall(Deliver(x, mem, for)) /\ Deliver(x, mem, for).cur = x.cur
         /\ Deliver(x, mem, for).mtxlist = x.mtxlist
         /\ Deliver(x, mem, for).more[x.cur].fn \notin {"alloc", "free"}
  <1>1. /\ InCall(Then(x, NoCont)) /\ Then(x, NoCont).mtxlist = x.mtxlist /\ Then(x, NoCont).cur = x.cur
        /\ Then(x, NoCont).more[x.cur] = NoCont
    BY ThenDone, ThenFields
  <1>2. CASE mem = NoMem
    BY <1>1, <1>2, NoContFacts DEF Deliver
  <1>3. CASE mem # NoMem /\ for = ForData
    <2> DEFINE y == Then(x, NoCont)
               z == [y EXCEPT !.hold[x.cur] = @ \cup {mem}]
    <2>1. Deliver(x, mem, for) = z
      BY <1>3 DEF Deliver
    <2> HIDE DEF y
    <2>2. DOMAIN y = Fields /\ InCall(y) /\ y.more[x.cur] = NoCont /\ y.mtxlist = x.mtxlist /\ y.cur = x.cur
      BY <1>1, InCallFacts DEF y
    <2>3. Keeps(y, z, Quiet)
      BY <2>2 DEF Keeps, Fields, Quiet, Inert
    <2> HIDE DEF z
    <2>4. InCall(z) /\ Same(y, z) /\ z.mtxlist = y.mtxlist
      BY <2>2, <2>3, InCallInert
    <2> QED BY <2>1, <2>2, <2>4, NoContFacts DEF Same
  <1>4. CASE mem # NoMem /\ for # ForData
    <2> DEFINE m == [fn |-> "spawn", for |-> for, mem |-> mem]
    <2>1. Deliver(x, mem, for) = Then(x, m)
      BY <1>4 DEF Deliver
    <2>2. m.fn = "spawn" /\ m.for = for /\ "fn" \in DOMAIN m /\ "for" \in DOMAIN m
      OBVIOUS
    <2> HIDE DEF m
    <2>3. for.tp \in Threads
      BY <1>4 DEF MayCreate
    <2>4. MoreOK(m)
      BY <2>2, <2>3 DEF MoreOK, MemFns
    <2>5. Claims(m, x.more, x.st, x.cur)
      BY <2>2, ClaimFor
    <2>6. InCall(Then(x, m))
      BY <2>2, <2>4, <2>5, ThenGood
    <2> QED BY <2>1, <2>2, <2>6, ThenFields
  <1> QED BY <1>2, <1>3, <1>4

\* An allocation changes the memory only.
LEMMA AllocQuiet ==
  ASSUME NEW x, InCall(x), NEW size
  PROVE  /\ Keeps(x, chCoreAllocI(x, size)[1], Quiet) /\ Keeps(x, FirstFit(x, size)[1], Quiet)
         /\ Keeps(x, chPoolAllocI(x)[1], Quiet)
  <1>1. DOMAIN x = Fields
    BY InCallFacts
  <1>2. Keeps(x, x, Quiet)
    BY <1>1 DEF Keeps
  <1>3. ASSUME NEW n PROVE Keeps(x, chCoreAllocI(x, n)[1], Quiet)
    <2>1. \A a : Keeps(x, [x EXCEPT !.nextmem = a], Quiet)
      BY <1>1 DEF Keeps, Fields, Quiet, Inert
    <2> QED BY <1>2, <2>1 DEF chCoreAllocI
  <1>4. Keeps(x, FirstFit(x, size)[1], Quiet)
    <2>1. \A a : Keeps(x, [x EXCEPT !.free = a], Quiet)
      BY <1>1 DEF Keeps, Fields, Quiet, Inert
    <2> QED BY <1>2, <2>1 DEF FirstFit
  <1>5. Keeps(x, chPoolAllocI(x)[1], Quiet)
    <2>1. \A a : Keeps(x, [x EXCEPT !.pool = a], Quiet)
      BY <1>1 DEF Keeps, Fields, Quiet, Inert
    <2> QED BY <1>3, <2>1 DEF chPoolAllocI
  <1> QED BY <1>3, <1>4, <1>5

LEMMA GiveMemory ==
  ASSUME NEW x, InCall(x), NEW for, MayCreate(x, for), NEW y, Keeps(x, y, Quiet), NEW mem
  PROVE  Good(Deliver(y, mem, for))
  <1>1. InCall(y) /\ MayCreate(y, for)
    BY InCallInert, MayInert
  <1> QED BY <1>1, DeliverGood DEF InCall

LEMMA PoolAllocGood ==
  ASSUME NEW x, InCall(x), NEW for, MayCreate(x, for)
  PROVE  Good(chPoolAlloc(x, for))
  <1>1. Keeps(x, chPoolAllocI(x)[1], Quiet)
    BY AllocQuiet
  <1> QED BY <1>1, GiveMemory DEF chPoolAlloc

LEMMA CoreAllocGood ==
  ASSUME NEW x, InCall(x), NEW for, MayCreate(x, for), NEW n
  PROVE  Good(Deliver(chCoreAllocI(x, n)[1], chCoreAllocI(x, n)[2], for))
  <1>1. Keeps(x, chCoreAllocI(x, n)[1], Quiet)
    BY AllocQuiet
  <1> QED BY <1>1, GiveMemory

LEMMA PoolFreeGood ==
  ASSUME NEW x, InCall(x), NEW b
  PROVE  Good(chPoolFree(x, b))
  <1> DEFINE y == chPoolFreeI(x, b)
  <1>1. DOMAIN x = Fields
    BY InCallFacts
  <1>2. Keeps(x, y, Quiet)
    BY <1>1 DEF chPoolFreeI, Keeps, Fields, Quiet, Inert
  <1> HIDE DEF y
  <1>3. InCall(y)
    BY <1>2, InCallInert
  <1>4. InCall(Then(y, NoCont))
    BY <1>3, ThenDone
  <1> QED BY <1>4 DEF InCall, chPoolFree, y

\* The running thread goes for the mutex of the heap, with a section to do
\* under it.
LEMMA DoingForHeap ==
  ASSUME NEW x, InCall(x), x.cont[x.cur] = NoCont, NEW m, MoreOK(m), Claims(m, x.more, x.st, x.cur)
  PROVE  /\ Doing(Then(x, m), [x.st EXCEPT ![x.cur] = "SUSPENDED"], "SUSPENDED")
         /\ Then(x, m).cur # Idle /\ Unarmed(Then(x, m), Then(x, m).cur)
         /\ Then(x, m).cont[Then(x, m).cur] = NoCont /\ "h_mtx" \in AllMutexes
  <1> DEFINE c == x.cur
             y == Then(x, m)
             s == "SUSPENDED"
             v == [x.st EXCEPT ![c] = s]
  <1>1. /\ Good(x) /\ c \in All /\ c # Idle /\ Unarmed(x, c) /\ DOMAIN x.cont = All
        /\ DOMAIN x.mtxlist = All /\ DOMAIN x.epending = All
        /\ x.owner \in [AllMutexes -> Threads \cup {NoThread}]
    BY InCallFacts
  <1>2. Doing(x, v, s)
    BY <1>1, Suspend
  <1>3. /\ Keeps(x, y, {"more"}) /\ y.cur = c /\ y.mtxlist = x.mtxlist /\ y.cont = x.cont /\ y.vt = x.vt
        /\ y.owner = x.owner /\ y.epending = x.epending /\ DOMAIN y.more = All /\ y.more[c] = m
        /\ \A a \in All : a # c => y.more[a] = x.more[a]
    BY ThenFields
  <1>4. v \in [All -> States] /\ v[c] = s
    BY <1>1, <1>2, DoingShape
  <1>5. Claims(m, x.more, v, c)
    <2>1. x.st[c] = "CURRENT" /\ x.st \in [All -> States]
      BY <1>1, GoodShape
    <2> QED BY <2>1 DEF Claims
  <1>6. Local(s, x.u[c], x.cont[c], x.q[c], x.waiting[c], x.epending[c], x.mtxlist[c], m, x.preempt[c])
    <2>1. Local(s, x.u[c], x.cont[c], x.q[c], x.waiting[c], x.epending[c], x.mtxlist[c], x.more[c],
                x.preempt[c])
      BY <1>2, DoingShape
    <2> QED BY <2>1 DEF Local
  <1>7. Keeps(x, y, {"cont", "more", "mtxlist", "owner", "epending"})
    BY <1>3 DEF Keeps
  <1> HIDE DEF y, v, s, c
  <1>8. Doing(y, v, s)
    <2>1. c = x.cur
      BY DEF c
    <2> QED BY <1>1, <1>2, <1>3, <1>5, <1>6, <1>7, <2>1, DoingLocal
  <1>9. y.cur # Idle /\ Unarmed(y, y.cur) /\ y.cont[y.cur] = NoCont /\ "h_mtx" \in AllMutexes
    BY <1>1, <1>3 DEF Unarmed, AllMutexes, c
  <1> QED BY <1>8, <1>9 DEF y, v, s, c

LEMMA GoForHeap ==
  ASSUME NEW x, InCall(x), x.cont[x.cur] = NoCont, NEW m, MoreOK(m), Claims(m, x.more, x.st, x.cur)
  PROVE  Good(chMtxLockS(Then(x, m), "h_mtx"))
  BY DoingForHeap, LockGood

\* The calls of the heap with what they leave to do.
LEMMA HeapAllocMore ==
  ASSUME NEW x, InCall(x), NEW size, NEW for, MayCreate(x, for)
  PROVE  \E m : /\ chHeapAlloc(x, size, for) = chMtxLockS(Then(x, m), "h_mtx")
                /\ m.fn = "alloc" /\ m.for = for /\ MoreOK(m) /\ Claims(m, x.more, x.st, x.cur)
  <1> DEFINE m == [fn |-> "alloc", size |-> MEM_ALIGN_NEXT(size), for |-> for]
  <1>1. m.fn = "alloc" /\ m.for = for /\ "fn" \in DOMAIN m /\ "for" \in DOMAIN m
    OBVIOUS
  <1>2. chHeapAlloc(x, size, for) = chMtxLockS(Then(x, m), "h_mtx")
    BY DEF chHeapAlloc
  <1> HIDE DEF m
  <1>3. for = ForData \/ for.tp \in Threads
    BY DEF MayCreate
  <1>4. MoreOK(m)
    BY <1>1, <1>3 DEF MoreOK, MemFns
  <1>5. Claims(m, x.more, x.st, x.cur)
    BY <1>1, ClaimFor
  <1> QED BY <1>1, <1>2, <1>4, <1>5

LEMMA HeapFreeMore ==
  ASSUME NEW x, InCall(x), NEW mem
  PROVE  \E m : /\ chHeapFree(x, mem) = chMtxLockS(Then(x, m), "h_mtx")
                /\ m.fn = "free" /\ MoreOK(m) /\ Claims(m, x.more, x.st, x.cur)
  <1> DEFINE m == [fn |-> "free", mem |-> mem]
  <1>1. m.fn = "free" /\ "fn" \in DOMAIN m
    OBVIOUS
  <1>2. chHeapFree(x, mem) = chMtxLockS(Then(x, m), "h_mtx")
    BY DEF chHeapFree
  <1> HIDE DEF m
  <1>3. MoreOK(m)
    BY <1>1 DEF MoreOK, MemFns
  <1>4. Claims(m, x.more, x.st, x.cur)
    BY <1>1, NoClaims
  <1> QED BY <1>1, <1>2, <1>3, <1>4

LEMMA HeapAllocGood ==
  ASSUME NEW x, InCall(x), x.cont[x.cur] = NoCont, NEW size, NEW for, MayCreate(x, for)
  PROVE  Good(chHeapAlloc(x, size, for))
  BY HeapAllocMore, GoForHeap

LEMMA HeapFreeGood ==
  ASSUME NEW x, InCall(x), x.cont[x.cur] = NoCont, NEW mem
  PROVE  Good(chHeapFree(x, mem))
  BY HeapFreeMore, GoForHeap

\* The sections under the mutex.
AllocEnd(x, c) ==
    LET r == FirstFit(x, c.size)
    IN  IF r[2] = NoMem THEN Then(x, [c EXCEPT !.fn = "core"]) ELSE Deliver(r[1], r[2], c.for)
FreeEnd(x, c) == Then(PutBack(x, c.mem), NoCont)

\* z is ready to give the mutex back.
MayUnlock(z) == InCall(z) /\ z.more[z.cur].fn \notin {"alloc", "free"} /\ z.mtxlist[z.cur] # <<>>

LEMMA AllocEndMay ==
  ASSUME NEW x, InCall(x), x.more[x.cur].fn = "alloc"
  PROVE  MayUnlock(AllocEnd(x, x.more[x.cur]))
  <1> DEFINE c == x.more[x.cur]
             r == FirstFit(x, c.size)
             d == [c EXCEPT !.fn = "core"]
             y == Then(x, d)
             z == Deliver(r[1], r[2], c.for)
  <1>1. MayCreate(x, c.for) /\ x.mtxlist[x.cur] # <<>> /\ MoreOK(c)
    BY StillMay, InCallFacts
  <1>2. AllocEnd(x, c) = IF r[2] = NoMem THEN y ELSE z
    BY DEF AllocEnd
  <1>3. MayUnlock(y)
    <2>1. "fn" \in DOMAIN c /\ "for" \in DOMAIN c /\ (c.for.tp \in Threads \/ c.for = ForData)
      BY <1>1, NoContFacts DEF MoreOK
    <2>2. d.fn = "core" /\ d.for = c.for /\ "fn" \in DOMAIN d /\ "for" \in DOMAIN d
      BY <2>1
    <2> HIDE DEF d
    <2>3. MoreOK(d)
      BY <2>1, <2>2 DEF MoreOK, MemFns
    <2>4. Claims(d, x.more, x.st, x.cur)
      BY <1>1, <2>2, ClaimFor
    <2>5. InCall(y)
      BY <2>2, <2>3, <2>4, ThenGood
    <2>6. y.cur = x.cur /\ y.mtxlist = x.mtxlist /\ y.more[x.cur] = d
      BY ThenFields
    <2> HIDE DEF y
    <2>7. y.more[y.cur].fn \notin {"alloc", "free"} /\ y.mtxlist[y.cur] # <<>>
      BY <1>1, <2>2, <2>6
    <2> QED BY <2>5, <2>7 DEF MayUnlock
  <1>4. MayUnlock(z)
    <2>1. Keeps(x, r[1], Quiet)
      BY AllocQuiet
    <2> HIDE DEF r
    <2>2. InCall(r[1]) /\ MayCreate(r[1], c.for) /\ r[1].mtxlist = x.mtxlist /\ r[1].cur = x.cur
      BY <1>1, <2>1, InCallInert, MayInert DEF Same
    <2>3. /\ InCall(z) /\ z.cur = r[1].cur /\ z.mtxlist = r[1].mtxlist
          /\ z.more[r[1].cur].fn \notin {"alloc", "free"}
      BY <2>2, DeliverGood
    <2> HIDE DEF z
    <2> QED BY <1>1, <2>2, <2>3 DEF MayUnlock
  <1> QED BY <1>2, <1>3, <1>4

LEMMA FreeEndMay ==
  ASSUME NEW x, InCall(x), x.more[x.cur].fn = "free"
  PROVE  MayUnlock(FreeEnd(x, x.more[x.cur]))
  <1> DEFINE b == x.more[x.cur].mem
             y == PutBack(x, b)
             z == Then(y, NoCont)
  <1>1. x.mtxlist[x.cur] # <<>> /\ DOMAIN x = Fields
    BY InCallFacts
  <1>2. Keeps(x, y, Quiet)
    <2>1. \A a : Keeps(x, [x EXCEPT !.free = a], Quiet)
      BY <1>1 DEF Keeps, Fields, Quiet, Inert
    <2> QED BY <2>1 DEF PutBack
  <1>3. FreeEnd(x, x.more[x.cur]) = z
    BY DEF FreeEnd
  <1> HIDE DEF y
  <1>4. InCall(y) /\ y.mtxlist = x.mtxlist /\ y.cur = x.cur
    BY <1>2, InCallInert DEF Same
  <1>5. InCall(z) /\ z.mtxlist = y.mtxlist /\ z.cur = y.cur /\ z.more[y.cur] = NoCont
    BY <1>4, ThenDone, ThenFields
  <1> HIDE DEF z
  <1>6. z.more[z.cur].fn \notin {"alloc", "free"} /\ z.mtxlist[z.cur] # <<>>
    BY <1>1, <1>4, <1>5, NoContFacts
  <1> QED BY <1>3, <1>5, <1>6 DEF MayUnlock

LEMMA AllocLockedGood ==
  ASSUME NEW x, InCall(x), x.more[x.cur].fn = "alloc"
  PROVE  Good(AllocLocked(x, x.more[x.cur]))
  <1>1. AllocLocked(x, x.more[x.cur]) = chMtxUnlock(AllocEnd(x, x.more[x.cur]))
    BY DEF AllocLocked, AllocEnd
  <1> QED BY <1>1, AllocEndMay, HandOverGood DEF MayUnlock

LEMMA FreeLockedGood ==
  ASSUME NEW x, InCall(x), x.more[x.cur].fn = "free"
  PROVE  Good(FreeLocked(x, x.more[x.cur]))
  <1>1. FreeLocked(x, x.more[x.cur]) = chMtxUnlock(FreeEnd(x, x.more[x.cur]))
    BY DEF FreeLocked, FreeEnd
  <1> QED BY <1>1, FreeEndMay, HandOverGood DEF MayUnlock

LEMMA CreateLockedGood ==
  ASSUME NEW x, InCall(x), x.more[x.cur].fn = "spawn"
  PROVE  Good(CreateLocked(x, x.more[x.cur]))
  <1> DEFINE c == x.more[x.cur]
             t == c.for.tp
             y == Then(x, NoCont)
  <1>1. MayCreate(x, c.for) /\ MoreOK(c)
    BY StillMay, InCallFacts
  <1>2. c.for # ForData /\ t \in Threads
    BY <1>1, NoContFacts, ForDataFacts DEF MoreOK, All
  <1>3. x.st[t] = "FINAL" /\ \A b \in All \ {x.cur} : ~ Reserves(x.more[b], t)
    BY <1>1, <1>2 DEF MayCreate
  <1>4. InCall(y) /\ y.st = x.st /\ y.more[x.cur] = NoCont /\ \A a \in All : a # x.cur => y.more[a] = x.more[a]
    BY ThenDone, ThenFields
  <1> HIDE DEF y, t
  <1>5. \A a \in All : ~ Reserves(y.more[a], t)
    BY <1>3, <1>4, NoContFacts DEF Reserves
  <1>6. Good(Spawn(y, t, c.for.prio, [mode |-> c.for.mode, mem |-> c.mem]))
    BY <1>2, <1>3, <1>4, <1>5, SpawnGood DEF InCall
  <1> QED BY <1>6 DEF CreateLocked, y, t

LEMMA ReleaseMemGood ==
  ASSUME NEW x, InCall(x), x.cont[x.cur] = NoCont, NEW t
  PROVE  Good(ReleaseMem(x, t))
  <1> DEFINE y == [x EXCEPT !.wa[t] = Static]
  <1>1. DOMAIN x = Fields
    BY InCallFacts
  <1>2. Keeps(x, y, Quiet)
    BY <1>1 DEF Keeps, Fields, Quiet, Inert
  <1>3. ReleaseMem(x, t) = IF x.wa[t].mode = "HEAP" THEN chHeapFree(y, x.wa[t].mem)
                           ELSE chPoolFree(y, x.wa[t].mem)
    BY DEF ReleaseMem
  <1> HIDE DEF y
  <1>4. InCall(y) /\ y.cont[y.cur] = NoCont
    BY <1>2, InCallInert DEF Same
  <1> QED BY <1>3, <1>4, HeapFreeGood, PoolFreeGood

LEMMA MemStepGood ==
  ASSUME NEW x, InCall(x), x.cont[x.cur] = NoCont, x.more[x.cur].fn \in MemFns
  PROVE  Good(MemStep(x, x.more[x.cur]))
  <1> DEFINE c == x.more[x.cur]
  <1>1. MoreOK(c) /\ c # NoCont
    BY InCallFacts, NoContFacts DEF MemFns
  <1>2. "fn" \in DOMAIN c
    BY <1>1 DEF MoreOK
  <1>3. CASE c.fn = "alloc"
    BY <1>3, AllocLockedGood DEF MemStep
  <1>4. CASE c.fn = "core"
    <2>1. MayCreate(x, c.for)
      BY <1>4, StillMay
    <2>2. Good(AllocCore(x, c))
      BY <2>1, CoreAllocGood DEF AllocCore
    <2> QED BY <1>4, <2>2 DEF MemStep
  <1>5. CASE c.fn = "free"
    BY <1>5, FreeLockedGood DEF MemStep
  <1>6. CASE c.fn = "spawn"
    BY <1>6, CreateLockedGood DEF MemStep
  <1>7. CASE c.fn = "release"
    BY <1>7, ThdReleaseGood DEF MemStep
  <1>8. CASE c.fn = "unlink1"
    <2> DEFINE d == [c EXCEPT !.fn = "unlink2"]
    <2>1. "fn" \in DOMAIN d /\ d.fn = "unlink2"
      BY <1>2
    <2>2. Good(Then(Unlink1(x, c.tp), d))
      BY <2>1, UnlinkGood
    <2> QED BY <1>8, <2>2 DEF MemStep
  <1>9. CASE c.fn = "unlink2"
    <2> DEFINE d == [c EXCEPT !.fn = "mem"]
    <2>1. "fn" \in DOMAIN d /\ d.fn = "mem"
      BY <1>2
    <2>2. Good(Then(Unlink2(x, c.tp), d))
      BY <2>1, UnlinkGood
    <2> QED BY <1>9, <2>2 DEF MemStep
  <1>10. CASE c.fn = "mem"
    BY <1>10, ReleaseMemGood DEF MemStep
  <1> QED BY <1>3, <1>4, <1>5, <1>6, <1>7, <1>8, <1>9, <1>10 DEF MemFns

-----------------------------------------------------------------------------
(***************************************************************************)
(* The start.                                                              *)
(***************************************************************************)

LEMMA ExactNone ==
  ASSUME NEW M, M = {}
  PROVE  Exactly(<<>>, M)
  BY DEF Exactly, NoRepeats, Used

\* f has the value a everywhere.
Fill(f, S, a) == DOMAIN f = S /\ \A t \in S : f[t] = a

LEMMA ClearedFields ==
  /\ DOMAIN Cleared = Fields /\ Cleared.cur = Main /\ Cleared.ready = <<>>
  /\ Cleared.st = [t \in All |-> "FINAL"] /\ Cleared.prio = [t \in All |-> NOPRIO]
  /\ Cleared.rprio = [t \in All |-> NOPRIO]
  /\ Cleared.preempt = [t \in All |-> 0] /\ Cleared.u = [t \in All |-> Msg("RDY_OK")]
  /\ Fill(Cleared.waiting, All, <<>>) /\ Fill(Cleared.epending, All, {})
  /\ Fill(Cleared.mtxlist, All, <<>>) /\ Fill(Cleared.q, WaitQueues, <<>>)
  /\ Cleared.cnt = [s \in AllSems |-> chSemInit(s)] /\ Cleared.owner = [m \in AllMutexes |-> NoThread]
  /\ Cleared.vt = <<>> /\ Cleared.systime = 0 /\ Cleared.due = [t \in All |-> 0]
  /\ Fill(Cleared.cont, All, NoCont) /\ Cleared.more = [t \in All |-> NoCont]
  /\ Cleared.listeners = <<>> /\ Cleared.mb = chMBInit
  /\ Cleared.io = [x \in {"iq", "oq"} |-> IF x = "iq" THEN chIQInit ELSE chOQInit]
  <1>1. DOMAIN Cleared = Fields
    BY DEF Cleared, Fields
  <1> QED BY <1>1 DEF Cleared, queue_init, chMtxInit, chEvtInit, Fill

\* main() runs and the idle thread was just initialised.
Starting(x) ==
    /\ DOMAIN x = Fields /\ x.cur = Main /\ x.ready = <<>>
    /\ x.st = [t \in All |-> IF t = Main THEN "CURRENT" ELSE IF t = Idle THEN "SUSPENDED" ELSE "FINAL"]
    /\ DOMAIN x.prio = All /\ x.prio[Idle] = IDLEPRIO
    /\ x.preempt \in [All -> 0..CH_TIME_QUANTUM] /\ x.u = [t \in All |-> Msg("RDY_OK")]
    /\ Fill(x.waiting, All, <<>>) /\ Fill(x.epending, All, {})
    /\ Fill(x.mtxlist, All, <<>>) /\ Fill(x.q, WaitQueues, <<>>)
    /\ x.cnt = [s \in AllSems |-> chSemInit(s)] /\ x.owner = [m \in AllMutexes |-> NoThread]
    /\ x.vt = <<>> /\ x.systime = 0 /\ x.due = [t \in All |-> 0]
    /\ Fill(x.cont, All, NoCont) /\ x.more = [t \in All |-> NoCont]
    /\ x.listeners = <<>> /\ x.mb = chMBInit
    /\ x.io = [o \in {"iq", "oq"} |-> IF o = "iq" THEN chIQInit ELSE chOQInit]

LEMMA StartData == MBOK(chMBInit) /\ IOOK([o \in {"iq", "oq"} |-> IF o = "iq" THEN chIQInit ELSE chOQInit])
  <1>1. Size \in Nat \ {0}
    BY CommAssumption
  <1>2. MBOK(chMBInit)
    BY <1>1 DEF MBOK, chMBInit
  <1>3. QueueOK(chIQInit, TRUE)
    BY <1>1 DEF QueueOK, chIQInit
  <1>4. QueueOK(chOQInit, FALSE)
    BY <1>1 DEF QueueOK, chOQInit, chIQInit
  <1> QED BY <1>2, <1>3, <1>4 DEF IOOK

LEMMA StartingGood ==
  ASSUME NEW x, Starting(x)
  PROVE  Waking(x, Idle)
  <1> DEFINE v == [x.st EXCEPT ![Idle] = "CURRENT"]
  <1>1. Main \in All /\ Idle \in All /\ Main # Idle
    BY SchedAssumption, KernelAssumption DEF All
  <1>2. /\ v \in [All -> States] /\ v[Idle] = "CURRENT"
        /\ \A t \in All : v[t] \in {"CURRENT", "FINAL"}
    BY <1>1 DEF Starting, States
  <1>3. /\ x.cur = Main /\ \A p \in All : (p # Idle => (x.st[p] = "CURRENT" <=> p = x.cur) /\ x.st[p] # "SUSPENDED")
    BY <1>1 DEF Starting, Fill
  <1> HIDE DEF v
  <1>4. Shapes(x)
    <2>1. 0 \in Times
      BY SchedAssumption DEF Times
    <2> QED BY <1>1, <2>1 DEF Shapes, Starting, Fill
  <1>5. Queues(x, v)
    <2>1. AreReady(v) = {}
      BY <1>2 DEF AreReady
    <2>2. \A o : Waiters(x, v, o) = {}
      BY <1>2 DEF Waiters, Queued
    <2>3. \A p : Joining(x, v, p) = {}
      BY <1>2 DEF Joining
    <2>4. x.ready = <<>> /\ (\A o \in WaitQueues : x.q[o] = <<>>) /\ \A p \in All : x.waiting[p] = <<>>
      BY DEF Starting, Fill
    <2> QED BY <2>1, <2>2, <2>3, <2>4, ExactNone DEF Queues
  <1>6. Locals(x, v)
    <2> SUFFICES ASSUME NEW t \in All
                 PROVE  Local(v[t], x.u[t], x.cont[t], x.q[t], x.waiting[t], x.epending[t],
                              x.mtxlist[t], x.more[t], x.preempt[t])
      BY DEF Locals
    <2>1. /\ x.cont[t] = NoCont /\ x.more[t] = NoCont /\ x.waiting[t] = <<>> /\ x.mtxlist[t] = <<>>
          /\ x.preempt[t] \in 0..CH_TIME_QUANTUM
      BY DEF Starting, Fill
    <2>2. x.q[t] = <<>>
      BY DEF Starting, Fill, WaitQueues
    <2>3. v[t] \in {"CURRENT", "FINAL"}
      BY <1>2
    <2>4. <<>> \in Seq(AllMutexes)
      OBVIOUS
    <2> QED BY <2>1, <2>2, <2>3, <2>4, NoContFacts DEF Local, Kind, Running
  <1>7. Counters(x.cnt, x.q)
    <2> SUFFICES ASSUME NEW s \in AllSems
                 PROVE  x.cnt[s] \in Int /\ Len(x.q[s]) = IF x.cnt[s] < 0 THEN -x.cnt[s] ELSE 0
      BY DEF Counters
    <2>1. x.cnt[s] = chSemInit(s) /\ x.q[s] = <<>>
      BY DEF Starting, Fill, WaitQueues
    <2>2. chSemInit(s) \in Nat
      BY CommAssumption DEF chSemInit
    <2> QED BY <2>1, <2>2
  <1>8. Timers(x.vt, x.due, x.cont)
    <2>1. 0 \in Times
      BY SchedAssumption DEF Times
    <2>2. x.vt = <<>> /\ x.due = [t \in All |-> 0]
      BY DEF Starting, Fill
    <2>3. x.due \in [All -> Times] /\ Len(x.vt) = 0 /\ x.vt \in Seq([par : All, time : Times])
      BY <2>1, <2>2
    <2> QED BY <2>3 DEF Timers
  <1>9. Reserved(x.more, v)
    <2>1. \A t \in All : x.more[t].fn = "none"
      BY NoContFacts DEF Starting, Fill
    <2> QED BY <2>1 DEF Reserved, Reserves
  <1>10. x.owner \in [AllMutexes -> Threads \cup {NoThread}] /\ Listeners(x.listeners)
    <2>1. x.owner \in [AllMutexes -> Threads \cup {NoThread}]
      BY DEF Starting, Fill
    <2>2. x.listeners = <<>>
      BY DEF Starting, Fill
    <2>3. Listeners(x.listeners)
      BY <2>2 DEF Listeners
    <2> QED BY <2>1, <2>3
  <1>11. MBOK(x.mb) /\ IOOK(x.io)
    BY StartData DEF Starting, Fill
  <1>12. IdleOK(x.prio, v[Idle], x.cont[Idle], x.more[Idle])
    BY <1>1, <1>2 DEF IdleOK, Starting, Fill, Running
  <1>13. Core(x, v)
    BY <1>2, <1>4, <1>5, <1>6, <1>7, <1>8, <1>9, <1>10, <1>11, <1>12 DEF Core
  <1> QED BY <1>1, <1>3, <1>13 DEF Waking, v

LEMMA WakeupKeeps ==
  ASSUME NEW x, DOMAIN x = Fields, DOMAIN x.st = All, NEW t, NEW m, NEW y, y = chSchWakeupS(x, t, m)
  PROVE  /\ y.cont = x.cont /\ y.more = x.more
         /\ \A p \in All : p # t /\ p # x.cur => y.st[p] = x.st[p]
  <1> DEFINE a == [x EXCEPT !.u[t] = Msg(m)]
             z1 == chSchReadyI(a, t)
             z2 == chSchReadyI(a, x.cur)
             z3 == [z2 EXCEPT !.cur = t, !.st[t] = "CURRENT"]
  <1>1. DOMAIN a = Fields /\ a.st = x.st /\ a.cont = x.cont /\ a.more = x.more
    BY DEF Fields
  <1>2. y = IF x.prio[t] <= x.prio[x.cur] THEN z1 ELSE z3
    BY DEF chSchWakeupS
  <1> HIDE DEF a
  <1>3. DOMAIN z1 = Fields /\ z1.st = [x.st EXCEPT ![t] = "READY"] /\ z1.cont = x.cont /\ z1.more = x.more
    BY <1>1 DEF chSchReadyI, Fields
  <1>4. DOMAIN z2 = Fields /\ z2.st = [x.st EXCEPT ![x.cur] = "READY"] /\ z2.cont = x.cont /\ z2.more = x.more
    BY <1>1 DEF chSchReadyI, Fields
  <1> HIDE DEF z1, z2
  <1>5. z3.st = [z2.st EXCEPT ![t] = "CURRENT"] /\ z3.cont = x.cont /\ z3.more = x.more
    BY <1>4 DEF Fields
  <1> HIDE DEF z3
  <1>6. y \in {z1, z3}
    BY <1>2
  <1> QED BY <1>3, <1>4, <1>5, <1>6

LEMMA FillAgain ==
  ASSUME NEW f, NEW S, NEW a, Fill(f, S, a), NEW p, NEW g, Upd(f, g, p, a)
  PROVE  Fill(g, S, a)
  BY DEF Fill, Upd

\* The state in which chSysInit creates the idle thread.
LEMMA SysStart ==
  ASSUME app \in Apps
  PROVE  \E x : /\ Starting(x) /\ chSysInit = chSchWakeupS(x, Idle, "RDY_OK") /\ x.rprio = x.prio
               /\ x.prio[Main] = app.prio[Main]
               /\ \A t \in All : t # Main /\ t # Idle => x.prio[t] = NOPRIO
  <1> DEFINE p == app.prio[Main]
             a == InitThread(Cleared, Main, p, Static)
             b == [a EXCEPT !.st[Main] = "CURRENT", !.ref0[Main] = FALSE]
             x == InitThread(b, Idle, IDLEPRIO, Static)
  <1>1. Main \in All /\ Idle \in All /\ Main # Idle /\ Main \in Threads
    BY SchedAssumption, KernelAssumption DEF All
  <1>2. chSysInit = chSchWakeupS(x, Idle, "RDY_OK")
    BY DEF chSysInit, chThdCreateStatic, Spawn
  <1>3. /\ Keeps(Cleared, a, {"st", "prio", "rprio", "preempt", "mtxlist", "epending", "waiting", "q",
                              "cont", "refs", "ref0", "wa", "newer", "older"})
        /\ a.st = [Cleared.st EXCEPT ![Main] = "SUSPENDED"] /\ a.prio = [Cleared.prio EXCEPT ![Main] = p]
        /\ a.rprio = [Cleared.rprio EXCEPT ![Main] = p]
        /\ a.preempt = [Cleared.preempt EXCEPT ![Main] = CH_TIME_QUANTUM]
        /\ a.mtxlist = [Cleared.mtxlist EXCEPT ![Main] = <<>>]
        /\ a.epending = [Cleared.epending EXCEPT ![Main] = {}]
        /\ a.waiting = [Cleared.waiting EXCEPT ![Main] = <<>>] /\ a.q = [Cleared.q EXCEPT ![Main] = <<>>]
        /\ a.cont = [Cleared.cont EXCEPT ![Main] = NoCont]
    <2>1. Made(Cleared, a, Main, p)
      BY ClearedFields, InitThreadFields
    <2> HIDE DEF a, p
    <2> QED BY <2>1 DEF Made
  <1> HIDE DEF a
  <1>4. Keeps(a, b, {"st", "ref0"}) /\ b.st = [a.st EXCEPT ![Main] = "CURRENT"]
    BY <1>3 DEF Keeps, Fields
  <1> HIDE DEF b
  <1>5. /\ Keeps(b, x, {"st", "prio", "rprio", "preempt", "mtxlist", "epending", "waiting", "q",
                        "cont", "refs", "ref0", "wa", "newer", "older"})
        /\ x.st = [b.st EXCEPT ![Idle] = "SUSPENDED"] /\ x.prio = [b.prio EXCEPT ![Idle] = IDLEPRIO]
        /\ x.rprio = [b.rprio EXCEPT ![Idle] = IDLEPRIO]
        /\ x.preempt = [b.preempt EXCEPT ![Idle] = CH_TIME_QUANTUM]
        /\ x.mtxlist = [b.mtxlist EXCEPT ![Idle] = <<>>]
        /\ x.epending = [b.epending EXCEPT ![Idle] = {}]
        /\ x.waiting = [b.waiting EXCEPT ![Idle] = <<>>] /\ x.q = [b.q EXCEPT ![Idle] = <<>>]
        /\ x.cont = [b.cont EXCEPT ![Idle] = NoCont]
    <2>1. DOMAIN b = Fields
      BY <1>4 DEF Keeps
    <2>2. Made(b, x, Idle, IDLEPRIO)
      BY <2>1, InitThreadFields
    <2> HIDE DEF x
    <2> QED BY <2>2 DEF Made
  <1> HIDE DEF x
  <1>6. /\ b.prio = a.prio /\ b.rprio = a.rprio /\ b.preempt = a.preempt /\ b.mtxlist = a.mtxlist /\ b.epending = a.epending
        /\ b.waiting = a.waiting /\ b.q = a.q /\ b.cont = a.cont
    BY <1>4 DEF Keeps, Fields
  <1>7. Keeps(Cleared, x, {"st", "prio", "rprio", "preempt", "mtxlist", "epending", "waiting", "q",
                           "cont", "refs", "ref0", "wa", "newer", "older"})
    BY <1>3, <1>4, <1>5 DEF Keeps
  <1>8. /\ DOMAIN x = Fields /\ x.cur = Main /\ x.ready = <<>> /\ x.u = [t \in All |-> Msg("RDY_OK")]
        /\ x.cnt = [s \in AllSems |-> chSemInit(s)] /\ x.owner = [m \in AllMutexes |-> NoThread]
        /\ x.vt = <<>> /\ x.systime = 0 /\ x.due = [t \in All |-> 0] /\ x.more = [t \in All |-> NoCont]
        /\ x.listeners = <<>> /\ x.mb = chMBInit
        /\ x.io = [o \in {"iq", "oq"} |-> IF o = "iq" THEN chIQInit ELSE chOQInit]
    BY <1>7, ClearedFields DEF Keeps, Fields
  <1>9. x.st = [t \in All |-> IF t = Main THEN "CURRENT" ELSE IF t = Idle THEN "SUSPENDED" ELSE "FINAL"]
    BY <1>1, <1>3, <1>4, <1>5, ClearedFields
  <1>10. DOMAIN x.prio = All /\ x.prio[Idle] = IDLEPRIO /\ x.preempt \in [All -> 0..CH_TIME_QUANTUM]
    BY <1>1, <1>3, <1>5, <1>6, ClearedFields, SchedAssumption
  <1>11. Fill(x.waiting, All, <<>>) /\ Fill(x.epending, All, {})
    <2>1. Fill(x.waiting, All, <<>>)
      <3>1. Upd(Cleared.waiting, a.waiting, Main, <<>>) /\ Upd(a.waiting, x.waiting, Idle, <<>>)
        BY <1>3, <1>5, <1>6 DEF Upd
      <3>2. Fill(Cleared.waiting, All, <<>>)
        BY ClearedFields
      <3>3. Fill(a.waiting, All, <<>>)
        BY ONLY <3>1, <3>2, FillAgain
      <3> QED BY ONLY <3>1, <3>3, FillAgain
    <2>2. Fill(x.epending, All, {})
      <3>1. Upd(Cleared.epending, a.epending, Main, {}) /\ Upd(a.epending, x.epending, Idle, {})
        BY <1>3, <1>5, <1>6 DEF Upd
      <3>2. Fill(Cleared.epending, All, {})
        BY ClearedFields
      <3>3. Fill(a.epending, All, {})
        BY ONLY <3>1, <3>2, FillAgain
      <3> QED BY ONLY <3>1, <3>3, FillAgain
    <2> QED BY <2>1, <2>2
  <1>12. Fill(x.mtxlist, All, <<>>) /\ Fill(x.cont, All, NoCont)
    <2>1. Fill(x.mtxlist, All, <<>>)
      <3>1. Upd(Cleared.mtxlist, a.mtxlist, Main, <<>>) /\ Upd(a.mtxlist, x.mtxlist, Idle, <<>>)
        BY <1>3, <1>5, <1>6 DEF Upd
      <3>2. Fill(Cleared.mtxlist, All, <<>>)
        BY ClearedFields
      <3>3. Fill(a.mtxlist, All, <<>>)
        BY ONLY <3>1, <3>2, FillAgain
      <3> QED BY ONLY <3>1, <3>3, FillAgain
    <2>2. Fill(x.cont, All, NoCont)
      <3>1. Upd(Cleared.cont, a.cont, Main, NoCont) /\ Upd(a.cont, x.cont, Idle, NoCont)
        BY <1>3, <1>5, <1>6 DEF Upd
      <3>2. Fill(Cleared.cont, All, NoCont)
        BY ClearedFields
      <3>3. Fill(a.cont, All, NoCont)
        BY ONLY <3>1, <3>2, FillAgain
      <3> QED BY ONLY <3>1, <3>3, FillAgain
    <2> QED BY <2>1, <2>2
  <1>13. Fill(x.q, WaitQueues, <<>>)
    <2>1. Fill(x.q, WaitQueues, <<>>)
      <3>1. Upd(Cleared.q, a.q, Main, <<>>) /\ Upd(a.q, x.q, Idle, <<>>)
        BY <1>3, <1>5, <1>6 DEF Upd
      <3>2. Fill(Cleared.q, WaitQueues, <<>>)
        BY ClearedFields
      <3>3. Fill(a.q, WaitQueues, <<>>)
        BY ONLY <3>1, <3>2, FillAgain
      <3> QED BY ONLY <3>1, <3>3, FillAgain
    <2> QED BY <2>1
  <1>14. Starting(x)
    BY <1>8, <1>9, <1>10, <1>11, <1>12, <1>13 DEF Starting
  <1>15. /\ x.rprio = x.prio /\ x.prio[Main] = p
         /\ \A t \in All : t # Main /\ t # Idle => x.prio[t] = NOPRIO
    <2>1. /\ Cleared.prio = [t \in All |-> NOPRIO] /\ Cleared.rprio = Cleared.prio
          /\ a.prio = [Cleared.prio EXCEPT ![Main] = p] /\ a.rprio = [Cleared.rprio EXCEPT ![Main] = p]
          /\ x.prio = [a.prio EXCEPT ![Idle] = IDLEPRIO] /\ x.rprio = [a.rprio EXCEPT ![Idle] = IDLEPRIO]
      BY <1>3, <1>5, <1>6, ClearedFields
    <2> HIDE DEF p
    <2>2. x.rprio = x.prio
      BY ONLY <2>1
    <2> QED BY ONLY <1>1, <2>1, <2>2
  <1> QED BY <1>2, <1>14, <1>15

LEMMA SysInitGood ==
  ASSUME app \in Apps
  PROVE  /\ Good(chSysInit) /\ (\A t \in All : chSysInit.cont[t] = NoCont /\ chSysInit.more[t] = NoCont)
         /\ \A t \in Threads \ {Main} : chSysInit.st[t] = "FINAL"
  <1>1. PICK x : Starting(x) /\ chSysInit = chSchWakeupS(x, Idle, "RDY_OK")
    BY SysStart
  <1> DEFINE y == chSchWakeupS(x, Idle, "RDY_OK")
  <1>2. Main \in All /\ Idle \in All /\ Main # Idle /\ Main \in Threads
    BY SchedAssumption, KernelAssumption DEF All
  <1>3. /\ DOMAIN x = Fields /\ x.cur = Main /\ DOMAIN x.st = All
        /\ (\A t \in All : x.cont[t] = NoCont /\ x.more[t] = NoCont)
        /\ \A t \in All : t # Main /\ t # Idle => x.st[t] = "FINAL"
    BY <1>1 DEF Starting, Fill
  <1>4. Good(y)
    BY <1>1, StartingGood, WakeupS
  <1>5. /\ y.cont = x.cont /\ y.more = x.more
        /\ \A t \in All : t # Idle /\ t # x.cur => y.st[t] = x.st[t]
    BY <1>3, WakeupKeeps
  <1> HIDE DEF y
  <1>6. \A t \in Threads \ {Main} : t \in All /\ t # Idle
    BY SchedAssumption DEF All
  <1>7. chSysInit = y
    BY <1>1 DEF y
  <1> QED BY <1>2, <1>3, <1>4, <1>5, <1>6, <1>7

\* A thread that is created changes no other one that is not.
LEMMA SpawnKeeps ==
  ASSUME NEW x, Good(x), NEW t \in Threads, NEW prio, NEW wa, NEW y, y = Spawn(x, t, prio, wa)
  PROVE  /\ y.more = x.more /\ (\A p \in All : y.cont[p] = x.cont[p] \/ y.cont[p] = NoCont)
         /\ \A p \in All : p # t /\ x.st[p] = "FINAL" => y.st[p] = "FINAL"
  <1> DEFINE z == InitThread(x, t, prio, wa)
  <1>1. y = chSchWakeupS(z, t, "RDY_OK")
    BY DEF Spawn
  <1>2. /\ Core(x, x.st) /\ x.cur \in All /\ x.st[x.cur] = "CURRENT" /\ x.st \in [All -> States]
    BY GoodShape
  <1>3. DOMAIN x = Fields /\ DOMAIN x.cont = All
    BY <1>2, CoreShape
  <1>4. /\ Keeps(x, z, {"st", "prio", "rprio", "preempt", "mtxlist", "epending", "waiting", "q",
                        "cont", "refs", "ref0", "wa", "newer", "older"})
        /\ z.st = [x.st EXCEPT ![t] = "SUSPENDED"] /\ z.cont = [x.cont EXCEPT ![t] = NoCont]
    <2>1. Made(x, z, t, prio)
      BY <1>3, InitThreadFields
    <2> HIDE DEF z
    <2> QED BY <2>1 DEF Made
  <1> HIDE DEF z
  <1>5. DOMAIN z = Fields /\ z.cur = x.cur /\ z.more = x.more /\ DOMAIN z.st = All
    BY <1>2, <1>4 DEF Keeps, Fields
  <1>6. y.cont = z.cont /\ y.more = z.more /\ \A p \in All : p # t /\ p # x.cur => y.st[p] = z.st[p]
    BY <1>1, <1>5, WakeupKeeps
  <1> QED BY <1>2, <1>3, <1>4, <1>5, <1>6

\* Before the (n+1)-th thread of main() is created.
Booting(N, order, n, a) ==
    /\ Good(a) /\ (\A t \in All : a.cont[t] = NoCont /\ a.more[t] = NoCont)
    /\ \A i \in (n + 1)..N : a.st[order[i]] = "FINAL"

LEMMA BootStep ==
  ASSUME NEW N \in Nat, NEW order \in [1..N -> Threads], \A i, j \in 1..N : order[i] = order[j] => i = j,
         NEW n \in 1..N, NEW a, Booting(N, order, n - 1, a), NEW prio
  PROVE  Booting(N, order, n, chThdCreateStatic(a, order[n], prio))
  <1> DEFINE t == order[n]
             y == Spawn(a, t, prio, Static)
  <1>1. t \in Threads /\ t \in All /\ a.st[t] = "FINAL" /\ Good(a)
    <2>1. n \in ((n - 1) + 1)..N
      OBVIOUS
    <2> QED BY <2>1 DEF Booting, All
  <1>2. \A p \in All : ~ Reserves(a.more[p], t)
    BY NoContFacts DEF Booting, Reserves
  <1>3. Good(y)
    BY <1>1, <1>2, SpawnGood
  <1>4. /\ y.more = a.more /\ (\A p \in All : y.cont[p] = a.cont[p] \/ y.cont[p] = NoCont)
        /\ \A p \in All : p # t /\ a.st[p] = "FINAL" => y.st[p] = "FINAL"
    BY <1>1, SpawnKeeps
  <1>5. chThdCreateStatic(a, t, prio) = y
    BY DEF chThdCreateStatic
  <1>6. ASSUME NEW i \in (n + 1)..N PROVE y.st[order[i]] = "FINAL"
    <2>1. i \in 1..N /\ i # n /\ i \in ((n - 1) + 1)..N
      OBVIOUS
    <2>2. order[i] # t /\ order[i] \in All /\ a.st[order[i]] = "FINAL"
      BY <2>1 DEF Booting, All
    <2> QED BY <1>4, <2>2
  <1> HIDE DEF y
  <1>7. \A p \in All : y.cont[p] = NoCont /\ y.more[p] = NoCont
    BY <1>4 DEF Booting
  <1>8. Booting(N, order, n, y)
    BY <1>3, <1>6, <1>7 DEF Booting
  <1> QED BY <1>5, <1>8

\* The order in which main() creates the threads of S.
OrderOf(S) ==
    CHOOSE s \in [1..Cardinality(S) -> S] : \A t \in S : \E i \in 1..Cardinality(S) : s[i] = t

LEMMA OrderFacts ==
  ASSUME NEW S, IsFiniteSet(S), NEW N, N = Cardinality(S), NEW order, order = OrderOf(S)
  PROVE  N \in Nat /\ order \in [1..N -> S] /\ \A i, j \in 1..N : order[i] = order[j] => i = j
  <1>1. N \in Nat /\ ExistsBijection(1..N, S)
    BY FS_CardinalityType
  <1>2. \E s \in [1..N -> S] : \A t \in S : \E i \in 1..N : s[i] = t
    BY <1>1 DEF ExistsBijection, Bijection, Surjection
  <1>3. order \in [1..N -> S] /\ \A t \in S : \E i \in 1..N : order[i] = t
    <2> DEFINE F == [1..N -> S]
               Onto(s) == \A t \in S : \E i \in 1..N : s[i] = t
    <2>1. order = CHOOSE s \in F : Onto(s)
      BY DEF OrderOf
    <2>2. \E s \in F : Onto(s)
      BY <1>2
    <2> HIDE DEF F, Onto
    <2>3. order \in F /\ Onto(order)
      BY <2>1, <2>2
    <2> QED BY <2>3 DEF F, Onto
  <1>4. order \in Surjection(1..N, S)
    BY <1>3 DEF Surjection
  <1>5. IsFiniteSet(1..N) /\ Cardinality(1..N) = N
    BY <1>1, FS_Interval
  <1>6. order \in Injection(1..N, S)
    BY <1>4, <1>5, FS_SurjSameCardinalityImpliesInj
  <1>7. \A i, j \in 1..N : order[i] = order[j] => i = j
    BY <1>3, <1>6 DEF Injection, IsInjective
  <1> QED BY <1>1, <1>3, <1>7

LEMMA BootGood ==
  ASSUME app \in Apps
  PROVE  /\ Good(Boot(app.threads \ {Main}))
         /\ \A t \in All : Boot(app.threads \ {Main}).cont[t] = NoCont
  <1> DEFINE S == app.threads \ {Main}
             N == Cardinality(S)
             order == OrderOf(S)
             g(a, i) == chThdCreateStatic(a, order[i], app.prio[order[i]])
             P(i, a) == Booting(N, order, i, a)
  <1>1. Boot(S) = Fold(chSysInit, N, g)[N]
    BY DEF Boot, Fold, OrderOf
  <1>2. S \subseteq Threads \ {Main} /\ IsFiniteSet(S)
    <2>1. app.threads \subseteq Threads /\ IsFiniteSet(Threads)
      BY NamesAssumption
    <2>2. S \in SUBSET Threads
      BY <2>1
    <2> QED BY <2>1, <2>2, FS_Subset
  <1> HIDE DEF S
  <1>3. N \in Nat /\ order \in [1..N -> S] /\ \A i, j \in 1..N : order[i] = order[j] => i = j
    BY <1>2, OrderFacts
  <1> HIDE DEF N, order
  <1>4. order \in [1..N -> Threads]
    BY <1>2, <1>3
  <1>5. P(0, chSysInit)
    <2>1. \A i \in (0 + 1)..N : order[i] \in Threads \ {Main}
      BY <1>2, <1>3
    <2> QED BY <2>1, SysInitGood DEF Booting
  <1>6. \A i \in 1..N : \A a : P(i - 1, a) => P(i, g(a, i))
    BY <1>3, <1>4, BootStep
  <1>7. FoldKeeps(chSysInit, N, g, P)
    <2> HIDE DEF P, g
    <2> QED BY <1>3, FoldKept
  <1>8. P(N, Fold(chSysInit, N, g)[N])
    <2> HIDE DEF P, g
    <2> QED BY <1>5, <1>6, <1>7 DEF FoldKeeps
  <1> QED BY <1>1, <1>8 DEF Booting, S

\* The threads in a list that the invariant describes.
LEMMA UsedIs ==
  ASSUME NEW s, NEW M, Exactly(s, M)
  PROVE  Used(s) = M /\ NoRepeats(s) /\ s \in Seq(All) /\ M \subseteq All
  BY ExactSub DEF Exactly
=============================================================================

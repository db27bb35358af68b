--------------------------- MODULE SysMemArbProofs --------------------------
(***************************************************************************)
(* Theorems about the system memory arbiter, for every number of agents,   *)
(* every depth of its FIFOs and every number of requests, and about the    *)
(* flags of those FIFOs.                                                   *)
(***************************************************************************)
EXTENDS SysMemArb, FfFlags, TLAPS, SequenceTheorems, WellFoundedInduction, NaturalsInduction

-----------------------------------------------------------------------------
(***************************************************************************)
(* Every non-empty set of naturals has a least element.                    *)
(***************************************************************************)
LEMMA LeastNat ==
  ASSUME NEW T, T \subseteq Nat, T # {}
  PROVE  \E x \in T : \A y \in T : x <= y
<1> DEFINE R == {ss \in Nat \X Nat : ss[1] < ss[2]}
<1>1. IsWellFoundedOn(R, Nat)
  <2>1. OpToRel(<, Nat) = R
    BY DEF OpToRel
  <2> QED BY <2>1, NatLessThanWellFounded
<1>2. \E x \in T : \A y \in T : ~ (<<y, x>> \in R)
  <2> HIDE DEF R
  <2> QED BY <1>1, WFMin
<1>3. PICK x \in T : \A y \in T : ~ (<<y, x>> \in R)
  BY <1>2
<1>4. ASSUME NEW y \in T PROVE x <= y
  <2>1. x \in Nat /\ y \in Nat
    OBVIOUS
  <2>2. ~ (y < x)
    BY <1>3, <2>1
  <2> QED BY <2>1, <2>2
<1> QED BY <1>4

(***************************************************************************)
(* least_filter always names an agent.                                     *)
(***************************************************************************)
LEMMA LeastIdxType ==
  ASSUME NEW data \in [Agents -> Nat]
  PROVE  LeastIdx(data) \in Agents
<1> DEFINE Vals == {data[i] : i \in Agents}
<1>0. Agents \subseteq Nat /\ Agents # {}
  <2>1. NUM_AGENTS \in Nat \ {0}
    BY ConstAssumption
  <2> QED BY <2>1 DEF Agents
<1>1. Vals \subseteq Nat /\ Vals # {}
  BY <1>0
<1>2. PICK m \in Vals : \A y \in Vals : m <= y
  <2> HIDE DEF Vals
  <2> QED BY <1>1, LeastNat
<1> DEFINE Idx == {i \in Agents : data[i] = m}
<1>3. Idx \subseteq Nat /\ Idx # {}
  BY <1>0, <1>2
<1>4. PICK k \in Idx : \A j \in Idx : k <= j
  <2> HIDE DEF Idx
  <2> QED BY <1>3, LeastNat
<1>5. k \in Agents
  BY <1>4
<1>6. ASSUME NEW j \in Agents
      PROVE  data[k] < data[j] \/ (data[k] = data[j] /\ k <= j)
  <2>1. data[k] = m /\ m <= data[j]
    BY <1>2, <1>4
  <2>2. CASE data[j] = m
    BY <1>4, <2>1, <2>2
  <2>3. CASE data[j] # m
    BY <2>1, <2>3, <1>5
  <2> QED BY <2>2, <2>3
<1> QED BY <1>5, <1>6 DEF LeastIdx

-----------------------------------------------------------------------------
(***************************************************************************)
(* FIFO operations stay within a FIFO's type; the read side never knows of *)
(* more words than there are.                                              *)
(***************************************************************************)
FifoOK(f, W) == f \in FifoOf(W) /\ f.seen <= Len(f.q)

LEMMA PushOK ==
  ASSUME NEW W, NEW f, FifoOK(f, W), NEW d, NEW x \in W
  PROVE  FifoOK(FifoPush(f, d, x), W)
BY DEF FifoOK, FifoOf, FifoPush

LEMMA PopOK ==
  ASSUME NEW W, NEW f, FifoOK(f, W)
  PROVE  FifoOK(FifoPop(f), W)
BY DEF FifoOK, FifoOf, FifoPop, RdEmpty

LEMMA SyncOK ==
  ASSUME NEW W, NEW f, FifoOK(f, W)
  PROVE  FifoOK(SyncRdSide(f), W) /\ FifoOK(SyncWrSide(f), W)
BY DEF FifoOK, FifoOf, SyncRdSide, SyncWrSide

LEMMA HeadOK ==
  ASSUME NEW W, NEW f, FifoOK(f, W), ~RdEmpty(f)
  PROVE  f.q # << >> /\ Head(f.q) \in W
BY DEF FifoOK, FifoOf, RdEmpty

-----------------------------------------------------------------------------
LEMMA InitType == Init => TypeOK
BY ConstAssumption
   DEF Init, TypeOK, Agents, EmptyFifo, FifoOf, StartAddr, Bit

\* What one edge of cntrlr_clk does to the types, block by block.
LEMMA ArbitrateType ==
  ASSUME TypeOK, Arbitrate
  PROVE  /\ ingr_bffr' \in [Agents -> FifoOf(Request)]
         /\ \A a \in Agents : ingr_bffr'[a].seen <= Len(ingr_bffr'[a].q)
         /\ ingr_bffr_rused_norm_f' \in [Agents -> 0 .. INGR_BFFR_DEPTH - 1]
         /\ agent_id' \in Agents
         /\ tickets' \in Nat
<1>1. \A a \in Agents : FifoOK(ingr_bffr[a], Request)
  BY DEF TypeOK, FifoOK
<1>2. \A a \in Agents : FifoOK(ingr_bffr'[a], Request) /\ ingr_bffr' \in [Agents -> FifoOf(Request)]
  <2>1. FifoOK(FifoPop(ingr_bffr[agent_id]), Request)
    BY <1>1, PopOK DEF TypeOK
  <2> QED BY <1>1, <2>1 DEF TypeOK, Arbitrate, FifoOK
<1>3. \A a \in Agents : RusedNorm(ingr_bffr[a]) \in 0 .. INGR_BFFR_DEPTH - 1
  BY ConstAssumption, <1>1 DEF RusedNorm, RdUsedw, FifoOK, FifoOf
<1>4. agent_id' \in Agents
  <2>1. ingr_bffr_rused_norm_f \in [Agents -> Nat]
    BY ConstAssumption DEF TypeOK
  <2> QED BY <2>1, LeastIdxType DEF Arbitrate
<1> QED
  <2>1. tickets' \in Nat
    BY DEF TypeOK, Arbitrate
  <2>2. ingr_bffr_rused_norm_f' \in [Agents -> 0 .. INGR_BFFR_DEPTH - 1]
    BY <1>3 DEF Arbitrate
  <2>3. agent_id \in Agents
    BY DEF TypeOK
  <2> QED BY <1>2, <1>4, <2>1, <2>2, <2>3 DEF FifoOK

LEMMA PoppedType ==
  ASSUME TypeOK, ingr_bffr_rden
  PROVE  /\ Popped \in Request
         /\ ingr_bffr[agent_id].q # << >>
         /\ Popped.a = Head(ingr_bffr[agent_id].q).a
         /\ Popped.n = Head(ingr_bffr[agent_id].q).n
         /\ Popped.op = Head(ingr_bffr[agent_id].q).op
         /\ Popped.t = (IF Popped.op = "rd" THEN tickets + 1 ELSE 0)
<1> DEFINE w == Head(ingr_bffr[agent_id].q)
<1>1. ingr_bffr[agent_id].q # << >> /\ w \in Request
  <2>1. FifoOK(ingr_bffr[agent_id], Request)
    BY DEF TypeOK, FifoOK
  <2> QED BY <2>1, HeadOK DEF ingr_bffr_rden
<1>2. tickets \in Nat
  BY DEF TypeOK
<1>3. Popped = [w EXCEPT !.t = IF w.op = "rd" THEN tickets + 1 ELSE 0]
  BY DEF Popped
<1> HIDE DEF w
<1>4. Popped \in Request /\ Popped.a = w.a /\ Popped.n = w.n /\ Popped.op = w.op
      /\ Popped.t = (IF w.op = "rd" THEN tickets + 1 ELSE 0)
  BY <1>1, <1>2, <1>3 DEF Request
<1> QED BY <1>1, <1>4 DEF w

\* Delay buffer 0 is never popped empty.
LEMMA DelayType ==
  ASSUME TypeOK, DelayBffr0Matches, NEW rdy \in BOOLEAN,
         LookUpPartition, DelayBffr0, DelayBffr1(rdy)
  PROVE  /\ part_mem_del_vec_f' \in [0..2 -> Bit]
         /\ start_ram_raddr_f' \in Agents
         /\ start_ram_rdata_f' \in StartAddr
         /\ agent_start_addr_f' \in StartAddr
         /\ ingr_del_bffr0' \in Seq(Request)
         /\ ingr_del_bffr1' \in Seq(Issued)
         /\ drops' \in Nat
         /\ DelayBffr0Matches'
<1>1. part_mem_del_vec_f' \in [0..2 -> Bit]
  BY DEF TypeOK, LookUpPartition, Bit
<1>2. /\ start_ram_raddr_f' \in Agents
      /\ start_ram_rdata_f' \in StartAddr
      /\ agent_start_addr_f' \in StartAddr
  BY DEF TypeOK, LookUpPartition, StartAddr
<1>3. part_mem_del_vec_f[2] = 1 => ingr_del_bffr0 # << >>
  BY DEF TypeOK, DelayBffr0Matches, Popcount, Bit
<1> DEFINE rest == IF part_mem_del_vec_f[2] = 1 THEN Tail(ingr_del_bffr0)
                                                ELSE ingr_del_bffr0
<1>4. rest \in Seq(Request) /\ Len(rest) = Len(ingr_del_bffr0) - part_mem_del_vec_f[2]
  BY <1>3 DEF TypeOK, Bit
<1>5. ingr_del_bffr0' = IF ingr_bffr_rden THEN Append(rest, Popped) ELSE rest
  BY DEF DelayBffr0
<1>6. /\ ingr_del_bffr0' \in Seq(Request)
      /\ Len(ingr_del_bffr0') = Len(rest) + (IF ingr_bffr_rden THEN 1 ELSE 0)
  <2> HIDE DEF rest
  <2>1. CASE ingr_bffr_rden
    BY <1>4, <1>5, <2>1, PoppedType
  <2>2. CASE ~ingr_bffr_rden
    BY <1>4, <1>5, <2>2
  <2> QED BY <2>1, <2>2
<1>7. DelayBffr0Matches'
  <2>1. /\ part_mem_del_vec_f'[0] = (IF ingr_bffr_rden THEN 1 ELSE 0)
        /\ part_mem_del_vec_f'[1] = part_mem_del_vec_f[0]
        /\ part_mem_del_vec_f'[2] = part_mem_del_vec_f[1]
    BY DEF LookUpPartition
  <2>2. Len(ingr_del_bffr0) = part_mem_del_vec_f[0] + part_mem_del_vec_f[1]
                                + part_mem_del_vec_f[2]
    BY DEF DelayBffr0Matches, Popcount
  <2>3. \A i \in 0..2 : part_mem_del_vec_f[i] \in {0, 1}
    BY DEF TypeOK, Bit
  <2>4. Len(ingr_del_bffr0') = part_mem_del_vec_f[0] + part_mem_del_vec_f[1]
                                 + (IF ingr_bffr_rden THEN 1 ELSE 0)
    <3> HIDE DEF rest
    <3> QED BY <1>4, <1>6, <2>2, <2>3
  <2> QED BY <2>1, <2>3, <2>4 DEF DelayBffr0Matches, Popcount
<1>8. ingr_del_bffr1' \in Seq(Issued) /\ drops' \in Nat
  <2>1. part_mem_del_vec_f[2] = 1 => Issuing \in Issued
    BY <1>3 DEF TypeOK, Issuing, Issued
  <2>2. CntrlrTakes(rdy) => ingr_del_bffr1 # << >>
    BY DEF CntrlrTakes
  <2> DEFINE rest1 == IF CntrlrTakes(rdy) THEN Tail(ingr_del_bffr1)
                                          ELSE ingr_del_bffr1
  <2>3. rest1 \in Seq(Issued)
    BY <2>2 DEF TypeOK
  <2>4. ingr_del_bffr1' = IF part_mem_del_vec_f[2] = 1 /\ ~DelBffr1Ovrflw
                          THEN Append(rest1, Issuing) ELSE rest1
    BY DEF DelayBffr1
  <2>5. ingr_del_bffr1' \in Seq(Issued)
    <3> HIDE DEF rest1
    <3> QED BY <2>1, <2>3, <2>4
  <2>6. drops' \in Nat
    BY DEF TypeOK, DelayBffr1
  <2> QED BY <2>5, <2>6
<1> QED BY <1>1, <1>2, <1>6, <1>7, <1>8

LEMMA CntrlrType ==
  ASSUME TypeOK, NEW rdy \in BOOLEAN, NEW rdv \in BOOLEAN,
         CntrlrStep(rdy, rdv), EgressPush(rdv)
  PROVE  /\ cntrlr' \in Seq(Request)
         /\ done' \in [Agents -> Nat]
         /\ egr_bffr_0' \in FifoOf(IdWord) /\ egr_bffr_0'.seen <= Len(egr_bffr_0'.q)
         /\ egr_bffr_1' \in FifoOf(Request) /\ egr_bffr_1'.seen <= Len(egr_bffr_1'.q)
         /\ lost' \in Bit
<1> DEFINE head == Head(ingr_del_bffr1).req
<1>1. CntrlrTakes(rdy) => head \in Request
  <2>1. ASSUME CntrlrTakes(rdy) PROVE Head(ingr_del_bffr1) \in Issued
    BY <2>1 DEF TypeOK, CntrlrTakes
  <2> QED BY <2>1 DEF Issued
<1>2. rdv => cntrlr # << >>
  BY DEF CntrlrStep
<1>3. cntrlr' \in Seq(Request)
  BY <1>1, <1>2 DEF TypeOK, CntrlrStep
<1>4. done' \in [Agents -> Nat]
  BY <1>1 DEF TypeOK, CntrlrStep, Request
<1>5. lost' \in Bit
  BY DEF TypeOK, EgressPush, Bit
<1>6. FifoOK(egr_bffr_0', IdWord)
  <2>1. FifoOK(egr_bffr_0, IdWord)
    BY DEF TypeOK, FifoOK
  <2>2. ingr_bffr_rden => [id |-> agent_id, t |-> Popped.t] \in IdWord
    BY PoppedType DEF TypeOK, IdWord, Request
  <2> QED BY <2>1, <2>2, PushOK DEF EgressPush
<1>7. FifoOK(egr_bffr_1', Request)
  <2>1. FifoOK(egr_bffr_1, Request)
    BY DEF TypeOK, FifoOK
  <2>2. rdv => Head(cntrlr) \in Request
    BY <1>2 DEF TypeOK
  <2> QED BY <2>1, <2>2, PushOK DEF EgressPush
<1> QED BY <1>3, <1>4, <1>5, <1>6, <1>7 DEF FifoOK

-----------------------------------------------------------------------------
TypeInv == TypeOK /\ DelayBffr0Matches

\* One edge of cntrlr_clk keeps the types, and delay buffer 0 in step.
LEMMA TickType ==
  ASSUME TypeInv, NEW rdy \in BOOLEAN, NEW rdv \in BOOLEAN,
         CntrlrTick(rdy, rdv)
  PROVE  TypeInv'
<1>1. TypeOK /\ DelayBffr0Matches
  BY DEF TypeInv
<1>2. /\ Arbitrate /\ LookUpPartition /\ DelayBffr0 /\ DelayBffr1(rdy)
      /\ CntrlrStep(rdy, rdv) /\ EgressPush(rdv)
      /\ sent' = sent /\ start_ram' = start_ram
      /\ answered' = answered /\ misrouted' = misrouted
  BY DEF CntrlrTick, rspVars
<1>3. /\ start_ram' \in [Agents -> Nat] /\ sent' \in [Agents -> Nat]
      /\ answered' \in Nat /\ misrouted' \in Bit
  BY <1>1, <1>2 DEF TypeOK
<1>4. TypeOK'
  BY <1>1, <1>2, <1>3, ArbitrateType, DelayType, CntrlrType DEF TypeOK
<1> QED BY <1>1, <1>2, <1>4, DelayType DEF TypeInv

LEMMA NextType ==
  ASSUME TypeInv, [Next]_vars
  PROVE  TypeInv'
<1>1. TypeOK /\ DelayBffr0Matches
  BY DEF TypeInv
<1>2. \A a \in Agents : FifoOK(ingr_bffr[a], Request)
  BY <1>1 DEF TypeOK, FifoOK
<1>3. FifoOK(egr_bffr_0, IdWord) /\ FifoOK(egr_bffr_1, Request)
  BY <1>1 DEF TypeOK, FifoOK
<1>4. ASSUME NEW a \in Agents, NEW op \in Ops, AgentRequest(a, op)
      PROVE  TypeInv'
  <2> DEFINE x == [a |-> a, n |-> sent[a] + 1, op |-> op, t |-> 0]
             f == FifoPush(ingr_bffr[a], INGR_BFFR_DEPTH, x)
  <2>1. x \in Request
    <3>1. sent \in [Agents -> Nat]
      BY <1>1 DEF TypeOK
    <3>2. sent[a] + 1 \in Nat
      BY <3>1
    <3>3. op \in {"rd", "wr"}
      BY ConstAssumption
    <3> QED BY <3>2, <3>3 DEF Request
  <2>2. FifoOK(f, Request)
    <3> HIDE DEF x
    <3> QED BY <1>2, <2>1, PushOK
  <2>3. ingr_bffr' = [ingr_bffr EXCEPT ![a] = f]
    BY <1>4 DEF AgentRequest
  <2>4. /\ ingr_bffr' \in [Agents -> FifoOf(Request)]
        /\ \A b \in Agents : ingr_bffr'[b].seen <= Len(ingr_bffr'[b].q)
    <3> HIDE DEF f
    <3> QED BY <1>1, <2>2, <2>3 DEF TypeOK, FifoOK
  <2>5. sent' \in [Agents -> Nat]
    <3>1. sent \in [Agents -> Nat]
      BY <1>1 DEF TypeOK
    <3>2. sent' = [sent EXCEPT ![a] = @ + 1]
      BY <1>4 DEF AgentRequest
    <3> QED BY <3>1, <3>2
  <2> QED BY <1>1, <1>4, <2>4, <2>5
          DEF TypeInv, TypeOK, DelayBffr0Matches, Popcount, AgentRequest,
              arbVars, egrVars, rspVars
<1>5. ASSUME AgentResponse PROVE TypeInv'
  <2>1. FifoOK(egr_bffr_0', IdWord) /\ FifoOK(egr_bffr_1', Request)
    BY <1>3, <1>5, PopOK DEF AgentResponse
  <2>2. answered' \in Nat /\ misrouted' \in Bit
    BY <1>1, <1>5 DEF TypeOK, AgentResponse, Bit
  <2> QED BY <1>1, <1>5, <2>1, <2>2
          DEF TypeInv, TypeOK, FifoOK, DelayBffr0Matches, Popcount, AgentResponse,
              arbVars, ingrVars
<1>6. ASSUME NEW a \in Agents, PartStartWrite(a) PROVE TypeInv'
  <2>1. start_ram \in [Agents -> Nat] /\ start_ram' = [start_ram EXCEPT ![a] = @ + 1]
    BY <1>1, <1>6 DEF TypeOK, PartStartWrite
  <2>2. start_ram' \in [Agents -> Nat]
    BY <2>1
  <2> QED BY <1>1, <1>6, <2>2
          DEF TypeInv, TypeOK, DelayBffr0Matches, Popcount, PartStartWrite,
              arbVars, ingrVars, egrVars, rspVars
<1>7. ASSUME NEW rdy \in BOOLEAN, NEW rdv \in BOOLEAN, CntrlrTick(rdy, rdv)
      PROVE  TypeInv'
  BY <1>7, TickType
<1>8. ASSUME NEW a \in Agents, SyncIngrRd(a) \/ SyncIngrWr(a) PROVE TypeInv'
  <2>1. FifoOK(SyncRdSide(ingr_bffr[a]), Request) /\ FifoOK(SyncWrSide(ingr_bffr[a]), Request)
    BY <1>2, SyncOK
  <2>2. /\ ingr_bffr' \in [Agents -> FifoOf(Request)]
        /\ \A b \in Agents : ingr_bffr'[b].seen <= Len(ingr_bffr'[b].q)
    BY <1>1, <1>8, <2>1 DEF TypeOK, FifoOK, SyncIngrRd, SyncIngrWr
  <2> QED BY <1>1, <1>8, <2>2
          DEF TypeInv, TypeOK, DelayBffr0Matches, Popcount, SyncIngrRd, SyncIngrWr,
              arbVars, egrVars, rspVars
<1>9. ASSUME SyncEgrRd \/ SyncEgrWr PROVE TypeInv'
  <2>1. FifoOK(egr_bffr_0', IdWord) /\ FifoOK(egr_bffr_1', Request)
    BY <1>3, <1>9, SyncOK DEF SyncEgrRd, SyncEgrWr
  <2> QED BY <1>1, <1>9, <2>1
          DEF TypeInv, TypeOK, FifoOK, DelayBffr0Matches, Popcount, SyncEgrRd, SyncEgrWr,
              arbVars, ingrVars, rspVars
<1>10. ASSUME UNCHANGED vars PROVE TypeInv'
  BY <1>1, <1>10
     DEF TypeInv, TypeOK, DelayBffr0Matches, Popcount, vars, ingrVars, arbVars, egrVars, rspVars
<1> QED BY <1>4, <1>5, <1>6, <1>7, <1>8, <1>9, <1>10 DEF Next

(***************************************************************************)
(* Every register, FIFO and counter of the arbiter keeps its type: no pop  *)
(* takes the head of an empty buffer, whatever the order of the clocks.    *)
(***************************************************************************)
THEOREM TypeCorrect == Spec => []TypeOK
<1>1. Init => TypeInv
  BY InitType DEF TypeInv, Init, DelayBffr0Matches, Popcount
<1>2. TypeInv /\ [Next]_vars => TypeInv'
  BY NextType
<1>3. TypeInv => TypeOK
  BY DEF TypeInv
<1> QED BY <1>1, <1>2, <1>3, PTL DEF Spec

(***************************************************************************)
(* Delay buffer 0 and the delay vector never come apart, although the pop  *)
(* of the buffer looks at neither empty nor full (lines 366-383).          *)
(***************************************************************************)
THEOREM DelayBffr0InStep == Spec => []DelayBffr0Matches
<1>1. Init => TypeInv
  BY InitType DEF TypeInv, Init, DelayBffr0Matches, Popcount
<1>2. TypeInv /\ [Next]_vars => TypeInv'
  BY NextType
<1>3. TypeInv => DelayBffr0Matches
  BY DEF TypeInv
<1> QED BY <1>1, <1>2, <1>3, PTL DEF Spec

-----------------------------------------------------------------------------
(***************************************************************************)
(* OwnPartition is not inductive: it needs to know what each stage of the  *)
(* look-up is working on.  A request that popped one, two or three clocks  *)
(* ago is the last, the middle, the first of delay buffer 0, and the       *)
(* address register, the RAM output and the arbiter's register hold its    *)
(* agent.                                                                  *)
(***************************************************************************)
OwnFifo ==
  \A a \in Agents : \A i \in 1 .. Len(ingr_bffr[a].q) : ingr_bffr[a].q[i].a = a

Aligned ==
  /\ part_mem_del_vec_f[0] = 1 =>
       ingr_del_bffr0[Len(ingr_del_bffr0)].a = start_ram_raddr_f
  /\ part_mem_del_vec_f[1] = 1 =>
       ingr_del_bffr0[1 + part_mem_del_vec_f[2]].a = start_ram_rdata_f.a
  /\ part_mem_del_vec_f[2] = 1 =>
       ingr_del_bffr0[1].a = agent_start_addr_f.a

PartInv == TypeInv /\ OwnFifo /\ Aligned /\ OwnPartition

LEMMA OwnFifoStep ==
  ASSUME TypeInv, OwnFifo, [Next]_vars
  PROVE  OwnFifo'
<1>1. TypeOK
  BY DEF TypeInv
<1>2. \A a \in Agents : FifoOK(ingr_bffr[a], Request)
  BY <1>1 DEF TypeOK, FifoOK
<1>3. ingr_bffr \in [Agents -> FifoOf(Request)]
  BY <1>1 DEF TypeOK
<1> DEFINE Own(f, a) == \A i \in 1 .. Len(f.q) : f.q[i].a = a
<1>4. \A a \in Agents : Own(ingr_bffr[a], a)
  BY DEF OwnFifo
<1>5. ASSUME NEW a \in Agents, NEW op \in Ops, AgentRequest(a, op)
      PROVE  OwnFifo'
  <2> DEFINE x == [a |-> a, n |-> sent[a] + 1, op |-> op, t |-> 0]
             f == FifoPush(ingr_bffr[a], INGR_BFFR_DEPTH, x)
  <2>1. x.a = a
    OBVIOUS
  <2>2. Own(f, a)
    <3> HIDE DEF x
    <3> QED BY <1>2, <1>4, <2>1 DEF FifoPush, FifoOK, FifoOf
  <2>3. ingr_bffr' = [ingr_bffr EXCEPT ![a] = f]
    BY <1>5 DEF AgentRequest
  <2> QED
    <3> HIDE DEF f
    <3> QED BY <1>3, <1>4, <2>2, <2>3 DEF OwnFifo
<1>6. ASSUME NEW rdy \in BOOLEAN, NEW rdv \in BOOLEAN, CntrlrTick(rdy, rdv)
      PROVE  OwnFifo'
  <2>1. agent_id \in Agents
    BY <1>1 DEF TypeOK
  <2>2. Own(FifoPop(ingr_bffr[agent_id]), agent_id)
    BY <1>2, <1>4, <2>1 DEF FifoPop, RdEmpty, FifoOK, FifoOf
  <2>3. \/ ingr_bffr' = [ingr_bffr EXCEPT ![agent_id] = FifoPop(ingr_bffr[agent_id])]
        \/ ingr_bffr' = ingr_bffr
    BY <1>6 DEF CntrlrTick, Arbitrate
  <2> QED BY <1>3, <1>4, <2>1, <2>2, <2>3 DEF OwnFifo
<1>7. ASSUME NEW a \in Agents, SyncIngrRd(a) \/ SyncIngrWr(a) PROVE OwnFifo'
  <2>1. Own(SyncRdSide(ingr_bffr[a]), a) /\ Own(SyncWrSide(ingr_bffr[a]), a)
    BY <1>2, <1>4 DEF SyncRdSide, SyncWrSide, FifoOK, FifoOf
  <2>2. \/ ingr_bffr' = [ingr_bffr EXCEPT ![a] = SyncRdSide(ingr_bffr[a])]
        \/ ingr_bffr' = [ingr_bffr EXCEPT ![a] = SyncWrSide(ingr_bffr[a])]
    BY <1>7 DEF SyncIngrRd, SyncIngrWr
  <2> QED BY <1>3, <1>4, <2>1, <2>2 DEF OwnFifo
<1>8. ASSUME ingr_bffr' = ingr_bffr PROVE OwnFifo'
  BY <1>8 DEF OwnFifo
<1>9. AgentResponse \/ (\E a \in Agents : PartStartWrite(a)) \/ SyncEgrRd \/ SyncEgrWr
        \/ UNCHANGED vars => ingr_bffr' = ingr_bffr
  BY DEF AgentResponse, PartStartWrite, SyncEgrRd, SyncEgrWr, vars, ingrVars
<1> QED BY <1>5, <1>6, <1>7, <1>8, <1>9 DEF Next

\* What one clock does to delay buffer 0, position by position.
LEMMA DelayBffr0Shift ==
  ASSUME TypeInv, DelayBffr0
  PROVE  LET k == part_mem_del_vec_f[2]
             m == Len(ingr_del_bffr0) - k
         IN  /\ k \in {0, 1} /\ m \in Nat
             /\ \A i \in 1 .. m : ingr_del_bffr0'[i] = ingr_del_bffr0[i + k]
             /\ ingr_bffr_rden => /\ Len(ingr_del_bffr0') = m + 1
                                 /\ ingr_del_bffr0'[m + 1] = Popped
             /\ ~ingr_bffr_rden => Len(ingr_del_bffr0') = m
<1>1. TypeOK /\ DelayBffr0Matches
  BY DEF TypeInv
<1>2. ingr_del_bffr0 \in Seq(Request) /\ part_mem_del_vec_f \in [0..2 -> Bit]
  BY <1>1 DEF TypeOK
<1>3. part_mem_del_vec_f[2] \in {0, 1}
      /\ part_mem_del_vec_f[2] <= Len(ingr_del_bffr0)
  BY <1>1, <1>2 DEF DelayBffr0Matches, Popcount, Bit
<1> DEFINE k == part_mem_del_vec_f[2]
           m == Len(ingr_del_bffr0) - k
           rest == IF part_mem_del_vec_f[2] = 1 THEN Tail(ingr_del_bffr0)
                                                ELSE ingr_del_bffr0
<1>4. /\ rest \in Seq(Request) /\ Len(rest) = m /\ m \in Nat
      /\ \A i \in 1 .. m : rest[i] = ingr_del_bffr0[i + k]
  <2>1. CASE k = 0
    BY <1>2, <1>3, <2>1
  <2>2. CASE k = 1
    BY <1>2, <1>3, <2>2
  <2> QED BY <1>3, <2>1, <2>2
<1>5. ingr_del_bffr0' = IF ingr_bffr_rden THEN Append(rest, Popped) ELSE rest
  BY DEF DelayBffr0
<1> HIDE DEF rest, m, k
<1>6. /\ \A i \in 1 .. m : ingr_del_bffr0'[i] = ingr_del_bffr0[i + k]
      /\ ingr_bffr_rden => /\ Len(ingr_del_bffr0') = m + 1
                          /\ ingr_del_bffr0'[m + 1] = Popped
      /\ ~ingr_bffr_rden => Len(ingr_del_bffr0') = m
  <2>1. CASE ingr_bffr_rden
    <3>1. Popped \in Request
      BY <1>1, <2>1, PoppedType
    <3> QED BY <1>4, <1>5, <2>1, <3>1
  <2>2. CASE ~ingr_bffr_rden
    BY <1>4, <1>5, <2>2
  <2> QED BY <2>1, <2>2
<1> QED BY <1>3, <1>4, <1>6 DEF m, k

LEMMA TickAligned ==
  ASSUME PartInv, NEW rdy \in BOOLEAN, NEW rdv \in BOOLEAN,
         CntrlrTick(rdy, rdv)
  PROVE  Aligned' /\ OwnPartition'
<1>1. /\ TypeOK /\ DelayBffr0Matches /\ TypeInv /\ OwnFifo /\ Aligned
      /\ OwnPartition
  BY DEF PartInv, TypeInv
<1>2. DelayBffr0 /\ LookUpPartition /\ DelayBffr1(rdy)
  BY DEF CntrlrTick
<1>3. \A i \in 0..2 : part_mem_del_vec_f[i] \in {0, 1}
  BY <1>1 DEF TypeOK, Bit
<1>4. Len(ingr_del_bffr0) = part_mem_del_vec_f[0] + part_mem_del_vec_f[1]
                              + part_mem_del_vec_f[2]
  BY <1>1 DEF DelayBffr0Matches, Popcount
<1> DEFINE k == part_mem_del_vec_f[2]
           m == Len(ingr_del_bffr0) - k
<1>5. /\ k \in {0, 1} /\ m \in Nat
      /\ \A i \in 1 .. m : ingr_del_bffr0'[i] = ingr_del_bffr0[i + k]
      /\ ingr_bffr_rden => /\ Len(ingr_del_bffr0') = m + 1
                          /\ ingr_del_bffr0'[m + 1] = Popped
      /\ ~ingr_bffr_rden => Len(ingr_del_bffr0') = m
  BY <1>1, <1>2, DelayBffr0Shift
<1>6. m = part_mem_del_vec_f[0] + part_mem_del_vec_f[1]
  BY <1>3, <1>4
<1>7. /\ part_mem_del_vec_f'[0] = (IF ingr_bffr_rden THEN 1 ELSE 0)
      /\ part_mem_del_vec_f'[1] = part_mem_del_vec_f[0]
      /\ part_mem_del_vec_f'[2] = part_mem_del_vec_f[1]
      /\ start_ram_raddr_f' = agent_id
      /\ start_ram_rdata_f'.a = start_ram_raddr_f
      /\ agent_start_addr_f' = start_ram_rdata_f
  BY <1>2 DEF LookUpPartition
<1>8. part_mem_del_vec_f'[0] = 1 =>
        ingr_del_bffr0'[Len(ingr_del_bffr0')].a = start_ram_raddr_f'
  <2>1. SUFFICES ASSUME ingr_bffr_rden
                 PROVE  Popped.a = agent_id
    BY <1>5, <1>7
  <2>2. ingr_bffr[agent_id].q # << >> /\ Popped.a = Head(ingr_bffr[agent_id].q).a
    BY <1>1, <2>1, PoppedType
  <2>3. agent_id \in Agents /\ ingr_bffr[agent_id].q \in Seq(Request)
    BY <1>1 DEF TypeOK, FifoOf
  <2> QED BY <1>1, <2>2, <2>3 DEF OwnFifo
<1>9. part_mem_del_vec_f'[1] = 1 =>
        ingr_del_bffr0'[1 + part_mem_del_vec_f'[2]].a = start_ram_rdata_f'.a
  <2>1. SUFFICES ASSUME part_mem_del_vec_f[0] = 1
                 PROVE  ingr_del_bffr0'[1 + part_mem_del_vec_f[1]].a = start_ram_raddr_f
    BY <1>7
  <2>2. 1 + part_mem_del_vec_f[1] \in 1 .. m
        /\ 1 + part_mem_del_vec_f[1] + k = Len(ingr_del_bffr0)
    BY <1>3, <1>4, <1>6, <2>1
  <2> HIDE DEF m, k
  <2>3. ingr_del_bffr0'[1 + part_mem_del_vec_f[1]] = ingr_del_bffr0[Len(ingr_del_bffr0)]
    BY <1>5, <2>2
  <2> QED BY <1>1, <2>1, <2>3 DEF Aligned
<1>10. part_mem_del_vec_f'[2] = 1 =>
         ingr_del_bffr0'[1].a = agent_start_addr_f'.a
  <2>1. SUFFICES ASSUME part_mem_del_vec_f[1] = 1
                 PROVE  ingr_del_bffr0'[1].a = start_ram_rdata_f.a
    BY <1>7
  <2>2. 1 \in 1 .. m /\ ingr_del_bffr0'[1] = ingr_del_bffr0[1 + k]
    BY <1>3, <1>5, <1>6, <2>1
  <2> QED BY <1>1, <2>1, <2>2 DEF Aligned
<1>11. Aligned'
  BY <1>8, <1>9, <1>10 DEF Aligned
<1>12. OwnPartition'
  <2>1. ingr_del_bffr1 \in Seq(Issued) /\ ingr_del_bffr0 \in Seq(Request)
    BY <1>1 DEF TypeOK
  <2>2. part_mem_del_vec_f[2] = 1 => Issuing.base.a = Issuing.req.a /\ Issuing \in Issued
    <3>1. SUFFICES ASSUME part_mem_del_vec_f[2] = 1
                   PROVE  Issuing.base.a = Issuing.req.a /\ Issuing \in Issued
      OBVIOUS
    <3>2. Len(ingr_del_bffr0) >= 1
      BY <1>3, <1>4, <3>1
    <3>3. Head(ingr_del_bffr0) = ingr_del_bffr0[1] /\ ingr_del_bffr0[1] \in Request
      BY <2>1, <3>2
    <3>4. agent_start_addr_f \in StartAddr
      BY <1>1 DEF TypeOK
    <3> QED BY <1>1, <3>1, <3>3, <3>4 DEF Aligned, Issuing, Issued
  <2> DEFINE rest == IF CntrlrTakes(rdy) THEN Tail(ingr_del_bffr1)
                                         ELSE ingr_del_bffr1
  <2>3. rest \in Seq(Issued) /\ \A i \in 1 .. Len(rest) : rest[i].base.a = rest[i].req.a
    <3>1. \A i \in 1 .. Len(ingr_del_bffr1) :
            ingr_del_bffr1[i].base.a = ingr_del_bffr1[i].req.a
      BY <1>1, <2>1 DEF OwnPartition
    <3>2. CASE CntrlrTakes(rdy)
      BY <2>1, <3>1, <3>2 DEF CntrlrTakes
    <3>3. CASE ~CntrlrTakes(rdy)
      BY <2>1, <3>1, <3>3
    <3> QED BY <3>2, <3>3
  <2>4. \/ ingr_del_bffr1' = rest
        \/ ingr_del_bffr1' = Append(rest, Issuing) /\ part_mem_del_vec_f[2] = 1
    BY <1>2 DEF DelayBffr1
  <2> HIDE DEF rest
  <2>5. CASE ingr_del_bffr1' = rest
    BY <2>3, <2>5 DEF OwnPartition
  <2>6. CASE ingr_del_bffr1' = Append(rest, Issuing) /\ part_mem_del_vec_f[2] = 1
    <3>1. Issuing.base.a = Issuing.req.a /\ Issuing \in Issued
      BY <2>2, <2>6
    <3>2. \A i \in 1 .. Len(rest) + 1 :
            ingr_del_bffr1'[i].base.a = ingr_del_bffr1'[i].req.a
      BY <2>3, <2>6, <3>1
    <3> QED BY <2>3, <2>6, <3>1, <3>2 DEF OwnPartition
  <2> QED BY <2>4, <2>5, <2>6
<1> QED BY <1>11, <1>12

(***************************************************************************)
(* Every request that reaches delay buffer 1 carries the start address of  *)
(* its own agent's partition, for any number of agents.                    *)
(***************************************************************************)
THEOREM PartitionsSeparate == Spec => []OwnPartition
<1>1. Init => PartInv
  <2>1. SUFFICES ASSUME Init PROVE PartInv
    OBVIOUS
  <2>2. TypeInv
    BY <2>1, InitType DEF TypeInv, Init, DelayBffr0Matches, Popcount
  <2>3. Aligned /\ OwnPartition
    BY <2>1 DEF Init, Aligned, OwnPartition
  <2>4. OwnFifo
    BY <2>1 DEF Init, OwnFifo, EmptyFifo
  <2> QED BY <2>2, <2>3, <2>4 DEF PartInv
<1>2. PartInv /\ [Next]_vars => PartInv'
  <2> SUFFICES ASSUME PartInv, [Next]_vars PROVE PartInv'
    OBVIOUS
  <2>1. TypeInv' /\ OwnFifo'
    BY NextType, OwnFifoStep DEF PartInv
  <2>2. Aligned' /\ OwnPartition'
    <3>1. ASSUME NEW rdy \in BOOLEAN, NEW rdv \in BOOLEAN, CntrlrTick(rdy, rdv)
          PROVE  Aligned' /\ OwnPartition'
      BY <3>1, TickAligned
    <3>2. ASSUME UNCHANGED arbVars PROVE Aligned' /\ OwnPartition'
      BY <3>2 DEF PartInv, arbVars, Aligned, OwnPartition
    <3>3. \/ \E rdy, rdv \in BOOLEAN : CntrlrTick(rdy, rdv)
          \/ UNCHANGED arbVars
      BY DEF Next, vars, AgentRequest, AgentResponse, PartStartWrite,
             SyncIngrRd, SyncIngrWr, SyncEgrRd, SyncEgrWr
    <3> QED BY <3>1, <3>2, <3>3
  <2> QED BY <2>1, <2>2 DEF PartInv
<1>3. PartInv => OwnPartition
  BY DEF PartInv
<1> QED BY <1>1, <1>2, <1>3, PTL DEF Spec

\* Look-ups and the requests that wait for them stay in step, and every request
\* gets its own agent's partition.
THEOREM LookUpsInStep == Spec => []LookUpInStep
  BY DelayBffr0InStep, PartitionsSeparate, PTL DEF LookUpInStep

-----------------------------------------------------------------------------
(***************************************************************************)
(* DropsBounded: once delay buffer 1 is full no request pops any more, so  *)
(* that every drop uses up one of the pops still in the delay vector.      *)
(***************************************************************************)
DropInv ==
  /\ TypeInv
  /\ Len(ingr_del_bffr1) <= DEL_BFFR_DEPTH
  /\ Len(ingr_del_bffr1) = DEL_BFFR_DEPTH => drops + Popcount <= PART_MEM_DELAY
  /\ Len(ingr_del_bffr1) < DEL_BFFR_DEPTH => drops = 0

LEMMA TickDrops ==
  ASSUME DropInv, NEW rdy \in BOOLEAN, NEW rdv \in BOOLEAN,
         CntrlrTick(rdy, rdv)
  PROVE  DropInv'
<1>1. TypeOK /\ DelayBffr0Matches /\ TypeInv
  BY DEF DropInv, TypeInv
<1>2. TypeInv'
  BY <1>1, TickType
<1>3. LookUpPartition /\ DelayBffr1(rdy)
  BY DEF CntrlrTick
<1> DEFINE v0 == part_mem_del_vec_f[0]
           v1 == part_mem_del_vec_f[1]
           v2 == part_mem_del_vec_f[2]
           n  == Len(ingr_del_bffr1)
<1>4. v0 \in {0, 1} /\ v1 \in {0, 1} /\ v2 \in {0, 1}
  BY <1>1 DEF TypeOK, Bit
<1>5. ingr_del_bffr1 \in Seq(Issued) /\ n \in Nat /\ drops \in Nat
  BY <1>1 DEF TypeOK
<1>6. DEL_BFFR_DEPTH \in Nat \ {0}
  BY ConstAssumption
<1>7. n <= DEL_BFFR_DEPTH /\ (n = DEL_BFFR_DEPTH => drops + v0 + v1 + v2 <= 3)
      /\ (n < DEL_BFFR_DEPTH => drops = 0)
  BY <1>4, <1>5 DEF DropInv, Popcount, PART_MEM_DELAY
<1>8. /\ part_mem_del_vec_f'[0] = (IF ingr_bffr_rden THEN 1 ELSE 0)
      /\ part_mem_del_vec_f'[1] = v0
      /\ part_mem_del_vec_f'[2] = v1
  BY <1>3 DEF LookUpPartition
<1>9. n = DEL_BFFR_DEPTH => ~ingr_bffr_rden
  BY <1>5, <1>6 DEF ingr_bffr_rden, ingr_del_bffr_full_all
<1>10. DelBffr1Ovrflw <=> v2 = 1 /\ n = DEL_BFFR_DEPTH
  BY <1>5, <1>6, <1>7 DEF DelBffr1Ovrflw
<1> DEFINE taken == IF CntrlrTakes(rdy) THEN 1 ELSE 0
<1>11. Len(ingr_del_bffr1') = n - taken + (IF v2 = 1 /\ n # DEL_BFFR_DEPTH THEN 1 ELSE 0)
  <2> DEFINE rest == IF CntrlrTakes(rdy) THEN Tail(ingr_del_bffr1)
                                         ELSE ingr_del_bffr1
  <2>1. rest \in Seq(Issued) /\ Len(rest) = n - taken
    BY <1>5 DEF CntrlrTakes
  <2>2. ingr_del_bffr1' = IF v2 = 1 /\ n # DEL_BFFR_DEPTH
                          THEN Append(rest, Issuing) ELSE rest
    BY <1>3, <1>10 DEF DelayBffr1
  <2>3. v2 = 1 => Issuing \in Issued
    <3>1. SUFFICES ASSUME v2 = 1 PROVE Issuing \in Issued
      OBVIOUS
    <3>2. Len(ingr_del_bffr0) >= 1
      BY <1>1, <1>4, <3>1 DEF DelayBffr0Matches, Popcount
    <3> QED BY <1>1, <3>2 DEF TypeOK, Issuing, Issued
  <2> HIDE DEF rest
  <2>4. CASE v2 = 1 /\ n # DEL_BFFR_DEPTH
    BY <1>5, <2>1, <2>2, <2>3, <2>4
  <2>5. CASE ~(v2 = 1 /\ n # DEL_BFFR_DEPTH)
    <3>1. ingr_del_bffr1' = rest
      BY <2>2, <2>5
    <3>2. n - taken \in Int
      BY <1>5
    <3>3. Len(ingr_del_bffr1') = n - taken
      BY <2>1, <3>1
    <3> HIDE DEF n, taken, v2
    <3> QED BY <2>5, <3>2, <3>3
  <2> QED BY <2>4, <2>5
<1>12. drops' = IF taken = 1 THEN 0
                ELSE IF v2 = 1 /\ n = DEL_BFFR_DEPTH THEN drops + 1 ELSE drops
  BY <1>3, <1>10 DEF DelayBffr1
<1>13. taken \in {0, 1}
  OBVIOUS
<1> HIDE DEF v0, v1, v2, n, taken
<1>14. /\ Len(ingr_del_bffr1') <= DEL_BFFR_DEPTH
       /\ Len(ingr_del_bffr1') < DEL_BFFR_DEPTH => drops' = 0
       /\ Len(ingr_del_bffr1') = DEL_BFFR_DEPTH =>
            drops' + part_mem_del_vec_f'[0] + part_mem_del_vec_f'[1]
              + part_mem_del_vec_f'[2] <= 3
  BY <1>4, <1>5, <1>6, <1>7, <1>8, <1>9, <1>11, <1>12, <1>13
<1>15. drops' \in Nat /\ part_mem_del_vec_f' \in [0..2 -> Bit]
  BY <1>2 DEF TypeInv, TypeOK
<1>16. part_mem_del_vec_f'[0] \in {0, 1} /\ part_mem_del_vec_f'[1] \in {0, 1}
       /\ part_mem_del_vec_f'[2] \in {0, 1}
  BY <1>15 DEF Bit
<1>17. Popcount' = part_mem_del_vec_f'[0] + part_mem_del_vec_f'[1]
                     + part_mem_del_vec_f'[2]
  BY DEF Popcount
<1>18. Len(ingr_del_bffr1') = DEL_BFFR_DEPTH => drops' + Popcount' <= PART_MEM_DELAY
  BY <1>14, <1>15, <1>16, <1>17 DEF PART_MEM_DELAY
<1> QED BY <1>2, <1>14, <1>18 DEF DropInv

(***************************************************************************)
(* However deep the delay buffers and however many agents: the full flag,  *)
(* which does not count the pops under way, costs at most PART_MEM_DELAY   *)
(* requests between two requests the controller takes.                     *)
(***************************************************************************)
THEOREM DropsAreBounded == Spec => []DropsBounded
<1>1. Init => DropInv
  <2>1. SUFFICES ASSUME Init PROVE DropInv
    OBVIOUS
  <2>2. TypeInv
    BY <2>1, InitType DEF TypeInv, Init, DelayBffr0Matches, Popcount
  <2>3. Len(ingr_del_bffr1) = 0 /\ drops = 0
    BY <2>1 DEF Init
  <2> QED BY <2>2, <2>3, ConstAssumption DEF DropInv
<1>2. DropInv /\ [Next]_vars => DropInv'
  <2> SUFFICES ASSUME DropInv, [Next]_vars PROVE DropInv'
    OBVIOUS
  <2>1. TypeInv'
    BY NextType DEF DropInv
  <2>2. ASSUME NEW rdy \in BOOLEAN, NEW rdv \in BOOLEAN, CntrlrTick(rdy, rdv)
        PROVE  DropInv'
    BY <2>2, TickDrops
  <2>3. ASSUME UNCHANGED arbVars PROVE DropInv'
    BY <2>1, <2>3 DEF DropInv, arbVars, Popcount
  <2>4. \/ \E rdy, rdv \in BOOLEAN : CntrlrTick(rdy, rdv)
        \/ UNCHANGED arbVars
    BY DEF Next, vars, AgentRequest, AgentResponse, PartStartWrite,
           SyncIngrRd, SyncIngrWr, SyncEgrRd, SyncEgrWr
  <2> QED BY <2>2, <2>3, <2>4
<1>3. DropInv => DropsBounded
  <2> SUFFICES ASSUME DropInv PROVE drops <= 3
    BY DEF DropsBounded, PART_MEM_DELAY
  <2>1. TypeOK /\ drops \in Nat /\ Len(ingr_del_bffr1) \in Nat /\ DEL_BFFR_DEPTH \in Nat
    <3>1. TypeOK
      BY DEF DropInv, TypeInv
    <3>2. drops \in Nat /\ ingr_del_bffr1 \in Seq(Issued)
      BY <3>1 DEF TypeOK
    <3> QED BY <3>1, <3>2, ConstAssumption
  <2>2. part_mem_del_vec_f[0] \in {0, 1} /\ part_mem_del_vec_f[1] \in {0, 1}
        /\ part_mem_del_vec_f[2] \in {0, 1}
    BY <2>1 DEF TypeOK, Bit
  <2>3. /\ Len(ingr_del_bffr1) <= DEL_BFFR_DEPTH
        /\ Len(ingr_del_bffr1) = DEL_BFFR_DEPTH => drops + Popcount <= 3
        /\ Len(ingr_del_bffr1) < DEL_BFFR_DEPTH => drops = 0
    BY DEF DropInv, PART_MEM_DELAY
  <2>4. Popcount \in Nat
    BY <2>2 DEF Popcount
  <2> QED BY <2>1, <2>3, <2>4
<1> QED BY <1>1, <1>2, <1>3, PTL DEF Spec

-----------------------------------------------------------------------------
(***************************************************************************)
(* The arbiter neither reorders, repeats nor forgets: the ingress path and *)
(* the egress path, for every number of agents and every depth.            *)
(*                                                                         *)
(* An edge of cntrlr_clk does up to three things to the chain of buffers,  *)
(* which are looked at one after the other: the controller takes the head  *)
(* of delay buffer 1, the head of delay buffer 0 moves on, the head of an  *)
(* ingress FIFO moves on.                                                  *)
(***************************************************************************)

Reqs == Seq(Request)

\* Of one agent, every request in s was made before request number n.
AllBelow(s, a, n) == \A i \in DOMAIN s : s[i].a = a => s[i].n < n
AllAbove(s, a, n) == \A i \in DOMAIN s : s[i].a = a => n < s[i].n

\* The numbers of the requests of agent a in s.
Nums(s, a) == {s[i].n : i \in {j \in DOMAIN s : s[j].a = a}}

-----------------------------------------------------------------------------
(***************************************************************************)
(* Sequences of requests: what taking the head and adding a last one do.   *)
(***************************************************************************)
LEMMA TailOrder ==
  ASSUME NEW s \in Reqs, s # << >>
  PROVE  /\ Tail(s) \in Reqs /\ Head(s) \in Request
         /\ Ascending(s) => /\ Ascending(Tail(s))
                            /\ AllAbove(Tail(s), Head(s).a, Head(s).n)
         /\ \A a, n : /\ AllBelow(s, a, n) => AllBelow(Tail(s), a, n)
                      /\ AllAbove(s, a, n) => AllAbove(Tail(s), a, n)
         /\ \A a : Nums(s, a) = Nums(Tail(s), a)
                                  \cup (IF Head(s).a = a THEN {Head(s).n} ELSE {})
<1>1. /\ Tail(s) \in Reqs /\ Head(s) = s[1] /\ s[1] \in Request
      /\ Len(s) \in Nat \ {0} /\ Len(Tail(s)) = Len(s) - 1
      /\ DOMAIN s = 1 .. Len(s) /\ DOMAIN Tail(s) = 1 .. (Len(s) - 1)
      /\ \A i \in 1 .. (Len(s) - 1) : Tail(s)[i] = s[i + 1]
  BY DEF Reqs
<1>2. \A i \in DOMAIN Tail(s) : i + 1 \in DOMAIN s /\ Tail(s)[i] = s[i + 1] /\ 1 < i + 1
  BY <1>1
<1>3. 1 \in DOMAIN s /\ \A j \in DOMAIN s : j = 1 \/ (j - 1 \in DOMAIN Tail(s) /\ Tail(s)[j - 1] = s[j])
  BY <1>1
<1>4. ASSUME Ascending(s) PROVE Ascending(Tail(s)) /\ AllAbove(Tail(s), Head(s).a, Head(s).n)
  <2>1. \A i, j \in DOMAIN Tail(s) : i < j => i + 1 < j + 1
    BY <1>1
  <2>2. Ascending(Tail(s))
    BY <1>2, <1>4, <2>1 DEF Ascending
  <2>3. AllAbove(Tail(s), Head(s).a, Head(s).n)
    BY <1>1, <1>2, <1>3, <1>4 DEF Ascending, AllAbove
  <2> QED BY <2>2, <2>3
<1>5. ASSUME NEW a, NEW n
      PROVE  /\ AllBelow(s, a, n) => AllBelow(Tail(s), a, n)
             /\ AllAbove(s, a, n) => AllAbove(Tail(s), a, n)
  BY <1>2 DEF AllBelow, AllAbove
<1>6. ASSUME NEW a
      PROVE  Nums(s, a) = Nums(Tail(s), a) \cup (IF Head(s).a = a THEN {Head(s).n} ELSE {})
  <2>1. \A x \in Nums(s, a) : x \in Nums(Tail(s), a) \/ (Head(s).a = a /\ x = Head(s).n)
    BY <1>1, <1>3 DEF Nums
  <2>2. \A x \in Nums(Tail(s), a) : x \in Nums(s, a)
    BY <1>2 DEF Nums
  <2>3. Head(s).a = a => Head(s).n \in Nums(s, a)
    BY <1>1, <1>3 DEF Nums
  <2> QED BY <2>1, <2>2, <2>3
<1> QED BY <1>1, <1>4, <1>5, <1>6

LEMMA AppendOrder ==
  ASSUME NEW s \in Reqs, NEW x \in Request
  PROVE  /\ Append(s, x) \in Reqs
         /\ Ascending(s) /\ AllBelow(s, x.a, x.n) => Ascending(Append(s, x))
         /\ \A a, n : /\ AllBelow(s, a, n) /\ (x.a = a => x.n < n) => AllBelow(Append(s, x), a, n)
                      /\ AllAbove(s, a, n) /\ (x.a = a => n < x.n) => AllAbove(Append(s, x), a, n)
         /\ \A a : Nums(Append(s, x), a) = Nums(s, a) \cup (IF x.a = a THEN {x.n} ELSE {})
<1> DEFINE t == Append(s, x)
<1>1. /\ t \in Reqs /\ Len(s) \in Nat
      /\ DOMAIN s = 1 .. Len(s) /\ DOMAIN t = 1 .. (Len(s) + 1)
      /\ \A i \in 1 .. Len(s) : t[i] = s[i]
      /\ t[Len(s) + 1] = x
  BY DEF Reqs
<1> HIDE DEF t
<1>2. \A i \in DOMAIN t : (i \in DOMAIN s /\ t[i] = s[i]) \/ (i = Len(s) + 1 /\ t[i] = x)
  BY <1>1
<1>3. Len(s) + 1 \in DOMAIN t /\ \A i \in DOMAIN s : i \in DOMAIN t /\ i < Len(s) + 1
  BY <1>1
<1>4. ASSUME Ascending(s), AllBelow(s, x.a, x.n) PROVE Ascending(t)
  <2> SUFFICES ASSUME NEW i \in DOMAIN t, NEW j \in DOMAIN t, i < j, t[i].a = t[j].a
               PROVE  t[i].n < t[j].n
    BY DEF Ascending
  <2>1. CASE j \in DOMAIN s
    <3>1. i \in DOMAIN s
      BY <1>1, <2>1
    <3> QED BY <1>1, <1>4, <2>1, <3>1 DEF Ascending
  <2>2. CASE j = Len(s) + 1
    <3>1. i \in DOMAIN s /\ t[j] = x /\ t[i] = s[i]
      BY <1>1, <2>2
    <3> QED BY <1>4, <3>1 DEF AllBelow
  <2> QED BY <1>2, <2>1, <2>2
<1>5. ASSUME NEW a, NEW n
      PROVE  /\ AllBelow(s, a, n) /\ (x.a = a => x.n < n) => AllBelow(t, a, n)
             /\ AllAbove(s, a, n) /\ (x.a = a => n < x.n) => AllAbove(t, a, n)
  BY <1>2 DEF AllBelow, AllAbove
<1>6. ASSUME NEW a
      PROVE  Nums(t, a) = Nums(s, a) \cup (IF x.a = a THEN {x.n} ELSE {})
  <2>1. \A y \in Nums(t, a) : y \in Nums(s, a) \/ (x.a = a /\ y = x.n)
    BY <1>2 DEF Nums
  <2>2. \A y \in Nums(s, a) : y \in Nums(t, a)
    BY <1>1, <1>3 DEF Nums
  <2>3. x.a = a => x.n \in Nums(t, a)
    BY <1>1, <1>3 DEF Nums
  <2> QED BY <2>1, <2>2, <2>3
<1> QED BY <1>1, <1>4, <1>5, <1>6 DEF t

\* Before, in the terms of the lemmas above.
LEMMA BeforeBelow ==
  ASSUME NEW s, NEW t
  PROVE  /\ Before(s, t) <=> \A j \in DOMAIN t : AllBelow(s, t[j].a, t[j].n)
         /\ Before(s, t) <=> \A i \in DOMAIN s : AllAbove(t, s[i].a, s[i].n)
BY DEF Before, AllBelow, AllAbove

LEMMA BeforeTail ==
  ASSUME NEW s \in Reqs, NEW t \in Reqs
  PROVE  /\ s # << >> /\ Before(s, t) => Before(Tail(s), t) /\ AllAbove(t, Head(s).a, Head(s).n)
         /\ t # << >> /\ Before(s, t) => Before(s, Tail(t)) /\ AllBelow(s, Head(t).a, Head(t).n)
<1>1. ASSUME s # << >>, Before(s, t)
      PROVE  Before(Tail(s), t) /\ AllAbove(t, Head(s).a, Head(s).n)
  <2>1. 1 \in DOMAIN s /\ Head(s) = s[1]
    BY <1>1 DEF Reqs
  <2>2. AllAbove(t, Head(s).a, Head(s).n)
    BY <1>1, <2>1 DEF Before, AllAbove
  <2>3. \A j \in DOMAIN t : AllBelow(Tail(s), t[j].a, t[j].n)
    BY <1>1, TailOrder, BeforeBelow
  <2> QED BY <2>2, <2>3, BeforeBelow
<1>2. ASSUME t # << >>, Before(s, t)
      PROVE  Before(s, Tail(t)) /\ AllBelow(s, Head(t).a, Head(t).n)
  <2>1. 1 \in DOMAIN t /\ Head(t) = t[1]
    BY <1>2 DEF Reqs
  <2>2. AllBelow(s, Head(t).a, Head(t).n)
    BY <1>2, <2>1 DEF Before, AllBelow
  <2>3. \A i \in DOMAIN s : AllAbove(Tail(t), s[i].a, s[i].n)
    BY <1>2, TailOrder, BeforeBelow
  <2> QED BY <2>2, <2>3, BeforeBelow
<1> QED BY <1>1, <1>2

LEMMA BeforeAppend ==
  ASSUME NEW s \in Reqs, NEW t \in Reqs, NEW x \in Request
  PROVE  /\ Before(s, t) /\ AllAbove(t, x.a, x.n) => Before(Append(s, x), t)
         /\ Before(s, t) /\ AllBelow(s, x.a, x.n) => Before(s, Append(t, x))
<1>1. ASSUME Before(s, t), AllAbove(t, x.a, x.n) PROVE Before(Append(s, x), t)
  <2>1. ASSUME NEW j \in DOMAIN t PROVE AllBelow(Append(s, x), t[j].a, t[j].n)
    <3>1. AllBelow(s, t[j].a, t[j].n) /\ (x.a = t[j].a => x.n < t[j].n)
      BY <1>1, BeforeBelow DEF AllAbove
    <3> QED BY <3>1, AppendOrder
  <2> QED BY <2>1, BeforeBelow
<1>2. ASSUME Before(s, t), AllBelow(s, x.a, x.n) PROVE Before(s, Append(t, x))
  <2>1. ASSUME NEW i \in DOMAIN s PROVE AllAbove(Append(t, x), s[i].a, s[i].n)
    <3>1. AllAbove(t, s[i].a, s[i].n) /\ (x.a = s[i].a => s[i].n < x.n)
      BY <1>2, BeforeBelow DEF AllBelow
    <3> QED BY <3>1, AppendOrder
  <2> QED BY <2>1, BeforeBelow
<1> QED BY <1>1, <1>2

-----------------------------------------------------------------------------
(***************************************************************************)
(* The ingress path as a chain of buffers: s1 and s0 are what the delay    *)
(* buffers hold, Q[a] what the FIFO of agent a holds, dn[a] its request    *)
(* that the controller took last and sn[a] the one it made last.           *)
(***************************************************************************)
Ord(s1, s0, Q, dn, sn) ==
  /\ Ascending(s1) /\ Ascending(s0) /\ Before(s1, s0)
  /\ \A a \in Agents :
       /\ dn[a] <= sn[a]
       /\ AllAbove(s1, a, dn[a]) /\ AllBelow(s1, a, sn[a] + 1)
       /\ AllAbove(s0, a, dn[a]) /\ AllBelow(s0, a, sn[a] + 1)
       /\ AllAbove(Q[a], a, dn[a]) /\ AllBelow(Q[a], a, sn[a] + 1)
       /\ Ascending(Q[a]) /\ Before(s1, Q[a]) /\ Before(s0, Q[a])
       /\ \A i \in DOMAIN Q[a] : Q[a][i].a = a

Held(s1, s0, Q, a) == Nums(s1, a) \cup Nums(s0, a) \cup Nums(Q[a], a)

Full(s1, s0, Q, dn, sn) ==
  \A a \in Agents : Held(s1, s0, Q, a) = dn[a] + 1 .. sn[a]

\* The controller takes the head of s1, the least request of its agent.
LEMMA TakeStep ==
  ASSUME NEW s1 \in Reqs, NEW s0 \in Reqs, NEW Q \in [Agents -> Reqs],
         NEW dn \in [Agents -> Nat], NEW sn \in [Agents -> Nat],
         Ord(s1, s0, Q, dn, sn), s1 # << >>
  PROVE  LET h == Head(s1)
             d == [dn EXCEPT ![h.a] = h.n]
         IN  /\ Ord(Tail(s1), s0, Q, d, sn)
             /\ Full(s1, s0, Q, dn, sn) => Full(Tail(s1), s0, Q, d, sn)
<1> DEFINE h == Head(s1)
           d == [dn EXCEPT ![h.a] = h.n]
           t == Tail(s1)
<1>1. /\ t \in Reqs /\ h \in Request /\ Ascending(t) /\ AllAbove(t, h.a, h.n)
      /\ \A a, n : /\ AllBelow(s1, a, n) => AllBelow(t, a, n)
                   /\ AllAbove(s1, a, n) => AllAbove(t, a, n)
      /\ \A a : Nums(s1, a) = Nums(t, a) \cup (IF h.a = a THEN {h.n} ELSE {})
  BY TailOrder DEF Ord
<1>2. /\ Before(t, s0) /\ AllAbove(s0, h.a, h.n)
      /\ \A a \in Agents : Before(t, Q[a]) /\ AllAbove(Q[a], h.a, h.n)
  BY BeforeTail DEF Ord
<1>3. h.a \in Agents /\ h.n \in Nat
  BY <1>1 DEF Request
<1>4. dn[h.a] < h.n /\ h.n < sn[h.a] + 1
  <2>1. 1 \in DOMAIN s1 /\ h = s1[1]
    BY DEF Reqs
  <2> QED BY <1>3, <2>1 DEF Ord, AllAbove, AllBelow
<1>5. d \in [Agents -> Nat] /\ d[h.a] = h.n /\ \A a \in Agents : a # h.a => d[a] = dn[a]
  BY <1>3
<1>6. d[h.a] <= sn[h.a]
  BY <1>3, <1>4, <1>5
<1> HIDE DEF h, d, t
<1>7. Ord(t, s0, Q, d, sn)
  <2>1. ASSUME NEW a \in Agents
        PROVE  /\ d[a] <= sn[a] /\ AllAbove(t, a, d[a]) /\ AllAbove(s0, a, d[a])
               /\ AllAbove(Q[a], a, d[a])
    <3>1. CASE a = h.a
      BY <1>1, <1>2, <1>5, <1>6, <3>1
    <3>2. CASE a # h.a
      BY <1>1, <1>5, <3>2 DEF Ord
    <3> QED BY <3>1, <3>2
  <2> QED BY <1>1, <1>2, <2>1 DEF Ord
<1>8. ASSUME Full(s1, s0, Q, dn, sn) PROVE Full(t, s0, Q, d, sn)
  <2> SUFFICES ASSUME NEW a \in Agents PROVE Held(t, s0, Q, a) = d[a] + 1 .. sn[a]
    BY DEF Full
  <2>1. Held(s1, s0, Q, a) = dn[a] + 1 .. sn[a]
    BY <1>8 DEF Full
  <2>2. CASE a # h.a
    <3>1. Nums(s1, a) = Nums(t, a)
      BY <1>1, <2>2
    <3> QED BY <1>5, <2>1, <2>2, <3>1 DEF Held
  <2>3. CASE a = h.a
    <3>1. Held(s1, s0, Q, a) = Held(t, s0, Q, a) \cup {h.n}
      BY <1>1, <2>3 DEF Held
    <3>2. \A x \in Held(t, s0, Q, a) : h.n < x
      <4>1. \A x \in Nums(t, a) : h.n < x
        BY <1>1, <2>3 DEF Nums, AllAbove
      <4>2. \A x \in Nums(s0, a) : h.n < x
        BY <1>2, <2>3 DEF Nums, AllAbove
      <4>3. \A x \in Nums(Q[a], a) : h.n < x
        BY <1>2, <2>3 DEF Nums, AllAbove
      <4> QED BY <4>1, <4>2, <4>3 DEF Held
    <3>3. \A x \in Held(t, s0, Q, a) : x \in h.n + 1 .. sn[a]
      BY <1>3, <2>1, <3>1, <3>2
    <3>4. \A x \in h.n + 1 .. sn[a] : x \in dn[a] + 1 .. sn[a] /\ x # h.n
      BY <1>3, <1>4, <2>3
    <3>5. \A x \in h.n + 1 .. sn[a] : x \in Held(t, s0, Q, a)
      BY <2>1, <3>1, <3>4
    <3> QED BY <1>5, <2>3, <3>3, <3>5
  <2> QED BY <2>2, <2>3
<1> QED BY <1>7, <1>8 DEF h, d, t

\* The head of s0 moves to the end of s1, or is dropped.
LEMMA MoveStep ==
  ASSUME NEW s1 \in Reqs, NEW s0 \in Reqs, NEW Q \in [Agents -> Reqs],
         NEW dn \in [Agents -> Nat], NEW sn \in [Agents -> Nat],
         Ord(s1, s0, Q, dn, sn), s0 # << >>
  PROVE  /\ Ord(s1, Tail(s0), Q, dn, sn)
         /\ Ord(Append(s1, Head(s0)), Tail(s0), Q, dn, sn)
         /\ Full(s1, s0, Q, dn, sn) =>
              Full(Append(s1, Head(s0)), Tail(s0), Q, dn, sn)
<1> DEFINE h == Head(s0)
           t == Tail(s0)
           u == Append(s1, h)
<1>1. /\ t \in Reqs /\ h \in Request /\ Ascending(t) /\ AllAbove(t, h.a, h.n)
      /\ \A a, n : /\ AllBelow(s0, a, n) => AllBelow(t, a, n)
                   /\ AllAbove(s0, a, n) => AllAbove(t, a, n)
      /\ \A a : Nums(s0, a) = Nums(t, a) \cup (IF h.a = a THEN {h.n} ELSE {})
  BY TailOrder DEF Ord
<1>2. /\ Before(s1, t) /\ AllBelow(s1, h.a, h.n)
      /\ \A a \in Agents : Before(t, Q[a]) /\ AllAbove(Q[a], h.a, h.n)
  BY BeforeTail DEF Ord
<1>3. Ord(s1, t, Q, dn, sn)
  <2> HIDE DEF t, h
  <2> QED BY <1>1, <1>2 DEF Ord
<1>4. \A a \in Agents : h.a = a => dn[a] < h.n /\ h.n < sn[a] + 1
  <2>1. 1 \in DOMAIN s0 /\ h = s0[1]
    BY DEF Reqs
  <2> QED BY <2>1 DEF Ord, AllAbove, AllBelow
<1>5. /\ u \in Reqs /\ Ascending(u)
      /\ \A a, n : /\ AllBelow(s1, a, n) /\ (h.a = a => h.n < n) => AllBelow(u, a, n)
                   /\ AllAbove(s1, a, n) /\ (h.a = a => n < h.n) => AllAbove(u, a, n)
      /\ \A a : Nums(u, a) = Nums(s1, a) \cup (IF h.a = a THEN {h.n} ELSE {})
  <2>1. Ascending(s1)
    BY DEF Ord
  <2> HIDE DEF h
  <2> QED BY <1>1, <1>2, <2>1, AppendOrder
<1>6. Before(u, t) /\ \A a \in Agents : Before(u, Q[a])
  <2>1. \A a \in Agents : Before(s1, Q[a])
    BY DEF Ord
  <2> HIDE DEF h, t
  <2> QED BY <1>1, <1>2, <2>1, BeforeAppend
<1> HIDE DEF h, t, u
<1>7. Ord(u, t, Q, dn, sn)
  BY <1>3, <1>4, <1>5, <1>6 DEF Ord
<1>8. ASSUME NEW a PROVE Held(u, t, Q, a) = Held(s1, s0, Q, a)
  BY <1>1, <1>5 DEF Held
<1> QED BY <1>3, <1>7, <1>8 DEF Full, h, t, u

\* The head of the FIFO of agent id moves, stamped, to the end of s0.
LEMMA PopStep ==
  ASSUME NEW s1 \in Reqs, NEW s0 \in Reqs, NEW Q \in [Agents -> Reqs],
         NEW dn \in [Agents -> Nat], NEW sn \in [Agents -> Nat],
         Ord(s1, s0, Q, dn, sn), NEW id \in Agents, Q[id] # << >>,
         NEW x \in Request, x.a = Head(Q[id]).a, x.n = Head(Q[id]).n
  PROVE  LET R == [Q EXCEPT ![id] = Tail(Q[id])]
         IN  /\ R \in [Agents -> Reqs]
             /\ Ord(s1, Append(s0, x), R, dn, sn)
             /\ Full(s1, s0, Q, dn, sn) => Full(s1, Append(s0, x), R, dn, sn)
<1> DEFINE q == Q[id]
           t == Tail(q)
           u == Append(s0, x)
           R == [Q EXCEPT ![id] = t]
<1>0. q \in Reqs /\ q # << >> /\ Ascending(q)
  BY DEF Ord
<1>1. /\ t \in Reqs /\ Ascending(t) /\ AllAbove(t, x.a, x.n)
      /\ \A a, n : /\ AllBelow(q, a, n) => AllBelow(t, a, n)
                   /\ AllAbove(q, a, n) => AllAbove(t, a, n)
      /\ \A a : Nums(q, a) = Nums(t, a) \cup (IF x.a = a THEN {x.n} ELSE {})
  <2> HIDE DEF q
  <2> QED BY <1>0, TailOrder DEF q
<1>2. /\ Before(s1, t) /\ Before(s0, t)
      /\ AllBelow(s1, x.a, x.n) /\ AllBelow(s0, x.a, x.n)
  <2>1. Before(s1, q) /\ Before(s0, q)
    BY DEF Ord
  <2>2. x.a = Head(q).a /\ x.n = Head(q).n
    OBVIOUS
  <2> HIDE DEF q
  <2> QED BY <1>0, <2>1, <2>2, BeforeTail
<1>3. x.a = id /\ dn[id] < x.n /\ x.n < sn[id] + 1 /\ \A i \in DOMAIN t : t[i].a = id
  <2>1. 1 \in DOMAIN q /\ Head(q) = q[1] /\ \A i \in DOMAIN t : i + 1 \in DOMAIN q /\ t[i] = q[i + 1]
    BY <1>0 DEF Reqs
  <2> QED BY <2>1 DEF Ord, AllAbove, AllBelow
<1>4. R \in [Agents -> Reqs] /\ R[id] = t /\ \A a \in Agents : a # id => R[a] = Q[a]
  BY <1>1
<1>5. /\ u \in Reqs /\ Ascending(u)
      /\ \A a, n : /\ AllBelow(s0, a, n) /\ (x.a = a => x.n < n) => AllBelow(u, a, n)
                   /\ AllAbove(s0, a, n) /\ (x.a = a => n < x.n) => AllAbove(u, a, n)
      /\ \A a : Nums(u, a) = Nums(s0, a) \cup (IF x.a = a THEN {x.n} ELSE {})
  BY <1>2, AppendOrder DEF Ord
<1>6. \A a \in Agents : a # id => AllAbove(Q[a], x.a, x.n)
  BY <1>3 DEF Ord, AllAbove
<1>7. Before(s1, u) /\ \A a \in Agents : Before(u, R[a])
  <2>1. Before(s1, u)
    BY <1>2, BeforeAppend DEF Ord
  <2>2. Before(u, t)
    <3> HIDE DEF t
    <3> QED BY <1>1, <1>2, BeforeAppend
  <2>3. \A a \in Agents : a # id => Before(u, Q[a])
    BY <1>6, BeforeAppend DEF Ord
  <2> QED BY <1>4, <2>1, <2>2, <2>3
<1> HIDE DEF q, t, u, R
<1>8. Ord(s1, u, R, dn, sn)
  <2>1. ASSUME NEW a \in Agents
        PROVE  /\ AllAbove(u, a, dn[a]) /\ AllBelow(u, a, sn[a] + 1)
               /\ AllAbove(R[a], a, dn[a]) /\ AllBelow(R[a], a, sn[a] + 1)
               /\ Ascending(R[a]) /\ Before(s1, R[a]) /\ Before(u, R[a])
               /\ \A i \in DOMAIN R[a] : R[a][i].a = a
    <3>1. CASE a = id
      BY <1>1, <1>2, <1>3, <1>4, <1>5, <1>7, <3>1 DEF Ord, q
    <3>2. CASE a # id
      BY <1>3, <1>4, <1>5, <1>7, <3>2 DEF Ord
    <3> QED BY <3>1, <3>2
  <2> QED BY <1>5, <1>7, <2>1 DEF Ord
<1>9. ASSUME NEW a \in Agents PROVE Held(s1, u, R, a) = Held(s1, s0, Q, a)
  <2>1. CASE a = id
    BY <1>1, <1>4, <1>5, <2>1 DEF Held, q
  <2>2. CASE a # id
    BY <1>3, <1>4, <1>5, <2>2 DEF Held
  <2> QED BY <2>1, <2>2
<1> QED BY <1>4, <1>8, <1>9 DEF Full, q, t, u, R

\* Agent id makes its next request.
LEMMA SendStep ==
  ASSUME NEW s1 \in Reqs, NEW s0 \in Reqs, NEW Q \in [Agents -> Reqs],
         NEW dn \in [Agents -> Nat], NEW sn \in [Agents -> Nat],
         Ord(s1, s0, Q, dn, sn), NEW id \in Agents,
         NEW x \in Request, x.a = id, x.n = sn[id] + 1
  PROVE  LET R == [Q EXCEPT ![id] = Append(Q[id], x)]
             s == [sn EXCEPT ![id] = sn[id] + 1]
         IN  /\ Ord(s1, s0, R, dn, s)
             /\ Full(s1, s0, Q, dn, sn) => Full(s1, s0, R, dn, s)
<1> DEFINE q == Q[id]
           u == Append(q, x)
           R == [Q EXCEPT ![id] = u]
           s == [sn EXCEPT ![id] = sn[id] + 1]
<1>0. q \in Reqs /\ Ascending(q) /\ AllBelow(q, x.a, x.n) /\ AllAbove(q, id, dn[id])
      /\ Before(s1, q) /\ Before(s0, q) /\ AllBelow(s1, x.a, x.n) /\ AllBelow(s0, x.a, x.n)
      /\ dn[id] <= sn[id]
  BY DEF Ord
<1>1. sn[id] \in Nat /\ dn[id] \in Nat
  OBVIOUS
<1> HIDE DEF q
<1>2. /\ u \in Reqs /\ Ascending(u)
      /\ \A a, n : /\ AllBelow(q, a, n) /\ (x.a = a => x.n < n) => AllBelow(u, a, n)
                   /\ AllAbove(q, a, n) /\ (x.a = a => n < x.n) => AllAbove(u, a, n)
      /\ \A a : Nums(u, a) = Nums(q, a) \cup (IF x.a = a THEN {x.n} ELSE {})
  BY <1>0, AppendOrder
<1>3. Before(s1, u) /\ Before(s0, u)
  BY <1>0, BeforeAppend
<1>4. ASSUME NEW v \in Reqs, NEW a, AllBelow(v, a, sn[id] + 1)
      PROVE  AllBelow(v, a, sn[id] + 2)
  <2> SUFFICES ASSUME NEW i \in DOMAIN v, v[i].a = a PROVE v[i].n < sn[id] + 2
    BY DEF AllBelow
  <2>1. v[i] \in Request /\ v[i].n < sn[id] + 1
    BY <1>4 DEF AllBelow, Reqs
  <2>2. v[i].n \in Nat
    BY <2>1 DEF Request
  <2> QED BY <1>1, <2>1, <2>2
<1>5. AllBelow(u, id, sn[id] + 2) /\ AllAbove(u, id, dn[id])
  <2>1. AllBelow(q, id, sn[id] + 2)
    BY <1>0, <1>4
  <2>2. x.n < sn[id] + 2 /\ dn[id] < x.n
    BY <1>0, <1>1
  <2> HIDE DEF u
  <2> QED BY <1>0, <1>2, <2>1, <2>2
<1>6. R[id] = u /\ \A a \in Agents : a # id => R[a] = Q[a]
  BY <1>2
<1>7. s \in [Agents -> Nat] /\ s[id] = sn[id] + 1 /\ (\A a \in Agents : a # id => s[a] = sn[a])
      /\ s[id] + 1 = sn[id] + 2 /\ dn[id] <= s[id]
  BY <1>0, <1>1
<1>8. \A i \in DOMAIN u : u[i].a = id
  <2>1. \A i \in DOMAIN q : q[i].a = id
    BY DEF Ord, q
  <2> QED BY <1>0, <2>1 DEF Reqs
<1> HIDE DEF u, R, s
<1>9. Ord(s1, s0, R, dn, s)
  <2>1. ASSUME NEW a \in Agents
        PROVE  /\ dn[a] <= s[a]
               /\ AllBelow(s1, a, s[a] + 1) /\ AllBelow(s0, a, s[a] + 1)
               /\ AllAbove(R[a], a, dn[a]) /\ AllBelow(R[a], a, s[a] + 1)
               /\ Ascending(R[a]) /\ Before(s1, R[a]) /\ Before(s0, R[a])
               /\ \A i \in DOMAIN R[a] : R[a][i].a = a
    <3>1. CASE a = id
      BY <1>0, <1>2, <1>3, <1>4, <1>5, <1>6, <1>7, <1>8, <3>1
    <3>2. CASE a # id
      BY <1>6, <1>7, <3>2 DEF Ord
    <3> QED BY <3>1, <3>2
  <2> QED BY <2>1 DEF Ord
<1>10. ASSUME Full(s1, s0, Q, dn, sn) PROVE Full(s1, s0, R, dn, s)
  <2> SUFFICES ASSUME NEW a \in Agents PROVE Held(s1, s0, R, a) = dn[a] + 1 .. s[a]
    BY DEF Full
  <2>1. Held(s1, s0, Q, a) = dn[a] + 1 .. sn[a]
    BY <1>10 DEF Full
  <2>2. CASE a = id
    <3>1. Held(s1, s0, R, a) = Held(s1, s0, Q, a) \cup {x.n}
      BY <1>2, <1>6, <2>2 DEF Held, q
    <3>2. (dn[a] + 1 .. sn[a]) \cup {sn[a] + 1} = dn[a] + 1 .. sn[a] + 1
      BY <1>0, <1>1, <2>2
    <3> QED BY <1>7, <2>1, <2>2, <3>1, <3>2
  <2>3. CASE a # id
    BY <1>6, <1>7, <2>1, <2>3 DEF Held
  <2> QED BY <2>2, <2>3
<1> QED BY <1>9, <1>10 DEF q, u, R, s

-----------------------------------------------------------------------------
\* The requests in delay buffer 1, without the addresses added to them.
ReqsOf(b) == [i \in DOMAIN b |-> b[i].req]

LEMMA ReqsOfType ==
  ASSUME NEW b \in Seq(Issued)
  PROVE  /\ ReqsOf(b) \in Reqs /\ (b # << >> <=> ReqsOf(b) # << >>)
         /\ Len(ReqsOf(b)) = Len(b)
<1>1. DOMAIN b = 1 .. Len(b) /\ Len(b) \in Nat /\ \A i \in 1 .. Len(b) : b[i].req \in Request
  <2>1. DOMAIN b = 1 .. Len(b) /\ Len(b) \in Nat /\ \A i \in 1 .. Len(b) : b[i] \in Issued
    OBVIOUS
  <2>2. \A x \in Issued : x.req \in Request
    BY DEF Issued
  <2> QED BY <2>1, <2>2
<1>2. ReqsOf(b) \in Reqs /\ Len(ReqsOf(b)) = Len(b)
  BY <1>1 DEF ReqsOf, Reqs
<1> QED BY <1>1, <1>2 DEF Reqs

LEMMA ReqsOfTail ==
  ASSUME NEW b \in Seq(Issued), b # << >>
  PROVE  Tail(b) \in Seq(Issued) /\ ReqsOf(Tail(b)) = Tail(ReqsOf(b)) /\ Head(ReqsOf(b)) = Head(b).req
<1>1. /\ DOMAIN b = 1 .. Len(b) /\ Len(b) \in Nat \ {0} /\ Head(b) = b[1]
      /\ Tail(b) \in Seq(Issued) /\ DOMAIN Tail(b) = 1 .. Len(b) - 1
      /\ \A i \in 1 .. Len(b) - 1 : Tail(b)[i] = b[i + 1] /\ i + 1 \in 1 .. Len(b)
  OBVIOUS
<1> DEFINE r == ReqsOf(b)
<1>2. /\ r \in Seq(Request) /\ Len(r) = Len(b)
      /\ \A i \in 1 .. Len(b) : r[i] = b[i].req
  <2>1. r \in Seq(Request) /\ Len(r) = Len(b)
    BY ReqsOfType DEF Reqs
  <2> QED BY <1>1, <2>1 DEF ReqsOf
<1> HIDE DEF r
<1>3. /\ Head(r) = r[1] /\ Tail(r) \in Seq(Request) /\ Len(Tail(r)) = Len(b) - 1
      /\ \A i \in 1 .. Len(b) - 1 : Tail(r)[i] = r[i + 1]
  BY <1>1, <1>2
<1>4. ReqsOf(Tail(b)) \in Seq(Request) /\ Len(ReqsOf(Tail(b))) = Len(b) - 1
  <2>1. Tail(b) \in Seq(Issued) /\ Len(Tail(b)) = Len(b) - 1
    BY <1>1
  <2> QED BY <2>1, ReqsOfType DEF Reqs
<1>5. \A i \in 1 .. Len(b) - 1 : ReqsOf(Tail(b))[i] = r[i + 1]
  BY <1>1, <1>2 DEF ReqsOf
<1>6. ReqsOf(Tail(b)) = Tail(r)
  BY <1>3, <1>4, <1>5, SeqEqual
<1> QED BY <1>1, <1>2, <1>3, <1>6 DEF r

LEMMA ReqsOfAppend ==
  ASSUME NEW b \in Seq(Issued), NEW x \in Issued
  PROVE  Append(b, x) \in Seq(Issued) /\ ReqsOf(Append(b, x)) = Append(ReqsOf(b), x.req)
<1> DEFINE r == ReqsOf(b)
<1>1. /\ DOMAIN b = 1 .. Len(b) /\ Len(b) \in Nat
      /\ Append(b, x) \in Seq(Issued) /\ DOMAIN Append(b, x) = 1 .. Len(b) + 1
      /\ \A i \in 1 .. Len(b) : Append(b, x)[i] = b[i]
      /\ Append(b, x)[Len(b) + 1] = x
  OBVIOUS
<1>2. /\ r \in Seq(Request) /\ Len(r) = Len(b) /\ x.req \in Request
      /\ \A i \in 1 .. Len(b) : r[i] = b[i].req
  <2>1. r \in Seq(Request) /\ Len(r) = Len(b)
    BY ReqsOfType DEF Reqs
  <2>2. x.req \in Request
    BY DEF Issued
  <2> QED BY <1>1, <2>1, <2>2 DEF ReqsOf
<1> HIDE DEF r
<1> DEFINE f == [i \in 1 .. Len(b) + 1 |-> IF i = Len(b) + 1 THEN x.req ELSE r[i]]
<1>3. /\ Append(r, x.req) \in Seq(Request) /\ Len(Append(r, x.req)) = Len(b) + 1
      /\ \A i \in 1 .. Len(b) + 1 :
           Append(r, x.req)[i] = IF i = Len(b) + 1 THEN x.req ELSE r[i]
  BY <1>1, <1>2
<1>4. Append(r, x.req) = f
  BY <1>3
<1>5. \A i \in 1 .. Len(b) + 1 : Append(b, x)[i].req = IF i = Len(b) + 1 THEN x.req ELSE r[i]
  BY <1>1, <1>2
<1>6. ReqsOf(Append(b, x)) = f
  <2> HIDE DEF r
  <2> QED BY <1>1, <1>5 DEF ReqsOf
<1> QED BY <1>1, <1>4, <1>6 DEF r

-----------------------------------------------------------------------------
(***************************************************************************)
(* IngressKept, with what it needs to be inductive: also the requests in   *)
(* the delay buffers were made before sent says so.                        *)
(***************************************************************************)
Qs == [a \in Agents |-> ingr_bffr[a].q]

OrdNow == Ord(ReqsOf(ingr_del_bffr1), ingr_del_bffr0, Qs, done, sent)

FullNow == Full(ReqsOf(ingr_del_bffr1), ingr_del_bffr0, Qs, done, sent)

IngressInv == TypeInv /\ OrdNow /\ (lost = 0 => FullNow)

LEMMA IngressTypes ==
  ASSUME TypeInv
  PROVE  /\ ReqsOf(ingr_del_bffr1) \in Reqs /\ ingr_del_bffr0 \in Reqs
         /\ Qs \in [Agents -> Reqs]
         /\ done \in [Agents -> Nat] /\ sent \in [Agents -> Nat]
<1>1. ReqsOf(ingr_del_bffr1) \in Reqs
  BY ReqsOfType DEF TypeInv, TypeOK
<1> QED BY <1>1 DEF TypeInv, TypeOK, Reqs, Qs, FifoOf

LEMMA IngressInvKept == IngressInv => IngressKept
<1> SUFFICES ASSUME IngressInv PROVE IngressKept
  OBVIOUS
<1>1. /\ Reqs1 = ReqsOf(ingr_del_bffr1) /\ Reqs1 \in Reqs /\ ingr_del_bffr0 \in Reqs
      /\ done \in [Agents -> Nat] /\ sent \in [Agents -> Nat]
  BY IngressTypes DEF IngressInv, Reqs1, ReqsOf
<1>2. \A a \in Agents : Qs[a] = ingr_bffr[a].q /\ ingr_bffr[a].q \in Reqs
  BY IngressTypes DEF IngressInv, Qs
<1>3. \A s \in Reqs : \A i \in DOMAIN s : s[i].a \in Agents /\ s[i].n \in Nat
  <2>1. \A x \in Request : x.a \in Agents /\ x.n \in Nat
    BY DEF Request
  <2>2. \A s \in Reqs : \A i \in DOMAIN s : s[i] \in Request
    BY DEF Reqs
  <2> QED BY <2>1, <2>2
<1>4. Ord(Reqs1, ingr_del_bffr0, Qs, done, sent)
  BY <1>1 DEF IngressInv, OrdNow
<1>5. InOrder
  <2>1. /\ Ascending(Reqs1) /\ Ascending(ingr_del_bffr0) /\ Before(Reqs1, ingr_del_bffr0)
    BY <1>4 DEF Ord
  <2>2. \A i \in DOMAIN Reqs1 : done[Reqs1[i].a] < Reqs1[i].n
    BY <1>1, <1>3, <1>4 DEF Ord, AllAbove
  <2>3. \A i \in DOMAIN ingr_del_bffr0 : done[ingr_del_bffr0[i].a] < ingr_del_bffr0[i].n
    BY <1>1, <1>3, <1>4 DEF Ord, AllAbove
  <2>4. ASSUME NEW a \in Agents
        PROVE  /\ \A i \in DOMAIN ingr_bffr[a].q :
                    /\ ingr_bffr[a].q[i].a = a
                    /\ done[a] < ingr_bffr[a].q[i].n
                    /\ ingr_bffr[a].q[i].n <= sent[a]
               /\ Ascending(ingr_bffr[a].q)
               /\ Before(Reqs1, ingr_bffr[a].q)
               /\ Before(ingr_del_bffr0, ingr_bffr[a].q)
    <3> DEFINE q == ingr_bffr[a].q
    <3>1. q \in Reqs /\ q = Qs[a] /\ sent[a] \in Nat
      BY <1>1, <1>2
    <3> HIDE DEF q
    <3>2. \A i \in DOMAIN q : q[i].a = a /\ done[a] < q[i].n /\ q[i].n < sent[a] + 1
      BY <1>4, <3>1 DEF Ord, AllAbove, AllBelow
    <3>3. \A i \in DOMAIN q : q[i].n <= sent[a]
      BY <1>3, <3>1, <3>2
    <3>4. Ascending(q) /\ Before(Reqs1, q) /\ Before(ingr_del_bffr0, q)
      BY <1>4, <3>1 DEF Ord
    <3> QED BY <3>2, <3>3, <3>4 DEF q
  <2> QED BY <2>1, <2>2, <2>3, <2>4 DEF InOrder
<1>6. ASSUME lost = 0, NEW a \in Agents PROVE IngressOf(a) = done[a] + 1 .. sent[a]
  <2>1. Held(Reqs1, ingr_del_bffr0, Qs, a) = done[a] + 1 .. sent[a]
    BY <1>1, <1>6 DEF IngressInv, FullNow, Full
  <2>2. \A i \in DOMAIN ingr_bffr[a].q : ingr_bffr[a].q[i].a = a
    BY <1>5 DEF InOrder
  <2>3. Nums(Qs[a], a) = {ingr_bffr[a].q[i].n : i \in DOMAIN ingr_bffr[a].q}
    BY <1>2, <2>2 DEF Nums
  <2> QED BY <2>1, <2>3 DEF IngressOf, Held, Nums
<1> QED BY <1>5, <1>6 DEF IngressKept, NothingForgotten

\* One edge of cntrlr_clk: take, then move or drop, then pop.
LEMMA TickIngress ==
  ASSUME IngressInv, NEW rdy \in BOOLEAN, NEW rdv \in BOOLEAN,
         CntrlrTick(rdy, rdv)
  PROVE  OrdNow' /\ (lost' = 0 => FullNow')
<1>1. /\ TypeOK /\ TypeInv /\ DelayBffr0Matches
      /\ Arbitrate /\ DelayBffr0 /\ DelayBffr1(rdy)
      /\ CntrlrStep(rdy, rdv) /\ EgressPush(rdv) /\ sent' = sent
  BY DEF IngressInv, TypeInv, CntrlrTick
<1>2. /\ ReqsOf(ingr_del_bffr1) \in Reqs /\ ingr_del_bffr0 \in Reqs
      /\ Qs \in [Agents -> Reqs]
      /\ done \in [Agents -> Nat] /\ sent \in [Agents -> Nat]
      /\ ingr_del_bffr1 \in Seq(Issued)
  BY <1>1, IngressTypes DEF TypeOK
<1>3. lost \in {0, 1} /\ (DelBffr1Ovrflw => lost' = 1) /\ (lost' = 0 => lost = 0)
  BY <1>1 DEF EgressPush, TypeOK, Bit
\* take
<1> DEFINE b == IF CntrlrTakes(rdy) THEN Tail(ingr_del_bffr1) ELSE ingr_del_bffr1
<1>4. /\ b \in Seq(Issued) /\ ReqsOf(b) \in Reqs /\ done' \in [Agents -> Nat]
      /\ Ord(ReqsOf(b), ingr_del_bffr0, Qs, done', sent)
      /\ lost = 0 => Full(ReqsOf(b), ingr_del_bffr0, Qs, done', sent)
  <2>1. CASE CntrlrTakes(rdy)
    <3> DEFINE r == ReqsOf(ingr_del_bffr1)
               h == Head(r)
               d == [done EXCEPT ![h.a] = h.n]
    <3>1. ingr_del_bffr1 # << >> /\ b = Tail(ingr_del_bffr1)
      BY <2>1 DEF CntrlrTakes
    <3>2. /\ b \in Seq(Issued) /\ r # << >> /\ h = Head(ingr_del_bffr1).req
          /\ ReqsOf(b) = Tail(r)
      BY <1>2, <3>1, ReqsOfTail, ReqsOfType
    <3>3. done' = d
      BY <1>1, <2>1, <3>2 DEF CntrlrStep
    <3>4. OrdNow /\ (lost = 0 => FullNow)
      BY DEF IngressInv
    <3> HIDE DEF r, b
    <3>5. Ord(Tail(r), ingr_del_bffr0, Qs, d, sent)
          /\ (Full(r, ingr_del_bffr0, Qs, done, sent) => Full(Tail(r), ingr_del_bffr0, Qs, d, sent))
      BY <1>2, <3>2, <3>4, TakeStep DEF OrdNow, r
    <3>6. ReqsOf(b) \in Reqs
      BY <3>2, ReqsOfType
    <3>7. done' \in [Agents -> Nat]
      <4>1. h \in Request
        BY <1>2, <3>2, TailOrder DEF r
      <4> HIDE DEF h
      <4> QED BY <1>2, <3>3, <4>1 DEF Request
    <3> QED BY <3>2, <3>3, <3>4, <3>5, <3>6, <3>7 DEF FullNow, r
  <2>2. CASE ~CntrlrTakes(rdy)
    <3>1. b = ingr_del_bffr1 /\ done' = done
      BY <1>1, <2>2 DEF CntrlrStep
    <3> QED BY <1>2, <3>1 DEF IngressInv, OrdNow, FullNow
  <2> QED BY <2>1, <2>2
\* move or drop
<1> DEFINE v == part_mem_del_vec_f[2] = 1
           s == IF v THEN Tail(ingr_del_bffr0) ELSE ingr_del_bffr0
<1>5. v => ingr_del_bffr0 # << >> /\ Head(ingr_del_bffr0) \in Request /\ Issuing \in Issued
           /\ Issuing.req = Head(ingr_del_bffr0)
  <2> SUFFICES ASSUME v PROVE ingr_del_bffr0 # << >> /\ Head(ingr_del_bffr0) \in Request
                              /\ Issuing \in Issued /\ Issuing.req = Head(ingr_del_bffr0)
    OBVIOUS
  <2>1. ingr_del_bffr0 # << >>
    BY <1>1 DEF TypeOK, DelayBffr0Matches, Popcount, Bit
  <2>2. Head(ingr_del_bffr0) \in Request
    BY <1>2, <2>1 DEF Reqs
  <2> QED BY <1>1, <2>1, <2>2 DEF TypeOK, Issuing, Issued
<1>6. ingr_del_bffr1' = IF v /\ ~DelBffr1Ovrflw THEN Append(b, Issuing) ELSE b
  BY <1>1 DEF DelayBffr1
<1> HIDE DEF b
<1>7. /\ s \in Reqs /\ ReqsOf(ingr_del_bffr1') \in Reqs
      /\ Ord(ReqsOf(ingr_del_bffr1'), s, Qs, done', sent)
      /\ lost' = 0 => Full(ReqsOf(ingr_del_bffr1'), s, Qs, done', sent)
  <2>1. CASE ~v
    BY <1>2, <1>3, <1>4, <1>6, <2>1
  <2>2. CASE v /\ DelBffr1Ovrflw
    <3>1. ingr_del_bffr1' = b /\ s = Tail(ingr_del_bffr0) /\ s \in Reqs /\ lost' = 1
      BY <1>2, <1>3, <1>5, <1>6, <2>2, TailOrder
    <3> HIDE DEF s
    <3>2. Ord(ReqsOf(b), Tail(ingr_del_bffr0), Qs, done', sent)
      BY <1>2, <1>4, <1>5, <2>2, MoveStep
    <3> QED BY <1>4, <3>1, <3>2
  <2>3. CASE v /\ ~DelBffr1Ovrflw
    <3>1. /\ ReqsOf(ingr_del_bffr1') = Append(ReqsOf(b), Head(ingr_del_bffr0))
          /\ ingr_del_bffr1' \in Seq(Issued)
      BY <1>4, <1>5, <1>6, <2>3, ReqsOfAppend
    <3>2. s = Tail(ingr_del_bffr0) /\ s \in Reqs /\ ReqsOf(ingr_del_bffr1') \in Reqs
      BY <1>2, <1>5, <2>3, <3>1, TailOrder, ReqsOfType
    <3> HIDE DEF s
    <3>3. /\ Ord(Append(ReqsOf(b), Head(ingr_del_bffr0)), Tail(ingr_del_bffr0), Qs, done', sent)
          /\ Full(ReqsOf(b), ingr_del_bffr0, Qs, done', sent) =>
             Full(Append(ReqsOf(b), Head(ingr_del_bffr0)), Tail(ingr_del_bffr0), Qs, done', sent)
      BY <1>2, <1>4, <1>5, <2>3, MoveStep
    <3> QED BY <1>3, <1>4, <3>1, <3>2, <3>3
  <2> QED BY <2>1, <2>2, <2>3
\* pop
<1>8. ingr_del_bffr0' = IF ingr_bffr_rden THEN Append(s, Popped) ELSE s
  BY <1>1 DEF DelayBffr0
<1>9. Qs' = IF ingr_bffr_rden THEN [Qs EXCEPT ![agent_id] = Tail(Qs[agent_id])] ELSE Qs
  <2>1. agent_id \in Agents /\ ingr_bffr \in [Agents -> FifoOf(Request)]
    BY <1>1 DEF TypeOK
  <2>2. CASE ingr_bffr_rden
    <3>1. ingr_bffr' = [ingr_bffr EXCEPT ![agent_id] = FifoPop(ingr_bffr[agent_id])]
      BY <1>1, <2>2 DEF Arbitrate
    <3>2. FifoPop(ingr_bffr[agent_id]).q = Tail(ingr_bffr[agent_id].q)
      BY <2>2 DEF FifoPop, ingr_bffr_rden
    <3>3. \A a \in Agents : ingr_bffr'[a].q = IF a = agent_id THEN Tail(ingr_bffr[a].q)
                                                              ELSE ingr_bffr[a].q
      BY <2>1, <3>1, <3>2
    <3> QED BY <2>1, <2>2, <3>3 DEF Qs
  <2>3. CASE ~ingr_bffr_rden
    BY <1>1, <2>3 DEF Qs, Arbitrate
  <2> QED BY <2>2, <2>3
<1> HIDE DEF s, v
<1>10. CASE ingr_bffr_rden
  <2>1. /\ Popped \in Request /\ agent_id \in Agents /\ Qs[agent_id] = ingr_bffr[agent_id].q
        /\ Qs[agent_id] # << >>
        /\ Popped.a = Head(Qs[agent_id]).a /\ Popped.n = Head(Qs[agent_id]).n
    BY <1>1, <1>10, PoppedType DEF TypeOK, Qs
  <2> DEFINE r1 == ReqsOf(ingr_del_bffr1')
             R  == [Qs EXCEPT ![agent_id] = Tail(Qs[agent_id])]
  <2>2. r1 \in Reqs /\ Ord(r1, s, Qs, done', sent) /\ (lost' = 0 => Full(r1, s, Qs, done', sent))
    BY <1>7
  <2> HIDE DEF r1
  <2>3. Ord(r1, Append(s, Popped), R, done', sent)
        /\ (Full(r1, s, Qs, done', sent) => Full(r1, Append(s, Popped), R, done', sent))
    <3>1. s \in Reqs /\ done' \in [Agents -> Nat]
      BY <1>4, <1>7
    <3> QED BY <1>2, <2>1, <2>2, <3>1, PopStep
  <2>4. ingr_del_bffr0' = Append(s, Popped) /\ Qs' = R
    BY <1>8, <1>9, <1>10
  <2> QED BY <1>1, <2>2, <2>3, <2>4 DEF OrdNow, FullNow, r1
<1>11. CASE ~ingr_bffr_rden
  <2>1. ingr_del_bffr0' = s /\ Qs' = Qs
    BY <1>8, <1>9, <1>11
  <2> QED BY <1>1, <1>7, <2>1 DEF OrdNow, FullNow
<1> QED BY <1>10, <1>11

LEMMA IngressNext ==
  ASSUME IngressInv, [Next]_vars
  PROVE  IngressInv'
<1>0. TypeInv'
  BY NextType DEF IngressInv
<1>1. TypeOK /\ TypeInv /\ OrdNow /\ (lost = 0 => FullNow)
  BY DEF IngressInv, TypeInv
<1>2. ASSUME NEW rdy \in BOOLEAN, NEW rdv \in BOOLEAN, CntrlrTick(rdy, rdv)
      PROVE  IngressInv'
  BY <1>0, <1>2, TickIngress DEF IngressInv
<1>3. ASSUME NEW a \in Agents, NEW op \in Ops, AgentRequest(a, op) PROVE IngressInv'
  <2> DEFINE x == [a |-> a, n |-> sent[a] + 1, op |-> op, t |-> 0]
             R == [Qs EXCEPT ![a] = Append(Qs[a], x)]
             S == [sent EXCEPT ![a] = sent[a] + 1]
  <2>1. /\ ReqsOf(ingr_del_bffr1) \in Reqs /\ ingr_del_bffr0 \in Reqs
        /\ Qs \in [Agents -> Reqs]
        /\ done \in [Agents -> Nat] /\ sent \in [Agents -> Nat]
        /\ ingr_bffr \in [Agents -> FifoOf(Request)]
    BY <1>1, IngressTypes DEF TypeOK
  <2>2. x \in Request /\ x.a = a /\ x.n = sent[a] + 1
    <3>1. sent[a] + 1 \in Nat /\ op \in {"rd", "wr"}
      BY <2>1, ConstAssumption
    <3> QED BY <3>1 DEF Request
  <2>3. Qs' = R
    <3>1. /\ ~WrFull(ingr_bffr[a], INGR_BFFR_DEPTH)
          /\ ingr_bffr' = [ingr_bffr EXCEPT ![a] = FifoPush(ingr_bffr[a], INGR_BFFR_DEPTH, x)]
      BY <1>3 DEF AgentRequest
    <3> HIDE DEF x
    <3>2. FifoPush(ingr_bffr[a], INGR_BFFR_DEPTH, x).q = Append(ingr_bffr[a].q, x)
      BY <2>1, <3>1 DEF FifoPush, FifoOf
    <3>3. \A c \in Agents : ingr_bffr'[c].q = IF c = a THEN Append(ingr_bffr[c].q, x)
                                                       ELSE ingr_bffr[c].q
      BY <2>1, <3>1, <3>2
    <3> QED BY <3>3 DEF Qs
  <2>4. sent' = S /\ UNCHANGED <<ingr_del_bffr1, ingr_del_bffr0, done, lost>>
    BY <1>3 DEF AgentRequest, arbVars, egrVars
  <2> HIDE DEF x
  <2>5. /\ Ord(ReqsOf(ingr_del_bffr1), ingr_del_bffr0, R, done, S)
        /\ FullNow => Full(ReqsOf(ingr_del_bffr1), ingr_del_bffr0, R, done, S)
    BY <1>1, <2>1, <2>2, SendStep DEF OrdNow, FullNow
  <2> QED BY <1>0, <1>1, <2>3, <2>4, <2>5 DEF IngressInv, OrdNow, FullNow
<1>4. ASSUME Qs' = Qs, UNCHANGED <<ingr_del_bffr1, ingr_del_bffr0, done, sent, lost>>
      PROVE  IngressInv'
  BY <1>0, <1>1, <1>4 DEF IngressInv, OrdNow, FullNow
<1>5. ASSUME NEW a \in Agents, SyncIngrRd(a) \/ SyncIngrWr(a)
      PROVE  Qs' = Qs
  <2>1. ingr_bffr \in [Agents -> FifoOf(Request)]
    BY <1>1 DEF TypeOK
  <2>2. \A c \in Agents : ingr_bffr'[c].q = ingr_bffr[c].q
    BY <1>5, <2>1 DEF SyncIngrRd, SyncIngrWr, SyncRdSide, SyncWrSide, FifoOf
  <2> QED BY <2>2 DEF Qs
<1>6. ASSUME NEW a \in Agents, SyncIngrRd(a) \/ SyncIngrWr(a) PROVE IngressInv'
  BY <1>4, <1>5, <1>6 DEF SyncIngrRd, SyncIngrWr, arbVars, egrVars
<1>7. ASSUME AgentResponse \/ (\E a \in Agents : PartStartWrite(a)) \/ SyncEgrRd \/ SyncEgrWr
               \/ UNCHANGED vars
      PROVE  IngressInv'
  <2>1. ingr_bffr' = ingr_bffr /\ UNCHANGED <<ingr_del_bffr1, ingr_del_bffr0, done, sent, lost>>
    BY <1>7 DEF AgentResponse, PartStartWrite, SyncEgrRd, SyncEgrWr, vars, ingrVars, arbVars, egrVars
  <2> QED BY <1>4, <2>1 DEF Qs
<1> QED BY <1>2, <1>3, <1>6, <1>7 DEF Next

(***************************************************************************)
(* Whatever the number of agents, the depth of the buffers and the order   *)
(* of the clocks: the requests of an agent reach the controller in the     *)
(* order it made them, none twice, and as long as no buffer has overflowed *)
(* none is forgotten (lines 235-414 of sys_mem_arb_least_pend.sv).         *)
(***************************************************************************)
THEOREM IngressIsKept == Spec => []IngressKept
<1>1. Init => IngressInv
  <2> SUFFICES ASSUME Init PROVE IngressInv
    OBVIOUS
  <2>1. TypeInv
    BY InitType DEF TypeInv, Init, DelayBffr0Matches, Popcount
  <2>2. /\ ReqsOf(ingr_del_bffr1) = << >> /\ ingr_del_bffr0 = << >>
        /\ \A a \in Agents : Qs[a] = << >> /\ done[a] = 0 /\ sent[a] = 0
    BY DEF Init, ReqsOf, Qs, EmptyFifo
  <2>3. OrdNow
    BY <2>2 DEF OrdNow, Ord, Ascending, Before, AllAbove, AllBelow
  <2>4. \A a : Nums(<< >>, a) = {}
    BY DEF Nums
  <2>5. FullNow
    BY <2>2, <2>4 DEF FullNow, Full, Held
  <2> QED BY <2>1, <2>3, <2>5 DEF IngressInv
<1>2. IngressInv /\ [Next]_vars => IngressInv'
  BY IngressNext
<1> QED BY <1>1, <1>2, IngressInvKept, PTL DEF Spec

-----------------------------------------------------------------------------
(***************************************************************************)
(* The way of a read: delay buffer 0, delay buffer 1, the controller,      *)
(* egress buffer 1.  While nothing is lost the reads in each of them have  *)
(* consecutive tickets, in order, and where one buffer's tickets end those *)
(* of the buffer behind it begin.                                          *)
(***************************************************************************)
Tickets(s) == {s[i].t : i \in ReadsOf(s)}

Span(s, lo, hi) ==
  /\ \A i, j \in ReadsOf(s) : i < j => s[i].t < s[j].t
  /\ Tickets(s) = lo + 1 .. hi
  /\ lo <= hi

\* The k-th id waiting is that of the k-th read not answered yet.
IdsRight(s, ids, an) ==
  \A i \in ReadsOf(s) : /\ s[i].t - an \in DOMAIN ids
                        /\ ids[s[i].t - an].id = s[i].a

LEMMA TailParts ==
  ASSUME NEW s \in Reqs, s # << >>
  PROVE  /\ Tail(s) \in Reqs /\ Head(s) \in Request /\ Head(s) = s[1]
         /\ \A i : i \in ReadsOf(Tail(s)) => i + 1 \in ReadsOf(s) /\ Tail(s)[i] = s[i + 1] /\ i \in Nat \ {0}
         /\ \A j \in ReadsOf(s) : \/ j = 1 /\ Head(s).op = "rd"
                                  \/ j - 1 \in ReadsOf(Tail(s)) /\ Tail(s)[j - 1] = s[j]
         /\ Head(s).op = "rd" => 1 \in ReadsOf(s)
<1>1. /\ Tail(s) \in Reqs /\ Head(s) = s[1] /\ s[1] \in Request
      /\ Len(s) \in Nat \ {0} /\ Len(Tail(s)) = Len(s) - 1
      /\ DOMAIN s = 1 .. Len(s) /\ DOMAIN Tail(s) = 1 .. (Len(s) - 1)
      /\ \A i \in 1 .. (Len(s) - 1) : Tail(s)[i] = s[i + 1]
  BY DEF Reqs
<1> QED BY <1>1 DEF ReadsOf

LEMMA AppendParts ==
  ASSUME NEW s \in Reqs, NEW x \in Request
  PROVE  /\ Append(s, x) \in Reqs
         /\ \A i \in ReadsOf(s) : i \in ReadsOf(Append(s, x)) /\ Append(s, x)[i] = s[i] /\ i \in 1 .. Len(s)
         /\ \A i \in ReadsOf(Append(s, x)) :
              \/ i \in ReadsOf(s) /\ Append(s, x)[i] = s[i]
              \/ i = Len(s) + 1 /\ Append(s, x)[i] = x /\ x.op = "rd"
         /\ x.op = "rd" => /\ Len(s) + 1 \in ReadsOf(Append(s, x))
                           /\ Append(s, x)[Len(s) + 1] = x
<1> DEFINE t == Append(s, x)
<1>1. /\ t \in Reqs /\ Len(s) \in Nat
      /\ DOMAIN s = 1 .. Len(s) /\ DOMAIN t = 1 .. (Len(s) + 1)
      /\ \A i \in 1 .. Len(s) : t[i] = s[i]
      /\ t[Len(s) + 1] = x
  BY DEF Reqs
<1> HIDE DEF t
<1> QED BY <1>1 DEF ReadsOf, t

\* The head of a buffer leaves it: a read has the buffer's least ticket.
LEMMA SpanTail ==
  ASSUME NEW s \in Reqs, s # << >>, NEW lo \in Nat, NEW hi \in Nat, Span(s, lo, hi)
  PROVE  /\ Head(s).op = "rd" => Head(s).t = lo + 1 /\ Span(Tail(s), lo + 1, hi)
         /\ Head(s).op # "rd" => Span(Tail(s), lo, hi)
<1> DEFINE t == Tail(s)
           h == Head(s)
<1>1. /\ t \in Reqs /\ h \in Request /\ h = s[1]
      /\ \A i : i \in ReadsOf(t) => i + 1 \in ReadsOf(s) /\ t[i] = s[i + 1] /\ i \in Nat \ {0}
      /\ \A j \in ReadsOf(s) : \/ j = 1 /\ h.op = "rd"
                               \/ j - 1 \in ReadsOf(t) /\ t[j - 1] = s[j]
      /\ h.op = "rd" => 1 \in ReadsOf(s)
  BY TailParts
<1>2. \A i, j \in ReadsOf(s) : i < j => s[i].t < s[j].t
  BY DEF Span
<1>3. Tickets(s) = lo + 1 .. hi /\ lo <= hi
  BY DEF Span
<1> HIDE DEF t, h
<1>4. \A i, j \in ReadsOf(t) : i < j => t[i].t < t[j].t
  <2> SUFFICES ASSUME NEW i \in ReadsOf(t), NEW j \in ReadsOf(t), i < j
               PROVE  t[i].t < t[j].t
    OBVIOUS
  <2>1. /\ i + 1 \in ReadsOf(s) /\ t[i] = s[i + 1] /\ i \in Nat
        /\ j + 1 \in ReadsOf(s) /\ t[j] = s[j + 1] /\ j \in Nat
    BY <1>1
  <2>2. i + 1 < j + 1
    BY <2>1
  <2> QED BY <1>2, <2>1, <2>2
<1>5. \A x \in Tickets(t) : x \in Tickets(s)
  BY <1>1 DEF Tickets
<1>6. \A x \in Tickets(s) : x \in Tickets(t) \/ (h.op = "rd" /\ x = h.t)
  BY <1>1 DEF Tickets
<1>7. ASSUME h.op # "rd" PROVE Span(t, lo, hi)
  <2>1. Tickets(t) = lo + 1 .. hi
    BY <1>3, <1>5, <1>6, <1>7
  <2> QED BY <1>3, <1>4, <2>1 DEF Span
<1>8. ASSUME h.op = "rd" PROVE h.t = lo + 1 /\ Span(t, lo + 1, hi)
  <2>1. h.t \in lo + 1 .. hi
    BY <1>1, <1>3, <1>8 DEF Tickets
  <2>2. \A x \in Tickets(t) : h.t < x
    BY <1>1, <1>2, <1>8 DEF Tickets
  <2>3. h.t = lo + 1
    <3>1. lo + 1 \in Tickets(s)
      BY <1>3, <2>1
    <3>2. CASE lo + 1 \in Tickets(t)
      BY <2>1, <2>2, <3>2
    <3>3. CASE lo + 1 = h.t
      BY <3>3
    <3> QED BY <1>6, <3>1, <3>2, <3>3
  <2>4. \A x \in Tickets(t) : x \in (lo + 1) + 1 .. hi
    BY <1>3, <1>5, <2>2, <2>3
  <2>5. \A x \in (lo + 1) + 1 .. hi : x \in Tickets(t)
    BY <1>3, <1>6, <2>3
  <2>6. Tickets(t) = (lo + 1) + 1 .. hi
    BY <2>4, <2>5, Zenon
  <2> QED BY <1>4, <2>1, <2>3, <2>6 DEF Span
<1> QED BY <1>7, <1>8 DEF t, h

\* A request comes in last: a read with the next ticket, or a write.
LEMMA SpanAppend ==
  ASSUME NEW s \in Reqs, NEW x \in Request, NEW lo \in Nat, NEW hi \in Nat, Span(s, lo, hi)
  PROVE  /\ x.op = "rd" /\ x.t = hi + 1 => Span(Append(s, x), lo, hi + 1)
         /\ x.op # "rd" => Span(Append(s, x), lo, hi)
<1> DEFINE t == Append(s, x)
<1>1. /\ t \in Reqs
      /\ \A i \in ReadsOf(s) : i \in ReadsOf(t) /\ t[i] = s[i] /\ i \in 1 .. Len(s)
      /\ \A i \in ReadsOf(t) : \/ i \in ReadsOf(s) /\ t[i] = s[i]
                               \/ i = Len(s) + 1 /\ t[i] = x /\ x.op = "rd"
      /\ x.op = "rd" => Len(s) + 1 \in ReadsOf(t) /\ t[Len(s) + 1] = x
      /\ Len(s) \in Nat
  BY AppendParts DEF Reqs
<1>2. \A i, j \in ReadsOf(s) : i < j => s[i].t < s[j].t
  BY DEF Span
<1>3. Tickets(s) = lo + 1 .. hi /\ lo <= hi
  BY DEF Span
<1> HIDE DEF t
<1>4. ASSUME x.op # "rd" PROVE Span(t, lo, hi)
  <2>1. \A i, j \in ReadsOf(t) : i < j => t[i].t < t[j].t
    BY <1>1, <1>2, <1>4
  <2>2. Tickets(t) = Tickets(s)
    BY <1>1, <1>4 DEF Tickets
  <2> QED BY <1>3, <2>1, <2>2 DEF Span
<1>5. ASSUME x.op = "rd", x.t = hi + 1 PROVE Span(t, lo, hi + 1)
  <2>1. \A i \in ReadsOf(s) : s[i].t < hi + 1
    BY <1>3 DEF Tickets
  <2>2. \A i, j \in ReadsOf(t) : i < j => t[i].t < t[j].t
    BY <1>1, <1>2, <1>5, <2>1
  <2>3. \A y \in Tickets(t) : y \in Tickets(s) \/ y = hi + 1
    BY <1>1, <1>5 DEF Tickets
  <2>4. \A y \in Tickets(s) : y \in Tickets(t)
    BY <1>1 DEF Tickets
  <2>5. hi + 1 \in Tickets(t)
    BY <1>1, <1>5 DEF Tickets
  <2>6. \A y \in Tickets(t) : y \in lo + 1 .. hi + 1
    BY <1>3, <2>3
  <2>7. \A y \in lo + 1 .. hi + 1 : y \in Tickets(t)
    BY <1>3, <2>4, <2>5
  <2>8. Tickets(t) = lo + 1 .. hi + 1
    BY <2>6, <2>7, Zenon
  <2> QED BY <1>3, <2>2, <2>8 DEF Span
<1> QED BY <1>4, <1>5 DEF t

LEMMA IdsTail ==
  ASSUME NEW s \in Reqs, s # << >>, NEW ids, NEW an, IdsRight(s, ids, an)
  PROVE  /\ IdsRight(Tail(s), ids, an)
         /\ Head(s).op = "rd" => Head(s).t - an \in DOMAIN ids /\ ids[Head(s).t - an].id = Head(s).a
<1> DEFINE t == Tail(s)
           h == Head(s)
<1>1. /\ h = s[1] /\ (h.op = "rd" => 1 \in ReadsOf(s))
      /\ \A i : i \in ReadsOf(t) => i + 1 \in ReadsOf(s) /\ t[i] = s[i + 1]
  BY TailParts
<1> HIDE DEF t, h
<1> QED BY <1>1 DEF IdsRight, t, h

LEMMA IdsAppend ==
  ASSUME NEW s \in Reqs, NEW x \in Request, NEW ids, NEW an, IdsRight(s, ids, an),
         x.op = "rd" => x.t - an \in DOMAIN ids /\ ids[x.t - an].id = x.a
  PROVE  IdsRight(Append(s, x), ids, an)
<1> DEFINE t == Append(s, x)
<1>1. \A i \in ReadsOf(t) : \/ i \in ReadsOf(s) /\ t[i] = s[i]
                            \/ i = Len(s) + 1 /\ t[i] = x /\ x.op = "rd"
  BY AppendParts
<1> HIDE DEF t
<1> QED BY <1>1 DEF IdsRight, t

\* The oldest read is answered: its id, the first, goes with it.
LEMMA IdsAnswered ==
  ASSUME NEW s \in Reqs, NEW ids \in Seq(IdWord), ids # << >>, NEW an \in Nat,
         NEW lo \in Nat, NEW hi \in Nat, Span(s, lo, hi), an + 1 <= lo,
         IdsRight(s, ids, an)
  PROVE  IdsRight(s, Tail(ids), an + 1)
<1>1. /\ DOMAIN ids = 1 .. Len(ids) /\ Len(ids) \in Nat \ {0}
      /\ DOMAIN Tail(ids) = 1 .. Len(ids) - 1
      /\ \A i \in 1 .. Len(ids) - 1 : Tail(ids)[i] = ids[i + 1]
  OBVIOUS
<1> SUFFICES ASSUME NEW i \in ReadsOf(s)
             PROVE  /\ s[i].t - (an + 1) \in DOMAIN Tail(ids)
                    /\ Tail(ids)[s[i].t - (an + 1)].id = s[i].a
  BY DEF IdsRight
<1>2. s[i].t \in lo + 1 .. hi
  BY DEF Span, Tickets
<1>3. s[i].t - an \in DOMAIN ids /\ ids[s[i].t - an].id = s[i].a
  BY DEF IdsRight
<1> DEFINE k == s[i].t - (an + 1)
<1>4. k \in 1 .. Len(ids) - 1 /\ k + 1 = s[i].t - an
  BY <1>1, <1>2, <1>3
<1>5. Tail(ids)[k] = ids[k + 1]
  BY <1>1, <1>4
<1> QED BY <1>1, <1>3, <1>4, <1>5

\* A new id at the end leaves the others where they are.
LEMMA IdsQueued ==
  ASSUME NEW s \in Reqs, NEW ids \in Seq(IdWord), NEW w \in IdWord, NEW an,
         IdsRight(s, ids, an)
  PROVE  IdsRight(s, Append(ids, w), an)
<1>1. \A k \in DOMAIN ids : k \in DOMAIN Append(ids, w) /\ Append(ids, w)[k] = ids[k]
  OBVIOUS
<1> HIDE DEF IdWord
<1> QED BY <1>1 DEF IdsRight

-----------------------------------------------------------------------------
(***************************************************************************)
(* All reads under way: in e1 (egress buffer 1) up to ticket b1, in c (the *)
(* controller) up to b2, in s1 up to b3 and in s0 up to tk.                *)
(***************************************************************************)
OnlyReads(s) == \A i \in DOMAIN s : s[i].op = "rd"

Flow(e1, c, s1, s0, ids, an, b1, b2, b3, tk) ==
  /\ b1 \in Nat /\ b2 \in Nat /\ b3 \in Nat
  /\ Span(e1, an, b1) /\ Span(c, b1, b2) /\ Span(s1, b2, b3) /\ Span(s0, b3, tk)
  /\ IdsRight(e1, ids, an) /\ IdsRight(c, ids, an)
  /\ IdsRight(s1, ids, an) /\ IdsRight(s0, ids, an)
  /\ Len(ids) = tk - an
  /\ OnlyReads(e1) /\ OnlyReads(c)

LEMMA OnlyReadsSeq ==
  ASSUME NEW s \in Reqs, OnlyReads(s)
  PROVE  /\ s # << >> => OnlyReads(Tail(s)) /\ Head(s).op = "rd"
         /\ \A x \in Request : x.op = "rd" => OnlyReads(Append(s, x))
<1>1. ASSUME s # << >> PROVE OnlyReads(Tail(s)) /\ Head(s).op = "rd"
  <2>1. 1 \in DOMAIN s /\ Head(s) = s[1] /\ \A i \in DOMAIN Tail(s) : i + 1 \in DOMAIN s /\ Tail(s)[i] = s[i + 1]
    BY <1>1 DEF Reqs
  <2> QED BY <2>1 DEF OnlyReads
<1>2. ASSUME NEW x \in Request, x.op = "rd" PROVE OnlyReads(Append(s, x))
  <2>1. \A i \in DOMAIN Append(s, x) : (i \in DOMAIN s /\ Append(s, x)[i] = s[i]) \/ Append(s, x)[i] = x
    BY DEF Reqs
  <2> QED BY <1>2, <2>1 DEF OnlyReads
<1> QED BY <1>1, <1>2

\* An agent is given the first word of e1 with the first id: they match.
LEMMA FlowAnswer ==
  ASSUME NEW e1 \in Reqs, NEW c \in Reqs, NEW s1 \in Reqs, NEW s0 \in Reqs,
         NEW ids \in Seq(IdWord), NEW an \in Nat, NEW tk \in Nat, NEW b1, NEW b2, NEW b3,
         Flow(e1, c, s1, s0, ids, an, b1, b2, b3, tk), e1 # << >>, ids # << >>
  PROVE  /\ Head(ids).id = Head(e1).a
         /\ Flow(Tail(e1), c, s1, s0, Tail(ids), an + 1, b1, b2, b3, tk)
<1>1. b1 \in Nat /\ b2 \in Nat /\ b3 \in Nat
  BY DEF Flow
<1>2. Head(e1).op = "rd" /\ OnlyReads(Tail(e1)) /\ Tail(e1) \in Reqs
  BY OnlyReadsSeq, TailParts DEF Flow
<1>3. Head(e1).t = an + 1 /\ Span(Tail(e1), an + 1, b1)
  BY <1>1, <1>2, SpanTail DEF Flow
<1>4. IdsRight(Tail(e1), ids, an) /\ ids[Head(e1).t - an].id = Head(e1).a
  BY <1>2, IdsTail DEF Flow
<1>5. Head(ids).id = Head(e1).a
  <2>1. Head(e1).t - an = 1 /\ Head(ids) = ids[1]
    BY <1>3
  <2> QED BY <1>4, <2>1
<1>6. an + 1 <= b1 /\ b1 <= b2 /\ b2 <= b3
  BY <1>3 DEF Flow, Span
<1>7. an + 1 <= b2 /\ an + 1 <= b3 /\ an + 1 \in Nat
  BY <1>1, <1>6
<1>8. /\ IdsRight(c, Tail(ids), an + 1) /\ IdsRight(s1, Tail(ids), an + 1)
      /\ IdsRight(s0, Tail(ids), an + 1)
  BY <1>1, <1>6, <1>7, IdsAnswered DEF Flow
<1>9. IdsRight(Tail(e1), Tail(ids), an + 1)
  BY <1>1, <1>2, <1>3, <1>4, <1>7, IdsAnswered
<1>10. Len(Tail(ids)) = tk - (an + 1)
  BY DEF Flow
<1> QED BY <1>1, <1>2, <1>3, <1>5, <1>8, <1>9, <1>10 DEF Flow

\* The controller answers its oldest read.
LEMMA FlowReturn ==
  ASSUME NEW e1 \in Reqs, NEW c \in Reqs, NEW s1 \in Reqs, NEW s0 \in Reqs,
         NEW ids \in Seq(IdWord), NEW an \in Nat, NEW tk \in Nat, NEW b1, NEW b2, NEW b3,
         Flow(e1, c, s1, s0, ids, an, b1, b2, b3, tk), c # << >>
  PROVE  Flow(Append(e1, Head(c)), Tail(c), s1, s0, ids, an, b1 + 1, b2, b3, tk)
<1>1. b1 \in Nat /\ b2 \in Nat /\ b3 \in Nat
  BY DEF Flow
<1>2. Head(c).op = "rd" /\ OnlyReads(Tail(c)) /\ Head(c) \in Request
  BY OnlyReadsSeq, TailParts DEF Flow
<1>3. Head(c).t = b1 + 1 /\ Span(Tail(c), b1 + 1, b2)
  BY <1>1, <1>2, SpanTail DEF Flow
<1>4. /\ IdsRight(Tail(c), ids, an)
      /\ Head(c).t - an \in DOMAIN ids /\ ids[Head(c).t - an].id = Head(c).a
  BY <1>2, IdsTail DEF Flow
<1> DEFINE h == Head(c)
<1>5. h \in Request /\ h.op = "rd" /\ h.t = b1 + 1 /\ h.t - an \in DOMAIN ids /\ ids[h.t - an].id = h.a
  BY <1>2, <1>3, <1>4
<1> HIDE DEF h
<1>6. Span(Append(e1, h), an, b1 + 1) /\ IdsRight(Append(e1, h), ids, an) /\ OnlyReads(Append(e1, h))
  BY <1>1, <1>5, SpanAppend, IdsAppend, OnlyReadsSeq DEF Flow
<1>7. b1 + 1 \in Nat
  BY <1>1
<1> QED BY <1>1, <1>2, <1>3, <1>4, <1>6, <1>7 DEF Flow, h

\* The controller takes the head of s1.
LEMMA FlowTake ==
  ASSUME NEW e1 \in Reqs, NEW c \in Reqs, NEW s1 \in Reqs, NEW s0 \in Reqs,
         NEW ids \in Seq(IdWord), NEW an \in Nat, NEW tk \in Nat, NEW b1, NEW b2, NEW b3,
         Flow(e1, c, s1, s0, ids, an, b1, b2, b3, tk), s1 # << >>
  PROVE  /\ Head(s1).op = "rd" =>
              Flow(e1, Append(c, Head(s1)), Tail(s1), s0, ids, an, b1, b2 + 1, b3, tk)
         /\ Head(s1).op # "rd" =>
              Flow(e1, c, Tail(s1), s0, ids, an, b1, b2, b3, tk)
<1> DEFINE h == Head(s1)
           u == Tail(s1)
<1>1. b1 \in Nat /\ b2 \in Nat /\ b3 \in Nat /\ b2 + 1 \in Nat
  BY DEF Flow
<1>2. h \in Request
  BY TailParts
<1>3. /\ h.op = "rd" => h.t = b2 + 1 /\ Span(u, b2 + 1, b3)
      /\ h.op # "rd" => Span(u, b2, b3)
  BY <1>1, SpanTail DEF Flow
<1>4. /\ IdsRight(u, ids, an)
      /\ h.op = "rd" => h.t - an \in DOMAIN ids /\ ids[h.t - an].id = h.a
  BY IdsTail DEF Flow
<1> HIDE DEF h, u
<1>5. h.op # "rd" => Flow(e1, c, u, s0, ids, an, b1, b2, b3, tk)
  BY <1>3, <1>4 DEF Flow
<1>6. ASSUME h.op = "rd" PROVE Flow(e1, Append(c, h), u, s0, ids, an, b1, b2 + 1, b3, tk)
  <2>1. Span(Append(c, h), b1, b2 + 1) /\ IdsRight(Append(c, h), ids, an) /\ OnlyReads(Append(c, h))
    BY <1>1, <1>2, <1>3, <1>4, <1>6, SpanAppend, IdsAppend, OnlyReadsSeq DEF Flow
  <2> QED BY <1>1, <1>3, <1>4, <1>6, <2>1 DEF Flow
<1> QED BY <1>5, <1>6 DEF h, u

\* The head of s0 moves on to s1.
LEMMA FlowMove ==
  ASSUME NEW e1 \in Reqs, NEW c \in Reqs, NEW s1 \in Reqs, NEW s0 \in Reqs,
         NEW ids \in Seq(IdWord), NEW an \in Nat, NEW tk \in Nat, NEW b1, NEW b2, NEW b3,
         Flow(e1, c, s1, s0, ids, an, b1, b2, b3, tk), s0 # << >>
  PROVE  \E d \in Nat :
           Flow(e1, c, Append(s1, Head(s0)), Tail(s0), ids, an, b1, b2, d, tk)
<1> DEFINE h == Head(s0)
           u == Tail(s0)
<1>1. b1 \in Nat /\ b2 \in Nat /\ b3 \in Nat /\ b3 + 1 \in Nat
  BY DEF Flow
<1>2. h \in Request
  BY TailParts
<1>3. /\ h.op = "rd" => h.t = b3 + 1 /\ Span(u, b3 + 1, tk)
      /\ h.op # "rd" => Span(u, b3, tk)
  BY <1>1, SpanTail DEF Flow
<1>4. /\ IdsRight(u, ids, an)
      /\ h.op = "rd" => h.t - an \in DOMAIN ids /\ ids[h.t - an].id = h.a
  BY IdsTail DEF Flow
<1> HIDE DEF h, u
<1>5. IdsRight(Append(s1, h), ids, an)
  BY <1>2, <1>4, IdsAppend DEF Flow
<1>6. CASE h.op # "rd"
  <2>1. Span(Append(s1, h), b2, b3)
    BY <1>1, <1>2, <1>6, SpanAppend DEF Flow
  <2>2. Flow(e1, c, Append(s1, h), u, ids, an, b1, b2, b3, tk)
    BY <1>3, <1>4, <1>5, <1>6, <2>1 DEF Flow
  <2> QED BY <1>1, <2>2 DEF h, u
<1>7. CASE h.op = "rd"
  <2>1. Span(Append(s1, h), b2, b3 + 1)
    BY <1>1, <1>2, <1>3, <1>7, SpanAppend DEF Flow
  <2>2. Flow(e1, c, Append(s1, h), u, ids, an, b1, b2, b3 + 1, tk)
    BY <1>1, <1>3, <1>4, <1>5, <1>7, <2>1 DEF Flow
  <2> QED BY <1>1, <2>2 DEF h, u
<1> QED BY <1>6, <1>7

\* A request leaves its ingress FIFO; a read queues its id.
LEMMA FlowPop ==
  ASSUME NEW e1 \in Reqs, NEW c \in Reqs, NEW s1 \in Reqs, NEW s0 \in Reqs,
         NEW ids \in Seq(IdWord), NEW an \in Nat, NEW tk \in Nat, NEW b1, NEW b2, NEW b3,
         Flow(e1, c, s1, s0, ids, an, b1, b2, b3, tk),
         NEW x \in Request, NEW w \in IdWord, w.id = x.a
  PROVE  /\ x.op # "rd" => Flow(e1, c, s1, Append(s0, x), ids, an, b1, b2, b3, tk)
         /\ x.op = "rd" /\ x.t = tk + 1 =>
              Flow(e1, c, s1, Append(s0, x), Append(ids, w), an, b1, b2, b3, tk + 1)
<1>1. b1 \in Nat /\ b2 \in Nat /\ b3 \in Nat /\ Len(ids) = tk - an
  BY DEF Flow
<1>2. ASSUME x.op # "rd" PROVE Flow(e1, c, s1, Append(s0, x), ids, an, b1, b2, b3, tk)
  <2>1. Span(Append(s0, x), b3, tk) /\ IdsRight(Append(s0, x), ids, an)
    BY <1>1, <1>2, SpanAppend, IdsAppend DEF Flow
  <2> QED BY <2>1 DEF Flow
<1>3. ASSUME x.op = "rd", x.t = tk + 1
      PROVE  Flow(e1, c, s1, Append(s0, x), Append(ids, w), an, b1, b2, b3, tk + 1)
  <2>1. Span(Append(s0, x), b3, tk + 1)
    BY <1>1, <1>3, SpanAppend DEF Flow
  <2> DEFINE v == Append(ids, w)
  <2>2. IdsRight(e1, v, an) /\ IdsRight(c, v, an) /\ IdsRight(s1, v, an) /\ IdsRight(s0, v, an)
    BY IdsQueued DEF Flow
  <2>3. /\ Len(v) = tk + 1 - an /\ x.t - an = Len(ids) + 1
        /\ Len(ids) + 1 \in DOMAIN v /\ v[Len(ids) + 1] = w
    BY <1>1, <1>3
  <2> HIDE DEF v
  <2>4. IdsRight(Append(s0, x), v, an)
    BY <2>2, <2>3, IdsAppend
  <2> QED BY <2>1, <2>2, <2>3, <2>4 DEF Flow, v
<1> QED BY <1>2, <1>3

-----------------------------------------------------------------------------
FlowNow(b1, b2, b3) ==
  Flow(egr_bffr_1.q, cntrlr, ReqsOf(ingr_del_bffr1), ingr_del_bffr0,
       egr_bffr_0.q, answered, b1, b2, b3, tickets)

\* AnswersRight, with where in the path each ticket is.
EgressInv ==
  /\ TypeInv /\ OwnFifo
  /\ lost = 0 => misrouted = 0 /\ \E b1, b2, b3 \in Nat : FlowNow(b1, b2, b3)

LEMMA EgressTypes ==
  ASSUME TypeInv
  PROVE  /\ egr_bffr_1.q \in Reqs /\ cntrlr \in Reqs /\ ReqsOf(ingr_del_bffr1) \in Reqs
         /\ ingr_del_bffr0 \in Reqs /\ egr_bffr_0.q \in Seq(IdWord)
         /\ answered \in Nat /\ tickets \in Nat /\ ingr_del_bffr1 \in Seq(Issued)
BY IngressTypes DEF TypeInv, TypeOK, Reqs, FifoOf

LEMMA EgressInvRight == EgressInv => AnswersRight
<1> SUFFICES ASSUME EgressInv, lost = 0
             PROVE  /\ misrouted = 0
                    /\ Len(egr_bffr_0.q) = tickets - answered
                    /\ {Reqs1[i].t : i \in ReadsOf(Reqs1)}
                         \cup {ingr_del_bffr0[i].t : i \in ReadsOf(ingr_del_bffr0)}
                         \cup {cntrlr[i].t : i \in DOMAIN cntrlr}
                         \cup {egr_bffr_1.q[i].t : i \in DOMAIN egr_bffr_1.q}
                       = answered + 1 .. tickets
  BY DEF AnswersRight, RoutedToRequester, OneAnswerPerRead
<1>1. PICK b1 \in Nat, b2 \in Nat, b3 \in Nat : FlowNow(b1, b2, b3)
  BY DEF EgressInv
<1>2. misrouted = 0 /\ Reqs1 = ReqsOf(ingr_del_bffr1) /\ answered \in Nat /\ tickets \in Nat
  BY EgressTypes DEF EgressInv, Reqs1, ReqsOf
<1>3. /\ ReadsOf(cntrlr) = DOMAIN cntrlr /\ ReadsOf(egr_bffr_1.q) = DOMAIN egr_bffr_1.q
      /\ Len(egr_bffr_0.q) = tickets - answered
  BY <1>1 DEF FlowNow, Flow, OnlyReads, ReadsOf
<1>4. /\ Tickets(egr_bffr_1.q) = answered + 1 .. b1 /\ Tickets(cntrlr) = b1 + 1 .. b2
      /\ Tickets(Reqs1) = b2 + 1 .. b3 /\ Tickets(ingr_del_bffr0) = b3 + 1 .. tickets
      /\ answered <= b1 /\ b1 <= b2 /\ b2 <= b3 /\ b3 <= tickets
  BY <1>1, <1>2 DEF FlowNow, Flow, Span
<1>5. Tickets(Reqs1) \cup Tickets(ingr_del_bffr0) \cup Tickets(cntrlr) \cup Tickets(egr_bffr_1.q)
        = answered + 1 .. tickets
  BY <1>2, <1>4
<1> QED BY <1>2, <1>3, <1>5 DEF Tickets

\* One edge of cntrlr_clk: return, take, move, pop.
LEMMA TickEgress ==
  ASSUME EgressInv, NEW rdy \in BOOLEAN, NEW rdv \in BOOLEAN,
         CntrlrTick(rdy, rdv), lost' = 0
  PROVE  misrouted' = 0 /\ \E b1, b2, b3 \in Nat : FlowNow(b1, b2, b3)'
<1>1. /\ TypeOK /\ TypeInv /\ DelayBffr0Matches /\ OwnFifo
      /\ Arbitrate /\ DelayBffr0 /\ DelayBffr1(rdy)
      /\ CntrlrStep(rdy, rdv) /\ EgressPush(rdv)
      /\ answered' = answered /\ misrouted' = misrouted
  BY DEF EgressInv, TypeInv, CntrlrTick, rspVars
<1>2. /\ egr_bffr_1.q \in Reqs /\ cntrlr \in Reqs /\ ReqsOf(ingr_del_bffr1) \in Reqs
      /\ ingr_del_bffr0 \in Reqs /\ egr_bffr_0.q \in Seq(IdWord)
      /\ answered \in Nat /\ tickets \in Nat /\ ingr_del_bffr1 \in Seq(Issued)
      /\ egr_bffr_1 \in FifoOf(Request) /\ egr_bffr_0 \in FifoOf(IdWord)
  BY <1>1, EgressTypes DEF TypeOK
<1> DEFINE push0 == ingr_bffr_rden /\ Popped.op = "rd"
<1>3. /\ lost = 0 /\ ~DelBffr1Ovrflw
      /\ push0 => ~WrFull(egr_bffr_0, EGR_BFFR_0_DEPTH)
      /\ rdv => ~WrFull(egr_bffr_1, EGR_BFFR_1_DEPTH)
  BY <1>1 DEF EgressPush, TypeOK, Bit
<1>4. misrouted = 0
  BY <1>3 DEF EgressInv
<1>5. PICK b1 \in Nat, b2 \in Nat, b3 \in Nat : FlowNow(b1, b2, b3)
  BY <1>3 DEF EgressInv
\* return
<1> DEFINE e1 == egr_bffr_1'.q
           c  == IF rdv THEN Tail(cntrlr) ELSE cntrlr
           r  == ReqsOf(ingr_del_bffr1)
           s0 == ingr_del_bffr0
           ids == egr_bffr_0.q
           an == answered
           tk == tickets
<1>6. e1 \in Reqs /\ c \in Reqs /\ \E d1 \in Nat : Flow(e1, c, r, s0, ids, an, d1, b2, b3, tk)
  <2>1. CASE rdv
    <3>1. cntrlr # << >> /\ c = Tail(cntrlr)
      BY <1>1, <2>1 DEF CntrlrStep
    <3>2. Head(cntrlr) \in Request /\ c \in Reqs
      BY <1>2, <3>1, TailParts
    <3>3. e1 = Append(egr_bffr_1.q, Head(cntrlr))
      BY <1>1, <1>2, <1>3, <2>1 DEF EgressPush, FifoPush, FifoOf
    <3>4. Flow(Append(egr_bffr_1.q, Head(cntrlr)), Tail(cntrlr), r, s0, ids, an, b1 + 1, b2, b3, tk)
      BY <1>2, <1>5, <3>1, FlowReturn DEF FlowNow
    <3>5. e1 \in Reqs
      BY <1>2, <3>2, <3>3, AppendParts
    <3> HIDE DEF e1, c
    <3> QED BY <3>1, <3>2, <3>3, <3>4, <3>5
  <2>2. CASE ~rdv
    <3>1. e1 = egr_bffr_1.q /\ c = cntrlr
      BY <1>1, <2>2 DEF EgressPush
    <3> QED BY <1>2, <1>5, <3>1 DEF FlowNow
  <2> QED BY <2>1, <2>2
<1>7. PICK d1 \in Nat : Flow(e1, c, r, s0, ids, an, d1, b2, b3, tk)
  BY <1>6
\* take
<1> DEFINE b == IF CntrlrTakes(rdy) THEN Tail(ingr_del_bffr1) ELSE ingr_del_bffr1
           h == Head(ingr_del_bffr1).req
<1>8. cntrlr' = IF CntrlrTakes(rdy) /\ h.op = "rd" THEN Append(c, h) ELSE c
  BY <1>1 DEF CntrlrStep
<1> HIDE DEF e1, c
<1>9. /\ cntrlr' \in Reqs /\ b \in Seq(Issued) /\ ReqsOf(b) \in Reqs
      /\ \E d2 \in Nat : Flow(e1, cntrlr', ReqsOf(b), s0, ids, an, d1, d2, b3, tk)
  <2>1. CASE CntrlrTakes(rdy)
    <3>1. ingr_del_bffr1 # << >> /\ b = Tail(ingr_del_bffr1)
      BY <2>1 DEF CntrlrTakes
    <3>2. b \in Seq(Issued) /\ r # << >> /\ h = Head(r) /\ ReqsOf(b) = Tail(r)
      BY <1>2, <3>1, ReqsOfTail, ReqsOfType
    <3>3. ReqsOf(b) \in Reqs /\ h \in Request
      BY <1>2, <3>2, TailParts
    <3> HIDE DEF r, b, h
    <3>4. /\ h.op = "rd" => Flow(e1, Append(c, h), Tail(r), s0, ids, an, d1, b2 + 1, b3, tk)
          /\ h.op # "rd" => Flow(e1, c, Tail(r), s0, ids, an, d1, b2, b3, tk)
      BY <1>2, <1>6, <1>7, <3>2, FlowTake DEF r
    <3>5. cntrlr' \in Reqs
      BY <1>6, <1>8, <3>3, AppendParts
    <3>6. CASE h.op = "rd"
      BY <1>8, <2>1, <3>2, <3>3, <3>4, <3>5, <3>6
    <3>7. CASE h.op # "rd"
      BY <1>8, <2>1, <3>2, <3>3, <3>4, <3>5, <3>7
    <3> QED BY <3>6, <3>7
  <2>2. CASE ~CntrlrTakes(rdy)
    <3>1. b = ingr_del_bffr1 /\ cntrlr' = c
      BY <1>8, <2>2
    <3> QED BY <1>2, <1>6, <1>7, <3>1
  <2> QED BY <2>1, <2>2
<1>10. PICK d2 \in Nat : Flow(e1, cntrlr', ReqsOf(b), s0, ids, an, d1, d2, b3, tk)
  BY <1>9
\* move
<1> DEFINE v == part_mem_del_vec_f[2] = 1
           s == IF v THEN Tail(ingr_del_bffr0) ELSE ingr_del_bffr0
<1>11. v => ingr_del_bffr0 # << >> /\ Head(ingr_del_bffr0) \in Request /\ Issuing \in Issued
            /\ Issuing.req = Head(ingr_del_bffr0)
  <2> SUFFICES ASSUME v PROVE ingr_del_bffr0 # << >> /\ Head(ingr_del_bffr0) \in Request
                              /\ Issuing \in Issued /\ Issuing.req = Head(ingr_del_bffr0)
    OBVIOUS
  <2>1. ingr_del_bffr0 # << >>
    BY <1>1 DEF TypeOK, DelayBffr0Matches, Popcount, Bit
  <2>2. Head(ingr_del_bffr0) \in Request
    BY <1>2, <2>1 DEF Reqs
  <2> QED BY <1>1, <2>1, <2>2 DEF TypeOK, Issuing, Issued
<1>12. ingr_del_bffr1' = IF v THEN Append(b, Issuing) ELSE b
  BY <1>1, <1>3 DEF DelayBffr1
<1> HIDE DEF b, h
<1>13. /\ s \in Reqs /\ ReqsOf(ingr_del_bffr1') \in Reqs
       /\ \E d3 \in Nat : Flow(e1, cntrlr', ReqsOf(ingr_del_bffr1'), s, ids, an, d1, d2, d3, tk)
  <2>1. CASE ~v
    BY <1>2, <1>9, <1>10, <1>12, <2>1
  <2>2. CASE v
    <3>1. /\ ReqsOf(ingr_del_bffr1') = Append(ReqsOf(b), Head(ingr_del_bffr0))
          /\ ingr_del_bffr1' \in Seq(Issued)
      BY <1>9, <1>11, <1>12, <2>2, ReqsOfAppend
    <3>2. s = Tail(ingr_del_bffr0) /\ s \in Reqs /\ ReqsOf(ingr_del_bffr1') \in Reqs
      BY <1>2, <1>11, <2>2, <3>1, TailParts, ReqsOfType
    <3> HIDE DEF s
    <3>3. \E d3 \in Nat : Flow(e1, cntrlr', Append(ReqsOf(b), Head(s0)), Tail(s0), ids, an, d1, d2, d3, tk)
      BY <1>2, <1>6, <1>9, <1>10, <1>11, <2>2, FlowMove
    <3> QED BY <3>1, <3>2, <3>3
  <2> QED BY <2>1, <2>2
<1>14. PICK d3 \in Nat : Flow(e1, cntrlr', ReqsOf(ingr_del_bffr1'), s, ids, an, d1, d2, d3, tk)
  BY <1>13
\* pop
<1>15. ingr_del_bffr0' = IF ingr_bffr_rden THEN Append(s, Popped) ELSE s
  BY <1>1 DEF DelayBffr0
<1> HIDE DEF s, v
<1>16. CASE ~ingr_bffr_rden
  <2>1. ingr_del_bffr0' = s /\ egr_bffr_0' = egr_bffr_0 /\ tickets' = tickets
    BY <1>1, <1>15, <1>16 DEF EgressPush, Arbitrate
  <2>2. Flow(e1, cntrlr', ReqsOf(ingr_del_bffr1'), ingr_del_bffr0', egr_bffr_0'.q,
             answered', d1, d2, d3, tickets')
    BY <1>1, <1>14, <2>1
  <2> QED BY <1>1, <1>4, <2>2 DEF FlowNow, e1
<1>17. CASE ingr_bffr_rden
  <2> DEFINE w == [id |-> agent_id, t |-> Popped.t]
             r1 == ReqsOf(ingr_del_bffr1')
  <2>1. /\ Popped \in Request /\ agent_id \in Agents /\ Popped.a = agent_id
        /\ Popped.op = "rd" => Popped.t = tickets + 1
    <3>1. /\ Popped \in Request /\ Popped.t = (IF Popped.op = "rd" THEN tickets + 1 ELSE 0)
          /\ ingr_bffr[agent_id].q # << >>
          /\ Popped.a = Head(ingr_bffr[agent_id].q).a
      BY <1>1, <1>17, PoppedType
    <3>2. agent_id \in Agents /\ ingr_bffr[agent_id].q \in Seq(Request)
      BY <1>1 DEF TypeOK, FifoOf
    <3>3. Head(ingr_bffr[agent_id].q).a = agent_id
      BY <1>1, <3>1, <3>2 DEF OwnFifo
    <3> QED BY <3>1, <3>2, <3>3
  <2>2. w \in IdWord /\ w.id = Popped.a
    BY <2>1 DEF IdWord, Request
  <2>3. ingr_del_bffr0' = Append(s, Popped)
    BY <1>15, <1>17
  <2>4. /\ tickets' = IF Popped.op = "rd" THEN tickets + 1 ELSE tickets
        /\ egr_bffr_0'.q = IF Popped.op = "rd" THEN Append(egr_bffr_0.q, w) ELSE egr_bffr_0.q
    BY <1>1, <1>2, <1>3, <1>17 DEF Arbitrate, EgressPush, FifoPush, FifoOf
  <2> HIDE DEF w, r1
  <2>5. /\ Popped.op # "rd" => Flow(e1, cntrlr', r1, Append(s, Popped), ids, an, d1, d2, d3, tk)
        /\ Popped.op = "rd" => Flow(e1, cntrlr', r1, Append(s, Popped), Append(ids, w), an, d1, d2, d3, tk + 1)
    <3>1. r1 \in Reqs /\ Flow(e1, cntrlr', r1, s, ids, an, d1, d2, d3, tk)
      BY <1>13, <1>14 DEF r1
    <3> QED BY <1>2, <1>6, <1>9, <1>13, <2>1, <2>2, <3>1, FlowPop
  <2>6. Flow(e1, cntrlr', r1, ingr_del_bffr0', egr_bffr_0'.q, answered', d1, d2, d3, tickets')
    <3>1. CASE Popped.op = "rd"
      BY <1>1, <2>3, <2>4, <2>5, <3>1
    <3>2. CASE Popped.op # "rd"
      BY <1>1, <2>3, <2>4, <2>5, <3>2
    <3> QED BY <3>1, <3>2
  <2> QED BY <1>1, <1>4, <2>6 DEF FlowNow, e1, r1
<1> QED BY <1>16, <1>17

LEMMA EgressNext ==
  ASSUME EgressInv, [Next]_vars
  PROVE  EgressInv'
<1>0. TypeInv' /\ OwnFifo'
  BY NextType, OwnFifoStep DEF EgressInv
<1>1. TypeOK /\ TypeInv
  BY DEF EgressInv, TypeInv
<1>2. ASSUME NEW rdy \in BOOLEAN, NEW rdv \in BOOLEAN, CntrlrTick(rdy, rdv)
      PROVE  EgressInv'
  BY <1>0, <1>2, TickEgress DEF EgressInv
<1>3. ASSUME AgentResponse PROVE EgressInv'
  <2> SUFFICES ASSUME lost' = 0
               PROVE  misrouted' = 0 /\ \E b1, b2, b3 \in Nat : FlowNow(b1, b2, b3)'
    BY <1>0 DEF EgressInv
  <2>1. /\ ~RdEmpty(egr_bffr_0) /\ ~RdEmpty(egr_bffr_1) /\ lost' = lost
        /\ UNCHANGED <<cntrlr, ingr_del_bffr1, ingr_del_bffr0, tickets>>
        /\ answered' = answered + 1
        /\ misrouted' = IF Head(egr_bffr_0.q).id = Head(egr_bffr_1.q).a THEN misrouted ELSE 1
        /\ egr_bffr_0' = FifoPop(egr_bffr_0) /\ egr_bffr_1' = FifoPop(egr_bffr_1)
    BY <1>3 DEF AgentResponse, arbVars
  <2>2. misrouted = 0 /\ \E b1, b2, b3 \in Nat : FlowNow(b1, b2, b3)
    BY <2>1 DEF EgressInv
  <2>3. PICK b1 \in Nat, b2 \in Nat, b3 \in Nat : FlowNow(b1, b2, b3)
    BY <2>2
  <2>4. egr_bffr_0.q # << >> /\ egr_bffr_1.q # << >>
    <3>1. FifoOK(egr_bffr_0, IdWord) /\ FifoOK(egr_bffr_1, Request)
      BY <1>1 DEF TypeOK, FifoOK
    <3> QED BY <2>1, <3>1, HeadOK
  <2>5. egr_bffr_0'.q = Tail(egr_bffr_0.q) /\ egr_bffr_1'.q = Tail(egr_bffr_1.q)
    BY <2>1 DEF FifoPop
  <2>6. /\ Head(egr_bffr_0.q).id = Head(egr_bffr_1.q).a
        /\ Flow(Tail(egr_bffr_1.q), cntrlr, ReqsOf(ingr_del_bffr1), ingr_del_bffr0,
                Tail(egr_bffr_0.q), answered + 1, b1, b2, b3, tickets)
    BY <1>1, <2>3, <2>4, EgressTypes, FlowAnswer DEF FlowNow
  <2>7. FlowNow(b1, b2, b3)'
    BY <2>1, <2>5, <2>6 DEF FlowNow
  <2> QED BY <2>1, <2>2, <2>6, <2>7
<1>4. ASSUME egr_bffr_0'.q = egr_bffr_0.q, egr_bffr_1'.q = egr_bffr_1.q,
             UNCHANGED <<cntrlr, ingr_del_bffr1, ingr_del_bffr0, tickets, answered, lost, misrouted>>
      PROVE  EgressInv'
  <2>1. \A b1, b2, b3 \in Nat : FlowNow(b1, b2, b3) => FlowNow(b1, b2, b3)'
    BY <1>4 DEF FlowNow
  <2> QED BY <1>0, <1>4, <2>1 DEF EgressInv
<1>5. ASSUME \/ \E a \in Agents, op \in Ops : AgentRequest(a, op)
             \/ \E a \in Agents : PartStartWrite(a) \/ SyncIngrRd(a) \/ SyncIngrWr(a)
             \/ SyncEgrRd \/ SyncEgrWr \/ UNCHANGED vars
      PROVE  EgressInv'
  <2>1. UNCHANGED <<cntrlr, ingr_del_bffr1, ingr_del_bffr0, tickets, answered, lost, misrouted>>
    BY <1>5 DEF AgentRequest, PartStartWrite, SyncIngrRd, SyncIngrWr, SyncEgrRd, SyncEgrWr,
                vars, arbVars, egrVars, rspVars
  <2>2. egr_bffr_0'.q = egr_bffr_0.q /\ egr_bffr_1'.q = egr_bffr_1.q
    <3>1. egr_bffr_0 \in FifoOf(IdWord) /\ egr_bffr_1 \in FifoOf(Request)
      BY <1>1 DEF TypeOK
    <3>2. \/ UNCHANGED egrVars \/ SyncEgrRd \/ SyncEgrWr
      BY <1>5 DEF AgentRequest, PartStartWrite, SyncIngrRd, SyncIngrWr, vars
    <3> QED BY <3>1, <3>2 DEF egrVars, SyncEgrRd, SyncEgrWr, SyncRdSide, SyncWrSide, FifoOf
  <2> QED BY <1>4, <2>1, <2>2
<1> QED BY <1>2, <1>3, <1>5 DEF Next

(***************************************************************************)
(* As long as no buffer of the arbiter has overflowed, each read that left *)
(* its ingress FIFO is answered exactly once and the agent that made it is *)
(* given the data: egress buffer 0, filled in one clock domain when the    *)
(* read leaves, and egress buffer 1, filled when its data arrives, never   *)
(* slip against each other (lines 502-618).                                *)
(***************************************************************************)
THEOREM AnswersAreRight == Spec => []AnswersRight
<1>1. Init => EgressInv
  <2> SUFFICES ASSUME Init PROVE EgressInv
    OBVIOUS
  <2>1. TypeInv
    BY InitType DEF TypeInv, Init, DelayBffr0Matches, Popcount
  <2>2. /\ ReqsOf(ingr_del_bffr1) = << >> /\ ingr_del_bffr0 = << >> /\ cntrlr = << >>
        /\ egr_bffr_0.q = << >> /\ egr_bffr_1.q = << >>
        /\ answered = 0 /\ tickets = 0 /\ misrouted = 0
    BY DEF Init, ReqsOf, EmptyFifo
  <2>3. OwnFifo
    BY DEF Init, OwnFifo, EmptyFifo
  <2>4. ReadsOf(<< >>) = {} /\ Tickets(<< >>) = {}
    BY DEF ReadsOf, Tickets
  <2>5. Span(<< >>, 0, 0) /\ IdsRight(<< >>, << >>, 0) /\ OnlyReads(<< >>)
    BY <2>4 DEF Span, IdsRight, OnlyReads
  <2>6. FlowNow(0, 0, 0)
    BY <2>2, <2>5 DEF FlowNow, Flow
  <2> QED BY <2>1, <2>2, <2>3, <2>6 DEF EgressInv
<1>2. EgressInv /\ [Next]_vars => EgressInv'
  BY EgressNext
<1> QED BY <1>1, <1>2, EgressInvRight, PTL DEF Spec
-----------------------------------------------------------------------------
(***************************************************************************)
(* The overflow flags of the arbiter's FIFOs (FfFlags, a system of its own *)
(* with its own variables), for any number of status reads and any         *)
(* interleaving of the two clocks.                                         *)
(***************************************************************************)

\* Two facts of arithmetic.
LEMMA AddBit == \A a \in Nat, b \in {0, 1} : a + b \in Nat
  OBVIOUS

LEMMA SameDifference ==
  \A c, p, q, f, g \in Nat : q + g = p + f => c - p - f = c - q - g
  OBVIOUS

LEMMA FlagsInitType == FlagsInit => FlagsTypeOK
<1> SUFFICES ASSUME FlagsInit PROVE FlagsTypeOK
  OBVIOUS
<1>1. spaced \in BOOLEAN
  BY Zenon DEF FlagsInit
<1>2. /\ {in_tggl, out_tggl_1d, pulse_out_reg, ff_ovrflw, lb_rd_data} \subseteq Level
      /\ sync_f \in Level \X Level /\ stat_f \in Level \X Level
      /\ clears \in Nat /\ pulses \in Nat /\ ovrflws \in Nat
  BY DEF FlagsInit, Level
<1> QED BY <1>1, <1>2 DEF FlagsTypeOK

LEMMA FlagsNextType ==
  ASSUME FlagsTypeOK, [FlagsNext]_FlagsVars
  PROVE  FlagsTypeOK'
<1>1. ASSUME NEW rd \in BOOLEAN, ClkEdge(rd) PROVE FlagsTypeOK'
  <2>1. /\ in_tggl' \in Level /\ out_tggl_1d' \in Level /\ pulse_out_reg' \in Level
        /\ ff_ovrflw' \in Level /\ lb_rd_data' \in Level
    BY <1>1 DEF FlagsTypeOK, ClkEdge, TogglePulse, Xor, Level
  <2>2. sync_f' \in Level \X Level /\ stat_f' \in Level \X Level
    BY <1>1 DEF FlagsTypeOK, ClkEdge
  <2>3. clears' \in Nat /\ pulses' \in Nat /\ ovrflws' \in Nat
    BY <1>1 DEF FlagsTypeOK, ClkEdge
  <2>4. spaced' \in BOOLEAN
    BY <1>1, Zenon DEF FlagsTypeOK, ClkEdge
  <2> QED BY <2>1, <2>2, <2>3, <2>4 DEF FlagsTypeOK
<1>2. ASSUME NEW ovr \in BOOLEAN, WrEdge(ovr) PROVE FlagsTypeOK'
  <2>1. /\ in_tggl' \in Level /\ out_tggl_1d' \in Level /\ pulse_out_reg' \in Level
        /\ ff_ovrflw' \in Level /\ lb_rd_data' \in Level
    BY <1>2 DEF FlagsTypeOK, WrEdge, PulseOut, Xor, Level
  <2>2. sync_f' \in Level \X Level /\ stat_f' \in Level \X Level
    BY <1>2 DEF FlagsTypeOK, WrEdge
  <2>3. clears' \in Nat /\ pulses' \in Nat /\ ovrflws' \in Nat
    <3>1. clears \in Nat /\ pulses \in Nat /\ ovrflws \in Nat
      BY DEF FlagsTypeOK
    <3>2. pulse_out_reg' \in {0, 1}
      BY <2>1 DEF Level
    <3>3. clears' = clears /\ pulses' = pulses + pulse_out_reg'
      BY <1>2 DEF WrEdge
    <3>4. ovrflws' = (IF ovr THEN ovrflws + 1 ELSE ovrflws)
      BY <1>2 DEF WrEdge
    <3>5. ovrflws' \in Nat
      BY <3>1, <3>4
    <3>7. pulses' \in Nat
      BY <3>1, <3>2, <3>3, AddBit, Zenon
    <3> QED BY <3>1, <3>3, <3>5, <3>7
  <2>4. spaced' \in BOOLEAN
    BY <1>2 DEF FlagsTypeOK, WrEdge
  <2> QED BY <2>1, <2>2, <2>3, <2>4 DEF FlagsTypeOK
<1>3. ASSUME UNCHANGED FlagsVars PROVE FlagsTypeOK'
  BY <1>3 DEF FlagsTypeOK, FlagsVars, syncVars, flagVars
<1> QED BY <1>1, <1>2, <1>3 DEF FlagsNext

\* What an edge of wr_clk and a status read do to the toggles in flight.
LEMMA WrEdgeFlight ==
  ASSUME FlagsTypeOK, NEW ovr \in BOOLEAN, WrEdge(ovr)
  PROVE  /\ pulses' + InFlight' = pulses + InFlight
         /\ clears' = clears /\ spaced' = spaced
<1> DEFINE u == Xor(in_tggl, sync_f[1])
           v == Xor(sync_f[1], sync_f[2])
           w == Xor(sync_f[2], out_tggl_1d)
<1>1. u \in Nat /\ v \in Nat /\ w \in Nat
  BY DEF Xor
<1>2. sync_f'[1] = in_tggl /\ sync_f'[2] = sync_f[1] /\ out_tggl_1d' = sync_f[2]
      /\ in_tggl' = in_tggl
  BY DEF WrEdge
<1>3. Xor(in_tggl', sync_f'[1]) = 0
  BY <1>2 DEF Xor
<1>4. InFlight' = u + v
  BY <1>1, <1>2, <1>3 DEF InFlight
<1>5. pulses' = pulses + w
  BY DEF WrEdge, PulseOut
<1>6. pulses \in Nat
  BY DEF FlagsTypeOK
<1> HIDE DEF u, v, w
<1>7. pulses' + InFlight' = pulses + u + v + w
  BY <1>1, <1>4, <1>5, <1>6
<1>8. InFlight = u + v + w
  BY DEF InFlight, u, v, w
<1> QED BY <1>1, <1>6, <1>7, <1>8 DEF WrEdge

LEMMA ReadFlight ==
  ASSUME FlagsTypeOK, NEW rd \in BOOLEAN, ClkEdge(rd)
  PROVE  /\ InFlight \in 0..3 /\ pulses' = pulses
         /\ ~rd => InFlight' = InFlight /\ clears' = clears
         /\ rd => clears' = clears + 1
         /\ rd => InFlight' = InFlight + 1 \/ InFlight' = InFlight - 1
         /\ Settled /\ rd => InFlight' = InFlight + 1
<1> DEFINE v == Xor(sync_f[1], sync_f[2])
           w == Xor(sync_f[2], out_tggl_1d)
<1>1. /\ in_tggl \in {0, 1} /\ sync_f[1] \in {0, 1} /\ sync_f[2] \in {0, 1}
      /\ out_tggl_1d \in {0, 1}
  BY DEF FlagsTypeOK, Level
<1>2. sync_f' = sync_f /\ out_tggl_1d' = out_tggl_1d /\ pulses' = pulses
      /\ in_tggl' = (IF rd THEN Xor(in_tggl, 1) ELSE in_tggl)
      /\ clears' = (IF rd THEN clears + 1 ELSE clears)
  BY DEF ClkEdge, TogglePulse
<1>3. v \in {0, 1} /\ w \in {0, 1} /\ Xor(in_tggl, sync_f[1]) \in {0, 1}
  BY DEF Xor
<1>4. InFlight = Xor(in_tggl, sync_f[1]) + v + w
      /\ InFlight' = Xor(in_tggl', sync_f[1]) + v + w
  BY <1>2 DEF InFlight
<1>5. rd => Xor(in_tggl', sync_f[1]) = 1 - Xor(in_tggl, sync_f[1])
  BY <1>1, <1>2 DEF Xor
<1>6. Settled => Xor(in_tggl, sync_f[1]) = 0
  BY DEF Settled, Xor
<1>7. ~rd => Xor(in_tggl', sync_f[1]) = Xor(in_tggl, sync_f[1])
  BY <1>2
<1> HIDE DEF v, w
<1> QED BY <1>2, <1>3, <1>4, <1>5, <1>6, <1>7

(***************************************************************************)
(* Clear pulses that are sent apart come out once each, for every          *)
(* interleaving of the two clocks.                                         *)
(***************************************************************************)
THEOREM ClearsArriveOnce == FlagsSpec => []EveryClearArrives
<1> DEFINE Inv == FlagsTypeOK /\ EveryClearArrives
<1>1. FlagsInit => Inv
  BY FlagsInitType DEF FlagsInit, EveryClearArrives, InFlight, Xor
<1>2. Inv /\ [FlagsNext]_FlagsVars => Inv'
  <2> SUFFICES ASSUME Inv, [FlagsNext]_FlagsVars PROVE Inv'
    OBVIOUS
  <2>0. FlagsTypeOK'
    BY FlagsNextType
  <2>1. ASSUME NEW rd \in BOOLEAN, ClkEdge(rd) PROVE EveryClearArrives'
    <3>1. spaced' => spaced /\ (rd => Settled)
      BY <2>1, Zenon DEF ClkEdge
    <3>2. clears \in Nat /\ pulses \in Nat
      BY DEF FlagsTypeOK
    <3> QED BY <2>1, <3>1, <3>2, ReadFlight DEF EveryClearArrives
  <2>2. ASSUME NEW ovr \in BOOLEAN, WrEdge(ovr) PROVE EveryClearArrives'
    BY <2>2, WrEdgeFlight DEF EveryClearArrives
  <2>3. ASSUME UNCHANGED FlagsVars PROVE EveryClearArrives'
    BY <2>3 DEF EveryClearArrives, InFlight, FlagsVars, syncVars
  <2> QED BY <2>0, <2>1, <2>2, <2>3 DEF FlagsNext
<1>3. Inv => EveryClearArrives
  OBVIOUS
<1> QED BY <1>1, <1>2, <1>3, PTL DEF FlagsSpec

(***************************************************************************)
(* Whatever the distance of the clear pulses: none comes out that was not  *)
(* sent, and those that are lost are lost in pairs.                        *)
(***************************************************************************)
THEOREM ClearsLostInPairs == FlagsSpec => []ClearsCancelInPairs
<1> DEFINE Inv == FlagsTypeOK /\ ClearsCancelInPairs
<1>1. FlagsInit => Inv
  BY FlagsInitType DEF FlagsInit, ClearsCancelInPairs, InFlight, Xor
<1>2. Inv /\ [FlagsNext]_FlagsVars => Inv'
  <2> SUFFICES ASSUME Inv, [FlagsNext]_FlagsVars PROVE Inv'
    OBVIOUS
  <2>0. FlagsTypeOK'
    BY FlagsNextType
  <2>1. ASSUME NEW rd \in BOOLEAN, ClkEdge(rd) PROVE ClearsCancelInPairs'
    <3>1. clears \in Nat /\ pulses \in Nat
      BY DEF FlagsTypeOK
    <3>2. /\ InFlight \in 0..3 /\ pulses' = pulses
          /\ ~rd => InFlight' = InFlight /\ clears' = clears
          /\ rd => clears' = clears + 1
          /\ rd => InFlight' = InFlight + 1 \/ InFlight' = InFlight - 1
      BY <2>1, ReadFlight
    <3>3. pulses + InFlight <= clears /\ (clears - pulses - InFlight) % 2 = 0
      BY DEF ClearsCancelInPairs
    <3>4. CASE ~rd
      BY <3>2, <3>3, <3>4 DEF ClearsCancelInPairs
    <3>5. CASE rd
      <4>1. CASE InFlight' = InFlight + 1
        BY <3>1, <3>2, <3>3, <3>5, <4>1 DEF ClearsCancelInPairs
      <4>2. CASE InFlight' = InFlight - 1
        BY <3>1, <3>2, <3>3, <3>5, <4>2 DEF ClearsCancelInPairs
      <4> QED BY <3>2, <3>5, <4>1, <4>2
    <3> QED BY <3>4, <3>5
  <2>2. ASSUME NEW ovr \in BOOLEAN, WrEdge(ovr) PROVE ClearsCancelInPairs'
    <3>1. clears \in Nat /\ pulses \in Nat /\ InFlight \in Nat
          /\ pulses' \in Nat /\ InFlight' \in Nat
      <4>1. clears \in Nat /\ pulses \in Nat /\ pulses' \in Nat
        BY <2>0 DEF FlagsTypeOK
      <4>2. InFlight \in Nat
        BY DEF InFlight, Xor
      <4>3. InFlight' \in Nat
        BY DEF InFlight, Xor
      <4> QED BY <4>1, <4>2, <4>3
    <3>2. pulses' + InFlight' = pulses + InFlight /\ clears' = clears
      BY <2>2, WrEdgeFlight
    <3>3. clears - pulses - InFlight = clears' - pulses' - InFlight'
      <4>0. \A q, g \in Nat : q + g = pulses + InFlight
                => clears - pulses - InFlight = clears - q - g
        BY <3>1, SameDifference
      <4>1. clears - pulses - InFlight = clears - pulses' - InFlight'
        BY <3>1, <3>2, <4>0, Zenon
      <4> QED BY <3>2, <4>1, Zenon
    <3>4. pulses + InFlight <= clears /\ (clears - pulses - InFlight) % 2 = 0
      BY DEF ClearsCancelInPairs
    <3> QED BY <3>2, <3>3, <3>4 DEF ClearsCancelInPairs
  <2>3. ASSUME UNCHANGED FlagsVars PROVE ClearsCancelInPairs'
    BY <2>3 DEF ClearsCancelInPairs, InFlight, FlagsVars, syncVars
  <2> QED BY <2>0, <2>1, <2>2, <2>3 DEF FlagsNext
<1>3. Inv => ClearsCancelInPairs
  OBVIOUS
<1> QED BY <1>1, <1>2, <1>3, PTL DEF FlagsSpec

(***************************************************************************)
(* Both accounts of the clear pulses hold of every behaviour of the toggle *)
(* synchroniser (in_tggl, sync_f, out_tggl_1d and pulse_out_reg).          *)
(***************************************************************************)
THEOREM ClearsNeverInvented == FlagsSpec => []ClearsAccounted
<1>1. EveryClearArrives /\ ClearsCancelInPairs => ClearsAccounted
  BY DEF ClearsAccounted
<1> QED BY <1>1, ClearsArriveOnce, ClearsLostInPairs, PTL
=============================================================================

----------------------------- MODULE SysMemArb ------------------------------
(***************************************************************************)
(* The system memory interface: sys_mem_arb_least_pend, the arbiter that   *)
(* sys_mem_intf instantiates, together with sys_mem_part_mngr (the         *)
(* partition start-address RAM) and least_filter.                          *)
(*                                                                         *)
(* Agents (0: host access, 1: the HDMI line buffer) push requests into     *)
(* their ingress FIFO on clk.  On cntrlr_clk the arbiter pops the FIFO of  *)
(* agent_id, looks up the agent's partition start address, which takes     *)
(* PART_MEM_DELAY clocks during which the request waits in delay buffer 0, *)
(* adds it, and parks the request in delay buffer 1 until the memory       *)
(* controller is ready.  Read data comes back in order and is matched with *)
(* the sequence of agent ids kept in egress buffer 0.                      *)
(***************************************************************************)
EXTENDS Integers, Sequences, DcFifo

CONSTANTS
  NUM_AGENTS,         \* number of agents
  INGR_BFFR_DEPTH,    \* words per ingress FIFO (32 in the RTL)
  DEL_BFFR_DEPTH,     \* words per ingress delay buffer (32)
  EGR_BFFR_0_DEPTH,   \* agent ids of reads under way (1024)
  EGR_BFFR_1_DEPTH,   \* read data words on their way to clk (32)
  Ops,                \* kinds of request the agents make
  MaxReq,             \* bound, per agent: requests it makes
  MaxVer              \* bound: writes to the partition start address, per agent

ASSUME ConstAssumption ==
  /\ NUM_AGENTS \in Nat \ {0}
  /\ INGR_BFFR_DEPTH \in Nat \ {0, 1}
  /\ DEL_BFFR_DEPTH \in Nat /\ DEL_BFFR_DEPTH > 3
  /\ EGR_BFFR_0_DEPTH \in Nat \ {0}
  /\ EGR_BFFR_1_DEPTH \in Nat \ {0}
  /\ Ops \subseteq {"rd", "wr"}
  /\ MaxReq \in [0 .. NUM_AGENTS - 1 -> Nat]
  /\ MaxVer \in [0 .. NUM_AGENTS - 1 -> Nat]

Agents == 0 .. NUM_AGENTS - 1

PART_MEM_DELAY == 3

Bit == {0, 1}

(***************************************************************************)
(* A request is known by its agent a and its number n among that agent's   *)
(* requests.  The ticket t is a ghost: the number of a read in the order   *)
(* in which reads leave the ingress FIFOs, 0 before that and for writes.   *)
(* A partition start address is the agent it was programmed for and how    *)
(* often it had been programmed; 0 times is the RAM's power-up word.       *)
(***************************************************************************)
Request   == [a : Agents, n : Nat, op : {"rd", "wr"}, t : Nat]
StartAddr == [a : Agents, v : Nat]
Issued    == [req : Request, base : StartAddr]
IdWord    == [id : Agents, t : Nat]

VARIABLES
  ingr_bffr,             \* per agent: FIFO from clk to cntrlr_clk
  ingr_bffr_rused_norm_f,\* per agent: registered, normalised rdusedw
  agent_id,              \* the agent selected for service
  part_mem_del_vec_f,    \* which of the last PART_MEM_DELAY clocks popped
  start_ram,             \* partition RAM: writes so far to each agent's word
  start_ram_raddr_f,     \* partition RAM: registered read address
  start_ram_rdata_f,     \* partition RAM: registered output
  agent_start_addr_f,    \* the arbiter's register behind it
  ingr_del_bffr0,        \* requests waiting for their start address
  ingr_del_bffr1,        \* requests with their start address added
  egr_bffr_0,            \* FIFO to clk: agent ids of reads, in order
  egr_bffr_1,            \* FIFO to clk: read data
  cntrlr,                \* memory controller: reads it has yet to answer
  sent,                  \* ghost, per agent: requests accepted from it
  done,                  \* ghost, per agent: last request the controller took
  tickets,               \* ghost: reads that left the ingress FIFOs
  answered,              \* ghost: responses given to agents
  lost,                  \* ghost: a FIFO of the arbiter has dropped a word
  misrouted,             \* ghost: an agent was given another agent's data
  drops                  \* ghost: requests dropped since the controller
                         \*        last took one

ingrVars == <<ingr_bffr, sent>>
arbVars  == <<ingr_bffr_rused_norm_f, agent_id, part_mem_del_vec_f,
              start_ram_raddr_f, start_ram_rdata_f, agent_start_addr_f,
              ingr_del_bffr0, ingr_del_bffr1, cntrlr, done, tickets, drops>>
egrVars  == <<egr_bffr_0, egr_bffr_1, lost>>
rspVars  == <<answered, misrouted>>
vars     == <<ingrVars, arbVars, egrVars, rspVars, start_ram>>

-----------------------------------------------------------------------------
(***************************************************************************)
(* Combinational signals                                                   *)
(***************************************************************************)

\* least_filter: index of the least value; the chain compares with a strict
\* <, so among equal values the lowest index wins.
LeastIdx(data) ==
  CHOOSE i \in Agents :
    \A j \in Agents : data[i] < data[j] \/ (data[i] = data[j] /\ i <= j)

\* The same as least_filter's generate loop computes it: stage i holds the
\* least of data[0..i] and its index.
CmpChain(n, data) ==
  LET stage[i \in 0 .. n - 1] ==
        IF i = 0 THEN [res |-> data[0], idx |-> 0]
        ELSE IF data[i] < stage[i - 1].res THEN [res |-> data[i], idx |-> i]
        ELSE stage[i - 1]
  IN  stage[n - 1].idx

\* Mutant: there is no normalisation.
RusedNorm_None(f) == RdUsedw(f, INGR_BFFR_DEPTH)

\* An unused FIFO is given the largest value, so that it is chosen last.
RusedNorm(f) ==
  IF RdUsedw(f, INGR_BFFR_DEPTH) = 0 THEN INGR_BFFR_DEPTH - 1
                                     ELSE RdUsedw(f, INGR_BFFR_DEPTH)

\* Mutant: only delay buffer 0 is looked at.
ingr_del_bffr_full_all_Bffr0 == Len(ingr_del_bffr0) >= DEL_BFFR_DEPTH

ingr_del_bffr_full_all ==
  \/ Len(ingr_del_bffr0) >= DEL_BFFR_DEPTH
  \/ Len(ingr_del_bffr1) >= DEL_BFFR_DEPTH

\* The selected agent's FIFO is popped on this clock.
ingr_bffr_rden ==
  ~RdEmpty(ingr_bffr[agent_id]) /\ ~ingr_del_bffr_full_all

\* The request at the head of the selected FIFO, stamped with its ticket.
Popped ==
  LET w == Head(ingr_bffr[agent_id].q)
  IN  [w EXCEPT !.t = IF w.op = "rd" THEN tickets + 1 ELSE 0]

\* Head of delay buffer 0 with the registered start address added.
Issuing == [req |-> Head(ingr_del_bffr0), base |-> agent_start_addr_f]

\* A push into a full delay buffer 1 is ignored by the FIFO.
DelBffr1Ovrflw ==
  part_mem_del_vec_f[2] = 1 /\ Len(ingr_del_bffr1) >= DEL_BFFR_DEPTH

-----------------------------------------------------------------------------
Init ==
  /\ ingr_bffr = [a \in Agents |-> EmptyFifo]
  /\ ingr_bffr_rused_norm_f = [a \in Agents |-> 0]
  /\ agent_id = 0
  /\ part_mem_del_vec_f = [i \in 0..2 |-> 0]
  /\ start_ram = [a \in Agents |-> 0]
  /\ start_ram_raddr_f = 0
  /\ start_ram_rdata_f = [a |-> 0, v |-> 0]
  /\ agent_start_addr_f = [a |-> 0, v |-> 0]
  /\ ingr_del_bffr0 = << >>
  /\ ingr_del_bffr1 = << >>
  /\ egr_bffr_0 = EmptyFifo
  /\ egr_bffr_1 = EmptyFifo
  /\ cntrlr = << >>
  /\ sent = [a \in Agents |-> 0]
  /\ done = [a \in Agents |-> 0]
  /\ tickets = 0
  /\ answered = 0
  /\ lost = 0
  /\ misrouted = 0
  /\ drops = 0

-----------------------------------------------------------------------------
(***************************************************************************)
(* clk domain.  The actions of different agents and of the egress side     *)
(* touch different FIFOs, so that what one clk edge does to several of     *)
(* them is the same as their steps one after the other.                    *)
(***************************************************************************)

\* Agent a asserts wren or rden; agent_wait is wrfull, and the request is
\* taken on the first clk edge at which it is low.
AgentRequest(a, op) ==
  /\ sent[a] < MaxReq[a]
  /\ ~WrFull(ingr_bffr[a], INGR_BFFR_DEPTH)
  /\ ingr_bffr' = [ingr_bffr EXCEPT ![a] =
                     FifoPush(@, INGR_BFFR_DEPTH,
                              [a |-> a, n |-> sent[a] + 1, op |-> op, t |-> 0])]
  /\ sent' = [sent EXCEPT ![a] = @ + 1]
  /\ UNCHANGED <<arbVars, egrVars, rspVars, start_ram>>

\* Egress: an agent id and a data word are both there; agent_rd_valid of that
\* agent is raised and both FIFOs are popped.
AgentResponse ==
  /\ ~RdEmpty(egr_bffr_0) /\ ~RdEmpty(egr_bffr_1)
  /\ egr_bffr_0' = FifoPop(egr_bffr_0)
  /\ egr_bffr_1' = FifoPop(egr_bffr_1)
  /\ answered' = answered + 1
  /\ misrouted' = IF Head(egr_bffr_0.q).id = Head(egr_bffr_1.q).a
                  THEN misrouted ELSE 1
  /\ UNCHANGED <<ingrVars, arbVars, start_ram, lost>>

\* Local bus write to the partition manager's start-address RAM.
PartStartWrite(a) ==
  /\ start_ram[a] < MaxVer[a]
  /\ start_ram' = [start_ram EXCEPT ![a] = @ + 1]
  /\ UNCHANGED <<ingrVars, arbVars, egrVars, rspVars>>

-----------------------------------------------------------------------------
(***************************************************************************)
(* One edge of cntrlr_clk.  rdy is the controller's ready in this clock;   *)
(* rdv tells whether it returns a data word, the answer to the oldest read *)
(* it has yet to answer.  The parts below are the always-blocks and FIFOs. *)
(***************************************************************************)

\* Mutant: the FIFO popped is that of the agent selected next.
Arbitrate_PopNext ==
  LET next == LeastIdx(ingr_bffr_rused_norm_f)
  IN  /\ ingr_bffr_rused_norm_f' = [a \in Agents |-> RusedNorm(ingr_bffr[a])]
      /\ agent_id' = next
      /\ ingr_bffr' = IF ingr_bffr_rden
                      THEN [ingr_bffr EXCEPT ![next] = FifoPop(@)]
                      ELSE ingr_bffr
      /\ tickets' = IF ingr_bffr_rden /\ Popped.op = "rd"
                    THEN tickets + 1 ELSE tickets

\* Arbitration: normalise, select, and pop the FIFO selected so far.
Arbitrate ==
  /\ ingr_bffr_rused_norm_f' = [a \in Agents |-> RusedNorm(ingr_bffr[a])]
  /\ agent_id' = LeastIdx(ingr_bffr_rused_norm_f)
  /\ ingr_bffr' = IF ingr_bffr_rden
                  THEN [ingr_bffr EXCEPT ![agent_id] = FifoPop(@)]
                  ELSE ingr_bffr
  /\ tickets' = IF ingr_bffr_rden /\ Popped.op = "rd"
                THEN tickets + 1 ELSE tickets

\* Mutant: the arbiter's register behind the RAM output is left out.
LookUpPartition_NoReg ==
  /\ part_mem_del_vec_f' = [i \in 0..2 |->
        IF i = 0 THEN (IF ingr_bffr_rden THEN 1 ELSE 0)
                 ELSE part_mem_del_vec_f[i - 1]]
  /\ start_ram_raddr_f' = agent_id
  /\ start_ram_rdata_f' = [a |-> start_ram_raddr_f,
                           v |-> start_ram[start_ram_raddr_f]]
  /\ agent_start_addr_f' = start_ram_rdata_f'

\* The partition look-up: RAM address and output registers, then the
\* arbiter's own register; part_mem_del_vec_f follows the pops along.
LookUpPartition ==
  /\ part_mem_del_vec_f' = [i \in 0..2 |->
        IF i = 0 THEN (IF ingr_bffr_rden THEN 1 ELSE 0)
                 ELSE part_mem_del_vec_f[i - 1]]
  /\ start_ram_raddr_f' = agent_id
  /\ start_ram_rdata_f' = [a |-> start_ram_raddr_f,
                           v |-> start_ram[start_ram_raddr_f]]
  /\ agent_start_addr_f' = start_ram_rdata_f

\* Mutant: the buffer is popped one clock too early.
DelayBffr0_Early ==
  LET rest == IF part_mem_del_vec_f[1] = 1 THEN Tail(ingr_del_bffr0)
                                           ELSE ingr_del_bffr0
  IN  ingr_del_bffr0' = IF ingr_bffr_rden THEN Append(rest, Popped) ELSE rest

\* Delay buffer 0: pushed by the pop, popped when the start address is there.
DelayBffr0 ==
  LET rest == IF part_mem_del_vec_f[2] = 1 THEN Tail(ingr_del_bffr0)
                                           ELSE ingr_del_bffr0
  IN  ingr_del_bffr0' = IF ingr_bffr_rden THEN Append(rest, Popped) ELSE rest

\* The controller takes the head of delay buffer 1 on this clock.
CntrlrTakes(rdy) == rdy /\ ingr_del_bffr1 # << >>

\* Delay buffer 1: popped when the controller is ready; its push is lost when
\* it is full, even if it is popped on the same clock.
DelayBffr1(rdy) ==
  LET rest == IF CntrlrTakes(rdy) THEN Tail(ingr_del_bffr1) ELSE ingr_del_bffr1
  IN  /\ ingr_del_bffr1' =
           IF part_mem_del_vec_f[2] = 1 /\ ~DelBffr1Ovrflw
           THEN Append(rest, Issuing) ELSE rest
      /\ drops' = IF CntrlrTakes(rdy) THEN 0
                  ELSE IF DelBffr1Ovrflw THEN drops + 1 ELSE drops

\* The memory controller (external): takes requests in order, answers reads
\* in order.
CntrlrStep(rdy, rdv) ==
  LET head == Head(ingr_del_bffr1).req
      rest == IF rdv THEN Tail(cntrlr) ELSE cntrlr
  IN  /\ rdv => cntrlr # << >>
      /\ cntrlr' = IF CntrlrTakes(rdy) /\ head.op = "rd"
                   THEN Append(rest, head) ELSE rest
      /\ done' = IF CntrlrTakes(rdy) THEN [done EXCEPT ![head.a] = head.n]
                                     ELSE done

\* Mutant: the id queued is that of the agent selected next.
EgressPush_NextId(rdv) ==
  LET push0 == ingr_bffr_rden /\ Popped.op = "rd"
  IN  /\ egr_bffr_0' =
           IF push0 THEN FifoPush(egr_bffr_0, EGR_BFFR_0_DEPTH,
                                  [id |-> LeastIdx(ingr_bffr_rused_norm_f),
                                   t |-> Popped.t])
           ELSE egr_bffr_0
      /\ egr_bffr_1' =
           IF rdv THEN FifoPush(egr_bffr_1, EGR_BFFR_1_DEPTH, Head(cntrlr))
           ELSE egr_bffr_1
      /\ lost' = IF \/ DelBffr1Ovrflw
                    \/ push0 /\ WrFull(egr_bffr_0, EGR_BFFR_0_DEPTH)
                    \/ rdv /\ WrFull(egr_bffr_1, EGR_BFFR_1_DEPTH)
                 THEN 1 ELSE lost

\* Egress buffers, write side: neither push looks at wrfull.
EgressPush(rdv) ==
  LET push0 == ingr_bffr_rden /\ Popped.op = "rd"
  IN  /\ egr_bffr_0' =
           IF push0 THEN FifoPush(egr_bffr_0, EGR_BFFR_0_DEPTH,
                                  [id |-> agent_id, t |-> Popped.t])
           ELSE egr_bffr_0
      /\ egr_bffr_1' =
           IF rdv THEN FifoPush(egr_bffr_1, EGR_BFFR_1_DEPTH, Head(cntrlr))
           ELSE egr_bffr_1
      /\ lost' = IF \/ DelBffr1Ovrflw
                    \/ push0 /\ WrFull(egr_bffr_0, EGR_BFFR_0_DEPTH)
                    \/ rdv /\ WrFull(egr_bffr_1, EGR_BFFR_1_DEPTH)
                 THEN 1 ELSE lost

CntrlrTick(rdy, rdv) ==
  /\ Arbitrate
  /\ LookUpPartition
  /\ DelayBffr0
  /\ DelayBffr1(rdy)
  /\ CntrlrStep(rdy, rdv)
  /\ EgressPush(rdv)
  /\ UNCHANGED <<sent, rspVars, start_ram>>

-----------------------------------------------------------------------------
(***************************************************************************)
(* The pointer synchronisers of the dual-clock FIFOs (external).           *)
(***************************************************************************)
SyncIngrRd(a) ==
  /\ ingr_bffr' = [ingr_bffr EXCEPT ![a] = SyncRdSide(@)]
  /\ UNCHANGED <<sent, arbVars, egrVars, rspVars, start_ram>>

SyncIngrWr(a) ==
  /\ ingr_bffr' = [ingr_bffr EXCEPT ![a] = SyncWrSide(@)]
  /\ UNCHANGED <<sent, arbVars, egrVars, rspVars, start_ram>>

SyncEgrRd ==
  /\ \/ egr_bffr_0' = SyncRdSide(egr_bffr_0) /\ UNCHANGED egr_bffr_1
     \/ egr_bffr_1' = SyncRdSide(egr_bffr_1) /\ UNCHANGED egr_bffr_0
  /\ UNCHANGED <<ingrVars, arbVars, lost, rspVars, start_ram>>

SyncEgrWr ==
  /\ \/ egr_bffr_0' = SyncWrSide(egr_bffr_0) /\ UNCHANGED egr_bffr_1
     \/ egr_bffr_1' = SyncWrSide(egr_bffr_1) /\ UNCHANGED egr_bffr_0
  /\ UNCHANGED <<ingrVars, arbVars, lost, rspVars, start_ram>>

-----------------------------------------------------------------------------
Next ==
  \/ \E a \in Agents, op \in Ops : AgentRequest(a, op)
  \/ AgentResponse
  \/ \E a \in Agents : PartStartWrite(a)
  \/ \E rdy, rdv \in BOOLEAN : CntrlrTick(rdy, rdv)
  \/ \E a \in Agents : SyncIngrRd(a) \/ SyncIngrWr(a)
  \/ SyncEgrRd \/ SyncEgrWr

Spec == Init /\ [][Next]_vars

(***************************************************************************)
(* Both clocks run; the memory controller is ready infinitely often and    *)
(* answers the reads it holds; a pointer gets through its synchroniser.    *)
(* Agents are not obliged to ask for anything.                             *)
(***************************************************************************)
Fairness ==
  /\ WF_vars(\E rdv \in BOOLEAN : CntrlrTick(TRUE, rdv))
  /\ WF_vars(\E rdy \in BOOLEAN : CntrlrTick(rdy, TRUE))
  /\ WF_vars(AgentResponse)
  /\ \A a \in Agents : WF_vars(SyncIngrRd(a)) /\ WF_vars(SyncIngrWr(a))
  /\ WF_vars(SyncEgrRd) /\ WF_vars(SyncEgrWr)

LiveSpec == Spec /\ Fairness

-----------------------------------------------------------------------------
\* Buffers hold well-formed words, the normalised counts fit their registers and
\* a FIFO's read side never sees more words than there are.
TypeOK ==
  /\ ingr_bffr \in [Agents -> FifoOf(Request)]
  /\ \A a \in Agents : ingr_bffr[a].seen <= Len(ingr_bffr[a].q)
  /\ ingr_bffr_rused_norm_f \in [Agents -> 0 .. INGR_BFFR_DEPTH - 1]
  /\ agent_id \in Agents
  /\ part_mem_del_vec_f \in [0..2 -> Bit]
  /\ start_ram \in [Agents -> Nat]
  /\ start_ram_raddr_f \in Agents
  /\ start_ram_rdata_f \in StartAddr
  /\ agent_start_addr_f \in StartAddr
  /\ ingr_del_bffr0 \in Seq(Request)
  /\ ingr_del_bffr1 \in Seq(Issued)
  /\ egr_bffr_0 \in FifoOf(IdWord) /\ egr_bffr_0.seen <= Len(egr_bffr_0.q)
  /\ egr_bffr_1 \in FifoOf(Request) /\ egr_bffr_1.seen <= Len(egr_bffr_1.q)
  /\ cntrlr \in Seq(Request)
  /\ sent \in [Agents -> Nat] /\ done \in [Agents -> Nat]
  /\ tickets \in Nat /\ answered \in Nat /\ drops \in Nat
  /\ lost \in Bit /\ misrouted \in Bit

-----------------------------------------------------------------------------
(***************************************************************************)
(* Safety of the ingress path                                              *)
(***************************************************************************)

Popcount == part_mem_del_vec_f[0] + part_mem_del_vec_f[1] + part_mem_del_vec_f[2]

(***************************************************************************)
(* Delay buffer 0 holds exactly the requests whose pop is still travelling *)
(* along part_mem_del_vec_f: its pop, which does not look at empty, never  *)
(* finds it empty, and its push never finds it full.                       *)
(***************************************************************************)
DelayBffr0Matches == Len(ingr_del_bffr0) = Popcount

(***************************************************************************)
(* A request leaves for the controller with the start address of its own   *)
(* agent's partition: the RAM's two registers, the arbiter's register and  *)
(* the delay vector stay in step whatever the order in which agents are    *)
(* selected, and whatever is written to the RAM meanwhile.                 *)
(***************************************************************************)
OwnPartition ==
  \A i \in DOMAIN ingr_del_bffr1 :
    ingr_del_bffr1[i].base.a = ingr_del_bffr1[i].req.a

\* The two together: the look-up of the partition stays in step with the
\* requests that wait for it.
LookUpInStep == DelayBffr0Matches /\ OwnPartition

\* Requests of one agent in sequence s are in the order it made them.
Ascending(s) ==
  \A i, j \in DOMAIN s : i < j /\ s[i].a = s[j].a => s[i].n < s[j].n

\* Of one agent, all requests in s were made before all those in t.
Before(s, t) ==
  \A i \in DOMAIN s, j \in DOMAIN t : s[i].a = t[j].a => s[i].n < t[j].n

Reqs1 == [i \in DOMAIN ingr_del_bffr1 |-> ingr_del_bffr1[i].req]

(***************************************************************************)
(* The requests of one agent reach the controller in the order in which    *)
(* they were made and none reaches it twice, even when some are dropped on *)
(* the way: along ingress FIFO, delay buffer 0, delay buffer 1 and the     *)
(* last request taken, the numbers of an agent's requests decrease.        *)
(***************************************************************************)
InOrder ==
  /\ Ascending(Reqs1) /\ Ascending(ingr_del_bffr0)
  /\ Before(Reqs1, ingr_del_bffr0)
  /\ \A i \in DOMAIN Reqs1 : done[Reqs1[i].a] < Reqs1[i].n
  /\ \A i \in DOMAIN ingr_del_bffr0 :
       done[ingr_del_bffr0[i].a] < ingr_del_bffr0[i].n
  /\ \A a \in Agents :
       /\ \A i \in DOMAIN ingr_bffr[a].q :
            /\ ingr_bffr[a].q[i].a = a
            /\ done[a] < ingr_bffr[a].q[i].n
            /\ ingr_bffr[a].q[i].n <= sent[a]
       /\ Ascending(ingr_bffr[a].q)
       /\ Before(Reqs1, ingr_bffr[a].q)
       /\ Before(ingr_del_bffr0, ingr_bffr[a].q)

(***************************************************************************)
(* The full flag of delay buffer 1 stops the pops, but the requests in the *)
(* look-up pipeline still arrive: while the controller takes nothing, at   *)
(* most PART_MEM_DELAY requests are dropped.                               *)
(***************************************************************************)
DropsBounded == drops <= PART_MEM_DELAY

(***************************************************************************)
(* Loss-free accounting: as long as no FIFO has dropped a word, every      *)
(* request accepted from an agent that the controller has not taken yet is *)
(* in one of the buffers of the ingress path.                              *)
(***************************************************************************)
IngressOf(a) ==
  {Reqs1[i].n : i \in {j \in DOMAIN Reqs1 : Reqs1[j].a = a}}
    \cup {ingr_del_bffr0[i].n :
            i \in {j \in DOMAIN ingr_del_bffr0 : ingr_del_bffr0[j].a = a}}
    \cup {ingr_bffr[a].q[i].n : i \in DOMAIN ingr_bffr[a].q}

NothingForgotten ==
  lost = 0 => \A a \in Agents : IngressOf(a) = done[a] + 1 .. sent[a]

(***************************************************************************)
(* The ingress path as a whole: from the agents to the controller requests *)
(* are neither reordered nor repeated, and without a dropped word none is  *)
(* forgotten (gen_agent_ingr, the arbitration and both delay buffers).     *)
(***************************************************************************)
IngressKept == InOrder /\ NothingForgotten

-----------------------------------------------------------------------------
(***************************************************************************)
(* Safety of the egress path                                               *)
(***************************************************************************)

(***************************************************************************)
(* Read data goes to the agent that asked for it.  The id was queued when  *)
(* the read left the ingress FIFO, in another clock domain and long before *)
(* its data; the two meet only by counting.                                *)
(***************************************************************************)
RoutedToRequester == lost = 0 => misrouted = 0

(***************************************************************************)
(* Every read that left the ingress FIFOs is answered exactly once: the    *)
(* ids waiting in egress buffer 0 are those of the reads still in the      *)
(* delay buffers, in the controller or in egress buffer 1.                 *)
(***************************************************************************)
ReadsOf(s) == {i \in DOMAIN s : s[i].op = "rd"}

OneAnswerPerRead ==
  lost = 0 =>
    /\ Len(egr_bffr_0.q) = tickets - answered
    /\ {Reqs1[i].t : i \in ReadsOf(Reqs1)}
         \cup {ingr_del_bffr0[i].t : i \in ReadsOf(ingr_del_bffr0)}
         \cup {cntrlr[i].t : i \in DOMAIN cntrlr}
         \cup {egr_bffr_1.q[i].t : i \in DOMAIN egr_bffr_1.q}
       = answered + 1 .. tickets

(***************************************************************************)
(* The egress path as a whole: the answers that the agents are given are   *)
(* those of their own reads, one for each (the two egress buffers and      *)
(* gen_agent_egr).                                                         *)
(***************************************************************************)
AnswersRight == RoutedToRequester /\ OneAnswerPerRead

-----------------------------------------------------------------------------
(***************************************************************************)
(* Progress: the controller eventually takes (or has dropped and passed)   *)
(* every request that was accepted from an agent.                          *)
(***************************************************************************)
EventuallyTaken ==
  \A a \in Agents :
    \A k \in 1 .. MaxReq[a] : sent[a] >= k ~> done[a] >= k

=============================================================================

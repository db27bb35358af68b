-------------------------- MODULE SequencerProofs --------------------------
(***************************************************************************)
(* Proofs about the calibration sequencer: first who has the memory and    *)
(* what failures report, then what searches and centring may write and     *)
(* what a success says.                                                    *)
(***************************************************************************)
EXTENDS Sequencer, WellFoundedInduction, NaturalsInduction, TLAPS

\* The places of the program inside the calibration of a group.
Searching == {"find_failing", "find_first", "back_off", "forward", "right_edge", "dtaps", "centre"}
Reading == {"read_left", "read_right", "read_centre"}
Writing == {"write_left", "write_right", "write_centre", "dm_left", "dm_right", "dm_centre"}
InGroup == {"delay", "dqs_in"} \cup Searching \cup Reading \cup Writing
Busy == InGroup \cup {"group", "lfifo", "report"}
Places == Busy \cup {"boot", "run", "stall", "resume", "idle"}

\* The fields of the records that the invariants look at.
Shape ==
  /\ {"g", "first", "d"} \subseteq DOMAIN L
  /\ {"stage", "failing"} \subseteq DOMAIN rf
  /\ {"stage", "sub", "group", "fom_in", "fom_out"} \subseteq DOMAIN gbl
  /\ {"mux", "stable", "status", "rlat"} \subseteq DOMAIN phy
  /\ {"mr1", "rows"} \subseteq DOMAIN mem
  /\ "stall" \in DOMAIN trk
  /\ DOMAIN scc = Groups /\ DOMAIN vfifo = Groups
  /\ \A x \in Groups : "bypass" \in DOMAIN scc[x]

\* Where the program is, whom it works on, and who has the memory.
Owner ==
  /\ pc \in Places /\ L.g \in 0..NumGroups
  /\ pc \in InGroup => L.g < NumGroups
  /\ pc \in Busy => /\ trk.stall = "acked" /\ phy.mux = 3 /\ phy.stable
                    /\ mem.mr1 = "calib" /\ mem.rows = "open"
  /\ pc \in {"resume", "idle"} => phy.mux # 3 /\ mem.mr1 = "user" /\ mem.rows = "closed"
  /\ pc \in Busy \cup {"resume", "idle"} => \A x \in Groups : scc[x].bypass

\* The stage the register file shows, and the failure recorded so far.
Named(stg, sub, cur) ==
  stg # NIL /\ (stg = cur \/ (stg = CAL_STAGE_VFIFO /\ sub = VFIFO_CENTER))
Stages ==
  /\ pc \in {"delay", "dqs_in"} \cup Searching => rf.stage = CAL_STAGE_VFIFO
  /\ pc \in Reading =>
       rf.stage = (IF L.first THEN CAL_STAGE_VFIFO ELSE CAL_STAGE_VFIFO_AFTER_WRITES)
  /\ pc \in Writing => rf.stage = CAL_STAGE_WRITES
  /\ pc = "lfifo" => rf.stage = CAL_STAGE_LFIFO
  /\ pc \in Busy \ {"report"} =>
       gbl.stage = NIL \/ (gbl.stage = CAL_STAGE_VFIFO /\ gbl.sub = VFIFO_CENTER)
  /\ pc \in {"report", "resume"} /\ ~pass => Named(gbl.stage, gbl.sub, rf.stage)
  /\ pc = "idle" /\ phy.status = "fail" =>
       rf.failing # << >> /\ Named(rf.failing[1], rf.failing[2], rf.stage)

\* Every bit of every group reads with the chains as they are and this latency.
AllRead(lat) ==
  \A x \in Groups :
    lat >= board[x].lat /\ \A i \in Bits : ReadOk(board[x], scc[x], vfifo[x], i)

\* The read latency going down: the attempt before this one passed.
Latency ==
  /\ board \in Boards \cup Drifted
  /\ pc \in InGroup \cup {"group"} => phy.rlat \in Int
  /\ pc = "lfifo" => L.d \in Int /\ (L.first \/ AllRead(L.d + 1))
  /\ pc \in {"report", "resume", "idle"} /\ pass => AllRead(phy.rlat)

SeqInv == Shape /\ Owner /\ Stages /\ Latency

-----------------------------------------------------------------------------
(* What a step inside a group leaves alone. *)

\* A setter of the chains of a group keeps the record and its bypass.
Kept(s, t) == "bypass" \in DOMAIN t /\ (t.bypass <=> s.bypass)

\* The chains of one group change, and nothing of who has the memory.
Frame ==
  /\ DOMAIN scc' = Groups /\ DOMAIN vfifo' = Groups
  /\ \A x \in Groups \ {L.g} : scc'[x] = scc[x] /\ vfifo'[x] = vfifo[x]
  /\ Kept(scc[L.g], scc'[L.g])
  /\ phy' = phy /\ board' = board
  /\ "stall" \in DOMAIN trk' /\ trk'.stall = trk.stall
  /\ {"mr1", "rows"} \subseteq DOMAIN mem' /\ mem'.mr1 = mem.mr1 /\ mem'.rows = mem.rows

\* The locals that stay.
Same(l) == {"g", "first", "d"} \subseteq DOMAIN l /\ l.g = L.g

Mine == pc \in InGroup /\ Shape /\ Owner

LEMMA MineFacts ==
  ASSUME Mine
  PROVE  L.g \in Groups /\ DOMAIN scc = Groups /\ DOMAIN vfifo = Groups
           /\ "bypass" \in DOMAIN S
  <1>1. L.g \in Groups
    BY PhyAssumption DEF Mine, Owner, Groups
  <1> QED BY <1>1 DEF Mine, Shape, S, g

LEMMA PutKeeps ==
  ASSUME Mine, NEW s, Put(s), Kept(S, s)
  PROVE  /\ DOMAIN scc' = Groups
         /\ \A x \in Groups \ {L.g} : scc'[x] = scc[x]
         /\ Kept(scc[L.g], scc'[L.g])
  BY MineFacts DEF Put, g, S

LEMMA PushKeeps ==
  ASSUME Mine, NEW n, vfifo' = [vfifo EXCEPT ![g] = n]
  PROVE  DOMAIN vfifo' = Groups /\ \A x \in Groups \ {L.g} : vfifo'[x] = vfifo[x]
  BY MineFacts DEF g

LEMMA StillKeeps ==
  ASSUME Mine
  PROVE  /\ UNCHANGED vfifo => DOMAIN vfifo' = Groups /\ \A x \in Groups \ {L.g} : vfifo'[x] = vfifo[x]
         /\ UNCHANGED scc => /\ DOMAIN scc' = Groups
                             /\ \A x \in Groups \ {L.g} : scc'[x] = scc[x]
                             /\ Kept(scc[L.g], scc'[L.g])
         /\ UNCHANGED mem => {"mr1", "rows"} \subseteq DOMAIN mem' /\ mem'.mr1 = mem.mr1 /\ mem'.rows = mem.rows
         /\ StillPhy => phy' = phy /\ "stall" \in DOMAIN trk' /\ trk'.stall = trk.stall
         /\ Still => board' = board
  BY MineFacts DEF Mine, Shape, Still, StillPhy, Kept, S, g

LEMMA SettersKeep ==
  ASSUME NEW s, "bypass" \in DOMAIN s
  PROVE  /\ \A pp, dd : Kept(s, EnableAt(s, pp, dd))
         /\ \A dq : Kept(s, scc_mgr_set_dq_in_delay(s, dq)) /\ Kept(s, scc_mgr_set_dq_out1_delay(s, dq))
         /\ \A dd : /\ Kept(s, scc_mgr_set_dqs_bus_in_delay(s, dd))
                    /\ Kept(s, scc_mgr_set_dqs_out1_delay(s, dd))
                    /\ Kept(s, scc_mgr_set_dm_out1_delay(s, dd))
                    /\ Kept(s, scc_mgr_apply_group_dq_in_delay(s, dd))
                    /\ Kept(s, scc_mgr_apply_group_dq_out1_delay(s, dd))
                    /\ Kept(s, scc_mgr_apply_group_dm_out1_delay(s, dd))
                    /\ Kept(s, scc_mgr_apply_group_dqs_io_and_oct_out1(s, dd))
                    /\ Kept(s, scc_mgr_apply_group_all_out_delay_add(s, dd))
                    /\ Kept(s, scc_mgr_set_dqs_en_phase_all_ranks(s, dd))
         /\ Kept(s, scc_mgr_zero_group(s, TRUE)) /\ Kept(s, scc_mgr_zero_group(s, FALSE))
         /\ Kept(s, SweepDqIn(s))
  BY DEF Kept, EnableAt, scc_mgr_apply_group_dq_in_delay, scc_mgr_apply_group_dq_out1_delay,
     scc_mgr_apply_group_dm_out1_delay, scc_mgr_apply_group_dqs_io_and_oct_out1,
     scc_mgr_apply_group_all_out_delay_add, scc_mgr_set_dq_in_delay, scc_mgr_set_dq_out1_delay,
     scc_mgr_set_dqs_bus_in_delay, scc_mgr_set_dqs_out1_delay, scc_mgr_set_dm_out1_delay,
     scc_mgr_set_dqs_en_delay_all_ranks, scc_mgr_set_dqs_en_phase_all_ranks,
     scc_mgr_zero_group, SweepDqIn

LEMMA KeptTwice ==
  ASSUME NEW r, NEW s, NEW t, Kept(r, s), Kept(s, t)
  PROVE  Kept(r, t)
  BY DEF Kept

LEMMA NotFoundFrame ==
  ASSUME Mine, NEW pp, NEW dd, NEW n, NotFound(pp, dd, n),
         UNCHANGED <<mem, gbl, rf>>, Still, StillPhy
  PROVE  Frame /\ Same(L') /\ pc' = "dqs_in" /\ pass' = pass
  <1> DEFINE s == EnableAt(scc_mgr_apply_group_dq_in_delay(S, 0), pp, dd)
  <1>1. Put(s) /\ vfifo' = [vfifo EXCEPT ![g] = rw_mgr_incr_vfifo(vfifo[g], n)]
    BY DEF NotFound
  <1>2. Kept(S, s)
    <2>1. Kept(S, scc_mgr_apply_group_dq_in_delay(S, 0))
      BY MineFacts, SettersKeep
    <2>2. Kept(scc_mgr_apply_group_dq_in_delay(S, 0), s)
      BY <2>1, SettersKeep DEF Kept
    <2> QED BY <2>1, <2>2, KeptTwice
  <1> HIDE DEF s
  <1>3. Frame
    BY <1>1, <1>2, PutKeeps, PushKeeps, StillKeeps DEF Frame
  <1>4. Same(L') /\ pc' = "dqs_in" /\ pass' = pass
    BY DEF NotFound, Goto, Same, Mine, Shape
  <1> QED BY <1>3, <1>4

LEMMA SetEnFrame ==
  ASSUME Mine, NEW pp, NEW dd, NEW n, SetEn(pp, dd, n), UNCHANGED <<mem, phy, gbl, rf>>, Still,
         "stall" \in DOMAIN trk', trk'.stall = trk.stall
  PROVE  Frame
  <1>1. Put(EnableAt(S, pp, dd)) /\ vfifo' = [vfifo EXCEPT ![g] = rw_mgr_incr_vfifo(vfifo[g], n)]
    BY DEF SetEn
  <1>2. Kept(S, EnableAt(S, pp, dd))
    BY MineFacts, SettersKeep
  <1> QED BY <1>1, <1>2, PutKeeps, PushKeeps, StillKeeps DEF Frame

\* A step of the search for the DQS enable.
SearchStep ==
  /\ Frame /\ Same(L') /\ UNCHANGED <<gbl, rf, pass>>
  /\ pc' \in {"dqs_in", "read_left"} \cup Searching
  /\ pc' = "read_left" => L'.first

LEMMA NotFoundStep ==
  ASSUME Mine, NEW pp, NEW dd, NEW n, NotFound(pp, dd, n),
         UNCHANGED <<mem, gbl, rf>>, Still, StillPhy
  PROVE  SearchStep
  BY NotFoundFrame DEF SearchStep, Searching

LEMMA FoundStep ==
  ASSUME Mine, NEW pp, NEW dd, NEW n, SetEn(pp, dd, n), NEW where \in Searching, Goto(where), Same(L'),
         UNCHANGED <<mem, phy, gbl, rf>>, Still, "stall" \in DOMAIN trk', trk'.stall = trk.stall
  PROVE  SearchStep
  <1>1. Frame
    BY SetEnFrame
  <1> QED BY <1>1 DEF SearchStep, Searching, Goto

LEMMA FindFailingStep == ASSUME Mine, FindFailing PROVE SearchStep
  <1>1. \E k : \/ NotFound(S.en_phase, S.en_delay, k)
               \/ SetEn(S.en_phase, S.en_delay, k) /\ L' = L /\ Goto("find_first")
    BY DEF FindFailing
  <1>2. UNCHANGED <<mem, gbl, rf>> /\ Still /\ StillPhy
    BY DEF FindFailing
  <1>3. L' = L => Same(L')
    BY DEF Same, Mine, Shape
  <1> QED BY <1>1, <1>2, <1>3, NotFoundStep, FoundStep, StillKeeps DEF Searching, StillPhy

LEMMA FindFirstStep == ASSUME Mine, FindFirst PROVE SearchStep
  <1> DEFINE Found(t, b) ==
        /\ SetEn(t.p, t.d, t.pushes) /\ Goto(IF t.d = 0 THEN "back_off" ELSE "right_edge")
        /\ L' = [L EXCEPT !.i = t.i, !.p = t.p, !.e = t.d, !.bgn = b, !.end = b]
  <1>1. (\E pp, dd, n : NotFound(pp, dd, n)) \/ (\E t, b : Found(t, b))
    BY Zenon DEF FindFirst
  <1>2. UNCHANGED <<mem, gbl, rf>> /\ Still /\ StillPhy
    BY DEF FindFirst
  <1>3. ASSUME NEW pp, NEW dd, NEW n, NotFound(pp, dd, n) PROVE SearchStep
    BY <1>2, <1>3, NotFoundStep
  <1>4. ASSUME NEW t, NEW b, Found(t, b) PROVE SearchStep
    <2>1. Same(L')
      BY <1>4 DEF Same, Mine, Shape
    <2>2. (IF t.d = 0 THEN "back_off" ELSE "right_edge") \in Searching
      BY DEF Searching
    <2> QED BY <1>2, <1>4, <2>1, <2>2, FoundStep, StillKeeps DEF StillPhy
  <1> QED BY <1>1, <1>3, <1>4

LEMMA BackOffStep == ASSUME Mine, BackOff PROVE SearchStep
  <1>1. \E pp, n, b, p, e : /\ SetEn(pp, 0, n) /\ Goto("forward")
                            /\ L' = [L EXCEPT !.bgn = b, !.p = p, !.end = e]
    BY DEF BackOff
  <1>2. UNCHANGED <<mem, gbl, rf>> /\ Still /\ StillPhy
    BY DEF BackOff
  <1>3. Same(L')
    BY <1>1 DEF Same, Mine, Shape
  <1> QED BY <1>1, <1>2, <1>3, FoundStep, StillKeeps DEF StillPhy, Searching

LEMMA ForwardStep == ASSUME Mine, Forward PROVE SearchStep
  <1>1. \/ \E pp, dd, n : NotFound(pp, dd, n)
        \/ \E p, n, e : SetEn(p, 0, n) /\ Goto("right_edge") /\ L' = [L EXCEPT !.p = p, !.e = 0, !.end = e]
    BY DEF Forward
  <1>2. UNCHANGED <<mem, gbl, rf>> /\ Still /\ StillPhy
    BY DEF Forward
  <1>3. ASSUME NEW p, NEW n, NEW e, SetEn(p, 0, n), Goto("right_edge"),
               L' = [L EXCEPT !.p = p, !.e = 0, !.end = e]
        PROVE  SearchStep
    <2>1. Same(L')
      BY <1>3 DEF Same, Mine, Shape
    <2> QED BY <1>2, <1>3, <2>1, FoundStep, StillKeeps DEF StillPhy, Searching
  <1> QED BY <1>1, <1>2, <1>3, NotFoundStep

LEMMA RightEdgeStep == ASSUME Mine, RightEdge PROVE SearchStep
  <1>1. \/ \E pp, dd, n : NotFound(pp, dd, n)
        \/ \E p, d, k, e : SetEn(p, d, 0) /\ Goto("dtaps") /\ L' = [L EXCEPT !.e = k, !.end = e]
    BY DEF RightEdge
  <1>2. UNCHANGED <<mem, gbl, rf>> /\ Still /\ StillPhy
    BY DEF RightEdge
  <1>3. ASSUME NEW p, NEW d, NEW k, NEW e, SetEn(p, d, 0), Goto("dtaps"), L' = [L EXCEPT !.e = k, !.end = e]
        PROVE  SearchStep
    <2>1. Same(L')
      BY <1>3 DEF Same, Mine, Shape
    <2> QED BY <1>2, <1>3, <2>1, FoundStep, StillKeeps DEF StillPhy, Searching
  <1> QED BY <1>1, <1>2, <1>3, NotFoundStep

LEMMA DtapsStep == ASSUME Mine, DtapsPerPtap PROVE SearchStep
  <1>1. \E p, d, n, t : SetEn(p, d, n) /\ Goto("centre") /\ L' = L /\ trk' = [trk EXCEPT !.dtaps = t]
    BY DEF DtapsPerPtap
  <1>2. UNCHANGED <<mem, phy, gbl, rf>> /\ Still
    BY DEF DtapsPerPtap
  <1>3. Same(L') /\ "stall" \in DOMAIN trk' /\ trk'.stall = trk.stall
    BY <1>1 DEF Same, Mine, Shape
  <1> QED BY <1>1, <1>2, <1>3, FoundStep DEF Searching

LEMMA CentreStep == ASSUME Mine, Centre PROVE SearchStep
  <1>1. \/ \E pp, dd, n : NotFound(pp, dd, n)
        \/ \E p, d, k :
             /\ Put(scc_mgr_set_dqs_bus_in_delay(
                      EnableAt(scc_mgr_apply_group_dq_in_delay(S, 0), p, d), L.orig))
             /\ vfifo' = [vfifo EXCEPT ![g] = rw_mgr_incr_vfifo(@, k)]
             /\ L' = [StartDeskew(L, InIll) EXCEPT !.start = L.orig, !.first = TRUE]
             /\ Goto("read_left")
    BY DEF Centre
  <1>2. UNCHANGED <<mem, gbl, rf>> /\ Still /\ StillPhy
    BY DEF Centre
  <1>3. ASSUME NEW p, NEW d, NEW k,
               Put(scc_mgr_set_dqs_bus_in_delay(
                      EnableAt(scc_mgr_apply_group_dq_in_delay(S, 0), p, d), L.orig)),
               vfifo' = [vfifo EXCEPT ![g] = rw_mgr_incr_vfifo(@, k)],
               L' = [StartDeskew(L, InIll) EXCEPT !.start = L.orig, !.first = TRUE],
               Goto("read_left")
        PROVE  SearchStep
    <2> DEFINE s1 == scc_mgr_apply_group_dq_in_delay(S, 0)
               s2 == EnableAt(s1, p, d)
               s3 == scc_mgr_set_dqs_bus_in_delay(s2, L.orig)
    <2>1. Kept(S, s1)
      BY MineFacts, SettersKeep
    <2>2. Kept(s1, s2)
      BY <2>1, SettersKeep DEF Kept
    <2>3. Kept(s2, s3)
      BY <2>2, SettersKeep DEF Kept
    <2>4. Kept(S, s3)
      BY <2>1, <2>2, <2>3, KeptTwice
    <2>5. Put(s3)
      BY <1>3
    <2> HIDE DEF s3
    <2>6. Frame
      BY <1>2, <1>3, <2>4, <2>5, PutKeeps, PushKeeps, StillKeeps DEF Frame
    <2>7. Same(L') /\ L'.first
      BY <1>3 DEF Same, Mine, Shape, StartDeskew
    <2> QED BY <1>2, <1>3, <2>6, <2>7 DEF SearchStep, Goto
  <1> QED BY <1>1, <1>2, <1>3, NotFoundStep

LEMMA SearchIsStep == ASSUME Mine, Search PROVE SearchStep
  BY FindFailingStep, FindFirstStep, BackOffStep, ForwardStep, RightEdgeStep, DtapsStep, CentreStep
     DEF Search

-----------------------------------------------------------------------------
(* A step inside a group as the invariant sees it. *)

GblFields(gg) == {"stage", "sub", "group", "fom_in", "fom_out"} \subseteq DOMAIN gg
Clean(gg) ==
  GblFields(gg) /\ (gg.stage = NIL \/ (gg.stage = CAL_STAGE_VFIFO /\ gg.sub = VFIFO_CENTER))

Inner ==
  /\ Frame /\ {"g", "first", "d"} \subseteq DOMAIN L'
  /\ {"stage", "failing"} \subseteq DOMAIN rf' /\ GblFields(gbl')
  /\ pc' \in InGroup \cup {"group", "report"}
  /\ L'.g = L.g \/ (pc' = "group" /\ L'.g = L.g + 1)
  /\ pc' = "report" => ~pass'
  /\ Stages'

LEMMA CleanNow == ASSUME Mine, Stages PROVE Clean(gbl)
  BY DEF Mine, Shape, Stages, Clean, GblFields, InGroup, Busy, Searching, Reading, Writing

LEMMA FailureIsNamed ==
  ASSUME NEW gg, Clean(gg), NEW grp, NEW sub, NEW stg, stg # NIL
  PROVE  LET r == set_failing_group_stage(gg, grp, stg, sub)
         IN  GblFields(r) /\ Named(r.stage, r.sub, stg)
  BY DEF set_failing_group_stage, Clean, GblFields, Named, NIL, CAL_STAGE_VFIFO

\* A step that goes on keeps the stage and the record of failures clean.
LEMMA GoesOn ==
  ASSUME Mine, Stages, Frame, Same(L'), UNCHANGED <<gbl, rf>>, pc' \in InGroup,
         \/ /\ pc \in {"delay", "dqs_in"} \cup Searching
            /\ \/ pc' \in {"delay", "dqs_in"} \cup Searching
               \/ pc' \in Reading /\ L'.first
         \/ pc \in Reading /\ pc' \in Reading /\ (L'.first <=> L.first)
         \/ pc \in Writing /\ pc' \in Writing
  PROVE  Inner
  <1>1. Clean(gbl)
    BY CleanNow
  <1>2. Stages'
    BY <1>1 DEF Stages, Same, Clean, InGroup, Busy, Searching, Reading, Writing
  <1>3. pc' # "report"
    BY DEF InGroup, Searching, Reading, Writing
  <1> QED BY <1>1, <1>2, <1>3 DEF Inner, Same, Clean, Mine, Shape

LEMMA GivesUp ==
  ASSUME Mine, Stages, Frame, Same(L'), NEW gg, Clean(gg), NEW grp, NEW sub,
         GiveUp(set_failing_group_stage(gg, grp, rf.stage, sub)), rf.stage # NIL, UNCHANGED rf
  PROVE  Inner
  <1>1. GblFields(gbl') /\ Named(gbl'.stage, gbl'.sub, rf.stage)
    BY FailureIsNamed DEF GiveUp
  <1>2. Stages'
    BY <1>1 DEF Stages, GiveUp, InGroup, Busy, Searching, Reading, Writing
  <1> QED BY <1>1, <1>2 DEF Inner, GiveUp, Same, Mine, Shape

LEMMA SearchInner == ASSUME Mine, Stages, Search PROVE Inner
  <1>1. SearchStep
    BY SearchIsStep
  <1>2. pc \in Searching
    BY DEF Search, Searching, FindFailing, FindFirst, BackOff, Forward, RightEdge, DtapsPerPtap, Centre
  <1> QED BY <1>1, <1>2, GoesOn DEF SearchStep, InGroup, Searching, Reading

LEMMA DelayInner == ASSUME Mine, Stages, DelayLoop PROVE Inner
  <1> DEFINE s1 == IF L.d > 0 THEN scc_mgr_apply_group_all_out_delay_add(S, L.d) ELSE S
             ok == Accessible /\ rw_mgr_mem_calibrate_read_load_patterns(B, s1)
             r == rw_mgr_mem_calibrate_read_test_patterns_all_ranks(B, s1, ok)
  <1>1. Kept(S, s1)
    BY MineFacts, SettersKeep DEF Kept
  <1>2. Kept(s1, r.s)
    <2>1. r.s = s1 \/ \E pp : r.s = scc_mgr_set_dqs_en_phase_all_ranks(s1, pp)
      BY DEF rw_mgr_mem_calibrate_read_test_patterns_all_ranks
    <2> HIDE DEF s1, r
    <2>2. "bypass" \in DOMAIN s1
      BY <1>1 DEF Kept
    <2> QED BY <2>1, <2>2, SettersKeep DEF Kept
  <1>3. Kept(S, r.s)
    BY <1>1, <1>2, KeptTwice
  <1>4. pc = "delay" /\ UNCHANGED <<vfifo, rf>> /\ Still /\ StillPhy
    BY DEF DelayLoop
  <1>5. CASE L.d > dtaps_per_ptap
    <2>1. /\ GiveUp(set_failing_group_stage(gbl, g, CAL_STAGE_VFIFO, L.sub))
          /\ UNCHANGED <<scc, mem, L>>
      BY <1>5 DEF DelayLoop
    <2>2. Frame /\ Same(L')
      BY <1>4, <2>1, StillKeeps DEF Frame, Same, Mine, Shape
    <2>3. rf.stage = CAL_STAGE_VFIFO
      BY <1>4 DEF Stages
    <2> QED BY <1>4, <2>1, <2>2, <2>3, CleanNow, GivesUp DEF CAL_STAGE_VFIFO, NIL
  <1>6. CASE ~(L.d > dtaps_per_ptap)
    <2> HIDE DEF s1
    <2>1. /\ Put(r.s) /\ mem' = [mem EXCEPT !.patterns = ok] /\ UNCHANGED gbl
          /\ \/ L' = [L EXCEPT !.orig = r.s.dqs_in, !.dqs = r.s.dqs_in] /\ Goto("dqs_in")
             \/ L' = [L EXCEPT !.d = L.d + 2] /\ Goto("delay")
      BY <1>6 DEF DelayLoop, s1
    <2> HIDE DEF r, ok
    <2>2. {"mr1", "rows"} \subseteq DOMAIN mem' /\ mem'.mr1 = mem.mr1 /\ mem'.rows = mem.rows
      BY <2>1 DEF Mine, Shape
    <2>3. Frame
      BY <1>3, <1>4, <2>1, <2>2, PutKeeps, StillKeeps DEF Frame
    <2>4. Same(L') /\ pc' \in {"delay", "dqs_in"}
      BY <2>1 DEF Same, Mine, Shape, Goto
    <2> QED BY <1>4, <2>1, <2>3, <2>4, GoesOn DEF InGroup
  <1> QED BY <1>5, <1>6

LEMMA DqsInInner == ASSUME Mine, Stages, DqsInLoop PROVE Inner
  <1>1. pc = "dqs_in" /\ UNCHANGED <<vfifo, mem, gbl>> /\ Still /\ StillPhy
    BY DEF DqsInLoop
  <1>2. CASE L.dqs > IO_DQS_IN_DELAY_MAX
    <2>1. L' = [L EXCEPT !.d = L.d + 2] /\ Goto("delay") /\ UNCHANGED <<scc, rf>>
      BY <1>2 DEF DqsInLoop
    <2>2. Frame /\ Same(L')
      BY <1>1, <2>1, StillKeeps DEF Frame, Same, Mine, Shape
    <2> QED BY <1>1, <2>1, <2>2, GoesOn DEF Goto, InGroup
  <1>3. CASE ~(L.dqs > IO_DQS_IN_DELAY_MAX)
    <2> DEFINE s1 == scc_mgr_set_dqs_bus_in_delay(S, L.dqs)
               s2 == SweepDqIn(s1)
               s3 == EnableAt(s2, 1, 0)
    <2>1. /\ Put(s3) /\ rf' = reg_file_set_sub_stage(rf, VFIFO_CENTER)
          /\ Goto("find_failing") /\ UNCHANGED L
      BY <1>3 DEF DqsInLoop
    <2>2. Kept(S, s1)
      BY MineFacts, SettersKeep
    <2>3. Kept(s1, s2)
      BY <2>2, SettersKeep DEF Kept
    <2>4. Kept(s2, s3)
      BY <2>3, SettersKeep DEF Kept
    <2>5. Kept(S, s3)
      BY <2>2, <2>3, <2>4, KeptTwice
    <2> HIDE DEF s3
    <2>6. Frame /\ Same(L')
      BY <1>1, <2>1, <2>5, PutKeeps, StillKeeps DEF Frame, Same, Mine, Shape
    <2>7. {"stage", "failing"} \subseteq DOMAIN rf' /\ rf'.stage = rf.stage /\ rf.stage = CAL_STAGE_VFIFO
      BY <1>1, <2>1 DEF reg_file_set_sub_stage, Mine, Shape, Stages
    <2>8. Stages' /\ pc' \in InGroup
      BY <1>1, <2>1, <2>7, CleanNow DEF Stages, Clean, Goto, InGroup, Busy, Searching, Reading, Writing
    <2> QED BY <1>1, <2>1, <2>6, <2>7, <2>8, CleanNow DEF Inner, Same, Clean, Goto
  <1> QED BY <1>2, <1>3

-----------------------------------------------------------------------------
(* The deskew searches and the centrings. *)

\* What a search changes of the locals is not the group and not which centring.
Holds(m) == {"g", "first", "d"} \subseteq DOMAIN m /\ m.g = L.g /\ (m.first <=> L.first)

LEMMA EdgesHold ==
  ASSUME Mine
  PROVE  /\ Holds(L)
         /\ \A chk, ill : Holds(LeftEdges(L, chk, ill)) /\ Holds(RightEdges(L, chk, ill))
         /\ \A at, ok : Holds(Extend(L, at, ok))
  BY DEF Mine, Shape, Holds, LeftEdges, RightEdges, Extend

\* A step of a search writes one chain of the group and moves on.
LEMMA DeskewGoesOn ==
  ASSUME Mine, Stages, NEW s, Put(s), Kept(S, s), Holds(L'),
         UNCHANGED <<vfifo, mem, gbl, rf>>, Still, StillPhy,
         \/ pc \in Reading /\ pc' \in Reading
         \/ pc \in Writing /\ pc' \in Writing
  PROVE  Inner
  <1>1. Frame
    BY PutKeeps, StillKeeps DEF Frame
  <1>2. Same(L') /\ (L'.first <=> L.first)
    BY DEF Same, Holds
  <1> QED BY <1>1, <1>2, GoesOn DEF InGroup

LEMMA ReadLeftInner == ASSUME Mine, Stages, ReadLeft PROVE Inner
  <1> DEFINE s1 == scc_mgr_apply_group_dq_in_delay(S, L.e)
             s0 == scc_mgr_apply_group_dq_in_delay(S, 0)
             chk == CenterTest(s1)
             seen == L.sticky \cup chk
             stop == chk = {} /\ seen = Bits
             l1 == IF stop THEN L ELSE LeftEdges(L, chk, InIll)
  <1>1. pc = "read_left" /\ UNCHANGED <<vfifo, mem, gbl, rf>> /\ Still /\ StillPhy
    BY DEF ReadLeft
  <1>2. Kept(S, s1) /\ Kept(S, s0)
    BY MineFacts, SettersKeep
  <1>3. Holds(l1)
    BY EdgesHold
  <1>4. \/ Put(s0) /\ L' = NextSearch(l1, InIll, TRUE) /\ Goto("read_right")
        \/ Put(s1) /\ L' = [l1 EXCEPT !.sticky = seen, !.e = l1.e + 1] /\ Goto("read_left")
    BY DEF ReadLeft
  <1> HIDE DEF s1, s0, l1, seen
  <1>5. Holds(L') /\ pc' \in Reading
    BY <1>3, <1>4 DEF Holds, NextSearch, Goto, Reading
  <1> QED BY <1>1, <1>2, <1>4, <1>5, DeskewGoesOn DEF Reading

LEMMA ReadRightInner == ASSUME Mine, Stages, ReadRight PROVE Inner
  <1> DEFINE s1 == scc_mgr_set_dqs_bus_in_delay(S, L.start + L.e)
             chk == CenterTest(s1)
             seen == L.sticky \cup chk
             stop == chk = {} /\ seen = Bits
             l1 == IF stop THEN L ELSE RightEdges(L, chk, InIll)
  <1>1. pc = "read_right" /\ UNCHANGED <<vfifo, mem, gbl, rf>> /\ Still /\ StillPhy
    BY DEF ReadRight
  <1>2. Kept(S, s1)
    BY MineFacts, SettersKeep
  <1>3. Holds(l1)
    BY EdgesHold
  <1>4. /\ Put(s1) /\ L' = [l1 EXCEPT !.sticky = seen, !.e = l1.e + 1]
        /\ Goto("read_centre") \/ Goto("read_right")
    BY DEF ReadRight
  <1> HIDE DEF s1, l1, seen
  <1>5. Holds(L') /\ pc' \in Reading
    BY <1>3, <1>4 DEF Holds, Goto, Reading
  <1> QED BY <1>1, <1>2, <1>4, <1>5, DeskewGoesOn DEF Reading

\* A centring that fails: another delay, or the end of the calibration.
LEMMA CenterFails ==
  ASSUME Mine, Stages, pc = "read_centre", NEW s, Put(s), Kept(S, s), NEW gg, CenterFailed(gg), GblFields(gg),
         IF L.first THEN Clean(gg)
         ELSE gg.stage = NIL \/ Named(gg.stage, gg.sub, CAL_STAGE_VFIFO_AFTER_WRITES),
         UNCHANGED <<vfifo, mem, rf>>, Still, StillPhy
  PROVE  Inner
  <1>1. Frame
    BY PutKeeps, StillKeeps DEF Frame
  <1>2. CASE L.first
    <2>1. L' = [L EXCEPT !.sub = VFIFO_CENTER, !.dqs = L.dqs + 1] /\ gbl' = gg /\ pc' = "dqs_in"
      BY <1>2 DEF CenterFailed, Goto
    <2>2. Same(L')
      BY <2>1 DEF Same, Mine, Shape
    <2>3. rf.stage = CAL_STAGE_VFIFO
      BY <1>2 DEF Stages, Reading
    <2>4. Stages'
      BY <1>2, <2>1, <2>3 DEF Stages, Clean, Searching, Reading, Writing, Busy, InGroup
    <2> QED BY <1>1, <2>1, <2>2, <2>4 DEF Inner, Same, Mine, Shape, InGroup
  <1>3. CASE ~L.first
    <2> DEFINE r == set_failing_group_stage(gg, g, CAL_STAGE_VFIFO_AFTER_WRITES, VFIFO_CENTER)
    <2>1. GiveUp(r) /\ UNCHANGED L
      BY <1>3 DEF CenterFailed
    <2>2. rf.stage = CAL_STAGE_VFIFO_AFTER_WRITES
      BY <1>3 DEF Stages, Reading
    <2>3. GblFields(r) /\ Named(r.stage, r.sub, CAL_STAGE_VFIFO_AFTER_WRITES)
      BY <1>3 DEF set_failing_group_stage, GblFields, Named, NIL, CAL_STAGE_VFIFO_AFTER_WRITES
    <2> HIDE DEF r
    <2>4. Stages'
      BY <2>1, <2>2, <2>3 DEF Stages, GiveUp, Searching, Reading, Writing, Busy, InGroup
    <2> QED BY <1>1, <2>1, <2>3, <2>4 DEF Inner, GiveUp, Mine, Shape
  <1> QED BY <1>2, <1>3

LEMMA ReadWindowlessInner == ASSUME Mine, Stages, ReadWindowless PROVE Inner
  <1> DEFINE s1 == scc_mgr_set_dqs_bus_in_delay(S, L.start)
             n == g * DqPerGroup + Min(Windowless(InIll))
             stg == IF L.first THEN CAL_STAGE_VFIFO ELSE CAL_STAGE_VFIFO_AFTER_WRITES
             gg == set_failing_group_stage(gbl, n, stg, VFIFO_CENTER)
  <1>1. pc = "read_centre" /\ UNCHANGED <<vfifo, mem, rf>> /\ Still /\ StillPhy
    BY DEF ReadWindowless
  <1>2. Put(s1) /\ CenterFailed(gg)
    BY DEF ReadWindowless
  <1>3. Kept(S, s1)
    BY MineFacts, SettersKeep
  <1> HIDE DEF n
  <1>4. GblFields(gg) /\ Named(gg.stage, gg.sub, stg)
    BY CleanNow, FailureIsNamed DEF NIL, CAL_STAGE_VFIFO, CAL_STAGE_VFIFO_AFTER_WRITES
  <1>5. L.first => Clean(gg)
    BY CleanNow DEF Clean, GblFields, set_failing_group_stage
  <1> HIDE DEF s1, gg
  <1> QED BY <1>1, <1>2, <1>3, <1>4, <1>5, CenterFails

LEMMA ReadCentreInner == ASSUME Mine, Stages, ReadCentre PROVE Inner
  <1> DEFINE new_dqs == Clamp(L.start - MidMin, 0, IO_DQS_IN_DELAY_MAX)
             moved == L.start - new_dqs
             dq == DqMargin(moved, InIll)
             dqs == DqsMargin(moved, InIll)
             s0 == scc_mgr_set_dqs_bus_in_delay(S, new_dqs)
             s1 == scc_mgr_set_dq_in_delay(s0, [i \in Bits |-> Shift(i, moved, InIll)])
             s2 == IF L.d > 0 THEN scc_mgr_zero_group(s1, TRUE) ELSE s1
             gg == IF L.first THEN gbl ELSE [gbl EXCEPT !.fom_in = gbl.fom_in + dq + dqs]
  <1>1. pc = "read_centre" /\ UNCHANGED <<vfifo, mem>> /\ Still /\ StillPhy
    BY DEF ReadCentre
  <1>2. Kept(S, s0)
    BY MineFacts, SettersKeep
  <1>3. Kept(s0, s1)
    BY <1>2, SettersKeep DEF Kept
  <1>4. Kept(S, s1)
    BY <1>2, <1>3, KeptTwice
  <1>5. Kept(s1, s2)
    <2>1. "bypass" \in DOMAIN s1
      BY <1>3 DEF Kept
    <2> HIDE DEF s1
    <2>2. Kept(s1, s1) /\ Kept(s1, scc_mgr_zero_group(s1, TRUE))
      BY <2>1, SettersKeep DEF Kept
    <2> QED BY <2>2
  <1>6. Kept(S, s2)
    BY <1>4, <1>5, KeptTwice
  <1>7. \/ Put(s1) /\ CenterFailed(gg) /\ UNCHANGED rf
        \/ /\ gbl' = gg /\ L.first /\ Put(s2) /\ Goto("write_left")
           /\ rf' = rw_mgr_mem_calibrate_writes(rf)
           /\ L' = [StartDeskew(L, OutIll) EXCEPT !.start = s2.dqs_out1]
        \/ /\ gbl' = gg /\ ~L.first /\ Put(s1) /\ Goto("group")
           /\ L' = [L EXCEPT !.g = L.g + 1] /\ UNCHANGED rf
    BY DEF ReadCentre
  <1> HIDE DEF s0, s1, s2, dq, dqs
  <1>8. Clean(gg)
    BY CleanNow DEF Clean, GblFields
  <1> HIDE DEF gg
  <1>9. CASE Put(s1) /\ CenterFailed(gg) /\ UNCHANGED rf
    <2>1. gg.stage = NIL \/ Named(gg.stage, gg.sub, CAL_STAGE_VFIFO_AFTER_WRITES)
      BY <1>8 DEF Clean, Named, NIL, CAL_STAGE_VFIFO
    <2> QED BY <1>1, <1>4, <1>8, <1>9, <2>1, CenterFails DEF Clean
  <1>10. CASE /\ gbl' = gg /\ Put(s2) /\ Goto("write_left") /\ rf' = rw_mgr_mem_calibrate_writes(rf)
              /\ L' = [StartDeskew(L, OutIll) EXCEPT !.start = s2.dqs_out1]
    <2>1. Frame
      BY <1>1, <1>6, <1>10, PutKeeps, StillKeeps DEF Frame
    <2>2. Same(L')
      BY <1>10 DEF Same, StartDeskew, Mine, Shape
    <2>3. {"stage", "failing"} \subseteq DOMAIN rf' /\ rf'.stage = CAL_STAGE_WRITES
      BY <1>10 DEF rw_mgr_mem_calibrate_writes, reg_file_set_stage, reg_file_set_sub_stage, reg_file_set_group,
                   Mine, Shape
    <2>4. Stages' /\ pc' = "write_left"
      BY <1>8, <1>10, <2>3 DEF Stages, Clean, Goto, Searching, Reading, Writing, Busy, InGroup
    <2> QED BY <1>8, <1>10, <2>1, <2>2, <2>3, <2>4 DEF Inner, Same, Clean, InGroup, Writing
  <1>11. CASE /\ gbl' = gg /\ Put(s1) /\ Goto("group") /\ L' = [L EXCEPT !.g = L.g + 1] /\ UNCHANGED rf
    <2>1. Frame
      BY <1>1, <1>4, <1>11, PutKeeps, StillKeeps DEF Frame
    <2>2. {"g", "first", "d"} \subseteq DOMAIN L' /\ L'.g = L.g + 1
      BY <1>11 DEF Mine, Shape
    <2>3. Stages' /\ pc' = "group"
      BY <1>8, <1>11 DEF Stages, Clean, Goto, Searching, Reading, Writing, Busy, InGroup
    <2> QED BY <1>8, <1>11, <2>1, <2>2, <2>3 DEF Inner, Clean, Mine, Shape
  <1> QED BY <1>7, <1>9, <1>10, <1>11

LEMMA WriteLeftInner == ASSUME Mine, Stages, WriteLeft PROVE Inner
  <1> DEFINE s1 == scc_mgr_apply_group_dq_out1_delay(S, L.e)
             s0 == scc_mgr_apply_group_dq_out1_delay(S, 0)
             chk == WriteBits(s1, FALSE)
             seen == L.sticky \cup chk
             stop == chk = {} /\ seen = Bits
             l1 == IF stop THEN L ELSE LeftEdges(L, chk, OutIll)
  <1>1. pc = "write_left" /\ UNCHANGED <<vfifo, mem, gbl, rf>> /\ Still /\ StillPhy
    BY DEF WriteLeft
  <1>2. Kept(S, s1) /\ Kept(S, s0)
    BY MineFacts, SettersKeep
  <1>3. Holds(l1)
    BY EdgesHold
  <1>4. \/ Put(s0) /\ L' = NextSearch(l1, OutIll, FALSE) /\ Goto("write_right")
        \/ Put(s1) /\ L' = [l1 EXCEPT !.sticky = seen, !.e = l1.e + 1] /\ Goto("write_left")
    BY DEF WriteLeft
  <1> HIDE DEF s1, s0, l1, seen
  <1>5. Holds(L') /\ pc' \in Writing
    BY <1>3, <1>4 DEF Holds, NextSearch, Goto, Writing
  <1> QED BY <1>1, <1>2, <1>4, <1>5, DeskewGoesOn DEF Writing

LEMMA WriteRightInner == ASSUME Mine, Stages, WriteRight PROVE Inner
  <1> DEFINE s1 == scc_mgr_apply_group_dqs_io_and_oct_out1(S, L.start + L.e)
             chk == WriteBits(s1, FALSE)
             seen == L.sticky \cup chk
             stop == chk = {} /\ seen = Bits
             l1 == IF ~stop THEN RightEdges(L, chk, OutIll)
                   ELSE [L EXCEPT !.right = [i \in Bits |->
                           IF L.e = 0 /\ L.right[i] = OutIll /\ L.left[i] # OutIll THEN -1 ELSE L.right[i]]]
  <1>1. pc = "write_right" /\ UNCHANGED <<vfifo, mem, gbl, rf>> /\ Still /\ StillPhy
    BY DEF WriteRight
  <1>2. Kept(S, s1)
    BY MineFacts, SettersKeep
  <1>3. Holds(l1)
    <2> HIDE DEF stop, chk
    <2> QED BY EdgesHold DEF Mine, Shape, Holds
  <1>4. /\ Put(s1) /\ L' = [l1 EXCEPT !.sticky = seen, !.e = l1.e + 1]
        /\ Goto("write_centre") \/ Goto("write_right")
    BY DEF WriteRight
  <1> HIDE DEF s1, l1, seen
  <1>5. Holds(L') /\ pc' \in Writing
    BY <1>3, <1>4 DEF Holds, Goto, Writing
  <1> QED BY <1>1, <1>2, <1>4, <1>5, DeskewGoesOn DEF Writing

LEMMA WriteCentreInner == ASSUME Mine, Stages, WriteCentre PROVE Inner
  <1>1. pc = "write_centre" /\ UNCHANGED <<vfifo, mem, rf>> /\ Still /\ StillPhy
    BY DEF WriteCentre
  <1>2. rf.stage = CAL_STAGE_WRITES
    BY <1>1 DEF Stages, Writing
  <1>3. CASE Windowless(OutIll) # {}
    <2> DEFINE n == g * DqPerGroup + Min(Windowless(OutIll))
    <2>1. GiveUp(set_failing_group_stage(gbl, n, CAL_STAGE_WRITES, WRITES_CENTER)) /\ UNCHANGED <<scc, L>>
      BY <1>3 DEF WriteCentre
    <2> HIDE DEF n
    <2>2. Frame /\ Same(L')
      BY <1>1, <2>1, StillKeeps DEF Frame, Same, Mine, Shape
    <2> QED BY <1>1, <1>2, <2>1, <2>2, CleanNow, GivesUp DEF CAL_STAGE_WRITES, NIL
  <1>4. CASE Windowless(OutIll) = {}
    <2> DEFINE s0 == scc_mgr_apply_group_dqs_io_and_oct_out1(S, L.start)
               s1 == scc_mgr_set_dq_out1_delay(s0, [i \in Bits |-> Shift(i, 0, OutIll)])
    <2>1. /\ Put(s1) /\ Goto("dm_left") /\ UNCHANGED gbl
          /\ L' = [L EXCEPT !.dq = DqMargin(0, OutIll), !.dqsm = DqsMargin(0, OutIll),
                            !.e = IO_IO_OUT1_DELAY_MAX, !.curr = << >>, !.best = << >>]
      BY <1>4 DEF WriteCentre
    <2>2. Kept(S, s0)
      BY MineFacts, SettersKeep
    <2>3. Kept(s0, s1)
      BY <2>2, SettersKeep DEF Kept
    <2>4. Kept(S, s1)
      BY <2>2, <2>3, KeptTwice
    <2> HIDE DEF s1
    <2>5. Holds(L') /\ pc' = "dm_left"
      BY <2>1 DEF Holds, Mine, Shape, Goto
    <2> QED BY <1>1, <2>1, <2>4, <2>5, DeskewGoesOn DEF Writing
  <1> QED BY <1>3, <1>4

LEMMA DmLeftInner == ASSUME Mine, Stages, DmLeft PROVE Inner
  <1> DEFINE s1 == scc_mgr_apply_group_dm_out1_delay(S, L.e)
             s0 == scc_mgr_apply_group_dm_out1_delay(S, 0)
             l1 == Extend(L, -L.e, WriteBits(s1, TRUE) = Bits)
  <1>1. pc = "dm_left" /\ UNCHANGED <<vfifo, mem, gbl, rf>> /\ Still /\ StillPhy
    BY DEF DmLeft
  <1>2. Kept(S, s1) /\ Kept(S, s0)
    BY MineFacts, SettersKeep
  <1>3. Holds(l1)
    BY EdgesHold
  <1>4. \/ Put(s1) /\ L' = [l1 EXCEPT !.e = l1.e - 1] /\ Goto("dm_left")
        \/ Put(s0) /\ L' = l1 /\ Goto("dm_right")
    BY DEF DmLeft
  <1> HIDE DEF s1, s0, l1
  <1>5. Holds(L') /\ pc' \in Writing
    BY <1>3, <1>4 DEF Holds, Goto, Writing
  <1> QED BY <1>1, <1>2, <1>4, <1>5, DeskewGoesOn DEF Writing

LEMMA DmRightInner == ASSUME Mine, Stages, DmRight PROVE Inner
  <1> DEFINE s1 == scc_mgr_apply_group_dqs_io_and_oct_out1(S, L.start + L.e)
             l1 == Extend(L, L.e, WriteBits(s1, TRUE) = Bits)
  <1>1. pc = "dm_right" /\ UNCHANGED <<vfifo, mem, gbl, rf>> /\ Still /\ StillPhy
    BY DEF DmRight
  <1>2. Kept(S, s1)
    BY MineFacts, SettersKeep
  <1>3. Holds(l1)
    BY EdgesHold
  <1>4. /\ Put(s1) /\ L' = [l1 EXCEPT !.e = l1.e + 1]
        /\ Goto("dm_centre") \/ Goto("dm_right")
    BY DEF DmRight
  <1> HIDE DEF s1, l1
  <1>5. Holds(L') /\ pc' \in Writing
    BY <1>3, <1>4 DEF Holds, Goto, Writing
  <1> QED BY <1>1, <1>2, <1>4, <1>5, DeskewGoesOn DEF Writing

LEMMA DmCentreInner == ASSUME Mine, Stages, DmCentre PROVE Inner
  <1> DEFINE mid == IF L.best = << >> THEN 0 ELSE Max({0, Half(-L.best[1] - L.best[2])})
             gg == ExportWrites(gbl)
             s0 == scc_mgr_apply_group_dqs_io_and_oct_out1(S, L.start)
             s1 == scc_mgr_apply_group_dm_out1_delay(s0, mid)
  <1>1. pc = "dm_centre" /\ UNCHANGED <<vfifo, mem>> /\ Still /\ StillPhy
    BY DEF DmCentre
  <1>2. /\ Put(s1)
        /\ \/ /\ gbl' = gg /\ Goto("read_left") /\ rf' = rw_mgr_mem_calibrate_vfifo_end(rf)
              /\ L' = [StartDeskew(L, InIll) EXCEPT !.start = S.dqs_in, !.first = FALSE]
           \/ GiveUp(set_failing_group_stage(gg, g, CAL_STAGE_WRITES, WRITES_CENTER)) /\ UNCHANGED <<L, rf>>
    BY DEF DmCentre
  <1> HIDE DEF mid
  <1>3. Kept(S, s0)
    BY MineFacts, SettersKeep
  <1>4. Kept(s0, s1)
    BY <1>3, SettersKeep DEF Kept
  <1>5. Kept(S, s1)
    BY <1>3, <1>4, KeptTwice
  <1> HIDE DEF s1
  <1>6. Clean(gg)
    BY CleanNow DEF Clean, GblFields, ExportWrites
  <1> HIDE DEF gg
  <1>7. Frame
    BY <1>1, <1>2, <1>5, PutKeeps, StillKeeps DEF Frame
  <1>8. CASE /\ gbl' = gg /\ Goto("read_left") /\ rf' = rw_mgr_mem_calibrate_vfifo_end(rf)
             /\ L' = [StartDeskew(L, InIll) EXCEPT !.start = S.dqs_in, !.first = FALSE]
    <2>1. Same(L') /\ ~L'.first
      BY <1>8 DEF Same, StartDeskew, Mine, Shape
    <2>2. {"stage", "failing"} \subseteq DOMAIN rf' /\ rf'.stage = CAL_STAGE_VFIFO_AFTER_WRITES
      BY <1>8 DEF rw_mgr_mem_calibrate_vfifo_end, reg_file_set_stage, reg_file_set_sub_stage, reg_file_set_group,
                  Mine, Shape
    <2>3. Stages' /\ pc' = "read_left"
      BY <1>6, <1>8, <2>1, <2>2 DEF Stages, Clean, Goto, Searching, Reading, Writing, Busy, InGroup
    <2> QED BY <1>6, <1>7, <1>8, <2>1, <2>2, <2>3 DEF Inner, Same, Clean, InGroup, Reading
  <1>9. CASE GiveUp(set_failing_group_stage(gg, g, CAL_STAGE_WRITES, WRITES_CENTER)) /\ UNCHANGED <<L, rf>>
    <2>1. Same(L')
      BY <1>9 DEF Same, Mine, Shape
    <2>2. rf.stage = CAL_STAGE_WRITES
      BY <1>1 DEF Stages, Writing
    <2> QED BY <1>6, <1>7, <1>9, <2>1, <2>2, GivesUp DEF CAL_STAGE_WRITES, NIL
  <1> QED BY <1>2, <1>8, <1>9

LEMMA DeskewInner == ASSUME Mine, Stages, Deskew PROVE Inner
  BY ReadLeftInner, ReadRightInner, ReadWindowlessInner, ReadCentreInner, WriteLeftInner, WriteRightInner,
     WriteCentreInner, DmLeftInner, DmRightInner, DmCentreInner DEF Deskew

-----------------------------------------------------------------------------
(* The invariant. *)

LEMMA InnerKeeps == ASSUME SeqInv, pc \in InGroup, Inner PROVE SeqInv'
  <1> Mine
    BY DEF Mine, SeqInv
  <1> Frame /\ Stages'
    BY DEF Inner
  <1>1. L.g \in Groups
    BY MineFacts
  <1>2. "bypass" \in DOMAIN scc'[L.g] /\ (scc'[L.g].bypass <=> scc[L.g].bypass)
    BY DEF Frame, Kept
  <1>3. \A x \in Groups : "bypass" \in DOMAIN scc'[x] /\ (scc'[x].bypass <=> scc[x].bypass)
    BY <1>1, <1>2 DEF Frame, Mine, Shape
  <1>4. Shape'
    BY <1>3 DEF Frame, Inner, GblFields, Mine, Shape
  <1>5. Owner'
    <2>1. pc' \in InGroup \cup {"group", "report"} /\ (L'.g = L.g \/ (pc' = "group" /\ L'.g = L.g + 1))
      BY DEF Inner
    <2>2. L'.g \in 0..NumGroups /\ (pc' # "group" => L'.g < NumGroups)
      BY <1>1, <2>1, PhyAssumption DEF Groups
    <2>3. pc' \in Busy /\ pc' \in Places /\ (pc' \in InGroup => pc' # "group") /\ pc' \notin {"resume", "idle"}
      BY <2>1 DEF InGroup, Busy, Places, Searching, Reading, Writing
    <2>4. /\ trk'.stall = "acked" /\ phy'.mux = 3 /\ phy'.stable
          /\ mem'.mr1 = "calib" /\ mem'.rows = "open"
      BY DEF Mine, Owner, Frame, Busy
    <2>5. \A x \in Groups : scc'[x].bypass
      BY <1>3 DEF Mine, Owner, Busy
    <2> QED BY <2>2, <2>3, <2>4, <2>5 DEF Owner
  <1>6. Latency'
    <2>1. pc' \in InGroup \cup {"group", "report"} /\ (pc' = "report" => ~pass')
      BY DEF Inner
    <2>2. pc' \notin {"lfifo", "resume", "idle"}
      BY <2>1 DEF InGroup, Searching, Reading, Writing
    <2> QED BY <2>1, <2>2 DEF Latency, SeqInv, Frame
  <1> QED BY <1>4, <1>5, <1>6 DEF SeqInv

LEMMA Start == Init => SeqInv
  <1> SUFFICES ASSUME Init PROVE SeqInv
    OBVIOUS
  <1>1. Shape
    BY DEF Init, Shape, NoLocals
  <1>2. Owner
    BY PhyAssumption DEF Init, Owner, NoLocals, Places, Busy, InGroup, Searching, Reading, Writing
  <1>3. Stages
    BY DEF Init, Stages, Busy, InGroup, Searching, Reading, Writing
  <1>4. Latency
    BY DEF Init, Latency, InGroup, Searching, Reading, Writing
  <1> QED BY <1>1, <1>2, <1>3, <1>4 DEF SeqInv

LEMMA mainKeeps == ASSUME SeqInv, main PROVE SeqInv'
  <1> pc = "boot" /\ pc' = "run" /\ UNCHANGED <<scc, vfifo, mem, phy, gbl, L, pass, board>>
    BY DEF main, Goto, Still
  <1>1. {"stage", "failing"} \subseteq DOMAIN rf' /\ "stall" \in DOMAIN trk'
    BY DEF main, reg_file_set_group, reg_file_set_stage, initialize_reg_file, initialize_tracking, SeqInv, Shape
  <1>2. Shape'
    BY <1>1 DEF SeqInv, Shape
  <1>3. Owner' /\ Stages' /\ Latency'
    BY DEF SeqInv, Owner, Stages, Latency, Places, Busy, InGroup, Searching, Reading, Writing
  <1> QED BY <1>2, <1>3 DEF SeqInv

LEMMA StallKeeps == ASSUME SeqInv, StallTracking PROVE SeqInv'
  <1> pc = "run" /\ pc' = "stall" /\ UNCHANGED <<scc, vfifo, mem, gbl, rf, L, pass, board>>
    BY DEF StallTracking, Goto, Still
  <1>1. "stall" \in DOMAIN trk' /\ {"mux", "stable", "status", "rlat"} \subseteq DOMAIN phy'
    BY DEF StallTracking, SeqInv, Shape
  <1>2. Shape'
    BY <1>1 DEF SeqInv, Shape
  <1>3. Owner' /\ Stages' /\ Latency'
    BY DEF SeqInv, Owner, Stages, Latency, Places, Busy, InGroup, Searching, Reading, Writing
  <1> QED BY <1>2, <1>3 DEF SeqInv

LEMMA AcksKeeps == ASSUME SeqInv, TrackerAcks PROVE SeqInv'
  <1> UNCHANGED <<pc, board, scc, vfifo, mem, phy, gbl, rf, L, pass>> /\ trk.stall = "requested"
    BY DEF TrackerAcks
  <1>1. "stall" \in DOMAIN trk' /\ trk'.stall = "acked"
    BY DEF TrackerAcks, SeqInv, Shape
  <1>2. Shape'
    BY <1>1 DEF SeqInv, Shape
  <1>3. Owner'
    BY <1>1 DEF SeqInv, Owner
  <1>4. Stages' /\ Latency'
    BY DEF SeqInv, Stages, Latency, AllRead
  <1> QED BY <1>2, <1>3, <1>4 DEF SeqInv

LEMMA MinOfTwo ==
  ASSUME NEW a \in Int, NEW b \in Int
  PROVE  Min({a, b}) = IF a <= b THEN a ELSE b
  BY DEF Min

LEMMA StartKeeps == ASSUME SeqInv, StartCalibration PROVE SeqInv'
  <1> pc' = "group" /\ UNCHANGED <<vfifo, trk, rf, pass, board>> /\ trk.stall = "acked"
    BY DEF StartCalibration, Goto, Still
  <1>1. /\ {"mux", "stable", "status", "rlat"} \subseteq DOMAIN phy' /\ phy'.mux = 3 /\ phy'.stable
        /\ phy'.rlat = Min({ReadLatency + LatencySlack, MaxLatency})
    BY DEF StartCalibration, initialize, ClockStable, mem_config, SeqInv, Shape
  <1>2. {"mr1", "rows"} \subseteq DOMAIN mem' /\ mem'.mr1 = "calib" /\ mem'.rows = "open"
    BY DEF StartCalibration, mem_precharge_and_activate, rw_mgr_mem_initialize
  <1>3. Clean(gbl')
    BY DEF StartCalibration, Clean, GblFields
  <1>4. DOMAIN scc' = Groups /\ \A x \in Groups : "bypass" \in DOMAIN scc'[x] /\ scc'[x].bypass
    BY DEF StartCalibration, scc_mgr_zero_all, scc_set_bypass_mode, SeqInv, Shape
  <1>5. {"g", "first", "d"} \subseteq DOMAIN L' /\ L'.g = 0
    BY DEF StartCalibration, NoLocals
  <1>6. Shape'
    BY <1>1, <1>2, <1>3, <1>4, <1>5 DEF SeqInv, Shape, Clean, GblFields
  <1>7. Owner'
    BY <1>1, <1>2, <1>4, <1>5, PhyAssumption
       DEF Owner, Places, Busy, InGroup, Searching, Reading, Writing
  <1>8. Stages'
    BY <1>3 DEF Stages, Clean, InGroup, Searching, Reading, Writing
  <1>9. Latency'
    <2>1. phy'.rlat \in Int
      BY <1>1, MinOfTwo, SequencerAssumption
    <2> QED BY <2>1 DEF SeqInv, Latency
  <1> QED BY <1>6, <1>7, <1>8, <1>9 DEF SeqInv

LEMMA GroupStartKeeps == ASSUME SeqInv, GroupStart PROVE SeqInv'
  <1> DEFINE s1 == scc_mgr_zero_group(S, FALSE)
  <1>1. /\ pc = "group" /\ L.g < NumGroups /\ pc' = "delay" /\ Put(s1)
        /\ UNCHANGED <<vfifo, mem, gbl, phy, trk, pass, board>>
        /\ L' = [NoLocals EXCEPT !.g = L.g]
    BY DEF GroupStart, Goto, Still, StillPhy, g
  <1>2. L.g \in Groups
    BY <1>1, PhyAssumption DEF SeqInv, Owner, Groups
  <1>3. Kept(S, s1)
    BY <1>2, SettersKeep DEF SeqInv, Shape, S, g
  <1> HIDE DEF s1
  <1>4. DOMAIN scc' = Groups
    BY <1>1 DEF Put, g, SeqInv, Shape
  <1>5. \A x \in Groups : "bypass" \in DOMAIN scc'[x] /\ (scc'[x].bypass <=> scc[x].bypass)
    BY <1>1, <1>2, <1>3 DEF Put, g, S, SeqInv, Shape, Kept
  <1>6. {"g", "first", "d"} \subseteq DOMAIN L' /\ L'.g = L.g
    BY <1>1 DEF NoLocals
  <1>7. {"stage", "failing"} \subseteq DOMAIN rf' /\ rf'.stage = CAL_STAGE_VFIFO
    BY DEF GroupStart, reg_file_set_sub_stage, reg_file_set_group, reg_file_set_stage, SeqInv, Shape
  <1>8. Shape'
    BY <1>1, <1>4, <1>5, <1>6, <1>7 DEF SeqInv, Shape
  <1>9. Owner'
    BY <1>1, <1>2, <1>5, <1>6 DEF SeqInv, Owner, Places, Busy, InGroup
  <1>10. Stages'
    BY <1>1, <1>7 DEF SeqInv, Stages, Busy, InGroup, Searching, Reading, Writing
  <1>11. Latency'
    BY <1>1 DEF SeqInv, Latency, InGroup
  <1> QED BY <1>8, <1>9, <1>10, <1>11 DEF SeqInv

LEMMA GroupsDoneKeeps == ASSUME SeqInv, GroupsDone PROVE SeqInv'
  <1> DEFINE p == Accessible /\ \A x \in Groups : rw_mgr_mem_calibrate_read_load_patterns(board[x], scc[x])
  <1>1. /\ pc = "group" /\ pc' = "lfifo" /\ UNCHANGED <<scc, vfifo, gbl, phy, trk, pass, board>>
        /\ L' = [L EXCEPT !.d = phy.rlat, !.first = TRUE] /\ mem' = [mem EXCEPT !.patterns = p]
    BY DEF GroupsDone, Goto, Still, StillPhy
  <1> HIDE DEF p
  <1>2. {"g", "first", "d"} \subseteq DOMAIN L' /\ L'.g = L.g /\ L'.first /\ L'.d = phy.rlat
    BY <1>1 DEF SeqInv, Shape
  <1>3. {"mr1", "rows"} \subseteq DOMAIN mem' /\ mem'.mr1 = mem.mr1 /\ mem'.rows = mem.rows
    BY <1>1 DEF SeqInv, Shape
  <1>4. {"stage", "failing"} \subseteq DOMAIN rf' /\ rf'.stage = CAL_STAGE_LFIFO
    BY DEF GroupsDone, reg_file_set_sub_stage, reg_file_set_stage, SeqInv, Shape
  <1>5. Shape'
    BY <1>1, <1>2, <1>3, <1>4 DEF SeqInv, Shape
  <1>6. Owner'
    BY <1>1, <1>2, <1>3 DEF SeqInv, Owner, Places, Busy, InGroup, Searching, Reading, Writing
  <1>7. Stages'
    BY <1>1, <1>4 DEF SeqInv, Stages, Busy, InGroup, Searching, Reading, Writing
  <1>8. Latency'
    BY <1>1, <1>2 DEF SeqInv, Latency, InGroup, Searching, Reading, Writing
  <1> QED BY <1>5, <1>6, <1>7, <1>8 DEF SeqInv

LEMMA LfifoKeeps == ASSUME SeqInv, rw_mgr_mem_calibrate_lfifo PROVE SeqInv'
  <1> DEFINE test(x) == rw_mgr_mem_calibrate_read_test(board[x], scc[x], vfifo[x], Accessible /\ mem.patterns, L.d)
             ok == \A x \in Groups : test(x) = Bits
             curr == IF ok THEN L.d - 1 ELSE L.d
  <1>1. pc = "lfifo" /\ UNCHANGED <<scc, vfifo, mem, trk, rf, board>>
    BY DEF rw_mgr_mem_calibrate_lfifo, Still
  <1>2. L.d \in Int /\ (L.first \/ AllRead(L.d + 1)) /\ Clean(gbl)
    BY <1>1 DEF SeqInv, Latency, Stages, Shape, Clean, GblFields, Busy
  <1>3. ok => AllRead(L.d)
    <2> SUFFICES ASSUME ok, NEW x \in Groups
                 PROVE  L.d >= board[x].lat /\ \A i \in Bits : ReadOk(board[x], scc[x], vfifo[x], i)
      BY DEF AllRead
    <2>1. test(x) = Bits
      OBVIOUS
    <2>2. Bits # {}
      BY PhyAssumption DEF Bits
    <2> QED BY <2>1, <2>2 DEF rw_mgr_mem_calibrate_read_test
  <1>4. \A x \in Groups : board[x].lat \in Int
    BY SequencerAssumption DEF SeqInv, Latency
  <1>5. \A a, b \in Int : a <= b /\ AllRead(a) => AllRead(b)
    BY <1>4 DEF AllRead
  <1>6. \/ /\ ok /\ phy' = [phy EXCEPT !.rlat = L.d] /\ L' = [L EXCEPT !.d = curr, !.first = FALSE]
           /\ pc' = "lfifo" /\ UNCHANGED <<gbl, pass>>
        \/ /\ ok \/ ~L.first
           /\ phy' = [phy EXCEPT !.rlat = curr + 2] /\ pc' = "report" /\ pass' = TRUE /\ UNCHANGED <<L, gbl>>
        \/ /\ phy' = [phy EXCEPT !.rlat = L.d] /\ UNCHANGED L
           /\ GiveUp(set_failing_group_stage(gbl, 255, CAL_STAGE_LFIFO, READ_LATENCY))
    BY DEF rw_mgr_mem_calibrate_lfifo, Goto
  <1> HIDE DEF ok
  <1>7. /\ {"mux", "stable", "status", "rlat"} \subseteq DOMAIN phy' /\ phy'.mux = phy.mux
        /\ phy'.stable <=> phy.stable
    BY <1>6 DEF SeqInv, Shape
  <1>8. {"g", "first", "d"} \subseteq DOMAIN L' /\ L'.g = L.g
    BY <1>6 DEF SeqInv, Shape
  <1>9. GblFields(gbl') /\ (pc' = "report" => pass' \/ Named(gbl'.stage, gbl'.sub, CAL_STAGE_LFIFO))
          /\ (pc' = "lfifo" => Clean(gbl')) /\ pc' \in {"lfifo", "report"}
    BY <1>2, <1>6, FailureIsNamed DEF Clean, GiveUp, CAL_STAGE_LFIFO, NIL
  <1>10. Shape'
    BY <1>1, <1>7, <1>8, <1>9 DEF SeqInv, Shape, GblFields
  <1>11. Owner'
    <2>1. pc' \in Busy /\ pc' \notin InGroup /\ pc' \in Places /\ pc' \notin {"resume", "idle"} /\ pc \in Busy
      BY <1>1, <1>9 DEF Busy, InGroup, Searching, Reading, Writing, Places
    <2>2. \A x \in Groups : scc'[x].bypass
      BY <1>1, <2>1 DEF SeqInv, Owner
    <2> QED BY <1>1, <1>7, <1>8, <2>1, <2>2 DEF SeqInv, Owner
  <1>12. Stages'
    BY <1>1, <1>9 DEF SeqInv, Stages, Clean, Busy, InGroup, Searching, Reading, Writing
  <1>13. Latency'
    <2>1. ASSUME NEW lat PROVE AllRead(lat) => AllRead(lat)'
      BY <1>1 DEF AllRead
    <2>2. CASE ok /\ phy' = [phy EXCEPT !.rlat = L.d] /\ L' = [L EXCEPT !.d = curr, !.first = FALSE] /\ pc' = "lfifo"
      <3>1. L'.d = L.d - 1 /\ L'.d \in Int /\ L'.d + 1 = L.d
        BY <1>2, <2>2 DEF SeqInv, Shape
      <3>2. \A x \in Groups : L'.d + 1 >= board'[x].lat /\ \A i \in Bits : ReadOk(board'[x], scc'[x], vfifo'[x], i)
        BY <1>1, <1>3, <2>2, <3>1 DEF AllRead
      <3>3. AllRead(L.d + 1)'
        BY <3>2 DEF AllRead
      <3> QED BY <1>1, <2>2, <3>1, <3>3 DEF SeqInv, Latency, InGroup, Searching, Reading, Writing
    <2>3. CASE (ok \/ ~L.first) /\ phy' = [phy EXCEPT !.rlat = curr + 2] /\ pc' = "report"
      <3>1. AllRead(curr + 2)
        <4>1. CASE ok
          BY <1>2, <1>3, <1>5, <4>1
        <4>2. CASE ~ok
          <5>1. AllRead(L.d + 1) /\ L.d + 1 \in Int /\ L.d + 2 \in Int /\ L.d + 1 <= L.d + 2
            BY <1>2, <2>3, <4>2
          <5> QED BY <1>5, <4>2, <5>1
        <4> QED BY <4>1, <4>2
      <3>2. phy'.rlat = curr + 2
        BY <2>3 DEF SeqInv, Shape
      <3>3. \A x \in Groups : phy'.rlat >= board'[x].lat /\ \A i \in Bits : ReadOk(board'[x], scc'[x], vfifo'[x], i)
        BY <1>1, <3>1, <3>2 DEF AllRead
      <3>4. AllRead(phy.rlat)'
        BY <3>3 DEF AllRead
      <3> QED BY <1>1, <2>3, <3>4 DEF SeqInv, Latency, InGroup, Searching, Reading, Writing
    <2>4. CASE pc' = "report" /\ ~pass'
      BY <1>1, <2>4 DEF SeqInv, Latency, InGroup, Searching, Reading, Writing
    <2> QED BY <1>6, <2>2, <2>3, <2>4 DEF GiveUp
  <1> QED BY <1>10, <1>11, <1>12, <1>13 DEF SeqInv

LEMMA HandOffKeeps == ASSUME SeqInv, HandOff PROVE SeqInv'
  <1>1. /\ pc = "report" /\ pc' = "resume" /\ UNCHANGED <<scc, vfifo, trk, gbl, rf, L, pass, board>>
        /\ phy' = [phy EXCEPT !.mux = 2]
    BY DEF HandOff, Goto, Still
  <1>2. /\ {"mux", "stable", "status", "rlat"} \subseteq DOMAIN phy' /\ phy'.mux = 2 /\ phy'.rlat = phy.rlat
        /\ {"mr1", "rows"} \subseteq DOMAIN mem' /\ mem'.mr1 = "user" /\ mem'.rows = "closed"
    BY <1>1 DEF HandOff, rw_mgr_mem_handoff, mem_precharge_and_activate, SeqInv, Shape
  <1>3. Shape'
    BY <1>1, <1>2 DEF SeqInv, Shape
  <1>4. Owner'
    BY <1>1, <1>2 DEF SeqInv, Owner, Places, Busy, InGroup, Searching, Reading, Writing
  <1>5. Stages'
    BY <1>1 DEF SeqInv, Stages, Busy, InGroup, Searching, Reading, Writing
  <1>6. Latency'
    BY <1>1, <1>2 DEF SeqInv, Latency, AllRead, InGroup, Searching, Reading, Writing
  <1> QED BY <1>3, <1>4, <1>5, <1>6 DEF SeqInv

LEMMA ReportKeeps == ASSUME SeqInv, Report PROVE SeqInv'
  <1> DEFINE fom == <<Min({gbl.fom_in \div 2, 255}), Min({gbl.fom_out \div 2, 255})>>
             where == <<gbl.stage, gbl.sub, gbl.group>>
  <1>1. /\ pc = "resume" /\ pc' = "idle" /\ UNCHANGED <<scc, vfifo, mem, L, pass, board>>
        /\ trk' = [trk EXCEPT !.stall = "no"]
    BY DEF Report, Goto, Still
  <1>2. \/ /\ pass /\ gbl' = [gbl EXCEPT !.fom_in = fom[1], !.fom_out = fom[2]]
           /\ rf' = [rf EXCEPT !.fom = fom]
           /\ phy' = [phy EXCEPT !.status = "success", !.debug = fom]
        \/ /\ ~pass /\ rf' = [rf EXCEPT !.failing = where]
           /\ phy' = [phy EXCEPT !.status = "fail", !.debug = where] /\ gbl' = gbl
    BY DEF Report
  <1> HIDE DEF fom
  <1>3. /\ {"mux", "stable", "status", "rlat"} \subseteq DOMAIN phy' /\ phy'.mux = phy.mux /\ phy'.rlat = phy.rlat
        /\ "stall" \in DOMAIN trk'
    BY <1>1, <1>2 DEF SeqInv, Shape
  <1>4. {"stage", "failing"} \subseteq DOMAIN rf' /\ rf'.stage = rf.stage /\ GblFields(gbl')
    BY <1>2 DEF SeqInv, Shape, GblFields
  <1>5. Shape'
    BY <1>1, <1>3, <1>4 DEF SeqInv, Shape, GblFields
  <1>6. Owner'
    BY <1>1, <1>3 DEF SeqInv, Owner, Places, Busy, InGroup, Searching, Reading, Writing
  <1>7. Stages'
    <2>1. ASSUME phy'.status = "fail"
          PROVE  rf'.failing # << >> /\ Named(rf'.failing[1], rf'.failing[2], rf'.stage)
      <3>1. ~pass /\ rf' = [rf EXCEPT !.failing = where]
        BY <1>2, <2>1 DEF SeqInv, Shape
      <3>2. Named(gbl.stage, gbl.sub, rf.stage)
        BY <1>1, <3>1 DEF SeqInv, Stages
      <3>3. rf'.failing = where
        BY <3>1 DEF SeqInv, Shape
      <3>4. where # << >> /\ where[1] = gbl.stage /\ where[2] = gbl.sub
        OBVIOUS
      <3> QED BY <1>4, <3>2, <3>3, <3>4
    <2> QED BY <1>1, <2>1 DEF Stages, Busy, InGroup, Searching, Reading, Writing
  <1>8. Latency'
    BY <1>1, <1>3 DEF SeqInv, Latency, AllRead, InGroup, Searching, Reading, Writing
  <1> QED BY <1>5, <1>6, <1>7, <1>8 DEF SeqInv

LEMMA RequestKeeps == ASSUME SeqInv, user_init_cal_req PROVE SeqInv'
  <1>1. pc = "idle" /\ UNCHANGED <<scc, vfifo, trk, gbl, rf, L, pass>>
    BY DEF user_init_cal_req
  <1>2. CASE /\ phy' = [ClockStable(initialize(phy)) EXCEPT !.mux = 0, !.status = "success"]
             /\ mem' = rw_mgr_mem_handoff(rw_mgr_mem_initialize) /\ UNCHANGED <<pc, board>>
    <2>1. /\ {"mux", "stable", "status", "rlat"} \subseteq DOMAIN phy'
          /\ phy'.mux = 0 /\ phy'.status = "success" /\ phy'.rlat = phy.rlat
      BY <1>2 DEF ClockStable, initialize, SeqInv, Shape
    <2>2. {"mr1", "rows"} \subseteq DOMAIN mem' /\ mem'.mr1 = "user" /\ mem'.rows = "closed"
      BY <1>2 DEF rw_mgr_mem_handoff, rw_mgr_mem_initialize
    <2>3. Shape'
      BY <1>1, <1>2, <2>1, <2>2 DEF SeqInv, Shape
    <2>4. Owner'
      BY <1>1, <1>2, <2>1, <2>2 DEF SeqInv, Owner, Busy, InGroup, Searching, Reading, Writing
    <2>5. Stages'
      BY <1>1, <1>2, <2>1 DEF Stages, Busy, InGroup, Searching, Reading, Writing
    <2>6. Latency'
      BY <1>1, <1>2, <2>1 DEF SeqInv, Latency, AllRead
    <2> QED BY <2>3, <2>4, <2>5, <2>6 DEF SeqInv
  <1>3. CASE pc' = "run" /\ board' \in Drifted /\ UNCHANGED <<phy, mem>>
    <2>1. Shape'
      BY <1>1, <1>3 DEF SeqInv, Shape
    <2>2. Owner' /\ Stages' /\ Latency'
      BY <1>1, <1>3 DEF SeqInv, Owner, Stages, Latency, Places, Busy, InGroup, Searching, Reading, Writing
    <2> QED BY <2>1, <2>2 DEF SeqInv
  <1> QED BY <1>2, <1>3 DEF user_init_cal_req

\* Inside a group every step of the program is one of these.
LEMMA InGroupStep ==
  ASSUME SeqInv, DelayLoop \/ DqsInLoop \/ Search \/ Deskew
  PROVE  pc \in InGroup /\ Inner
  <1>1. pc \in InGroup
    BY DEF DelayLoop, DqsInLoop, Search, Deskew, FindFailing, FindFirst, BackOff, Forward, RightEdge,
           DtapsPerPtap, Centre, ReadLeft, ReadRight, ReadWindowless, ReadCentre, WriteLeft, WriteRight,
           WriteCentre, DmLeft, DmRight, DmCentre, InGroup, Searching, Reading, Writing
  <1>2. Mine /\ Stages
    BY <1>1 DEF Mine, SeqInv
  <1> QED BY <1>1, <1>2, DelayInner, DqsInInner, SearchInner, DeskewInner

LEMMA Step == SeqInv /\ [Next]_vars => SeqInv'
  <1> SUFFICES ASSUME SeqInv, [Next]_vars PROVE SeqInv'
    OBVIOUS
  <1>1. CASE UNCHANGED vars
    BY <1>1 DEF vars, SeqInv, Shape, Owner, Stages, Latency, AllRead
  <1>2. CASE DelayLoop \/ DqsInLoop \/ Search \/ Deskew
    BY <1>2, InGroupStep, InnerKeeps
  <1> QED
    BY <1>1, <1>2, mainKeeps, StallKeeps, AcksKeeps, StartKeeps, GroupStartKeeps, GroupsDoneKeeps, LfifoKeeps,
       HandOffKeeps, ReportKeeps, RequestKeeps DEF Next, Program

LEMMA SeqInvHolds == Spec => []SeqInv
  BY Start, Step, PTL DEF Spec

-----------------------------------------------------------------------------
\* The memory is handed over as the controller expects it, and is open to the
\* tests as long as they run, whatever becomes of the calibration.
THEOREM MemoryIsHandedOver == Spec => []HandedOver
  <1>1. SeqInv => HandedOver
    BY DEF SeqInv, Owner, HandedOver, Calibrating, Accessible, Places, Busy
  <1> QED BY <1>1, SeqInvHolds, PTL

\* Every failure that is reported names a stage that failed, for all boards.
THEOREM FailuresAreNamed == Spec => []FailureNamed
  <1>1. SeqInv => FailureNamed
    BY DEF SeqInv, Stages, Named, FailureNamed
  <1> QED BY <1>1, SeqInvHolds, PTL

\* After success every bit reads, with the latency that is left in the PHY.
THEOREM ReadsAreGood == Spec => []ReadsGood
  <1>1. SeqInv => ReadsGood
    BY DEF SeqInv, Latency, AllRead, ReadsGood
  <1> QED BY <1>1, SeqInvHolds, PTL

\* No step moves a chain or a VFIFO before the tracking manager has stalled.
THEOREM TrackingIsStalled == Spec => TrackingStalled
  <1> DEFINE A == scc' # scc \/ vfifo' # vfifo => trk.stall = "acked" /\ (phy.mux = 3 \/ phy'.mux = 3)
  <1>1. SeqInv /\ [Next]_vars => [A]_vars
    <2> SUFFICES ASSUME SeqInv, Next PROVE A
      OBVIOUS
    <2>1. CASE UNCHANGED <<scc, vfifo>>
      BY <2>1
    <2>2. CASE DelayLoop \/ DqsInLoop \/ Search \/ Deskew
      <3>1. pc \in Busy
        BY <2>2, InGroupStep DEF Busy
      <3> QED BY <3>1 DEF SeqInv, Owner
    <2>3. CASE GroupStart
      <3>1. pc \in Busy
        BY <2>3 DEF GroupStart, Busy
      <3> QED BY <3>1 DEF SeqInv, Owner
    <2>4. CASE StartCalibration
      <3>1. trk.stall = "acked" /\ phy'.mux = 3
        BY <2>4 DEF StartCalibration, initialize, ClockStable, mem_config, SeqInv, Shape
      <3> QED BY <3>1
    <2> QED
      BY <2>1, <2>2, <2>3, <2>4 DEF Next, Program, main, StallTracking, GroupsDone, rw_mgr_mem_calibrate_lfifo,
         HandOff, Report, TrackerAcks, user_init_cal_req
  <1> QED BY <1>1, SeqInvHolds, PTL DEF Spec, TrackingStalled

\* No step of a group's calibration disturbs the groups before it.
THEOREM GroupsAreKept == Spec => GroupsKept
  <1> DEFINE A == Calibrating /\ L.g < NumGroups =>
                    \A x \in Groups : x < L.g => scc'[x] = scc[x] /\ vfifo'[x] = vfifo[x]
  <1>1. SeqInv /\ [Next]_vars => [A]_vars
    <2> SUFFICES ASSUME SeqInv, Next, Calibrating, NEW x \in Groups, x < L.g
                 PROVE  scc'[x] = scc[x] /\ vfifo'[x] = vfifo[x]
      OBVIOUS
    <2>1. x # L.g
      BY DEF SeqInv, Owner, Groups
    <2>2. CASE UNCHANGED <<scc, vfifo>>
      BY <2>2
    <2>3. CASE DelayLoop \/ DqsInLoop \/ Search \/ Deskew
      <3>1. Frame
        BY <2>3, InGroupStep DEF Inner
      <3> QED BY <2>1, <3>1 DEF Frame
    <2>4. CASE GroupStart
      BY <2>1, <2>4 DEF GroupStart, Put, g, SeqInv, Shape
    <2> QED
      BY <2>2, <2>3, <2>4 DEF Next, Program, main, StallTracking, StartCalibration, GroupsDone,
         rw_mgr_mem_calibrate_lfifo, HandOff, Report, TrackerAcks, user_init_cal_req, Calibrating
  <1> QED BY <1>1, SeqInvHolds, PTL DEF Spec, GroupsKept

\* Nobody else moves the chains that are calibrated, and the calibration moves
\* no others.
THEOREM ChainsAreOwned == Spec => ChainsOwned
  BY TrackingIsStalled, GroupsAreKept DEF ChainsOwned

-----------------------------------------------------------------------------
(***************************************************************************)
(* What the searches and the centring may write, and what a success says,  *)
(* for every board and every chain length.                                 *)
(*                                                                         *)
(* Fits is shown action by action: what is set fits its chain, given that  *)
(* the edges found so far do.  Marks then says which of the edges stand    *)
(* for a write test that passed with the settings that will be kept.       *)
(***************************************************************************)

-----------------------------------------------------------------------------
(***************************************************************************)
(* Arithmetic: least elements and the quotients of the searches.           *)
(***************************************************************************)

\* A non-empty set of naturals has a least element.
LEMMA LeastNat ==
  ASSUME NEW T, T \subseteq Nat, T # {}
  PROVE  \E x \in T : \A y \in T : x <= y
  <1> DEFINE R == {ss \in Nat \X Nat : ss[1] < ss[2]}
  <1>1. IsWellFoundedOn(R, Nat)
    <2>1. OpToRel(<, Nat) = R
      BY DEF OpToRel
    <2> QED BY <2>1, NatLessThanWellFounded
  <1>2. \E x \in T : \A y \in T : ~ (<<y, x>> \in R)
    <2> HIDE DEF R
    <2> QED BY <1>1, WFMin
  <1>3. PICK x \in T : \A y \in T : ~ (<<y, x>> \in R)
    BY <1>2
  <1>4. ASSUME NEW y \in T PROVE x <= y
    <2>1. x \in Nat /\ y \in Nat
      OBVIOUS
    <2>2. ~ (y < x)
      BY <1>3, <2>1
    <2> QED BY <2>1, <2>2
  <1> QED BY <1>4

\* A set of integers with a lower bound has a least element.
LEMMA LeastInt ==
  ASSUME NEW T, NEW lo \in Int, T \subseteq Int, \A t \in T : lo <= t, T # {}
  PROVE  \E x \in T : \A y \in T : x <= y
  <1> DEFINE U == {t - lo : t \in T}
  <1>1. U \subseteq Nat /\ U # {}
    <2>1. \A t \in T : t - lo \in Nat
      OBVIOUS
    <2>2. U \subseteq Nat
      BY <2>1
    <2>3. PICK t \in T : TRUE
      OBVIOUS
    <2>4. t - lo \in U
      BY <2>3
    <2> QED BY <2>2, <2>4
  <1>2. PICK u \in U : \A w \in U : u <= w
    BY <1>1, LeastNat
  <1>3. PICK x \in T : u = x - lo
    OBVIOUS
  <1>4. ASSUME NEW y \in T PROVE x <= y
    <2>1. x - lo <= y - lo
      BY <1>2, <1>3
    <2>2. x \in Int /\ y \in Int
      OBVIOUS
    <2> QED BY <2>1, <2>2
  <1> QED BY <1>4

LEMMA MinBelow ==
  ASSUME NEW T, NEW lo \in Int, T \subseteq Int, \A t \in T : lo <= t, T # {}
  PROVE  Min(T) \in T /\ \A t \in T : Min(T) <= t
  <1>1. \E x \in T : \A y \in T : x <= y
    BY LeastInt
  <1> QED BY <1>1, Zenon DEF Min

\* The first index of a..n with a property, or n + 1.
LEMMA FirstExists ==
  \A H : \A a, n \in Int : a <= n =>
    \E k \in a..(n + 1) : (k > n \/ k \in H) /\ \A j \in a..(k - 1) : j \notin H
  <1> SUFFICES ASSUME NEW H, NEW a \in Int, NEW n \in Int, a <= n
               PROVE  \E k \in a..(n + 1) : (k > n \/ k \in H) /\ \A j \in a..(k - 1) : j \notin H
    OBVIOUS
  <1> DEFINE T == {k \in a..(n + 1) : k > n \/ k \in H}
  <1>1. T \subseteq Int /\ n + 1 \in T /\ \A t \in T : a <= t
    OBVIOUS
  <1>2. PICK k \in T : \A y \in T : k <= y
    <2> HIDE DEF T
    <2> QED BY <1>1, LeastInt
  <1>3. ASSUME NEW j \in a..(k - 1), j \in H PROVE FALSE
    <2>1. j \in T /\ j < k
      BY <1>3
    <2> QED BY <1>2, <2>1
  <1> QED BY <1>2, <1>3

LEMMA DivMod ==
  ASSUME NEW a \in Int, NEW d \in Nat, d > 0
  PROVE  /\ a \div d \in Int /\ a % d \in 0..(d - 1)
         /\ d * (a \div d) <= a /\ a < d * (a \div d) + d
  BY SMTT(30)

LEMMA DivBelow ==
  ASSUME NEW a \in Int, NEW d \in Nat, d > 0, NEW m \in Int, a < d * m
  PROVE  a \div d < m
  <1> DEFINE q == a \div d
  <1>1. q \in Int /\ d * q <= a
    BY DivMod
  <1> HIDE DEF q
  <1>2. d * q < d * m
    BY <1>1
  <1>3. q < m
    BY <1>1, <1>2, SMTT(30)
  <1> QED BY <1>3 DEF q

LEMMA DivAbove ==
  ASSUME NEW a \in Int, NEW d \in Nat, d > 0, NEW m \in Int, d * m <= a
  PROVE  m <= a \div d
  <1> DEFINE q == a \div d
  <1>1. q \in Int /\ a < d * q + d
    BY DivMod
  <1> HIDE DEF q
  <1>2. d * m < d * (q + 1)
    BY <1>1, SMTT(30)
  <1>3. m < q + 1
    BY <1>1, <1>2, SMTT(30)
  <1> QED BY <1>1, <1>3 DEF q

\* The delays that make a phase fit the chain.
LEMMA DtapsRange ==
  dtaps_per_ptap \in 0..(IO_DQS_EN_DELAY_MAX - 1) /\ dtaps_per_ptap \in 0..IO_IO_OUT1_DELAY_MAX
  <1> DEFINE D == IO_DELAY_PER_DQS_EN_DCHAIN_TAP
             O == IO_DELAY_PER_OPA_TAP
             q == (O + D - 1) \div D
  <1>1. D \in Nat /\ D > 0 /\ O \in Nat /\ O > 0 /\ IO_DQS_EN_DELAY_MAX \in Nat
          /\ IO_DQS_EN_DELAY_MAX * D >= O
    BY PhyAssumption
  <1> HIDE DEF D, O
  <1>2. q < IO_DQS_EN_DELAY_MAX + 1
    <2>1. O + D - 1 < D * (IO_DQS_EN_DELAY_MAX + 1)
      BY <1>1, SMTT(30)
    <2> QED BY <1>1, <2>1, DivBelow
  <1>3. 1 <= q /\ q \in Int
    <2>1. D * 1 <= O + D - 1
      BY <1>1
    <2> QED BY <1>1, <2>1, DivAbove, DivMod
  <1>4. dtaps_per_ptap = q - 1
    BY DEF dtaps_per_ptap, D, O
  <1> HIDE DEF q
  <1> QED BY <1>1, <1>2, <1>3, <1>4, SequencerAssumption, PhyAssumption

\* The middle of the range fits as a phase and a delay.
LEMMA MiddleRange ==
  ASSUME NEW bgn \in Int, NEW end \in Int
  PROVE  Middle(bgn, end).p \in 0..IO_DQS_EN_PHASE_MAX /\ Middle(bgn, end).d \in 0..IO_DQS_EN_DELAY_MAX
  <1> DEFINE D == IO_DELAY_PER_DQS_EN_DCHAIN_TAP
             O == IO_DELAY_PER_OPA_TAP
             C == (IO_DQS_EN_PHASE_MAX + 1) * O
             h == (bgn + end) \div 2 - 1
             mid == (h % C) + 1
             p1 == (mid + O - 1) \div O
             rest == mid - (p1 - 1) * O
             d1 == (rest + D - 1) \div D
  <1>1. /\ D \in Nat /\ D > 0 /\ O \in Nat /\ O > 0 /\ IO_DQS_EN_DELAY_MAX \in Nat
        /\ IO_DQS_EN_DELAY_MAX * D >= O /\ IO_DQS_EN_PHASE_MAX \in Nat /\ IO_DQS_EN_PHASE_MAX > 0
    BY PhyAssumption
  <1>2. C \in Nat /\ C > 0
    <2> HIDE DEF O
    <2> QED BY <1>1, SMTT(30)
  <1>3. h \in Int
    OBVIOUS
  <1>4. Middle(bgn, end) = IF p1 = 1 THEN [p |-> 1, d |-> 0] ELSE [p |-> p1 - 1, d |-> d1]
    BY DEF Middle, work_mid, Cycle, Phases
  <1> HIDE DEF h, D, O
  <1>5. mid \in 1..C
    <2> HIDE DEF C
    <2>1. h % C \in 0..(C - 1)
      BY <1>2, <1>3, DivMod
    <2> QED BY <1>2, <2>1
  <1> HIDE DEF mid
  <1>6. 1 <= p1 /\ p1 < IO_DQS_EN_PHASE_MAX + 2 /\ p1 \in Int /\ O * p1 <= mid + O - 1 /\ mid + O - 1 < O * p1 + O
    <2>1. mid + O - 1 \in Int /\ O * 1 <= mid + O - 1
      BY <1>1, <1>2, <1>5
    <2>2. mid + O - 1 < O * (IO_DQS_EN_PHASE_MAX + 2)
      BY <1>1, <1>5, SMTT(30)
    <2> HIDE DEF C
    <2>3. 1 <= p1
      BY <1>1, <2>1, DivAbove
    <2>4. p1 < IO_DQS_EN_PHASE_MAX + 2
      BY <1>1, <2>1, <2>2, DivBelow
    <2> QED BY <1>1, <2>1, <2>3, <2>4, DivMod
  <1> HIDE DEF p1
  <1>7. rest \in 1..O
    <2>1. (p1 - 1) * O = O * p1 - O /\ O * p1 \in Int
      BY <1>1, <1>6, SMTT(30)
    <2>2. mid \in Int
      BY <1>2, <1>5
    <2> QED BY <1>1, <1>6, <2>1, <2>2
  <1> HIDE DEF rest
  <1>8. d1 \in 0..IO_DQS_EN_DELAY_MAX
    <2>1. rest + D - 1 < D * (IO_DQS_EN_DELAY_MAX + 1)
      BY <1>1, <1>7, SMTT(30)
    <2>2. D * 0 <= rest + D - 1 /\ rest + D - 1 \in Int
      BY <1>1, <1>7
    <2>3. d1 \in Int
      BY <1>1, <2>2, DivMod
    <2>4. d1 < IO_DQS_EN_DELAY_MAX + 1
      BY <1>1, <2>1, <2>2, DivBelow
    <2>5. 0 <= d1
      BY <1>1, <2>2, DivAbove
    <2> QED BY <1>1, <2>3, <2>4, <2>5
  <1> HIDE DEF d1
  <1>9. p1 - 1 \in 0..IO_DQS_EN_PHASE_MAX
    BY <1>1, <1>6
  <1> QED BY <1>1, <1>4, <1>8, <1>9

\* The attempts of the first search stay within the chain.
LEMMA FirstTryRange ==
  ASSUME NEW k \in Nat, k < (dtaps_per_ptap + 1) * VFIFO_SIZE * IO_DQS_EN_PHASE_MAX
  PROVE  /\ FirstTry(k).d \in 0..dtaps_per_ptap /\ FirstTry(k).p \in 1..IO_DQS_EN_PHASE_MAX
         /\ FirstTry(k).i \in Int /\ FirstTry(k).pushes \in Int
  <1> DEFINE per == IO_DQS_EN_PHASE_MAX
             V == VFIFO_SIZE
             n == V * per
  <1>1. per \in Nat /\ per > 0 /\ V \in Nat /\ V > 0 /\ dtaps_per_ptap \in Nat
    BY PhyAssumption, DtapsRange
  <1> HIDE DEF per, V
  <1>2. n \in Nat /\ n > 0
    BY <1>1, SMTT(30)
  <1>3. k < n * (dtaps_per_ptap + 1)
    <2>1. k < (dtaps_per_ptap + 1) * V * per
      BY DEF per, V
    <2>2. (dtaps_per_ptap + 1) * V * per = n * (dtaps_per_ptap + 1)
      BY <1>1, SMTT(30)
    <2> QED BY <2>1, <2>2
  <1>4. FirstTry(k) = [d |-> k \div n, i |-> (k \div per) % V, p |-> (k % per) + 1, pushes |-> k \div per]
    BY DEF FirstTry, per, V
  <1> HIDE DEF n
  <1>5. k \div n \in Int /\ k \div n < dtaps_per_ptap + 1 /\ 0 <= k \div n
    <2>1. n * 0 <= k
      BY <1>2
    <2> QED BY <1>1, <1>2, <1>3, <2>1, DivBelow, DivAbove, DivMod
  <1>6. k \div per \in Int /\ k % per \in 0..(per - 1)
    BY <1>1, DivMod
  <1>7. (k \div per) % V \in Int
    BY <1>1, <1>6, DivMod
  <1>8. (k % per) + 1 \in 1..IO_DQS_EN_PHASE_MAX
    BY <1>1, <1>6 DEF per
  <1> QED BY <1>1, <1>4, <1>5, <1>6, <1>7, <1>8

-----------------------------------------------------------------------------
(***************************************************************************)
(* The chains.                                                             *)
(***************************************************************************)

LEMMA SettersFit ==
  ASSUME NEW s \in Chains
  PROVE  /\ \A dd \in 0..IO_DQS_IN_DELAY_MAX : scc_mgr_set_dqs_bus_in_delay(s, dd) \in Chains
         /\ \A pp \in 0..IO_DQS_EN_PHASE_MAX : scc_mgr_set_dqs_en_phase_all_ranks(s, pp) \in Chains
         /\ \A pp \in 0..IO_DQS_EN_PHASE_MAX, dd \in 0..IO_DQS_EN_DELAY_MAX : EnableAt(s, pp, dd) \in Chains
         /\ \A dq \in [Bits -> 0..IO_IO_IN_DELAY_MAX] : scc_mgr_set_dq_in_delay(s, dq) \in Chains
         /\ \A dq \in [Bits -> 0..IO_IO_OUT1_DELAY_MAX] : scc_mgr_set_dq_out1_delay(s, dq) \in Chains
         /\ \A dd \in 0..IO_IO_OUT1_DELAY_MAX :
              /\ scc_mgr_set_dm_out1_delay(s, dd) \in Chains
              /\ scc_mgr_set_dqs_out1_delay(s, dd) \in Chains
         /\ scc_mgr_zero_group(s, TRUE) \in Chains /\ scc_mgr_zero_group(s, FALSE) \in Chains
         /\ scc_mgr_zero_all(s) \in Chains
         /\ scc_set_bypass_mode(s, TRUE) \in Chains
  <1> USE DEF Chains
  <1>1. /\ \A dd \in 0..IO_DQS_IN_DELAY_MAX : scc_mgr_set_dqs_bus_in_delay(s, dd) \in Chains
        /\ \A pp \in 0..IO_DQS_EN_PHASE_MAX : scc_mgr_set_dqs_en_phase_all_ranks(s, pp) \in Chains
        /\ \A pp \in 0..IO_DQS_EN_PHASE_MAX, dd \in 0..IO_DQS_EN_DELAY_MAX : EnableAt(s, pp, dd) \in Chains
    BY DEF scc_mgr_set_dqs_bus_in_delay, scc_mgr_set_dqs_en_phase_all_ranks, EnableAt,
           scc_mgr_set_dqs_en_delay_all_ranks
  <1>2. /\ \A dq \in [Bits -> 0..IO_IO_IN_DELAY_MAX] : scc_mgr_set_dq_in_delay(s, dq) \in Chains
        /\ \A dq \in [Bits -> 0..IO_IO_OUT1_DELAY_MAX] : scc_mgr_set_dq_out1_delay(s, dq) \in Chains
    BY DEF scc_mgr_set_dq_in_delay, scc_mgr_set_dq_out1_delay
  <1>3. \A dd \in 0..IO_IO_OUT1_DELAY_MAX :
              /\ scc_mgr_set_dm_out1_delay(s, dd) \in Chains
              /\ scc_mgr_set_dqs_out1_delay(s, dd) \in Chains
    BY DEF scc_mgr_set_dm_out1_delay, scc_mgr_set_dqs_out1_delay
  <1>4. /\ [i \in Bits |-> 0] \in [Bits -> 0..IO_IO_IN_DELAY_MAX]
        /\ [i \in Bits |-> 0] \in [Bits -> 0..IO_IO_OUT1_DELAY_MAX]
        /\ 0 \in 0..IO_IO_OUT1_DELAY_MAX
    BY PhyAssumption
  <1>5. IO_DQS_OUT_RESERVE \in 0..IO_IO_OUT1_DELAY_MAX /\ IO_DQS_IN_RESERVE \in 0..IO_DQS_IN_DELAY_MAX
          /\ 0 \in 0..IO_DQS_EN_PHASE_MAX /\ 0 \in 0..IO_DQS_EN_DELAY_MAX
    BY PhyAssumption
  <1>6. scc_mgr_zero_group(s, TRUE) \in Chains /\ scc_mgr_zero_group(s, FALSE) \in Chains
    BY <1>4, <1>5 DEF scc_mgr_zero_group
  <1>7. scc_mgr_zero_all(s) \in Chains
    BY <1>5 DEF scc_mgr_zero_all
  <1>8. scc_set_bypass_mode(s, TRUE) \in Chains
    BY DEF scc_set_bypass_mode
  <1> QED BY <1>1, <1>2, <1>3, <1>6, <1>7, <1>8

LEMMA GroupSettersFit ==
  ASSUME NEW s \in Chains
  PROVE  /\ \A dd \in 0..IO_IO_IN_DELAY_MAX : scc_mgr_apply_group_dq_in_delay(s, dd) \in Chains
         /\ \A dd \in 0..IO_IO_OUT1_DELAY_MAX :
              /\ scc_mgr_apply_group_dq_out1_delay(s, dd) \in Chains
              /\ scc_mgr_apply_group_dm_out1_delay(s, dd) \in Chains
              /\ scc_mgr_apply_group_dqs_io_and_oct_out1(s, dd) \in Chains
              /\ scc_mgr_apply_group_all_out_delay_add(s, dd) \in Chains
         /\ SweepDqIn(s) \in Chains
  <1>1. \A dd \in 0..IO_IO_IN_DELAY_MAX : scc_mgr_apply_group_dq_in_delay(s, dd) \in Chains
    BY SettersFit DEF scc_mgr_apply_group_dq_in_delay
  <1>2. \A dd \in 0..IO_IO_OUT1_DELAY_MAX :
              /\ scc_mgr_apply_group_dq_out1_delay(s, dd) \in Chains
              /\ scc_mgr_apply_group_dm_out1_delay(s, dd) \in Chains
              /\ scc_mgr_apply_group_dqs_io_and_oct_out1(s, dd) \in Chains
              /\ scc_mgr_apply_group_all_out_delay_add(s, dd) \in Chains
    BY SettersFit DEF scc_mgr_apply_group_dq_out1_delay, scc_mgr_apply_group_dm_out1_delay,
       scc_mgr_apply_group_dqs_io_and_oct_out1, scc_mgr_apply_group_all_out_delay_add
  <1>3. SweepDqIn(s) \in Chains
    <2> DEFINE M == IO_IO_IN_DELAY_MAX
               N == DqPerGroup - 1
               step == M \div N
    <2>1. M \in Nat /\ N \in Nat /\ N > 0
      BY PhyAssumption
    <2>2. [i \in Bits |-> i * step] \in [Bits -> 0..M]
      <3>1. step \in Int /\ N * step <= M /\ M < N * step + N
        <4> HIDE DEF M, N
        <4> QED BY <2>1, DivMod
      <3>2. \A i \in Bits : i \in 0..N
        BY PhyAssumption DEF Bits
      <3> HIDE DEF M, N, step
      <3>3. step >= 0
        BY <2>1, <3>1, SMTT(30)
      <3>4. ASSUME NEW i \in 0..N PROVE i * step \in 0..M
        <4>1. i * step <= N * step /\ 0 <= i * step /\ i * step \in Int
          BY <2>1, <3>1, <3>3, SMTT(30)
        <4> QED BY <2>1, <3>1, <4>1, SMTT(30)
      <3> QED BY <3>2, <3>4
    <2> DEFINE dq == [i \in Bits |-> i * step]
    <2>3. SweepDqIn(s) = scc_mgr_set_dq_in_delay(s, dq)
      BY DEF SweepDqIn, scc_mgr_set_dq_in_delay
    <2> HIDE DEF dq
    <2> QED BY <2>2, <2>3, SettersFit DEF dq
  <1> QED BY <1>1, <1>2, <1>3

-----------------------------------------------------------------------------
(***************************************************************************)
(* The ranges of the locals, place by place.                               *)
(***************************************************************************)

Fields == {"g", "d", "dqs", "orig", "sub", "first", "v", "i", "p", "e", "bgn", "end", "start",
           "left", "right", "sticky", "curr", "best", "dq", "dqsm"}

\* No edge is further out than this.
Wide == IO_DQS_IN_DELAY_MAX + IO_IO_IN_DELAY_MAX + IO_IO_OUT1_DELAY_MAX + 2
Edges(l) == l.left \in [Bits -> (-Wide)..Wide] /\ l.right \in [Bits -> (-Wide)..Wide]

\* A window of the mask begins within the chain and before the next attempt.
Window(w, at) ==
  w = << >> \/ \E a, b \in Int : w = <<a, b>> /\ -IO_IO_OUT1_DELAY_MAX <= a /\ a <= b /\ b < at

Locals ==
  /\ Fields \subseteq DOMAIN L
  /\ pc \in InGroup =>
       L.d \in Nat /\ L.orig \in 0..IO_DQS_IN_DELAY_MAX /\ L.dqs \in Nat
  /\ pc \in Reading => L.start \in 0..IO_DQS_IN_DELAY_MAX /\ Edges(L)
  /\ pc \in Writing => L.start \in 0..IO_IO_OUT1_DELAY_MAX /\ Edges(L)
  /\ CASE pc = "back_off"   -> L.p \in 1..IO_DQS_EN_PHASE_MAX /\ L.i \in Int /\ L.bgn \in Int /\ L.end \in Int
       [] pc = "forward"    -> L.p \in 0..IO_DQS_EN_PHASE_MAX /\ L.i \in Int /\ L.bgn \in Int /\ L.end \in Int
       [] pc = "right_edge" -> /\ L.p \in 0..IO_DQS_EN_PHASE_MAX /\ L.bgn \in Int /\ L.end \in Int
                               /\ L.e \in 0..IO_DQS_EN_DELAY_MAX
       [] pc = "dtaps"      -> /\ L.p \in 0..IO_DQS_EN_PHASE_MAX /\ L.bgn \in Int /\ L.end \in Int
                               /\ L.e \in 0..(IO_DQS_EN_DELAY_MAX + 1)
       [] pc = "centre"     -> L.bgn \in Int /\ L.end \in Int
       [] pc = "read_left"  -> L.e \in 0..IO_IO_IN_DELAY_MAX
       [] pc = "read_right" -> L.e \in 0..(IO_DQS_IN_DELAY_MAX - L.start)
       [] pc = "write_left" -> L.e \in 0..IO_IO_OUT1_DELAY_MAX
       [] pc = "write_right" -> L.e \in 0..(IO_IO_OUT1_DELAY_MAX - L.start)
       [] pc = "dm_left"    -> /\ L.e \in 0..IO_IO_OUT1_DELAY_MAX
                               /\ Window(L.curr, -L.e) /\ Window(L.best, -L.e)
       [] pc = "dm_right"   -> /\ L.e \in 0..(IO_IO_OUT1_DELAY_MAX - L.start)
                               /\ Window(L.curr, L.e + 1) /\ Window(L.best, L.e + 1)
       [] pc = "dm_centre"  -> Window(L.best, IO_IO_OUT1_DELAY_MAX + 1)
       [] pc = "lfifo"      -> L.d \in 1..(MaxLatency - 1) /\ (L.first \/ L.d + 2 <= MaxLatency)
       [] OTHER             -> TRUE

Chained ==
  /\ scc \in [Groups -> Chains] /\ vfifo \in [Groups -> 0..(VFIFO_SIZE - 1)]
  /\ "dtaps" \in DOMAIN trk /\ trk.dtaps \in 0..IO_DQS_EN_DELAY_MAX

\* A step inside a group keeps the ranges.
Fit == SeqInv /\ Chained /\ Locals
Fits == Chained' /\ Locals'

LEMMA FitFacts ==
  ASSUME Fit, pc \in InGroup
  PROVE  /\ L.g \in Groups /\ S \in Chains /\ vfifo[g] \in Int
         /\ L.d \in Nat /\ L.orig \in 0..IO_DQS_IN_DELAY_MAX /\ L.dqs \in Nat /\ Fields \subseteq DOMAIN L
  <1>1. L.g \in Groups
    BY PhyAssumption DEF Fit, SeqInv, Owner, Groups
  <1> QED BY <1>1 DEF Fit, Chained, Locals, S, g

LEMMA PutFits ==
  ASSUME Fit, NEW s \in Chains, Put(s)
  PROVE  scc' \in [Groups -> Chains]
  BY DEF Fit, Chained, Put

LEMMA PushFits ==
  ASSUME Fit, pc \in InGroup, NEW n \in Int, vfifo' = [vfifo EXCEPT ![g] = rw_mgr_incr_vfifo(vfifo[g], n)]
  PROVE  vfifo' \in [Groups -> 0..(VFIFO_SIZE - 1)]
  <1>1. vfifo[g] + n \in Int /\ VFIFO_SIZE \in Nat /\ VFIFO_SIZE > 0
    BY FitFacts, PhyAssumption
  <1>2. rw_mgr_incr_vfifo(vfifo[g], n) \in 0..(VFIFO_SIZE - 1)
    BY <1>1, DivMod DEF rw_mgr_incr_vfifo
  <1> QED BY <1>2 DEF Fit, Chained

LEMMA ZeroIn ==
  /\ 0 \in 0..IO_DQS_IN_DELAY_MAX /\ 0 \in 0..IO_DQS_EN_DELAY_MAX /\ 0 \in 0..IO_DQS_EN_PHASE_MAX
  /\ 1 \in 0..IO_DQS_EN_PHASE_MAX
  /\ 0 \in 0..IO_IO_IN_DELAY_MAX /\ 0 \in 0..IO_IO_OUT1_DELAY_MAX
  BY PhyAssumption

LEMMA NotFoundFits ==
  ASSUME Fit, pc \in InGroup, NEW pp \in 0..IO_DQS_EN_PHASE_MAX, NEW dd \in 0..IO_DQS_EN_DELAY_MAX, NEW n \in Int,
         NotFound(pp, dd, n), StillPhy
  PROVE  Fits
  <1>1. EnableAt(scc_mgr_apply_group_dq_in_delay(S, 0), pp, dd) \in Chains
    BY FitFacts, ZeroIn, GroupSettersFit, SettersFit
  <1>2. scc' \in [Groups -> Chains]
    BY <1>1, PutFits DEF NotFound
  <1>3. vfifo' \in [Groups -> 0..(VFIFO_SIZE - 1)]
    BY PushFits DEF NotFound
  <1>4. Chained'
    BY <1>2, <1>3 DEF Chained, Fit, StillPhy
  <1>5. L' = [L EXCEPT !.sub = DQS_EN_PHASE, !.dqs = L.dqs + 1] /\ pc' = "dqs_in"
    BY DEF NotFound, Goto
  <1>6. Fields \subseteq DOMAIN L' /\ L'.d = L.d /\ L'.orig = L.orig /\ L'.dqs = L.dqs + 1
    BY <1>5, FitFacts DEF Fields
  <1>7. Locals'
    BY <1>5, <1>6, FitFacts DEF Locals, Reading, Writing
  <1> QED BY <1>4, <1>7 DEF Fits

LEMMA FoundFits ==
  ASSUME Fit, pc \in InGroup, NEW pp \in 0..IO_DQS_EN_PHASE_MAX, NEW dd \in 0..IO_DQS_EN_DELAY_MAX, NEW n \in Int,
         SetEn(pp, dd, n), "dtaps" \in DOMAIN trk', trk'.dtaps \in 0..IO_DQS_EN_DELAY_MAX
  PROVE  Chained'
  <1>1. EnableAt(S, pp, dd) \in Chains
    BY FitFacts, SettersFit
  <1>2. scc' \in [Groups -> Chains]
    BY <1>1, PutFits DEF SetEn
  <1>3. vfifo' \in [Groups -> 0..(VFIFO_SIZE - 1)]
    BY PushFits DEF SetEn
  <1> QED BY <1>2, <1>3 DEF Chained

LEMMA FindFailingFits == ASSUME Fit, pc \in InGroup, FindFailing PROVE Fits
  <1> DEFINE Fails(k) == ~EnTest(S.en_phase, S.en_delay, k)
             P(k) == Fails(k) /\ \E j \in 0..(k - 1) : Fails(j)
             n == FirstIn(0, VFIFO_SIZE - 1, P)
  <1>1. n \in Int
    <2>1. VFIFO_SIZE - 1 \in Int /\ 0 <= VFIFO_SIZE - 1
      BY PhyAssumption
    <2> DEFINE H == {k \in 0..(VFIFO_SIZE - 1) : P(k)}
    <2> HIDE DEF P, H
    <2>2. PICK k \in 0..(VFIFO_SIZE - 1 + 1) : (k > VFIFO_SIZE - 1 \/ k \in H) /\ \A j \in 0..(k - 1) : j \notin H
      BY <2>1, FirstExists, 0 \in Int, Zenon
    <2>3. (k > VFIFO_SIZE - 1 \/ P(k)) /\ \A j \in 0..(k - 1) : ~P(j)
      BY <2>1, <2>2 DEF H
    <2>4. \E k1 \in 0..(VFIFO_SIZE - 1 + 1) : (k1 > VFIFO_SIZE - 1 \/ P(k1)) /\ \A j \in 0..(k1 - 1) : ~P(j)
      BY <2>2, <2>3
    <2> QED BY <2>1, <2>4 DEF FirstIn
  <1>2. /\ \/ NotFound(S.en_phase, S.en_delay, n)
           \/ SetEn(S.en_phase, S.en_delay, n) /\ L' = L /\ Goto("find_first")
        /\ StillPhy
    BY DEF FindFailing
  <1> HIDE DEF n
  <1>3. S.en_phase \in 0..IO_DQS_EN_PHASE_MAX /\ S.en_delay \in 0..IO_DQS_EN_DELAY_MAX
    BY FitFacts DEF Chains
  <1>4. CASE NotFound(S.en_phase, S.en_delay, n)
    BY <1>1, <1>2, <1>3, <1>4, NotFoundFits
  <1>5. CASE SetEn(S.en_phase, S.en_delay, n) /\ L' = L /\ Goto("find_first")
    <2>1. Chained'
      BY <1>1, <1>2, <1>3, <1>5, FoundFits DEF StillPhy, Fit, Chained
    <2>2. Locals'
      BY <1>5, FitFacts DEF Locals, Reading, Writing, Goto
    <2> QED BY <2>1, <2>2 DEF Fits
  <1> QED BY <1>2, <1>4, <1>5

LEMMA FindFirstFits == ASSUME Fit, pc \in InGroup, FindFirst PROVE Fits
  <1> DEFINE last == (dtaps_per_ptap + 1) * VFIFO_SIZE * IO_DQS_EN_PHASE_MAX - 1
             P(j) == LET t == FirstTry(j) IN EnTest(t.p, t.d, t.pushes)
             k == FirstIn(0, last, P)
             t == FirstTry(k)
             bgn == t.d * IO_DELAY_PER_DQS_EN_DCHAIN_TAP + (t.i * Phases + t.p) * IO_DELAY_PER_OPA_TAP
  <1>0. last \in Int /\ 0 <= last
    BY DtapsRange, PhyAssumption, SMTT(30)
  <1>1. k \in 0..(last + 1)
    <2> DEFINE H == {j \in 0..last : P(j)}
    <2> HIDE DEF P, last, H
    <2>2. PICK kk \in 0..(last + 1) : (kk > last \/ kk \in H) /\ \A j \in 0..(kk - 1) : j \notin H
      BY <1>0, FirstExists, 0 \in Int, Zenon
    <2>3. (kk > last \/ P(kk)) /\ \A j \in 0..(kk - 1) : ~P(j)
      BY <1>0, <2>2 DEF H
    <2>4. \E k1 \in 0..(last + 1) : (k1 > last \/ P(k1)) /\ \A j \in 0..(k1 - 1) : ~P(j)
      BY <2>2, <2>3
    <2> QED BY <1>0, <2>4 DEF FirstIn
  <1>2. /\ IF k > last THEN NotFound(IO_DQS_EN_PHASE_MAX, dtaps_per_ptap, t.pushes)
           ELSE /\ SetEn(t.p, t.d, t.pushes)
                /\ L' = [L EXCEPT !.i = t.i, !.p = t.p, !.e = t.d, !.bgn = bgn, !.end = bgn]
                /\ Goto(IF t.d = 0 THEN "back_off" ELSE "right_edge")
        /\ StillPhy
    BY Zenon DEF FindFirst
  <1> HIDE DEF k
  <1>3. t.pushes \in Int
    <2>1. k \in Int /\ IO_DQS_EN_PHASE_MAX \in Nat /\ IO_DQS_EN_PHASE_MAX > 0
      BY <1>1, PhyAssumption
    <2>2. t.pushes = k \div IO_DQS_EN_PHASE_MAX
      BY DEF FirstTry
    <2> QED BY <2>1, <2>2, DivMod
  <1>4. CASE k > last
    <2>1. NotFound(IO_DQS_EN_PHASE_MAX, dtaps_per_ptap, t.pushes) /\ StillPhy
      BY <1>2, <1>4
    <2>2. IO_DQS_EN_PHASE_MAX \in 0..IO_DQS_EN_PHASE_MAX /\ dtaps_per_ptap \in 0..IO_DQS_EN_DELAY_MAX
      BY DtapsRange, PhyAssumption
    <2> HIDE DEF t
    <2> QED BY <1>3, <2>1, <2>2, NotFoundFits
  <1>5. CASE ~(k > last)
    <2>1. /\ SetEn(t.p, t.d, t.pushes) /\ StillPhy
          /\ L' = [L EXCEPT !.i = t.i, !.p = t.p, !.e = t.d, !.bgn = bgn, !.end = bgn]
          /\ pc' = "back_off" \/ pc' = "right_edge"
      BY <1>2, <1>5 DEF Goto
    <2>2. k \in Nat /\ k < (dtaps_per_ptap + 1) * VFIFO_SIZE * IO_DQS_EN_PHASE_MAX
      <3>1. (dtaps_per_ptap + 1) * VFIFO_SIZE * IO_DQS_EN_PHASE_MAX \in Int
        BY DtapsRange, PhyAssumption, SMTT(30)
      <3> QED BY <1>0, <1>1, <1>5, <3>1
    <2> HIDE DEF t, last
    <2>3. t.d \in 0..dtaps_per_ptap /\ t.p \in 1..IO_DQS_EN_PHASE_MAX /\ t.i \in Int
      BY <2>2, FirstTryRange DEF t
    <2>4. t.d \in 0..IO_DQS_EN_DELAY_MAX /\ t.p \in 0..IO_DQS_EN_PHASE_MAX
      BY <2>3, DtapsRange, PhyAssumption
    <2>5. bgn \in Int
      <3>1. IO_DELAY_PER_DQS_EN_DCHAIN_TAP \in Int /\ Phases \in Int /\ IO_DELAY_PER_OPA_TAP \in Int
        BY PhyAssumption DEF Phases
      <3> QED BY <2>3, <2>4, <3>1, SMTT(30)
    <2> HIDE DEF bgn
    <2>6. Chained'
      BY <1>3, <2>1, <2>4, FoundFits DEF StillPhy, Fit, Chained
    <2>7. /\ Fields \subseteq DOMAIN L' /\ L'.d = L.d /\ L'.orig = L.orig /\ L'.dqs = L.dqs
          /\ L'.p = t.p /\ L'.i = t.i /\ L'.e = t.d /\ L'.bgn = bgn /\ L'.end = bgn
      BY <2>1, FitFacts DEF Fields
    <2>8. Locals'
      BY <2>1, <2>3, <2>4, <2>5, <2>7, FitFacts DEF Locals, Reading, Writing
    <2> QED BY <2>6, <2>8 DEF Fits
  <1> QED BY <1>4, <1>5

LEMMA BackOffFits == ASSUME Fit, pc \in InGroup, BackOff PROVE Fits
  <1> DEFINE moved == L.p > 1
             p0 == IF moved THEN L.p - 1 ELSE 1
             steps == IF moved THEN Min({IO_DQS_EN_DELAY_MAX, dtaps_per_ptap}) ELSE -1
             P(j) == EnTest(p0, j, 0)
             k == FirstIn(0, steps, P)
             bgn == IF k > steps THEN L.bgn
                    ELSE L.bgn - IO_DELAY_PER_OPA_TAP + k * IO_DELAY_PER_DQS_EN_DCHAIN_TAP
             p1 == (p0 + 1) % Phases
             w1 == (p0 + 1) \div Phases
             n == w1 + (p1 + 1) \div Phases
             p2 == (p1 + 1) % Phases
             e2 == L.end + IO_DELAY_PER_OPA_TAP
  <1>1. /\ pc = "back_off" /\ SetEn(p0, 0, n) /\ StillPhy /\ Goto("forward")
        /\ L' = [L EXCEPT !.bgn = bgn, !.p = p2, !.end = e2]
    BY Zenon DEF BackOff
  <1>2. L.p \in 1..IO_DQS_EN_PHASE_MAX /\ L.i \in Int /\ L.bgn \in Int /\ L.end \in Int
    BY <1>1 DEF Fit, Locals
  <1>3. steps \in Int
    <2>1. Min({IO_DQS_EN_DELAY_MAX, dtaps_per_ptap}) \in Int
      BY DtapsRange, PhyAssumption, MinOfTwo
    <2> QED BY <2>1
  <1>4. k \in Int
    <2> DEFINE H == {j \in 0..steps : P(j)}
    <2> HIDE DEF P, steps, H
    <2>1. CASE 0 > steps
      BY <1>3, <2>1 DEF FirstIn
    <2>2. CASE 0 <= steps
      <3>2. PICK kk \in 0..(steps + 1) : (kk > steps \/ kk \in H) /\ \A j \in 0..(kk - 1) : j \notin H
        BY <1>3, <2>2, FirstExists, 0 \in Int, Zenon
      <3>3. (kk > steps \/ P(kk)) /\ \A j \in 0..(kk - 1) : ~P(j)
        BY <1>3, <3>2 DEF H
      <3>4. \E k1 \in 0..(steps + 1) : (k1 > steps \/ P(k1)) /\ \A j \in 0..(k1 - 1) : ~P(j)
        BY <3>2, <3>3
      <3> QED BY <1>3, <2>2, <3>4 DEF FirstIn
    <2> QED BY <1>3, <2>1, <2>2
  <1> HIDE DEF k, steps
  <1>5. IO_DELAY_PER_DQS_EN_DCHAIN_TAP \in Int /\ IO_DELAY_PER_OPA_TAP \in Int /\ Phases \in Nat /\ Phases > 0
          /\ IO_DQS_EN_PHASE_MAX \in Nat /\ Phases = IO_DQS_EN_PHASE_MAX + 1
    BY PhyAssumption DEF Phases
  <1>6. bgn \in Int
    <2>1. k * IO_DELAY_PER_DQS_EN_DCHAIN_TAP \in Int
      BY <1>4, <1>5, SMTT(30)
    <2> QED BY <1>2, <1>5, <2>1
  <1>7. p0 \in 0..IO_DQS_EN_PHASE_MAX /\ p0 + 1 \in Int
    BY <1>2, ZeroIn, <1>5
  <1> HIDE DEF p0, bgn
  <1>8. p1 \in 0..(Phases - 1) /\ w1 \in Int /\ p1 + 1 \in Int
    <2>1. p1 \in 0..(Phases - 1) /\ w1 \in Int
      BY <1>5, <1>7, DivMod
    <2> HIDE DEF p1
    <2> QED BY <1>5, <2>1
  <1> HIDE DEF p1, w1
  <1>9. p2 \in 0..IO_DQS_EN_PHASE_MAX /\ (p1 + 1) \div Phases \in Int
    BY <1>5, <1>8, DivMod
  <1>10. n \in Int /\ e2 \in Int
    BY <1>2, <1>5, <1>8, <1>9
  <1> HIDE DEF p2, n, e2
  <1>11. Chained'
    BY <1>1, <1>7, <1>10, ZeroIn, FoundFits DEF StillPhy, Fit, Chained
  <1>12. /\ Fields \subseteq DOMAIN L' /\ L'.d = L.d /\ L'.orig = L.orig /\ L'.dqs = L.dqs
         /\ L'.p = p2 /\ L'.i = L.i /\ L'.bgn = bgn /\ L'.end = e2
    BY <1>1, FitFacts DEF Fields
  <1>13. Locals'
    BY <1>1, <1>2, <1>6, <1>9, <1>10, <1>12, FitFacts DEF Locals, Reading, Writing, Goto
  <1> QED BY <1>11, <1>13 DEF Fits

LEMMA ForwardFits == ASSUME Fit, pc \in InGroup, Forward PROVE Fits
  <1> DEFINE last == (VFIFO_SIZE + 1 - L.i) * Phases - L.p - 1
             PhaseAt(j) == (L.p + j) % Phases
             PushesAt(j) == (L.p + j) \div Phases
             P(j) == PhaseAt(j) # 0 /\ ~EnTest(PhaseAt(j), 0, PushesAt(j))
             k == FirstIn(0, last, P)
             pk == IF PhaseAt(k) = 1 THEN 0 ELSE PhaseAt(k)
             ek == L.end + k * IO_DELAY_PER_OPA_TAP
                     - (IF PhaseAt(k) = 1 THEN 2 ELSE 1) * IO_DELAY_PER_OPA_TAP
             p1 == IF pk = 0 THEN IO_DQS_EN_PHASE_MAX ELSE pk - 1
             back == IF pk = 0 THEN rw_mgr_decr_vfifo ELSE 0
             n0 == PushesAt(last) + 1
             n1 == PushesAt(k) + back
  <1>1. /\ pc = "forward" /\ StillPhy
        /\ \/ NotFound(IO_DQS_EN_PHASE_MAX, 0, n0)
           \/ SetEn(p1, 0, n1) /\ L' = [L EXCEPT !.p = p1, !.e = 0, !.end = ek] /\ Goto("right_edge")
    BY Zenon DEF Forward
  <1>2. L.p \in 0..IO_DQS_EN_PHASE_MAX /\ L.i \in Int /\ L.bgn \in Int /\ L.end \in Int
    BY <1>1 DEF Fit, Locals
  <1>3. IO_DELAY_PER_OPA_TAP \in Int /\ Phases \in Nat /\ Phases > 0 /\ VFIFO_SIZE \in Nat
          /\ IO_DQS_EN_PHASE_MAX \in Nat /\ Phases = IO_DQS_EN_PHASE_MAX + 1 /\ rw_mgr_decr_vfifo \in Int
    BY PhyAssumption DEF Phases, rw_mgr_decr_vfifo
  <1>4. last \in Int
    <2>1. (VFIFO_SIZE + 1 - L.i) * Phases \in Int
      BY <1>2, <1>3, SMTT(30)
    <2> QED BY <1>2, <1>3, <2>1
  <1>5. k \in Int
    <2> DEFINE H == {j \in 0..last : P(j)}
    <2> HIDE DEF P, last, H
    <2>1. CASE 0 > last
      BY <1>4, <2>1 DEF FirstIn
    <2>2. CASE 0 <= last
      <3>2. PICK kk \in 0..(last + 1) : (kk > last \/ kk \in H) /\ \A j \in 0..(kk - 1) : j \notin H
        BY <1>4, <2>2, FirstExists, 0 \in Int, Zenon
      <3>3. (kk > last \/ P(kk)) /\ \A j \in 0..(kk - 1) : ~P(j)
        BY <1>4, <3>2 DEF H
      <3>4. \E k1 \in 0..(last + 1) : (k1 > last \/ P(k1)) /\ \A j \in 0..(k1 - 1) : ~P(j)
        BY <3>2, <3>3
      <3> QED BY <1>4, <2>2, <3>4 DEF FirstIn
    <2> QED BY <1>4, <2>1, <2>2
  <1> HIDE DEF k, last
  <1>6. PhaseAt(k) \in 0..(Phases - 1) /\ PushesAt(k) \in Int /\ PushesAt(last) \in Int
    <2>1. L.p + k \in Int /\ L.p + last \in Int
      BY <1>2, <1>3, <1>4, <1>5
    <2> QED BY <1>3, <2>1, DivMod
  <1> HIDE DEF PhaseAt, PushesAt
  <1>7. ek \in Int
    <2>1. k * IO_DELAY_PER_OPA_TAP \in Int /\ 2 * IO_DELAY_PER_OPA_TAP \in Int /\ 1 * IO_DELAY_PER_OPA_TAP \in Int
      BY <1>3, <1>5, SMTT(30)
    <2> QED BY <1>2, <2>1
  <1>8. p1 \in 0..IO_DQS_EN_PHASE_MAX /\ n0 \in Int /\ n1 \in Int
    BY <1>3, <1>6
  <1> HIDE DEF p1, n0, n1, ek
  <1>9. CASE NotFound(IO_DQS_EN_PHASE_MAX, 0, n0)
    <2>1. IO_DQS_EN_PHASE_MAX \in 0..IO_DQS_EN_PHASE_MAX
      BY <1>3
    <2> QED BY <1>1, <1>8, <1>9, <2>1, ZeroIn, NotFoundFits
  <1>10. CASE SetEn(p1, 0, n1) /\ L' = [L EXCEPT !.p = p1, !.e = 0, !.end = ek] /\ Goto("right_edge")
    <2>1. Chained'
      BY <1>1, <1>8, <1>10, ZeroIn, FoundFits DEF StillPhy, Fit, Chained
    <2>2. /\ Fields \subseteq DOMAIN L' /\ L'.d = L.d /\ L'.orig = L.orig /\ L'.dqs = L.dqs
          /\ L'.p = p1 /\ L'.e = 0 /\ L'.bgn = L.bgn /\ L'.end = ek
      BY <1>10, FitFacts DEF Fields
    <2>3. Locals'
      BY <1>2, <1>7, <1>8, <1>10, <2>2, FitFacts, ZeroIn DEF Locals, Reading, Writing, Goto
    <2> QED BY <2>1, <2>3 DEF Fits
  <1> QED BY <1>1, <1>9, <1>10

LEMMA RightEdgeFits == ASSUME Fit, pc \in InGroup, RightEdge PROVE Fits
  <1> DEFINE M == IO_DQS_EN_DELAY_MAX
             P(j) == ~EnTest(L.p, j, 0)
             k == FirstIn(L.e, IO_DQS_EN_DELAY_MAX, P)
             end == L.end + (k - L.e - (IF k # 0 THEN 1 ELSE 0)) * IO_DELAY_PER_DQS_EN_DCHAIN_TAP
             dk == Min({k, IO_DQS_EN_DELAY_MAX})
  <1>1. /\ pc = "right_edge" /\ StillPhy
        /\ \/ NotFound(L.p, dk, 0)
           \/ SetEn(L.p, dk, 0) /\ L' = [L EXCEPT !.e = k, !.end = end] /\ Goto("dtaps")
    BY Zenon DEF RightEdge
  <1>2. L.p \in 0..IO_DQS_EN_PHASE_MAX /\ L.bgn \in Int /\ L.end \in Int /\ L.e \in 0..M
    BY <1>1 DEF Fit, Locals
  <1>3. M \in Nat /\ IO_DELAY_PER_DQS_EN_DCHAIN_TAP \in Int
    BY PhyAssumption
  <1>4. k \in 0..(M + 1)
    <2> DEFINE a == L.e
               H == {j \in a..M : P(j)}
    <2>1. a \in Int /\ M \in Int /\ a <= M /\ 0 <= a
      BY <1>2, <1>3
    <2>0. k = FirstIn(a, M, P)
      OBVIOUS
    <2> HIDE DEF P, H, a, M, k
    <2>2. PICK kk \in a..(M + 1) : (kk > M \/ kk \in H) /\ \A j \in a..(kk - 1) : j \notin H
      BY <2>1, FirstExists, Zenon
    <2>3. (kk > M \/ P(kk)) /\ \A j \in a..(kk - 1) : ~P(j)
      BY <2>1, <2>2 DEF H
    <2>4. \E k1 \in a..(M + 1) : (k1 > M \/ P(k1)) /\ \A j \in a..(k1 - 1) : ~P(j)
      BY <2>2, <2>3
    <2>5. FirstIn(a, M, P) \in a..(M + 1)
      BY <2>1, <2>4 DEF FirstIn
    <2> QED BY <2>0, <2>1, <2>5
  <1> HIDE DEF k
  <1>5. dk \in 0..M
    BY <1>3, <1>4, MinOfTwo
  <1>6. end \in Int
    <2>1. k - L.e - (IF k # 0 THEN 1 ELSE 0) \in Int
      BY <1>2, <1>3, <1>4
    <2> DEFINE w == k - L.e - (IF k # 0 THEN 1 ELSE 0)
    <2>2. end = L.end + w * IO_DELAY_PER_DQS_EN_DCHAIN_TAP /\ w \in Int
      BY <2>1
    <2> HIDE DEF w, end
    <2>3. w * IO_DELAY_PER_DQS_EN_DCHAIN_TAP \in Int
      BY <1>3, <2>2, SMTT(30)
    <2> QED BY <1>2, <2>2, <2>3
  <1> HIDE DEF dk, end
  <1>7. CASE NotFound(L.p, dk, 0)
    BY <1>1, <1>2, <1>5, <1>7, NotFoundFits
  <1>8. CASE SetEn(L.p, dk, 0) /\ L' = [L EXCEPT !.e = k, !.end = end] /\ Goto("dtaps")
    <2>1. Chained'
      BY <1>1, <1>2, <1>5, <1>8, FoundFits DEF StillPhy, Fit, Chained
    <2>2. /\ Fields \subseteq DOMAIN L' /\ L'.d = L.d /\ L'.orig = L.orig /\ L'.dqs = L.dqs
          /\ L'.p = L.p /\ L'.e = k /\ L'.bgn = L.bgn /\ L'.end = end
      BY <1>8, FitFacts DEF Fields
    <2>3. Locals'
      BY <1>2, <1>4, <1>6, <1>8, <2>2, FitFacts DEF Locals, Reading, Writing, Goto
    <2> QED BY <2>1, <2>3 DEF Fits
  <1> QED BY <1>1, <1>7, <1>8

LEMMA DtapsFits == ASSUME Fit, pc \in InGroup, DtapsPerPtap PROVE Fits
  <1> DEFINE M == IO_DQS_EN_DELAY_MAX
             turn == L.p <= 1
             p1 == IF turn THEN IO_DQS_EN_PHASE_MAX ELSE L.p - 1
             back == IF turn THEN rw_mgr_decr_vfifo ELSE 0
             P(j) == EnTest(p1, j, back)
             Q(j) == ~EnTest(p1, j, back)
             good == FirstIn(L.e, IO_DQS_EN_DELAY_MAX, P)
             bad == FirstIn(good + 1, IO_DQS_EN_DELAY_MAX, Q)
             measured == good <= IO_DQS_EN_DELAY_MAX /\ bad <= IO_DQS_EN_DELAY_MAX
             dt == IF measured THEN bad - L.e ELSE dtaps_per_ptap
             dd == IF L.e > IO_DQS_EN_DELAY_MAX THEN S.en_delay ELSE Min({bad, IO_DQS_EN_DELAY_MAX})
  <1>1. /\ pc = "dtaps" /\ trk' = [trk EXCEPT !.dtaps = dt]
        /\ SetEn(p1, dd, back) /\ L' = L /\ Goto("centre")
    BY Zenon DEF DtapsPerPtap
  <1>2. L.p \in 0..IO_DQS_EN_PHASE_MAX /\ L.bgn \in Int /\ L.end \in Int /\ L.e \in 0..(M + 1)
    BY <1>1 DEF Fit, Locals
  <1>3. M \in Nat /\ IO_DQS_EN_PHASE_MAX \in Nat /\ rw_mgr_decr_vfifo \in Int
    BY PhyAssumption DEF rw_mgr_decr_vfifo
  <1>4. p1 \in 0..IO_DQS_EN_PHASE_MAX /\ back \in Int
    BY <1>2, <1>3
  <1>5. good \in L.e..(M + 1)
    <2> DEFINE a == L.e
               H == {j \in a..M : P(j)}
    <2>0. good = FirstIn(a, M, P) /\ a \in Int /\ M \in Int /\ 0 <= a /\ a <= M + 1
      BY <1>2, <1>3
    <2> HIDE DEF P, H, a, M, good
    <2>1. CASE a > M
      BY <2>0, <2>1 DEF FirstIn, a
    <2>2. CASE a <= M
      <3>2. PICK kk \in a..(M + 1) : (kk > M \/ kk \in H) /\ \A j \in a..(kk - 1) : j \notin H
        BY <2>0, <2>2, FirstExists, Zenon
      <3>3. (kk > M \/ P(kk)) /\ \A j \in a..(kk - 1) : ~P(j)
        BY <2>0, <3>2 DEF H
      <3>4. \E k1 \in a..(M + 1) : (k1 > M \/ P(k1)) /\ \A j \in a..(k1 - 1) : ~P(j)
        BY <3>2, <3>3
      <3>5. FirstIn(a, M, P) \in a..(M + 1)
        BY <2>0, <2>2, <3>4 DEF FirstIn
      <3> QED BY <2>0, <3>5 DEF a
    <2> QED BY <2>0, <2>1, <2>2
  <1> HIDE DEF good
  <1>6. bad \in Int /\ bad <= M + 1 /\ (good < bad \/ bad = M + 1)
    <2> DEFINE a == good + 1
               H == {j \in a..M : Q(j)}
    <2>0. bad = FirstIn(a, M, Q) /\ a \in Int /\ M \in Int
      BY <1>2, <1>3, <1>5
    <2> HIDE DEF Q, H, a, M, bad
    <2>1. CASE a > M
      BY <2>0, <2>1 DEF FirstIn
    <2>2. CASE a <= M
      <3>2. PICK kk \in a..(M + 1) : (kk > M \/ kk \in H) /\ \A j \in a..(kk - 1) : j \notin H
        BY <2>0, <2>2, FirstExists, Zenon
      <3>3. (kk > M \/ Q(kk)) /\ \A j \in a..(kk - 1) : ~Q(j)
        BY <2>0, <3>2 DEF H
      <3>4. \E k1 \in a..(M + 1) : (k1 > M \/ Q(k1)) /\ \A j \in a..(k1 - 1) : ~Q(j)
        BY <3>2, <3>3
      <3>5. FirstIn(a, M, Q) \in a..(M + 1)
        BY <2>0, <2>2, <3>4 DEF FirstIn
      <3>6. good \in Int
        BY <1>2, <1>3, <1>5 DEF M
      <3> QED BY <2>0, <3>5, <3>6 DEF a
    <2> QED BY <2>0, <2>1, <2>2
  <1> HIDE DEF bad, p1, back
  <1>7. bad \in Int
    BY <1>3, <1>6
  <1>8. dt \in 0..IO_DQS_EN_DELAY_MAX
    <2>1. CASE measured
      BY <1>2, <1>3, <1>5, <1>6, <1>7, <2>1
    <2>2. CASE ~measured
      BY <2>2, DtapsRange, PhyAssumption
    <2> QED BY <2>1, <2>2
  <1>9. dd \in 0..M
    <2>1. S.en_delay \in 0..M
      BY FitFacts DEF Chains
    <2>2. ~(L.e > M) => Min({bad, IO_DQS_EN_DELAY_MAX}) \in 0..M
      <3>1. 0 <= bad
        BY <1>2, <1>3, <1>5, <1>6, <1>7
      <3> QED BY <1>3, <1>7, <3>1, MinOfTwo
    <2> QED BY <2>1, <2>2
  <1> HIDE DEF dt, dd
  <1>10. "dtaps" \in DOMAIN trk' /\ trk'.dtaps \in 0..IO_DQS_EN_DELAY_MAX
    BY <1>1, <1>8 DEF Fit, Chained
  <1>11. Chained'
    BY <1>1, <1>4, <1>9, <1>10, FoundFits
  <1>12. Locals'
    BY <1>1, <1>2, FitFacts DEF Locals, Reading, Writing, Goto
  <1> QED BY <1>11, <1>12 DEF Fits

\* A deskew begins without edges.
LEMMA NoEdges ==
  /\ InIll \in (-Wide)..Wide /\ OutIll \in (-Wide)..Wide /\ Wide \in Nat
  /\ \A l : Fields \subseteq DOMAIN l =>
       LET r == StartDeskew(l, InIll) w == StartDeskew(l, OutIll)
       IN  /\ Edges(r) /\ r.e = 0 /\ Fields \subseteq DOMAIN r /\ r.d = l.d /\ r.orig = l.orig /\ r.dqs = l.dqs
           /\ Edges(w) /\ w.e = 0 /\ Fields \subseteq DOMAIN w /\ w.d = l.d /\ w.orig = l.orig /\ w.dqs = l.dqs
  <1>1. InIll \in (-Wide)..Wide /\ OutIll \in (-Wide)..Wide /\ Wide \in Nat
    BY PhyAssumption DEF InIll, OutIll, Wide
  <1>2. ASSUME NEW l, Fields \subseteq DOMAIN l, NEW ill \in (-Wide)..Wide
        PROVE  LET r == StartDeskew(l, ill)
               IN  Edges(r) /\ r.e = 0 /\ Fields \subseteq DOMAIN r /\ r.d = l.d /\ r.orig = l.orig /\ r.dqs = l.dqs
    BY <1>2 DEF StartDeskew, Edges, Fields
  <1> QED BY <1>1, <1>2

LEMMA CentreFits == ASSUME Fit, pc \in InGroup, Centre PROVE Fits
  <1> DEFINE mid == Middle(L.bgn, L.end)
             P(j) == EnTest(mid.p, mid.d, j)
             k == FirstIn(0, VFIFO_SIZE - 1, P)
             s1 == EnableAt(scc_mgr_apply_group_dq_in_delay(S, 0), mid.p, mid.d)
             l1 == StartDeskew(L, InIll)
  <1>1. /\ pc = "centre" /\ StillPhy
        /\ \/ NotFound(mid.p, mid.d, k)
           \/ /\ Put(scc_mgr_set_dqs_bus_in_delay(s1, L.orig))
              /\ vfifo' = [vfifo EXCEPT ![g] = rw_mgr_incr_vfifo(vfifo[g], k)]
              /\ L' = [l1 EXCEPT !.start = L.orig, !.first = TRUE]
              /\ Goto("read_left")
    BY DEF Centre
  <1>2. mid.p \in 0..IO_DQS_EN_PHASE_MAX /\ mid.d \in 0..IO_DQS_EN_DELAY_MAX
    <2>1. L.bgn \in Int /\ L.end \in Int
      BY <1>1 DEF Fit, Locals
    <2> QED BY <2>1, MiddleRange
  <1> HIDE DEF mid
  <1>3. k \in Int
    <2> DEFINE n == VFIFO_SIZE - 1
               H == {j \in 0..n : P(j)}
    <2>0. k = FirstIn(0, n, P) /\ n \in Int /\ 0 <= n
      BY PhyAssumption
    <2> HIDE DEF P, H, n, k
    <2>2. PICK kk \in 0..(n + 1) : (kk > n \/ kk \in H) /\ \A j \in 0..(kk - 1) : j \notin H
      BY <2>0, FirstExists, 0 \in Int, Zenon
    <2>3. (kk > n \/ P(kk)) /\ \A j \in 0..(kk - 1) : ~P(j)
      BY <2>0, <2>2 DEF H
    <2>4. \E k1 \in 0..(n + 1) : (k1 > n \/ P(k1)) /\ \A j \in 0..(k1 - 1) : ~P(j)
      BY <2>2, <2>3
    <2>5. FirstIn(0, n, P) \in 0..(n + 1)
      BY <2>0, <2>4 DEF FirstIn
    <2> QED BY <2>0, <2>5
  <1> HIDE DEF k
  <1>4. CASE NotFound(mid.p, mid.d, k)
    BY <1>1, <1>2, <1>3, <1>4, NotFoundFits
  <1>5. CASE /\ Put(scc_mgr_set_dqs_bus_in_delay(s1, L.orig))
             /\ vfifo' = [vfifo EXCEPT ![g] = rw_mgr_incr_vfifo(vfifo[g], k)]
             /\ L' = [l1 EXCEPT !.start = L.orig, !.first = TRUE]
             /\ Goto("read_left")
    <2>1. s1 \in Chains
      BY <1>2, FitFacts, ZeroIn, GroupSettersFit, SettersFit
    <2> HIDE DEF s1
    <2>2. scc_mgr_set_dqs_bus_in_delay(s1, L.orig) \in Chains
      BY <2>1, FitFacts, SettersFit
    <2>3. Chained'
      BY <1>1, <1>3, <1>5, <2>2, PutFits, PushFits DEF Chained, StillPhy, Fit
    <2>4. Fields \subseteq DOMAIN l1 /\ Edges(l1) /\ l1.e = 0 /\ l1.d = L.d /\ l1.orig = L.orig /\ l1.dqs = L.dqs
      BY NoEdges, FitFacts
    <2> HIDE DEF l1
    <2>5. /\ Fields \subseteq DOMAIN L' /\ L'.d = l1.d /\ L'.orig = l1.orig /\ L'.dqs = l1.dqs
          /\ L'.start = L.orig /\ L'.e = l1.e /\ Edges(L')
      BY <1>5, <2>4 DEF Fields, Edges
    <2>6. Locals'
      BY <1>5, <2>4, <2>5, FitFacts, ZeroIn DEF Locals, Reading, Writing, Goto
    <2> QED BY <2>3, <2>6 DEF Fits
  <1> QED BY <1>1, <1>4, <1>5

\* The guaranteed read leaves a phase that exists.
LEMMA PatternsFit ==
  ASSUME NEW s \in Chains, NEW b, NEW loaded
  PROVE  rw_mgr_mem_calibrate_read_test_patterns_all_ranks(b, s, loaded).s \in Chains
  <1> DEFINE Passes(pp) == rw_mgr_mem_calibrate_read_test_patterns(
                             b, scc_mgr_set_dqs_en_phase_all_ranks(s, pp), loaded)
             good == {pp \in 0..IO_DQS_EN_PHASE_MAX : Passes(pp)}
             ph == IF good # {} THEN Min(good) ELSE IO_DQS_EN_PHASE_MAX
             r == rw_mgr_mem_calibrate_read_test_patterns_all_ranks(b, s, loaded)
  <1>1. r.s = s \/ r.s = scc_mgr_set_dqs_en_phase_all_ranks(s, ph)
    BY DEF rw_mgr_mem_calibrate_read_test_patterns_all_ranks
  <1>2. good \subseteq 0..IO_DQS_EN_PHASE_MAX
    OBVIOUS
  <1> HIDE DEF good
  <1>3. ph \in 0..IO_DQS_EN_PHASE_MAX
    <2>1. good \subseteq Int /\ \A t \in good : 0 <= t
      BY <1>2
    <2>2. good # {} => Min(good) \in good
      BY <2>1, MinBelow, 0 \in Int, Zenon
    <2> QED BY <1>2, <2>2, PhyAssumption
  <1> HIDE DEF r, ph
  <1>4. r.s \in Chains
    BY <1>1, <1>3, SettersFit
  <1> QED BY <1>4 DEF r

LEMMA DelayFits == ASSUME Fit, pc \in InGroup, DelayLoop PROVE Fits
  <1> DEFINE s1 == IF L.d > 0 THEN scc_mgr_apply_group_all_out_delay_add(S, L.d) ELSE S
             ok == Accessible /\ rw_mgr_mem_calibrate_read_load_patterns(B, s1)
             r == rw_mgr_mem_calibrate_read_test_patterns_all_ranks(B, s1, ok)
             t == r.s
  <1>1. /\ pc = "delay" /\ UNCHANGED vfifo /\ StillPhy
        /\ \/ L.d > dtaps_per_ptap /\ pc' = "report" /\ UNCHANGED <<scc, L>>
           \/ /\ ~(L.d > dtaps_per_ptap) /\ Put(t)
              /\ \/ L' = [L EXCEPT !.orig = t.dqs_in, !.dqs = t.dqs_in] /\ pc' = "dqs_in"
                 \/ L' = [L EXCEPT !.d = L.d + 2] /\ pc' = "delay"
    BY DEF DelayLoop, GiveUp, Goto
  <1>2. CASE L.d > dtaps_per_ptap
    <2>1. pc' = "report" /\ UNCHANGED <<scc, L, vfifo>> /\ StillPhy
      BY <1>1, <1>2
    <2> QED BY <2>1, FitFacts DEF Fits, Fit, Chained, Locals, StillPhy, InGroup, Searching, Reading, Writing
  <1>3. CASE ~(L.d > dtaps_per_ptap)
    <2>1. s1 \in Chains
      <3>1. L.d \in 0..IO_IO_OUT1_DELAY_MAX
        BY <1>3, FitFacts, DtapsRange, PhyAssumption
      <3> QED BY <3>1, FitFacts, GroupSettersFit
    <2> HIDE DEF s1, ok
    <2>2. t \in Chains
      BY <2>1, PatternsFit
    <2>3. /\ Put(t) /\ UNCHANGED vfifo /\ StillPhy
          /\ \/ L' = [L EXCEPT !.orig = t.dqs_in, !.dqs = t.dqs_in] /\ pc' = "dqs_in"
             \/ L' = [L EXCEPT !.d = L.d + 2] /\ pc' = "delay"
      BY <1>1, <1>3
    <2> HIDE DEF t
    <2>4. Chained'
      BY <2>2, <2>3, PutFits DEF Chained, StillPhy, Fit
    <2>5. t.dqs_in \in 0..IO_DQS_IN_DELAY_MAX /\ t.dqs_in \in Nat
      <3>1. t.dqs_in \in 0..IO_DQS_IN_DELAY_MAX
        BY <2>2 DEF Chains
      <3> QED BY <3>1, PhyAssumption
    <2>6. CASE L' = [L EXCEPT !.orig = t.dqs_in, !.dqs = t.dqs_in] /\ pc' = "dqs_in"
      <3>1. Fields \subseteq DOMAIN L' /\ L'.d = L.d /\ L'.orig = t.dqs_in /\ L'.dqs = t.dqs_in
        BY <2>6, FitFacts DEF Fields
      <3> QED BY <2>4, <2>5, <2>6, <3>1, FitFacts DEF Locals, Reading, Writing, Fits
    <2>7. CASE L' = [L EXCEPT !.d = L.d + 2] /\ pc' = "delay"
      <3>1. Fields \subseteq DOMAIN L' /\ L'.d = L.d + 2 /\ L'.orig = L.orig /\ L'.dqs = L.dqs
        BY <2>7, FitFacts DEF Fields
      <3> QED BY <2>4, <2>7, <3>1, FitFacts DEF Locals, Reading, Writing, Fits
    <2> QED BY <2>3, <2>6, <2>7
  <1> QED BY <1>2, <1>3

LEMMA DqsInFits == ASSUME Fit, pc \in InGroup, DqsInLoop PROVE Fits
  <1>1. pc = "dqs_in" /\ UNCHANGED vfifo /\ StillPhy
    BY DEF DqsInLoop
  <1>2. CASE L.dqs > IO_DQS_IN_DELAY_MAX
    <2>1. L' = [L EXCEPT !.d = L.d + 2] /\ pc' = "delay" /\ UNCHANGED scc
      BY <1>2 DEF DqsInLoop, Goto
    <2>2. Fields \subseteq DOMAIN L' /\ L'.d = L.d + 2 /\ L'.orig = L.orig /\ L'.dqs = L.dqs
      BY <2>1, FitFacts DEF Fields
    <2>3. Chained'
      BY <1>1, <2>1 DEF Chained, StillPhy, Fit
    <2> QED BY <2>1, <2>2, <2>3, FitFacts DEF Locals, Reading, Writing, Fits
  <1>3. CASE ~(L.dqs > IO_DQS_IN_DELAY_MAX)
    <2> DEFINE s1 == scc_mgr_set_dqs_bus_in_delay(S, L.dqs)
               s2 == SweepDqIn(s1)
               s3 == EnableAt(s2, 1, 0)
    <2>1. Put(s3) /\ pc' = "find_failing" /\ UNCHANGED L
      BY <1>3 DEF DqsInLoop, Goto
    <2>2. s1 \in Chains
      <3>1. L.dqs \in 0..IO_DQS_IN_DELAY_MAX
        BY <1>3, FitFacts, PhyAssumption
      <3> QED BY <3>1, FitFacts, SettersFit
    <2> HIDE DEF s1
    <2>3. s2 \in Chains
      BY <2>2, GroupSettersFit
    <2> HIDE DEF s2
    <2>4. s3 \in Chains
      BY <2>3, SettersFit, ZeroIn
    <2> HIDE DEF s3
    <2>5. Chained'
      BY <1>1, <2>1, <2>4, PutFits DEF Chained, StillPhy, Fit
    <2>6. Locals'
      BY <2>1, FitFacts DEF Locals, Reading, Writing
    <2> QED BY <2>5, <2>6 DEF Fits
  <1> QED BY <1>2, <1>3

-----------------------------------------------------------------------------
(***************************************************************************)
(* The edges of the deskews.                                               *)
(***************************************************************************)

\* What the searches for the edges leave of the locals.
Beside(l, m) ==
  /\ Fields \subseteq DOMAIN m /\ m.e = l.e /\ m.d = l.d /\ m.orig = l.orig /\ m.dqs = l.dqs
  /\ m.start = l.start

LEMMA EdgesFit ==
  ASSUME NEW l, Fields \subseteq DOMAIN l, Edges(l), l.e \in 0..(Wide - 1), NEW ill, NEW chk
  PROVE  /\ Edges(LeftEdges(l, chk, ill)) /\ Beside(l, LeftEdges(l, chk, ill))
         /\ Edges(RightEdges(l, chk, ill)) /\ Beside(l, RightEdges(l, chk, ill))
  <1> DEFINE W == (-Wide)..Wide
  <1>1. l.e \in W /\ -(l.e + 1) \in W /\ -1 \in W
    BY NoEdges
  <1> HIDE DEF W
  <1>2. l.left \in [Bits -> W] /\ l.right \in [Bits -> W]
    BY DEF Edges, W
  <1>3. ASSUME NEW m, m = LeftEdges(l, chk, ill) PROVE m.left \in [Bits -> W] /\ m.right \in [Bits -> W] /\ Beside(l, m)
    BY <1>1, <1>2, <1>3 DEF LeftEdges, Beside, Fields
  <1>4. ASSUME NEW m, m = RightEdges(l, chk, ill) PROVE m.left \in [Bits -> W] /\ m.right \in [Bits -> W] /\ Beside(l, m)
    BY <1>1, <1>2, <1>4 DEF RightEdges, Beside, Fields
  <1> QED BY <1>3, <1>4 DEF Edges, W

LEMMA NextFits ==
  ASSUME NEW l, Fields \subseteq DOMAIN l, Edges(l)
  PROVE  \A m : m = NextSearch(l, InIll, TRUE) \/ m = NextSearch(l, OutIll, FALSE) =>
           /\ Edges(m) /\ m.e = 0 /\ Fields \subseteq DOMAIN m /\ m.d = l.d /\ m.orig = l.orig /\ m.dqs = l.dqs
           /\ m.start = l.start
  <1>1. ASSUME NEW m, NEW ill \in (-Wide)..Wide, NEW st,
               m = [l EXCEPT !.right = [i \in Bits |-> IF l.left[i] = ill THEN ill ELSE l.right[i]],
                             !.sticky = st, !.e = 0]
        PROVE  /\ Edges(m) /\ m.e = 0 /\ Fields \subseteq DOMAIN m /\ m.d = l.d /\ m.orig = l.orig /\ m.dqs = l.dqs
               /\ m.start = l.start
    BY <1>1 DEF Edges, Fields
  <1>2. ASSUME NEW m, m = NextSearch(l, InIll, TRUE)
        PROVE  \E st : m = [l EXCEPT !.right = [i \in Bits |-> IF l.left[i] = InIll THEN InIll ELSE l.right[i]],
                                     !.sticky = st, !.e = 0]
    BY <1>2 DEF NextSearch
  <1>3. ASSUME NEW m, m = NextSearch(l, OutIll, FALSE)
        PROVE  \E st : m = [l EXCEPT !.right = [i \in Bits |-> IF l.left[i] = OutIll THEN OutIll ELSE l.right[i]],
                                     !.sticky = st, !.e = 0]
    BY <1>3 DEF NextSearch
  <1>4. ASSUME NEW m, m = NextSearch(l, InIll, TRUE)
        PROVE  /\ Edges(m) /\ m.e = 0 /\ Fields \subseteq DOMAIN m /\ m.d = l.d /\ m.orig = l.orig /\ m.dqs = l.dqs
               /\ m.start = l.start
    <2>1. PICK st : m = [l EXCEPT !.right = [i \in Bits |-> IF l.left[i] = InIll THEN InIll ELSE l.right[i]],
                                  !.sticky = st, !.e = 0]
      BY <1>2, <1>4
    <2> QED BY <1>1, <2>1, NoEdges
  <1>5. ASSUME NEW m, m = NextSearch(l, OutIll, FALSE)
        PROVE  /\ Edges(m) /\ m.e = 0 /\ Fields \subseteq DOMAIN m /\ m.d = l.d /\ m.orig = l.orig /\ m.dqs = l.dqs
               /\ m.start = l.start
    <2>1. PICK st : m = [l EXCEPT !.right = [i \in Bits |-> IF l.left[i] = OutIll THEN OutIll ELSE l.right[i]],
                                  !.sticky = st, !.e = 0]
      BY <1>3, <1>5
    <2> QED BY <1>1, <2>1, NoEdges
  <1> QED BY <1>4, <1>5

\* A step of a deskew that sets chains of the group.
LEMMA PutChained ==
  ASSUME Fit, NEW s \in Chains, Put(s), UNCHANGED vfifo, StillPhy
  PROVE  Chained'
  BY PutFits DEF Chained, StillPhy, Fit

LEMMA ReadLeftFits == ASSUME Fit, pc \in InGroup, ReadLeft PROVE Fits
  <1> DEFINE s1 == scc_mgr_apply_group_dq_in_delay(S, L.e)
             s0 == scc_mgr_apply_group_dq_in_delay(S, 0)
             chk == CenterTest(s1)
             seen == L.sticky \cup chk
             stop == chk = {} /\ seen = Bits
             l1 == IF stop THEN L ELSE LeftEdges(L, chk, InIll)
  <1>1. /\ pc = "read_left" /\ UNCHANGED vfifo /\ StillPhy
        /\ \/ Put(s0) /\ L' = NextSearch(l1, InIll, TRUE) /\ pc' = "read_right"
           \/ /\ L.e # IO_IO_IN_DELAY_MAX
              /\ Put(s1) /\ L' = [l1 EXCEPT !.sticky = seen, !.e = l1.e + 1] /\ pc' = "read_left"
    BY DEF ReadLeft, Goto
  <1>2. L.start \in 0..IO_DQS_IN_DELAY_MAX /\ Edges(L) /\ L.e \in 0..IO_IO_IN_DELAY_MAX
    BY <1>1 DEF Fit, Locals, Reading
  <1>3. L.e \in 0..(Wide - 1) /\ IO_IO_IN_DELAY_MAX \in Nat /\ IO_DQS_IN_DELAY_MAX \in Nat
    BY <1>2, PhyAssumption DEF Wide
  <1>4. s0 \in Chains /\ s1 \in Chains
    BY <1>2, FitFacts, ZeroIn, GroupSettersFit
  <1>5. Edges(l1) /\ Beside(L, l1)
    <2> HIDE DEF chk, seen
    <2>1. Beside(L, L)
      BY FitFacts DEF Beside
    <2>2. Edges(LeftEdges(L, chk, InIll)) /\ Beside(L, LeftEdges(L, chk, InIll))
      BY <1>2, <1>3, FitFacts, EdgesFit
    <2> QED BY <1>2, <2>1, <2>2
  <1> HIDE DEF s0, s1, l1, seen
  <1>6. Chained'
    BY <1>1, <1>4, PutChained
  <1>7. CASE L' = NextSearch(l1, InIll, TRUE) /\ pc' = "read_right"
    <2>1. /\ Edges(L') /\ L'.e = 0 /\ Fields \subseteq DOMAIN L' /\ L'.d = L.d /\ L'.orig = L.orig /\ L'.dqs = L.dqs
          /\ L'.start = L.start
      BY <1>5, <1>7, NextFits DEF Beside
    <2>2. 0 \in 0..(IO_DQS_IN_DELAY_MAX - L.start)
      BY <1>2, <1>3
    <2> QED BY <1>2, <1>6, <1>7, <2>1, <2>2, FitFacts DEF Fits, Locals, Reading, Writing
  <1>8. CASE /\ L.e # IO_IO_IN_DELAY_MAX
             /\ L' = [l1 EXCEPT !.sticky = seen, !.e = l1.e + 1] /\ pc' = "read_left"
    <2>1. /\ Edges(L') /\ L'.e = L.e + 1 /\ Fields \subseteq DOMAIN L' /\ L'.d = L.d /\ L'.orig = L.orig
          /\ L'.dqs = L.dqs /\ L'.start = L.start
      <3>1. l1.e \in Int /\ Fields \subseteq DOMAIN l1
        BY <1>2, <1>3, <1>5 DEF Beside
      <3> QED BY <1>5, <1>8, <3>1 DEF Beside, Edges, Fields
    <2>2. L.e + 1 \in 0..IO_IO_IN_DELAY_MAX
      BY <1>2, <1>3, <1>8
    <2> QED BY <1>2, <1>6, <1>8, <2>1, <2>2, FitFacts DEF Fits, Locals, Reading, Writing
  <1> QED BY <1>1, <1>7, <1>8

LEMMA ReadRightFits == ASSUME Fit, pc \in InGroup, ReadRight PROVE Fits
  <1> DEFINE s1 == scc_mgr_set_dqs_bus_in_delay(S, L.start + L.e)
             chk == CenterTest(s1)
             seen == L.sticky \cup chk
             stop == chk = {} /\ seen = Bits
             l1 == IF stop THEN L ELSE RightEdges(L, chk, InIll)
  <1>1. /\ pc = "read_right" /\ UNCHANGED vfifo /\ StillPhy
        /\ Put(s1) /\ L' = [l1 EXCEPT !.sticky = seen, !.e = l1.e + 1]
        /\ pc' = "read_centre" \/ (pc' = "read_right" /\ L.e # IO_DQS_IN_DELAY_MAX - L.start)
    BY DEF ReadRight, Goto
  <1>2. L.start \in 0..IO_DQS_IN_DELAY_MAX /\ Edges(L) /\ L.e \in 0..(IO_DQS_IN_DELAY_MAX - L.start)
    BY <1>1 DEF Fit, Locals, Reading
  <1>3. /\ L.e \in 0..(Wide - 1) /\ L.start + L.e \in 0..IO_DQS_IN_DELAY_MAX
        /\ (L.e # IO_DQS_IN_DELAY_MAX - L.start => L.e + 1 \in 0..(IO_DQS_IN_DELAY_MAX - L.start))
    <2>1. IO_DQS_IN_DELAY_MAX \in Nat /\ IO_IO_IN_DELAY_MAX \in Nat /\ IO_IO_OUT1_DELAY_MAX \in Nat
      BY PhyAssumption
    <2>2. L.start \in Int /\ L.e \in Int /\ 0 <= L.start /\ 0 <= L.e /\ L.e <= IO_DQS_IN_DELAY_MAX - L.start
      BY <1>2, <2>1
    <2> QED BY <2>1, <2>2 DEF Wide
  <1>4. s1 \in Chains
    BY <1>3, FitFacts, SettersFit
  <1>5. Edges(l1) /\ Beside(L, l1)
    <2> HIDE DEF chk, seen
    <2>1. Beside(L, L)
      BY FitFacts DEF Beside
    <2>2. Edges(RightEdges(L, chk, InIll)) /\ Beside(L, RightEdges(L, chk, InIll))
      BY <1>2, <1>3, FitFacts, EdgesFit
    <2> QED BY <1>2, <2>1, <2>2
  <1> HIDE DEF s1, l1, seen
  <1>6. Chained'
    BY <1>1, <1>4, PutChained
  <1>7. /\ Edges(L') /\ L'.e = L.e + 1 /\ Fields \subseteq DOMAIN L' /\ L'.d = L.d /\ L'.orig = L.orig
        /\ L'.dqs = L.dqs /\ L'.start = L.start
    <2>1. l1.e \in Int /\ Fields \subseteq DOMAIN l1
      BY <1>3, <1>5, PhyAssumption DEF Beside, Wide
    <2> QED BY <1>1, <1>5, <2>1 DEF Beside, Edges, Fields
  <1> QED BY <1>1, <1>2, <1>3, <1>6, <1>7, FitFacts DEF Fits, Locals, Reading, Writing

-----------------------------------------------------------------------------
(***************************************************************************)
(* The centrings.                                                          *)
(***************************************************************************)

LEMMA HalfInt == \A a \in Int : Half(a) \in Int
  <1> SUFFICES ASSUME NEW a \in Int PROVE Half(a) \in Int
    OBVIOUS
  <1>1. a \div 2 \in Int /\ (-a) \div 2 \in Int
    BY DivMod
  <1> QED BY <1>1 DEF Half

LEMMA ClampFits == \A a, hi \in Int : 0 <= hi => Clamp(a, 0, hi) \in 0..hi
  BY DEF Clamp

\* However wide or narrow the windows are, the bits stay within their chains.
LEMMA ShiftFits ==
  ASSUME Edges(L)
  PROVE  /\ MidMin \in Int
         /\ \A moved \in Int, ill \in Nat \ {0} : [i \in Bits |-> Shift(i, moved, ill)] \in [Bits -> 0..(ill - 1)]
  <1> DEFINE T == {Mid(i) : i \in Bits}
  <1>1. \A i \in Bits : Mid(i) \in Int /\ -(2 * Wide) <= Mid(i)
    <2> SUFFICES ASSUME NEW i \in Bits PROVE Mid(i) \in Int /\ -(2 * Wide) <= Mid(i)
      OBVIOUS
    <2>1. L.left[i] \in (-Wide)..Wide /\ L.right[i] \in (-Wide)..Wide /\ Wide \in Nat
      BY NoEdges DEF Edges
    <2> QED BY <2>1 DEF Mid
  <1>2. T \subseteq Int /\ (\A t \in T : -(2 * Wide) <= t) /\ T # {}
    <2>1. 0 \in Bits
      BY PhyAssumption DEF Bits
    <2> QED BY <1>1, <2>1
  <1>3. LeastMid \in Int
    <2>1. -(2 * Wide) \in Int
      BY NoEdges
    <2> HIDE DEF T
    <2>2. Min(T) \in T
      BY <1>2, <2>1, MinBelow, Zenon
    <2> QED BY <1>2, <2>2 DEF LeastMid, T
  <1>4. MidMin \in Int
    BY <1>3, HalfInt DEF MidMin
  <1>5. ASSUME NEW i \in Bits, NEW moved \in Int, NEW ill \in Nat \ {0} PROVE Shift(i, moved, ill) \in 0..(ill - 1)
    <2>1. Half(Mid(i) - LeastMid) \in Int
      BY <1>1, <1>3, HalfInt
    <2>2. Half(Mid(i) - LeastMid) + MidMin - moved \in Int /\ ill - 1 \in Int /\ 0 <= ill - 1
      BY <1>4, <2>1
    <2> QED BY <2>2, ClampFits DEF Shift
  <1> QED BY <1>4, <1>5

LEMMA CenterFailedFits ==
  ASSUME Fit, pc \in InGroup, Chained', NEW gg, CenterFailed(gg)
  PROVE  Fits
  <1>1. \/ L' = [L EXCEPT !.sub = VFIFO_CENTER, !.dqs = L.dqs + 1] /\ pc' = "dqs_in"
        \/ UNCHANGED L /\ pc' = "report"
    BY DEF CenterFailed, GiveUp, Goto
  <1>2. CASE L' = [L EXCEPT !.sub = VFIFO_CENTER, !.dqs = L.dqs + 1] /\ pc' = "dqs_in"
    <2>1. Fields \subseteq DOMAIN L' /\ L'.d = L.d /\ L'.orig = L.orig /\ L'.dqs = L.dqs + 1
      BY <1>2, FitFacts DEF Fields
    <2> QED BY <1>2, <2>1, FitFacts DEF Fits, Locals, Reading, Writing
  <1>3. CASE UNCHANGED L /\ pc' = "report"
    BY <1>3, FitFacts DEF Fits, Locals, InGroup, Searching, Reading, Writing
  <1> QED BY <1>1, <1>2, <1>3

LEMMA ReadWindowlessFits == ASSUME Fit, pc \in InGroup, ReadWindowless PROVE Fits
  <1> DEFINE s1 == scc_mgr_set_dqs_bus_in_delay(S, L.start)
             gg == set_failing_group_stage(
                     gbl, g * DqPerGroup + Min(Windowless(InIll)),
                     IF L.first THEN CAL_STAGE_VFIFO ELSE CAL_STAGE_VFIFO_AFTER_WRITES, VFIFO_CENTER)
  <1>1. pc = "read_centre" /\ Put(s1) /\ CenterFailed(gg) /\ UNCHANGED vfifo /\ StillPhy
    BY DEF ReadWindowless
  <1> HIDE DEF gg
  <1>2. L.start \in 0..IO_DQS_IN_DELAY_MAX
    BY <1>1 DEF Fit, Locals, Reading
  <1>3. s1 \in Chains
    BY <1>2, FitFacts, SettersFit
  <1> HIDE DEF s1
  <1>4. Chained'
    BY <1>1, <1>3, PutChained
  <1> QED BY <1>1, <1>4, CenterFailedFits

LEMMA ReadCentreFits == ASSUME Fit, pc \in InGroup, ReadCentre PROVE Fits
  <1> DEFINE new_dqs == Clamp(L.start - MidMin, 0, IO_DQS_IN_DELAY_MAX)
             moved == L.start - new_dqs
             dq == DqMargin(moved, InIll)
             dqs == DqsMargin(moved, InIll)
             sh == [i \in Bits |-> Shift(i, moved, InIll)]
             s0 == scc_mgr_set_dqs_bus_in_delay(S, new_dqs)
             s1 == scc_mgr_set_dq_in_delay(s0, sh)
             s2 == IF L.d > 0 THEN scc_mgr_zero_group(s1, TRUE) ELSE s1
             gg == IF L.first THEN gbl ELSE [gbl EXCEPT !.fom_in = gbl.fom_in + dq + dqs]
             l1 == StartDeskew(L, OutIll)
  <1>1. /\ pc = "read_centre" /\ UNCHANGED vfifo /\ StillPhy
        /\ \/ Put(s1) /\ CenterFailed(gg)
           \/ Put(s2) /\ pc' = "write_left" /\ L' = [l1 EXCEPT !.start = s2.dqs_out1]
           \/ Put(s1) /\ pc' = "group" /\ L' = [L EXCEPT !.g = L.g + 1]
    BY DEF ReadCentre, Goto
  <1>2. L.start \in 0..IO_DQS_IN_DELAY_MAX /\ Edges(L) /\ IO_DQS_IN_DELAY_MAX \in Nat
    BY <1>1, PhyAssumption DEF Fit, Locals, Reading
  <1>3. new_dqs \in 0..IO_DQS_IN_DELAY_MAX /\ moved \in Int
    <2>1. L.start - MidMin \in Int
      BY <1>2, ShiftFits
    <2>2. new_dqs \in 0..IO_DQS_IN_DELAY_MAX
      <3>1. IO_DQS_IN_DELAY_MAX \in Int /\ 0 <= IO_DQS_IN_DELAY_MAX
        BY <1>2
      <3> QED BY <2>1, <3>1, ClampFits, Zenon
    <2> HIDE DEF new_dqs
    <2> QED BY <1>2, <2>2
  <1> HIDE DEF new_dqs, moved, gg
  <1>4. sh \in [Bits -> 0..IO_IO_IN_DELAY_MAX]
    <2>1. InIll \in Nat \ {0} /\ InIll - 1 = IO_IO_IN_DELAY_MAX
      BY PhyAssumption DEF InIll
    <2>2. sh \in [Bits -> 0..(InIll - 1)]
      BY <1>2, <1>3, <2>1, ShiftFits
    <2> HIDE DEF sh
    <2> QED BY <2>1, <2>2
  <1> HIDE DEF sh
  <1>5. s0 \in Chains
    BY <1>3, FitFacts, SettersFit
  <1> HIDE DEF s0
  <1>6. s1 \in Chains
    BY <1>4, <1>5, SettersFit
  <1> HIDE DEF s1
  <1>7. s2 \in Chains
    BY <1>6, SettersFit
  <1> HIDE DEF s2
  <1>8. Chained'
    BY <1>1, <1>6, <1>7, PutChained
  <1>9. CASE CenterFailed(gg)
    BY <1>8, <1>9, CenterFailedFits
  <1>10. CASE pc' = "write_left" /\ L' = [l1 EXCEPT !.start = s2.dqs_out1]
    <2>1. Fields \subseteq DOMAIN l1 /\ Edges(l1) /\ l1.e = 0 /\ l1.d = L.d /\ l1.orig = L.orig /\ l1.dqs = L.dqs
      BY NoEdges, FitFacts
    <2> HIDE DEF l1
    <2>2. /\ Fields \subseteq DOMAIN L' /\ L'.d = l1.d /\ L'.orig = l1.orig /\ L'.dqs = l1.dqs
          /\ L'.start = s2.dqs_out1 /\ L'.e = l1.e /\ Edges(L')
      BY <1>10, <2>1 DEF Fields, Edges
    <2>3. s2.dqs_out1 \in 0..IO_IO_OUT1_DELAY_MAX
      BY <1>7 DEF Chains
    <2> QED BY <1>8, <1>10, <2>1, <2>2, <2>3, FitFacts, ZeroIn DEF Fits, Locals, Reading, Writing
  <1>11. CASE pc' = "group" /\ L' = [L EXCEPT !.g = L.g + 1]
    <2>1. Fields \subseteq DOMAIN L'
      BY <1>11, FitFacts
    <2> QED BY <1>8, <1>11, <2>1 DEF Fits, Locals, InGroup, Searching, Reading, Writing
  <1> QED BY <1>1, <1>9, <1>10, <1>11

-----------------------------------------------------------------------------
(***************************************************************************)
(* The writes.                                                             *)
(***************************************************************************)

LEMMA WriteLeftFits == ASSUME Fit, pc \in InGroup, WriteLeft PROVE Fits
  <1> DEFINE s1 == scc_mgr_apply_group_dq_out1_delay(S, L.e)
             s0 == scc_mgr_apply_group_dq_out1_delay(S, 0)
             chk == WriteBits(s1, FALSE)
             seen == L.sticky \cup chk
             stop == chk = {} /\ seen = Bits
             l1 == IF stop THEN L ELSE LeftEdges(L, chk, OutIll)
  <1>1. /\ pc = "write_left" /\ UNCHANGED vfifo /\ StillPhy
        /\ \/ Put(s0) /\ L' = NextSearch(l1, OutIll, FALSE) /\ pc' = "write_right"
           \/ /\ L.e # IO_IO_OUT1_DELAY_MAX
              /\ Put(s1) /\ L' = [l1 EXCEPT !.sticky = seen, !.e = l1.e + 1] /\ pc' = "write_left"
    BY DEF WriteLeft, Goto
  <1>2. L.start \in 0..IO_IO_OUT1_DELAY_MAX /\ Edges(L) /\ L.e \in 0..IO_IO_OUT1_DELAY_MAX
    BY <1>1 DEF Fit, Locals, Writing
  <1>3. L.e \in 0..(Wide - 1) /\ IO_IO_OUT1_DELAY_MAX \in Nat
    BY <1>2, PhyAssumption DEF Wide
  <1>4. s0 \in Chains /\ s1 \in Chains
    BY <1>2, FitFacts, ZeroIn, GroupSettersFit
  <1>5. Edges(l1) /\ Beside(L, l1)
    <2> HIDE DEF chk, seen
    <2>1. Beside(L, L)
      BY FitFacts DEF Beside
    <2>2. Edges(LeftEdges(L, chk, OutIll)) /\ Beside(L, LeftEdges(L, chk, OutIll))
      BY <1>2, <1>3, FitFacts, EdgesFit
    <2> QED BY <1>2, <2>1, <2>2
  <1> HIDE DEF s0, s1, l1, seen
  <1>6. Chained'
    BY <1>1, <1>4, PutChained
  <1>7. CASE L' = NextSearch(l1, OutIll, FALSE) /\ pc' = "write_right"
    <2>1. /\ Edges(L') /\ L'.e = 0 /\ Fields \subseteq DOMAIN L' /\ L'.d = L.d /\ L'.orig = L.orig /\ L'.dqs = L.dqs
          /\ L'.start = L.start
      BY <1>5, <1>7, NextFits DEF Beside
    <2>2. 0 \in 0..(IO_IO_OUT1_DELAY_MAX - L.start)
      BY <1>2, <1>3
    <2> QED BY <1>2, <1>6, <1>7, <2>1, <2>2, FitFacts DEF Fits, Locals, Reading, Writing
  <1>8. CASE /\ L.e # IO_IO_OUT1_DELAY_MAX
             /\ L' = [l1 EXCEPT !.sticky = seen, !.e = l1.e + 1] /\ pc' = "write_left"
    <2>1. /\ Edges(L') /\ L'.e = L.e + 1 /\ Fields \subseteq DOMAIN L' /\ L'.d = L.d /\ L'.orig = L.orig
          /\ L'.dqs = L.dqs /\ L'.start = L.start
      <3>1. l1.e \in Int /\ Fields \subseteq DOMAIN l1
        BY <1>2, <1>3, <1>5 DEF Beside
      <3> QED BY <1>5, <1>8, <3>1 DEF Beside, Edges, Fields
    <2>2. L.e + 1 \in 0..IO_IO_OUT1_DELAY_MAX
      BY <1>2, <1>3, <1>8
    <2> QED BY <1>2, <1>6, <1>8, <2>1, <2>2, FitFacts DEF Fits, Locals, Reading, Writing
  <1> QED BY <1>1, <1>7, <1>8

LEMMA WriteRightFits == ASSUME Fit, pc \in InGroup, WriteRight PROVE Fits
  <1> DEFINE s1 == scc_mgr_apply_group_dqs_io_and_oct_out1(S, L.start + L.e)
             chk == WriteBits(s1, FALSE)
             seen == L.sticky \cup chk
             stop == chk = {} /\ seen = Bits
             l0 == [L EXCEPT !.right = [i \in Bits |->
                      IF L.e = 0 /\ L.right[i] = OutIll /\ L.left[i] # OutIll THEN -1 ELSE L.right[i]]]
             l1 == IF ~stop THEN RightEdges(L, chk, OutIll) ELSE l0
  <1>1. /\ pc = "write_right" /\ UNCHANGED vfifo /\ StillPhy
        /\ Put(s1) /\ L' = [l1 EXCEPT !.sticky = seen, !.e = l1.e + 1]
        /\ pc' = "write_centre" \/ (pc' = "write_right" /\ L.e # IO_IO_OUT1_DELAY_MAX - L.start)
    BY DEF WriteRight, Goto
  <1>2. L.start \in 0..IO_IO_OUT1_DELAY_MAX /\ Edges(L) /\ L.e \in 0..(IO_IO_OUT1_DELAY_MAX - L.start)
    BY <1>1 DEF Fit, Locals, Writing
  <1>3. /\ L.e \in 0..(Wide - 1) /\ L.start + L.e \in 0..IO_IO_OUT1_DELAY_MAX
        /\ (L.e # IO_IO_OUT1_DELAY_MAX - L.start => L.e + 1 \in 0..(IO_IO_OUT1_DELAY_MAX - L.start))
    <2>1. IO_DQS_IN_DELAY_MAX \in Nat /\ IO_IO_IN_DELAY_MAX \in Nat /\ IO_IO_OUT1_DELAY_MAX \in Nat
      BY PhyAssumption
    <2>2. L.start \in Int /\ L.e \in Int /\ 0 <= L.start /\ 0 <= L.e /\ L.e <= IO_IO_OUT1_DELAY_MAX - L.start
      BY <1>2, <2>1
    <2> QED BY <2>1, <2>2 DEF Wide
  <1>4. s1 \in Chains
    BY <1>3, FitFacts, GroupSettersFit
  <1>5. Edges(l1) /\ Beside(L, l1)
    <2> HIDE DEF chk, seen
    <2>1. Edges(l0) /\ Beside(L, l0)
      <3>1. -1 \in (-Wide)..Wide
        BY <1>3, NoEdges
      <3> QED BY <1>2, <3>1, FitFacts DEF Beside, Edges, Fields
    <2>2. Edges(RightEdges(L, chk, OutIll)) /\ Beside(L, RightEdges(L, chk, OutIll))
      BY <1>2, <1>3, FitFacts, EdgesFit
    <2> HIDE DEF l0
    <2> QED BY <2>1, <2>2
  <1> HIDE DEF s1, l1, seen
  <1>6. Chained'
    BY <1>1, <1>4, PutChained
  <1>7. /\ Edges(L') /\ L'.e = L.e + 1 /\ Fields \subseteq DOMAIN L' /\ L'.d = L.d /\ L'.orig = L.orig
        /\ L'.dqs = L.dqs /\ L'.start = L.start
    <2>1. l1.e \in Int /\ Fields \subseteq DOMAIN l1
      BY <1>3, <1>5, PhyAssumption DEF Beside, Wide
    <2> QED BY <1>1, <1>5, <2>1 DEF Beside, Edges, Fields
  <1> QED BY <1>1, <1>2, <1>3, <1>6, <1>7, FitFacts DEF Fits, Locals, Reading, Writing

LEMMA WriteCentreFits == ASSUME Fit, pc \in InGroup, WriteCentre PROVE Fits
  <1> DEFINE sh == [i \in Bits |-> Shift(i, 0, OutIll)]
             s0 == scc_mgr_apply_group_dqs_io_and_oct_out1(S, L.start)
             s1 == scc_mgr_set_dq_out1_delay(s0, sh)
             a == DqMargin(0, OutIll)
             b == DqsMargin(0, OutIll)
  <1>1. /\ pc = "write_centre" /\ UNCHANGED vfifo /\ StillPhy
        /\ \/ UNCHANGED <<scc, L>> /\ pc' = "report"
           \/ /\ Put(s1) /\ pc' = "dm_left"
              /\ L' = [L EXCEPT !.dq = a, !.dqsm = b, !.e = IO_IO_OUT1_DELAY_MAX, !.curr = << >>, !.best = << >>]
    BY DEF WriteCentre, Goto, GiveUp
  <1> HIDE DEF a, b
  <1>2. L.start \in 0..IO_IO_OUT1_DELAY_MAX /\ Edges(L) /\ IO_IO_OUT1_DELAY_MAX \in Nat
    BY <1>1, PhyAssumption DEF Fit, Locals, Writing
  <1>3. CASE UNCHANGED <<scc, L>> /\ pc' = "report"
    BY <1>1, <1>3, FitFacts DEF Fits, Fit, Chained, Locals, StillPhy, InGroup, Searching, Reading, Writing
  <1>4. CASE /\ Put(s1) /\ pc' = "dm_left"
             /\ L' = [L EXCEPT !.dq = a, !.dqsm = b, !.e = IO_IO_OUT1_DELAY_MAX, !.curr = << >>, !.best = << >>]
    <2>1. sh \in [Bits -> 0..IO_IO_OUT1_DELAY_MAX]
      <3>1. OutIll \in Nat \ {0} /\ OutIll - 1 = IO_IO_OUT1_DELAY_MAX /\ 0 \in Int
        BY PhyAssumption DEF OutIll
      <3>2. sh \in [Bits -> 0..(OutIll - 1)]
        BY <1>2, <3>1, ShiftFits
      <3> HIDE DEF sh
      <3> QED BY <3>1, <3>2
    <2> HIDE DEF sh
    <2>2. s0 \in Chains
      BY <1>2, FitFacts, GroupSettersFit
    <2> HIDE DEF s0
    <2>3. s1 \in Chains
      BY <2>1, <2>2, SettersFit
    <2> HIDE DEF s1
    <2>4. Chained'
      BY <1>1, <1>4, <2>3, PutChained
    <2>5. /\ Fields \subseteq DOMAIN L' /\ L'.d = L.d /\ L'.orig = L.orig /\ L'.dqs = L.dqs /\ L'.start = L.start
          /\ L'.e = IO_IO_OUT1_DELAY_MAX /\ L'.curr = << >> /\ L'.best = << >> /\ Edges(L')
      BY <1>2, <1>4, FitFacts DEF Fields, Edges
    <2>6. IO_IO_OUT1_DELAY_MAX \in 0..IO_IO_OUT1_DELAY_MAX
      BY <1>2
    <2> QED BY <1>2, <1>4, <2>4, <2>5, <2>6, FitFacts DEF Fits, Locals, Reading, Writing, Window
  <1> QED BY <1>1, <1>3, <1>4

\* One more attempt with the mask: the windows still begin within the chain.
LEMMA ExtendFits ==
  ASSUME NEW l, Fields \subseteq DOMAIN l, NEW hi \in Int, Window(l.curr, hi), Window(l.best, hi),
         NEW at \in Int, -IO_IO_OUT1_DELAY_MAX <= at, hi <= at + 1, NEW ok
  PROVE  LET m == Extend(l, at, ok)
         IN  /\ Window(m.curr, at + 1) /\ Window(m.best, at + 1) /\ Beside(l, m)
             /\ m.left = l.left /\ m.right = l.right
  <1> DEFINE curr == IF ~ok THEN << >> ELSE IF l.curr = << >> THEN <<at, at>> ELSE <<l.curr[1], at>>
             best == IF Width(curr) > Width(l.best) THEN curr ELSE l.best
             m == Extend(l, at, ok)
  <1>0. IO_IO_OUT1_DELAY_MAX \in Nat
    BY PhyAssumption
  <1>1. Window(curr, at + 1)
    <2>1. CASE ~ok
      BY <2>1 DEF Window
    <2>2. CASE ok /\ l.curr = << >>
      <3>1. curr = <<at, at>> /\ at <= at /\ at < at + 1
        BY <2>2
      <3> QED BY <3>1 DEF Window
    <2>3. CASE ok /\ l.curr # << >>
      <3>1. PICK a, b \in Int : l.curr = <<a, b>> /\ -IO_IO_OUT1_DELAY_MAX <= a /\ a <= b /\ b < hi
        BY <2>3 DEF Window
      <3>2. curr = <<a, at>> /\ a <= at /\ at < at + 1
        BY <2>3, <3>1
      <3> QED BY <3>1, <3>2 DEF Window
    <2> QED BY <2>1, <2>2, <2>3
  <1>2. Window(l.best, at + 1)
    <2>1. CASE l.best = << >>
      BY <2>1 DEF Window
    <2>2. CASE l.best # << >>
      <3>1. PICK a, b \in Int : l.best = <<a, b>> /\ -IO_IO_OUT1_DELAY_MAX <= a /\ a <= b /\ b < hi
        BY <2>2 DEF Window
      <3>2. b < at + 1
        BY <3>1
      <3> QED BY <3>1, <3>2 DEF Window
    <2> QED BY <2>1, <2>2
  <1>3. m = [l EXCEPT !.curr = curr, !.best = best]
    BY DEF Extend
  <1> HIDE DEF curr
  <1>4. Window(best, at + 1)
    BY <1>1, <1>2
  <1> HIDE DEF best, m
  <1>5. m.curr = curr /\ m.best = best /\ Beside(l, m) /\ m.left = l.left /\ m.right = l.right
    BY <1>3 DEF Beside, Fields
  <1> QED BY <1>1, <1>4, <1>5 DEF m

LEMMA DmLeftFits == ASSUME Fit, pc \in InGroup, DmLeft PROVE Fits
  <1> DEFINE s1 == scc_mgr_apply_group_dm_out1_delay(S, L.e)
             s0 == scc_mgr_apply_group_dm_out1_delay(S, 0)
             ok == WriteBits(s1, TRUE) = Bits
             l1 == Extend(L, -L.e, ok)
  <1>1. /\ pc = "dm_left" /\ UNCHANGED vfifo /\ StillPhy
        /\ \/ L.e > 0 /\ Put(s1) /\ L' = [l1 EXCEPT !.e = l1.e - 1] /\ pc' = "dm_left"
           \/ ~(L.e > 0) /\ Put(s0) /\ L' = l1 /\ pc' = "dm_right"
    BY DEF DmLeft, Goto
  <1>2. /\ L.start \in 0..IO_IO_OUT1_DELAY_MAX /\ Edges(L) /\ L.e \in 0..IO_IO_OUT1_DELAY_MAX
        /\ Window(L.curr, -L.e) /\ Window(L.best, -L.e) /\ IO_IO_OUT1_DELAY_MAX \in Nat
    BY <1>1, PhyAssumption DEF Fit, Locals, Writing
  <1>3. s0 \in Chains /\ s1 \in Chains
    BY <1>2, FitFacts, ZeroIn, GroupSettersFit
  <1> HIDE DEF s0, s1, ok
  <1>4. /\ Window(l1.curr, -L.e + 1) /\ Window(l1.best, -L.e + 1) /\ Beside(L, l1)
        /\ l1.left = L.left /\ l1.right = L.right
    <2>1. -L.e \in Int /\ -IO_IO_OUT1_DELAY_MAX <= -L.e /\ -L.e <= -L.e + 1
      BY <1>2
    <2> QED BY <1>2, <2>1, FitFacts, ExtendFits
  <1> HIDE DEF l1
  <1>5. Chained'
    BY <1>1, <1>3, PutChained
  <1>6. CASE L.e > 0 /\ L' = [l1 EXCEPT !.e = l1.e - 1] /\ pc' = "dm_left"
    <2>1. /\ Fields \subseteq DOMAIN L' /\ L'.d = L.d /\ L'.orig = L.orig /\ L'.dqs = L.dqs /\ L'.start = L.start
          /\ L'.e = L.e - 1 /\ L'.curr = l1.curr /\ L'.best = l1.best /\ L'.left = L.left /\ L'.right = L.right
      BY <1>4, <1>6 DEF Fields, Beside
    <2>2. L.e - 1 \in 0..IO_IO_OUT1_DELAY_MAX /\ -(L.e - 1) = -L.e + 1
      BY <1>2, <1>6
    <2>3. Window(L'.curr, -L'.e) /\ Window(L'.best, -L'.e)
      BY <1>4, <2>1, <2>2
    <2> QED BY <1>2, <1>5, <1>6, <2>1, <2>2, <2>3, FitFacts DEF Fits, Locals, Reading, Writing, Edges
  <1>7. CASE ~(L.e > 0) /\ L' = l1 /\ pc' = "dm_right"
    <2>1. L.e = 0 /\ L'.e = 0 /\ 0 \in 0..(IO_IO_OUT1_DELAY_MAX - L.start) /\ -L.e + 1 = 0 + 1
      BY <1>2, <1>4, <1>7 DEF Beside
    <2>2. Window(L'.curr, L'.e + 1) /\ Window(L'.best, L'.e + 1)
      BY <1>4, <1>7, <2>1
    <2>3. /\ Fields \subseteq DOMAIN L' /\ L'.d = L.d /\ L'.orig = L.orig /\ L'.dqs = L.dqs /\ L'.start = L.start
          /\ L'.left = L.left /\ L'.right = L.right
      BY <1>4, <1>7 DEF Beside
    <2> QED BY <1>2, <1>5, <1>7, <2>1, <2>2, <2>3, FitFacts DEF Fits, Locals, Reading, Writing, Edges
  <1> QED BY <1>1, <1>6, <1>7

LEMMA DmRightFits == ASSUME Fit, pc \in InGroup, DmRight PROVE Fits
  <1> DEFINE s1 == scc_mgr_apply_group_dqs_io_and_oct_out1(S, L.start + L.e)
             ok == WriteBits(s1, TRUE) = Bits
             left == IO_IO_OUT1_DELAY_MAX - L.start - L.e
             l1 == Extend(L, L.e, ok)
  <1>1. /\ pc = "dm_right" /\ UNCHANGED vfifo /\ StillPhy /\ Put(s1)
        /\ L' = [l1 EXCEPT !.e = l1.e + 1]
        /\ pc' = "dm_centre" \/ (pc' = "dm_right" /\ left # 0)
    BY DEF DmRight, Goto
  <1>2. /\ L.start \in 0..IO_IO_OUT1_DELAY_MAX /\ Edges(L) /\ L.e \in 0..(IO_IO_OUT1_DELAY_MAX - L.start)
        /\ Window(L.curr, L.e + 1) /\ Window(L.best, L.e + 1) /\ IO_IO_OUT1_DELAY_MAX \in Nat
    BY <1>1, PhyAssumption DEF Fit, Locals, Writing
  <1>3. /\ L.start + L.e \in 0..IO_IO_OUT1_DELAY_MAX /\ L.e \in Int /\ -IO_IO_OUT1_DELAY_MAX <= L.e
        /\ L.e + 1 \in Int /\ L.e <= IO_IO_OUT1_DELAY_MAX
        /\ (left # 0 => L.e + 1 \in 0..(IO_IO_OUT1_DELAY_MAX - L.start))
    <2>1. L.start \in Int /\ L.e \in Int /\ 0 <= L.start /\ 0 <= L.e /\ L.e <= IO_IO_OUT1_DELAY_MAX - L.start
      BY <1>2
    <2> QED BY <1>2, <2>1
  <1>4. s1 \in Chains
    BY <1>3, FitFacts, GroupSettersFit
  <1> HIDE DEF s1, ok
  <1>5. /\ Window(l1.curr, L.e + 1) /\ Window(l1.best, L.e + 1) /\ Beside(L, l1)
        /\ l1.left = L.left /\ l1.right = L.right
    <2>1. L.e + 1 <= L.e + 1
      BY <1>3
    <2> QED BY <1>2, <1>3, <2>1, FitFacts, ExtendFits
  <1> HIDE DEF l1
  <1>6. Chained'
    BY <1>1, <1>4, PutChained
  <1>7. /\ Fields \subseteq DOMAIN L' /\ L'.d = L.d /\ L'.orig = L.orig /\ L'.dqs = L.dqs /\ L'.start = L.start
        /\ L'.e = L.e + 1 /\ L'.curr = l1.curr /\ L'.best = l1.best /\ L'.left = L.left /\ L'.right = L.right
    BY <1>1, <1>5 DEF Fields, Beside
  <1>8. \A w, hi : Window(w, L.e + 1) /\ hi \in Int /\ L.e + 1 <= hi => Window(w, hi)
    BY <1>3 DEF Window
  <1>9. Window(L'.curr, L'.e + 1) /\ Window(L'.best, L'.e + 1) /\ Window(L'.best, IO_IO_OUT1_DELAY_MAX + 1)
    <2>1. L.e + 1 + 1 \in Int /\ L.e + 1 <= L.e + 1 + 1 /\ IO_IO_OUT1_DELAY_MAX + 1 \in Int
            /\ L.e + 1 <= IO_IO_OUT1_DELAY_MAX + 1
      BY <1>2, <1>3
    <2> QED BY <1>5, <1>7, <1>8, <2>1
  <1> QED BY <1>1, <1>2, <1>3, <1>6, <1>7, <1>9, FitFacts DEF Fits, Locals, Reading, Writing, Edges

\* The middle of the widest window, moved right only, is within the chain.
LEMMA MaskMiddle ==
  ASSUME NEW w, Window(w, IO_IO_OUT1_DELAY_MAX + 1)
  PROVE  (IF w = << >> THEN 0 ELSE Max({0, Half(-w[1] - w[2])})) \in 0..IO_IO_OUT1_DELAY_MAX
  <1>0. IO_IO_OUT1_DELAY_MAX \in Nat
    BY PhyAssumption
  <1>1. CASE w = << >>
    BY <1>0, <1>1
  <1>2. CASE w # << >>
    <2>1. PICK a, b \in Int : w = <<a, b>> /\ -IO_IO_OUT1_DELAY_MAX <= a /\ a <= b
      BY <1>2 DEF Window
    <2> DEFINE x == -a - b
               h == Half(x)
    <2>2. x \in Int /\ x <= 2 * IO_IO_OUT1_DELAY_MAX /\ Half(-w[1] - w[2]) = h
      BY <1>0, <2>1
    <2>3. h \in Int /\ h <= IO_IO_OUT1_DELAY_MAX
      <3> HIDE DEF x
      <3>1. x \div 2 \in Int /\ 2 * (x \div 2) <= x /\ (-x) \div 2 \in Int /\ x < 2 * (x \div 2) + 2
             /\ -x < 2 * ((-x) \div 2) + 2
        BY <2>2, DivMod
      <3> QED BY <1>0, <2>2, <3>1 DEF Half
    <2> HIDE DEF h
    <2>4. Max({0, h}) \in {0, h} /\ Max({0, h}) >= 0
      <3>1. \E m \in {0, h} : \A y \in {0, h} : m >= y
        BY <2>3
      <3> QED BY <2>3, <3>1 DEF Max
    <2>5. Max({0, h}) \in 0..IO_IO_OUT1_DELAY_MAX
      BY <1>0, <2>3, <2>4
    <2> HIDE DEF x
    <2> QED BY <1>2, <2>2, <2>5, Zenon
  <1> QED BY <1>1, <1>2

LEMMA DmCentreFits == ASSUME Fit, pc \in InGroup, DmCentre PROVE Fits
  <1> DEFINE mid == IF L.best = << >> THEN 0 ELSE Max({0, Half(-L.best[1] - L.best[2])})
             s0 == scc_mgr_apply_group_dqs_io_and_oct_out1(S, L.start)
             s1 == scc_mgr_apply_group_dm_out1_delay(s0, mid)
             l1 == StartDeskew(L, InIll)
             in == S.dqs_in
  <1>1. /\ pc = "dm_centre" /\ UNCHANGED vfifo /\ StillPhy /\ Put(s1)
        /\ \/ pc' = "read_left" /\ L' = [l1 EXCEPT !.start = in, !.first = FALSE]
           \/ pc' = "report" /\ UNCHANGED L
    BY DEF DmCentre, Goto, GiveUp
  <1>2. L.start \in 0..IO_IO_OUT1_DELAY_MAX /\ Window(L.best, IO_IO_OUT1_DELAY_MAX + 1)
    BY <1>1 DEF Fit, Locals, Writing
  <1>3. mid \in 0..IO_IO_OUT1_DELAY_MAX
    BY <1>2, MaskMiddle
  <1> HIDE DEF mid
  <1>4. s0 \in Chains
    BY <1>2, FitFacts, GroupSettersFit
  <1> HIDE DEF s0
  <1>5. s1 \in Chains
    BY <1>3, <1>4, GroupSettersFit
  <1> HIDE DEF s1
  <1>6. Chained'
    BY <1>1, <1>5, PutChained
  <1>7. CASE pc' = "read_left" /\ L' = [l1 EXCEPT !.start = in, !.first = FALSE]
    <2>1. Fields \subseteq DOMAIN l1 /\ Edges(l1) /\ l1.e = 0 /\ l1.d = L.d /\ l1.orig = L.orig /\ l1.dqs = L.dqs
      BY NoEdges, FitFacts
    <2>2. in \in 0..IO_DQS_IN_DELAY_MAX
      BY FitFacts DEF Chains
    <2> HIDE DEF l1, in
    <2>3. /\ Fields \subseteq DOMAIN L' /\ L'.d = l1.d /\ L'.orig = l1.orig /\ L'.dqs = l1.dqs
          /\ L'.start = in /\ L'.e = l1.e /\ Edges(L')
      BY <1>7, <2>1 DEF Fields, Edges
    <2> QED BY <1>6, <1>7, <2>1, <2>2, <2>3, FitFacts, ZeroIn DEF Fits, Locals, Reading, Writing
  <1>8. CASE pc' = "report" /\ UNCHANGED L
    BY <1>6, <1>8, FitFacts DEF Fits, Locals, InGroup, Searching, Reading, Writing
  <1> QED BY <1>1, <1>7, <1>8

-----------------------------------------------------------------------------
(***************************************************************************)
(* The registers and the memory.                                           *)
(***************************************************************************)

Memory == [mr1: {"none", "calib", "user"}, rows: {"closed", "open"}, patterns: BOOLEAN]

Registers ==
  /\ phy.rlat \in 0..MaxLatency
  /\ pc \in InGroup \cup {"group"} => phy.rlat \in 1..(MaxLatency - 1)
  /\ trk.stall \in {"no", "requested", "acked"} /\ pass \in BOOLEAN /\ mem \in Memory

Ranges == Fit /\ Registers

\* What the steps inside a group do to the memory and to the result.
LEMMA GroupRest ==
  ASSUME mem \in Memory, pass \in BOOLEAN, DelayLoop \/ DqsInLoop \/ Search \/ Deskew
  PROVE  mem' \in Memory /\ pass' \in BOOLEAN
  <1>1. CASE DelayLoop
    <2> DEFINE s1 == IF L.d > 0 THEN scc_mgr_apply_group_all_out_delay_add(S, L.d) ELSE S
               ok == Accessible /\ rw_mgr_mem_calibrate_read_load_patterns(B, s1)
    <2>1. (mem' = mem \/ mem' = [mem EXCEPT !.patterns = ok]) /\ (pass' = pass \/ pass' = FALSE)
      BY <1>1 DEF DelayLoop, GiveUp, Goto
    <2>2. ok \in BOOLEAN
      BY DEF Accessible, rw_mgr_mem_calibrate_read_load_patterns, CkOk
    <2> HIDE DEF ok
    <2> QED BY <2>1, <2>2 DEF Memory
  <1>2. CASE DqsInLoop
    BY <1>2 DEF DqsInLoop, Goto
  <1>3. CASE Search
    BY <1>3 DEF Search, FindFailing, FindFirst, BackOff, Forward, RightEdge, DtapsPerPtap, Centre, NotFound, Goto
  <1>4. CASE Deskew
    BY <1>4 DEF Deskew, ReadLeft, ReadRight, ReadWindowless, ReadCentre, WriteLeft, WriteRight,
       WriteCentre, DmLeft, DmRight, DmCentre, CenterFailed, GiveUp, Goto
  <1> QED BY <1>1, <1>2, <1>3, <1>4

LEMMA GroupFits ==
  ASSUME Ranges, DelayLoop \/ DqsInLoop \/ Search \/ Deskew
  PROVE  Ranges'
  <1>1. pc \in InGroup /\ Inner /\ SeqInv
    BY InGroupStep DEF Ranges, Fit
  <1>2. SeqInv'
    BY <1>1, InnerKeeps
  <1>3. Fits
    BY <1>1, DelayFits, DqsInFits, FindFailingFits, FindFirstFits, BackOffFits, ForwardFits, RightEdgeFits, DtapsFits,
       CentreFits, ReadLeftFits, ReadRightFits, ReadWindowlessFits, ReadCentreFits, WriteLeftFits, WriteRightFits,
       WriteCentreFits, DmLeftFits, DmRightFits, DmCentreFits DEF Search, Deskew, Ranges
  <1>4. mem' \in Memory /\ pass' \in BOOLEAN
    BY GroupRest DEF Ranges, Registers
  <1>5. phy' = phy /\ trk'.stall = trk.stall
    BY <1>1 DEF Inner, Frame
  <1> QED BY <1>1, <1>2, <1>3, <1>4, <1>5 DEF Ranges, Registers, Fit, Fits

\* Outside the groups the locals hardly matter.
Outside == {"boot", "run", "stall", "group", "report", "resume", "idle"}
LEMMA OutsideLocals ==
  ASSUME pc \in Outside, Fields \subseteq DOMAIN L
  PROVE  Locals
  BY DEF Outside, Locals, InGroup, Searching, Reading, Writing

LEMMA RangesStart == Init => Ranges
  <1> SUFFICES ASSUME Init PROVE Ranges
    OBVIOUS
  <1>1. SeqInv
    BY Start
  <1>2. scc \in [Groups -> Chains]
    <2>1. [i \in Bits |-> 0] \in [Bits -> 0..IO_IO_IN_DELAY_MAX] /\ [i \in Bits |-> 0] \in [Bits -> 0..IO_IO_OUT1_DELAY_MAX]
      BY ZeroIn
    <2> QED BY <2>1, ZeroIn DEF Init, Chains
  <1>3. Chained
    <2>1. 0 \in 0..(VFIFO_SIZE - 1)
      BY PhyAssumption
    <2>2. vfifo \in [Groups -> 0..(VFIFO_SIZE - 1)]
      BY <2>1 DEF Init
    <2>3. "dtaps" \in DOMAIN trk /\ trk.dtaps = 0
      BY DEF Init
    <2> QED BY <1>2, <2>2, <2>3, ZeroIn DEF Chained
  <1>4. Locals
    <2>1. Fields \subseteq DOMAIN L /\ pc \in Outside
      BY DEF Init, NoLocals, Fields, Outside
    <2> QED BY <2>1, OutsideLocals
  <1>5. Registers
    <2>1. phy.rlat = 0 /\ 0 \in 0..MaxLatency
      BY SequencerAssumption DEF Init
    <2>2. trk.stall = "no" /\ pass \in BOOLEAN
      BY DEF Init
    <2>3. mem \in Memory
      BY DEF Init, Memory
    <2>4. pc \notin InGroup \cup {"group"}
      BY DEF Init, InGroup, Searching, Reading, Writing
    <2> QED BY <2>1, <2>2, <2>3, <2>4 DEF Registers
  <1> QED BY <1>1, <1>3, <1>4, <1>5 DEF Ranges, Fit

LEMMA mainFits == ASSUME Ranges, main PROVE Ranges'
  <1>1. pc' = "run" /\ UNCHANGED <<scc, vfifo, mem, phy, L, pass>>
        /\ trk' = [trk EXCEPT !.dtaps = dtaps_per_ptap, !.told = TRUE]
    BY DEF main, Goto, initialize_tracking
  <1>2. SeqInv'
    BY mainKeeps DEF Ranges, Fit
  <1>3. "dtaps" \in DOMAIN trk' /\ trk'.dtaps = dtaps_per_ptap /\ trk'.stall = trk.stall
    BY <1>1 DEF Ranges, Fit, Chained, SeqInv, Shape
  <1>4. Chained'
    BY <1>1, <1>3, DtapsRange, PhyAssumption DEF Ranges, Fit, Chained
  <1>5. Locals'
    BY <1>1 DEF Ranges, Fit, Locals, InGroup, Searching, Reading, Writing
  <1>6. Registers'
    BY <1>1, <1>3 DEF Ranges, Registers, InGroup, Searching, Reading, Writing
  <1> QED BY <1>2, <1>4, <1>5, <1>6 DEF Ranges, Fit

LEMMA StallFits == ASSUME Ranges, StallTracking PROVE Ranges'
  <1>1. /\ pc' = "stall" /\ UNCHANGED <<scc, vfifo, mem, L, pass>>
        /\ phy' = [phy EXCEPT !.status = "reset"] /\ trk' = [trk EXCEPT !.stall = "requested"]
    BY DEF StallTracking, Goto
  <1>2. SeqInv'
    BY StallKeeps DEF Ranges, Fit
  <1>3. "dtaps" \in DOMAIN trk' /\ trk'.dtaps = trk.dtaps /\ trk'.stall = "requested" /\ phy'.rlat = phy.rlat
    BY <1>1 DEF Ranges, Fit, Chained, SeqInv, Shape
  <1>4. Chained'
    BY <1>1, <1>3 DEF Ranges, Fit, Chained
  <1>5. Locals'
    BY <1>1 DEF Ranges, Fit, Locals, InGroup, Searching, Reading, Writing
  <1>6. Registers'
    BY <1>1, <1>3 DEF Ranges, Registers, InGroup, Searching, Reading, Writing
  <1> QED BY <1>2, <1>4, <1>5, <1>6 DEF Ranges, Fit

LEMMA AcksFits == ASSUME Ranges, TrackerAcks PROVE Ranges'
  <1>1. UNCHANGED <<pc, scc, vfifo, mem, phy, L, pass>> /\ trk' = [trk EXCEPT !.stall = "acked"]
    BY DEF TrackerAcks
  <1>2. SeqInv'
    BY AcksKeeps DEF Ranges, Fit
  <1>3. "dtaps" \in DOMAIN trk' /\ trk'.dtaps = trk.dtaps /\ trk'.stall = "acked"
    BY <1>1 DEF Ranges, Fit, Chained, SeqInv, Shape
  <1>4. Chained'
    BY <1>1, <1>3 DEF Ranges, Fit, Chained
  <1>5. Locals'
    BY <1>1 DEF Ranges, Fit, Locals, Edges, Window
  <1>6. Registers'
    BY <1>1, <1>3 DEF Ranges, Registers
  <1> QED BY <1>2, <1>4, <1>5, <1>6 DEF Ranges, Fit

LEMMA StartFits == ASSUME Ranges, StartCalibration PROVE Ranges'
  <1>1. pc' = "group" /\ UNCHANGED <<vfifo, trk, pass>> /\ L' = NoLocals
    BY DEF StartCalibration, Goto
  <1>2. SeqInv'
    BY StartKeeps DEF Ranges, Fit
  <1>3. scc' \in [Groups -> Chains]
    <2>1. scc' = [x \in Groups |-> scc_mgr_zero_all(scc_set_bypass_mode(scc[x], TRUE))]
      BY DEF StartCalibration
    <2>2. \A x \in Groups : scc_mgr_zero_all(scc_set_bypass_mode(scc[x], TRUE)) \in Chains
      <3>1. ASSUME NEW x \in Groups PROVE scc_mgr_zero_all(scc_set_bypass_mode(scc[x], TRUE)) \in Chains
        <4>1. scc[x] \in Chains
          BY DEF Ranges, Fit, Chained
        <4>2. scc_set_bypass_mode(scc[x], TRUE) \in Chains
          BY <4>1, SettersFit
        <4> QED BY <4>2, SettersFit
      <3> QED BY <3>1
    <2> QED BY <2>1, <2>2
  <1>4. Chained'
    BY <1>1, <1>3 DEF Ranges, Fit, Chained
  <1>5. Locals'
    <2>1. Fields \subseteq DOMAIN L'
      BY <1>1 DEF NoLocals, Fields
    <2> QED BY <1>1, <2>1 DEF Locals, InGroup, Searching, Reading, Writing
  <1>6. phy'.rlat = ReadLatency + LatencySlack
    <2>1. phy'.rlat = Min({ReadLatency + LatencySlack, MaxLatency})
      BY DEF StartCalibration, initialize, ClockStable, mem_config, Ranges, Fit, SeqInv, Shape
    <2> QED BY <2>1, MinOfTwo, SequencerAssumption
  <1>7. mem' \in Memory
    BY DEF StartCalibration, mem_precharge_and_activate, rw_mgr_mem_initialize, Memory
  <1>8. Registers'
    BY <1>1, <1>6, <1>7, SequencerAssumption DEF Ranges, Registers
  <1> QED BY <1>2, <1>4, <1>5, <1>8 DEF Ranges, Fit

LEMMA GroupStartFits == ASSUME Ranges, GroupStart PROVE Ranges'
  <1> DEFINE s1 == scc_mgr_zero_group(S, FALSE)
  <1>1. /\ pc = "group" /\ L.g < NumGroups /\ pc' = "delay" /\ Put(s1)
        /\ UNCHANGED <<vfifo, mem, phy, trk, pass>> /\ L' = [NoLocals EXCEPT !.g = L.g]
    BY DEF GroupStart, Goto, StillPhy, g
  <1>2. SeqInv'
    BY GroupStartKeeps DEF Ranges, Fit
  <1>3. s1 \in Chains
    <2>1. L.g \in Groups
      BY <1>1, PhyAssumption DEF Ranges, Fit, SeqInv, Owner, Groups
    <2>2. S \in Chains
      BY <2>1 DEF Ranges, Fit, Chained, S, g
    <2> QED BY <2>2, SettersFit
  <1> HIDE DEF s1
  <1>4. Chained'
    BY <1>1, <1>3, PutFits DEF Ranges, Fit, Chained
  <1>5. Locals'
    <2>1. Fields \subseteq DOMAIN L' /\ L'.d = 0 /\ L'.orig = 0 /\ L'.dqs = 0
      BY <1>1 DEF NoLocals, Fields
    <2> QED BY <1>1, <2>1, ZeroIn DEF Locals, Reading, Writing
  <1>6. Registers'
    BY <1>1 DEF Ranges, Registers, InGroup
  <1> QED BY <1>2, <1>4, <1>5, <1>6 DEF Ranges, Fit

LEMMA GroupsDoneFits == ASSUME Ranges, GroupsDone PROVE Ranges'
  <1> DEFINE p == Accessible /\ \A x \in Groups : rw_mgr_mem_calibrate_read_load_patterns(board[x], scc[x])
  <1>1. /\ pc = "group" /\ pc' = "lfifo" /\ UNCHANGED <<scc, vfifo, phy, trk, pass>>
        /\ L' = [L EXCEPT !.d = phy.rlat, !.first = TRUE] /\ mem' = [mem EXCEPT !.patterns = p]
    BY DEF GroupsDone, Goto, StillPhy
  <1>2. SeqInv'
    BY GroupsDoneKeeps DEF Ranges, Fit
  <1>3. p \in BOOLEAN
    OBVIOUS
  <1> HIDE DEF p
  <1>4. Chained'
    BY <1>1 DEF Ranges, Fit, Chained
  <1>5. Locals'
    <2>1. Fields \subseteq DOMAIN L' /\ L'.d = phy.rlat /\ L'.first
      BY <1>1 DEF Ranges, Fit, Locals, Fields
    <2>2. phy.rlat \in 1..(MaxLatency - 1)
      BY <1>1 DEF Ranges, Registers
    <2> QED BY <1>1, <2>1, <2>2 DEF Locals, InGroup, Searching, Reading, Writing
  <1>6. mem' \in Memory
    BY <1>1, <1>3 DEF Ranges, Registers, Memory
  <1>7. Registers'
    BY <1>1, <1>6 DEF Ranges, Registers, InGroup, Searching, Reading, Writing
  <1> QED BY <1>2, <1>4, <1>5, <1>7 DEF Ranges, Fit

LEMMA LfifoFits == ASSUME Ranges, rw_mgr_mem_calibrate_lfifo PROVE Ranges'
  <1> DEFINE test(x) == rw_mgr_mem_calibrate_read_test(board[x], scc[x], vfifo[x], Accessible /\ mem.patterns, L.d)
             ok == \A x \in Groups : test(x) = Bits
             curr == IF ok THEN L.d - 1 ELSE L.d
  <1>1. pc = "lfifo" /\ UNCHANGED <<scc, vfifo, mem, trk>>
    BY DEF rw_mgr_mem_calibrate_lfifo
  <1>2. L.d \in 1..(MaxLatency - 1) /\ (L.first \/ L.d + 2 <= MaxLatency) /\ MaxLatency \in Nat
    BY <1>1, SequencerAssumption DEF Ranges, Fit, Locals
  <1>3. SeqInv'
    BY LfifoKeeps DEF Ranges, Fit
  <1>4. \/ /\ curr > 0 /\ phy' = [phy EXCEPT !.rlat = L.d] /\ L' = [L EXCEPT !.d = curr, !.first = FALSE]
           /\ ok /\ pc' = "lfifo" /\ UNCHANGED pass
        \/ /\ ok \/ ~L.first
           /\ ok => ~(curr > 0)
           /\ phy' = [phy EXCEPT !.rlat = curr + 2] /\ pc' = "report" /\ pass' = TRUE /\ UNCHANGED L
        \/ /\ phy' = [phy EXCEPT !.rlat = L.d] /\ UNCHANGED L /\ pc' = "report" /\ pass' = FALSE
    BY DEF rw_mgr_mem_calibrate_lfifo, Goto, GiveUp
  <1> HIDE DEF ok
  <1>5. Chained'
    BY <1>1 DEF Ranges, Fit, Chained
  <1>6. "rlat" \in DOMAIN phy /\ Fields \subseteq DOMAIN L
    BY DEF Ranges, Fit, SeqInv, Shape, Locals
  <1>7. CASE /\ curr > 0 /\ phy' = [phy EXCEPT !.rlat = L.d] /\ L' = [L EXCEPT !.d = curr, !.first = FALSE]
             /\ ok /\ pc' = "lfifo" /\ UNCHANGED pass
    <2>1. phy'.rlat = L.d /\ L'.d = L.d - 1 /\ Fields \subseteq DOMAIN L'
      BY <1>6, <1>7 DEF Fields
    <2>2. L.d - 1 \in 1..(MaxLatency - 1) /\ L.d - 1 + 2 <= MaxLatency /\ L.d \in 0..MaxLatency
      BY <1>2, <1>7
    <2>3. Locals'
      BY <1>7, <2>1, <2>2 DEF Locals, InGroup, Searching, Reading, Writing
    <2>4. Registers'
      BY <1>1, <1>7, <2>1, <2>2 DEF Ranges, Registers, InGroup, Searching, Reading, Writing
    <2> QED BY <1>3, <1>5, <2>3, <2>4 DEF Ranges, Fit
  <1>8. CASE /\ ok \/ ~L.first
             /\ ok => ~(curr > 0)
             /\ phy' = [phy EXCEPT !.rlat = curr + 2] /\ pc' = "report" /\ pass' = TRUE /\ UNCHANGED L
    <2>1. phy'.rlat = curr + 2
      BY <1>6, <1>8
    <2>2. curr + 2 \in 0..MaxLatency
      BY <1>2, <1>8
    <2>3. Locals'
      BY <1>6, <1>8 DEF Locals, InGroup, Searching, Reading, Writing
    <2>4. Registers'
      BY <1>1, <1>8, <2>1, <2>2 DEF Ranges, Registers, InGroup, Searching, Reading, Writing
    <2> QED BY <1>3, <1>5, <2>3, <2>4 DEF Ranges, Fit
  <1>9. CASE phy' = [phy EXCEPT !.rlat = L.d] /\ UNCHANGED L /\ pc' = "report" /\ pass' = FALSE
    <2>1. phy'.rlat = L.d /\ L.d \in 0..MaxLatency
      BY <1>2, <1>6, <1>9
    <2>3. Locals'
      BY <1>6, <1>9 DEF Locals, InGroup, Searching, Reading, Writing
    <2>4. Registers'
      BY <1>1, <1>9, <2>1 DEF Ranges, Registers, InGroup, Searching, Reading, Writing
    <2> QED BY <1>3, <1>5, <2>3, <2>4 DEF Ranges, Fit
  <1> QED BY <1>4, <1>7, <1>8, <1>9

LEMMA HandOffFits == ASSUME Ranges, HandOff PROVE Ranges'
  <1>1. /\ pc' = "resume" /\ UNCHANGED <<scc, vfifo, trk, L, pass>> /\ phy' = [phy EXCEPT !.mux = 2]
        /\ mem' = rw_mgr_mem_handoff(mem_precharge_and_activate(mem))
    BY DEF HandOff, Goto
  <1>2. SeqInv'
    BY HandOffKeeps DEF Ranges, Fit
  <1>3. phy'.rlat = phy.rlat /\ mem' \in Memory
    BY <1>1 DEF Ranges, Registers, Memory, Fit, SeqInv, Shape, rw_mgr_mem_handoff, mem_precharge_and_activate
  <1>4. Chained'
    BY <1>1 DEF Ranges, Fit, Chained
  <1>5. Locals'
    BY <1>1 DEF Ranges, Fit, Locals, InGroup, Searching, Reading, Writing
  <1>6. Registers'
    BY <1>1, <1>3 DEF Ranges, Registers, InGroup, Searching, Reading, Writing
  <1> QED BY <1>2, <1>4, <1>5, <1>6 DEF Ranges, Fit

LEMMA ReportFits == ASSUME Ranges, Report PROVE Ranges'
  <1>1. pc' = "idle" /\ UNCHANGED <<scc, vfifo, mem, L, pass>> /\ trk' = [trk EXCEPT !.stall = "no"]
    BY DEF Report, Goto
  <1>2. SeqInv'
    BY ReportKeeps DEF Ranges, Fit
  <1>3. phy'.rlat = phy.rlat /\ "dtaps" \in DOMAIN trk' /\ trk'.dtaps = trk.dtaps /\ trk'.stall = "no"
    <2>1. phy'.rlat = phy.rlat
      BY DEF Report, Ranges, Fit, SeqInv, Shape
    <2> QED BY <1>1, <2>1 DEF Ranges, Fit, Chained, SeqInv, Shape
  <1>4. Chained'
    BY <1>1, <1>3 DEF Ranges, Fit, Chained
  <1>5. Locals'
    BY <1>1 DEF Ranges, Fit, Locals, InGroup, Searching, Reading, Writing
  <1>6. Registers'
    BY <1>1, <1>3 DEF Ranges, Registers, InGroup, Searching, Reading, Writing
  <1> QED BY <1>2, <1>4, <1>5, <1>6 DEF Ranges, Fit

LEMMA RequestFits == ASSUME Ranges, user_init_cal_req PROVE Ranges'
  <1>1. pc = "idle" /\ pc' \in {"idle", "run"} /\ UNCHANGED <<scc, vfifo, trk, L, pass>>
    BY DEF user_init_cal_req
  <1>2. SeqInv'
    BY RequestKeeps DEF Ranges, Fit
  <1>3. phy'.rlat = phy.rlat /\ mem' \in Memory
    BY DEF user_init_cal_req, Ranges, Registers, Memory, Fit, SeqInv, Shape, rw_mgr_mem_handoff,
       rw_mgr_mem_initialize, ClockStable, initialize
  <1>4. Chained'
    BY <1>1 DEF Ranges, Fit, Chained
  <1>5. Locals'
    BY <1>1 DEF Ranges, Fit, Locals, InGroup, Searching, Reading, Writing
  <1>6. Registers'
    BY <1>1, <1>3 DEF Ranges, Registers, InGroup, Searching, Reading, Writing
  <1> QED BY <1>2, <1>4, <1>5, <1>6 DEF Ranges, Fit

LEMMA RangesStep == Ranges /\ [Next]_vars => Ranges'
  <1> SUFFICES ASSUME Ranges, [Next]_vars PROVE Ranges'
    OBVIOUS
  <1>1. CASE UNCHANGED vars
    <2>1. SeqInv'
      BY Step DEF Ranges, Fit
    <2>2. Chained' /\ Locals' /\ Registers'
      BY <1>1 DEF vars, Ranges, Fit, Chained, Locals, Registers, Edges, Window
    <2> QED BY <2>1, <2>2 DEF Ranges, Fit
  <1>2. CASE DelayLoop \/ DqsInLoop \/ Search \/ Deskew
    BY <1>2, GroupFits
  <1> QED
    BY <1>1, <1>2, mainFits, StallFits, AcksFits, StartFits, GroupStartFits, GroupsDoneFits, LfifoFits,
       HandOffFits, ReportFits, RequestFits DEF Next, Program

\* No search and no centring ever sets a chain beyond its length, turns a VFIFO
\* out of its ring or asks for a read latency the PHY does not have, for all
\* boards, all numbers of groups and bits and all lengths of the chains.
THEOREM ChainsFit == Spec => []TypeOK
  <1>1. Spec => []Ranges
    BY RangesStart, RangesStep, PTL DEF Spec
  <1>2. Ranges => TypeOK
    BY DEF Ranges, Fit, Chained, Registers, Memory, TypeOK
  <1> QED BY <1>1, <1>2, PTL

-----------------------------------------------------------------------------
(***************************************************************************)
(* What a success says of the writes.                                      *)
(***************************************************************************)

\* A window of the mask in which the first and the last attempt passed.
Passing(w) == w = << >> \/ (In(B.dm, -w[1] - L.start) /\ In(B.dm, -w[2] - L.start))

\* What the searches have seen of the writes of this group.
Marks ==
  /\ pc \in Reading /\ ~L.first => DmOk(B, S)
  /\ pc = "read_left" /\ ~L.first => \A i \in Bits : L.left[i] # InIll => WriteOk(B, S, i)
  /\ pc \in {"read_right", "read_centre"} /\ ~L.first => \A i \in Bits : L.right[i] # InIll => WriteOk(B, S, i)
  /\ pc = "read_right" /\ ~L.first /\ L.e = 0 => \A i \in Bits : L.left[i] # InIll => WriteOk(B, S, i)
  /\ pc = "dm_left" => S.dqs_out1 = L.start /\ Passing(L.curr)
  /\ pc = "dm_right" => S.dm_out1 = 0 /\ Passing(L.curr)
  /\ pc \in {"dm_left", "dm_right", "dm_centre"} => Passing(L.best)

Written(x) == DmOk(board[x], scc[x]) /\ \A i \in Bits : WriteOk(board[x], scc[x], i)

Settled ==
  /\ pc \in InGroup \cup {"group", "lfifo"} => \A x \in Groups : x < L.g => Written(x)
  /\ pc = "lfifo" => L.g = NumGroups
  /\ pc \in {"report", "resume", "idle"} /\ pass => \A x \in Groups : Written(x)

\* The chains that the writes depend on.
Out(s, t) == t.dq_out1 = s.dq_out1 /\ t.dqs_out1 = s.dqs_out1 /\ t.dm_out1 = s.dm_out1

LEMMA OutWrites ==
  ASSUME NEW s, NEW t, Out(s, t), NEW b
  PROVE  (DmOk(b, t) <=> DmOk(b, s)) /\ \A i \in Bits : WriteOk(b, t, i) <=> WriteOk(b, s, i)
  BY DEF Out, DmOk, WriteOk, CkOk

LEMMA InSettersOut ==
  ASSUME NEW s \in Chains
  PROVE  /\ \A dd : Out(s, scc_mgr_set_dqs_bus_in_delay(s, dd)) /\ Out(s, scc_mgr_apply_group_dq_in_delay(s, dd))
         /\ \A dq : Out(s, scc_mgr_set_dq_in_delay(s, dq))
  BY DEF Out, scc_mgr_set_dqs_bus_in_delay, scc_mgr_apply_group_dq_in_delay, scc_mgr_set_dq_in_delay, Chains

\* A bit that passes a test of the writes is written well.
LEMMA WritesPass ==
  ASSUME NEW s
  PROVE  /\ \A i \in WriteBits(s, FALSE) : i \in Bits /\ WriteOk(B, s, i)
         /\ WriteBits(s, TRUE) = Bits => DmOk(B, s)
  <1>1. 0 \in Bits
    BY PhyAssumption DEF Bits
  <1> QED BY <1>1 DEF WriteBits, rw_mgr_mem_calibrate_write_test, rw_mgr_mem_calibrate_write_test_issue

\* The group in hand after a step.
LEMMA HandAfter ==
  ASSUME Fit, pc \in InGroup, NEW s, Put(s), L'.g = L.g, board' = board
  PROVE  S' = s /\ B' = B
  BY FitFacts DEF Fit, Chained, Put, S, B, g

LEMMA ReadLeftMarks == ASSUME Ranges, Marks, pc \in InGroup, ReadLeft, board' = board, L'.g = L.g PROVE Marks'
  <1> DEFINE s1 == scc_mgr_apply_group_dq_in_delay(S, L.e)
             s0 == scc_mgr_apply_group_dq_in_delay(S, 0)
             chk == CenterTest(s1)
             seen == L.sticky \cup chk
             stop == chk = {} /\ seen = Bits
             l1 == IF stop THEN L ELSE LeftEdges(L, chk, InIll)
  <1>1. /\ pc = "read_left"
        /\ \/ Put(s0) /\ L' = NextSearch(l1, InIll, TRUE) /\ pc' = "read_right"
           \/ Put(s1) /\ L' = [l1 EXCEPT !.sticky = seen, !.e = l1.e + 1] /\ pc' = "read_left"
    BY DEF ReadLeft, Goto
  <1>2. Fit /\ Fields \subseteq DOMAIN L /\ S \in Chains /\ L.left \in [Bits -> (-Wide)..Wide]
          /\ L.right \in [Bits -> (-Wide)..Wide]
    BY <1>1, FitFacts DEF Ranges, Fit, Locals, Reading, Edges
  <1>3. Out(S, s0) /\ Out(S, s1)
    BY <1>2, InSettersOut
  <1>4. ~L.first => \A i \in chk : WriteOk(B, S, i)
    BY <1>3, WritesPass, OutWrites DEF CenterTest
  <1>5. /\ l1.first <=> L.first
        /\ {"right", "left", "sticky", "e", "first"} \subseteq DOMAIN l1
        /\ \A i \in Bits : l1.left[i] # InIll => i \in chk \/ L.left[i] # InIll
    <2> HIDE DEF chk, seen
    <2> QED BY <1>2 DEF LeftEdges, Fields
  <1> HIDE DEF s0, s1, l1, seen, chk
  <1>6. /\ L'.first <=> L.first
        /\ pc' = "read_left" => \A i \in Bits : L'.left[i] = l1.left[i]
        /\ pc' = "read_right" =>
             \A i \in Bits : L'.left[i] = l1.left[i] /\ (L'.right[i] # InIll => l1.left[i] # InIll)
    BY <1>1, <1>5 DEF NextSearch
  <1>7. B' = B /\ (S' = s0 \/ S' = s1)
    BY <1>1, <1>2, HandAfter
  <1>8. ~L.first => DmOk(B, S)' /\ \A i \in Bits : l1.left[i] # InIll => WriteOk(B, S, i)'
    <2>1. ~L.first => DmOk(B, S) /\ \A i \in Bits : l1.left[i] # InIll => WriteOk(B, S, i)
      BY <1>1, <1>4, <1>5 DEF Marks, Reading
    <2> QED BY <1>3, <1>7, <2>1, OutWrites
  <1>9. CASE pc' = "read_left"
    BY <1>6, <1>8, <1>9 DEF Marks, Reading
  <1>10. CASE pc' = "read_right"
    <2>1. ~L'.first => \A i \in Bits : (L'.left[i] # InIll \/ L'.right[i] # InIll) => WriteOk(B, S, i)'
      <3> SUFFICES ASSUME ~L'.first, NEW i \in Bits, L'.left[i] # InIll \/ L'.right[i] # InIll
                   PROVE  WriteOk(B, S, i)'
        OBVIOUS
      <3>1. l1.left[i] # InIll /\ ~L.first
        BY <1>6, <1>10
      <3> QED BY <1>8, <3>1
    <2> QED BY <1>6, <1>8, <1>10, <2>1 DEF Marks, Reading
  <1> QED BY <1>1, <1>9, <1>10

LEMMA ReadRightMarks == ASSUME Ranges, Marks, pc \in InGroup, ReadRight, board' = board, L'.g = L.g PROVE Marks'
  <1> DEFINE s1 == scc_mgr_set_dqs_bus_in_delay(S, L.start + L.e)
             chk == CenterTest(s1)
             seen == L.sticky \cup chk
             stop == chk = {} /\ seen = Bits
             l1 == IF stop THEN L ELSE RightEdges(L, chk, InIll)
  <1>1. /\ pc = "read_right" /\ Put(s1) /\ L' = [l1 EXCEPT !.sticky = seen, !.e = l1.e + 1]
        /\ pc' \in {"read_centre", "read_right"}
    BY DEF ReadRight, Goto
  <1>2. Fit /\ Fields \subseteq DOMAIN L /\ S \in Chains /\ L.left \in [Bits -> (-Wide)..Wide]
          /\ L.right \in [Bits -> (-Wide)..Wide]
    BY <1>1, FitFacts DEF Ranges, Fit, Locals, Reading, Edges
  <1>3. Out(S, s1)
    BY <1>2, InSettersOut
  <1>4. ~L.first => \A i \in chk : WriteOk(B, S, i)
    BY <1>3, WritesPass, OutWrites DEF CenterTest
  <1>5. /\ l1.first <=> L.first
        /\ {"right", "left", "sticky", "e", "first"} \subseteq DOMAIN l1
        /\ l1.e = L.e
        /\ \A i \in Bits : l1.right[i] # InIll => i \in chk \/ L.right[i] # InIll \/ (L.e = 0 /\ L.left[i] # InIll)
    <2> HIDE DEF chk, seen
    <2> QED BY <1>2 DEF RightEdges, Fields
  <1>6. L.e \in Nat
    <2>1. L.start \in 0..IO_DQS_IN_DELAY_MAX /\ L.e \in 0..(IO_DQS_IN_DELAY_MAX - L.start)
      BY <1>1 DEF Ranges, Fit, Locals, Reading
    <2> QED BY <2>1, PhyAssumption
  <1> HIDE DEF s1, l1, seen, chk
  <1>7. (L'.first <=> L.first) /\ L'.e # 0 /\ \A i \in Bits : L'.right[i] = l1.right[i]
    BY <1>1, <1>5, <1>6
  <1>8. B' = B /\ S' = s1
    BY <1>1, <1>2, HandAfter
  <1>9. ~L.first => DmOk(B, S)' /\ \A i \in Bits : l1.right[i] # InIll => WriteOk(B, S, i)'
    <2>1. ~L.first => DmOk(B, S) /\ \A i \in Bits : l1.right[i] # InIll => WriteOk(B, S, i)
      BY <1>1, <1>4, <1>5 DEF Marks, Reading
    <2> QED BY <1>3, <1>8, <2>1, OutWrites
  <1> QED BY <1>1, <1>7, <1>9 DEF Marks, Reading

LEMMA WriteCentreMarks == ASSUME Ranges, pc \in InGroup, WriteCentre, board' = board, L'.g = L.g PROVE Marks'
  <1> DEFINE sh == [i \in Bits |-> Shift(i, 0, OutIll)]
             s0 == scc_mgr_apply_group_dqs_io_and_oct_out1(S, L.start)
             s1 == scc_mgr_set_dq_out1_delay(s0, sh)
             a == DqMargin(0, OutIll)
             b == DqsMargin(0, OutIll)
  <1>1. /\ \/ pc' = "report"
           \/ /\ Put(s1) /\ pc' = "dm_left"
              /\ L' = [L EXCEPT !.dq = a, !.dqsm = b, !.e = IO_IO_OUT1_DELAY_MAX, !.curr = << >>, !.best = << >>]
    BY DEF WriteCentre, Goto, GiveUp
  <1> HIDE DEF a, b
  <1>2. CASE pc' = "report"
    BY <1>2 DEF Marks, Reading
  <1>3. CASE /\ Put(s1) /\ pc' = "dm_left"
             /\ L' = [L EXCEPT !.dq = a, !.dqsm = b, !.e = IO_IO_OUT1_DELAY_MAX, !.curr = << >>, !.best = << >>]
    <2>1. S \in Chains /\ Fields \subseteq DOMAIN L /\ Fit
      BY FitFacts DEF Ranges
    <2> HIDE DEF sh
    <2>2. s1.dqs_out1 = L.start
      BY <2>1 DEF Chains, scc_mgr_apply_group_dqs_io_and_oct_out1, scc_mgr_set_dqs_out1_delay, scc_mgr_set_dq_out1_delay
    <2> HIDE DEF s1
    <2>3. S' = s1
      BY <1>3, <2>1, HandAfter
    <2>4. L'.curr = << >> /\ L'.best = << >> /\ L'.start = L.start
      BY <1>3, <2>1 DEF Fields
    <2> QED BY <1>3, <2>2, <2>3, <2>4 DEF Marks, Reading, Passing
  <1> QED BY <1>1, <1>2, <1>3

\* One more attempt that passes may begin or end a window.
LEMMA ExtendPasses ==
  ASSUME Ranges, NEW hi \in Int, Window(L.curr, hi), Passing(L.curr), Passing(L.best), Fields \subseteq DOMAIN L,
         NEW at \in Int, NEW ok \in BOOLEAN, ok => In(B.dm, -at - L.start)
  PROVE  Passing(Extend(L, at, ok).curr) /\ Passing(Extend(L, at, ok).best)
  <1> DEFINE curr == IF ~ok THEN << >> ELSE IF L.curr = << >> THEN <<at, at>> ELSE <<L.curr[1], at>>
             best == IF Width(curr) > Width(L.best) THEN curr ELSE L.best
  <1>1. Passing(curr)
    <2>1. CASE ~ok
      BY <2>1 DEF Passing
    <2>2. CASE ok /\ L.curr = << >>
      <3>1. curr[1] = at /\ curr[2] = at
        BY <2>2
      <3> HIDE DEF curr
      <3> QED BY <2>2, <3>1 DEF Passing
    <2>3. CASE ok /\ L.curr # << >>
      <3>1. curr[1] = L.curr[1] /\ curr[2] = at
        BY <2>3
      <3> HIDE DEF curr
      <3> QED BY <2>3, <3>1 DEF Passing
    <2> QED BY <2>1, <2>2, <2>3
  <1>2. Extend(L, at, ok) = [L EXCEPT !.curr = curr, !.best = best]
    BY DEF Extend
  <1> HIDE DEF curr
  <1>3. Passing(best)
    BY <1>1
  <1> HIDE DEF best
  <1>4. Extend(L, at, ok).curr = curr /\ Extend(L, at, ok).best = best
    BY <1>2 DEF Fields
  <1> QED BY <1>1, <1>3, <1>4

LEMMA DmLeftMarks == ASSUME Ranges, Marks, pc \in InGroup, DmLeft, board' = board, L'.g = L.g PROVE Marks'
  <1> DEFINE s1 == scc_mgr_apply_group_dm_out1_delay(S, L.e)
             s0 == scc_mgr_apply_group_dm_out1_delay(S, 0)
             ok == WriteBits(s1, TRUE) = Bits
             l1 == Extend(L, -L.e, ok)
  <1>1. /\ pc = "dm_left"
        /\ \/ L.e > 0 /\ Put(s1) /\ L' = [l1 EXCEPT !.e = l1.e - 1] /\ pc' = "dm_left"
           \/ ~(L.e > 0) /\ Put(s0) /\ L' = l1 /\ pc' = "dm_right"
    BY DEF DmLeft, Goto
  <1>2. /\ L.start \in 0..IO_IO_OUT1_DELAY_MAX /\ L.e \in 0..IO_IO_OUT1_DELAY_MAX /\ IO_IO_OUT1_DELAY_MAX \in Nat
        /\ Window(L.curr, -L.e) /\ S.dqs_out1 = L.start /\ Passing(L.curr) /\ Passing(L.best)
    BY <1>1, PhyAssumption DEF Ranges, Fit, Locals, Writing, Marks
  <1>3. S \in Chains /\ Fields \subseteq DOMAIN L /\ Fit
    BY FitFacts DEF Ranges
  <1>4. /\ s1.dm_out1 = L.e /\ s1.dqs_out1 = L.start /\ s0.dm_out1 = 0
    BY <1>2, <1>3 DEF scc_mgr_apply_group_dm_out1_delay, scc_mgr_set_dm_out1_delay, Chains
  <1>5. ok => In(B.dm, -(-L.e) - L.start)
    <2>1. ok => DmOk(B, s1)
      BY WritesPass
    <2>2. -(-L.e) - L.start = L.e - L.start
      BY <1>2
    <2> QED BY <1>4, <2>1, <2>2 DEF DmOk
  <1>6. ok \in BOOLEAN /\ -L.e \in Int
    BY <1>2
  <1> HIDE DEF ok, s0, s1
  <1>7. Passing(l1.curr) /\ Passing(l1.best)
    BY <1>2, <1>3, <1>5, <1>6, ExtendPasses
  <1>8. l1.start = L.start /\ Fields \subseteq DOMAIN l1
    BY <1>3 DEF Extend, Fields
  <1> HIDE DEF l1
  <1>9. L'.curr = l1.curr /\ L'.best = l1.best /\ L'.start = L.start
    BY <1>1, <1>8 DEF Fields
  <1>10. B' = B /\ (pc' = "dm_left" => S' = s1) /\ (pc' = "dm_right" => S' = s0)
    BY <1>1, <1>3, HandAfter
  <1>11. Passing(L.curr)' /\ Passing(L.best)'
    BY <1>7, <1>9, <1>10 DEF Passing
  <1> QED BY <1>1, <1>4, <1>9, <1>10, <1>11 DEF Marks, Reading

LEMMA DmRightMarks == ASSUME Ranges, Marks, pc \in InGroup, DmRight, board' = board, L'.g = L.g PROVE Marks'
  <1> DEFINE s1 == scc_mgr_apply_group_dqs_io_and_oct_out1(S, L.start + L.e)
             ok == WriteBits(s1, TRUE) = Bits
             l1 == Extend(L, L.e, ok)
  <1>1. /\ pc = "dm_right" /\ Put(s1) /\ L' = [l1 EXCEPT !.e = l1.e + 1] /\ pc' \in {"dm_centre", "dm_right"}
    BY DEF DmRight, Goto
  <1>2. /\ L.start \in 0..IO_IO_OUT1_DELAY_MAX /\ L.e \in 0..(IO_IO_OUT1_DELAY_MAX - L.start)
        /\ IO_IO_OUT1_DELAY_MAX \in Nat
        /\ Window(L.curr, L.e + 1) /\ S.dm_out1 = 0 /\ Passing(L.curr) /\ Passing(L.best)
    BY <1>1, PhyAssumption DEF Ranges, Fit, Locals, Writing, Marks
  <1>3. S \in Chains /\ Fields \subseteq DOMAIN L /\ Fit
    BY FitFacts DEF Ranges
  <1>4. s1.dm_out1 = 0 /\ s1.dqs_out1 = L.start + L.e
    BY <1>2, <1>3 DEF scc_mgr_apply_group_dqs_io_and_oct_out1, scc_mgr_set_dqs_out1_delay, Chains
  <1>5. L.e \in Int /\ L.e + 1 \in Int /\ L.start \in Int
    BY <1>2
  <1>6. ok => In(B.dm, -L.e - L.start)
    <2>1. ok => DmOk(B, s1)
      BY WritesPass
    <2>2. -L.e - L.start = 0 - (L.start + L.e)
      BY <1>5
    <2> QED BY <1>4, <2>1, <2>2 DEF DmOk
  <1>7. ok \in BOOLEAN
    OBVIOUS
  <1> HIDE DEF ok, s1
  <1>8. Passing(l1.curr) /\ Passing(l1.best)
    BY <1>2, <1>3, <1>5, <1>6, <1>7, ExtendPasses
  <1>9. l1.start = L.start /\ Fields \subseteq DOMAIN l1
    BY <1>3 DEF Extend, Fields
  <1> HIDE DEF l1
  <1>10. L'.curr = l1.curr /\ L'.best = l1.best /\ L'.start = L.start
    BY <1>1, <1>9 DEF Fields
  <1>11. B' = B /\ S' = s1
    BY <1>1, <1>3, HandAfter
  <1>12. Passing(L.curr)' /\ Passing(L.best)'
    BY <1>8, <1>10, <1>11 DEF Passing
  <1> QED BY <1>1, <1>4, <1>10, <1>11, <1>12 DEF Marks, Reading

\* The middle of a window of the mask, moved right only, is inside it as long
\* as its left edge is not passed.
LEMMA MaskInside ==
  ASSUME NEW a \in Int, NEW b \in Int, a <= b, NEW mid, mid = Max({0, Half(-a - b)}), -a - mid >= 0
  PROVE  mid \in Int /\ -b <= mid /\ mid <= -a
  <1> DEFINE x == -a - b
             h == Half(x)
  <1>1. x \in Int
    OBVIOUS
  <1>2. h \in Int /\ -b <= h /\ h <= -a
    <2>0. x = -a - b
      OBVIOUS
    <2> HIDE DEF x
    <2>1. /\ x \div 2 \in Int /\ 2 * (x \div 2) <= x /\ x < 2 * (x \div 2) + 2
          /\ (-x) \div 2 \in Int /\ 2 * ((-x) \div 2) <= -x /\ -x < 2 * ((-x) \div 2) + 2
      BY <1>1, DivMod
    <2> QED BY <1>1, <2>0, <2>1 DEF Half
  <1> HIDE DEF h
  <1>3. Max({0, h}) \in {0, h} /\ Max({0, h}) >= 0 /\ Max({0, h}) >= h
    <2>1. \E m \in {0, h} : \A y \in {0, h} : m >= y
      BY <1>2
    <2> QED BY <1>2, <2>1 DEF Max
  <1>4. mid = Max({0, h})
    BY DEF h
  <1> HIDE DEF x
  <1> QED BY <1>2, <1>3, <1>4

LEMMA DmCentreMarks == ASSUME Ranges, Marks, pc \in InGroup, DmCentre, board' = board, L'.g = L.g PROVE Marks'
  <1> DEFINE mid == IF L.best = << >> THEN 0 ELSE Max({0, Half(-L.best[1] - L.best[2])})
             margin == DmMargin(L.best, mid)
             s0 == scc_mgr_apply_group_dqs_io_and_oct_out1(S, L.start)
             s1 == scc_mgr_apply_group_dm_out1_delay(s0, mid)
             l1 == StartDeskew(L, InIll)
             in == S.dqs_in
  <1>1. /\ pc = "dm_centre" /\ Put(s1)
        /\ \/ margin >= 0 /\ pc' = "read_left" /\ L' = [l1 EXCEPT !.start = in, !.first = FALSE]
           \/ pc' = "report" /\ UNCHANGED L
    BY DEF DmCentre, Goto, GiveUp
  <1>2. L.start \in 0..IO_IO_OUT1_DELAY_MAX /\ Window(L.best, IO_IO_OUT1_DELAY_MAX + 1) /\ Passing(L.best)
    BY <1>1 DEF Ranges, Fit, Locals, Writing, Marks
  <1>3. S \in Chains /\ Fields \subseteq DOMAIN L /\ Fit /\ L.g \in Groups
    BY FitFacts DEF Ranges
  <1>4. s1.dm_out1 = mid /\ s1.dqs_out1 = L.start
    <2> HIDE DEF mid
    <2> QED BY <1>3 DEF scc_mgr_apply_group_dqs_io_and_oct_out1, scc_mgr_set_dqs_out1_delay,
               scc_mgr_apply_group_dm_out1_delay, scc_mgr_set_dm_out1_delay, Chains
  <1>5. B' = B /\ S' = s1
    BY <1>1, <1>3, HandAfter
  <1>6. CASE pc' = "report"
    BY <1>6 DEF Marks, Reading
  <1>7. CASE margin >= 0 /\ pc' = "read_left" /\ L' = [l1 EXCEPT !.start = in, !.first = FALSE]
    <2>1. L.best # << >>
      BY <1>7 DEF DmMargin
    <2>2. PICK a, b \in Int : L.best = <<a, b>> /\ a <= b
      BY <1>2, <2>1 DEF Window
    <2>3. mid = Max({0, Half(-a - b)}) /\ -a - mid >= 0
      BY <1>7, <2>1, <2>2 DEF DmMargin
    <2> HIDE DEF mid
    <2>4. mid \in Int /\ -b <= mid /\ mid <= -a
      BY <2>2, <2>3, MaskInside
    <2>5. In(B.dm, -a - L.start) /\ In(B.dm, -b - L.start)
      BY <1>2, <2>1, <2>2 DEF Passing
    <2>6. {B.dm[1], B.dm[2]} \subseteq Int
      BY <1>3, SequencerAssumption DEF Fit, SeqInv, Latency, B, g
    <2>7. In(B.dm, mid - L.start)
      <3>1. L.start \in Int
        BY <1>2
      <3> QED BY <2>2, <2>4, <2>5, <2>6, <3>1 DEF In
    <2>8. DmOk(B, s1)
      BY <1>4, <2>7 DEF DmOk
    <2>9. \A i \in Bits : L'.left[i] = InIll
      BY <1>3, <1>7 DEF StartDeskew, Fields
    <2> HIDE DEF s1
    <2>10. DmOk(B, S)'
      BY <1>5, <2>8
    <2> QED BY <1>7, <2>9, <2>10 DEF Marks, Reading
  <1> QED BY <1>1, <1>6, <1>7

\* The step that ends a group leaves all of it written well.
LEMMA ReadCentreDone ==
  ASSUME Ranges, Marks, pc \in InGroup, ReadCentre, board' = board, pc' = "group"
  PROVE  L'.g = L.g + 1 /\ \A x \in Groups : x = L.g => Written(x)'
  <1> DEFINE new_dqs == Clamp(L.start - MidMin, 0, IO_DQS_IN_DELAY_MAX)
             moved == L.start - new_dqs
             sh == [i \in Bits |-> Shift(i, moved, InIll)]
             s0 == scc_mgr_set_dqs_bus_in_delay(S, new_dqs)
             s1 == scc_mgr_set_dq_in_delay(s0, sh)
  <1>1. /\ pc = "read_centre" /\ Windowless(InIll) = {} /\ ~L.first
        /\ Put(s1) /\ L' = [L EXCEPT !.g = L.g + 1]
    BY DEF ReadCentre, Goto, CenterFailed, GiveUp
  <1> HIDE DEF new_dqs, moved, sh
  <1>2. S \in Chains /\ Fields \subseteq DOMAIN L /\ Fit /\ L.g \in Groups
    BY FitFacts DEF Ranges
  <1>3. Out(S, s1)
    BY <1>2 DEF Out, scc_mgr_set_dqs_bus_in_delay, scc_mgr_set_dq_in_delay, Chains
  <1>4. DmOk(B, S) /\ \A i \in Bits : WriteOk(B, S, i)
    BY <1>1 DEF Marks, Reading, Windowless
  <1> HIDE DEF s1
  <1>5. DmOk(B, s1) /\ \A i \in Bits : WriteOk(B, s1, i)
    BY <1>3, <1>4, OutWrites
  <1>6. scc'[L.g] = s1 /\ board'[L.g] = B
    BY <1>1, <1>2 DEF Put, g, B, Fit, Chained
  <1>7. L'.g = L.g + 1
    BY <1>1, <1>2 DEF Fields
  <1>8. DmOk(board'[L.g], scc'[L.g]) /\ \A i \in Bits : WriteOk(board'[L.g], scc'[L.g], i)
    BY <1>5, <1>6
  <1> QED BY <1>7, <1>8 DEF Written

\* Places where the searches have seen nothing of the writes yet.
Unmarked == {"delay", "dqs_in", "write_left", "write_right", "write_centre", "group", "report"} \cup Searching
LEMMA MarksKept ==
  ASSUME Ranges, Marks, DelayLoop \/ DqsInLoop \/ Search \/ Deskew
  PROVE  Marks' /\ (pc' = "group" => ReadCentre)
  <1>1. pc \in InGroup /\ Inner /\ Mine /\ Stages
    BY InGroupStep DEF Ranges, Fit, SeqInv, Mine
  <1>2. board' = board /\ (pc' # "group" => L'.g = L.g)
    BY <1>1 DEF Inner, Frame
  <1>3. pc' \in Unmarked => Marks'
    BY DEF Unmarked, Searching, Marks, Reading
  <1>4. CASE DelayLoop \/ DqsInLoop
    <2>1. pc' \in {"delay", "dqs_in", "find_failing", "report"}
      BY <1>4 DEF DelayLoop, DqsInLoop, Goto, GiveUp
    <2> QED BY <1>3, <2>1 DEF Unmarked, Searching
  <1>5. CASE Search
    <2>1. pc' \in {"dqs_in"} \cup Searching \/ (pc' \in Reading /\ L'.first /\ pc' # "dm_left")
      BY <1>1, <1>5, SearchIsStep DEF SearchStep, Reading, Searching
    <2> QED BY <1>3, <2>1 DEF Unmarked, Searching, Reading, Marks
  <1>6. CASE ReadLeft
    <2>1. pc' # "group"
      BY <1>6 DEF ReadLeft, Goto
    <2> QED BY <1>1, <1>2, <1>6, <2>1, ReadLeftMarks
  <1>7. CASE ReadRight
    <2>1. pc' # "group"
      BY <1>7 DEF ReadRight, Goto
    <2> QED BY <1>1, <1>2, <1>7, <2>1, ReadRightMarks
  <1>8. CASE ReadWindowless
    <2>1. pc' \in {"dqs_in", "report"}
      BY <1>8 DEF ReadWindowless, CenterFailed, Goto, GiveUp
    <2> QED BY <1>3, <2>1 DEF Unmarked
  <1>9. CASE ReadCentre
    <2>1. pc' \in {"dqs_in", "report", "write_left", "group"}
      BY <1>9 DEF ReadCentre, CenterFailed, Goto, GiveUp
    <2> QED BY <1>3, <1>9, <2>1 DEF Unmarked
  <1>10. CASE WriteLeft \/ WriteRight
    <2>1. pc' \in {"write_left", "write_right", "write_centre"}
      BY <1>10 DEF WriteLeft, WriteRight, Goto
    <2> QED BY <1>3, <2>1 DEF Unmarked
  <1>11. CASE WriteCentre
    <2>1. pc' # "group"
      BY <1>11 DEF WriteCentre, Goto, GiveUp
    <2> QED BY <1>1, <1>2, <1>11, <2>1, WriteCentreMarks
  <1>12. CASE DmLeft
    <2>1. pc' # "group"
      BY <1>12 DEF DmLeft, Goto
    <2> QED BY <1>1, <1>2, <1>12, <2>1, DmLeftMarks
  <1>13. CASE DmRight
    <2>1. pc' # "group"
      BY <1>13 DEF DmRight, Goto
    <2> QED BY <1>1, <1>2, <1>13, <2>1, DmRightMarks
  <1>14. CASE DmCentre
    <2>1. pc' # "group"
      BY <1>14 DEF DmCentre, Goto, GiveUp
    <2> QED BY <1>1, <1>2, <1>14, <2>1, DmCentreMarks
  <1> QED BY <1>4, <1>5, <1>6, <1>7, <1>8, <1>9, <1>10, <1>11, <1>12, <1>13, <1>14 DEF Deskew

\* The chains of a group and its board decide how it is written.
LEMMA WrittenKept ==
  ASSUME NEW x, scc'[x] = scc[x], board'[x] = board[x]
  PROVE  Written(x)' <=> Written(x)
  BY DEF Written

LEMMA GroupSettles ==
  ASSUME Ranges, Marks, Settled, DelayLoop \/ DqsInLoop \/ Search \/ Deskew
  PROVE  Settled'
  <1>1. pc \in InGroup /\ Inner
    BY InGroupStep DEF Ranges, Fit
  <1>2. /\ board' = board /\ \A x \in Groups \ {L.g} : scc'[x] = scc[x]
        /\ pc' \in InGroup \cup {"group", "report"} /\ (pc' = "report" => ~pass')
        /\ L'.g = L.g \/ (pc' = "group" /\ L'.g = L.g + 1)
    BY <1>1 DEF Inner, Frame
  <1>3. L.g \in Int /\ \A x \in Groups : x \in Int
    BY DEF Ranges, Fit, SeqInv, Owner, Groups
  <1>4. \A x \in Groups : x < L.g => Written(x)'
    <2> SUFFICES ASSUME NEW x \in Groups, x < L.g PROVE Written(x)'
      OBVIOUS
    <2>1. Written(x) /\ x # L.g
      BY <1>1, <1>3 DEF Settled
    <2> QED BY <1>2, <2>1, WrittenKept
  <1>5. CASE pc' = "report"
    BY <1>2, <1>5 DEF Settled, InGroup, Searching, Reading, Writing
  <1>6. CASE pc' = "group"
    <2>1. ReadCentre
      BY <1>6, MarksKept
    <2>2. L'.g = L.g + 1 /\ \A x \in Groups : x = L.g => Written(x)'
      BY <1>1, <1>2, <1>6, <2>1, ReadCentreDone
    <2>3. \A x \in Groups : x < L'.g => Written(x)'
      <3> SUFFICES ASSUME NEW x \in Groups, x < L'.g PROVE Written(x)'
        OBVIOUS
      <3>1. x < L.g \/ x = L.g
        BY <1>3, <2>2
      <3> QED BY <1>4, <2>2, <3>1
    <2> QED BY <1>6, <2>3 DEF Settled
  <1>7. CASE pc' \in InGroup
    <2>1. L'.g = L.g /\ pc' \notin {"lfifo", "report", "resume", "idle"}
      BY <1>2, <1>7 DEF InGroup, Searching, Reading, Writing
    <2> QED BY <1>4, <2>1 DEF Settled
  <1> QED BY <1>2, <1>5, <1>6, <1>7

Worked == Ranges /\ Marks /\ Settled

LEMMA WorkedStart == Init => Worked
  <1> SUFFICES ASSUME Init PROVE Worked
    OBVIOUS
  <1>1. Marks /\ Settled
    BY DEF Init, Marks, Settled, InGroup, Searching, Reading, Writing
  <1> QED BY <1>1, RangesStart DEF Worked

\* Outside the groups, and before the first, nothing is claimed of the writes
\* but what the chains and the board say.
LEMMA WorkedStep == Worked /\ [Next]_vars => Worked'
  <1> SUFFICES ASSUME Worked, [Next]_vars PROVE Worked'
    OBVIOUS
  <1>0. Ranges'
    BY RangesStep DEF Worked
  <1>1. CASE UNCHANGED vars
    BY <1>0, <1>1 DEF vars, Worked, Marks, Settled, Written, Passing, S, B, g
  <1>2. CASE DelayLoop \/ DqsInLoop \/ Search \/ Deskew
    BY <1>0, <1>2, MarksKept, GroupSettles DEF Worked
  <1>3. CASE main \/ StallTracking \/ (user_init_cal_req /\ pc' = "run")
    <2>1. pc' \in {"run", "stall"}
      BY <1>3 DEF main, StallTracking, Goto
    <2> QED BY <1>0, <2>1 DEF Worked, Marks, Settled, InGroup, Searching, Reading, Writing
  <1>4. CASE TrackerAcks
    <2>1. UNCHANGED <<pc, board, scc, L, pass>>
      BY <1>4 DEF TrackerAcks
    <2> QED BY <1>0, <2>1 DEF Worked, Marks, Settled, Written, Passing, S, B, g
  <1>5. CASE StartCalibration
    <2>1. pc' = "group" /\ L'.g = 0
      BY <1>5 DEF StartCalibration, Goto, NoLocals
    <2>2. \A x \in Groups : ~(x < 0)
      BY PhyAssumption DEF Groups
    <2> QED BY <1>0, <2>1, <2>2 DEF Worked, Marks, Settled, Reading
  <1>6. CASE GroupStart
    <2>1. pc = "group" /\ pc' = "delay" /\ board' = board /\ L'.g = L.g /\ \A x \in Groups \ {L.g} : scc'[x] = scc[x]
      <3>1. pc = "group" /\ pc' = "delay" /\ board' = board /\ L'.g = L.g
        BY <1>6 DEF GroupStart, Goto, Still, NoLocals, g
      <3>2. \A x \in Groups \ {L.g} : scc'[x] = scc[x]
        BY <1>6 DEF GroupStart, Put, g, Worked, Ranges, Fit, Chained
      <3> QED BY <3>1, <3>2
    <2>2. \A x \in Groups : x < L.g => x # L.g
      BY DEF Worked, Ranges, Fit, SeqInv, Owner, Groups
    <2>3. \A x \in Groups : x < L'.g => Written(x)'
      BY <2>1, <2>2, WrittenKept DEF Worked, Settled
    <2> QED BY <1>0, <2>1, <2>3 DEF Worked, Marks, Settled, Reading
  <1>7. CASE GroupsDone
    <2>1. /\ pc = "group" /\ L.g = NumGroups /\ pc' = "lfifo" /\ board' = board /\ scc' = scc
          /\ L' = [L EXCEPT !.d = phy.rlat, !.first = TRUE]
      BY <1>7 DEF GroupsDone, Goto, Still, g
    <2>2. L'.g = L.g
      BY <2>1 DEF Worked, Ranges, Fit, SeqInv, Shape
    <2> QED BY <1>0, <2>1, <2>2, WrittenKept DEF Worked, Marks, Settled, Reading
  <1>8. CASE rw_mgr_mem_calibrate_lfifo
    <2>1. /\ pc = "lfifo" /\ pc' \in {"lfifo", "report"} /\ board' = board /\ scc' = scc
      BY <1>8 DEF rw_mgr_mem_calibrate_lfifo, Goto, GiveUp, Still
    <2>2. L'.g = L.g
      BY <1>8 DEF rw_mgr_mem_calibrate_lfifo, Worked, Ranges, Fit, SeqInv, Shape
    <2>3. \A x \in Groups : x < L.g
      BY <2>1, PhyAssumption DEF Worked, Settled, Groups
    <2>4. \A x \in Groups : Written(x)'
      BY <2>1, <2>3, WrittenKept DEF Worked, Settled
    <2> QED BY <1>0, <2>1, <2>2, <2>4 DEF Worked, Marks, Settled, Reading
  <1>9. CASE HandOff \/ Report \/ (user_init_cal_req /\ pc' # "run")
    <2>1. /\ pc \in {"report", "resume", "idle"} /\ pc' \in {"resume", "idle"} /\ board' = board /\ scc' = scc
          /\ pass' = pass
      BY <1>9 DEF HandOff, Report, user_init_cal_req, Goto, Still
    <2> QED BY <1>0, <2>1, WrittenKept DEF Worked, Marks, Settled, Reading, InGroup, Searching, Writing
  <1> QED BY <1>1, <1>2, <1>3, <1>4, <1>5, <1>6, <1>7, <1>8, <1>9 DEF Next, Program

\* When the sequencer reports success every bit of every group reads, writes
\* and is masked correctly with the settings that are left, on all boards.
THEOREM SuccessesAreGood == Spec => []SuccessIsGood
  <1>1. Spec => []Worked
    BY WorkedStart, WorkedStep, PTL DEF Spec
  <1>2. Worked => SuccessIsGood
    BY DEF Worked, Ranges, Fit, SeqInv, Latency, AllRead, ReadsGood, Settled, Written, SuccessIsGood
  <1> QED BY <1>1, <1>2, PTL

\* Success means that the memory works, and a failure names its stage.
THEOREM StatusIsTrue == Spec => []StatusTrue
  BY SuccessesAreGood, FailuresAreNamed, PTL DEF StatusTrue
=============================================================================

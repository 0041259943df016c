---------------------- MODULE FfnWorkerBatchingProofs ----------------------
(***************************************************************************)
(* No round is lost between the window, the scheduler's list and the       *)
(* launch, and what the launch gathers is exactly what was sent to it, for *)
(* every number of sessions, micro-batches, cores and ids.                 *)
(*                                                                         *)
(* The argument: SyncAll keeps the cores in one stage of the launch, so    *)
(* the micro-batch each core has read for itself is the one core 0 waited  *)
(* for - unless it has read polling_index after core 0 moved it on: both   *)
(* invariants hold as long as none has (late).  A round in hand, of a      *)
(* taken micro-batch past the scan or of the list, cannot be sent again,   *)
(* since it is not answered; and when it is answered, its flag is down and *)
(* its ids are wiped - for one core by the sort, for several by the shares *)
(* of the sessions, which leave out none.                                  *)
(*                                                                         *)
(* So the ids that a launch works on stay what the sessions have sent, and *)
(* the second half of the invariant says stage by stage how much of them   *)
(* is done: the parts of the cores that have sorted are their shares of    *)
(* these ids, the merged list has every id once and the experts in order,  *)
(* a core that has gathered has written the rows of its share, and the     *)
(* last core's list has the runs of the places listed or counted so far.   *)
(* The shares of the window, of the list, of the rows and of the counting  *)
(* leave out nothing and have nothing in common; that is what makes the    *)
(* launch as a whole exact.                                                *)
(***************************************************************************)
EXTENDS FfnWorkerBatching, WorkSplitProofs, SequenceTheorems

IdRow == [Slots -> -1 .. ExpertNum - 1]

Entry == [session : Sessions, microBatch : MicroBatches, ids : IdRow]

Stages == {{"idle"}, {"start", "scan", "scanned"}, {"sort", "wiped"}, {"drop", "merged"},
           {"out", "done"}, {"list", "end"}}

Places == {"idle", "start", "scan", "scanned", "sort", "wiped", "drop", "merged", "out", "done",
           "list", "end"}

Busy == {"sort", "wiped", "drop", "merged", "out", "done"}

StateInv ==
  /\ needSchedule \in BOOLEAN /\ sortLoopMax \in Nat \ {0}
  /\ needSchedule => BsKPad <= sortLoopMax
  /\ flag \in [Pairs -> {0, 1}]
  /\ ids \in [Pairs -> IdRow] /\ want \in [Pairs -> IdRow]
  /\ sent \in [Pairs -> Nat] /\ answered \in [Pairs -> Nat]
  /\ pollingIndex \in MicroBatches /\ mbId \in [Cores -> MicroBatches]
  /\ \E n \in Nat : out \in [1 .. n -> Entry]
  /\ pc \in [Cores -> Places]

(* The cores are in one stage, and only core 0 scans.                      *)
StageInv ==
  /\ \E stage \in Stages : \A c \in Cores : pc[c] \in stage
  /\ \A c \in Cores : pc[c] = "scan" => c = 0 /\ needSchedule

(* Every core works on the micro-batch core 0 waits for.                   *)
BatchInv ==
  needSchedule =>
    /\ pc[0] \in {"start", "scan"} =>
         \A c \in Cores : pc[c] # "start" => mbId[c] = pollingIndex
    /\ pc[0] \notin {"idle", "start", "scan"} =>
         \A c \in Cores : pc[c] # "start" => mbId[c] = mbId[0]
    /\ pc[0] = "scanned" => \A p \in Taken : flag[p] = 1

InHand(p) == p \in Taken /\ (needSchedule => pc[0] \in Busy)

(* A round out is flagged with its ids, or in hand.                        *)
RoundInv ==
  \A p \in Pairs :
    /\ sent[p] \in {answered[p], answered[p] + 1}
    /\ sent[p] = answered[p] => flag[p] = 0 /\ ids[p] = Empty /\ ~InHand(p)
    /\ sent[p] # answered[p] /\ ~InHand(p) => flag[p] = 1 /\ ids[p] = want[p]

(* What the launch has taken out of the window.                            *)
WipedInv ==
  needSchedule =>
    \A p \in Taken :
      /\ \A c \in Cores : pc[c] = "wiped" /\ p[1] \in SortedSessions(c) => ids[p] = Empty
      /\ pc[0] \in {"drop", "merged", "out", "done"} => ids[p] = Empty
      /\ OneCoreSort /\ pc[0] \in {"wiped", "drop", "merged", "out", "done"} => flag[p] = 0
      /\ pc[LastCoreId] = "merged" \/ pc[0] \in {"out", "done"} => flag[p] = 0

(* The scheduler's list.                                                   *)
ListInv ==
  /\ needSchedule \/ AllAt("idle") => out = <<>>
  /\ \A k \in DOMAIN out :
       LET p == <<out[k].session, out[k].microBatch>>
       IN out[k].ids = want[p] /\ ids[p] = Empty /\ flag[p] = 0

IInv == StateInv /\ StageInv /\ BatchInv /\ RoundInv /\ WipedInv /\ ListInv

----------------------------------------------------------------------------

LEMMA ConstFacts ==
  /\ SessionNum \in Nat \ {0} /\ MicroBatchNum \in Nat \ {0} /\ SlotNum \in Nat \ {0}
  /\ ExpertNum \in Nat \ {0} /\ Pad \in Nat /\ BsKPad \in Nat \ {0}
  /\ CoreNum \in Nat \ {0, 1} /\ 0 \in Cores /\ LastCoreId \in Cores /\ LastCoreId # 0
  /\ Invalid \in -1 .. ExpertNum - 1 /\ Empty \in IdRow
<1>1. /\ SessionNum \in Nat \ {0} /\ MicroBatchNum \in Nat \ {0} /\ SlotNum \in Nat \ {0}
      /\ ExpertNum \in Nat \ {0} /\ Pad \in Nat /\ CoreNum \in Nat \ {0, 1}
  BY BatchingAssumption
<1> QED  BY <1>1 DEF BsKPad, Cores, LastCoreId, Invalid, Empty, IdRow

LEMMA WorkloadFacts ==
  ASSUME NEW s \in Sessions, NEW w \in Workloads[s]
  PROVE  w \in IdRow
<1>1. Workloads \in [Sessions -> SUBSET IdRow]
  BY BatchingAssumption DEF Sessions, Slots, IdRow
<1> QED  BY <1>1

(* Every session is sorted, and so wiped, by some core. *)
LEMMA AllSorted ==
  ASSUME StateInv, NEW s \in Sessions
  PROVE  \E c \in Cores : s \in SortedSessions(c)
<1>1. CASE OneCoreSort
  BY <1>1, ConstFacts DEF SortedSessions
<1>2. CASE ~OneCoreSort
  <2>1. SessionPerSort \in Nat \ {0}
    <3>1. sortLoopMax \in Nat /\ BsKPad \in Nat \ {0}
      BY ConstFacts DEF StateInv
    <3>2. sortLoopMax \div BsKPad \in Nat
      BY <3>1, DivMod
    <3> QED  BY <3>2 DEF SessionPerSort
  <2>2. \E c \in 0 .. CoreNum - 1 : s \in SortChunk(c, SessionNum, SessionPerSort, CoreNum)
    BY <2>1, ConstFacts, SortChunksCover DEF Sessions
  <2> QED  BY <1>2, <2>2 DEF SortedSessions, Cores
<1> QED  BY <1>1, <1>2

LEMMA TakenFacts ==
  ASSUME StateInv, NEW p \in Pairs
  PROVE  /\ p = <<p[1], p[2]>> /\ p[1] \in Sessions /\ p[2] \in MicroBatches
         /\ needSchedule => (p \in Taken <=> p[2] = mbId[0])
         /\ ~needSchedule =>
              (p \in Taken <=> \E k \in DOMAIN out : p = <<out[k].session, out[k].microBatch>>)
<1>1. p = <<p[1], p[2]>> /\ p[1] \in Sessions /\ p[2] \in MicroBatches
  BY DEF Pairs
<1> QED  BY <1>1 DEF Taken, ToSet

LEMMA InitIInv == Init => IInv
<1> SUFFICES ASSUME Init PROVE IInv
  OBVIOUS
<1>1. StateInv
  <2>1. PICK l \in Launches : needSchedule = l.needSchedule /\ sortLoopMax = l.sortLoopMax
    BY DEF Init
  <2>2. /\ l.needSchedule \in BOOLEAN /\ l.sortLoopMax \in Nat \ {0}
        /\ l.needSchedule => BsKPad <= l.sortLoopMax
    BY BatchingAssumption DEF BsKPad
  <2>3. \E n \in Nat : out \in [1 .. n -> Entry]
    <3>1. out \in [1 .. 0 -> Entry] /\ 0 \in Nat
      BY DEF Init
    <3> QED  BY <3>1
  <2>4. pollingIndex \in MicroBatches /\ mbId \in [Cores -> MicroBatches]
    <3>1. 0 \in MicroBatches
      BY ConstFacts DEF MicroBatches
    <3> QED  BY <3>1 DEF Init
  <2>5. /\ flag \in [Pairs -> {0, 1}] /\ ids \in [Pairs -> IdRow] /\ want \in [Pairs -> IdRow]
        /\ sent \in [Pairs -> Nat] /\ answered \in [Pairs -> Nat]
        /\ pc \in [Cores -> Places]
    BY ConstFacts DEF Init, Places
  <2> QED  BY <2>1, <2>2, <2>3, <2>4, <2>5 DEF StateInv
<1>2. \A p \in Pairs : ~InHand(p)
  <2> TAKE p \in Pairs
  <2>1. CASE needSchedule
    BY <2>1, ConstFacts DEF Init, InHand, Busy
  <2>2. CASE ~needSchedule
    BY <2>2, <1>1, TakenFacts DEF Init, InHand
  <2> QED  BY <2>1, <2>2
<1>3. pc[0] = "idle" /\ pc[LastCoreId] = "idle" /\ \A c \in Cores : pc[c] = "idle"
  BY ConstFacts DEF Init
<1>4. StageInv /\ BatchInv /\ WipedInv
  BY <1>3 DEF StageInv, BatchInv, WipedInv, Stages
<1>5. RoundInv
  BY <1>2, ConstFacts DEF Init, RoundInv
<1>6. ListInv
  BY DEF Init, ListInv
<1> QED  BY <1>1, <1>4, <1>5, <1>6 DEF IInv

(* What RoundsKept says, from the invariant. *)
LEMMA InvKept == IInv => RoundsKept
<1> SUFFICES ASSUME IInv, NEW p \in Pairs, sent[p] # answered[p]
             PROVE  \/ flag[p] = 1 /\ ids[p] = want[p]
                    \/ /\ needSchedule /\ p \in Taken
                       /\ pc[0] \in {"sort", "wiped", "drop", "merged", "out", "done"}
                    \/ /\ ~needSchedule /\ ~AllAt("idle")
                       /\ \E entry \in ToSet(out) :
                            entry = [session |-> p[1], microBatch |-> p[2], ids |-> want[p]]
  BY DEF RoundsKept
<1>1. CASE ~InHand(p)
  BY <1>1 DEF IInv, RoundInv
<1>2. CASE InHand(p) /\ needSchedule
  BY <1>2 DEF InHand, Busy
<1>3. CASE InHand(p) /\ ~needSchedule
  <2>1. StateInv /\ ListInv
    BY DEF IInv
  <2>2. PICK k \in DOMAIN out : p = <<out[k].session, out[k].microBatch>>
    BY <1>3, <2>1, TakenFacts DEF InHand
  <2>3. out[k] \in Entry
    BY <2>1 DEF StateInv
  <2>4. out[k].ids = want[p] /\ out # <<>>
    BY <2>1, <2>2 DEF ListInv
  <2>5. out[k] = [session |-> p[1], microBatch |-> p[2], ids |-> want[p]]
    BY <2>2, <2>3, <2>4 DEF Entry
  <2>6. ~AllAt("idle")
    BY <2>1, <2>4 DEF ListInv
  <2> QED  BY <1>3, <2>5, <2>6 DEF ToSet
<1> QED  BY <1>1, <1>2, <1>3

----------------------------------------------------------------------------
(* One action after the other. *)

Still == UNCHANGED <<tiling, flag, ids, context, mbId, attn, answered>>

(* A core goes on, with nothing else that matters here. *)
LEMMA StillStep ==
  ASSUME IInv, Still, NEW c \in Cores, NEW l, pc' = [pc EXCEPT ![c] = l],
         \/ pc[c] = "drop" /\ l = "merged" /\ c # LastCoreId
         \/ pc[c] = "out" /\ l = "done"
         \/ pc[c] = "list" /\ l = "end"
  PROVE  IInv'
<1>1. /\ needSchedule' = needSchedule /\ sortLoopMax' = sortLoopMax /\ flag' = flag /\ ids' = ids
      /\ pollingIndex' = pollingIndex /\ out' = out /\ mbId' = mbId
      /\ sent' = sent /\ want' = want /\ answered' = answered
  BY DEF Still, tiling, context, attn
<1>2. Taken' = Taken /\ (OneCoreSort <=> OneCoreSort') /\ \A d \in Cores : SortedSessions(d)' = SortedSessions(d)
  BY <1>1 DEF Taken, OneCoreSort, SortedSessions, SessionPerSort
<1>3. pc \in [Cores -> Places] /\ 0 \in Cores /\ LastCoreId \in Cores /\ l \in Places
  BY ConstFacts DEF IInv, StateInv, Places
<1>4. StateInv'
  BY <1>1, <1>3 DEF IInv, StateInv
<1>5. PICK stage \in Stages : \A d \in Cores : pc[d] \in stage
  BY DEF IInv, StageInv
<1>6. l \in stage
  BY <1>5 DEF Stages
<1>7. StageInv'
  BY <1>1, <1>3, <1>5, <1>6 DEF IInv, StageInv
<1>8. /\ pc'[0] \in Busy <=> pc[0] \in Busy
      /\ pc[0] \notin {"idle", "start", "scan", "scanned"} /\ pc'[0] \notin {"idle", "start", "scan", "scanned"}
      /\ \A d \in Cores : pc'[d] # "start"
      /\ \A d \in Cores : pc'[d] # "idle"
      /\ \A d \in Cores : pc'[d] # "wiped"
  BY <1>3, <1>5, <1>6 DEF Stages, Busy
<1>9. BatchInv'
  BY <1>1, <1>2, <1>8 DEF IInv, BatchInv
<1>10. \A p \in Pairs : InHand(p) <=> InHand(p)'
  BY <1>1, <1>2, <1>8 DEF InHand
<1>11. RoundInv'
  BY <1>1, <1>10 DEF IInv, RoundInv
<1>12. WipedInv'
  <2> SUFFICES ASSUME needSchedule, NEW p \in Taken
               PROVE  /\ pc'[0] \in {"drop", "merged", "out", "done"} => ids[p] = Empty
                      /\ OneCoreSort /\ pc'[0] \in {"wiped", "drop", "merged", "out", "done"} => flag[p] = 0
                      /\ pc'[LastCoreId] = "merged" \/ pc'[0] \in {"out", "done"} => flag[p] = 0
    BY <1>1, <1>2, <1>8 DEF WipedInv
  <2>1. /\ pc[0] \in {"drop", "merged", "out", "done"} => ids[p] = Empty
        /\ OneCoreSort /\ pc[0] \in {"wiped", "drop", "merged", "out", "done"} => flag[p] = 0
        /\ pc[LastCoreId] = "merged" \/ pc[0] \in {"out", "done"} => flag[p] = 0
    BY DEF IInv, WipedInv
  <2>2. /\ pc'[0] \in {"drop", "merged", "out", "done"} => pc[0] \in {"drop", "merged", "out", "done"}
        /\ pc'[0] \in {"wiped", "drop", "merged", "out", "done"} => pc[0] \in {"wiped", "drop", "merged", "out", "done"}
        /\ pc'[0] \in {"out", "done"} => pc[0] \in {"out", "done"}
        /\ pc'[LastCoreId] = "merged" => pc[LastCoreId] = "merged"
    BY <1>3, <1>5, <1>6 DEF Stages
  <2> QED  BY <2>1, <2>2
<1>13. ListInv'
  BY <1>1, <1>3, <1>8, <1>5 DEF IInv, ListInv, AllAt
<1> QED  BY <1>4, <1>7, <1>9, <1>11, <1>12, <1>13 DEF IInv

LEMMA StepsCalm ==
  ASSUME IInv,
         \/ \E c \in Cores : Merge(c) \/ Gather(c) \/ CountExperts(c)
         \/ ListGroups \/ ListCounts
  PROVE  IInv'
<1>1. ASSUME NEW c \in Cores, Merge(c) PROVE IInv'
  <2>1. Still /\ pc[c] = "drop" /\ c # LastCoreId /\ pc' = [pc EXCEPT ![c] = "merged"]
    BY <1>1 DEF Merge, Goto, Still, window
  <2> QED  BY <2>1, StillStep
<1>2. ASSUME NEW c \in Cores, Gather(c) \/ CountExperts(c) PROVE IInv'
  <2>1. Still /\ pc[c] = "out" /\ pc' = [pc EXCEPT ![c] = "done"]
    BY <1>2 DEF Gather, CountExperts, Goto, Still, window
  <2> QED  BY <2>1, StillStep
<1>3. CASE ListGroups
  <2>1. Still /\ pc[LastCoreId] = "out" /\ pc' = [pc EXCEPT ![LastCoreId] = "done"]
    BY <1>3 DEF ListGroups, Goto, Still, window
  <2> QED  BY <2>1, ConstFacts, StillStep
<1>4. CASE ListCounts
  <2>1. Still /\ pc[LastCoreId] = "list" /\ pc' = [pc EXCEPT ![LastCoreId] = "end"]
    BY <1>4 DEF ListCounts, Goto, Still, window
  <2> QED  BY <2>1, ConstFacts, StillStep
<1> QED  BY <1>1, <1>2, <1>3, <1>4

(* Nothing the invariant is about changes. *)
LEMMA StepIdle ==
  ASSUME IInv, Still, UNCHANGED pc
  PROVE  IInv'
<1>1. /\ needSchedule' = needSchedule /\ sortLoopMax' = sortLoopMax /\ flag' = flag /\ ids' = ids
      /\ pollingIndex' = pollingIndex /\ out' = out /\ mbId' = mbId /\ pc' = pc
      /\ sent' = sent /\ want' = want /\ answered' = answered
  BY DEF Still, tiling, context, attn
<1>2. Taken' = Taken /\ (OneCoreSort <=> OneCoreSort') /\ \A d \in Cores : SortedSessions(d)' = SortedSessions(d)
  BY <1>1 DEF Taken, OneCoreSort, SortedSessions, SessionPerSort
<1>3. \A p \in Pairs : InHand(p) <=> InHand(p)'
  BY <1>1, <1>2 DEF InHand
<1>4. StateInv' /\ StageInv' /\ BatchInv'
  BY <1>1, <1>2 DEF IInv, StateInv, StageInv, BatchInv
<1>5. RoundInv'
  BY <1>1, <1>3 DEF IInv, RoundInv
<1>6. WipedInv' /\ ListInv'
  BY <1>1, <1>2 DEF IInv, WipedInv, ListInv, AllAt
<1> QED  BY <1>4, <1>5, <1>6 DEF IInv

LEMMA StepBarrier ==
  ASSUME IInv, Barrier
  PROVE  IInv'
<1>1. PICK from, to :
        /\ SyncAll(from, to)
        /\ <<from, to>> \in {<<"scanned", "sort">>, <<"wiped", "drop">>, <<"merged", "out">>, <<"done", "list">>}
        /\ from = "done" => ~needSchedule
  BY DEF Barrier
<1>2. /\ needSchedule' = needSchedule /\ sortLoopMax' = sortLoopMax /\ flag' = flag /\ ids' = ids
      /\ pollingIndex' = pollingIndex /\ out' = out /\ mbId' = mbId
      /\ sent' = sent /\ want' = want /\ answered' = answered
  BY <1>1 DEF SyncAll, tiling, window, context, attn
<1>3. Taken' = Taken /\ (OneCoreSort <=> OneCoreSort') /\ \A d \in Cores : SortedSessions(d)' = SortedSessions(d)
  BY <1>2 DEF Taken, OneCoreSort, SortedSessions, SessionPerSort
<1>4. /\ \A d \in Cores : pc[d] = from /\ pc'[d] = to
      /\ pc' \in [Cores -> Places] /\ 0 \in Cores /\ LastCoreId \in Cores
  BY <1>1, ConstFacts DEF SyncAll, AllAt, Places
<1>5. StateInv'
  BY <1>2, <1>4 DEF IInv, StateInv
<1>6. StageInv'
  BY <1>1, <1>4 DEF StageInv, Stages
<1>7. BatchInv'
  BY <1>1, <1>2, <1>3, <1>4 DEF IInv, BatchInv
<1>8. CASE from = "scanned"
  <2>1. to = "sort"
    BY <1>1, <1>8
  <2>2. ASSUME NEW p \in Pairs
        PROVE  /\ sent[p] = answered[p] => ~InHand(p)'
               /\ InHand(p) => InHand(p)'
    <3>1. CASE needSchedule /\ p \in Taken
      <4>1. flag[p] = 1
        BY <1>4, <1>8, <3>1 DEF IInv, BatchInv
      <4>2. sent[p] # answered[p]
        BY <4>1 DEF IInv, RoundInv
      <4> QED  BY <1>2, <1>3, <1>4, <2>1, <3>1, <4>2 DEF InHand, Busy
    <3>2. CASE ~(needSchedule /\ p \in Taken)
      BY <1>2, <1>3, <3>2 DEF IInv, RoundInv, InHand
    <3> QED  BY <3>1, <3>2
  <2>3. RoundInv'
    BY <1>2, <2>2 DEF IInv, RoundInv
  <2>4. WipedInv'
    BY <1>4, <2>1 DEF WipedInv
  <2> QED  BY <1>2, <1>4, <1>5, <1>6, <1>7, <1>8, <2>1, <2>3, <2>4 DEF IInv, ListInv, AllAt
<1>9. CASE from # "scanned"
  <2>1. \A p \in Pairs : InHand(p) <=> InHand(p)'
    BY <1>1, <1>2, <1>3, <1>4, <1>9 DEF InHand, Busy
  <2>2. RoundInv'
    BY <1>2, <2>1 DEF IInv, RoundInv
  <2>3. WipedInv'
    <3> SUFFICES ASSUME needSchedule, NEW p \in Taken
                 PROVE  ids[p] = Empty /\ (OneCoreSort \/ to = "out" => flag[p] = 0)
      BY <1>1, <1>2, <1>3, <1>4, <1>9 DEF WipedInv
    <3>1. p \in Pairs
      BY DEF Taken
    <3>2. ids[p] = Empty
      <4>1. CASE from = "wiped"
        <5>1. PICK c \in Cores : p[1] \in SortedSessions(c)
          BY <3>1, AllSorted DEF IInv, Pairs
        <5> QED  BY <1>4, <4>1, <5>1 DEF IInv, WipedInv
      <4>2. CASE from # "wiped"
        BY <1>1, <1>4, <1>9, <4>2 DEF IInv, WipedInv
      <4> QED  BY <4>1, <4>2
    <3>3. OneCoreSort \/ to = "out" => flag[p] = 0
      BY <1>1, <1>4, <1>9 DEF IInv, WipedInv
    <3> QED  BY <3>2, <3>3
  <2>4. ListInv'
    BY <1>1, <1>2, <1>4 DEF IInv, ListInv, AllAt
  <2> QED  BY <1>5, <1>6, <1>7, <2>2, <2>3, <2>4 DEF IInv
<1> QED  BY <1>8, <1>9

(* A session sends a micro-batch that is neither flagged nor in hand. *)
LEMMA StepSend ==
  ASSUME IInv, NEW s \in Sessions, NEW m \in MicroBatches, Send(s, m)
  PROVE  IInv'
<1> DEFINE p == <<s, m>>
<1>1. p \in Pairs
  BY DEF Pairs
<1>2. sent[p] = answered[p] /\ flag[p] = 0
  BY DEF Send, MaySend
<1>3. ids[p] = Empty /\ ~InHand(p)
  BY <1>1, <1>2 DEF IInv, RoundInv
<1>4. PICK w \in Workloads[s] :
        /\ want' = [want EXCEPT ![p] = w]
        /\ ids' = [ids EXCEPT ![p] = [i \in Slots |-> IF w[i] # Invalid THEN w[i] ELSE @[i]]]
  BY DEF Send
<1>5. w \in IdRow
  BY WorkloadFacts
<1>6. ids' = [ids EXCEPT ![p] = w]
  <2>1. [i \in Slots |-> IF w[i] # Invalid THEN w[i] ELSE ids[p][i]] = w
    <3>1. \A i \in Slots : ids[p][i] = Invalid
      BY <1>3 DEF Empty
    <3> QED  BY <1>5, <3>1 DEF IdRow
  <2> QED  BY <1>1, <1>4, <2>1 DEF IInv, StateInv
<1>7. /\ flag' = [flag EXCEPT ![p] = 1] /\ sent' = [sent EXCEPT ![p] = @ + 1]
      /\ needSchedule' = needSchedule /\ sortLoopMax' = sortLoopMax
      /\ pollingIndex' = pollingIndex /\ out' = out /\ mbId' = mbId /\ pc' = pc
      /\ answered' = answered
  BY DEF Send, tiling, context, cores
<1> HIDE DEF p
<1>8. Taken' = Taken /\ (OneCoreSort <=> OneCoreSort') /\ \A d \in Cores : SortedSessions(d)' = SortedSessions(d)
  BY <1>7 DEF Taken, OneCoreSort, SortedSessions, SessionPerSort
<1>9. StateInv'
  <2>1. StateInv
    BY DEF IInv
  <2>2. flag' \in [Pairs -> {0, 1}] /\ sent' \in [Pairs -> Nat]
    BY <1>1, <1>7, <2>1 DEF StateInv
  <2>3. ids' \in [Pairs -> IdRow] /\ want' \in [Pairs -> IdRow]
    BY <1>1, <1>4, <1>5, <1>6, <2>1 DEF StateInv
  <2> QED  BY <1>7, <2>1, <2>2, <2>3 DEF StateInv
<1>10. StageInv' /\ BatchInv'
  <2>1. \A q \in Taken : flag[q] = 1 => flag'[q] = 1
    BY <1>1, <1>7 DEF IInv, StateInv, Taken
  <2>2. StageInv'
    BY <1>7 DEF IInv, StageInv
  <2>3. Taken \subseteq Pairs \/ ~needSchedule
    BY DEF Taken
  <2> QED  BY <1>7, <1>8, <2>1, <2>2, <2>3 DEF IInv, BatchInv
<1>11. \A q \in Pairs : InHand(q) <=> InHand(q)'
  BY <1>7, <1>8 DEF InHand
<1>12. RoundInv'
  <2> SUFFICES ASSUME NEW q \in Pairs
               PROVE  /\ sent'[q] \in {answered[q], answered[q] + 1}
                      /\ sent'[q] = answered[q] => flag'[q] = 0 /\ ids'[q] = Empty /\ ~InHand(q)
                      /\ sent'[q] # answered[q] /\ ~InHand(q) => flag'[q] = 1 /\ ids'[q] = want'[q]
    BY <1>7, <1>11 DEF RoundInv
  <2>1. CASE q = p
    <3>1. sent'[q] = answered[q] + 1 /\ answered[q] \in Nat /\ flag'[q] = 1 /\ ids'[q] = w /\ want'[q] = w
      BY <1>1, <1>2, <1>4, <1>6, <1>7, <2>1 DEF IInv, StateInv
    <3> QED  BY <3>1
  <2>2. CASE q # p
    <3>1. sent'[q] = sent[q] /\ flag'[q] = flag[q] /\ ids'[q] = ids[q] /\ want'[q] = want[q]
      BY <1>4, <1>6, <1>7, <2>2 DEF IInv, StateInv
    <3> QED  BY <3>1 DEF IInv, RoundInv
  <2> QED  BY <2>1, <2>2
<1>13. WipedInv'
  <2> SUFFICES ASSUME needSchedule, NEW q \in Taken
               PROVE  /\ \A c \in Cores : pc[c] = "wiped" /\ q[1] \in SortedSessions(c) => ids'[q] = Empty
                      /\ pc[0] \in {"drop", "merged", "out", "done"} => ids'[q] = Empty
                      /\ OneCoreSort /\ pc[0] \in {"wiped", "drop", "merged", "out", "done"} => flag'[q] = 0
                      /\ pc[LastCoreId] = "merged" \/ pc[0] \in {"out", "done"} => flag'[q] = 0
    BY <1>7, <1>8 DEF WipedInv
  <2>1. q \in Pairs
    BY DEF Taken
  <2>2. CASE q # p
    <3>1. flag'[q] = flag[q] /\ ids'[q] = ids[q]
      BY <1>6, <1>7, <2>1, <2>2 DEF IInv, StateInv
    <3> QED  BY <3>1 DEF IInv, WipedInv
  <2>3. CASE q = p
    <3>1. pc[0] \notin Busy
      BY <1>3, <2>3 DEF InHand
    <3>2. \A c \in Cores : pc[c] \notin {"wiped", "merged"}
      <4>1. PICK stage \in Stages : \A d \in Cores : pc[d] \in stage
        BY DEF IInv, StageInv
      <4>2. pc[0] \in stage
        BY <4>1, ConstFacts
      <4> QED  BY <3>1, <4>1, <4>2 DEF Stages, Busy
    <3> QED  BY <3>1, <3>2, ConstFacts DEF Busy
  <2> QED  BY <2>2, <2>3
<1>14. ListInv'
  <2> SUFFICES ASSUME NEW k \in DOMAIN out
               PROVE  LET q == <<out[k].session, out[k].microBatch>>
                      IN out[k].ids = want'[q] /\ ids'[q] = Empty /\ flag'[q] = 0
    BY <1>7 DEF IInv, ListInv, AllAt
  <2> DEFINE q == <<out[k].session, out[k].microBatch>>
  <2>1. ~needSchedule
    BY DEF IInv, ListInv
  <2>2. q \in Pairs
    BY DEF IInv, StateInv, Entry, Pairs
  <2>3. q \in Taken
    BY <2>1, <2>2, TakenFacts DEF IInv
  <2>4. q # p
    BY <1>3, <2>1, <2>3 DEF InHand
  <2> HIDE DEF q
  <2>5. want'[q] = want[q] /\ ids'[q] = ids[q] /\ flag'[q] = flag[q]
    BY <1>4, <1>6, <1>7, <2>2, <2>4 DEF IInv, StateInv
  <2> QED  BY <2>5 DEF IInv, ListInv, q
<1> QED  BY <1>9, <1>10, <1>12, <1>13, <1>14 DEF IInv

(* The scheduler's list names the micro-batches it took, with their ids. *)
LEMMA ScheduledList ==
  ASSUME StateInv, NEW taken \in SUBSET Pairs, Schedule(taken)
  PROVE  /\ \E n \in Nat : out' \in [1 .. n -> Entry]
         /\ \A k \in DOMAIN out' : \E p \in taken :
              out'[k] = [session |-> p[1], microBatch |-> p[2], ids |-> ids[p]]
         /\ \A p \in taken : \E k \in DOMAIN out' :
              out'[k] = [session |-> p[1], microBatch |-> p[2], ids |-> ids[p]]
         /\ \A j, k \in DOMAIN out' : j < k => out'[j].session < out'[k].session
<1> DEFINE before == {z \in taken \X taken : z[1][1] < z[2][1]}
           order == InOrder(taken, before)
           n == Cardinality(taken)
<1>1. IsFiniteSet(taken)
  <2>1. IsFiniteSet(Sessions) /\ IsFiniteSet(MicroBatches)
    <3>1. 0 \in Int /\ SessionNum - 1 \in Int /\ MicroBatchNum - 1 \in Int
      BY ConstFacts
    <3> QED  BY <3>1, FS_Interval DEF Sessions, MicroBatches
  <2>2. IsFiniteSet(Pairs)
    BY <2>1, FS_Product DEF Pairs
  <2> QED  BY <2>2, FS_Subset
<1>2. \A p \in taken : p = <<p[1], p[2]>> /\ p[1] \in Sessions /\ p[2] \in MicroBatches
  BY DEF Pairs
<1>3. StrictOrder(taken, before)
  <2>1. \A p, q \in taken : <<p, q>> \in before <=> p[1] < q[1]
    OBVIOUS
  <2>2. \A p, q \in taken : p[1] = q[1] => p = q
    BY DEF Schedule, OneEach
  <2>3. \A p \in taken : p[1] \in Int
    BY <1>2, ConstFacts DEF Sessions
  <2> HIDE DEF before
  <2> QED  BY <2>1, <2>2, <2>3 DEF StrictOrder
<1>4. /\ n \in Nat /\ order \in [1 .. n -> taken] /\ \A x \in taken : \E k \in 1 .. n : order[k] = x
      /\ \A j, k \in 1 .. n : j < k => <<order[j], order[k]>> \in before
  <2> HIDE DEF before
  <2> QED  BY <1>1, <1>3, InOrderFacts
<1>5. out' = [k \in DOMAIN order |->
                [session |-> order[k][1], microBatch |-> order[k][2], ids |-> ids[order[k]]]]
  BY DEF Schedule
<1> HIDE DEF order, n
<1>6. DOMAIN order = 1 .. n
  BY <1>4
<1>7. \A k \in 1 .. n : /\ order[k] \in taken
                        /\ out'[k] = [session |-> order[k][1], microBatch |-> order[k][2], ids |-> ids[order[k]]]
  BY <1>4, <1>5, <1>6
<1>8. out' \in [1 .. n -> Entry]
  <2>1. \A k \in 1 .. n : out'[k] \in Entry
    <3> TAKE k \in 1 .. n
    <3>1. order[k] \in Pairs /\ order[k][1] \in Sessions /\ order[k][2] \in MicroBatches
      BY <1>2, <1>7
    <3>2. ids[order[k]] \in IdRow
      BY <3>1 DEF StateInv
    <3>3. out'[k] = [session |-> order[k][1], microBatch |-> order[k][2], ids |-> ids[order[k]]]
      BY <1>7
    <3> HIDE DEF before
    <3>4. [session |-> order[k][1], microBatch |-> order[k][2], ids |-> ids[order[k]]] \in Entry
      BY <3>1, <3>2 DEF Entry
    <3> QED  BY <3>3, <3>4
  <2>2. out' = [k \in 1 .. n |-> out'[k]]
    BY <1>5, <1>6
  <2> QED  BY <2>1, <2>2
<1>9. DOMAIN out' = 1 .. n
  BY <1>8
<1>10. \E m \in Nat : out' \in [1 .. m -> Entry]
  BY <1>4, <1>8
<1>11. ASSUME NEW k \in DOMAIN out'
       PROVE  \E p \in taken : out'[k] = [session |-> p[1], microBatch |-> p[2], ids |-> ids[p]]
  BY <1>7, <1>9
<1>12. ASSUME NEW p \in taken
       PROVE  \E k \in DOMAIN out' : out'[k] = [session |-> p[1], microBatch |-> p[2], ids |-> ids[p]]
  <2>1. PICK k \in 1 .. n : order[k] = p
    BY <1>4
  <2> QED  BY <1>7, <1>9, <2>1
<1>13. ASSUME NEW j \in DOMAIN out', NEW k \in DOMAIN out', j < k
       PROVE  out'[j].session < out'[k].session
  <2>1. order[j][1] < order[k][1]
    BY <1>4, <1>9, <1>13
  <2>2. out'[j].session = order[j][1] /\ out'[k].session = order[k][1]
    <3> HIDE DEF before
    <3> QED  BY <1>7, <1>9
  <2> QED  BY <2>1, <2>2
<1> QED  BY <1>10, <1>11, <1>12, <1>13

LEMMA StepSchedule ==
  ASSUME IInv, NEW taken \in SUBSET Pairs, Schedule(taken)
  PROVE  IInv'
<1>1. /\ ~needSchedule /\ \A c \in Cores : pc[c] = "idle"
      /\ \A p \in taken : flag[p] = 1
      /\ ids' = [p \in Pairs |-> IF p \in taken THEN Empty ELSE ids[p]]
      /\ flag' = [p \in Pairs |-> IF p \in taken THEN 0 ELSE flag[p]]
      /\ pc' = [c \in Cores |-> "start"]
      /\ needSchedule' = needSchedule /\ sortLoopMax' = sortLoopMax
      /\ pollingIndex' = pollingIndex /\ mbId' = mbId
      /\ sent' = sent /\ want' = want /\ answered' = answered
  BY DEF Schedule, OneEach, StartCores, AllAt, tiling, attn
<1>2. /\ \E n \in Nat : out' \in [1 .. n -> Entry]
      /\ \A k \in DOMAIN out' : \E p \in taken :
           out'[k] = [session |-> p[1], microBatch |-> p[2], ids |-> ids[p]]
      /\ \A p \in taken : \E k \in DOMAIN out' :
           out'[k] = [session |-> p[1], microBatch |-> p[2], ids |-> ids[p]]
  BY ScheduledList DEF IInv
<1>3. StateInv'
  <2>1. flag' \in [Pairs -> {0, 1}] /\ ids' \in [Pairs -> IdRow] /\ pc' \in [Cores -> Places]
    BY <1>1, ConstFacts DEF IInv, StateInv, Places
  <2> QED  BY <1>1, <1>2, <2>1 DEF IInv, StateInv
<1>4. StageInv' /\ BatchInv' /\ WipedInv'
  BY <1>1 DEF StageInv, Stages, BatchInv, WipedInv
<1>5. \A p \in Pairs : ~InHand(p)
  <2>1. out = <<>>
    BY <1>1 DEF IInv, ListInv, AllAt
  <2> QED  BY <1>1, <2>1, TakenFacts DEF IInv, InHand
<1>6. \A p \in Pairs : InHand(p)' <=> p \in taken
  <2> TAKE p \in Pairs
  <2>1. InHand(p)' <=> p \in Taken'
    BY <1>1 DEF InHand
  <2>2. Taken' = {<<entry.session, entry.microBatch>> : entry \in {out'[k] : k \in DOMAIN out'}}
    BY <1>1 DEF Taken, ToSet
  <2>3. \A q \in taken : q = <<q[1], q[2]>>
    BY DEF Pairs
  <2>4. p \in Taken' <=> \E k \in DOMAIN out' : p = <<out'[k].session, out'[k].microBatch>>
    BY <2>2
  <2>5. p \in taken => p \in Taken'
    <3> HAVE p \in taken
    <3>1. PICK k \in DOMAIN out' : out'[k] = [session |-> p[1], microBatch |-> p[2], ids |-> ids[p]]
      BY <1>2
    <3> QED  BY <2>3, <2>4, <3>1
  <2>6. p \in Taken' => p \in taken
    <3> HAVE p \in Taken'
    <3>1. PICK k \in DOMAIN out' : p = <<out'[k].session, out'[k].microBatch>>
      BY <2>4
    <3>2. PICK q \in taken : out'[k] = [session |-> q[1], microBatch |-> q[2], ids |-> ids[q]]
      BY <1>2
    <3> QED  BY <2>3, <3>1, <3>2
  <2> QED  BY <2>1, <2>5, <2>6
<1>7. RoundInv'
  <2> SUFFICES ASSUME NEW p \in Pairs
               PROVE  /\ sent[p] \in {answered[p], answered[p] + 1}
                      /\ sent[p] = answered[p] => flag'[p] = 0 /\ ids'[p] = Empty /\ p \notin taken
                      /\ sent[p] # answered[p] /\ p \notin taken => flag'[p] = 1 /\ ids'[p] = want[p]
    BY <1>1, <1>6 DEF RoundInv
  <2> QED  BY <1>1, <1>5 DEF IInv, RoundInv
<1>8. ListInv'
  <2>1. ~AllAt("idle")'
    BY <1>1, ConstFacts DEF AllAt
  <2>2. ASSUME NEW k \in DOMAIN out'
        PROVE  LET p == <<out'[k].session, out'[k].microBatch>>
               IN out'[k].ids = want[p] /\ ids'[p] = Empty /\ flag'[p] = 0
    <3>1. PICK p \in taken : out'[k] = [session |-> p[1], microBatch |-> p[2], ids |-> ids[p]]
      BY <1>2
    <3>2. p = <<p[1], p[2]>> /\ p \in Pairs
      BY DEF Pairs
    <3>3. out'[k].session = p[1] /\ out'[k].microBatch = p[2] /\ out'[k].ids = ids[p]
      BY <3>1
    <3>4. ids[p] = want[p] /\ ids'[p] = Empty /\ flag'[p] = 0
      BY <1>1, <1>5, <3>2 DEF IInv, RoundInv
    <3> QED  BY <3>2, <3>3, <3>4
  <2> QED  BY <1>1, <2>1, <2>2 DEF ListInv
<1> QED  BY <1>3, <1>4, <1>7, <1>8 DEF IInv

LEMMA StepLaunch ==
  ASSUME IInv, Launch
  PROVE  IInv'
<1>1. /\ needSchedule /\ \A c \in Cores : pc[c] = "idle"
      /\ ids' = ids /\ flag' = flag /\ out' = out
      /\ pc' = [c \in Cores |-> "start"]
      /\ needSchedule' = needSchedule /\ sortLoopMax' = sortLoopMax
      /\ pollingIndex' = pollingIndex /\ mbId' = mbId
      /\ sent' = sent /\ want' = want /\ answered' = answered
  BY DEF Launch, StartCores, AllAt, tiling, attn, window
<1>2. pc' \in [Cores -> Places] /\ pc[0] = "idle" /\ pc'[0] = "start"
  BY <1>1, ConstFacts DEF Places
<1>3. StateInv'
  BY <1>1, <1>2 DEF IInv, StateInv
<1>4. StageInv' /\ BatchInv' /\ WipedInv'
  <2>1. \A c \in Cores : pc'[c] = "start"
    BY <1>1
  <2> QED  BY <1>2, <2>1, ConstFacts DEF StageInv, Stages, BatchInv, WipedInv
<1>5. \A p \in Pairs : ~InHand(p) /\ ~InHand(p)'
  BY <1>1, <1>2 DEF InHand, Busy
<1>6. RoundInv' /\ ListInv'
  BY <1>1, <1>5 DEF IInv, RoundInv, ListInv
<1> QED  BY <1>3, <1>4, <1>6 DEF IInv

(* A core reads the polling index, before core 0 has moved it on. *)
LEMMA StepReadContext ==
  ASSUME IInv, NEW c \in Cores, ReadContext(c), ~ReadsLate
  PROVE  IInv'
<1> DEFINE l == AfterContext(c)
<1>1. /\ pc[c] = "start" /\ pc' = [pc EXCEPT ![c] = l]
      /\ mbId' = [mbId EXCEPT ![c] = IF needSchedule THEN pollingIndex ELSE @]
      /\ needSchedule' = needSchedule /\ sortLoopMax' = sortLoopMax /\ flag' = flag /\ ids' = ids
      /\ pollingIndex' = pollingIndex /\ out' = out
      /\ sent' = sent /\ want' = want /\ answered' = answered
  BY DEF ReadContext, tiling, window, context, attn
<1>2. l \in {"scan", "scanned"} /\ (l = "scan" <=> needSchedule /\ c = 0)
  BY DEF AfterContext
<1> HIDE DEF l
<1>3. 0 \in Cores /\ LastCoreId \in Cores
  BY ConstFacts
<1>4. pc \in [Cores -> Places] /\ mbId \in [Cores -> MicroBatches] /\ pollingIndex \in MicroBatches
  BY DEF IInv, StateInv
<1>5. StateInv'
  <2>1. pc' \in [Cores -> Places] /\ mbId' \in [Cores -> MicroBatches]
    BY <1>1, <1>2, <1>4 DEF Places
  <2> QED  BY <1>1, <2>1 DEF IInv, StateInv
<1>6. \A d \in Cores : pc[d] \in {"start", "scan", "scanned"}
  BY <1>1 DEF IInv, StageInv, Stages
<1>7. \A d \in Cores : pc'[d] \in {"start", "scan", "scanned"}
  BY <1>1, <1>2, <1>4, <1>6
<1>8. StageInv'
  BY <1>1, <1>2, <1>4, <1>7 DEF IInv, StageInv, Stages
<1>9. pc[0] \notin Busy /\ pc'[0] \notin Busy
  BY <1>3, <1>6, <1>7 DEF Busy
<1>10. BatchInv'
  <2> SUFFICES ASSUME needSchedule PROVE BatchInv'
    BY <1>1 DEF BatchInv
  <2>1. CASE pc[0] \in {"start", "scan"}
    <3>1. pc'[0] \in {"start", "scan"}
      BY <1>1, <1>2, <1>3, <1>4, <2>1
    <3> QED  BY <1>1, <1>3, <1>4, <2>1, <3>1 DEF IInv, BatchInv
  <2>2. CASE pc[0] = "scanned"
    <3>1. c # 0 /\ pc'[0] = "scanned" /\ mbId'[0] = mbId[0] /\ pollingIndex = mbId[0]
      BY <1>1, <1>3, <1>4, <2>2 DEF ReadsLate
    <3>2. \A d \in Cores : pc'[d] # "start" => mbId'[d] = mbId'[0]
      BY <1>1, <1>3, <1>4, <2>2, <3>1 DEF IInv, BatchInv
    <3>3. Taken' = Taken
      BY <1>1, <3>1 DEF Taken
    <3>4. \A p \in Taken : flag[p] = 1
      BY <2>2 DEF IInv, BatchInv
    <3> QED  BY <1>1, <3>1, <3>2, <3>3, <3>4 DEF BatchInv
  <2> QED  BY <1>3, <1>6, <2>1, <2>2
<1>11. \A p \in Pairs : InHand(p)' <=> InHand(p)
  <2>1. CASE needSchedule
    BY <1>1, <1>9, <2>1 DEF InHand
  <2>2. CASE ~needSchedule
    <3>1. Taken' = Taken
      BY <1>1, <2>2 DEF Taken
    <3> QED  BY <1>1, <2>2, <3>1 DEF InHand
  <2> QED  BY <2>1, <2>2
<1>12. RoundInv'
  BY <1>1, <1>11 DEF IInv, RoundInv
<1>13. WipedInv'
  BY <1>1, <1>3, <1>7 DEF WipedInv
<1>14. ListInv'
  BY <1>1, <1>3, <1>6 DEF IInv, ListInv, AllAt
<1> QED  BY <1>5, <1>8, <1>10, <1>12, <1>13, <1>14 DEF IInv

(* Core 0 has seen every session flagged. *)
LEMMA StepScan ==
  ASSUME IInv, Scan
  PROVE  IInv'
<1>1. /\ pc[0] = "scan" /\ pc' = [pc EXCEPT ![0] = "scanned"]
      /\ \A s \in Sessions : flag[<<s, mbId[0]>>] = 1
      /\ pollingIndex' = (mbId[0] + 1) % MicroBatchNum
      /\ mbId' = mbId
      /\ needSchedule' = needSchedule /\ sortLoopMax' = sortLoopMax /\ flag' = flag /\ ids' = ids
      /\ out' = out /\ sent' = sent /\ want' = want /\ answered' = answered
  BY DEF Scan, Goto, AllReady, tiling, window, attn
<1>2. 0 \in Cores /\ LastCoreId \in Cores /\ pc \in [Cores -> Places]
  BY ConstFacts DEF IInv, StateInv
<1>3. needSchedule /\ \A c \in Cores : pc[c] \in {"start", "scan", "scanned"}
  BY <1>1, <1>2 DEF IInv, StageInv, Stages
<1>4. Taken' = Taken /\ (OneCoreSort <=> OneCoreSort') /\ \A d \in Cores : SortedSessions(d)' = SortedSessions(d)
  BY <1>1 DEF Taken, OneCoreSort, SortedSessions, SessionPerSort
<1>5. StateInv'
  <2>1. pollingIndex' \in MicroBatches
    <3>1. mbId[0] \in MicroBatches /\ MicroBatchNum \in Nat \ {0}
      BY <1>2, ConstFacts DEF IInv, StateInv
    <3> QED  BY <1>1, <3>1 DEF MicroBatches
  <2>2. pc' \in [Cores -> Places]
    BY <1>1, <1>2 DEF Places
  <2> QED  BY <1>1, <2>1, <2>2 DEF IInv, StateInv
<1>6. pc'[0] = "scanned" /\ \A d \in Cores : pc'[d] \in {"start", "scan", "scanned"}
  BY <1>1, <1>2, <1>3
<1>7. StageInv'
  BY <1>1, <1>2, <1>3, <1>6 DEF IInv, StageInv, Stages
<1>8. BatchInv'
  <2>1. \A c \in Cores : pc'[c] # "start" => mbId[c] = mbId[0]
    BY <1>1, <1>2, <1>3 DEF IInv, BatchInv
  <2>2. \A p \in Taken : flag[p] = 1
    <3> TAKE p \in Taken
    <3>1. p = <<p[1], mbId[0]>> /\ p[1] \in Sessions
      BY <1>3 DEF Taken, Pairs
    <3> QED  BY <1>1, <3>1
  <2> QED  BY <1>1, <1>2, <1>4, <1>6, <2>1, <2>2 DEF BatchInv
<1>9. \A p \in Pairs : ~InHand(p) /\ ~InHand(p)'
  BY <1>1, <1>2, <1>3, <1>6 DEF InHand, Busy
<1>10. RoundInv'
  BY <1>1, <1>9 DEF IInv, RoundInv
<1>11. WipedInv'
  BY <1>2, <1>6 DEF WipedInv
<1>12. ListInv'
  BY <1>1, <1>3 DEF IInv, ListInv
<1> QED  BY <1>5, <1>7, <1>8, <1>10, <1>11, <1>12 DEF IInv

(* A sort core wipes its share of the sessions. *)
LEMMA StepSort ==
  ASSUME IInv, NEW c \in Cores, Sort(c)
  PROVE  IInv'
<1>1. /\ pc[c] = "sort" /\ pc' = [pc EXCEPT ![c] = "wiped"]
      /\ ids' = [p \in Pairs |->
           IF needSchedule /\ p[1] \in SortedSessions(c) /\ p[2] = mbId[c] THEN Empty ELSE ids[p]]
      /\ flag' = IF needSchedule /\ OneCoreSort /\ c = 0
                   THEN [p \in Pairs |-> IF p[2] = mbId[0] THEN 0 ELSE flag[p]]
                   ELSE flag
      /\ mbId' = mbId
      /\ needSchedule' = needSchedule /\ sortLoopMax' = sortLoopMax
      /\ pollingIndex' = pollingIndex /\ out' = out
      /\ sent' = sent /\ want' = want /\ answered' = answered
  BY DEF Sort, Goto, tiling, context, attn
<1>2. 0 \in Cores /\ LastCoreId \in Cores /\ pc \in [Cores -> Places]
  BY ConstFacts DEF IInv, StateInv
<1>3. \A d \in Cores : pc[d] \in {"sort", "wiped"} /\ pc'[d] \in {"sort", "wiped"}
  BY <1>1, <1>2 DEF IInv, StageInv, Stages
<1>4. Taken' = Taken /\ (OneCoreSort <=> OneCoreSort') /\ \A d \in Cores : SortedSessions(d)' = SortedSessions(d)
  BY <1>1 DEF Taken, OneCoreSort, SortedSessions, SessionPerSort
<1>5. StateInv'
  <2>1. pc' \in [Cores -> Places] /\ ids' \in [Pairs -> IdRow] /\ flag' \in [Pairs -> {0, 1}]
    <3>1. pc' \in [Cores -> Places]
      BY <1>1, <1>2 DEF Places
    <3>2. ids' \in [Pairs -> IdRow]
      BY <1>1, ConstFacts DEF IInv, StateInv
    <3>3. flag' \in [Pairs -> {0, 1}]
      BY <1>1 DEF IInv, StateInv
    <3> QED  BY <3>1, <3>2, <3>3
  <2> QED  BY <1>1, <2>1 DEF IInv, StateInv
<1>6. StageInv'
  BY <1>1, <1>3 DEF StageInv, Stages
<1>7. BatchInv'
  BY <1>1, <1>2, <1>3 DEF IInv, BatchInv
<1>8. \A p \in Pairs : InHand(p)' <=> InHand(p)
  BY <1>1, <1>2, <1>3, <1>4 DEF InHand, Busy
<1>9. needSchedule => mbId[c] = mbId[0]
  BY <1>2, <1>3 DEF IInv, BatchInv
<1>10. \A p \in Pairs : ~InHand(p) => ids'[p] = ids[p] /\ flag'[p] = flag[p]
  <2> TAKE p \in Pairs
  <2> HAVE ~InHand(p)
  <2>1. CASE needSchedule
    <3>1. p[2] # mbId[0]
      BY <1>2, <1>3, <2>1, TakenFacts DEF InHand, Busy, IInv
    <3> QED  BY <1>1, <1>9, <2>1, <3>1
  <2>2. CASE ~needSchedule
    BY <1>1, <2>2
  <2> QED  BY <2>1, <2>2
<1>11. RoundInv'
  BY <1>1, <1>8, <1>10 DEF IInv, RoundInv
<1>12. WipedInv'
  <2> SUFFICES ASSUME needSchedule, NEW p \in Taken
               PROVE  /\ \A d \in Cores : pc'[d] = "wiped" /\ p[1] \in SortedSessions(d) => ids'[p] = Empty
                      /\ OneCoreSort /\ pc'[0] = "wiped" => flag'[p] = 0
    BY <1>1, <1>2, <1>3, <1>4 DEF WipedInv
  <2>1. p \in Pairs /\ p[2] = mbId[0]
    BY DEF Taken
  <2>2. ASSUME NEW d \in Cores, pc'[d] = "wiped", p[1] \in SortedSessions(d)
        PROVE  ids'[p] = Empty
    <3>1. CASE d = c
      BY <1>1, <1>9, <2>1, <2>2, <3>1
    <3>2. CASE d # c
      <4>1. pc[d] = "wiped"
        BY <1>1, <1>2, <2>2, <3>2
      <4>2. ids[p] = Empty
        BY <2>2, <4>1 DEF IInv, WipedInv
      <4> QED  BY <1>1, <2>1, <4>2
    <3> QED  BY <3>1, <3>2
  <2>3. ASSUME OneCoreSort, pc'[0] = "wiped" PROVE flag'[p] = 0
    <3>1. CASE c = 0
      BY <1>1, <2>1, <2>3, <3>1
    <3>2. CASE c # 0
      <4>1. pc[0] = "wiped"
        BY <1>1, <1>2, <2>3, <3>2
      <4> QED  BY <1>1, <2>3, <3>2, <4>1 DEF IInv, WipedInv
    <3> QED  BY <3>1, <3>2
  <2> QED  BY <2>2, <2>3
<1>13. ListInv'
  <2>1. CASE needSchedule
    BY <1>1, <2>1 DEF IInv, ListInv
  <2>2. CASE ~needSchedule
    <3>1. flag' = flag
      BY <1>1, <2>2
    <3>2. ids' = ids
      <4>1. ids = [p \in Pairs |-> ids[p]]
        BY DEF IInv, StateInv
      <4> QED  BY <1>1, <2>2, <4>1
    <3> QED  BY <1>1, <1>2, <1>3, <2>2, <3>1, <3>2 DEF IInv, ListInv, AllAt
  <2> QED  BY <2>1, <2>2
<1> QED  BY <1>5, <1>6, <1>7, <1>11, <1>12, <1>13 DEF IInv

(* The last core drops the flags of the micro-batch core 0 waited for. *)
LEMMA StepClearFlags ==
  ASSUME IInv, ClearFlags
  PROVE  IInv'
<1> DEFINE c == LastCoreId
<1>1. /\ pc[c] = "drop" /\ pc' = [pc EXCEPT ![c] = "merged"]
      /\ flag' = IF OneCoreSort \/ ~needSchedule THEN flag
                   ELSE [p \in Pairs |-> IF p[2] = mbId[c] THEN 0 ELSE flag[p]]
      /\ ids' = ids /\ mbId' = mbId
      /\ needSchedule' = needSchedule /\ sortLoopMax' = sortLoopMax
      /\ pollingIndex' = pollingIndex /\ out' = out
      /\ sent' = sent /\ want' = want /\ answered' = answered
  BY DEF ClearFlags, FlagsToDrop, Goto, tiling, context, attn
<1>2. 0 \in Cores /\ c \in Cores /\ c # 0 /\ pc \in [Cores -> Places]
  BY ConstFacts DEF IInv, StateInv
<1>3. \A d \in Cores : pc[d] \in {"drop", "merged"} /\ pc'[d] \in {"drop", "merged"}
  BY <1>1, <1>2 DEF IInv, StageInv, Stages
<1>4. Taken' = Taken /\ (OneCoreSort <=> OneCoreSort') /\ \A d \in Cores : SortedSessions(d)' = SortedSessions(d)
  BY <1>1 DEF Taken, OneCoreSort, SortedSessions, SessionPerSort
<1>5. StateInv'
  <2>1. pc' \in [Cores -> Places]
    BY <1>1, <1>2 DEF Places
  <2>2. flag' \in [Pairs -> {0, 1}]
    BY <1>1 DEF IInv, StateInv
  <2> QED  BY <1>1, <2>1, <2>2 DEF IInv, StateInv
<1>6. StageInv'
  BY <1>1, <1>3 DEF StageInv, Stages
<1>7. needSchedule => mbId[c] = mbId[0]
  BY <1>2, <1>3 DEF IInv, BatchInv
<1>8. BatchInv'
  BY <1>1, <1>2, <1>3 DEF IInv, BatchInv
<1>9. \A p \in Pairs : InHand(p)' <=> InHand(p)
  BY <1>1, <1>2, <1>3, <1>4 DEF InHand, Busy
<1>10. \A p \in Pairs : /\ ~InHand(p) => flag'[p] = flag[p]
                        /\ sent[p] = answered[p] => flag'[p] = flag[p]
  <2> TAKE p \in Pairs
  <2>1. CASE needSchedule /\ p[2] # mbId[0]
    BY <1>1, <1>7, <2>1
  <2>2. CASE needSchedule /\ p[2] = mbId[0]
    <3>1. InHand(p)
      BY <1>2, <1>3, <2>2, TakenFacts DEF InHand, Busy, IInv
    <3> QED  BY <3>1 DEF IInv, RoundInv
  <2>3. CASE ~needSchedule
    BY <1>1, <2>3
  <2> QED  BY <2>1, <2>2, <2>3
<1>11. RoundInv'
  BY <1>1, <1>9, <1>10 DEF IInv, RoundInv
<1>12. WipedInv'
  <2> SUFFICES ASSUME needSchedule, NEW p \in Taken
               PROVE  ids[p] = Empty /\ flag'[p] = 0
    BY <1>1, <1>2, <1>3, <1>4 DEF WipedInv
  <2>1. p \in Pairs /\ p[2] = mbId[0]
    BY DEF Taken
  <2>2. ids[p] = Empty
    BY <1>2, <1>3 DEF IInv, WipedInv
  <2>3. flag'[p] = 0
    <3>1. CASE OneCoreSort
      <4>1. pc[0] \in {"wiped", "drop", "merged", "out", "done"}
        BY <1>2, <1>3
      <4>2. flag[p] = 0
        BY <3>1, <4>1 DEF IInv, WipedInv
      <4> QED  BY <1>1, <3>1, <4>2
    <3>2. CASE ~OneCoreSort
      BY <1>1, <1>7, <2>1, <3>2
    <3> QED  BY <3>1, <3>2
  <2> QED  BY <2>2, <2>3
<1>13. ListInv'
  <2>1. CASE needSchedule
    BY <1>1, <2>1 DEF IInv, ListInv
  <2>2. CASE ~needSchedule
    BY <1>1, <1>2, <1>3, <2>2 DEF IInv, ListInv, AllAt
  <2> QED  BY <2>1, <2>2
<1> QED  BY <1>5, <1>6, <1>8, <1>11, <1>12, <1>13 DEF IInv

(* What was in hand is answered, and its place in the window free. *)
LEMMA StepRespond ==
  ASSUME IInv, Respond
  PROVE  IInv'
<1>1. /\ Done
      /\ answered' = [p \in Pairs |-> IF p \in Taken THEN answered[p] + 1 ELSE answered[p]]
      /\ pc' = [c \in Cores |-> "idle"] /\ out' = <<>>
      /\ flag' = flag /\ ids' = ids /\ mbId' = mbId
      /\ needSchedule' = needSchedule /\ sortLoopMax' = sortLoopMax
      /\ pollingIndex' = pollingIndex
      /\ sent' = sent /\ want' = want
  BY DEF Respond, tiling, window, attn
<1>2. 0 \in Cores /\ LastCoreId \in Cores /\ pc \in [Cores -> Places]
  BY ConstFacts DEF IInv, StateInv
<1>3. StateInv'
  <2>1. pc' \in [Cores -> Places]
    BY <1>1 DEF Places
  <2>2. answered' \in [Pairs -> Nat]
    BY <1>1 DEF IInv, StateInv
  <2>3. \E n \in Nat : out' \in [1 .. n -> Entry]
    <3>1. out' \in [1 .. 0 -> Entry] /\ 0 \in Nat
      BY <1>1
    <3> QED  BY <3>1
  <2> QED  BY <1>1, <2>1, <2>2, <2>3 DEF IInv, StateInv
<1>4. StageInv' /\ BatchInv' /\ WipedInv'
  <2>1. \A c \in Cores : pc'[c] = "idle"
    BY <1>1
  <2> QED  BY <1>2, <2>1 DEF StageInv, Stages, BatchInv, WipedInv
<1>5. ListInv'
  BY <1>1 DEF ListInv
<1>6. \A p \in Pairs : InHand(p) <=> p \in Taken
  BY <1>1, <1>2 DEF InHand, Done, AllAt, Busy
<1>7. \A p \in Pairs : ~InHand(p)'
  <2> TAKE p \in Pairs
  <2>1. CASE needSchedule
    BY <1>1, <1>2, <2>1 DEF InHand, Busy
  <2>2. CASE ~needSchedule
    <3>1. ~needSchedule' /\ DOMAIN out' = {}
      BY <1>1, <2>2
    <3>2. Taken' = {}
      BY <3>1 DEF Taken, ToSet
    <3> QED  BY <3>2 DEF InHand
  <2> QED  BY <2>1, <2>2
<1>8. \A p \in Pairs : p \in Taken => ids[p] = Empty /\ flag[p] = 0
  <2> TAKE p \in Pairs
  <2> HAVE p \in Taken
  <2>1. CASE needSchedule
    BY <1>1, <1>2, <2>1 DEF Done, AllAt, IInv, WipedInv
  <2>2. CASE ~needSchedule
    <3>1. PICK k \in DOMAIN out : p = <<out[k].session, out[k].microBatch>>
      BY <2>2, TakenFacts DEF IInv
    <3> QED  BY <3>1 DEF IInv, ListInv
  <2> QED  BY <2>1, <2>2
<1>9. RoundInv'
  <2> SUFFICES ASSUME NEW p \in Pairs
               PROVE  /\ sent[p] \in {answered'[p], answered'[p] + 1}
                      /\ sent[p] = answered'[p] => flag[p] = 0 /\ ids[p] = Empty
                      /\ sent[p] # answered'[p] => flag[p] = 1 /\ ids[p] = want[p]
    BY <1>1, <1>7 DEF RoundInv
  <2>1. sent[p] \in Nat /\ answered[p] \in Nat
    BY DEF IInv, StateInv
  <2>2. CASE p \in Taken
    <3>1. answered'[p] = answered[p] + 1 /\ sent[p] # answered[p]
      BY <1>1, <1>6, <2>2 DEF IInv, RoundInv
    <3>2. sent[p] = answered'[p]
      BY <2>1, <3>1 DEF IInv, RoundInv
    <3> QED  BY <1>8, <2>2, <3>2
  <2>3. CASE p \notin Taken
    <3>1. answered'[p] = answered[p]
      BY <1>1, <2>3
    <3> QED  BY <1>6, <2>3, <3>1 DEF IInv, RoundInv
  <2> QED  BY <2>2, <2>3
<1> QED  BY <1>3, <1>4, <1>5, <1>9 DEF IInv

(* A late read is remembered, and was none of this step if there is none.  *)
LEMMA LateKept ==
  ASSUME [Next]_vars, ~late'
  PROVE  ~late /\ \A c \in Cores : ReadContext(c) => ~ReadsLate
<1>1. ~late
  <2>1. ASSUME NEW c \in Cores, Core(c) PROVE ~late
    BY <2>1 DEF Core, ReadContext, Sort, Merge, Gather, CountExperts
  <2>2. ASSUME NEW s \in Sessions, NEW m \in MicroBatches, Send(s, m) PROVE ~late
    BY <2>2 DEF Send
  <2>3. ASSUME NEW taken \in SUBSET Pairs, Schedule(taken) PROVE ~late
    BY <2>3 DEF Schedule, StartCores
  <2>4. CASE Barrier
    BY <2>4 DEF Barrier, SyncAll
  <2>5. CASE Launch \/ Scan \/ ClearFlags \/ ListGroupChunk \/ ListGroups \/ ListCounts
    BY <2>5 DEF Launch, StartCores, Scan, ClearFlags, ListGroupChunk, ListGroups, ListCounts
  <2>6. CASE Respond \/ SpinOnFlags \/ UNCHANGED vars
    BY <2>6 DEF Respond, SpinOnFlags, vars
  <2> QED  BY <2>1, <2>2, <2>3, <2>4, <2>5, <2>6 DEF Next, Operator
<1>2. ASSUME NEW c \in Cores, ReadContext(c) PROVE ~ReadsLate
  BY <1>2 DEF ReadContext
<1> QED  BY <1>1, <1>2

LEMMA StepIInv == IInv /\ [Next]_vars /\ ~late' => IInv'
<1> SUFFICES ASSUME IInv, [Next]_vars, ~late' PROVE IInv'
  OBVIOUS
<1>1. CASE UNCHANGED vars \/ ListGroupChunk \/ SpinOnFlags
  <2>1. Still /\ UNCHANGED pc
    BY <1>1 DEF vars, window, context, cores, ListGroupChunk, SpinOnFlags, Still
  <2> QED  BY <2>1, StepIdle
<1>2. CASE Launch \/ Scan \/ ClearFlags \/ Barrier \/ Respond
  BY <1>2, StepLaunch, StepScan, StepClearFlags, StepBarrier, StepRespond
<1>3. CASE ListGroups \/ ListCounts
  BY <1>3, StepsCalm
<1>4. ASSUME NEW c \in Cores, Core(c) PROVE IInv'
  BY <1>4, LateKept, StepReadContext, StepSort, StepsCalm DEF Core
<1>5. ASSUME NEW s \in Sessions, NEW m \in MicroBatches, Send(s, m) PROVE IInv'
  BY <1>5, StepSend
<1>6. ASSUME NEW taken \in SUBSET Pairs, Schedule(taken) PROVE IInv'
  BY <1>6, StepSchedule
<1> QED  BY <1>1, <1>2, <1>3, <1>4, <1>5, <1>6 DEF Next, Operator

THEOREM Invariance == Spec => [](late \/ IInv)
<1>1. (late \/ IInv) /\ [Next]_vars => (late \/ IInv)'
  BY StepIInv, LateKept
<1> QED  BY InitIInv, <1>1, PTL DEF Spec

(* No round is dropped between the window, the scheduler's list and the    *)
(* launch, and none is taken twice, as long as no core has read            *)
(* polling_index after core 0 moved it on (ffn_wb_scan_token_info.h,       *)
(* Process): a round out is flagged with all its ids, or the launch in     *)
(* progress has it.                                                        *)
THEOREM AllRoundsKept == Spec => []RoundsKept
<1>1. late \/ IInv => RoundsKept
  BY InvKept DEF RoundsKept
<1> QED  BY <1>1, Invariance, PTL

----------------------------------------------------------------------------

(* The tiling. The host gives the cores shares of the window, of the list  *)
(* and of the sorted ids; every place has exactly one core.                *)

(* The least element of a set of numbers.                                  *)
LEMMA MinFacts ==
  ASSUME NEW S \in SUBSET Nat, S # {}
  PROVE  Min(S) \in S /\ \A y \in S : Min(S) <= y
<1> DEFINE T == {n \in Nat : \A x \in S : x <= n => \E m \in S : \A y \in S : m <= y}
<1>1. 0 \in T
  BY DEF T
<1>2. \A n \in Nat : n \in T => n + 1 \in T
  <2> SUFFICES ASSUME NEW n \in Nat, n \in T, NEW x \in S, x <= n + 1
               PROVE  \E m \in S : \A y \in S : m <= y
    OBVIOUS
  <2>1. CASE \E z \in S : z <= n
    BY <2>1
  <2>2. CASE \A z \in S : z > n
    <3>1. \A y \in S : x <= y
      BY <2>2
    <3> QED  BY <3>1
  <2> QED  BY <2>1, <2>2
<1> HIDE DEF T
<1>3. \A n \in Nat : n \in T
  BY <1>1, <1>2, NatInduct
<1>4. PICK x \in S : x \in Nat
  OBVIOUS
<1>5. \E m \in S : \A y \in S : m <= y
  BY <1>3, <1>4 DEF T
<1> QED  BY <1>5 DEF Min

(* A length that the powers of four reach.                                 *)
Fits(n) == n <= LargestPower

(* So do they a shorter one.                                               *)
LEMMA FitsBelow ==
  ASSUME NEW x \in Nat, NEW y \in Nat, x <= y, y <= LargestPower
  PROVE  Fits(x)
<1>1. LargestPower \in Nat
  BY SMT DEF LargestPower
<1> QED  BY <1>1 DEF Fits

(* The power of four that a length is rounded up to, for every length that *)
(* fits.                                                                   *)
LEMMA FourFacts ==
  ASSUME NEW n \in Nat, Fits(n)
  PROVE  PowerOfFourCeil(n) \in Nat \ {0} /\ PowerOfFourCeil(n) >= n
<1> DEFINE S == {p \in PowersOfFour : p >= n}
<1>1. PowersOfFour \subseteq Nat \ {0} /\ LargestPower \in PowersOfFour
  BY SMT DEF PowersOfFour, LargestPower
<1>2. \A p \in S : p \in Nat \ {0} /\ p >= n
  BY <1>1
<1>3. LargestPower \in S
  BY <1>1 DEF Fits
<1>4. PowerOfFourCeil(n) = Min(S)
  BY DEF PowerOfFourCeil
<1> HIDE DEF S
<1>5. S \in SUBSET Nat /\ S # {}
  BY <1>2, <1>3
<1>6. Min(S) \in S
  BY <1>5, MinFacts
<1> QED  BY <1>2, <1>4, <1>6

(* Cores' shares of a list are whole multiples of an alignment.            *)
Aligned(x, align) == \E k \in Nat \ {0} : x = k * align

(* The share found first is aligned and no core is left without work.      *)
LEMMA FirstShareFacts ==
  ASSUME NEW n \in Nat, Fits(n), NEW align \in Nat \ {0},
         NEW max \in Nat \ {0}, max % align = 0, n > max, NEW num \in Nat \ {0}
  PROVE  LET t == FirstShare(n, max, align, num)
         IN /\ t.need \in 1 .. num /\ Aligned(t.share, align)
            /\ (t.need - 1) * t.share < n
<1> DEFINE four == PowerOfFourCeil(CeilDiv(n, max))
           need == IF four < num THEN four ELSE num
           share == n \div need
           q     == share \div align
           floor == q * align
           ceil  == floor + align
           t     == FirstShare(n, max, align, num)
<1>1. CeilDiv(n, max) \in Nat /\ CeilDiv(n, max) <= n
  <2> DEFINE d == CeilDiv(n, max)
  <2>1. d \in Nat /\ max * d < n + max
    BY CeilDivBounds
  <2> HIDE DEF d
  <2>2. CASE d <= n
    BY <2>1, <2>2 DEF d
  <2>3. CASE d >= n + 1
    <3>1. max * d >= max * (n + 1)
      BY <2>1, <2>3
    <3>2. max * (n + 1) >= 1 * n + max
      <4>1. max * (n + 1) = max * n + max
        OBVIOUS
      <4>2. max * n >= 1 * n
        BY TimesMonotone
      <4>3. max * n \in Int /\ 1 * n = n
        OBVIOUS
      <4> QED  BY <4>1, <4>2, <4>3
    <3>3. max * d \in Int /\ max * (n + 1) \in Int
      BY <2>1
    <3> QED  BY <2>1, <3>1, <3>2, <3>3
  <2> QED  BY <2>1, <2>2, <2>3
<1>2. four \in Nat \ {0}
  <2> DEFINE d == CeilDiv(n, max)
  <2>1. d \in Nat /\ d <= n
    BY <1>1
  <2> HIDE DEF d
  <2>2. Fits(d)
    <3>1. LargestPower \in Nat
      BY SMT DEF LargestPower
    <3> QED  BY <2>1, <3>1 DEF Fits
  <2> QED  BY <2>1, <2>2, FourFacts DEF d
<1>3. need \in 1 .. num
  BY <1>2
<1>4. t = IF n - (need - 1) * floor > ceil THEN [share |-> ceil, need |-> CeilDiv(n, ceil)]
          ELSE [share |-> floor, need |-> need]
  BY DEF FirstShare
<1> HIDE DEF four, need, t
<1>5. share \in Nat /\ n % need \in 0 .. need - 1 /\ n = need * share + (n % need)
  <2>1. need \in Nat \ {0}
    BY <1>3
  <2> QED  BY <2>1, DivMod
<1> HIDE DEF share
<1>6. q \in Nat /\ share % align \in 0 .. align - 1 /\ share = align * q + (share % align)
  BY <1>5, DivMod
<1>7. /\ floor \in Nat /\ ceil \in Nat /\ floor <= share /\ share < ceil /\ floor = align * q
  <2> DEFINE left == share % align
  <2>1. left \in 0 .. align - 1 /\ share = align * q + left
    BY <1>6
  <2>2. floor = align * q /\ floor \in Nat /\ ceil = floor + align
    BY <1>6
  <2> HIDE DEF left, floor, ceil
  <2> QED  BY <1>5, <2>1, <2>2
<1>8. ceil = (q + 1) * align /\ q + 1 \in Nat \ {0}
  BY <1>6
<1>9. max >= align
  <2>1. max \div align \in Nat /\ max = align * (max \div align) + (max % align)
    BY DivMod
  <2>2. max \div align # 0
    BY <2>1
  <2>3. align * (max \div align) >= align * 1
    BY <2>1, <2>2
  <2> QED  BY <2>1, <2>3
<1> HIDE DEF q, floor, ceil
<1>10. CASE n - (need - 1) * floor > ceil
  <2>1. t.share = ceil /\ t.need = CeilDiv(n, ceil)
    BY <1>4, <1>10
  <2> DEFINE k == CeilDiv(n, ceil)
  <2>2. k \in Nat /\ ceil * k >= n /\ ceil * k < n + ceil
    <3>1. ceil \in Nat \ {0}
      BY <1>5, <1>7
    <3> QED  BY <3>1, CeilDivBounds
  <2> HIDE DEF k
  <2>3. k # 0
    <3>1. ceil * 0 = 0 /\ n > 0
      BY <1>7
    <3> QED  BY <2>2, <3>1
  <2>4. need * ceil > n
    <3>1. need * ceil >= need * (share + 1)
      BY <1>3, <1>5, <1>7
    <3>2. need * (share + 1) = need * share + need
      BY <1>3, <1>5
    <3>3. need * share \in Int /\ need * ceil \in Int /\ need * (share + 1) \in Int
      BY <1>3, <1>5, <1>7
    <3> QED  BY <1>3, <1>5, <3>1, <3>2, <3>3
  <2>5. k <= need
    <3> SUFFICES ASSUME k >= need + 1 PROVE FALSE
      BY <1>3, <2>2
    <3>1. ceil * k >= ceil * (need + 1)
      BY <1>3, <1>7, <2>2
    <3>2. ceil * (need + 1) = need * ceil + ceil
      BY <1>3, <1>7
    <3>3. need * ceil \in Int /\ ceil * k \in Int
      BY <1>3, <1>7, <2>2
    <3> QED  BY <1>7, <2>2, <2>4, <3>1, <3>2, <3>3
  <2>6. (k - 1) * ceil = ceil * k - ceil
    BY <1>7, <2>2
  <2>7. Aligned(ceil, align)
    BY <1>8 DEF Aligned
  <2>8. ceil * k \in Int
    BY <1>7, <2>2
  <2> QED  BY <1>3, <1>7, <2>1, <2>2, <2>3, <2>5, <2>6, <2>7, <2>8 DEF t, k
<1>11. CASE ~(n - (need - 1) * floor > ceil)
  <2>1. t.share = floor /\ t.need = need
    BY <1>4, <1>11
  <2>2. (need - 1) * floor < n
    <3>1. (need - 1) * floor <= (need - 1) * share
      BY <1>3, <1>5, <1>7
    <3>2. (need - 1) * share = need * share - share
      BY <1>3, <1>5
    <3>3. (need - 1) * floor \in Int /\ need * share \in Int
      BY <1>3, <1>5, <1>7
    <3>4. CASE share = 0
      <4>1. floor = 0 /\ (need - 1) * floor = 0
        BY <1>3, <1>7, <3>4
      <4> QED  BY <4>1
    <3>5. CASE share # 0
      BY <1>5, <3>1, <3>2, <3>3, <3>5
    <3> QED  BY <3>4, <3>5
  <2>3. q # 0
    <3> SUFFICES ASSUME q = 0 PROVE FALSE
      OBVIOUS
    <3>1. floor = 0 /\ ceil = align
      BY DEF floor, ceil
    <3>2. (need - 1) * floor = 0
      BY <1>3, <3>1
    <3> QED  BY <1>9, <1>11, <3>1, <3>2
  <2>4. Aligned(floor, align)
    BY <1>6, <2>3 DEF Aligned, floor
  <2> QED  BY <1>3, <2>1, <2>2, <2>4 DEF t
<1> QED  BY <1>10, <1>11

(* Nor is it after the share has been rounded down.                        *)
LEMMA ListTilingFacts ==
  ASSUME NEW n \in Nat, Fits(n), NEW align \in Nat \ {0},
         NEW max \in Nat \ {0}, max % align = 0, n > max, NEW num \in Nat \ {0}
  PROVE  LET t == ListTiling(n, max, align, num)
         IN t.need \in 1 .. num /\ t.share \in Nat \ {0} /\ (t.need - 1) * t.share < n
<1> DEFINE first == FirstShare(n, max, align, num)
           s == first.share
           need == first.need
           Share(k) == s - k * align
           Ends(k)  == LastLoop(n, Share(k), need, max, align) > 0 \/ Share(k + 1) <= 0
           top == s \div align
           S == {k \in 0 .. top - 1 : Ends(k)}
           t == ListTiling(n, max, align, num)
<1>1. need \in 1 .. num /\ Aligned(s, align) /\ (need - 1) * s < n
  BY FirstShareFacts
<1>2. t = [need |-> need, share |-> s - Min(S) * align]
  BY DEF ListTiling
<1> HIDE DEF s, need, t
<1>3. PICK q \in Nat \ {0} : s = q * align
  BY <1>1 DEF Aligned
<1>4. s \in Nat /\ s = align * q
  BY <1>3
<1>5. top = q
  <2>1. s \div align \in Nat /\ s % align \in 0 .. align - 1 /\ s = align * (s \div align) + (s % align)
    BY <1>4, DivMod
  <2>2. align * q + 0 = align * (s \div align) + (s % align)
    BY <1>3, <1>4, <2>1
  <2>3. 0 \in 0 .. align - 1 /\ q \in Int
    BY <1>3
  <2> HIDE DEF top
  <2> QED  BY <2>1, <2>2, <2>3, DivUnique DEF top
<1>6. Share((q - 1) + 1) <= 0
  BY <1>3
<1> HIDE DEF top
<1>7. S \in SUBSET Nat /\ q - 1 \in S
  BY <1>3, <1>5, <1>6
<1>8. Min(S) \in S
  BY <1>7, MinFacts
<1>9. Min(S) \in Nat /\ Min(S) <= q - 1
  BY <1>3, <1>5, <1>8
<1> HIDE DEF S
<1> DEFINE m == Min(S)
<1> HIDE DEF m
<1>10. m \in Nat /\ m <= q - 1 /\ t = [need |-> need, share |-> s - m * align]
  BY <1>2, <1>9 DEF m
<1>11. s - m * align >= align /\ s - m * align <= s /\ s - m * align \in Nat
  <2>1. s - m * align = (q - m) * align
    BY <1>3, <1>10
  <2>2. q - m \in Nat \ {0} /\ q - m >= 1
    BY <1>3, <1>10
  <2>3. 1 * align <= (q - m) * align
    BY <2>2, TimesMonotone
  <2>4. m * align \in Nat
    BY <1>10
  <2>5. 1 * align = align
    OBVIOUS
  <2> QED  BY <1>4, <2>1, <2>3, <2>4, <2>5
<1>12. (need - 1) * (s - m * align) <= (need - 1) * s
  <2>1. need - 1 \in Nat
    BY <1>1
  <2>2. (s - m * align) * (need - 1) <= s * (need - 1)
    BY <1>4, <1>11, <2>1, TimesMonotone
  <2>3. \A x \in Int : x * (need - 1) = (need - 1) * x
    BY <2>1
  <2> QED  BY <1>4, <1>11, <2>2, <2>3
<1>13. (need - 1) * (s - m * align) < n
  <2>1. (need - 1) * s \in Int /\ (need - 1) * (s - m * align) \in Int
    BY <1>1, <1>4, <1>11
  <2> QED  BY <1>1, <1>12, <2>1
<1> QED  BY <1>1, <1>10, <1>11, <1>13 DEF t

(* Blocks of one size, the last with the rest.                             *)
BlocksCase(n, need, share, F) ==
  /\ n \in Nat /\ need \in Nat \ {0} /\ share \in Nat /\ (need - 1) * share <= n
  /\ \A c \in 0 .. need - 1 :
       F[c] = c * share .. IF c = need - 1 THEN n - 1 ELSE (c + 1) * share - 1

(* They leave nothing out and have nothing in common.                      *)
LEMMA BlocksPart ==
  ASSUME NEW n, NEW need, NEW share, NEW F, BlocksCase(n, need, share, F)
  PROVE  /\ \A c \in 0 .. need - 1 : F[c] \subseteq 0 .. n - 1
         /\ \A j \in 0 .. n - 1 : \E c \in 0 .. need - 1 : j \in F[c]
         /\ \A c, d \in 0 .. need - 1 : c # d => F[c] \cap F[d] = {}
<1>1. n \in Nat /\ need \in Nat \ {0} /\ share \in Nat /\ (need - 1) * share <= n
  BY DEF BlocksCase
<1>2. \A c \in 0 .. need - 1 :
        F[c] = c * share .. IF c = need - 1 THEN n - 1 ELSE (c + 1) * share - 1
  BY DEF BlocksCase
<1> DEFINE from == [c \in Int |-> c * share]
<1>3. \A c \in Int : from[c] = c * share /\ from[c] \in Int
  BY <1>1
<1>4. \A c, d \in Int : c <= d => from[c] <= from[d]
  <2> TAKE c \in Int, d \in Int
  <2> HAVE c <= d
  <2>1. c * share <= d * share
    BY <1>1, TimesMonotone
  <2> QED  BY <1>3, <2>1
<1>5. \A c \in 0 .. need - 1 :
        /\ c \in Int /\ c + 1 \in Int
        /\ from[c] >= 0 /\ from[c] <= n /\ from[c] \in Int
        /\ from[c + 1] \in Int
        /\ c # need - 1 => from[c + 1] <= n
  <2> TAKE c \in 0 .. need - 1
  <2>1. 0 \in Int /\ c \in Int /\ c + 1 \in Int /\ need - 1 \in Int /\ c <= need - 1
    BY <1>1
  <2>2. from[0] = 0 /\ from[need - 1] <= n
    BY <1>1, <1>3, <2>1
  <2>3. from[0] <= from[c] /\ from[c] <= from[need - 1] /\ from[c] \in Int
    BY <1>3, <1>4, <2>1
  <2>4. c # need - 1 => from[c + 1] <= from[need - 1]
    BY <1>4, <2>1
  <2>5. from[c + 1] \in Int /\ from[need - 1] \in Int
    BY <1>3, <2>1
  <2> HIDE DEF from
  <2> QED  BY <1>1, <2>1, <2>2, <2>3, <2>4, <2>5
<1>6. \A c \in 0 .. need - 1 : F[c] = from[c] .. IF c = need - 1 THEN n - 1 ELSE from[c + 1] - 1
  <2> TAKE c \in 0 .. need - 1
  <2>1. from[c] = c * share /\ from[c + 1] = (c + 1) * share
    BY <1>3, <1>5
  <2> HIDE DEF from
  <2> QED  BY <1>2, <2>1
<1> HIDE DEF from
<1>7. \A c \in 0 .. need - 1 : F[c] \subseteq 0 .. n - 1
  <2> TAKE c \in 0 .. need - 1
  <2>1. CASE c = need - 1
    <3>1. F[c] = from[c] .. n - 1
      BY <1>6, <2>1
    <3> QED  BY <1>1, <1>5, <3>1
  <2>2. CASE c # need - 1
    <3>1. F[c] = from[c] .. from[c + 1] - 1
      BY <1>6, <2>2
    <3> QED  BY <1>1, <1>5, <2>2, <3>1
  <2> QED  BY <2>1, <2>2
<1>8. ASSUME NEW j \in 0 .. n - 1 PROVE \E c \in 0 .. need - 1 : j \in F[c]
  <2>1. j \in Nat /\ j <= n - 1 /\ need - 1 \in 0 .. need - 1
    BY <1>1
  <2>2. CASE from[need - 1] <= j
    <3>1. F[need - 1] = from[need - 1] .. n - 1
      BY <1>6, <2>1
    <3>2. j \in F[need - 1]
      BY <1>1, <1>5, <2>1, <2>2, <3>1
    <3> QED  BY <2>1, <3>2
  <2>3. CASE ~(from[need - 1] <= j)
    <3> DEFINE q == j \div share
    <3>1. share # 0
      <4>1. from[need - 1] = (need - 1) * share /\ from[need - 1] > j
        BY <1>1, <1>3, <1>5, <2>1, <2>3
      <4>2. share = 0 => (need - 1) * share = 0
        BY <1>1
      <4> QED  BY <2>1, <4>1, <4>2
    <3>2. q \in Nat /\ j % share \in 0 .. share - 1 /\ j = share * q + (j % share)
      BY <1>1, <2>1, <3>1, DivMod
    <3> HIDE DEF q
    <3>3. q \in Int /\ q + 1 \in Int /\ from[q] = q * share /\ from[q + 1] = (q + 1) * share
      BY <1>3, <3>2
    <3>4. share * q = q * share /\ (q + 1) * share = q * share + share /\ q * share \in Nat
      BY <1>1, <3>2
    <3>5. from[q] <= j /\ j < from[q + 1] /\ from[q] \in Int /\ from[q + 1] \in Int
      BY <1>1, <2>1, <3>2, <3>3, <3>4
    <3>6. q < need - 1
      <4>1. need - 1 <= q => from[need - 1] <= from[q]
        BY <1>1, <1>4, <3>3
      <4>2. from[need - 1] \in Int
        BY <1>5, <2>1
      <4> QED  BY <1>1, <2>1, <2>3, <3>2, <3>5, <4>1, <4>2
    <3>7. q \in 0 .. need - 1 /\ q # need - 1
      BY <1>1, <3>2, <3>6
    <3>8. F[q] = from[q] .. from[q + 1] - 1
      BY <1>6, <3>7
    <3>9. j \in F[q]
      BY <2>1, <3>5, <3>8
    <3> QED  BY <3>7, <3>9
  <2> QED  BY <2>2, <2>3
<1>9. ASSUME NEW c \in 0 .. need - 1, NEW d \in 0 .. need - 1, c < d
      PROVE  F[c] \cap F[d] = {}
  <2>1. c # need - 1 /\ c + 1 <= d /\ c + 1 \in Int /\ d \in Int
    BY <1>1, <1>9
  <2>2. F[c] = from[c] .. from[c + 1] - 1
    BY <1>6, <2>1
  <2>3. from[c + 1] <= from[d] /\ from[c + 1] \in Int /\ from[d] \in Int /\ from[c] \in Int
    BY <1>4, <1>5, <2>1
  <2>4. \A x \in F[d] : x \in Int /\ from[d] <= x
    <3>1. CASE d = need - 1
      <4>1. F[d] = from[d] .. n - 1
        BY <1>6, <3>1
      <4> QED  BY <1>1, <2>3, <4>1
    <3>2. CASE d # need - 1
      <4>1. F[d] = from[d] .. from[d + 1] - 1
        BY <1>6, <3>2
      <4> QED  BY <1>5, <2>3, <4>1
    <3> QED  BY <3>1, <3>2
  <2>5. \A x \in F[c] : x \in Int /\ x < from[c + 1]
    BY <2>2, <2>3
  <2>6. ASSUME NEW x \in F[c], x \in F[d] PROVE FALSE
    <3>1. x \in Int /\ x < from[c + 1] /\ from[d] <= x
      BY <2>4, <2>5, <2>6
    <3> QED  BY <2>3, <3>1
  <2> QED  BY <2>6
<1>10. \A c, d \in 0 .. need - 1 : c # d => F[c] \cap F[d] = {}
  <2> TAKE c \in 0 .. need - 1, d \in 0 .. need - 1
  <2> HAVE c # d
  <2>1. c < d \/ d < c
    BY <1>1
  <2>2. F[c] \cap F[d] = F[d] \cap F[c]
    OBVIOUS
  <2> QED  BY <1>9, <2>1, <2>2
<1> QED  BY <1>7, <1>8, <1>10

(* Every place of the scheduler's list is one core's.                      *)
Divided(n, max, align, num) ==
  LET F(c) == ListChunk(c, n, max, align, num)
  IN /\ \A c \in 0 .. num - 1 : F(c) \subseteq 0 .. n - 1
     /\ \A j \in 0 .. n - 1 : \E c \in 0 .. num - 1 : j \in F(c)
     /\ \A c, d \in 0 .. num - 1 : c # d => F(c) \cap F(d) = {}

(* The scheduler's list is sorted whole, each place by one core.           *)
LEMMA ListChunksPart ==
  ASSUME NEW n \in Nat, Fits(n), NEW align \in Nat \ {0},
         NEW max \in Nat \ {0}, max % align = 0, NEW num \in Nat \ {0}
  PROVE  Divided(n, max, align, num)
<1> USE DEF Divided
<1>1. CASE n <= max
  <2>1. \A c \in 0 .. num - 1 : ListChunk(c, n, max, align, num) = IF c = 0 THEN 0 .. n - 1 ELSE {}
    BY <1>1 DEF ListChunk
  <2> QED  BY <2>1
<1>2. CASE n > max
  <2> DEFINE t == ListTiling(n, max, align, num)
             need == t.need
             share == t.share
             F == [c \in 0 .. need - 1 |-> ListChunk(c, n, max, align, num)]
  <2>1. need \in 1 .. num /\ share \in Nat \ {0} /\ (need - 1) * share < n
    BY <1>2, ListTilingFacts
  <2>2. \A c \in 0 .. num - 1 :
          ListChunk(c, n, max, align, num) =
            IF c >= need THEN {} ELSE c * share .. IF c = need - 1 THEN n - 1 ELSE (c + 1) * share - 1
    BY <1>2 DEF ListChunk
  <2> HIDE DEF need, share
  <2>3. \A c \in 0 .. need - 1 : c \in 0 .. num - 1 /\ ~(c >= need)
    BY <2>1
  <2>4. \A c \in 0 .. need - 1 :
          F[c] = c * share .. IF c = need - 1 THEN n - 1 ELSE (c + 1) * share - 1
    BY <2>2, <2>3
  <2>5. \A c \in 0 .. num - 1 : ListChunk(c, n, max, align, num) = IF c \in 0 .. need - 1 THEN F[c] ELSE {}
    BY <2>1, <2>2
  <2>6. need \in Nat \ {0} /\ (need - 1) * share <= n
    BY <2>1
  <2> HIDE DEF F
  <2>7. /\ \A c \in 0 .. need - 1 : F[c] \subseteq 0 .. n - 1
        /\ \A j \in 0 .. n - 1 : \E c \in 0 .. need - 1 : j \in F[c]
        /\ \A c, d \in 0 .. need - 1 : c # d => F[c] \cap F[d] = {}
    <3>1. BlocksCase(n, need, share, F)
      BY <2>1, <2>4, <2>6 DEF BlocksCase
    <3> QED  BY <3>1, BlocksPart
  <2> QED  BY <2>3, <2>5, <2>7
<1> QED  BY <1>1, <1>2

(* So are the sessions of the window.                                      *)
LEMMA SortChunksPart ==
  ASSUME NEW a \in Nat \ {0}, NEW m \in Nat \ {0}, NEW num \in Nat \ {0}
  PROVE  /\ \A c \in 0 .. num - 1 : SortChunk(c, a, m, num) \subseteq 0 .. a - 1
         /\ \A c, d \in 0 .. num - 1 :
              c # d => SortChunk(c, a, m, num) \cap SortChunk(d, a, m, num) = {}
<1> DEFINE k == SortNeed(a, m, num)
           p == SortPer(a, m, num)
           l == SortLast(a, m, num)
           F == [c \in 0 .. k - 1 |-> SortChunk(c, a, m, num)]
<1>1. k \in 1 .. num /\ p \in Nat \ {0} /\ l \in 1 .. p
  BY SortSplitWorks
<1>2. l = a - (k - 1) * p
  BY DEF SortLast
<1>3. \A c \in 0 .. num - 1 : SortChunk(c, a, m, num) =
        IF c < k THEN c * p .. c * p + (IF c = k - 1 THEN l ELSE p) - 1 ELSE {}
  BY DEF SortChunk
<1> HIDE DEF k, p, l
<1>4. \A c \in 0 .. k - 1 : c \in 0 .. num - 1 /\ c < k
  BY <1>1
<1>5. \A c \in 0 .. k - 1 : (c + 1) * p = c * p + p /\ c * p \in Nat
  BY <1>1
<1>6. (k - 1) * p \in Nat
  BY <1>1
<1>7. \A c \in 0 .. k - 1 : F[c] = c * p .. IF c = k - 1 THEN a - 1 ELSE (c + 1) * p - 1
  <2> TAKE c \in 0 .. k - 1
  <2>1. F[c] = c * p .. c * p + (IF c = k - 1 THEN l ELSE p) - 1
    BY <1>3, <1>4
  <2>2. c * p \in Int /\ (c + 1) * p = c * p + p /\ (k - 1) * p \in Int
    BY <1>5, <1>6
  <2> HIDE DEF F
  <2>3. CASE c = k - 1
    <3>1. c * p + l - 1 = a - 1
      BY <1>1, <1>2, <2>2, <2>3
    <3> QED  BY <2>1, <2>3, <3>1
  <2>4. CASE c # k - 1
    <3>1. c * p + p - 1 = (c + 1) * p - 1
      BY <1>1, <2>2
    <3> QED  BY <2>1, <2>4, <3>1
  <2> QED  BY <2>3, <2>4
<1>8. \A c \in 0 .. num - 1 : SortChunk(c, a, m, num) = IF c \in 0 .. k - 1 THEN F[c] ELSE {}
  BY <1>1, <1>3
<1>9. k \in Nat \ {0} /\ (k - 1) * p <= a
  BY <1>1, <1>2, <1>6
<1> HIDE DEF F
<1>10. /\ \A c \in 0 .. k - 1 : F[c] \subseteq 0 .. a - 1
       /\ \A c, d \in 0 .. k - 1 : c # d => F[c] \cap F[d] = {}
  <2>1. BlocksCase(a, k, p, F)
    BY <1>1, <1>7, <1>9 DEF BlocksCase
  <2> QED  BY <2>1, BlocksPart
<1> QED  BY <1>8, <1>10

----------------------------------------------------------------------------

(* The runs of a sorted list of experts, and how the lists of its chunks   *)
(* are joined.                                                             *)

(* G lists the runs of the sorted experts at the places of I.              *)
IsRuns(G, s, I) ==
  /\ \A k \in DOMAIN G : G[k][2] = Cardinality({j \in I : s[j][1] = G[k][1]})
  /\ \A i, k \in DOMAIN G : i < k => G[i][1] < G[k][1]
  /\ \A k \in DOMAIN G : \E j \in I : s[j][1] = G[k][1]
  /\ \A j \in I : \E k \in DOMAIN G : G[k][1] = s[j][1]

(* Numbers moved by a are as many as they were.                            *)
LEMMA ShiftCard ==
  ASSUME NEW a \in Int, NEW A \in SUBSET Int, IsFiniteSet(A), NEW B, B = {x + a : x \in A}
  PROVE  IsFiniteSet(B) /\ Cardinality(B) = Cardinality(A)
<1> DEFINE f == [x \in A |-> x + a]
<1>1. f \in Bijection(A, B)
  <2>1. f \in [A -> B] /\ \A x, y \in A : f[x] = f[y] => x = y
    OBVIOUS
  <2>2. \A z \in B : \E x \in A : f[x] = z
    OBVIOUS
  <2> HIDE DEF f
  <2> QED  BY <2>1, <2>2 DEF Bijection, Injection, Surjection, IsInjective
<1>2. ExistsBijection(A, B)
  BY <1>1 DEF ExistsBijection
<1> QED  BY <1>2, FS_Bijection

(* The order that a set of experts is listed in.                           *)
LEMMA BelowStrict ==
  ASSUME NEW S \in SUBSET Int
  PROVE  StrictOrder(S, Below(S)) /\ \A x, y \in S : <<x, y>> \in Below(S) <=> x < y
<1>1. \A x, y \in S : <<x, y>> \in Below(S) <=> x < y
  BY DEF Below
<1> QED  BY <1>1 DEF StrictOrder

(* seq holds the experts of len places of a sorted list, from first on.    *)
ChunkCase(s, first, len, seq) ==
  /\ first \in Nat /\ len \in Nat
  /\ \A j \in first .. first + len - 1 : s[j][1] \in Int
  /\ seq = [j \in 1 .. len |-> s[first + j - 1][1]]

(* What a core lists of a chunk are its runs.                              *)
LEMMA RunsOfInterval ==
  ASSUME NEW s, NEW first, NEW len, NEW seq, ChunkCase(s, first, len, seq)
  PROVE  \E n \in Nat : /\ RunsOf(seq) \in [1 .. n -> Int \X Nat]
                        /\ IsRuns(RunsOf(seq), s, first .. first + len - 1)
                        /\ len # 0 => n # 0
<1> DEFINE I == first .. first + len - 1
           E == ToSet(seq)
           used == InOrder(E, Below(E))
           n == Cardinality(E)
           Own(e) == {j \in DOMAIN seq : seq[j] = e}
           At(e)  == {j \in I : s[j][1] = e}
           G == RunsOf(seq)
<1> /\ first \in Nat /\ len \in Nat
    /\ \A j \in first .. first + len - 1 : s[j][1] \in Int
    /\ seq = [j \in 1 .. len |-> s[first + j - 1][1]]
  BY DEF ChunkCase
<1>1. DOMAIN seq = 1 .. len /\ \A j \in 1 .. len : seq[j] = s[first + j - 1][1] /\ first + j - 1 \in I
  OBVIOUS
<1>2. E = {s[j][1] : j \in I}
  <2>1. E = {seq[j] : j \in 1 .. len}
    BY <1>1 DEF ToSet
  <2>2. \A j \in I : j - first + 1 \in 1 .. len /\ first + (j - first + 1) - 1 = j
    OBVIOUS
  <2> HIDE DEF I, E
  <2>3. \A j \in I : s[j][1] = seq[j - first + 1]
    BY <1>1, <2>2
  <2> QED  BY <1>1, <2>1, <2>2, <2>3
<1>3. E \in SUBSET Int /\ IsFiniteSet(E)
  <2>1. E \in SUBSET Int
    BY <1>2
  <2>2. IsFiniteSet(1 .. len)
    BY FS_Interval
  <2> DEFINE h == [j \in 1 .. len |-> seq[j]]
  <2>3. h \in Surjection(1 .. len, E)
    BY <1>1 DEF Surjection, ToSet
  <2> QED  BY <2>1, <2>2, <2>3, FS_Surjection
<1> HIDE DEF E
<1>4. StrictOrder(E, Below(E)) /\ \A x, y \in E : <<x, y>> \in Below(E) <=> x < y
  BY <1>3, BelowStrict
<1>5. /\ n \in Nat /\ used \in [1 .. n -> E]
      /\ \A x \in E : \E k \in 1 .. n : used[k] = x
      /\ \A j, k \in 1 .. n : j < k <=> <<used[j], used[k]>> \in Below(E)
  BY <1>3, <1>4, InOrderFacts
<1>6. \A e \in E : IsFiniteSet(Own(e)) /\ Cardinality(Own(e)) = Cardinality(At(e)) /\ Cardinality(At(e)) \in Nat
  <2> TAKE e \in E
  <2>1. Own(e) \in SUBSET Int /\ IsFiniteSet(Own(e))
    <3>1. Own(e) \in SUBSET (1 .. len) /\ IsFiniteSet(1 .. len)
      BY <1>1, FS_Interval
    <3> HIDE DEF Own
    <3>2. Own(e) \in SUBSET Int
      BY <3>1
    <3> QED  BY <3>1, <3>2, FS_Subset
  <2>2. first - 1 \in Int
    OBVIOUS
  <2>3. At(e) = {x + (first - 1) : x \in Own(e)}
    <3>1. \A j \in I : j - first + 1 \in 1 .. len /\ first + (j - first + 1) - 1 = j /\ j = (j - first + 1) + (first - 1)
      OBVIOUS
    <3>2. \A x \in 1 .. len : first + x - 1 = x + (first - 1)
      OBVIOUS
    <3> HIDE DEF I
    <3>3. ASSUME NEW j \in At(e) PROVE j \in {x + (first - 1) : x \in Own(e)}
      <4>1. j - first + 1 \in Own(e)
        BY <1>1, <3>1
      <4> QED  BY <3>1, <4>1
    <3>4. ASSUME NEW x \in Own(e) PROVE x + (first - 1) \in At(e)
      BY <1>1, <3>2
    <3> QED  BY <3>3, <3>4
  <2> HIDE DEF Own, At
  <2>4. Cardinality(At(e)) = Cardinality(Own(e))
    BY <2>1, <2>2, <2>3, ShiftCard
  <2> QED  BY <2>1, <2>4, FS_CardinalityType
<1>7. G = [k \in 1 .. n |-> <<used[k], Cardinality(Own(used[k]))>>]
  <2>1. G = [k \in DOMAIN used |-> <<used[k], Cardinality(Own(used[k]))>>]
    BY DEF RunsOf, E
  <2>2. DOMAIN used = 1 .. n
    BY <1>5
  <2> HIDE DEF Own, G
  <2> QED  BY <2>1, <2>2
<1> HIDE DEF G, used, n, Own
<1>8. \A k \in 1 .. n : G[k] = <<used[k], Cardinality(At(used[k]))>> /\ used[k] \in E /\ used[k] \in Int
  BY <1>3, <1>5, <1>6, <1>7
<1>9. G \in [1 .. n -> Int \X Nat]
  <2>1. \A k \in 1 .. n : Cardinality(Own(used[k])) \in Nat /\ used[k] \in Int
    BY <1>6, <1>8
  <2> QED  BY <1>7, <2>1
<1> HIDE DEF At, I
<1>10. DOMAIN G = 1 .. n /\ \A k \in 1 .. n : G[k][1] = used[k]
  BY <1>7
<1>11. IsRuns(G, s, I)
  <2>1. \A k \in DOMAIN G : G[k][2] = Cardinality({j \in I : s[j][1] = G[k][1]})
    BY <1>8, <1>10 DEF At
  <2>2. \A i, k \in DOMAIN G : i < k => G[i][1] < G[k][1]
    <3> TAKE i \in DOMAIN G, k \in DOMAIN G
    <3>1. i \in 1 .. n /\ k \in 1 .. n /\ G[i][1] = used[i] /\ G[k][1] = used[k]
      BY <1>10
    <3>2. used[i] \in E /\ used[k] \in E
      BY <1>8, <3>1
    <3>3. i < k => <<used[i], used[k]>> \in Below(E)
      BY <1>5, <3>1
    <3>4. <<used[i], used[k]>> \in Below(E) => used[i] < used[k]
      BY <1>4, <3>2
    <3> QED  BY <3>1, <3>3, <3>4
  <2>3. \A k \in DOMAIN G : \E j \in I : s[j][1] = G[k][1]
    <3> TAKE k \in DOMAIN G
    <3>1. G[k][1] \in E
      BY <1>8, <1>10
    <3> QED  BY <1>2, <3>1
  <2>4. \A j \in I : \E k \in DOMAIN G : G[k][1] = s[j][1]
    <3> TAKE j \in I
    <3>1. s[j][1] \in E
      BY <1>2
    <3>2. PICK k \in 1 .. n : used[k] = s[j][1]
      BY <1>5, <3>1
    <3> QED  BY <1>10, <3>2
  <2> QED  BY <2>1, <2>2, <2>3, <2>4 DEF IsRuns
<1>12. len # 0 => n # 0
  <2> SUFFICES ASSUME len # 0, n = 0 PROVE FALSE
    OBVIOUS
  <2>1. s[first][1] \in E
    <3>1. first \in I
      BY DEF I
    <3> QED  BY <1>2, <3>1
  <2> QED  BY <1>5, <2>1
<1> QED  BY <1>5, <1>9, <1>11, <1>12 DEF G, I

(* The runs G of the places listed so far, R of the next chunk, and H with *)
(* both: a run does not end with its chunk if the next chunk goes on with  *)
(* its expert.                                                             *)
JoinCase(s, m, len, g, G, r, R, b, H) ==
  /\ m \in Nat /\ len \in Nat \ {0} /\ g \in Nat /\ r \in Nat \ {0} /\ b \in Nat /\ b \in {g, g - 1}
  /\ \A j \in 0 .. m + len - 1 : s[j][1] \in Int
  /\ \A i, j \in 0 .. m + len - 1 : i < j => s[i][1] <= s[j][1]
  /\ G \in [1 .. g -> Int \X Nat] /\ IsRuns(G, s, 0 .. m - 1)
  /\ R \in [1 .. r -> Int \X Nat] /\ IsRuns(R, s, m .. m + len - 1)
  /\ b = g <=> ~(g > 0 /\ G[g][1] = R[1][1])
  /\ H = [k \in 1 .. b + r |->
            IF k <= b THEN G[k]
            ELSE IF k = b + 1 /\ b # g THEN <<R[1][1], R[1][2] + G[g][2]>>
            ELSE R[k - b]]

(* Joined at the border, they are the runs of all these places.            *)
LEMMA JoinRuns ==
  ASSUME NEW s, NEW m, NEW len, NEW g, NEW G, NEW r, NEW R, NEW b, NEW H,
         JoinCase(s, m, len, g, G, r, R, b, H)
  PROVE  H \in [1 .. b + r -> Int \X Nat] /\ IsRuns(H, s, 0 .. m + len - 1)
<1> DEFINE I == 0 .. m - 1
           J == m .. m + len - 1
           K == 0 .. m + len - 1
           A(e) == {j \in I : s[j][1] = e}
           B(e) == {j \in J : s[j][1] = e}
           C(e) == {j \in K : s[j][1] = e}
<1>1. m \in Nat /\ len \in Nat \ {0} /\ g \in Nat /\ r \in Nat \ {0} /\ b \in Nat /\ b \in {g, g - 1}
  BY DEF JoinCase
<1>2. b = g <=> ~(g > 0 /\ G[g][1] = R[1][1])
  BY DEF JoinCase
<1>3. H = [k \in 1 .. b + r |->
            IF k <= b THEN G[k]
            ELSE IF k = b + 1 /\ b # g THEN <<R[1][1], R[1][2] + G[g][2]>>
            ELSE R[k - b]]
  BY DEF JoinCase
<1>4. G \in [1 .. g -> Int \X Nat] /\ R \in [1 .. r -> Int \X Nat]
  BY DEF JoinCase
<1>5. IsRuns(G, s, I) /\ IsRuns(R, s, J)
  BY DEF JoinCase
<1>6. /\ \A j \in K : s[j][1] \in Int
      /\ \A i, j \in K : i < j => s[i][1] <= s[j][1]
  BY DEF JoinCase
<1>7. I \cup J = K /\ I \cap J = {} /\ \A i \in I, j \in J : i < j /\ i \in K /\ j \in K
  BY <1>1
<1>8. IsFiniteSet(I) /\ IsFiniteSet(J)
  <2>1. 0 \in Int /\ m - 1 \in Int /\ m \in Int /\ m + len - 1 \in Int
    BY <1>1
  <2> HIDE DEF JoinCase
  <2> QED  BY <2>1, FS_Interval
<1> HIDE DEF I, J, K
<1>9. DOMAIN G = 1 .. g /\ DOMAIN R = 1 .. r /\ DOMAIN H = 1 .. b + r
  BY <1>4, <1>3
<1>10. /\ \A k \in 1 .. g : G[k][2] = Cardinality(A(G[k][1]))
       /\ \A i, k \in 1 .. g : i < k => G[i][1] < G[k][1]
       /\ \A k \in 1 .. g : \E j \in I : s[j][1] = G[k][1]
       /\ \A j \in I : \E k \in 1 .. g : G[k][1] = s[j][1]
  BY <1>5, <1>9 DEF IsRuns
<1>11. /\ \A k \in 1 .. r : R[k][2] = Cardinality(B(R[k][1]))
       /\ \A i, k \in 1 .. r : i < k => R[i][1] < R[k][1]
       /\ \A k \in 1 .. r : \E j \in J : s[j][1] = R[k][1]
       /\ \A j \in J : \E k \in 1 .. r : R[k][1] = s[j][1]
  BY <1>5, <1>9 DEF IsRuns
<1>12. \A e : /\ IsFiniteSet(A(e)) /\ IsFiniteSet(B(e))
              /\ Cardinality(A(e)) \in Nat /\ Cardinality(B(e)) \in Nat
              /\ Cardinality(C(e)) = Cardinality(A(e)) + Cardinality(B(e))
              /\ A(e) = {} => Cardinality(A(e)) = 0
              /\ B(e) = {} => Cardinality(B(e)) = 0
  <2> TAKE e
  <2>2. A(e) \in SUBSET I /\ B(e) \in SUBSET J /\ C(e) = A(e) \cup B(e) /\ A(e) \cap B(e) = {}
    BY <1>7
  <2> HIDE DEF A, B, C
  <2>3. IsFiniteSet(A(e)) /\ IsFiniteSet(B(e))
    BY <1>8, <2>2, FS_Subset
  <2>4. Cardinality(A(e)) \in Nat /\ Cardinality(B(e)) \in Nat
    BY <2>3, FS_CardinalityType
  <2>5. Cardinality(C(e)) = Cardinality(A(e)) + Cardinality(B(e)) - Cardinality(A(e) \cap B(e))
    BY <2>2, <2>3, FS_Union
  <2>6. Cardinality(A(e) \cap B(e)) = 0
    BY <2>2, FS_EmptySet
  <2>7. Cardinality(C(e)) = Cardinality(A(e)) + Cardinality(B(e))
    BY <2>4, <2>5, <2>6
  <2>8. (A(e) = {} => Cardinality(A(e)) = 0) /\ (B(e) = {} => Cardinality(B(e)) = 0)
    BY FS_EmptySet
  <2> QED  BY <2>3, <2>4, <2>7, <2>8
<1>13. \A k \in 1 .. g, i \in 1 .. r : G[k][1] <= R[i][1]
  <2> TAKE k \in 1 .. g, i \in 1 .. r
  <2>1. PICK x \in I : s[x][1] = G[k][1]
    BY <1>10
  <2>2. PICK y \in J : s[y][1] = R[i][1]
    BY <1>11
  <2> QED  BY <1>7, <1>6, <2>1, <2>2
<1>14. \A k \in 1 .. g : G[k][1] \in Int /\ G[k][2] \in Nat
  BY <1>4
<1>15. \A k \in 1 .. r : R[k][1] \in Int /\ R[k][2] \in Nat
  BY <1>4
<1>16. \A k \in 1 .. b, i \in 1 .. r : G[k][1] < R[i][1]
  <2> TAKE k \in 1 .. b, i \in 1 .. r
  <2>1. k \in 1 .. g /\ 1 \in 1 .. r
    BY <1>1
  <2>2. G[k][1] < R[1][1]
    <3>1. CASE b = g
      <4>1. g \in 1 .. g /\ G[g][1] # R[1][1] /\ G[g][1] <= R[1][1]
        BY <1>1, <1>2, <1>13, <2>1, <3>1
      <4>2. k = g \/ G[k][1] < G[g][1]
        BY <1>10, <2>1, <4>1
      <4> QED  BY <1>14, <1>15, <2>1, <4>1, <4>2
    <3>2. CASE b = g - 1
      <4>1. g \in 1 .. g /\ k < g /\ G[g][1] <= R[1][1]
        BY <1>1, <1>13, <2>1, <3>2
      <4>2. G[k][1] < G[g][1]
        BY <1>10, <2>1, <4>1
      <4> QED  BY <1>14, <1>15, <2>1, <4>1, <4>2
    <3> QED  BY <1>1, <3>1, <3>2
  <2>3. i = 1 \/ R[1][1] < R[i][1]
    BY <1>11, <2>1
  <2> QED  BY <1>14, <1>15, <2>1, <2>2, <2>3
<1>17. b # g => g \in 1 .. g /\ b = g - 1 /\ G[g][1] = R[1][1]
  BY <1>1, <1>2
<1>18. \A k \in 1 .. b : H[k] = G[k] /\ k \in 1 .. g
  BY <1>1, <1>3
<1>19. \A i \in 1 .. r : /\ i + b \in 1 .. b + r
                         /\ H[i + b] = IF i = 1 /\ b # g THEN <<R[1][1], R[1][2] + G[g][2]>> ELSE R[i]
                         /\ H[i + b][1] = R[i][1]
  <2> TAKE i \in 1 .. r
  <2>1. i + b \in 1 .. b + r /\ ~(i + b <= b) /\ (i + b) - b = i /\ (i + b = b + 1 <=> i = 1)
    BY <1>1
  <2>2. H[i + b] = IF i = 1 /\ b # g THEN <<R[1][1], R[1][2] + G[g][2]>> ELSE R[i]
    BY <1>3, <2>1
  <2> QED  BY <2>1, <2>2
<1>20. \A k \in 1 .. b + r : k \in 1 .. b \/ \E i \in 1 .. r : k = i + b
  <2> TAKE k \in 1 .. b + r
  <2>1. CASE k <= b
    BY <2>1
  <2>2. CASE k > b
    <3>1. k - b \in 1 .. r /\ k = (k - b) + b
      BY <1>1, <2>2
    <3> QED  BY <3>1
  <2> QED  BY <1>1, <2>1, <2>2
<1>21. H \in [1 .. b + r -> Int \X Nat]
  <2>1. \A k \in 1 .. b + r : H[k] \in Int \X Nat
    <3> TAKE k \in 1 .. b + r
    <3>1. CASE k \in 1 .. b
      BY <1>4, <1>18, <3>1
    <3>2. ASSUME NEW i \in 1 .. r, k = i + b PROVE H[k] \in Int \X Nat
      <4>1. H[k] = IF i = 1 /\ b # g THEN <<R[1][1], R[1][2] + G[g][2]>> ELSE R[i]
        BY <1>19, <3>2
      <4>2. CASE i = 1 /\ b # g
        <5>1. R[1][1] \in Int /\ R[1][2] + G[g][2] \in Nat
          BY <1>14, <1>15, <1>17, <4>2
        <5> QED  BY <4>1, <4>2, <5>1
      <4>3. CASE ~(i = 1 /\ b # g)
        BY <1>4, <4>1, <4>3
      <4> QED  BY <4>2, <4>3
    <3> QED  BY <1>20, <3>1, <3>2
  <2> QED  BY <1>3, <2>1
<1> DEFINE Hok == H \in [1 .. b + r -> Int \X Nat]
<1>22. Hok
  BY <1>21
<1> HIDE DEF A, B, C, Hok
<1>23. \A k \in 1 .. b : B(G[k][1]) = {}
  <2> TAKE k \in 1 .. b
  <2> SUFFICES ASSUME NEW j \in J, s[j][1] = G[k][1] PROVE FALSE
    BY DEF B
  <2>1. PICK i \in 1 .. r : R[i][1] = s[j][1]
    BY <1>11
  <2> QED  BY <1>14, <1>16, <1>18, <2>1
<1>24. \A i \in 1 .. r : ~(i = 1 /\ b # g) => A(R[i][1]) = {}
  <2> TAKE i \in 1 .. r
  <2> HAVE ~(i = 1 /\ b # g)
  <2> SUFFICES ASSUME NEW j \in I, s[j][1] = R[i][1] PROVE FALSE
    BY DEF A
  <2>1. PICK k \in 1 .. g : G[k][1] = s[j][1]
    BY <1>10
  <2>2. CASE k \in 1 .. b
    BY <1>14, <1>16, <2>1, <2>2
  <2>3. CASE k \notin 1 .. b
    <3>1. k = g /\ b = g - 1 /\ i # 1 /\ 1 \in 1 .. r /\ 1 < i
      BY <1>1, <2>1, <2>3
    <3>2. R[1][1] < R[i][1]
      BY <1>11, <3>1
    <3> QED  BY <1>15, <1>17, <2>1, <3>1, <3>2
  <2> QED  BY <2>2, <2>3
<1>25. \A k \in 1 .. b + r : H[k][2] = Cardinality(C(H[k][1]))
  <2> TAKE k \in 1 .. b + r
  <2>1. CASE k \in 1 .. b
    <3>1. H[k] = G[k] /\ H[k][2] = Cardinality(A(G[k][1])) /\ B(G[k][1]) = {}
      BY <1>10, <1>18, <1>23, <2>1
    <3>2. Cardinality(C(G[k][1])) = Cardinality(A(G[k][1]))
      BY <1>12, <3>1
    <3> QED  BY <3>1, <3>2
  <2>2. ASSUME NEW i \in 1 .. r, k = i + b PROVE H[k][2] = Cardinality(C(H[k][1]))
    <3>1. CASE i = 1 /\ b # g
      <4>1. /\ R[1][2] = Cardinality(B(R[1][1])) /\ G[g][2] = Cardinality(A(R[1][1]))
        BY <1>10, <1>11, <1>17, <3>1
      <4>2. H[k] = <<R[1][1], R[1][2] + G[g][2]>>
        BY <1>19, <2>2, <3>1
      <4>3. Cardinality(C(R[1][1])) = R[1][2] + G[g][2]
        BY <1>12, <4>1
      <4> QED  BY <4>2, <4>3
    <3>2. CASE ~(i = 1 /\ b # g)
      <4>1. H[k] = R[i] /\ H[k][2] = Cardinality(B(R[i][1])) /\ A(R[i][1]) = {}
        BY <1>11, <1>19, <1>24, <2>2, <3>2
      <4>2. Cardinality(C(R[i][1])) = Cardinality(B(R[i][1]))
        BY <1>12, <4>1
      <4> QED  BY <4>1, <4>2
    <3> QED  BY <3>1, <3>2
  <2> QED  BY <1>20, <2>1, <2>2
<1>26. \A x, y \in 1 .. b + r : x < y => H[x][1] < H[y][1]
  <2> TAKE x \in 1 .. b + r, y \in 1 .. b + r
  <2> HAVE x < y
  <2>1. CASE y \in 1 .. b
    <3>1. x \in 1 .. b
      BY <1>1, <2>1
    <3> QED  BY <1>10, <1>18, <2>1, <3>1
  <2>2. CASE x \in 1 .. b /\ y \notin 1 .. b
    BY <1>16, <1>18, <1>19, <1>20, <2>2
  <2>3. CASE x \notin 1 .. b /\ y \notin 1 .. b
    <3>1. PICK i \in 1 .. r : x = i + b
      BY <1>20, <2>3
    <3>2. PICK j \in 1 .. r : y = j + b
      BY <1>20, <2>3
    <3>3. i < j /\ H[x][1] = R[i][1] /\ H[y][1] = R[j][1]
      BY <1>1, <1>19, <3>1, <3>2
    <3> QED  BY <1>11, <3>3
  <2>4. x \in 1 .. b \/ y \notin 1 .. b
    BY <1>1
  <2> QED  BY <2>1, <2>2, <2>3, <2>4
<1>27. /\ \A k \in 1 .. b + r : \E j \in K : s[j][1] = H[k][1]
       /\ \A j \in K : \E k \in 1 .. b + r : H[k][1] = s[j][1]
  <2>1. ASSUME NEW k \in 1 .. b + r PROVE \E j \in K : s[j][1] = H[k][1]
    <3>1. CASE k \in 1 .. b
      BY <1>7, <1>10, <1>18, <3>1
    <3>2. ASSUME NEW i \in 1 .. r, k = i + b PROVE \E j \in K : s[j][1] = H[k][1]
      BY <1>7, <1>11, <1>19, <3>2
    <3> QED  BY <1>20, <3>1, <3>2
  <2>2. ASSUME NEW j \in K PROVE \E k \in 1 .. b + r : H[k][1] = s[j][1]
    <3>1. CASE j \in I
      <4>1. PICK k \in 1 .. g : G[k][1] = s[j][1]
        BY <1>10, <3>1
      <4>2. CASE k \in 1 .. b
        <5>1. k \in 1 .. b + r
          BY <1>1, <4>2
        <5> QED  BY <1>18, <4>1, <4>2, <5>1
      <4>3. CASE k \notin 1 .. b
        <5>1. k = g /\ b # g /\ 1 \in 1 .. r
          BY <1>1, <4>1, <4>3
        <5>2. H[1 + b][1] = R[1][1] /\ 1 + b \in 1 .. b + r
          BY <1>19, <5>1
        <5> QED  BY <1>17, <4>1, <5>1, <5>2
      <4> QED  BY <4>2, <4>3
    <3>2. CASE j \in J
      <4>1. PICK i \in 1 .. r : R[i][1] = s[j][1]
        BY <1>11, <3>2
      <4> QED  BY <1>19, <4>1
    <3> QED  BY <1>7, <3>1, <3>2
  <2> QED  BY <2>1, <2>2
<1>28. IsRuns(H, s, K)
  BY <1>9, <1>25, <1>26, <1>27 DEF IsRuns, C
<1> QED  BY <1>21, <1>28 DEF K

(* The least numbers of a range are as many as they are.                   *)
LEMMA DownSet ==
  ASSUME NEW m \in Nat, NEW A \in SUBSET (0 .. m - 1),
         \A j \in A, i \in 0 .. m - 1 : i < j => i \in A
  PROVE  A = 0 .. Cardinality(A) - 1 /\ Cardinality(A) \in 0 .. m
<1> DEFINE S == {n \in 0 .. m : n \notin A}
           n == Min(S)
<1>1. S \in SUBSET Nat /\ S # {} /\ S \subseteq 0 .. m
  <2>1. m \in S
    OBVIOUS
  <2> QED  BY <2>1
<1>2. n \in S /\ \A y \in S : n <= y
  <2> HIDE DEF S
  <2> QED  BY <1>1, MinFacts
<1>3. n \in 0 .. m /\ n \notin A /\ \A i \in 0 .. m : i < n => i \in A
  <2>1. n \in 0 .. m /\ n \notin A
    BY <1>2
  <2>2. \A i \in 0 .. m : i \notin A => n <= i
    BY <1>2
  <2> HIDE DEF n
  <2> QED  BY <2>1, <2>2
<1> HIDE DEF n
<1>4. A = 0 .. n - 1
  <2>1. \A j \in A : j < n
    BY <1>3
  <2>2. \A j \in A : j \in Int /\ 0 <= j
    OBVIOUS
  <2>3. \A j \in 0 .. n - 1 : j \in A
    BY <1>3
  <2>4. n \in Int
    BY <1>3
  <2>5. \A j \in A : j \in 0 .. n - 1
    <3> TAKE j \in A
    <3>1. j \in Int /\ 0 <= j /\ j < n
      BY <2>1, <2>2
    <3> QED  BY <2>4, <3>1
  <2> QED  BY <2>3, <2>5
<1>5. Cardinality(0 .. n - 1) = n
  <2>1. 0 \in Int /\ n - 1 \in Int
    BY <1>3
  <2>2. Cardinality(0 .. n - 1) = IF 0 > n - 1 THEN 0 ELSE n - 1 - 0 + 1
    BY <2>1, FS_Interval
  <2> QED  BY <1>3, <2>2
<1> QED  BY <1>3, <1>4, <1>5

(* G lists the runs of m sorted places, z how long they are.               *)
RunsCase(s, m, g, G, z) ==
  /\ m \in Nat /\ g \in Nat
  /\ \A j \in 0 .. m - 1 : s[j][1] \in Int
  /\ \A i, j \in 0 .. m - 1 : i < j => s[i][1] <= s[j][1]
  /\ G \in [1 .. g -> Int \X Nat] /\ IsRuns(G, s, 0 .. m - 1)
  /\ \A k \in 1 .. g : z[k] = G[k][2]

(* Read from the top, the lengths of the runs cut the sorted list into its *)
(* runs.                                                                   *)
LEMMA RunsCut ==
  ASSUME NEW s, NEW m, NEW g, NEW G, NEW z, RunsCase(s, m, g, G, z)
  PROVE  /\ SumOf(1 .. g, z) = m
         /\ \A k \in 1 .. g :
              \A j \in SumOf(1 .. k - 1, z) .. SumOf(1 .. k - 1, z) + G[k][2] - 1 :
                j \in 0 .. m - 1 /\ s[j][1] = G[k][1]
<1> DEFINE I == 0 .. m - 1
           At(e) == {j \in I : s[j][1] = e}
           D(k) == {j \in I : \E i \in 1 .. k : G[i][1] = s[j][1]}
           P(k) == SumOf(1 .. k, z)
           T == {k \in Nat : k <= g => P(k) \in Nat /\ D(k) = 0 .. P(k) - 1}
<1>1. m \in Nat /\ g \in Nat
  BY DEF RunsCase
<1>2. (\A j \in I : s[j][1] \in Int) /\ \A i, j \in I : i < j => s[i][1] <= s[j][1]
  BY DEF RunsCase
<1>3. G \in [1 .. g -> Int \X Nat] /\ DOMAIN G = 1 .. g
  BY DEF RunsCase
<1>4. IsRuns(G, s, I)
  BY DEF RunsCase
<1>5. \A k \in 1 .. g : z[k] = G[k][2]
  BY DEF RunsCase
<1>6. I \in SUBSET Int /\ IsFiniteSet(I)
  <2>1. 0 \in Int /\ m - 1 \in Int
    BY <1>1
  <2> QED  BY <2>1, FS_Interval
<1>7. \A j \in Int : j \in I <=> 0 <= j /\ j <= m - 1
  BY <1>1
<1>8. /\ \A k \in 1 .. g : G[k][2] = Cardinality(At(G[k][1]))
      /\ \A i, k \in 1 .. g : i < k => G[i][1] < G[k][1]
      /\ \A k \in 1 .. g : \E j \in I : s[j][1] = G[k][1]
      /\ \A j \in I : \E k \in 1 .. g : G[k][1] = s[j][1]
  BY <1>3, <1>4 DEF IsRuns
<1>9. \A k \in 1 .. g : G[k][1] \in Int /\ G[k][2] \in Nat /\ z[k] \in Nat
  BY <1>3, <1>5
<1>10. \A k \in 0 .. g : D(k) = 0 .. Cardinality(D(k)) - 1 /\ Cardinality(D(k)) \in Nat
  <2> TAKE k \in 0 .. g
  <2>1. D(k) \in SUBSET (0 .. m - 1)
    OBVIOUS
  <2>2. ASSUME NEW j \in D(k), NEW i \in I, i < j PROVE i \in D(k)
    <3>1. j \in I
      OBVIOUS
    <3>2. PICK x \in 1 .. k : G[x][1] = s[j][1]
      OBVIOUS
    <3>3. PICK y \in 1 .. g : G[y][1] = s[i][1]
      BY <1>8
    <3>4. x \in 1 .. g
      BY <1>1, <3>2
    <3>5. G[y][1] <= G[x][1]
      BY <1>2, <2>2, <3>1, <3>2, <3>3
    <3>6. ~(x < y)
      BY <1>8, <1>9, <3>4, <3>5
    <3>7. y \in 1 .. k
      BY <1>1, <3>2, <3>6
    <3> QED  BY <3>3, <3>7
  <2> HIDE DEF D
  <2> QED  BY <1>1, <2>1, <2>2, DownSet
<1>11. \A k \in 1 .. g : /\ D(k) = D(k - 1) \cup At(G[k][1]) /\ D(k - 1) \cap At(G[k][1]) = {}
                         /\ k - 1 \in 0 .. g
  <2> TAKE k \in 1 .. g
  <2>1. \A i \in Int : i \in 1 .. k <=> i \in 1 .. k - 1 \/ i = k
    BY <1>1
  <2>2. 1 .. k \in SUBSET Int /\ 1 .. k - 1 \in SUBSET Int
    OBVIOUS
  <2>3. \A j \in I : j \in D(k) <=> j \in D(k - 1) \/ G[k][1] = s[j][1]
    BY <2>1, <2>2
  <2>4. \A i \in 1 .. k - 1 : G[i][1] < G[k][1] /\ G[i][1] \in Int /\ G[k][1] \in Int
    <3> TAKE i \in 1 .. k - 1
    <3>1. i \in 1 .. g /\ i < k
      BY <1>1
    <3> QED  BY <1>8, <1>9, <3>1
  <2>5. \A i \in 1 .. k - 1 : G[i][1] # G[k][1]
    BY <2>4
  <2> QED  BY <1>1, <2>3, <2>5
<1>12. 0 \in T
  <2>1. 1 .. 0 = {}
    OBVIOUS
  <2>2. P(0) = 0
    BY <2>1, SumEmpty
  <2>3. D(0) = {} /\ 0 .. 0 - 1 = {}
    BY <2>1
  <2> QED  BY <2>2, <2>3
<1>13. \A k \in Nat : k \in T => k + 1 \in T
  <2> SUFFICES ASSUME NEW k \in Nat, k \in T, k + 1 <= g
               PROVE  P(k + 1) \in Nat /\ D(k + 1) = 0 .. P(k + 1) - 1
    OBVIOUS
  <2>1. P(k) \in Nat /\ D(k) = 0 .. P(k) - 1 /\ k + 1 \in 1 .. g /\ (k + 1) - 1 = k /\ k \in 0 .. g /\ k + 1 \in 0 .. g
    BY <1>1
  <2>2. P(k + 1) = P(k) + G[k + 1][2]
    <3>1. 1 .. k + 1 = (1 .. k) \cup {k + 1} /\ k + 1 \notin 1 .. k
      OBVIOUS
    <3>2. \A x \in 1 .. k : z[x] \in Nat
      BY <1>1, <1>9
    <3>3. IsFiniteSet(1 .. k)
      BY FS_Interval
    <3> HIDE DEF T
    <3>4. SumOf((1 .. k) \cup {k + 1}, z) = SumOf(1 .. k, z) + z[k + 1]
      <4>1. z[k + 1] \in Nat
        BY <1>9, <2>1
      <4> DEFINE S == 1 .. k
                 a == k + 1
      <4>2. IsFiniteSet(S) /\ a \notin S /\ z[a] \in Nat /\ \A x \in S : z[x] \in Nat
        BY <3>1, <3>2, <3>3, <4>1
      <4> HIDE DEF S, a
      <4>3. SumOf(S \cup {a}, z) = SumOf(S, z) + z[a]
        BY <4>2, SumAdd
      <4> QED  BY <4>3 DEF S, a
    <3> QED  BY <1>5, <2>1, <3>1, <3>4
  <2> HIDE DEF P, T
  <2>3. D(k + 1) = D(k) \cup At(G[k + 1][1]) /\ D(k) \cap At(G[k + 1][1]) = {}
    BY <1>11, <2>1
  <2>4. IsFiniteSet(D(k)) /\ IsFiniteSet(At(G[k + 1][1]))
    <3>1. D(k) \in SUBSET I /\ At(G[k + 1][1]) \in SUBSET I
      OBVIOUS
    <3> HIDE DEF D, At, I
    <3> QED  BY <1>6, <3>1, FS_Subset
  <2> HIDE DEF D, At
  <2>5. Cardinality(D(k + 1)) = Cardinality(D(k)) + Cardinality(At(G[k + 1][1])) - Cardinality(D(k) \cap At(G[k + 1][1]))
    BY <2>3, <2>4, FS_Union
  <2>6. Cardinality(D(k) \cap At(G[k + 1][1])) = 0
    BY <2>3, FS_EmptySet
  <2>7. Cardinality(At(G[k + 1][1])) = G[k + 1][2] /\ G[k + 1][2] \in Nat
    BY <1>8, <1>9, <2>1
  <2>8. Cardinality(D(k)) = P(k)
    <3>1. 0 \in Int /\ P(k) - 1 \in Int
      BY <2>1
    <3>2. Cardinality(0 .. P(k) - 1) = IF 0 > P(k) - 1 THEN 0 ELSE P(k) - 1 - 0 + 1
      BY <3>1, FS_Interval
    <3> QED  BY <2>1, <3>2
  <2>9. Cardinality(D(k + 1)) = P(k + 1) /\ P(k + 1) \in Nat
    BY <2>1, <2>2, <2>5, <2>6, <2>7, <2>8
  <2> QED  BY <1>10, <2>1, <2>9
<1>14. \A k \in 0 .. g : P(k) \in Nat /\ D(k) = 0 .. P(k) - 1
  <2> HIDE DEF T
  <2>1. \A k \in Nat : k \in T
    BY <1>12, <1>13, NatInduct
  <2> HIDE DEF P, D
  <2> QED  BY <1>1, <2>1 DEF T
<1>15. P(g) = m
  <2>1. D(g) = I
    BY <1>8
  <2>0. g \in 0 .. g
    BY <1>1
  <2>2. P(g) \in Nat /\ I = 0 .. P(g) - 1
    <3> HIDE DEF P, D, I
    <3> QED  BY <1>14, <2>0, <2>1
  <2> HIDE DEF P
  <2>3. m = P(g)
    <3>1. \A j \in Int : 0 <= j /\ j <= m - 1 <=> 0 <= j /\ j <= P(g) - 1
      <4>1. \A j \in Int : j \in 0 .. P(g) - 1 <=> 0 <= j /\ j <= P(g) - 1
        BY <2>2
      <4> HIDE DEF I
      <4> QED  BY <1>7, <2>2, <4>1
    <3> HIDE DEF I
    <3>2. m <= P(g)
      BY <1>1, <2>2, <3>1
    <3>3. P(g) <= m
      BY <1>1, <2>2, <3>1
    <3> QED  BY <1>1, <2>2, <3>2, <3>3
  <2> QED  BY <2>3
<1>16. ASSUME NEW k \in 1 .. g, NEW j \in P(k - 1) .. P(k - 1) + G[k][2] - 1
       PROVE  j \in I /\ s[j][1] = G[k][1]
  <2>1. k \in 0 .. g /\ k - 1 \in 0 .. g
    BY <1>1
  <2>2. P(k) \in Nat /\ D(k) = 0 .. P(k) - 1 /\ P(k - 1) \in Nat /\ D(k - 1) = 0 .. P(k - 1) - 1
    BY <1>14, <2>1
  <2> HIDE DEF P
  <2>3. P(k) = P(k - 1) + G[k][2]
    <3>1. IsFiniteSet(D(k - 1)) /\ IsFiniteSet(At(G[k][1]))
      <4>1. D(k - 1) \in SUBSET I /\ At(G[k][1]) \in SUBSET I
        OBVIOUS
      <4> HIDE DEF D, At, I
      <4> QED  BY <1>6, <4>1, FS_Subset
    <3>2. D(k) = D(k - 1) \cup At(G[k][1]) /\ D(k - 1) \cap At(G[k][1]) = {}
      BY <1>11
    <3> HIDE DEF D, At
    <3>3. Cardinality(D(k)) = Cardinality(D(k - 1)) + Cardinality(At(G[k][1])) - Cardinality(D(k - 1) \cap At(G[k][1]))
      BY <3>1, <3>2, FS_Union
    <3>4. Cardinality(D(k - 1) \cap At(G[k][1])) = 0
      BY <3>2, FS_EmptySet
    <3>5. Cardinality(At(G[k][1])) = G[k][2] /\ G[k][2] \in Nat
      BY <1>8, <1>9
    <3>6. \A x \in Nat : Cardinality(0 .. x - 1) = x
      <4> TAKE x \in Nat
      <4>1. Cardinality(0 .. x - 1) = IF 0 > x - 1 THEN 0 ELSE x - 1 - 0 + 1
        BY FS_Interval
      <4> QED  BY <4>1
    <3>7. Cardinality(D(k)) = P(k) /\ Cardinality(D(k - 1)) = P(k - 1)
      BY <2>2, <3>6
    <3> QED  BY <2>2, <3>3, <3>4, <3>5, <3>7
  <2>4. j \in Int /\ j <= P(k) - 1 /\ j >= P(k - 1)
    BY <1>9, <2>2, <2>3
  <2>5. j \in D(k) /\ j \notin D(k - 1)
    BY <2>2, <2>4
  <2>6. D(k) = D(k - 1) \cup At(G[k][1])
    BY <1>11
  <2>7. j \in At(G[k][1])
    BY <2>5, <2>6
  <2> QED  BY <2>7
<1> QED  BY <1>15, <1>16

----------------------------------------------------------------------------

(* The places of a launch, its token ids and the order they are merged in. *)

(* The row of slot i in row a, rows being len long, is no other row's.     *)
LEMMA RowFacts ==
  ASSUME NEW len \in Nat \ {0}, NEW a \in Nat, NEW i \in 0 .. len - 1
  PROVE  (a * len + i) \div len = a /\ (a * len + i) - a * len = i /\ a * len + i \in Nat
<1>1. a * len \in Nat /\ a * len + i \in Nat /\ a * len = len * a
  OBVIOUS
<1> DEFINE n == a * len + i
<1>2. n \in Nat /\ n = len * a + i
  BY <1>1
<1> HIDE DEF n
<1>3. n \div len \in Nat /\ n % len \in 0 .. len - 1 /\ n = len * (n \div len) + (n % len)
  BY <1>2, DivMod
<1>4. n \div len = a
  <2> DEFINE q == n \div len
             r == n % len
  <2>1. q \in Nat /\ r \in 0 .. len - 1 /\ len * q + r = len * a + i
    BY <1>2, <1>3
  <2> HIDE DEF q, r
  <2>2. q = a
    BY <2>1, DivUnique
  <2> QED  BY <2>2 DEF q
<1>5. n - a * len = i
  BY <1>1, <1>2
<1> QED  BY <1>2, <1>4, <1>5 DEF n

(* The places of P with an expert's id, and the ids there, with the rows   *)
(* they are in when a row is len long.                                     *)
Used(t, P) == {z \in P : t[z] # Invalid}

TokenIds(t, len, P) == {<<t[z], z[1] * len + z[2]>> : z \in Used(t, P)}

(* A place is found from its row.                                          *)
LEMMA PlaceApart ==
  ASSUME NEW len \in Nat \ {0}, NEW y \in Nat \X (0 .. len - 1), NEW z \in Nat \X (0 .. len - 1),
         y[1] * len + y[2] = z[1] * len + z[2]
  PROVE  y = z
<1>1. y[1] \in Nat /\ y[2] \in 0 .. len - 1 /\ z[1] \in Nat /\ z[2] \in 0 .. len - 1
      /\ y = <<y[1], y[2]>> /\ z = <<z[1], z[2]>>
  OBVIOUS
<1>2. y[1] = z[1]
  <2>1. (y[1] * len + y[2]) \div len = y[1]
    BY <1>1, RowFacts
  <2>2. (z[1] * len + z[2]) \div len = z[1]
    BY <1>1, RowFacts
  <2> QED  BY <2>1, <2>2
<1>3. y[2] = z[2]
  <2>1. (y[1] * len + y[2]) - y[1] * len = y[2]
    BY <1>1, RowFacts
  <2>2. (z[1] * len + z[2]) - z[1] * len = z[2]
    BY <1>1, RowFacts
  <2> QED  BY <1>2, <2>1, <2>2
<1> QED  BY <1>1, <1>2, <1>3

(* There are as many ids, each with its row, as places that hold one.      *)
LEMMA TokenFacts ==
  ASSUME NEW t, NEW len \in Nat \ {0}, NEW P \in SUBSET (Nat \X (0 .. len - 1)), IsFiniteSet(P)
  PROVE  /\ IsFiniteSet(TokenIds(t, len, P))
         /\ Cardinality(TokenIds(t, len, P)) = Cardinality(Used(t, P))
         /\ Cardinality(TokenIds(t, len, P)) \in Nat
         /\ Cardinality(TokenIds(t, len, P)) <= Cardinality(P)
<1> DEFINE U == Used(t, P)
           V == TokenIds(t, len, P)
           f == [z \in U |-> <<t[z], z[1] * len + z[2]>>]
<1>1. U \in SUBSET P
  BY DEF Used
<1>2. IsFiniteSet(U) /\ Cardinality(U) <= Cardinality(P) /\ Cardinality(U) \in Nat
  <2> HIDE DEF U
  <2> QED  BY <1>1, FS_Subset, FS_CardinalityType
<1>3. V = {f[z] : z \in U} /\ f \in [U -> V]
  BY DEF TokenIds
<1>4. \A y, z \in U : f[y] = f[z] => y = z
  <2> TAKE y \in U, z \in U
  <2> HAVE f[y] = f[z]
  <2>1. y[1] * len + y[2] = z[1] * len + z[2]
    OBVIOUS
  <2>2. y \in Nat \X (0 .. len - 1) /\ z \in Nat \X (0 .. len - 1)
    BY <1>1
  <2> QED  BY <2>1, <2>2, PlaceApart
<1> HIDE DEF U, V, f
<1>5. f \in Bijection(U, V)
  BY <1>3, <1>4 DEF Bijection, Injection, Surjection, IsInjective
<1>6. ExistsBijection(U, V)
  BY <1>5 DEF ExistsBijection
<1>7. IsFiniteSet(V) /\ Cardinality(V) = Cardinality(U)
  BY <1>2, <1>6, FS_Bijection
<1> QED  BY <1>2, <1>7 DEF U, V

(* Ids of different places are different: the row tells them apart.        *)
LEMMA TokensApart ==
  ASSUME NEW t, NEW len \in Nat \ {0}, NEW P \in SUBSET (Nat \X (0 .. len - 1)),
         NEW Q \in SUBSET (Nat \X (0 .. len - 1)), P \cap Q = {}
  PROVE  TokenIds(t, len, P) \cap TokenIds(t, len, Q) = {}
<1> SUFFICES ASSUME NEW y \in Used(t, P), NEW z \in Used(t, Q),
                    <<t[y], y[1] * len + y[2]>> = <<t[z], z[1] * len + z[2]>>
             PROVE  FALSE
  BY DEF TokenIds
<1>1. y \in P /\ z \in Q /\ y[1] * len + y[2] = z[1] * len + z[2]
  BY DEF Used
<1>2. y = z
  BY <1>1, PlaceApart
<1> QED  BY <1>1, <1>2

(* The merged list holds every id, and the experts in order.               *)
LEMMA MergedFacts ==
  ASSUME NEW S \in SUBSET (Int \X Int), IsFiniteSet(S)
  PROVE  /\ Cardinality(S) \in Nat /\ Merged(S) \in [1 .. Cardinality(S) -> S]
         /\ \A x \in S : \E k \in 1 .. Cardinality(S) : Merged(S)[k] = x
         /\ \A j, k \in 1 .. Cardinality(S) : j < k => Merged(S)[j][1] <= Merged(S)[k][1]
<1> DEFINE B == {z \in S \X S : z[1][1] < z[2][1] \/ (z[1][1] = z[2][1] /\ z[1][2] < z[2][2])}
           s == InOrder(S, B)
           n == Cardinality(S)
<1>1. \A x \in S : x = <<x[1], x[2]>> /\ x[1] \in Int /\ x[2] \in Int
  OBVIOUS
<1>2. \A x, y \in S : <<x, y>> \in B <=> x[1] < y[1] \/ (x[1] = y[1] /\ x[2] < y[2])
  OBVIOUS
<1> HIDE DEF B
<1>3. StrictOrder(S, B)
  <2>1. \A x, y \in S : x # y => <<x, y>> \in B \/ <<y, x>> \in B
    <3> TAKE x \in S, y \in S
    <3> HAVE x # y
    <3>1. x[1] # y[1] \/ x[2] # y[2]
      BY <1>1
    <3> QED  BY <1>1, <1>2, <3>1
  <2>2. \A x \in S : <<x, x>> \notin B
    BY <1>1, <1>2
  <2>3. \A x, y, z \in S : <<x, y>> \in B /\ <<y, z>> \in B => <<x, z>> \in B
    BY <1>1, <1>2
  <2> QED  BY <2>1, <2>2, <2>3 DEF StrictOrder
<1>4. /\ n \in Nat /\ s \in [1 .. n -> S]
      /\ \A x \in S : \E k \in 1 .. n : s[k] = x
      /\ \A j, k \in 1 .. n : j < k <=> <<s[j], s[k]>> \in B
  BY <1>3, InOrderFacts
<1>5. Merged(S) = s
  BY DEF Merged, B
<1> HIDE DEF s, n
<1>6. \A j, k \in 1 .. n : j < k => s[j][1] <= s[k][1]
  <2> TAKE j \in 1 .. n, k \in 1 .. n
  <2> HAVE j < k
  <2>1. s[j] \in S /\ s[k] \in S /\ <<s[j], s[k]>> \in B
    BY <1>4
  <2> QED  BY <1>1, <1>2, <2>1
<1> QED  BY <1>4, <1>5, <1>6 DEF n

(* There are no more runs than experts.                                    *)
LEMMA RunsFew ==
  ASSUME NEW s, NEW I, NEW g \in Nat, NEW G, G \in [1 .. g -> Int \X Nat], IsRuns(G, s, I),
         NEW n \in Nat, \A j \in I : s[j][1] \in 0 .. n - 1
  PROVE  g <= n
<1> DEFINE f == [k \in 1 .. g |-> G[k][1]]
<1>1. DOMAIN G = 1 .. g /\ \A k \in 1 .. g : G[k][1] \in Int
  OBVIOUS
<1>2. /\ \A i, k \in 1 .. g : i < k => G[i][1] < G[k][1]
      /\ \A k \in 1 .. g : \E j \in I : s[j][1] = G[k][1]
  BY <1>1 DEF IsRuns
<1>3. f \in [1 .. g -> 0 .. n - 1] /\ \A i, k \in 1 .. g : f[i] = f[k] => i = k
  <2>1. \A k \in 1 .. g : G[k][1] \in 0 .. n - 1
    BY <1>2
  <2>2. \A i, k \in 1 .. g : G[i][1] = G[k][1] => i = k
    <3> TAKE i \in 1 .. g, k \in 1 .. g
    <3> HAVE G[i][1] = G[k][1]
    <3>1. ~(i < k) /\ ~(k < i)
      BY <1>1, <1>2
    <3> QED  BY <3>1
  <2> QED  BY <2>1, <2>2
<1> HIDE DEF f
<1>4. f \in Injection(1 .. g, 0 .. n - 1)
  BY <1>3 DEF Injection, IsInjective
<1>5. IsFiniteSet(0 .. n - 1) /\ Cardinality(0 .. n - 1) = n /\ Cardinality(1 .. g) = g
  <2>1. 0 \in Int /\ 1 \in Int /\ n - 1 \in Int /\ g \in Int
    OBVIOUS
  <2>2. IsFiniteSet(0 .. n - 1) /\ Cardinality(0 .. n - 1) = IF 0 > n - 1 THEN 0 ELSE n - 1 - 0 + 1
    BY <2>1, FS_Interval
  <2>3. Cardinality(1 .. g) = IF 1 > g THEN 0 ELSE g - 1 + 1
    BY <2>1, FS_Interval
  <2> QED  BY <2>2, <2>3
<1>6. Cardinality(1 .. g) <= Cardinality(0 .. n - 1)
  BY <1>4, <1>5, FS_Injection
<1> QED  BY <1>5, <1>6

(* The rows of the launch: sessions of the window, or entries of the       *)
(* scheduler's list.                                                       *)
Entries == IF needSchedule THEN Sessions ELSE 0 .. Len(out) - 1

(* The session and the micro-batch of a row.                               *)
PairAt ==
  [a \in Entries |->
    IF needSchedule THEN <<a, mbId[0]>> ELSE <<out[a + 1].session, out[a + 1].microBatch>>]

(* The places of the launch: the slots of its rows.                        *)
Cells == Entries \X Slots

(* What the sessions have sent in the rounds of the launch.                *)
Tokens == [z \in Cells |-> want[PairAt[z[1]]][z[2]]]

(* The rounds of the launch.                                               *)
Rounds == [a \in Entries |-> sent[PairAt[a]] - 1]

(* The ids that core c sorts, and those of the whole launch.               *)
Mine(c) == TokenIds(Tokens, RowLen, SortedPlaces(c))

All == TokenIds(Tokens, RowLen, Cells)

(* The host has tiled the launch.                                          *)
LaunchInv == [needSchedule |-> needSchedule, sortLoopMax |-> sortLoopMax] \in Launches

(* The list is in the order of the sessions.                               *)
OutInv == \A j, k \in DOMAIN out : j < k => out[j].session < out[k].session

(* What the facts about a launch are drawn from.                           *)
TileInv == StateInv /\ LaunchInv /\ OutInv /\ (needSchedule => out = <<>>)

(* The list names each session once, and so is no longer than they are     *)
(* many.                                                                   *)
LEMMA OutFacts ==
  ASSUME TileInv
  PROVE  /\ Len(out) \in 0 .. SessionNum /\ out \in [1 .. Len(out) -> Entry]
         /\ DOMAIN out = 1 .. Len(out)
<1>1. PICK n \in Nat : out \in [1 .. n -> Entry]
  BY DEF TileInv, StateInv
<1>2. Len(out) = n /\ DOMAIN out = 1 .. n
  BY <1>1
<1>3. \A k \in 1 .. n : out[k].session \in 0 .. SessionNum - 1
  BY <1>1 DEF Entry, Sessions
<1> DEFINE f == [k \in 1 .. n |-> out[k].session]
<1>4. f \in Injection(1 .. n, 0 .. SessionNum - 1)
  <2>1. f \in [1 .. n -> 0 .. SessionNum - 1]
    BY <1>3
  <2>2. \A j, k \in 1 .. n : f[j] = f[k] => j = k
    <3> TAKE j \in 1 .. n, k \in 1 .. n
    <3> HAVE f[j] = f[k]
    <3>1. out[j].session = out[k].session /\ out[j].session \in Int
      BY <1>3
    <3>2. (j < k => out[j].session < out[k].session) /\ (k < j => out[k].session < out[j].session)
      BY <1>2 DEF TileInv, OutInv
    <3> QED  BY <3>1, <3>2
  <2> HIDE DEF f
  <2> QED  BY <2>1, <2>2 DEF Injection, IsInjective
<1>5. SessionNum \in Nat
  BY ConstFacts
<1>6. IsFiniteSet(0 .. SessionNum - 1) /\ Cardinality(0 .. SessionNum - 1) = SessionNum /\ Cardinality(1 .. n) = n
  <2>1. 0 \in Int /\ 1 \in Int /\ SessionNum - 1 \in Int /\ n \in Int
    BY <1>5
  <2>2. IsFiniteSet(0 .. SessionNum - 1)
        /\ Cardinality(0 .. SessionNum - 1) = IF 0 > SessionNum - 1 THEN 0 ELSE SessionNum - 1 - 0 + 1
    BY <2>1, FS_Interval
  <2>3. Cardinality(1 .. n) = IF 1 > n THEN 0 ELSE n - 1 + 1
    BY <2>1, FS_Interval
  <2> QED  BY <1>5, <2>2, <2>3
<1> HIDE DEF f
<1>7. Cardinality(1 .. n) <= Cardinality(0 .. SessionNum - 1)
  BY <1>4, <1>6, FS_Injection
<1> QED  BY <1>1, <1>2, <1>5, <1>6, <1>7

(* A row has place for the slots, and no more than one core sorts.         *)
LEMMA RowLenFacts ==
  ASSUME TileInv
  PROVE  /\ RowLen \in Nat \ {0} /\ SlotNum <= RowLen /\ RowLen <= BsKPad
         /\ Slots \subseteq 0 .. RowLen - 1
<1>1. SlotNum \in Nat \ {0} /\ Pad \in Nat
  BY ConstFacts
<1> QED  BY <1>1 DEF RowLen, BsKPad, Slots

(* There are no more places in a launch than ids in the window.            *)
LEMMA EntryFacts ==
  ASSUME TileInv
  PROVE  /\ \E n \in 0 .. SessionNum : Entries = 0 .. n - 1
         /\ Cells \in SUBSET (Nat \X (0 .. RowLen - 1)) /\ IsFiniteSet(Cells)
         /\ Cardinality(Cells) <= SessionNum * SlotNum
         /\ PairAt \in [Entries -> Pairs]
         /\ Tokens \in [Cells -> -1 .. ExpertNum - 1]
<1>1. /\ Len(out) \in 0 .. SessionNum /\ out \in [1 .. Len(out) -> Entry] /\ DOMAIN out = 1 .. Len(out)
  BY OutFacts
<1>2. SessionNum \in Nat /\ SlotNum \in Nat \ {0}
  BY ConstFacts
<1>3. PICK n \in 0 .. SessionNum : Entries = 0 .. n - 1
  <2>1. SessionNum \in 0 .. SessionNum
    BY <1>2
  <2> QED  BY <1>1, <2>1 DEF Entries, Sessions
<1>4. Cells \in SUBSET (Nat \X (0 .. RowLen - 1))
  <2>1. Slots \subseteq 0 .. RowLen - 1
    BY RowLenFacts
  <2>2. Entries \subseteq Nat
    BY <1>2, <1>3
  <2> QED  BY <2>1, <2>2 DEF Cells
<1>5. /\ IsFiniteSet(Entries) /\ Cardinality(Entries) = n
      /\ IsFiniteSet(Slots) /\ Cardinality(Slots) = SlotNum
  <2>1. 0 \in Int /\ n - 1 \in Int /\ SlotNum - 1 \in Int /\ n \in Nat
    BY <1>2
  <2>2. IsFiniteSet(0 .. n - 1) /\ Cardinality(0 .. n - 1) = IF 0 > n - 1 THEN 0 ELSE n - 1 - 0 + 1
    BY <2>1, FS_Interval
  <2>3. IsFiniteSet(0 .. SlotNum - 1)
        /\ Cardinality(0 .. SlotNum - 1) = IF 0 > SlotNum - 1 THEN 0 ELSE SlotNum - 1 - 0 + 1
    BY <2>1, FS_Interval
  <2>4. Cardinality(0 .. n - 1) = n
    BY <2>1, <2>2
  <2>5. Cardinality(0 .. SlotNum - 1) = SlotNum
    BY <1>2, <2>3
  <2> QED  BY <1>3, <2>2, <2>3, <2>4, <2>5 DEF Slots
<1>6. IsFiniteSet(Cells) /\ Cardinality(Cells) = n * SlotNum
  BY <1>5, FS_Product DEF Cells
<1>7. n * SlotNum <= SessionNum * SlotNum
  BY <1>2, TimesMonotone
<1>8. PairAt \in [Entries -> Pairs]
  <2>1. CASE needSchedule
    <3>1. mbId[0] \in MicroBatches
      BY ConstFacts DEF TileInv, StateInv
    <3> QED  BY <2>1, <3>1 DEF PairAt, Entries, Pairs
  <2>2. CASE ~needSchedule
    <3>1. \A a \in 0 .. Len(out) - 1 : a + 1 \in 1 .. Len(out)
      BY <1>1
    <3>2. \A k \in 1 .. Len(out) : out[k].session \in Sessions /\ out[k].microBatch \in MicroBatches
      BY <1>1 DEF Entry
    <3>3. \A a \in Entries : <<out[a + 1].session, out[a + 1].microBatch>> \in Pairs
      BY <2>2, <3>1, <3>2 DEF Entries, Pairs
    <3> QED  BY <2>2, <3>3 DEF PairAt
  <2> QED  BY <2>1, <2>2
<1>9. Tokens \in [Cells -> -1 .. ExpertNum - 1]
  <2>1. \A z \in Cells : PairAt[z[1]] \in Pairs /\ z[2] \in Slots
    BY <1>8 DEF Cells
  <2>2. \A p \in Pairs : want[p] \in [Slots -> -1 .. ExpertNum - 1]
    BY DEF TileInv, StateInv, IdRow
  <2>3. \A z \in Cells : want[PairAt[z[1]]][z[2]] \in -1 .. ExpertNum - 1
    BY <2>1, <2>2
  <2> QED  BY <2>3 DEF Tokens
<1> QED  BY <1>3, <1>4, <1>6, <1>7, <1>8, <1>9

(* The rows of the launch are the taken micro-batches, each once.          *)
LEMMA PairFacts ==
  ASSUME TileInv
  PROVE  /\ \A a \in Entries : PairAt[a] \in Taken
         /\ \A p \in Taken : p \in Pairs /\ \E a \in Entries : PairAt[a] = p
         /\ \A a, b \in Entries : PairAt[a] = PairAt[b] => a = b
<1>1. CASE needSchedule
  <2>1. mbId[0] \in MicroBatches
    BY ConstFacts DEF TileInv, StateInv
  <2>2. \A a \in Sessions : PairAt[a] = <<a, mbId[0]>>
    BY <1>1 DEF PairAt, Entries
  <2>3. \A p \in Taken : p \in Pairs /\ p = <<p[1], mbId[0]>> /\ p[1] \in Sessions
    BY <1>1 DEF Taken, Pairs
  <2>4. \A a \in Sessions : PairAt[a] \in Taken
    BY <1>1, <2>1, <2>2 DEF Taken, Pairs
  <2> QED  BY <1>1, <2>2, <2>3, <2>4 DEF Entries
<1>2. CASE ~needSchedule
  <2>1. /\ Len(out) \in 0 .. SessionNum /\ out \in [1 .. Len(out) -> Entry] /\ DOMAIN out = 1 .. Len(out)
    BY OutFacts
  <2>2. \A a \in Entries : a \in Int /\ a + 1 \in 1 .. Len(out)
                           /\ PairAt[a] = <<out[a + 1].session, out[a + 1].microBatch>>
    BY <1>2, <2>1 DEF PairAt, Entries
  <2>3. Taken = {<<out[k].session, out[k].microBatch>> : k \in 1 .. Len(out)}
    BY <1>2, <2>1 DEF Taken, ToSet
  <2>4. \A k \in 1 .. Len(out) : k - 1 \in Entries /\ (k - 1) + 1 = k
    BY <1>2, <2>1 DEF Entries
  <2>5. \A p \in Taken : \E a \in Entries : PairAt[a] = p
    <3> TAKE p \in Taken
    <3>1. PICK k \in 1 .. Len(out) : p = <<out[k].session, out[k].microBatch>>
      BY <2>3
    <3> QED  BY <2>2, <2>4, <3>1
  <2>6. \A a \in Entries : PairAt[a] \in Taken /\ PairAt[a] \in Pairs
    BY <2>2, <2>3, EntryFacts
  <2>7. \A a, b \in Entries : PairAt[a] = PairAt[b] => a = b
    <3> TAKE a \in Entries, b \in Entries
    <3> HAVE PairAt[a] = PairAt[b]
    <3>1. out[a + 1].session = out[b + 1].session /\ out[a + 1].session \in Int
      <4>1. out[a + 1] \in Entry
        BY <2>1, <2>2
      <4> QED  BY <2>2, <4>1, ConstFacts DEF Entry, Sessions
    <3>2. /\ a + 1 < b + 1 => out[a + 1].session < out[b + 1].session
          /\ b + 1 < a + 1 => out[b + 1].session < out[a + 1].session
      BY <2>1, <2>2 DEF TileInv, OutInv
    <3> QED  BY <2>2, <3>1, <3>2
  <2> QED  BY <2>5, <2>6, <2>7
<1> QED  BY <1>1, <1>2

(* Every place of the launch is sorted, by one core.                       *)
LEMMA PlacesFacts ==
  ASSUME TileInv
  PROVE  /\ \A c \in Cores : SortedPlaces(c) \subseteq Cells
         /\ \A z \in Cells : \E c \in Cores : z \in SortedPlaces(c)
         /\ \A c, d \in Cores : c # d => SortedPlaces(c) \cap SortedPlaces(d) = {}
<1>1. CASE needSchedule
  <2>1. \A c \in Cores : SortedPlaces(c) = SortedSessions(c) \X Slots
    BY <1>1 DEF SortedPlaces
  <2>2. Cells = Sessions \X Slots
    BY <1>1 DEF Cells, Entries
  <2>3. /\ \A c \in Cores : SortedSessions(c) \subseteq Sessions
        /\ \A c, d \in Cores : c # d => SortedSessions(c) \cap SortedSessions(d) = {}
    <3>1. CASE OneCoreSort
      <4>1. \A c \in Cores : SortedSessions(c) = IF c = 0 THEN Sessions ELSE {}
        BY <3>1 DEF SortedSessions
      <4> QED  BY <4>1
    <3>2. CASE ~OneCoreSort
      <4>1. SessionPerSort \in Nat \ {0}
        <5>1. sortLoopMax \in Nat /\ BsKPad \in Nat \ {0}
          BY ConstFacts DEF TileInv, StateInv
        <5>2. sortLoopMax \div BsKPad \in Nat
          BY <5>1, DivMod
        <5> QED  BY <5>2 DEF SessionPerSort
      <4>2. \A c \in Cores : SortedSessions(c) = SortChunk(c, SessionNum, SessionPerSort, CoreNum)
        BY <3>2 DEF SortedSessions
      <4>3. SessionNum \in Nat \ {0} /\ CoreNum \in Nat \ {0}
        BY ConstFacts
      <4>4. /\ \A c \in 0 .. CoreNum - 1 :
                 SortChunk(c, SessionNum, SessionPerSort, CoreNum) \subseteq 0 .. SessionNum - 1
            /\ \A c, d \in 0 .. CoreNum - 1 :
                 c # d => SortChunk(c, SessionNum, SessionPerSort, CoreNum)
                            \cap SortChunk(d, SessionNum, SessionPerSort, CoreNum) = {}
        BY <4>1, <4>3, SortChunksPart
      <4> QED  BY <4>2, <4>4 DEF Cores, Sessions
    <3> QED  BY <3>1, <3>2
  <2>4. \A s \in Sessions : \E c \in Cores : s \in SortedSessions(c)
    BY AllSorted DEF TileInv
  <2>5. \A z \in Cells : \E c \in Cores : z \in SortedPlaces(c)
    <3> TAKE z \in Cells
    <3>1. z[1] \in Sessions /\ z[2] \in Slots /\ z = <<z[1], z[2]>>
      BY <2>2
    <3>2. PICK c \in Cores : z[1] \in SortedSessions(c)
      BY <2>4, <3>1
    <3>3. z \in SortedPlaces(c)
      BY <2>1, <3>1, <3>2
    <3> QED  BY <3>3
  <2>6. \A c \in Cores : SortedPlaces(c) \subseteq Cells
    BY <2>1, <2>2, <2>3
  <2>7. \A c, d \in Cores : c # d => SortedPlaces(c) \cap SortedPlaces(d) = {}
    BY <2>1, <2>3
  <2> QED  BY <2>5, <2>6, <2>7
<1>2. CASE ~needSchedule
  <2> DEFINE F(c) == ListChunk(c, Len(out) * SlotNum, sortLoopMax, SortAlign, CoreNum)
             Cell(j) == <<j \div SlotNum, j % SlotNum>>
  <2>1. Len(out) \in 0 .. SessionNum /\ SessionNum \in Nat /\ SlotNum \in Nat \ {0}
    BY OutFacts, ConstFacts
  <2>2. /\ sortLoopMax \in {l.sortLoopMax : l \in Launches}
        /\ sortLoopMax \in Nat \ {0} /\ SortAlign \in Nat \ {0} /\ sortLoopMax % SortAlign = 0
    <3>1. LaunchInv
      BY DEF TileInv
    <3>2. PICK l \in Launches : l = [needSchedule |-> needSchedule, sortLoopMax |-> sortLoopMax]
      BY <3>1 DEF LaunchInv
    <3>3. l.sortLoopMax = sortLoopMax /\ l \in [needSchedule: BOOLEAN, sortLoopMax: Nat \ {0}]
          /\ l.sortLoopMax % SortAlign = 0
      BY <3>2, BatchingAssumption
    <3>4. l.sortLoopMax \in Nat \ {0}
      BY <3>3
    <3>5. SortAlign \in Nat \ {0}
      BY BatchingAssumption
    <3> QED  BY <3>2, <3>3, <3>4, <3>5
  <2>3. \A c \in Cores : SortedPlaces(c) = {Cell(j) : j \in F(c)}
    <3> TAKE c \in Cores
    <3>1. ListShares[sortLoopMax][Len(out)][c] = F(c)
      BY <2>1, <2>2 DEF ListShares
    <3> HIDE DEF F
    <3> QED  BY <1>2, <3>1 DEF SortedPlaces
  <2> DEFINE n == Len(out) * SlotNum
  <2>4. n \in Nat /\ Fits(n)
    <3>1. Len(out) * SlotNum <= SessionNum * SlotNum
      BY <2>1, TimesMonotone
    <3>2. Len(out) * SlotNum \in Nat /\ SessionNum * SlotNum \in Nat
      BY <2>1
    <3>3. SessionNum * SlotNum <= LargestPower
      BY BatchingAssumption
    <3> QED  BY <3>1, <3>2, <3>3, FitsBelow
  <2>5. /\ \A c \in Cores : F(c) \subseteq 0 .. n - 1
        /\ \A j \in 0 .. n - 1 : \E c \in Cores : j \in F(c)
        /\ \A c, d \in Cores : c # d => F(c) \cap F(d) = {}
    <3>1. CoreNum \in Nat \ {0}
      BY ConstFacts
    <3> HIDE DEF n
    <3>2. Divided(n, sortLoopMax, SortAlign, CoreNum)
      <4>1. /\ n \in Nat /\ Fits(n) /\ SortAlign \in Nat \ {0} /\ sortLoopMax \in Nat \ {0}
            /\ sortLoopMax % SortAlign = 0 /\ CoreNum \in Nat \ {0}
        BY <2>2, <2>4, <3>1
      <4> QED  BY <4>1, ListChunksPart
    <3> QED  BY <3>2 DEF Divided, Cores, n
  <2> HIDE DEF F
  <2>6. Cells = (0 .. Len(out) - 1) \X (0 .. SlotNum - 1)
    BY <1>2 DEF Cells, Entries, Slots
  <2>7. \A j \in 0 .. n - 1 : /\ j \div SlotNum \in 0 .. Len(out) - 1 /\ j % SlotNum \in 0 .. SlotNum - 1
                              /\ j = SlotNum * (j \div SlotNum) + (j % SlotNum)
    <3> TAKE j \in 0 .. n - 1
    <3>1. j \in Nat /\ j < Len(out) * SlotNum
      BY <2>1
    <3>2. j \div SlotNum \in Nat /\ j % SlotNum \in 0 .. SlotNum - 1 /\ j = SlotNum * (j \div SlotNum) + (j % SlotNum)
      BY <2>1, <3>1, DivMod
    <3> DEFINE q == j \div SlotNum
    <3>3. q < Len(out)
      <4> SUFFICES ASSUME q >= Len(out) PROVE FALSE
        BY <2>1, <3>2
      <4>1. Len(out) * SlotNum <= q * SlotNum
        BY <2>1, <3>2, TimesMonotone
      <4>2. q * SlotNum = SlotNum * q /\ q * SlotNum \in Nat
        BY <2>1, <3>2
      <4> HIDE DEF q
      <4>3. j >= q * SlotNum
        BY <3>2, <4>2, <2>1 DEF q
      <4> QED  BY <2>1, <3>1, <4>1, <4>2, <4>3
    <3> QED  BY <2>1, <3>2, <3>3
  <2>8. \A c \in Cores : SortedPlaces(c) \subseteq Cells
    BY <2>3, <2>5, <2>6, <2>7
  <2>9. ASSUME NEW z \in Cells PROVE \E c \in Cores : z \in SortedPlaces(c)
    <3>1. z[1] \in 0 .. Len(out) - 1 /\ z[2] \in 0 .. SlotNum - 1 /\ z = <<z[1], z[2]>>
      BY <2>6
    <3> DEFINE j == z[1] * SlotNum + z[2]
    <3>2. j \div SlotNum = z[1] /\ j - z[1] * SlotNum = z[2] /\ j \in Nat
      <4>1. z[1] \in Nat
        BY <2>1, <3>1
      <4> QED  BY <2>1, <3>1, <4>1, RowFacts
    <3>3. j \in 0 .. n - 1
      <4>1. z[1] + 1 <= Len(out) /\ z[1] + 1 \in Int /\ Len(out) \in Int
        BY <2>1, <3>1
      <4>2. (z[1] + 1) * SlotNum <= Len(out) * SlotNum
        BY <2>1, <4>1, TimesMonotone
      <4>3. (z[1] + 1) * SlotNum = z[1] * SlotNum + SlotNum /\ z[1] * SlotNum \in Int /\ Len(out) * SlotNum \in Int
        BY <2>1, <3>1
      <4> DEFINE x == z[1] * SlotNum
                 y == Len(out) * SlotNum
      <4>4. x \in Int /\ y \in Int /\ x + SlotNum <= y /\ z[2] \in 0 .. SlotNum - 1
            /\ j = x + z[2] /\ j \in Nat /\ n = y /\ SlotNum \in Nat
        BY <2>1, <3>1, <3>2, <4>2, <4>3
      <4> HIDE DEF x, y, j, n
      <4> QED  BY <4>4
    <3> HIDE DEF j
    <3>4. j % SlotNum = z[2]
      <4>1. j = SlotNum * (j \div SlotNum) + (j % SlotNum) /\ j % SlotNum \in Int
        <5>1. j \in Nat /\ SlotNum \in Nat \ {0}
          BY <2>1, <3>2
        <5>2. j = SlotNum * (j \div SlotNum) + (j % SlotNum) /\ j % SlotNum \in 0 .. SlotNum - 1
          BY <5>1, DivMod
        <5> QED  BY <5>1, <5>2
      <4>2. j = SlotNum * z[1] + (j % SlotNum)
        BY <3>2, <4>1
      <4>3. SlotNum * z[1] = z[1] * SlotNum /\ z[1] * SlotNum \in Int
        BY <2>1, <3>1
      <4> QED  BY <3>1, <3>2, <4>1, <4>2, <4>3
    <3>5. PICK c \in Cores : j \in F(c)
      BY <2>5, <3>3
    <3>6. z = Cell(j)
      BY <3>1, <3>2, <3>4
    <3> QED  BY <2>3, <3>5, <3>6
  <2>10. ASSUME NEW c \in Cores, NEW d \in Cores, c # d, NEW z \in SortedPlaces(c), z \in SortedPlaces(d)
         PROVE  FALSE
    <3>1. PICK i \in F(c) : z = Cell(i)
      BY <2>3
    <3>2. PICK j \in F(d) : z = Cell(j)
      BY <2>3, <2>10
    <3>3. i \div SlotNum = j \div SlotNum /\ i % SlotNum = j % SlotNum /\ i \in 0 .. n - 1 /\ j \in 0 .. n - 1
      BY <2>5, <3>1, <3>2
    <3>4. i = j
      BY <2>7, <3>3
    <3> QED  BY <2>5, <2>10, <3>4
  <2> QED  BY <2>8, <2>9, <2>10
<1> QED  BY <1>1, <1>2

(* The ids that the cores of C have sorted.                                *)
Ids(C) == UNION {Mine(c) : c \in C}

(* The ids that cores have sorted.                                         *)
LEMMA AllFacts ==
  ASSUME TileInv
  PROVE  /\ All \in SUBSET ((0 .. ExpertNum - 1) \X (0 .. SessionNum * BsKPad - 1))
         /\ IsFiniteSet(All) /\ Cardinality(All) \in 0 .. SessionNum * SlotNum
         /\ Ids(Cores) = All
         /\ \A C \in SUBSET Cores : /\ Ids(C) \in SUBSET All /\ IsFiniteSet(Ids(C))
                                    /\ Cardinality(Ids(C)) \in 0 .. SessionNum * SlotNum
         /\ \A c \in Cores : IsFiniteSet(Mine(c)) /\ Cardinality(Mine(c)) \in Nat
         /\ \A C \in SUBSET Cores : \A c \in Cores \ C :
              /\ Ids(C \cup {c}) = Ids(C) \cup Mine(c)
              /\ Cardinality(Ids(C \cup {c})) = Cardinality(Ids(C)) + Cardinality(Mine(c))
<1>1. /\ \E n \in 0 .. SessionNum : Entries = 0 .. n - 1
      /\ Cells \in SUBSET (Nat \X (0 .. RowLen - 1)) /\ IsFiniteSet(Cells)
      /\ Cardinality(Cells) <= SessionNum * SlotNum
      /\ Tokens \in [Cells -> -1 .. ExpertNum - 1]
  BY EntryFacts
<1>2. RowLen \in Nat \ {0} /\ RowLen <= BsKPad
  BY RowLenFacts
<1>3. SessionNum \in Nat \ {0} /\ SlotNum \in Nat \ {0} /\ BsKPad \in Nat \ {0} /\ ExpertNum \in Nat \ {0}
  BY ConstFacts
<1>4. IsFiniteSet(All) /\ Cardinality(All) \in Nat /\ Cardinality(All) <= Cardinality(Cells)
  BY <1>1, <1>2, TokenFacts DEF All
<1>5. Cardinality(All) \in 0 .. SessionNum * SlotNum
  <2>1. Cardinality(Cells) \in Nat
    BY <1>1, FS_CardinalityType
  <2> QED  BY <1>1, <1>3, <1>4, <2>1
<1>6. /\ \A c \in Cores : SortedPlaces(c) \subseteq Cells
      /\ \A z \in Cells : \E c \in Cores : z \in SortedPlaces(c)
      /\ \A c, d \in Cores : c # d => SortedPlaces(c) \cap SortedPlaces(d) = {}
  BY PlacesFacts
<1>7. \A c \in Cores : Mine(c) \subseteq All
  BY <1>6 DEF Mine, All, TokenIds, Used
<1>8. \A x \in All : \E c \in Cores : x \in Mine(c)
  BY <1>6 DEF Mine, All, TokenIds, Used
<1>9. Ids(Cores) = All
  BY <1>7, <1>8 DEF Ids
<1>10. \A C \in SUBSET Cores : Ids(C) \in SUBSET All
  BY <1>7 DEF Ids
<1>11. \A C \in SUBSET Cores : IsFiniteSet(Ids(C)) /\ Cardinality(Ids(C)) \in 0 .. SessionNum * SlotNum
  <2> TAKE C \in SUBSET Cores
  <2>1. IsFiniteSet(Ids(C)) /\ Cardinality(Ids(C)) <= Cardinality(All)
    BY <1>4, <1>10, FS_Subset
  <2>2. Cardinality(Ids(C)) \in Nat
    BY <2>1, FS_CardinalityType
  <2> QED  BY <1>3, <1>5, <2>1, <2>2
<1>12. \A c \in Cores : IsFiniteSet(Mine(c)) /\ Cardinality(Mine(c)) \in Nat
  <2> TAKE c \in Cores
  <2>1. IsFiniteSet(Mine(c))
    BY <1>4, <1>7, FS_Subset
  <2> QED  BY <2>1, FS_CardinalityType
<1>13. \A c, d \in Cores : c # d => Mine(c) \cap Mine(d) = {}
  <2> TAKE c \in Cores, d \in Cores
  <2> HAVE c # d
  <2>1. /\ SortedPlaces(c) \in SUBSET (Nat \X (0 .. RowLen - 1))
        /\ SortedPlaces(d) \in SUBSET (Nat \X (0 .. RowLen - 1))
        /\ SortedPlaces(c) \cap SortedPlaces(d) = {}
    BY <1>1, <1>6
  <2> QED  BY <1>2, <2>1, TokensApart DEF Mine
<1>14. ASSUME NEW C \in SUBSET Cores, NEW c \in Cores \ C
       PROVE  /\ Ids(C \cup {c}) = Ids(C) \cup Mine(c)
              /\ Cardinality(Ids(C \cup {c})) = Cardinality(Ids(C)) + Cardinality(Mine(c))
  <2>1. Ids(C \cup {c}) = Ids(C) \cup Mine(c)
    BY DEF Ids
  <2>2. Ids(C) \cap Mine(c) = {}
    BY <1>13 DEF Ids
  <2>3. Cardinality(Ids(C) \cup Mine(c)) = Cardinality(Ids(C)) + Cardinality(Mine(c)) - Cardinality(Ids(C) \cap Mine(c))
    BY <1>11, <1>12, FS_Union
  <2>4. Cardinality(Ids(C) \cap Mine(c)) = 0
    BY <2>2, FS_EmptySet
  <2>5. Cardinality(Ids(C)) \in Nat /\ Cardinality(Mine(c)) \in Nat
    BY <1>3, <1>11, <1>12
  <2>6. Cardinality(Ids(C) \cup Mine(c)) = Cardinality(Ids(C)) + Cardinality(Mine(c))
    BY <2>3, <2>4, <2>5
  <2> QED  BY <2>1, <2>6
<1>15. All \in SUBSET ((0 .. ExpertNum - 1) \X (0 .. SessionNum * BsKPad - 1))
  <2> SUFFICES ASSUME NEW z \in Cells, Tokens[z] # Invalid
               PROVE  Tokens[z] \in 0 .. ExpertNum - 1 /\ z[1] * RowLen + z[2] \in 0 .. SessionNum * BsKPad - 1
    BY DEF All, TokenIds, Used
  <2>1. Tokens[z] \in 0 .. ExpertNum - 1
    <3>1. Tokens[z] \in -1 .. ExpertNum - 1
      BY <1>1
    <3> QED  BY <3>1, <1>3 DEF Invalid
  <2>2. z[1] \in 0 .. SessionNum - 1 /\ z[2] \in 0 .. RowLen - 1
    <3>1. z[1] \in Entries
      BY DEF Cells
    <3> QED  BY <1>1, <1>3, <3>1
  <2>3. (z[1] + 1) * RowLen <= SessionNum * RowLen
    <3>1. z[1] + 1 \in Int /\ z[1] + 1 <= SessionNum /\ SessionNum \in Int
      BY <1>3, <2>2
    <3> QED  BY <1>2, <3>1, TimesMonotone
  <2>4. RowLen * SessionNum <= BsKPad * SessionNum
    BY <1>2, <1>3, TimesMonotone
  <2>5. /\ (z[1] + 1) * RowLen = z[1] * RowLen + RowLen /\ z[1] * RowLen \in Nat
        /\ RowLen * SessionNum = SessionNum * RowLen /\ BsKPad * SessionNum = SessionNum * BsKPad
        /\ SessionNum * RowLen \in Int /\ SessionNum * BsKPad \in Int
    BY <1>2, <1>3, <2>2
  <2>6. z[1] * RowLen + z[2] \in 0 .. SessionNum * BsKPad - 1
    BY <1>2, <2>2, <2>3, <2>4, <2>5
  <2> QED  BY <2>1, <2>6
<1> QED  BY <1>4, <1>5, <1>9, <1>10, <1>11, <1>12, <1>14, <1>15

----------------------------------------------------------------------------

(* One chunk listed after the other.                                       *)

(* An entry of group_list: an expert and the number of its rows.           *)
Run == Int \X Nat

(* A function on 1 .. n is a sequence.                                     *)
LEMMA FunctionSeq ==
  ASSUME NEW T, NEW n \in Nat, NEW f \in [1 .. n -> T]
  PROVE  f \in Seq(T) /\ Len(f) = n
<1>1. f \in Seq(T)
  BY SeqDef
<1>2. DOMAIN f = 1 .. n
  OBVIOUS
<1>3. Len(f) \in Nat /\ DOMAIN f = 1 .. Len(f)
  BY <1>1, LenProperties
<1>4. Len(f) = n
  <2>1. 1 .. n = 1 .. Len(f)
    BY <1>2, <1>3
  <2>2. \A k \in Nat \ {0} : k <= n <=> k <= Len(f)
    BY <1>3, <2>1
  <2>3. n = 0 \/ n <= Len(f)
    BY <1>3, <2>2
  <2>4. Len(f) = 0 \/ Len(f) <= n
    BY <1>3, <2>2
  <2> QED  BY <1>3, <2>3, <2>4
<1> QED  BY <1>1, <1>4

(* A chunk is listed: groups0 and the open run of expert e with tc rows    *)
(* are the runs of the first m places, own those of the next len.          *)
ListCase(s, m, len, g0, groups0, e, tc, own, r, ended, total, groups1) ==
  /\ m \in Nat /\ len \in Nat \ {0} /\ g0 \in Nat /\ r \in Nat \ {0} /\ tc \in Nat /\ e \in Int
  /\ \A j \in 0 .. m + len - 1 : s[j][1] \in Int
  /\ \A i, j \in 0 .. m + len - 1 : i < j => s[i][1] <= s[j][1]
  /\ groups0 \in [1 .. g0 -> Run]
  /\ e = Invalid => m = 0 /\ tc = 0
  /\ IsRuns(IF e = Invalid THEN groups0 ELSE Append(groups0, <<e, tc>>), s, 0 .. m - 1)
  /\ own \in [1 .. r -> Run] /\ IsRuns(own, s, m .. m + len - 1)
  /\ ended \in BOOLEAN /\ (ended <=> e # Invalid /\ s[m][1] # e)
  /\ total = [own EXCEPT ![1][2] = @ + IF ended THEN 0 ELSE tc]
  /\ groups1 = (IF ended THEN Append(groups0, <<e, tc>>) ELSE groups0) \o Front(total)

(* The chunk's runs, the first of them joined to the open run, follow the  *)
(* listed ones.                                                            *)
LEMMA ListChunkRuns ==
  ASSUME NEW s, NEW m, NEW len, NEW g0, NEW groups0, NEW e, NEW tc, NEW own, NEW r, NEW ended,
         NEW total, NEW groups1,
         ListCase(s, m, len, g0, groups0, e, tc, own, r, ended, total, groups1)
  PROVE  /\ \E n \in Nat : groups1 \in [1 .. n -> Run]
         /\ Last(total)[1] \in Int /\ Last(total)[2] \in Nat
         /\ \E j \in 0 .. m + len - 1 : Last(total)[1] = s[j][1]
         /\ IsRuns(Append(groups1, <<Last(total)[1], Last(total)[2]>>), s, 0 .. m + len - 1)
<1>1. m \in Nat /\ len \in Nat \ {0} /\ g0 \in Nat /\ r \in Nat \ {0} /\ tc \in Nat /\ e \in Int /\ ended \in BOOLEAN
  BY DEF ListCase
<1>2. /\ \A j \in 0 .. m + len - 1 : s[j][1] \in Int
      /\ \A i, j \in 0 .. m + len - 1 : i < j => s[i][1] <= s[j][1]
  BY DEF ListCase
<1>3. groups0 \in [1 .. g0 -> Run] /\ own \in [1 .. r -> Run]
  BY DEF ListCase
<1>4. e = Invalid => m = 0 /\ tc = 0
  BY DEF ListCase
<1> DEFINE G == IF e = Invalid THEN groups0 ELSE Append(groups0, <<e, tc>>)
           g == IF e = Invalid THEN g0 ELSE g0 + 1
           base == IF ended THEN Append(groups0, <<e, tc>>) ELSE groups0
           b == IF ended THEN g0 + 1 ELSE g0
           H == [k \in 1 .. b + r |->
                  IF k <= b THEN G[k]
                  ELSE IF k = b + 1 /\ b # g THEN <<own[1][1], own[1][2] + G[g][2]>>
                  ELSE own[k - b]]
<1>5. IsRuns(G, s, 0 .. m - 1) /\ IsRuns(own, s, m .. m + len - 1)
  BY DEF ListCase
<1>6. ended <=> e # Invalid /\ s[m][1] # e
  BY DEF ListCase
<1>7. total = [own EXCEPT ![1][2] = @ + IF ended THEN 0 ELSE tc]
  BY DEF ListCase
<1>8. groups1 = base \o Front(total)
  BY DEF ListCase
<1>9. groups0 \in Seq(Run) /\ Len(groups0) = g0 /\ <<e, tc>> \in Run
  BY <1>1, <1>3, FunctionSeq DEF Run
<1>10. /\ Append(groups0, <<e, tc>>) \in [1 .. g0 + 1 -> Run]
       /\ Append(groups0, <<e, tc>>) \in Seq(Run) /\ Len(Append(groups0, <<e, tc>>)) = g0 + 1
       /\ \A k \in 1 .. g0 : Append(groups0, <<e, tc>>)[k] = groups0[k]
       /\ Append(groups0, <<e, tc>>)[g0 + 1] = <<e, tc>>
  <2>1. /\ Append(groups0, <<e, tc>>) \in Seq(Run) /\ Len(Append(groups0, <<e, tc>>)) = g0 + 1
        /\ \A k \in 1 .. g0 : Append(groups0, <<e, tc>>)[k] = groups0[k]
        /\ Append(groups0, <<e, tc>>)[g0 + 1] = <<e, tc>>
    BY <1>9, AppendProperties
  <2> QED  BY <2>1, LenProperties
<1>11. G \in [1 .. g -> Run] /\ g \in Nat /\ b \in Nat /\ b \in {g, g - 1}
  <2>1. CASE e = Invalid
    <3>1. G = groups0 /\ g = g0 /\ b = g0
      BY <1>6, <2>1
    <3> HIDE DEF G, g, b
    <3>2. G \in [1 .. g -> Run]
      BY <1>3, <3>1, Zenon
    <3> QED  BY <1>1, <3>1, <3>2
  <2>2. CASE e # Invalid
    <3>1. G = Append(groups0, <<e, tc>>) /\ g = g0 + 1 /\ b \in {g0, g0 + 1}
      BY <2>2
    <3>2. Append(groups0, <<e, tc>>) \in [1 .. g0 + 1 -> Run]
      BY <1>10
    <3> HIDE DEF G, g, b
    <3>3. G \in [1 .. g -> Run]
      BY <3>1, <3>2, Zenon
    <3>4. g \in Nat /\ b \in Nat /\ b \in {g, g - 1}
      BY <1>1, <3>1
    <3> QED  BY <3>3, <3>4
  <2> QED  BY <2>1, <2>2
<1>12. e = Invalid => g = 0 /\ b = 0
  <2> SUFFICES ASSUME e = Invalid, g0 # 0 PROVE FALSE
    BY <1>6
  <2>1. 1 \in DOMAIN groups0 /\ G = groups0 /\ 0 .. m - 1 = {}
    BY <1>1, <1>3, <1>4
  <2> HIDE DEF G
  <2> QED  BY <1>5, <2>1 DEF IsRuns
<1>13. base \in Seq(Run) /\ Len(base) = b /\ \A k \in 1 .. b : base[k] = G[k]
  <2>1. CASE ended
    BY <1>6, <1>10, <2>1
  <2>2. CASE ~ended /\ e = Invalid
    BY <1>9, <2>2
  <2>3. CASE ~ended /\ e # Invalid
    BY <1>9, <1>10, <2>3
  <2> QED  BY <2>1, <2>2, <2>3
<1>14. own[1][1] = s[m][1]
  <2>1. DOMAIN own = 1 .. r /\ 1 \in 1 .. r /\ m \in m .. m + len - 1
    BY <1>1, <1>3
  <2>2. PICK x \in m .. m + len - 1 : s[x][1] = own[1][1]
    BY <1>5, <2>1 DEF IsRuns
  <2>3. PICK k \in 1 .. r : own[k][1] = s[m][1]
    <3> HIDE DEF G
    <3>1. \A j \in m .. m + len - 1 : \E k \in DOMAIN own : own[k][1] = s[j][1]
      BY <1>5 DEF IsRuns
    <3> QED  BY <2>1, <3>1
  <2>4. k # 1 => own[1][1] < own[k][1]
    <3>1. k # 1 => 1 < k
      BY <1>1
    <3> QED  BY <1>5, <2>1, <3>1 DEF IsRuns
  <2>5. m \in 0 .. m + len - 1 /\ x \in 0 .. m + len - 1 /\ (m < x \/ m = x)
    BY <1>1
  <2>6. s[m][1] <= s[x][1] /\ s[m][1] \in Int /\ s[x][1] \in Int
    BY <1>2, <2>5
  <2> QED  BY <2>2, <2>3, <2>4, <2>6
<1>15. b = g <=> ~(g > 0 /\ G[g][1] = own[1][1])
  <2>1. CASE e = Invalid
    BY <1>12, <2>1
  <2>2. CASE e # Invalid
    <3>1. g = g0 + 1 /\ g > 0 /\ G[g] = <<e, tc>>
      BY <1>1, <1>10, <2>2
    <3>2. ended <=> e # own[1][1]
      BY <1>6, <1>14, <2>2
    <3> HIDE DEF G, g
    <3>3. G[g][1] = e
      BY <3>1
    <3>4. b = g <=> ended
      BY <1>1, <3>1
    <3> QED  BY <3>1, <3>2, <3>3, <3>4
  <2> QED  BY <2>1, <2>2
<1>16. H \in [1 .. b + r -> Run] /\ IsRuns(H, s, 0 .. m + len - 1)
  <2>1. JoinCase(s, m, len, g, G, r, own, b, H)
    <3> HIDE DEF G, g, b
    <3> QED  BY <1>1, <1>2, <1>3, <1>5, <1>11, <1>15 DEF JoinCase, Run
  <2> HIDE DEF G, g, b, H
  <2> QED  BY <2>1, JoinRuns DEF Run
<1>17. /\ total \in [1 .. r -> Run]
       /\ \A i \in 1 .. r : total[i] = H[b + i]
  <2>1. \A i \in 1 .. r : own[i] \in Run /\ own[i] = <<own[i][1], own[i][2]>> /\ own[i][1] \in Int /\ own[i][2] \in Nat
    BY <1>3 DEF Run
  <2> DEFINE x == IF ended THEN 0 ELSE tc
  <2>2. x \in Nat
    BY <1>1
  <2>3. DOMAIN own = 1 .. r /\ 1 \in 1 .. r
    BY <1>1, <1>3
  <2>4. /\ total[1] = [own[1] EXCEPT ![2] = own[1][2] + x]
        /\ \A i \in 1 .. r : i # 1 => total[i] = own[i]
        /\ DOMAIN total = 1 .. r
    BY <1>7, <2>3
  <2>5. total[1] = <<own[1][1], own[1][2] + x>>
    <3>1. \A u, v, w : [<<u, v>> EXCEPT ![2] = w] = <<u, w>>
      OBVIOUS
    <3> HIDE DEF x
    <3> QED  BY <2>1, <2>3, <2>4, <3>1
  <2>6. total = [i \in 1 .. r |-> IF i = 1 THEN <<own[1][1], own[1][2] + x>> ELSE own[i]]
    <3>1. total = [i \in 1 .. r |-> total[i]]
      BY <1>7, <2>3
    <3> HIDE DEF x
    <3> QED  BY <2>4, <2>5, <3>1
  <2>7. total \in [1 .. r -> Run]
    <3> HIDE DEF x
    <3>1. \A i \in 1 .. r : (IF i = 1 THEN <<own[1][1], own[1][2] + x>> ELSE own[i]) \in Run
      <4> TAKE i \in 1 .. r
      <4>1. <<own[1][1], own[1][2] + x>> \in Run
        <5>1. own[1][2] + x \in Nat /\ own[1][1] \in Int
          BY <2>1, <2>2, <2>3
        <5> QED  BY <5>1 DEF Run
      <4> QED  BY <2>1, <4>1
    <3> QED  BY <2>6, <3>1
  <2>8. \A i \in 1 .. r : b + i \in 1 .. b + r /\ ~(b + i <= b) /\ (b + i) - b = i /\ (b + i = b + 1 <=> i = 1)
    <3> HIDE DEF b
    <3> QED  BY <1>1, <1>11
  <2>9. \A i \in 1 .. r : H[b + i] = IF i = 1 /\ b # g THEN <<own[1][1], own[1][2] + G[g][2]>> ELSE own[i]
    <3> HIDE DEF b, G, g
    <3> TAKE i \in 1 .. r
    <3>1. b + i \in 1 .. b + r /\ ~(b + i <= b) /\ (b + i) - b = i /\ (b + i = b + 1 <=> i = 1)
      BY <2>8
    <3> HIDE <2>8
    <3> QED  BY <3>1
  <2>10. b # g => x = G[g][2]
    <3> SUFFICES ASSUME b # g PROVE x = G[g][2]
      OBVIOUS
    <3>1. e # Invalid /\ ~ended
      BY <1>1, <1>12
    <3>2. G[g] = <<e, tc>>
      BY <1>10, <3>1
    <3> HIDE DEF G, g
    <3> QED  BY <3>1, <3>2
  <2>11. b = g => x = 0
    <3> SUFFICES ASSUME b = g PROVE x = 0
      OBVIOUS
    <3>1. ended \/ e = Invalid
      BY <1>1
    <3> QED  BY <1>4, <3>1
  <2>12. \A i \in 1 .. r : total[i] = H[b + i]
    <3> HIDE DEF b, g, G, H, x
    <3> TAKE i \in 1 .. r
    <3>1. CASE i = 1
      <4>1. own[1] = <<own[1][1], own[1][2]>> /\ own[1][2] \in Nat
        BY <2>1, <2>3
      <4>2. CASE b # g
        BY <2>5, <2>9, <2>10, <3>1, <4>2
      <4>3. CASE b = g
        <5>1. total[1] = <<own[1][1], own[1][2] + 0>>
          BY <2>5, <2>11, <4>3
        <5>2. own[1][2] + 0 = own[1][2]
          BY <4>1
        <5> QED  BY <2>9, <3>1, <4>1, <4>3, <5>1, <5>2
      <4> QED  BY <4>2, <4>3
    <3>2. CASE i # 1
      BY <2>4, <2>9, <3>2
    <3> QED  BY <3>1, <3>2
  <2> QED  BY <2>7, <2>12
<1>18. total \in Seq(Run) /\ Len(total) = r
  BY <1>1, <1>17, FunctionSeq
<1>19. /\ Front(total) \in Seq(Run) /\ Len(Front(total)) = r - 1
       /\ \A i \in 1 .. r - 1 : Front(total)[i] = total[i]
  <2>1. \A i \in 1 .. r - 1 : total[i] \in Run
    BY <1>1, <1>17
  <2>2. 1 \in Int /\ r - 1 \in Int
    BY <1>1
  <2>3. /\ SubSeq(total, 1, r - 1) \in Seq(Run)
        /\ Len(SubSeq(total, 1, r - 1)) = IF 1 <= r - 1 THEN r - 1 - 1 + 1 ELSE 0
        /\ \A i \in 1 .. r - 1 - 1 + 1 : SubSeq(total, 1, r - 1)[i] = total[1 + i - 1]
    BY <2>1, <2>2, SubSeqProperties
  <2>4. r - 1 - 1 + 1 = r - 1 /\ (1 <= r - 1 \/ r - 1 = 0) /\ \A i \in 1 .. r - 1 : 1 + i - 1 = i
    BY <1>1
  <2>5. Front(total) = SubSeq(total, 1, r - 1)
    BY <1>18 DEF Front
  <2> QED  BY <2>3, <2>4, <2>5
<1>20. Last(total) = total[r] /\ total[r] \in Run /\ total[r] = <<total[r][1], total[r][2]>>
  <2>1. r \in 1 .. r
    BY <1>1
  <2>2. total[r] \in Run
    BY <1>17, <2>1
  <2> QED  BY <1>18, <2>2 DEF Last, Run
<1> HIDE DEF base, b, g, G, H
<1>21. /\ groups1 \in Seq(Run) /\ Len(groups1) = b + (r - 1)
       /\ \A i \in 1 .. b + (r - 1) : groups1[i] = IF i <= b THEN base[i] ELSE Front(total)[i - b]
  BY <1>8, <1>13, <1>19, ConcatProperties
<1> DEFINE A == Append(groups1, total[r])
<1>22. /\ A \in Seq(Run) /\ Len(A) = b + (r - 1) + 1
       /\ \A i \in 1 .. b + (r - 1) : A[i] = groups1[i]
       /\ A[b + (r - 1) + 1] = total[r]
  BY <1>20, <1>21, AppendProperties
<1> HIDE DEF A
<1>23. b + (r - 1) + 1 = b + r /\ b + r \in Nat /\ b + (r - 1) \in Nat
  BY <1>1, <1>11
<1>24. A \in [1 .. b + r -> Run]
  BY <1>22, <1>23, LenProperties
<1>25. \A k \in 1 .. b + r : A[k] = H[k]
  <2> TAKE k \in 1 .. b + r
  <2>1. CASE k <= b
    <3>1. k \in 1 .. b /\ k \in 1 .. b + (r - 1)
      BY <1>1, <1>11, <2>1
    <3>2. A[k] = G[k]
      BY <1>13, <1>21, <1>22, <2>1, <3>1
    <3> QED  BY <2>1, <3>2 DEF H
  <2>2. CASE k > b /\ k < b + r
    <3>1. k - b \in 1 .. r - 1 /\ k - b \in 1 .. r /\ k \in 1 .. b + (r - 1) /\ b + (k - b) = k /\ ~(k <= b)
      BY <1>1, <1>11, <2>2
    <3>2. A[k] = total[k - b]
      BY <1>19, <1>21, <1>22, <3>1
    <3> QED  BY <1>17, <3>1, <3>2
  <2>3. CASE k = b + r
    <3>1. r \in 1 .. r
      BY <1>1
    <3> QED  BY <1>17, <1>22, <1>23, <2>3, <3>1
  <2>4. k <= b \/ (k > b /\ k < b + r) \/ k = b + r
    BY <1>1, <1>11
  <2> QED  BY <2>1, <2>2, <2>3, <2>4
<1>26. A = H
  <2>1. H \in [1 .. b + r -> Run]
    BY <1>16
  <2>2. A = [k \in 1 .. b + r |-> A[k]] /\ H = [k \in 1 .. b + r |-> H[k]]
    BY <1>24, <2>1
  <2> DEFINE D == 1 .. b + r
  <2>3. A = [k \in D |-> A[k]] /\ H = [k \in D |-> H[k]] /\ \A k \in D : A[k] = H[k]
    BY <1>25, <2>2
  <2> HIDE DEF D
  <2> QED  BY <2>3, Zenon
<1>27. \E n \in Nat : groups1 \in [1 .. n -> Run]
  BY <1>21, <1>23, LenProperties
<1>28. \E j \in 0 .. m + len - 1 : total[r][1] = s[j][1]
  <2>1. b + r \in DOMAIN H /\ total[r] = H[b + r]
    <3>1. r \in 1 .. r /\ b + r \in 1 .. b + r
      BY <1>1, <1>11
    <3> QED  BY <1>16, <1>17, <3>1
  <2> QED  BY <1>16, <2>1 DEF IsRuns
<1>29. IsRuns(Append(groups1, <<Last(total)[1], Last(total)[2]>>), s, 0 .. m + len - 1)
  BY <1>16, <1>20, <1>26 DEF A
<1>30. Last(total)[1] \in Int /\ Last(total)[2] \in Nat
  BY <1>20 DEF Run
<1> QED  BY <1>20, <1>27, <1>28, <1>29, <1>30

----------------------------------------------------------------------------

(* The invariant of a launch: what the cores have written is what the      *)
(* sessions sent.                                                          *)

(* The places between two barriers.                                        *)
Stage2 == {"start", "scan", "scanned"}
Stage3 == {"sort", "wiped"}
Stage4 == {"drop", "merged"}
Stage5 == {"out", "done"}
Stage6 == {"list", "end"}
Late   == Stage5 \cup Stage6

(* Where a core has done its part behind the last barrier but one.         *)
Over   == {"done", "list", "end"}

(* What the gathering owes the output at a row of the launch.              *)
Target(row) ==
  [session |-> PairAt[SessionOf(row)][1], microBatch |-> PairAt[SessionOf(row)][2],
   slot |-> SlotOf(row), round |-> Rounds[SessionOf(row)]]

(* The cores that have sorted.                                             *)
Wiped == {c \in Cores : pc[c] = "wiped"}

(* No id is counted yet.                                                   *)
NoCount == [e \in 0 .. ExpertNum - 1 |-> 0]

(* A session's data are those of its last round.                           *)
DataInv == data = [p \in Pairs |-> sent[p] - 1] /\ \A p \in Pairs : sent[p] <= RoundBound

(* The buffers have place for every id of the window.                      *)
BufInv ==
  /\ count \in 0 .. SessionNum * SlotNum
  /\ sorted \in [0 .. SessionNum * SlotNum - 1 ->
                   (-1 .. ExpertNum - 1) \X (0 .. SessionNum * BsKPad - 1)]
  /\ tally \in [0 .. ExpertNum - 1 -> 0 .. SessionNum * SlotNum]
  /\ DOMAIN rows = 0 .. SessionNum * SlotNum - 1

(* The last stage belongs to the launch without a scan.                    *)
EndInv == needSchedule => pc[0] \notin Stage6

(* Every core that has sorted has exactly its share of what the sessions   *)
(* have sent, and the others' share is still there for them.               *)
SortInv ==
  /\ pc[0] \in {"idle"} \cup Stage2 => part = [c \in Cores |-> {}]
  /\ pc[0] \in {"scan", "scanned"} => count = 0
  /\ pc[0] \in Stage3 =>
       /\ part = [c \in Cores |-> IF c \in Wiped THEN Mine(c) ELSE {}]
       /\ count = Cardinality(Ids(Wiped))
       /\ needSchedule => \A c \in Cores : pc[c] = "sort" =>
            \A a \in SortedSessions(c) : ids[<<a, mbId[0]>>] = want[<<a, mbId[0]>>]
  /\ pc[0] \in Stage4 => part = [c \in Cores |-> Mine(c)]
  /\ pc[0] \in Stage4 \cup Late => count = Cardinality(All)

(* The merged list is the sorted list of all ids.                          *)
MergeInv ==
  pc[0] \in {"merged"} \cup Late => \A j \in 0 .. count - 1 : sorted[j] = Merged(All)[j + 1]

(* A core that has gathered has written its rows.                          *)
GatherInv ==
  pc[0] \in Late =>
    \A c \in Cores : c < GatherCores /\ pc[c] \in Over =>
      \A j \in CeilChunk(c, count, GatherCores) : rows[j] = Target(sorted[j][2])

(* The places that the listing cores have counted.                         *)
Counted == UNION {CountedBy(c) : c \in {d \in Cores : d >= GatherCores /\ pc[d] \in Over}}

(* Their counts are those of the experts at these places.                  *)
TallyInv ==
  /\ pc[0] \in {"scan", "scanned"} \cup Stage3 \cup Stage4 => tally = NoCount
  /\ pc[0] \in Late /\ MultiList =>
       tally = [e \in 0 .. ExpertNum - 1 |-> Cardinality({j \in Counted : sorted[j][1] = e})]

(* The places that the one listing core has been through, and the runs it  *)
(* knows of, the open one last.                                            *)
Listed == IF openRun.loop * PerLoopRows <= count THEN openRun.loop * PerLoopRows ELSE count

Opened == IF openRun.lastExpertId = Invalid THEN groups
          ELSE Append(groups, <<openRun.lastExpertId, openRun.tokenCount>>)

(* They are the runs of these places.                                      *)
OpenInv ==
  /\ openRun.loop \in Nat /\ openRun.tokenCount \in Nat /\ openRun.lastExpertId \in Int
  /\ openRun.lastExpertId = Invalid => openRun.loop = 0 /\ openRun.tokenCount = 0
  /\ IsRuns(Opened, sorted, 0 .. Listed - 1)

(* group_list holds the runs of the whole list; of an empty list it has    *)
(* one group, without a row.                                               *)
AllListed ==
  \/ IsRuns(groups, sorted, 0 .. count - 1)
  \/ count = 0 /\ \E e \in -1 .. ExpertNum - 1 : groups = <<<<e, 0>>>>

(* What the last core has listed, stage by stage.                          *)
GroupInv ==
  /\ \E n \in Nat : groups \in [1 .. n -> Run]
  /\ pc[LastCoreId] \notin Late => groups = <<>>
  /\ ~needSchedule \/ pc[LastCoreId] # "out" => openRun = NoRun
  /\ pc[LastCoreId] = "out" => IF needSchedule THEN OpenInv ELSE groups = <<>>
  /\ pc[LastCoreId] \in {"done", "list"} /\ MultiList => groups = <<>>
  /\ pc[LastCoreId] \in {"done", "list"} /\ ~MultiList => AllListed
  /\ pc[LastCoreId] = "end" => AllListed

(* What the launch has done so far is right.                               *)
WorkInv == /\ LaunchInv /\ OutInv /\ DataInv /\ BufInv /\ EndInv /\ SortInv /\ MergeInv
           /\ GatherInv /\ TallyInv /\ GroupInv

(* The inductive invariant: the rounds of the window, and the work of the  *)
(* launch.                                                                 *)
FInv == IInv /\ WorkInv

(* The facts about a launch hold in every state.                           *)
LEMMA TileKept == FInv => TileInv
  BY DEF FInv, WorkInv, IInv, TileInv, ListInv

(* If one core is in a stage, all are.                                     *)
LEMMA OneStage ==
  ASSUME FInv
  PROVE  /\ pc \in [Cores -> Places] /\ 0 \in Cores /\ LastCoreId \in Cores /\ LastCoreId # 0
         /\ \A c \in Cores : /\ pc[c] = "idle" <=> pc[0] = "idle"
                             /\ pc[c] \in Stage2 <=> pc[0] \in Stage2
                             /\ pc[c] \in Stage3 <=> pc[0] \in Stage3
                             /\ pc[c] \in Stage4 <=> pc[0] \in Stage4
                             /\ pc[c] \in Stage5 <=> pc[0] \in Stage5
                             /\ pc[c] \in Stage6 <=> pc[0] \in Stage6
                             /\ pc[c] \in Late <=> pc[0] \in Late
<1>1. pc \in [Cores -> Places] /\ 0 \in Cores /\ LastCoreId \in Cores /\ LastCoreId # 0
  BY ConstFacts DEF FInv, IInv, StateInv
<1>2. PICK stage \in Stages : \A c \in Cores : pc[c] \in stage
  BY DEF FInv, IInv, StageInv
<1>3. \A c \in Cores : /\ pc[c] = "idle" <=> pc[0] = "idle"
                       /\ pc[c] \in Stage2 <=> pc[0] \in Stage2
                       /\ pc[c] \in Stage3 <=> pc[0] \in Stage3
                       /\ pc[c] \in Stage4 <=> pc[0] \in Stage4
                       /\ pc[c] \in Stage5 <=> pc[0] \in Stage5
                       /\ pc[c] \in Stage6 <=> pc[0] \in Stage6
  <2> TAKE c \in Cores
  <2>1. pc[c] \in stage /\ pc[0] \in stage
    BY <1>1, <1>2
  <2> QED  BY <2>1 DEF Stages, Stage2, Stage3, Stage4, Stage5, Stage6
<1> QED  BY <1>1, <1>3 DEF Late

(* What the operators of a launch depend on.                               *)
LEMMA ViewKept ==
  ASSUME TileInv, UNCHANGED <<needSchedule, sortLoopMax, out>>, mbId'[0] = mbId[0],
         \A p \in Taken : want'[p] = want[p] /\ sent'[p] = sent[p]
  PROVE  /\ All' = All
         /\ \A c \in Cores : SortedSessions(c)' = SortedSessions(c) /\ Mine(c)' = Mine(c)
         /\ \A C \in SUBSET Cores : Ids(C)' = Ids(C)
         /\ \A row : Target(row)' = Target(row)
<1>1. Entries' = Entries /\ Cells' = Cells
  BY DEF Entries, Cells
<1>2. PairAt' = PairAt
  BY <1>1 DEF PairAt
<1>3. \A a \in Entries : PairAt[a] \in Taken
  BY PairFacts
<1>4. Tokens' = Tokens
  <2>1. \A z \in Cells : z[1] \in Entries
    BY DEF Cells
  <2> HIDE DEF Cells
  <2>2. \A z \in Cells : want'[PairAt[z[1]]][z[2]] = want[PairAt[z[1]]][z[2]]
    BY <1>3, <2>1
  <2> QED  BY <1>1, <1>2, <2>2 DEF Tokens
<1>5. Rounds' = Rounds
  BY <1>1, <1>2, <1>3 DEF Rounds
<1>6. RowLen' = RowLen /\ (OneCoreSort <=> OneCoreSort')
  BY DEF RowLen, OneCoreSort
<1>7. \A c \in Cores : SortedSessions(c)' = SortedSessions(c)
  BY <1>6 DEF SortedSessions, SessionPerSort
<1>8. \A c \in Cores : SortedPlaces(c)' = SortedPlaces(c)
  BY <1>7 DEF SortedPlaces
<1>9. All' = All
  BY <1>1, <1>4, <1>6 DEF All
<1>10. \A c \in Cores : Mine(c)' = Mine(c)
  BY <1>4, <1>6, <1>8 DEF Mine
<1>12. ASSUME NEW C \in SUBSET Cores PROVE Ids(C)' = Ids(C)
  <2>1. {Mine(c)' : c \in C} = {Mine(c) : c \in C}
    BY <1>10, <1>12
  <2> QED  BY <2>1 DEF Ids
<1>13. \A row : Target(row)' = Target(row)
  BY <1>2, <1>5, <1>6 DEF Target, SessionOf, SlotOf
<1> QED  BY <1>7, <1>9, <1>10, <1>12, <1>13

----------------------------------------------------------------------------

(* Every step keeps it.                                                    *)

(* Where the launch reads what it has taken.                               *)
Working == pc[0] \in Stage3 \cup Stage4 \cup Late

(* Whoever works: what the cores have written stays right while the launch *)
(* stays what it is.                                                       *)
LEMMA FrameKept ==
  ASSUME FInv, UNCHANGED <<tiling, out, pc, work, output>>, DataInv',
         Working => /\ mbId'[0] = mbId[0]
                    /\ \A p \in Taken : want'[p] = want[p] /\ sent'[p] = sent[p] /\ ids'[p] = ids[p]
  PROVE  WorkInv'
<1>1. /\ needSchedule' = needSchedule /\ sortLoopMax' = sortLoopMax /\ out' = out /\ pc' = pc
      /\ count' = count /\ part' = part /\ sorted' = sorted /\ tally' = tally
      /\ rows' = rows /\ groups' = groups /\ openRun' = openRun
  BY DEF tiling, work, output
<1>2. LaunchInv' /\ OutInv' /\ BufInv' /\ EndInv'
  BY <1>1 DEF FInv, WorkInv, LaunchInv, OutInv, BufInv, EndInv
<1>3. MultiList' = MultiList /\ GatherCores' = GatherCores
  BY <1>1 DEF MultiList, GatherCores
<1>4. Counted' = Counted
  BY <1>1, <1>3 DEF Counted, CountedBy
<1>5. TallyInv'
  BY <1>1, <1>3, <1>4 DEF FInv, WorkInv, TallyInv
<1>6. Opened' = Opened /\ Listed' = Listed
  BY <1>1 DEF Opened, Listed
<1>7. OpenInv' = OpenInv /\ AllListed' = AllListed
  BY <1>1, <1>6 DEF OpenInv, AllListed, IsRuns
<1>8. GroupInv'
  BY <1>1, <1>3, <1>7 DEF FInv, WorkInv, GroupInv
<1>9. CASE ~Working
  <2>1. SortInv' /\ MergeInv' /\ GatherInv'
    BY <1>1, <1>9 DEF FInv, WorkInv, SortInv, MergeInv, GatherInv, Working, Stage4
  <2> QED  BY <1>2, <1>5, <1>8, <2>1 DEF WorkInv
<1>10. CASE Working
  <2>1. /\ All' = All
        /\ \A c \in Cores : SortedSessions(c)' = SortedSessions(c) /\ Mine(c)' = Mine(c)
        /\ \A C \in SUBSET Cores : Ids(C)' = Ids(C)
        /\ \A row : Target(row)' = Target(row)
    BY <1>1, <1>10, TileKept, ViewKept
  <2>2. Wiped' = Wiped /\ Wiped \in SUBSET Cores
    BY <1>1 DEF Wiped
  <2>3. SortInv'
    <3>1. Cardinality(Ids(Wiped))' = Cardinality(Ids(Wiped))
      <4>1. Ids(Wiped)' = Ids(Wiped)
        BY <2>1, <2>2
      <4> QED  BY <4>1
    <3>2. ASSUME needSchedule, pc[0] \in Stage3, NEW c \in Cores, pc[c] = "sort", NEW a \in SortedSessions(c)
          PROVE  ids'[<<a, mbId'[0]>>] = want'[<<a, mbId'[0]>>]
      <4>1. ids[<<a, mbId[0]>>] = want[<<a, mbId[0]>>]
        BY <3>2 DEF FInv, WorkInv, SortInv
      <4>2. <<a, mbId[0]>> \in Taken
        <5>1. a \in Sessions
          <6>1. SortedPlaces(c) \subseteq Cells
            BY TileKept, PlacesFacts
          <6>2. 0 \in Slots
            BY ConstFacts DEF Slots
          <6>3. <<a, 0>> \in SortedPlaces(c)
            BY <3>2, <6>2 DEF SortedPlaces
          <6> QED  BY <3>2, <6>1, <6>3 DEF Cells, Entries
        <5>2. mbId[0] \in MicroBatches
          BY ConstFacts DEF FInv, IInv, StateInv
        <5> QED  BY <3>2, <5>1, <5>2 DEF Taken, Pairs
      <4> QED  BY <1>10, <4>1, <4>2
    <3> QED  BY <1>1, <2>1, <2>2, <3>1, <3>2 DEF FInv, WorkInv, SortInv
  <2>4. MergeInv'
    BY <1>1, <2>1 DEF FInv, WorkInv, MergeInv
  <2>5. GatherInv'
    BY <1>1, <1>3, <2>1 DEF FInv, WorkInv, GatherInv
  <2> QED  BY <1>2, <1>5, <1>8, <2>3, <2>4, <2>5 DEF WorkInv
<1> QED  BY <1>9, <1>10

(* Before the sort there is nothing but what the launch before has left.   *)
LEMMA EarlyKept ==
  ASSUME FInv, tiling' = tiling, OutInv', part' = part, sorted' = sorted, output' = output,
         UNCHANGED <<data, sent>>,
         pc[0] \in {"idle"} \cup Stage2, \A c \in Cores : pc'[c] \in Stage2,
         (count' = count /\ tally' = tally) \/ (count' = 0 /\ tally' = NoCount),
         pc'[0] \in {"scan", "scanned"} => count' = 0 /\ tally' = NoCount
  PROVE  WorkInv'
<1>1. /\ needSchedule' = needSchedule /\ sortLoopMax' = sortLoopMax
      /\ rows' = rows /\ groups' = groups /\ openRun' = openRun
  BY DEF tiling, output
<1>2. 0 \in Cores /\ LastCoreId \in Cores
  BY ConstFacts
<1>3. /\ pc'[0] \in Stage2 /\ pc'[0] # "idle" /\ pc'[0] \notin Stage3 /\ pc'[0] \notin Stage4 /\ pc'[0] \notin Late
      /\ pc'[0] # "merged" /\ pc'[0] \notin Stage6
      /\ pc'[LastCoreId] \notin Late /\ pc'[LastCoreId] \notin {"out", "done", "list", "end"}
  BY <1>2 DEF Stage2, Stage3, Stage4, Stage5, Stage6, Late
<1>4. LaunchInv' /\ EndInv' /\ DataInv'
  BY <1>1, <1>3 DEF FInv, WorkInv, LaunchInv, EndInv, DataInv, RoundBound
<1>5. BufInv'
  <2>1. SessionNum * SlotNum \in Nat
    BY ConstFacts
  <2>2. NoCount \in [0 .. ExpertNum - 1 -> 0 .. SessionNum * SlotNum] /\ 0 \in 0 .. SessionNum * SlotNum
    BY <2>1 DEF NoCount
  <2> QED  BY <1>1, <2>2 DEF FInv, WorkInv, BufInv
<1>6. part' = [c \in Cores |-> {}]
  BY DEF FInv, WorkInv, SortInv
<1>7. SortInv' /\ MergeInv' /\ GatherInv' /\ TallyInv'
  BY <1>3, <1>6 DEF SortInv, MergeInv, GatherInv, TallyInv
<1>8. GroupInv'
  <2>1. pc[LastCoreId] \notin Late
    <3>1. pc[0] \notin Late
      BY DEF Stage2, Late, Stage5, Stage6
    <3> QED  BY <1>2, <3>1, OneStage
  <2>2. groups = <<>> /\ openRun = NoRun /\ \E n \in Nat : groups \in [1 .. n -> Run]
    BY <2>1 DEF FInv, WorkInv, GroupInv, Late, Stage5
  <2> QED  BY <1>1, <1>3, <2>2 DEF GroupInv
<1> QED  BY <1>4, <1>5, <1>7, <1>8 DEF WorkInv

(* An attention node sends a round: it is none of the launch.              *)
LEMMA WorkSend ==
  ASSUME FInv, NEW s \in Sessions, NEW m \in MicroBatches, Send(s, m)
  PROVE  WorkInv'
<1> DEFINE p == <<s, m>>
<1>1. p \in Pairs /\ sent[p] = answered[p] /\ sent[p] < RoundBound
  BY DEF Pairs, Send, MaySend
<1>2. /\ data' = [data EXCEPT ![p] = sent[p]] /\ sent' = [sent EXCEPT ![p] = @ + 1]
      /\ UNCHANGED <<tiling, out, pc, mbId, work, output>>
      /\ \A q \in Pairs : q # p => want'[q] = want[q] /\ ids'[q] = ids[q]
  <2>1. /\ want \in [Pairs -> IdRow] /\ ids \in [Pairs -> IdRow]
    BY DEF FInv, IInv, StateInv
  <2>2. PICK w \in Workloads[s] :
          /\ want' = [want EXCEPT ![p] = w]
          /\ ids' = [ids EXCEPT ![p] = [i \in Slots |-> IF w[i] # Invalid THEN w[i] ELSE @[i]]]
    BY DEF Send
  <2>3. data' = [data EXCEPT ![p] = sent[p]] /\ sent' = [sent EXCEPT ![p] = @ + 1]
        /\ UNCHANGED <<tiling, context, cores, work, output>>
    BY DEF Send
  <2>4. UNCHANGED <<out, pc, mbId>>
    BY <2>3 DEF context, cores
  <2> HIDE DEF p
  <2>5. \A q \in Pairs : q # p => want'[q] = want[q] /\ ids'[q] = ids[q]
    BY <2>1, <2>2
  <2> QED  BY <2>3, <2>4, <2>5
<1> HIDE DEF p
<1>3. sent \in [Pairs -> Nat] /\ data = [q \in Pairs |-> sent[q] - 1] /\ \A q \in Pairs : sent[q] <= RoundBound
  BY DEF FInv, WorkInv, IInv, StateInv, DataInv
<1>4. RoundBound \in Nat /\ RoundBound' = RoundBound
  BY <1>2, BatchingAssumption DEF RoundBound, tiling
<1>5. DataInv'
  <2>1. \A q \in Pairs : sent'[q] = IF q = p THEN sent[p] + 1 ELSE sent[q]
    BY <1>2, <1>3
  <2>2. \A q \in Pairs : sent'[q] <= RoundBound
    BY <1>1, <1>3, <1>4, <2>1
  <2>3. data' = [q \in Pairs |-> sent'[q] - 1]
    <3>1. data' = [q \in Pairs |-> IF q = p THEN sent[p] ELSE sent[q] - 1]
      BY <1>2, <1>3
    <3>2. sent[p] \in Nat /\ (sent[p] + 1) - 1 = sent[p]
      BY <1>1, <1>3
    <3>3. \A q \in Pairs : sent'[q] - 1 = IF q = p THEN sent[p] ELSE sent[q] - 1
      BY <2>1, <3>2
    <3> QED  BY <3>1, <3>3
  <2> QED  BY <1>4, <2>2, <2>3 DEF DataInv
<1>6. Working => p \notin Taken
  <2> SUFFICES ASSUME Working PROVE p \notin Taken
    OBVIOUS
  <2>1. ~InHand(p)
    BY <1>1 DEF FInv, IInv, RoundInv
  <2>2. needSchedule => pc[0] \in Busy
    BY DEF FInv, WorkInv, EndInv, Working, Stage3, Stage4, Stage5, Late, Busy
  <2> QED  BY <2>1, <2>2 DEF InHand
<1>7. Taken \subseteq Pairs
  BY TileKept, PairFacts
<1>8. Working => /\ mbId'[0] = mbId[0]
                 /\ \A q \in Taken : want'[q] = want[q] /\ sent'[q] = sent[q] /\ ids'[q] = ids[q]
  BY <1>2, <1>3, <1>6, <1>7
<1> QED  BY <1>2, <1>5, <1>8, FrameKept

(* Nothing changes.                                                        *)
LEMMA WorkStill ==
  ASSUME FInv, UNCHANGED vars
  PROVE  WorkInv'
<1>1. /\ UNCHANGED <<tiling, out, pc, work, output>>
      /\ data' = data /\ sent' = sent /\ want' = want /\ ids' = ids /\ mbId' = mbId
      /\ needSchedule' = needSchedule
  BY DEF vars, window, context, cores, attn, tiling
<1>2. DataInv'
  BY <1>1 DEF FInv, WorkInv, DataInv, RoundBound
<1> QED  BY <1>1, <1>2, FrameKept

(* A launch begins: there is nothing sorted, counted or listed yet.        *)
LEMMA WorkLaunch ==
  ASSUME FInv, Launch
  PROVE  WorkInv'
<1>1. /\ pc[0] = "idle" /\ tiling' = tiling /\ out' = out /\ data' = data /\ sent' = sent
      /\ part' = part /\ sorted' = sorted /\ output' = output /\ count' = count /\ tally' = tally
      /\ \A c \in Cores : pc'[c] = "start"
  BY ConstFacts DEF Launch, StartCores, AllAt, work, window, attn
<1>2. OutInv'
  BY <1>1 DEF FInv, WorkInv, OutInv
<1>3. pc'[0] = "start" /\ \A c \in Cores : pc'[c] \in Stage2
  BY <1>1, ConstFacts DEF Stage2
<1> QED  BY <1>1, <1>2, <1>3, EarlyKept

(* The scheduler hands a list over, in the order of the sessions.          *)
LEMMA WorkSchedule ==
  ASSUME FInv, NEW taken \in SUBSET Pairs, Schedule(taken)
  PROVE  WorkInv'
<1>1. /\ pc[0] = "idle" /\ tiling' = tiling /\ data' = data /\ sent' = sent
      /\ part' = part /\ sorted' = sorted /\ output' = output /\ count' = count /\ tally' = tally
      /\ \A c \in Cores : pc'[c] = "start"
  BY ConstFacts DEF Schedule, StartCores, AllAt, work, attn
<1>2. OutInv'
  BY ScheduledList DEF FInv, IInv, OutInv
<1>3. pc'[0] = "start" /\ \A c \in Cores : pc'[c] \in Stage2
  BY <1>1, ConstFacts DEF Stage2
<1> QED  BY <1>1, <1>2, <1>3, EarlyKept

(* A core reads which micro-batch to wait for.                             *)
LEMMA WorkReadContext ==
  ASSUME FInv, NEW c \in Cores, ReadContext(c)
  PROVE  WorkInv'
<1>1. /\ pc[c] = "start" /\ tiling' = tiling /\ out' = out /\ data' = data /\ sent' = sent
      /\ part' = part /\ sorted' = sorted /\ output' = output
      /\ pc' = [pc EXCEPT ![c] = AfterContext(c)]
      /\ count' = IF c = 0 THEN 0 ELSE count
      /\ tally' = IF c = 0 THEN [e \in DOMAIN tally |-> 0] ELSE tally
  BY DEF ReadContext, window, context, attn
<1>2. pc \in [Cores -> Places] /\ 0 \in Cores /\ \A d \in Cores : pc[d] \in Stage2
  <2>1. pc[c] \in Stage2
    BY <1>1 DEF Stage2
  <2> QED  BY <2>1, OneStage
<1>3. AfterContext(c) \in {"scan", "scanned"}
  BY DEF AfterContext
<1>4. \A d \in Cores : pc'[d] \in Stage2
  BY <1>1, <1>2, <1>3 DEF Stage2
<1>5. OutInv'
  BY <1>1 DEF FInv, WorkInv, OutInv
<1>6. DOMAIN tally = 0 .. ExpertNum - 1
  BY DEF FInv, WorkInv, BufInv
<1>7. CASE c = 0
  <2>1. count' = 0 /\ tally' = NoCount
    BY <1>1, <1>6, <1>7 DEF NoCount
  <2> QED  BY <1>1, <1>2, <1>4, <1>5, <2>1, EarlyKept
<1>8. CASE c # 0
  <2>1. count' = count /\ tally' = tally /\ pc'[0] = pc[0]
    BY <1>1, <1>2, <1>8
  <2>2. pc'[0] \in {"scan", "scanned"} => count' = 0 /\ tally' = NoCount
    BY <2>1 DEF FInv, WorkInv, SortInv, TallyInv
  <2> QED  BY <1>1, <1>2, <1>4, <1>5, <2>1, <2>2, EarlyKept
<1> QED  BY <1>7, <1>8

(* Core 0 has found the round of every session: what is taken is flagged.  *)
LEMMA WorkScan ==
  ASSUME FInv, Scan
  PROVE  WorkInv'
<1>1. /\ pc[0] = "scan" /\ tiling' = tiling /\ out' = out /\ data' = data /\ sent' = sent
      /\ part' = part /\ sorted' = sorted /\ output' = output /\ count' = count /\ tally' = tally
      /\ pc' = [pc EXCEPT ![0] = "scanned"]
  BY DEF Scan, Goto, window, work, attn
<1>2. pc \in [Cores -> Places] /\ 0 \in Cores /\ pc[0] \in Stage2 /\ \A d \in Cores : pc[d] \in Stage2
  <2>1. pc[0] \in Stage2
    BY <1>1 DEF Stage2
  <2> QED  BY <2>1, OneStage
<1>3. \A d \in Cores : pc'[d] \in Stage2
  BY <1>1, <1>2 DEF Stage2
<1>4. OutInv'
  BY <1>1 DEF FInv, WorkInv, OutInv
<1>5. count' = 0 /\ tally' = NoCount
  BY <1>1 DEF FInv, WorkInv, SortInv, TallyInv
<1> QED  BY <1>1, <1>2, <1>3, <1>4, <1>5, EarlyKept

(* A session that a core sorts has a round in the launch.                  *)
LEMMA SortedTaken ==
  ASSUME FInv, needSchedule, NEW c \in Cores, NEW a \in SortedSessions(c)
  PROVE  a \in Sessions /\ <<a, mbId[0]>> \in Taken /\ <<a, mbId[0]>> \in Pairs
<1>1. a \in Sessions
  <2>1. SortedPlaces(c) \subseteq Cells
    BY TileKept, PlacesFacts
  <2>2. 0 \in Slots
    BY ConstFacts DEF Slots
  <2>3. <<a, 0>> \in SortedPlaces(c)
    BY <2>2 DEF SortedPlaces
  <2> QED  BY <2>1, <2>3 DEF Cells, Entries
<1>2. mbId[0] \in MicroBatches
  BY ConstFacts DEF FInv, IInv, StateInv
<1> QED  BY <1>1, <1>2 DEF Taken, Pairs

(* The launch stays what it is.                                            *)
LEMMA ViewSame ==
  ASSUME FInv, UNCHANGED <<tiling, out, mbId, attn>>
  PROVE  /\ needSchedule' = needSchedule /\ sortLoopMax' = sortLoopMax /\ out' = out
         /\ mbId' = mbId /\ sent' = sent /\ want' = want
         /\ All' = All /\ LaunchInv' /\ OutInv'
         /\ \A c \in Cores : SortedSessions(c)' = SortedSessions(c) /\ Mine(c)' = Mine(c)
         /\ \A C \in SUBSET Cores : Ids(C)' = Ids(C)
         /\ \A row : Target(row)' = Target(row)
<1>1. /\ needSchedule' = needSchedule /\ sortLoopMax' = sortLoopMax /\ out' = out
      /\ mbId' = mbId /\ sent' = sent /\ want' = want
  BY DEF tiling, attn
<1>2. LaunchInv' /\ OutInv'
  BY <1>1 DEF FInv, WorkInv, LaunchInv, OutInv
<1>3. /\ All' = All
      /\ \A c \in Cores : SortedSessions(c)' = SortedSessions(c) /\ Mine(c)' = Mine(c)
      /\ \A C \in SUBSET Cores : Ids(C)' = Ids(C)
      /\ \A row : Target(row)' = Target(row)
  BY <1>1, TileKept, ViewKept
<1> QED  BY <1>1, <1>2, <1>3

(* No attention node sends.                                                *)
LEMMA DataSame ==
  ASSUME FInv, UNCHANGED <<tiling, data, attn>>
  PROVE  DataInv'
  BY DEF FInv, WorkInv, DataInv, RoundBound, tiling, attn

(* Before the last barrier there is no list.                               *)
LEMMA GroupEarly ==
  ASSUME FInv, groups' = groups, openRun' = openRun,
         pc[LastCoreId] \notin Late, pc'[LastCoreId] \notin Late
  PROVE  GroupInv'
<1>1. groups = <<>> /\ openRun = NoRun /\ \E n \in Nat : groups \in [1 .. n -> Run]
  BY DEF FInv, WorkInv, GroupInv, Late, Stage5
<1>2. pc'[LastCoreId] \notin {"out", "done", "list", "end"}
  BY DEF Late, Stage5, Stage6
<1> QED  BY <1>1, <1>2 DEF GroupInv

(* The barrier before the sort: the ids of the taken rounds are in the     *)
(* window.                                                                 *)
LEMMA WorkSyncScanned ==
  ASSUME FInv, SyncAll("scanned", "sort")
  PROVE  WorkInv'
<1>1. /\ \A c \in Cores : pc[c] = "scanned" /\ pc'[c] = "sort"
      /\ UNCHANGED <<tiling, out, mbId, attn>>
      /\ count' = count /\ part' = part /\ sorted' = sorted /\ tally' = tally
      /\ rows' = rows /\ groups' = groups /\ openRun' = openRun
      /\ ids' = ids /\ data' = data
  BY DEF SyncAll, AllAt, window, context, work, output
<1>2. /\ 0 \in Cores /\ LastCoreId \in Cores
      /\ pc[0] = "scanned" /\ pc'[0] = "sort" /\ pc[LastCoreId] = "scanned" /\ pc'[LastCoreId] = "sort"
  BY <1>1, ConstFacts
<1>3. /\ needSchedule' = needSchedule /\ mbId' = mbId /\ want' = want /\ LaunchInv' /\ OutInv'
      /\ \A c \in Cores : SortedSessions(c)' = SortedSessions(c)
  BY <1>1, ViewSame
<1>4. DataInv'
  BY <1>1, DataSame
<1>5. BufInv' /\ EndInv'
  BY <1>1, <1>2 DEF FInv, WorkInv, BufInv, EndInv, Stage6
<1>6. count = 0 /\ part = [c \in Cores |-> {}] /\ tally = NoCount
  BY <1>2 DEF FInv, WorkInv, SortInv, TallyInv, Stage2
<1>7. SortInv'
  <2>1. Wiped' = {}
    BY <1>1 DEF Wiped
  <2>2. Cardinality(Ids(Wiped)') = 0
    <3>1. Ids(Wiped)' = {}
      BY <2>1 DEF Ids
    <3> QED  BY <3>1, FS_EmptySet
  <2>3. part' = [c \in Cores |-> IF c \in Wiped' THEN Mine(c)' ELSE {}]
    BY <1>1, <1>6, <2>1
  <2>4. ASSUME needSchedule, NEW c \in Cores, NEW a \in SortedSessions(c)
        PROVE  ids[<<a, mbId[0]>>] = want[<<a, mbId[0]>>]
    <3>1. <<a, mbId[0]>> \in Taken /\ <<a, mbId[0]>> \in Pairs
      BY <2>4, SortedTaken
    <3> DEFINE p == <<a, mbId[0]>>
    <3>2. flag[p] = 1
      BY <1>2, <2>4, <3>1 DEF FInv, IInv, BatchInv
    <3>3. ~InHand(p)
      BY <1>2, <2>4 DEF InHand, Busy
    <3> HIDE DEF p
    <3>4. ids[p] = want[p]
      BY <3>1, <3>2, <3>3 DEF FInv, IInv, RoundInv, p
    <3> QED  BY <3>4 DEF p
  <2> QED  BY <1>1, <1>2, <1>3, <1>6, <2>2, <2>3, <2>4 DEF SortInv, Stage2, Stage4, Late, Stage5,
              Stage6
<1>8. MergeInv' /\ GatherInv' /\ TallyInv'
  BY <1>1, <1>2, <1>6 DEF MergeInv, GatherInv, TallyInv, Late, Stage5, Stage6, Stage3
<1>9. GroupInv'
  BY <1>1, <1>2, GroupEarly DEF Late, Stage5, Stage6
<1> QED  BY <1>3, <1>4, <1>5, <1>7, <1>8, <1>9 DEF WorkInv

(* The barrier before the merge: every core has sorted.                    *)
LEMMA WorkSyncWiped ==
  ASSUME FInv, SyncAll("wiped", "drop")
  PROVE  WorkInv'
<1>1. /\ \A c \in Cores : pc[c] = "wiped" /\ pc'[c] = "drop"
      /\ UNCHANGED <<tiling, out, mbId, attn>>
      /\ count' = count /\ part' = part /\ sorted' = sorted /\ tally' = tally
      /\ rows' = rows /\ groups' = groups /\ openRun' = openRun
      /\ ids' = ids /\ data' = data
  BY DEF SyncAll, AllAt, window, context, work, output
<1>2. /\ 0 \in Cores /\ LastCoreId \in Cores
      /\ pc[0] = "wiped" /\ pc'[0] = "drop" /\ pc[LastCoreId] = "wiped" /\ pc'[LastCoreId] = "drop"
  BY <1>1, ConstFacts
<1>3. /\ needSchedule' = needSchedule /\ LaunchInv' /\ OutInv' /\ All' = All
      /\ \A c \in Cores : Mine(c)' = Mine(c)
  BY <1>1, ViewSame
<1>4. DataInv'
  BY <1>1, DataSame
<1>5. BufInv' /\ EndInv'
  BY <1>1, <1>2 DEF FInv, WorkInv, BufInv, EndInv, Stage6
<1>6. Wiped = Cores
  BY <1>1 DEF Wiped
<1>7. part = [c \in Cores |-> Mine(c)] /\ count = Cardinality(All) /\ tally = NoCount
  <2>1. Ids(Cores) = All
    BY TileKept, AllFacts
  <2>2. part = [c \in Cores |-> IF c \in Wiped THEN Mine(c) ELSE {}] /\ count = Cardinality(Ids(Wiped))
    BY <1>2 DEF FInv, WorkInv, SortInv, Stage3
  <2>3. tally = NoCount
    BY <1>2 DEF FInv, WorkInv, TallyInv, Stage3
  <2> QED  BY <1>6, <2>1, <2>2, <2>3
<1>8. SortInv'
  BY <1>1, <1>2, <1>3, <1>7 DEF SortInv, Stage2, Stage3, Stage4, Late, Stage5, Stage6
<1>9. MergeInv' /\ GatherInv' /\ TallyInv'
  BY <1>1, <1>2, <1>7 DEF MergeInv, GatherInv, TallyInv, Late, Stage5, Stage6
<1>10. GroupInv'
  BY <1>1, <1>2, GroupEarly DEF Late, Stage5, Stage6
<1> QED  BY <1>3, <1>4, <1>5, <1>8, <1>9, <1>10 DEF WorkInv

(* The barrier before the gathering: the merged list is there.             *)
LEMMA WorkSyncMerged ==
  ASSUME FInv, SyncAll("merged", "out")
  PROVE  WorkInv'
<1>1. /\ \A c \in Cores : pc[c] = "merged" /\ pc'[c] = "out"
      /\ UNCHANGED <<tiling, out, mbId, attn>>
      /\ count' = count /\ part' = part /\ sorted' = sorted /\ tally' = tally
      /\ rows' = rows /\ groups' = groups /\ openRun' = openRun
      /\ ids' = ids /\ data' = data
  BY DEF SyncAll, AllAt, window, context, work, output
<1>2. /\ 0 \in Cores /\ LastCoreId \in Cores
      /\ pc[0] = "merged" /\ pc'[0] = "out" /\ pc[LastCoreId] = "merged" /\ pc'[LastCoreId] = "out"
  BY <1>1, ConstFacts
<1>3. /\ needSchedule' = needSchedule /\ LaunchInv' /\ OutInv' /\ All' = All
  BY <1>1, ViewSame
<1>4. DataInv'
  BY <1>1, DataSame
<1>5. BufInv' /\ EndInv'
  BY <1>1, <1>2 DEF FInv, WorkInv, BufInv, EndInv, Stage6
<1>6. count = Cardinality(All) /\ tally = NoCount /\ count \in Nat
      /\ \A j \in 0 .. count - 1 : sorted[j] = Merged(All)[j + 1]
  <2>1. SessionNum * SlotNum \in Nat
    BY ConstFacts
  <2> QED  BY <1>2, <2>1 DEF FInv, WorkInv, SortInv, MergeInv, TallyInv, BufInv, Stage4
<1>7. SortInv'
  BY <1>1, <1>2, <1>3, <1>6 DEF SortInv, Stage2, Stage3, Stage4, Late, Stage5, Stage6
<1>8. MergeInv'
  <2>1. Merged(All)' = Merged(All')
    BY DEF Merged
  <2> QED  BY <1>1, <1>3, <1>6, <2>1 DEF MergeInv
<1>9. GatherInv'
  BY <1>1 DEF GatherInv, Over
<1>10. TallyInv'
  <2>1. Counted' = {}
    BY <1>1 DEF Counted, Over
  <2>2. \A e : Cardinality({j \in {} : sorted[j][1] = e}) = 0
    BY FS_EmptySet
  <2>3. tally' = [e \in 0 .. ExpertNum - 1 |-> Cardinality({j \in Counted' : sorted'[j][1] = e})]
    BY <1>1, <1>6, <2>1, <2>2 DEF NoCount
  <2> QED  BY <1>2, <2>3 DEF TallyInv, Stage3, Stage4
<1>11. GroupInv'
  <2>1. groups = <<>> /\ openRun = NoRun /\ \E n \in Nat : groups \in [1 .. n -> Run]
    BY <1>2 DEF FInv, WorkInv, GroupInv, Late, Stage5, Stage6
  <2>2. OpenInv'
    <3>1. openRun' = NoRun /\ groups' = <<>>
      BY <1>1, <2>1
    <3>2. openRun'.loop = 0 /\ openRun'.lastExpertId = Invalid /\ openRun'.tokenCount = 0 /\ Invalid \in Int
      BY <3>1 DEF NoRun, Invalid
    <3>3. Opened' = <<>>
      BY <3>1, <3>2 DEF Opened
    <3>4. Listed' = 0
      <4>1. PerLoopRows \in Nat /\ 0 * PerLoopRows = 0
        BY BatchingAssumption
      <4> QED  BY <1>1, <1>6, <3>2, <4>1 DEF Listed
    <3>5. IsRuns(<<>>, sorted', 0 .. 0 - 1)
      BY DEF IsRuns
    <3> QED  BY <3>2, <3>3, <3>4, <3>5 DEF OpenInv
  <2> QED  BY <1>1, <1>2, <2>1, <2>2 DEF GroupInv, Late, Stage5
<1> QED  BY <1>3, <1>4, <1>5, <1>7, <1>8, <1>9, <1>10, <1>11 DEF WorkInv

(* The barrier before the list of groups: every core has counted.          *)
LEMMA WorkSyncDone ==
  ASSUME FInv, ~needSchedule, SyncAll("done", "list")
  PROVE  WorkInv'
<1>1. /\ \A c \in Cores : pc[c] = "done" /\ pc'[c] = "list"
      /\ UNCHANGED <<tiling, out, mbId, attn>>
      /\ count' = count /\ part' = part /\ sorted' = sorted /\ tally' = tally
      /\ rows' = rows /\ groups' = groups /\ openRun' = openRun
      /\ ids' = ids /\ data' = data
  BY DEF SyncAll, AllAt, window, context, work, output
<1>2. /\ 0 \in Cores /\ LastCoreId \in Cores
      /\ pc[0] = "done" /\ pc'[0] = "list" /\ pc[LastCoreId] = "done" /\ pc'[LastCoreId] = "list"
  BY <1>1, ConstFacts
<1>3. /\ needSchedule' = needSchedule /\ LaunchInv' /\ OutInv' /\ All' = All
      /\ \A row : Target(row)' = Target(row)
  BY <1>1, ViewSame
<1>4. DataInv'
  BY <1>1, DataSame
<1>5. BufInv' /\ EndInv'
  BY <1>1, <1>2, <1>3 DEF FInv, WorkInv, BufInv, EndInv
<1>6. pc[0] \in Late /\ pc'[0] \in Late /\ pc'[0] \notin {"idle"} \cup Stage2 \cup Stage3 \cup Stage4
  BY <1>2 DEF Stage2, Stage3, Stage4, Late, Stage5, Stage6
<1>7. SortInv'
  BY <1>1, <1>2, <1>3, <1>6 DEF FInv, WorkInv, SortInv, Stage2
<1>8. MergeInv'
  <2>1. Merged(All)' = Merged(All')
    BY DEF Merged
  <2> QED  BY <1>1, <1>3, <1>6, <2>1 DEF FInv, WorkInv, MergeInv
<1>9. MultiList' = MultiList /\ GatherCores' = GatherCores
  BY <1>1, <1>3 DEF MultiList, GatherCores
<1>10. \A c \in Cores : pc[c] \in Over /\ pc'[c] \in Over
  BY <1>1 DEF Over
<1>11. GatherInv'
  BY <1>1, <1>3, <1>6, <1>9, <1>10 DEF FInv, WorkInv, GatherInv
<1>12. TallyInv'
  <2>1. Counted' = Counted
    BY <1>1, <1>9, <1>10 DEF Counted, CountedBy
  <2> QED  BY <1>1, <1>2, <1>6, <1>9, <2>1 DEF FInv, WorkInv, TallyInv
<1>13. GroupInv'
  <2>1. AllListed' = AllListed
    BY <1>1 DEF AllListed, IsRuns
  <2>2. pc'[LastCoreId] \in Late
    BY <1>2 DEF Late, Stage6
  <2> QED  BY <1>1, <1>2, <1>9, <2>1, <2>2 DEF FInv, WorkInv, GroupInv
<1> QED  BY <1>3, <1>4, <1>5, <1>7, <1>8, <1>11, <1>12, <1>13 DEF WorkInv

(* What a core finds in the window, or in the list, is what the sessions   *)
(* have sent.                                                              *)
LEMMA FoundIds ==
  ASSUME FInv, NEW c \in Cores, pc[c] = "sort"
  PROVE  Valid(c) = Mine(c)
<1>1. pc[0] \in Stage3 /\ 0 \in Cores /\ pc[0] \notin {"idle", "start", "scan"}
  <2>1. pc[c] \in Stage3
    BY DEF Stage3
  <2> QED  BY <2>1, OneStage DEF Stage3
<1>2. SortedPlaces(c) \subseteq Cells
  BY TileKept, PlacesFacts
<1>3. ASSUME NEW z \in SortedPlaces(c)
      PROVE  IdAt(c, z[1], z[2]) = Tokens[z]
  <2>1. z \in Cells /\ z[1] \in Entries /\ z[2] \in Slots
    BY <1>2 DEF Cells
  <2>2. Tokens[z] = want[PairAt[z[1]]][z[2]]
    BY <2>1 DEF Tokens
  <2>3. CASE needSchedule
    <3>1. z[1] \in SortedSessions(c)
      BY <2>3 DEF SortedPlaces
    <3>2. mbId[c] = mbId[0]
      BY <1>1, <2>3 DEF FInv, IInv, BatchInv
    <3>3. ids[<<z[1], mbId[0]>>] = want[<<z[1], mbId[0]>>]
      BY <1>1, <2>3, <3>1 DEF FInv, WorkInv, SortInv
    <3>4. PairAt[z[1]] = <<z[1], mbId[0]>>
      BY <2>1, <2>3 DEF PairAt
    <3> QED  BY <2>2, <2>3, <3>2, <3>3, <3>4 DEF IdAt
  <2>4. CASE ~needSchedule
    <3>1. DOMAIN out = 1 .. Len(out) /\ Len(out) \in Nat
      BY TileKept, OutFacts
    <3>2. z[1] + 1 \in DOMAIN out
      BY <2>1, <2>4, <3>1 DEF Entries
    <3>3. out[z[1] + 1].ids = want[<<out[z[1] + 1].session, out[z[1] + 1].microBatch>>]
      BY <3>2 DEF FInv, IInv, ListInv
    <3>4. PairAt[z[1]] = <<out[z[1] + 1].session, out[z[1] + 1].microBatch>>
      BY <2>1, <2>4 DEF PairAt
    <3> QED  BY <2>2, <2>4, <3>3, <3>4 DEF IdAt
  <2> QED  BY <2>3, <2>4
<1>4. Valid(c) = {<<Tokens[x], x[1] * RowLen + x[2]>> :
                    x \in {z \in SortedPlaces(c) : Tokens[z] # Invalid}}
  <2>1. {z \in SortedPlaces(c) : IdAt(c, z[1], z[2]) # Invalid} = {z \in SortedPlaces(c) : Tokens[z] # Invalid}
    BY <1>3
  <2> HIDE DEF Tokens
  <2> QED  BY <1>3, <2>1 DEF Valid, RowId
<1> QED  BY <1>4 DEF Mine, TokenIds, Used

(* A core sorts: its share joins the others'.                              *)
LEMMA WorkSort ==
  ASSUME FInv, NEW c \in Cores, Sort(c)
  PROVE  WorkInv'
<1>1. /\ pc[c] = "sort" /\ pc' = [pc EXCEPT ![c] = "wiped"]
      /\ part' = [part EXCEPT ![c] = Valid(c)]
      /\ count' = count + Cardinality(Valid(c))
      /\ ids' = [p \in Pairs |->
           IF needSchedule /\ p[1] \in SortedSessions(c) /\ p[2] = mbId[c] THEN Empty ELSE ids[p]]
      /\ UNCHANGED <<tiling, out, mbId, attn>>
      /\ data' = data /\ sorted' = sorted /\ tally' = tally
      /\ rows' = rows /\ groups' = groups /\ openRun' = openRun
  BY DEF Sort, Goto, context, output
<1>2. /\ 0 \in Cores /\ LastCoreId \in Cores /\ pc \in [Cores -> Places]
      /\ \A d \in Cores : pc[d] \in Stage3
  <2>1. pc[c] \in Stage3
    BY <1>1 DEF Stage3
  <2> QED  BY <2>1, OneStage
<1>3. /\ \A d \in Cores : pc'[d] = IF d = c THEN "wiped" ELSE pc[d]
      /\ \A d \in Cores : pc'[d] \in Stage3
  BY <1>1, <1>2 DEF Stage3
<1>4. \A d \in Cores : \A x \in {pc[d], pc'[d]} :
        x \in Stage3 /\ x \notin {"idle"} \cup Stage2 \cup Stage4 \cup Late /\ x \notin Stage6
  BY <1>2, <1>3 DEF Stage2, Stage3, Stage4, Stage5, Stage6, Late
<1>5. /\ needSchedule' = needSchedule /\ mbId' = mbId /\ want' = want /\ LaunchInv' /\ OutInv'
      /\ \A d \in Cores : SortedSessions(d)' = SortedSessions(d) /\ Mine(d)' = Mine(d)
      /\ \A C \in SUBSET Cores : Ids(C)' = Ids(C)
  BY <1>1, ViewSame
<1>6. DataInv'
  BY <1>1, DataSame
<1>7. /\ part = [d \in Cores |-> IF d \in Wiped THEN Mine(d) ELSE {}]
      /\ count = Cardinality(Ids(Wiped)) /\ tally = NoCount
      /\ needSchedule => \A d \in Cores : pc[d] = "sort" =>
            \A a \in SortedSessions(d) : ids[<<a, mbId[0]>>] = want[<<a, mbId[0]>>]
  BY <1>2, <1>4 DEF FInv, WorkInv, SortInv, TallyInv
<1>8. Wiped \in SUBSET Cores /\ c \in Cores \ Wiped /\ Wiped' = Wiped \cup {c}
  BY <1>1, <1>3 DEF Wiped
<1>9. /\ count' = Cardinality(Ids(Wiped'))
      /\ count' \in 0 .. SessionNum * SlotNum
  <2>1. Cardinality(Ids(Wiped \cup {c})) = Cardinality(Ids(Wiped)) + Cardinality(Mine(c))
    BY <1>8, TileKept, AllFacts
  <2>2. Cardinality(Ids(Wiped \cup {c})) \in 0 .. SessionNum * SlotNum
    BY <1>8, TileKept, AllFacts
  <2>3. count' = Cardinality(Ids(Wiped \cup {c}))
    BY <1>1, <1>7, <2>1, FoundIds
  <2> QED  BY <1>8, <2>2, <2>3
<1>10. part' = [d \in Cores |-> IF d \in Wiped' THEN Mine(d) ELSE {}]
  BY <1>1, <1>7, <1>8, FoundIds
<1>11. ASSUME needSchedule, NEW d \in Cores, pc'[d] = "sort", NEW a \in SortedSessions(d)
       PROVE  ids'[<<a, mbId[0]>>] = want[<<a, mbId[0]>>]
  <2>1. d # c /\ pc[d] = "sort"
    BY <1>3, <1>11
  <2>2. a \notin SortedSessions(c)
    <3>1. SortedPlaces(c) \cap SortedPlaces(d) = {}
      BY <2>1, TileKept, PlacesFacts
    <3>2. 0 \in Slots
      BY ConstFacts DEF Slots
    <3>3. <<a, 0>> \in SortedPlaces(d) /\ (a \in SortedSessions(c) => <<a, 0>> \in SortedPlaces(c))
      BY <1>11, <3>2 DEF SortedPlaces
    <3> QED  BY <3>1, <3>3
  <2>3. ids[<<a, mbId[0]>>] = want[<<a, mbId[0]>>]
    BY <1>7, <1>11, <2>1
  <2>4. <<a, mbId[0]>> \in Pairs
    BY <1>11, SortedTaken
  <2> QED  BY <1>1, <2>2, <2>3, <2>4
<1>12. SortInv'
  <2>1. part' = [d \in Cores |-> IF d \in Wiped' THEN Mine(d)' ELSE {}]
    BY <1>5, <1>10
  <2>2. count' = Cardinality(Ids(Wiped)')
    <3>1. Wiped' \in SUBSET Cores
      BY <1>8
    <3>2. {Mine(d)' : d \in Wiped'} = {Mine(d) : d \in Wiped'}
      BY <1>5, <3>1
    <3>3. Ids(Wiped)' = Ids(Wiped')
      BY <3>2 DEF Ids
    <3> QED  BY <1>9, <3>3
  <2>3. \A d \in Cores : \A a : a \in SortedSessions(d)' <=> a \in SortedSessions(d)
    BY <1>5
  <2>4. ASSUME needSchedule', NEW d \in Cores, pc'[d] = "sort", NEW a \in SortedSessions(d)'
        PROVE  ids'[<<a, mbId'[0]>>] = want'[<<a, mbId'[0]>>]
    <3>1. needSchedule /\ a \in SortedSessions(d) /\ mbId' = mbId /\ want' = want
      BY <1>5, <2>3, <2>4
    <3>2. ids'[<<a, mbId[0]>>] = want[<<a, mbId[0]>>]
      BY <1>11, <2>4, <3>1
    <3> QED  BY <3>1, <3>2
  <2>5. pc'[0] \notin {"idle"} \cup Stage2 \cup Stage4 \cup Late
    BY <1>2, <1>4
  <2> QED  BY <2>1, <2>2, <2>4, <2>5 DEF SortInv, Stage2
<1>13. BufInv' /\ EndInv'
  <2>1. BufInv'
    BY <1>1, <1>9 DEF FInv, WorkInv, BufInv
  <2>2. EndInv'
    BY <1>2, <1>4 DEF EndInv
  <2> QED  BY <2>1, <2>2
<1>14. pc'[0] \notin Late /\ pc'[0] # "merged" /\ pc[LastCoreId] \notin Late /\ pc'[LastCoreId] \notin Late
  BY <1>2, <1>4 DEF Stage4
<1>15. MergeInv' /\ GatherInv' /\ TallyInv'
  BY <1>1, <1>7, <1>14 DEF MergeInv, GatherInv, TallyInv
<1>16. GroupInv'
  BY <1>1, <1>14, GroupEarly
<1> QED  BY <1>5, <1>6, <1>12, <1>13, <1>15, <1>16 DEF WorkInv

(* Core 0 takes the flags down.                                            *)
LEMMA WorkClearFlags ==
  ASSUME FInv, ClearFlags
  PROVE  WorkInv'
<1>1. /\ pc[LastCoreId] = "drop" /\ pc' = [pc EXCEPT ![LastCoreId] = "merged"]
      /\ UNCHANGED <<tiling, out, mbId, attn>>
      /\ data' = data /\ count' = count /\ part' = part /\ sorted' = sorted /\ tally' = tally
      /\ rows' = rows /\ groups' = groups /\ openRun' = openRun
  BY DEF ClearFlags, Goto, context, work, output
<1>2. /\ 0 \in Cores /\ LastCoreId \in Cores /\ LastCoreId # 0 /\ pc \in [Cores -> Places]
      /\ pc[0] \in Stage4
  <2>1. pc[LastCoreId] \in Stage4
    BY <1>1 DEF Stage4
  <2> QED  BY <2>1, OneStage
<1>3. /\ pc'[0] = pc[0] /\ pc[0] \notin {"idle"} \cup Stage2 \cup Stage3 \cup Late /\ pc[0] \notin Stage6
      /\ pc[LastCoreId] \notin Late /\ pc'[LastCoreId] \notin Late
  BY <1>1, <1>2 DEF Stage2, Stage3, Stage4, Stage5, Stage6, Late
<1>4. /\ LaunchInv' /\ OutInv' /\ All' = All /\ needSchedule' = needSchedule
      /\ \A d \in Cores : Mine(d)' = Mine(d)
  BY <1>1, ViewSame
<1>5. DataInv'
  BY <1>1, DataSame
<1>6. BufInv' /\ EndInv'
  BY <1>1, <1>3 DEF FInv, WorkInv, BufInv, EndInv
<1>7. SortInv'
  BY <1>1, <1>2, <1>3, <1>4 DEF FInv, WorkInv, SortInv, Stage2
<1>8. MergeInv'
  <2>1. Merged(All)' = Merged(All')
    BY DEF Merged
  <2> QED  BY <1>1, <1>3, <1>4, <2>1 DEF FInv, WorkInv, MergeInv
<1>9. GatherInv' /\ TallyInv'
  BY <1>1, <1>2, <1>3 DEF FInv, WorkInv, GatherInv, TallyInv
<1>10. GroupInv'
  BY <1>1, <1>3, GroupEarly
<1> QED  BY <1>4, <1>5, <1>6, <1>7, <1>8, <1>9, <1>10 DEF WorkInv

(* A core merges.                                                          *)
LEMMA WorkMerge ==
  ASSUME FInv, NEW c \in Cores, Merge(c)
  PROVE  WorkInv'
<1>1. /\ pc[c] = "drop" /\ c # LastCoreId /\ pc' = [pc EXCEPT ![c] = "merged"]
      /\ UNCHANGED <<tiling, out, mbId, attn>>
      /\ data' = data /\ count' = count /\ part' = part /\ tally' = tally
      /\ rows' = rows /\ groups' = groups /\ openRun' = openRun
  BY DEF Merge, Goto, window, context, output
<1>2. /\ 0 \in Cores /\ LastCoreId \in Cores /\ LastCoreId # 0 /\ pc \in [Cores -> Places]
      /\ pc[0] \in Stage4
  <2>1. pc[c] \in Stage4
    BY <1>1 DEF Stage4
  <2> QED  BY <2>1, OneStage
<1>3. /\ pc'[0] \in Stage4 /\ pc'[0] \notin {"idle"} \cup Stage2 \cup Stage3 \cup Late /\ pc'[0] \notin Stage6
      /\ pc'[LastCoreId] = pc[LastCoreId] /\ pc[LastCoreId] \notin Late
  <2>1. pc'[0] \in Stage4
    BY <1>1, <1>2 DEF Stage4
  <2>2. pc[LastCoreId] \in Stage4
    BY <1>2, OneStage
  <2> QED  BY <1>1, <1>2, <2>1, <2>2 DEF Stage2, Stage3, Stage4, Stage5, Stage6, Late
<1>4. /\ LaunchInv' /\ OutInv' /\ All' = All /\ needSchedule' = needSchedule
      /\ \A d \in Cores : Mine(d)' = Mine(d)
  BY <1>1, ViewSame
<1>5. DataInv'
  BY <1>1, DataSame
<1>6. part = [d \in Cores |-> Mine(d)] /\ count = Cardinality(All) /\ tally = NoCount
  BY <1>2 DEF FInv, WorkInv, SortInv, TallyInv
<1>7. sorted \in [0 .. SessionNum * SlotNum - 1 ->
                    (-1 .. ExpertNum - 1) \X (0 .. SessionNum * BsKPad - 1)]
  BY DEF FInv, WorkInv, BufInv
<1> DEFINE Buffers == [0 .. SessionNum * SlotNum - 1 ->
                         (-1 .. ExpertNum - 1) \X (0 .. SessionNum * BsKPad - 1)]
<1>8. /\ sorted' \in Buffers
      /\ pc'[0] = "merged" => \A j \in 0 .. count - 1 : sorted'[j] = Merged(All)[j + 1]
  <2>1. CASE c = 0
    <3> DEFINE new == Merged(UNION {part[d] : d \in Cores})
    <3>1. new = Merged(All)
      <4>1. UNION {part[d] : d \in Cores} = Ids(Cores)
        BY <1>6 DEF Ids
      <4>2. Ids(Cores) = All
        BY TileKept, AllFacts
      <4> QED  BY <4>1, <4>2
    <3>2. sorted' = [place \in DOMAIN sorted |->
                       IF place < Len(new) THEN new[place + 1] ELSE sorted[place]]
      BY <2>1 DEF Merge
    <3> HIDE DEF new
    <3>3. /\ All \in SUBSET ((0 .. ExpertNum - 1) \X (0 .. SessionNum * BsKPad - 1))
          /\ IsFiniteSet(All) /\ Cardinality(All) \in 0 .. SessionNum * SlotNum
      BY TileKept, AllFacts
    <3>4. SessionNum * SlotNum \in Nat /\ SessionNum * BsKPad \in Nat /\ ExpertNum \in Nat
      BY ConstFacts
    <3> DEFINE n == Cardinality(All)
               cell == (-1 .. ExpertNum - 1) \X (0 .. SessionNum * BsKPad - 1)
    <3>5. Merged(All) \in [1 .. n -> All] /\ n \in Nat
      <4>1. All \in SUBSET (Int \X Int)
        BY <3>3, <3>4
      <4> QED  BY <3>3, <4>1, MergedFacts
    <3>6. Len(new) = n /\ \A k \in 1 .. n : new[k] \in All
      BY <3>1, <3>5
    <3>7. \A x \in All : x \in cell
      BY <3>3, <3>4
    <3>8. DOMAIN sorted = 0 .. SessionNum * SlotNum - 1 /\ \A j \in DOMAIN sorted : sorted[j] \in cell
      BY <1>7
    <3> HIDE DEF n, cell
    <3>9. \A j \in DOMAIN sorted : j < n => j + 1 \in 1 .. n
      BY <3>4, <3>5, <3>8
    <3>10. \A j \in DOMAIN sorted : (IF j < Len(new) THEN new[j + 1] ELSE sorted[j]) \in cell
      BY <3>6, <3>7, <3>8, <3>9
    <3>11. sorted' \in Buffers
      BY <3>2, <3>8, <3>10 DEF cell
    <3>12. \A j \in 0 .. n - 1 : j \in DOMAIN sorted /\ j < n
      BY <3>3, <3>4, <3>5, <3>8 DEF n
    <3>13. \A j \in 0 .. n - 1 : sorted'[j] = Merged(All)[j + 1]
      BY <3>1, <3>2, <3>6, <3>12
    <3> QED  BY <1>6, <3>11, <3>13 DEF n
  <2>2. CASE c # 0
    <3>1. sorted' = sorted /\ pc'[0] = pc[0]
      BY <1>1, <1>2, <2>2 DEF Merge
    <3> QED  BY <1>7, <3>1 DEF FInv, WorkInv, MergeInv
  <2> QED  BY <2>1, <2>2
<1>9. BufInv' /\ EndInv'
  BY <1>1, <1>3, <1>8 DEF FInv, WorkInv, BufInv, EndInv
<1>10. SortInv'
  BY <1>1, <1>3, <1>4, <1>6 DEF SortInv, Stage2
<1>11. MergeInv'
  <2>1. Merged(All)' = Merged(All')
    BY DEF Merged
  <2> QED  BY <1>1, <1>3, <1>4, <1>8, <2>1 DEF MergeInv
<1>12. GatherInv' /\ TallyInv'
  BY <1>1, <1>3, <1>6 DEF GatherInv, TallyInv
<1>13. GroupInv'
  BY <1>1, <1>3, GroupEarly
<1> QED  BY <1>4, <1>5, <1>9, <1>10, <1>11, <1>12, <1>13 DEF WorkInv

(* A share of a list is in the list.                                       *)
LEMMA CeilChunkWithin ==
  ASSUME NEW n \in Nat, NEW num \in Nat \ {0}, NEW c \in 0 .. num - 1
  PROVE  CeilChunk(c, n, num) \subseteq 0 .. n - 1
<1> DEFINE p == PerCore(n, num)
           k == NeedCores(n, num)
           l == LastCore(n, num)
<1>1. CASE n = 0
  <2>1. (n + num - 1) \div num = 0
    BY <1>1
  <2>2. k = 0
    BY <2>1 DEF PerCore, NeedCores, CeilDiv
  <2> QED  BY <2>2 DEF CeilChunk
<1>2. CASE n # 0
  <2>1. p \in Nat \ {0} /\ k \in 1 .. num /\ l \in 1 .. p
    BY <1>2, LastCoreWorks
  <2>2. l = n - p * (k - 1)
    BY DEF LastCore
  <2>3. CeilChunk(c, n, num) = IF c < k THEN c * p .. c * p + (IF c = k - 1 THEN l ELSE p) - 1 ELSE {}
    BY DEF CeilChunk
  <2> HIDE DEF p, k, l
  <2>4. CASE c = k - 1
    <3>1. c * p = n - l /\ c * p \in Nat
      BY <2>1, <2>2, <2>4
    <3> QED  BY <2>1, <2>3, <2>4, <3>1
  <2>5. CASE c < k - 1
    <3>1. (c + 1) * p <= (k - 1) * p
      BY <2>1, <2>5
    <3>2. (c + 1) * p = c * p + p /\ c * p \in Nat
      BY <2>1
    <3>3. (k - 1) * p = n - l
      BY <2>1, <2>2
    <3>4. c * p + p - 1 <= n - 1
      BY <2>1, <3>1, <3>2, <3>3
    <3> QED  BY <2>1, <2>3, <2>5, <3>2, <3>4
  <2>6. CASE ~(c < k)
    BY <2>3, <2>6
  <2> QED  BY <2>1, <2>4, <2>5, <2>6
<1> QED  BY <1>1, <1>2

(* The sorted ids of the launch.                                           *)
LEMMA SortedFacts ==
  ASSUME FInv, pc[0] \in Late
  PROVE  /\ count = Cardinality(All) /\ count \in Nat /\ count <= SessionNum * SlotNum
         /\ \A j \in 0 .. count - 1 : sorted[j] = Merged(All)[j + 1] /\ sorted[j] \in All
         /\ \A x \in All : \E j \in 0 .. count - 1 : sorted[j] = x
         /\ \A j \in 0 .. count - 1 : sorted[j][1] \in 0 .. ExpertNum - 1 /\ sorted[j][1] \in Int
         /\ \A i, j \in 0 .. count - 1 : i < j => sorted[i][1] <= sorted[j][1]
<1>1. /\ All \in SUBSET ((0 .. ExpertNum - 1) \X (0 .. SessionNum * BsKPad - 1))
      /\ IsFiniteSet(All) /\ Cardinality(All) \in 0 .. SessionNum * SlotNum
  BY TileKept, AllFacts
<1>2. SessionNum * SlotNum \in Nat /\ SessionNum * BsKPad \in Nat /\ ExpertNum \in Nat
  BY ConstFacts
<1>3. count = Cardinality(All) /\ \A j \in 0 .. count - 1 : sorted[j] = Merged(All)[j + 1]
  BY DEF FInv, WorkInv, SortInv, MergeInv
<1>4. count \in Nat /\ count <= SessionNum * SlotNum
  BY <1>1, <1>2, <1>3
<1>5. /\ Merged(All) \in [1 .. count -> All]
      /\ \A x \in All : \E k \in 1 .. count : Merged(All)[k] = x
      /\ \A j, k \in 1 .. count : j < k => Merged(All)[j][1] <= Merged(All)[k][1]
  <2>1. All \in SUBSET (Int \X Int)
    BY <1>1, <1>2
  <2> QED  BY <1>1, <1>3, <2>1, MergedFacts
<1>6. \A j \in 0 .. count - 1 : j + 1 \in 1 .. count
  BY <1>4
<1>7. \A j \in 0 .. count - 1 : sorted[j] \in All
  BY <1>3, <1>5, <1>6
<1>8. \A x \in All : x[1] \in 0 .. ExpertNum - 1 /\ x[1] \in Int
  BY <1>1, <1>2
<1>9. \A i, j \in 0 .. count - 1 : i < j => sorted[i][1] <= sorted[j][1]
  <2> TAKE i \in 0 .. count - 1, j \in 0 .. count - 1
  <2> HAVE i < j
  <2>1. i + 1 \in 1 .. count /\ j + 1 \in 1 .. count /\ i + 1 < j + 1
    BY <1>4
  <2>2. Merged(All)[i + 1][1] <= Merged(All)[j + 1][1]
    BY <1>5, <2>1
  <2> QED  BY <1>3, <2>2
<1>10. ASSUME NEW x \in All PROVE \E j \in 0 .. count - 1 : sorted[j] = x
  <2>1. PICK k \in 1 .. count : Merged(All)[k] = x
    BY <1>5, <1>10
  <2>2. k - 1 \in 0 .. count - 1 /\ (k - 1) + 1 = k
    BY <1>4
  <2> QED  BY <1>3, <2>1, <2>2
<1> QED  BY <1>3, <1>4, <1>7, <1>8, <1>9, <1>10

(* A core goes on behind the last barrier but one.                         *)
LEMMA LateFrame ==
  ASSUME FInv, NEW c \in Cores, NEW l, pc' = [pc EXCEPT ![c] = l],
         (pc[c] = "out" /\ l \in {"out", "done"}) \/ (pc[c] = "list" /\ l = "end"),
         UNCHANGED <<tiling, window, context, mbId, attn, count, part, sorted>>
  PROVE  /\ LaunchInv' /\ OutInv' /\ DataInv' /\ EndInv' /\ SortInv' /\ MergeInv'
         /\ needSchedule' = needSchedule /\ MultiList' = MultiList /\ GatherCores' = GatherCores
         /\ \A row : Target(row)' = Target(row)
         /\ pc[0] \in Late /\ pc'[0] \in Late /\ pc'[0] \notin {"idle"} \cup Stage2 \cup Stage3 \cup Stage4
         /\ \A d \in Cores : pc'[d] = IF d = c THEN l ELSE pc[d]
<1>1. /\ UNCHANGED <<tiling, out, mbId, attn>>
      /\ data' = data /\ count' = count /\ part' = part /\ sorted' = sorted
  BY DEF window, context
<1>2. pc \in [Cores -> Places] /\ pc[0] \in Late /\ 0 \in Cores
  <2>1. pc[c] \in Late
    BY DEF Late, Stage5, Stage6
  <2> QED  BY <2>1, OneStage
<1>3. \A d \in Cores : pc'[d] = IF d = c THEN l ELSE pc[d]
  BY <1>2
<1>4. pc'[0] \in Late /\ (pc'[0] \in Stage6 => pc[0] \in Stage6)
  BY <1>2, <1>3 DEF Late, Stage5, Stage6
<1>5. pc'[0] \notin {"idle"} \cup Stage2 \cup Stage3 \cup Stage4
  BY <1>4 DEF Stage2, Stage3, Stage4, Late, Stage5, Stage6
<1>6. /\ LaunchInv' /\ OutInv' /\ All' = All /\ needSchedule' = needSchedule
      /\ \A row : Target(row)' = Target(row)
  BY <1>1, ViewSame
<1>7. DataInv'
  BY <1>1, DataSame
<1>8. EndInv'
  BY <1>4, <1>6 DEF FInv, WorkInv, EndInv
<1>9. SortInv'
  BY <1>1, <1>2, <1>5, <1>6 DEF FInv, WorkInv, SortInv, Stage2
<1>10. MergeInv'
  <2>1. Merged(All)' = Merged(All')
    BY DEF Merged
  <2> QED  BY <1>1, <1>2, <1>4, <1>6, <2>1 DEF FInv, WorkInv, MergeInv
<1>11. MultiList' = MultiList /\ GatherCores' = GatherCores
  BY <1>1, <1>6 DEF MultiList, GatherCores
<1> QED  BY <1>2, <1>3, <1>4, <1>5, <1>6, <1>7, <1>8, <1>9, <1>10, <1>11

(* The list of groups is left alone.                                       *)
LEMMA GroupKept ==
  ASSUME FInv, UNCHANGED <<tiling, count, sorted, groups, openRun>>,
         pc'[LastCoreId] = pc[LastCoreId]
  PROVE  GroupInv'
<1>1. needSchedule' = needSchedule /\ MultiList' = MultiList
  BY DEF tiling, MultiList
<1>2. OpenInv' = OpenInv /\ AllListed' = AllListed
  BY DEF OpenInv, AllListed, IsRuns, Opened, Listed
<1> QED  BY <1>1, <1>2 DEF FInv, WorkInv, GroupInv

(* Some cores gather, and not all of them.                                 *)
LEMMA GatherCoresFacts ==
  /\ GatherCores \in Nat \ {0} /\ GatherCores <= LastCoreId
  /\ ListCoreNum \in Nat \ {0} /\ CoreNum \in Nat
  /\ MultiList => GatherCores = CoreNum - ListCoreNum
  BY BatchingAssumption DEF GatherCores, LastCoreId

(* The row a gathering core writes is the token that was sent.             *)
LEMMA GatheredRow ==
  ASSUME FInv, NEW c \in Cores, pc[c] = "out", NEW x \in All
  PROVE  GatherRow(c, x[2]) = Target(x[2])
<1>1. pc[0] \in Stage5 /\ pc[0] \notin {"idle", "start", "scan"}
  <2>1. pc[c] \in Stage5
    BY DEF Stage5
  <2> QED  BY <2>1, OneStage DEF Stage5
<1>2. PICK z \in Cells : x = <<Tokens[z], z[1] * RowLen + z[2]>>
  BY DEF All, TokenIds, Used
<1> DEFINE row == z[1] * RowLen + z[2]
<1>3. RowLen \in Nat \ {0} /\ z[1] \in Nat /\ z[2] \in 0 .. RowLen - 1 /\ z[1] \in Entries
  <2>1. RowLen \in Nat \ {0}
    BY TileKept, RowLenFacts
  <2>2. Cells \in SUBSET (Nat \X (0 .. RowLen - 1))
    BY TileKept, EntryFacts
  <2>3. z[1] \in Entries
    BY DEF Cells
  <2> QED  BY <2>1, <2>2, <2>3
<1>4. SessionOf(row) = z[1]
  BY <1>3, RowFacts DEF SessionOf
<1>5. x[2] = row
  BY <1>2
<1> HIDE DEF row
<1>6. PairOf(c, row) = PairAt[z[1]]
  <2>1. CASE needSchedule
    <3>1. mbId[c] = mbId[0]
      BY <1>1, <2>1 DEF FInv, IInv, BatchInv
    <3> QED  BY <1>3, <1>4, <2>1, <3>1 DEF PairOf, PairAt
  <2>2. CASE ~needSchedule
    BY <1>3, <1>4, <2>2 DEF PairOf, PairAt
  <2> QED  BY <2>1, <2>2
<1>7. data[PairAt[z[1]]] = Rounds[z[1]]
  <2>1. PairAt[z[1]] \in Pairs
    BY <1>3, TileKept, EntryFacts
  <2> QED  BY <1>3, <2>1 DEF FInv, WorkInv, DataInv, Rounds
<1>8. Target(row) = [session |-> PairAt[z[1]][1], microBatch |-> PairAt[z[1]][2],
                     slot |-> SlotOf(row), round |-> Rounds[z[1]]]
  BY <1>4 DEF Target
<1> QED  BY <1>5, <1>6, <1>7, <1>8 DEF GatherRow

(* A core gathers its share of the rows.                                   *)
LEMMA WorkGather ==
  ASSUME FInv, NEW c \in Cores, Gather(c)
  PROVE  WorkInv'
<1>1. /\ pc[c] = "out" /\ c < GatherCores /\ pc' = [pc EXCEPT ![c] = "done"]
      /\ UNCHANGED <<tiling, window, context, mbId, attn, count, part, sorted>>
      /\ tally' = tally /\ groups' = groups /\ openRun' = openRun
      /\ rows' = [j \in DOMAIN rows |->
           IF j \in CeilChunk(c, count, GatherCores) THEN GatherRow(c, sorted[j][2]) ELSE rows[j]]
  BY DEF Gather, Goto, work
<1>2. /\ LaunchInv' /\ OutInv' /\ DataInv' /\ EndInv' /\ SortInv' /\ MergeInv'
      /\ needSchedule' = needSchedule /\ MultiList' = MultiList /\ GatherCores' = GatherCores
      /\ \A row : Target(row)' = Target(row)
      /\ pc[0] \in Late /\ pc'[0] \in Late /\ pc'[0] \notin {"idle"} \cup Stage2 \cup Stage3 \cup Stage4
      /\ \A d \in Cores : pc'[d] = IF d = c THEN "done" ELSE pc[d]
  BY <1>1, LateFrame
<1>3. /\ count = Cardinality(All) /\ count \in Nat /\ count <= SessionNum * SlotNum
      /\ \A j \in 0 .. count - 1 : sorted[j] \in All
  BY <1>2, SortedFacts
<1>4. DOMAIN rows = 0 .. SessionNum * SlotNum - 1 /\ DOMAIN rows' = DOMAIN rows
  BY <1>1 DEF FInv, WorkInv, BufInv
<1>5. BufInv'
  BY <1>1, <1>4 DEF FInv, WorkInv, BufInv
<1>6. \A d \in Cores : pc'[d] \in Over => d = c \/ pc[d] \in Over
  BY <1>2
<1>7. GatherCores \in Nat \ {0} /\ GatherCores <= LastCoreId /\ SessionNum * SlotNum \in Nat
  BY GatherCoresFacts, ConstFacts
<1>8. \A d \in Cores : d < GatherCores => d \in 0 .. GatherCores - 1
  BY <1>7 DEF Cores
<1>9. GatherInv'
  <2> SUFFICES ASSUME NEW d \in Cores, d < GatherCores, pc'[d] \in Over,
                      NEW j \in CeilChunk(d, count, GatherCores)
               PROVE  rows'[j] = Target(sorted[j][2])
    BY <1>1, <1>2 DEF GatherInv
  <2>1. d \in 0 .. GatherCores - 1 /\ c \in 0 .. GatherCores - 1
    BY <1>1, <1>8
  <2>2. j \in 0 .. count - 1 /\ count # 0
    BY <1>3, <1>7, <2>1, CeilChunkWithin
  <2>3. j \in DOMAIN rows
    BY <1>3, <1>4, <1>7, <2>2
  <2>4. CASE d = c
    <3>1. rows'[j] = GatherRow(c, sorted[j][2])
      BY <1>1, <2>3, <2>4
    <3> QED  BY <1>1, <1>3, <2>2, <3>1, GatheredRow
  <2>5. CASE d # c
    <3>1. CeilChunk(c, count, GatherCores) \cap CeilChunk(d, count, GatherCores) = {}
      BY <1>3, <1>7, <2>1, <2>2, <2>5, CeilChunksDisjoint
    <3>2. rows'[j] = rows[j]
      BY <1>1, <2>3, <3>1
    <3>3. pc[d] \in Over
      BY <1>6, <2>5
    <3> QED  BY <1>2, <3>2, <3>3 DEF FInv, WorkInv, GatherInv
  <2> QED  BY <2>4, <2>5
<1>10. TallyInv'
  <2>1. \A d \in Cores : d >= GatherCores => d # c
    BY <1>1, <1>7 DEF Cores
  <2>2. Counted' = Counted
    <3>1. {d \in Cores : d >= GatherCores' /\ pc'[d] \in Over} = {d \in Cores : d >= GatherCores /\ pc[d] \in Over}
      BY <1>2, <2>1
    <3>2. \A d : CountedBy(d)' = CountedBy(d)
      BY <1>1, <1>2 DEF CountedBy
    <3> QED  BY <3>1, <3>2 DEF Counted
  <2> QED  BY <1>1, <1>2, <2>2 DEF FInv, WorkInv, TallyInv
<1>11. GroupInv'
  <2>1. LastCoreId \in Cores /\ LastCoreId # c
    BY <1>1, <1>7, ConstFacts DEF Cores
  <2> QED  BY <1>1, <1>2, <2>1, GroupKept
<1> QED  BY <1>2, <1>5, <1>9, <1>10, <1>11 DEF WorkInv

(* A group is appended to the list.                                        *)
LEMMA AppendRun ==
  ASSUME NEW n \in Nat, NEW G \in [1 .. n -> Run], NEW x \in Run
  PROVE  Append(G, x) \in [1 .. n + 1 -> Run]
<1>1. G \in Seq(Run) /\ Len(G) = n
  BY FunctionSeq
<1>2. /\ Append(G, x) \in Seq(Run) /\ Len(Append(G, x)) = n + 1
  BY <1>1, AppendProperties
<1>3. Append(G, x) \in [1 .. Len(Append(G, x)) -> Run]
  BY <1>2, LenProperties
<1> QED  BY <1>2, <1>3

(* The last core, with nothing but the list of groups.                     *)
LEMMA LastFrame ==
  ASSUME FInv, NEW l, pc' = [pc EXCEPT ![LastCoreId] = l], pc[LastCoreId] = "out",
         l \in {"out", "done"}, ~MultiList,
         UNCHANGED <<tiling, window, context, mbId, work, rows, attn>>, GroupInv'
  PROVE  WorkInv'
<1>1. /\ count' = count /\ part' = part /\ sorted' = sorted /\ tally' = tally /\ rows' = rows
  BY DEF work
<1>2. LastCoreId \in Cores
  BY ConstFacts
<1>3. /\ LaunchInv' /\ OutInv' /\ DataInv' /\ EndInv' /\ SortInv' /\ MergeInv'
      /\ needSchedule' = needSchedule /\ MultiList' = MultiList /\ GatherCores' = GatherCores
      /\ \A row : Target(row)' = Target(row)
      /\ pc[0] \in Late /\ pc'[0] \in Late /\ pc'[0] \notin {"idle"} \cup Stage2 \cup Stage3 \cup Stage4
      /\ \A d \in Cores : pc'[d] = IF d = LastCoreId THEN l ELSE pc[d]
  BY <1>1, <1>2, LateFrame
<1>4. BufInv'
  BY <1>1 DEF FInv, WorkInv, BufInv
<1>5. TallyInv'
  BY <1>3 DEF TallyInv, Stage2
<1>6. \A d \in Cores : d < GatherCores => d # LastCoreId
  BY GatherCoresFacts DEF LastCoreId, Cores
<1>7. GatherInv'
  BY <1>1, <1>3, <1>6 DEF FInv, WorkInv, GatherInv
<1> QED  BY <1>3, <1>4, <1>5, <1>7 DEF WorkInv

(* The last core lists a chunk and keeps its last run open.                *)
LEMMA WorkListGroupChunk ==
  ASSUME FInv, ListGroupChunk
  PROVE  WorkInv'
<1> DEFINE own   == RunsOf(ChunkOf)
           total == [own EXCEPT ![1][2] = @ + IF RunEnded THEN 0 ELSE openRun.tokenCount]
           e     == openRun.lastExpertId
           tc    == openRun.tokenCount
           m     == openRun.loop * PerLoopRows
           len   == IF m + PerLoopRows <= count THEN PerLoopRows ELSE count - m
<1>1. /\ pc[LastCoreId] = "out" /\ needSchedule /\ MoreChunks
      /\ groups' = (IF RunEnded THEN Append(groups, <<e, tc>>) ELSE groups) \o Front(total)
      /\ openRun' = [loop |-> openRun.loop + 1,
                     lastExpertId |-> Last(total)[1], tokenCount |-> Last(total)[2]]
      /\ UNCHANGED <<tiling, window, context, cores, work, rows, attn>>
  BY DEF ListGroupChunk
<1>2. UNCHANGED <<tiling, window, context, mbId, work, rows, attn>> /\ pc' = pc /\ count' = count /\ sorted' = sorted
  BY <1>1 DEF cores, work
<1>3. pc \in [Cores -> Places] /\ LastCoreId \in Cores /\ pc[0] \in Late /\ pc[LastCoreId] \in Late
  <2>1. pc[LastCoreId] \in Late
    BY <1>1 DEF Late, Stage5
  <2> QED  BY <2>1, OneStage
<1>4. /\ count \in Nat
      /\ \A j \in 0 .. count - 1 : sorted[j][1] \in 0 .. ExpertNum - 1 /\ sorted[j][1] \in Int
      /\ \A i, j \in 0 .. count - 1 : i < j => sorted[i][1] <= sorted[j][1]
  BY <1>3, SortedFacts
<1>5. OpenInv /\ \E n \in Nat : groups \in [1 .. n -> Run]
  BY <1>1 DEF FInv, WorkInv, GroupInv
<1>6. PerLoopRows \in Nat \ {0} /\ openRun.loop \in Nat /\ e \in Int /\ tc \in Nat
  BY <1>5, BatchingAssumption DEF OpenInv
<1>7. m \in Nat /\ m < count /\ len \in Nat \ {0} /\ m + len <= count
  <2>1. m \in Nat /\ m < count
    BY <1>1, <1>6 DEF MoreChunks
  <2> HIDE DEF m
  <2> QED  BY <1>4, <1>6, <2>1
<1>8. Listed = m /\ (openRun.loop + 1) * PerLoopRows = m + PerLoopRows
  BY <1>4, <1>6, <1>7 DEF Listed
<1>9. ChunkOf = [j \in 1 .. len |-> sorted[m + j - 1][1]]
  BY DEF ChunkOf
<1>10. e = Invalid => m = 0 /\ tc = 0
  BY <1>5, <1>6 DEF OpenInv
<1>11. IsRuns(IF e = Invalid THEN groups ELSE Append(groups, <<e, tc>>), sorted, 0 .. m - 1)
  <2>1. IsRuns(Opened, sorted, 0 .. m - 1)
    BY <1>5, <1>8 DEF OpenInv
  <2> QED  BY <2>1 DEF Opened
<1>12. RunEnded \in BOOLEAN /\ (RunEnded <=> e # Invalid /\ sorted[m][1] # e)
  <2>1. 1 \in 1 .. len /\ m + 1 - 1 = m
    BY <1>7
  <2>2. ChunkOf[1] = sorted[m][1]
    BY <1>9, <2>1
  <2> QED  BY <2>2 DEF RunEnded
<1>13. PICK g0 \in Nat : groups \in [1 .. g0 -> Run]
  BY <1>5
<1>14. total = [own EXCEPT ![1][2] = @ + IF RunEnded THEN 0 ELSE tc]
  OBVIOUS
<1> HIDE DEF m, len
<1>15. \A j \in 0 .. m + len - 1 : j \in 0 .. count - 1
  BY <1>4, <1>7
<1>16. PICK r \in Nat \ {0} : own \in [1 .. r -> Run] /\ IsRuns(own, sorted, m .. m + len - 1)
  <2>1. \A j \in m .. m + len - 1 : sorted[j][1] \in Int
    BY <1>4, <1>7
  <2> HIDE DEF own
  <2>2. ChunkCase(sorted, m, len, ChunkOf)
    BY <1>7, <1>9, <2>1 DEF ChunkCase
  <2>3. \E n \in Nat : /\ own \in [1 .. n -> Run]
                       /\ IsRuns(own, sorted, m .. m + len - 1)
                       /\ len # 0 => n # 0
    BY <2>2, RunsOfInterval DEF own, Run
  <2> QED  BY <1>7, <2>3
<1> HIDE DEF own, total, e, tc
<1>17. ListCase(sorted, m, len, g0, groups, e, tc, own, r, RunEnded, total, groups')
  BY <1>1, <1>4, <1>6, <1>7, <1>10, <1>11, <1>12, <1>13, <1>14, <1>15, <1>16 DEF ListCase
<1>18. /\ \E n \in Nat : groups' \in [1 .. n -> Run]
       /\ Last(total)[1] \in Int /\ Last(total)[2] \in Nat
       /\ \E j \in 0 .. m + len - 1 : Last(total)[1] = sorted[j][1]
       /\ IsRuns(Append(groups', <<Last(total)[1], Last(total)[2]>>), sorted, 0 .. m + len - 1)
  BY <1>17, ListChunkRuns
<1>19. Last(total)[1] # Invalid
  <2>1. Last(total)[1] \in 0 .. ExpertNum - 1
    BY <1>4, <1>15, <1>18
  <2> QED  BY <2>1 DEF Invalid
<1>20. /\ openRun'.loop = openRun.loop + 1 /\ openRun'.lastExpertId = Last(total)[1]
       /\ openRun'.tokenCount = Last(total)[2]
  BY <1>1
<1>21. Listed' = m + len
  BY <1>2, <1>4, <1>6, <1>7, <1>8, <1>20 DEF Listed, len
<1>22. Opened' = Append(groups', <<Last(total)[1], Last(total)[2]>>)
  BY <1>19, <1>20 DEF Opened
<1>23. OpenInv'
  <2>1. IsRuns(Opened, sorted, 0 .. Listed - 1)'
    <3> DEFINE last == <<Last(total)[1], Last(total)[2]>>
    <3>1. IsRuns(Append(groups', last), sorted, 0 .. m + len - 1)
      BY <1>18
    <3>2. Opened' = Append(groups', last) /\ Listed' = m + len /\ sorted' = sorted
      BY <1>2, <1>21, <1>22
    <3> HIDE DEF last
    <3>3. IsRuns(Opened', sorted', 0 .. Listed' - 1)
      BY <1>7, <3>1, <3>2
    <3> QED  BY <3>3 DEF IsRuns
  <2>2. openRun'.loop \in Nat /\ openRun'.tokenCount \in Nat /\ openRun'.lastExpertId \in Int
        /\ openRun'.lastExpertId # Invalid'
    BY <1>6, <1>18, <1>19, <1>20 DEF Invalid
  <2> QED  BY <2>1, <2>2 DEF OpenInv
<1>24. needSchedule' = needSchedule
  BY <1>2 DEF tiling
<1>25. GroupInv'
  BY <1>1, <1>2, <1>3, <1>18, <1>23, <1>24 DEF GroupInv
<1>26. pc' = [pc EXCEPT ![LastCoreId] = "out"]
  BY <1>1, <1>2, <1>3
<1>27. ~MultiList
  BY <1>1 DEF MultiList
<1> QED  BY <1>1, <1>2, <1>25, <1>26, <1>27, LastFrame

(* The last core closes the open run.                                      *)
LEMMA WorkListGroups ==
  ASSUME FInv, ListGroups
  PROVE  WorkInv'
<1>1. /\ pc[LastCoreId] = "out" /\ ~MultiList /\ ~(needSchedule /\ MoreChunks)
      /\ openRun' = NoRun /\ pc' = [pc EXCEPT ![LastCoreId] = "done"]
      /\ UNCHANGED <<tiling, window, context, mbId, work, rows, attn>>
      /\ count' = count /\ sorted' = sorted /\ needSchedule' = needSchedule
  BY DEF ListGroups, Goto, work, tiling
<1>2. pc \in [Cores -> Places] /\ LastCoreId \in Cores /\ pc[0] \in Late /\ pc'[LastCoreId] = "done"
  <2>1. pc[LastCoreId] \in Late
    BY <1>1 DEF Late, Stage5
  <2> QED  BY <1>1, <2>1, OneStage
<1>3. count \in Nat /\ \A j \in 0 .. count - 1 : sorted[j][1] \in Int
  BY <1>2, SortedFacts
<1>4. PICK g0 \in Nat : groups \in [1 .. g0 -> Run]
  BY DEF FInv, WorkInv, GroupInv
<1>5. AllListed' /\ \E n \in Nat : groups' \in [1 .. n -> Run]
  <2>1. CASE needSchedule
    <3>1. OpenInv
      BY <1>1, <2>1 DEF FInv, WorkInv, GroupInv
    <3>2. Listed = count
      <4>1. openRun.loop \in Nat /\ PerLoopRows \in Nat
        BY <3>1, BatchingAssumption DEF OpenInv
      <4>2. openRun.loop * PerLoopRows \in Nat /\ ~(openRun.loop * PerLoopRows < count)
        BY <1>1, <2>1, <4>1 DEF MoreChunks
      <4> QED  BY <1>3, <4>2 DEF Listed
    <3>3. groups' = Opened
      BY <2>1 DEF ListGroups, Opened
    <3>4. IsRuns(groups', sorted', 0 .. count' - 1)
      BY <1>1, <3>1, <3>2, <3>3 DEF OpenInv
    <3>5. \E n \in Nat : groups' \in [1 .. n -> Run]
      <4>1. CASE openRun.lastExpertId = Invalid
        BY <1>4, <3>3, <4>1 DEF Opened
      <4>2. CASE openRun.lastExpertId # Invalid
        <5>1. <<openRun.lastExpertId, openRun.tokenCount>> \in Run
          BY <3>1 DEF OpenInv, Run
        <5> DEFINE x == <<openRun.lastExpertId, openRun.tokenCount>>
        <5>2. groups' = Append(groups, x)
          BY <3>3, <4>2 DEF Opened
        <5> HIDE DEF x
        <5>3. x \in Run
          BY <5>1 DEF x
        <5>4. groups' \in [1 .. g0 + 1 -> Run] /\ g0 + 1 \in Nat
          BY <1>4, <5>2, <5>3, AppendRun
        <5> QED  BY <5>4
      <4> QED  BY <4>1, <4>2
    <3> QED  BY <3>4, <3>5 DEF AllListed
  <2>2. CASE ~needSchedule /\ count > 0
    <3> DEFINE seq == [j \in 1 .. count |-> sorted[j - 1][1]]
    <3>1. groups' = RunsOf(seq)
      BY <2>2 DEF ListGroups
    <3>2. \A j \in 0 .. 0 + count - 1 : sorted[j][1] \in Int
      BY <1>3
    <3>3. seq = [j \in 1 .. count |-> sorted[0 + j - 1][1]]
      BY <1>3
    <3> HIDE DEF seq
    <3>4. ChunkCase(sorted, 0, count, seq)
      BY <1>3, <3>2, <3>3 DEF ChunkCase
    <3>5. \E n \in Nat : RunsOf(seq) \in [1 .. n -> Run] /\ IsRuns(RunsOf(seq), sorted, 0 .. 0 + count - 1)
      BY <3>4, RunsOfInterval DEF Run
    <3>6. 0 + count - 1 = count - 1
      BY <1>3
    <3> QED  BY <1>1, <3>1, <3>5, <3>6 DEF AllListed
  <2>3. CASE ~needSchedule /\ ~(count > 0)
    <3>1. count = 0
      BY <1>3, <2>3
    <3>2. PICK x \in -1 .. ExpertNum - 1 : groups' = <<<<x, 0>>>>
      BY <2>3 DEF ListGroups
    <3>3. <<x, 0>> \in Run
      BY ConstFacts DEF Run
    <3>4. groups' \in [1 .. 1 -> Run]
      BY <3>2, <3>3
    <3> QED  BY <1>1, <3>1, <3>2, <3>4 DEF AllListed
  <2> QED  BY <2>1, <2>2, <2>3
<1>6. GroupInv'
  <2>1. MultiList' = MultiList
    BY <1>1 DEF MultiList
  <2>2. pc'[LastCoreId] \in Late
    BY <1>2 DEF Late, Stage5
  <2> QED  BY <1>1, <1>2, <1>5, <2>1, <2>2 DEF GroupInv
<1> QED  BY <1>1, <1>6, LastFrame

(* The listing cores count every sorted id once.                           *)
LEMMA CountedPart ==
  ASSUME MultiList, count \in Nat
  PROVE  /\ \A c \in Cores : c >= GatherCores => CountedBy(c) \subseteq 0 .. count - 1
         /\ \A j \in 0 .. count - 1 : \E c \in Cores : c >= GatherCores /\ j \in CountedBy(c)
         /\ \A c, d \in Cores : c >= GatherCores /\ d >= GatherCores /\ c # d =>
              CountedBy(c) \cap CountedBy(d) = {}
<1> DEFINE g == GatherCores
           need == ListCoreNum
           share == count \div need
           F == [i \in 0 .. need - 1 |-> CountedBy(i + g)]
<1>1. g \in Nat \ {0} /\ need \in Nat \ {0} /\ CoreNum \in Nat /\ g = CoreNum - need
  BY GatherCoresFacts
<1>2. share \in Nat /\ need * share <= count
  BY <1>1, DivMod
<1>3. (need - 1) * share <= count
  <2> HIDE DEF need, share
  <2>1. (need - 1) * share = need * share - share /\ need * share \in Int
    BY <1>1, <1>2
  <2> QED  BY <1>1, <1>2, <2>1
<1> HIDE DEF g, need
<1>4. \A i \in 0 .. need - 1 :
        /\ CountedBy(i + g) = i * share .. IF i = need - 1 THEN count - 1 ELSE (i + 1) * share - 1
        /\ i + g \in Cores /\ i + g >= g
  <2> TAKE i \in 0 .. need - 1
  <2>1. (i + g) - g = i /\ (i + g = CoreNum - 1 <=> i = need - 1)
    BY <1>1
  <2>2. i * share + share - 1 = (i + 1) * share - 1
    BY <1>1, <1>2
  <2>3. CountedBy(i + g) = i * share .. IF i = need - 1 THEN count - 1 ELSE i * share + share - 1
    BY <2>1 DEF CountedBy, LastCoreId, g, need
  <2> QED  BY <1>1, <2>2, <2>3 DEF Cores
<1>5. \A c \in Cores : c >= g => c - g \in 0 .. need - 1 /\ (c - g) + g = c
  BY <1>1 DEF Cores
<1>6. /\ \A i \in 0 .. need - 1 : F[i] \subseteq 0 .. count - 1
      /\ \A j \in 0 .. count - 1 : \E i \in 0 .. need - 1 : j \in F[i]
      /\ \A i, k \in 0 .. need - 1 : i # k => F[i] \cap F[k] = {}
  <2>1. \A i \in 0 .. need - 1 : F[i] = i * share .. IF i = need - 1 THEN count - 1 ELSE (i + 1) * share - 1
    BY <1>4
  <2> HIDE DEF F, share
  <2>2. BlocksCase(count, need, share, F)
    BY <1>1, <1>2, <1>3, <2>1 DEF BlocksCase
  <2> QED  BY <2>2, BlocksPart
<1>7. \A c \in Cores : c >= g => CountedBy(c) = F[c - g]
  BY <1>5
<1> HIDE DEF F
<1>8. \A c \in Cores : c >= g => CountedBy(c) \subseteq 0 .. count - 1
  BY <1>5, <1>6, <1>7
<1>9. \A j \in 0 .. count - 1 : \E c \in Cores : c >= g /\ j \in CountedBy(c)
  <2> TAKE j \in 0 .. count - 1
  <2>1. PICK i \in 0 .. need - 1 : j \in F[i]
    BY <1>6
  <2>2. CountedBy(i + g) = F[i]
    BY DEF F
  <2> QED  BY <1>4, <2>1, <2>2
<1>10. ASSUME NEW c \in Cores, NEW d \in Cores, c >= g, d >= g, c # d
       PROVE  CountedBy(c) \cap CountedBy(d) = {}
  <2>1. c - g # d - g
    BY <1>1, <1>10 DEF Cores
  <2> QED  BY <1>5, <1>6, <1>7, <1>10, <2>1
<1> QED  BY <1>8, <1>9, <1>10 DEF g

(* A listing core counts the experts of its share.                         *)
LEMMA WorkCountExperts ==
  ASSUME FInv, NEW c \in Cores, CountExperts(c)
  PROVE  WorkInv'
<1>1. /\ pc[c] = "out" /\ MultiList /\ c >= GatherCores /\ pc' = [pc EXCEPT ![c] = "done"]
      /\ UNCHANGED <<tiling, window, context, mbId, attn, count, part, sorted>>
      /\ rows' = rows /\ groups' = groups /\ openRun' = openRun
      /\ tally' = [e \in DOMAIN tally |->
           tally[e] + Cardinality({j \in CountedBy(c) : sorted[j][1] = e})]
  BY DEF CountExperts, Goto, output
<1>2. /\ LaunchInv' /\ OutInv' /\ DataInv' /\ EndInv' /\ SortInv' /\ MergeInv'
      /\ needSchedule' = needSchedule /\ MultiList' = MultiList /\ GatherCores' = GatherCores
      /\ \A row : Target(row)' = Target(row)
      /\ pc[0] \in Late /\ pc'[0] \in Late /\ pc'[0] \notin {"idle"} \cup Stage2 \cup Stage3 \cup Stage4
      /\ \A d \in Cores : pc'[d] = IF d = c THEN "done" ELSE pc[d]
  BY <1>1, LateFrame
<1>3. count \in Nat /\ count <= SessionNum * SlotNum /\ SessionNum * SlotNum \in Nat
  BY <1>2, SortedFacts, ConstFacts
<1>4. /\ \A d \in Cores : d >= GatherCores => CountedBy(d) \subseteq 0 .. count - 1
      /\ \A d \in Cores : d >= GatherCores /\ d # c => CountedBy(d) \cap CountedBy(c) = {}
  BY <1>1, <1>3, CountedPart
<1>5. tally = [e \in 0 .. ExpertNum - 1 |-> Cardinality({j \in Counted : sorted[j][1] = e})]
  BY <1>1, <1>2 DEF FInv, WorkInv, TallyInv
<1>6. Counted' = Counted \cup CountedBy(c)
  <2>1. \A d : CountedBy(d)' = CountedBy(d)
    BY <1>1, <1>2 DEF CountedBy
  <2>2. {d \in Cores : d >= GatherCores' /\ pc'[d] \in Over}
          = {d \in Cores : d >= GatherCores /\ pc[d] \in Over} \cup {c}
    BY <1>1, <1>2 DEF Over
  <2> QED  BY <2>1, <2>2 DEF Counted
<1>7. Counted \subseteq 0 .. count - 1 /\ Counted \cap CountedBy(c) = {}
  <2>1. \A d \in Cores : pc[d] \in Over => d # c
    BY <1>1 DEF Over
  <2> QED  BY <1>4, <2>1 DEF Counted
<1>8. CountedBy(c) \subseteq 0 .. count - 1 /\ IsFiniteSet(0 .. count - 1) /\ Cardinality(0 .. count - 1) = count
  <2>1. 0 \in Int /\ count - 1 \in Int
    BY <1>3
  <2>2. IsFiniteSet(0 .. count - 1) /\ Cardinality(0 .. count - 1) = IF 0 > count - 1 THEN 0 ELSE count - 1 - 0 + 1
    BY <2>1, FS_Interval
  <2> QED  BY <1>1, <1>3, <1>4, <2>2
<1>9. ASSUME NEW e \in 0 .. ExpertNum - 1
      PROVE  /\ tally'[e] = Cardinality({j \in Counted' : sorted[j][1] = e})
             /\ tally'[e] \in 0 .. SessionNum * SlotNum
  <2> DEFINE A == {j \in Counted : sorted[j][1] = e}
             B == {j \in CountedBy(c) : sorted[j][1] = e}
             D == {j \in Counted' : sorted[j][1] = e}
  <2>1. D = A \cup B
    BY <1>6
  <2>2. A \cap B = {} /\ A \subseteq 0 .. count - 1 /\ B \subseteq 0 .. count - 1 /\ D \subseteq 0 .. count - 1
    BY <1>7, <1>8, <2>1
  <2>3. tally'[e] = Cardinality(A) + Cardinality(B)
    BY <1>1, <1>5
  <2> HIDE DEF A, B, D
  <2>4. IsFiniteSet(A) /\ IsFiniteSet(B) /\ IsFiniteSet(D) /\ Cardinality(D) <= count
    BY <1>8, <2>2, FS_Subset
  <2>5. Cardinality(A) \in Nat /\ Cardinality(B) \in Nat /\ Cardinality(D) \in Nat
    BY <2>4, FS_CardinalityType
  <2>6. Cardinality(D) = Cardinality(A) + Cardinality(B)
    <3>1. Cardinality(A \cup B) = Cardinality(A) + Cardinality(B) - Cardinality(A \cap B)
      BY <2>4, FS_Union
    <3>2. Cardinality(A \cap B) = 0
      BY <2>2, FS_EmptySet
    <3> QED  BY <2>1, <2>5, <3>1, <3>2
  <2>7. tally'[e] = Cardinality(D) /\ tally'[e] \in 0 .. SessionNum * SlotNum
    BY <1>3, <2>3, <2>4, <2>5, <2>6
  <2> QED  BY <2>7 DEF D
<1>10. DOMAIN tally = 0 .. ExpertNum - 1
  BY <1>5
<1>11. TallyInv'
  <2>1. tally' = [e \in 0 .. ExpertNum - 1 |-> Cardinality({j \in Counted' : sorted[j][1] = e})]
    BY <1>1, <1>9, <1>10
  <2>2. tally' = [e \in 0 .. ExpertNum - 1 |-> Cardinality({j \in Counted : sorted[j][1] = e})]'
    BY <1>1, <2>1
  <2> QED  BY <1>2, <2>2 DEF TallyInv, Stage2
<1>12. BufInv'
  <2>1. tally' \in [0 .. ExpertNum - 1 -> 0 .. SessionNum * SlotNum]
    <3>1. tally' = [e \in 0 .. ExpertNum - 1 |-> tally'[e]]
      BY <1>1, <1>10
    <3> QED  BY <1>9, <3>1
  <2> QED  BY <1>1, <2>1 DEF FInv, WorkInv, BufInv
<1>13. GatherInv'
  <2>1. \A d \in Cores : d < GatherCores => d # c
    BY <1>1, GatherCoresFacts DEF Cores
  <2> QED  BY <1>1, <1>2, <2>1 DEF FInv, WorkInv, GatherInv
<1>14. GroupInv'
  <2>1. LastCoreId \in Cores
    BY ConstFacts
  <2>2. CASE c = LastCoreId
    <3>1. groups = <<>> /\ openRun = NoRun /\ \E n \in Nat : groups \in [1 .. n -> Run]
      BY <1>1, <2>2 DEF FInv, WorkInv, GroupInv, MultiList
    <3>2. pc'[LastCoreId] = "done"
      BY <1>2, <2>1, <2>2
    <3> QED  BY <1>1, <1>2, <3>1, <3>2 DEF GroupInv
  <2>3. CASE c # LastCoreId
    BY <1>1, <1>2, <2>1, <2>3, GroupKept
  <2> QED  BY <2>2, <2>3
<1> QED  BY <1>2, <1>11, <1>12, <1>13, <1>14 DEF WorkInv

(* The last core lists the counts, those of zero left out.                 *)
LEMMA WorkListCounts ==
  ASSUME FInv, ListCounts
  PROVE  WorkInv'
<1>1. /\ pc[LastCoreId] = "list" /\ pc' = [pc EXCEPT ![LastCoreId] = "end"]
      /\ UNCHANGED <<tiling, window, context, mbId, attn, count, part, sorted>>
      /\ rows' = rows /\ tally' = tally /\ openRun' = openRun
  BY DEF ListCounts, Goto, work
<1>2. /\ 0 \in Cores /\ LastCoreId \in Cores /\ \A d \in Cores : pc[d] \in Stage6
  <2>1. pc[LastCoreId] \in Stage6
    BY <1>1 DEF Stage6
  <2> QED  BY <2>1, OneStage
<1>3. /\ LaunchInv' /\ OutInv' /\ DataInv' /\ EndInv' /\ SortInv' /\ MergeInv'
      /\ needSchedule' = needSchedule /\ MultiList' = MultiList /\ GatherCores' = GatherCores
      /\ \A row : Target(row)' = Target(row)
      /\ pc[0] \in Late /\ pc'[0] \in Late /\ pc'[0] \notin {"idle"} \cup Stage2 \cup Stage3 \cup Stage4
      /\ \A d \in Cores : pc'[d] = IF d = LastCoreId THEN "end" ELSE pc[d]
  BY <1>1, <1>2, LateFrame, ZenonT(30)
<1>4. \A d \in Cores : pc[d] \in Over /\ pc'[d] \in Over
  BY <1>2, <1>3 DEF Over, Stage6
<1>5. count \in Nat /\ \A j \in 0 .. count - 1 : sorted[j][1] \in 0 .. ExpertNum - 1 /\ sorted[j][1] \in Int
  BY <1>3, SortedFacts
<1>6. BufInv'
  BY <1>1 DEF FInv, WorkInv, BufInv
<1>7. GatherInv'
  BY <1>1, <1>3, <1>4 DEF FInv, WorkInv, GatherInv
<1>8. TallyInv'
  <2>1. Counted' = Counted
    <3>1. \A d : CountedBy(d)' = CountedBy(d)
      BY <1>1, <1>3 DEF CountedBy
    <3>2. {d \in Cores : d >= GatherCores' /\ pc'[d] \in Over} = {d \in Cores : d >= GatherCores /\ pc[d] \in Over}
      BY <1>3, <1>4
    <3> QED  BY <3>1, <3>2 DEF Counted
  <2> QED  BY <1>1, <1>3, <2>1 DEF FInv, WorkInv, TallyInv, Stage2
<1>9. (IsRuns(groups', sorted, 0 .. count - 1) \/ (count = 0 /\ \E e \in -1 .. ExpertNum - 1 : groups' = <<<<e, 0>>>>))
      /\ \E n \in Nat : groups' \in [1 .. n -> Run]
  <2>1. CASE ~MultiList
    <3>1. groups' = groups
      BY <2>1 DEF ListCounts
    <3> QED  BY <1>1, <2>1, <3>1 DEF FInv, WorkInv, GroupInv, AllListed
  <2>2. CASE MultiList
    <3> DEFINE At(e) == {j \in 0 .. count - 1 : sorted[j][1] = e}
               some == {e \in DOMAIN tally : tally[e] > 0}
               used == InOrder(some, Below(some))
               n == Cardinality(some)
    <3>1. Counted = 0 .. count - 1
      BY <1>4, <1>5, <2>2, CountedPart DEF Counted
    <3>2. tally = [e \in 0 .. ExpertNum - 1 |-> Cardinality(At(e))]
      BY <1>3, <2>2, <3>1 DEF FInv, WorkInv, TallyInv
    <3>3. groups' = [k \in DOMAIN used |-> <<used[k], tally[used[k]]>>]
      BY <2>2 DEF ListCounts
    <3>4. \A e : At(e) \subseteq 0 .. count - 1 /\ IsFiniteSet(At(e)) /\ Cardinality(At(e)) \in Nat
      <4>1. IsFiniteSet(0 .. count - 1)
        <5>1. 0 \in Int /\ count - 1 \in Int
          BY <1>5
        <5> QED  BY <5>1, FS_Interval
      <4> TAKE e
      <4>2. At(e) \subseteq 0 .. count - 1
        OBVIOUS
      <4> HIDE DEF At
      <4>3. IsFiniteSet(At(e))
        BY <4>1, <4>2, FS_Subset
      <4> QED  BY <4>2, <4>3, FS_CardinalityType
    <3>5. \A e : (Cardinality(At(e)) > 0 <=> At(e) # {})
      <4> TAKE e
      <4> HIDE DEF At
      <4>1. IsFiniteSet(At(e)) /\ Cardinality(At(e)) \in Nat
        BY <3>4
      <4>2. Cardinality(At(e)) = 0 <=> At(e) = {}
        BY <4>1, FS_EmptySet
      <4> QED  BY <4>1, <4>2
    <3> HIDE DEF At
    <3>6. some = {e \in 0 .. ExpertNum - 1 : At(e) # {}}
      BY <3>2, <3>5
    <3>7. some \in SUBSET Int /\ IsFiniteSet(some)
      <4>1. 0 \in Int /\ ExpertNum - 1 \in Int
        BY ConstFacts
      <4>2. IsFiniteSet(0 .. ExpertNum - 1)
        BY <4>1, FS_Interval
      <4> HIDE DEF some
      <4>3. some \subseteq 0 .. ExpertNum - 1
        BY <3>6
      <4>4. IsFiniteSet(some)
        BY <4>2, <4>3, FS_Subset
      <4> QED  BY <4>3, <4>4
    <3> HIDE DEF some
    <3>8. /\ n \in Nat /\ used \in [1 .. n -> some]
          /\ \A x \in some : \E k \in 1 .. n : used[k] = x
          /\ \A j, k \in 1 .. n : j < k => used[j] < used[k]
      <4>1. StrictOrder(some, Below(some)) /\ \A x, y \in some : <<x, y>> \in Below(some) <=> x < y
        BY <3>7, BelowStrict
      <4>2. /\ n \in Nat /\ used \in [1 .. n -> some]
            /\ \A x \in some : \E k \in 1 .. n : used[k] = x
            /\ \A j, k \in 1 .. n : j < k => <<used[j], used[k]>> \in Below(some)
        BY <3>7, <4>1, InOrderFacts
      <4> HIDE DEF used, n
      <4> QED  BY <4>1, <4>2
    <3> HIDE DEF used, n
    <3>9. DOMAIN groups' = 1 .. n /\ \A k \in 1 .. n : groups'[k] = <<used[k], tally[used[k]]>>
      BY <3>3, <3>8
    <3>10. \A k \in 1 .. n : /\ used[k] \in some /\ used[k] \in 0 .. ExpertNum - 1 /\ used[k] \in Int
                             /\ tally[used[k]] = Cardinality(At(used[k])) /\ At(used[k]) # {}
      <4> TAKE k \in 1 .. n
      <4>1. used[k] \in some
        BY <3>8
      <4>2. used[k] \in 0 .. ExpertNum - 1 /\ At(used[k]) # {}
        BY <3>6, <4>1
      <4> QED  BY <3>2, <3>7, <4>1, <4>2
    <3>11. \A k \in 1 .. n : groups'[k][1] = used[k] /\ groups'[k][2] = Cardinality(At(used[k]))
      BY <3>9, <3>10
    <3>12. groups' \in [1 .. n -> Run]
      <4>1. \A k \in 1 .. n : <<used[k], tally[used[k]]>> \in Run
        BY <3>4, <3>10 DEF Run
      <4>2. groups' = [k \in 1 .. n |-> <<used[k], tally[used[k]]>>]
        BY <3>3, <3>8
      <4> QED  BY <4>1, <4>2
    <3>13. IsRuns(groups', sorted, 0 .. count - 1)
      <4>1. \A k \in DOMAIN groups' : groups'[k][2] = Cardinality({j \in 0 .. count - 1 : sorted[j][1] = groups'[k][1]})
        BY <3>9, <3>11 DEF At
      <4>2. \A i, k \in DOMAIN groups' : i < k => groups'[i][1] < groups'[k][1]
        BY <3>8, <3>9, <3>11
      <4>3. \A k \in DOMAIN groups' : \E j \in 0 .. count - 1 : sorted[j][1] = groups'[k][1]
        <5> TAKE k \in DOMAIN groups'
        <5>1. k \in 1 .. n /\ groups'[k][1] = used[k] /\ At(used[k]) # {}
          BY <3>9, <3>10, <3>11
        <5>2. PICK j \in At(used[k]) : TRUE
          BY <5>1
        <5> QED  BY <5>1, <5>2 DEF At
      <4>4. ASSUME NEW j \in 0 .. count - 1 PROVE \E k \in DOMAIN groups' : groups'[k][1] = sorted[j][1]
        <5>1. sorted[j][1] \in 0 .. ExpertNum - 1 /\ j \in At(sorted[j][1])
          BY <1>5 DEF At
        <5>2. sorted[j][1] \in some
          BY <3>6, <5>1
        <5>3. PICK k \in 1 .. n : used[k] = sorted[j][1]
          BY <3>8, <5>2
        <5> QED  BY <3>9, <3>11, <5>3
      <4> QED  BY <4>1, <4>2, <4>3, <4>4 DEF IsRuns
    <3> QED  BY <3>8, <3>12, <3>13
  <2> QED  BY <2>1, <2>2
<1>10. GroupInv'
  <2>1. AllListed'
    BY <1>1, <1>9 DEF AllListed, IsRuns
  <2>2. openRun' = NoRun
    BY <1>1 DEF FInv, WorkInv, GroupInv
  <2>3. pc'[LastCoreId] = "end" /\ pc'[LastCoreId] \in Late
    BY <1>2, <1>3 DEF Late, Stage6
  <2> QED  BY <1>9, <2>1, <2>2, <2>3 DEF GroupInv
<1> QED  BY <1>3, <1>6, <1>7, <1>8, <1>10 DEF WorkInv

(* The answer: the next launch finds nothing of this one.                  *)
LEMMA WorkRespond ==
  ASSUME FInv, Respond
  PROVE  WorkInv'
<1>1. /\ Done /\ pc' = [c \in Cores |-> "idle"] /\ out' = <<>>
      /\ part' = [c \in Cores |-> {}] /\ sorted' = Free
      /\ rows' = [j \in 0 .. SessionNum * SlotNum - 1 |-> NoRow] /\ groups' = <<>>
      /\ UNCHANGED <<tiling, window, pollingIndex, mbId, count, tally, openRun, attn>>
      /\ data' = data /\ count' = count /\ tally' = tally /\ openRun' = openRun
      /\ needSchedule' = needSchedule /\ sortLoopMax' = sortLoopMax
  BY DEF Respond, window, tiling
<1>2. 0 \in Cores /\ LastCoreId \in Cores
  BY ConstFacts
<1>3. pc'[0] = "idle" /\ pc'[LastCoreId] = "idle"
  BY <1>1, <1>2
<1>4. pc'[0] \notin Stage2 \cup Stage3 \cup Stage4 \cup Late \cup Stage6 /\ pc'[LastCoreId] \notin Late
  BY <1>3 DEF Stage2, Stage3, Stage4, Late, Stage5, Stage6
<1>5. LaunchInv' /\ OutInv' /\ EndInv'
  BY <1>1, <1>4 DEF FInv, WorkInv, LaunchInv, OutInv, EndInv
<1>6. DataInv'
  BY <1>1, DataSame
<1>7. BufInv'
  <2>1. SessionNum * SlotNum \in Nat /\ SessionNum * BsKPad \in Nat \ {0} /\ Invalid \in -1 .. ExpertNum - 1
    BY ConstFacts
  <2>2. <<Invalid, 0>> \in (-1 .. ExpertNum - 1) \X (0 .. SessionNum * BsKPad - 1)
    BY <2>1
  <2>3. sorted' \in [0 .. SessionNum * SlotNum - 1 ->
                       (-1 .. ExpertNum - 1) \X (0 .. SessionNum * BsKPad - 1)]
    BY <1>1, <2>2 DEF Free
  <2> QED  BY <1>1, <2>3 DEF FInv, WorkInv, BufInv
<1>8. SortInv' /\ MergeInv' /\ GatherInv' /\ TallyInv'
  BY <1>1, <1>3, <1>4 DEF SortInv, MergeInv, GatherInv, TallyInv
<1>9. GroupInv'
  <2>1. pc[LastCoreId] # "out"
    BY <1>1, <1>2 DEF Done, AllAt
  <2>2. openRun = NoRun
    BY <2>1 DEF FInv, WorkInv, GroupInv
  <2>3. groups' \in [1 .. 0 -> Run] /\ 0 \in Nat
    BY <1>1
  <2> QED  BY <1>1, <1>3, <1>4, <2>2, <2>3 DEF GroupInv
<1> QED  BY <1>5, <1>6, <1>7, <1>8, <1>9 DEF WorkInv

(* At first nothing is sent and nothing done.                              *)
LEMMA InitWork == Init => WorkInv
<1> SUFFICES ASSUME Init PROVE WorkInv
  OBVIOUS
<1>1. 0 \in Cores /\ LastCoreId \in Cores
  BY ConstFacts
<1>2. pc[0] = "idle" /\ pc[LastCoreId] = "idle"
  BY <1>1 DEF Init
<1>3. pc[0] \notin Stage2 \cup Stage3 \cup Stage4 \cup Late \cup Stage6 /\ pc[LastCoreId] \notin Late
  BY <1>2 DEF Stage2, Stage3, Stage4, Late, Stage5, Stage6
<1>4. LaunchInv
  <2>1. PICK l \in Launches : needSchedule = l.needSchedule /\ sortLoopMax = l.sortLoopMax
    BY DEF Init
  <2>2. l \in [needSchedule: BOOLEAN, sortLoopMax: Nat \ {0}]
    BY BatchingAssumption
  <2>3. [needSchedule |-> needSchedule, sortLoopMax |-> sortLoopMax] = l
    BY <2>1, <2>2
  <2> QED  BY <2>3 DEF LaunchInv
<1>5. OutInv /\ EndInv
  BY <1>3 DEF Init, OutInv, EndInv
<1>6. DataInv
  <2>1. RoundBound \in Nat
    BY BatchingAssumption DEF RoundBound
  <2>2. data = [p \in Pairs |-> -1] /\ sent = [p \in Pairs |-> 0]
    BY DEF Init, Invalid
  <2>3. \A p \in Pairs : sent[p] = 0 /\ sent[p] - 1 = -1
    BY <2>2
  <2> QED  BY <2>1, <2>2, <2>3 DEF DataInv
<1>7. BufInv
  <2>1. SessionNum * SlotNum \in Nat /\ SessionNum * BsKPad \in Nat \ {0} /\ Invalid \in -1 .. ExpertNum - 1
    BY ConstFacts
  <2>2. <<Invalid, 0>> \in (-1 .. ExpertNum - 1) \X (0 .. SessionNum * BsKPad - 1)
    BY <2>1
  <2>3. sorted \in [0 .. SessionNum * SlotNum - 1 ->
                      (-1 .. ExpertNum - 1) \X (0 .. SessionNum * BsKPad - 1)]
    BY <2>2 DEF Init, Free
  <2>4. /\ count = 0 /\ tally = [e \in 0 .. ExpertNum - 1 |-> 0] /\ 0 \in 0 .. SessionNum * SlotNum
        /\ rows = [j \in 0 .. SessionNum * SlotNum - 1 |-> NoRow]
    BY <2>1 DEF Init
  <2> QED  BY <2>3, <2>4 DEF BufInv
<1>8. SortInv /\ MergeInv /\ GatherInv /\ TallyInv
  BY <1>2, <1>3 DEF Init, SortInv, MergeInv, GatherInv, TallyInv
<1>9. GroupInv
  <2>1. groups \in [1 .. 0 -> Run] /\ 0 \in Nat /\ groups = <<>> /\ openRun = NoRun
    BY DEF Init
  <2> QED  BY <1>2, <1>3, <2>1 DEF GroupInv
<1> QED  BY <1>4, <1>5, <1>6, <1>7, <1>8, <1>9 DEF WorkInv

(* Every step keeps the work right.                                        *)
LEMMA StepWork == FInv /\ [Next]_vars => WorkInv'
<1> SUFFICES ASSUME FInv, [Next]_vars PROVE WorkInv'
  OBVIOUS
<1>1. CASE UNCHANGED vars
  BY <1>1, WorkStill
<1>2. ASSUME NEW s \in Sessions, NEW m \in MicroBatches, Send(s, m) PROVE WorkInv'
  BY <1>2, WorkSend
<1>3. ASSUME NEW taken \in SUBSET Pairs, Schedule(taken) PROVE WorkInv'
  BY <1>3, WorkSchedule
<1>4. CASE Launch
  BY <1>4, WorkLaunch
<1>5. CASE Scan
  BY <1>5, WorkScan
<1>6. CASE ClearFlags
  BY <1>6, WorkClearFlags
<1>7. CASE ListGroupChunk
  BY <1>7, WorkListGroupChunk
<1>8. CASE ListGroups
  BY <1>8, WorkListGroups
<1>9. CASE ListCounts
  BY <1>9, WorkListCounts
<1>10. CASE Barrier
  BY <1>10, WorkSyncScanned, WorkSyncWiped, WorkSyncMerged, WorkSyncDone DEF Barrier
<1>11. ASSUME NEW c \in Cores, Core(c) PROVE WorkInv'
  <2>1. CASE ReadContext(c)
    BY <2>1, WorkReadContext
  <2>2. CASE Sort(c)
    BY <2>2, WorkSort
  <2>3. CASE Merge(c)
    BY <2>3, WorkMerge
  <2>4. CASE Gather(c)
    BY <2>4, WorkGather
  <2>5. CASE CountExperts(c)
    BY <2>5, WorkCountExperts
  <2> QED  BY <1>11, <2>1, <2>2, <2>3, <2>4, <2>5 DEF Core
<1>12. CASE Respond
  BY <1>12, WorkRespond
<1>13. CASE SpinOnFlags
  BY <1>13, WorkStill DEF SpinOnFlags
<1>14. CASE Next
  BY <1>2, <1>3, <1>4, <1>5, <1>6, <1>7, <1>8, <1>9, <1>10, <1>11, <1>12, <1>13, <1>14 DEF Next,
     Operator
<1> QED  BY <1>1, <1>14

(* What a launch has done so far is right in every state: the sorted parts *)
(* hold what the sessions have sent, the merged list holds them all in     *)
(* order, the gathered rows are the senders' and the groups are the runs   *)
(* of the list (FfnWorkerBatching: sort, merge, gather and list of the     *)
(* kernel, for one launch after the other), as long as no core has read    *)
(* polling_index after core 0 moved it on.                                 *)
THEOREM WorkInvariance == Spec => [](late \/ FInv)
<1>1. Init => FInv
  BY InitIInv, InitWork DEF FInv
<1>2. (late \/ FInv) /\ [Next]_vars => (late \/ FInv)'
  BY StepIInv, StepWork, LateKept DEF FInv
<1> QED  BY <1>1, <1>2, PTL DEF Spec

----------------------------------------------------------------------------

(* What it says when the launch is done.                                   *)

(* The row of the token in a cell of the launch.                           *)
RowAt(z) == SentRow(<<PairAt[z[1]], z[2]>>)

(* The cells with an id are the tokens that were sent.                     *)
LEMMA SentFacts ==
  ASSUME TileInv
  PROVE  /\ \A z \in Used(Tokens, Cells) :
              /\ <<PairAt[z[1]], z[2]>> \in SentTokens
              /\ z[1] \in Entries /\ z[2] \in Slots /\ PairAt[z[1]] \in Pairs
              /\ Tokens[z] = want[PairAt[z[1]]][z[2]]
         /\ \A x \in SentTokens : \E z \in Used(Tokens, Cells) : x = <<PairAt[z[1]], z[2]>>
         /\ Cardinality(All) = Cardinality(SentTokens)
<1>1. /\ Cells \in SUBSET (Nat \X (0 .. RowLen - 1)) /\ IsFiniteSet(Cells)
      /\ PairAt \in [Entries -> Pairs] /\ RowLen \in Nat \ {0}
  BY EntryFacts, RowLenFacts
<1>2. /\ \A a \in Entries : PairAt[a] \in Taken
      /\ \A p \in Taken : p \in Pairs /\ \E a \in Entries : PairAt[a] = p
      /\ \A a, b \in Entries : PairAt[a] = PairAt[b] => a = b
  BY PairFacts
<1> DEFINE U == Used(Tokens, Cells)
           f == [z \in U |-> <<PairAt[z[1]], z[2]>>]
<1>3. \A z \in U : /\ z = <<z[1], z[2]>> /\ z[1] \in Entries /\ z[2] \in Slots /\ z \in Cells
                   /\ Tokens[z] = want[PairAt[z[1]]][z[2]] /\ Tokens[z] # Invalid
  BY DEF Used, Cells, Tokens
<1>4. \A a \in Entries, i \in Slots : want[PairAt[a]][i] # Invalid => <<a, i>> \in U
  <2> TAKE a \in Entries, i \in Slots
  <2> HAVE want[PairAt[a]][i] # Invalid
  <2>1. <<a, i>> \in Cells
    BY DEF Cells
  <2>2. Tokens[<<a, i>>] = want[PairAt[a]][i]
    BY <2>1 DEF Tokens
  <2> QED  BY <2>1, <2>2 DEF Used
<1> HIDE DEF U
<1>5. \A z \in U : <<PairAt[z[1]], z[2]>> \in SentTokens /\ PairAt[z[1]] \in Pairs
  BY <1>1, <1>2, <1>3 DEF SentTokens
<1>6. ASSUME NEW x \in SentTokens PROVE \E z \in U : x = <<PairAt[z[1]], z[2]>>
  <2>1. x[1] \in Taken /\ x[2] \in Slots /\ x = <<x[1], x[2]>> /\ want[x[1]][x[2]] # Invalid
    BY DEF SentTokens
  <2>2. PICK a \in Entries : PairAt[a] = x[1]
    BY <1>2, <2>1
  <2>3. <<a, x[2]>> \in U
    BY <1>4, <2>1, <2>2
  <2>4. <<a, x[2]>>[1] = a /\ <<a, x[2]>>[2] = x[2]
    OBVIOUS
  <2> QED  BY <2>1, <2>2, <2>3, <2>4
<1>7. Cardinality(All) = Cardinality(U)
  BY <1>1, TokenFacts DEF All, U
<1>8. Cardinality(U) = Cardinality(SentTokens)
  <2>1. IsFiniteSet(U)
    BY <1>1, FS_Subset DEF U, Used
  <2>2. f \in [U -> SentTokens] /\ \A z \in U : f[z] = <<PairAt[z[1]], z[2]>>
    BY <1>5
  <2> HIDE DEF f
  <2>3. \A y, z \in U : f[y] = f[z] => y = z
    <3> TAKE y \in U, z \in U
    <3> HAVE f[y] = f[z]
    <3>1. PairAt[y[1]] = PairAt[z[1]] /\ y[2] = z[2]
      BY <2>2
    <3> QED  BY <1>2, <1>3, <3>1
  <2>4. \A x \in SentTokens : \E z \in U : f[z] = x
    <3> TAKE x \in SentTokens
    <3>1. PICK z \in U : x = <<PairAt[z[1]], z[2]>>
      BY <1>6
    <3>2. f[z] = x
      BY <2>2, <3>1
    <3> QED  BY <3>2
  <2>5. f \in Surjection(U, SentTokens)
    BY <2>2, <2>4 DEF Surjection
  <2>6. f \in Injection(U, SentTokens)
    BY <2>2, <2>3 DEF Injection, IsInjective
  <2> QED  BY <2>1, <2>5, <2>6, FS_Surjection
<1> QED  BY <1>3, <1>5, <1>6, <1>7, <1>8 DEF U

(* At the end every core has gathered and everything is listed.            *)
LEMMA AtEnd ==
  ASSUME FInv, Done
  PROVE  pc[0] \in Late /\ AllListed /\ \A c \in Cores : pc[c] \in Over
<1>1. 0 \in Cores /\ LastCoreId \in Cores
  BY ConstFacts
<1>2. CASE needSchedule
  <2>1. \A c \in Cores : pc[c] = "done"
    BY <1>2 DEF Done, AllAt
  <2>2. AllListed
    BY <1>1, <1>2, <2>1 DEF FInv, WorkInv, GroupInv, MultiList
  <2> QED  BY <1>1, <2>1, <2>2 DEF Late, Stage5, Over
<1>3. CASE ~needSchedule
  <2>1. pc[LastCoreId] = "end"
    BY <1>3 DEF Done
  <2>2. \A c \in Cores : pc[c] \in Stage6
    <3>1. pc[LastCoreId] \in Stage6
      BY <2>1 DEF Stage6
    <3> QED  BY <3>1, OneStage
  <2>3. AllListed
    BY <2>1 DEF FInv, WorkInv, GroupInv
  <2> QED  BY <1>1, <2>2, <2>3 DEF Late, Stage6, Over
<1> QED  BY <1>2, <1>3

(* At the end the gathered rows are the rows of the sorted ids.            *)
LEMMA DoneRows ==
  ASSUME FInv, Done
  PROVE  /\ \A j \in 0 .. count - 1 : \E z \in Used(Tokens, Cells) :
              rows[j] = RowAt(z) /\ sorted[j][1] = Tokens[z]
         /\ \A z \in Used(Tokens, Cells) : \E j \in 0 .. count - 1 : rows[j] = RowAt(z)
<1>1. pc[0] \in Late /\ \A c \in Cores : pc[c] \in Over
  BY AtEnd
<1>2. /\ count \in Nat
      /\ \A j \in 0 .. count - 1 : sorted[j] \in All
      /\ \A x \in All : \E j \in 0 .. count - 1 : sorted[j] = x
  BY <1>1, SortedFacts
<1>3. \A j \in 0 .. count - 1 : rows[j] = Target(sorted[j][2])
  <2> TAKE j \in 0 .. count - 1
  <2>1. GatherCores \in Nat \ {0} /\ GatherCores <= LastCoreId /\ CoreNum \in Nat
    BY GatherCoresFacts
  <2>2. PICK c \in 0 .. GatherCores - 1 : j \in CeilChunk(c, count, GatherCores)
    BY <1>2, <2>1, CeilChunksCover
  <2>3. c \in Cores /\ c < GatherCores
    BY <2>1 DEF Cores, LastCoreId
  <2> QED  BY <1>1, <2>2, <2>3 DEF FInv, WorkInv, GatherInv
<1>4. /\ Cells \in SUBSET (Nat \X (0 .. RowLen - 1)) /\ RowLen \in Nat \ {0}
  BY TileKept, EntryFacts, RowLenFacts
<1>5. ASSUME NEW z \in Used(Tokens, Cells)
      PROVE  Target(z[1] * RowLen + z[2]) = RowAt(z)
  <2>1. z[1] \in Entries /\ z[1] \in Nat /\ z[2] \in 0 .. RowLen - 1
    <3>1. z[1] \in Entries
      BY TileKept, SentFacts
    <3>2. z \in Cells
      BY DEF Used
    <3> QED  BY <1>4, <3>1, <3>2
  <2> DEFINE row == z[1] * RowLen + z[2]
  <2>2. SessionOf(row) = z[1] /\ SlotOf(row) = z[2]
    <3>1. z[1] \in Nat /\ z[2] \in 0 .. RowLen - 1 /\ RowLen \in Nat \ {0}
      BY <1>4, <2>1
    <3>2. row \div RowLen = z[1] /\ row - z[1] * RowLen = z[2]
      BY <3>1, RowFacts
    <3> HIDE DEF row
    <3> QED  BY <3>2 DEF SessionOf, SlotOf
  <2>3. Rounds[z[1]] = sent[PairAt[z[1]]] - 1
    BY <2>1 DEF Rounds
  <2> HIDE DEF row
  <2>4. Target(row) = RowAt(z)
    BY <2>2, <2>3 DEF Target, RowAt, SentRow
  <2> QED  BY <2>4 DEF row
<1>6. \A j \in 0 .. count - 1 : \E z \in Used(Tokens, Cells) : sorted[j] = <<Tokens[z], z[1] * RowLen + z[2]>>
  BY <1>2 DEF All, TokenIds
<1>7. \A z \in Used(Tokens, Cells) : <<Tokens[z], z[1] * RowLen + z[2]>> \in All
  BY DEF All, TokenIds
<1>8. ASSUME NEW j \in 0 .. count - 1
      PROVE  \E z \in Used(Tokens, Cells) : rows[j] = RowAt(z) /\ sorted[j][1] = Tokens[z]
  <2>1. PICK z \in Used(Tokens, Cells) : sorted[j] = <<Tokens[z], z[1] * RowLen + z[2]>>
    BY <1>6
  <2>2. sorted[j][1] = Tokens[z] /\ sorted[j][2] = z[1] * RowLen + z[2]
    BY <2>1
  <2> QED  BY <1>3, <1>5, <2>2
<1>9. ASSUME NEW z \in Used(Tokens, Cells)
      PROVE  \E j \in 0 .. count - 1 : rows[j] = RowAt(z)
  <2>1. PICK j \in 0 .. count - 1 : sorted[j] = <<Tokens[z], z[1] * RowLen + z[2]>>
    BY <1>2, <1>7
  <2>2. sorted[j][2] = z[1] * RowLen + z[2]
    BY <2>1
  <2> QED  BY <1>3, <1>5, <2>2
<1> QED  BY <1>8, <1>9

(* And group_list cuts them where the expert changes.                      *)
LEMMA DoneGroups ==
  ASSUME FInv, Done
  PROVE  /\ RowsBefore(Len(groups) + 1) = count
         /\ \A k \in 1 .. Len(groups) :
              \A j \in RowsBefore(k) .. RowsBefore(k) + groups[k][2] - 1 :
                j \in 0 .. count - 1 /\ sorted[j][1] = groups[k][1]
<1>1. pc[0] \in Late /\ AllListed
  BY AtEnd
<1>2. /\ count \in Nat
      /\ \A j \in 0 .. count - 1 : sorted[j][1] \in Int
      /\ \A i, j \in 0 .. count - 1 : i < j => sorted[i][1] <= sorted[j][1]
  BY <1>1, SortedFacts
<1>3. PICK g \in Nat : groups \in [1 .. g -> Run]
  BY DEF FInv, WorkInv, GroupInv
<1>4. Len(groups) = g /\ g + 1 - 1 = g /\ \A k \in 1 .. g : Sizes[k] = groups[k][2]
  BY <1>3 DEF Sizes
<1>5. CASE IsRuns(groups, sorted, 0 .. count - 1)
  <2> HIDE DEF Sizes
  <2>1. RunsCase(sorted, count, g, groups, Sizes)
    BY <1>2, <1>3, <1>4, <1>5 DEF RunsCase, Run
  <2>2. SumOf(1 .. g, Sizes) = count
    BY <2>1, RunsCut
  <2>3. RowsBefore(g + 1) = count
    BY <1>4, <2>2 DEF RowsBefore
  <2>4. ASSUME NEW k \in 1 .. g, NEW j \in RowsBefore(k) .. RowsBefore(k) + groups[k][2] - 1
        PROVE  j \in 0 .. count - 1 /\ sorted[j][1] = groups[k][1]
    <3>1. j \in SumOf(1 .. k - 1, Sizes) .. SumOf(1 .. k - 1, Sizes) + groups[k][2] - 1
      BY DEF RowsBefore
    <3> QED  BY <2>1, <3>1, RunsCut
  <2> QED  BY <1>4, <2>3, <2>4
<1>6. CASE count = 0 /\ \E e \in -1 .. ExpertNum - 1 : groups = <<<<e, 0>>>>
  <2>1. PICK e \in -1 .. ExpertNum - 1 : groups = <<<<e, 0>>>>
    BY <1>6
  <2>2. Len(groups) = 1 /\ groups[1][2] = 0
    BY <2>1
  <2>3. Sizes = [k \in 1 .. 1 |-> 0]
    BY <2>1, <2>2 DEF Sizes
  <2>4. SumOf({}, Sizes) = 0
    BY SumEmpty
  <2>5. SumOf(1 .. 1, Sizes) = 0
    <3>1. {} \cup {1} = 1 .. 1 /\ Sizes[1] = 0 /\ 1 \notin {} /\ IsFiniteSet({})
      BY <2>3, FS_EmptySet
    <3>2. SumOf({} \cup {1}, Sizes) = SumOf({}, Sizes) + Sizes[1]
      <4> HIDE DEF Sizes
      <4> QED  BY <3>1, SumAdd
    <3> QED  BY <2>4, <3>1, <3>2
  <2>6. 1 .. 1 + 1 - 1 = 1 .. 1 /\ 1 .. 1 - 1 = {}
    OBVIOUS
  <2> HIDE DEF Sizes
  <2>7. RowsBefore(1) = 0 /\ RowsBefore(1 + 1) = 0
    BY <2>4, <2>5, <2>6 DEF RowsBefore
  <2>8. \A k \in 1 .. Len(groups) : k = 1
    BY <2>2
  <2> QED  BY <1>6, <2>2, <2>7, <2>8
<1> QED  BY <1>1, <1>5, <1>6 DEF AllListed

(* The invariant says what is promised at the end.                         *)
LEMMA InvExact == FInv => GatherExact
<1> SUFFICES ASSUME FInv, Done
             PROVE  /\ count = Cardinality(SentTokens)
                    /\ {rows[j] : j \in 0 .. count - 1} = {SentRow(x) : x \in SentTokens}
                    /\ RowsBefore(Len(groups) + 1) = count
                    /\ \A k \in 1 .. Len(groups) :
                         \A j \in RowsBefore(k) .. RowsBefore(k) + groups[k][2] - 1 :
                           SentTo(rows[j]) = groups[k][1]
  BY DEF GatherExact
<1>1. pc[0] \in Late
  BY AtEnd
<1>2. count = Cardinality(SentTokens)
  <2>1. count = Cardinality(All)
    BY <1>1, SortedFacts
  <2> QED  BY <2>1, TileKept, SentFacts
<1>3. \A z \in Used(Tokens, Cells) : /\ <<PairAt[z[1]], z[2]>> \in SentTokens
                                     /\ RowAt(z) = SentRow(<<PairAt[z[1]], z[2]>>)
                                     /\ PairAt[z[1]] \in Pairs
                                     /\ Tokens[z] = want[PairAt[z[1]]][z[2]]
  BY TileKept, SentFacts DEF RowAt
<1>4. {rows[j] : j \in 0 .. count - 1} = {SentRow(x) : x \in SentTokens}
  <2>1. ASSUME NEW j \in 0 .. count - 1 PROVE \E x \in SentTokens : rows[j] = SentRow(x)
    <3>1. PICK z \in Used(Tokens, Cells) : rows[j] = RowAt(z)
      BY DoneRows
    <3> QED  BY <1>3, <3>1
  <2>2. ASSUME NEW x \in SentTokens PROVE \E j \in 0 .. count - 1 : rows[j] = SentRow(x)
    <3>1. PICK z \in Used(Tokens, Cells) : x = <<PairAt[z[1]], z[2]>>
      BY TileKept, SentFacts
    <3>2. PICK j \in 0 .. count - 1 : rows[j] = RowAt(z)
      BY DoneRows
    <3> QED  BY <1>3, <3>1, <3>2
  <2> QED  BY <2>1, <2>2
<1>5. RowsBefore(Len(groups) + 1) = count
  BY DoneGroups
<1>6. ASSUME NEW k \in 1 .. Len(groups),
             NEW j \in RowsBefore(k) .. RowsBefore(k) + groups[k][2] - 1
      PROVE  SentTo(rows[j]) = groups[k][1]
  <2>1. j \in 0 .. count - 1 /\ sorted[j][1] = groups[k][1]
    BY <1>6, DoneGroups
  <2>2. PICK z \in Used(Tokens, Cells) : rows[j] = RowAt(z) /\ sorted[j][1] = Tokens[z]
    BY <2>1, DoneRows
  <2>3. /\ rows[j].session = PairAt[z[1]][1] /\ rows[j].microBatch = PairAt[z[1]][2]
        /\ rows[j].slot = z[2]
    BY <2>2 DEF RowAt, SentRow
  <2>4. PairAt[z[1]] = <<PairAt[z[1]][1], PairAt[z[1]][2]>>
    <3>1. PairAt[z[1]] \in Pairs
      BY <1>3
    <3> QED  BY <3>1 DEF Pairs
  <2> QED  BY <1>3, <2>1, <2>2, <2>3, <2>4 DEF SentTo
<1> QED  BY <1>2, <1>4, <1>5, <1>6

(* No more groups than experts.                                            *)
LEMMA GroupsFew ==
  ASSUME FInv
  PROVE  Len(groups) <= ExpertNum
<1>1. PICK g \in Nat : groups \in [1 .. g -> Run]
  BY DEF FInv, WorkInv, GroupInv
<1>2. Len(groups) = g /\ ExpertNum \in Nat \ {0} /\ LastCoreId \in Cores
  BY <1>1, ConstFacts
<1>3. CASE groups = <<>>
  BY <1>2, <1>3
<1>4. CASE groups # <<>>
  <2>1. pc[LastCoreId] \in Late
    BY <1>4 DEF FInv, WorkInv, GroupInv
  <2>2. pc[0] \in Late
    BY <1>2, <2>1, OneStage
  <2>3. /\ count \in Nat
        /\ \A j \in 0 .. count - 1 : sorted[j][1] \in 0 .. ExpertNum - 1
    BY <2>2, SortedFacts
  <2>4. CASE pc[LastCoreId] = "out"
    <3>1. OpenInv
      BY <1>4, <2>4 DEF FInv, WorkInv, GroupInv
    <3>2. IsRuns(Opened, sorted, 0 .. Listed - 1) /\ openRun.loop \in Nat
          /\ <<openRun.lastExpertId, openRun.tokenCount>> \in Run
      BY <3>1 DEF OpenInv, Run
    <3>3. Listed \in Nat /\ Listed <= count
      <4>1. PerLoopRows \in Nat
        BY BatchingAssumption
      <4>2. openRun.loop * PerLoopRows \in Nat
        BY <3>2, <4>1
      <4> QED  BY <2>3, <4>2 DEF Listed
    <3>4. \A j \in 0 .. Listed - 1 : sorted[j][1] \in 0 .. ExpertNum - 1
      BY <2>3, <3>3
    <3>5. PICK h \in Nat : Opened \in [1 .. h -> Run] /\ g <= h
      <4>1. CASE openRun.lastExpertId = Invalid
        BY <1>1, <4>1 DEF Opened
      <4>2. CASE openRun.lastExpertId # Invalid
        <5> DEFINE x == <<openRun.lastExpertId, openRun.tokenCount>>
        <5>1. Opened = Append(groups, x) /\ x \in Run
          BY <3>2, <4>2 DEF Opened
        <5> HIDE DEF x
        <5>2. Opened \in [1 .. g + 1 -> Run]
          BY <1>1, <5>1, AppendRun
        <5>3. g + 1 \in Nat /\ g <= g + 1
          BY <1>1
        <5> QED  BY <5>2, <5>3
      <4> QED  BY <4>1, <4>2
    <3>6. h <= ExpertNum
      <4>1. Opened \in [1 .. h -> Int \X Nat]
        BY <3>5 DEF Run
      <4> QED  BY <1>2, <3>2, <3>4, <4>1, RunsFew
    <3> QED  BY <1>2, <3>5, <3>6
  <2>5. CASE pc[LastCoreId] # "out"
    <3>1. AllListed
      BY <1>4, <2>1, <2>5 DEF FInv, WorkInv, GroupInv, Late, Stage5, Stage6
    <3>2. CASE IsRuns(groups, sorted, 0 .. count - 1)
      <4>1. groups \in [1 .. g -> Int \X Nat]
        BY <1>1 DEF Run
      <4> QED  BY <1>2, <2>3, <3>2, <4>1, RunsFew
    <3>3. CASE \E e \in -1 .. ExpertNum - 1 : groups = <<<<e, 0>>>>
      <4>1. Len(groups) = 1
        BY <3>3
      <4> QED  BY <1>2, <4>1
    <3> QED  BY <3>1, <3>2, <3>3 DEF AllListed
  <2> QED  BY <2>4, <2>5
<1> QED  BY <1>3, <1>4

(* And it says of which type the variables are.                            *)
LEMMA InvTypes == FInv => TypeOK
<1> SUFFICES ASSUME FInv PROVE TypeOK
  OBVIOUS
<1>1. /\ flag \in [Pairs -> {0, 1}] /\ ids \in [Pairs -> IdRow] /\ sent \in [Pairs -> Nat]
      /\ pollingIndex \in MicroBatches /\ mbId \in [Cores -> MicroBatches] /\ pc \in [Cores -> Places]
  BY DEF FInv, IInv, StateInv
<1>2. [needSchedule |-> needSchedule, sortLoopMax |-> sortLoopMax] \in Launches
  BY DEF FInv, WorkInv, LaunchInv
<1>3. data \in [Pairs -> -1 .. RoundBound - 1]
  <2>1. RoundBound \in Nat
    BY BatchingAssumption DEF RoundBound
  <2>2. data = [p \in Pairs |-> sent[p] - 1] /\ \A p \in Pairs : sent[p] <= RoundBound
    BY DEF FInv, WorkInv, DataInv
  <2>3. \A p \in Pairs : sent[p] - 1 \in -1 .. RoundBound - 1
    BY <1>1, <2>1, <2>2
  <2> QED  BY <2>2, <2>3
<1>4. Len(out) <= SessionNum
  <2>1. Len(out) \in 0 .. SessionNum /\ SessionNum \in Nat
    BY TileKept, OutFacts, ConstFacts
  <2> QED  BY <2>1
<1>5. /\ count \in 0 .. SessionNum * SlotNum
      /\ \A place \in DOMAIN sorted :
           sorted[place] \in (-1 .. ExpertNum - 1) \X (0 .. SessionNum * BsKPad - 1)
      /\ tally \in [0 .. ExpertNum - 1 -> 0 .. SessionNum * SlotNum]
  BY DEF FInv, WorkInv, BufInv
<1>6. Len(groups) <= ExpertNum
  BY GroupsFew
<1> QED  BY <1>1, <1>2, <1>3, <1>4, <1>5, <1>6 DEF TypeOK, IdRow, Places

(* When a launch is done, its rows are exactly the tokens sent in its      *)
(* rounds, and group_list cuts them into experts, for every number of      *)
(* sessions, micro-batches, slots, cores and experts, as long as no core   *)
(* has read polling_index after core 0 moved it on.                        *)
THEOREM GatheredExactly == Spec => []GatherExact
<1>1. late \/ FInv => GatherExact
  BY InvExact DEF GatherExact
<1> QED  BY <1>1, WorkInvariance, PTL

(* The type invariant of the batching, with its buffers within the sizes   *)
(* that the host has given them; proved until a core reads polling_index   *)
(* after core 0 has moved it on.                                           *)
THEOREM BatchingTypes == Spec => [](late \/ TypeOK)
<1>1. late \/ FInv => late \/ TypeOK
  BY InvTypes
<1> QED  BY <1>1, WorkInvariance, PTL

=============================================================================

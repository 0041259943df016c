---------------------- MODULE FfnWorkerSchedulerProofs ----------------------
(***************************************************************************)
(* Proofs about the FFN worker scheduler, for every number of sessions,    *)
(* micro-batches, groups, slots and rounds.                                *)
(***************************************************************************)
EXTENDS FfnWorkerScheduler, TLAPS

(***************************************************************************)
(* The inductive invariant.  The types alone are not inductive: out_num    *)
(* stays within the buffers because the group loop fills them from the     *)
(* left, and a round is served once because a flag, a running shard and an *)
(* output entry are three successive places of one outstanding round.      *)
(***************************************************************************)

(* The shards run only under ToOutput, for the sessions of one group. *)
ControlInv ==
  /\ pc # "output" => shard = [s \in Sessions |-> "none"]
  /\ pc = "output" => \A s \in Sessions : (s \in Group(grp)) <=> (shard[s] # "none")
  /\ pc \in {"loop", "scan", "recheck"} => outNum = 0
  /\ pc \in {"handle", "output"} => outNum <= Start(grp)
  /\ pc = "output" /\ GroupNum = 1 => grp = 0

(* The output list is sorted by session and ends before the current group. *)
ListInv ==
  /\ pc \in {"handle", "output"} => \A i \in 0 .. outNum - 1 : out[i].session < Start(grp)
  /\ pc # "idle" => \A i, j \in 0 .. outNum - 1 : i < j => out[i].session < out[j].session

(* A shard that has copied left the entry of its session at its own index. *)
CopyInv ==
  \A s \in Sessions : shard[s] \in {"reset", "clear", "done"} =>
    LET e == out[outNum + s - Start(grp)] IN
    e.session = s /\ e.microBatch = mb /\ e.layer = answered[<<s, mb>>]

(* An outstanding round is flagged or in hand, and only then.              *)
RoundInv ==
  \A p \in Pairs :
    /\ sent[p] = answered[p] + (IF flag[p] = 1 \/ p \in Hand THEN 1 ELSE 0)
    /\ flag[p] = 1 \/ p \in Hand => layerId[p] = answered[p] /\ tokenData[p] = answered[p]
    /\ pc # "idle" /\ Listed(p) => flag[p] = 0
    /\ shard[p[1]] \in {"copy", "reset", "clear"} /\ mb = p[2] => flag[p] = 1
    /\ shard[p[1]] = "done" /\ mb = p[2] => flag[p] = 0

(* The listed entries are the rounds their sessions wait for.              *)
EntryInv ==
  pc # "idle" => \A i \in 0 .. outNum - 1 :
    out[i].layer = answered[<<out[i].session, out[i].microBatch>>]

(* Tokens are written only to a descriptor with no outstanding round.      *)
WriteInv ==
  \A s \in Sessions : writing[s] =>
    LET p == <<s, turn[s]>> IN
    /\ flag[p] = 0
    /\ sent[p] = answered[p]
    /\ sent[p] < RoundNum
    /\ tokenData[p] = sent[p]

IInv ==
  TypeOK /\ ControlInv /\ ListInv /\ CopyInv /\ RoundInv /\ EntryInv /\ WriteInv

(***************************************************************************)
(* Arithmetic of the group loop.                                           *)
(***************************************************************************)

(* The quotient of the division that InitAndCheck makes exact. *)
LEMMA GroupNumFacts ==
  /\ GroupNum \in Nat \ {0}
  /\ SessionNum = GroupNum * SyncGroupSize
<1>1. /\ SessionNum \in Nat /\ SyncGroupSize \in Nat /\ SyncGroupSize > 0 /\ SessionNum > 0
      /\ SessionNum % SyncGroupSize = 0
  BY ContextAssumption
<1>2. /\ SessionNum \div SyncGroupSize \in Int
      /\ SessionNum = (SyncGroupSize * (SessionNum \div SyncGroupSize)) + (SessionNum % SyncGroupSize)
  BY <1>1
<1>3. SessionNum \div SyncGroupSize > 0
  BY <1>1, <1>2
<1> QED  BY <1>1, <1>2, <1>3 DEF GroupNum

(* start_session_id of consecutive groups, and the last end_session_id. *)
LEMMA StartFacts ==
  ASSUME NEW g \in Groups
  PROVE  /\ Start(g) \in Nat
         /\ Start(0) = 0
         /\ Start(g) + SyncGroupSize <= SessionNum
         /\ g < GroupNum - 1 => g + 1 \in Groups /\ Start(g + 1) = Start(g) + SyncGroupSize
         /\ g = GroupNum - 1 => Start(g) + SyncGroupSize = SessionNum
<1>1. /\ g \in Nat /\ g <= GroupNum - 1 /\ GroupNum \in Nat
      /\ SyncGroupSize \in Nat /\ SessionNum = GroupNum * SyncGroupSize
  BY GroupNumFacts, ContextAssumption DEF Groups
<1>2. g * SyncGroupSize \in Nat /\ (g + 1) * SyncGroupSize = g * SyncGroupSize + SyncGroupSize
  BY <1>1
<1>3. (g + 1) * SyncGroupSize <= GroupNum * SyncGroupSize
  BY <1>1
<1> QED  BY <1>1, <1>2, <1>3 DEF Start, Groups

LEMMA GroupFacts ==
  ASSUME NEW g \in Groups
  PROVE  /\ Group(g) \subseteq Sessions
         /\ \A s \in Sessions : s \in Group(g) <=> Start(g) <= s /\ s < Start(g) + SyncGroupSize
BY StartFacts, ContextAssumption DEF Group, Sessions

(***************************************************************************)
(* The refinement mapping.  WriteFlag posts, the step that forks the       *)
(* shards takes, Respond answers; every other step leaves box, hand and    *)
(* counters of the mailbox alone.  In particular ClearFlag drops the flag  *)
(* of a round that left its box when the group was found ready, and        *)
(* JoinOutput only moves the round from the shards to the list.            *)
(***************************************************************************)
Box == {p \in Pairs : flag[p] = 1 /\ p \notin Hand}

MailboxStutter == UNCHANGED <<Box, Hand, sent, answered>>

(* A box, as the invariants name its round. *)
LEMMA StutterFacts ==
  ASSUME Hand' = Hand, UNCHANGED <<sent, answered>>,
         \A p \in Pairs : p \notin Hand => (flag'[p] = 1 <=> flag[p] = 1)
  PROVE  MailboxStutter
BY DEF MailboxStutter, Box, Pairs

(***************************************************************************)
(* Every action preserves the invariant and is a step of the mailbox.      *)
(***************************************************************************)

LEMMA InitInv == Init => IInv
<1> SUFFICES ASSUME Init PROVE IInv
  OBVIOUS
<1>1. 0 \in Sessions /\ 0 \in MicroBatches /\ 0 \in Groups /\ NoIds \in Ids
  BY ContextAssumption, GroupNumFacts DEF Sessions, MicroBatches, Groups, NoIds, Ids
<1>2. TypeOK
  BY <1>1, ContextAssumption DEF Init, TypeOK, Entry, Sessions
<1>3. Hand = {}
  BY <1>1 DEF Init, Hand, Pairs
<1>4. ControlInv /\ ListInv /\ CopyInv /\ EntryInv /\ WriteInv
  BY DEF Init, ControlInv, ListInv, CopyInv, EntryInv, WriteInv
<1>5. RoundInv
  BY <1>3 DEF Init, RoundInv, Pairs
<1> QED  BY <1>2, <1>4, <1>5 DEF IInv

LEMMA WriteTokensInv ==
  ASSUME IInv, NEW s \in Sessions, WriteTokens(s)
  PROVE  IInv' /\ MailboxStutter
<1> DEFINE p == <<s, turn[s]>>
<1> USE DEF IInv
<1>1. p \in Pairs /\ turn[s] \in MicroBatches
  BY DEF TypeOK, Pairs
<1>2. /\ flag[p] = 0 /\ sent[p] = answered[p] /\ sent[p] \in Rounds
      /\ tokenData' = [tokenData EXCEPT ![p] = sent[p]]
      /\ writing' = [writing EXCEPT ![s] = TRUE]
      /\ UNCHANGED <<flag, layerId, context, control, sent, turn, answered>>
  BY <1>1, ContextAssumption DEF WriteTokens, MaySend, TypeOK, Rounds
<1>3. p \notin Hand
  BY <1>1, <1>2, ContextAssumption DEF RoundInv, TypeOK
<1>4. TypeOK'
  <2>1. PICK T \in Workloads :
          /\ tokens' = [tokens EXCEPT ![p] = T]
          /\ expertIds' = [expertIds EXCEPT ![p] =
                             [i \in Slots |-> IF i \in T THEN sent[p] ELSE @[i]]]
    BY DEF WriteTokens
  <2>2. T \in SUBSET Slots
    BY ContextAssumption DEF Slots
  <2>3. [i \in Slots |-> IF i \in T THEN sent[p] ELSE expertIds[p][i]] \in Ids
    BY <1>1, <1>2 DEF TypeOK, Ids
  <2>4. expertIds' \in [Pairs -> Ids] /\ tokens' \in [Pairs -> SUBSET Slots]
    BY <1>1, <2>1, <2>2, <2>3 DEF TypeOK
  <2> QED  BY <1>1, <1>2, <2>4 DEF TypeOK, context, control
<1>5. Hand' = Hand /\ \A q \in Pairs : Listed(q)' <=> Listed(q)
  BY <1>2 DEF Hand, Listed, context, control
<1>6. (ControlInv /\ ListInv /\ CopyInv /\ EntryInv)'
  BY <1>2 DEF ControlInv, ListInv, CopyInv, EntryInv, context, control
<1>7. RoundInv'
  BY <1>1, <1>2, <1>3, <1>5 DEF RoundInv, TypeOK, context, control
<1>8. WriteInv'
  <2> SUFFICES ASSUME NEW t \in Sessions, writing'[t]
               PROVE  LET q == <<t, turn[t]>> IN
                      flag[q] = 0 /\ sent[q] = answered[q] /\ sent[q] < RoundNum
                        /\ tokenData'[q] = sent[q]
    BY <1>2 DEF WriteInv
  <2>1. CASE t = s
    BY <2>1, <1>1, <1>2, ContextAssumption DEF TypeOK, Rounds
  <2>2. CASE t # s
    BY <2>2, <1>1, <1>2 DEF WriteInv, TypeOK, Pairs
  <2> QED  BY <2>1, <2>2
<1>9. MailboxStutter
  BY <1>2, <1>5, StutterFacts DEF attn
<1> QED  BY <1>4, <1>6, <1>7, <1>8, <1>9

LEMMA WriteFlagInv ==
  ASSUME IInv, NEW s \in Sessions, WriteFlag(s)
  PROVE  IInv' /\ Mailbox!Next
<1> DEFINE p == <<s, turn[s]>>
<1> USE DEF IInv
<1>1. p \in Pairs /\ turn[s] \in MicroBatches
  BY DEF TypeOK, Pairs
<1>2. /\ flag[p] = 0 /\ sent[p] = answered[p] /\ sent[p] < RoundNum /\ tokenData[p] = sent[p]
      /\ flag' = [flag EXCEPT ![p] = 1]
      /\ layerId' = [layerId EXCEPT ![p] = sent[p]]
      /\ sent' = [sent EXCEPT ![p] = sent[p] + 1]
      /\ turn' = [turn EXCEPT ![s] = (turn[s] + 1) % MicroBatchNum]
      /\ writing' = [writing EXCEPT ![s] = FALSE]
      /\ UNCHANGED <<expertIds, tokenData, context, control, tokens, answered>>
  BY <1>1 DEF WriteFlag, WriteInv
<1>3. p \notin Hand /\ sent[p] \in Rounds /\ sent[p] + 1 \in 0 .. RoundNum
  BY <1>1, <1>2, ContextAssumption DEF RoundInv, TypeOK, Rounds
<1>4. (turn[s] + 1) % MicroBatchNum \in MicroBatches
  BY <1>1, ContextAssumption DEF MicroBatches
<1>5. TypeOK'
  BY <1>1, <1>2, <1>3, <1>4 DEF TypeOK, context, control
<1>6. Hand' = Hand /\ \A q \in Pairs : Listed(q)' <=> Listed(q)
  BY <1>2 DEF Hand, Listed, context, control
<1>7. (ControlInv /\ ListInv /\ CopyInv /\ EntryInv)'
  BY <1>2 DEF ControlInv, ListInv, CopyInv, EntryInv, context, control
<1>8. ~(pc # "idle" /\ Listed(p)) /\ ~(shard[p[1]] # "none" /\ mb = p[2])
  BY <1>1, <1>3 DEF Hand
<1>9. RoundInv'
  BY <1>1, <1>2, <1>3, <1>6, <1>8 DEF RoundInv, TypeOK, context, control
<1>10. WriteInv'
  BY <1>1, <1>2 DEF WriteInv, TypeOK, Pairs
<1>11. Mailbox!Next
  <2>1. \A q \in Pairs : flag'[q] = 1 <=> q = p \/ flag[q] = 1
    BY <1>1, <1>2 DEF TypeOK
  <2>2. p \notin Box
    BY <1>2 DEF Box
  <2>3. Box' = Box \cup {p}
    <3>1. Pairs' = Pairs
      BY DEF Pairs
    <3> HIDE DEF p
    <3> QED  BY <1>1, <1>3, <1>6, <2>1, <3>1 DEF Box
  <2>4. PICK q \in Mailbox!Boxes : q = p
    BY <1>1 DEF Pairs, Mailbox!Boxes, Sessions, MicroBatches
  <2>5. Mailbox!Post(q)
    <3> HIDE DEF p
    <3> QED  BY <1>2, <1>6, <2>2, <2>3, <2>4 DEF Mailbox!Post, Box
  <2> QED  BY <2>5 DEF Mailbox!Next
<1> QED  BY <1>5, <1>7, <1>9, <1>10, <1>11

(* The steps that only move the program counter while no shard runs. *)
LEMMA GotoInv ==
  ASSUME IInv, NEW l \in {"loop", "scan", "recheck", "handle", "return"},
         pc \in {"loop", "scan", "recheck"},
         Goto(l),
         UNCHANGED <<window, context, attn, answered>>
  PROVE  IInv' /\ MailboxStutter
<1> USE DEF IInv
<1>1. /\ pc' = l /\ grp' = 0 /\ mb' = 0 /\ shard' = shard
      /\ outNum = 0 /\ shard = [s \in Sessions |-> "none"]
      /\ UNCHANGED <<window, context, attn, answered>>
  BY DEF Goto, ControlInv
<1>2. 0 \in Groups /\ 0 \in MicroBatches /\ Start(0) = 0
  BY StartFacts, GroupNumFacts, ContextAssumption DEF Groups, MicroBatches
<1>3. TypeOK'
  BY <1>1, <1>2 DEF TypeOK, window, context, attn
<1>4. \A q \in Pairs : ~Listed(q) /\ ~Listed(q)'
  BY <1>1 DEF Listed, context
<1>5. Hand = {} /\ Hand' = {}
  BY <1>1, <1>4 DEF Hand, Pairs
<1>6. (ControlInv /\ ListInv /\ CopyInv /\ EntryInv)'
  BY <1>1, <1>2 DEF ControlInv, ListInv, CopyInv, EntryInv, context
<1>7. (RoundInv /\ WriteInv)'
  BY <1>1, <1>4, <1>5 DEF RoundInv, WriteInv, Pairs, window, context, attn
<1>8. MailboxStutter
  BY <1>1, <1>5, StutterFacts DEF window, attn
<1> QED  BY <1>3, <1>6, <1>7, <1>8

LEMMA ComputeInv ==
  ASSUME IInv, Compute
  PROVE  IInv' /\ MailboxStutter
<1> USE DEF IInv
<1>1. /\ pc = "idle" /\ pc' = "loop" /\ grp' = 0 /\ mb' = 0 /\ shard' = shard /\ outNum' = 0
      /\ shard = [s \in Sessions |-> "none"]
      /\ UNCHANGED <<window, runFlag, pollingIndex, out, attn, answered>>
  BY DEF Compute, Goto, ControlInv
<1>2. 0 \in Groups /\ 0 \in MicroBatches /\ 0 \in 0 .. SessionNum
  BY GroupNumFacts, ContextAssumption DEF Groups, MicroBatches
<1>3. TypeOK'
  BY <1>1, <1>2 DEF TypeOK, window, attn
<1>4. \A q \in Pairs : ~Listed(q)'
  BY <1>1 DEF Listed
<1>5. Hand = {} /\ Hand' = {}
  BY <1>1, <1>4 DEF Hand, Pairs
<1>6. (ControlInv /\ ListInv /\ CopyInv /\ EntryInv)'
  BY <1>1 DEF ControlInv, ListInv, CopyInv, EntryInv
<1>7. (RoundInv /\ WriteInv)'
  BY <1>1, <1>4, <1>5 DEF RoundInv, WriteInv, Pairs, window, attn
<1>8. MailboxStutter
  BY <1>1, <1>5, StutterFacts DEF window, attn
<1> QED  BY <1>3, <1>6, <1>7, <1>8

(* Taking a group whose flags are all up, by either scan. *)
LEMMA ForkInv ==
  ASSUME IInv, NEW g \in Groups, NEW m \in MicroBatches,
         pc \in {"scan", "handle"},
         pc = "handle" => g = grp,
         pc = "scan" => g = 0,
         CheckSessionsReady(m, g), ForkOutput(g, m),
         UNCHANGED <<window, context, attn, answered>>
  PROVE  IInv' /\ Mailbox!Next
<1> USE DEF IInv
<1>1. /\ pc' = "output" /\ grp' = g /\ mb' = m
      /\ shard' = [s \in Sessions |-> IF s \in Group(g) THEN "copy" ELSE "none"]
      /\ shard = [s \in Sessions |-> "none"]
      /\ \A s \in Group(g) : flag[<<s, m>>] = 1
      /\ UNCHANGED <<window, context, attn, answered>>
  BY DEF ForkOutput, CheckSessionsReady, ControlInv
<1>2. TypeOK'
  BY <1>1 DEF TypeOK, window, context, attn
<1>3. outNum <= Start(g) /\ \A i \in 0 .. outNum - 1 : out[i].session < Start(g)
  <2>1. CASE pc = "scan"
    BY <2>1, StartFacts DEF ControlInv
  <2>2. CASE pc = "handle"
    BY <2>2 DEF ControlInv, ListInv
  <2> QED  BY <2>1, <2>2
<1>4. GroupNum = 1 => g = 0
  BY DEF Groups
<1>5. (ControlInv /\ ListInv /\ CopyInv /\ EntryInv)'
  BY <1>1, <1>3, <1>4 DEF ControlInv, ListInv, CopyInv, EntryInv, context
<1>6. \A q \in Pairs : Listed(q)' <=> Listed(q)
  BY <1>1 DEF Listed, context
<1>7. \A q \in Pairs : q \in Hand' <=> q \in Hand \/ (q[1] \in Group(g) /\ q[2] = m)
  BY <1>1, <1>6 DEF Hand, Pairs
<1>8. RoundInv'
  BY <1>1, <1>6, <1>7 DEF RoundInv, Pairs, window, context, attn
<1>9. WriteInv'
  BY <1>1 DEF WriteInv, window, attn
<1>10. Mailbox!Next
  <2>1. \A q \in Pairs : q \in Hand <=> pc # "idle" /\ Listed(q)
    BY <1>1 DEF Hand, Pairs
  <2>2. Group(g) \X {m} \subseteq Box
    <3> SUFFICES ASSUME NEW t \in Group(g)
                 PROVE  <<t, m>> \in Box
      OBVIOUS
    <3>1. <<t, m>> \in Pairs
      BY GroupFacts DEF Pairs
    <3> QED  BY <1>1, <2>1, <3>1 DEF Box, RoundInv
  <2>3. \A q \in Hand : q[1] \notin Group(g)
    <3> SUFFICES ASSUME NEW q \in Hand, q[1] \in Group(g)
                 PROVE  FALSE
      OBVIOUS
    <3>1. q \in Pairs /\ q[1] \in Sessions
      BY DEF Hand, Pairs
    <3>2. PICK i \in 0 .. outNum - 1 : out[i].session = q[1]
      BY <2>1, <3>1 DEF Listed
    <3>3. q[1] < Start(g) /\ Start(g) <= q[1] /\ q[1] \in Int /\ Start(g) \in Int
      BY <1>3, <3>1, <3>2, GroupFacts, StartFacts DEF Sessions
    <3> QED  BY <3>3
  <2>4. \A q \in Pairs : q \in Group(g) \X {m} <=> q[1] \in Group(g) /\ q[2] = m
    BY DEF Pairs
  <2>5. Hand' = Hand \cup (Group(g) \X {m})
    <3>1. Hand \subseteq Pairs /\ Hand' \subseteq Pairs /\ Group(g) \X {m} \subseteq Pairs
      BY <2>2 DEF Hand, Box, Pairs
    <3> QED  BY <1>7, <2>4, <3>1
  <2>6. Box' = Box \ (Group(g) \X {m})
    BY <1>1, <2>5 DEF Box, window, Pairs
  <2>7. Mailbox!Take(Group(g), m)
    BY <1>1, <2>2, <2>3, <2>5, <2>6 DEF Mailbox!Take, Box, attn
  <2> QED  BY <2>7 DEF Mailbox!Next
<1> QED  BY <1>2, <1>5, <1>8, <1>9, <1>10

(* What is known of a session whose shard is running. *)
LEMMA ShardFacts ==
  ASSUME IInv, NEW s \in Sessions, shard[s] # "none"
  PROVE  /\ pc = "output" /\ s \in Group(grp) /\ <<s, mb>> \in Pairs /\ <<s, mb>> \in Hand
         /\ outNum <= Start(grp) /\ outNum + s - Start(grp) \in outNum .. s
         /\ outNum + s - Start(grp) \in Sessions
<1> USE DEF IInv
<1>1. pc = "output" /\ s \in Group(grp) /\ outNum <= Start(grp) /\ grp \in Groups
  BY DEF ControlInv, TypeOK
<1>2. <<s, mb>> \in Pairs /\ <<s, mb>> \in Hand
  BY DEF TypeOK, Pairs, Hand
<1>3. Start(grp) \in Nat /\ outNum \in Nat /\ s \in Nat /\ Start(grp) <= s
  BY <1>1, StartFacts, GroupFacts, ContextAssumption DEF TypeOK, Sessions
<1> QED  BY <1>1, <1>2, <1>3, ContextAssumption DEF Sessions

LEMMA CopyOutInv ==
  ASSUME IInv, NEW s \in Sessions, CopyOut(s)
  PROVE  IInv' /\ MailboxStutter
<1> DEFINE k == outNum + s - Start(grp)
           e == [layer |-> layerId[<<s, mb>>], session |-> s, microBatch |-> mb,
                 ids |-> expertIds[<<s, mb>>]]
<1> USE DEF IInv
<1>1. /\ shard[s] = "copy" /\ out' = [out EXCEPT ![k] = e]
      /\ shard' = [shard EXCEPT ![s] = "reset"]
      /\ UNCHANGED <<window, runFlag, pollingIndex, outNum, pc, grp, mb, attn, answered>>
  BY DEF CopyOut
<1>2. /\ pc = "output" /\ s \in Group(grp) /\ <<s, mb>> \in Pairs /\ <<s, mb>> \in Hand
      /\ outNum <= Start(grp) /\ k \in outNum .. s /\ k \in Sessions
      /\ grp \in Groups /\ Start(grp) \in Nat /\ outNum \in Nat
  BY <1>1, ShardFacts, StartFacts DEF TypeOK
<1>3. e \in Entry
  BY <1>2 DEF Entry, TypeOK
<1>4. TypeOK'
  BY <1>1, <1>2, <1>3 DEF TypeOK, window, attn
<1>5. \A i \in 0 .. outNum - 1 : i \in Sessions /\ out'[i] = out[i]
  BY <1>1, <1>2, ContextAssumption DEF TypeOK, Sessions
<1>6. ControlInv'
  BY <1>1, <1>2 DEF ControlInv, TypeOK
<1>7. (ListInv /\ EntryInv)'
  BY <1>1, <1>2, <1>5 DEF ListInv, EntryInv
<1>8. CopyInv'
  <2> SUFFICES ASSUME NEW t \in Sessions, shard'[t] \in {"reset", "clear", "done"}
               PROVE  LET f == out'[outNum + t - Start(grp)] IN
                      f.session = t /\ f.microBatch = mb /\ f.layer = answered[<<t, mb>>]
    BY <1>1 DEF CopyInv
  <2>1. CASE t = s
    <3>1. flag[<<s, mb>>] = 1 /\ layerId[<<s, mb>>] = answered[<<s, mb>>]
      BY <1>1, <1>2 DEF RoundInv
    <3>2. out'[k] = e
      BY <1>1, <1>2 DEF TypeOK
    <3> QED  BY <2>1, <3>1, <3>2
  <2>2. CASE t # s
    <3>1. shard[t] \in {"reset", "clear", "done"}
      BY <2>2, <1>1 DEF TypeOK
    <3>2. outNum + t - Start(grp) \in Sessions
      BY <3>1, ShardFacts
    <3>3. outNum + t - Start(grp) # k
      BY <2>2, <1>2, ContextAssumption DEF Sessions
    <3>4. out'[outNum + t - Start(grp)] = out[outNum + t - Start(grp)]
      BY <1>1, <3>2, <3>3 DEF TypeOK
    <3> QED  BY <3>1, <3>4 DEF CopyInv
  <2> QED  BY <2>1, <2>2
<1>9. \A q \in Pairs : Listed(q)' <=> Listed(q)
  BY <1>1, <1>5 DEF Listed
<1>10. Hand' = Hand
  BY <1>1, <1>9 DEF Hand, Pairs, TypeOK
<1>11. RoundInv'
  BY <1>1, <1>2, <1>9, <1>10 DEF RoundInv, Pairs, TypeOK, window, attn
<1>12. WriteInv'
  BY <1>1 DEF WriteInv, window, attn
<1>13. MailboxStutter
  BY <1>1, <1>10, StutterFacts DEF window, attn
<1> QED  BY <1>4, <1>6, <1>7, <1>8, <1>11, <1>12, <1>13

LEMMA ResetIdsInv ==
  ASSUME IInv, NEW s \in Sessions, ResetIds(s)
  PROVE  IInv' /\ MailboxStutter
<1> USE DEF IInv
<1>1. /\ shard[s] = "reset" /\ shard' = [shard EXCEPT ![s] = "clear"]
      /\ expertIds' = [expertIds EXCEPT ![<<s, mb>>] = NoIds]
      /\ UNCHANGED <<flag, layerId, tokenData, context, pc, grp, mb, attn, answered>>
  BY DEF ResetIds
<1>2. pc = "output" /\ <<s, mb>> \in Pairs /\ NoIds \in Ids
  BY <1>1, ShardFacts DEF NoIds, Ids
<1>3. TypeOK'
  BY <1>1, <1>2 DEF TypeOK, context, attn
<1>4. (ControlInv /\ ListInv /\ CopyInv /\ EntryInv /\ WriteInv)'
  BY <1>1, <1>2 DEF ControlInv, ListInv, CopyInv, EntryInv, WriteInv, TypeOK, context, attn
<1>5. \A q \in Pairs : Listed(q)' <=> Listed(q)
  BY <1>1 DEF Listed, context
<1>6. Hand' = Hand
  BY <1>1, <1>5 DEF Hand, Pairs, TypeOK
<1>7. RoundInv'
  BY <1>1, <1>2, <1>5, <1>6 DEF RoundInv, Pairs, TypeOK, attn
<1>8. MailboxStutter
  BY <1>1, <1>6, StutterFacts DEF attn
<1> QED  BY <1>3, <1>4, <1>7, <1>8

LEMMA ClearFlagInv ==
  ASSUME IInv, NEW s \in Sessions, ClearFlag(s)
  PROVE  IInv' /\ MailboxStutter
<1> USE DEF IInv
<1>1. /\ shard[s] = "clear" /\ shard' = [shard EXCEPT ![s] = "done"]
      /\ flag' = [flag EXCEPT ![<<s, mb>>] = 0]
      /\ UNCHANGED <<layerId, expertIds, tokenData, context, pc, grp, mb, attn, answered>>
  BY DEF ClearFlag
<1>2. pc = "output" /\ <<s, mb>> \in Pairs /\ <<s, mb>> \in Hand
  BY <1>1, ShardFacts
<1>3. TypeOK'
  BY <1>1, <1>2 DEF TypeOK, context, attn
<1>4. (ControlInv /\ ListInv /\ CopyInv /\ EntryInv)'
  BY <1>1, <1>2 DEF ControlInv, ListInv, CopyInv, EntryInv, TypeOK, context
<1>5. WriteInv'
  BY <1>1, <1>2 DEF WriteInv, TypeOK, Pairs, attn
<1>6. \A q \in Pairs : Listed(q)' <=> Listed(q)
  BY <1>1 DEF Listed, context
<1>7. Hand' = Hand
  BY <1>1, <1>6 DEF Hand, Pairs, TypeOK
<1>8. RoundInv'
  BY <1>1, <1>2, <1>6, <1>7 DEF RoundInv, Pairs, TypeOK, attn
<1>9. MailboxStutter
  BY <1>1, <1>2, <1>3, <1>7, StutterFacts DEF TypeOK, attn
<1> QED  BY <1>3, <1>4, <1>5, <1>8, <1>9

(* One step of one shard. *)
LEMMA ShardInv ==
  ASSUME IInv, NEW s \in Sessions, Shard(s)
  PROVE  IInv' /\ MailboxStutter
BY CopyOutInv, ResetIdsInv, ClearFlagInv DEF Shard

(* Moving to the next micro-batch or group after a scan that found nothing. *)
LEMMA NotReadyInv ==
  ASSUME IInv, pc = "handle",
         IF mb < MicroBatchNum - 1
           THEN mb' = mb + 1 /\ UNCHANGED <<pc, grp, shard>>
           ELSE NextGroup,
         UNCHANGED <<window, context, attn, answered>>
  PROVE  IInv' /\ MailboxStutter
<1> USE DEF IInv
<1>1. /\ grp \in Groups /\ mb \in MicroBatches /\ outNum \in Nat /\ outNum <= Start(grp)
      /\ shard = [s \in Sessions |-> "none"]
  BY DEF TypeOK, ControlInv
<1>2. 0 \in Groups /\ 0 \in MicroBatches /\ (mb < MicroBatchNum - 1 => mb + 1 \in MicroBatches)
  BY <1>1, GroupNumFacts, ContextAssumption DEF Groups, MicroBatches
<1>3. /\ Start(grp) \in Nat
      /\ grp < GroupNum - 1 => grp + 1 \in Groups /\ Start(grp + 1) = Start(grp) + SyncGroupSize
  BY <1>1, StartFacts
<1>4. \/ pc' = "handle" /\ grp' = grp /\ mb' \in MicroBatches
      \/ pc' = "handle" /\ grp' = grp + 1 /\ mb' = 0 /\ grp < GroupNum - 1
      \/ pc' = "return" /\ grp' = 0 /\ mb' = 0
  BY <1>2 DEF NextGroup
<1>5. shard' = shard
  BY <1>1 DEF NextGroup
<1>6. TypeOK'
  BY <1>2, <1>3, <1>4, <1>5 DEF TypeOK, window, context, attn
<1>7. (ControlInv /\ ListInv /\ CopyInv /\ EntryInv)'
  <2>1. UNCHANGED <<out, outNum, answered>>
    BY DEF context
  <2>2. pc' = "handle" => Start(grp) <= Start(grp')
    BY <1>3, <1>4, ContextAssumption
  <2>3. pc' = "handle" => /\ outNum <= Start(grp')
                          /\ \A i \in 0 .. outNum - 1 : out[i].session < Start(grp')
    <3> SUFFICES ASSUME pc' = "handle", NEW i \in 0 .. outNum - 1
                 PROVE  outNum <= Start(grp') /\ out[i].session < Start(grp')
      BY <1>1, <1>3, <1>4, <2>2, StartFacts
    <3>1. i \in Sessions /\ out[i].session \in Nat
      BY <1>1, ContextAssumption DEF TypeOK, Sessions, Entry
    <3>2. Start(grp') \in Nat
      BY <1>1, <1>3, <1>4, StartFacts
    <3> QED  BY <1>1, <1>3, <2>2, <3>1, <3>2 DEF ListInv
  <2> QED  BY <1>1, <1>4, <1>5, <2>1, <2>3 DEF ControlInv, ListInv, CopyInv, EntryInv
<1>8. \A q \in Pairs : Listed(q)' <=> Listed(q)
  BY DEF Listed, context
<1>9. Hand' = Hand
  BY <1>1, <1>4, <1>5, <1>8 DEF Hand, Pairs
<1>10. (RoundInv /\ WriteInv)'
  BY <1>1, <1>4, <1>5, <1>8, <1>9 DEF RoundInv, WriteInv, Pairs, window, context, attn
<1>11. MailboxStutter
  BY <1>9, StutterFacts DEF window, attn
<1> QED  BY <1>6, <1>7, <1>10, <1>11

(* The entries that the shards of the joined group have written. *)
LEMMA JoinedFacts ==
  ASSUME IInv, pc = "output", \A s \in Group(grp) : shard[s] = "done",
         NEW i \in 0 .. outNum + SyncGroupSize - 1, i >= outNum
  PROVE  LET s == Start(grp) + i - outNum IN
         /\ s \in Group(grp) /\ s \in Sessions /\ i \in Sessions
         /\ out[i].session = s /\ out[i].microBatch = mb
         /\ out[i].layer = answered[<<s, mb>>]
<1> DEFINE s == Start(grp) + i - outNum
<1> USE DEF IInv
<1>1. /\ grp \in Groups /\ outNum \in Nat /\ outNum <= Start(grp) /\ Start(grp) \in Nat
      /\ Start(grp) + SyncGroupSize <= SessionNum /\ SyncGroupSize \in Nat
  BY StartFacts, ContextAssumption DEF TypeOK, ControlInv
<1>2. s \in Group(grp) /\ s \in Sessions /\ i \in Sessions
  BY <1>1, ContextAssumption DEF Group, Sessions
<1>3. shard[s] = "done" /\ outNum + s - Start(grp) = i
  BY <1>1, <1>2
<1> HIDE DEF s
<1>4. /\ out[i].session = s /\ out[i].microBatch = mb
      /\ out[i].layer = answered[<<s, mb>>]
  BY <1>2, <1>3 DEF CopyInv
<1> QED  BY <1>2, <1>4 DEF s

LEMMA JoinOutputInv ==
  ASSUME IInv, JoinOutput
  PROVE  IInv' /\ MailboxStutter
<1> USE DEF IInv
<1>1. /\ pc = "output" /\ outNum' = outNum + SyncGroupSize
      /\ \A s \in Group(grp) : shard[s] = "done"
      /\ UNCHANGED <<window, runFlag, out, attn, answered>>
  BY DEF JoinOutput
<1>2. /\ grp \in Groups /\ mb \in MicroBatches /\ outNum \in Nat /\ outNum <= Start(grp)
      /\ Start(grp) \in Nat /\ Start(grp) + SyncGroupSize <= SessionNum
      /\ SyncGroupSize \in Nat \ {0}
  BY <1>1, StartFacts, ContextAssumption DEF TypeOK, ControlInv
<1>3. /\ 0 \in Groups /\ 0 \in MicroBatches
      /\ grp < GroupNum - 1 => grp + 1 \in Groups /\ Start(grp + 1) = Start(grp) + SyncGroupSize
  BY <1>2, StartFacts, GroupNumFacts, ContextAssumption DEF Groups, MicroBatches
<1>4. \/ pc' = "handle" /\ grp' = grp + 1 /\ mb' = 0 /\ grp < GroupNum - 1
      \/ pc' = "return" /\ grp' = 0 /\ mb' = 0
  BY <1>1 DEF JoinOutput, NextGroup
<1>5. shard' = [s \in Sessions |-> "none"]
  BY DEF JoinOutput, NextGroup
<1>6. pollingIndex' \in MicroBatches
  BY ContextAssumption DEF JoinOutput, AdvancePolling, TypeOK, MicroBatches
<1>7. outNum' \in 0 .. SessionNum
  BY <1>1, <1>2, ContextAssumption
<1>8. TypeOK'
  BY <1>1, <1>3, <1>4, <1>5, <1>6, <1>7 DEF TypeOK, window, attn
<1>9. ControlInv'
  BY <1>1, <1>2, <1>3, <1>4, <1>5 DEF ControlInv
<1> DEFINE N == outNum + SyncGroupSize
<1>10. N \in Nat /\ outNum' = N /\ out' = out /\ answered' = answered
  BY <1>1, <1>2
<1> HIDE DEF N
<1>11. \A i \in 0 .. N - 1 : i \in Int /\ (i < outNum => i \in 0 .. outNum - 1)
  BY <1>2, <1>10
<1>12. ASSUME NEW i \in 0 .. outNum - 1
       PROVE  out[i].session \in Int /\ out[i].session < Start(grp)
  BY <1>1, <1>2, ContextAssumption DEF ListInv, TypeOK, Entry, Sessions
<1>13. ASSUME NEW i \in 0 .. N - 1, ~(i < outNum)
       PROVE  /\ out[i].session = Start(grp) + i - outNum
              /\ out[i].session \in Int
              /\ out[i].session < Start(grp) + SyncGroupSize
              /\ out[i].session \in Group(grp)
              /\ out[i].microBatch = mb
              /\ out[i].layer = answered[<<out[i].session, mb>>]
  <2>1. i \in 0 .. outNum + SyncGroupSize - 1 /\ i >= outNum
    BY <1>2, <1>13 DEF N
  <2>2. Start(grp) + i - outNum \in Int /\ Start(grp) + i - outNum < Start(grp) + SyncGroupSize
    BY <1>2, <2>1
  <2> QED  BY <1>1, <2>1, <2>2, JoinedFacts
<1>14. (ListInv /\ CopyInv)'
  <2>1. ASSUME NEW i \in 0 .. N - 1
        PROVE  out[i].session \in Int /\ out[i].session < Start(grp) + SyncGroupSize
    <3>1. CASE i < outNum
      <4>1. out[i].session \in Int /\ out[i].session < Start(grp)
        BY <1>11, <1>12, <3>1
      <4> QED  BY <1>2, <4>1
    <3> QED  BY <1>13, <3>1
  <2>2. ASSUME NEW i \in 0 .. N - 1, NEW j \in 0 .. N - 1, i < j
        PROVE  out[i].session < out[j].session
    <3>1. CASE i < outNum /\ j < outNum
      BY <1>1, <1>11, <2>2, <3>1 DEF ListInv
    <3>2. CASE i < outNum /\ ~(j < outNum)
      <4>1. out[i].session \in Int /\ out[i].session < Start(grp)
        BY <1>11, <1>12, <3>2
      <4>2. out[j].session = Start(grp) + j - outNum
        BY <1>13, <3>2
      <4> QED  BY <1>2, <1>11, <3>2, <4>1, <4>2
    <3>3. CASE ~(i < outNum)
      <4>1. ~(j < outNum)
        BY <1>2, <1>11, <2>2, <3>3
      <4>2. out[i].session = Start(grp) + i - outNum /\ out[j].session = Start(grp) + j - outNum
        BY <1>13, <3>3, <4>1
      <4> QED  BY <1>2, <1>11, <2>2, <4>2
    <3> QED  BY <3>1, <3>2, <3>3
  <2>3. pc' = "handle" => Start(grp') = Start(grp) + SyncGroupSize
    BY <1>3, <1>4
  <2>4. ListInv'
    BY <1>4, <1>10, <2>1, <2>2, <2>3 DEF ListInv
  <2>5. CopyInv'
    BY <1>5 DEF CopyInv
  <2> QED  BY <2>4, <2>5
<1>15. EntryInv'
  <2> SUFFICES ASSUME NEW i \in 0 .. N - 1
               PROVE  out[i].layer = answered[<<out[i].session, out[i].microBatch>>]
    BY <1>10 DEF EntryInv
  <2>1. CASE i < outNum
    BY <1>1, <1>11, <2>1 DEF EntryInv
  <2>2. CASE ~(i < outNum)
    BY <1>13, <2>2
  <2> QED  BY <2>1, <2>2
<1>16. \A q \in Pairs : Listed(q)' <=> Listed(q) \/ (q[1] \in Group(grp) /\ q[2] = mb)
  <2> SUFFICES ASSUME NEW q \in Pairs
               PROVE  Listed(q)' <=> Listed(q) \/ (q[1] \in Group(grp) /\ q[2] = mb)
    OBVIOUS
  <2>1. Listed(q)' <=> \E i \in 0 .. N - 1 : out[i].session = q[1] /\ out[i].microBatch = q[2]
    BY <1>10 DEF Listed
  <2>2. Listed(q) => Listed(q)'
    <3>1. \A i \in 0 .. outNum - 1 : i \in 0 .. N - 1
      BY <1>2 DEF N
    <3> QED  BY <2>1, <3>1 DEF Listed
  <2>3. ASSUME q[1] \in Group(grp), q[2] = mb PROVE Listed(q)'
    <3> DEFINE k == outNum + q[1] - Start(grp)
    <3>1. q[1] \in Int /\ Start(grp) <= q[1] /\ q[1] < Start(grp) + SyncGroupSize
      BY <1>2, <2>3 DEF Group
    <3>2. k \in 0 .. N - 1 /\ ~(k < outNum) /\ Start(grp) + k - outNum = q[1]
      BY <1>2, <3>1 DEF N
    <3>3. out[k].session = q[1] /\ out[k].microBatch = mb
      <4> HIDE DEF k
      <4> QED  BY <1>13, <3>2
    <3> QED  BY <2>1, <2>3, <3>2, <3>3
  <2>4. Listed(q)' => Listed(q) \/ (q[1] \in Group(grp) /\ q[2] = mb)
    <3> SUFFICES ASSUME NEW i \in 0 .. N - 1, out[i].session = q[1], out[i].microBatch = q[2]
                 PROVE  Listed(q) \/ (q[1] \in Group(grp) /\ q[2] = mb)
      BY <2>1
    <3>1. CASE i < outNum
      BY <1>11, <3>1 DEF Listed
    <3>2. CASE ~(i < outNum)
      BY <1>13, <3>2
    <3> QED  BY <3>1, <3>2
  <2> QED  BY <2>2, <2>3, <2>4
<1>17. \A q \in Pairs : q[1] \in Group(grp) <=> shard[q[1]] # "none"
  BY <1>1 DEF ControlInv, Pairs
<1>18. Hand' = Hand
  BY <1>1, <1>4, <1>5, <1>16, <1>17 DEF Hand, Pairs
<1>19. RoundInv'
  BY <1>1, <1>4, <1>5, <1>16, <1>18 DEF RoundInv, Pairs, window, attn
<1>20. WriteInv'
  BY <1>1 DEF WriteInv, window, attn
<1>21. MailboxStutter
  BY <1>1, <1>18, StutterFacts DEF window, attn
<1> QED  BY <1>8, <1>9, <1>14, <1>15, <1>19, <1>20, <1>21

LEMMA RespondInv ==
  ASSUME IInv, Respond
  PROVE  IInv' /\ Mailbox!Next
<1> USE DEF IInv
<1>1. /\ pc = "return" /\ pc' = "idle" /\ grp' = 0 /\ mb' = 0 /\ shard' = shard
      /\ shard = [s \in Sessions |-> "none"]
      /\ answered' = [p \in Pairs |-> IF Listed(p) THEN answered[p] + 1 ELSE answered[p]]
      /\ UNCHANGED <<window, context, attn>>
  BY DEF Respond, Goto, ControlInv
<1>2. 0 \in Groups /\ 0 \in MicroBatches
  BY GroupNumFacts, ContextAssumption DEF Groups, MicroBatches
<1>3. \A q \in Pairs : q \in Hand <=> Listed(q)
  BY <1>1 DEF Hand, Pairs
<1>4. Hand' = {}
  BY <1>1 DEF Hand, Pairs
<1>5. \A q \in Pairs : Listed(q) => sent[q] = answered[q] + 1 /\ flag[q] = 0
  BY <1>1, <1>3 DEF RoundInv
<1>6. TypeOK'
  <2>1. answered' \in [Pairs -> 0 .. RoundNum]
    BY <1>1, <1>5, ContextAssumption DEF TypeOK
  <2> QED  BY <1>1, <1>2, <2>1 DEF TypeOK, window, context, attn
<1>7. (ControlInv /\ ListInv /\ CopyInv /\ EntryInv)'
  BY <1>1 DEF ControlInv, ListInv, CopyInv, EntryInv, context
<1>8. RoundInv'
  <2> SUFFICES ASSUME NEW q \in Pairs
               PROVE  /\ sent[q] = answered'[q] + (IF flag[q] = 1 THEN 1 ELSE 0)
                      /\ flag[q] = 1 => layerId[q] = answered'[q] /\ tokenData[q] = answered'[q]
    BY <1>1, <1>4 DEF RoundInv, Pairs, window, attn
  <2>1. CASE Listed(q)
    BY <1>1, <1>5, <2>1 DEF TypeOK
  <2>2. CASE ~Listed(q)
    BY <1>1, <1>3, <2>2 DEF RoundInv, TypeOK
  <2> QED  BY <2>1, <2>2
<1>9. WriteInv'
  <2> SUFFICES ASSUME NEW s \in Sessions, writing[s]
               PROVE  LET p == <<s, turn[s]>> IN
                      flag[p] = 0 /\ sent[p] = answered'[p] /\ sent[p] < RoundNum
                        /\ tokenData[p] = sent[p]
    BY <1>1 DEF WriteInv, window, attn
  <2>1. <<s, turn[s]>> \in Pairs
    BY DEF TypeOK, Pairs
  <2>2. ~Listed(<<s, turn[s]>>)
    BY <1>5, <2>1 DEF WriteInv, TypeOK
  <2> QED  BY <1>1, <2>1, <2>2 DEF WriteInv
<1>10. Mailbox!Next
  <2>1. Box' = Box
    BY <1>1, <1>3, <1>4, <1>5 DEF Box, window, Pairs
  <2>2. answered' = [p \in Mailbox!Boxes |-> IF p \in Hand THEN answered[p] + 1 ELSE answered[p]]
    BY <1>1, <1>3 DEF Mailbox!Boxes, Pairs, Sessions, MicroBatches
  <2> QED  BY <1>1, <1>4, <2>1, <2>2 DEF Mailbox!Next, Mailbox!Answer, Box, attn
<1> QED  BY <1>6, <1>7, <1>8, <1>9, <1>10

LEMMA StopInv ==
  ASSUME IInv, Stop
  PROVE  IInv' /\ MailboxStutter
<1> USE DEF IInv
<1>1. runFlag' = 0 /\ UNCHANGED <<window, pollingIndex, outNum, out, control, attn, answered>>
  BY DEF Stop
<1>2. Hand' = Hand /\ \A q \in Pairs : Listed(q)' <=> Listed(q)
  BY <1>1 DEF Hand, Listed, control
<1>3. TypeOK'
  BY <1>1 DEF TypeOK, window, control, attn
<1>4. (ControlInv /\ ListInv /\ CopyInv /\ EntryInv)'
  BY <1>1 DEF ControlInv, ListInv, CopyInv, EntryInv, control
<1>5. (RoundInv /\ WriteInv)'
  BY <1>1, <1>2 DEF RoundInv, WriteInv, window, control, attn
<1>6. MailboxStutter
  BY <1>1, <1>2, StutterFacts DEF window, attn
<1> QED  BY <1>3, <1>4, <1>5, <1>6

(* No action of the specification breaks the invariant, and each is a step *)
(* of the mailbox or leaves it alone.                                      *)
LEMMA NextInv == IInv /\ [Next]_vars => IInv' /\ (Mailbox!Next \/ MailboxStutter)
<1> DEFINE Goal == IInv' /\ (Mailbox!Next \/ MailboxStutter)
<1> SUFFICES ASSUME IInv, [Next]_vars PROVE Goal
  OBVIOUS
<1>1. CASE UNCHANGED vars
  <2>1. UNCHANGED <<window, context, control, attn, answered>>
    BY <1>1 DEF vars
  <2>2. Hand' = Hand /\ \A q \in Pairs : Listed(q)' <=> Listed(q)
    BY <2>1 DEF Hand, Listed, context, control
  <2>3. TypeOK'
    BY <2>1 DEF IInv, TypeOK, window, context, control, attn
  <2>4. (ControlInv /\ ListInv /\ CopyInv /\ EntryInv)'
    BY <2>1 DEF IInv, ControlInv, ListInv, CopyInv, EntryInv, context, control
  <2>5. (RoundInv /\ WriteInv)'
    BY <2>1, <2>2 DEF IInv, RoundInv, WriteInv, window, context, control, attn
  <2>6. MailboxStutter
    BY <2>1, <2>2, StutterFacts DEF window, attn
  <2> QED  BY <2>3, <2>4, <2>5, <2>6 DEF IInv
<1>2. CASE Compute
  BY <1>2, ComputeInv
<1>3. CASE LoopTest
  <2>1. PICK l \in {"return", "scan"} : Goto(l)
    BY <1>3 DEF LoopTest
  <2> QED  BY <1>3, <2>1, GotoInv DEF LoopTest
<1>4. CASE DoComputeAllSync
  <2>1. CASE CheckSessionsReady(pollingIndex, 0)
    <3>1. 0 \in Groups /\ pollingIndex \in MicroBatches
      BY <1>4 DEF DoComputeAllSync, Groups, IInv, TypeOK
    <3> QED  BY <1>4, <2>1, <3>1, ForkInv DEF DoComputeAllSync
  <2>2. CASE ~CheckSessionsReady(pollingIndex, 0)
    BY <1>4, <2>2, GotoInv DEF DoComputeAllSync
  <2> QED  BY <2>1, <2>2
<1>5. CASE DoCompute
  <2>1. PICK l \in {"recheck", "loop"} : Goto(l)
    BY <1>5 DEF DoCompute
  <2> QED  BY <1>5, <2>1, GotoInv DEF DoCompute
<1>6. CASE RecheckRunFlag
  <2>1. PICK l \in {"return", "handle"} : Goto(l)
    BY <1>6 DEF RecheckRunFlag
  <2> QED  BY <1>6, <2>1, GotoInv DEF RecheckRunFlag
<1>7. CASE CheckHandleSessions
  <2>1. CASE CheckSessionsReady(mb, grp) /\ ForkOutput(grp, mb)
    BY <1>7, <2>1, ForkInv DEF CheckHandleSessions, IInv, TypeOK
  <2>2. CASE ~CheckSessionsReady(mb, grp)
    BY <1>7, <2>2, NotReadyInv DEF CheckHandleSessions
  <2> QED  BY <1>7, <2>1, <2>2 DEF CheckHandleSessions
<1>8. CASE JoinOutput
  BY <1>8, JoinOutputInv
<1>9. CASE Respond
  BY <1>9, RespondInv
<1>10. CASE Stop
  BY <1>10, StopInv
<1>11. ASSUME NEW s \in Sessions, Shard(s) \/ Attention(s) PROVE Goal
  BY <1>11, ShardInv, WriteTokensInv, WriteFlagInv DEF Attention
<1> QED
  BY <1>1, <1>2, <1>3, <1>4, <1>5, <1>6, <1>7, <1>8, <1>9, <1>10, <1>11 DEF Next, Operator

(***************************************************************************)
(* The theorems.                                                           *)
(***************************************************************************)

(* The invariant holds of every reachable state. *)
THEOREM Invariance == Spec => []IInv
<1>1. Init => IInv
  BY InitInv
<1>2. IInv /\ [Next]_vars => IInv'
  BY NextInv
<1> QED  BY <1>1, <1>2, PTL DEF Spec

(* The operator never writes past the session_num entries of its output    *)
(* buffers, however many groups it finds ready in one call, and never      *)
(* indexes the window outside its sessions and micro-batches.              *)
THEOREM TypeCorrect == Spec => []TypeOK
<1>1. IInv => TypeOK
  BY DEF IInv
<1> QED  BY <1>1, Invariance, PTL

(* Window side and scheduler side never work on one descriptor together:   *)
(* CopyAndResetSessions may wipe the expert ids without a lock.            *)
THEOREM Ownership == Spec => []SlotOwnership
<1>1. IInv => SlotOwnership
  <2> SUFFICES ASSUME IInv, NEW s \in Sessions, writing[s]
               PROVE  /\ flag[<<s, turn[s]>>] = 0
                      /\ (shard[s] \in {"copy", "reset", "clear"}) => mb # turn[s]
    BY DEF SlotOwnership
  <2>1. flag[<<s, turn[s]>>] = 0
    BY DEF IInv, WriteInv
  <2>2. <<s, turn[s]>> \in Pairs
    BY DEF IInv, TypeOK, Pairs
  <2>3. (shard[s] \in {"copy", "reset", "clear"}) /\ mb = turn[s] => flag[<<s, turn[s]>>] = 1
    BY <2>2 DEF IInv, RoundInv
  <2> QED  BY <2>1, <2>3
<1> QED  BY <1>1, Invariance, PTL

(* What an entry of the output list stands for. *)
LEMMA ListedFacts ==
  ASSUME IInv, pc # "idle", NEW i \in 0 .. outNum - 1
  PROVE  LET q == <<out[i].session, out[i].microBatch>> IN
         q \in Pairs /\ q \in Hand /\ Listed(q) /\ out[i].layer = answered[q]
<1>1. i \in Sessions /\ out[i] \in Entry
  BY ContextAssumption DEF IInv, TypeOK, Sessions
<1> DEFINE q == <<out[i].session, out[i].microBatch>>
<1>2. q \in Pairs /\ q[1] = out[i].session /\ q[2] = out[i].microBatch
  BY <1>1 DEF Entry, Pairs
<1>3. Listed(q)
  BY <1>2 DEF Listed
<1> QED  BY <1>2, <1>3 DEF IInv, EntryInv, Hand

(* The token data of a listed round is still in the window when batching   *)
(* gathers it, although its flag has been dropped long before.             *)
THEOREM DataStays == Spec => []DataIntact
<1>1. IInv => DataIntact
  BY ListedFacts DEF DataIntact, IInv, RoundInv
<1> QED  BY <1>1, Invariance, PTL

(* No flagged round is lost between the flag and the answer. *)
THEOREM Conserved == Spec => []NothingLost
<1>1. IInv => NothingLost
  BY DEF IInv, RoundInv, TypeOK, NothingLost, Mailbox!Conservation, Pairs,
         Mailbox!Boxes, Sessions, MicroBatches
<1> QED  BY <1>1, Invariance, PTL

(* The results a session gets back are the rounds it sent, each once. *)
THEOREM AnsweredOnce == Spec => ExactlyOnce
<1> DEFINE Step == \A p \in Pairs :
                     answered'[p] # answered[p] =>
                       /\ answered'[p] = answered[p] + 1
                       /\ answered'[p] = sent[p]
<1>1. IInv /\ [Next]_vars => [Step]_<<answered>>
  <2> SUFFICES ASSUME IInv, Next, answered' # answered PROVE Step
    BY DEF vars
  <2>1. Respond
    BY DEF Next, Operator, Compute, LoopTest, DoComputeAllSync, DoCompute, RecheckRunFlag,
           CheckHandleSessions, JoinOutput, Shard, CopyOut, ResetIds, ClearFlag,
           Attention, WriteTokens, WriteFlag, Stop
  <2>2. \A p \in Pairs : Listed(p) => sent[p] = answered[p] + 1
    BY <2>1 DEF Respond, IInv, RoundInv, Hand
  <2> QED  BY <2>1, <2>2 DEF Respond
<1> QED  BY <1>1, Invariance, PTL DEF Spec, ExactlyOnce

(* Window, scheduler and parallel copy are nothing but mailboxes: a sync   *)
(* group is taken whole and at once although its flags are read one by one *)
(* and its shards run on their own, and one answer covers what was taken.  *)
THEOREM MeetsMailbox == Spec => ImplementsMailbox
<1>1. Init => Mailbox!Init
  <2> SUFFICES ASSUME Init PROVE Mailbox!Init
    OBVIOUS
  <2>1. 0 \in Sessions
    BY ContextAssumption DEF Sessions
  <2>2. Hand = {}
    BY <2>1 DEF Init, Hand, Pairs
  <2> QED
    BY <2>2 DEF Init, Mailbox!Init, Mailbox!Boxes, Pairs, Sessions, MicroBatches
<1>2. IInv /\ [Next]_vars => [Mailbox!Next]_<<Box, Hand, sent, answered>>
  BY NextInv DEF MailboxStutter
<1> QED  BY <1>1, <1>2, Invariance, PTL DEF Spec, Box, ImplementsMailbox, Mailbox!Spec

(***************************************************************************)
(* What the scheduler hands to batching is the descriptor each session     *)
(* wrote for the round it waits for, and whole sync groups.                *)
(*                                                                         *)
(* IInv says where a round is; here it is extended by what its expert ids  *)
(* are on the way.  The window keeps NoIds between two rounds, because     *)
(* WriteTokens fills only the slots of its own workload and leaves the     *)
(* rest as the operator wiped them.                                        *)
(***************************************************************************)

CurrentIds(p) == RoundIds(answered[p], tokens[p])

Wiped(p)   == shard[p[1]] = "clear" /\ mb = p[2]
Written(p) == writing[p[1]] /\ turn[p[1]] = p[2]

(* The ids of a descriptor: fresh while flagged, up to ResetIds; none      *)
(* between two rounds; those of the next round once its tokens are there.  *)
WindowIds ==
  \A p \in Pairs :
    /\ flag[p] = 1 /\ ~Wiped(p) => expertIds[p] = CurrentIds(p)
    /\ flag[p] = 0 /\ ~Written(p) => expertIds[p] = NoIds
    /\ Wiped(p) => expertIds[p] = NoIds
    /\ Written(p) => expertIds[p] = RoundIds(sent[p], tokens[p])

(* The ids a running shard has copied. *)
CopiedIds ==
  \A s \in Sessions : shard[s] \in {"reset", "clear", "done"} =>
    out[outNum + s - Start(grp)].ids = CurrentIds(<<s, mb>>)

(* The ids of the listed entries. *)
ListedIds ==
  pc # "idle" => \A i \in 0 .. outNum - 1 :
    out[i].ids = CurrentIds(<<out[i].session, out[i].microBatch>>)

(* Session s is listed on micro-batch m. *)
Chosen(s, m) == \E j \in 0 .. outNum - 1 : out[j].session = s /\ out[j].microBatch = m

(* A listed session brings its sync group with it. *)
WholeGroups ==
  pc # "idle" => \A i \in 0 .. outNum - 1 :
    \E g \in Groups : /\ out[i].session \in Group(g)
                      /\ \A s \in Group(g) : Chosen(s, out[i].microBatch)

OInv == WindowIds /\ CopiedIds /\ ListedIds /\ WholeGroups

(***************************************************************************)
(* Steps that leave the window and the attention workers alone.            *)
(***************************************************************************)

LEMMA WindowKept ==
  ASSUME WindowIds, UNCHANGED <<window, attn, answered>>,
         \A p \in Pairs : Wiped(p)' <=> Wiped(p)
  PROVE  WindowIds'
BY DEF WindowIds, CurrentIds, Written, window, attn

LEMMA ListKept ==
  ASSUME ListedIds, WholeGroups, UNCHANGED <<out, outNum, tokens, answered>>,
         pc' # "idle" => pc # "idle"
  PROVE  (ListedIds /\ WholeGroups)'
BY DEF ListedIds, WholeGroups, Chosen, CurrentIds

(* Moving the program counter, taking a group and finding none ready. *)
LEMMA MoveKeeps ==
  ASSUME IInv, OInv, pc \in {"idle", "loop", "scan", "recheck", "handle"},
         UNCHANGED <<window, out, attn, answered>>,
         outNum' = 0 \/ (outNum' = outNum /\ pc # "idle"),
         \A s \in Sessions : shard'[s] \in {"none", "copy"}
  PROVE  OInv'
<1>1. \A s \in Sessions : shard[s] = "none"
  BY DEF IInv, ControlInv
<1>2. WindowIds'
  <2>1. \A p \in Pairs : ~Wiped(p) /\ ~Wiped(p)'
    BY <1>1 DEF Wiped, Pairs
  <2> QED  BY <2>1, WindowKept DEF OInv
<1>3. CopiedIds'
  BY DEF CopiedIds
<1>4. (ListedIds /\ WholeGroups)'
  <2>1. CASE outNum' = 0
    BY <2>1 DEF ListedIds, WholeGroups
  <2>2. CASE outNum' = outNum /\ pc # "idle"
    BY <2>2, ListKept DEF OInv, attn
  <2> QED  BY <2>1, <2>2
<1> QED  BY <1>2, <1>3, <1>4 DEF OInv

LEMMA GroupLoopKeeps ==
  ASSUME IInv, OInv,
         Compute \/ LoopTest \/ DoComputeAllSync \/ DoCompute \/ RecheckRunFlag
           \/ CheckHandleSessions
  PROVE  OInv'
<1>1. \A s \in Sessions : pc # "output" => shard[s] = "none"
  BY DEF IInv, ControlInv
<1>2. /\ pc \in {"idle", "loop", "scan", "recheck", "handle"}
      /\ UNCHANGED <<window, out, attn, answered>>
      /\ outNum' = 0 \/ (outNum' = outNum /\ pc # "idle")
  BY DEF Compute, LoopTest, DoComputeAllSync, DoCompute, RecheckRunFlag,
         CheckHandleSessions, context
<1>3. \A s \in Sessions : shard'[s] \in {"none", "copy"}
  BY <1>1, <1>2 DEF Compute, LoopTest, DoComputeAllSync, DoCompute, RecheckRunFlag,
         CheckHandleSessions, Goto, ForkOutput, NextGroup
<1> QED  BY <1>2, <1>3, MoveKeeps

LEMMA StopKeeps ==
  ASSUME IInv, OInv, Stop
  PROVE  OInv'
<1>1. /\ UNCHANGED <<pc, grp, mb, shard, outNum, out, tokens, answered>>
      /\ UNCHANGED <<window, attn, answered>>
  BY DEF Stop, control, attn
<1>2. WindowIds'
  BY <1>1, WindowKept DEF OInv, Wiped
<1>3. CopiedIds'
  BY <1>1 DEF OInv, CopiedIds, CurrentIds
<1> QED  BY <1>1, <1>2, <1>3, ListKept DEF OInv

(***************************************************************************)
(* The attention workers write only where nothing is in hand.              *)
(***************************************************************************)

(* Rounds in hand: those of running shards and of listed entries.          *)
LEMMA InHand ==
  ASSUME IInv
  PROVE  /\ \A s \in Sessions : shard[s] # "none" => <<s, mb>> \in Pairs /\ <<s, mb>> \in Hand
         /\ pc # "idle" => \A i \in 0 .. outNum - 1 :
              LET q == <<out[i].session, out[i].microBatch>> IN q \in Pairs /\ q \in Hand
<1>1. \A s \in Sessions : shard[s] # "none" => <<s, mb>> \in Pairs /\ <<s, mb>> \in Hand
  BY ShardFacts
<1>2. pc # "idle" => \A i \in 0 .. outNum - 1 :
        LET q == <<out[i].session, out[i].microBatch>> IN q \in Pairs /\ q \in Hand
  BY ListedFacts
<1> QED  BY <1>1, <1>2

LEMMA WriteTokensKeeps ==
  ASSUME IInv, OInv, NEW s \in Sessions, WriteTokens(s)
  PROVE  OInv'
<1> DEFINE p == <<s, turn[s]>>
<1>1. p \in Pairs /\ p[1] = s /\ p[2] = turn[s] /\ ~writing[s]
  BY DEF IInv, TypeOK, Pairs, WriteTokens
<1>2. PICK T \in Workloads :
        /\ tokens' = [tokens EXCEPT ![p] = T]
        /\ expertIds' = [expertIds EXCEPT ![p] =
                           [i \in Slots |-> IF i \in T THEN sent[p] ELSE expertIds[p][i]]]
  BY <1>1 DEF WriteTokens, IInv, TypeOK
<1>3. /\ flag[p] = 0 /\ sent[p] = answered[p]
      /\ writing' = [writing EXCEPT ![s] = TRUE]
      /\ UNCHANGED <<flag, context, control, sent, turn, answered>>
  BY <1>1, ContextAssumption DEF WriteTokens, MaySend, IInv, TypeOK
<1>4. p \notin Hand
  BY <1>1, <1>3, ContextAssumption DEF IInv, RoundInv, TypeOK
<1>5. \A q \in Pairs : q # p => tokens'[q] = tokens[q] /\ expertIds'[q] = expertIds[q]
  BY <1>2 DEF IInv, TypeOK
<1>6. expertIds'[p] = RoundIds(sent[p], tokens'[p])
  <2>1. expertIds[p] = NoIds
    BY <1>1, <1>3 DEF OInv, WindowIds, Written
  <2>2. tokens'[p] = T
    BY <1>1, <1>2 DEF IInv, TypeOK
  <2>3. expertIds'[p] = [i \in Slots |-> IF i \in T THEN sent[p] ELSE expertIds[p][i]]
    BY <1>1, <1>2 DEF IInv, TypeOK
  <2> QED  BY <2>1, <2>2, <2>3 DEF RoundIds, NoIds
<1>7. WindowIds'
  <2>1. \A q \in Pairs : /\ Wiped(q)' <=> Wiped(q)
                         /\ Written(q)' <=> Written(q) \/ q = p
    BY <1>1, <1>3 DEF Wiped, Written, control, Pairs, IInv, TypeOK
  <2>2. ~Wiped(p)
    <3>1. shard[s] # "none" /\ mb = turn[s] => p \in Hand
      BY <1>1 DEF Hand
    <3> QED  BY <1>1, <1>4, <3>1 DEF Wiped
  <2> HIDE DEF p
  <2>3. ASSUME NEW q \in Pairs, q # p
        PROVE  /\ flag[q] = 1 /\ ~Wiped(q) => expertIds'[q] = RoundIds(answered[q], tokens'[q])
               /\ flag[q] = 0 /\ ~Written(q) => expertIds'[q] = NoIds
               /\ Wiped(q) => expertIds'[q] = NoIds
               /\ Written(q) => expertIds'[q] = RoundIds(sent[q], tokens'[q])
    BY <1>5, <2>3 DEF OInv, WindowIds, CurrentIds
  <2> QED  BY <1>3, <1>6, <2>1, <2>2, <2>3 DEF WindowIds, CurrentIds
<1>8. CopiedIds'
  <2>1. \A t \in Sessions : shard[t] # "none" => tokens'[<<t, mb>>] = tokens[<<t, mb>>]
    <3> HIDE DEF p
    <3> QED  BY <1>4, <1>5, InHand
  <2> QED  BY <1>3, <2>1 DEF OInv, CopiedIds, CurrentIds, context, control
<1>9. (ListedIds /\ WholeGroups)'
  <2>1. pc # "idle" => \A i \in 0 .. outNum - 1 :
          LET q == <<out[i].session, out[i].microBatch>> IN tokens'[q] = tokens[q]
    <3> HIDE DEF p
    <3> QED  BY <1>4, <1>5, InHand
  <2> QED  BY <1>3, <2>1 DEF OInv, ListedIds, WholeGroups, Chosen, CurrentIds, context, control
<1> QED  BY <1>7, <1>8, <1>9 DEF OInv

LEMMA WriteFlagKeeps ==
  ASSUME IInv, OInv, NEW s \in Sessions, WriteFlag(s)
  PROVE  OInv'
<1> DEFINE p == <<s, turn[s]>>
<1>1. p \in Pairs /\ p[1] = s /\ p[2] = turn[s] /\ writing[s]
  BY DEF IInv, TypeOK, Pairs, WriteFlag
<1>2. /\ flag[p] = 0 /\ sent[p] = answered[p]
      /\ flag' = [flag EXCEPT ![p] = 1]
      /\ sent' = [sent EXCEPT ![p] = sent[p] + 1]
      /\ turn' = [turn EXCEPT ![s] = (turn[s] + 1) % MicroBatchNum]
      /\ writing' = [writing EXCEPT ![s] = FALSE]
      /\ UNCHANGED <<expertIds, context, control, tokens, answered>>
  BY <1>1 DEF WriteFlag, IInv, WriteInv
<1>3. \A q \in Pairs : Wiped(q)' <=> Wiped(q)
  BY <1>2 DEF Wiped, control
<1>4. \A q \in Pairs : q # p => (Written(q)' <=> Written(q)) /\ flag'[q] = flag[q] /\ sent'[q] = sent[q]
  BY <1>1, <1>2 DEF Written, Pairs, IInv, TypeOK
<1>5. \A q \in Pairs : q = p => Written(q) /\ ~Written(q)' /\ flag'[q] = 1
  BY <1>1, <1>2 DEF Written, IInv, TypeOK
<1>6. WindowIds'
  <2> HIDE DEF p
  <2>1. ASSUME NEW q \in Pairs
        PROVE  /\ flag'[q] = 1 /\ ~Wiped(q)' => expertIds[q] = CurrentIds(q)
               /\ flag'[q] = 0 /\ ~Written(q)' => expertIds[q] = NoIds
               /\ Wiped(q)' => expertIds[q] = NoIds
               /\ Written(q)' => expertIds[q] = RoundIds(sent'[q], tokens[q])
    <3>1. CASE q = p
      BY <1>2, <1>3, <1>5, <3>1 DEF OInv, WindowIds, CurrentIds
    <3>2. CASE q # p
      BY <1>3, <1>4, <3>2 DEF OInv, WindowIds
    <3> QED  BY <3>1, <3>2
  <2> QED  BY <1>2, <2>1 DEF WindowIds, CurrentIds
<1>7. CopiedIds'
  BY <1>2 DEF OInv, CopiedIds, CurrentIds, context, control
<1>8. (ListedIds /\ WholeGroups)'
  BY <1>2, ListKept DEF OInv, context, control
<1> QED  BY <1>6, <1>7, <1>8 DEF OInv

(***************************************************************************)
(* The shards.                                                             *)
(***************************************************************************)

LEMMA CopyOutKeeps ==
  ASSUME IInv, OInv, NEW s \in Sessions, CopyOut(s)
  PROVE  OInv'
<1> DEFINE k == outNum + s - Start(grp)
           e == [layer |-> layerId[<<s, mb>>], session |-> s, microBatch |-> mb,
                 ids |-> expertIds[<<s, mb>>]]
<1>1. /\ shard[s] = "copy" /\ out' = [out EXCEPT ![k] = e]
      /\ shard' = [shard EXCEPT ![s] = "reset"]
      /\ UNCHANGED <<window, outNum, pc, grp, mb, attn, answered>>
  BY DEF CopyOut
<1>2. /\ <<s, mb>> \in Pairs /\ k \in outNum .. s /\ k \in Sessions /\ outNum \in Nat
  BY <1>1, ShardFacts DEF IInv, TypeOK
<1>3. WindowIds'
  <2>1. \A p \in Pairs : Wiped(p)' <=> Wiped(p)
    BY <1>1 DEF Wiped, Pairs, IInv, TypeOK
  <2> QED  BY <1>1, <2>1, WindowKept DEF OInv
<1>4. out'[k].ids = CurrentIds(<<s, mb>>)
  <2>1. flag[<<s, mb>>] = 1
    BY <1>1, <1>2 DEF IInv, RoundInv
  <2>2. expertIds[<<s, mb>>] = CurrentIds(<<s, mb>>)
    BY <1>1, <1>2, <2>1 DEF OInv, WindowIds, Wiped
  <2>3. out'[k] = e
    BY <1>1, <1>2 DEF IInv, TypeOK
  <2> QED  BY <2>2, <2>3
<1>5. CopiedIds'
  <2> SUFFICES ASSUME NEW t \in Sessions, shard'[t] \in {"reset", "clear", "done"}
               PROVE  out'[outNum + t - Start(grp)].ids = CurrentIds(<<t, mb>>)
    BY <1>1 DEF CopiedIds, CurrentIds, attn
  <2>1. CASE t = s
    BY <1>4, <2>1
  <2>2. CASE t # s
    <3>1. shard[t] \in {"reset", "clear", "done"}
      BY <2>2, <1>1 DEF IInv, TypeOK
    <3>2. outNum + t - Start(grp) \in Sessions
      BY <3>1, ShardFacts
    <3>3. outNum + t - Start(grp) # k
      <4>1. s \in Int /\ t \in Int /\ Start(grp) \in Int
        BY StartFacts, ContextAssumption DEF Sessions, IInv, TypeOK
      <4> QED  BY <2>2, <1>2, <4>1
    <3>4. out'[outNum + t - Start(grp)] = out[outNum + t - Start(grp)]
      BY <1>1, <3>2, <3>3 DEF IInv, TypeOK
    <3> QED  BY <3>1, <3>4 DEF OInv, CopiedIds
  <2> QED  BY <2>1, <2>2
<1>6. (ListedIds /\ WholeGroups)'
  <2>1. \A i \in 0 .. outNum - 1 : out'[i] = out[i]
    BY <1>1, <1>2, ContextAssumption DEF IInv, TypeOK, Sessions
  <2> QED  BY <1>1, <2>1 DEF OInv, ListedIds, WholeGroups, Chosen, CurrentIds, attn
<1> QED  BY <1>3, <1>5, <1>6 DEF OInv

LEMMA ResetIdsKeeps ==
  ASSUME IInv, OInv, NEW s \in Sessions, ResetIds(s)
  PROVE  OInv'
<1> DEFINE p == <<s, mb>>
<1>1. /\ shard[s] = "reset" /\ shard' = [shard EXCEPT ![s] = "clear"]
      /\ expertIds' = [expertIds EXCEPT ![p] = NoIds]
      /\ UNCHANGED <<flag, layerId, tokenData, context, pc, grp, mb, attn, answered>>
  BY DEF ResetIds
<1>2. p \in Pairs /\ p[1] = s /\ p[2] = mb /\ flag[p] = 1
  BY <1>1, ShardFacts DEF IInv, RoundInv
<1>3. \A q \in Pairs : q = p => ~Written(q)
  BY <1>2 DEF IInv, WriteInv, Written
<1>4. /\ expertIds'[p] = NoIds
      /\ \A q \in Pairs : q # p => expertIds'[q] = expertIds[q]
  BY <1>1, <1>2 DEF IInv, TypeOK
<1>5. \A q \in Pairs : IF q = p THEN Wiped(q)' ELSE Wiped(q)' <=> Wiped(q)
  BY <1>1, <1>2 DEF Wiped, Pairs, IInv, TypeOK
<1>6. \A q \in Pairs : Written(q)' <=> Written(q)
  BY <1>1 DEF Written, attn
<1>7. WindowIds'
  <2> HIDE DEF p
  <2>1. ASSUME NEW q \in Pairs
        PROVE  /\ flag[q] = 1 /\ ~Wiped(q)' => expertIds'[q] = CurrentIds(q)
               /\ flag[q] = 0 /\ ~Written(q) => expertIds'[q] = NoIds
               /\ Wiped(q)' => expertIds'[q] = NoIds
               /\ Written(q) => expertIds'[q] = RoundIds(sent[q], tokens[q])
    <3>1. CASE q = p
      BY <1>2, <1>3, <1>4, <1>5, <3>1
    <3>2. CASE q # p
      BY <1>4, <1>5, <3>2 DEF OInv, WindowIds
    <3> QED  BY <3>1, <3>2
  <2> QED  BY <1>1, <1>6, <2>1 DEF WindowIds, CurrentIds, attn
<1>8. CopiedIds'
  BY <1>1 DEF OInv, CopiedIds, CurrentIds, context, attn, IInv, TypeOK
<1>9. (ListedIds /\ WholeGroups)'
  BY <1>1, ListKept DEF OInv, context, attn
<1> QED  BY <1>7, <1>8, <1>9 DEF OInv

LEMMA ClearFlagKeeps ==
  ASSUME IInv, OInv, NEW s \in Sessions, ClearFlag(s)
  PROVE  OInv'
<1> DEFINE p == <<s, mb>>
<1>1. /\ shard[s] = "clear" /\ shard' = [shard EXCEPT ![s] = "done"]
      /\ flag' = [flag EXCEPT ![p] = 0]
      /\ UNCHANGED <<layerId, expertIds, tokenData, context, pc, grp, mb, attn, answered>>
  BY DEF ClearFlag
<1>2. p \in Pairs /\ p[1] = s /\ p[2] = mb /\ flag[p] = 1
  BY <1>1, ShardFacts DEF IInv, RoundInv
<1>3. \A q \in Pairs : q = p => Wiped(q) /\ ~Wiped(q)' /\ ~Written(q)
  BY <1>1, <1>2 DEF IInv, TypeOK, WriteInv, Written, Wiped
<1>4. flag'[p] = 0 /\ \A q \in Pairs : q # p => flag'[q] = flag[q]
  BY <1>1, <1>2 DEF IInv, TypeOK
<1>5. \A q \in Pairs : q # p => (Wiped(q)' <=> Wiped(q))
  BY <1>1, <1>2 DEF Wiped, Pairs, IInv, TypeOK
<1>6. \A q \in Pairs : Written(q)' <=> Written(q)
  BY <1>1 DEF Written, attn
<1>7. WindowIds'
  <2> HIDE DEF p
  <2>1. ASSUME NEW q \in Pairs
        PROVE  /\ flag'[q] = 1 /\ ~Wiped(q)' => expertIds[q] = CurrentIds(q)
               /\ flag'[q] = 0 /\ ~Written(q) => expertIds[q] = NoIds
               /\ Wiped(q)' => expertIds[q] = NoIds
               /\ Written(q) => expertIds[q] = RoundIds(sent[q], tokens[q])
    <3>1. CASE q = p
      BY <1>3, <1>4, <3>1 DEF OInv, WindowIds
    <3>2. CASE q # p
      BY <1>4, <1>5, <3>2 DEF OInv, WindowIds
    <3> QED  BY <3>1, <3>2
  <2> QED  BY <1>1, <1>6, <2>1 DEF WindowIds, CurrentIds, attn
<1>8. CopiedIds'
  BY <1>1 DEF OInv, CopiedIds, CurrentIds, context, attn, IInv, TypeOK
<1>9. (ListedIds /\ WholeGroups)'
  BY <1>1, ListKept DEF OInv, context, attn
<1> QED  BY <1>7, <1>8, <1>9 DEF OInv

(***************************************************************************)
(* The end of a group, the answer, and the rest.                           *)
(***************************************************************************)

LEMMA JoinOutputKeeps ==
  ASSUME IInv, OInv, JoinOutput
  PROVE  OInv'
<1>1. /\ pc = "output" /\ outNum' = outNum + SyncGroupSize
      /\ \A s \in Group(grp) : shard[s] = "done"
      /\ shard' = [s \in Sessions |-> "none"]
      /\ UNCHANGED <<window, out, attn, answered>>
  BY DEF JoinOutput, NextGroup
<1>2. /\ grp \in Groups /\ outNum \in Nat /\ SyncGroupSize \in Nat
      /\ Start(grp) \in Nat /\ Group(grp) \subseteq Sessions
  BY StartFacts, GroupFacts, ContextAssumption DEF IInv, TypeOK
<1>3. WindowIds'
  <2>1. \A p \in Pairs : ~Wiped(p) /\ ~Wiped(p)'
    BY <1>1 DEF Wiped, Pairs, IInv, ControlInv
  <2> QED  BY <1>1, <2>1, WindowKept DEF OInv
<1>4. CopiedIds'
  BY <1>1 DEF CopiedIds
<1> DEFINE N == outNum + SyncGroupSize
<1>5. N \in Nat /\ outNum' = N /\ (\A i \in 0 .. outNum - 1 : i \in 0 .. N - 1)
  BY <1>1, <1>2
<1>6. ASSUME NEW i \in 0 .. N - 1, ~(i \in 0 .. outNum - 1)
      PROVE  /\ out[i].session \in Group(grp)
             /\ out[i].microBatch = mb
             /\ out[i].ids = CurrentIds(<<out[i].session, mb>>)
  <2> DEFINE s == Start(grp) + i - outNum
  <2>1. i \in 0 .. outNum + SyncGroupSize - 1 /\ i >= outNum
    BY <1>2, <1>6
  <2>2. /\ s \in Group(grp) /\ s \in Sessions
        /\ out[i].session = s /\ out[i].microBatch = mb
    BY <1>1, <2>1, JoinedFacts
  <2>3. outNum + s - Start(grp) = i
    BY <1>2, <2>1
  <2> HIDE DEF s
  <2>4. out[i].ids = CurrentIds(<<s, mb>>)
    BY <1>1, <2>2, <2>3 DEF OInv, CopiedIds
  <2> QED  BY <2>2, <2>4
<1>7. \A t \in Group(grp) : \E j \in 0 .. N - 1 : out[j].session = t /\ out[j].microBatch = mb
  <2> TAKE t \in Group(grp)
  <2> DEFINE j == outNum + t - Start(grp)
  <2>1. t \in Int /\ Start(grp) <= t /\ t < Start(grp) + SyncGroupSize
    BY <1>2 DEF Group
  <2>2. j \in 0 .. N - 1
    BY <1>2, <2>1
  <2>3. out[j].session = t /\ out[j].microBatch = mb
    BY <1>1, <1>2 DEF IInv, CopyInv
  <2> QED  BY <2>2, <2>3
<1> HIDE DEF N
<1>8. ListedIds'
  <2> SUFFICES ASSUME NEW i \in 0 .. N - 1
               PROVE  out[i].ids = CurrentIds(<<out[i].session, out[i].microBatch>>)
    BY <1>1, <1>5 DEF ListedIds, CurrentIds, attn
  <2>1. CASE i \in 0 .. outNum - 1
    BY <1>1, <2>1 DEF OInv, ListedIds
  <2>2. CASE ~(i \in 0 .. outNum - 1)
    BY <1>6, <2>2
  <2> QED  BY <2>1, <2>2
<1>9. WholeGroups'
  <2> SUFFICES ASSUME NEW i \in 0 .. N - 1
               PROVE  \E g \in Groups :
                        /\ out[i].session \in Group(g)
                        /\ \A s \in Group(g) : \E j \in 0 .. N - 1 :
                             out[j].session = s /\ out[j].microBatch = out[i].microBatch
    BY <1>1, <1>5 DEF WholeGroups, Chosen
  <2>1. CASE i \in 0 .. outNum - 1
    BY <1>1, <1>5, <2>1 DEF OInv, WholeGroups, Chosen
  <2>2. CASE ~(i \in 0 .. outNum - 1)
    <3>1. PICK g \in Groups : Group(g) = Group(grp)
      BY <1>2
    <3>2. out[i].session \in Group(g) /\ out[i].microBatch = mb
      BY <1>6, <2>2, <3>1
    <3>3. \A t \in Group(g) : \E j \in 0 .. N - 1 :
            out[j].session = t /\ out[j].microBatch = out[i].microBatch
      BY <1>7, <3>1, <3>2
    <3> QED  BY <3>2, <3>3
  <2> QED  BY <2>1, <2>2
<1> QED  BY <1>3, <1>4, <1>8, <1>9 DEF OInv

LEMMA RespondKeeps ==
  ASSUME IInv, OInv, Respond
  PROVE  OInv'
<1>1. /\ pc = "return" /\ pc' = "idle" /\ shard' = shard
      /\ shard = [s \in Sessions |-> "none"]
      /\ answered' = [p \in Pairs |-> IF Listed(p) THEN answered[p] + 1 ELSE answered[p]]
      /\ UNCHANGED <<window, context, attn>>
  BY DEF Respond, Goto, IInv, ControlInv
<1>2. \A p \in Pairs : ~Wiped(p) /\ ~Wiped(p)'
  BY <1>1 DEF Wiped, Pairs
<1>3. \A p \in Pairs : flag[p] = 1 => answered'[p] = answered[p]
  BY <1>1 DEF IInv, RoundInv
<1>4. WindowIds'
  BY <1>1, <1>2, <1>3 DEF OInv, WindowIds, CurrentIds, Written, window, attn
<1>5. (CopiedIds /\ ListedIds /\ WholeGroups)'
  BY <1>1 DEF CopiedIds, ListedIds, WholeGroups
<1> QED  BY <1>4, <1>5 DEF OInv

LEMMA InitOInv == Init => OInv
<1> SUFFICES ASSUME Init PROVE OInv
  OBVIOUS
<1>1. WindowIds
  BY DEF Init, WindowIds, Wiped, Written, Pairs
<1>2. CopiedIds /\ ListedIds /\ WholeGroups
  BY DEF Init, CopiedIds, ListedIds, WholeGroups
<1> QED  BY <1>1, <1>2 DEF OInv

(* No action of the specification mixes up the ids or splits a group.      *)
LEMMA NextOInv == IInv /\ OInv /\ [Next]_vars => OInv'
<1> SUFFICES ASSUME IInv, OInv, [Next]_vars PROVE OInv'
  OBVIOUS
<1>1. CASE UNCHANGED vars
  <2>1. UNCHANGED <<window, context, control, attn, answered>>
    BY <1>1 DEF vars
  <2>2. WindowIds'
    BY <2>1, WindowKept DEF OInv, Wiped, control
  <2>3. CopiedIds'
    BY <2>1 DEF OInv, CopiedIds, CurrentIds, context, control, attn
  <2>4. (ListedIds /\ WholeGroups)'
    BY <2>1, ListKept DEF OInv, context, control, attn
  <2> QED  BY <2>2, <2>3, <2>4 DEF OInv
<1>2. ASSUME NEW s \in Sessions, Shard(s) \/ Attention(s)
      PROVE  OInv'
  BY <1>2, WriteTokensKeeps, WriteFlagKeeps, CopyOutKeeps, ResetIdsKeeps, ClearFlagKeeps
     DEF Shard, Attention
<1> QED
  BY <1>1, <1>2, GroupLoopKeeps, JoinOutputKeeps, RespondKeeps, StopKeeps DEF Next, Operator

(***************************************************************************)
(* The theorems.                                                           *)
(***************************************************************************)

(* start_session_id of the group of a session is found by the division.    *)
LEMMA GroupOf ==
  ASSUME NEW g \in Groups, NEW s \in Group(g)
  PROVE  s \div SyncGroupSize = g
<1>1. /\ g \in Nat /\ SyncGroupSize \in Nat /\ SyncGroupSize > 0
      /\ s \in Int /\ g * SyncGroupSize <= s /\ s < g * SyncGroupSize + SyncGroupSize
  BY ContextAssumption, GroupNumFacts, StartFacts DEF Groups, Group, Start
<1> DEFINE q == s \div SyncGroupSize
           r == s % SyncGroupSize
<1>2. q \in Int /\ r \in 0 .. SyncGroupSize - 1 /\ s = SyncGroupSize * q + r
  BY <1>1
<1> HIDE DEF q, r
<1>3. ~(q < g)
  <2> SUFFICES ASSUME q + 1 <= g PROVE FALSE
    BY <1>1, <1>2
  <2>1. SyncGroupSize * (q + 1) <= SyncGroupSize * g
    BY <1>1, <1>2
  <2> QED  BY <1>1, <1>2, <2>1
<1>4. ~(g < q)
  <2> SUFFICES ASSUME g + 1 <= q PROVE FALSE
    BY <1>1, <1>2
  <2>1. SyncGroupSize * (g + 1) <= SyncGroupSize * q
    BY <1>1, <1>2
  <2> QED  BY <1>1, <1>2, <2>1
<1> QED  BY <1>1, <1>2, <1>3, <1>4 DEF q

(* The extended invariant holds of every reachable state. *)
THEOREM OutputInvariance == Spec => [](IInv /\ OInv)
<1>1. Init => IInv /\ OInv
  BY InitInv, InitOInv
<1>2. (IInv /\ OInv) /\ [Next]_vars => (IInv /\ OInv)'
  BY NextInv, NextOInv
<1> QED  BY <1>1, <1>2, PTL DEF Spec

(* Batching is handed whole sync groups, every session once, each with the *)
(* layer it waits for and the expert ids it wrote for that layer: no id of *)
(* an earlier round survives, and none is wiped before it is copied.       *)
THEOREM OutputCorrect == Spec => []OutputFaithful
<1>1. IInv /\ OInv => OutputFaithful
  <2> SUFFICES ASSUME IInv, OInv, pc = "return"
               PROVE  /\ \A i, j \in 0 .. outNum - 1 : i # j => out[i].session # out[j].session
                      /\ \A i \in 0 .. outNum - 1 :
                           LET e == out[i] IN
                           /\ e.layer = answered[<<e.session, e.microBatch>>]
                           /\ e.ids = RoundIds(e.layer, tokens[<<e.session, e.microBatch>>])
                           /\ \A s \in Group(e.session \div SyncGroupSize) :
                                \E j \in 0 .. outNum - 1 :
                                  out[j].session = s /\ out[j].microBatch = e.microBatch
    BY DEF OutputFaithful
  <2>1. \A i \in 0 .. outNum - 1 : i \in Int /\ out[i].session \in Int
    BY ContextAssumption DEF IInv, TypeOK, Sessions, Entry
  <2>2. \A i, j \in 0 .. outNum - 1 : i # j => out[i].session # out[j].session
    BY <2>1 DEF IInv, ListInv
  <2>3. ASSUME NEW i \in 0 .. outNum - 1
        PROVE  /\ out[i].layer = answered[<<out[i].session, out[i].microBatch>>]
               /\ out[i].ids = RoundIds(out[i].layer, tokens[<<out[i].session, out[i].microBatch>>])
    BY DEF IInv, EntryInv, OInv, ListedIds, CurrentIds
  <2>4. ASSUME NEW i \in 0 .. outNum - 1,
               NEW s \in Group(out[i].session \div SyncGroupSize)
        PROVE  Chosen(s, out[i].microBatch)
    <3>1. PICK g \in Groups : /\ out[i].session \in Group(g)
                              /\ \A t \in Group(g) : Chosen(t, out[i].microBatch)
      BY DEF OInv, WholeGroups
    <3> QED  BY <3>1, GroupOf
  <2> QED  BY <2>2, <2>3, <2>4 DEF Chosen
<1> QED  BY <1>1, OutputInvariance, PTL

(***************************************************************************)
(* The all-sync mode (one sync group): the sessions, which know nothing of *)
(* each other, and the polling index, which is kept across calls, stay in  *)
(* step.                                                                   *)
(***************************************************************************)

(* Every session has had round k answered, and round k + 1 on the micro-   *)
(* batches before m.                                                       *)
ServedUpTo(k, m) ==
  \A p \in Pairs : answered[p] = k + (IF p[2] < m THEN 1 ELSE 0)

(* One call lists every session on micro-batch m, and nothing else.        *)
OnlyListed(m) ==
  /\ \A p \in Pairs : Listed(p) <=> p[2] = m
  /\ \A i \in 0 .. outNum - 1 : out[i].microBatch = m

(* A call in which the operator has listed nothing and moved nothing on.   *)
Untaken == pc # "return" \/ outNum = 0

(* pollingIndex runs ahead of the answers only from JoinOutput to Respond. *)
StepInv ==
  GroupNum = 1 =>
    /\ pc \notin {"recheck", "handle"}
    /\ pc = "output" => mb = pollingIndex
    /\ Untaken => \E k \in Int : ServedUpTo(k, pollingIndex)
    /\ ~Untaken => \E k \in Int, m \in MicroBatches :
         ServedUpTo(k, m) /\ OnlyListed(m) /\ pollingIndex = (m + 1) % MicroBatchNum

(* With one group, it is all the sessions. *)
LEMMA OneGroup ==
  ASSUME GroupNum = 1
  PROVE  Groups = {0} /\ Start(0) = 0 /\ Group(0) = Sessions /\ SyncGroupSize = SessionNum
BY GroupNumFacts, ContextAssumption DEF Groups, Start, Group, Sessions

LEMMA InitStepInv == Init => StepInv
<1> SUFFICES ASSUME Init PROVE StepInv
  OBVIOUS
<1>1. ServedUpTo(0, 0)
  BY ContextAssumption DEF Init, ServedUpTo, Pairs, MicroBatches
<1> QED  BY <1>1 DEF Init, StepInv, Untaken

(* Steps that answer nothing, list nothing and keep the polling index.     *)
LEMMA UntakenKept ==
  ASSUME IInv, StepInv, GroupNum = 1, Untaken, Untaken',
         pc' \notin {"recheck", "handle"},
         pc' = "output" => mb' = pollingIndex,
         UNCHANGED <<pollingIndex, answered>>
  PROVE  StepInv'
BY DEF StepInv, ServedUpTo

LEMMA TakenKept ==
  ASSUME StepInv, UNCHANGED <<pc, mb, pollingIndex, answered, outNum, out>>
  PROVE  StepInv'
BY DEF StepInv, ServedUpTo, OnlyListed, Listed, Untaken

LEMMA ScanStep ==
  ASSUME IInv, StepInv, GroupNum = 1,
         Compute \/ LoopTest \/ DoComputeAllSync
  PROVE  StepInv'
<1>1. /\ pc \in {"idle", "loop", "scan"}
      /\ UNCHANGED <<pollingIndex, answered>>
      /\ pc' \in {"loop", "scan", "return", "output"}
      /\ pc' = "return" => pc = "loop" /\ outNum' = outNum
      /\ pc' = "output" => mb' = pollingIndex
  BY DEF Compute, LoopTest, DoComputeAllSync, Goto, ForkOutput, context
<1>2. Untaken /\ Untaken'
  BY <1>1 DEF IInv, ControlInv, Untaken
<1> QED  BY <1>1, <1>2, UntakenKept

LEMMA JoinStep ==
  ASSUME IInv, StepInv, GroupNum = 1, JoinOutput
  PROVE  StepInv'
<1>1. /\ pc = "output" /\ grp = 0 /\ outNum = 0
      /\ \A s \in Sessions : shard[s] = "done"
      /\ mb = pollingIndex /\ mb \in MicroBatches
      /\ Start(grp) = 0 /\ Group(grp) = Sessions /\ SyncGroupSize = SessionNum
  BY OneGroup, ContextAssumption DEF JoinOutput, IInv, TypeOK, ControlInv, StepInv
<1>2. /\ pc' = "return" /\ outNum' = SessionNum
      /\ pollingIndex' = (mb + 1) % MicroBatchNum
      /\ UNCHANGED <<out, answered>>
  BY <1>1, ContextAssumption DEF JoinOutput, NextGroup, AdvancePolling
<1>3. \A s \in Sessions : out[s].session = s /\ out[s].microBatch = mb
  <2> SUFFICES ASSUME NEW s \in Sessions
               PROVE  out[s].session = s /\ out[s].microBatch = mb
    OBVIOUS
  <2>1. outNum + s - Start(grp) = s
    BY <1>1, ContextAssumption DEF Sessions
  <2> QED  BY <1>1, <2>1 DEF IInv, CopyInv
<1>4. PICK k \in Int : ServedUpTo(k, mb)
  BY <1>1 DEF StepInv, Untaken
<1>5. PICK m \in MicroBatches : m = mb
  BY <1>1
<1>6. OnlyListed(m)'
  <2>1. \A i \in 0 .. outNum' - 1 : i \in Sessions
    BY <1>2 DEF Sessions
  <2>2. ASSUME NEW p \in Pairs
        PROVE  Listed(p)' <=> p[2] = m
    <3>1. p[1] \in Sessions /\ p[1] \in 0 .. outNum' - 1
      BY <1>2 DEF Pairs, Sessions
    <3> QED  BY <1>2, <1>3, <1>5, <2>1, <3>1 DEF Listed
  <2> QED  BY <1>2, <1>3, <1>5, <2>1, <2>2 DEF OnlyListed
<1>7. ServedUpTo(k, m)'
  BY <1>2, <1>4, <1>5 DEF ServedUpTo
<1>8. ~Untaken'
  BY <1>2, ContextAssumption DEF Untaken
<1> QED  BY <1>2, <1>5, <1>6, <1>7, <1>8 DEF StepInv

LEMMA RespondStep ==
  ASSUME IInv, StepInv, GroupNum = 1, Respond
  PROVE  StepInv'
<1>1. /\ pc = "return" /\ pc' = "idle"
      /\ answered' = [p \in Pairs |-> IF Listed(p) THEN answered[p] + 1 ELSE answered[p]]
      /\ UNCHANGED <<pollingIndex, outNum, out>>
      /\ Untaken'
  BY DEF Respond, Goto, context, Untaken
<1>2. CASE outNum = 0
  <2>1. \A p \in Pairs : answered'[p] = answered[p]
    BY <1>1, <1>2 DEF Listed
  <2>2. PICK k \in Int : ServedUpTo(k, pollingIndex)
    BY <1>2 DEF StepInv, Untaken
  <2>3. ServedUpTo(k, pollingIndex)'
    BY <1>1, <2>1, <2>2 DEF ServedUpTo
  <2> QED  BY <1>1, <2>3 DEF StepInv
<1>3. CASE outNum # 0
  <2>1. PICK k \in Int, m \in MicroBatches :
          ServedUpTo(k, m) /\ OnlyListed(m) /\ pollingIndex = (m + 1) % MicroBatchNum
    BY <1>1, <1>3 DEF StepInv, Untaken
  <2>2. \A p \in Pairs : p[2] \in MicroBatches
    BY DEF Pairs
  <2>3. ASSUME NEW p \in Pairs
        PROVE  answered'[p] = k + (IF p[2] < m + 1 THEN 1 ELSE 0)
    <3>1. p[2] \in Int /\ m \in Int
      BY <2>2, ContextAssumption DEF MicroBatches
    <3>2. answered[p] = k + (IF p[2] < m THEN 1 ELSE 0)
      BY <2>1 DEF ServedUpTo
    <3>3. answered'[p] = IF p[2] = m THEN answered[p] + 1 ELSE answered[p]
      BY <1>1, <2>1 DEF OnlyListed
    <3> QED  BY <3>1, <3>2, <3>3
  <2>4. CASE m + 1 < MicroBatchNum
    <3>1. pollingIndex = m + 1
      BY <2>1, <2>4, ContextAssumption DEF MicroBatches
    <3>2. ServedUpTo(k, pollingIndex)'
      BY <1>1, <2>3, <3>1 DEF ServedUpTo
    <3> QED  BY <1>1, <3>2 DEF StepInv
  <2>5. CASE ~(m + 1 < MicroBatchNum)
    <3>1. m + 1 = MicroBatchNum /\ pollingIndex = 0
      BY <2>1, <2>5, ContextAssumption DEF MicroBatches
    <3>2. ASSUME NEW p \in Pairs
          PROVE  answered'[p] = (k + 1) + (IF p[2] < 0 THEN 1 ELSE 0)
      <4>1. p[2] \in Nat /\ p[2] < m + 1
        BY <2>2, <3>1, ContextAssumption DEF MicroBatches
      <4> QED  BY <2>3, <4>1
    <3>3. ServedUpTo(k + 1, pollingIndex)'
      BY <1>1, <3>1, <3>2 DEF ServedUpTo
    <3> QED  BY <1>1, <3>3 DEF StepInv
  <2> QED  BY <2>4, <2>5
<1> QED  BY <1>2, <1>3

LEMMA ShardStep ==
  ASSUME IInv, StepInv, NEW s \in Sessions, Shard(s)
  PROVE  StepInv'
<1>1. pc = "output"
  BY ShardFacts DEF Shard, CopyOut, ResetIds, ClearFlag
<1>2. UNCHANGED <<pc, mb, pollingIndex, answered, outNum>>
  BY DEF Shard, CopyOut, ResetIds, ClearFlag, context
<1> QED  BY <1>1, <1>2 DEF StepInv, ServedUpTo, Untaken

LEMMA NextStepInv == IInv /\ StepInv /\ [Next]_vars => StepInv'
<1> SUFFICES ASSUME IInv, StepInv, [Next]_vars, GroupNum = 1 PROVE StepInv'
  BY DEF StepInv
<1>1. CASE UNCHANGED vars
  BY <1>1, TakenKept DEF vars, context, control
<1>2. ASSUME NEW s \in Sessions, Attention(s)
      PROVE  StepInv'
  BY <1>2, TakenKept DEF Attention, WriteTokens, WriteFlag, context, control
<1>3. CASE Stop
  BY <1>3, TakenKept DEF Stop, control
<1>4. ~DoCompute /\ ~RecheckRunFlag /\ ~CheckHandleSessions
  BY DEF DoCompute, RecheckRunFlag, CheckHandleSessions, StepInv
<1> QED
  BY <1>1, <1>2, <1>3, <1>4, ScanStep, JoinStep, RespondStep, ShardStep DEF Next, Operator

(* What is in step is in step in every reachable state.                    *)
THEOREM InStepInvariance == Spec => [](IInv /\ StepInv)
<1>1. Init => IInv /\ StepInv
  BY InitInv, InitStepInv
<1>2. (IInv /\ StepInv) /\ [Next]_vars => (IInv /\ StepInv)'
  BY NextInv, NextStepInv
<1> QED  BY <1>1, <1>2, PTL DEF Spec

(* All sessions of a batch are at the same layer, and the micro-batch that *)
(* is polled next is the next one to be served, whatever the sessions did. *)
THEOREM AllSyncCorrect == Spec => []AllSyncInStep
<1>1. IInv /\ StepInv => AllSyncInStep
  <2> SUFFICES ASSUME IInv, StepInv, GroupNum = 1
               PROVE  /\ pc = "return" =>
                           \A i, j \in 0 .. outNum - 1 : out[i].layer = out[j].layer
                      /\ pc \in {"loop", "scan"} =>
                           \A s \in Sessions, m \in MicroBatches :
                             answered[<<s, m>>] = answered[<<s, 0>>] -
                               (IF m >= pollingIndex /\ pollingIndex > 0 THEN 1 ELSE 0)
    BY DEF AllSyncInStep
  <2>1. ASSUME pc = "return", NEW i \in 0 .. outNum - 1, NEW j \in 0 .. outNum - 1
        PROVE  out[i].layer = out[j].layer
    <3>1. outNum # 0
      BY DEF IInv, TypeOK
    <3>2. PICK k \in Int, m \in MicroBatches : ServedUpTo(k, m) /\ OnlyListed(m)
      BY <2>1, <3>1 DEF StepInv, Untaken
    <3>3. ASSUME NEW l \in 0 .. outNum - 1
          PROVE  out[l].layer = k
      <4> DEFINE q == <<out[l].session, out[l].microBatch>>
      <4>1. q \in Pairs /\ q[2] = m /\ out[l].layer = answered[q]
        BY <2>1, <3>2, ListedFacts DEF OnlyListed
      <4>2. answered[q] = k
        <5> HIDE DEF q
        <5> QED  BY <3>2, <4>1, ContextAssumption DEF ServedUpTo, MicroBatches
      <4> QED  BY <4>1, <4>2
    <3> QED  BY <3>3
  <2>2. ASSUME pc \in {"loop", "scan"}, NEW s \in Sessions, NEW m \in MicroBatches
        PROVE  answered[<<s, m>>] = answered[<<s, 0>>] -
                 (IF m >= pollingIndex /\ pollingIndex > 0 THEN 1 ELSE 0)
    <3>1. PICK k \in Int : ServedUpTo(k, pollingIndex)
      BY <2>2 DEF StepInv, Untaken
    <3>2. <<s, m>> \in Pairs /\ <<s, 0>> \in Pairs
      BY ContextAssumption DEF Pairs, MicroBatches
    <3>3. /\ answered[<<s, m>>] = k + (IF m < pollingIndex THEN 1 ELSE 0)
          /\ answered[<<s, 0>>] = k + (IF 0 < pollingIndex THEN 1 ELSE 0)
      BY <3>1, <3>2 DEF ServedUpTo
    <3>4. m \in Nat /\ pollingIndex \in Nat
      BY ContextAssumption DEF IInv, TypeOK, MicroBatches
    <3> QED  BY <3>3, <3>4
  <2> QED  BY <2>1, <2>2
<1> QED  BY <1>1, InStepInvariance, PTL
=============================================================================

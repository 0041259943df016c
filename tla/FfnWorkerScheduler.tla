------------------------- MODULE FfnWorkerScheduler -------------------------
(***************************************************************************)
(* The FFN side scheduler of the attention / FFN disaggregated pipeline    *)
(* (ffn/ffn_worker_scheduler).  Every attention session writes the rounds  *)
(* of its micro-batches into the FFN window; the AICPU operator scans the  *)
(* flags, copies the descriptors of the ready sessions to the output       *)
(* buffers with a parallel loop, and gives the descriptors back.           *)
(*                                                                         *)
(* A round of session s on micro-batch m is one layer sent for one         *)
(* micro-batch; rounds of a pair <<s, m>> are numbered 0, 1, ...  An       *)
(* expert id is represented by the number of the round that wrote it, so   *)
(* that a stale id can be told from a fresh one.                           *)
(*                                                                         *)
(* The attention worker around the operator (AttentionToFFN sends, the     *)
(* attention scheduler waits for the results) and the rest of the FFN      *)
(* worker (batching, FFN, FFNToAttention) appear as the actions            *)
(* WriteTokens, WriteFlag and Respond.                                     *)
(***************************************************************************)
EXTENDS Integers

CONSTANTS
  SessionNum,     \* common.session_num: number of attention nodes
  MicroBatchNum,  \* common.micro_batch_num
  SyncGroupSize,  \* attribute sync_group_size
  SlotNum,        \* micro_batch_size * selected_expert_num
  Workloads,      \* the sets of slots a round may send to this FFN
  RoundNum        \* bound: rounds every session runs on every micro-batch

ASSUME ContextAssumption ==
  /\ SessionNum \in Nat \ {0}
  /\ MicroBatchNum \in Nat \ {0}
  /\ SyncGroupSize \in 1 .. SessionNum
  /\ SessionNum % SyncGroupSize = 0
  /\ SlotNum \in Nat \ {0}
  /\ Workloads \subseteq SUBSET (0 .. SlotNum - 1)
  /\ RoundNum \in Nat

Sessions     == 0 .. SessionNum - 1
MicroBatches == 0 .. MicroBatchNum - 1
Slots        == 0 .. SlotNum - 1
Rounds       == 0 .. RoundNum - 1
InvalidId    == -1                     \* the 0x7F7F7F7F pattern
Ids          == [Slots -> Rounds \cup {InvalidId}]
NoIds        == [i \in Slots |-> InvalidId]

GroupNum == SessionNum \div SyncGroupSize
Groups   == 0 .. GroupNum - 1
Start(g) == g * SyncGroupSize
Group(g) == Start(g) .. Start(g) + SyncGroupSize - 1

VARIABLES
  flag,          \* token_info_buf[s][m].flag
  layerId,       \* token_info_buf[s][m].layer_id
  expertIds,     \* token_info_buf[s][m].expert_ids
  tokenData,     \* token_data_buf[s][m]: the round whose tokens it holds
  runFlag,       \* control.run_flag
  pollingIndex,  \* ffn.polling_index
  outNum,        \* ffn.out_num
  out,           \* layer_ids_buf, session_ids_buf, micro_batch_ids_buf, expert_ids_buf
  pc,            \* where the operator is
  grp,           \* group_id of the group loop
  mb,            \* micro_batch_id of the scan
  shard,         \* progress of the parallel copy of each session
  sent,          \* rounds session s has flagged on micro-batch m
  answered,      \* rounds of <<s, m>> whose results are back at the attention node
  turn,          \* the micro-batch session s sends next
  writing,       \* session s has written tokens that it has not flagged yet
  tokens         \* the slots the last round of <<s, m>> sent to this FFN

window   == <<flag, layerId, expertIds, tokenData>>
context  == <<runFlag, pollingIndex, outNum, out>>
control  == <<pc, grp, mb, shard>>
attn     == <<sent, turn, writing, tokens>>
vars     == <<window, context, control, attn, answered>>

Pairs == Sessions \X MicroBatches

RoundIds(r, T) == [i \in Slots |-> IF i \in T THEN r ELSE InvalidId]

(* Session ids and layer ids start at 0 in a zeroed output buffer. *)
Entry == [layer: Rounds \cup {0}, session: Sessions, microBatch: MicroBatches, ids: Ids]

Init ==
  /\ flag = [p \in Pairs |-> 0]
  /\ layerId = [p \in Pairs |-> 0]
  /\ expertIds = [p \in Pairs |-> NoIds]
  /\ tokenData = [p \in Pairs |-> InvalidId]
  /\ runFlag = 1
  /\ pollingIndex = 0
  /\ outNum = 0
  /\ out = [i \in Sessions |-> [layer |-> 0, session |-> 0, microBatch |-> 0, ids |-> NoIds]]
  /\ pc = "idle" /\ grp = 0 /\ mb = 0
  /\ shard = [s \in Sessions |-> "none"]
  /\ sent = [p \in Pairs |-> 0]
  /\ answered = [p \in Pairs |-> 0]
  /\ turn = [s \in Sessions |-> 0]
  /\ writing = [s \in Sessions |-> FALSE]
  /\ tokens = [p \in Pairs |-> {}]

(***************************************************************************)
(* The attention workers.                                                  *)
(***************************************************************************)

(* Mutants: the next round is sent as soon as the flag is free; at once.   *)
MaySendFlagOnly(p) == flag[p] # 1
MaySendUnchecked(p) == TRUE

(* A round is sent when the results of the last one are back (the          *)
(* attention scheduler waited for them) and its flag is no longer shown.   *)
MaySend(p) == sent[p] = answered[p] /\ flag[p] # 1

(* Session s writes the tokens of the next round of micro-batch turn[s].   *)
WriteTokens(s) ==
  LET p == <<s, turn[s]>> IN
  /\ ~writing[s]
  /\ MaySend(p)
  /\ sent[p] < RoundNum
  /\ \E T \in Workloads :
       /\ tokens' = [tokens EXCEPT ![p] = T]
       /\ expertIds' = [expertIds EXCEPT ![p] =
                          [i \in Slots |-> IF i \in T THEN sent[p] ELSE @[i]]]
  /\ tokenData' = [tokenData EXCEPT ![p] = sent[p]]
  /\ writing' = [writing EXCEPT ![s] = TRUE]
  /\ UNCHANGED <<flag, layerId, context, control, sent, turn, answered>>

(* After the barrier of its cores session s publishes flag and layer id.   *)
WriteFlag(s) ==
  LET p == <<s, turn[s]>> IN
  /\ writing[s]
  /\ flag' = [flag EXCEPT ![p] = 1]
  /\ layerId' = [layerId EXCEPT ![p] = sent[p]]
  /\ sent' = [sent EXCEPT ![p] = @ + 1]
  /\ turn' = [turn EXCEPT ![s] = (@ + 1) % MicroBatchNum]
  /\ writing' = [writing EXCEPT ![s] = FALSE]
  /\ UNCHANGED <<expertIds, tokenData, context, control, tokens, answered>>

(* The host asks the workers to exit. *)
Stop ==
  /\ runFlag = 1
  /\ runFlag' = 0
  /\ UNCHANGED <<window, pollingIndex, outNum, out, control, attn, answered>>

(***************************************************************************)
(* The operator.  A scan of CheckSessionsReady is one step: only the       *)
(* operator resets flags, so a scan that succeeds agrees with the state at *)
(* its last read and one that fails with the state at the read that failed.*)
(***************************************************************************)
\* Mutant: the last session of the group is not looked at.
CheckSessionsReadyShort(m, g) ==
  \A s \in Start(g) .. Start(g) + SyncGroupSize - 2 : flag[<<s, m>>] = 1

CheckSessionsReady(m, g) == \A s \in Group(g) : flag[<<s, m>>] = 1

CheckHasReadyGroup == \E g \in Groups, m \in MicroBatches : CheckSessionsReady(m, g)

Goto(l) == pc' = l /\ grp' = 0 /\ mb' = 0 /\ UNCHANGED shard

(* ToOutput forks one shard per session of the group. *)
ForkOutput(g, m) ==
  /\ pc' = "output" /\ grp' = g /\ mb' = m
  /\ shard' = [s \in Sessions |-> IF s \in Group(g) THEN "copy" ELSE "none"]

\* Mutant: out_num keeps the count of the last call.
ComputeNoReset ==
  /\ pc = "idle"
  /\ Goto("loop")
  /\ UNCHANGED <<window, context, attn, answered>>

Compute ==
  /\ pc = "idle"
  /\ outNum' = 0
  /\ Goto("loop")
  /\ UNCHANGED <<window, runFlag, pollingIndex, out, attn, answered>>

\* Mutant: the polling loop does not look at run_flag.
LoopTestBlind ==
  /\ pc = "loop"
  /\ Goto("scan")
  /\ UNCHANGED <<window, context, attn, answered>>

LoopTest ==
  /\ pc = "loop"
  /\ Goto(IF runFlag = 0 THEN "return" ELSE "scan")
  /\ UNCHANGED <<window, context, attn, answered>>

DoComputeAllSync ==
  /\ pc = "scan" /\ GroupNum = 1
  /\ IF CheckSessionsReady(pollingIndex, 0)
       THEN ForkOutput(0, pollingIndex)
       ELSE Goto("loop")
  /\ UNCHANGED <<window, context, attn, answered>>

DoCompute ==
  /\ pc = "scan" /\ GroupNum # 1
  /\ Goto(IF CheckHasReadyGroup THEN "recheck" ELSE "loop")
  /\ UNCHANGED <<window, context, attn, answered>>

RecheckRunFlag ==
  /\ pc = "recheck"
  /\ Goto(IF runFlag = 0 THEN "return" ELSE "handle")
  /\ UNCHANGED <<window, context, attn, answered>>

NextGroup ==
  IF grp < GroupNum - 1
    THEN pc' = "handle" /\ grp' = grp + 1 /\ mb' = 0 /\ shard' = [s \in Sessions |-> "none"]
    ELSE pc' = "return" /\ grp' = 0 /\ mb' = 0 /\ shard' = [s \in Sessions |-> "none"]

\* Mutant: only micro-batch 0 is tried.
CheckHandleFirstOnly ==
  /\ pc = "handle"
  /\ IF CheckSessionsReady(mb, grp) THEN ForkOutput(grp, mb) ELSE NextGroup
  /\ UNCHANGED <<window, context, attn, answered>>

CheckHandleSessions ==
  /\ pc = "handle"
  /\ \/ /\ CheckSessionsReady(mb, grp)
        /\ ForkOutput(grp, mb)
     \/ /\ ~CheckSessionsReady(mb, grp)
        /\ IF mb < MicroBatchNum - 1
             THEN mb' = mb + 1 /\ UNCHANGED <<pc, grp, shard>>
             ELSE NextGroup
  /\ UNCHANGED <<window, context, attn, answered>>

(* CopyAndResetSessions, one session: copy out, wipe the ids, drop the flag. *)
\* Mutant: every group writes from the first output index.
CopyOutFromZero(s) ==
  /\ shard[s] = "copy"
  /\ out' = [out EXCEPT ![s - Start(grp)] =
       [layer |-> layerId[<<s, mb>>], session |-> s, microBatch |-> mb, ids |-> expertIds[<<s, mb>>]]]
  /\ shard' = [shard EXCEPT ![s] = "reset"]
  /\ UNCHANGED <<window, runFlag, pollingIndex, outNum, pc, grp, mb, attn, answered>>

CopyOut(s) ==
  /\ shard[s] = "copy"
  /\ out' = [out EXCEPT ![outNum + s - Start(grp)] =
       [layer |-> layerId[<<s, mb>>], session |-> s, microBatch |-> mb, ids |-> expertIds[<<s, mb>>]]]
  /\ shard' = [shard EXCEPT ![s] = "reset"]
  /\ UNCHANGED <<window, runFlag, pollingIndex, outNum, pc, grp, mb, attn, answered>>

ResetIds(s) ==
  /\ shard[s] = "reset"
  /\ expertIds' = [expertIds EXCEPT ![<<s, mb>>] = NoIds]
  /\ shard' = [shard EXCEPT ![s] = "clear"]
  /\ UNCHANGED <<flag, layerId, tokenData, context, pc, grp, mb, attn, answered>>

\* Mutant: the flag is not given back.
ClearFlagKept(s) ==
  /\ shard[s] = "clear"
  /\ shard' = [shard EXCEPT ![s] = "done"]
  /\ UNCHANGED <<window, context, pc, grp, mb, attn, answered>>

ClearFlag(s) ==
  /\ shard[s] = "clear"
  /\ flag' = [flag EXCEPT ![<<s, mb>>] = 0]
  /\ shard' = [shard EXCEPT ![s] = "done"]
  /\ UNCHANGED <<layerId, expertIds, tokenData, context, pc, grp, mb, attn, answered>>

(* The all-sync loop moves on to the next micro-batch.                     *)
AdvancePolling ==
  IF GroupNum = 1
    THEN pollingIndex' = (pollingIndex + 1) % MicroBatchNum
    ELSE UNCHANGED pollingIndex

\* Mutant: the group is not counted.
JoinOutputUncounted ==
  /\ pc = "output"
  /\ \A s \in Group(grp) : shard[s] = "done"
  /\ AdvancePolling
  /\ NextGroup
  /\ UNCHANGED <<window, runFlag, outNum, out, attn, answered>>

(* ParallelFor has joined its shards. *)
JoinOutput ==
  /\ pc = "output"
  /\ \A s \in Group(grp) : shard[s] = "done"
  /\ outNum' = outNum + SyncGroupSize
  /\ AdvancePolling
  /\ NextGroup
  /\ UNCHANGED <<window, runFlag, out, attn, answered>>

(* The rest of the FFN worker gathers the tokens of the listed sessions    *)
(* and sends their results; then the host calls the operator again.        *)
Listed(p) == \E i \in 0 .. outNum - 1 : out[i].session = p[1] /\ out[i].microBatch = p[2]

Respond ==
  /\ pc = "return"
  /\ answered' = [p \in Pairs |-> IF Listed(p) THEN answered[p] + 1 ELSE answered[p]]
  /\ Goto("idle")
  /\ UNCHANGED <<window, context, attn>>

Shard(s) == CopyOut(s) \/ ResetIds(s) \/ ClearFlag(s)

Operator ==
  \/ Compute \/ LoopTest \/ DoComputeAllSync \/ DoCompute \/ RecheckRunFlag
  \/ CheckHandleSessions \/ JoinOutput
  \/ \E s \in Sessions : Shard(s)

Attention(s) == WriteTokens(s) \/ WriteFlag(s)

Next == Operator \/ Respond \/ Stop \/ \E s \in Sessions : Attention(s)

Spec == Init /\ [][Next]_vars

(* Every thread and process that can run does run; the host need not stop. *)
Fairness ==
  /\ WF_vars(Operator \/ Respond)
  /\ \A s \in Sessions : WF_vars(Shard(s)) /\ WF_vars(Attention(s))

FairSpec == Spec /\ Fairness

(***************************************************************************)
(* Properties.                                                             *)
(***************************************************************************)

(* The operator's variables and the window keep their types; in particular *)
(* out_num never exceeds the session_num entries the output buffers have.  *)
TypeOK ==
  /\ flag \in [Pairs -> 0 .. 1]
  /\ layerId \in [Pairs -> Rounds \cup {0}]
  /\ expertIds \in [Pairs -> Ids]
  /\ tokenData \in [Pairs -> Rounds \cup {InvalidId}]
  /\ runFlag \in 0 .. 1
  /\ pollingIndex \in MicroBatches
  /\ outNum \in 0 .. SessionNum
  /\ out \in [Sessions -> Entry]
  /\ pc \in {"idle", "loop", "scan", "recheck", "handle", "output", "return"}
  /\ grp \in Groups
  /\ mb \in MicroBatches
  /\ shard \in [Sessions -> {"none", "copy", "reset", "clear", "done"}]
  /\ sent \in [Pairs -> 0 .. RoundNum]
  /\ answered \in [Pairs -> 0 .. RoundNum]
  /\ turn \in [Sessions -> MicroBatches]
  /\ writing \in [Sessions -> BOOLEAN]
  /\ tokens \in [Pairs -> SUBSET Slots]

(***************************************************************************)
(* Refinement.  A box is full from the flag to the moment the scan that    *)
(* found its group ready decides to take it; the hand holds the output     *)
(* lists and the sessions the running shards are copying.                  *)
(***************************************************************************)
Hand == {p \in Pairs :
  \/ pc # "idle" /\ Listed(p)
  \/ shard[p[1]] # "none" /\ mb = p[2]}

Mailbox == INSTANCE RoundMailbox WITH
  SyncGroups <- {Group(g) : g \in Groups},
  box  <- {p \in Pairs : flag[p] = 1 /\ p \notin Hand},
  hand <- Hand

(* Every step of window and scheduler is a step of the mailbox or none.    *)
ImplementsMailbox == Mailbox!Spec

(* Every flagged round is waiting, being served or answered; none is both. *)
NothingLost == Mailbox!Conservation

(* A descriptor is never touched from both sides: while session s has      *)
(* written tokens it has not flagged, no shard of the scheduler copies,    *)
(* wipes or unflags the same descriptor (the flag is dropped last in       *)
(* CopyAndResetSessions and tested first in CheckFlagAndSetTableGM).       *)
SlotOwnership ==
  \A s \in Sessions :
    writing[s] => /\ flag[<<s, turn[s]>>] = 0
                  /\ (shard[s] \in {"copy", "reset", "clear"}) => mb # turn[s]

(* What the operator hands to batching are whole sync groups on one        *)
(* micro-batch each, every session once, and each entry is the round its   *)
(* session is waiting for, with that round's expert ids.                   *)
OutputFaithful ==
  pc = "return" =>
    /\ \A i, j \in 0 .. outNum - 1 : i # j => out[i].session # out[j].session
    /\ \A i \in 0 .. outNum - 1 :
         LET e == out[i] IN
         /\ e.layer = answered[<<e.session, e.microBatch>>]
         /\ e.ids = RoundIds(e.layer, tokens[<<e.session, e.microBatch>>])
         /\ \A s \in Group(e.session \div SyncGroupSize) :
              \E j \in 0 .. outNum - 1 : out[j].session = s /\ out[j].microBatch = e.microBatch

(* The flags are dropped before batching has gathered the token data; the  *)
(* data area must still hold the listed round when it is gathered.         *)
DataIntact ==
  pc = "return" => \A i \in 0 .. outNum - 1 :
    tokenData[<<out[i].session, out[i].microBatch>>] = out[i].layer

(* With one group (all-sync) the sessions of a batch are all at the same   *)
(* layer, although every session runs on its own and only flags and the    *)
(* polling index connect them; and polling stays in step with the sessions:*)
(* no micro-batch is more than one round ahead of another, and             *)
(* pollingIndex is the next to be served.                                  *)
AllSyncInStep ==
  GroupNum = 1 =>
    /\ pc = "return" => \A i, j \in 0 .. outNum - 1 : out[i].layer = out[j].layer
    /\ pc \in {"loop", "scan"} =>
         \A s \in Sessions, m \in MicroBatches :
           answered[<<s, m>>] =
             answered[<<s, 0>>] - (IF m >= pollingIndex /\ pollingIndex > 0 THEN 1 ELSE 0)

(* No round is lost or served twice: the results a session gets back go up *)
(* one by one and never pass what it sent.                                 *)
ExactlyOnce ==
  [][\A p \in Pairs :
       answered'[p] # answered[p] =>
         /\ answered'[p] = answered[p] + 1
         /\ answered'[p] = sent[p]]_<<answered>>

(* While the workers run, every flagged round is answered.  With several   *)
(* groups the scan always prefers the lowest ready micro-batch; nothing    *)
(* starves because a session waits for its micro-batches in turn.          *)
RoundsAnswered ==
  \A p \in Pairs : (flag[p] = 1) ~> (answered[p] = sent[p] \/ runFlag = 0)

(* Clearing run_flag gets the operator out of its polling loops.           *)
StopReturns == (runFlag = 0 /\ pc # "idle") ~> (pc = "return")
=============================================================================

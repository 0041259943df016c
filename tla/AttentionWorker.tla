--------------------------- MODULE AttentionWorker ---------------------------
(***************************************************************************)
(* The receiving half of an attention node: the results that FFNToAttention*)
(* writes into the attention window, and the operators that wait for a     *)
(* micro-batch and combine it.  With need_schedule = 0 the AICPU operator  *)
(* AttentionWorkerScheduler waits, clears the flags and names the ready    *)
(* micro-batch in the context, and AttentionWorkerCombine only reads it;   *)
(* with need_schedule = 1 the cores of the combine wait for their own      *)
(* rows, clear them, and core 0 names the micro-batch.  A long hidden      *)
(* dimension is combined in blocks (split_h), which may go to several      *)
(* cores, and the flags are then cleared behind the barrier.               *)
(*                                                                         *)
(* Data is represented by the round it belongs to; masked slots are those  *)
(* of AttentionToFFN and are not seen here.                                *)
(***************************************************************************)
EXTENDS CombineTiling

CONSTANTS
  MicroBatchNum,  \* common.micro_batch_num
  RowNum,         \* BS: tokens of a micro-batch
  RowSlots,       \* K + 1: results of a token
  CoreNum,        \* vector cores of the device
  AivNum,         \* vector cores of FFNToAttention
  Launches,       \* need_schedule, cores and hidden blocks of the combine
  Orders,         \* orders in which the FFN node may list the slots in Y
  RoundNum        \* bound: rounds of every micro-batch

ASSUME WorkerAssumption ==
  /\ {MicroBatchNum, RowNum, RowSlots, CoreNum, AivNum, RoundNum} \subseteq Nat \ {0}
  /\ Launches \subseteq [needSchedule : BOOLEAN, cores : 1 .. CoreNum, blocks : Nat \ {0}]

MicroBatches == 0 .. MicroBatchNum - 1
Rows         == 0 .. RowNum - 1
SlotNum      == RowNum * RowSlots
Slots        == 0 .. SlotNum - 1
AllCores     == 0 .. CoreNum - 1
Aivs         == 0 .. AivNum - 1
None         == -1

(* Y lists every slot once.                                                *)
ASSUME OrderAssumption ==
  \A o \in Orders : o \in [Slots -> Slots] /\ \A i, j \in Slots : o[i] = o[j] => i = j

VARIABLES
  tl,          \* tiling data of the combine
  flag,        \* token_info_buf of the attention window: one flag per slot
  data,        \* token_data_buf: the round whose result the slot holds
  microBatch,  \* attention.micro_batch_id of the context
  runFlag,     \* control.run_flag
  host,        \* what the host's stream executes
  sent,        \* rounds of the micro-batch sent to the FFN nodes
  combined,    \* rounds of the micro-batch that were combined
  schedMb,     \* micro_batch_id_ of the scheduler
  pc, mbId,    \* the cores of the combine
  y,           \* output rows: micro-batch and rounds they were made from
  fMb, order,  \* FFNToAttention: the micro-batch at work and its slots in Y
  fPc, fIdx,   \* its cores
  responded    \* rounds of the micro-batch that FFNToAttention has sent

window == <<flag, data>>
sched  == <<host, schedMb>>
comb   == <<pc, mbId, y>>
ffn    == <<fMb, order, fPc, fIdx, responded>>
count  == <<sent, combined>>
vars   == <<tl, window, microBatch, runFlag, sched, comb, ffn, count>>

needSchedule == tl.needSchedule
Wide         == tl.H > 1                     \* split_h
Cores        == 0 .. tl.usedCoreNum - 1
Cells        == Rows \X (0 .. tl.H - 1)      \* of y

Init ==
  /\ tl \in {Tiling(RowNum, l) : l \in Launches}
  /\ flag = [m \in MicroBatches |-> [i \in Slots |-> 0]]
  /\ data = [m \in MicroBatches |-> [i \in Slots |-> None]]
  /\ microBatch = MicroBatchNum - 1
  /\ runFlag = 1
  /\ host = "first" /\ schedMb = 0
  /\ sent = [m \in MicroBatches |-> 0]
  /\ combined = [m \in MicroBatches |-> 0]
  /\ pc = [c \in AllCores |-> "idle"] /\ mbId = [c \in AllCores |-> 0]
  /\ y = [cell \in Cells |-> [mb |-> None, rounds |-> {}]]
  /\ fMb = None /\ order \in Orders
  /\ fPc = [c \in Aivs |-> "idle"] /\ fIdx = [c \in Aivs |-> 0]
  /\ responded = [m \in MicroBatches |-> 0]

(***************************************************************************)
(* The host: send every micro-batch once, then for ever wait for the next  *)
(* one, combine it and send the round after it.                            *)
(***************************************************************************)
SendFirst ==
  /\ host = "first"
  /\ \E m \in MicroBatches :
       /\ \A k \in MicroBatches : sent[k] = IF k < m THEN 1 ELSE 0
       /\ sent' = [sent EXCEPT ![m] = 1]
       /\ host' = IF m = MicroBatchNum - 1 THEN "wait" ELSE "first"
  /\ UNCHANGED <<tl, window, microBatch, runFlag, schedMb, comb, ffn, combined>>

SendNext ==
  /\ host = "next"
  /\ sent' = IF sent[microBatch] < RoundNum THEN [sent EXCEPT ![microBatch] = @ + 1] ELSE sent
  /\ host' = IF sent' = combined THEN "end" ELSE "wait"
  /\ UNCHANGED <<tl, window, microBatch, runFlag, schedMb, comb, ffn, combined>>

Stop ==
  /\ runFlag = 1
  /\ runFlag' = 0
  /\ UNCHANGED <<tl, window, microBatch, sched, comb, ffn, count>>

(***************************************************************************)
(* AttentionWorkerScheduler.                                               *)
(***************************************************************************)
AllFlagged(m) == \A i \in Slots : flag[m][i] = 1

\* Mutant: the micro-batch to wait for is counted apart from the context.
ScheduleOwnCount ==
  /\ host = "wait" /\ ~needSchedule
  /\ schedMb' = (schedMb + 1) % MicroBatchNum
  /\ host' = "poll"
  /\ UNCHANGED <<tl, window, microBatch, runFlag, comb, ffn, count>>

Schedule ==
  /\ host = "wait" /\ ~needSchedule
  /\ schedMb' = (microBatch + 1) % MicroBatchNum
  /\ host' = "poll"
  /\ UNCHANGED <<tl, window, microBatch, runFlag, comb, ffn, count>>

\* Mutant: the wait looks at the flags only.
WaitForFfnBlind ==
  /\ host = "poll"
  /\ AllFlagged(schedMb)
  /\ host' = "polled"
  /\ UNCHANGED <<tl, window, microBatch, runFlag, schedMb, comb, ffn, count>>

(* WaitForFfnCompletion leaves its loop.                                   *)
WaitForFfn ==
  /\ host = "poll"
  /\ runFlag = 0 \/ AllFlagged(schedMb)
  /\ host' = "polled"
  /\ UNCHANGED <<tl, window, microBatch, runFlag, schedMb, comb, ffn, count>>

(* A stop leaves flags and micro_batch_id as they are.                     *)
TestRunFlag ==
  /\ host = "polled"
  /\ host' = IF runFlag = 0 THEN "stopped" ELSE "clear"
  /\ UNCHANGED <<tl, window, microBatch, runFlag, schedMb, comb, ffn, count>>

ClearFlags ==
  /\ host = "clear"
  /\ flag' = [flag EXCEPT ![schedMb] = [i \in Slots |-> 0]]
  /\ host' = "name"
  /\ UNCHANGED <<tl, data, microBatch, runFlag, schedMb, comb, ffn, count>>

NameReady ==
  /\ host = "name"
  /\ microBatch' = schedMb
  /\ host' = "combine"
  /\ UNCHANGED <<tl, window, runFlag, schedMb, comb, ffn, count>>

(***************************************************************************)
(* AttentionWorkerCombine.                                                 *)
(***************************************************************************)
Combine ==
  /\ host = IF needSchedule THEN "wait" ELSE "combine"
  /\ host' = "combining"
  /\ pc' = [c \in AllCores |-> IF c \in Cores THEN "init" ELSE "idle"]
  /\ UNCHANGED <<tl, window, microBatch, runFlag, schedMb, mbId, y, ffn, count>>

(* Every core derives the micro-batch from the context for itself.         *)
CombineInit(c) ==
  /\ pc[c] = "init"
  /\ mbId' = [mbId EXCEPT ![c] =
       IF needSchedule THEN (microBatch + 1) % MicroBatchNum ELSE microBatch]
  /\ pc' = [pc EXCEPT ![c] = IF needSchedule THEN "scan" ELSE "rows"]
  /\ UNCHANGED <<tl, window, microBatch, runFlag, sched, y, ffn, count>>

RowsOf(c)   == RowsOfCore(c, tl)
BlocksOf(c) == BlocksOfCore(c, tl)

SlotsOf(r) == r * RowSlots .. r * RowSlots + RowSlots - 1

OwnSlots(c) == UNION {SlotsOf(r) : r \in FlaggedRows(c, tl)}

\* Mutant: one result of the last row may be missing.
ScanTokenInfoShort(c) ==
  /\ pc[c] = "scan"
  /\ \A i \in OwnSlots(c) : i + 1 \in OwnSlots(c) => flag[mbId[c]][i] = 1
  /\ pc' = [pc EXCEPT ![c] = "rows"]
  /\ UNCHANGED <<tl, window, microBatch, runFlag, sched, mbId, y, ffn, count>>

(* The core waits until the flags of its own rows add up.                  *)
ScanTokenInfo(c) ==
  /\ pc[c] = "scan"
  /\ \A i \in OwnSlots(c) : flag[mbId[c]][i] = 1
  /\ pc' = [pc EXCEPT ![c] = "rows"]
  /\ UNCHANGED <<tl, window, microBatch, runFlag, sched, mbId, y, ffn, count>>

CombineRows(c) ==
  /\ pc[c] = "rows"
  /\ y' = [cell \in Cells |->
       IF cell \in RowsOf(c) \X BlocksOf(c)
         THEN [mb |-> mbId[c], rounds |-> {data[mbId[c]][i] : i \in SlotsOf(cell[1])}]
         ELSE y[cell]]
  /\ pc' = [pc EXCEPT ![c] =
       IF ~needSchedule THEN "done" ELSE IF Wide THEN "sync" ELSE "clear"]
  /\ UNCHANGED <<tl, window, microBatch, runFlag, sched, mbId, ffn, count>>

Named(c) == IF c = 0 THEN "name" ELSE "done"

\* Mutant: every core clears as many slots as a core in the middle, and the
\* tail core none.
ClearTokenInfoMain(c) ==
  /\ pc[c] = "clear"
  /\ flag' = [flag EXCEPT ![mbId[c]] =
       [i \in Slots |-> IF i \in OwnSlots(c) /\ c + 1 \in Cores THEN 0 ELSE @[i]]]
  /\ pc' = [pc EXCEPT ![c] = IF Wide THEN Named(c) ELSE "sync"]
  /\ UNCHANGED <<tl, data, microBatch, runFlag, sched, mbId, y, ffn, count>>

(* Before the barrier, but in split_h behind it.                           *)
ClearTokenInfo(c) ==
  /\ pc[c] = "clear"
  /\ flag' = [flag EXCEPT ![mbId[c]] = [i \in Slots |-> IF i \in OwnSlots(c) THEN 0 ELSE @[i]]]
  /\ pc' = [pc EXCEPT ![c] = IF Wide THEN Named(c) ELSE "sync"]
  /\ UNCHANGED <<tl, data, microBatch, runFlag, sched, mbId, y, ffn, count>>

(* In split_h the first core of a group clears its flags.                  *)
BehindSync(c) ==
  IF Wide /\ c % tl.HSplitCoreNum = 0 THEN "clear" ELSE Named(c)

\* Mutant: no barrier before the context is written.
SyncAllSkipped(c) ==
  /\ pc[c] = "sync"
  /\ pc' = [pc EXCEPT ![c] = BehindSync(c)]
  /\ UNCHANGED <<tl, window, microBatch, runFlag, sched, mbId, y, ffn, count>>

(* SyncAll: a core goes on when all have arrived.                          *)
SyncAll(c) ==
  /\ pc[c] = "sync"
  /\ \A d \in Cores : pc[d] \in {"sync", "name", "done"} \cup (IF Wide THEN {"clear"} ELSE {})
  /\ pc' = [pc EXCEPT ![c] = BehindSync(c)]
  /\ UNCHANGED <<tl, window, microBatch, runFlag, sched, mbId, y, ffn, count>>

(* Core 0 names the micro-batch in the context.                            *)
CombineName(c) ==
  /\ pc[c] = "name"
  /\ microBatch' = mbId[c]
  /\ pc' = [pc EXCEPT ![c] = "done"]
  /\ UNCHANGED <<tl, window, runFlag, sched, mbId, y, ffn, count>>

CombineDone == host = "combining" /\ \A c \in Cores : pc[c] = "done"

CombineReturn ==
  /\ CombineDone
  /\ combined' = [combined EXCEPT ![microBatch] = @ + 1]
  /\ pc' = [c \in AllCores |-> "idle"]
  /\ host' = "next"
  /\ UNCHANGED <<tl, window, microBatch, runFlag, schedMb, mbId, y, ffn, sent>>

(***************************************************************************)
(* FFNToAttention.                                                         *)
(***************************************************************************)

(* An FFN node sends the results of a round, listed in Y in some order.    *)
Respond(m) ==
  /\ fMb = None /\ responded[m] < sent[m]
  /\ fMb' = m /\ order' \in Orders
  /\ fPc' = [c \in Aivs |-> "data"] /\ fIdx' = [c \in Aivs |-> 0]
  /\ responded' = [responded EXCEPT ![m] = @ + 1]
  /\ UNCHANGED <<tl, window, microBatch, runFlag, sched, comb, count>>

YOffset(c) == c + fIdx[c] * AivNum
Sending(c) == fIdx[c] < SendNum(c, SlotNum, AivNum)

(* Token data, then (PipeBarrier) the flag of the token.                   *)
WriteToken(c) ==
  \/ /\ fPc[c] = "data" /\ Sending(c)
     /\ data' = [data EXCEPT ![fMb][order[YOffset(c)]] = responded[fMb] - 1]
     /\ fPc' = [fPc EXCEPT ![c] = "flag"]
     /\ UNCHANGED <<tl, flag, microBatch, runFlag, sched, comb, fMb, order, fIdx, responded, count>>
  \/ /\ fPc[c] = "flag"
     /\ flag' = [flag EXCEPT ![fMb][order[YOffset(c)]] = 1]
     /\ fPc' = [fPc EXCEPT ![c] = "data"] /\ fIdx' = [fIdx EXCEPT ![c] = @ + 1]
     /\ UNCHANGED <<tl, data, microBatch, runFlag, sched, comb, fMb, order, responded, count>>

SendReturn ==
  /\ fMb # None
  /\ \A c \in Aivs : fPc[c] = "data" /\ ~Sending(c)
  /\ fMb' = None
  /\ fPc' = [c \in Aivs |-> "idle"]
  /\ UNCHANGED <<tl, window, microBatch, runFlag, sched, comb, order, fIdx, responded, count>>

Finished == host \in {"end", "stopped"} /\ UNCHANGED vars

Host == SendFirst \/ SendNext \/ Schedule \/ Combine \/ CombineReturn

Scheduler == WaitForFfn \/ TestRunFlag \/ ClearFlags \/ NameReady

CombineCore(c) ==
  CombineInit(c) \/ ScanTokenInfo(c) \/ CombineRows(c) \/ ClearTokenInfo(c) \/ SyncAll(c)
  \/ CombineName(c)

Ffn == SendReturn \/ (\E m \in MicroBatches : Respond(m)) \/ \E c \in Aivs : WriteToken(c)

Next ==
  \/ Host \/ Scheduler \/ Stop \/ Ffn \/ Finished
  \/ \E c \in AllCores : CombineCore(c)

Spec == Init /\ [][Next]_vars

(* The host's stream, the cores it launches and the FFN nodes keep going   *)
(* (no core has more than a bounded number of steps, so that it is enough  *)
(* that one of those that can go on does);                                 *)
(* until the stop the FFN node answers the micro-batches it was sent, in   *)
(* whatever order; after it, it may stay silent.                           *)
Fairness ==
  /\ WF_vars(Host) /\ WF_vars(Scheduler) /\ WF_vars(SendReturn)
  /\ \A m \in MicroBatches : SF_vars(Respond(m) /\ runFlag = 1)
  /\ WF_vars(\E c \in AllCores : CombineCore(c)) /\ WF_vars(\E c \in Aivs : WriteToken(c))

FairSpec == Spec /\ Fairness

(***************************************************************************)
(* Properties.                                                             *)
(***************************************************************************)

(* Types; and the cores of a combine that have read the context agree on   *)
(* its micro-batch until the last of them is done.                         *)
TypeOK ==
  /\ flag \in [MicroBatches -> [Slots -> {0, 1}]]
  /\ data \in [MicroBatches -> [Slots -> None .. RoundNum - 1]]
  /\ microBatch \in MicroBatches /\ schedMb \in MicroBatches /\ runFlag \in {0, 1}
  /\ mbId \in [AllCores -> MicroBatches]
  /\ pc \in [AllCores -> {"idle", "init", "scan", "rows", "clear", "sync", "name", "done"}]
  /\ fMb \in MicroBatches \cup {None}
  /\ \A c \in Aivs : fPc[c] = "flag" => Sending(c)
  /\ \A c, d \in Cores : pc[c] \notin {"idle", "init"} /\ pc[d] \notin {"idle", "init"} =>
       mbId[c] = mbId[d]

(* Every output row of a combine, in its whole hidden dimension, is made   *)
(* of the results of the round that was sent last for the micro-batch in   *)
(* the context, all of them, and nothing is left over from another         *)
(* micro-batch.                                                            *)
CombineExact ==
  CombineDone =>
    \A cell \in Cells : y[cell] = [mb |-> microBatch, rounds |-> {sent[microBatch] - 1}]

(* A flag in the window stands for a result of the round under way that    *)
(* has not been combined: none is left from an earlier round and none is   *)
(* there before its data.                                                  *)
FlagsFresh ==
  \A m \in MicroBatches : \A i \in Slots : flag[m][i] = 1 =>
    sent[m] = combined[m] + 1 /\ data[m][i] = sent[m] - 1

(* micro_batch_id goes round: between two combines the micro-batches up to *)
(* the one it names have been combined once more often than the others, so *)
(* that the host sends on the one it has consumed and waits for the oldest.*)
RoundRobin ==
  host \in {"wait", "next", "end"} =>
    \A m \in MicroBatches :
      combined[m] = IF m <= microBatch THEN combined[microBatch] ELSE combined[microBatch] - 1

(* Every round sent is combined, unless run_flag is cleared; and that ends *)
(* the wait of the scheduler whether or not the results ever come.         *)
RoundsCombined ==
  \A m \in MicroBatches : \A r \in 1 .. RoundNum :
    sent[m] = r ~> (combined[m] >= r \/ (runFlag = 0 /\ host # "poll"))
=============================================================================

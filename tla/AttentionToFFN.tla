--------------------------- MODULE AttentionToFFN ---------------------------
(***************************************************************************)
(* The operator mc2/attention_to_ffn on one attention node: the vector     *)
(* cores of a call scatter the tokens of a micro-batch to the FFN nodes,   *)
(* meet at SyncAll, and publish the flags.  The window of every FFN node   *)
(* has a part of its own for each session, so the other sessions are not   *)
(* seen here.                                                              *)
(*                                                                         *)
(* A route gives the FFN node of every active slot of the micro-batch      *)
(* (FindExpertRank); the slots behind it are masked.  Rounds of a          *)
(* micro-batch are numbered, and stand for ids, data and layer ids.        *)
(*                                                                         *)
(* Around the operator: the FFN nodes take what is flagged (copy the ids,  *)
(* wipe them, drop the flag) and answer it slot by slot; the attention     *)
(* node collects a micro-batch when all its slots are flagged, and only    *)
(* then sends the micro-batch again.                                       *)
(***************************************************************************)
EXTENDS WorkSplit, FiniteSets

CONSTANTS
  FfnNum,         \* ffnNum_
  MicroBatchNum,  \* microBatchNum_
  AivNum,         \* aivNum_: vector cores of a call
  SlotNum,        \* axisBS_ * (axisK_ + sharedExpertNum_)
  Routes,         \* the routes a round may have
  Scenes,         \* values of isSync considered: TRUE in the asynchronous scene
  RoundNum        \* bound: rounds of every micro-batch

ASSUME SendAssumption ==
  /\ {FfnNum, MicroBatchNum, AivNum, SlotNum} \subseteq Nat \ {0}
  /\ RoundNum \in Nat
  /\ Scenes \subseteq BOOLEAN
  /\ Routes \subseteq UNION {[0 .. n - 1 -> 0 .. FfnNum - 1] : n \in 0 .. SlotNum}

Ffns         == 0 .. FfnNum - 1
MicroBatches == 0 .. MicroBatchNum - 1
Aivs         == 0 .. AivNum - 1
Slots        == 0 .. SlotNum - 1
Pairs        == Ffns \X MicroBatches
Invalid      == -1
Empty        == [i \in Slots |-> Invalid]

VARIABLES
  asynchronous, \* the template parameter isSync of the operator
  flag,       \* flag of this session's token info, per FFN node and micro-batch
  layer,      \* its layer_id
  ids,        \* its expert ids: the round that wrote each slot
  data,       \* token data: the round whose token each slot holds
  pc,         \* where each vector core is
  idx,        \* tokenIdx of the token loop, or the next FFN node of the flag loop
  status,     \* ffnStatusTensor_ of each core, kept in the workspace
  mb,         \* microBatchId_ of the call
  route,      \* route of the last round of each micro-batch
  sent,       \* rounds of the micro-batch handed to the operator
  collected,  \* rounds of the micro-batch whose results were consumed
  turn,       \* the micro-batch the attention node sends next
  attnFlag,   \* token info of the attention window
  reader,     \* what the scheduler of an FFN node does with the descriptor
  held        \* slots listed at an FFN node and not answered yet

window == <<flag, layer, ids, data>>
kernel == <<pc, idx, status>>
host   == <<mb, route, sent, collected, turn>>
ffn    == <<reader, held>>
vars   == <<asynchronous, window, kernel, host, attnFlag, ffn>>

Active(r) == DOMAIN r
Masked(r) == Slots \ DOMAIN r
TokenNum  == Cardinality(Active(route[mb]))
LayerId   == sent[mb] - 1
Idle      == \A c \in Aivs : pc[c] = "idle"

Init ==
  /\ asynchronous \in Scenes
  /\ flag = [p \in Pairs |-> 0]
  /\ layer = [p \in Pairs |-> 0]
  /\ ids = [p \in Pairs |-> Empty]
  /\ data = [p \in Pairs |-> Empty]
  /\ pc = [c \in Aivs |-> "idle"]
  /\ idx = [c \in Aivs |-> 0]
  /\ status = [c \in Aivs |-> {}]
  /\ mb = 0
  /\ route = [m \in MicroBatches |-> <<>>]
  /\ sent = [m \in MicroBatches |-> 0]
  /\ collected = [m \in MicroBatches |-> 0]
  /\ turn = 0
  /\ attnFlag = [m \in MicroBatches |-> [i \in Slots |-> 0]]
  /\ reader = [p \in Pairs |-> "watch"]
  /\ held = [p \in Pairs |-> {}]

(***************************************************************************)
(* The operator.                                                           *)
(***************************************************************************)

(* The attention node launches the operator for the next micro-batch, once *)
(* the results of its last round are in.                                   *)
Call(r) ==
  /\ Idle
  /\ sent[turn] = collected[turn] /\ sent[turn] < RoundNum
  /\ mb' = turn
  /\ route' = [route EXCEPT ![turn] = r]
  /\ sent' = [sent EXCEPT ![turn] = @ + 1]
  /\ turn' = (turn + 1) % MicroBatchNum
  /\ pc' = [c \in Aivs |-> "send"]
  /\ idx' = [c \in Aivs |-> 0]
  /\ status' = [c \in Aivs |-> {}]
  /\ UNCHANGED <<asynchronous, window, collected, attnFlag, ffn>>

(* The tokens of core c, in order.                                         *)
TokenOffset(c) == c + idx[c] * AivNum

\* Mutant: the tokens are written over a descriptor that is still flagged.
FlagIsDownUnchecked(p) == TRUE

(* CheckFlagAndSetTableGM spins while the descriptor is flagged.           *)
FlagIsDown(p) == flag[p] # 1

(* Data and id of one token.  Nobody looks at either before the flag, and  *)
(* only this call raises it, so the two writes and the check are one step. *)
SendToken(c) ==
  LET i == TokenOffset(c)
      f == route[mb][i]
      p == <<f, mb>>
  IN
  /\ pc[c] = "send" /\ idx[c] < SendNum(c, TokenNum, AivNum)
  /\ FlagIsDown(p)
  /\ data' = [data EXCEPT ![p][i] = LayerId]
  /\ ids' = [ids EXCEPT ![p][i] = LayerId]
  /\ status' = IF asynchronous THEN [status EXCEPT ![c] = @ \cup {f}] ELSE status
  /\ idx' = [idx EXCEPT ![c] = @ + 1]
  /\ UNCHANGED <<asynchronous, flag, layer, pc, host, attnFlag, ffn>>

(* The token loop ends and the core arrives at SyncAll.                    *)
ArriveAtSync(c) ==
  /\ pc[c] = "send" /\ idx[c] = SendNum(c, TokenNum, AivNum)
  /\ pc' = [pc EXCEPT ![c] = "sync"]
  /\ UNCHANGED <<asynchronous, window, idx, status, host, attnFlag, ffn>>

\* Mutant: no barrier between tokens and flags.
PassSyncAlone(c) ==
  /\ pc[c] = "sync"
  /\ pc' = [pc EXCEPT ![c] = "flags"]
  /\ idx' = [idx EXCEPT ![c] = StartId(c, FfnNum, AivNum)]
  /\ UNCHANGED <<asynchronous, window, status, host, attnFlag, ffn>>

(* SyncAll: a core goes on when every core has arrived.                    *)
PassSync(c) ==
  /\ pc[c] = "sync"
  /\ \A d \in Aivs : pc[d] # "send"
  /\ pc' = [pc EXCEPT ![c] = "flags"]
  /\ idx' = [idx EXCEPT ![c] = StartId(c, FfnNum, AivNum)]
  /\ UNCHANGED <<asynchronous, window, status, host, attnFlag, ffn>>

(* The FFN nodes that get a flag: in the asynchronous scene those that got *)
(* a token from some core, otherwise all.                                  *)
Chosen == IF asynchronous THEN UNION {status[c] : c \in Aivs} ELSE Ffns

\* Mutant: the loop runs one node past the chunk.
SetFlagToFFNPastEnd(c) ==
  LET p == <<idx[c], mb>> IN
  /\ pc[c] = "flags" /\ idx[c] <= EndId(c, FfnNum, AivNum)
  /\ IF idx[c] \in Chosen
       THEN flag' = [flag EXCEPT ![p] = 1] /\ layer' = [layer EXCEPT ![p] = LayerId]
       ELSE UNCHANGED <<asynchronous, flag, layer>>
  /\ idx' = [idx EXCEPT ![c] = @ + 1]
  /\ UNCHANGED <<asynchronous, ids, data, pc, status, host, attnFlag, ffn>>

(* SetFlagToFFN, one node of the core's chunk: flag and layer id go out in *)
(* one copy, whatever the flag was.                                        *)
SetFlagToFFN(c) ==
  LET p == <<idx[c], mb>> IN
  /\ pc[c] = "flags" /\ idx[c] < EndId(c, FfnNum, AivNum)
  /\ IF idx[c] \in Chosen
       THEN flag' = [flag EXCEPT ![p] = 1] /\ layer' = [layer EXCEPT ![p] = LayerId]
       ELSE UNCHANGED <<asynchronous, flag, layer>>
  /\ idx' = [idx EXCEPT ![c] = @ + 1]
  /\ UNCHANGED <<asynchronous, ids, data, pc, status, host, attnFlag, ffn>>

(* The masked slots of core c: they follow the active ones.                *)
MaskedChunk(c) ==
  {TokenNum + i : i \in Chunk(c, Cardinality(Masked(route[mb])), AivNum)}

\* Mutant: the offset of the micro-batch is left out.
SetFlagInAttnNoOffset(c) ==
  /\ pc[c] = "flags" /\ idx[c] >= EndId(c, FfnNum, AivNum)
  /\ attnFlag' = [attnFlag EXCEPT ![0] =
       [i \in Slots |-> IF i \in MaskedChunk(c) THEN 1 ELSE @[i]]]
  /\ pc' = [pc EXCEPT ![c] = "idle"]
  /\ UNCHANGED <<asynchronous, window, idx, status, host, ffn>>

(* SetFlagInAttn: nobody will answer the masked slots, so the core marks   *)
(* them in its own attention window.  The core leaves the kernel.          *)
SetFlagInAttn(c) ==
  /\ pc[c] = "flags" /\ idx[c] >= EndId(c, FfnNum, AivNum)
  /\ attnFlag' = [attnFlag EXCEPT ![mb] =
       [i \in Slots |-> IF i \in MaskedChunk(c) THEN 1 ELSE @[i]]]
  /\ pc' = [pc EXCEPT ![c] = "idle"]
  /\ UNCHANGED <<asynchronous, window, idx, status, host, ffn>>

(***************************************************************************)
(* The FFN nodes: their scheduler copies a flagged descriptor, wipes the   *)
(* ids and drops the flag, in that order; the listed slots are answered    *)
(* into the attention window.                                              *)
(***************************************************************************)
CopyOut(p) ==
  /\ reader[p] = "watch" /\ flag[p] = 1
  /\ reader' = [reader EXCEPT ![p] = "reset"]
  /\ held' = [held EXCEPT ![p] = @ \cup {i \in Slots : ids[p][i] # Invalid}]
  /\ UNCHANGED <<asynchronous, window, kernel, host, attnFlag>>

ResetIds(p) ==
  /\ reader[p] = "reset"
  /\ ids' = [ids EXCEPT ![p] = Empty]
  /\ reader' = [reader EXCEPT ![p] = "clear"]
  /\ UNCHANGED <<asynchronous, flag, layer, data, kernel, host, attnFlag, held>>

\* Mutant: the flag stays.
ClearFlagKept(p) ==
  /\ reader[p] = "clear"
  /\ reader' = [reader EXCEPT ![p] = "watch"]
  /\ UNCHANGED <<asynchronous, window, kernel, host, attnFlag, held>>

ClearFlag(p) ==
  /\ reader[p] = "clear"
  /\ flag' = [flag EXCEPT ![p] = 0]
  /\ reader' = [reader EXCEPT ![p] = "watch"]
  /\ UNCHANGED <<asynchronous, layer, ids, data, kernel, host, attnFlag, held>>

Answer(p, i) ==
  /\ reader[p] = "watch" /\ i \in held[p]
  /\ held' = [held EXCEPT ![p] = @ \ {i}]
  /\ attnFlag' = [attnFlag EXCEPT ![p[2]][i] = 1]
  /\ UNCHANGED <<asynchronous, window, kernel, host, reader>>

(* AttentionWorkerScheduler or AttentionWorkerCombine: all slots are in.   *)
AllFlagged(m) == \A i \in Slots : attnFlag[m][i] = 1

Collect(m) ==
  /\ Idle /\ AllFlagged(m)
  /\ attnFlag' = [attnFlag EXCEPT ![m] = [i \in Slots |-> 0]]
  /\ collected' = [collected EXCEPT ![m] = @ + 1]
  /\ UNCHANGED <<asynchronous, window, kernel, mb, route, sent, turn, ffn>>

(* All rounds of the bound are done.                                       *)
Finished ==
  /\ Idle
  /\ \A m \in MicroBatches : collected[m] = RoundNum
  /\ UNCHANGED vars

Core(c) ==
  SendToken(c) \/ ArriveAtSync(c) \/ PassSync(c) \/ SetFlagToFFN(c) \/ SetFlagInAttn(c)

Scheduler(p) == CopyOut(p) \/ ResetIds(p) \/ ClearFlag(p)

Worker(p) == Scheduler(p) \/ \E i \in Slots : Answer(p, i)

Next ==
  \/ \E r \in Routes : Call(r)
  \/ \E c \in Aivs : Core(c)
  \/ \E p \in Pairs : Worker(p)
  \/ \E m \in MicroBatches : Collect(m)
  \/ Finished

Spec == Init /\ [][Next]_vars

(* Cores run until they leave the kernel, the FFN workers keep polling and *)
(* answering, and the attention node collects what is complete.            *)
Fairness ==
  /\ \A c \in Aivs : WF_vars(Core(c))
  /\ \A p \in Pairs : WF_vars(Scheduler(p)) /\ \A i \in Slots : WF_vars(Answer(p, i))
  /\ \A m \in MicroBatches : WF_vars(Collect(m))

FairSpec == Spec /\ Fairness

(***************************************************************************)
(* Properties.                                                             *)
(***************************************************************************)

(* The window, the kernel and the workers keep their types; a core never   *)
(* counts past its share of the tokens or of the FFN nodes.                *)
TypeOK ==
  /\ flag \in [Pairs -> {0, 1}] /\ layer \in [Pairs -> Nat]
  /\ ids \in [Pairs -> [Slots -> Nat \cup {Invalid}]]
  /\ data \in [Pairs -> [Slots -> Nat \cup {Invalid}]]
  /\ pc \in [Aivs -> {"idle", "send", "sync", "flags"}]
  /\ idx \in [Aivs -> 0 .. SlotNum + FfnNum]
  /\ \A c \in Aivs : pc[c] = "send" => idx[c] <= SendNum(c, TokenNum, AivNum)
  /\ \A c \in Aivs : pc[c] = "flags" => idx[c] <= EndId(c, FfnNum, AivNum)
  /\ status \in [Aivs -> SUBSET Ffns]
  /\ attnFlag \in [MicroBatches -> [Slots -> {0, 1}]]
  /\ reader \in [Pairs -> {"watch", "reset", "clear"}] /\ held \in [Pairs -> SUBSET Slots]

(* Slot i of the last round of m has been written by its core.             *)
Written(m, i) ==
  m = mb => LET c == i % AivNum IN pc[c] = "send" => i \div AivNum < idx[c]

Outstanding(m) == collected[m] < sent[m]

(* A raised flag covers the whole round: when the flag of an FFN node      *)
(* shows the round that is being sent, every core has written every token  *)
(* of the round for that node (SyncAll between SendTokenToFFN and          *)
(* SetFlagToFFN).  In the asynchronous scene a worker is woken only for    *)
(* work: a flag that the node has not started to read stands over at least *)
(* one token, since the cores add up who was sent to before the flags go   *)
(* out.                                                                    *)
FlagMeansComplete ==
  /\ \A p \in Pairs : flag[p] = 1 /\ Outstanding(p[2]) /\ layer[p] = sent[p[2]] - 1 =>
       \A i \in Active(route[p[2]]) : route[p[2]][i] = p[1] => Written(p[2], i)
  /\ asynchronous => \A p \in Pairs : flag[p] = 1 /\ reader[p] = "watch" =>
       \E i \in Slots : ids[p][i] = layer[p]

(* No token gets lost: from the moment its core has written it until it is *)
(* answered, a token of the current round is in the window where the FFN   *)
(* node will still see it, or it is listed there and its data is untouched *)
(* (the flag is waited for before a token is written, also when an earlier *)
(* round had no token for that node and its flag may still be up).         *)
NothingLost ==
  \A m \in MicroBatches : Outstanding(m) =>
    \A i \in Active(route[m]) :
      LET p == <<route[m][i], m>> IN
      Written(m, i) =>
        \/ attnFlag[m][i] = 1
        \/ /\ data[p][i] = sent[m] - 1
           /\ \/ i \in held[p]
              \/ ids[p][i] = sent[m] - 1 /\ reader[p] = "watch"

(* A micro-batch is complete in the attention window only when no FFN node *)
(* still holds or has yet to read one of its tokens: masked slots of one   *)
(* micro-batch never stand for answers of another.                         *)
CollectComplete ==
  \A m \in MicroBatches : AllFlagged(m) =>
    /\ Outstanding(m)
    /\ \A f \in Ffns : held[<<f, m>>] = {} /\ ids[<<f, m>>] = Empty

(* Every round that is handed to the operator is collected: no slot is     *)
(* left without an answer or a mask, no chosen node without its flag, and  *)
(* no core waits for ever on a flag.                                       *)
RoundCompletes ==
  \A m \in MicroBatches : \A r \in 1 .. RoundNum : sent[m] = r ~> collected[m] >= r
=============================================================================

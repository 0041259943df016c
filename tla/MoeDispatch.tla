---------------------------- MODULE MoeDispatch ----------------------------
(***************************************************************************)
(* The operator mc2/moe_distribute_dispatch_v2: every rank sends each of   *)
(* its tokens to the ranks of the experts it was routed to, and takes in   *)
(* what the others send to its experts.                                    *)
(*                                                                         *)
(* The vector cores of a rank first write the tokens into the data windows *)
(* of the receivers; after a SyncAll they write one status per expert (a   *)
(* flag and the number of tokens) into the status windows.  Then each core *)
(* waits for its share of the statuses that come in and lowers their flags;*)
(* after a second SyncAll it copies the tokens of these statuses to their  *)
(* place in expandX.  Windows and statuses have two halves; a launch turns *)
(* to the other one.                                                       *)
(*                                                                         *)
(* A token travels as <<round, rank, token, k>>: the triple that FillTriple*)
(* puts behind its data, and the round that stands for the data itself.    *)
(***************************************************************************)
EXTENDS WorkSplit, SumOrder, Sequences

CONSTANTS
  EpWorldSize,  \* epWorldSize_
  AivNum,       \* aivNum_: vector cores of a rank
  AxisBS,       \* axisBS_: tokens of a rank
  AxisK,        \* axisK_: experts a token is routed to
  RoundNum,     \* bound: dispatches in a row
  Setups        \* expert layouts and routings considered

Ranks  == 0 .. EpWorldSize - 1
Aivs   == 0 .. AivNum - 1
Tokens == 0 .. AxisBS - 1
Halves == 0 .. 1
Rounds == 1 .. RoundNum

(* A setup: experts and, for each round and rank, the experts of each token*)
(* A token's row is a function from the k that the active mask leaves.     *)
ASSUME DispatchAssumption ==
  /\ EpWorldSize \in Nat \ {0} /\ AivNum \in Nat \ {0, 1}
  /\ AxisBS \in Nat \ {0} /\ AxisK \in Nat \ {0} /\ RoundNum \in Nat
  /\ \A s \in Setups :
       /\ s.sharedExpertRankNum \in 0 .. EpWorldSize - 1
       /\ s.sharedExpertNum \in 0 .. s.sharedExpertRankNum
       /\ s.sharedExpertNum > 0 => s.sharedExpertRankNum % s.sharedExpertNum = 0
       /\ (s.sharedExpertRankNum > 0) = (s.sharedExpertNum > 0)
       /\ s.moeExpertNum \in Nat \ {0}
       /\ s.moeExpertNum % (EpWorldSize - s.sharedExpertRankNum) = 0
       /\ Len(s.expertIds) \in 0 .. RoundNum
       /\ DOMAIN s.expertIds = 1 .. Len(s.expertIds)
       /\ \A k \in DOMAIN s.expertIds, p \in Ranks, t \in Tokens :
            LET row == s.expertIds[k][p][t] IN
            /\ DOMAIN row \subseteq 0 .. AxisK - 1
            /\ \A i \in DOMAIN row :
                 /\ row[i] \in 0 .. s.moeExpertNum - 1
                 /\ \A j \in DOMAIN row : i # j => row[i] # row[j]

VARIABLES
  setup,            \* the setup of this behaviour
  round,            \* dispatches each rank has started
  pc,               \* where each core is
  idx,              \* the loop index of each core
  dispatchState,    \* marker of each rank: the half its next dispatch uses
  dataWin,          \* per rank and half: the token in each cell <<block, slot>>
  statusWin,        \* per rank and half: flag and count of each status
  counts,           \* the counts each rank's cores have read with the flags
  recvCnt,          \* workspace: tokens of each core's share of the statuses
  expandX,          \* output: the tokens in the order of the statuses
  sendCounts,       \* output: running sum of the counts
  expertTokenNums   \* output: running sum of the tokens of the local experts

dispatchVars == <<dispatchState, dataWin, statusWin, counts, recvCnt, expandX, sendCounts,
                  expertTokenNums>>

NoToken == <<0, 0, 0, 0>>

----------------------------------------------------------------------------
(* Experts and ranks.  The first ranks hold the shared experts.            *)

SharedRankNum == setup.sharedExpertRankNum
ExpertPerRank == setup.moeExpertNum \div (EpWorldSize - SharedRankNum)
TotalExpertNum == SharedRankNum + setup.moeExpertNum
IsShareExpertRank(p) == p < SharedRankNum
RankNumPerShared == SharedRankNum \div setup.sharedExpertNum

(* The last cores send to the shared experts, the others to the rest.      *)
SharedUsedAivNum ==
  IF SharedRankNum = 0 THEN 0
  ELSE LET n == (AivNum * setup.sharedExpertNum) \div (AxisK + setup.sharedExpertNum)
       IN IF n = 0 THEN 1 ELSE n

MoeUsedAivNum == AivNum - SharedUsedAivNum

(* The statuses a rank receives: one per local expert and sending rank.    *)
RscvStatusNum(p) ==
  IF IsShareExpertRank(p) THEN EpWorldSize ELSE EpWorldSize * ExpertPerRank

Statuses(p) == 0 .. RscvStatusNum(p) - 1

(* The statuses a core waits for.                                          *)
StatusShare(p, c) == Chunk(c, RscvStatusNum(p), AivNum)

(* The half of the dispatch at work, from the marker it has turned.        *)
DispatchHalf(p) == 1 - dispatchState[p]

----------------------------------------------------------------------------
(* The input of the round at work.                                         *)

Row(p, t) == setup.expertIds[round[p]][p][t]

Active(p) == {a \in Tokens \X (0 .. AxisK - 1) : a[2] \in DOMAIN Row(p, a[1])}

Valid(p) == {a[1] : a \in Active(p)}

(* Masked entries are squeezed out: the place of an entry, and of a token. *)
Before(p, a) == {b \in Active(p) : b[1] * AxisK + b[2] < a[1] * AxisK + a[2]}
EntryIndex(p, a) == Cardinality(Before(p, a))
ValidIndex(p, t) == Cardinality({u \in Valid(p) : u < t})

(* CalTokenSendExpertCnt over a set of entries.                            *)
CntOf(p, entries, expert) == Cardinality({b \in entries : Row(p, b[1])[b[2]] = expert})

----------------------------------------------------------------------------
(* What a rank sends.                                                      *)

(* The index-th entry goes to the rank of its expert, into the block of    *)
(* this rank and the local expert, behind the earlier entries for it.      *)
MoeSend(p, index) ==
  LET a == CHOOSE b \in Active(p) : EntryIndex(p, b) = index
      expert == Row(p, a[1])[a[2]]
  IN [to    |-> (expert \div ExpertPerRank) + SharedRankNum,
      cell  |-> <<p * ExpertPerRank + (expert % ExpertPerRank),
                  IF a[1] > 0 THEN CntOf(p, Before(p, a), expert) ELSE 0>>,
      token |-> <<round[p], p, a[1], a[2]>>]

(* Every valid token goes to a rank of each shared expert: the one of this *)
(* rank's group.                                                           *)
SharedSend(p, index) ==
  LET slot == index % Cardinality(Valid(p))
      expert == index \div Cardinality(Valid(p))
      t == CHOOSE u \in Valid(p) : ValidIndex(p, u) = slot
  IN [to    |-> (p % RankNumPerShared) + expert * RankNumPerShared,
      cell  |-> <<p, slot>>,
      token |-> <<round[p], p, t, AxisK + expert>>]

(* SplitToCore: the number of tokens a core sends, and the one it is at.   *)
SharedSendCnt(p) == Cardinality(Valid(p)) * setup.sharedExpertNum

SendTokenNum(p, c) ==
  IF c < MoeUsedAivNum THEN SendNum(c, Cardinality(Active(p)), MoeUsedAivNum)
  ELSE SendNum(c - MoeUsedAivNum, SharedSendCnt(p), SharedUsedAivNum)

SendAt(p, c) ==
  IF c < MoeUsedAivNum
  THEN MoeSend(p, StartId(c, Cardinality(Active(p)), MoeUsedAivNum) + idx[p][c])
  ELSE SharedSend(p, StartId(c - MoeUsedAivNum, SharedSendCnt(p), SharedUsedAivNum) + idx[p][c])

----------------------------------------------------------------------------
(* The cores of a dispatch.                                                *)

At(p, c, where) == pc[p][c] = where

AllAt(p, where) == \A c \in Aivs : pc[p][c] = where

Goto(p, c, where) == pc' = [pc EXCEPT ![p][c] = where]

GotoAll(p, where(_)) == pc' = [pc EXCEPT ![p] = [c \in Aivs |-> where(c)]]

(* InitWinState leaves the other half to the next launch.                  *)
TurnedMarker(marker) == 1 - marker

(* Init of all cores of rank p, which turn their markers together.         *)
StartDispatch(p) ==
  /\ round' = [round EXCEPT ![p] = @ + 1]
  /\ dispatchState' = [dispatchState EXCEPT ![p] = TurnedMarker(@)]
  /\ GotoAll(p, LAMBDA c : "send")
  /\ expandX' = [expandX EXCEPT ![p] = [n \in DOMAIN @ |-> NoToken]]
  /\ sendCounts' = [sendCounts EXCEPT ![p] = [i \in Statuses(p) |-> 0]]
  /\ expertTokenNums' = [expertTokenNums EXCEPT ![p] = [e \in DOMAIN @ |-> 0]]
  /\ counts' = [counts EXCEPT ![p] = [i \in Statuses(p) |-> 0]]
  /\ UNCHANGED <<setup, idx, dataWin, statusWin, recvCnt>>

(* AlltoAllDispatch: the next token of the core's loop.                    *)
SendToken(p, c) ==
  LET s == SendAt(p, c) IN
  /\ At(p, c, "send") /\ idx[p][c] < SendTokenNum(p, c)
  /\ dataWin' = [dataWin EXCEPT ![s.to][DispatchHalf(p)][s.cell] = s.token]
  /\ idx' = [idx EXCEPT ![p][c] = @ + 1]
  /\ UNCHANGED <<setup, round, pc, dispatchState, statusWin, counts, recvCnt, expandX, sendCounts,
                 expertTokenNums>>

(* A core without a share of the statuses goes straight to SyncAll.        *)
FirstWait(p, c) == IF StatusShare(p, c) = {} THEN "cleared" ELSE "wait"

FirstStatus(c) == StartId(c, TotalExpertNum, AivNum)

\* Mutant: the last status of a core is not sent.
AllButLastStatus(c) == EndId(c, TotalExpertNum, AivNum) - 1

LastStatus(c) == EndId(c, TotalExpertNum, AivNum)

(* The SyncAll of SetStatus: all tokens of the rank are in the windows.    *)
AllTokensSent(p) == \A c \in Aivs : At(p, c, "send") /\ idx[p][c] = SendTokenNum(p, c)

SyncSent(p) ==
  /\ AllTokensSent(p)
  /\ GotoAll(p, LAMBDA c : IF FirstStatus(c) < LastStatus(c) THEN "status" ELSE FirstWait(p, c))
  /\ idx' = [idx EXCEPT ![p] =
       [c \in Aivs |-> IF FirstStatus(c) < LastStatus(c) THEN FirstStatus(c) ELSE 0]]
  /\ UNCHANGED <<setup, round, dispatchVars>>

(* The tokens this rank has sent to expert x of all experts.               *)
StatusCnt(p, x) ==
  IF x < SharedRankNum /\ Valid(p) # {}
  THEN IF x % RankNumPerShared = p % RankNumPerShared THEN Cardinality(Valid(p)) ELSE 0
  ELSE CntOf(p, Active(p), x - SharedRankNum)

(* The rank that expert x is on, and the place of this rank's status there.*)
StatusRank(x) ==
  IF x < SharedRankNum THEN x ELSE ((x - SharedRankNum) \div ExpertPerRank) + SharedRankNum

StatusPlace(p, x) ==
  IF x < SharedRankNum THEN p ELSE p + ((x - SharedRankNum) % ExpertPerRank) * EpWorldSize

(* The next status of the loop at the end of SetStatus.                    *)
SetStatus(p, c) ==
  LET x == idx[p][c] IN
  /\ At(p, c, "status")
  /\ statusWin' = [statusWin EXCEPT ![StatusRank(x)][DispatchHalf(p)][StatusPlace(p, x)] =
                     [flag |-> 1, cnt |-> StatusCnt(p, x)]]
  /\ IF x + 1 < LastStatus(c)
     THEN /\ idx' = [idx EXCEPT ![p][c] = x + 1]
          /\ UNCHANGED pc
     ELSE /\ idx' = [idx EXCEPT ![p][c] = 0]
          /\ Goto(p, c, FirstWait(p, c))
  /\ UNCHANGED <<setup, round, dispatchState, dataWin, counts, recvCnt, expandX, sendCounts,
                 expertTokenNums>>

(* WaitStatus: the flags of the core's share add up to their number; the   *)
(* counts come with them.                                                  *)
WaitStatus(p, c) ==
  LET status == statusWin[p][DispatchHalf(p)] IN
  /\ At(p, c, "wait")
  /\ \A i \in StatusShare(p, c) : status[i].flag = 1
  /\ counts' = [counts EXCEPT ![p] =
       [i \in Statuses(p) |-> IF i \in StatusShare(p, c) THEN status[i].cnt ELSE @[i]]]
  /\ Goto(p, c, "clear")
  /\ UNCHANGED <<setup, round, idx, dispatchState, dataWin, statusWin, recvCnt, expandX, sendCounts,
                 expertTokenNums>>

\* Mutant: the flags are left up.
StatusLeft(status, cnt) == status

(* What WaitDispatchClearStatus writes over a status it has counted.       *)
StatusCleared(status, cnt) == [flag |-> 0, cnt |-> cnt]

(* WaitDispatchClearStatus, and SyncCntOnCore: the core's share of the     *)
(* tokens goes to the workspace for the cores behind it.                   *)
ClearStatus(p, c) ==
  /\ At(p, c, "clear")
  /\ statusWin' = [statusWin EXCEPT ![p][DispatchHalf(p)] =
       [i \in Statuses(p) |->
          IF i \in StatusShare(p, c) THEN StatusCleared(@[i], counts[p][i]) ELSE @[i]]]
  /\ recvCnt' = [recvCnt EXCEPT ![p][c] = SumOf(StatusShare(p, c), counts[p])]
  /\ Goto(p, c, "cleared")
  /\ UNCHANGED <<setup, round, idx, dispatchState, dataWin, counts, expandX, sendCounts,
                 expertTokenNums>>

(* The SyncAll of WaitDispatch: all statuses are in.                       *)
SyncCleared(p) ==
  /\ AllAt(p, "cleared")
  /\ GotoAll(p, LAMBDA c : IF StatusShare(p, c) = {} THEN "dispatched" ELSE "copy")
  /\ UNCHANGED <<setup, round, idx, dispatchVars>>

\* Mutant: blocks are taken in the order of the statuses.
StatusOrder(p, i) == i

(* The window has its blocks by rank, the statuses go by local expert.     *)
WinOffset(p, i) ==
  IF IsShareExpertRank(p) THEN i ELSE (i % EpWorldSize) * ExpertPerRank + (i \div EpWorldSize)

(* GetCumSum: the tokens of the cores before.                              *)
PreCnt(p, c) == SumOf(0 .. c - 1, recvCnt[p])

(* The places in expandX of the tokens of status i of the core's share.    *)
FirstRow(p, c, i) ==
  PreCnt(p, c) + SumOf({j \in StatusShare(p, c) : j < i}, counts[p])

(* LocalWindowCopy, and on core 0 SetExpertTokenNums: it reads the counts  *)
(* once more, from the window.                                             *)
LocalWindowCopy(p, c) ==
  LET half == DispatchHalf(p)
      first(i) == FirstRow(p, c, i)
      mine(n) == {i \in StatusShare(p, c) : n \in first(i) .. first(i) + counts[p][i] - 1}
  IN
  /\ At(p, c, "copy")
  /\ expandX' = [expandX EXCEPT ![p] =
       [n \in DOMAIN @ |-> IF mine(n) = {} THEN @[n]
                           ELSE LET i == CHOOSE i \in mine(n) : TRUE
                                IN dataWin[p][half][<<WinOffset(p, i), n - first(i)>>]]]
  /\ sendCounts' = [sendCounts EXCEPT ![p] =
       [i \in Statuses(p) |-> IF i \in StatusShare(p, c) THEN first(i) + counts[p][i] ELSE @[i]]]
  /\ expertTokenNums' =
       IF c > 0 THEN expertTokenNums
       ELSE [expertTokenNums EXCEPT ![p] =
              [e \in DOMAIN @ |-> SumOf(0 .. (e + 1) * EpWorldSize - 1,
                                        [i \in Statuses(p) |-> statusWin[p][half][i].cnt])]]
  /\ Goto(p, c, "dispatched")
  /\ UNCHANGED <<setup, round, idx, dispatchState, dataWin, statusWin, counts, recvCnt>>

DispatchCoreStep(p, c) ==
  \/ SendToken(p, c)
  \/ SetStatus(p, c)
  \/ WaitStatus(p, c)
  \/ ClearStatus(p, c)
  \/ LocalWindowCopy(p, c)

DispatchStep(p) ==
  \/ SyncSent(p)
  \/ SyncCleared(p)
  \/ \E c \in Aivs : DispatchCoreStep(p, c)

DispatchInit ==
  /\ setup \in Setups
  /\ round = [p \in Ranks |-> 0]
  /\ pc = [p \in Ranks |-> [c \in Aivs |-> "idle"]]
  /\ idx = [p \in Ranks |-> [c \in Aivs |-> 0]]
  /\ dispatchState = [p \in Ranks |-> 0]
  /\ dataWin = [p \in Ranks |-> [h \in Halves |-> [cell \in Statuses(p) \X Tokens |-> NoToken]]]
  /\ statusWin = [p \in Ranks |-> [h \in Halves |->
       [i \in Statuses(p) |-> [flag |-> 0, cnt |-> 0]]]]
  /\ counts = [p \in Ranks |-> [i \in Statuses(p) |-> 0]]
  /\ recvCnt = [p \in Ranks |-> [c \in Aivs |-> 0]]
  /\ expandX = [p \in Ranks |-> [n \in 0 .. RscvStatusNum(p) * AxisBS - 1 |-> NoToken]]
  /\ sendCounts = [p \in Ranks |-> [i \in Statuses(p) |-> 0]]
  /\ expertTokenNums = [p \in Ranks |-> [e \in 0 .. RscvStatusNum(p) \div EpWorldSize - 1 |-> 0]]
=============================================================================

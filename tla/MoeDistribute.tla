--------------------------- MODULE MoeDistribute ---------------------------
(***************************************************************************)
(* A mixture-of-experts layer over the ranks of a communicator: dispatch   *)
(* (MoeDispatch), the experts, and mc2/moe_distribute_combine_v2, round    *)
(* after round in the stream of every rank.                                *)
(*                                                                         *)
(* In combine every core sends back its share of the rows that came in, in *)
(* batches: the rows of a batch first, then their flags.  Then it takes    *)
(* its share of the rank's own tokens: when all flags of a token are up it *)
(* lowers them, and adds up the rows.  There is no SyncAll.                *)
(*                                                                         *)
(* An expert turns a row into a row; the row keeps the name of its token.  *)
(***************************************************************************)
EXTENDS MoeDispatch

CONSTANTS SendSlotNum  \* sendSlotNum_: rows of a batch

ASSUME CombineAssumption == SendSlotNum \in Nat \ {0, 1}

VARIABLES
  combineState,  \* marker of each rank: the half its next combine uses
  rowWin,        \* per rank and half: the row in each cell <<token, k>>
  rowFlag,       \* per rank and half: the cells whose flag is 1.0
  tokenStatus,   \* the tokens whose flags the cores of a rank have counted
  expandOut      \* output: the rows added up for each token

combineVars == <<combineState, rowWin, rowFlag, tokenStatus, expandOut>>
vars == <<setup, round, pc, idx, dispatchVars, combineVars>>

Rows == Tokens \X (0 .. AxisK + EpWorldSize - 1)

NoSum == [k \in {} |-> NoToken]

Init ==
  /\ DispatchInit
  /\ combineState = [p \in Ranks |-> 0]
  /\ rowWin = [p \in Ranks |-> [h \in Halves |-> [cell \in Rows |-> NoToken]]]
  /\ rowFlag = [p \in Ranks |-> [h \in Halves |-> {}]]
  /\ tokenStatus = [p \in Ranks |-> {}]
  /\ expandOut = [p \in Ranks |-> [t \in Tokens |-> NoSum]]

CombineHalf(p) == 1 - combineState[p]

(* The rows to send back: the last of the running sums of dispatch.        *)
SelfSendCnt(p) == sendCounts[p][RscvStatusNum(p) - 1]

SendCntNum(p, c)   == SendNum(c, SelfSendCnt(p), AivNum)
StartTokenId(p, c) == StartId(c, SelfSendCnt(p), AivNum)

(* The tokens a core waits for, by their number among the valid ones.      *)
TokenShare(p, c) ==
  {t \in Valid(p) : ValidIndex(p, t) \in Chunk(c, Cardinality(Valid(p)), AivNum)}

Waiting(p, c) == IF TokenShare(p, c) = {} THEN "idle" ELSE "gather"

(* Combine starts when the dispatch of the rank has ended.                 *)
StartCombine(p) ==
  /\ AllAt(p, "dispatched")
  /\ combineState' = [combineState EXCEPT ![p] = TurnedMarker(@)]
  /\ tokenStatus' = [tokenStatus EXCEPT ![p] = {}]
  /\ expandOut' = [expandOut EXCEPT ![p] = [t \in Tokens |-> NoSum]]
  /\ GotoAll(p, LAMBDA c : IF SendCntNum(p, c) = 0 THEN Waiting(p, c) ELSE "rows")
  /\ UNCHANGED <<setup, round, idx, dispatchVars, rowWin, rowFlag>>

(* Where the permuted order of a core starts.                              *)
Phase(p, c) ==
  LET n == SendCntNum(p, c)
  IN ((p * n) \div EpWorldSize + (c * n) \div AivNum) % n

(* The row of the core's loop, the rank it belongs to, and its cell there. *)
RowAt(p, c) == StartTokenId(p, c) + PermIdx(Phase(p, c), idx[p][c], SendCntNum(p, c))
RankOf(p, c) == expandX[p][RowAt(p, c)][2]
CellOf(p, c) == <<expandX[p][RowAt(p, c)][3], expandX[p][RowAt(p, c)][4]>>

(* The batch that the loop is in.                                          *)
BatchStart(p, c) == (idx[p][c] \div SendSlotNum) * SendSlotNum
BatchEnd(p, c) ==
  LET end == BatchStart(p, c) + SendSlotNum
  IN IF end < SendCntNum(p, c) THEN end ELSE SendCntNum(p, c)

(* The first loop of ExpertAlltoAllDispatchPipeline: the rows of a batch.  *)
SendRow(p, c) ==
  /\ At(p, c, "rows")
  /\ rowWin' = [rowWin EXCEPT ![RankOf(p, c)][CombineHalf(p)][CellOf(p, c)] =
                  expandX[p][RowAt(p, c)]]
  /\ IF idx[p][c] + 1 < BatchEnd(p, c)
     THEN /\ idx' = [idx EXCEPT ![p][c] = @ + 1]
          /\ UNCHANGED pc
     ELSE /\ idx' = [idx EXCEPT ![p][c] = BatchStart(p, c)]
          /\ Goto(p, c, "flags")
  /\ UNCHANGED <<setup, round, dispatchVars, combineState, rowFlag, tokenStatus, expandOut>>

(* Its second loop, after the rows have landed: their flags.               *)
SendFlag(p, c) ==
  /\ At(p, c, "flags")
  /\ rowFlag' = [rowFlag EXCEPT ![RankOf(p, c)][CombineHalf(p)] = @ \cup {CellOf(p, c)}]
  /\ IF idx[p][c] + 1 < SendCntNum(p, c)
     THEN /\ idx' = [idx EXCEPT ![p][c] = @ + 1]
          /\ IF idx[p][c] + 1 < BatchEnd(p, c) THEN UNCHANGED pc ELSE Goto(p, c, "rows")
     ELSE /\ idx' = [idx EXCEPT ![p][c] = 0]
          /\ Goto(p, c, Waiting(p, c))
  /\ UNCHANGED <<setup, round, dispatchVars, combineState, rowWin, tokenStatus, expandOut>>

(* The flags a token waits for: its own experts and the shared ones.       *)
FlagsOf(p, t) == {cell \in rowFlag[p][CombineHalf(p)] : cell[1] = t}

\* Mutant: the shared experts are not waited for.
MoeTargetCount(p, t) == Cardinality(DOMAIN Row(p, t))

TargetCount(p, t) == Cardinality(DOMAIN Row(p, t)) + setup.sharedExpertNum

(* The flags after WaitDispatch has counted those of token t.              *)
FlagsReset(p, t) == rowFlag[p][CombineHalf(p)] \ FlagsOf(p, t)

(* WaitDispatch of LocalWindowCopy, which polls the tokens of the share in *)
(* turn: any of them whose flags are up may be next.                       *)
WaitDispatch(p, c) ==
  /\ At(p, c, "gather")
  /\ \E t \in TokenShare(p, c) \ tokenStatus[p] :
       /\ Cardinality(FlagsOf(p, t)) = TargetCount(p, t)
       /\ rowFlag' = [rowFlag EXCEPT ![p][CombineHalf(p)] = FlagsReset(p, t)]
       /\ tokenStatus' = [tokenStatus EXCEPT ![p] = @ \cup {t}]
  /\ Goto(p, c, "add")
  /\ UNCHANGED <<setup, round, idx, dispatchVars, combineState, rowWin, expandOut>>

(* The k of the rows of a token.                                           *)
RowsToAdd(p, t) == DOMAIN Row(p, t) \cup (AxisK .. AxisK + setup.sharedExpertNum - 1)

(* ProcessExpert for the token just counted, and the result goes out.      *)
ProcessExpert(p, c) ==
  /\ At(p, c, "add")
  /\ \E t \in TokenShare(p, c) \cap tokenStatus[p] :
       /\ expandOut[p][t] = NoSum
       /\ expandOut' = [expandOut EXCEPT ![p][t] =
            [k \in RowsToAdd(p, t) |-> rowWin[p][CombineHalf(p)][<<t, k>>]]]
  /\ Goto(p, c, IF TokenShare(p, c) \subseteq tokenStatus[p] THEN "idle" ELSE "gather")
  /\ UNCHANGED <<setup, round, idx, dispatchVars, combineState, rowWin, rowFlag, tokenStatus>>

CombineCoreStep(p, c) ==
  \/ SendRow(p, c)
  \/ SendFlag(p, c)
  \/ WaitDispatch(p, c)
  \/ ProcessExpert(p, c)

(* The next round: dispatch after the combine of the round before.         *)
NextRound(p) ==
  /\ AllAt(p, "idle") /\ round[p] < Len(setup.expertIds)
  /\ StartDispatch(p)
  /\ UNCHANGED combineVars

RankStep(p) ==
  \/ NextRound(p)
  \/ DispatchStep(p) /\ UNCHANGED combineVars
  \/ StartCombine(p)
  \/ \E c \in Aivs : CombineCoreStep(p, c)

Next == \E p \in Ranks : RankStep(p)

(* Every rank launches every round, and a launched kernel goes on while    *)
(* any of its cores can; that some rank goes on is all that is needed.     *)
Fairness == WF_vars(Next)

Spec     == Init /\ [][Next]_vars
FairSpec == Spec /\ Fairness

(***************************************************************************)
(* Properties.                                                             *)
(***************************************************************************)

(* The tokens that the routing of the round sends to rank p for status i,  *)
(* that is from one rank to one local expert.                              *)
Routed(p, i) ==
  LET q == i % EpWorldSize
      ids == setup.expertIds[round[p]][q]
      expert == (p - SharedRankNum) * ExpertPerRank + (i \div EpWorldSize)
  IN IF IsShareExpertRank(p)
     THEN {<<round[p], q, t, AxisK + (p \div RankNumPerShared)>> :
             t \in {u \in Tokens : DOMAIN ids[u] # {} /\ p % RankNumPerShared = q % RankNumPerShared}}
     ELSE {a \in {round[p]} \X {q} \X Tokens \X (0 .. AxisK - 1) :
             a[4] \in DOMAIN ids[a[3]] /\ ids[a[3]][a[4]] = expert}

Combining(p) ==
  round[p] > 0 /\ \A c \in Aivs : pc[p][c] \in {"rows", "flags", "gather", "add", "idle"}

Dispatched(p) == Combining(p) \/ AllAt(p, "dispatched")

RowsBefore(p, i) == IF i = 0 THEN 0 ELSE sendCounts[p][i - 1]

(* A dispatch that has ended has in expandX, status by status and each     *)
(* once, the tokens of this round that were routed to the local experts,   *)
(* with the running sums that belong to them: no token of another round,   *)
(* of another expert or of a cell still being written.                     *)
DispatchExact ==
  \A p \in Ranks : Dispatched(p) =>
    /\ \A i \in Statuses(p) :
         LET places == RowsBefore(p, i) .. sendCounts[p][i] - 1
         IN /\ {expandX[p][n] : n \in places} = Routed(p, i)
            /\ Cardinality(places) = Cardinality(Routed(p, i))
    /\ \A e \in DOMAIN expertTokenNums[p] :
         expertTokenNums[p][e] = sendCounts[p][(e + 1) * EpWorldSize - 1]

(* A status is written without looking at what is there, and its flag is   *)
(* lowered without looking at what came meanwhile: what is about to be     *)
(* raised is down, and what is about to be lowered is what was counted.    *)
StatusNotLost ==
  \A p \in Ranks, c \in Aivs :
    /\ pc[p][c] = "status" =>
         LET x == idx[p][c]
         IN statusWin[StatusRank(x)][DispatchHalf(p)][StatusPlace(p, x)].flag = 0
    /\ pc[p][c] = "clear" =>
         \A i \in StatusShare(p, c) :
           statusWin[p][DispatchHalf(p)][i] = [flag |-> 1, cnt |-> counts[p][i]]

(* What combine adds up for a token is exactly the rows of this token in   *)
(* this round, one of each of its experts; a combine that has ended has    *)
(* added up every token that takes part; and the flag of a row is not      *)
(* raised over one that is still up.                                       *)
CombineExact ==
  \A p \in Ranks : Combining(p) =>
    /\ \A t \in Tokens : expandOut[p][t] # NoSum =>
         expandOut[p][t] = [k \in RowsToAdd(p, t) |-> <<round[p], p, t, k>>]
    /\ AllAt(p, "idle") => \A t \in Valid(p) : expandOut[p][t] # NoSum
    /\ \A c \in Aivs : pc[p][c] = "flags" =>
         CellOf(p, c) \notin rowFlag[RankOf(p, c)][CombineHalf(p)]

(* A dispatch is a barrier of the ranks: none leaves it before all have    *)
(* entered it.  That is what makes two halves enough.                      *)
DispatchBarrier == INSTANCE RankBarrier WITH
  World <- [k \in Rounds |-> Ranks],
  entered <- round,
  left <- [p \in Ranks |-> IF round[p] = 0 \/ Dispatched(p) THEN round[p] ELSE round[p] - 1],
  timedOut <- {}
DispatchIsBarrier == DispatchBarrier!Spec

(* Nobody hangs: every rank comes to the end of its last combine.          *)
RoundsEnd == <>(\A p \in Ranks : round[p] = Len(setup.expertIds) /\ AllAt(p, "idle"))
=============================================================================

------------------------- MODULE FfnWorkerBatching -------------------------
(***************************************************************************)
(* The operator ffn/ffn_worker_batching, which gathers the token data of   *)
(* ready micro-batches in the order of their experts.                      *)
(*                                                                         *)
(* need_schedule = 1: without a scheduler in front of it, the operator     *)
(* itself waits for the micro-batch that polling_index names and takes the *)
(* expert ids of all sessions out of the window.                           *)
(*                                                                         *)
(*    every core  reads the schedule context (its own curMicroBatchID)     *)
(*    core 0      spins until every session is flagged, moves the polling  *)
(*                index on                                      - SyncAll  *)
(*    sort cores  sort and wipe their sessions                  - SyncAll  *)
(*    last core   drops the flags; core 0 merges the lists      - SyncAll  *)
(*    last core   lists the groups; the others gather their rows           *)
(*                                                                         *)
(* need_schedule = 0: FfnWorkerScheduler has taken the ids of out_num      *)
(* sessions out of the window, each with a micro-batch of its own, and the *)
(* operator sorts that list.  With many ids, several cores count the       *)
(* experts into one array, and the last core lists it after one more       *)
(* SyncAll.                                                                *)
(*                                                                         *)
(* With need_schedule = 1 nothing orders a core's reading of polling_index *)
(* and core 0's moving it on: a core that comes to it late works on the    *)
(* next micro-batch while the others work on this one.  late remembers     *)
(* that this has happened; the guarantees below are those of a run in      *)
(* which it has not, and ReadyBatch is the first that it spoils.           *)
(*                                                                         *)
(* Rounds of a pair <<session, micro-batch>> are numbered; token data is   *)
(* represented by the round that wrote it.                                 *)
(***************************************************************************)
EXTENDS SortTiling, SumOrder, SequencesExt

CONSTANTS
  SessionNum,     \* A
  MicroBatchNum,  \* M
  SlotNum,        \* BS * K
  Pad,            \* BsKPaddingCount
  CoreNum,        \* coreNum: vector cores of the launch
  Launches,       \* need_schedule (as a Boolean) and sortLoopMaxElement of a launch
  SortAlign,      \* SORT32_ALIGN_ELEMENT
  ListLength,     \* GROUP_LISTING_MULTI_CORE_LENGTH
  ListCoreNum,    \* GROUP_LISTING_MULTI_AIV_NUM
  PerLoopRows,    \* perLoopRows: ids of a chunk of the listing with need_schedule = 1
  ExpertNum,      \* attribute expert_num
  Workloads,      \* the expert ids each session may send to this FFN node
  RoundNum,       \* bound: rounds of every pair with need_schedule = 1
  ListRoundNum    \* bound: rounds of every pair with need_schedule = 0

ASSUME BatchingAssumption ==
  /\ {SessionNum, MicroBatchNum, SlotNum, ExpertNum, SortAlign, PerLoopRows} \subseteq Nat \ {0}
  /\ Launches \subseteq [needSchedule: BOOLEAN, sortLoopMax: Nat \ {0}]
  /\ \A l \in Launches : /\ l.sortLoopMax % SortAlign = 0
                         /\ l.needSchedule => SlotNum + Pad <= l.sortLoopMax
  /\ SessionNum * SlotNum <= LargestPower   \* ids are counted in 32 bits
  /\ {Pad, RoundNum, ListRoundNum, ListLength} \subseteq Nat
  /\ CoreNum \in Nat \ {0, 1} /\ ListCoreNum \in 1 .. CoreNum - 1
  /\ Workloads \in [0 .. SessionNum - 1 -> SUBSET [0 .. SlotNum - 1 -> -1 .. ExpertNum - 1]]

Sessions     == 0 .. SessionNum - 1
MicroBatches == 0 .. MicroBatchNum - 1
Slots        == 0 .. SlotNum - 1
Cores        == 0 .. CoreNum - 1
LastCoreId   == CoreNum - 1
Pairs        == Sessions \X MicroBatches
Invalid      == -1                      \* INT_MAX in the window
Empty        == [i \in Slots |-> Invalid]

BsKPad       == SlotNum + Pad

VARIABLES
  needSchedule,     \* attribute need_schedule, 1 or 0
  sortLoopMax,      \* sortLoopMaxElement of the tiling
  flag, ids, data,  \* the FFN window, per session and micro-batch
  pollingIndex,     \* ffn.polling_index of the context
  out,              \* out_num, session_ids_buf, micro_batch_ids_buf, expert_ids_buf
  pc,               \* where each core is
  mbId,             \* curMicroBatchID of each core
  late,             \* history: a core has read polling_index after core 0 moved it on
  count,            \* rsvdCnt: valid ids, in the workspace
  part,             \* what each sort core wrote: pairs of expert and row id
  sorted,           \* sorted expert ids with their row ids, in the workspace
  tally,            \* groupListTmp: tokens of each expert, in the workspace
  rows,             \* y, session_ids, micro_batch_ids, token_ids, expert_offsets
  groups,           \* group_list up to its end mark
  openRun,          \* chunks listed, and lastExpertId and tokenCount of the open run
  sent,             \* rounds of the pair that were flagged
  answered,         \* rounds of the pair whose results went back
  want              \* the ids of the last round of the pair

tiling  == <<needSchedule, sortLoopMax>>
window  == <<flag, ids, data>>
context == <<pollingIndex, out>>
cores   == <<pc, mbId>>
work    == <<count, part, sorted, tally>>
output  == <<rows, groups, openRun>>
attn    == <<sent, want>>
vars    == <<tiling, window, context, cores, late, work, output, attn, answered>>

(* What TilingKey of the launch and length of the list imply.              *)
RowLen      == IF needSchedule THEN BsKPad ELSE SlotNum
MultiList   == ~needSchedule /\ count > ListLength
GatherCores == CoreNum - (IF MultiList THEN ListCoreNum ELSE 1)

OneCoreSort == (IF needSchedule THEN SessionNum * BsKPad ELSE Len(out) * SlotNum) <= sortLoopMax

SessionPerSort == IF sortLoopMax \div BsKPad > 1 THEN sortLoopMax \div BsKPad ELSE 1

Free  == [place \in 0 .. SessionNum * SlotNum - 1 |-> <<Invalid, 0>>]
NoRun == [loop |-> 0, lastExpertId |-> Invalid, tokenCount |-> 0]
NoRow == [session |-> 0, microBatch |-> 0, slot |-> 0, round |-> Invalid]

Init ==
  /\ \E l \in Launches : needSchedule = l.needSchedule /\ sortLoopMax = l.sortLoopMax
  /\ flag = [p \in Pairs |-> 0]
  /\ ids = [p \in Pairs |-> Empty]
  /\ data = [p \in Pairs |-> Invalid]
  /\ pollingIndex = 0 /\ out = <<>>
  /\ pc = [c \in Cores |-> "idle"]
  /\ mbId = [c \in Cores |-> 0] /\ late = FALSE
  /\ count = 0
  /\ part = [c \in Cores |-> {}]
  /\ sorted = Free
  /\ tally = [e \in 0 .. ExpertNum - 1 |-> 0]
  /\ rows = [j \in 0 .. SessionNum * SlotNum - 1 |-> NoRow]
  /\ groups = <<>> /\ openRun = NoRun
  /\ sent = [p \in Pairs |-> 0]
  /\ answered = [p \in Pairs |-> 0]
  /\ want = [p \in Pairs |-> Empty]

(***************************************************************************)
(* The attention nodes.                                                    *)
(***************************************************************************)

RoundBound == IF needSchedule THEN RoundNum ELSE ListRoundNum

(* Each session sends its micro-batches in turn, a micro-batch again when  *)
(* its results are back and its flag is down.                              *)
MaySend(s, m) ==
  /\ flag[<<s, m>>] = 0
  /\ sent[<<s, m>>] = answered[<<s, m>>] /\ sent[<<s, m>>] < RoundBound
  /\ \A k \in MicroBatches :
       IF k < m THEN sent[<<s, k>>] = sent[<<s, m>>] + 1 ELSE sent[<<s, k>>] = sent[<<s, m>>]

Send(s, m) ==
  LET p == <<s, m>> IN
  /\ MaySend(s, m)
  /\ \E w \in Workloads[s] :
       /\ want' = [want EXCEPT ![p] = w]
       /\ ids' = [ids EXCEPT ![p] = [i \in Slots |-> IF w[i] # Invalid THEN w[i] ELSE @[i]]]
  /\ data' = [data EXCEPT ![p] = sent[p]]
  /\ flag' = [flag EXCEPT ![p] = 1]
  /\ sent' = [sent EXCEPT ![p] = @ + 1]
  /\ UNCHANGED <<tiling, late, context, cores, work, output, answered>>

(***************************************************************************)
(* The operator.                                                           *)
(***************************************************************************)
AllAt(l) == \A c \in Cores : pc[c] = l

Goto(c, l) == pc' = [pc EXCEPT ![c] = l] /\ UNCHANGED mbId

(* SyncAll: every core has arrived, all go on.                             *)
SyncAll(from, to) ==
  /\ AllAt(from)
  /\ pc' = [c \in Cores |-> to]
  /\ UNCHANGED <<tiling, late, window, context, mbId, work, output, attn, answered>>

StartCores ==
  /\ pc' = [c \in Cores |-> "start"]
  /\ UNCHANGED <<tiling, late, pollingIndex, mbId, work, output, attn, answered>>

Launch ==
  /\ needSchedule /\ AllAt("idle")
  /\ StartCores
  /\ UNCHANGED <<window, out>>

(* FfnWorkerScheduler before a launch with need_schedule = 0: sessions in  *)
(* order, a flagged micro-batch of each, whose ids it takes out of the     *)
(* window and whose flags it drops.  A stopped scheduler takes nothing.    *)
OneEach(taken) ==
  /\ \A p \in taken : flag[p] = 1
  /\ \A p, q \in taken : p[1] = q[1] => p = q

Schedule(taken) ==
  /\ ~needSchedule /\ AllAt("idle")
  /\ OneEach(taken)
  /\ LET order == InOrder(taken, {z \in taken \X taken : z[1][1] < z[2][1]})
     IN out' = [k \in DOMAIN order |->
                  [session |-> order[k][1], microBatch |-> order[k][2], ids |-> ids[order[k]]]]
  /\ ids' = [p \in Pairs |-> IF p \in taken THEN Empty ELSE ids[p]]
  /\ flag' = [p \in Pairs |-> IF p \in taken THEN 0 ELSE flag[p]]
  /\ StartCores
  /\ UNCHANGED data

AfterContext(c) == IF needSchedule /\ c = 0 THEN "scan" ELSE "scanned"

(* Core 0 has found the micro-batch ready and stored the next one.         *)
ReadsLate == needSchedule /\ pc[0] = "scanned" /\ pollingIndex # mbId[0]

\* Mutant: rsvdCnt keeps what the last launch left.
ReadContextDirty(c) ==
  /\ pc[c] = "start"
  /\ mbId' = [mbId EXCEPT ![c] = IF needSchedule THEN pollingIndex ELSE @]
  /\ pc' = [pc EXCEPT ![c] = AfterContext(c)]
  /\ tally' = IF c = 0 THEN [e \in DOMAIN tally |-> 0] ELSE tally
  /\ late' = (late \/ ReadsLate)
  /\ UNCHANGED <<tiling, window, context, count, part, sorted, output, attn, answered>>

(* Each core copies the context for itself, whenever it starts: one that   *)
(* comes after Scan takes the next micro-batch.  Core 0 zeroes rsvdCnt and *)
(* the counts of the experts.                                              *)
ReadContext(c) ==
  /\ pc[c] = "start"
  /\ mbId' = [mbId EXCEPT ![c] = IF needSchedule THEN pollingIndex ELSE @]
  /\ pc' = [pc EXCEPT ![c] = AfterContext(c)]
  /\ count' = IF c = 0 THEN 0 ELSE count
  /\ tally' = IF c = 0 THEN [e \in DOMAIN tally |-> 0] ELSE tally
  /\ late' = (late \/ ReadsLate)
  /\ UNCHANGED <<tiling, window, context, part, sorted, output, attn, answered>>

AllReady(m) == \A s \in Sessions : flag[<<s, m>>] = 1

\* Mutant: the polling index stays.
ScanStuck ==
  /\ pc[0] = "scan"
  /\ AllReady(mbId[0])
  /\ Goto(0, "scanned")
  /\ UNCHANGED <<tiling, late, window, context, work, output, attn, answered>>

(* Core 0 leaves its loop when every session is flagged and stores the     *)
(* next polling index at once, before SyncAll; nothing makes it wait for   *)
(* the others to have read the old one.                                    *)
Scan ==
  /\ pc[0] = "scan"
  /\ AllReady(mbId[0])
  /\ pollingIndex' = (mbId[0] + 1) % MicroBatchNum
  /\ Goto(0, "scanned")
  /\ UNCHANGED <<tiling, late, window, out, work, output, attn, answered>>

RowId(a, i) == a * RowLen + i

SortedSessions(c) ==
  IF OneCoreSort
    THEN IF c = 0 THEN Sessions ELSE {}
    ELSE SortChunk(c, SessionNum, SessionPerSort, CoreNum)

(* The shares of the cores in a list of k sessions.                        *)
ListShares ==
  [max \in {l.sortLoopMax : l \in Launches} |->
    [k \in 0 .. SessionNum |->
      [c \in Cores |-> ListChunk(c, k * SlotNum, max, SortAlign, CoreNum)]]]

(* The ids core c sorts, as places <<a, i>>: slot i of session a in the    *)
(* window, or of entry a of the scheduler's list.                          *)
SortedPlaces(c) ==
  IF needSchedule
    THEN SortedSessions(c) \X Slots
    ELSE {<<j \div SlotNum, j % SlotNum>> :
            j \in ListShares[sortLoopMax][Len(out)][c]}

IdAt(c, a, i) == IF needSchedule THEN ids[<<a, mbId[c]>>][i] ELSE out[a + 1].ids[i]

(* Those that belong to an expert, with the row ids they get; in the       *)
(* window a session's row is padded.                                       *)
Valid(c) ==
  {<<IdAt(c, x[1], x[2]), RowId(x[1], x[2])>> :
     x \in {z \in SortedPlaces(c) : IdAt(c, z[1], z[2]) # Invalid}}

(* Copy, sort, and add to the count.  Ids in the window are wiped, and the *)
(* one-core variant drops the flags here too.                              *)
Sort(c) ==
  /\ pc[c] = "sort"
  /\ part' = [part EXCEPT ![c] = Valid(c)]
  /\ count' = count + Cardinality(Valid(c))
  /\ ids' = [p \in Pairs |->
       IF needSchedule /\ p[1] \in SortedSessions(c) /\ p[2] = mbId[c] THEN Empty ELSE ids[p]]
  /\ flag' = IF needSchedule /\ OneCoreSort /\ c = 0
               THEN [p \in Pairs |-> IF p[2] = mbId[0] THEN 0 ELSE flag[p]]
               ELSE flag
  /\ Goto(c, "wiped")
  /\ UNCHANGED <<tiling, late, data, context, sorted, tally, output, attn, answered>>

\* Mutant: the micro-batch is read from the context again.
FlagsToDropPolling == pollingIndex

FlagsToDrop == mbId[LastCoreId]

(* ClearTokenInfoFlag on the last core; the scheduler has dropped its own. *)
ClearFlags ==
  /\ pc[LastCoreId] = "drop"
  /\ flag' = IF OneCoreSort \/ ~needSchedule THEN flag
               ELSE [p \in Pairs |-> IF p[2] = FlagsToDrop THEN 0 ELSE flag[p]]
  /\ Goto(LastCoreId, "merged")
  /\ UNCHANGED <<tiling, late, ids, data, context, work, output, attn, answered>>

Merged(lists) ==
  InOrder(lists, {z \in lists \X lists :
    z[1][1] < z[2][1] \/ (z[1][1] = z[2][1] /\ z[1][2] < z[2][2])})

(* Merge of the lists; the last step of it is core 0's.                    *)
Merge(c) ==
  /\ pc[c] = "drop" /\ c # LastCoreId
  /\ sorted' = IF c = 0
                 THEN LET new == Merged(UNION {part[d] : d \in Cores})
                      IN [place \in DOMAIN sorted |->
                            IF place < Len(new) THEN new[place + 1] ELSE sorted[place]]
                 ELSE sorted
  /\ Goto(c, "merged")
  /\ UNCHANGED <<tiling, late, window, context, count, part, tally, output, attn, answered>>

SessionOf(row) == row \div RowLen
SlotOf(row)    == row - SessionOf(row) * RowLen

(* The scheduler's list names session and micro-batch of an entry.         *)
PairOf(c, row) ==
  IF needSchedule THEN <<SessionOf(row), mbId[c]>>
  ELSE <<out[SessionOf(row) + 1].session, out[SessionOf(row) + 1].microBatch>>

GatherRow(c, row) ==
  [session |-> PairOf(c, row)[1], microBatch |-> PairOf(c, row)[2], slot |-> SlotOf(row),
   round |-> data[PairOf(c, row)]]

(* The rows of core c of the first validGatherIdxLength sorted ones.       *)
Gather(c) ==
  /\ pc[c] = "out" /\ c < GatherCores
  /\ rows' = [j \in DOMAIN rows |->
       IF j \in CeilChunk(c, count, GatherCores) THEN GatherRow(c, sorted[j][2]) ELSE rows[j]]
  /\ Goto(c, "done")
  /\ UNCHANGED <<tiling, late, window, context, work, groups, openRun, attn, answered>>

(* The lengths of the runs of equal experts, in order.                     *)
RunsOf(seq) ==
  LET Size(e) == Cardinality({j \in DOMAIN seq : seq[j] = e})
      used    == InOrder(ToSet(seq), Below(ToSet(seq)))
  IN [k \in DOMAIN used |-> <<used[k], Size(used[k])>>]

(* The next chunk of sorted experts, with need_schedule = 1.               *)
MoreChunks == openRun.loop * PerLoopRows < count

ChunkOf ==
  LET first == openRun.loop * PerLoopRows
      len   == IF first + PerLoopRows <= count THEN PerLoopRows ELSE count - first
  IN [j \in 1 .. len |-> sorted[first + j - 1][1]]

\* Mutant: a run that ended with the chunk before is not closed.
RunEndedNever == FALSE

(* The run left open by the chunk before does not go on in this one.       *)
RunEnded == openRun.lastExpertId # Invalid /\ ChunkOf[1] # openRun.lastExpertId

(* Compute, of a chunk: all its runs are listed but the last, which stays  *)
(* open.                                                                   *)
ListGroupChunk ==
  LET own   == RunsOf(ChunkOf)
      total == [own EXCEPT ![1][2] = @ + IF RunEnded THEN 0 ELSE openRun.tokenCount]
  IN
  /\ pc[LastCoreId] = "out" /\ needSchedule /\ MoreChunks
  /\ groups' = (IF RunEnded THEN Append(groups, <<openRun.lastExpertId, openRun.tokenCount>>) ELSE groups)
                 \o Front(total)
  /\ openRun' = [loop |-> openRun.loop + 1,
                 lastExpertId |-> Last(total)[1], tokenCount |-> Last(total)[2]]
  /\ UNCHANGED <<tiling, late, window, context, cores, work, rows, attn, answered>>

(* The end of the list: the open run, when the last core has scanned the   *)
(* window; all groups, behind a scheduler when few ids are valid.  With no *)
(* valid id it then lists one group of no tokens, for whatever its buffer  *)
(* holds.                                                                  *)
ListGroups ==
  /\ pc[LastCoreId] = "out" /\ ~MultiList /\ ~(needSchedule /\ MoreChunks)
  /\ IF needSchedule
       THEN groups' = IF openRun.lastExpertId = Invalid THEN groups
                      ELSE Append(groups, <<openRun.lastExpertId, openRun.tokenCount>>)
     ELSE IF count > 0
       THEN groups' = RunsOf([j \in 1 .. count |-> sorted[j - 1][1]])
     ELSE \E e \in -1 .. ExpertNum - 1 : groups' = <<<<e, 0>>>>
  /\ openRun' = NoRun
  /\ Goto(LastCoreId, "done")
  /\ UNCHANGED <<tiling, late, window, context, work, rows, attn, answered>>

(* Equal parts of the sorted ids for the listing cores, the rest for the   *)
(* last.                                                                   *)
CountedBy(c) ==
  LET each  == count \div ListCoreNum
      first == (c - GatherCores) * each
  IN first .. IF c = LastCoreId THEN count - 1 ELSE first + each - 1

CountExperts(c) ==
  /\ pc[c] = "out" /\ MultiList /\ c >= GatherCores
  /\ tally' = [e \in DOMAIN tally |->
       tally[e] + Cardinality({j \in CountedBy(c) : sorted[j][1] = e})]
  /\ Goto(c, "done")
  /\ UNCHANGED <<tiling, late, window, context, count, part, sorted, output, attn, answered>>

(* ProcessExpertCount: the last core lists what the cores have counted.    *)
ListCounts ==
  /\ pc[LastCoreId] = "list"
  /\ groups' = IF MultiList
                 THEN LET some == {e \in DOMAIN tally : tally[e] > 0}
                          used == InOrder(some, Below(some))
                      IN [k \in DOMAIN used |-> <<used[k], tally[used[k]]>>]
                 ELSE groups
  /\ Goto(LastCoreId, "end")
  /\ UNCHANGED <<tiling, late, window, context, work, rows, openRun, attn, answered>>

(* The launch is over; only need_schedule = 0 has the last barrier.        *)
Done == IF needSchedule THEN AllAt("done") ELSE pc[LastCoreId] = "end"

(* The micro-batches of the launch.                                        *)
Taken ==
  IF needSchedule THEN {p \in Pairs : p[2] = mbId[0]}
  ELSE {<<entry.session, entry.microBatch>> : entry \in ToSet(out)}

(* The rest of the FFN worker sends the results of the micro-batches back  *)
(* to their sessions.  Lists and outputs are written before they are read  *)
(* by the next launch: here they go back to their initial values; counts   *)
(* stay.                                                                   *)
Respond ==
  /\ Done
  /\ answered' = [p \in Pairs |-> IF p \in Taken THEN answered[p] + 1 ELSE answered[p]]
  /\ pc' = [c \in Cores |-> "idle"]
  /\ out' = <<>>
  /\ part' = [c \in Cores |-> {}] /\ sorted' = Free
  /\ rows' = [j \in 0 .. SessionNum * SlotNum - 1 |-> NoRow]
  /\ groups' = <<>>
  /\ UNCHANGED <<tiling, late, window, pollingIndex, mbId, count, tally, openRun, attn>>

Core(c) == ReadContext(c) \/ Sort(c) \/ Merge(c) \/ Gather(c) \/ CountExperts(c)

Barrier ==
  \/ SyncAll("scanned", "sort")
  \/ SyncAll("wiped", "drop")
  \/ SyncAll("merged", "out")
  \/ ~needSchedule /\ SyncAll("done", "list")

Operator ==
  \/ Launch \/ Scan \/ ClearFlags \/ ListGroupChunk \/ ListGroups \/ ListCounts \/ Barrier
  \/ \E c \in Cores : Core(c)

(* The operator spins while a micro-batch is missing.                      *)
SpinOnFlags == pc[0] = "scan" /\ ~AllReady(mbId[0]) /\ UNCHANGED vars

Next ==
  \/ \E s \in Sessions, m \in MicroBatches : Send(s, m)
  \/ \E taken \in SUBSET Pairs : Schedule(taken)
  \/ Operator \/ Respond \/ SpinOnFlags

Spec == Init /\ [][Next]_vars

TakeOf(s) ==
  \E taken \in SUBSET Pairs : Schedule(taken) /\ \E p \in taken : p[1] = s

(* Every launch goes on, the host launches the operator again, the results *)
(* go back, the sessions keep sending, and the scheduler does not pass a   *)
(* session over for ever.                                                  *)
Fairness ==
  /\ WF_vars(Operator) /\ WF_vars(Respond)
  /\ \A s \in Sessions : WF_vars(\E m \in MicroBatches : Send(s, m)) /\ SF_vars(TakeOf(s))

FairSpec == Spec /\ Fairness

(***************************************************************************)
(* Properties.                                                             *)
(***************************************************************************)

(* Window, workspace and outputs keep their types; the count in the        *)
(* workspace never exceeds the Y rows the outputs have, although every     *)
(* launch adds to the value it finds there.                                *)
TypeOK ==
  /\ [needSchedule |-> needSchedule, sortLoopMax |-> sortLoopMax] \in Launches
  /\ flag \in [Pairs -> {0, 1}]
  /\ ids \in [Pairs -> [Slots -> -1 .. ExpertNum - 1]]
  /\ data \in [Pairs -> -1 .. RoundBound - 1]
  /\ pollingIndex \in MicroBatches /\ mbId \in [Cores -> MicroBatches]
  /\ Len(out) <= SessionNum
  /\ pc \in [Cores -> {"idle", "start", "scan", "scanned", "sort", "wiped", "drop",
                       "merged", "out", "done", "list", "end"}]
  /\ count \in 0 .. SessionNum * SlotNum
  /\ \A place \in DOMAIN sorted :
       sorted[place] \in (-1 .. ExpertNum - 1) \X (0 .. SessionNum * BsKPad - 1)
  /\ tally \in [0 .. ExpertNum - 1 -> 0 .. SessionNum * SlotNum]
  /\ Len(groups) <= ExpertNum

(* What the sessions sent to this node in the launch's rounds, and the row *)
(* that the gathering writes for a token: session, micro-batch and slot,   *)
(* with the data of the session's round.                                   *)
SentTokens == {x \in Taken \X Slots : want[x[1]][x[2]] # Invalid}

SentRow(x) ==
  [session |-> x[1][1], microBatch |-> x[1][2], slot |-> x[2], round |-> sent[x[1]] - 1]

(* The expert that a gathered row was sent to.                             *)
SentTo(row) == want[<<row.session, row.microBatch>>][row.slot]

(* How many rows each group has, and how many are before group k.          *)
Sizes == [k \in 1 .. Len(groups) |-> groups[k][2]]

RowsBefore(k) == SumOf(1 .. k - 1, Sizes)

(* The gathered rows are exactly the tokens of the launch's micro-batches: *)
(* at its end each token that a session sent to this node is there once,   *)
(* under its session, micro-batch and slot, with the data of its round;    *)
(* and group_list cuts the rows into experts: reading it from the top, the *)
(* next expert_token_num rows all belong to that expert, to the last row.  *)
(* Only a core that reads polling_index late can spoil it, having sorted,  *)
(* wiped or gathered the next micro-batch.                                 *)
GatherExact ==
  Done /\ ~late =>
    /\ count = Cardinality(SentTokens)
    /\ {rows[j] : j \in 0 .. count - 1} = {SentRow(x) : x \in SentTokens}
    /\ RowsBefore(Len(groups) + 1) = count
    /\ \A k \in 1 .. Len(groups) :
         \A j \in RowsBefore(k) .. RowsBefore(k) + groups[k][2] - 1 :
           SentTo(rows[j]) = groups[k][1]

(* What ffn_wb_common.h says of curMicroBatchID: it marks the micro-batch  *)
(* whose expert ids are ready, so that the ids a core is about to sort are *)
(* flagged and those the sessions have sent.  A late reader's are not.     *)
ReadyBatch ==
  needSchedule => \A c \in Cores : pc[c] = "sort" =>
    \A s \in SortedSessions(c) :
      flag[<<s, mbId[c]>>] = 1 /\ ids[<<s, mbId[c]>>] = want[<<s, mbId[c]>>]

(* No round is dropped: a round that was sent and is not answered is       *)
(* flagged with all its ids in the window, or the launch in progress has   *)
(* found it ready, or has it from the scheduler with all its ids; unless a *)
(* core has read polling_index late.                                       *)
RoundsKept ==
  ~late => \A p \in Pairs : sent[p] # answered[p] =>
    \/ flag[p] = 1 /\ ids[p] = want[p]
    \/ /\ needSchedule /\ p \in Taken
       /\ pc[0] \in {"sort", "wiped", "drop", "merged", "out", "done"}
    \/ /\ ~needSchedule /\ ~AllAt("idle")
       /\ \E entry \in ToSet(out) :
            entry = [session |-> p[1], microBatch |-> p[2], ids |-> want[p]]

(* Every round that a session flags is answered, if no core ever reads     *)
(* polling_index late: time and again the pair has no round out, since     *)
(* polling_index follows the order in which the sessions send and no       *)
(* barrier is left waiting.                                                *)
RoundsAnswered == []~late => \A p \in Pairs : []<>(sent[p] = answered[p])
=============================================================================

---------------------------- MODULE EngramFetch ----------------------------
(***************************************************************************)
(* mc2/engram_fetch in training mode: every rank holds EntryNum entries of *)
(* a table and fetches TokenNum of them by global index.  A launch on a    *)
(* rank runs on BlockNum vector cores:                                     *)
(*                                                                         *)
(*    every core     sorts its tokens by owner, announces the counts       *)
(*    the last core  gathers the counts of all ranks         - SyncAll     *)
(*    senders        send the indices, slot by slot of a ring at the owner,*)
(*                   then as owners the rows, through a ring of rows       *)
(*    receivers      take the indices, then the rows         - SyncAll     *)
(*                                                                         *)
(* A ring is written by the remote sender, with a count of what it wrote,  *)
(* and freed by a count of what was read, which the sender reads back over *)
(* the network (the credit).  Sender and receiver cores pass through ranks *)
(* with a stride; senders of one rank share its rows in sub-streams.       *)
(*                                                                         *)
(* Writes on a channel land in order; a posted write is taken to land at   *)
(* once, the read of a credit is in flight for a while.  The row of a table*)
(* entry is represented by its global index.                               *)
(***************************************************************************)
EXTENDS WorkSplit, SequencesExt

CONSTANTS
  RankNum,         \* numRanks
  BlockNum,        \* totalBlocks
  ChannelNum,      \* channelsPerRank
  EntryNum,        \* numEntriesPerRank
  TokenNum,        \* numTokens
  SlotNum,         \* NUM_SLOTS of the ring of indices
  IndicesPerSlot,  \* maxIndicesPerSlot
  RowNum,          \* maxTokensPerSlot: rows of the ring of a sub-stream
  BatchSize,       \* indicesBatchSize: indices of a core's local buffer
  Intervals,       \* ENGRAM_NOTIFY_INTERVALS
  Requests,        \* the indices each rank may ask for
  LaunchNum        \* bound: launches of a rank

Ranks  == 0 .. RankNum - 1
Cores  == 0 .. BlockNum - 1
Tokens == 0 .. TokenNum - 1

ASSUME EngramAssumption ==
  /\ {RankNum, ChannelNum, EntryNum, TokenNum, SlotNum, IndicesPerSlot, RowNum, BatchSize,
      Intervals} \subseteq Nat \ {0}
  /\ BlockNum \in Nat \ {0, 1} /\ LaunchNum \in Nat
  /\ Requests \in [Ranks -> SUBSET [Tokens -> 0 .. RankNum * EntryNum - 1]]

Min2(a, b) == IF a < b THEN a ELSE b

(* The roles of the cores.                                                 *)
SendCoreNum ==
  LET half == BlockNum \div 2
  IN IF half < RankNum THEN half ELSE (half \div RankNum) * RankNum
RecvCoreNum == BlockNum - SendCoreNum

GroupSize ==
  LET each == SendCoreNum \div RankNum
  IN Min2(IF each = 0 THEN 1 ELSE each, ChannelNum)
SubStreams == 0 .. GroupSize - 1

NotifyGran == IF RowNum \div Intervals = 0 THEN 1 ELSE RowNum \div Intervals

VARIABLES
  request,      \* per rank the indices of its launches
  flag, count,  \* the window: counts of the ranks, and the flags of the counts
  slots, slotsWritten, slotsRead,  \* the window: rings of indices
  rows, rowsWritten, rowsRead,     \* the window: rings of rows
  recvCounts,   \* recvCountsOut: what every rank asks this one for
  entries,      \* recvLocalEntryOut, by the rank that asks
  ready,        \* indicesReadyFlag
  fetched,      \* the rows fetched, by token
  numRecv,      \* numRecvOut
  core          \* where each core is

window  == <<flag, count, slots, slotsWritten, slotsRead, rows, rowsWritten, rowsRead>>
outputs == <<recvCounts, entries, ready, fetched, numRecv>>
vars    == <<request, window, outputs, core>>

None     == -1
NoCredit == -2   \* no read of a credit in flight
InFlight == -1   \* CREDIT_READ_SENTINEL

(***************************************************************************)
(* The sort by owner.                                                      *)
(***************************************************************************)
RankCores   == Min2(BlockNum, RankNum)
TokenGroups == CeilDiv(BlockNum, RankCores)

(* The tokens of a group of cores.                                         *)
TokensOf(g) ==
  LET each == CeilDiv(TokenNum, TokenGroups)
  IN {t \in Tokens : t \div each = g}

OwnersOf(c) == {d \in Ranks : d % RankCores = c % RankCores}

(* The tokens of the owners that core c is responsible for.                *)
Part(c, indices) ==
  {t \in TokensOf(c \div RankCores) : indices[t] \div EntryNum \in OwnersOf(c)}

(* permOut by owner: the parts of the cores one behind the other, in the   *)
(* order of their groups.                                                  *)
PermOf ==
  [indices \in UNION {Requests[r] : r \in Ranks} |->
    [d \in Ranks |->
      SelectSeq([k \in 1 .. TokenNum |-> k - 1],
        LAMBDA t : indices[t] \div EntryNum = d /\ \E c \in Cores : t \in Part(c, indices))]]

Current(r) == request[r][Len(request[r])]
Perm(r, d) == PermOf[Current(r)][d]

SendCount(r, d) == Len(Perm(r, d))

(* sortedIndices: what rank r asks rank d for.                             *)
AskedIn(indices, d) == [k \in DOMAIN PermOf[indices][d] |-> indices[PermOf[indices][d][k]]]
Asked(r, d) == AskedIn(Current(r), d)

(* The share of a sub-stream in n rows: its first row and their number.    *)
Share(sub, n) ==
  LET each  == CeilDiv(n, GroupSize)
      first == sub * each
      end   == IF sub = GroupSize - 1 THEN n ELSE Min2(first + each, n)
  IN [first |-> first, num |-> IF first < n THEN end - first ELSE 0]

(***************************************************************************)
(* Where a core is: a phase, the rank it works with, what of it is done    *)
(* (slots or rows), the end of the chunk at work, the last credit, and the *)
(* credit being read.                                                      *)
(***************************************************************************)
At(pc, peer) == [pc |-> pc, peer |-> peer, done |-> 0, upTo |-> 0, read |-> 0, credit |-> NoCredit]

(* Senders and receivers are numbered from 0, and pass through the ranks   *)
(* by their numbers: one sender through all of them, say, and each of two  *)
(* receivers through every other one.                                      *)
IsSender(c)   == c < SendCoreNum
Number(c)     == IF IsSender(c) THEN c ELSE c - SendCoreNum
Stride(c)     == IF IsSender(c) THEN SendCoreNum ELSE RecvCoreNum
IndexPhase(c) == IF IsSender(c) THEN "sendIndices" ELSE "recvIndices"
RowPhase(c)   == IF IsSender(c) THEN "sendRows" ELSE "recvRows"
SubOf(c)      == Number(c) \div RankNum

(* A rank with which there is nothing to do is passed over; a sender waits *)
(* for the indices of every rank that asks for rows, whatever its share of *)
(* them.                                                                   *)
HasWork(pc, r, c, peer) ==
  \/ pc = "sendIndices" /\ SendCount(r, peer) > 0
  \/ pc = "recvIndices" /\ peer # r /\ recvCounts[r][peer] > 0
  \/ pc = "sendRows" /\ SubOf(c) < GroupSize /\ recvCounts[r][peer] > 0
  \/ /\ pc = "recvRows" /\ peer # r /\ SubOf(c) < GroupSize
     /\ Share(SubOf(c), SendCount(r, peer)).num > 0

PeersFrom(first, pc, r, c) ==
  {peer \in Ranks : peer >= first /\ (peer - first) % Stride(c) = 0 /\ HasWork(pc, r, c, peer)}

(* The next rank of a loop, or the first one of the rows behind the        *)
(* indices.                                                                *)
ToPeer(first, pc, r, c) ==
  LET peers == PeersFrom(first, pc, r, c)
      later == IF pc = IndexPhase(c) THEN PeersFrom(Number(c) % RankNum, RowPhase(c), r, c) ELSE {}
  IN IF peers # {} THEN At(pc, Min(peers))
     ELSE IF later # {} THEN At(RowPhase(c), Min(later))
     ELSE At("end", 0)

NextPeer(r, c) ==
  LET me == core[r][c]
  IN core' = [core EXCEPT ![r][c] = ToPeer(me.peer + Stride(c), me.pc, r, c)]

Advance(r, c, done, upTo) ==
  core' = [core EXCEPT ![r][c] = [@ EXCEPT !.done = done, !.upTo = upTo]]

AllAt(r, pc) == \A c \in Cores : core[r][c].pc = pc

NoRows == [t \in Tokens |-> None]

Init ==
  /\ request = [r \in Ranks |-> <<>>]
  /\ flag = [r \in Ranks |-> [s \in Ranks |-> 0]]
  /\ count = [r \in Ranks |-> [s \in Ranks |-> 0]]
  /\ slots = [r \in Ranks |-> [s \in Ranks |-> [k \in 0 .. SlotNum * IndicesPerSlot - 1 |-> 0]]]
  /\ slotsWritten = [r \in Ranks |-> [s \in Ranks |-> 0]]
  /\ slotsRead = [r \in Ranks |-> [s \in Ranks |-> 0]]
  /\ rows = [r \in Ranks |-> [s \in Ranks |-> [g \in SubStreams |-> [k \in 0 .. RowNum - 1 |-> 0]]]]
  /\ rowsWritten = [r \in Ranks |-> [s \in Ranks |-> [g \in SubStreams |-> 0]]]
  /\ rowsRead = [r \in Ranks |-> [s \in Ranks |-> [g \in SubStreams |-> 0]]]
  /\ recvCounts = [r \in Ranks |-> [s \in Ranks |-> 0]]
  /\ entries = [r \in Ranks |-> [s \in Ranks |-> <<>>]]
  /\ ready = [r \in Ranks |-> [s \in Ranks |-> 0]]
  /\ fetched = [r \in Ranks |-> NoRows]
  /\ numRecv = [r \in Ranks |-> 0]
  /\ core = [r \in Ranks |-> [c \in Cores |-> At("idle", 0)]]

(* A launch, with outputs of its own.  Core 0 zeroes the counters of its   *)
(* window and the ready flags; behind two barriers the tokens are sorted.  *)
Launch(r) ==
  /\ AllAt(r, "idle") /\ Len(request[r]) < LaunchNum
  /\ \E indices \in Requests[r] : request' = [request EXCEPT ![r] = Append(@, indices)]
  /\ slotsWritten' = [slotsWritten EXCEPT ![r] = [s \in Ranks |-> 0]]
  /\ slotsRead' = [slotsRead EXCEPT ![r] = [s \in Ranks |-> 0]]
  /\ rowsWritten' = [rowsWritten EXCEPT ![r] = [s \in Ranks |-> [g \in SubStreams |-> 0]]]
  /\ rowsRead' = [rowsRead EXCEPT ![r] = [s \in Ranks |-> [g \in SubStreams |-> 0]]]
  /\ ready' = [ready EXCEPT ![r] = [s \in Ranks |-> 0]]
  /\ entries' = [entries EXCEPT ![r] = [s \in Ranks |-> <<>>]]
  /\ fetched' = [fetched EXCEPT ![r] = NoRows]
  /\ core' = [core EXCEPT ![r] = [c \in Cores |-> At("counts", 0)]]
  /\ UNCHANGED <<flag, count, slots, rows, recvCounts, numRecv>>

(***************************************************************************)
(* The counts.                                                             *)
(***************************************************************************)

(* Every core writes the counts of its ranks, each with its flag.          *)
SendCounts(r, c) ==
  LET mine == Strided(c, RankNum, BlockNum) IN
  /\ core[r][c].pc = "counts"
  /\ count' = [d \in Ranks |-> IF d \in mine THEN [count[d] EXCEPT ![r] = SendCount(r, d)] ELSE count[d]]
  /\ flag' = [d \in Ranks |-> IF d \in mine THEN [flag[d] EXCEPT ![r] = 1] ELSE flag[d]]
  /\ core' = [core EXCEPT ![r][c] = At(IF c = BlockNum - 1 THEN "gather" ELSE "counted", 0)]
  /\ UNCHANGED <<request, slots, slotsWritten, slotsRead, rows, rowsWritten, rowsRead, outputs>>

(* The last core has seen a flag of every rank.                            *)
GatherCounts(r) ==
  /\ core[r][BlockNum - 1].pc = "gather"
  /\ \A s \in Ranks : flag[r][s] = 1
  /\ recvCounts' = [recvCounts EXCEPT ![r] = count[r]]
  /\ core' = [core EXCEPT ![r][BlockNum - 1] = At("clear", 0)]
  /\ UNCHANGED <<request, window, entries, ready, fetched, numRecv>>

ClearFlags(r) ==
  /\ core[r][BlockNum - 1].pc = "clear"
  /\ flag' = [flag EXCEPT ![r] = [s \in Ranks |-> 0]]
  /\ core' = [core EXCEPT ![r][BlockNum - 1] = At("counted", 0)]
  /\ UNCHANGED <<request, count, slots, slotsWritten, slotsRead, rows, rowsWritten, rowsRead, outputs>>

SyncCounts(r) ==
  /\ AllAt(r, "counted")
  /\ core' = [core EXCEPT ![r] = [c \in Cores |-> ToPeer(Number(c), IndexPhase(c), r, c)]]
  /\ UNCHANGED <<request, window, outputs>>

(***************************************************************************)
(* Credits: the count of what the peer has read of this rank's ring.       *)
(***************************************************************************)
PeerRead(r, c) ==
  LET me == core[r][c]
  IN IF me.pc = "sendIndices" THEN slotsRead[me.peer][r] ELSE rowsRead[me.peer][r][SubOf(c)]

Credit(r, c, read, credit) ==
  /\ core' = [core EXCEPT ![r][c] = [@ EXCEPT !.read = read, !.credit = credit]]
  /\ UNCHANGED <<request, window, outputs>>

(* The network delivers the count that the peer's window has by now.       *)
DeliverCredit(r, c) ==
  /\ core[r][c].credit = InFlight
  /\ Credit(r, c, core[r][c].read, PeerRead(r, c))

(***************************************************************************)
(* The indices.                                                            *)
(***************************************************************************)
SlotsOf(n) == CeilDiv(n, IndicesPerSlot)

SendsIndices(r, c) == core[r][c].pc = "sendIndices" /\ core[r][c].peer # r

(* A rank's indices for itself go straight to the output.                  *)
KeepIndices(r, c) ==
  /\ core[r][c].pc = "sendIndices" /\ core[r][c].peer = r
  /\ entries' = [entries EXCEPT ![r][r] = Asked(r, r)]
  /\ ready' = [ready EXCEPT ![r][r] = 1]
  /\ NextPeer(r, c)
  /\ UNCHANGED <<request, window, recvCounts, fetched, numRecv>>

\* Mutant: one slot more than the ring has.
IndicesBlockedLate(r, c) == core[r][c].done >= core[r][c].read + SlotNum + 1

IndicesBlocked(r, c) == core[r][c].done >= core[r][c].read + SlotNum

IndicesLeft(r, c) == core[r][c].done < SlotsOf(SendCount(r, core[r][c].peer))

(* The credit is asked for when the ring is full but for one slot, one     *)
(* slot ahead of need.                                                     *)
AsksIndexCredit(r, c) ==
  /\ IndicesLeft(r, c) /\ core[r][c].credit = NoCredit
  /\ core[r][c].done + 1 >= core[r][c].read + SlotNum

AskIndexCredit(r, c) ==
  /\ SendsIndices(r, c) /\ AsksIndexCredit(r, c)
  /\ Credit(r, c, core[r][c].read, InFlight)

TakeIndexCredit(r, c) ==
  /\ SendsIndices(r, c) /\ IndicesLeft(r, c)
  /\ IndicesBlocked(r, c) /\ core[r][c].credit >= 0
  /\ Credit(r, c, core[r][c].credit, NoCredit)

SendSlot(r, c) ==
  LET me    == core[r][c]
      n     == SendCount(r, me.peer)
      sent  == me.done * IndicesPerSlot
      len   == Min2(n - sent, IndicesPerSlot)
      place == (me.done % SlotNum) * IndicesPerSlot
  IN
  /\ SendsIndices(r, c) /\ IndicesLeft(r, c)
  /\ ~AsksIndexCredit(r, c) /\ ~IndicesBlocked(r, c)
  /\ slots' = [slots EXCEPT ![me.peer][r] = [k \in DOMAIN @ |->
                 IF k \in place .. place + len - 1 THEN Asked(r, me.peer)[sent + k - place + 1] ELSE @[k]]]
  /\ slotsWritten' = [slotsWritten EXCEPT ![me.peer][r] = me.done + 1]
  /\ Advance(r, c, me.done + 1, 0)
  /\ UNCHANGED <<request, flag, count, slotsRead, rows, rowsWritten, rowsRead, outputs>>

(* The last credit is waited for before the core turns to another rank.    *)
EndIndices(r, c) ==
  /\ SendsIndices(r, c) /\ ~IndicesLeft(r, c) /\ core[r][c].credit # InFlight
  /\ NextPeer(r, c)
  /\ UNCHANGED <<request, window, outputs>>

(* The slots written so far, up to the end of the ring; behind the last    *)
(* one the ready flag goes up.                                             *)
RecvSlots(r, c) ==
  LET me    == core[r][c]
      s     == me.peer
      n     == recvCounts[r][s]
      first == me.done % SlotNum
      avail == Min2(slotsWritten[r][s] - me.done, SlotNum - first)
      items == Min2(n - me.done * IndicesPerSlot, avail * IndicesPerSlot)
      done  == me.done + SlotsOf(items)
  IN
  /\ me.pc = "recvIndices"
  /\ slotsWritten[r][s] > me.done
  /\ entries' = [entries EXCEPT ![r][s] =
                   @ \o [k \in 1 .. items |-> slots[r][s][first * IndicesPerSlot + k - 1]]]
  /\ slotsRead' = [slotsRead EXCEPT ![r][s] = done]
  /\ IF me.done * IndicesPerSlot + items >= n
       THEN ready' = [ready EXCEPT ![r][s] = 1] /\ NextPeer(r, c)
       ELSE UNCHANGED ready /\ Advance(r, c, done, 0)
  /\ UNCHANGED <<request, flag, count, slots, slotsWritten, rows, rowsWritten, rowsRead,
                 recvCounts, fetched, numRecv>>

(***************************************************************************)
(* The rows.                                                               *)
(***************************************************************************)

(* The row of an index; an index that is not this rank's reads the first.  *)
RowOf(r, index) == IF index \div EntryNum = r THEN index ELSE r * EntryNum

(* A sender turns to a rank that asks for rows when all its indices are in.*)
SendsRows(r, c) == core[r][c].pc = "sendRows" /\ ready[r][core[r][c].peer] = 1

Mine(r, c) == Share(SubOf(c), recvCounts[r][core[r][c].peer])

(* Rows of the own table are copied to their tokens; an index that is not  *)
(* in it is passed over.                                                   *)
KeepRows(r, c) ==
  LET places == {k \in Mine(r, c).first + 1 .. Mine(r, c).first + Mine(r, c).num :
                   Asked(r, r)[k] \div EntryNum = r}
  IN
  /\ SendsRows(r, c) /\ core[r][c].peer = r
  /\ fetched' = [fetched EXCEPT ![r] = [t \in Tokens |->
                   IF \E k \in places : Perm(r, r)[k] = t THEN Current(r)[t] ELSE @[t]]]
  /\ NextPeer(r, c)
  /\ UNCHANGED <<request, window, recvCounts, entries, ready, numRecv>>

SendsStream(r, c) == SendsRows(r, c) /\ core[r][c].peer # r

RowsLeft(r, c) == core[r][c].done < Mine(r, c).num

(* Credits are looked at between chunks only.                              *)
BetweenChunks(r, c) == core[r][c].done = core[r][c].upTo

RowsBlocked(r, c) == core[r][c].done >= core[r][c].read + RowNum

AsksRowCredit(r, c) ==
  /\ RowsLeft(r, c) /\ BetweenChunks(r, c) /\ core[r][c].credit = NoCredit
  /\ core[r][c].done + BatchSize >= core[r][c].read + RowNum

AskRowCredit(r, c) ==
  /\ SendsStream(r, c) /\ AsksRowCredit(r, c)
  /\ Credit(r, c, core[r][c].read, InFlight)

TakeRowCredit(r, c) ==
  /\ SendsStream(r, c) /\ RowsLeft(r, c) /\ BetweenChunks(r, c)
  /\ RowsBlocked(r, c) /\ core[r][c].credit >= 0
  /\ Credit(r, c, core[r][c].credit, NoCredit)

(* A chunk reaches to the end of the ring, of the local buffer or of the   *)
(* share, whatever part of the ring is free.                               *)
ChunkEnd(r, c) ==
  LET me == core[r][c] IN
  IF BetweenChunks(r, c)
    THEN me.done + Min2(Min2(Mine(r, c).num - me.done, BatchSize), RowNum - (me.done % RowNum))
    ELSE me.upTo

\* Mutant: the count runs ahead of the rows.
AnnouncedAhead(done, len, old) ==
  IF (done \div NotifyGran + 1) * NotifyGran <= done + len + 1 THEN (done \div NotifyGran + 1) * NotifyGran
  ELSE old

(* The count goes out when the rows pass a multiple of NotifyGran.         *)
Announced(done, len, old) ==
  LET mark == (done \div NotifyGran + 1) * NotifyGran
  IN IF mark <= done + len THEN mark ELSE old

SendRows(r, c) ==
  LET me   == core[r][c]
      g    == SubOf(c)
      upTo == ChunkEnd(r, c)
      len  == Min2(upTo - me.done, NotifyGran)
      place == me.done % RowNum
  IN
  /\ SendsStream(r, c) /\ RowsLeft(r, c)
  /\ BetweenChunks(r, c) => ~AsksRowCredit(r, c) /\ ~RowsBlocked(r, c)
  /\ rows' = [rows EXCEPT ![me.peer][r][g] = [k \in DOMAIN @ |->
                IF k \in place .. place + len - 1
                  THEN RowOf(r, entries[r][me.peer][Mine(r, c).first + me.done + k - place + 1])
                  ELSE @[k]]]
  /\ rowsWritten' = [rowsWritten EXCEPT ![me.peer][r][g] = Announced(me.done, len, @)]
  /\ Advance(r, c, me.done + len, upTo)
  /\ UNCHANGED <<request, flag, count, slots, slotsWritten, slotsRead, rowsRead, outputs>>

\* Mutant: the rows behind the last multiple are not announced.
LastCountNever(n, old) == old

(* The count of all rows, unless the last of them has announced it.        *)
LastCount(n, old) == IF n % NotifyGran # 0 THEN n ELSE old

EndRows(r, c) ==
  LET me == core[r][c] IN
  /\ SendsStream(r, c) /\ ~RowsLeft(r, c) /\ me.credit # InFlight
  /\ rowsWritten' = [rowsWritten EXCEPT ![me.peer][r][SubOf(c)] = LastCount(Mine(r, c).num, @)]
  /\ NextPeer(r, c)
  /\ UNCHANGED <<request, flag, count, slots, slotsWritten, slotsRead, rows, rowsRead, outputs>>

Awaited(r, c) == Share(SubOf(c), SendCount(r, core[r][c].peer))

(* The rows announced so far, up to the end of the ring, go to their       *)
(* tokens.                                                                 *)
RecvRows(r, c) ==
  LET me    == core[r][c]
      s     == me.peer
      g     == SubOf(c)
      avail == Min2(rowsWritten[r][s][g], Awaited(r, c).num) - me.done
      len   == Min2(avail, RowNum - (me.done % RowNum))
      done  == me.done + len
      Token(k) == Perm(r, s)[Awaited(r, c).first + me.done + k]
      Row(k)   == rows[r][s][g][(me.done + k - 1) % RowNum]
  IN
  /\ me.pc = "recvRows"
  /\ rowsWritten[r][s][g] > me.done
  /\ fetched' = [fetched EXCEPT ![r] = [t \in Tokens |->
                   IF \E k \in 1 .. len : Token(k) = t
                     THEN Row(CHOOSE k \in 1 .. len : Token(k) = t) ELSE @[t]]]
  /\ rowsRead' = [rowsRead EXCEPT ![r][s][g] = done]
  /\ IF done = Awaited(r, c).num THEN NextPeer(r, c) ELSE Advance(r, c, done, 0)
  /\ UNCHANGED <<request, flag, count, slots, slotsWritten, slotsRead, rows, rowsWritten,
                 recvCounts, entries, ready, numRecv>>

(* Behind the last barrier core 0 writes the number of rows asked for.     *)
Finish(r) ==
  /\ AllAt(r, "end")
  /\ numRecv' = [numRecv EXCEPT ![r] = MapThenSumSet(LAMBDA s : recvCounts[r][s], Ranks)]
  /\ core' = [core EXCEPT ![r] = [c \in Cores |-> At("idle", 0)]]
  /\ UNCHANGED <<request, window, recvCounts, entries, ready, fetched>>

Indices(r, c) ==
  \/ KeepIndices(r, c) \/ AskIndexCredit(r, c) \/ TakeIndexCredit(r, c) \/ SendSlot(r, c)
  \/ EndIndices(r, c) \/ RecvSlots(r, c)

Rows(r, c) ==
  \/ KeepRows(r, c) \/ AskRowCredit(r, c) \/ TakeRowCredit(r, c) \/ SendRows(r, c)
  \/ EndRows(r, c) \/ RecvRows(r, c)

Kernel(r, c) == SendCounts(r, c) \/ DeliverCredit(r, c) \/ Indices(r, c) \/ Rows(r, c)

Operator(r) ==
  \/ GatherCounts(r) \/ ClearFlags(r) \/ SyncCounts(r) \/ Finish(r)

(* All launches of the bound are over.                                     *)
Rest ==
  /\ \A r \in Ranks : AllAt(r, "idle") /\ Len(request[r]) = LaunchNum
  /\ UNCHANGED vars

Next ==
  \/ \E r \in Ranks : Launch(r) \/ Operator(r) \/ \E c \in Cores : Kernel(r, c)
  \/ Rest

Spec == Init /\ [][Next]_vars

(* Every rank launches as often as the others, and every core goes on.     *)
Fairness ==
  \A r \in Ranks :
    /\ WF_vars(Launch(r) \/ Operator(r))
    /\ \A c \in Cores : WF_vars(Kernel(r, c))

FairSpec == Spec /\ Fairness

(***************************************************************************)
(* Properties.                                                             *)
(***************************************************************************)

Ended(r) == AllAt(r, "idle") /\ request[r] # <<>>

(* The context of the backward pass is that of the launch, although counts *)
(* and flags have one buffer for all launches and the indices pass through *)
(* a ring with a credit that may be old: when a launch has ended, the rank *)
(* has the indices every rank asked it for in the same launch, in their    *)
(* order, and their numbers.                                               *)
ContextExact ==
  \A r \in Ranks : Ended(r) =>
    LET wanted(s) == AskedIn(request[s][Len(request[r])], r) IN
    /\ \A s \in Ranks : entries[r][s] = wanted(s) /\ recvCounts[r][s] = Len(wanted(s))
    /\ numRecv[r] = MapThenSumSet(LAMBDA s : Len(wanted(s)), Ranks)

(* Every token of a launch has the row of its index, as long as the rows   *)
(* of its sub-stream fit the ring or exceed it by one row: with rows of    *)
(* several ranks, announced by marks, none is read before it is there and  *)
(* none goes to the token of another.                                      *)
FetchedWithinRing ==
  \A r \in Ranks : Ended(r) =>
    \A t \in Tokens :
      LET d == Current(r)[t] \div EntryNum
      IN (d = r \/ Share(0, SendCount(r, d)).num <= RowNum + 1) => fetched[r][t] = Current(r)[t]

(* torchapi_ElasticBuffer.md: fetched[i] = EngramTable[rank_id][local_idx],*)
(* for every launch and any number of tokens.                              *)
Fetched == \A r \in Ranks : Ended(r) => fetched[r] = Current(r)

(* Every launch ends: no core waits for ever for a flag, a credit or rows, *)
(* although senders and receivers pass the ranks with different strides,   *)
(* and a sender that waits for one rank keeps the others waiting.          *)
FetchEnds == \A r \in Ranks : []<>AllAt(r, "idle")
=============================================================================

----------------------- MODULE AttentionWorkerProofs -----------------------
(***************************************************************************)
(* The attention worker combines the results of the round it has sent      *)
(* last, all of them, in the order in which it sends, and leaves no flag   *)
(* behind: proved for every number of micro-batches, rows, results, cores  *)
(* and rounds, and for every launch whose hidden dimension has one or two  *)
(* blocks, or that waits for its flags itself.                             *)
(***************************************************************************)
EXTENDS AttentionWorker, WorkSplitProofs

(* Launches whose tiling agrees with itself.                               *)
FewBlocks == \A l \in Launches : l.needSchedule \/ l.blocks <= 2

(* What the kernel needs of the tiling data t: rows and blocks are all     *)
(* given to cores in use, and cores that wait for flags wait for those of  *)
(* the rows they add up, each row on one core.                             *)
Sound(t) ==
  LET cores == 0 .. t.usedCoreNum - 1
  IN /\ t.needSchedule \in BOOLEAN /\ t.usedCoreNum \in 1 .. CoreNum /\ t.H \in Nat \ {0}
     /\ \A r \in Rows : \A b \in 0 .. t.H - 1 :
          \E c \in cores : r \in RowsOfCore(c, t) /\ b \in BlocksOfCore(c, t)
     /\ t.needSchedule =>
          /\ t.HSplitCoreNum = 1
          /\ \A c \in cores : RowsOfCore(c, t) \subseteq Rows /\ FlaggedRows(c, t) = RowsOfCore(c, t)

(***************************************************************************)
(* The inductive invariant.                                                *)
(***************************************************************************)
Places == {"idle", "init", "scan", "rows", "clear", "sync", "name", "done"}

HostPlaces ==
  {"first", "wait", "poll", "polled", "clear", "name", "combine", "combining", "next", "end",
   "stopped"}

TypeInv ==
  /\ flag \in [MicroBatches -> [Slots -> {0, 1}]]
  /\ data \in [MicroBatches -> [Slots -> None .. RoundNum - 1]]
  /\ microBatch \in MicroBatches /\ schedMb \in MicroBatches
  /\ runFlag \in {0, 1} /\ host \in HostPlaces
  /\ sent \in [MicroBatches -> 0 .. RoundNum]
  /\ responded \in [MicroBatches -> 0 .. RoundNum]
  /\ combined \in [MicroBatches -> 0 .. RoundNum]
  /\ pc \in [AllCores -> Places] /\ mbId \in [AllCores -> MicroBatches]
  /\ fMb \in MicroBatches \cup {None} /\ order \in Orders
  /\ fPc \in [Aivs -> {"idle", "data", "flag"}] /\ fIdx \in [Aivs -> Nat]

(* A round is sent, answered, combined.                                    *)
CountInv ==
  \A m \in MicroBatches :
    combined[m] <= responded[m] /\ responded[m] <= sent[m] /\ sent[m] <= combined[m] + 1

(* FFNToAttention has still to write the slot.                             *)
Pending(m, i) ==
  /\ fMb = m
  /\ \E c \in Aivs : \E j \in fIdx[c] .. SendNum(c, SlotNum, AivNum) - 1 :
       order[c + j * AivNum] = i

(* The slot holds its result of the round under way, and nobody is going   *)
(* to touch it before the round is combined.                               *)
Arrived(m, i) ==
  /\ sent[m] = combined[m] + 1 /\ responded[m] = sent[m]
  /\ data[m][i] = sent[m] - 1 /\ ~Pending(m, i)

FlagInv == \A m \in MicroBatches : \A i \in Slots : flag[m][i] = 1 => Arrived(m, i)

SendInv ==
  \A c \in Aivs :
    /\ fPc[c] # "idle" => fMb # None
    /\ fPc[c] = "flag" => Sending(c) /\ data[fMb][order[YOffset(c)]] = responded[fMb] - 1
    /\ fMb # None /\ Sending(c) => responded[fMb] = combined[fMb] + 1

Behind == {"name", "done"} \cup (IF Wide THEN {"clear"} ELSE {})

(* Where the host, the scheduler and the cores can be together.            *)
PlaceInv ==
  /\ \A c \in AllCores : (pc[c] = "idle") <=> ~(host = "combining" /\ c \in Cores)
  /\ \A c \in AllCores : pc[c] \in {"scan", "clear", "sync", "name"} => needSchedule
  /\ \A c \in AllCores : pc[c] = "name" => c = 0
  /\ host \in {"poll", "polled", "clear", "name", "combine"} => ~needSchedule
  /\ host = "polled" => runFlag = 0 \/ AllFlagged(schedMb)
  /\ needSchedule /\ (\E d \in Cores : pc[d] \in Behind) =>
       \A c \in Cores : pc[c] \in Behind \cup {"sync"}

NextMb == (microBatch + 1) % MicroBatchNum

LastMb == IF microBatch = 0 THEN MicroBatchNum - 1 ELSE microBatch - 1

(* micro_batch_id names the micro-batch that is about to be combined.      *)
Moved ==
  \/ host = "combine"
  \/ host = "combining" /\ (needSchedule => pc[0] = "done")

Combined == IF Moved THEN LastMb ELSE microBatch

TurnInv ==
  /\ \A m \in MicroBatches :
       combined[m] = IF m <= Combined THEN combined[Combined] ELSE combined[Combined] - 1
  /\ host = "first" => \A m \in MicroBatches : combined[m] = 0
  /\ host \in {"poll", "polled", "clear", "name"} => schedMb = NextMb
  /\ host \in {"combine", "combining"} /\ ~needSchedule => schedMb = microBatch
  /\ host = "next" => sent[microBatch] = combined[microBatch]
  /\ \A c \in AllCores : pc[c] \notin {"idle", "init"} =>
       mbId[c] = IF needSchedule /\ pc[0] # "done" THEN NextMb ELSE microBatch

(* What was waited for stays until it is combined.                         *)
ReadyInv ==
  /\ ~needSchedule /\ host \in {"clear", "name", "combine", "combining"} =>
       \A i \in Slots : Arrived(schedMb, i)
  /\ needSchedule => \A c \in Cores : pc[c] \notin {"idle", "init", "scan"} =>
       \A i \in OwnSlots(c) : Arrived(mbId[c], i)

Cleared(c) == pc[c] \in {"name", "done"} \/ (pc[c] = "sync" /\ ~Wide)

ClearInv ==
  /\ ~needSchedule /\ host \in {"name", "combine", "combining"} =>
       \A i \in Slots : flag[schedMb][i] = 0
  /\ needSchedule => \A c \in Cores : Cleared(c) => \A i \in OwnSlots(c) : flag[mbId[c]][i] = 0

OutInv ==
  \A c \in Cores : pc[c] \in {"clear", "sync", "name", "done"} =>
    \A cell \in Cells : cell \in RowsOf(c) \X BlocksOf(c) =>
      y[cell] = [mb |-> mbId[c], rounds |-> {sent[mbId[c]] - 1}]

IInv ==
  /\ Sound(tl) /\ TypeInv /\ CountInv /\ FlagInv /\ SendInv
  /\ PlaceInv /\ TurnInv /\ ReadyInv /\ ClearInv /\ OutInv

(***************************************************************************)
(* How work is divided.                                                    *)
(***************************************************************************)
LEMMA DivideByOne ==
  ASSUME NEW n \in Nat \ {0}
  PROVE  n \div 1 = n /\ n % 1 = 0 /\ CeilDiv(n, 1) = n /\ CeilDiv(n, n) = 1
<1>1. n \div 1 = n /\ n % 1 = 0
  OBVIOUS
<1>2. n + n - 1 = n * 1 + (n - 1) /\ n - 1 \in 0 .. n - 1
  OBVIOUS
<1>3. (n + n - 1) \div n = 1
  <2>1. /\ (n + n - 1) \div n \in Nat /\ (n + n - 1) % n \in 0 .. n - 1
        /\ n + n - 1 = n * ((n + n - 1) \div n) + ((n + n - 1) % n)
    <3>1. n + n - 1 \in Nat
      OBVIOUS
    <3>2. QED
      BY <3>1, DivMod
  <2>2. QED
    BY <1>2, <2>1, DivUnique
<1>4. n + 1 - 1 = n
  OBVIOUS
<1>5. QED
  BY <1>1, <1>3, <1>4 DEF CeilDiv

(* An item of a chunk, counted from the first item of the core.            *)
LEMMA RowsCovered ==
  ASSUME NEW n \in Nat \ {0}, NEW cores \in Nat \ {0}, NEW r \in 0 .. n - 1
  PROVE  \E c \in 0 .. NeedCores(n, cores) - 1 :
           r \in c * PerCore(n, cores) .. c * PerCore(n, cores)
                   + (IF c = NeedCores(n, cores) - 1 THEN LastCore(n, cores)
                                                     ELSE PerCore(n, cores)) - 1
<1>1. PICK c \in 0 .. cores - 1 : r \in CeilChunk(c, n, cores)
  BY CeilChunksCover
<1>2. c < NeedCores(n, cores)
  BY <1>1 DEF CeilChunk
<1>3. NeedCores(n, cores) \in 1 .. cores
  BY LastCoreWorks
<1>4. c \in 0 .. NeedCores(n, cores) - 1
  BY <1>2, <1>3
<1>5. QED
  BY <1>1, <1>4 DEF CeilChunk

LEMMA RowsWithin ==
  ASSUME NEW n \in Nat \ {0}, NEW cores \in Nat \ {0}, NEW c \in 0 .. NeedCores(n, cores) - 1,
         NEW r \in c * PerCore(n, cores) .. c * PerCore(n, cores)
                   + (IF c = NeedCores(n, cores) - 1 THEN LastCore(n, cores)
                                                     ELSE PerCore(n, cores)) - 1
  PROVE  r \in 0 .. n - 1
<1> DEFINE p == PerCore(n, cores)
           k == NeedCores(n, cores)
           l == LastCore(n, cores)
<1>1. p \in Nat \ {0} /\ k \in 1 .. cores /\ l \in 1 .. p
  BY LastCoreWorks
<1>2. l = n - p * (k - 1)
  BY DEF LastCore
<1>3. r >= 0 /\ r \in Int
  <2>1. c * p >= 0 /\ c * p \in Int
    BY <1>1
  <2>2. QED
    BY <1>1, <2>1
<1>4. CASE c = k - 1
  <2>1. c * p = p * (k - 1)
    BY <1>1, <1>4
  <2>2. r <= c * p + l - 1
    BY <1>4
  <2>3. QED
    BY <1>1, <1>2, <1>3, <2>1, <2>2
<1>5. CASE c # k - 1
  <2>1. r <= c * p + p - 1
    BY <1>5
  <2>2. c + 1 <= k - 1 /\ c + 1 \in Int /\ k - 1 \in Int
    BY <1>1, <1>5
  <2>3. (c + 1) * p <= (k - 1) * p
    BY <1>1, <2>2, TimesMonotone
  <2>4. (c + 1) * p = c * p + p /\ (k - 1) * p = p * (k - 1) /\ p * (k - 1) \in Int /\ c * p \in Int
    BY <1>1
  <2>5. QED
    BY <1>1, <1>2, <1>3, <2>1, <2>3, <2>4
<1>6. QED
  BY <1>4, <1>5

LEMMA WholeRows ==
  ASSUME NEW l \in Launches, ~(SplitsHidden(RowNum, l) /\ Tried(RowNum, l) # {})
  PROVE  Sound(Tiling(RowNum, l))
<1> DEFINE t == Tiling(RowNum, l)
           n == RowNum
           need == NeedCores(n, l.cores)
<1>1. /\ n \in Nat \ {0} /\ l.cores \in 1 .. CoreNum /\ l.blocks \in Nat \ {0}
      /\ l.needSchedule \in BOOLEAN /\ CoreNum \in Nat
  BY WorkerAssumption
<1>2. /\ l.cores \div 1 = l.cores /\ CeilDiv(l.blocks, 1) = l.blocks
      /\ CeilDiv(l.blocks, l.blocks) = 1 /\ l.cores \in Nat \ {0}
  <2>1. l.cores \in Nat \ {0}
    BY <1>1
  <2>2. QED
    BY <1>1, <2>1, DivideByOne
<1>3. need \in 1 .. l.cores
  BY <1>1, <1>2, LastCoreWorks
<1>4. 1 * need = need /\ l.blocks - (1 - 1) * l.blocks = l.blocks
  BY <1>1, <1>3
<1>5. /\ t.needSchedule = l.needSchedule /\ t.H = l.blocks
      /\ t.usedCoreNum = need /\ t.BsSplitCoreNum = need
      /\ t.mainCoreBsLoopNum = PerCore(n, l.cores) /\ t.tailCoreBsLoopNum = LastCore(n, l.cores)
      /\ t.HSplitCoreNum = 1
      /\ t.mainCoreHLoopNum = l.blocks /\ t.tailCoreHLoopNum = l.blocks
  BY <1>2, <1>4 DEF Tiling, CoresOf
<1> HIDE DEF t, n, need
<1>6. ASSUME NEW c \in 0 .. need - 1
      PROVE  /\ RowsOfCore(c, t) = FlaggedRows(c, t)
             /\ RowsOfCore(c, t) = c * PerCore(n, l.cores) .. c * PerCore(n, l.cores)
                  + (IF c = need - 1 THEN LastCore(n, l.cores) ELSE PerCore(n, l.cores)) - 1
             /\ BlocksOfCore(c, t) = 0 .. l.blocks - 1
  <2>1. c \div 1 = c /\ c % 1 = 0 /\ 0 * l.blocks = 0 /\ 0 + l.blocks - 1 = l.blocks - 1
    BY <1>1, <1>3
  <2>2. BlocksOfCore(c, t) = 0 .. l.blocks - 1
    BY <1>5, <2>1 DEF BlocksOfCore
  <2>3. BsLoopNum(c, t) = IF c = need - 1 THEN LastCore(n, l.cores) ELSE PerCore(n, l.cores)
    BY <1>5, <2>1 DEF BsLoopNum
  <2>4. QED
    BY <1>5, <2>1, <2>2, <2>3 DEF RowsOfCore, FlaggedRows
<1>7. \A r \in Rows : \E c \in 0 .. need - 1 : r \in RowsOfCore(c, t)
  <2> TAKE r \in Rows
  <2>1. r \in 0 .. n - 1
    BY DEF Rows, n
  <2>2. PICK c \in 0 .. need - 1 :
          r \in c * PerCore(n, l.cores) .. c * PerCore(n, l.cores)
                  + (IF c = need - 1 THEN LastCore(n, l.cores) ELSE PerCore(n, l.cores)) - 1
    BY <1>1, <1>2, <2>1, RowsCovered DEF need
  <2>3. QED
    BY <1>6, <2>2
<1>8. \A c \in 0 .. need - 1 : RowsOfCore(c, t) \subseteq Rows
  <2> SUFFICES ASSUME NEW c \in 0 .. need - 1, NEW r \in RowsOfCore(c, t)
               PROVE  r \in Rows
    OBVIOUS
  <2>1. r \in 0 .. n - 1
    BY <1>1, <1>2, <1>6, RowsWithin DEF need
  <2>2. QED
    BY <2>1 DEF Rows, n
<1>9. t.usedCoreNum \in 1 .. CoreNum
  BY <1>1, <1>3, <1>5
<1>10. QED
  <2>1. \A r \in Rows : \A b \in 0 .. t.H - 1 :
          \E c \in 0 .. t.usedCoreNum - 1 : r \in RowsOfCore(c, t) /\ b \in BlocksOfCore(c, t)
    BY <1>5, <1>6, <1>7
  <2>2. \A c \in 0 .. t.usedCoreNum - 1 :
          RowsOfCore(c, t) \subseteq Rows /\ FlaggedRows(c, t) = RowsOfCore(c, t)
    BY <1>5, <1>6, <1>8
  <2>3. Sound(t)
    BY <1>1, <1>5, <1>9, <2>1, <2>2 DEF Sound
  <2>4. QED
    BY <2>3 DEF t, n

LEMMA TwoBlocks ==
  ASSUME FewBlocks, NEW l \in Launches, SplitsHidden(RowNum, l), Tried(RowNum, l) # {}
  PROVE  Sound(Tiling(RowNum, l))
<1> DEFINE t == Tiling(RowNum, l)
           n == RowNum
           half == l.cores \div 2
           need == NeedCores(n, half)
<1>1. /\ n \in Nat \ {0} /\ l.cores \in 1 .. CoreNum /\ l.blocks \in Nat \ {0}
      /\ CoreNum \in Nat
  BY WorkerAssumption
<1>2. l.blocks = 2 /\ ~l.needSchedule
  BY <1>1 DEF FewBlocks, SplitsHidden
<1>3. Tried(n, l) = {2} /\ 2 <= MaxCore(l)
  BY <1>2 DEF Tried
<1>4. Max({2}) = 2 /\ Min({2}) = 2
  BY DEF Max, Min
<1>5. BestTried(n, l) = 2
  <2>1. {x \in {2} : \A z \in {2} : CoresOf(z, n, l) <= CoresOf(x, n, l)} = {2}
    <3>1. CoresOf(2, n, l) <= CoresOf(2, n, l)
      <4>1. half \in Nat \ {0}
        BY <1>1, <1>3 DEF MaxCore
      <4>2. need \in Nat
        BY <1>1, <4>1, LastCoreWorks
      <4>3. QED
        BY <4>2 DEF CoresOf
    <3>2. QED
      BY <3>1
  <2>2. QED
    BY <1>3, <1>4, <2>1 DEF BestTried
<1>6. half \in Nat \ {0} /\ 2 * half <= l.cores
  BY <1>1, <1>3 DEF MaxCore
<1>7. need \in 1 .. half
  BY <1>1, <1>6, LastCoreWorks
<1>8. CeilDiv(2, 2) = 1 /\ CeilDiv(2, 1) = 2 /\ 2 - (2 - 1) * 1 = 1
  BY DEF CeilDiv
<1>9. /\ t.needSchedule = FALSE /\ t.H = 2
      /\ t.usedCoreNum = 2 * need /\ t.BsSplitCoreNum = need
      /\ t.mainCoreBsLoopNum = PerCore(n, half) /\ t.tailCoreBsLoopNum = LastCore(n, half)
      /\ t.HSplitCoreNum = 2 /\ t.mainCoreHLoopNum = 1 /\ t.tailCoreHLoopNum = 1
  <2>1. l.needSchedule = FALSE
    BY <1>2, WorkerAssumption
  <2>2. QED
    BY <1>2, <1>3, <1>4, <1>5, <1>8, <2>1 DEF Tiling, CoresOf
<1> HIDE DEF t, n, half, need
<1>10. ASSUME NEW r \in Rows, NEW b \in 0 .. 1
       PROVE  \E c \in 0 .. 2 * need - 1 : r \in RowsOfCore(c, t) /\ b \in BlocksOfCore(c, t)
  <2>1. r \in 0 .. n - 1
    BY DEF Rows, n
  <2>2. PICK g \in 0 .. need - 1 :
          r \in g * PerCore(n, half) .. g * PerCore(n, half)
                  + (IF g = need - 1 THEN LastCore(n, half) ELSE PerCore(n, half)) - 1
    BY <1>1, <1>6, <2>1, RowsCovered DEF need
  <2> DEFINE c == 2 * g + b
  <2>3. c \div 2 = g /\ c % 2 = b /\ c \in 0 .. 2 * need - 1
    BY <1>7, <1>6
  <2> HIDE DEF c
  <2>4. r \in RowsOfCore(c, t)
    BY <1>9, <2>2, <2>3 DEF RowsOfCore, BsLoopNum
  <2>5. b \in BlocksOfCore(c, t)
    <3>1. b * 1 = b /\ b \in b .. b + 1 - 1
      OBVIOUS
    <3>2. BlocksOfCore(c, t) = b * 1 .. b * 1 + 1 - 1
      BY <1>9, <2>3 DEF BlocksOfCore
    <3>3. QED
      BY <3>1, <3>2
  <2>6. QED
    BY <2>3, <2>4, <2>5
<1>11. t.usedCoreNum \in 1 .. CoreNum
  BY <1>1, <1>6, <1>7, <1>9
<1>12. Sound(t)
  <2>1. t.H \in Nat \ {0} /\ t.H - 1 = 1
    BY <1>9
  <2>2. t.needSchedule \in BOOLEAN /\ ~t.needSchedule
    BY <1>9, Zenon
  <2>3. \A r \in Rows : \A b \in 0 .. t.H - 1 :
          \E c \in 0 .. t.usedCoreNum - 1 : r \in RowsOfCore(c, t) /\ b \in BlocksOfCore(c, t)
    BY <1>9, <1>10, <2>1
  <2>4. QED
    BY <1>11, <2>1, <2>2, <2>3 DEF Sound
<1>13. QED
  BY <1>12 DEF t, n

LEMMA TilingSound ==
  ASSUME FewBlocks, NEW l \in Launches
  PROVE  Sound(Tiling(RowNum, l))
BY WholeRows, TwoBlocks

(***************************************************************************)
(* Facts the steps rest on.                                                *)
(***************************************************************************)
LEMMA SlotFacts ==
  /\ SlotNum \in Nat \ {0}
  /\ \A r \in Rows : SlotsOf(r) \subseteq Slots /\ SlotsOf(r) # {}
  /\ \A i \in Slots : \E r \in Rows : i \in SlotsOf(r)
<1>1. RowNum \in Nat \ {0} /\ RowSlots \in Nat \ {0}
  BY WorkerAssumption
<1>2. SlotNum \in Nat \ {0}
  BY <1>1 DEF SlotNum
<1>3. ASSUME NEW r \in Rows
      PROVE  SlotsOf(r) \subseteq Slots /\ SlotsOf(r) # {}
  <2>1. r \in 0 .. RowNum - 1 /\ r * RowSlots \in Nat
    BY <1>1 DEF Rows
  <2>2. (r + 1) * RowSlots <= RowNum * RowSlots
    <3>1. r + 1 \in Int /\ RowNum \in Int /\ r + 1 <= RowNum /\ RowSlots \in Nat
      BY <1>1, <2>1
    <3>2. QED
      BY <3>1, TimesMonotone
  <2>3. (r + 1) * RowSlots = r * RowSlots + RowSlots
    BY <1>1, <2>1
  <2>4. r * RowSlots \in SlotsOf(r)
    BY <1>1, <2>1 DEF SlotsOf
  <2>5. QED
    BY <1>1, <1>2, <2>1, <2>2, <2>3, <2>4 DEF SlotsOf, Slots, SlotNum
<1>4. ASSUME NEW i \in Slots
      PROVE  \E r \in Rows : i \in SlotsOf(r)
  <2> DEFINE r == i \div RowSlots
  <2>1. i \in Nat /\ i < RowNum * RowSlots
    BY <1>1 DEF Slots, SlotNum
  <2>2. r \in Nat /\ i % RowSlots \in 0 .. RowSlots - 1 /\ i = RowSlots * r + (i % RowSlots)
    BY <1>1, <2>1, DivMod
  <2> HIDE DEF r
  <2>3. r < RowNum
    <3> SUFFICES ASSUME RowNum <= r
                 PROVE  FALSE
      BY <1>1, <2>2
    <3>1. RowNum * RowSlots <= r * RowSlots
      <4>1. RowNum \in Int /\ r \in Int /\ RowSlots \in Nat
        BY <1>1, <2>2
      <4>2. QED
        BY <4>1, TimesMonotone
    <3>2. r * RowSlots = RowSlots * r /\ RowSlots * r \in Int /\ RowNum * RowSlots \in Int
      BY <1>1, <2>2
    <3>3. QED
      BY <2>1, <2>2, <3>1, <3>2
  <2>4. r * RowSlots = RowSlots * r /\ RowSlots * r \in Int
    BY <1>1, <2>2
  <2>5. i \in SlotsOf(r)
    BY <1>1, <2>2, <2>4 DEF SlotsOf
  <2>6. r \in Rows
    BY <1>1, <2>2, <2>3 DEF Rows
  <2>7. QED
    BY <2>5, <2>6
<1>5. QED
  BY <1>2, <1>3, <1>4

(* Each place of Y is sent by one core, at one turn of its loop.           *)
LEMMA TurnFacts ==
  ASSUME NEW c \in Aivs, NEW d \in Aivs,
         NEW j \in 0 .. SendNum(c, SlotNum, AivNum) - 1,
         NEW k \in 0 .. SendNum(d, SlotNum, AivNum) - 1
  PROVE  /\ c + j * AivNum \in Slots
         /\ c + j * AivNum = d + k * AivNum => c = d /\ j = k
<1>1. AivNum \in Nat \ {0} /\ SlotNum \in Nat
  BY WorkerAssumption, SlotFacts
<1>2. c \in 0 .. AivNum - 1 /\ d \in 0 .. AivNum - 1 /\ j \in Int /\ k \in Int
  <2>1. SendNum(c, SlotNum, AivNum) \in Nat /\ SendNum(d, SlotNum, AivNum) \in Nat
    BY <1>1, SendNumType DEF Aivs
  <2>2. QED
    BY <2>1 DEF Aivs
<1>3. c + j * AivNum \in Strided(c, SlotNum, AivNum)
  BY DEF Strided
<1>4. c + j * AivNum \in 0 .. SlotNum - 1
  BY <1>1, <1>2, <1>3, StridedWithin
<1>5. ASSUME c + j * AivNum = d + k * AivNum
      PROVE  c = d /\ j = k
  <2>1. AivNum * j + c = AivNum * k + d
    BY <1>1, <1>2, <1>5
  <2>2. QED
    BY <1>1, <1>2, <2>1, DivUnique
<1>6. QED
  BY <1>4, <1>5 DEF Slots

LEMMA OrderFacts ==
  ASSUME NEW o \in Orders
  PROVE  /\ \A i \in Slots : o[i] \in Slots
         /\ \A i, j \in Slots : o[i] = o[j] => i = j
BY OrderAssumption

(* The cores in use, their rows and their slots.                           *)
LEMMA CoreFacts ==
  ASSUME Sound(tl)
  PROVE  /\ 0 \in Cores /\ Cores \subseteq AllCores /\ needSchedule \in BOOLEAN
         /\ \A cell \in Cells : \E c \in Cores : cell \in RowsOf(c) \X BlocksOf(c)
         /\ \A r \in Rows : <<r, 0>> \in Cells
         /\ needSchedule => \A c \in Cores :
              /\ c % tl.HSplitCoreNum = 0
              /\ OwnSlots(c) \subseteq Slots
              /\ \A r \in Rows : r \in RowsOf(c) => SlotsOf(r) \subseteq OwnSlots(c)
         /\ needSchedule => \A i \in Slots : \E c \in Cores : i \in OwnSlots(c)
<1>1. 0 \in Cores /\ Cores \subseteq AllCores /\ needSchedule \in BOOLEAN
  BY WorkerAssumption DEF Sound, Cores, AllCores, needSchedule
<1>2. \A cell \in Cells : \E c \in Cores : cell \in RowsOf(c) \X BlocksOf(c)
  <2> TAKE cell \in Cells
  <2>1. PICK r \in Rows, b \in 0 .. tl.H - 1 : cell = <<r, b>>
    BY DEF Cells
  <2>2. PICK c \in Cores : r \in RowsOfCore(c, tl) /\ b \in BlocksOfCore(c, tl)
    BY DEF Sound, Cores
  <2>3. QED
    BY <2>1, <2>2 DEF RowsOf, BlocksOf
<1>3. \A r \in Rows : <<r, 0>> \in Cells
  <2>1. 0 \in 0 .. tl.H - 1
    BY DEF Sound
  <2>2. QED
    BY <2>1 DEF Cells
<1>4. ASSUME needSchedule, NEW c \in Cores
      PROVE  /\ c % tl.HSplitCoreNum = 0 /\ OwnSlots(c) \subseteq Slots
             /\ \A r \in Rows : r \in RowsOf(c) => SlotsOf(r) \subseteq OwnSlots(c)
  <2>1. /\ tl.HSplitCoreNum = 1 /\ RowsOfCore(c, tl) \subseteq Rows
        /\ FlaggedRows(c, tl) = RowsOfCore(c, tl)
    BY <1>4 DEF Sound, Cores, needSchedule
  <2>2. c % 1 = 0
    BY DEF Cores
  <2>3. OwnSlots(c) \subseteq Slots
    BY <2>1, SlotFacts DEF OwnSlots
  <2>4. QED
    BY <2>1, <2>2, <2>3 DEF OwnSlots, RowsOf
<1>5. ASSUME needSchedule, NEW i \in Slots
      PROVE  \E c \in Cores : i \in OwnSlots(c)
  <2>1. PICK r \in Rows : i \in SlotsOf(r)
    BY SlotFacts
  <2>2. PICK c \in Cores : <<r, 0>> \in RowsOf(c) \X BlocksOf(c)
    BY <1>2, <1>3
  <2>3. QED
    BY <1>4, <1>5, <2>1, <2>2
<1>6. QED
  BY <1>1, <1>2, <1>3, <1>4, <1>5

(* Of the micro-batches, counted round.                                    *)
LEMMA RoundFacts ==
  ASSUME microBatch \in MicroBatches
  PROVE  /\ NextMb \in MicroBatches
         /\ NextMb = IF microBatch = MicroBatchNum - 1 THEN 0 ELSE microBatch + 1
         /\ LastMb \in MicroBatches
<1>1. MicroBatchNum \in Nat \ {0} /\ microBatch \in 0 .. MicroBatchNum - 1
  BY WorkerAssumption DEF MicroBatches
<1>2. NextMb = IF microBatch = MicroBatchNum - 1 THEN 0 ELSE microBatch + 1
  BY <1>1 DEF NextMb
<1>3. QED
  BY <1>1, <1>2 DEF MicroBatches, LastMb

(***************************************************************************)
(* What a step leaves alone.                                               *)
(***************************************************************************)
LEMMA TilingStays ==
  ASSUME tl' = tl
  PROVE  /\ needSchedule' = needSchedule /\ Wide' = Wide /\ Behind' = Behind
         /\ Cores' = Cores /\ Cells' = Cells
         /\ \A c : /\ RowsOf(c)' = RowsOf(c) /\ BlocksOf(c)' = BlocksOf(c)
                   /\ OwnSlots(c)' = OwnSlots(c)
         /\ Sound(tl)' <=> Sound(tl)
BY DEF needSchedule, Wide, Behind, Cores, Cells, RowsOf, BlocksOf, OwnSlots

LEMMA ArrivedStays ==
  ASSUME UNCHANGED <<data, count, ffn>>
  PROVE  \A m, i : Arrived(m, i)' <=> Arrived(m, i)
BY DEF Arrived, Pending, ffn, count

LEMMA WindowStays ==
  ASSUME CountInv, FlagInv, SendInv, UNCHANGED <<window, count, ffn>>
  PROVE  CountInv' /\ FlagInv' /\ SendInv'
<1>1. \A m, i : Arrived(m, i)' <=> Arrived(m, i)
  BY ArrivedStays DEF window
<1>2. CountInv'
  BY DEF CountInv, count, ffn
<1>3. FlagInv'
  BY <1>1 DEF FlagInv, window
<1>4. SendInv'
  BY DEF SendInv, Sending, YOffset, window, count, ffn
<1>5. QED
  BY <1>2, <1>3, <1>4

(* Between two combines the cores are idle.                                *)
LEMMA CoresIdle ==
  ASSUME Sound(tl), tl' = tl, PlaceInv', host' # "combining"
  PROVE  /\ \A c \in AllCores : pc'[c] = "idle"
         /\ OutInv'
<1>1. \A c \in AllCores : pc'[c] = "idle"
  BY DEF PlaceInv
<1>2. Cores' = Cores /\ Cores \subseteq AllCores
  BY TilingStays, CoreFacts
<1>3. OutInv'
  BY <1>1, <1>2 DEF OutInv
<1>4. QED
  BY <1>1, <1>3

(* A step of the host or the scheduler that leaves window, counters and    *)
(* senders alone, outside of a combine.                                    *)
LEMMA HostKeeps ==
  ASSUME IInv, UNCHANGED <<tl, data, count, ffn, pc, mbId, y>>,
         host # "combining", host' # "combining", PlaceInv', TypeInv',
         \A i \in Slots : ~needSchedule /\ host' \in {"clear", "name", "combine"} =>
           Arrived(schedMb', i) /\ (host' # "clear" => flag'[schedMb'][i] = 0)
  PROVE  ReadyInv' /\ ClearInv' /\ OutInv'
<1>1. /\ \A c \in AllCores : pc'[c] = "idle"
      /\ OutInv'
  BY CoresIdle DEF IInv
<1>2. Cores' = Cores /\ Cores \subseteq AllCores /\ needSchedule' = needSchedule
  BY TilingStays, CoreFacts DEF IInv
<1>3. \A m, i : Arrived(m, i)' <=> Arrived(m, i)
  BY ArrivedStays
<1>4. ReadyInv'
  BY <1>1, <1>2, <1>3 DEF ReadyInv
<1>5. ClearInv'
  BY <1>1, <1>2 DEF ClearInv, Cleared
<1>6. QED
  BY <1>1, <1>4, <1>5

(***************************************************************************)
(* The host and the scheduler.                                             *)
(***************************************************************************)
LEMMA ScheduleInv ==
  ASSUME IInv, Schedule
  PROVE  IInv'
<1>1. UNCHANGED <<tl, window, microBatch, runFlag, comb, ffn, count>>
  BY DEF Schedule
<1>2. /\ host = "wait" /\ host' = "poll" /\ ~needSchedule
      /\ schedMb' = NextMb /\ NextMb' = NextMb
  BY <1>1 DEF Schedule, NextMb
<1>3. Sound(tl)' /\ needSchedule' = needSchedule /\ Cores' = Cores /\ Behind' = Behind
  BY <1>1, TilingStays DEF IInv
<1>4. TypeInv'
  BY <1>1, <1>2, RoundFacts DEF IInv, TypeInv, HostPlaces, window, comb, ffn, count
<1>5. CountInv' /\ FlagInv' /\ SendInv'
  BY <1>1, WindowStays DEF IInv
<1>6. PlaceInv'
  BY <1>1, <1>2, <1>3 DEF IInv, PlaceInv, comb
<1>7. TurnInv'
  BY <1>1, <1>2, <1>3 DEF IInv, TurnInv, PlaceInv, Combined, Moved, comb, count
<1>8. ReadyInv' /\ ClearInv' /\ OutInv'
  BY <1>1, <1>2, <1>4, <1>6, HostKeeps DEF window, comb
<1>9. QED
  BY <1>3, <1>4, <1>5, <1>6, <1>7, <1>8 DEF IInv

LEMMA WaitForFfnInv ==
  ASSUME IInv, WaitForFfn
  PROVE  IInv'
<1>1. UNCHANGED <<tl, window, microBatch, runFlag, schedMb, comb, ffn, count>>
  BY DEF WaitForFfn
<1>2. /\ host = "poll" /\ host' = "polled"
      /\ runFlag = 0 \/ AllFlagged(schedMb)
  BY DEF WaitForFfn
<1>3. /\ Sound(tl)' /\ needSchedule' = needSchedule /\ Cores' = Cores /\ Behind' = Behind
      /\ NextMb' = NextMb
  BY <1>1, TilingStays DEF IInv, NextMb
<1>4. TypeInv'
  BY <1>1, <1>2 DEF IInv, TypeInv, HostPlaces, window, comb, ffn, count
<1>5. CountInv' /\ FlagInv' /\ SendInv'
  BY <1>1, WindowStays DEF IInv
<1>6. PlaceInv'
  BY <1>1, <1>2, <1>3 DEF IInv, PlaceInv, AllFlagged, comb, window
<1>7. TurnInv'
  BY <1>1, <1>2, <1>3 DEF IInv, TurnInv, PlaceInv, Combined, Moved, comb, count
<1>8. ReadyInv' /\ ClearInv' /\ OutInv'
  BY <1>1, <1>2, <1>4, <1>6, HostKeeps DEF window, comb
<1>9. QED
  BY <1>3, <1>4, <1>5, <1>6, <1>7, <1>8 DEF IInv

LEMMA TestRunFlagInv ==
  ASSUME IInv, TestRunFlag
  PROVE  IInv'
<1>1. UNCHANGED <<tl, window, microBatch, runFlag, schedMb, comb, ffn, count>>
  BY DEF TestRunFlag
<1>2. host = "polled" /\ host' = IF runFlag = 0 THEN "stopped" ELSE "clear"
  BY DEF TestRunFlag
<1>3. /\ Sound(tl)' /\ needSchedule' = needSchedule /\ Cores' = Cores /\ Behind' = Behind
      /\ NextMb' = NextMb
  BY <1>1, TilingStays DEF IInv, NextMb
<1>4. TypeInv'
  BY <1>1, <1>2 DEF IInv, TypeInv, HostPlaces, window, comb, ffn, count
<1>5. CountInv' /\ FlagInv' /\ SendInv'
  BY <1>1, WindowStays DEF IInv
<1>6. PlaceInv'
  BY <1>1, <1>2, <1>3 DEF IInv, PlaceInv, comb, window
<1>7. TurnInv'
  BY <1>1, <1>2, <1>3 DEF IInv, TurnInv, PlaceInv, Combined, Moved, comb, count
<1>8. \A i \in Slots : host' = "clear" => Arrived(schedMb', i)
  BY <1>1, <1>2 DEF IInv, PlaceInv, AllFlagged, FlagInv, TypeInv
<1>9. ReadyInv' /\ ClearInv' /\ OutInv'
  BY <1>1, <1>2, <1>4, <1>6, <1>8, HostKeeps DEF window, comb
<1>10. QED
  BY <1>3, <1>4, <1>5, <1>6, <1>7, <1>9 DEF IInv

LEMMA ClearFlagsInv ==
  ASSUME IInv, ClearFlags
  PROVE  IInv'
<1>1. UNCHANGED <<tl, data, microBatch, runFlag, schedMb, comb, ffn, count>>
  BY DEF ClearFlags
<1>2. /\ host = "clear" /\ host' = "name"
      /\ flag' = [flag EXCEPT ![schedMb] = [i \in Slots |-> 0]]
  BY DEF ClearFlags
<1>3. /\ Sound(tl)' /\ needSchedule' = needSchedule /\ Cores' = Cores /\ Behind' = Behind
      /\ NextMb' = NextMb
  BY <1>1, TilingStays DEF IInv, NextMb
<1>4. \A m, i : Arrived(m, i)' <=> Arrived(m, i)
  BY <1>1, ArrivedStays
<1>5. TypeInv'
  BY <1>1, <1>2 DEF IInv, TypeInv, HostPlaces, comb, ffn, count
<1>6. CountInv' /\ SendInv'
  BY <1>1 DEF IInv, CountInv, SendInv, Sending, YOffset, count, ffn
<1>7. FlagInv'
  BY <1>2, <1>4 DEF IInv, TypeInv, FlagInv
<1>8. PlaceInv'
  BY <1>1, <1>2, <1>3 DEF IInv, PlaceInv, comb
<1>9. TurnInv'
  BY <1>1, <1>2, <1>3 DEF IInv, TurnInv, PlaceInv, Combined, Moved, comb, count
<1>10. \A i \in Slots : ~needSchedule => Arrived(schedMb', i) /\ flag'[schedMb'][i] = 0
  BY <1>1, <1>2 DEF IInv, ReadyInv, TypeInv
<1>11. ReadyInv' /\ ClearInv' /\ OutInv'
  BY <1>1, <1>2, <1>5, <1>8, <1>10, HostKeeps DEF comb
<1>12. QED
  BY <1>3, <1>5, <1>6, <1>7, <1>8, <1>9, <1>11 DEF IInv

LEMMA NameReadyInv ==
  ASSUME IInv, NameReady
  PROVE  IInv'
<1>1. UNCHANGED <<tl, window, runFlag, schedMb, comb, ffn, count>>
  BY DEF NameReady
<1>2. host = "name" /\ host' = "combine" /\ microBatch' = schedMb /\ schedMb = NextMb /\ ~needSchedule
  BY DEF NameReady, IInv, TurnInv, PlaceInv
<1>3. Sound(tl)' /\ needSchedule' = needSchedule /\ Cores' = Cores /\ Behind' = Behind
  BY <1>1, TilingStays DEF IInv
<1>4. TypeInv'
  BY <1>1, <1>2 DEF IInv, TypeInv, HostPlaces, window, comb, ffn, count
<1>5. CountInv' /\ FlagInv' /\ SendInv'
  BY <1>1, WindowStays DEF IInv
<1>6. PlaceInv'
  BY <1>1, <1>2, <1>3 DEF IInv, PlaceInv, comb, window
<1>7. TurnInv'
  <2>1. Combined = microBatch /\ Combined' = LastMb'
    BY <1>2 DEF Combined, Moved
  <2>2. LastMb' = microBatch
    BY <1>2, RoundFacts, WorkerAssumption DEF IInv, TypeInv, LastMb, MicroBatches
  <2>3. \A c \in AllCores : pc'[c] = "idle"
    BY <1>2, <1>6 DEF PlaceInv
  <2>4. QED
    BY <1>1, <1>2, <1>3, <2>1, <2>2, <2>3 DEF IInv, TurnInv, count
<1>8. \A i \in Slots : ~needSchedule => Arrived(schedMb', i) /\ flag'[schedMb'][i] = 0
  BY <1>1, <1>2 DEF IInv, ReadyInv, ClearInv, window
<1>9. ReadyInv' /\ ClearInv' /\ OutInv'
  BY <1>1, <1>2, <1>4, <1>6, <1>8, HostKeeps DEF window, comb
<1>10. QED
  BY <1>3, <1>4, <1>5, <1>6, <1>7, <1>9 DEF IInv

LEMMA SendFirstInv ==
  ASSUME IInv, SendFirst
  PROVE  IInv'
<1>1. UNCHANGED <<tl, window, microBatch, runFlag, schedMb, comb, ffn, combined>>
  BY DEF SendFirst
<1>2. PICK n \in MicroBatches :
        /\ host = "first" /\ host' \in {"first", "wait"}
        /\ sent[n] = 0 /\ sent' = [sent EXCEPT ![n] = 1]
  <2>1. PICK n \in MicroBatches :
          /\ \A k \in MicroBatches : sent[k] = IF k < n THEN 1 ELSE 0
          /\ sent' = [sent EXCEPT ![n] = 1]
          /\ host' = IF n = MicroBatchNum - 1 THEN "wait" ELSE "first"
    BY DEF SendFirst
  <2>2. sent[n] = 0
    BY <2>1, WorkerAssumption DEF MicroBatches
  <2>3. QED
    BY <2>1, <2>2 DEF SendFirst
<1>3. /\ Sound(tl)' /\ needSchedule' = needSchedule /\ Cores' = Cores /\ Behind' = Behind
      /\ NextMb' = NextMb
  BY <1>1, TilingStays DEF IInv, NextMb
<1>4. combined[n] = 0
  BY <1>2 DEF IInv, TurnInv
<1>5. TypeInv'
  BY <1>1, <1>2, WorkerAssumption DEF IInv, TypeInv, HostPlaces, window, comb, ffn
<1>6. CountInv'
  BY <1>1, <1>2, <1>4 DEF IInv, TypeInv, CountInv, ffn
<1>7. FlagInv'
  BY <1>1, <1>2, <1>4 DEF IInv, TypeInv, FlagInv, Arrived, Pending, window, ffn
<1>8. SendInv'
  BY <1>1 DEF IInv, SendInv, Sending, YOffset, window, ffn
<1>9. PlaceInv'
  BY <1>1, <1>2, <1>3 DEF IInv, PlaceInv, comb
<1>10. TurnInv'
  BY <1>1, <1>2, <1>3, <1>9 DEF IInv, TurnInv, PlaceInv, Combined, Moved, comb
<1>11. /\ \A c \in AllCores : pc'[c] = "idle"
       /\ OutInv'
  BY <1>1, <1>2, <1>9, CoresIdle DEF IInv
<1>12. ReadyInv' /\ ClearInv'
  BY <1>2, <1>3, <1>11, CoreFacts DEF IInv, ReadyInv, ClearInv, Cleared
<1>13. QED
  BY <1>3, <1>5, <1>6, <1>7, <1>8, <1>9, <1>10, <1>11, <1>12 DEF IInv

LEMMA SendNextInv ==
  ASSUME IInv, SendNext
  PROVE  IInv'
<1>1. UNCHANGED <<tl, window, microBatch, runFlag, schedMb, comb, ffn, combined>>
  BY DEF SendNext
<1>2. host = "next" /\ host' \in {"end", "wait"} /\ sent[microBatch] = combined[microBatch]
  BY DEF SendNext, IInv, TurnInv
<1>3. \/ sent' = sent
      \/ sent[microBatch] < RoundNum /\ sent' = [sent EXCEPT ![microBatch] = @ + 1]
  BY DEF SendNext
<1>4. /\ Sound(tl)' /\ needSchedule' = needSchedule /\ Cores' = Cores /\ Behind' = Behind
      /\ NextMb' = NextMb
  BY <1>1, TilingStays DEF IInv, NextMb
<1>5. TypeInv'
  BY <1>1, <1>2, <1>3, WorkerAssumption DEF IInv, TypeInv, HostPlaces, window, comb, ffn
<1>6. CountInv'
  <2> SUFFICES ASSUME NEW m \in MicroBatches
               PROVE  (combined[m] <= responded[m] /\ responded[m] <= sent[m] /\ sent[m] <= combined[m] + 1)'
    BY DEF CountInv
  <2>1. /\ combined[m] \in Nat /\ responded[m] \in Nat /\ sent[m] \in Nat
        /\ combined[m] <= responded[m] /\ responded[m] <= sent[m] /\ sent[m] <= combined[m] + 1
    BY DEF IInv, TypeInv, CountInv
  <2>2. combined'[m] = combined[m] /\ responded'[m] = responded[m]
    BY <1>1 DEF ffn
  <2>3. sent'[m] = sent[m] \/ (m = microBatch /\ sent'[m] = sent[m] + 1)
    BY <1>3 DEF IInv, TypeInv
  <2>4. QED
    BY <1>2, <2>1, <2>2, <2>3
<1>7. FlagInv'
  <2> SUFFICES ASSUME NEW m \in MicroBatches, NEW i \in Slots, flag'[m][i] = 1
               PROVE  Arrived(m, i)'
    BY DEF FlagInv
  <2>1. Arrived(m, i)
    BY <1>1 DEF IInv, FlagInv, window
  <2>2. m # microBatch
    <3>1. combined[m] \in Nat
      BY DEF IInv, TypeInv
    <3>2. QED
      BY <1>2, <2>1, <3>1 DEF Arrived
  <2>3. sent'[m] = sent[m]
    BY <1>3, <2>2 DEF IInv, TypeInv
  <2>4. QED
    BY <1>1, <2>1, <2>3 DEF Arrived, Pending, window, ffn
<1>8. SendInv'
  BY <1>1 DEF IInv, SendInv, Sending, YOffset, window, ffn
<1>9. PlaceInv'
  BY <1>1, <1>2, <1>4 DEF IInv, PlaceInv, comb
<1>10. TurnInv'
  BY <1>1, <1>2, <1>4, <1>9 DEF IInv, TurnInv, PlaceInv, Combined, Moved, comb
<1>11. /\ \A c \in AllCores : pc'[c] = "idle"
       /\ OutInv'
  BY <1>1, <1>2, <1>9, CoresIdle DEF IInv
<1>12. ReadyInv' /\ ClearInv'
  BY <1>2, <1>4, <1>11, CoreFacts DEF IInv, ReadyInv, ClearInv, Cleared
<1>13. QED
  BY <1>4, <1>5, <1>6, <1>7, <1>8, <1>9, <1>10, <1>11, <1>12 DEF IInv

LEMMA StopInv ==
  ASSUME IInv, Stop
  PROVE  IInv'
<1>1. UNCHANGED <<tl, window, microBatch, sched, comb, ffn, count>> /\ runFlag' = 0
  BY DEF Stop
<1>2. /\ Sound(tl)' /\ needSchedule' = needSchedule /\ Cores' = Cores /\ Behind' = Behind
      /\ NextMb' = NextMb /\ Wide' = Wide /\ Cells' = Cells
      /\ \A c : /\ RowsOf(c)' = RowsOf(c) /\ BlocksOf(c)' = BlocksOf(c)
                /\ OwnSlots(c)' = OwnSlots(c)
  BY <1>1, TilingStays DEF IInv, NextMb
<1>3. \A m, i : Arrived(m, i)' <=> Arrived(m, i)
  BY <1>1, ArrivedStays DEF window
<1>4. TypeInv'
  BY <1>1 DEF IInv, TypeInv, window, sched, comb, ffn, count
<1>5. CountInv' /\ FlagInv' /\ SendInv'
  BY <1>1, WindowStays DEF IInv
<1>6. PlaceInv'
  BY <1>1, <1>2 DEF IInv, PlaceInv, sched, comb
<1>7. TurnInv'
  BY <1>1, <1>2 DEF IInv, TurnInv, Combined, Moved, LastMb, sched, comb, count
<1>8. ReadyInv' /\ ClearInv'
  BY <1>1, <1>2, <1>3 DEF IInv, ReadyInv, ClearInv, Cleared, window, sched, comb
<1>9. OutInv'
  BY <1>1, <1>2 DEF IInv, OutInv, comb, count
<1>10. QED
  BY <1>2, <1>4, <1>5, <1>6, <1>7, <1>8, <1>9 DEF IInv

(***************************************************************************)
(* The combine.                                                            *)
(***************************************************************************)
LEMMA CombineInv ==
  ASSUME IInv, Combine
  PROVE  IInv'
<1>1. UNCHANGED <<tl, window, microBatch, runFlag, schedMb, mbId, y, ffn, count>>
  BY DEF Combine
<1>2. /\ host = IF needSchedule THEN "wait" ELSE "combine"
      /\ host' = "combining"
      /\ pc' = [c \in AllCores |-> IF c \in Cores THEN "init" ELSE "idle"]
  BY DEF Combine
<1>3. /\ Sound(tl)' /\ needSchedule' = needSchedule /\ Cores' = Cores /\ Behind' = Behind
      /\ NextMb' = NextMb
  BY <1>1, TilingStays DEF IInv, NextMb
<1>4. /\ 0 \in Cores /\ Cores \subseteq AllCores
      /\ \A c \in AllCores : pc'[c] \in {"idle", "init"} /\ ((pc'[c] = "idle") <=> c \notin Cores)
  BY <1>2, CoreFacts DEF IInv
<1>5. \A m, i : Arrived(m, i)' <=> Arrived(m, i)
  BY <1>1, ArrivedStays DEF window
<1>6. TypeInv'
  BY <1>1, <1>2, <1>4 DEF IInv, TypeInv, HostPlaces, Places, window, ffn, count
<1>7. CountInv' /\ FlagInv' /\ SendInv'
  BY <1>1, WindowStays DEF IInv
<1>8. PlaceInv'
  <2>1. ~\E d \in Cores : pc'[d] \in Behind
    BY <1>4 DEF Behind
  <2>2. QED
    BY <1>2, <1>3, <1>4, <2>1 DEF PlaceInv
<1>9. TurnInv'
  <2>1. pc'[0] # "done"
    BY <1>4
  <2>2. Moved' <=> Moved
    BY <1>2, <1>3, <2>1 DEF Moved
  <2>3. Combined' = Combined
    BY <1>1, <2>2 DEF Combined, LastMb
  <2>4. QED
    BY <1>1, <1>2, <1>3, <1>4, <2>3 DEF IInv, TurnInv, count
<1>10. ReadyInv' /\ ClearInv'
  BY <1>1, <1>2, <1>3, <1>4, <1>5 DEF IInv, ReadyInv, ClearInv, Cleared, window
<1>11. OutInv'
  BY <1>3, <1>4 DEF OutInv
<1>12. QED
  BY <1>3, <1>6, <1>7, <1>8, <1>9, <1>10, <1>11 DEF IInv

(* When all cores are done, all results of the micro-batch in the context  *)
(* have been there, and none of its flags is left.                         *)
LEMMA AllTaken ==
  ASSUME IInv, CombineDone
  PROVE  \A i \in Slots : Arrived(microBatch, i) /\ flag[microBatch][i] = 0
<1>1. 0 \in Cores /\ Cores \subseteq AllCores
  BY CoreFacts DEF IInv
<1>2. CASE ~needSchedule
  BY <1>2 DEF IInv, ReadyInv, ClearInv, TurnInv, CombineDone
<1>3. CASE needSchedule
  <2> TAKE i \in Slots
  <2>1. PICK c \in Cores : i \in OwnSlots(c)
    BY <1>3, CoreFacts DEF IInv
  <2>2. pc[c] = "done" /\ pc[0] = "done" /\ c \in AllCores
    BY <1>1 DEF CombineDone
  <2>3. mbId[c] = microBatch
    BY <2>2 DEF IInv, TurnInv
  <2>4. QED
    BY <1>3, <2>1, <2>2, <2>3 DEF IInv, ReadyInv, ClearInv, Cleared
<1>4. QED
  BY <1>2, <1>3

LEMMA CombineReturnInv ==
  ASSUME IInv, CombineReturn
  PROVE  IInv'
<1>1. UNCHANGED <<tl, window, microBatch, runFlag, schedMb, mbId, y, ffn, sent>>
  BY DEF CombineReturn
<1>2. /\ CombineDone /\ host = "combining" /\ host' = "next"
      /\ combined' = [combined EXCEPT ![microBatch] = @ + 1]
      /\ pc' = [c \in AllCores |-> "idle"]
  BY DEF CombineReturn, CombineDone
<1>3. /\ Sound(tl)' /\ needSchedule' = needSchedule /\ Cores' = Cores /\ Behind' = Behind
      /\ NextMb' = NextMb
  BY <1>1, TilingStays DEF IInv, NextMb
<1>4. \A i \in Slots : Arrived(microBatch, i) /\ flag[microBatch][i] = 0
  BY <1>2, AllTaken
<1>5. sent[microBatch] = combined[microBatch] + 1 /\ responded[microBatch] = sent[microBatch]
  <2>1. 0 \in Slots
    BY SlotFacts DEF Slots
  <2>2. QED
    BY <1>4, <2>1 DEF Arrived
<1>6. TypeInv'
  BY <1>1, <1>2, <1>5 DEF IInv, TypeInv, HostPlaces, Places, window, ffn
<1>7. CountInv'
  BY <1>1, <1>2, <1>5 DEF IInv, TypeInv, CountInv, ffn
<1>8. FlagInv'
  BY <1>1, <1>2, <1>4 DEF IInv, TypeInv, FlagInv, Arrived, Pending, window, ffn
<1>9. SendInv'
  <2> SUFFICES ASSUME NEW c \in Aivs
               PROVE  /\ fPc'[c] # "idle" => fMb' # None
                      /\ fPc'[c] = "flag" => Sending(c)' /\ (data[fMb][order[YOffset(c)]] = responded[fMb] - 1)'
                      /\ fMb' # None /\ Sending(c)' => (responded[fMb] = combined[fMb] + 1)'
    BY DEF SendInv
  <2>1. Sending(c)' = Sending(c) /\ YOffset(c)' = YOffset(c)
    BY <1>1 DEF Sending, YOffset, ffn
  <2>2. ~(fMb = microBatch /\ Sending(c))
    <3> SUFFICES ASSUME fMb = microBatch, Sending(c)
                 PROVE  FALSE
      OBVIOUS
    <3>1. fIdx[c] \in Nat /\ SendNum(c, SlotNum, AivNum) \in Nat /\ order \in Orders
      BY SendNumType, SlotFacts, WorkerAssumption DEF IInv, TypeInv, Aivs
    <3>2. fIdx[c] \in 0 .. SendNum(c, SlotNum, AivNum) - 1
      BY <3>1 DEF Sending
    <3>3. order[c + fIdx[c] * AivNum] \in Slots
      BY <3>1, <3>2, TurnFacts, OrderFacts
    <3>4. Pending(microBatch, order[c + fIdx[c] * AivNum])
      BY <3>1, <3>2 DEF Pending
    <3>5. QED
      BY <1>4, <3>3, <3>4 DEF Arrived
  <2>3. QED
    BY <1>1, <1>2, <2>1, <2>2 DEF IInv, TypeInv, SendInv, window, ffn
<1>10. PlaceInv'
  <2>1. \A c \in Cores : pc'[c] = "idle" /\ "idle" \notin Behind
    BY <1>2, CoreFacts DEF IInv, Behind
  <2>2. QED
    BY <1>2, <1>3, <2>1 DEF PlaceInv
<1>11. TurnInv'
  <2>1. 0 \in Cores /\ needSchedule \in BOOLEAN
    BY CoreFacts DEF IInv
  <2>2. Combined = LastMb /\ Combined' = microBatch
    BY <1>1, <1>2, <2>1 DEF Combined, Moved, CombineDone
  <2>3. \A m \in MicroBatches :
          combined[m] = IF m <= LastMb THEN combined[LastMb] ELSE combined[LastMb] - 1
    BY <2>2 DEF IInv, TurnInv
  <2>4. \A m \in MicroBatches :
          combined'[m] = IF m <= microBatch THEN combined'[microBatch] ELSE combined'[microBatch] - 1
    <3>1. MicroBatchNum \in Nat \ {0} /\ microBatch \in MicroBatches /\ LastMb \in MicroBatches
      BY WorkerAssumption, RoundFacts DEF IInv, TypeInv
    <3>2. combined \in [MicroBatches -> 0 .. RoundNum]
      BY DEF IInv, TypeInv
    <3>3. CASE microBatch = 0
      BY <1>2, <2>3, <3>1, <3>2, <3>3 DEF LastMb, MicroBatches
    <3>4. CASE microBatch # 0
      BY <1>2, <2>3, <3>1, <3>2, <3>4 DEF LastMb, MicroBatches
    <3>5. QED
      BY <3>3, <3>4
  <2>5. sent'[microBatch'] = combined'[microBatch']
    BY <1>1, <1>2, <1>5 DEF IInv, TypeInv
  <2>6. QED
    BY <1>1, <1>2, <2>2, <2>4, <2>5 DEF TurnInv
<1>12. /\ \A c \in AllCores : pc'[c] = "idle"
       /\ OutInv'
  BY <1>1, <1>2, <1>10, CoresIdle DEF IInv
<1>13. ReadyInv' /\ ClearInv'
  BY <1>2, <1>3, <1>12, CoreFacts DEF IInv, ReadyInv, ClearInv, Cleared
<1>14. QED
  BY <1>3, <1>6, <1>7, <1>8, <1>9, <1>10, <1>11, <1>12, <1>13 DEF IInv

(* A core that does something is in use, in a combine under way.           *)
LEMMA CoreActs ==
  ASSUME IInv, NEW c \in AllCores, pc[c] # "idle"
  PROVE  c \in Cores /\ host = "combining"
BY DEF IInv, PlaceInv

(* As long as one core has not come to the barrier, none is behind it.     *)
LEMMA NoneBehind ==
  ASSUME IInv, needSchedule, NEW c \in Cores, pc[c] \notin Behind, pc[c] # "sync"
  PROVE  (\A d \in Cores : pc[d] \notin Behind) /\ pc[0] # "done"
<1>1. \A d \in Cores : pc[d] \notin Behind
  BY DEF IInv, PlaceInv
<1>2. 0 \in Cores /\ "done" \in Behind
  BY CoreFacts DEF IInv, Behind
<1>3. QED
  BY <1>1, <1>2

LEMMA CombineInitInv ==
  ASSUME IInv, NEW c \in AllCores, CombineInit(c)
  PROVE  IInv'
<1>1. UNCHANGED <<tl, window, microBatch, runFlag, sched, y, ffn, count>>
  BY DEF CombineInit
<1>2. /\ pc[c] = "init"
      /\ mbId' = [mbId EXCEPT ![c] = IF needSchedule THEN NextMb ELSE microBatch]
      /\ pc' = [pc EXCEPT ![c] = IF needSchedule THEN "scan" ELSE "rows"]
  BY DEF CombineInit, NextMb
<1>3. /\ Sound(tl)' /\ needSchedule' = needSchedule /\ Cores' = Cores /\ Behind' = Behind
      /\ NextMb' = NextMb /\ Wide' = Wide /\ Cells' = Cells
      /\ \A d : /\ RowsOf(d)' = RowsOf(d) /\ BlocksOf(d)' = BlocksOf(d)
                /\ OwnSlots(d)' = OwnSlots(d)
  BY <1>1, TilingStays DEF IInv, NextMb
<1>4. c \in Cores /\ host = "combining" /\ Cores \subseteq AllCores /\ 0 \in Cores
  BY <1>2, CoreActs, CoreFacts DEF IInv
<1>5. needSchedule => (\A d \in Cores : pc[d] \notin Behind) /\ pc[0] # "done"
  <2>1. "init" \notin Behind
    BY DEF Behind
  <2>2. QED
    BY <1>2, <1>4, <2>1, NoneBehind
<1>6. \A m, i : Arrived(m, i)' <=> Arrived(m, i)
  BY <1>1, ArrivedStays DEF window
<1>7. /\ pc' \in [AllCores -> Places] /\ pc'[c] \in {"scan", "rows"}
      /\ \A d \in AllCores : d # c => pc'[d] = pc[d] /\ mbId'[d] = mbId[d]
      /\ mbId' \in [AllCores -> MicroBatches]
      /\ mbId'[c] = IF needSchedule THEN NextMb ELSE microBatch
  BY <1>2, RoundFacts DEF IInv, TypeInv, Places
<1>8. TypeInv'
  BY <1>1, <1>7 DEF IInv, TypeInv, window, sched, ffn, count
<1>9. CountInv' /\ FlagInv' /\ SendInv'
  BY <1>1, WindowStays DEF IInv
<1>10. PlaceInv'
  <2>1. needSchedule => ~\E d \in Cores : pc'[d] \in Behind
    BY <1>4, <1>5, <1>7 DEF Behind
  <2>2. needSchedule \/ pc'[c] = "rows"
    BY <1>2, <1>7 DEF IInv, TypeInv
  <2>3. host' = host /\ runFlag' = runFlag /\ (host # "polled")
    BY <1>1, <1>4 DEF sched
  <2>4. QED
    BY <1>2, <1>3, <1>4, <1>7, <2>1, <2>2, <2>3 DEF IInv, PlaceInv
<1>11. TurnInv'
  <2>1. needSchedule => pc[0] # "done" /\ pc'[0] # "done"
    BY <1>4, <1>5, <1>7
  <2>2. Combined' = Combined
    BY <1>1, <1>3, <2>1 DEF Combined, Moved, LastMb, sched
  <2>3. QED
    BY <1>1, <1>2, <1>3, <1>7, <2>1, <2>2 DEF IInv, TurnInv, sched, count
<1>12. ReadyInv' /\ ClearInv'
  <2>1. ~needSchedule \/ pc'[c] = "scan"
    BY <1>2, <1>7 DEF IInv, TypeInv
  <2>2. QED
    BY <1>1, <1>3, <1>4, <1>6, <1>7, <2>1 DEF IInv, ReadyInv, ClearInv, Cleared, window, sched
<1>13. OutInv'
  BY <1>1, <1>3, <1>4, <1>7 DEF IInv, OutInv, count
<1>14. QED
  BY <1>3, <1>8, <1>9, <1>10, <1>11, <1>12, <1>13 DEF IInv

LEMMA ScanTokenInfoInv ==
  ASSUME IInv, NEW c \in AllCores, ScanTokenInfo(c)
  PROVE  IInv'
<1>1. UNCHANGED <<tl, window, microBatch, runFlag, sched, mbId, y, ffn, count>>
  BY DEF ScanTokenInfo
<1>2. /\ pc[c] = "scan" /\ needSchedule
      /\ \A i \in OwnSlots(c) : flag[mbId[c]][i] = 1
      /\ pc' = [pc EXCEPT ![c] = "rows"]
  BY DEF ScanTokenInfo, IInv, PlaceInv
<1>3. /\ Sound(tl)' /\ needSchedule' = needSchedule /\ Cores' = Cores /\ Behind' = Behind
      /\ NextMb' = NextMb /\ Wide' = Wide /\ Cells' = Cells
      /\ \A d : /\ RowsOf(d)' = RowsOf(d) /\ BlocksOf(d)' = BlocksOf(d)
                /\ OwnSlots(d)' = OwnSlots(d)
  BY <1>1, TilingStays DEF IInv, NextMb
<1>4. c \in Cores /\ host = "combining" /\ Cores \subseteq AllCores /\ 0 \in Cores
  BY <1>2, CoreActs, CoreFacts DEF IInv
<1>5. (\A d \in Cores : pc[d] \notin Behind) /\ pc[0] # "done"
  <2>1. "scan" \notin Behind
    BY DEF Behind
  <2>2. QED
    BY <1>2, <1>4, <2>1, NoneBehind
<1>6. \A m, i : Arrived(m, i)' <=> Arrived(m, i)
  BY <1>1, ArrivedStays DEF window
<1>7. /\ pc' \in [AllCores -> Places] /\ pc'[c] = "rows"
      /\ \A d \in AllCores : d # c => pc'[d] = pc[d]
  BY <1>2 DEF IInv, TypeInv, Places
<1>8. TypeInv'
  BY <1>1, <1>7 DEF IInv, TypeInv, window, sched, ffn, count
<1>9. CountInv' /\ FlagInv' /\ SendInv'
  BY <1>1, WindowStays DEF IInv
<1>10. PlaceInv'
  <2>1. ~\E d \in Cores : pc'[d] \in Behind
    BY <1>4, <1>5, <1>7 DEF Behind
  <2>2. host' = host /\ runFlag' = runFlag /\ (host # "polled")
    BY <1>1, <1>4 DEF sched
  <2>3. QED
    BY <1>2, <1>3, <1>4, <1>7, <2>1, <2>2 DEF IInv, PlaceInv
<1>11. TurnInv'
  <2>1. pc[0] # "done" /\ pc'[0] # "done"
    BY <1>4, <1>5, <1>7
  <2>2. Combined' = Combined
    BY <1>1, <1>2, <1>3, <2>1 DEF Combined, Moved, LastMb, sched
  <2>3. QED
    BY <1>1, <1>2, <1>3, <1>7, <2>1, <2>2 DEF IInv, TurnInv, sched, count
<1>12. \A i \in OwnSlots(c) : Arrived(mbId[c], i)
  <2>1. OwnSlots(c) \subseteq Slots /\ mbId[c] \in MicroBatches
    BY <1>2, <1>4, CoreFacts DEF IInv, TypeInv
  <2>2. QED
    BY <1>2, <2>1 DEF IInv, FlagInv
<1>13. ReadyInv' /\ ClearInv'
  BY <1>1, <1>2, <1>3, <1>4, <1>6, <1>7, <1>12 DEF IInv, ReadyInv, ClearInv, Cleared, window, sched
<1>14. OutInv'
  BY <1>1, <1>3, <1>4, <1>7 DEF IInv, OutInv, count
<1>15. QED
  BY <1>3, <1>8, <1>9, <1>10, <1>11, <1>13, <1>14 DEF IInv

LEMMA CombineRowsInv ==
  ASSUME IInv, NEW c \in AllCores, CombineRows(c)
  PROVE  IInv'
<1>1. UNCHANGED <<tl, window, microBatch, runFlag, sched, mbId, ffn, count>>
  BY DEF CombineRows
<1>2. /\ pc[c] = "rows"
      /\ y' = [cell \in Cells |->
           IF cell \in RowsOf(c) \X BlocksOf(c)
             THEN [mb |-> mbId[c], rounds |-> {data[mbId[c]][i] : i \in SlotsOf(cell[1])}]
             ELSE y[cell]]
      /\ pc' = [pc EXCEPT ![c] =
           IF ~needSchedule THEN "done" ELSE IF Wide THEN "sync" ELSE "clear"]
  BY DEF CombineRows
<1>3. /\ Sound(tl)' /\ needSchedule' = needSchedule /\ Cores' = Cores /\ Behind' = Behind
      /\ NextMb' = NextMb /\ Wide' = Wide /\ Cells' = Cells
      /\ \A d : /\ RowsOf(d)' = RowsOf(d) /\ BlocksOf(d)' = BlocksOf(d)
                /\ OwnSlots(d)' = OwnSlots(d)
  BY <1>1, TilingStays DEF IInv, NextMb
<1>4. c \in Cores /\ host = "combining" /\ Cores \subseteq AllCores /\ 0 \in Cores
  BY <1>2, CoreActs, CoreFacts DEF IInv
<1>5. needSchedule => (\A d \in Cores : pc[d] \notin Behind) /\ pc[0] # "done"
  <2>1. "rows" \notin Behind
    BY DEF Behind
  <2>2. QED
    BY <1>2, <1>4, <2>1, NoneBehind
<1>6. \A m, i : Arrived(m, i)' <=> Arrived(m, i)
  BY <1>1, ArrivedStays DEF window
<1>7. /\ pc' \in [AllCores -> Places]
      /\ pc'[c] = IF ~needSchedule THEN "done" ELSE IF Wide THEN "sync" ELSE "clear"
      /\ \A d \in AllCores : d # c => pc'[d] = pc[d]
  BY <1>2 DEF IInv, TypeInv, Places
<1>8. TypeInv'
  BY <1>1, <1>7 DEF IInv, TypeInv, window, sched, ffn, count
<1>9. CountInv' /\ FlagInv' /\ SendInv'
  BY <1>1, WindowStays DEF IInv
<1>10. PlaceInv'
  <2>1. needSchedule => ~\E d \in Cores : pc'[d] \in Behind
    BY <1>4, <1>5, <1>7 DEF Behind
  <2>2. host' = host /\ runFlag' = runFlag /\ (host # "polled")
    BY <1>1, <1>4 DEF sched
  <2>3. QED
    BY <1>2, <1>3, <1>4, <1>7, <2>1, <2>2 DEF IInv, PlaceInv
<1>11. TurnInv'
  <2>1. needSchedule => pc[0] # "done" /\ pc'[0] # "done"
    BY <1>4, <1>5, <1>7
  <2>2. Combined' = Combined
    BY <1>1, <1>3, <2>1 DEF Combined, Moved, LastMb, sched
  <2>3. QED
    BY <1>1, <1>2, <1>3, <1>7, <2>1, <2>2 DEF IInv, TurnInv, sched, count
<1>12. ReadyInv' /\ ClearInv'
  BY <1>1, <1>2, <1>3, <1>4, <1>6, <1>7 DEF IInv, ReadyInv, ClearInv, Cleared, window, sched
<1>13. OutInv'
  <2>1. \A cell \in Cells : cell \in RowsOf(c) \X BlocksOf(c) =>
          y'[cell] = [mb |-> mbId[c], rounds |-> {sent[mbId[c]] - 1}]
    <3> SUFFICES ASSUME NEW cell \in Cells, cell \in RowsOf(c) \X BlocksOf(c)
                 PROVE  {data[mbId[c]][i] : i \in SlotsOf(cell[1])} = {sent[mbId[c]] - 1}
      BY <1>2
    <3>1. cell[1] \in Rows /\ cell[1] \in RowsOf(c)
      BY DEF Cells
    <3>2. SlotsOf(cell[1]) # {} /\ SlotsOf(cell[1]) \subseteq Slots
      BY <3>1, SlotFacts
    <3>3. \A i \in SlotsOf(cell[1]) : Arrived(mbId[c], i)
      <4>1. CASE needSchedule
        BY <1>2, <1>4, <3>1, <4>1, CoreFacts DEF IInv, ReadyInv
      <4>2. CASE ~needSchedule
        BY <1>2, <1>4, <3>2, <4>2 DEF IInv, ReadyInv, TurnInv
      <4>3. QED
        BY <4>1, <4>2
    <3>4. \A i \in SlotsOf(cell[1]) : data[mbId[c]][i] = sent[mbId[c]] - 1
      BY <3>3 DEF Arrived
    <3>5. QED
      BY <3>2, <3>4
  <2>2. \A d \in Cores : pc'[d] \in {"clear", "sync", "name", "done"} => mbId[d] = mbId[c]
    BY <1>2, <1>4, <1>7 DEF IInv, TurnInv
  <2>3. QED
    BY <1>1, <1>2, <1>3, <1>4, <1>7, <2>1, <2>2 DEF IInv, OutInv, count
<1>14. QED
  BY <1>3, <1>8, <1>9, <1>10, <1>11, <1>12, <1>13 DEF IInv

LEMMA ClearTokenInfoInv ==
  ASSUME IInv, NEW c \in AllCores, ClearTokenInfo(c)
  PROVE  IInv'
<1>1. UNCHANGED <<tl, data, microBatch, runFlag, sched, mbId, y, ffn, count>>
  BY DEF ClearTokenInfo
<1>2. /\ pc[c] = "clear" /\ needSchedule
      /\ flag' = [flag EXCEPT ![mbId[c]] = [i \in Slots |-> IF i \in OwnSlots(c) THEN 0 ELSE @[i]]]
      /\ pc' = [pc EXCEPT ![c] = IF Wide THEN Named(c) ELSE "sync"]
  BY DEF ClearTokenInfo, IInv, PlaceInv
<1>3. /\ Sound(tl)' /\ needSchedule' = needSchedule /\ Cores' = Cores /\ Behind' = Behind
      /\ NextMb' = NextMb /\ Wide' = Wide /\ Cells' = Cells
      /\ \A d : /\ RowsOf(d)' = RowsOf(d) /\ BlocksOf(d)' = BlocksOf(d)
                /\ OwnSlots(d)' = OwnSlots(d)
  BY <1>1, TilingStays DEF IInv, NextMb
<1>4. c \in Cores /\ host = "combining" /\ Cores \subseteq AllCores /\ 0 \in Cores
  BY <1>2, CoreActs, CoreFacts DEF IInv
<1>5. \A m, i : Arrived(m, i)' <=> Arrived(m, i)
  BY <1>1, ArrivedStays
<1>6. /\ pc' \in [AllCores -> Places]
      /\ pc'[c] = IF ~Wide THEN "sync" ELSE IF c = 0 THEN "name" ELSE "done"
      /\ \A d \in AllCores : d # c => pc'[d] = pc[d]
  BY <1>2 DEF IInv, TypeInv, Places, Named
<1>7. /\ flag' \in [MicroBatches -> [Slots -> {0, 1}]]
      /\ \A m \in MicroBatches : \A i \in Slots :
           flag'[m][i] = IF m = mbId[c] /\ i \in OwnSlots(c) THEN 0 ELSE flag[m][i]
  BY <1>2 DEF IInv, TypeInv
<1>8. TypeInv'
  BY <1>1, <1>6, <1>7 DEF IInv, TypeInv, sched, ffn, count
<1>9. CountInv' /\ SendInv'
  BY <1>1 DEF IInv, CountInv, SendInv, Sending, YOffset, count, ffn
<1>10. FlagInv'
  BY <1>5, <1>7 DEF IInv, FlagInv
<1>11. PlaceInv'
  <2>1. ASSUME NEW d \in Cores, pc'[d] \in Behind
        PROVE  \A e \in Cores : pc'[e] \in Behind \cup {"sync"}
    <3>1. CASE Wide
      <4>1. pc[c] \in Behind /\ pc'[c] \in Behind
        BY <1>2, <1>6, <3>1 DEF Behind
      <4>2. \A e \in Cores : pc[e] \in Behind \cup {"sync"}
        BY <1>2, <1>4, <4>1 DEF IInv, PlaceInv
      <4>3. QED
        BY <1>4, <1>6, <4>1, <4>2
    <3>2. CASE ~Wide
      <4>1. pc[c] \notin Behind /\ pc[c] # "sync" /\ pc'[c] \notin Behind
        BY <1>2, <1>6, <3>2 DEF Behind
      <4>2. \A e \in Cores : pc[e] \notin Behind
        BY <1>2, <1>4, <4>1, NoneBehind
      <4>3. QED
        BY <1>4, <1>6, <2>1, <4>1, <4>2
    <3>3. QED
      BY <3>1, <3>2
  <2>2. host' = host /\ runFlag' = runFlag /\ (host # "polled")
    BY <1>1, <1>4 DEF sched
  <2>3. QED
    BY <1>2, <1>3, <1>4, <1>6, <2>1, <2>2 DEF IInv, PlaceInv
<1>12. TurnInv'
  <2>1. pc'[0] = "done" <=> pc[0] = "done"
    BY <1>2, <1>4, <1>6
  <2>2. Combined' = Combined
    BY <1>1, <1>3, <2>1 DEF Combined, Moved, LastMb, sched
  <2>3. QED
    BY <1>1, <1>2, <1>3, <1>6, <2>1, <2>2 DEF IInv, TurnInv, sched, count
<1>13. ReadyInv'
  BY <1>1, <1>2, <1>3, <1>4, <1>5, <1>6 DEF IInv, ReadyInv, sched
<1>14. ClearInv'
  <2> SUFFICES ASSUME NEW d \in Cores, Cleared(d)', NEW i \in OwnSlots(d)
               PROVE  flag'[mbId[d]][i] = 0
    BY <1>1, <1>2, <1>3 DEF ClearInv
  <2>1. i \in Slots /\ d \in AllCores /\ mbId[d] \in MicroBatches
    BY <1>2, <1>4, CoreFacts DEF IInv, TypeInv
  <2>2. CASE d = c
    BY <1>7, <2>1, <2>2
  <2>3. CASE d # c
    <3>1. Cleared(d)
      BY <1>3, <1>6, <2>1, <2>3 DEF Cleared
    <3>2. flag[mbId[d]][i] = 0
      BY <1>2, <3>1 DEF IInv, ClearInv
    <3>3. QED
      BY <1>7, <2>1, <3>2
  <2>4. QED
    BY <2>2, <2>3
<1>15. OutInv'
  BY <1>1, <1>2, <1>3, <1>4, <1>6 DEF IInv, OutInv, count
<1>16. QED
  BY <1>3, <1>8, <1>9, <1>10, <1>11, <1>12, <1>13, <1>14, <1>15 DEF IInv

LEMMA SyncAllInv ==
  ASSUME IInv, NEW c \in AllCores, SyncAll(c)
  PROVE  IInv'
<1>1. UNCHANGED <<tl, window, microBatch, runFlag, sched, mbId, y, ffn, count>>
  BY DEF SyncAll
<1>2. /\ pc[c] = "sync" /\ needSchedule
      /\ \A d \in Cores : pc[d] \in Behind \cup {"sync"}
      /\ pc' = [pc EXCEPT ![c] = BehindSync(c)]
  BY DEF SyncAll, IInv, PlaceInv, Behind
<1>3. /\ Sound(tl)' /\ needSchedule' = needSchedule /\ Cores' = Cores /\ Behind' = Behind
      /\ NextMb' = NextMb /\ Wide' = Wide /\ Cells' = Cells
      /\ \A d : /\ RowsOf(d)' = RowsOf(d) /\ BlocksOf(d)' = BlocksOf(d)
                /\ OwnSlots(d)' = OwnSlots(d)
  BY <1>1, TilingStays DEF IInv, NextMb
<1>4. c \in Cores /\ host = "combining" /\ Cores \subseteq AllCores /\ 0 \in Cores
  BY <1>2, CoreActs, CoreFacts DEF IInv
<1>5. \A m, i : Arrived(m, i)' <=> Arrived(m, i)
  BY <1>1, ArrivedStays DEF window
<1>6. /\ pc' \in [AllCores -> Places]
      /\ pc'[c] = IF Wide THEN "clear" ELSE IF c = 0 THEN "name" ELSE "done"
      /\ \A d \in AllCores : d # c => pc'[d] = pc[d]
  <2>1. BehindSync(c) = IF Wide THEN "clear" ELSE IF c = 0 THEN "name" ELSE "done"
    BY <1>2, <1>4, CoreFacts DEF IInv, BehindSync, Named
  <2>2. QED
    BY <1>2, <2>1 DEF IInv, TypeInv, Places
<1>7. TypeInv'
  BY <1>1, <1>6 DEF IInv, TypeInv, window, sched, ffn, count
<1>8. CountInv' /\ FlagInv' /\ SendInv'
  BY <1>1, WindowStays DEF IInv
<1>9. PlaceInv'
  <2>1. pc'[c] \in Behind
    BY <1>6 DEF Behind
  <2>2. \A e \in Cores : pc'[e] \in Behind \cup {"sync"}
    BY <1>2, <1>4, <1>6, <2>1
  <2>3. host' = host /\ runFlag' = runFlag /\ (host # "polled")
    BY <1>1, <1>4 DEF sched
  <2>4. QED
    BY <1>2, <1>3, <1>4, <1>6, <2>2, <2>3 DEF IInv, PlaceInv
<1>10. TurnInv'
  <2>1. pc'[0] = "done" <=> pc[0] = "done"
    BY <1>2, <1>4, <1>6
  <2>2. Combined' = Combined
    BY <1>1, <1>3, <2>1 DEF Combined, Moved, LastMb, sched
  <2>3. QED
    BY <1>1, <1>2, <1>3, <1>6, <2>1, <2>2 DEF IInv, TurnInv, sched, count
<1>11. ReadyInv'
  BY <1>1, <1>2, <1>3, <1>4, <1>5, <1>6 DEF IInv, ReadyInv, sched
<1>12. ClearInv'
  <2>1. \A d \in Cores : Cleared(d)' => Cleared(d)
    BY <1>2, <1>3, <1>4, <1>6 DEF Cleared
  <2>2. QED
    BY <1>1, <1>2, <1>3, <2>1 DEF IInv, ClearInv, window
<1>13. OutInv'
  BY <1>1, <1>2, <1>3, <1>4, <1>6 DEF IInv, OutInv, count
<1>14. QED
  BY <1>3, <1>7, <1>8, <1>9, <1>10, <1>11, <1>12, <1>13 DEF IInv

LEMMA CombineNameInv ==
  ASSUME IInv, NEW c \in AllCores, CombineName(c)
  PROVE  IInv'
<1>1. UNCHANGED <<tl, window, runFlag, sched, mbId, y, ffn, count>>
  BY DEF CombineName
<1>2. /\ pc[c] = "name" /\ needSchedule /\ c = 0
      /\ microBatch' = mbId[c]
      /\ pc' = [pc EXCEPT ![c] = "done"]
  BY DEF CombineName, IInv, PlaceInv
<1>3. /\ Sound(tl)' /\ needSchedule' = needSchedule /\ Cores' = Cores /\ Behind' = Behind
      /\ Wide' = Wide /\ Cells' = Cells
      /\ \A d : /\ RowsOf(d)' = RowsOf(d) /\ BlocksOf(d)' = BlocksOf(d)
                /\ OwnSlots(d)' = OwnSlots(d)
  BY <1>1, TilingStays DEF IInv
<1>4. c \in Cores /\ host = "combining" /\ Cores \subseteq AllCores
  BY <1>2, CoreActs, CoreFacts DEF IInv
<1>5. \A m, i : Arrived(m, i)' <=> Arrived(m, i)
  BY <1>1, ArrivedStays DEF window
<1>6. /\ pc' \in [AllCores -> Places] /\ pc'[0] = "done"
      /\ \A d \in AllCores : d # 0 => pc'[d] = pc[d]
  BY <1>2 DEF IInv, TypeInv, Places
<1>7. mbId[0] = NextMb /\ microBatch' = NextMb
  BY <1>2 DEF IInv, TurnInv
<1>8. TypeInv'
  BY <1>1, <1>6, <1>7, RoundFacts DEF IInv, TypeInv, window, sched, ffn, count
<1>9. CountInv' /\ FlagInv' /\ SendInv'
  BY <1>1, WindowStays DEF IInv
<1>10. PlaceInv'
  <2>1. "name" \in Behind /\ "done" \in Behind
    BY DEF Behind
  <2>2. \A e \in Cores : pc'[e] \in Behind \cup {"sync"}
    BY <1>2, <1>4, <1>6, <2>1 DEF IInv, PlaceInv
  <2>3. host' = host /\ runFlag' = runFlag /\ (host # "polled")
    BY <1>1, <1>4 DEF sched
  <2>4. QED
    BY <1>2, <1>3, <1>4, <1>6, <2>2, <2>3 DEF IInv, PlaceInv
<1>11. TurnInv'
  <2>1. Combined = microBatch /\ Combined' = LastMb'
    BY <1>1, <1>2, <1>3, <1>4, <1>6 DEF Combined, Moved, sched
  <2>2. LastMb' = microBatch
    <3>1. MicroBatchNum \in Nat \ {0} /\ microBatch \in 0 .. MicroBatchNum - 1
      BY WorkerAssumption DEF IInv, TypeInv, MicroBatches
    <3>2. microBatch' = IF microBatch = MicroBatchNum - 1 THEN 0 ELSE microBatch + 1
      BY <1>7, RoundFacts DEF IInv, TypeInv
    <3>3. LastMb' = IF microBatch' = 0 THEN MicroBatchNum - 1 ELSE microBatch' - 1
      BY DEF LastMb
    <3>4. QED
      BY <3>1, <3>2, <3>3
  <2>3. \A d \in AllCores : pc'[d] \notin {"idle", "init"} => mbId[d] = NextMb
    BY <1>2, <1>6 DEF IInv, TurnInv
  <2>4. QED
    BY <1>1, <1>2, <1>3, <1>4, <1>6, <1>7, <2>1, <2>2, <2>3 DEF IInv, TurnInv, sched, count
<1>12. ReadyInv'
  BY <1>1, <1>2, <1>3, <1>4, <1>5, <1>6 DEF IInv, ReadyInv, sched
<1>13. ClearInv'
  <2>1. \A d \in Cores : Cleared(d)' => Cleared(d)
    BY <1>2, <1>3, <1>4, <1>6 DEF Cleared
  <2>2. QED
    BY <1>1, <1>2, <1>3, <2>1 DEF IInv, ClearInv, window
<1>14. OutInv'
  BY <1>1, <1>2, <1>3, <1>4, <1>6 DEF IInv, OutInv, count
<1>15. QED
  BY <1>3, <1>8, <1>9, <1>10, <1>11, <1>12, <1>13, <1>14 DEF IInv

(***************************************************************************)
(* FFNToAttention.                                                         *)
(***************************************************************************)

(* A step of an FFN node touches no slot that has arrived.                 *)
LEMMA FfnKeeps ==
  ASSUME IInv, UNCHANGED <<tl, microBatch, runFlag, sched, comb, count>>,
         \A m \in MicroBatches : \A i \in Slots :
           /\ Arrived(m, i) => Arrived(m, i)' /\ flag'[m][i] = flag[m][i]
           /\ flag[m][i] = 1 => flag'[m][i] = 1
  PROVE  Sound(tl)' /\ PlaceInv' /\ TurnInv' /\ ReadyInv' /\ ClearInv' /\ OutInv'
<1>1. /\ Sound(tl)' /\ needSchedule' = needSchedule /\ Cores' = Cores /\ Behind' = Behind
      /\ NextMb' = NextMb /\ Wide' = Wide /\ Cells' = Cells
      /\ \A d : /\ RowsOf(d)' = RowsOf(d) /\ BlocksOf(d)' = BlocksOf(d)
                /\ OwnSlots(d)' = OwnSlots(d)
  BY TilingStays DEF IInv, NextMb
<1>2. schedMb \in MicroBatches /\ \A c \in Cores : mbId[c] \in MicroBatches
  BY CoreFacts DEF IInv, TypeInv
<1>3. needSchedule => \A c \in Cores : OwnSlots(c) \subseteq Slots
  BY CoreFacts DEF IInv
<1>4. PlaceInv'
  <2>1. AllFlagged(schedMb) => AllFlagged(schedMb)'
    BY <1>2 DEF AllFlagged, sched
  <2>2. QED
    BY <1>1, <2>1 DEF IInv, PlaceInv, sched, comb
<1>5. TurnInv'
  BY <1>1 DEF IInv, TurnInv, Combined, Moved, LastMb, sched, comb, count
<1>6. ReadyInv'
  BY <1>1, <1>2, <1>3 DEF IInv, ReadyInv, sched, comb
<1>7. ClearInv'
  <2>1. ASSUME ~needSchedule, host \in {"name", "combine", "combining"}, NEW i \in Slots
        PROVE  flag'[schedMb][i] = 0
    BY <1>2, <2>1 DEF IInv, ReadyInv, ClearInv
  <2>2. ASSUME needSchedule, NEW c \in Cores, Cleared(c), NEW i \in OwnSlots(c)
        PROVE  flag'[mbId[c]][i] = 0
    BY <1>2, <1>3, <2>2 DEF IInv, ReadyInv, ClearInv, Cleared
  <2>3. \A c : Cleared(c)' <=> Cleared(c)
    BY <1>1 DEF Cleared, comb
  <2>4. QED
    BY <1>1, <2>1, <2>2, <2>3 DEF ClearInv, sched, comb
<1>8. OutInv'
  BY <1>1 DEF IInv, OutInv, comb, count
<1>9. QED
  BY <1>1, <1>4, <1>5, <1>6, <1>7, <1>8

LEMMA RespondInv ==
  ASSUME IInv, NEW n \in MicroBatches, Respond(n)
  PROVE  IInv'
<1>1. UNCHANGED <<tl, window, microBatch, runFlag, sched, comb, count>>
  BY DEF Respond
<1>2. /\ fMb = None /\ responded[n] < sent[n]
      /\ fMb' = n /\ order' \in Orders
      /\ fPc' = [c \in Aivs |-> "data"] /\ fIdx' = [c \in Aivs |-> 0]
      /\ responded' = [responded EXCEPT ![n] = @ + 1]
  BY DEF Respond
<1>3. /\ responded[n] = combined[n] /\ responded[n] + 1 = sent[n]
      /\ combined[n] \in Nat /\ sent[n] \in 0 .. RoundNum /\ RoundNum \in Nat
  <2>1. combined[n] \in Nat /\ responded[n] \in Nat /\ sent[n] \in 0 .. RoundNum /\ RoundNum \in Nat
    BY WorkerAssumption DEF IInv, TypeInv
  <2>2. combined[n] <= responded[n] /\ sent[n] <= combined[n] + 1
    BY DEF IInv, CountInv
  <2>3. QED
    BY <1>2, <2>1, <2>2
<1>4. /\ responded' \in [MicroBatches -> 0 .. RoundNum]
      /\ responded'[n] = combined[n] + 1 /\ responded'[n] = sent[n]
      /\ \A m \in MicroBatches : m # n => responded'[m] = responded[m]
  <2>1. responded \in [MicroBatches -> 0 .. RoundNum] /\ responded[n] + 1 \in 0 .. RoundNum
    BY <1>3 DEF IInv, TypeInv
  <2>2. QED
    BY <1>2, <1>3, <2>1
<1>5. TypeInv' /\ CountInv'
  <2>1. TypeInv'
    <3>1. fPc' \in [Aivs -> {"idle", "data", "flag"}] /\ fIdx' \in [Aivs -> Nat]
      BY <1>2
    <3>2. QED
      BY <1>1, <1>2, <1>4, <3>1 DEF IInv, TypeInv, window, sched, comb, count
  <2>2. CountInv'
    BY <1>1, <1>3, <1>4 DEF IInv, CountInv, count
  <2>3. QED
    BY <2>1, <2>2
<1>6. \A m \in MicroBatches : \A i \in Slots : Arrived(m, i) => Arrived(m, i)'
  <2> SUFFICES ASSUME NEW m \in MicroBatches, NEW i \in Slots, Arrived(m, i)
               PROVE  Arrived(m, i)'
    OBVIOUS
  <2>1. m # n
    BY <1>2, <1>3 DEF Arrived
  <2>2. ~Pending(m, i)'
    BY <1>2, <2>1 DEF Pending
  <2>3. QED
    BY <1>1, <1>4, <2>1, <2>2 DEF Arrived, window, count
<1>7. FlagInv'
  BY <1>1, <1>6 DEF IInv, FlagInv, window
<1>8. SendInv'
  <2>1. n # None
    BY WorkerAssumption DEF MicroBatches, None
  <2>2. QED
    BY <1>1, <1>2, <1>4, <2>1 DEF SendInv, count
<1>9. Sound(tl)' /\ PlaceInv' /\ TurnInv' /\ ReadyInv' /\ ClearInv' /\ OutInv'
  BY <1>1, <1>6, FfnKeeps DEF window
<1>10. QED
  BY <1>5, <1>7, <1>8, <1>9 DEF IInv

LEMMA SendReturnInv ==
  ASSUME IInv, SendReturn
  PROVE  IInv'
<1>1. /\ UNCHANGED <<tl, window, microBatch, runFlag, sched, comb, order, fIdx, responded, count>>
      /\ fMb' = None /\ fPc' = [c \in Aivs |-> "idle"]
  BY DEF SendReturn
<1>2. TypeInv'
  BY <1>1 DEF IInv, TypeInv, window, sched, comb, count
<1>3. CountInv'
  BY <1>1 DEF IInv, CountInv, count
<1>4. \A m \in MicroBatches : \A i \in Slots : Arrived(m, i) => Arrived(m, i)'
  <2> TAKE m \in MicroBatches
  <2> TAKE i \in Slots
  <2>1. ~Pending(m, i)'
    <3>1. m # None
      BY WorkerAssumption DEF MicroBatches, None
    <3>2. QED
      BY <1>1, <3>1 DEF Pending
  <2>2. QED
    BY <1>1, <2>1 DEF Arrived, window, count
<1>5. FlagInv'
  BY <1>1, <1>4 DEF IInv, FlagInv, window
<1>6. SendInv'
  BY <1>1 DEF SendInv
<1>7. Sound(tl)' /\ PlaceInv' /\ TurnInv' /\ ReadyInv' /\ ClearInv' /\ OutInv'
  BY <1>1, <1>4, FfnKeeps DEF window
<1>8. QED
  BY <1>2, <1>3, <1>5, <1>6, <1>7 DEF IInv

(* The slot a core is at has not arrived, and no other turn of any core    *)
(* writes it.                                                              *)
LEMMA SlotAtHand ==
  ASSUME IInv, NEW c \in Aivs, fMb # None, Sending(c)
  PROVE  /\ fMb \in MicroBatches /\ order[YOffset(c)] \in Slots
         /\ Pending(fMb, order[YOffset(c)])
         /\ sent[fMb] = combined[fMb] + 1 /\ responded[fMb] = sent[fMb]
         /\ \A d \in Aivs : \A j \in fIdx[d] .. SendNum(d, SlotNum, AivNum) - 1 :
              order[d + j * AivNum] = order[YOffset(c)] => d = c /\ j = fIdx[c]
<1>1. /\ fMb \in MicroBatches /\ order \in Orders
      /\ \A d \in Aivs : fIdx[d] \in Nat /\ SendNum(d, SlotNum, AivNum) \in Nat
  BY SendNumType, SlotFacts, WorkerAssumption DEF IInv, TypeInv, Aivs
<1>2. /\ fIdx[c] \in fIdx[c] .. SendNum(c, SlotNum, AivNum) - 1
      /\ fIdx[c] \in 0 .. SendNum(c, SlotNum, AivNum) - 1
  BY <1>1 DEF Sending
<1>3. YOffset(c) = c + fIdx[c] * AivNum /\ YOffset(c) \in Slots
  BY <1>2, TurnFacts DEF YOffset
<1>4. order[YOffset(c)] \in Slots
  BY <1>1, <1>3, OrderFacts
<1>5. Pending(fMb, order[YOffset(c)])
  BY <1>2, <1>3 DEF Pending
<1>6. sent[fMb] = combined[fMb] + 1 /\ responded[fMb] = sent[fMb]
  BY <1>1 DEF IInv, TypeInv, SendInv, CountInv
<1>7. ASSUME NEW d \in Aivs, NEW j \in fIdx[d] .. SendNum(d, SlotNum, AivNum) - 1,
             order[d + j * AivNum] = order[YOffset(c)]
      PROVE  d = c /\ j = fIdx[c]
  <2>1. j \in 0 .. SendNum(d, SlotNum, AivNum) - 1
    BY <1>1
  <2>2. d + j * AivNum \in Slots
    BY <2>1, TurnFacts
  <2>3. d + j * AivNum = c + fIdx[c] * AivNum
    BY <1>1, <1>3, <1>7, <2>2, OrderFacts
  <2>4. QED
    BY <1>2, <2>1, <2>3, TurnFacts
<1>8. QED
  BY <1>1, <1>4, <1>5, <1>6, <1>7

LEMMA WriteDataInv ==
  ASSUME IInv, NEW c \in Aivs, WriteToken(c), fPc[c] = "data"
  PROVE  IInv'
<1> DEFINE i0 == order[YOffset(c)]
<1>1. /\ Sending(c)
      /\ data' = [data EXCEPT ![fMb][i0] = responded[fMb] - 1]
      /\ fPc' = [fPc EXCEPT ![c] = "flag"]
      /\ UNCHANGED <<tl, flag, microBatch, runFlag, sched, comb, fMb, order, fIdx, responded, count>>
  BY DEF WriteToken
<1>2. fMb # None
  BY DEF IInv, SendInv
<1>3. /\ fMb \in MicroBatches /\ i0 \in Slots /\ Pending(fMb, i0)
      /\ responded[fMb] - 1 \in None .. RoundNum - 1
  <2>1. responded[fMb] - 1 \in None .. RoundNum - 1
    BY <1>1, <1>2, SlotAtHand, WorkerAssumption DEF IInv, TypeInv, None
  <2>2. QED
    BY <1>1, <1>2, <2>1, SlotAtHand
<1> HIDE DEF i0
<1>4. /\ data' \in [MicroBatches -> [Slots -> None .. RoundNum - 1]]
      /\ \A m \in MicroBatches : \A i \in Slots :
           data'[m][i] = IF m = fMb /\ i = i0 THEN responded[fMb] - 1 ELSE data[m][i]
  BY <1>1, <1>3 DEF IInv, TypeInv
<1>5. TypeInv'
  BY <1>1, <1>4 DEF IInv, TypeInv, sched, comb, count
<1>6. CountInv'
  BY <1>1 DEF IInv, CountInv, count
<1>7. \A m \in MicroBatches : \A i \in Slots : Arrived(m, i) => Arrived(m, i)'
  <2> SUFFICES ASSUME NEW m \in MicroBatches, NEW i \in Slots, Arrived(m, i)
               PROVE  Arrived(m, i)'
    OBVIOUS
  <2>1. ~(m = fMb /\ i = i0)
    BY <1>3 DEF Arrived
  <2>2. Pending(m, i)' <=> Pending(m, i)
    BY <1>1 DEF Pending
  <2>3. QED
    BY <1>1, <1>4, <2>1, <2>2 DEF Arrived, count
<1>8. FlagInv'
  BY <1>1, <1>7 DEF IInv, FlagInv
<1>9. SendInv'
  <2> SUFFICES ASSUME NEW d \in Aivs
               PROVE  /\ fPc'[d] # "idle" => fMb' # None
                      /\ fPc'[d] = "flag" =>
                           Sending(d)' /\ (data[fMb][order[YOffset(d)]] = responded[fMb] - 1)'
                      /\ fMb' # None /\ Sending(d)' => (responded[fMb] = combined[fMb] + 1)'
    BY DEF SendInv
  <2>1. Sending(d)' = Sending(d) /\ YOffset(d)' = YOffset(d)
    BY <1>1 DEF Sending, YOffset
  <2>2. ASSUME fPc'[d] = "flag"
        PROVE  Sending(d) /\ data'[fMb][order[YOffset(d)]] = responded[fMb] - 1
    <3>1. CASE d = c
      BY <1>1, <1>3, <1>4, <3>1 DEF i0
    <3>2. CASE d # c
      <4>1. fPc[d] = "flag"
        BY <1>1, <2>2, <3>2 DEF IInv, TypeInv
      <4>2. Sending(d) /\ data[fMb][order[YOffset(d)]] = responded[fMb] - 1
        BY <4>1 DEF IInv, SendInv
      <4>3. order[YOffset(d)] \in Slots
        BY <1>2, <4>2, SlotAtHand
      <4>4. QED
        BY <1>3, <1>4, <4>2, <4>3
    <3>3. QED
      BY <3>1, <3>2
  <2>3. QED
    BY <1>1, <1>2, <2>1, <2>2 DEF IInv, SendInv, count
<1>10. Sound(tl)' /\ PlaceInv' /\ TurnInv' /\ ReadyInv' /\ ClearInv' /\ OutInv'
  BY <1>1, <1>7, FfnKeeps
<1>11. QED
  BY <1>5, <1>6, <1>8, <1>9, <1>10 DEF IInv

LEMMA WriteFlagInv ==
  ASSUME IInv, NEW c \in Aivs, WriteToken(c), fPc[c] = "flag"
  PROVE  IInv'
<1>0. PICK i0 \in Slots : i0 = order[YOffset(c)]
  BY SlotAtHand DEF IInv, SendInv
<1>1. /\ flag' = [flag EXCEPT ![fMb][i0] = 1]
      /\ fPc' = [fPc EXCEPT ![c] = "data"] /\ fIdx' = [fIdx EXCEPT ![c] = @ + 1]
      /\ UNCHANGED <<tl, data, microBatch, runFlag, sched, comb, fMb, order, responded, count>>
  BY <1>0 DEF WriteToken
<1>2. fMb # None /\ Sending(c) /\ data[fMb][i0] = responded[fMb] - 1
  BY <1>0 DEF IInv, SendInv
<1>3. /\ fMb \in MicroBatches /\ i0 \in Slots /\ Pending(fMb, i0)
      /\ sent[fMb] = combined[fMb] + 1 /\ responded[fMb] = sent[fMb]
      /\ \A d \in Aivs : \A j \in fIdx[d] .. SendNum(d, SlotNum, AivNum) - 1 :
           order[d + j * AivNum] = i0 => d = c /\ j = fIdx[c]
  BY <1>0, <1>2, SlotAtHand
<1>4. /\ flag' \in [MicroBatches -> [Slots -> {0, 1}]]
      /\ \A m \in MicroBatches : \A i \in Slots :
           flag'[m][i] = IF m = fMb /\ i = i0 THEN 1 ELSE flag[m][i]
  BY <1>1, <1>3 DEF IInv, TypeInv
<1>5. /\ fIdx' \in [Aivs -> Nat] /\ fIdx'[c] = fIdx[c] + 1
      /\ \A d \in Aivs : fIdx[d] \in Nat /\ SendNum(d, SlotNum, AivNum) \in Nat
      /\ \A d \in Aivs : d # c => fIdx'[d] = fIdx[d]
  <2>1. \A d \in Aivs : SendNum(d, SlotNum, AivNum) \in Nat
    BY SendNumType, SlotFacts, WorkerAssumption DEF Aivs
  <2>2. fIdx \in [Aivs -> Nat] /\ fIdx[c] + 1 \in Nat
    BY DEF IInv, TypeInv
  <2>3. QED
    BY <1>1, <2>1, <2>2
<1>6. TypeInv'
  BY <1>1, <1>4, <1>5 DEF IInv, TypeInv, sched, comb, count
<1>7. CountInv'
  BY <1>1 DEF IInv, CountInv, count
<1>8. \A m, i : Pending(m, i)' => Pending(m, i) /\ ~(m = fMb /\ i = i0)
  <2> SUFFICES ASSUME NEW m, NEW i, Pending(m, i)'
               PROVE  Pending(m, i) /\ ~(m = fMb /\ i = i0)
    OBVIOUS
  <2>1. fMb = m
    BY <1>1 DEF Pending
  <2>2. PICK d \in Aivs : \E j \in fIdx'[d] .. SendNum(d, SlotNum, AivNum) - 1 :
          order[d + j * AivNum] = i
    BY <1>1 DEF Pending
  <2>3. PICK j \in fIdx'[d] .. SendNum(d, SlotNum, AivNum) - 1 : order[d + j * AivNum] = i
    BY <2>2
  <2>4. j \in fIdx[d] .. SendNum(d, SlotNum, AivNum) - 1 /\ ~(d = c /\ j = fIdx[c])
    BY <1>5
  <2>5. QED
    BY <1>3, <2>1, <2>3, <2>4 DEF Pending
<1>9. \A m \in MicroBatches : \A i \in Slots : Arrived(m, i) => Arrived(m, i)'
  BY <1>1, <1>8 DEF Arrived, count
<1>10. Arrived(fMb, i0)'
  <2>1. ~Pending(fMb, i0)'
    BY <1>1, <1>8
  <2>2. sent' = sent /\ combined' = combined /\ responded' = responded /\ data' = data /\ fMb' = fMb
    BY <1>1 DEF count
  <2>3. QED
    BY <1>2, <1>3, <2>1, <2>2 DEF Arrived
<1>11. FlagInv'
  BY <1>1, <1>4, <1>9, <1>10 DEF IInv, FlagInv
<1>12. SendInv'
  <2> SUFFICES ASSUME NEW d \in Aivs
               PROVE  /\ fPc'[d] # "idle" => fMb' # None
                      /\ fPc'[d] = "flag" =>
                           Sending(d)' /\ (data[fMb][order[YOffset(d)]] = responded[fMb] - 1)'
                      /\ fMb' # None /\ Sending(d)' => (responded[fMb] = combined[fMb] + 1)'
    BY DEF SendInv
  <2>1. CASE d = c
    BY <1>1, <1>2, <1>3, <2>1 DEF IInv, TypeInv, count
  <2>2. CASE d # c
    <3>1. Sending(d)' = Sending(d) /\ YOffset(d)' = YOffset(d) /\ fPc'[d] = fPc[d]
      BY <1>1, <1>5, <2>2 DEF Sending, YOffset, IInv, TypeInv
    <3>2. QED
      BY <1>1, <3>1 DEF IInv, SendInv, count
  <2>3. QED
    BY <2>1, <2>2
<1>13. \A m \in MicroBatches : \A i \in Slots :
         /\ Arrived(m, i) => Arrived(m, i)' /\ flag'[m][i] = flag[m][i]
         /\ flag[m][i] = 1 => flag'[m][i] = 1
  BY <1>3, <1>4, <1>9 DEF Arrived
<1>14. Sound(tl)' /\ PlaceInv' /\ TurnInv' /\ ReadyInv' /\ ClearInv' /\ OutInv'
  BY <1>1, <1>13, FfnKeeps
<1>15. QED
  BY <1>6, <1>7, <1>11, <1>12, <1>14 DEF IInv

LEMMA WriteTokenInv ==
  ASSUME IInv, NEW c \in Aivs, WriteToken(c)
  PROVE  IInv'
<1>1. fPc[c] \in {"data", "flag"}
  BY DEF WriteToken
<1>2. QED
  BY <1>1, WriteDataInv, WriteFlagInv

(***************************************************************************)
(* The specification.                                                      *)
(***************************************************************************)
LEMMA InitInv ==
  ASSUME FewBlocks, Init
  PROVE  IInv
<1>1. PICK l \in Launches : tl = Tiling(RowNum, l)
  BY DEF Init
<1>2. Sound(tl)
  BY <1>1, TilingSound
<1>3. /\ MicroBatchNum \in Nat \ {0} /\ RoundNum \in Nat \ {0}
      /\ needSchedule \in BOOLEAN /\ Cores \subseteq AllCores
  BY <1>2, WorkerAssumption, CoreFacts
<1>4. /\ flag = [m \in MicroBatches |-> [i \in Slots |-> 0]]
      /\ data = [m \in MicroBatches |-> [i \in Slots |-> None]]
      /\ microBatch = MicroBatchNum - 1 /\ runFlag = 1 /\ host = "first" /\ schedMb = 0
      /\ sent = [m \in MicroBatches |-> 0] /\ combined = [m \in MicroBatches |-> 0]
      /\ responded = [m \in MicroBatches |-> 0]
      /\ pc = [c \in AllCores |-> "idle"] /\ mbId = [c \in AllCores |-> 0]
      /\ fMb = None /\ order \in Orders
      /\ fPc = [c \in Aivs |-> "idle"] /\ fIdx = [c \in Aivs |-> 0]
  BY DEF Init
<1>5. microBatch \in MicroBatches /\ 0 \in MicroBatches
  BY <1>3, <1>4 DEF MicroBatches
<1>6. TypeInv
  <2>1. None \in None .. RoundNum - 1 /\ 0 \in 0 .. RoundNum /\ 0 \in Nat
    BY <1>3 DEF None
  <2>2. /\ flag \in [MicroBatches -> [Slots -> {0, 1}]]
        /\ data \in [MicroBatches -> [Slots -> None .. RoundNum - 1]]
    BY <1>4, <2>1
  <2>3. QED
    BY <1>4, <1>5, <2>1, <2>2 DEF TypeInv, HostPlaces, Places
<1>7. CountInv
  BY <1>4 DEF CountInv
<1>8. FlagInv
  BY <1>4 DEF FlagInv
<1>9. SendInv
  BY <1>4 DEF SendInv
<1>10. PlaceInv
  BY <1>3, <1>4 DEF PlaceInv, Behind
<1>11. TurnInv
  <2>1. Combined = microBatch
    BY <1>4 DEF Combined, Moved
  <2>2. \A m \in MicroBatches : m <= microBatch
    BY <1>3, <1>4 DEF MicroBatches
  <2>3. QED
    BY <1>4, <1>5, <2>1, <2>2 DEF TurnInv
<1>12. ReadyInv /\ ClearInv /\ OutInv
  BY <1>3, <1>4 DEF ReadyInv, ClearInv, OutInv, Cleared
<1>13. QED
  BY <1>2, <1>6, <1>7, <1>8, <1>9, <1>10, <1>11, <1>12 DEF IInv

LEMMA StutterInv ==
  ASSUME IInv, UNCHANGED vars
  PROVE  IInv'
<1>1. UNCHANGED <<tl, window, microBatch, runFlag, sched, comb, ffn, count>>
  BY DEF vars
<1>2. /\ UNCHANGED <<tl, flag, data, microBatch, runFlag, host, schedMb, sent, combined>>
      /\ UNCHANGED <<pc, mbId, y, fMb, order, fPc, fIdx, responded>>
  BY <1>1 DEF window, sched, comb, ffn, count
<1>3. /\ Sound(tl)' /\ needSchedule' = needSchedule /\ Cores' = Cores /\ Behind' = Behind
      /\ Wide' = Wide /\ Cells' = Cells /\ NextMb' = NextMb /\ Combined' = Combined
      /\ \A c : /\ RowsOf(c)' = RowsOf(c) /\ BlocksOf(c)' = BlocksOf(c)
                /\ OwnSlots(c)' = OwnSlots(c)
  BY <1>2, TilingStays DEF IInv, NextMb, Combined, Moved, LastMb, needSchedule
<1>4. TypeInv'
  BY <1>2 DEF IInv, TypeInv
<1>5. CountInv' /\ FlagInv' /\ SendInv'
  BY <1>1, WindowStays DEF IInv
<1>6. PlaceInv'
  BY <1>2, <1>3 DEF IInv, PlaceInv, AllFlagged
<1>7. TurnInv'
  BY <1>2, <1>3 DEF IInv, TurnInv
<1>8. \A m, i : Arrived(m, i)' <=> Arrived(m, i)
  BY <1>1, <1>2, ArrivedStays
<1>9. ReadyInv' /\ ClearInv'
  BY <1>2, <1>3, <1>8 DEF IInv, ReadyInv, ClearInv, Cleared
<1>10. OutInv'
  BY <1>2, <1>3 DEF IInv, OutInv
<1>11. QED
  BY <1>3, <1>4, <1>5, <1>6, <1>7, <1>9, <1>10 DEF IInv

LEMMA NextInv ==
  ASSUME IInv, [Next]_vars
  PROVE  IInv'
<1>1. CASE Host
  BY <1>1, SendFirstInv, SendNextInv, ScheduleInv, CombineInv, CombineReturnInv DEF Host
<1>2. CASE Scheduler
  BY <1>2, WaitForFfnInv, TestRunFlagInv, ClearFlagsInv, NameReadyInv DEF Scheduler
<1>3. CASE Stop
  BY <1>3, StopInv
<1>4. CASE Ffn
  BY <1>4, SendReturnInv, RespondInv, WriteTokenInv DEF Ffn
<1>5. CASE Finished \/ UNCHANGED vars
  BY <1>5, StutterInv DEF Finished
<1>6. ASSUME NEW c \in AllCores, CombineCore(c)
      PROVE  IInv'
  BY <1>6, CombineInitInv, ScanTokenInfoInv, CombineRowsInv, ClearTokenInfoInv, SyncAllInv,
     CombineNameInv DEF CombineCore
<1>7. QED
  BY <1>1, <1>2, <1>3, <1>4, <1>5, <1>6 DEF Next

LEMMA Invariance ==
  ASSUME FewBlocks
  PROVE  Spec => []IInv
<1>1. Init => IInv
  BY InitInv
<1>2. IInv /\ [Next]_vars => IInv'
  BY NextInv
<1>3. QED
  BY <1>1, <1>2, PTL DEF Spec

(* Types; and the cores of a combine work on the same micro-batch, though  *)
(* each has read the context for itself: core 0 names the next one only    *)
(* behind the barrier, when all have read it.                              *)
THEOREM TypeCorrect ==
  ASSUME FewBlocks
  PROVE  Spec => []TypeOK
<1>1. ASSUME IInv
      PROVE  TypeOK
  <2>1. Cores \subseteq AllCores
    BY <1>1, CoreFacts DEF IInv
  <2>2. \A c, d \in Cores : pc[c] \notin {"idle", "init"} /\ pc[d] \notin {"idle", "init"} =>
          mbId[c] = mbId[d]
    BY <1>1, <2>1 DEF IInv, TurnInv
  <2>3. \A c \in Aivs : fPc[c] = "flag" => Sending(c)
    BY <1>1 DEF IInv, SendInv
  <2>4. QED
    BY <1>1, <2>2, <2>3 DEF IInv, TypeInv, TypeOK, Places
<1>2. QED
  BY <1>1, Invariance, PTL

(* A flag that ClearFlags or ClearTokenInfo has missed, or one written     *)
(* ahead of its data, is never found in the window: what was cleared is    *)
(* written again only for the next round.                                  *)
THEOREM FlagsCorrect ==
  ASSUME FewBlocks
  PROVE  Spec => []FlagsFresh
<1>1. IInv => FlagsFresh
  BY DEF IInv, FlagInv, Arrived, FlagsFresh
<1>2. QED
  BY <1>1, Invariance, PTL

(* The micro-batches are combined in the order in which they are sent,     *)
(* whichever of the two operators names the next one in the context.       *)
THEOREM RoundRobinCorrect ==
  ASSUME FewBlocks
  PROVE  Spec => []RoundRobin
<1>1. ASSUME IInv
      PROVE  RoundRobin
  <2>1. host \in {"wait", "next", "end"} => Combined = microBatch
    BY DEF Combined, Moved
  <2>2. QED
    BY <1>1, <2>1 DEF IInv, TurnInv, RoundRobin
<1>2. QED
  BY <1>1, Invariance, PTL

(* When the cores of a combine are done, every row in its whole hidden     *)
(* dimension is made of the results of the last round of the micro-batch   *)
(* in the context: the rows and blocks of the cores leave nothing out, and *)
(* no core has added up a result that had not arrived.                     *)
THEOREM CombineCorrect ==
  ASSUME FewBlocks
  PROVE  Spec => []CombineExact
<1>1. ASSUME IInv
      PROVE  CombineExact
  <2> SUFFICES ASSUME CombineDone, NEW cell \in Cells
               PROVE  y[cell] = [mb |-> microBatch, rounds |-> {sent[microBatch] - 1}]
    BY DEF CombineExact
  <2>1. PICK c \in Cores : cell \in RowsOf(c) \X BlocksOf(c)
    BY <1>1, CoreFacts DEF IInv
  <2>2. 0 \in Cores /\ c \in AllCores
    BY <1>1, CoreFacts DEF IInv
  <2>3. pc[0] = "done" /\ pc[c] = "done"
    BY <2>2 DEF CombineDone
  <2>4. mbId[c] = microBatch
    BY <1>1, <2>2, <2>3 DEF IInv, TurnInv
  <2>5. y[cell] = [mb |-> mbId[c], rounds |-> {sent[mbId[c]] - 1}]
    BY <1>1, <2>1, <2>3 DEF IInv, OutInv
  <2>6. QED
    BY <2>4, <2>5
<1>2. QED
  BY <1>1, Invariance, PTL
=============================================================================

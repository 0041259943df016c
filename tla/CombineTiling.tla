--------------------------- MODULE CombineTiling ---------------------------
(***************************************************************************)
(* How AttentionWorkerCombine divides a micro-batch of n rows among its    *)
(* vector cores.  A launch l has need_schedule, the cores of the device    *)
(* and the number of blocks the hidden dimension is cut into because a row *)
(* does not fit the local buffer; one block stands for the variants that   *)
(* are split by batch rows or by k.  With more blocks and few rows, the    *)
(* hidden dimension itself is divided among cores, unless the cores have   *)
(* to wait for flags.                                                      *)
(***************************************************************************)
EXTENDS WorkSplit, FiniteSetsExt

MaxCore(l) == (l.cores * 4) \div 5

SplitsHidden(n, l) ==
  /\ l.blocks > 1 /\ ~l.needSchedule
  /\ NeedCores(n, l.cores) <= MaxCore(l)

(* Cores in use when the hidden dimension is cut x-fold.                   *)
CoresOf(x, n, l) == x * NeedCores(n, l.cores \div x)

(* SelectBestHCore tries x = 2, 3, ... until enough cores are in use, and  *)
(* keeps the first x that has most of them.                                *)
Tried(n, l) ==
  {x \in 2 .. l.blocks :
     x <= MaxCore(l) /\ \A y \in 2 .. x - 1 : CoresOf(y, n, l) < MaxCore(l)}

BestTried(n, l) ==
  Min({x \in Tried(n, l) : \A y \in Tried(n, l) : CoresOf(y, n, l) <= CoresOf(x, n, l)})

(* The tiling data, H in blocks.  The loop hands back the number of cores  *)
(* of the best x, but the rows' share of the last one it has tried.        *)
Tiling(n, l) ==
  LET split == SplitsHidden(n, l) /\ Tried(n, l) # {}
      best  == IF split THEN BestTried(n, l) ELSE 1
      last  == IF split THEN Max(Tried(n, l)) ELSE 1
      parts == CeilDiv(l.blocks, CeilDiv(l.blocks, best))
  IN [needSchedule      |-> l.needSchedule,
      H                 |-> l.blocks,
      usedCoreNum       |-> CoresOf(best, n, l),
      BsSplitCoreNum    |-> NeedCores(n, l.cores \div last),
      mainCoreBsLoopNum |-> PerCore(n, l.cores \div last),
      tailCoreBsLoopNum |-> LastCore(n, l.cores \div last),
      HSplitCoreNum     |-> parts,
      mainCoreHLoopNum  |-> CeilDiv(l.blocks, best),
      tailCoreHLoopNum  |-> l.blocks - (parts - 1) * CeilDiv(l.blocks, best)]

(***************************************************************************)
(* The kernel: what core c does of a tiling t.                             *)
(***************************************************************************)
BsLoopNum(c, t) ==
  IF c \div t.HSplitCoreNum = t.BsSplitCoreNum - 1 THEN t.tailCoreBsLoopNum
                                                   ELSE t.mainCoreBsLoopNum

(* The rows and hidden blocks it adds up.                                  *)
RowsOfCore(c, t) ==
  LET first == (c \div t.HSplitCoreNum) * t.mainCoreBsLoopNum
  IN first .. first + BsLoopNum(c, t) - 1

BlocksOfCore(c, t) ==
  LET part  == c % t.HSplitCoreNum
      first == part * t.mainCoreHLoopNum
      size  == IF part = t.HSplitCoreNum - 1 THEN t.tailCoreHLoopNum ELSE t.mainCoreHLoopNum
  IN first .. first + size - 1

(* The rows whose flags it waits for and clears: their start is counted in *)
(* cores and not in groups of cores.                                       *)
FlaggedRows(c, t) ==
  LET first == c * t.mainCoreBsLoopNum IN first .. first + BsLoopNum(c, t) - 1
=============================================================================

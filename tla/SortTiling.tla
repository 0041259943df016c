---------------------------- MODULE SortTiling ----------------------------
(***************************************************************************)
(* TilingSort of FfnWorkerBatching with need_schedule = 0: how the n ids   *)
(* the scheduler hands over are divided among the sorting cores of a       *)
(* launch.  max is sortLoopMaxElement, the ids one core sorts in one loop, *)
(* and shares are multiples of align (SORT32_ALIGN_ELEMENT, which divides  *)
(* max).                                                                   *)
(***************************************************************************)
EXTENDS WorkSplit, FiniteSetsExt

(* The powers of four that a 32-bit number of ids can reach.               *)
LargestPower == 1073741824

PowersOfFour == {1, 4, 16, 64, 256, 1024, 4096, 16384, 65536, 262144, 1048576, 4194304, 16777216,
                 67108864, 268435456, LargestPower}

(* The least power of four that is not below n, for n up to LargestPower.  *)
PowerOfFourCeil(n) == Min({p \in PowersOfFour : p >= n})

(* A share rounded down, unless that leaves the last core more than a      *)
(* share rounded up: then there may be fewer cores.                        *)
FirstShare(n, max, align, cores) ==
  LET four  == PowerOfFourCeil(CeilDiv(n, max))
      need  == IF four < cores THEN four ELSE cores
      share == n \div need
      floor == (share \div align) * align
      ceil  == floor + align
  IN IF n - (need - 1) * floor > ceil
       THEN [share |-> ceil, need |-> CeilDiv(n, ceil)]
       ELSE [share |-> floor, need |-> need]

(* What the last loop of the last core gets, when it has as many loops as  *)
(* the others and all but the last of them take an aligned share.          *)
LastLoop(n, share, need, max, align) ==
  LET loops   == CeilDiv(share, max)
      rest    == n - (need - 1) * share
      perLoop == CeilDiv(CeilDiv(rest, loops), align) * align
  IN rest - (loops - 1) * perLoop

(* TilingMultiCoreSort: shares become smaller until the last loop of the   *)
(* last core has something to do.                                          *)
ListTiling(n, max, align, cores) ==
  LET first  == FirstShare(n, max, align, cores)
      Share(k) == first.share - k * align
      Ends(k)  == \/ LastLoop(n, Share(k), first.need, max, align) > 0
                  \/ Share(k + 1) <= 0
  IN [need |-> first.need,
      share |-> Share(Min({k \in 0 .. (first.share \div align) - 1 : Ends(k)}))]

(* The places of the list that core c sorts.                               *)
ListChunk(c, n, max, align, cores) ==
  LET t == ListTiling(n, max, align, cores)
  IN IF n <= max THEN IF c = 0 THEN 0 .. n - 1 ELSE {}
     ELSE IF c >= t.need THEN {}
     ELSE c * t.share .. IF c = t.need - 1 THEN n - 1 ELSE (c + 1) * t.share - 1
=============================================================================

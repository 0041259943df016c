----------------------------- MODULE WorkSplit -----------------------------
(***************************************************************************)
(* How the kernels divide n items among the vector cores of one launch.    *)
(*   - SplitToCore (AttentionToFFN, FFNToAttention): n div cores items     *)
(*     each, the first n mod cores of them one more.  Tokens are taken     *)
(*     with a stride of the number of cores, flags in contiguous chunks.   *)
(*   - TilingScanMultiCoreSort (FfnWorkerBatching): whole sessions, as many*)
(*     as fit one sort where there are cores enough.                       *)
(*   - MoeDistributeCombine sends the rows of a chunk in a permuted order. *)
(*   - CeilDiv split (FfnWorkerBatching gather, AttentionWorkerCombine):   *)
(*     chunks of CeilDiv(n, cores), the last used core takes the rest.     *)
(***************************************************************************)
EXTENDS Integers

SendNum(c, n, cores) == (n \div cores) + (IF c < n % cores THEN 1 ELSE 0)

StartId(c, n, cores) == (n \div cores) * c + (IF c < n % cores THEN c ELSE n % cores)

EndId(c, n, cores) == StartId(c, n, cores) + SendNum(c, n, cores)

(* The items of core c in a loop "item = aivId + i * aivNum".              *)
Strided(c, n, cores) == {c + i * cores : i \in 0 .. SendNum(c, n, cores) - 1}

(* The items of core c in a loop "startId .. endId - 1".                   *)
Chunk(c, n, cores) == StartId(c, n, cores) .. EndId(c, n, cores) - 1

(* The order in which a combine core sends the n rows of its chunk: from a *)
(* phase of its own, with a stride about half of n that is made odd where  *)
(* n is even.                                                              *)
PermStride(n) ==
  IF n <= 2 THEN 1
  ELSE (n \div 2) + 1 + (IF n % 2 = 0 /\ ((n \div 2) + 1) % 2 = 0 THEN 1 ELSE 0)

PermIdx(phase, j, n) == (phase + j * PermStride(n)) % n

CeilDiv(n, d) == (n + d - 1) \div d

PerCore(n, cores) == CeilDiv(n, cores)

NeedCores(n, cores) == IF PerCore(n, cores) = 0 THEN 0 ELSE CeilDiv(n, PerCore(n, cores))

LastCore(n, cores) == n - PerCore(n, cores) * (NeedCores(n, cores) - 1)

(* The items of core c when the last used core takes what is left.         *)
CeilChunk(c, n, cores) ==
  LET first == c * PerCore(n, cores)
      size  == IF c = NeedCores(n, cores) - 1 THEN LastCore(n, cores) ELSE PerCore(n, cores)
  IN IF c < NeedCores(n, cores) THEN first .. first + size - 1 ELSE {}

(* a sessions on the cores of a launch, at most m of them in one sort.     *)
SortNeed(a, m, cores) ==
  LET left == CeilDiv(a, m)
      need == CeilDiv(left, CeilDiv(left, cores))
  IN IF need < cores THEN need ELSE cores

SortPer(a, m, cores) == CeilDiv(a, SortNeed(a, m, cores))

SortLast(a, m, cores) == a - (SortNeed(a, m, cores) - 1) * SortPer(a, m, cores)

SortChunk(c, a, m, cores) ==
  LET first == c * SortPer(a, m, cores)
      size  == IF c = SortNeed(a, m, cores) - 1 THEN SortLast(a, m, cores) ELSE SortPer(a, m, cores)
  IN IF c < SortNeed(a, m, cores) THEN first .. first + size - 1 ELSE {}
=============================================================================

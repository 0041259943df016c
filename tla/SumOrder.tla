------------------------------ MODULE SumOrder ------------------------------
(***************************************************************************)
(* What the kernels do with their tables of numbers: the sum of some of    *)
(* the entries (MoeDistributeDispatch), and a list sorted by a key         *)
(* (FfnWorkerBatching).                                                    *)
(***************************************************************************)
EXTENDS Integers, FiniteSetsExt

SumOf(S, f) == MapThenSumSet(LAMBDA i : f[i], S)

(* The elements of S as a sequence, in the strict order that the pairs of  *)
(* before state.                                                           *)
InOrder(S, before) ==
  [k \in 1 .. Cardinality(S) |->
    CHOOSE x \in S : Cardinality({y \in S : <<y, x>> \in before}) = k - 1]

(* The order of numbers.                                                   *)
Below(S) == {z \in S \X S : z[1] < z[2]}
=============================================================================

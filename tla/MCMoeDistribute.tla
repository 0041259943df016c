-------------------------- MODULE MCMoeDistribute --------------------------
(***************************************************************************)
(* Instances of MoeDistribute: expert layouts of three ranks, and routings *)
(* that let a rank without tokens run ahead of the others.                 *)
(***************************************************************************)
EXTENDS MoeDistribute, TLC

None == [k \in {} |-> 0]
One(k, x) == k :> x
Both(x, y) == 0 :> x @@ 1 :> y

Batch(t0, t1) == 0 :> t0 @@ 1 :> t1
NoBatch == Batch(None, None)
Batches(r0, r1, r2) == 0 :> r0 @@ 1 :> r1 @@ 2 :> r2

(* One expert on every rank, and entries and whole tokens masked out.      *)
Plain ==
  [sharedExpertRankNum |-> 0, sharedExpertNum |-> 0, moeExpertNum |-> 3,
   expertIds |-> <<Batches(Batch(Both(2, 1), One(0, 1)), NoBatch, Batch(None, One(1, 0))),
                   Batches(NoBatch, Batch(One(0, 1), None), NoBatch),
                   Batches(Batch(One(1, 2), None), NoBatch, Batch(One(0, 1), None))>>]

(* Ranks 0 and 1 hold the same shared expert, rank 2 two others.  All the  *)
(* tokens meet on rank 2, whose first core then has two batches.           *)
Shared ==
  [sharedExpertRankNum |-> 2, sharedExpertNum |-> 1, moeExpertNum |-> 2,
   expertIds |-> <<Batches(Batch(Both(1, 0), Both(0, 1)), Batch(One(0, 1), None), NoBatch),
                   Batches(NoBatch, Batch(One(1, 1), None), Batch(None, One(0, 1)))>>]

MoeSetups == {Plain, Shared}
=============================================================================

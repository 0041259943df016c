-------------------------- MODULE MCAttentionWorker --------------------------
(***************************************************************************)
(* Instances of AttentionWorker: how the combine is launched, and orders   *)
(* in which results are listed.                                            *)
(***************************************************************************)
EXTENDS AttentionWorker

(* need_schedule on two cores, a row in one piece or in two blocks; and no *)
(* need_schedule on five cores, where the blocks of a row go to different  *)
(* cores: two groups of two, with two rows and one.                        *)
ThreeLaunches ==
  {[needSchedule |-> TRUE, cores |-> 2, blocks |-> b] : b \in {1, 2}}
  \cup {[needSchedule |-> FALSE, cores |-> 5, blocks |-> 2]}

(* As they lie in the micro-batch, and the other way round.                *)
TwoOrders == {[i \in Slots |-> i], [i \in Slots |-> SlotNum - 1 - i]}
=============================================================================

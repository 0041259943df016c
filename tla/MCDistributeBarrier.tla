------------------------ MODULE MCDistributeBarrier ------------------------
(***************************************************************************)
(* Instances of DistributeBarrier: the worlds of the rounds, and the       *)
(* numbers their ranks have.                                               *)
(***************************************************************************)
EXTENDS DistributeBarrier, FiniteSets

(* All ranks, then all but rank 1 twice, and at last rank 2 alone.         *)
ShrinkingMember ==
  [k \in Rounds |-> IF k = 1 THEN [i \in Ranks |-> i]
                    ELSE IF k <= 3 THEN [i \in 0 .. 1 |-> 2 * i]
                    ELSE [i \in {0} |-> 2]]

ShrinkingSize == [k \in Rounds |-> Cardinality(DOMAIN ShrinkingMember[k])]

CompressedIndex ==
  [k \in Rounds |-> [p \in Ranks |->
    IF \E i \in DOMAIN ShrinkingMember[k] : ShrinkingMember[k][i] = p
    THEN CHOOSE i \in DOMAIN ShrinkingMember[k] : ShrinkingMember[k][i] = p ELSE -1]]
=============================================================================

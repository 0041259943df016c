-------------------------- MODULE MCAttentionToFFN --------------------------
(***************************************************************************)
(* Instances of AttentionToFFN: which routes the rounds may have.          *)
(***************************************************************************)
EXTENDS AttentionToFFN

(* One token and masked slots behind it, or a token for the nodes in turn.  *)
FewRoutes ==
  {[i \in 0 .. n - 1 |-> (i + 1) % FfnNum] : n \in {1, SlotNum}}
=============================================================================

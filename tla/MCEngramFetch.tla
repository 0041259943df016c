--------------------------- MODULE MCEngramFetch ---------------------------
(***************************************************************************)
(* Instances of EngramFetch: what the ranks ask for.  A request is given   *)
(* by the owners of its tokens.                                            *)
(***************************************************************************)
EXTENDS EngramFetch

From(owners) == [t \in Tokens |-> owners[t + 1] * EntryNum + TokenNum - 1 - t]

(* Rank 0 asks for five rows of rank 2 in a ring of four, or for some of   *)
(* every rank; rank 1 gets rows of both others, and rank 2 owes rows to    *)
(* both.  Every two ranks exchange something in every launch.              *)
ThreeRanks ==
  (0 :> {From(<<2, 2, 2, 2, 2>>), From(<<1, 2, 0, 1, 2>>)}) @@
  (1 :> {From(<<2, 0, 1, 1, 1>>)}) @@
  (2 :> {From(<<2, 2, 2, 2, 2>>)})

(* Four rows of the other rank, in a ring of two.                          *)
TwoRanks ==
  (0 :> {From(<<1, 1, 1, 1>>)}) @@ (1 :> {From(<<0, 0, 0, 0>>), From(<<0, 0, 0, 1>>)})
=============================================================================

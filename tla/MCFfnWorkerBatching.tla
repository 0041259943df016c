------------------------ MODULE MCFfnWorkerBatching ------------------------
(***************************************************************************)
(* Instances of FfnWorkerBatching: launches, and what a session may send.  *)
(***************************************************************************)
EXTENDS FfnWorkerBatching

(* A session sends nothing, or else the first three tokens against the     *)
(* order of the experts and the second one token: one core lists up to two *)
(* tokens behind a scheduler, two cores three or four.                     *)
UnequalLoads ==
  [s \in Sessions |->
    {Empty, IF s = 0 THEN [i \in Slots |-> IF i = 0 THEN 1 ELSE 0]
                     ELSE [i \in Slots |-> IF i = 1 THEN 0 ELSE Invalid]}]

(* The window with a row of padded ids in one sort and sorted at once, and *)
(* the scheduler's list with the ids of two sessions too many for one sort.*)
ThreeLaunches ==
  {[needSchedule |-> TRUE, sortLoopMax |-> 4], [needSchedule |-> TRUE, sortLoopMax |-> 8],
   [needSchedule |-> FALSE, sortLoopMax |-> 4]}

(* The shares of a list cover it, each place once.                         *)
ASSUME SharesCoverList ==
  \A max \in {4, 8, 12}, align \in {1, 4}, num \in 2 .. 5, n \in 0 .. 70 :
    LET Share(c) == ListChunk(c, n, max, align, num) IN
    /\ UNION {Share(c) : c \in 0 .. num - 1} = 0 .. n - 1
    /\ \A c, d \in 0 .. num - 1 : c # d => Share(c) \cap Share(d) = {}
=============================================================================

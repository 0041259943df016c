---------------------------- MODULE RankBarrier ----------------------------
(***************************************************************************)
(* What distribute_barrier promises, without windows, flags or cores: a    *)
(* rank leaves a round only after every rank of the round's world has      *)
(* entered it.  A rank may give up a round it is in, and is then out.      *)
(***************************************************************************)
EXTENDS Integers

CONSTANTS
  Ranks,     \* the ranks of the communicator
  RoundNum,  \* bound: barriers in a row
  World      \* the ranks that take part in each round

VARIABLES
  entered,   \* rounds each rank has entered
  left,      \* rounds each rank has left
  timedOut   \* the ranks that gave up

Init ==
  /\ entered = [p \in Ranks |-> 0]
  /\ left = [p \in Ranks |-> 0]
  /\ timedOut = {}

Enter(p) ==
  /\ p \notin timedOut
  /\ left[p] = entered[p] /\ entered[p] < RoundNum
  /\ p \in World[entered[p] + 1]
  /\ entered' = [entered EXCEPT ![p] = @ + 1]
  /\ UNCHANGED <<left, timedOut>>

Leave(p) ==
  /\ p \notin timedOut
  /\ left[p] < entered[p]
  /\ \A q \in World[entered[p]] : entered[q] >= entered[p]
  /\ left' = [left EXCEPT ![p] = @ + 1]
  /\ UNCHANGED <<entered, timedOut>>

GiveUp(p) ==
  /\ p \notin timedOut
  /\ left[p] < entered[p]
  /\ timedOut' = timedOut \cup {p}
  /\ UNCHANGED <<entered, left>>

Next == \E p \in Ranks : Enter(p) \/ Leave(p) \/ GiveUp(p)

Spec == Init /\ [][Next]_<<entered, left, timedOut>>
=============================================================================

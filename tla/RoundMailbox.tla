---------------------------- MODULE RoundMailbox ----------------------------
(***************************************************************************)
(* What the FFN window and its scheduler promise, without flags, buffers,  *)
(* scans or threads: one mailbox per session and micro-batch.  A session   *)
(* posts a round when its last one was answered; the FFN takes the boxes   *)
(* of a whole sync group on one micro-batch in one step; one answer covers *)
(* everything taken since the last answer.                                 *)
(***************************************************************************)
EXTENDS Integers

CONSTANTS
  Sessions,      \* the attention nodes
  MicroBatches,  \* the micro-batches of each of them
  SyncGroups,    \* the partition of Sessions that is served together
  RoundNum       \* bound: rounds of each session and micro-batch

VARIABLES
  box,       \* the boxes that hold a round
  hand,      \* the rounds the FFN has taken and not answered
  sent,      \* rounds posted
  answered   \* rounds answered

Boxes == Sessions \X MicroBatches

Init ==
  /\ box = {}
  /\ hand = {}
  /\ sent = [p \in Boxes |-> 0]
  /\ answered = [p \in Boxes |-> 0]

Post(p) ==
  /\ p \notin box
  /\ sent[p] = answered[p]
  /\ sent[p] < RoundNum
  /\ box' = box \cup {p}
  /\ sent' = [sent EXCEPT ![p] = @ + 1]
  /\ UNCHANGED <<hand, answered>>

Take(g, m) ==
  /\ g \X {m} \subseteq box
  /\ \A p \in hand : p[1] \notin g
  /\ box' = box \ (g \X {m})
  /\ hand' = hand \cup (g \X {m})
  /\ UNCHANGED <<sent, answered>>

Answer ==
  /\ answered' = [p \in Boxes |-> IF p \in hand THEN answered[p] + 1 ELSE answered[p]]
  /\ hand' = {}
  /\ UNCHANGED <<box, sent>>

Next ==
  \/ \E p \in Boxes : Post(p)
  \/ \E g \in SyncGroups, m \in MicroBatches : Take(g, m)
  \/ Answer

Spec == Init /\ [][Next]_<<box, hand, sent, answered>>

(* Every round that was posted is in exactly one place: waiting in its     *)
(* box, in the hand of the FFN, or answered.                               *)
Conservation ==
  /\ box \cap hand = {}
  /\ \A p \in Boxes :
       sent[p] = answered[p] + (IF p \in box \cup hand THEN 1 ELSE 0)
=============================================================================

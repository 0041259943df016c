------------------------ MODULE MCFfnWorkerScheduler ------------------------
(***************************************************************************)
(* Instances of FfnWorkerScheduler: one worker in either of the two modes  *)
(* of the operator, told by the number of sync groups.  The mode is chosen *)
(* at the start and kept: groups of one session, each scanned and taken by *)
(* itself, or one group of all sessions that follows polling_index and may *)
(* get rounds without tokens.                                              *)
(***************************************************************************)
EXTENDS FfnWorkerScheduler

VARIABLE allSync  \* the operator runs with one group

OneGroup == INSTANCE FfnWorkerScheduler WITH
  SyncGroupSize <- SessionNum,
  Workloads <- {{}, Slots}

MCInit == Init /\ allSync \in BOOLEAN

MCOperator ==
  \/ allSync /\ (OneGroup!Operator \/ OneGroup!Respond) /\ UNCHANGED allSync
  \/ ~allSync /\ (Operator \/ Respond) /\ UNCHANGED allSync

MCShard(s) == Shard(s) /\ UNCHANGED allSync

MCAttention(s) ==
  \/ allSync /\ OneGroup!Attention(s) /\ UNCHANGED allSync
  \/ ~allSync /\ Attention(s) /\ UNCHANGED allSync

MCNext ==
  \/ MCOperator
  \/ Stop /\ UNCHANGED allSync
  \/ \E s \in Sessions : MCAttention(s)

(* The fairness of FfnWorkerScheduler in both modes.                       *)
MCSpec ==
  /\ MCInit /\ [][MCNext]_<<vars, allSync>>
  /\ WF_<<vars, allSync>>(MCOperator)
  /\ \A s \in Sessions :
       WF_<<vars, allSync>>(MCShard(s)) /\ WF_<<vars, allSync>>(MCAttention(s))

(* What one group has for all sessions: the batch that a call hands on is  *)
(* of all of them, at one layer, and polling_index stays in step.          *)
OneGroupInStep == allSync => OneGroup!AllSyncInStep /\ OneGroup!OutputFaithful

(* The mailbox of the mode: the other one is left as it is at the start.   *)
NoRounds == [p \in Pairs |-> 0]

GroupedMailbox == INSTANCE RoundMailbox WITH
  SyncGroups <- {Sessions},
  box  <- IF allSync THEN {p \in Pairs : flag[p] = 1 /\ p \notin Hand} ELSE {},
  hand <- IF allSync THEN Hand ELSE {},
  sent <- IF allSync THEN sent ELSE NoRounds,
  answered <- IF allSync THEN answered ELSE NoRounds

SingleMailbox == INSTANCE RoundMailbox WITH
  SyncGroups <- {{s} : s \in Sessions},
  box  <- IF allSync THEN {} ELSE {p \in Pairs : flag[p] = 1 /\ p \notin Hand},
  hand <- IF allSync THEN {} ELSE Hand,
  sent <- IF allSync THEN NoRounds ELSE sent,
  answered <- IF allSync THEN NoRounds ELSE answered

(* In either mode every step of window and scheduler is a step of the      *)
(* mailbox or none.                                                        *)
ImplementsMailboxes == GroupedMailbox!Spec /\ SingleMailbox!Spec
=============================================================================

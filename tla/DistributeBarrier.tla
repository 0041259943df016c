-------------------------- MODULE DistributeBarrier --------------------------
(***************************************************************************)
(* The operator mc2/distribute_barrier: all ranks of a communicator meet.  *)
(* On every rank, core 0 watches and may time out; each of the other cores *)
(* takes a chunk of the ranks, raises this rank's flag in their windows,   *)
(* waits until they have raised theirs in this rank's window, reports to   *)
(* core 0 and lowers the flags again.  The window has two halves, and a    *)
(* marker in it says which half the next launch uses.                      *)
(*                                                                         *)
(* A round is one launch on every rank of its world.  The elastic tables   *)
(* of a launch name the ranks of the world and number them; worlds only    *)
(* shrink, before a launch.  A rank that has timed out does not come back. *)
(***************************************************************************)
EXTENDS WorkSplit

CONSTANTS
  WorldSize,       \* worldSizeOriginal_
  AivNum,          \* aivNum_: the vector cores of a rank
  RoundNum,        \* bound: barriers in a row
  Size,            \* worldSize_ of each round
  Index,           \* elastic table of each round: the number of a rank
  Member,          \* elastic table of each round: the rank of a number
  TimeOutInputs    \* values of isInputTimeout_ considered

Ranks    == 0 .. WorldSize - 1
Aivs     == 0 .. AivNum - 1
SendAivs == 1 .. AivNum - 1
Rounds   == 1 .. RoundNum
Halves   == 0 .. 1
Numbers  == [k \in Rounds |-> 0 .. Size[k] - 1]

(* The ranks that take part in a round.                                    *)
World == [k \in Rounds |-> {Member[k][i] : i \in Numbers[k]}]

ASSUME BarrierAssumption ==
  /\ WorldSize \in Nat \ {0} /\ AivNum \in Nat /\ AivNum > 1 /\ RoundNum \in Nat
  /\ Size \in [Rounds -> 1 .. WorldSize]
  /\ \A k \in Rounds : \A i \in Numbers[k] :
       Member[k][i] \in Ranks /\ Index[k][Member[k][i]] = i
  /\ \A k \in Rounds : k + 1 \in Rounds => World[k + 1] \subseteq World[k]
  /\ TimeOutInputs \subseteq BOOLEAN

VARIABLES
  isInputTimeout,  \* isInputTimeout_, the same on all ranks
  stateFlag,  \* the marker of each rank: the half its next launch uses
  status,     \* per rank and half: the slots whose flag is 1.0
  finish,     \* per rank and half: the cores whose finish cell is 1.0
  pc,         \* where each core is
  idx,        \* rankIndex of the loop of SetStatus
  entered,    \* launches of each rank
  left,       \* launches of each rank that have returned
  timedOut    \* the ranks that stopped in the assertion of TimeOutTest

window == <<stateFlag, status, finish>>
vars   == <<isInputTimeout, window, pc, idx, entered, left, timedOut>>

Init ==
  /\ isInputTimeout \in TimeOutInputs
  /\ stateFlag = [p \in Ranks |-> 0]
  /\ status = [p \in Ranks |-> [h \in Halves |-> {}]]
  /\ finish = [p \in Ranks |-> [h \in Halves |-> {}]]
  /\ pc = [p \in Ranks |-> [c \in Aivs |-> "idle"]]
  /\ idx = [p \in Ranks |-> [c \in Aivs |-> 0]]
  /\ entered = [p \in Ranks |-> 0]
  /\ left = [p \in Ranks |-> 0]
  /\ timedOut = {}

(* SplitToCore: the first number and the numbers of a core's ranks.        *)
First(c, k) == StartId(c - 1, Size[k], AivNum - 1)
Last(c, k)  == EndId(c - 1, Size[k], AivNum - 1)
Share(c, k) == Chunk(c - 1, Size[k], AivNum - 1)

\* Mutant: the marker is not turned, every launch uses the same half.
UnturnedMarker(p) == stateFlag[p]

(* InitStatus leaves the other half to the next launch.                    *)
TurnedMarker(p) == 1 - stateFlag[p]

(* The half of the launch at work, from the marker it has turned.          *)
DataState(p) == 1 - stateFlag[p]

(* A core without ranks has nothing to raise and goes straight to SyncAll. *)
FirstPc(c, k) ==
  IF c = 0 THEN "watch" ELSE IF First(c, k) >= Size[k] THEN "sync" ELSE "send"

(* The host launches the operator on rank p: Init on all its cores.  Each  *)
(* core has a marker of its own; they turn together and are one here.      *)
Launch(p) ==
  /\ p \notin timedOut
  /\ left[p] = entered[p] /\ entered[p] < RoundNum
  /\ p \in World[entered[p] + 1]
  /\ entered' = [entered EXCEPT ![p] = @ + 1]
  /\ stateFlag' = [stateFlag EXCEPT ![p] = TurnedMarker(p)]
  /\ pc' = [pc EXCEPT ![p] = [c \in Aivs |-> FirstPc(c, entered[p] + 1)]]
  /\ idx' = [idx EXCEPT ![p] = [c \in Aivs |-> IF c = 0 THEN 0 ELSE First(c, entered[p] + 1)]]
  /\ UNCHANGED <<isInputTimeout, status, finish, left, timedOut>>

(* This rank's slot in the windows of the others: its number in the world. *)
MySlot(p) == Index[entered[p]][p]

At(p, c, where) == p \notin timedOut /\ pc[p][c] = where

Goto(p, c, where) == pc' = [pc EXCEPT ![p][c] = where]

(* SetStatus raises the flag in the window of the next rank of the share.  *)
SetStatus(p, c) ==
  LET q == Member[entered[p]][idx[p][c]] IN
  /\ At(p, c, "send") /\ idx[p][c] < Last(c, entered[p])
  /\ status' = [status EXCEPT ![q][DataState(p)] = @ \cup {MySlot(p)}]
  /\ idx' = [idx EXCEPT ![p][c] = @ + 1]
  /\ UNCHANGED <<isInputTimeout, stateFlag, finish, pc, entered, left, timedOut>>

\* Mutant: the last rank of the share is not counted.
AllButLastRaised(p, c) ==
  Share(c, entered[p]) \ {Last(c, entered[p]) - 1} \subseteq status[p][DataState(p)]

\* Mutant: the ranks that no longer take part are waited for.
OldWorldRaised(p, c) == Chunk(c - 1, WorldSize, AivNum - 1) \subseteq status[p][DataState(p)]

(* The sum over the flags of the core's share meets compareTarget.         *)
AllRaised(p, c) == Share(c, entered[p]) \subseteq status[p][DataState(p)]

(* The loop of SetStatus is over, the flags of the share are up, and the   *)
(* core reports to core 0.  Only this core lowers these flags, and only    *)
(* core 0 reads the cell: reading and reporting are one step.              *)
WaitStatus(p, c) ==
  /\ At(p, c, "send") /\ idx[p][c] = Last(c, entered[p])
  /\ AllRaised(p, c)
  /\ finish' = [finish EXCEPT ![p][DataState(p)] = @ \cup {c}]
  /\ Goto(p, c, "clean")
  /\ UNCHANGED <<isInputTimeout, stateFlag, status, idx, entered, left, timedOut>>

(* CleanStatus lowers the flags of the share.                              *)
CleanStatus(p, c) ==
  /\ At(p, c, "clean")
  /\ status' = [status EXCEPT ![p][DataState(p)] = @ \ Share(c, entered[p])]
  /\ Goto(p, c, "sync")
  /\ UNCHANGED <<isInputTimeout, stateFlag, finish, idx, entered, left, timedOut>>

(* usedAivNum of TimeOutTest: all sending cores, or as many as the world   *)
(* has ranks when it has fewer.                                            *)
UsedAivs(p) ==
  IF Size[entered[p]] \div (AivNum - 1) > 0 THEN SendAivs ELSE 1 .. Size[entered[p]]

\* Mutant: core 0 does not clear the cells it has counted.
CellsKept(p) == finish[p][DataState(p)]

(* The finish cells after TimeOutTest.                                     *)
CellsCleared(p) == finish[p][DataState(p)] \ UsedAivs(p)

(* Core 0 has counted all used cores.                                      *)
WatchEnds(p) ==
  /\ At(p, 0, "watch")
  /\ UsedAivs(p) \subseteq finish[p][DataState(p)]
  /\ finish' = [finish EXCEPT ![p][DataState(p)] = CellsCleared(p)]
  /\ Goto(p, 0, "sync")
  /\ UNCHANGED <<isInputTimeout, stateFlag, status, idx, entered, left, timedOut>>

(* The time is up before core 0 has left its loop: the assertion stops the *)
(* rank.  It is made after the count is read, so also when the count is    *)
(* already complete.                                                       *)
Timeout(p) ==
  /\ isInputTimeout
  /\ At(p, 0, "watch")
  /\ timedOut' = timedOut \cup {p}
  /\ pc' = [pc EXCEPT ![p] = [c \in Aivs |-> "idle"]]
  /\ UNCHANGED <<isInputTimeout, window, idx, entered, left>>

AllAtSync(p) == \A c \in Aivs : pc[p][c] = "sync"

(* SyncAll, and the launch returns.                                        *)
Return(p) ==
  /\ p \notin timedOut
  /\ AllAtSync(p)
  /\ left' = [left EXCEPT ![p] = @ + 1]
  /\ pc' = [pc EXCEPT ![p] = [c \in Aivs |-> "idle"]]
  /\ UNCHANGED <<isInputTimeout, window, idx, entered, timedOut>>

CoreStep(p, c) ==
  \/ SetStatus(p, c)
  \/ WaitStatus(p, c)
  \/ CleanStatus(p, c)

(* What runs by itself once the operator is launched.                      *)
RankStep(p) ==
  \/ \E c \in SendAivs : CoreStep(p, c)
  \/ WatchEnds(p)
  \/ Timeout(p)
  \/ Return(p)

Next == \E p \in Ranks : Launch(p) \/ RankStep(p)

(* A launched rank goes on while any of its cores, its clock or SyncAll    *)
(* can; that it launches again is the host's choice.                       *)
Fairness == \A p \in Ranks : WF_vars(RankStep(p))

Spec     == Init /\ [][Next]_vars
FairSpec == Spec /\ Fairness

(***************************************************************************)
(* Properties.                                                             *)
(***************************************************************************)

TypeOK ==
  /\ isInputTimeout \in BOOLEAN
  /\ stateFlag \in [Ranks -> Halves]
  /\ status \in [Ranks -> [Halves -> SUBSET Ranks]]
  /\ finish \in [Ranks -> [Halves -> SUBSET SendAivs]]
  /\ pc \in [Ranks -> [Aivs -> {"idle", "watch", "send", "clean", "sync"}]]
  /\ idx \in [Ranks -> [Aivs -> 0 .. WorldSize]]
  /\ entered \in [Ranks -> 0 .. RoundNum] /\ left \in [Ranks -> 0 .. RoundNum]
  /\ timedOut \subseteq Ranks

(* SetStatus writes a flag without looking at it, and the receiver lowers  *)
(* flags without looking at who raised them meanwhile: a flag about to be  *)
(* raised is always down, so no rank's arrival is swallowed.               *)
NoFlagLost ==
  \A p \in Ranks, c \in SendAivs :
    pc[p][c] = "send" /\ idx[p][c] < Last(c, entered[p]) =>
      MySlot(p) \notin status[Member[entered[p]][idx[p][c]]][DataState(p)]

(* Only core 0 looks at the clock: while a core still waits for other      *)
(* ranks, core 0 is still in its loop, whatever earlier launches have left *)
(* in the finish cells.                                                    *)
WatchedWhileWaiting ==
  \A p \in Ranks, c \in SendAivs : pc[p][c] = "send" => pc[p][0] = "watch"

(* The operator is a barrier: a rank leaves a round only after all ranks   *)
(* of its world have entered it.                                           *)
Barrier == INSTANCE RankBarrier
BarrierSpec == Barrier!Spec

(* A launch whose round all ranks have entered ends, and with a time limit *)
(* every launch ends, in a return or in the assertion.                     *)
MustEnd(p) ==
  /\ left[p] < entered[p] /\ p \notin timedOut
  /\ isInputTimeout \/ \A q \in World[entered[p]] : entered[q] >= entered[p]

BarrierEnds == \A p \in Ranks : MustEnd(p) ~> ~MustEnd(p)
=============================================================================

------------------------ MODULE MoeDistributeProofs ------------------------
(***************************************************************************)
(* Proofs about the statuses of MoeDispatch inside MoeDistribute, for      *)
(* every number of ranks, cores, tokens, experts and rounds: no status is  *)
(* lost (StatusKept), and a dispatch is a barrier (DispatchMeets).  Both   *)
(* follow from one invariant, IInv, for which it does not matter what the  *)
(* tokens are.  With a second one, DInv, about where the tokens are, a     *)
(* dispatch hands over exactly the tokens of its round (DispatchExact).    *)
(* With a third, CInv, about the rows that come back, a combine adds up    *)
(* exactly the rows of its round, for every token (CombineExact).          *)
(***************************************************************************)
EXTENDS MoeDistribute, WorkSplitProofs

(* The half of round k.                                                    *)
Half(k) == 1 - (k % 2)

(* The experts whose statuses a core sends.                                *)
ExpertShare(c) == Chunk(c, TotalExpertNum, AivNum)

(* The expert that status i of rank q is about.                            *)
ExpertOf(q, i) ==
  IF q < SharedRankNum THEN q
  ELSE SharedRankNum + (q - SharedRankNum) * ExpertPerRank + (i \div EpWorldSize)

(* Rank p has written its status of round k for expert x.                  *)
Sent(p, x, k) ==
  \/ round[p] > k
  \/ /\ round[p] = k
     /\ \A c \in Aivs : x \in ExpertShare(c) =>
          pc[p][c] # "send" /\ (pc[p][c] = "status" => x < idx[p][c])

(* Rank q has counted its status i of round k.                             *)
Counted(q, i, k) ==
  \/ round[q] > k
  \/ /\ round[q] = k
     /\ \A c \in Aivs : i \in StatusShare(q, c) => pc[q][c] \notin {"send", "status", "wait"}

(* And has lowered its flag, in the round it is in.                        *)
Lowered(q, i) ==
  \A c \in Aivs : i \in StatusShare(q, c) => pc[q][c] \notin {"send", "status", "wait", "clear"}

(***************************************************************************)
(* The inductive invariant.  A rank that has entered round k has counted   *)
(* all its statuses of round k - 1, so every rank has entered round k - 1: *)
(* the statuses in a window are those of two successive rounds, which the  *)
(* two halves keep apart.                                                  *)
(***************************************************************************)

Waits  == {"status", "wait", "clear", "cleared"}
Copies == {"copy", "dispatched"}
After  == {"rows", "flags", "gather", "add", "idle"}

IsStatus(st) == st = [flag |-> st.flag, cnt |-> st.cnt] /\ st.flag \in 0 .. 1

TypeInv ==
  /\ setup \in Setups
  /\ round \in [Ranks -> 0 .. RoundNum]
  /\ pc \in [Ranks -> [Aivs -> {"send"} \cup Waits \cup Copies \cup After]]
  /\ idx \in [Ranks -> [Aivs -> Nat]]
  /\ DOMAIN dispatchState = Ranks
  /\ \A p \in Ranks : dispatchState[p] = round[p] % 2
  /\ DOMAIN counts = Ranks
  /\ DOMAIN statusWin = Ranks
  /\ \A p \in Ranks :
       /\ DOMAIN statusWin[p] = Halves
       /\ \A h \in Halves :
            /\ DOMAIN statusWin[p][h] = Statuses(p)
            /\ \A i \in Statuses(p) : IsStatus(statusWin[p][h][i])

(* The cores of a rank pass the barriers together.                         *)
PhaseInv ==
  \A p \in Ranks :
    /\ \/ \A c \in Aivs : pc[p][c] = "send"
       \/ \A c \in Aivs : pc[p][c] \in Waits
       \/ \A c \in Aivs : pc[p][c] \in Copies
       \/ \A c \in Aivs : pc[p][c] \in After
    /\ round[p] = 0 => \A c \in Aivs : pc[p][c] = "idle"
    /\ \A c \in Aivs : pc[p][c] = "status" => idx[p][c] \in ExpertShare(c)

(* A flag that is up was raised in this round or the next.                 *)
FlagInv ==
  \A q \in Ranks : \A i \in Statuses(q) : \A k \in {round[q], round[q] + 1} :
    statusWin[q][Half(k)][i].flag = 1 => Sent(i % EpWorldSize, ExpertOf(q, i), k)

(* What a rank has counted was sent.                                       *)
CountedInv ==
  \A q \in Ranks : \A i \in Statuses(q) : \A k \in Rounds :
    Counted(q, i, k) => Sent(i % EpWorldSize, ExpertOf(q, i), k)

(* Nothing comes into the half of a round once it is lowered.              *)
LoweredInv ==
  \A q \in Ranks : \A i \in Statuses(q) :
    Lowered(q, i) => statusWin[q][Half(round[q])][i].flag = 0

(* A status that is counted stays as it was until it is lowered.           *)
ClearInv ==
  \A q \in Ranks, c \in Aivs : pc[q][c] = "clear" =>
    \A i \in StatusShare(q, c) :
      statusWin[q][Half(round[q])][i] = [flag |-> 1, cnt |-> counts[q][i]]

IInv ==
  TypeInv /\ PhaseInv /\ FlagInv /\ CountedInv /\ LoweredInv /\ ClearInv

(***************************************************************************)
(* Halves, experts, and the shares of the cores.                           *)
(***************************************************************************)

(* Two successive rounds use the two halves.                               *)
LEMMA HalfFacts ==
  ASSUME NEW k \in Nat
  PROVE  /\ k % 2 \in 0 .. 1
         /\ Half(k) \in Halves
         /\ Half(k + 1) # Half(k)
         /\ Half(k + 2) = Half(k)
         /\ (k + 1) % 2 = 1 - (k % 2)
  BY DEF Half, Halves

(* The sizes of a setup.                                                   *)
LEMMA SetupFacts ==
  ASSUME IInv
  PROVE  /\ EpWorldSize \in Nat \ {0} /\ AivNum \in Nat \ {0, 1}
         /\ SharedRankNum \in 0 .. EpWorldSize - 1
         /\ ExpertPerRank \in Nat \ {0}
         /\ setup.moeExpertNum \in Nat
         /\ setup.moeExpertNum = (EpWorldSize - SharedRankNum) * ExpertPerRank
         /\ TotalExpertNum = SharedRankNum + setup.moeExpertNum
         /\ TotalExpertNum \in Nat
         /\ EpWorldSize * ExpertPerRank \in Nat /\ EpWorldSize <= EpWorldSize * ExpertPerRank
<1> DEFINE n == EpWorldSize - SharedRankNum
           m == setup.moeExpertNum
<1>1. /\ EpWorldSize \in Nat \ {0} /\ AivNum \in Nat \ {0, 1}
      /\ SharedRankNum \in 0 .. EpWorldSize - 1
      /\ m \in Nat \ {0} /\ m % n = 0
  BY DispatchAssumption DEF IInv, TypeInv, SharedRankNum
<1>2. n \in Nat \ {0}
  BY <1>1
<1>3. ExpertPerRank = m \div n
  BY DEF ExpertPerRank
<1> HIDE DEF n, m
<1>4. ExpertPerRank \in Nat /\ m = n * ExpertPerRank
  BY <1>1, <1>2, <1>3, DivMod
<1>5. ExpertPerRank # 0
  BY <1>1, <1>2, <1>4
<1>6. EpWorldSize * ExpertPerRank \in Nat /\ EpWorldSize <= EpWorldSize * ExpertPerRank
  <2>1. EpWorldSize * ExpertPerRank >= EpWorldSize * 1
    BY <1>1, <1>4, <1>5
  <2> QED BY <1>1, <1>4, <2>1
<1>7. TotalExpertNum = SharedRankNum + m
  BY DEF TotalExpertNum, m
<1> QED BY <1>1, <1>4, <1>5, <1>6, <1>7 DEF n, m

(* Every rank has a status of every rank.                                  *)
LEMMA StatusFacts ==
  ASSUME IInv, NEW q \in Ranks
  PROVE  /\ RscvStatusNum(q) \in Nat \ {0}
         /\ \A i \in Statuses(q) : i \in Nat /\ i % EpWorldSize \in Ranks
         /\ Ranks \subseteq Statuses(q)
         /\ \A p \in Ranks : p % EpWorldSize = p
<1>1. /\ EpWorldSize \in Nat \ {0} /\ q \in Nat
      /\ EpWorldSize * ExpertPerRank \in Nat /\ EpWorldSize <= EpWorldSize * ExpertPerRank
  BY SetupFacts DEF Ranks
<1>2. RscvStatusNum(q) \in Nat /\ RscvStatusNum(q) >= EpWorldSize
  BY <1>1 DEF RscvStatusNum
<1>3. \A i \in Nat : i % EpWorldSize \in Ranks
  BY <1>1, DivMod DEF Ranks
<1>4. \A p \in Ranks : p % EpWorldSize = p
  BY <1>1 DEF Ranks
<1> QED BY <1>1, <1>2, <1>3, <1>4 DEF Statuses, Ranks

(* The status of rank p for expert x has a place of its own at the rank of *)
(* the expert: rank and place determine p and x.                           *)
LEMMA PlaceFacts ==
  ASSUME IInv, NEW p \in Ranks, NEW x \in 0 .. TotalExpertNum - 1
  PROVE  /\ StatusRank(x) \in Ranks
         /\ StatusPlace(p, x) \in Statuses(StatusRank(x))
         /\ StatusPlace(p, x) % EpWorldSize = p
         /\ ExpertOf(StatusRank(x), StatusPlace(p, x)) = x
<1> DEFINE w == EpWorldSize
           s == SharedRankNum
           e == ExpertPerRank
           y == x - s
           d == y \div e
           r == y % e
<1>1. /\ w \in Nat \ {0} /\ s \in 0 .. w - 1 /\ e \in Nat \ {0} /\ x \in Nat /\ p \in 0 .. w - 1
      /\ x < s + (w - s) * e /\ (w - s) * e \in Nat
  BY SetupFacts DEF Ranks
<1>2. CASE x < s
  <2>1. StatusRank(x) = x /\ StatusPlace(p, x) = p
    BY <1>2 DEF StatusRank, StatusPlace
  <2>2. x \in Ranks
    BY <1>1, <1>2 DEF Ranks
  <2> QED BY <1>2, <2>1, <2>2, StatusFacts DEF ExpertOf
<1>3. CASE x >= s
  <2>1. y \in Nat /\ ~(x < s)
    BY <1>1, <1>3
  <2>2. d \in Nat /\ r \in 0 .. e - 1 /\ y = e * d + r
    BY <1>1, <2>1, DivMod
  <2>3. StatusRank(x) = d + s /\ StatusPlace(p, x) = p + r * w
    BY <2>1 DEF StatusRank, StatusPlace
  <2> HIDE DEF d, r
  <2>4. d < w - s
    <3>1. SUFFICES ASSUME d >= w - s
                   PROVE  FALSE
      BY <1>1, <2>2
    <3>2. e * d >= e * (w - s)
      BY <3>1, <1>1, <2>2
    <3>3. e * (w - s) = (w - s) * e
      BY <1>1
    <3> QED BY <1>1, <2>1, <2>2, <3>2, <3>3
  <2>5. d + s \in Ranks /\ ~(d + s < s)
    BY <1>1, <2>2, <2>4 DEF Ranks
  <2>6. r * w \in Nat /\ r * w <= e * w - w /\ e * w = w * e
    <3>1. r * w <= (e - 1) * w
      BY <1>1, <2>2
    <3>2. (e - 1) * w = e * w - w
      BY <1>1
    <3> QED BY <1>1, <2>2, <3>1, <3>2
  <2>7. p + r * w \in Statuses(d + s)
    <3>1. RscvStatusNum(d + s) = w * e
      BY <2>5 DEF RscvStatusNum, IsShareExpertRank
    <3> QED BY <1>1, <2>6, <3>1 DEF Statuses
  <2>8. (p + r * w) % w = p /\ (p + r * w) \div w = r
    <3> DEFINE n == p + r * w
    <3>1. n \in Nat
      BY <1>1, <2>6
    <3>2. n = w * (n \div w) + (n % w) /\ n \div w \in Nat /\ n % w \in 0 .. w - 1
      BY <1>1, <3>1, DivMod
    <3>3. n = w * r + p
      BY <1>1, <2>2
    <3> HIDE DEF n
    <3>4. n \div w = r /\ n % w = p
      BY <1>1, <2>2, <3>2, <3>3, DivUnique
    <3> QED BY <3>4 DEF n
  <2>9. ExpertOf(d + s, p + r * w) = x
    <3>1. ExpertOf(d + s, p + r * w) = s + ((d + s) - s) * e + r
      BY <2>5, <2>8 DEF ExpertOf
    <3>2. ((d + s) - s) * e = e * d
      BY <1>1, <2>2
    <3> QED BY <1>1, <2>2, <3>1, <3>2
  <2> QED BY <2>3, <2>5, <2>7, <2>8, <2>9
<1> QED BY <1>1, <1>2, <1>3

(* Every expert and every status is in the share of one core.              *)
LEMMA ShareFacts ==
  ASSUME IInv
  PROVE  /\ \A c \in Aivs : ExpertShare(c) = FirstStatus(c) .. LastStatus(c) - 1
         /\ \A c \in Aivs : FirstStatus(c) \in Nat /\ LastStatus(c) \in Nat
         /\ \A c \in Aivs : ExpertShare(c) \subseteq 0 .. TotalExpertNum - 1
         /\ \A c, d \in Aivs : c # d => ExpertShare(c) \cap ExpertShare(d) = {}
         /\ \A q \in Ranks : \A i \in Statuses(q) : \E c \in Aivs : i \in StatusShare(q, c)
         /\ \A q \in Ranks, c \in Aivs : StatusShare(q, c) \subseteq Statuses(q)
         /\ \A q \in Ranks : \A c, d \in Aivs :
              c # d => StatusShare(q, c) \cap StatusShare(q, d) = {}
<1>1. /\ AivNum \in Nat \ {0} /\ TotalExpertNum \in Nat /\ Aivs = 0 .. AivNum - 1
      /\ \A q \in Ranks : RscvStatusNum(q) \in Nat /\ Statuses(q) = 0 .. RscvStatusNum(q) - 1
  BY SetupFacts, StatusFacts DEF Aivs, Statuses
<1>2. \A n \in Nat, c \in Aivs :
        /\ StartId(c, n, AivNum) \in Nat /\ EndId(c, n, AivNum) \in Nat
        /\ Chunk(c, n, AivNum) \subseteq 0 .. n - 1
  <2> TAKE n \in Nat, c \in Aivs
  <2>1. c \in 0 .. AivNum - 1
    BY <1>1
  <2>2. StartId(c, n, AivNum) \in Nat /\ EndId(c, n, AivNum) \in Nat /\ EndId(c, n, AivNum) <= n
    BY <1>1, <2>1, ChunkBounds
  <2> QED BY <2>2 DEF Chunk
<1>3. \A c \in Aivs : ExpertShare(c) = FirstStatus(c) .. LastStatus(c) - 1
  BY DEF ExpertShare, FirstStatus, LastStatus, Chunk
<1>4. \A c \in Aivs : /\ FirstStatus(c) \in Nat /\ LastStatus(c) \in Nat
                      /\ ExpertShare(c) \subseteq 0 .. TotalExpertNum - 1
  BY <1>1, <1>2 DEF FirstStatus, LastStatus, ExpertShare
<1>5. \A c, d \in Aivs : c # d => ExpertShare(c) \cap ExpertShare(d) = {}
  BY <1>1, ChunksDisjoint DEF ExpertShare
<1>6. \A q \in Ranks : \A i \in Statuses(q) : \E c \in Aivs : i \in StatusShare(q, c)
  BY <1>1, ChunksCover DEF StatusShare
<1>7. \A q \in Ranks, c \in Aivs : StatusShare(q, c) \subseteq Statuses(q)
  BY <1>1, <1>2 DEF StatusShare
<1>8. \A q \in Ranks : \A c, d \in Aivs :
        c # d => StatusShare(q, c) \cap StatusShare(q, d) = {}
  BY <1>1, ChunksDisjoint DEF StatusShare
<1> QED BY <1>3, <1>4, <1>5, <1>6, <1>7, <1>8

(* What depends on the setup only does not change with it.                 *)
LEMMA SetupKept ==
  ASSUME setup' = setup
  PROVE  /\ TotalExpertNum' = TotalExpertNum
         /\ \A q \in Ranks : Statuses(q)' = Statuses(q)
         /\ \A q \in Ranks, c \in Aivs : StatusShare(q, c)' = StatusShare(q, c)
         /\ \A c \in Aivs : ExpertShare(c)' = ExpertShare(c)
         /\ \A q, i : ExpertOf(q, i)' = ExpertOf(q, i)
  BY DEF TotalExpertNum, Statuses, RscvStatusNum, IsShareExpertRank, StatusShare, ExpertShare,
         ExpertOf, SharedRankNum, ExpertPerRank

(***************************************************************************)
(* What the invariant says about the rounds of two ranks.                  *)
(***************************************************************************)

(* A rank at work is in a round, and uses the half of that round.          *)
LEMMA RoundFacts ==
  ASSUME IInv, NEW p \in Ranks
  PROVE  /\ round[p] \in Nat /\ round[p] <= RoundNum
         /\ DispatchHalf(p) = Half(round[p]) /\ DispatchHalf(p) \in Halves
         /\ \A c \in Aivs : pc[p][c] # "idle" => round[p] \in Rounds
<1>1. round[p] \in 0 .. RoundNum /\ RoundNum \in Nat
  BY DispatchAssumption DEF IInv, TypeInv
<1>2. DispatchHalf(p) = Half(round[p])
  BY DEF IInv, TypeInv, DispatchHalf, Half
<1>3. \A c \in Aivs : pc[p][c] # "idle" => round[p] # 0
  BY DEF IInv, PhaseInv
<1> QED BY <1>1, <1>2, <1>3, HalfFacts DEF Rounds

(* A rank that has counted everything of a round has seen all ranks in it. *)
LEMMA CountedAll ==
  ASSUME IInv, NEW q \in Ranks, NEW k \in Rounds, \A i \in Statuses(q) : Counted(q, i, k)
  PROVE  \A p \in Ranks : round[p] >= k
<1> TAKE p \in Ranks
<1>1. p \in Statuses(q) /\ p % EpWorldSize = p
  BY StatusFacts
<1>2. Sent(p, ExpertOf(q, p), k)
  BY <1>1 DEF IInv, CountedInv
<1>3. round[p] \in Int /\ k \in Int
  BY RoundFacts DEF Rounds
<1> QED BY <1>2, <1>3 DEF Sent

(* No rank is two rounds ahead of another.                                 *)
LEMMA RoundsClose ==
  ASSUME IInv, NEW p \in Ranks, NEW q \in Ranks
  PROVE  round[q] <= round[p] + 1
<1> DEFINE k == round[q] - 1
<1>1. round[p] \in Nat /\ round[q] \in Nat /\ round[q] <= RoundNum
  BY RoundFacts
<1>2. CASE round[q] <= 1
  BY <1>1, <1>2
<1>3. CASE round[q] > 1
  <2>1. k \in Rounds /\ round[q] > k
    BY <1>1, <1>3, DispatchAssumption DEF Rounds
  <2>2. \A i \in Statuses(q) : Counted(q, i, k)
    BY <2>1 DEF Counted
  <2>3. round[p] >= k
    BY <2>1, <2>2, CountedAll
  <2> QED BY <1>1, <2>3
<1> QED BY <1>1, <1>2, <1>3

(* A core about to write a status: its receiver is in this round or the    *)
(* one before, and the place of the status is free.                        *)
LEMMA SenderFacts ==
  ASSUME IInv, NEW p \in Ranks, NEW c \in Aivs, pc[p][c] = "status"
  PROVE  LET k == round[p]
             x == idx[p][c]
             q == StatusRank(x)
             i == StatusPlace(p, x)
         IN /\ k \in Rounds /\ x \in Nat /\ x \in ExpertShare(c) /\ x \in 0 .. TotalExpertNum - 1
            /\ q \in Ranks /\ i \in Statuses(q)
            /\ i % EpWorldSize = p /\ ExpertOf(q, i) = x
            /\ ~Sent(p, x, k)
            /\ k \in {round[q], round[q] + 1}
            /\ statusWin[q][Half(k)][i].flag = 0
<1> DEFINE k == round[p]
           x == idx[p][c]
           q == StatusRank(x)
           i == StatusPlace(p, x)
<1>1. k \in Rounds
  BY RoundFacts
<1>2. x \in ExpertShare(c) /\ x \in Nat
  BY DEF IInv, PhaseInv, TypeInv
<1>3. x \in 0 .. TotalExpertNum - 1
  BY <1>2, ShareFacts
<1>4. q \in Ranks /\ i \in Statuses(q) /\ i % EpWorldSize = p /\ ExpertOf(q, i) = x
  BY <1>3, PlaceFacts
<1> HIDE DEF k, x, q, i
<1>5. ~Sent(p, x, k)
  <2>1. ~(round[p] > k) /\ ~(x < idx[p][c])
    BY <1>1, <1>2 DEF k, x, Rounds
  <2> QED BY <1>2, <2>1 DEF Sent
<1>6. k \in {round[q], round[q] + 1}
  <2>1. round[q] \in Nat /\ k \in Nat
    BY <1>1, <1>4, RoundFacts DEF Rounds
  <2>2. round[q] <= k + 1 /\ k <= round[q] + 1
    BY <1>4, RoundsClose DEF k
  <2>3. ~(round[q] > k)
    <3>1. round[q] > k => Counted(q, i, k)
      BY DEF Counted
    <3> QED BY <3>1, <1>1, <1>4, <1>5 DEF IInv, CountedInv
  <2> QED BY <2>1, <2>2, <2>3
<1>7. statusWin[q][Half(k)][i].flag = 0
  <2>1. Half(k) \in Halves
    BY <1>1, HalfFacts DEF Rounds
  <2>2. statusWin[q][Half(k)][i].flag \in 0 .. 1
    BY <2>1, <1>4 DEF IInv, TypeInv, IsStatus
  <2>3. statusWin[q][Half(k)][i].flag # 1
    BY <1>4, <1>5, <1>6 DEF IInv, FlagInv
  <2> QED BY <2>2, <2>3
<1> QED BY <1>1, <1>2, <1>3, <1>4, <1>5, <1>6, <1>7 DEF k, x, q, i

(***************************************************************************)
(* Steps that write no status.  A core is calm in a step when what it has  *)
(* sent, counted and lowered stays what it was.                            *)
(***************************************************************************)

Passed == {"cleared"} \cup Copies \cup After

Calm(p, c) ==
  \/ pc[p][c] \in Passed /\ pc'[p][c] \in Passed
  \/ pc'[p][c] = pc[p][c] /\ (pc[p][c] = "status" => idx'[p][c] = idx[p][c])
  \/ /\ pc[p][c] = "send" /\ pc'[p][c] = "status"
     /\ idx'[p][c] = FirstStatus(c)
  \/ /\ pc[p][c] = "send" /\ ExpertShare(c) = {}
     /\ pc'[p][c] = FirstWait(p, c)

(* What a calm core has sent it has sent afterwards; what it has counted   *)
(* or lowered afterwards it had before.                                    *)
LEMMA CalmCore ==
  ASSUME IInv, NEW p \in Ranks, NEW c \in Aivs, Calm(p, c)
  PROVE  /\ \A x \in ExpertShare(c) :
              (pc[p][c] # "send" /\ (pc[p][c] = "status" => x < idx[p][c])) =>
              (pc'[p][c] # "send" /\ (pc'[p][c] = "status" => x < idx'[p][c]))
         /\ StatusShare(p, c) # {} /\ pc'[p][c] \notin {"send", "status", "wait"} =>
              pc[p][c] \notin {"send", "status", "wait"}
         /\ StatusShare(p, c) # {} /\ pc'[p][c] \notin {"send", "status", "wait", "clear"} =>
              pc[p][c] \notin {"send", "status", "wait", "clear"}
         /\ pc'[p][c] = "clear" => pc[p][c] = "clear"
<1>1. CASE pc[p][c] \in Passed /\ pc'[p][c] \in Passed
  BY <1>1 DEF Passed, Copies, After
<1>2. CASE pc'[p][c] = pc[p][c] /\ (pc[p][c] = "status" => idx'[p][c] = idx[p][c])
  BY <1>2
<1>3. CASE /\ pc[p][c] = "send" /\ pc'[p][c] = "status"
           /\ idx'[p][c] = FirstStatus(c)
  BY <1>3
<1>4. CASE /\ pc[p][c] = "send" /\ ExpertShare(c) = {}
           /\ pc'[p][c] = FirstWait(p, c)
  BY <1>4 DEF FirstWait
<1> QED BY <1>1, <1>2, <1>3, <1>4 DEF Calm

(* So a step of calm cores keeps what the invariant says of the flags.     *)
LEMMA CalmStep ==
  ASSUME IInv, UNCHANGED <<setup, round, statusWin>>,
         \A p \in Ranks, c \in Aivs : Calm(p, c),
         \A p \in Ranks, c \in Aivs : pc[p][c] = "clear" => counts'[p] = counts[p]
  PROVE  FlagInv' /\ CountedInv' /\ LoweredInv' /\ ClearInv'
<1>1. /\ \A q \in Ranks : Statuses(q)' = Statuses(q)
      /\ \A q \in Ranks, c \in Aivs : StatusShare(q, c)' = StatusShare(q, c)
      /\ \A c \in Aivs : ExpertShare(c)' = ExpertShare(c)
      /\ \A q, i : ExpertOf(q, i)' = ExpertOf(q, i)
  BY SetupKept
<1>2. \A p \in Ranks : \A x, k : Sent(p, x, k) => Sent(p, x, k)'
  BY <1>1, CalmCore DEF Sent
<1>3. \A q \in Ranks : \A i, k : Counted(q, i, k)' => Counted(q, i, k)
  BY <1>1, CalmCore DEF Counted
<1>4. \A q \in Ranks : \A i : Lowered(q, i)' => Lowered(q, i)
  BY <1>1, CalmCore DEF Lowered
<1>5. \A q \in Ranks : \A i \in Statuses(q) : i % EpWorldSize \in Ranks
  BY StatusFacts
<1>6. FlagInv'
  BY <1>1, <1>2, <1>5 DEF IInv, FlagInv
<1>7. CountedInv'
  BY <1>1, <1>2, <1>3, <1>5 DEF IInv, CountedInv
<1>8. LoweredInv'
  BY <1>1, <1>4 DEF IInv, LoweredInv
<1>9. ClearInv'
  BY <1>1, CalmCore, SMTT(30) DEF IInv, ClearInv
<1> QED BY <1>6, <1>7, <1>8, <1>9

(***************************************************************************)
(* Every action preserves the invariant.                                   *)
(***************************************************************************)

Places == {"send"} \cup Waits \cup Copies \cup After

(* A calm step of the cores of one rank.                                   *)
LEMMA CalmRank ==
  ASSUME IInv, NEW p \in Ranks, UNCHANGED <<setup, round, dispatchState, statusWin, counts>>,
         pc' \in [Ranks -> [Aivs -> Places]], idx' \in [Ranks -> [Aivs -> Nat]],
         \A r \in Ranks \ {p} : pc'[r] = pc[r] /\ idx'[r] = idx[r],
         \A c \in Aivs : Calm(p, c),
         \/ \A c \in Aivs : pc'[p][c] = "send"
         \/ \A c \in Aivs : pc'[p][c] \in Waits
         \/ \A c \in Aivs : pc'[p][c] \in Copies
         \/ \A c \in Aivs : pc'[p][c] \in After,
         round[p] # 0,
         \A c \in Aivs : pc'[p][c] = "status" => idx'[p][c] \in ExpertShare(c)
  PROVE  IInv'
<1>1. \A r \in Ranks, c \in Aivs : Calm(r, c)
  <2> TAKE r \in Ranks, c \in Aivs
  <2>1. CASE r = p
    BY <2>1
  <2>2. CASE r # p
    BY <2>2 DEF Calm
  <2> QED BY <2>1, <2>2
<1>2. FlagInv' /\ CountedInv' /\ LoweredInv' /\ ClearInv'
  BY <1>1, CalmStep
<1>3. /\ \A q \in Ranks : Statuses(q)' = Statuses(q)
      /\ \A c \in Aivs : ExpertShare(c)' = ExpertShare(c)
  BY SetupKept
<1>4. TypeInv'
  BY <1>3 DEF IInv, TypeInv, Places, IsStatus
<1>5. PhaseInv'
  BY <1>3 DEF IInv, PhaseInv
<1> QED BY <1>2, <1>4, <1>5 DEF IInv

(* One core moves, between two barriers and past the statuses.             *)
LEMMA CoreMoves ==
  ASSUME IInv, NEW p \in Ranks, NEW c \in Aivs, NEW v, NEW n \in Nat,
         UNCHANGED <<setup, round, dispatchState, statusWin, counts>>,
         \/ pc[p][c] = "send" /\ v = "send"
         \/ pc[p][c] \in Copies /\ v \in Copies
         \/ pc[p][c] \in After /\ pc[p][c] # "idle" /\ v \in After,
         pc' = [pc EXCEPT ![p][c] = v],
         idx' = [idx EXCEPT ![p][c] = n]
  PROVE  IInv'
<1>1. pc \in [Ranks -> [Aivs -> Places]] /\ idx \in [Ranks -> [Aivs -> Nat]] /\ v \in Places
  BY DEF IInv, TypeInv, Places, Copies
<1>2. pc' \in [Ranks -> [Aivs -> Places]] /\ idx' \in [Ranks -> [Aivs -> Nat]]
  BY <1>1
<1>3. \A r \in Ranks \ {p} : pc'[r] = pc[r] /\ idx'[r] = idx[r]
  BY <1>1
<1>4. /\ \A d \in Aivs \ {c} : pc'[p][d] = pc[p][d] /\ idx'[p][d] = idx[p][d]
      /\ pc'[p][c] = v /\ idx'[p][c] = n
  BY <1>1
<1>5. \A d \in Aivs : Calm(p, d)
  BY <1>4 DEF Calm, Passed
<1>6. round[p] # 0
  BY RoundFacts DEF IInv, PhaseInv, Copies
<1>7. /\ \/ \A d \in Aivs : pc'[p][d] = "send"
         \/ \A d \in Aivs : pc'[p][d] \in Waits
         \/ \A d \in Aivs : pc'[p][d] \in Copies
         \/ \A d \in Aivs : pc'[p][d] \in After
      /\ \A d \in Aivs : pc'[p][d] = "status" => idx'[p][d] \in ExpertShare(d)
  BY <1>4 DEF IInv, PhaseInv, Waits, Copies, After
<1> QED BY <1>2, <1>3, <1>5, <1>6, <1>7, CalmRank

(* A token goes into a window: no status changes.                          *)
LEMMA SendTokenInv ==
  ASSUME IInv, NEW p \in Ranks, NEW c \in Aivs, SendToken(p, c)
  PROVE  IInv'
<1>1. /\ pc[p][c] = "send" /\ pc' = pc /\ idx' = [idx EXCEPT ![p][c] = idx[p][c] + 1]
      /\ UNCHANGED <<setup, round, dispatchState, statusWin, counts>>
  BY DEF SendToken, At
<1>2. pc' = [pc EXCEPT ![p][c] = "send"] /\ idx[p][c] + 1 \in Nat
  BY <1>1 DEF IInv, TypeInv
<1> QED BY <1>1, <1>2, CoreMoves

(* The tokens are copied out: no status changes.                           *)
LEMMA LocalWindowCopyInv ==
  ASSUME IInv, NEW p \in Ranks, NEW c \in Aivs, LocalWindowCopy(p, c)
  PROVE  IInv'
<1>1. /\ pc[p][c] = "copy" /\ pc' = [pc EXCEPT ![p][c] = "dispatched"] /\ idx' = idx
      /\ UNCHANGED <<setup, round, dispatchState, statusWin, counts>>
  BY DEF LocalWindowCopy, At, Goto
<1>2. idx' = [idx EXCEPT ![p][c] = idx[p][c]] /\ idx[p][c] \in Nat
  BY <1>1 DEF IInv, TypeInv
<1> QED BY <1>1, <1>2, CoreMoves DEF Copies

(* The steps of a core in combine.                                         *)
LEMMA CombineInv ==
  ASSUME IInv, NEW p \in Ranks, NEW c \in Aivs, CombineCoreStep(p, c)
  PROVE  IInv'
<1>1. idx \in [Ranks -> [Aivs -> Nat]] /\ pc \in [Ranks -> [Aivs -> Places]]
  BY DEF IInv, TypeInv, Places
<1>2. idx = [idx EXCEPT ![p][c] = idx[p][c]] /\ idx[p][c] \in Nat
  BY <1>1
<1>3. Waiting(p, c) \in After
  BY DEF Waiting, After
<1>4. CASE SendRow(p, c)
  <2>1. pc[p][c] = "rows" /\ UNCHANGED <<setup, round, dispatchState, statusWin, counts>>
    BY <1>4 DEF SendRow, At, dispatchVars
  <2>2. BatchStart(p, c) \in Nat
    <3>1. idx[p][c] \in Nat /\ SendSlotNum \in Nat \ {0}
      BY <1>1, CombineAssumption
    <3>2. idx[p][c] \div SendSlotNum \in Nat
      BY <3>1, DivMod
    <3> QED BY <3>1, <3>2 DEF BatchStart
  <2>3. CASE idx' = [idx EXCEPT ![p][c] = @ + 1] /\ pc' = pc
    <3>1. pc' = [pc EXCEPT ![p][c] = "rows"]
      BY <1>1, <2>1, <2>3
    <3>2. idx' = [idx EXCEPT ![p][c] = idx[p][c] + 1] /\ idx[p][c] + 1 \in Nat
      BY <1>1, <2>3
    <3> QED BY <2>1, <3>1, <3>2, CoreMoves DEF After
  <2>4. CASE idx' = [idx EXCEPT ![p][c] = BatchStart(p, c)] /\ Goto(p, c, "flags")
    BY <2>1, <2>2, <2>4, CoreMoves DEF After, Goto
  <2> QED BY <1>4, <2>3, <2>4 DEF SendRow
<1>5. CASE SendFlag(p, c)
  <2>1. pc[p][c] = "flags" /\ UNCHANGED <<setup, round, dispatchState, statusWin, counts>>
    BY <1>5 DEF SendFlag, At, dispatchVars
  <2>2. \E n \in Nat : idx' = [idx EXCEPT ![p][c] = n]
    <3>1. idx[p][c] + 1 \in Nat /\ 0 \in Nat
      BY <1>1
    <3> QED BY <1>5, <3>1 DEF SendFlag
  <2>3. \E v \in After : pc' = [pc EXCEPT ![p][c] = v]
    <3>1. CASE pc' = pc
      BY <1>1, <2>1, <3>1 DEF After
    <3>2. CASE pc' = [pc EXCEPT ![p][c] = "rows"]
      BY <3>2 DEF After
    <3>3. CASE pc' = [pc EXCEPT ![p][c] = Waiting(p, c)]
      BY <1>3, <3>3
    <3> QED BY <1>5, <3>1, <3>2, <3>3 DEF SendFlag, Goto
  <2>4. PICK n \in Nat : idx' = [idx EXCEPT ![p][c] = n]
    BY <2>2
  <2>5. PICK v \in After : pc' = [pc EXCEPT ![p][c] = v]
    BY <2>3
  <2>6. pc[p][c] \in After /\ pc[p][c] # "idle"
    BY <2>1 DEF After
  <2> QED BY <2>1, <2>4, <2>5, <2>6, CoreMoves
<1>6. CASE WaitDispatch(p, c)
  <2>1. /\ pc[p][c] = "gather" /\ pc' = [pc EXCEPT ![p][c] = "add"] /\ idx' = idx
        /\ UNCHANGED <<setup, round, dispatchState, statusWin, counts>>
    BY <1>6 DEF WaitDispatch, At, Goto, dispatchVars
  <2>2. idx' = [idx EXCEPT ![p][c] = idx[p][c]] /\ idx[p][c] \in Nat
    BY <1>2, <2>1
  <2> QED BY <2>1, <2>2, CoreMoves DEF After
<1>7. CASE ProcessExpert(p, c)
  <2>1. /\ pc[p][c] = "add" /\ idx' = idx
        /\ \E v \in {"idle", "gather"} : pc' = [pc EXCEPT ![p][c] = v]
        /\ UNCHANGED <<setup, round, dispatchState, statusWin, counts>>
    BY <1>7 DEF ProcessExpert, At, Goto, dispatchVars
  <2>2. idx' = [idx EXCEPT ![p][c] = idx[p][c]] /\ idx[p][c] \in Nat
    BY <1>2, <2>1
  <2>3. PICK v \in {"idle", "gather"} : pc' = [pc EXCEPT ![p][c] = v]
    BY <2>1
  <2>4. pc[p][c] \in After /\ pc[p][c] # "idle" /\ v \in After
    BY <2>1 DEF After
  <2>5. UNCHANGED <<setup, round, dispatchState, statusWin, counts>>
    BY <2>1
  <2> QED BY <2>2, <2>3, <2>4, <2>5, CoreMoves
<1> QED BY <1>4, <1>5, <1>6, <1>7 DEF CombineCoreStep
(* A rank has a core.                                                      *)
LEMMA CoreZero ==
  ASSUME IInv
  PROVE  0 \in Aivs
BY SetupFacts DEF Aivs

(* All cores of a rank move, past the statuses.                            *)
LEMMA RankMoves ==
  ASSUME IInv, NEW p \in Ranks, NEW to, to \in [Aivs -> Copies] \/ to \in [Aivs -> After],
         UNCHANGED <<setup, round, dispatchState, statusWin, counts>>,
         \A c \in Aivs : pc[p][c] \in Passed /\ pc[p][c] # "idle",
         pc' = [pc EXCEPT ![p] = to],
         idx' = idx
  PROVE  IInv'
<1>1. pc \in [Ranks -> [Aivs -> Places]] /\ idx \in [Ranks -> [Aivs -> Nat]]
  BY DEF IInv, TypeInv, Places
<1>2. to \in [Aivs -> Places]
  BY DEF Places
<1>3. pc' \in [Ranks -> [Aivs -> Places]] /\ idx' \in [Ranks -> [Aivs -> Nat]]
  BY <1>1, <1>2
<1>4. pc'[p] = to /\ \A r \in Ranks \ {p} : pc'[r] = pc[r] /\ idx'[r] = idx[r]
  BY <1>1
<1>5. \A c \in Aivs : to[c] \in Passed /\ to[c] # "status"
  BY DEF Passed, Copies, After
<1>6. \A c \in Aivs : Calm(p, c)
  BY <1>4, <1>5 DEF Calm
<1>7. round[p] # 0
  BY CoreZero DEF IInv, PhaseInv
<1>8. (\A c \in Aivs : pc'[p][c] \in Copies) \/ (\A c \in Aivs : pc'[p][c] \in After)
  BY <1>4
<1> QED BY <1>3, <1>4, <1>5, <1>6, <1>7, <1>8, CalmRank

(* The barriers: all cores of a rank go on together.                       *)
LEMMA SyncSentInv ==
  ASSUME IInv, NEW p \in Ranks, SyncSent(p)
  PROVE  IInv'
<1> DEFINE to(c) == IF FirstStatus(c) < LastStatus(c) THEN "status" ELSE FirstWait(p, c)
<1>1. /\ \A c \in Aivs : pc[p][c] = "send"
      /\ pc' = [pc EXCEPT ![p] = [c \in Aivs |-> to(c)]]
      /\ idx' = [idx EXCEPT ![p] =
           [c \in Aivs |-> IF FirstStatus(c) < LastStatus(c) THEN FirstStatus(c) ELSE 0]]
      /\ UNCHANGED <<setup, round, dispatchState, statusWin, counts>>
  BY DEF SyncSent, AllTokensSent, At, GotoAll, dispatchVars
<1>2. \A c \in Aivs : /\ FirstStatus(c) \in Nat /\ LastStatus(c) \in Nat
                      /\ ExpertShare(c) = FirstStatus(c) .. LastStatus(c) - 1
  BY ShareFacts
<1>3. \A c \in Aivs : FirstWait(p, c) \in {"cleared", "wait"}
  BY DEF FirstWait
<1>4. \A c \in Aivs : to(c) \in Waits
  BY <1>3 DEF Waits
<1>5. \A c \in Aivs : to(c) = "status" =>
        FirstStatus(c) \in ExpertShare(c) /\ FirstStatus(c) < LastStatus(c)
  BY <1>2, <1>3
<1>6. \A c \in Aivs : to(c) = "status" \/ (ExpertShare(c) = {} /\ to(c) = FirstWait(p, c))
  BY <1>2
<1> HIDE DEF to
<1> DEFINE at == [c \in Aivs |-> IF FirstStatus(c) < LastStatus(c) THEN FirstStatus(c) ELSE 0]
<1>7. pc \in [Ranks -> [Aivs -> Places]] /\ idx \in [Ranks -> [Aivs -> Nat]]
  BY DEF IInv, TypeInv, Places
<1>7a. /\ at \in [Aivs -> Nat] /\ idx' = [idx EXCEPT ![p] = at]
       /\ \A c \in Aivs : to(c) = "status" => at[c] = FirstStatus(c)
  BY <1>1, <1>2, <1>5
<1> HIDE DEF at
<1>8. pc' \in [Ranks -> [Aivs -> Places]] /\ idx' \in [Ranks -> [Aivs -> Nat]]
  BY <1>1, <1>4, <1>7, <1>7a DEF Places
<1>9. /\ \A c \in Aivs : pc'[p][c] = to(c) /\ (to(c) = "status" => idx'[p][c] = FirstStatus(c))
      /\ \A r \in Ranks \ {p} : pc'[r] = pc[r] /\ idx'[r] = idx[r]
  BY <1>1, <1>7, <1>7a
<1>10. \A c \in Aivs : Calm(p, c)
  BY <1>1, <1>5, <1>6, <1>9 DEF Calm
<1>11. round[p] # 0
  BY <1>1, CoreZero DEF IInv, PhaseInv
<1> QED BY <1>1, <1>4, <1>5, <1>8, <1>9, <1>10, <1>11, CalmRank

(* The SyncAll after the flags are lowered.                                *)
LEMMA SyncClearedInv ==
  ASSUME IInv, NEW p \in Ranks, SyncCleared(p)
  PROVE  IInv'
<1> DEFINE to == [c \in Aivs |-> IF StatusShare(p, c) = {} THEN "dispatched" ELSE "copy"]
<1>1. /\ \A c \in Aivs : pc[p][c] = "cleared"
      /\ pc' = [pc EXCEPT ![p] = to]
      /\ idx' = idx
      /\ UNCHANGED <<setup, round, dispatchState, statusWin, counts>>
  BY DEF SyncCleared, AllAt, GotoAll, dispatchVars
<1>2. to \in [Aivs -> Copies]
  BY DEF Copies
<1> HIDE DEF to
<1> QED BY <1>1, <1>2, RankMoves DEF Passed

(* Combine starts.                                                         *)
LEMMA StartCombineInv ==
  ASSUME IInv, NEW p \in Ranks, StartCombine(p)
  PROVE  IInv'
<1> DEFINE to == [c \in Aivs |-> IF SendCntNum(p, c) = 0 THEN Waiting(p, c) ELSE "rows"]
<1>1. /\ \A c \in Aivs : pc[p][c] = "dispatched"
      /\ pc' = [pc EXCEPT ![p] = to]
      /\ idx' = idx
      /\ UNCHANGED <<setup, round, dispatchState, statusWin, counts>>
  BY DEF StartCombine, AllAt, GotoAll, dispatchVars
<1>2. to \in [Aivs -> After]
  BY DEF Waiting, After
<1> HIDE DEF to
<1> QED BY <1>1, <1>2, RankMoves DEF Passed, Copies
(* A status is written: its place was free and becomes the sender's.       *)
LEMMA SetStatusInv ==
  ASSUME IInv, NEW p \in Ranks, NEW c \in Aivs, SetStatus(p, c)
  PROVE  IInv'
<1>0. PICK k, x, r, j : /\ k = round[p] /\ x = idx[p][c]
                         /\ r = StatusRank(x) /\ j = StatusPlace(p, x)
  OBVIOUS
<1> DEFINE st == [flag |-> 1, cnt |-> StatusCnt(p, x)]
<1>1. /\ pc[p][c] = "status"
      /\ UNCHANGED <<setup, round, dispatchState, counts>>
      /\ statusWin' = [statusWin EXCEPT ![r][DispatchHalf(p)][j] = st]
      /\ \/ x + 1 < LastStatus(c) /\ idx' = [idx EXCEPT ![p][c] = x + 1] /\ pc' = pc
         \/ /\ ~(x + 1 < LastStatus(c)) /\ idx' = [idx EXCEPT ![p][c] = 0]
            /\ pc' = [pc EXCEPT ![p][c] = FirstWait(p, c)]
  BY <1>0, SMTT(30) DEF SetStatus, At, Goto
<1>2. /\ k \in Rounds /\ x \in Nat /\ x \in ExpertShare(c)
      /\ r \in Ranks /\ j \in Statuses(r)
      /\ j % EpWorldSize = p /\ ExpertOf(r, j) = x
      /\ ~Sent(p, x, k)
      /\ k \in {round[r], round[r] + 1}
      /\ statusWin[r][Half(k)][j].flag = 0
  BY <1>0, <1>1, SenderFacts
<1>3. DispatchHalf(p) = Half(k) /\ Half(k) \in Halves
  BY <1>0, RoundFacts
<1>4. pc \in [Ranks -> [Aivs -> Places]] /\ idx \in [Ranks -> [Aivs -> Nat]]
  BY DEF IInv, TypeInv, Places
<1>5. FirstWait(p, c) \in {"wait", "cleared"} /\ (StatusShare(p, c) # {} => FirstWait(p, c) = "wait")
  BY DEF FirstWait
<1>6. /\ \A q \in Ranks : Statuses(q)' = Statuses(q)
      /\ \A q \in Ranks, d \in Aivs : StatusShare(q, d)' = StatusShare(q, d)
      /\ \A d \in Aivs : ExpertShare(d)' = ExpertShare(d)
      /\ \A q, i : ExpertOf(q, i)' = ExpertOf(q, i)
  BY <1>1, SetupKept
<1> HIDE DEF st
<1>7. /\ pc' \in [Ranks -> [Aivs -> Places]] /\ idx' \in [Ranks -> [Aivs -> Nat]]
      /\ \A q \in Ranks, d \in Aivs : q # p \/ d # c => pc'[q][d] = pc[q][d] /\ idx'[q][d] = idx[q][d]
      /\ \/ pc'[p][c] = "status" /\ idx'[p][c] = x + 1 /\ x + 1 < LastStatus(c)
         \/ ~(x + 1 < LastStatus(c)) /\ pc'[p][c] = FirstWait(p, c)
  <2>1. FirstWait(p, c) \in Places /\ x + 1 \in Nat
    BY <1>2, <1>5 DEF Places, Waits
  <2>2. CASE x + 1 < LastStatus(c) /\ idx' = [idx EXCEPT ![p][c] = x + 1] /\ pc' = pc
    BY <1>1, <1>4, <2>1, <2>2
  <2>3. CASE /\ ~(x + 1 < LastStatus(c)) /\ idx' = [idx EXCEPT ![p][c] = 0]
             /\ pc' = [pc EXCEPT ![p][c] = FirstWait(p, c)]
    BY <1>1, <1>4, <2>1, <2>3
  <2> QED BY <1>1, <2>2, <2>3
<1>8. /\ DOMAIN statusWin' = Ranks
      /\ \A q \in Ranks : DOMAIN statusWin'[q] = Halves
      /\ \A q \in Ranks, h \in Halves : DOMAIN statusWin'[q][h] = Statuses(q)
      /\ \A q \in Ranks, h \in Halves : \A i \in Statuses(q) :
           statusWin'[q][h][i] =
             IF q = r /\ h = Half(k) /\ i = j THEN st ELSE statusWin[q][h][i]
  BY <1>1, <1>2, <1>3 DEF IInv, TypeInv
<1>9. IsStatus(st) /\ st.flag = 1
  BY DEF st, IsStatus
<1>10. TypeInv'
  <2>1. \A q \in Ranks, h \in Halves : \A i \in Statuses(q) : IsStatus(statusWin'[q][h][i])
    BY <1>8, <1>9 DEF IInv, TypeInv
  <2>2. \A q \in Ranks, h \in Halves : \A i \in Statuses(q) : IsStatus(statusWin[q][h][i])'
    BY <2>1 DEF IsStatus
  <2> QED BY <1>1, <1>6, <1>7, <1>8, <2>2 DEF IInv, TypeInv, Places
<1>11. PhaseInv'
  <2>1. pc'[p][c] \in Waits /\ pc[p][c] \in Waits
    BY <1>1, <1>5, <1>7 DEF Waits
  <2>2. \A d \in Aivs : pc[p][d] \in Waits
    BY <2>1 DEF IInv, PhaseInv, Waits, Copies, After
  <2>3. pc'[p][c] = "status" => idx'[p][c] \in ExpertShare(c)
    <3>1. ExpertShare(c) = FirstStatus(c) .. LastStatus(c) - 1 /\ FirstStatus(c) \in Nat /\ LastStatus(c) \in Nat
      BY ShareFacts
    <3> QED BY <1>2, <1>5, <1>7, <3>1
  <2>4. \A d \in Aivs : pc'[p][d] \in Waits
    BY <1>7, <2>1, <2>2
  <2>5. round[p] # 0
    BY <1>1 DEF IInv, PhaseInv
  <2>6. ASSUME NEW q \in Ranks, q # p
        PROVE  pc'[q] = pc[q] /\ \A d \in Aivs : idx'[q][d] = idx[q][d]
    BY <1>4, <1>7, <2>6
  <2>7. \A d \in Aivs : pc'[p][d] = "status" => idx'[p][d] \in ExpertShare(d)
    BY <1>7, <2>3 DEF IInv, PhaseInv
  <2> QED BY <1>1, <1>6, <2>4, <2>5, <2>6, <2>7 DEF IInv, PhaseInv
<1>12. ASSUME NEW q \in Ranks, NEW y, NEW m, Sent(q, y, m)
       PROVE  Sent(q, y, m)'
  <2>1. ASSUME NEW d \in Aivs, y \in ExpertShare(d),
               pc[q][d] # "send", pc[q][d] = "status" => y < idx[q][d]
        PROVE  pc'[q][d] # "send" /\ (pc'[q][d] = "status" => y < idx'[q][d])
    <3>1. y \in Int
      BY <2>1, ShareFacts, SetupFacts
    <3>2. CASE q = p /\ d = c
      BY <1>0, <1>1, <1>2, <1>5, <1>7, <2>1, <3>1, <3>2
    <3>3. CASE q # p \/ d # c
      BY <1>7, <2>1, <3>3
    <3> QED BY <3>2, <3>3
  <2> QED BY <1>1, <1>6, <1>12, <2>1 DEF Sent
<1>13. Sent(p, x, k)'
  <2>1. round'[p] = k
    BY <1>0, <1>1
  <2>2. \A d \in Aivs : x \in ExpertShare(d) => d = c
    BY <1>2, ShareFacts
  <2>3. pc'[p][c] # "send" /\ (pc'[p][c] = "status" => x < idx'[p][c])
    BY <1>2, <1>5, <1>7
  <2> QED BY <1>6, <2>1, <2>2, <2>3 DEF Sent
<1>14. \A q \in Ranks : \A i, m : Counted(q, i, m)' => Counted(q, i, m)
  BY <1>1, <1>5, <1>6, <1>7 DEF Counted
<1>15. \A q \in Ranks : \A i : Lowered(q, i)' => Lowered(q, i)
  BY <1>1, <1>5, <1>6, <1>7 DEF Lowered
<1>16. \A q \in Ranks : \A i \in Statuses(q) : i % EpWorldSize \in Ranks
  BY StatusFacts
<1>17. FlagInv'
  <2> SUFFICES ASSUME NEW q \in Ranks, NEW i \in Statuses(q), NEW m \in {round[q], round[q] + 1},
                      statusWin'[q][Half(m)][i].flag = 1
               PROVE  Sent(i % EpWorldSize, ExpertOf(q, i), m)'
    BY <1>1, <1>6 DEF FlagInv
  <2>1. Half(m) \in Halves
    BY RoundFacts, HalfFacts
  <2>2. CASE q = r /\ Half(m) = Half(k) /\ i = j
    <3>1. m = k
      BY <1>2, <2>2, RoundFacts, HalfFacts
    <3> QED BY <1>2, <1>6, <1>13, <2>2, <3>1
  <2>3. CASE ~(q = r /\ Half(m) = Half(k) /\ i = j)
    <3>1. statusWin[q][Half(m)][i].flag = 1
      BY <1>8, <2>1, <2>3
    <3>2. Sent(i % EpWorldSize, ExpertOf(q, i), m)
      BY <3>1 DEF IInv, FlagInv
    <3> QED BY <1>6, <1>12, <1>16, <3>2
  <2> QED BY <2>2, <2>3
<1>18. CountedInv'
  BY <1>6, <1>12, <1>14, <1>16 DEF IInv, CountedInv
<1>19. LoweredInv'
  <2> SUFFICES ASSUME NEW q \in Ranks, NEW i \in Statuses(q), Lowered(q, i)
               PROVE  statusWin'[q][Half(round[q])][i].flag = 0
    BY <1>1, <1>6, <1>15 DEF LoweredInv
  <2>1. Half(round[q]) \in Halves
    BY RoundFacts
  <2>2. CASE q = r /\ Half(round[q]) = Half(k) /\ i = j
    <3>1. round[q] = k
      BY <1>2, <2>2, RoundFacts, HalfFacts
    <3>2. Counted(q, i, k)
      BY <3>1 DEF Counted, Lowered
    <3> QED BY <1>2, <2>2, <3>2 DEF IInv, CountedInv
  <2>3. CASE ~(q = r /\ Half(round[q]) = Half(k) /\ i = j)
    BY <1>8, <2>1, <2>3 DEF IInv, LoweredInv
  <2> QED BY <2>2, <2>3
<1>20. ClearInv'
  <2> SUFFICES ASSUME NEW q \in Ranks, NEW d \in Aivs, pc[q][d] = "clear",
                      NEW i \in StatusShare(q, d)
               PROVE  statusWin'[q][Half(round[q])][i] = [flag |-> 1, cnt |-> counts[q][i]]
    BY <1>1, <1>5, <1>6, <1>7 DEF ClearInv
  <2>1. Half(round[q]) \in Halves /\ i \in Statuses(q)
    BY RoundFacts, ShareFacts
  <2>2. statusWin[q][Half(round[q])][i] = [flag |-> 1, cnt |-> counts[q][i]]
    BY DEF IInv, ClearInv
  <2>3. ~(q = r /\ Half(round[q]) = Half(k) /\ i = j)
    BY <1>2, <2>2
  <2> QED BY <1>8, <2>1, <2>2, <2>3
<1> QED BY <1>10, <1>11, <1>17, <1>18, <1>19, <1>20 DEF IInv

(* The statuses of a share are counted: their flags are all up.            *)
LEMMA WaitStatusInv ==
  ASSUME IInv, NEW p \in Ranks, NEW c \in Aivs, WaitStatus(p, c)
  PROVE  IInv'
<1> DEFINE k == round[p]
<1>1. /\ pc[p][c] = "wait" /\ pc' = [pc EXCEPT ![p][c] = "clear"]
      /\ \A i \in StatusShare(p, c) : statusWin[p][DispatchHalf(p)][i].flag = 1
      /\ UNCHANGED <<setup, round, idx, dispatchState, statusWin>>
      /\ counts' = [counts EXCEPT ![p] =
           [i \in Statuses(p) |-> IF i \in StatusShare(p, c)
                                  THEN statusWin[p][DispatchHalf(p)][i].cnt ELSE counts[p][i]]]
  BY DEF WaitStatus, At, Goto
<1>2. DispatchHalf(p) = Half(k) /\ Half(k) \in Halves
  BY RoundFacts
<1>3. pc \in [Ranks -> [Aivs -> Places]] /\ DOMAIN counts = Ranks
  BY DEF IInv, TypeInv, Places
<1>4. /\ pc' \in [Ranks -> [Aivs -> Places]] /\ pc'[p][c] = "clear"
      /\ \A q \in Ranks, d \in Aivs : q # p \/ d # c => pc'[q][d] = pc[q][d]
  BY <1>1, <1>3 DEF Places, Waits
<1>5. /\ \A q \in Ranks : Statuses(q)' = Statuses(q)
      /\ \A q \in Ranks, d \in Aivs : StatusShare(q, d)' = StatusShare(q, d)
      /\ \A d \in Aivs : ExpertShare(d)' = ExpertShare(d)
      /\ \A q, i : ExpertOf(q, i)' = ExpertOf(q, i)
  BY <1>1, SetupKept
<1>6. /\ DOMAIN counts' = Ranks
      /\ \A q \in Ranks \ {p} : counts'[q] = counts[q]
      /\ \A i \in Statuses(p) : counts'[p][i] =
           IF i \in StatusShare(p, c) THEN statusWin[p][Half(k)][i].cnt ELSE counts[p][i]
  BY <1>1, <1>2, <1>3
<1>7. /\ \A i \in StatusShare(p, c) : i \in Statuses(p)
      /\ \A d \in Aivs \ {c} : StatusShare(p, c) \cap StatusShare(p, d) = {}
  BY ShareFacts
<1>8. \A i \in StatusShare(p, c) : statusWin[p][Half(k)][i].flag = 1
  BY <1>1, <1>2
<1>9. \A q \in Ranks : \A y, m : Sent(q, y, m) => Sent(q, y, m)'
  BY <1>1, <1>4, <1>5 DEF Sent
<1>10. \A q \in Ranks : \A i \in Statuses(q) : i % EpWorldSize \in Ranks
  BY StatusFacts
<1>11. TypeInv'
  BY <1>1, <1>4, <1>5, <1>6 DEF IInv, TypeInv, Places, IsStatus
<1>12. PhaseInv'
  <2>1. \A d \in Aivs : pc[p][d] \in Waits
    BY <1>1 DEF IInv, PhaseInv, Waits, Copies, After
  <2>2. \A d \in Aivs : pc'[p][d] \in Waits
    BY <1>4, <2>1 DEF Waits
  <2>3. round[p] # 0
    BY <1>1 DEF IInv, PhaseInv
  <2> QED BY <1>1, <1>4, <1>5, <2>2, <2>3 DEF IInv, PhaseInv
<1>13. FlagInv'
  BY <1>1, <1>5, <1>9, <1>10 DEF IInv, FlagInv
<1>14. CountedInv'
  <2> SUFFICES ASSUME NEW q \in Ranks, NEW i \in Statuses(q), NEW m \in Rounds, Counted(q, i, m)'
               PROVE  Sent(i % EpWorldSize, ExpertOf(q, i), m)
    BY <1>5, <1>9, <1>10 DEF CountedInv
  <2>1. CASE q = p /\ m = k /\ i \in StatusShare(p, c)
    BY <1>8, <2>1 DEF IInv, FlagInv
  <2>2. CASE ~(q = p /\ m = k /\ i \in StatusShare(p, c))
    <3>1. Counted(q, i, m)
      BY <1>1, <1>4, <1>5, <2>2 DEF Counted
    <3> QED BY <3>1 DEF IInv, CountedInv
  <2> QED BY <2>1, <2>2
<1>15. LoweredInv'
  <2>1. \A q \in Ranks : \A i : Lowered(q, i)' => Lowered(q, i)
    BY <1>4, <1>5 DEF Lowered
  <2> QED BY <1>1, <1>5, <2>1 DEF IInv, LoweredInv
<1>16. ClearInv'
  <2> SUFFICES ASSUME NEW q \in Ranks, NEW d \in Aivs, pc'[q][d] = "clear",
                      NEW i \in StatusShare(q, d)
               PROVE  statusWin[q][Half(round[q])][i] = [flag |-> 1, cnt |-> counts'[q][i]]
    BY <1>1, <1>5, SMTT(30) DEF ClearInv
  <2>1. CASE q = p /\ d = c
    <3>1. statusWin[p][Half(k)][i].flag = 1 /\ counts'[p][i] = statusWin[p][Half(k)][i].cnt
      BY <1>6, <1>7, <1>8, <2>1
    <3>2. IsStatus(statusWin[p][Half(k)][i])
      BY <1>2, <1>7, <2>1 DEF IInv, TypeInv
    <3> QED BY <2>1, <3>1, <3>2 DEF IsStatus
  <2>2. CASE ~(q = p /\ d = c)
    <3>1. pc[q][d] = "clear"
      BY <1>4, <2>2
    <3>2. counts'[q][i] = counts[q][i]
      <4>1. CASE q # p
        BY <1>6, <4>1
      <4>2. CASE q = p
        <5>1. d # c /\ i \notin StatusShare(p, c)
          BY <1>7, <2>2, <4>2
        <5>2. i \in Statuses(p)
          BY <4>2, ShareFacts
        <5> QED BY <1>6, <4>2, <5>1, <5>2
      <4> QED BY <4>1, <4>2
    <3> QED BY <3>1, <3>2 DEF IInv, ClearInv
  <2> QED BY <2>1, <2>2
<1> QED BY <1>11, <1>12, <1>13, <1>14, <1>15, <1>16 DEF IInv
(* The flags of a share are lowered.                                       *)
LEMMA ClearStatusInv ==
  ASSUME IInv, NEW p \in Ranks, NEW c \in Aivs, ClearStatus(p, c)
  PROVE  IInv'
<1>0. PICK k : k = round[p]
  OBVIOUS
<1> DEFINE low(i) == [flag |-> 0, cnt |-> counts[p][i]]
<1>1. /\ pc[p][c] = "clear" /\ pc' = [pc EXCEPT ![p][c] = "cleared"]
      /\ UNCHANGED <<setup, round, idx, dispatchState, counts>>
  BY DEF ClearStatus, At, Goto
<1>2. DispatchHalf(p) = Half(k) /\ Half(k) \in Halves
  BY <1>0, RoundFacts
<1>3. pc \in [Ranks -> [Aivs -> Places]]
  BY DEF IInv, TypeInv, Places
<1>4. /\ pc' \in [Ranks -> [Aivs -> Places]] /\ pc'[p][c] = "cleared"
      /\ \A q \in Ranks, d \in Aivs : q # p \/ d # c => pc'[q][d] = pc[q][d]
  BY <1>1, <1>3 DEF Places, Waits
<1>5. /\ \A q \in Ranks : Statuses(q)' = Statuses(q)
      /\ \A q \in Ranks, d \in Aivs : StatusShare(q, d)' = StatusShare(q, d)
      /\ \A d \in Aivs : ExpertShare(d)' = ExpertShare(d)
      /\ \A q, i : ExpertOf(q, i)' = ExpertOf(q, i)
  BY <1>1, SetupKept
<1>6. /\ DOMAIN statusWin' = Ranks
      /\ \A q \in Ranks : DOMAIN statusWin'[q] = Halves
      /\ \A q \in Ranks, h \in Halves : DOMAIN statusWin'[q][h] = Statuses(q)
      /\ \A i \in Statuses(p) : i \in StatusShare(p, c) => statusWin'[p][Half(k)][i] = low(i)
      /\ \A q \in Ranks, h \in Halves : \A i \in Statuses(q) :
           ~(q = p /\ h = Half(k) /\ i \in StatusShare(p, c)) =>
             statusWin'[q][h][i] = statusWin[q][h][i]
  <2>1. statusWin' = [statusWin EXCEPT ![p][Half(k)] =
          [i \in Statuses(p) |-> IF i \in StatusShare(p, c) THEN low(i)
                                 ELSE statusWin[p][Half(k)][i]]]
    BY <1>2 DEF ClearStatus, StatusCleared
  <2> HIDE DEF low
  <2> QED BY <1>2, <2>1 DEF IInv, TypeInv
<1>7. \A i : IsStatus(low(i)) /\ low(i).flag = 0
  BY DEF IsStatus
<1> HIDE DEF low
<1>8. \A d \in Aivs \ {c} : StatusShare(p, c) \cap StatusShare(p, d) = {}
  BY ShareFacts
<1>9. \A q \in Ranks : \A y, m : Sent(q, y, m) => Sent(q, y, m)'
  BY <1>1, <1>4, <1>5 DEF Sent
<1>10. \A q \in Ranks : \A i, m : Counted(q, i, m)' => Counted(q, i, m)
  BY <1>1, <1>4, <1>5 DEF Counted
<1>11. \A q \in Ranks : \A i \in Statuses(q) : i % EpWorldSize \in Ranks
  BY StatusFacts
<1>12. TypeInv'
  <2>1. ASSUME NEW q \in Ranks, NEW h \in Halves, NEW i \in Statuses(q)
        PROVE  IsStatus(statusWin'[q][h][i])
    <3>1. CASE q = p /\ h = Half(k) /\ i \in StatusShare(p, c)
      BY <1>6, <1>7, <3>1
    <3>2. CASE ~(q = p /\ h = Half(k) /\ i \in StatusShare(p, c))
      <4>1. statusWin'[q][h][i] = statusWin[q][h][i]
        BY <1>6, <3>2
      <4> QED BY <4>1 DEF IInv, TypeInv
    <3> QED BY <3>1, <3>2
  <2>2. \A q \in Ranks, h \in Halves : \A i \in Statuses(q) : IsStatus(statusWin[q][h][i])'
    BY <2>1 DEF IsStatus
  <2> QED BY <1>1, <1>4, <1>5, <1>6, <2>2 DEF IInv, TypeInv, Places
<1>13. PhaseInv'
  <2>1. \A d \in Aivs : pc[p][d] \in Waits
    BY <1>1 DEF IInv, PhaseInv, Waits, Copies, After
  <2>2. \A d \in Aivs : pc'[p][d] \in Waits
    BY <1>4, <2>1 DEF Waits
  <2>3. round[p] # 0
    BY <1>1 DEF IInv, PhaseInv
  <2> QED BY <1>1, <1>4, <1>5, <2>2, <2>3 DEF IInv, PhaseInv
<1>14. FlagInv'
  <2> SUFFICES ASSUME NEW q \in Ranks, NEW i \in Statuses(q), NEW m \in {round[q], round[q] + 1},
                      statusWin'[q][Half(m)][i].flag = 1
               PROVE  Sent(i % EpWorldSize, ExpertOf(q, i), m)
    BY <1>1, <1>5, <1>9, <1>11 DEF FlagInv
  <2>1. Half(m) \in Halves
    BY RoundFacts, HalfFacts
  <2>2. statusWin'[q][Half(m)][i] = statusWin[q][Half(m)][i]
    BY <1>6, <1>7, <2>1
  <2> QED BY <2>2 DEF IInv, FlagInv
<1>15. CountedInv'
  BY <1>5, <1>9, <1>10, <1>11 DEF IInv, CountedInv
<1>16. LoweredInv'
  <2> SUFFICES ASSUME NEW q \in Ranks, NEW i \in Statuses(q), Lowered(q, i)'
               PROVE  statusWin'[q][Half(round[q])][i].flag = 0
    BY <1>1, <1>5 DEF LoweredInv
  <2>1. Half(round[q]) \in Halves
    BY RoundFacts
  <2>2. CASE q = p /\ i \in StatusShare(p, c)
    BY <1>0, <1>2, <1>6, <1>7, <2>2
  <2>3. CASE ~(q = p /\ i \in StatusShare(p, c))
    <3>1. Lowered(q, i)
      BY <1>4, <1>5, <2>3 DEF Lowered
    <3>2. statusWin'[q][Half(round[q])][i] = statusWin[q][Half(round[q])][i]
      BY <1>6, <2>1, <2>3
    <3> QED BY <3>1, <3>2 DEF IInv, LoweredInv
  <2> QED BY <2>2, <2>3
<1>17. ClearInv'
  <2> SUFFICES ASSUME NEW q \in Ranks, NEW d \in Aivs, pc'[q][d] = "clear",
                      NEW i \in StatusShare(q, d)
               PROVE  statusWin'[q][Half(round[q])][i] = [flag |-> 1, cnt |-> counts[q][i]]
    BY <1>1, <1>5 DEF ClearInv
  <2>1. (q # p \/ d # c) /\ pc[q][d] = "clear"
    BY <1>4
  <2>2. Half(round[q]) \in Halves /\ i \in Statuses(q)
    BY RoundFacts, ShareFacts
  <2>3. ~(q = p /\ i \in StatusShare(p, c))
    BY <1>8, <2>1
  <2>4. statusWin'[q][Half(round[q])][i] = statusWin[q][Half(round[q])][i]
    BY <1>6, <2>2, <2>3
  <2> QED BY <2>1, <2>4 DEF IInv, ClearInv
<1> QED BY <1>12, <1>13, <1>14, <1>15, <1>16, <1>17 DEF IInv

(* A rank enters its next round: the half it leaves is empty.              *)
LEMMA NextRoundInv ==
  ASSUME IInv, NEW p \in Ranks, NextRound(p)
  PROVE  IInv'
<1>0. PICK k : k = round[p]
  OBVIOUS
<1>1. /\ \A c \in Aivs : pc[p][c] = "idle"
      /\ round[p] < Len(setup.expertIds)
      /\ round' = [round EXCEPT ![p] = k + 1]
      /\ dispatchState' = [dispatchState EXCEPT ![p] = 1 - dispatchState[p]]
      /\ pc' = [pc EXCEPT ![p] = [c \in Aivs |-> "send"]]
      /\ counts' = [counts EXCEPT ![p] = [i \in Statuses(p) |-> 0]]
      /\ UNCHANGED <<setup, idx, statusWin>>
  BY <1>0 DEF NextRound, StartDispatch, AllAt, GotoAll, TurnedMarker
<1>2. pc \in [Ranks -> [Aivs -> Places]] /\ round \in [Ranks -> 0 .. RoundNum]
  BY DEF IInv, TypeInv, Places
<1>3. /\ \A c \in Aivs : pc'[p][c] = "send"
      /\ \A q \in Ranks \ {p} : pc'[q] = pc[q]
      /\ pc' \in [Ranks -> [Aivs -> Places]]
  BY <1>1, <1>2 DEF Places
<1>4. /\ k \in Nat /\ round'[p] = k + 1
      /\ \A q \in Ranks \ {p} : round'[q] = round[q]
      /\ k + 1 \in 0 .. RoundNum /\ round' \in [Ranks -> 0 .. RoundNum]
  <2>1. Len(setup.expertIds) \in 0 .. RoundNum /\ RoundNum \in Nat
    BY DispatchAssumption DEF IInv, TypeInv
  <2>2. k \in Nat
    BY <1>0, RoundFacts
  <2>3. k + 1 \in 0 .. RoundNum
    BY <1>0, <1>1, <2>1, <2>2
  <2> QED BY <1>1, <1>2, <2>2, <2>3
<1>5. /\ \A q \in Ranks : Statuses(q)' = Statuses(q)
      /\ \A q \in Ranks, d \in Aivs : StatusShare(q, d)' = StatusShare(q, d)
      /\ \A d \in Aivs : ExpertShare(d)' = ExpertShare(d)
      /\ \A q, i : ExpertOf(q, i)' = ExpertOf(q, i)
  BY <1>1, SetupKept
<1>6. \A q \in Ranks, m \in Int : \A y : Sent(q, y, m) => Sent(q, y, m)'
  <2> TAKE q \in Ranks, m \in Int
  <2>1. CASE q = p
    <3> SUFFICES ASSUME round[p] > m \/ round[p] = m
                 PROVE  round'[p] > m
      BY <2>1 DEF Sent
    <3> QED BY <1>0, <1>4
  <2>2. CASE q # p
    BY <1>1, <1>3, <1>4, <1>5, <2>2 DEF Sent
  <2> QED BY <2>1, <2>2
<1>7. \A q \in Ranks : \A i \in Statuses(q) : i % EpWorldSize \in Ranks
  BY StatusFacts
<1>8. TypeInv'
  <2>1. \A q \in Ranks : dispatchState'[q] = round'[q] % 2
    <3>1. dispatchState[p] = k % 2 /\ (k + 1) % 2 = 1 - (k % 2)
      BY <1>0, <1>4, HalfFacts DEF IInv, TypeInv
    <3> QED BY <1>1, <1>4, <3>1 DEF IInv, TypeInv
  <2> QED BY <1>1, <1>3, <1>4, <1>5, <2>1 DEF IInv, TypeInv, Places, IsStatus
<1>9. PhaseInv'
  <2>1. ASSUME NEW q \in Ranks
        PROVE  /\ \/ \A c \in Aivs : pc'[q][c] = "send"
                  \/ \A c \in Aivs : pc'[q][c] \in Waits
                  \/ \A c \in Aivs : pc'[q][c] \in Copies
                  \/ \A c \in Aivs : pc'[q][c] \in After
               /\ round'[q] = 0 => \A c \in Aivs : pc'[q][c] = "idle"
               /\ \A c \in Aivs : pc'[q][c] = "status" => idx'[q][c] \in ExpertShare(c)
    <3>1. CASE q = p
      BY <1>3, <1>4, <3>1
    <3>2. CASE q # p
      BY <1>1, <1>3, <1>4, <3>2 DEF IInv, PhaseInv
    <3> QED BY <3>1, <3>2
  <2> QED BY <1>5, <2>1 DEF PhaseInv
<1>10. \A i \in Statuses(p) : Lowered(p, i)
  BY <1>1 DEF Lowered
<1>11. FlagInv'
  <2> SUFFICES ASSUME NEW q \in Ranks, NEW i \in Statuses(q), NEW m \in {round'[q], round'[q] + 1},
                      statusWin[q][Half(m)][i].flag = 1
               PROVE  Sent(i % EpWorldSize, ExpertOf(q, i), m)
    BY <1>1, <1>4, <1>5, <1>6, <1>7 DEF FlagInv
  <2>1. CASE q = p /\ m = k + 2
    <3>1. Half(m) = Half(k)
      BY <1>4, <2>1, HalfFacts
    <3> QED BY <1>0, <1>10, <2>1, <3>1 DEF IInv, LoweredInv
  <2>2. CASE ~(q = p /\ m = k + 2)
    <3>1. m \in {round[q], round[q] + 1}
      BY <1>0, <1>4, <2>2
    <3> QED BY <3>1 DEF IInv, FlagInv
  <2> QED BY <2>1, <2>2
<1>12. CountedInv'
  <2> SUFFICES ASSUME NEW q \in Ranks, NEW i \in Statuses(q), NEW m \in Rounds, Counted(q, i, m)'
               PROVE  Sent(i % EpWorldSize, ExpertOf(q, i), m)
    BY <1>5, <1>6, <1>7 DEF CountedInv, Rounds
  <2>1. Counted(q, i, m)
    <3>1. CASE q = p
      <4>1. PICK c \in Aivs : i \in StatusShare(p, c)
        BY <3>1, ShareFacts
      <4>2. round'[p] > m
        BY <1>3, <1>5, <3>1, <4>1 DEF Counted
      <4>3. k > m \/ k = m
        BY <1>4, <4>2 DEF Rounds
      <4> QED BY <1>0, <1>1, <3>1, <4>3 DEF Counted
    <3>2. CASE q # p
      BY <1>3, <1>4, <1>5, <3>2 DEF Counted
    <3> QED BY <3>1, <3>2
  <2> QED BY <2>1 DEF IInv, CountedInv
<1>13. LoweredInv'
  <2> SUFFICES ASSUME NEW q \in Ranks, NEW i \in Statuses(q), Lowered(q, i)'
               PROVE  statusWin[q][Half(round'[q])][i].flag = 0
    BY <1>1, <1>5 DEF LoweredInv
  <2>1. q # p
    <3>1. CASE q = p
      <4>1. PICK c \in Aivs : i \in StatusShare(p, c)
        BY <3>1, ShareFacts
      <4> QED BY <1>3, <1>5, <3>1, <4>1 DEF Lowered
    <3> QED BY <3>1
  <2>2. Lowered(q, i)
    BY <1>3, <1>5, <2>1 DEF Lowered
  <2> QED BY <1>4, <2>1, <2>2 DEF IInv, LoweredInv
<1>14. ClearInv'
  <2>1. DOMAIN counts = Ranks
    BY DEF IInv, TypeInv
  <2> QED BY <1>1, <1>3, <1>4, <1>5, <2>1 DEF IInv, ClearInv
<1> QED BY <1>8, <1>9, <1>11, <1>12, <1>13, <1>14 DEF IInv

(* At first all flags are down.                                            *)
LEMMA InitInv ==
  Init => IInv
<1> SUFFICES ASSUME Init
             PROVE  IInv
  OBVIOUS
<1>1. /\ setup \in Setups
      /\ round = [p \in Ranks |-> 0]
      /\ pc = [p \in Ranks |-> [c \in Aivs |-> "idle"]]
      /\ idx = [p \in Ranks |-> [c \in Aivs |-> 0]]
      /\ dispatchState = [p \in Ranks |-> 0]
      /\ statusWin = [p \in Ranks |-> [h \in Halves |->
           [i \in Statuses(p) |-> [flag |-> 0, cnt |-> 0]]]]
      /\ counts = [p \in Ranks |-> [i \in Statuses(p) |-> 0]]
  BY DEF Init, DispatchInit
<1>2. Half(0) \in Halves /\ Half(1) \in Halves
  BY HalfFacts
<1>3. TypeInv
  BY <1>1, DispatchAssumption DEF TypeInv, IsStatus, After
<1>4. PhaseInv
  BY <1>1 DEF PhaseInv, After
<1>5. FlagInv
  BY <1>1, <1>2 DEF FlagInv
<1>6. CountedInv
  BY <1>1 DEF CountedInv, Counted, Rounds
<1>7. LoweredInv
  BY <1>1, <1>2 DEF LoweredInv
<1>8. ClearInv
  BY <1>1 DEF ClearInv
<1> QED BY <1>3, <1>4, <1>5, <1>6, <1>7, <1>8 DEF IInv

(* The steps together.                                                     *)
LEMMA StepInv ==
  IInv /\ [Next]_vars => IInv'
<1> SUFFICES ASSUME IInv, [Next]_vars
             PROVE  IInv'
  OBVIOUS
<1>1. CASE UNCHANGED vars
  <2>1. UNCHANGED <<setup, round, pc, idx, dispatchState, statusWin, counts>>
    BY <1>1 DEF vars, dispatchVars
  <2>2. \A p \in Ranks, c \in Aivs : Calm(p, c)
    BY <2>1 DEF Calm
  <2>3. FlagInv' /\ CountedInv' /\ LoweredInv' /\ ClearInv'
    BY <2>1, <2>2, CalmStep
  <2>4. /\ \A q \in Ranks : Statuses(q)' = Statuses(q)
        /\ \A c \in Aivs : ExpertShare(c)' = ExpertShare(c)
    BY <2>1, SetupKept
  <2>5. TypeInv' /\ PhaseInv'
    BY <2>1, <2>4 DEF IInv, TypeInv, PhaseInv, IsStatus
  <2> QED BY <2>3, <2>5 DEF IInv
<1>2. CASE Next
  <2>1. PICK p \in Ranks : RankStep(p)
    BY <1>2 DEF Next
  <2>2. CASE NextRound(p)
    BY <2>2, NextRoundInv
  <2>3. CASE DispatchStep(p)
    BY <2>3, SyncSentInv, SyncClearedInv, SendTokenInv, SetStatusInv, WaitStatusInv,
       ClearStatusInv, LocalWindowCopyInv DEF DispatchStep, DispatchCoreStep
  <2>4. CASE StartCombine(p)
    BY <2>4, StartCombineInv
  <2>5. CASE \E c \in Aivs : CombineCoreStep(p, c)
    BY <2>5, CombineInv
  <2> QED BY <2>1, <2>2, <2>3, <2>4, <2>5 DEF RankStep
<1> QED BY <1>1, <1>2
(* The invariant holds throughout.                                         *)
THEOREM InvariantHolds == Spec => []IInv
BY InitInv, StepInv, PTL DEF Spec

(* StatusNotLost, for every number of ranks, cores, experts and rounds: a  *)
(* status is written over a flag that is down, and what WaitDispatch       *)
(* lowers is what it has counted.                                          *)
THEOREM StatusKept == Spec => []StatusNotLost
<1>1. IInv => StatusNotLost
  <2> SUFFICES ASSUME IInv, NEW p \in Ranks, NEW c \in Aivs
               PROVE  /\ pc[p][c] = "status" =>
                           statusWin[StatusRank(idx[p][c])][DispatchHalf(p)]
                                    [StatusPlace(p, idx[p][c])].flag = 0
                      /\ pc[p][c] = "clear" =>
                           \A i \in StatusShare(p, c) :
                             statusWin[p][DispatchHalf(p)][i] = [flag |-> 1, cnt |-> counts[p][i]]
    BY DEF StatusNotLost
  <2>1. DispatchHalf(p) = Half(round[p])
    BY RoundFacts
  <2>2. CASE pc[p][c] = "status"
    BY <2>1, <2>2, SenderFacts
  <2>3. CASE pc[p][c] = "clear"
    BY <2>1, <2>3 DEF IInv, ClearInv
  <2> QED BY <2>2, <2>3
<1> QED BY <1>1, InvariantHolds, PTL

(***************************************************************************)
(* A dispatch is a barrier.                                                *)
(***************************************************************************)

(* A step of a rank in a round: once the dispatch has ended it stays so,   *)
(* and when it ends all statuses of the round are counted.                 *)
LEMMA DispatchEnds ==
  ASSUME IInv, NEW p \in Ranks,
         DispatchStep(p) \/ StartCombine(p) \/ \E c \in Aivs : CombineCoreStep(p, c)
  PROVE  /\ round' = round /\ \A q \in Ranks \ {p} : Dispatched(q)' = Dispatched(q)
         /\ round[p] # 0
         /\ Dispatched(p) => Dispatched(p)'
         /\ ~Dispatched(p) /\ Dispatched(p)' => \A i \in Statuses(p) : Counted(p, i, round[p])
<1>1. pc \in [Ranks -> [Aivs -> Places]] /\ round[p] \in Nat
  BY RoundFacts DEF IInv, TypeInv, Places
<1>2. 0 \in Aivs
  BY CoreZero
<1>3. ASSUME round' = round, \A q \in Ranks \ {p} : pc'[q] = pc[q]
      PROVE  round' = round /\ \A q \in Ranks \ {p} : Dispatched(q)' = Dispatched(q)
  BY <1>3 DEF Dispatched, Combining, AllAt
<1>4. ASSUME NEW c \in Aivs, pc[p][c] \in {"send"} \cup Waits
      PROVE  round[p] # 0 /\ ~Dispatched(p)
  BY <1>4 DEF IInv, PhaseInv, Dispatched, Combining, AllAt, Waits
<1>5. ASSUME NEW c \in Aivs, pc'[p][c] \in {"send"} \cup Waits
      PROVE  ~Dispatched(p)'
  BY <1>5 DEF Dispatched, Combining, AllAt, Waits
<1>6. CASE \E c \in Aivs : SendToken(p, c)
  <2>1. PICK c \in Aivs : SendToken(p, c)
    BY <1>6
  <2>2. pc' = pc /\ round' = round /\ pc[p][c] = "send"
    BY <2>1 DEF SendToken, At
  <2> QED BY <1>3, <1>4, <1>5, <2>2
<1>7. CASE SyncSent(p)
  <2>1. /\ pc[p][0] = "send" /\ round' = round
        /\ pc' = [pc EXCEPT ![p] = [c \in Aivs |->
             IF FirstStatus(c) < LastStatus(c) THEN "status" ELSE FirstWait(p, c)]]
    BY <1>2, <1>7 DEF SyncSent, AllTokensSent, At, GotoAll
  <2>2. FirstWait(p, 0) \in Waits /\ "status" \in Waits
    BY DEF FirstWait, Waits
  <2>3. pc'[p][0] \in Waits /\ \A q \in Ranks \ {p} : pc'[q] = pc[q]
    BY <1>1, <1>2, <2>1, <2>2
  <2> QED BY <1>2, <1>3, <1>4, <1>5, <2>1, <2>3
<1>8. CASE \E c \in Aivs : SetStatus(p, c) \/ WaitStatus(p, c) \/ ClearStatus(p, c)
  <2>1. PICK c \in Aivs : SetStatus(p, c) \/ WaitStatus(p, c) \/ ClearStatus(p, c)
    BY <1>8
  <2>2. pc[p][c] \in Waits /\ round' = round
    BY <2>1 DEF SetStatus, WaitStatus, ClearStatus, At, Waits
  <2>3. PICK v \in Waits : pc' = [pc EXCEPT ![p][c] = v]
    <3>1. FirstWait(p, c) \in Waits /\ "clear" \in Waits /\ "cleared" \in Waits
      BY DEF FirstWait, Waits
    <3>2. pc = [pc EXCEPT ![p][c] = pc[p][c]]
      BY <1>1
    <3> QED BY <2>1, <2>2, <3>1, <3>2 DEF SetStatus, WaitStatus, ClearStatus, Goto
  <2>4. pc'[p][c] \in Waits /\ \A q \in Ranks \ {p} : pc'[q] = pc[q]
    BY <1>1, <2>3
  <2> QED BY <1>3, <1>4, <1>5, <2>2, <2>4
<1>9. CASE SyncCleared(p)
  <2>1. /\ \A c \in Aivs : pc[p][c] = "cleared"
        /\ round' = round /\ \A q \in Ranks \ {p} : pc'[q] = pc[q]
    BY <1>1, <1>9 DEF SyncCleared, AllAt, GotoAll
  <2>2. round[p] # 0 /\ ~Dispatched(p)
    BY <1>2, <1>4, <2>1 DEF Waits
  <2>3. \A i \in Statuses(p) : Counted(p, i, round[p])
    BY <2>1 DEF Counted
  <2> QED BY <1>3, <2>1, <2>2, <2>3
<1>10. CASE \E c \in Aivs : LocalWindowCopy(p, c)
  <2>1. PICK c \in Aivs : LocalWindowCopy(p, c)
    BY <1>10
  <2>2. pc[p][c] = "copy" /\ round' = round /\ pc' = [pc EXCEPT ![p][c] = "dispatched"]
    BY <2>1 DEF LocalWindowCopy, At, Goto
  <2>3. \A d \in Aivs : pc[p][d] \in Copies
    BY <2>2 DEF IInv, PhaseInv, Waits, Copies, After
  <2>4. round[p] # 0 /\ ~Dispatched(p)
    BY <2>2 DEF IInv, PhaseInv, Dispatched, Combining, AllAt
  <2>5. \A i \in Statuses(p) : Counted(p, i, round[p])
    BY <2>3 DEF Counted, Copies
  <2>6. \A q \in Ranks \ {p} : pc'[q] = pc[q]
    BY <1>1, <2>2
  <2> QED BY <1>3, <2>2, <2>4, <2>5, <2>6
<1>11. CASE StartCombine(p)
  <2>1. /\ \A c \in Aivs : pc[p][c] = "dispatched"
        /\ round' = round /\ \A q \in Ranks \ {p} : pc'[q] = pc[q]
        /\ pc'[p] = [c \in Aivs |-> IF SendCntNum(p, c) = 0 THEN Waiting(p, c) ELSE "rows"]
    BY <1>1, <1>11 DEF StartCombine, AllAt, GotoAll
  <2>2. \A c \in Aivs : pc'[p][c] \in After
    BY <2>1 DEF Waiting, After
  <2>3. round[p] # 0
    BY <1>2, <2>1 DEF IInv, PhaseInv
  <2>4. Dispatched(p) /\ Dispatched(p)'
    BY <1>1, <2>1, <2>2, <2>3 DEF Dispatched, Combining, AllAt, After
  <2> QED BY <1>3, <2>1, <2>3, <2>4
<1>12. CASE \E c \in Aivs : CombineCoreStep(p, c)
  <2>1. PICK c \in Aivs : CombineCoreStep(p, c)
    BY <1>12, SMTT(30)
  <2>2. pc[p][c] \in After /\ pc[p][c] # "idle" /\ round' = round
    BY <2>1 DEF CombineCoreStep, SendRow, SendFlag, WaitDispatch, ProcessExpert, At, After
  <2>3. PICK v \in After : pc' = [pc EXCEPT ![p][c] = v]
    <3>1. pc = [pc EXCEPT ![p][c] = pc[p][c]]
      BY <1>1
    <3>2. Waiting(p, c) \in After /\ "flags" \in After /\ "rows" \in After /\ "add" \in After
          /\ "idle" \in After /\ "gather" \in After
      BY DEF Waiting, After
    <3>3. CASE pc' = pc
      BY <2>2, <3>1, <3>3
    <3>4. CASE \E w \in After : Goto(p, c, w)
      BY <3>4 DEF Goto
    <3>5. pc' = pc \/ \E w \in After : Goto(p, c, w)
      <4>1. CASE SendRow(p, c)
        BY <3>2, <4>1 DEF SendRow
      <4>2. CASE SendFlag(p, c)
        BY <3>2, <4>2 DEF SendFlag
      <4>3. CASE WaitDispatch(p, c)
        BY <3>2, <4>3 DEF WaitDispatch
      <4>4. CASE ProcessExpert(p, c)
        BY <3>2, <4>4 DEF ProcessExpert
      <4> QED BY <2>1, <4>1, <4>2, <4>3, <4>4 DEF CombineCoreStep
    <3> QED BY <3>3, <3>4, <3>5
  <2>4. \A d \in Aivs : pc[p][d] \in After
    BY <2>2 DEF IInv, PhaseInv, Waits, Copies, After
  <2>5. round[p] # 0
    BY <2>2 DEF IInv, PhaseInv
  <2>6. /\ \A d \in Aivs : pc'[p][d] \in After
        /\ \A q \in Ranks \ {p} : pc'[q] = pc[q]
    BY <1>1, <2>3, <2>4
  <2>7. Dispatched(p) /\ Dispatched(p)'
    BY <1>1, <2>2, <2>4, <2>5, <2>6 DEF Dispatched, Combining, After
  <2> QED BY <1>3, <2>2, <2>5, <2>6, <2>7
<1> QED BY <1>6, <1>7, <1>8, <1>9, <1>10, <1>11, <1>12 DEF DispatchStep, DispatchCoreStep

(* DispatchIsBarrier: MoeDistribute implements RankBarrier, where a rank   *)
(* has left a round when its dispatch has ended: when it copies the tokens *)
(* out, every rank has been in the round to send its statuses.             *)
THEOREM DispatchMeets == Spec => DispatchIsBarrier
<1> DEFINE left == [p \in Ranks |-> IF round[p] = 0 \/ Dispatched(p) THEN round[p] ELSE round[p] - 1]
           World == [k \in Rounds |-> Ranks]
           timedOut == {}
<1>1. Init => DispatchBarrier!Init
  BY DEF Init, DispatchInit, DispatchBarrier!Init
<1>2. IInv /\ [Next]_vars => [DispatchBarrier!Next]_<<round, left, timedOut>>
  <2> SUFFICES ASSUME IInv, [Next]_vars
               PROVE  DispatchBarrier!Next \/ UNCHANGED <<round, left, timedOut>>
    OBVIOUS
  <2>1. CASE UNCHANGED vars
    BY <2>1 DEF vars, Dispatched, Combining, AllAt
  <2>2. ASSUME NEW p \in Ranks, NextRound(p)
        PROVE  DispatchBarrier!Next
    <3>1. /\ \A c \in Aivs : pc[p][c] = "idle"
          /\ round[p] < Len(setup.expertIds)
          /\ round' = [round EXCEPT ![p] = round[p] + 1]
          /\ pc' = [pc EXCEPT ![p] = [c \in Aivs |-> "send"]]
      BY <2>2 DEF NextRound, StartDispatch, AllAt, GotoAll
    <3>2. /\ round \in [Ranks -> 0 .. RoundNum] /\ DOMAIN pc = Ranks
          /\ Len(setup.expertIds) \in 0 .. RoundNum /\ RoundNum \in Nat
      BY DispatchAssumption DEF IInv, TypeInv
    <3>3. left[p] = round[p]
      BY <3>1, <3>2 DEF Dispatched, Combining
    <3>4. round[p] \in Nat /\ round[p] < RoundNum /\ round'[p] = round[p] + 1
      BY <3>1, <3>2
    <3>5. ~Dispatched(p)'
      BY <3>1, <3>2, CoreZero DEF Dispatched, Combining, AllAt
    <3>6. left'[p] = left[p]
      BY <3>3, <3>4, <3>5
    <3>7. \A q \in Ranks \ {p} : left'[q] = left[q]
      BY <3>1, <3>2 DEF Dispatched, Combining, AllAt
    <3>8. left' = left
      BY <3>6, <3>7
    <3>9. p \in World[round[p] + 1]
      <4>1. round[p] + 1 \in Rounds
        BY <3>2, <3>4 DEF Rounds
      <4> QED BY <4>1
    <3> QED BY <3>1, <3>3, <3>4, <3>8, <3>9 DEF DispatchBarrier!Next, DispatchBarrier!Enter
  <2>3. ASSUME NEW p \in Ranks,
               DispatchStep(p) \/ StartCombine(p) \/ \E c \in Aivs : CombineCoreStep(p, c)
        PROVE  DispatchBarrier!Next \/ UNCHANGED <<round, left, timedOut>>
    <3>1. /\ round' = round /\ \A q \in Ranks \ {p} : Dispatched(q)' = Dispatched(q)
          /\ round[p] # 0
          /\ Dispatched(p) => Dispatched(p)'
          /\ ~Dispatched(p) /\ Dispatched(p)' => \A i \in Statuses(p) : Counted(p, i, round[p])
      BY <2>3, DispatchEnds
    <3>2. CASE Dispatched(p)' = Dispatched(p)
      BY <3>1, <3>2
    <3>3. CASE ~Dispatched(p) /\ Dispatched(p)'
      <4>1. round[p] \in Rounds /\ round[p] \in Nat
        BY <3>1, RoundFacts DEF Rounds
      <4>2. \A q \in Ranks : round[q] >= round[p]
        BY <3>1, <3>3, <4>1, CountedAll
      <4>3. left[p] = round[p] - 1 /\ left'[p] = round[p]
        BY <3>1, <3>3
      <4>4. \A q \in Ranks \ {p} : left'[q] = left[q]
        BY <3>1
      <4>5. left' = [left EXCEPT ![p] = left[p] + 1]
        <5>1. left[p] + 1 = left'[p]
          BY <4>1, <4>3
        <5>2. left = [q \in Ranks |-> left[q]] /\ left' = [q \in Ranks |-> left'[q]]
          OBVIOUS
        <5> HIDE DEF left
        <5> QED BY <4>4, <5>1, <5>2
      <4>6. left[p] < round[p]
        BY <4>1, <4>3
      <4> QED BY <3>1, <4>1, <4>2, <4>5, <4>6 DEF DispatchBarrier!Next, DispatchBarrier!Leave
    <3> QED BY <3>1, <3>2, <3>3
  <2> QED BY <2>1, <2>2, <2>3 DEF Next, RankStep
<1> QED BY <1>1, <1>2, InvariantHolds, PTL DEF Spec, DispatchIsBarrier, DispatchBarrier!Spec

(***************************************************************************)
(* What a dispatch hands over.  Here setup and round are parameters, so    *)
(* that the sets below stay what they are from one state to the next.      *)
(***************************************************************************)

(* The experts of a rank, and the ranks that hold one shared expert.       *)
PerRank(s) == s.moeExpertNum \div (EpWorldSize - s.sharedExpertRankNum)

GroupSize(s) == s.sharedExpertRankNum \div s.sharedExpertNum

(* The statuses of a rank, and the rounds.                                 *)
StatusesOf(s, p) ==
  0 .. (IF p < s.sharedExpertRankNum THEN EpWorldSize ELSE EpWorldSize * PerRank(s)) - 1

RoundsOf(s) == 1 .. Len(s.expertIds)

(* The entries and the tokens with an entry of rank q in round k.          *)
EntriesOf(s, k, q) ==
  {a \in Tokens \X (0 .. AxisK - 1) : a[2] \in DOMAIN s.expertIds[k][q][a[1]]}

TakersOf(s, k, q) == {a[1] : a \in EntriesOf(s, k, q)}

(* The rank that status i comes from, the expert that it is about, and the *)
(* k of a token for the shared expert of rank p.                           *)
SenderOf(i) == i % EpWorldSize

ExpertAt(s, p, i) == (p - s.sharedExpertRankNum) * PerRank(s) + (i \div EpWorldSize)

SharedK(s, p) == AxisK + (p \div GroupSize(s))

(* The tokens of round k for status i of rank p.                           *)
ToStatus(s, k, p, i) ==
  LET q == SenderOf(i)
      ids == s.expertIds[k][q]
  IN IF p < s.sharedExpertRankNum
     THEN {<<k, q, t, SharedK(s, p)>> :
             t \in {u \in Tokens : DOMAIN ids[u] # {} /\ p % GroupSize(s) = q % GroupSize(s)}}
     ELSE {a \in {k} \X {q} \X Tokens \X (0 .. AxisK - 1) :
             a[4] \in DOMAIN ids[a[3]] /\ ids[a[3]][a[4]] = ExpertAt(s, p, i)}

(* The place of a token among those of its status, and of the status.      *)
Slot(S, a) == Cardinality({b \in S : b[3] < a[3]})

BlockOf(s, p, i) ==
  IF p < s.sharedExpertRankNum THEN i ELSE SenderOf(i) * PerRank(s) + (i \div EpWorldSize)

(* A one-to-one table has as many entries as values.                       *)
LEMMA SameSize ==
  ASSUME NEW S, IsFiniteSet(S), NEW T, NEW f \in [S -> T],
         \A x, y \in S : f[x] = f[y] => x = y,
         \A y \in T : \E x \in S : f[x] = y
  PROVE  IsFiniteSet(T) /\ Cardinality(T) = Cardinality(S)
<1>1. f \in Bijection(S, T)
  BY DEF Bijection, Injection, Surjection, IsInjective
<1> QED BY <1>1, FS_Bijection DEF ExistsBijection

(* The sizes of a setup, and its rows of experts.                          *)
LEMMA LayoutFacts ==
  ASSUME NEW s \in Setups
  PROVE  /\ EpWorldSize \in Nat \ {0} /\ AivNum \in Nat \ {0, 1}
         /\ AxisBS \in Nat \ {0} /\ AxisK \in Nat \ {0}
         /\ s.sharedExpertRankNum \in 0 .. EpWorldSize - 1
         /\ PerRank(s) \in Nat \ {0} /\ s.moeExpertNum \in Nat
         /\ s.moeExpertNum = (EpWorldSize - s.sharedExpertRankNum) * PerRank(s)
         /\ s.sharedExpertNum \in Nat
         /\ s.sharedExpertRankNum > 0 =>
              /\ GroupSize(s) \in Nat \ {0} /\ s.sharedExpertNum # 0
              /\ s.sharedExpertRankNum = GroupSize(s) * s.sharedExpertNum
         /\ s.sharedExpertRankNum = 0 => s.sharedExpertNum = 0
<1> DEFINE r == s.sharedExpertRankNum
           n == EpWorldSize - r
           m == s.moeExpertNum
           g == s.sharedExpertNum
<1>1. /\ EpWorldSize \in Nat \ {0} /\ AivNum \in Nat \ {0, 1}
      /\ AxisBS \in Nat \ {0} /\ AxisK \in Nat \ {0}
      /\ r \in 0 .. EpWorldSize - 1 /\ m \in Nat \ {0} /\ m % n = 0
      /\ g \in 0 .. r /\ (g > 0 => r % g = 0) /\ (r > 0) = (g > 0)
  BY DispatchAssumption
<1>2. PerRank(s) = m \div n /\ GroupSize(s) = r \div g
  BY DEF PerRank, GroupSize
<1> HIDE DEF m, g, r
<1>3. n \in Nat \ {0}
  BY <1>1
<1> HIDE DEF n
<1>4. PerRank(s) \in Nat /\ m = n * PerRank(s)
  BY <1>1, <1>2, <1>3, DivMod
<1>5. PerRank(s) # 0
  BY <1>1, <1>3, <1>4
<1>6. r > 0 => GroupSize(s) \in Nat /\ r = g * GroupSize(s)
  BY <1>1, <1>2, DivMod
<1>7. r > 0 => GroupSize(s) # 0 /\ g * GroupSize(s) = GroupSize(s) * g
  BY <1>1, <1>6
<1> QED BY <1>1, <1>4, <1>5, <1>6, <1>7 DEF n, m, g, r

(* A row of experts: its places, its values, and no expert twice.          *)
LEMMA RowFacts ==
  ASSUME NEW s \in Setups, NEW k \in RoundsOf(s), NEW q \in Ranks, NEW t \in Tokens
  PROVE  LET row == s.expertIds[k][q][t]
         IN /\ DOMAIN row \subseteq 0 .. AxisK - 1
            /\ \A i \in DOMAIN row : row[i] \in 0 .. s.moeExpertNum - 1
            /\ \A i, j \in DOMAIN row : row[i] = row[j] => i = j
<1>1. k \in DOMAIN s.expertIds
  BY DispatchAssumption DEF RoundsOf
<1> QED BY <1>1, DispatchAssumption

(* A status comes from a rank.                                             *)
LEMMA SenderRank ==
  ASSUME NEW s \in Setups, NEW p \in Ranks, NEW i \in StatusesOf(s, p)
  PROVE  SenderOf(i) \in Ranks
<1>1. EpWorldSize \in Nat \ {0}
  BY LayoutFacts
<1>2. i \in Nat
  BY DEF StatusesOf
<1> QED BY <1>1, <1>2, DivMod DEF SenderOf, Ranks

(* What the tokens of a status have in common.                             *)
LEMMA MoeShape ==
  ASSUME NEW s \in Setups, NEW k \in RoundsOf(s), NEW p \in Ranks,
         ~(p < s.sharedExpertRankNum), NEW i \in StatusesOf(s, p)
  PROVE  \A a \in ToStatus(s, k, p, i) :
           /\ a = <<k, SenderOf(i), a[3], a[4]>> /\ a[3] \in Tokens /\ a[4] \in 0 .. AxisK - 1
           /\ a[4] \in DOMAIN s.expertIds[k][SenderOf(i)][a[3]]
           /\ s.expertIds[k][SenderOf(i)][a[3]][a[4]] = ExpertAt(s, p, i)
  BY DEF ToStatus

(* The same of the tokens for a shared expert.                             *)
LEMMA SharedShape ==
  ASSUME NEW s \in Setups, NEW k \in RoundsOf(s), NEW p \in Ranks,
         p < s.sharedExpertRankNum, NEW i \in StatusesOf(s, p)
  PROVE  \A a \in ToStatus(s, k, p, i) :
           /\ a = <<k, SenderOf(i), a[3], SharedK(s, p)>> /\ a[3] \in Tokens /\ a[4] = SharedK(s, p)
           /\ DOMAIN s.expertIds[k][SenderOf(i)][a[3]] # {}
           /\ p % GroupSize(s) = SenderOf(i) % GroupSize(s)
  BY DEF ToStatus

(* The third part of a token is its number at the sender.                  *)
LEMMA TokenOfRow ==
  ASSUME NEW s \in Setups, NEW k \in RoundsOf(s), NEW p \in Ranks, NEW i \in StatusesOf(s, p)
  PROVE  \A a \in ToStatus(s, k, p, i) : a[3] \in Tokens
  BY MoeShape, SharedShape

(* A token is routed to an expert once at most.                            *)
LEMMA OnePerToken ==
  ASSUME NEW s \in Setups, NEW k \in RoundsOf(s), NEW p \in Ranks, NEW i \in StatusesOf(s, p)
  PROVE  \A a, b \in ToStatus(s, k, p, i) : a[3] = b[3] => a = b
<1>1. CASE p < s.sharedExpertRankNum
  BY <1>1, SharedShape
<1>2. CASE ~(p < s.sharedExpertRankNum)
  <2> DEFINE Row0(t) == s.expertIds[k][SenderOf(i)][t]
  <2>1. \A a \in ToStatus(s, k, p, i) :
          /\ a = <<k, SenderOf(i), a[3], a[4]>> /\ a[3] \in Tokens
          /\ a[4] \in DOMAIN Row0(a[3]) /\ Row0(a[3])[a[4]] = ExpertAt(s, p, i)
    BY <1>2, MoeShape
  <2>2. SenderOf(i) \in Ranks
    BY SenderRank
  <2>3. \A t \in Tokens : \A e, f \in DOMAIN Row0(t) : Row0(t)[e] = Row0(t)[f] => e = f
    BY <2>2, RowFacts
  <2> HIDE DEF Row0
  <2>4. SUFFICES ASSUME NEW a \in ToStatus(s, k, p, i), NEW b \in ToStatus(s, k, p, i), a[3] = b[3]
                 PROVE  a[4] = b[4]
    BY <2>1
  <2> QED BY <2>1, <2>3, <2>4
<1> QED BY <1>1, <1>2

(* The tokens of a status, at most AxisBS, fill the slots from 0 on.       *)
LEMMA SlotFacts ==
  ASSUME NEW s \in Setups, NEW k \in RoundsOf(s), NEW p \in Ranks, NEW i \in StatusesOf(s, p)
  PROVE  LET S == ToStatus(s, k, p, i)
         IN /\ IsFiniteSet(S) /\ Cardinality(S) \in 0 .. AxisBS
            /\ \A a \in S : Slot(S, a) \in 0 .. Cardinality(S) - 1
            /\ \A a, b \in S : Slot(S, a) = Slot(S, b) => a = b
            /\ \A n \in 0 .. Cardinality(S) - 1 : \E a \in S : Slot(S, a) = n
<1> DEFINE S == ToStatus(s, k, p, i)
           before == {z \in S \X S : z[1][3] < z[2][3]}
           token == [a \in S |-> a[3]]
<1>0. AxisBS \in Nat \ {0}
  BY LayoutFacts
<1>1. \A a \in S : a[3] \in Tokens /\ a[3] \in Int
  <2>1. \A a \in S : a[3] \in Tokens
    BY TokenOfRow
  <2>2. \A t \in Tokens : t \in Int
    BY <1>0 DEF Tokens
  <2> QED BY <2>1, <2>2
<1>2. \A a, b \in S : a[3] = b[3] => a = b
  BY OnePerToken
<1> HIDE DEF S
<1>3. IsFiniteSet(S) /\ Cardinality(S) \in 0 .. AxisBS
  <2>1. IsFiniteSet(Tokens) /\ Cardinality(Tokens) = AxisBS
    <3>1. 0 \in Int /\ AxisBS - 1 \in Int /\ ~(0 > AxisBS - 1) /\ (AxisBS - 1) - 0 + 1 = AxisBS
      BY <1>0
    <3> QED BY <3>1, FS_Interval DEF Tokens
  <2>2. token \in Injection(S, Tokens)
    BY <1>1, <1>2 DEF Injection, IsInjective
  <2>3. IsFiniteSet(S) /\ Cardinality(S) <= Cardinality(Tokens)
    BY <2>1, <2>2, FS_Injection
  <2> QED BY <1>0, <2>1, <2>3, FS_CardinalityType
<1>4. StrictOrder(S, before)
  BY <1>1, <1>2 DEF StrictOrder
<1>5. \A a \in S : PlaceIn(S, before, a) = Slot(S, a)
  <2> TAKE a \in S
  <2>1. {y \in S : <<y, a>> \in before} = {b \in S : b[3] < a[3]}
    OBVIOUS
  <2> QED BY <2>1 DEF PlaceIn, Slot
<1> HIDE DEF before
<1> QED BY <1>3, <1>4, <1>5, RankFacts DEF S

(* The entries of a rank in the order of its tokens, and its tokens.       *)
EntryNumber(s, k, q, a) ==
  Cardinality({b \in EntriesOf(s, k, q) : b[1] * AxisK + b[2] < a[1] * AxisK + a[2]})

TakerNumber(s, k, q, t) == Cardinality({u \in TakersOf(s, k, q) : u < t})

(* Statuses have blocks of their own.                                      *)
LEMMA BlockFacts ==
  ASSUME NEW s \in Setups, NEW p \in Ranks
  PROVE  /\ \A i \in StatusesOf(s, p) :
              i \in Nat /\ SenderOf(i) \in Ranks /\ BlockOf(s, p, i) \in StatusesOf(s, p)
         /\ p < s.sharedExpertRankNum =>
              \A i \in StatusesOf(s, p) : i = SenderOf(i)
         /\ ~(p < s.sharedExpertRankNum) =>
              \A i \in StatusesOf(s, p) : i \div EpWorldSize \in 0 .. PerRank(s) - 1
         /\ \A i, j \in StatusesOf(s, p) : BlockOf(s, p, i) = BlockOf(s, p, j) => i = j
<1> DEFINE w == EpWorldSize
           e == PerRank(s)
<1>1. w \in Nat \ {0} /\ e \in Nat \ {0} /\ Ranks = 0 .. w - 1
  BY LayoutFacts DEF Ranks
<1>2. \A i \in Nat : /\ i \div w \in Nat /\ i % w \in 0 .. w - 1
                     /\ i = w * (i \div w) + (i % w)
  BY <1>1, DivMod
<1>3. CASE p < s.sharedExpertRankNum
  <2>1. StatusesOf(s, p) = 0 .. w - 1 /\ \A i : BlockOf(s, p, i) = i
    BY <1>3 DEF StatusesOf, BlockOf, SenderOf
  <2>2. \A i \in 0 .. w - 1 : i \in Nat /\ i % w = i
    BY <1>1
  <2> QED BY <1>1, <1>3, <2>1, <2>2 DEF SenderOf
<1>4. CASE ~(p < s.sharedExpertRankNum)
  <2>1. /\ StatusesOf(s, p) = 0 .. w * e - 1
        /\ \A i : BlockOf(s, p, i) = (i % w) * e + (i \div w)
    BY <1>4 DEF StatusesOf, BlockOf, SenderOf
  <2>2. ASSUME NEW i \in 0 .. w * e - 1
        PROVE  /\ i \in Nat /\ i % w \in 0 .. w - 1 /\ i \div w \in 0 .. e - 1
               /\ (i % w) * e + (i \div w) \in 0 .. w * e - 1
    <3>1. i \in Nat /\ w * e \in Nat
      BY <1>1
    <3>2. PICK d, r : /\ d = i \div w /\ r = i % w /\ d \in Nat /\ r \in 0 .. w - 1
                      /\ i = w * d + r
      BY <1>2, <3>1
    <3>3. d < e
      <4>1. SUFFICES ASSUME d >= e
                     PROVE  FALSE
        BY <1>1, <3>2
      <4>2. w * d >= w * e
        BY <1>1, <3>2, <4>1
      <4>3. w * d \in Nat
        BY <1>1, <3>2
      <4> QED BY <3>1, <3>2, <4>2, <4>3
    <3>4. r * e \in Nat /\ r * e <= w * e - e
      <4>1. r * e <= (w - 1) * e
        BY <1>1, <3>2
      <4>2. (w - 1) * e = w * e - e
        BY <1>1
      <4> QED BY <1>1, <3>2, <4>1, <4>2
    <3>5. d \in 0 .. e - 1 /\ r * e + d \in 0 .. w * e - 1
      BY <1>1, <3>1, <3>2, <3>3, <3>4, SMTT(30)
    <3> QED BY <3>1, <3>2, <3>5
  <2>3. ASSUME NEW i \in 0 .. w * e - 1, NEW j \in 0 .. w * e - 1,
               (i % w) * e + (i \div w) = (j % w) * e + (j \div w)
        PROVE  i = j
    <3>1. PICK d, r : /\ d = i \div w /\ r = i % w /\ d \in 0 .. e - 1 /\ r \in 0 .. w - 1
      BY <2>2
    <3>2. PICK f, t : /\ f = j \div w /\ t = j % w /\ f \in 0 .. e - 1 /\ t \in 0 .. w - 1
      BY <2>2
    <3>3. i = w * d + r /\ j = w * f + t
      BY <1>2, <2>2, <3>1, <3>2
    <3>4. e * r + d = e * t + f
      BY <1>1, <2>3, <3>1, <3>2
    <3>5. PICK z : z = e
      OBVIOUS
    <3>6. /\ z \in Nat \ {0} /\ r \in Int /\ t \in Int /\ d \in 0 .. z - 1 /\ f \in 0 .. z - 1
          /\ z * r + d = z * t + f
      BY <1>1, <3>1, <3>2, <3>4, <3>5
    <3>7. r = t /\ d = f
      BY <3>6, DivUnique
    <3> QED BY <3>3, <3>7
  <2>4. ASSUME NEW i \in StatusesOf(s, p), NEW j \in StatusesOf(s, p),
               BlockOf(s, p, i) = BlockOf(s, p, j)
        PROVE  i = j
    <3>1. /\ i \in 0 .. w * e - 1 /\ j \in 0 .. w * e - 1
          /\ (i % w) * e + (i \div w) = (j % w) * e + (j \div w)
      BY <2>1, <2>4
    <3> QED BY <2>3, <3>1
  <2>5. ASSUME NEW i \in StatusesOf(s, p)
        PROVE  /\ i \in Nat /\ SenderOf(i) \in Ranks /\ BlockOf(s, p, i) \in StatusesOf(s, p)
               /\ i \div w \in 0 .. e - 1
    <3>1. i \in 0 .. w * e - 1
      BY <2>1
    <3> QED BY <1>1, <2>1, <2>2, <3>1 DEF SenderOf
  <2> QED BY <1>4, <2>4, <2>5
<1> QED BY <1>3, <1>4

(* Both numbers count from 0 on and leave none out.                        *)
LEMMA EntryFacts ==
  ASSUME NEW s \in Setups, NEW k \in RoundsOf(s), NEW q \in Ranks
  PROVE  LET E == EntriesOf(s, k, q)
         IN /\ IsFiniteSet(E) /\ Cardinality(E) \in Nat
            /\ \A a \in E : /\ a = <<a[1], a[2]>> /\ a[1] \in Tokens /\ a[2] \in 0 .. AxisK - 1
                            /\ a[2] \in DOMAIN s.expertIds[k][q][a[1]]
            /\ \A a \in E : EntryNumber(s, k, q, a) \in 0 .. Cardinality(E) - 1
            /\ \A a, b \in E : EntryNumber(s, k, q, a) = EntryNumber(s, k, q, b) => a = b
            /\ \A n \in 0 .. Cardinality(E) - 1 : \E a \in E : EntryNumber(s, k, q, a) = n
<1> DEFINE E == EntriesOf(s, k, q)
           code(a) == a[1] * AxisK + a[2]
           before == {z \in E \X E : code(z[1]) < code(z[2])}
<1>1. AxisBS \in Nat \ {0} /\ AxisK \in Nat \ {0}
  BY LayoutFacts
<1>2. \A a \in E : /\ a = <<a[1], a[2]>> /\ a[1] \in Tokens /\ a[2] \in 0 .. AxisK - 1
                   /\ a[2] \in DOMAIN s.expertIds[k][q][a[1]]
  BY DEF EntriesOf
<1>3. IsFiniteSet(E)
  <2>1. IsFiniteSet(Tokens) /\ IsFiniteSet(0 .. AxisK - 1)
    BY <1>1, FS_Interval DEF Tokens
  <2>2. IsFiniteSet(Tokens \X (0 .. AxisK - 1))
    BY <2>1, FS_Product
  <2>3. E \in SUBSET (Tokens \X (0 .. AxisK - 1))
    BY DEF EntriesOf
  <2> QED BY <2>2, <2>3, FS_Subset
<1> HIDE DEF E
<1>4. \A a \in E : code(a) \in Int
  <2> TAKE a \in E
  <2>1. a[1] \in Int /\ a[2] \in Int
    BY <1>1, <1>2 DEF Tokens
  <2> QED BY <1>1, <2>1
<1>5. \A a, b \in E : code(a) = code(b) => a = b
  <2> SUFFICES ASSUME NEW a \in E, NEW b \in E, code(a) = code(b)
               PROVE  a = b
    OBVIOUS
  <2>0. PICK t, e, u, f : t = a[1] /\ e = a[2] /\ u = b[1] /\ f = b[2]
    OBVIOUS
  <2>1. t \in Int /\ e \in 0 .. AxisK - 1 /\ u \in Int /\ f \in 0 .. AxisK - 1
    BY <1>1, <1>2, <2>0 DEF Tokens
  <2>2. AxisK * t + e = AxisK * u + f
    <3>1. t * AxisK + e = u * AxisK + f
      BY <2>0
    <3> QED BY <1>1, <2>1, <3>1
  <2>3. t = u /\ e = f
    BY <1>1, <2>1, <2>2, DivUnique
  <2>4. a = <<a[1], a[2]>> /\ b = <<b[1], b[2]>>
    BY <1>2
  <2> QED BY <2>0, <2>3, <2>4
<1> HIDE DEF code
<1>6. StrictOrder(E, before)
  BY <1>4, <1>5 DEF StrictOrder
<1>7. \A a \in E : PlaceIn(E, before, a) = EntryNumber(s, k, q, a)
  <2> TAKE a \in E
  <2>1. {y \in E : <<y, a>> \in before} = {b \in E : code(b) < code(a)}
    OBVIOUS
  <2> QED BY <2>1 DEF PlaceIn, EntryNumber, E, code
<1> HIDE DEF before
<1>8. Cardinality(E) \in Nat
  BY <1>3, FS_CardinalityType
<1>9. /\ \A a \in E : PlaceIn(E, before, a) \in 0 .. Cardinality(E) - 1
      /\ \A a, b \in E : PlaceIn(E, before, a) = PlaceIn(E, before, b) => a = b
      /\ \A n \in 0 .. Cardinality(E) - 1 : \E a \in E : PlaceIn(E, before, a) = n
  BY <1>3, <1>6, RankFacts
<1>10. /\ \A a \in E : EntryNumber(s, k, q, a) \in 0 .. Cardinality(E) - 1
       /\ \A a, b \in E : EntryNumber(s, k, q, a) = EntryNumber(s, k, q, b) => a = b
       /\ \A n \in 0 .. Cardinality(E) - 1 : \E a \in E : EntryNumber(s, k, q, a) = n
  BY <1>7, <1>9
<1> QED BY <1>2, <1>3, <1>8, <1>10 DEF E

(* The tokens with an entry are finitely many, and those whose row is not  *)
(* empty.                                                                  *)
LEMMA TakerFacts ==
  ASSUME NEW s \in Setups, NEW k \in RoundsOf(s), NEW q \in Ranks
  PROVE  LET V == TakersOf(s, k, q)
         IN /\ IsFiniteSet(V) /\ Cardinality(V) \in Nat
            /\ V = {t \in Tokens : DOMAIN s.expertIds[k][q][t] # {}}
            /\ \A t \in V : TakerNumber(s, k, q, t) \in 0 .. Cardinality(V) - 1
            /\ \A t, u \in V : TakerNumber(s, k, q, t) = TakerNumber(s, k, q, u) => t = u
            /\ \A n \in 0 .. Cardinality(V) - 1 : \E t \in V : TakerNumber(s, k, q, t) = n
<1> DEFINE V == TakersOf(s, k, q)
           before == Below(V)
<1>1. AxisBS \in Nat \ {0}
  BY LayoutFacts
<1>2. V = {t \in Tokens : DOMAIN s.expertIds[k][q][t] # {}}
  <2>1. ASSUME NEW t \in Tokens, DOMAIN s.expertIds[k][q][t] # {}
        PROVE  t \in V
    <3>1. PICK e : e \in DOMAIN s.expertIds[k][q][t]
      BY <2>1
    <3>2. e \in 0 .. AxisK - 1
      BY <3>1, RowFacts
    <3>3. <<t, e>> \in EntriesOf(s, k, q) /\ <<t, e>>[1] = t
      BY <3>1, <3>2 DEF EntriesOf
    <3> QED BY <3>3 DEF TakersOf
  <2>2. ASSUME NEW t \in V
        PROVE  t \in Tokens /\ DOMAIN s.expertIds[k][q][t] # {}
    <3>1. PICK a \in EntriesOf(s, k, q) : t = a[1]
      BY DEF TakersOf
    <3> QED BY <3>1, EntryFacts
  <2> QED BY <2>1, <2>2
<1> HIDE DEF V
<1>3. IsFiniteSet(V)
  <2>1. IsFiniteSet(Tokens)
    BY <1>1, FS_Interval DEF Tokens
  <2> QED BY <1>2, <2>1, FS_Subset
<1>4. \A t \in V : t \in Int
  BY <1>1, <1>2 DEF Tokens
<1>5. StrictOrder(V, before)
  BY <1>4 DEF StrictOrder, Below
<1>6. \A t \in V : PlaceIn(V, before, t) = TakerNumber(s, k, q, t)
  <2> TAKE t \in V
  <2>1. {u \in V : <<u, t>> \in before} = {u \in V : u < t}
    BY DEF Below
  <2> QED BY <2>1 DEF PlaceIn, TakerNumber, V
<1> HIDE DEF before
<1>7. Cardinality(V) \in Nat
  BY <1>3, FS_CardinalityType
<1>8. /\ \A t \in V : PlaceIn(V, before, t) \in 0 .. Cardinality(V) - 1
      /\ \A t, u \in V : PlaceIn(V, before, t) = PlaceIn(V, before, u) => t = u
      /\ \A n \in 0 .. Cardinality(V) - 1 : \E t \in V : PlaceIn(V, before, t) = n
  BY <1>3, <1>5, RankFacts
<1>9. /\ \A t \in V : TakerNumber(s, k, q, t) \in 0 .. Cardinality(V) - 1
      /\ \A t, u \in V : TakerNumber(s, k, q, t) = TakerNumber(s, k, q, u) => t = u
      /\ \A n \in 0 .. Cardinality(V) - 1 : \E t \in V : TakerNumber(s, k, q, t) = n
  BY <1>6, <1>8
<1> QED BY <1>2, <1>3, <1>7, <1>9 DEF V

(* The tokens of a status are as many as their entries, or as their        *)
(* senders' tokens.                                                        *)
LEMMA AsManyEntries ==
  ASSUME NEW s \in Setups, NEW k \in RoundsOf(s), NEW p \in Ranks, NEW i \in StatusesOf(s, p),
         NEW R \in SUBSET ToStatus(s, k, p, i)
  PROVE  Cardinality({<<a[3], a[4]>> : a \in R}) = Cardinality(R)
<1> DEFINE f == [a \in R |-> <<a[3], a[4]>>]
           T == {<<a[3], a[4]>> : a \in R}
<1>1. IsFiniteSet(R)
  BY SlotFacts, FS_Subset
<1>2. \A a, b \in R : a[3] = b[3] => a = b
  BY OnePerToken
<1>3. \A a, b \in R : f[a] = f[b] => a = b
  BY <1>2
<1>4. f \in [R -> T] /\ \A y \in T : \E x \in R : f[x] = y
  OBVIOUS
<1> HIDE DEF f, T
<1>5. Cardinality(T) = Cardinality(R)
  BY <1>1, <1>3, <1>4, SameSize
<1> QED BY <1>5 DEF T

(* And as their numbers at the sender.                                     *)
LEMMA AsManyTokens ==
  ASSUME NEW s \in Setups, NEW k \in RoundsOf(s), NEW p \in Ranks, NEW i \in StatusesOf(s, p),
         NEW R \in SUBSET ToStatus(s, k, p, i)
  PROVE  Cardinality({a[3] : a \in R}) = Cardinality(R)
<1> DEFINE f == [a \in R |-> a[3]]
           T == {a[3] : a \in R}
<1>1. IsFiniteSet(R)
  BY SlotFacts, FS_Subset
<1>2. \A a, b \in R : a[3] = b[3] => a = b
  BY OnePerToken
<1>3. \A a, b \in R : f[a] = f[b] => a = b
  BY <1>2
<1>4. f \in [R -> T] /\ \A y \in T : \E x \in R : f[x] = y
  OBVIOUS
<1> HIDE DEF f, T
<1>5. Cardinality(T) = Cardinality(R)
  BY <1>1, <1>3, <1>4, SameSize
<1> QED BY <1>5 DEF T

(* What a rank at work reads of its setup and its round.                   *)
LEMMA AtWork ==
  ASSUME NEW q \in Ranks
  PROVE  /\ Active(q) = EntriesOf(setup, round[q], q)
         /\ Valid(q) = TakersOf(setup, round[q], q)
         /\ \A a : EntryIndex(q, a) = EntryNumber(setup, round[q], q, a)
         /\ \A t : ValidIndex(q, t) = TakerNumber(setup, round[q], q, t)
         /\ SharedRankNum = setup.sharedExpertRankNum
         /\ ExpertPerRank = PerRank(setup)
         /\ RankNumPerShared = GroupSize(setup)
         /\ Statuses(q) = StatusesOf(setup, q)
         /\ \A i : WinOffset(q, i) = BlockOf(setup, q, i)
         /\ \A i : Routed(q, i) = ToStatus(setup, round[q], q, i)
<1>1. Active(q) = EntriesOf(setup, round[q], q)
  BY DEF Active, EntriesOf, Row
<1>2. Valid(q) = TakersOf(setup, round[q], q)
  BY <1>1 DEF Valid, TakersOf
<1>3. /\ SharedRankNum = setup.sharedExpertRankNum
      /\ ExpertPerRank = PerRank(setup)
      /\ RankNumPerShared = GroupSize(setup)
  BY DEF SharedRankNum, ExpertPerRank, RankNumPerShared, PerRank, GroupSize
<1>4. \A a : EntryIndex(q, a) = EntryNumber(setup, round[q], q, a)
  BY <1>1 DEF EntryIndex, EntryNumber, Before
<1>5. \A t : ValidIndex(q, t) = TakerNumber(setup, round[q], q, t)
  BY <1>2 DEF ValidIndex, TakerNumber
<1>6. Statuses(q) = StatusesOf(setup, q)
  BY <1>3 DEF Statuses, StatusesOf, RscvStatusNum, IsShareExpertRank
<1>7. \A i : WinOffset(q, i) = BlockOf(setup, q, i)
  BY <1>3 DEF WinOffset, BlockOf, IsShareExpertRank, SenderOf
<1>8. \A i : Routed(q, i) = ToStatus(setup, round[q], q, i)
  BY <1>3, SMTT(30) DEF Routed, ToStatus, IsShareExpertRank, SenderOf, ExpertAt, SharedK
<1> QED BY <1>1, <1>2, <1>3, <1>4, <1>5, <1>6, <1>7, <1>8

(* The numbers of the entries and tokens behind a status.                  *)
LEMMA EntryOfToken ==
  ASSUME NEW s \in Setups, NEW k \in RoundsOf(s), NEW p \in Ranks,
         NEW i \in StatusesOf(s, p), NEW a \in ToStatus(s, k, p, i), ~(p < s.sharedExpertRankNum)
  PROVE  LET q == SenderOf(i)
             x == s.expertIds[k][q][a[3]][a[4]]
         IN /\ <<a[3], a[4]>> \in EntriesOf(s, k, q)
            /\ x \div PerRank(s) = p - s.sharedExpertRankNum
            /\ x % PerRank(s) = i \div EpWorldSize
<1> DEFINE q == SenderOf(i)
           x == s.expertIds[k][q][a[3]][a[4]]
           e == PerRank(s)
           d == p - s.sharedExpertRankNum
           r == i \div EpWorldSize
<1>0. i \in Nat
  BY BlockFacts
<1>1. r \in 0 .. e - 1
  BY BlockFacts
<1>2. a[3] \in Tokens /\ a[4] \in 0 .. AxisK - 1 /\ a[4] \in DOMAIN s.expertIds[k][q][a[3]]
  BY <1>0, MoeShape
<1>3. x = d * e + r
  BY <1>0, MoeShape DEF ExpertAt
<1>4. <<a[3], a[4]>> \in EntriesOf(s, k, q)
  BY <1>2 DEF EntriesOf
<1>5. e \in Nat \ {0} /\ d \in Nat
  BY LayoutFacts DEF Ranks
<1> HIDE DEF x, e, d, r
<1>6. x = e * d + r /\ x \in Nat
  <2>1. d * e = e * d /\ e * d \in Nat
    BY <1>5
  <2> QED BY <1>1, <1>3, <1>5, <2>1
<1>7. x \div e \in Nat /\ x % e \in 0 .. e - 1 /\ x = e * (x \div e) + (x % e)
  BY <1>5, <1>6, DivMod
<1>8. x \div e = d /\ x % e = r
  BY <1>1, <1>5, <1>6, <1>7, DivUnique
<1> QED BY <1>4, <1>8 DEF x, e, d, r

(* The cores for the shared experts and for the others.                    *)
SharedCores(s) ==
  IF s.sharedExpertRankNum = 0 THEN 0
  ELSE LET n == (AivNum * s.sharedExpertNum) \div (AxisK + s.sharedExpertNum)
       IN IF n = 0 THEN 1 ELSE n

MoeCores(s) == AivNum - SharedCores(s)

(* How much a core sends in a round, and from where on.                    *)
SharedNum(s, k, q) == Cardinality(TakersOf(s, k, q)) * s.sharedExpertNum

SendsOf(s, k, q, c) ==
  IF c < MoeCores(s) THEN SendNum(c, Cardinality(EntriesOf(s, k, q)), MoeCores(s))
  ELSE SendNum(c - MoeCores(s), SharedNum(s, k, q), SharedCores(s))

FirstOf(s, k, q, c) ==
  IF c < MoeCores(s) THEN StartId(c, Cardinality(EntriesOf(s, k, q)), MoeCores(s))
  ELSE StartId(c - MoeCores(s), SharedNum(s, k, q), SharedCores(s))

(* The number of a token among those its sender sends.                     *)
IndexOf(s, k, q, a) ==
  IF a[4] < AxisK THEN EntryNumber(s, k, q, <<a[3], a[4]>>)
  ELSE (a[4] - AxisK) * Cardinality(TakersOf(s, k, q)) + TakerNumber(s, k, q, a[3])

(* Core c of rank q sends token a as the n-th of its loop.                 *)
Sends(s, k, q, c, n, a) ==
  /\ (c < MoeCores(s)) = (a[4] < AxisK)
  /\ n \in 0 .. SendsOf(s, k, q, c) - 1
  /\ FirstOf(s, k, q, c) + n = IndexOf(s, k, q, a)

(* What is written for token a, of status i of rank p.                     *)
Post(s, k, p, i, a) ==
  [to |-> p, cell |-> <<BlockOf(s, p, i), Slot(ToStatus(s, k, p, i), a)>>, token |-> a]

(* There are cores for both.                                               *)
LEMMA CoreFacts ==
  ASSUME NEW s \in Setups
  PROVE  /\ SharedCores(s) \in 0 .. AivNum - 1
         /\ s.sharedExpertRankNum > 0 => SharedCores(s) > 0
         /\ MoeCores(s) \in 1 .. AivNum
         /\ SharedCores(s) = AivNum - MoeCores(s)
<1> DEFINE r == s.sharedExpertRankNum
           g == s.sharedExpertNum
           m == AivNum * g
           d == AxisK + g
           n == m \div d
<1>1. /\ AivNum \in Nat \ {0, 1} /\ AxisK \in Nat \ {0} /\ g \in Nat /\ r \in Nat
  BY LayoutFacts
<1>2. SharedCores(s) = IF r = 0 THEN 0 ELSE IF n = 0 THEN 1 ELSE n
  BY DEF SharedCores
<1>3. m \in Nat /\ d \in Nat \ {0}
  BY <1>1
<1>4. AivNum * d = AivNum * AxisK + m /\ AivNum * AxisK \in Nat \ {0}
  <2>1. AivNum * AxisK >= AivNum * 1
    BY <1>1
  <2> QED BY <1>1, <2>1
<1> HIDE DEF m, d
<1>5. n \in Nat /\ d * n <= m
  BY <1>3, DivMod
<1> HIDE DEF n, r, g
<1>6. n < AivNum
  <2>1. SUFFICES ASSUME n >= AivNum
                 PROVE  FALSE
    BY <1>1, <1>5
  <2>2. d * n >= d * AivNum
    BY <1>1, <1>3, <1>5, <2>1
  <2>3. d * AivNum = AivNum * d /\ d * n \in Nat /\ AivNum * d \in Nat
    BY <1>1, <1>3, <1>5
  <2> QED BY <1>1, <1>3, <1>4, <1>5, <2>2, <2>3
<1>7. SharedCores(s) \in 0 .. AivNum - 1 /\ (r > 0 => SharedCores(s) > 0)
  BY <1>1, <1>2, <1>5, <1>6
<1> QED BY <1>1, <1>7 DEF MoeCores, r

(* The entry of a token goes where its status is.                          *)
LEMMA MoeSendIs ==
  ASSUME setup \in Setups, NEW q \in Ranks, NEW k \in RoundsOf(setup), k = round[q],
         NEW p \in Ranks, ~(p < setup.sharedExpertRankNum),
         NEW i \in StatusesOf(setup, p), SenderOf(i) = q, NEW a \in ToStatus(setup, k, p, i)
  PROVE  MoeSend(q, EntryNumber(setup, k, q, <<a[3], a[4]>>)) = Post(setup, k, p, i, a)
<1> DEFINE E == EntriesOf(setup, k, q)
           index == EntryNumber(setup, k, q, <<a[3], a[4]>>)
           row(t) == setup.expertIds[k][q][t]
           x == row(a[3])[a[4]]
           e == PerRank(setup)
           S == ToStatus(setup, k, p, i)
           R == {b \in S : b[3] < a[3]}
           code(b) == b[1] * AxisK + b[2]
           T == {b \in E : code(b) < code(<<a[3], a[4]>>) /\ row(b[1])[b[2]] = x}
<1>1. /\ <<a[3], a[4]>> \in E
      /\ x \div e = p - setup.sharedExpertRankNum
      /\ x % e = i \div EpWorldSize
  BY EntryOfToken
<1>2. i \in Nat
  BY BlockFacts
<1>3. \A b \in S : /\ b = <<k, q, b[3], b[4]>> /\ b[3] \in Tokens
                   /\ b[4] \in 0 .. AxisK - 1 /\ b[4] \in DOMAIN row(b[3])
                   /\ row(b[3])[b[4]] = ExpertAt(setup, p, i)
  BY <1>2, MoeShape
<1>3a. \A t \in Tokens : \A m, n \in DOMAIN row(t) : row(t)[m] = row(t)[n] => m = n
  BY RowFacts, SMTT(30)
<1>4. (CHOOSE b \in E : EntryNumber(setup, k, q, b) = index) = <<a[3], a[4]>>
  BY <1>1, EntryFacts, Zenon
<1>5. \A b \in S : row(b[3])[b[4]] = x
  BY <1>3
<1>6. {<<b[3], b[4]>> : b \in R} = T
  <2>0. /\ AxisK \in Nat \ {0} /\ \A t \in Tokens : t \in Int
        /\ a[3] \in Int /\ a[4] \in 0 .. AxisK - 1
    BY <1>3, LayoutFacts DEF Tokens
  <2>1. ASSUME NEW b \in R
        PROVE  <<b[3], b[4]>> \in T
    <3>1. <<b[3], b[4]>> \in E
      BY <1>3 DEF EntriesOf
    <3>2. PICK t, f, u, h : t = b[3] /\ f = b[4] /\ u = a[3] /\ h = a[4]
      OBVIOUS
    <3>3. t \in Int /\ u \in Int /\ f \in 0 .. AxisK - 1 /\ h \in 0 .. AxisK - 1 /\ t < u
      BY <1>3, <2>0, <3>2
    <3>4. t * AxisK + f < u * AxisK + h
      <4>1. (t + 1) * AxisK <= u * AxisK
        <5>1. t + 1 \in Int /\ u \in Int /\ AxisK \in Nat /\ t + 1 <= u
          BY <2>0, <3>3
        <5> QED BY <5>1, TimesMonotone
      <4>2. (t + 1) * AxisK = t * AxisK + AxisK /\ t * AxisK \in Int /\ u * AxisK \in Int
        BY <2>0, <3>3
      <4> QED BY <2>0, <3>3, <4>1, <4>2
    <3>5. code(<<b[3], b[4]>>) < code(<<a[3], a[4]>>)
      BY <3>2, <3>4
    <3> QED BY <1>5, <3>1, <3>5
  <2>2. ASSUME NEW b \in T
        PROVE  \E y \in R : b = <<y[3], y[4]>>
    <3>1. /\ b = <<b[1], b[2]>> /\ b[1] \in Tokens /\ b[2] \in 0 .. AxisK - 1
          /\ b[2] \in DOMAIN row(b[1])
      BY EntryFacts
    <3>2. PICK t, f, u, h : t = b[1] /\ f = b[2] /\ u = a[3] /\ h = a[4]
      OBVIOUS
    <3>3. /\ t \in Int /\ u \in Int /\ f \in 0 .. AxisK - 1 /\ h \in 0 .. AxisK - 1
          /\ t * AxisK + f < u * AxisK + h
      BY <2>0, <3>1, <3>2
    <3>4. t # u
      <4>1. SUFFICES ASSUME t = u
                     PROVE  FALSE
        OBVIOUS
      <4>2. f # h
        <5>1. t * AxisK \in Int
          BY <2>0, <3>3
        <5> QED BY <3>3, <4>1, <5>1
      <4>3. f \in DOMAIN row(u) /\ h \in DOMAIN row(u) /\ row(u)[f] = row(u)[h] /\ u \in Tokens
        <5>1. f \in DOMAIN row(t) /\ row(t)[f] = x
          BY <3>1, <3>2, SMTT(30)
        <5>2. h \in DOMAIN row(u) /\ u \in Tokens /\ row(u)[h] = x
          BY <1>3, <3>2, Zenon
        <5> HIDE DEF row, x
        <5>3. row(t) = row(u)
          BY <4>1
        <5> QED BY <5>1, <5>2, <5>3
      <4> HIDE DEF row
      <4> QED BY <1>3a, <4>2, <4>3
    <3>5. t <= u
      <4>1. SUFFICES ASSUME t > u
                     PROVE  FALSE
        BY <3>3
      <4>2. (u + 1) * AxisK <= t * AxisK
        <5>1. u + 1 \in Int /\ t \in Int /\ AxisK \in Nat /\ u + 1 <= t
          BY <2>0, <3>3, <4>1
        <5> QED BY <5>1, TimesMonotone
      <4>3. PICK m, n : m = u * AxisK /\ n = t * AxisK
        OBVIOUS
      <4>4. (u + 1) * AxisK = m + AxisK /\ m \in Int /\ n \in Int
        BY <2>0, <3>3, <4>3
      <4>5. m + AxisK <= n /\ n + f < m + h
        BY <3>3, <4>2, <4>3, <4>4
      <4> QED BY <2>0, <3>3, <4>4, <4>5
    <3>6. t < u
      BY <3>3, <3>4, <3>5, SMTT(30)
    <3> DEFINE y == <<k, q, t, f>>
    <3>7. y \in S
      <4>1. row(t)[f] = ExpertAt(setup, p, i)
        BY <1>3, <3>2, Zenon
      <4>2. y[3] = t /\ y[4] = f /\ y \in {k} \X {q} \X Tokens \X (0 .. AxisK - 1)
        BY <3>1, <3>2, SMTT(30)
      <4> QED BY <3>1, <3>2, <4>1, <4>2, Zenon DEF ToStatus
    <3> QED BY <3>1, <3>2, <3>6, <3>7
  <2> QED BY <2>1, <2>2
<1>7. Cardinality(T) = Cardinality(R)
  <2>1. R \in SUBSET S
    OBVIOUS
  <2>2. Cardinality({<<b[3], b[4]>> : b \in R}) = Cardinality(R)
    BY <1>2, <2>1, AsManyEntries
  <2> QED BY <1>6, <2>2
<1>8. ~(a[3] > 0) => Cardinality(R) = 0
  <2>1. ~(a[3] > 0) => R = {}
    <3>1. \A t \in Tokens : t \in Nat
      BY LayoutFacts DEF Tokens
    <3> QED BY <1>3, <3>1
  <2> QED BY <2>1, FS_EmptySet
<1>9. /\ Active(q) = E /\ \A b : EntryIndex(q, b) = EntryNumber(setup, k, q, b)
      /\ ExpertPerRank = e /\ SharedRankNum = setup.sharedExpertRankNum
      /\ \A t : Row(q, t) = row(t)
  BY AtWork, SMTT(30) DEF Row
<1>10. CntOf(q, Before(q, <<a[3], a[4]>>), x) = Cardinality(T)
  <2>1. {b \in Before(q, <<a[3], a[4]>>) : Row(q, b[1])[b[2]] = x} = T
    BY <1>9 DEF Before
  <2> QED BY <2>1, Zenon DEF CntOf
<1>11. MoeSend(q, index) =
         [to |-> (x \div e) + setup.sharedExpertRankNum,
          cell |-> <<q * e + (x % e),
                     IF a[3] > 0 THEN CntOf(q, Before(q, <<a[3], a[4]>>), x) ELSE 0>>,
          token |-> <<round[q], q, a[3], a[4]>>]
  <2>1. (CHOOSE b \in Active(q) : EntryIndex(q, b) = index) = <<a[3], a[4]>>
    BY <1>4, <1>9
  <2> DEFINE sent(w) ==
        [to |-> (Row(q, w[1])[w[2]] \div ExpertPerRank) + SharedRankNum,
         cell |-> <<q * ExpertPerRank + (Row(q, w[1])[w[2]] % ExpertPerRank),
                    IF w[1] > 0 THEN CntOf(q, Before(q, w), Row(q, w[1])[w[2]]) ELSE 0>>,
         token |-> <<round[q], q, w[1], w[2]>>]
  <2>2. MoeSend(q, index) = sent(CHOOSE b \in Active(q) : EntryIndex(q, b) = index)
    BY DEF MoeSend
  <2> HIDE DEF sent
  <2>3. PICK w : w = CHOOSE b \in Active(q) : EntryIndex(q, b) = index
    OBVIOUS
  <2>4. w = <<a[3], a[4]>> /\ MoeSend(q, index) = sent(w)
    BY <2>1, <2>2, <2>3
  <2>5. w[1] = a[3] /\ w[2] = a[4]
    BY <2>4
  <2>6. Row(q, w[1])[w[2]] = x
    BY <1>9, <2>5
  <2> HIDE DEF index, x, e
  <2> QED BY <1>9, <2>4, <2>5, <2>6 DEF sent
<1>12. (x \div e) + setup.sharedExpertRankNum = p
  <2>1. PICK m, y : m = setup.sharedExpertRankNum /\ y = x \div e
    OBVIOUS
  <2>2. p \in Int /\ m \in Int
    BY <2>1, LayoutFacts, SMTT(30) DEF Ranks
  <2>3. y = p - m
    BY <1>1, <2>1, SMTT(30)
  <2> QED BY <2>1, <2>2, <2>3
<1>13. q * e + (x % e) = BlockOf(setup, p, i)
  BY <1>1, SMTT(30) DEF BlockOf
<1>14. (IF a[3] > 0 THEN CntOf(q, Before(q, <<a[3], a[4]>>), x) ELSE 0) = Slot(S, a)
  BY <1>7, <1>8, <1>10, Zenon DEF Slot
<1>15. <<round[q], q, a[3], a[4]>> = a
  BY <1>3
<1> HIDE DEF x, e, S, index
<1> QED BY <1>11, <1>12, <1>13, <1>14, <1>15, SMTT(30) DEF Post, S, index

(* A token for a shared expert goes to the rank of its sender's group.     *)
LEMMA SharedSendIs ==
  ASSUME setup \in Setups, NEW q \in Ranks, NEW k \in RoundsOf(setup), k = round[q],
         NEW p \in Ranks, p < setup.sharedExpertRankNum,
         NEW i \in StatusesOf(setup, p), SenderOf(i) = q, NEW a \in ToStatus(setup, k, p, i)
  PROVE  SharedSend(q, (a[4] - AxisK) * Cardinality(TakersOf(setup, k, q))
                         + TakerNumber(setup, k, q, a[3]))
           = Post(setup, k, p, i, a)
<1> DEFINE V == TakersOf(setup, k, q)
           g == GroupSize(setup)
           S == ToStatus(setup, k, p, i)
           R == {b \in S : b[3] < a[3]}
<1>1. i \in Nat /\ i = q
  BY BlockFacts
<1>2. \A b \in S : /\ b = <<k, q, b[3], b[4]>> /\ b[3] \in Tokens
                   /\ b[4] = SharedK(setup, p) /\ DOMAIN setup.expertIds[k][q][b[3]] # {}
                   /\ p % g = q % g
  BY <1>1, SharedShape
<1>3. \A b \in S : b[3] \in V
  <2>1. V = {t \in Tokens : DOMAIN setup.expertIds[k][q][t] # {}}
    BY TakerFacts
  <2> QED BY <1>2, <2>1
<1>4. /\ g \in Nat \ {0} /\ AxisK \in Nat /\ p \in Nat
      /\ Cardinality(V) \in Nat /\ TakerNumber(setup, k, q, a[3]) \in 0 .. Cardinality(V) - 1
  <2>1. g \in Nat \ {0} /\ AxisK \in Nat /\ p \in Nat
    BY LayoutFacts DEF Ranks
  <2>2. Cardinality(V) \in Nat /\ TakerNumber(setup, k, q, a[3]) \in 0 .. Cardinality(V) - 1
    BY <1>3, TakerFacts
  <2> QED BY <2>1, <2>2
<1>5. p \div g \in Nat /\ p % g \in 0 .. g - 1 /\ p = g * (p \div g) + (p % g)
  BY <1>4, DivMod
<1>6. PICK v, n, d, index : /\ v = Cardinality(V) /\ n = TakerNumber(setup, k, q, a[3])
                            /\ d = p \div g /\ index = (a[4] - AxisK) * v + n
  OBVIOUS
<1>7. /\ v \in Nat \ {0} /\ n \in 0 .. v - 1 /\ d \in Nat /\ d * v \in Nat
      /\ index = v * d + n /\ index \in Nat
  <2>1. v \in Nat \ {0} /\ n \in 0 .. v - 1 /\ d \in Nat
    BY <1>4, <1>5, <1>6
  <2>2. a[4] - AxisK = d
    <3>1. a[4] = AxisK + d
      BY <1>2, <1>6 DEF SharedK
    <3> QED BY <1>4, <2>1, <3>1
  <2>3. d * v \in Nat /\ d * v = v * d
    BY <2>1
  <2>4. index = d * v + n
    BY <1>6, <2>2
  <2> QED BY <2>1, <2>3, <2>4
<1>8. index \div v = d /\ index % v = n
  <2>1. index \div v \in Nat /\ index % v \in 0 .. v - 1 /\ index = v * (index \div v) + (index % v)
    BY <1>7, DivMod
  <2>2. PICK y, z : y = index \div v /\ z = index % v
    OBVIOUS
  <2>3. y \in Int /\ z \in 0 .. v - 1 /\ d \in Int /\ v * y + z = v * d + n
    BY <1>7, <2>1, <2>2
  <2>4. y = d /\ z = n
    BY <1>7, <2>3, DivUnique
  <2> QED BY <2>2, <2>4
<1>9. (CHOOSE u \in V : TakerNumber(setup, k, q, u) = n) = a[3]
  BY <1>3, <1>6, TakerFacts
<1>10. (q % g) + d * g = p
  <2>1. d * g = g * d
    BY <1>4, <1>7
  <2> QED BY <1>2, <1>4, <1>5, <1>6, <2>1
<1>11. /\ Valid(q) = V /\ \A u : ValidIndex(q, u) = TakerNumber(setup, k, q, u)
       /\ RankNumPerShared = g
  BY AtWork
<1>12. SharedSend(q, index) =
         [to |-> (q % g) + d * g, cell |-> <<q, n>>, token |-> <<round[q], q, a[3], AxisK + d>>]
  BY <1>6, <1>8, <1>9, <1>11 DEF SharedSend
<1>13. n = Slot(S, a)
  <2>1. {b[3] : b \in R} = {u \in V : u < a[3]}
    <3>1. ASSUME NEW u \in V, u < a[3]
          PROVE  \E b \in R : u = b[3]
      <4>1. u \in Tokens /\ DOMAIN setup.expertIds[k][q][u] # {}
        BY TakerFacts
      <4>2. <<k, q, u, SharedK(setup, p)>> \in S
        BY <1>1, <1>2, <4>1 DEF ToStatus
      <4> QED BY <3>1, <4>2
    <3> QED BY <1>3, <3>1
  <2>2. R \in SUBSET S
    OBVIOUS
  <2> HIDE DEF R, S
  <2>3. Cardinality({b[3] : b \in R}) = Cardinality(R)
    BY <2>2, AsManyTokens DEF S
  <2> QED BY <1>6, <2>1, <2>3 DEF TakerNumber, Slot, R
<1>14. <<round[q], q, a[3], AxisK + d>> = a /\ q = BlockOf(setup, p, i)
  BY <1>1, <1>2, <1>6 DEF BlockOf, SharedK
<1> HIDE DEF S
<1> QED BY <1>6, <1>10, <1>12, <1>13, <1>14 DEF Post, S

(* A quotient is below m when the dividend is below m divisors.            *)
LEMMA DivBelow ==
  ASSUME NEW n \in Nat, NEW d \in Nat \ {0}, NEW m \in Nat, n < d * m
  PROVE  n \div d \in 0 .. m - 1
<1>1. PICK y : y = n \div d
  OBVIOUS
<1>2. y \in Nat /\ n % d \in 0 .. d - 1 /\ n = d * y + (n % d)
  BY <1>1, DivMod
<1>3. SUFFICES ASSUME y >= m
               PROVE  FALSE
  BY <1>1, <1>2
<1>4. d * y >= d * m
  BY <1>2, <1>3
<1>5. d * y \in Nat /\ d * m \in Nat
  BY <1>2
<1> QED BY <1>2, <1>4, <1>5

(* An item of the split is the m-th of a core.                             *)
LEMMA ChunkPlace ==
  ASSUME NEW n \in Nat, NEW cores \in Nat \ {0}
  PROVE  /\ \A t \in 0 .. n - 1 : \E c \in 0 .. cores - 1 :
              \E m \in 0 .. SendNum(c, n, cores) - 1 : StartId(c, n, cores) + m = t
         /\ \A c \in 0 .. cores - 1 : \A m \in 0 .. SendNum(c, n, cores) - 1 :
              StartId(c, n, cores) + m \in 0 .. n - 1
<1>1. \A c \in 0 .. cores - 1 :
        /\ StartId(c, n, cores) \in Nat /\ SendNum(c, n, cores) \in Nat
        /\ StartId(c, n, cores) + SendNum(c, n, cores) <= n
  <2> TAKE c \in 0 .. cores - 1
  <2>1. StartId(c, n, cores) \in Nat /\ EndId(c, n, cores) <= n
    BY ChunkBounds
  <2>2. SendNum(c, n, cores) \in Nat
    BY SendNumType
  <2> QED BY <2>1, <2>2 DEF EndId
<1>2. ASSUME NEW t \in 0 .. n - 1
      PROVE  \E c \in 0 .. cores - 1 :
               \E m \in 0 .. SendNum(c, n, cores) - 1 : StartId(c, n, cores) + m = t
  <2>1. PICK c \in 0 .. cores - 1 : t \in Chunk(c, n, cores)
    BY ChunksCover
  <2>2. PICK y, z : y = StartId(c, n, cores) /\ z = SendNum(c, n, cores)
    OBVIOUS
  <2>3. y \in Nat /\ z \in Nat /\ t \in y .. y + z - 1
    BY <1>1, <2>1, <2>2 DEF Chunk, EndId
  <2>4. t - y \in 0 .. z - 1 /\ y + (t - y) = t
    BY <2>3
  <2> QED BY <2>2, <2>4
<1>3. ASSUME NEW c \in 0 .. cores - 1, NEW m \in 0 .. SendNum(c, n, cores) - 1
      PROVE  StartId(c, n, cores) + m \in 0 .. n - 1
  BY <1>1
<1> QED BY <1>2, <1>3

(* The numbers of the tokens that a rank sends to either kind of experts.  *)
LEMMA IndexFacts ==
  ASSUME NEW s \in Setups, NEW k \in RoundsOf(s), NEW p \in Ranks,
         NEW i \in StatusesOf(s, p), NEW a \in ToStatus(s, k, p, i), NEW q, q = SenderOf(i)
  PROVE  /\ (a[4] < AxisK) = ~(p < s.sharedExpertRankNum)
         /\ ~(p < s.sharedExpertRankNum) =>
              /\ IndexOf(s, k, q, a) = EntryNumber(s, k, q, <<a[3], a[4]>>)
              /\ IndexOf(s, k, q, a) \in 0 .. Cardinality(EntriesOf(s, k, q)) - 1
         /\ p < s.sharedExpertRankNum =>
              /\ IndexOf(s, k, q, a) = (a[4] - AxisK) * Cardinality(TakersOf(s, k, q))
                                         + TakerNumber(s, k, q, a[3])
              /\ IndexOf(s, k, q, a) \in 0 .. SharedNum(s, k, q) - 1
<1>1. AxisK \in Nat
  BY LayoutFacts
<1>2. CASE ~(p < s.sharedExpertRankNum)
  <2>1. a[4] < AxisK
    BY <1>1, <1>2, MoeShape
  <2>2. <<a[3], a[4]>> \in EntriesOf(s, k, q) /\ q \in Ranks
    BY <1>2, EntryOfToken, SenderRank
  <2>3. EntryNumber(s, k, q, <<a[3], a[4]>>) \in 0 .. Cardinality(EntriesOf(s, k, q)) - 1
    BY <2>2, EntryFacts
  <2> QED BY <1>2, <2>1, <2>3 DEF IndexOf
<1>3. CASE p < s.sharedExpertRankNum
  <2> DEFINE V == TakersOf(s, k, q)
             r == s.sharedExpertRankNum
  <2>0. /\ p \in Nat /\ GroupSize(s) \in Nat \ {0} /\ s.sharedExpertNum \in Nat
        /\ r = GroupSize(s) * s.sharedExpertNum
    <3>1. p \in Nat /\ r \in Nat /\ r > 0
      BY <1>3, LayoutFacts DEF Ranks
    <3> QED BY <3>1, LayoutFacts
  <2>1. PICK g, m, d : g = GroupSize(s) /\ m = s.sharedExpertNum /\ d = p \div g
    OBVIOUS
  <2>2. d \in Nat /\ d < m
    <3>1. p \in Nat /\ g \in Nat \ {0} /\ m \in Nat
      BY <2>0, <2>1
    <3>2. r = g * m
      BY <2>0, <2>1
    <3>3. p < g * m
      BY <1>3, <3>2
    <3>4. d \in 0 .. m - 1
      BY <2>1, <3>1, <3>3, DivBelow
    <3> QED BY <3>1, <3>4
  <2>3. a[4] = AxisK + d
    BY <1>3, <2>1, SharedShape DEF SharedK
  <2>4. a[4] - AxisK = d /\ ~(a[4] < AxisK)
    BY <1>1, <2>2, <2>3
  <2>5. a[3] \in V /\ q \in Ranks
    <3>1. q \in Ranks
      BY SenderRank
    <3>2. V = {t \in Tokens : DOMAIN s.expertIds[k][q][t] # {}}
      BY <3>1, TakerFacts
    <3> QED BY <1>3, <3>1, <3>2, SharedShape
  <2>6. PICK v, n : v = Cardinality(V) /\ n = TakerNumber(s, k, q, a[3])
    OBVIOUS
  <2>7. v \in Nat /\ n \in 0 .. v - 1
    BY <2>5, <2>6, TakerFacts
  <2>8. d * v + n \in 0 .. v * m - 1
    <3>1. (d + 1) * v <= m * v
      <4>1. d + 1 \in Int /\ m \in Int /\ d + 1 <= m
        BY <2>0, <2>1, <2>2
      <4> QED BY <2>7, <4>1, TimesMonotone
    <3>2. m \in Nat
      BY <2>0, <2>1
    <3>3. (d + 1) * v = d * v + v /\ m * v = v * m /\ d * v \in Nat
      BY <2>2, <2>7, <3>2
    <3>4. PICK y, z : y = d * v /\ z = v * m
      OBVIOUS
    <3>5. y \in Nat /\ y + v <= z /\ z \in Int
      <4>1. z \in Int
        BY <2>7, <3>2, <3>4
      <4> QED BY <3>1, <3>3, <3>4, <4>1
    <3>6. y + n \in 0 .. z - 1
      BY <2>7, <3>5
    <3> QED BY <3>4, <3>6
  <2>9. IndexOf(s, k, q, a) = (a[4] - AxisK) * v + n
    BY <2>4, <2>6 DEF IndexOf
  <2>10. IndexOf(s, k, q, a) = d * v + n /\ SharedNum(s, k, q) = v * m
    BY <2>1, <2>4, <2>6, <2>9 DEF SharedNum
  <2>11. IndexOf(s, k, q, a) \in 0 .. SharedNum(s, k, q) - 1
    BY <2>8, <2>10
  <2>12. IndexOf(s, k, q, a) = (a[4] - AxisK) * Cardinality(TakersOf(s, k, q))
                                 + TakerNumber(s, k, q, a[3])
    BY <2>4 DEF IndexOf
  <2>13. (a[4] < AxisK) = ~(p < s.sharedExpertRankNum)
    BY <1>3, <2>4
  <2> HIDE DEF V, r
  <2> QED BY <1>3, <2>11, <2>12, <2>13
<1> QED BY <1>2, <1>3

(* Every token of a status is sent.                                        *)
LEMMA EverySent ==
  ASSUME NEW s \in Setups, NEW k \in RoundsOf(s), NEW p \in Ranks,
         NEW i \in StatusesOf(s, p), NEW a \in ToStatus(s, k, p, i), NEW q, q = SenderOf(i)
  PROVE  \E c \in Aivs : \E n : Sends(s, k, q, c, n, a)
<1>1. PICK m, h, index : m = MoeCores(s) /\ h = SharedCores(s) /\ index = IndexOf(s, k, q, a)
  OBVIOUS
<1>2. /\ AivNum \in Nat /\ m \in 1 .. AivNum /\ h = AivNum - m /\ q \in Ranks
      /\ s.sharedExpertRankNum > 0 => h > 0
      /\ s.sharedExpertRankNum \in Nat /\ p \in Nat
  <2>1. /\ AivNum \in Nat /\ s.sharedExpertRankNum \in Nat /\ p \in Nat
    BY LayoutFacts DEF Ranks
  <2>2. m \in 1 .. AivNum /\ h = AivNum - m /\ (s.sharedExpertRankNum > 0 => h > 0)
    BY <1>1, CoreFacts
  <2>3. q \in Ranks
    BY SenderRank
  <2> QED BY <2>1, <2>2, <2>3
<1>3. CASE ~(p < s.sharedExpertRankNum)
  <2>1. PICK e : e = Cardinality(EntriesOf(s, k, q))
    OBVIOUS
  <2>2. index \in 0 .. e - 1 /\ a[4] < AxisK
    BY <1>1, <1>3, <2>1, IndexFacts
  <2>0. e \in Nat
    <3>1. q \in Ranks
      BY SenderRank
    <3>2. Cardinality(EntriesOf(s, k, q)) \in Nat
      BY <3>1, EntryFacts
    <3> QED BY <2>1, <3>2
  <2>3. PICK c \in 0 .. m - 1 : \E n \in 0 .. SendNum(c, e, m) - 1 : StartId(c, e, m) + n = index
    <3>1. m \in Nat \ {0}
      BY <1>2
    <3> QED BY <2>0, <2>2, <3>1, ChunkPlace
  <2>4. c < m /\ c \in Aivs
    BY <1>2 DEF Aivs
  <2>5. SendsOf(s, k, q, c) = SendNum(c, e, m) /\ FirstOf(s, k, q, c) = StartId(c, e, m)
    BY <1>1, <2>1, <2>4 DEF SendsOf, FirstOf
  <2> QED BY <1>1, <2>2, <2>3, <2>4, <2>5 DEF Sends
<1>4. CASE p < s.sharedExpertRankNum
  <2>1. PICK e : e = SharedNum(s, k, q)
    OBVIOUS
  <2>2. index \in 0 .. e - 1 /\ ~(a[4] < AxisK)
    BY <1>1, <1>4, <2>1, IndexFacts
  <2>3. e \in Nat
    <3>1. Cardinality(TakersOf(s, k, q)) \in Nat
      BY <1>2, TakerFacts
    <3>2. s.sharedExpertNum \in Nat
      BY LayoutFacts
    <3> QED BY <2>1, <3>1, <3>2 DEF SharedNum
  <2>4. h \in Nat \ {0}
    BY <1>2, <1>4
  <2>5. PICK d \in 0 .. h - 1 : \E n \in 0 .. SendNum(d, e, h) - 1 : StartId(d, e, h) + n = index
    BY <2>2, <2>3, <2>4, ChunkPlace
  <2>6. PICK c : c = m + d
    OBVIOUS
  <2>7. ~(c < m) /\ c \in Aivs /\ c - m = d
    BY <1>2, <2>4, <2>6 DEF Aivs
  <2>8. SendsOf(s, k, q, c) = SendNum(d, e, h) /\ FirstOf(s, k, q, c) = StartId(d, e, h)
    BY <1>1, <2>1, <2>7 DEF SendsOf, FirstOf
  <2> QED BY <1>1, <2>2, <2>5, <2>7, <2>8 DEF Sends
<1> QED BY <1>3, <1>4

(* The cores of a rank at work.                                            *)
LEMMA AtCores ==
  ASSUME NEW q \in Ranks
  PROVE  /\ SharedUsedAivNum = SharedCores(setup) /\ MoeUsedAivNum = MoeCores(setup)
         /\ \A c : SendTokenNum(q, c) = SendsOf(setup, round[q], q, c)
         /\ \A c : SendAt(q, c) =
              IF c < MoeCores(setup)
              THEN MoeSend(q, FirstOf(setup, round[q], q, c) + idx[q][c])
              ELSE SharedSend(q, FirstOf(setup, round[q], q, c) + idx[q][c])
<1>1. SharedUsedAivNum = SharedCores(setup)
  BY DEF SharedUsedAivNum, SharedCores, SharedRankNum
<1>2. MoeUsedAivNum = MoeCores(setup)
  BY <1>1 DEF MoeUsedAivNum, MoeCores
<1>3. /\ Active(q) = EntriesOf(setup, round[q], q)
      /\ SharedSendCnt(q) = SharedNum(setup, round[q], q)
  BY AtWork DEF SharedSendCnt, SharedNum
<1>4. \A c : SendTokenNum(q, c) = SendsOf(setup, round[q], q, c)
  BY <1>1, <1>2, <1>3 DEF SendTokenNum, SendsOf
<1>5. \A c : SendAt(q, c) =
        IF c < MoeCores(setup)
        THEN MoeSend(q, FirstOf(setup, round[q], q, c) + idx[q][c])
        ELSE SharedSend(q, FirstOf(setup, round[q], q, c) + idx[q][c])
  BY <1>1, <1>2, <1>3 DEF SendAt, FirstOf
<1> QED BY <1>1, <1>2, <1>4, <1>5

(* What a core sends is for the status of the token.                       *)
LEMMA SendIs ==
  ASSUME setup \in Setups, NEW q \in Ranks, NEW c \in Aivs,
         NEW k \in RoundsOf(setup), k = round[q],
         NEW p \in Ranks, NEW i \in StatusesOf(setup, p), SenderOf(i) = q,
         NEW a \in ToStatus(setup, k, p, i), Sends(setup, k, q, c, idx[q][c], a)
  PROVE  SendAt(q, c) = Post(setup, k, p, i, a)
<1>1. PICK index : index = IndexOf(setup, k, q, a)
  OBVIOUS
<1>2. /\ (c < MoeCores(setup)) = (a[4] < AxisK)
      /\ FirstOf(setup, k, q, c) + idx[q][c] = index
  BY <1>1 DEF Sends
<1>3. SendAt(q, c) = IF c < MoeCores(setup) THEN MoeSend(q, index) ELSE SharedSend(q, index)
  BY <1>2, AtCores
<1>4. CASE ~(p < setup.sharedExpertRankNum)
  <2>1. a[4] < AxisK /\ index = EntryNumber(setup, k, q, <<a[3], a[4]>>)
    BY <1>1, <1>4, IndexFacts
  <2>2. MoeSend(q, index) = Post(setup, k, p, i, a)
    BY <1>4, <2>1, MoeSendIs
  <2> QED BY <1>2, <1>3, <2>1, <2>2
<1>5. CASE p < setup.sharedExpertRankNum
  <2>0. ~(a[4] < AxisK)
    BY <1>5, IndexFacts
  <2>1. index = (a[4] - AxisK) * Cardinality(TakersOf(setup, k, q))
                  + TakerNumber(setup, k, q, a[3])
    <3>1. IndexOf(setup, k, q, a) = (a[4] - AxisK) * Cardinality(TakersOf(setup, k, q))
                                      + TakerNumber(setup, k, q, a[3])
      BY <2>0 DEF IndexOf
    <3> QED BY <1>1, <3>1
  <2>2. SharedSend(q, index) = Post(setup, k, p, i, a)
    BY <1>5, <2>1, SharedSendIs
  <2> QED BY <1>2, <1>3, <2>0, <2>2
<1> QED BY <1>4, <1>5

(* The two kinds of experts again.                                         *)
LEMMA ExpertIs ==
  ASSUME IInv, NEW q \in Ranks, NEW x \in 0 .. TotalExpertNum - 1,
         NEW p, p = StatusRank(x), NEW i, i = StatusPlace(q, x)
  PROVE  /\ p \in Ranks /\ i \in StatusesOf(setup, p) /\ SenderOf(i) = q
         /\ x < SharedRankNum => p = x /\ i = q /\ p < setup.sharedExpertRankNum
         /\ ~(x < SharedRankNum) =>
              /\ ~(p < setup.sharedExpertRankNum)
              /\ ExpertAt(setup, p, i) = x - SharedRankNum
<1>1. /\ p \in Ranks /\ i \in StatusesOf(setup, p) /\ SenderOf(i) = q /\ ExpertOf(p, i) = x
  <2>1. p \in Ranks /\ i \in Statuses(p) /\ i % EpWorldSize = q /\ ExpertOf(p, i) = x
    BY PlaceFacts
  <2> QED BY <2>1, AtWork DEF SenderOf
<1>2. SharedRankNum = setup.sharedExpertRankNum /\ ExpertPerRank = PerRank(setup)
  BY AtWork
<1>3. PICK r : r = SharedRankNum
  OBVIOUS
<1>4. r \in Nat /\ x \in Nat /\ p \in Nat
  BY <1>1, <1>3, SetupFacts DEF Ranks
<1>5. CASE x < r
  BY <1>1, <1>2, <1>3, <1>5 DEF StatusRank, StatusPlace
<1>6. CASE ~(x < r)
  <2>1. p = ((x - r) \div ExpertPerRank) + r
    BY <1>3, <1>6 DEF StatusRank
  <2>2. (x - r) \div ExpertPerRank \in Nat
    <3>1. x - r \in Nat /\ ExpertPerRank \in Nat \ {0}
      BY <1>4, <1>6, SetupFacts
    <3> QED BY <3>1, DivMod
  <2>3. ~(p < r)
    BY <1>4, <2>1, <2>2
  <2>4. PICK y : y = (p - r) * ExpertPerRank + (i \div EpWorldSize)
    OBVIOUS
  <2>5. ExpertOf(p, i) = r + (p - r) * ExpertPerRank + (i \div EpWorldSize)
    BY <1>3, <2>3 DEF ExpertOf
  <2>6. (p - r) * ExpertPerRank \in Int /\ i \div EpWorldSize \in Int
    <3>1. ExpertPerRank \in Int /\ p - r \in Int
      BY <1>4, SetupFacts
    <3>2. i \in Nat /\ EpWorldSize \in Nat \ {0}
      <4>1. setup \in Setups /\ EpWorldSize \in Nat \ {0}
        BY SetupFacts DEF IInv, TypeInv
      <4>2. i \in Nat
        BY <1>1, <4>1, BlockFacts
      <4> QED BY <4>1, <4>2
    <3>3. i \div EpWorldSize \in Nat
      BY <3>2, DivMod
    <3> QED BY <3>1, <3>3
  <2>7. y = x - r
    BY <1>1, <1>4, <2>4, <2>5, <2>6
  <2>8. ExpertAt(setup, p, i) = y
    BY <1>2, <1>3, <2>4 DEF ExpertAt
  <2> QED BY <1>1, <1>2, <1>3, <1>6, <2>3, <2>7, <2>8
<1> QED BY <1>1, <1>3, <1>5, <1>6

(* Whatever number an entry has, it is a token of some status.             *)
LEMMA EntryWritten ==
  ASSUME IInv, NEW q \in Ranks, NEW k \in RoundsOf(setup), NEW b \in EntriesOf(setup, k, q)
  PROVE  \E p \in Ranks : \E i \in StatusesOf(setup, p) : \E a \in ToStatus(setup, k, p, i) :
           /\ SenderOf(i) = q /\ a[4] < AxisK
           /\ IndexOf(setup, k, q, a) = EntryNumber(setup, k, q, b)
<1>1. /\ setup \in Setups /\ AxisK \in Nat
      /\ SharedRankNum = setup.sharedExpertRankNum
  BY LayoutFacts, AtWork DEF IInv, TypeInv
<1>2. /\ b = <<b[1], b[2]>> /\ b[1] \in Tokens /\ b[2] \in 0 .. AxisK - 1
      /\ b[2] \in DOMAIN setup.expertIds[k][q][b[1]]
  BY <1>1, EntryFacts
<1>3. PICK y : y = setup.expertIds[k][q][b[1]][b[2]]
  OBVIOUS
<1>4. y \in 0 .. setup.moeExpertNum - 1
  BY <1>1, <1>2, <1>3, RowFacts
<1>5. PICK x : x = y + SharedRankNum
  OBVIOUS
<1>6. /\ x \in 0 .. TotalExpertNum - 1 /\ ~(x < SharedRankNum) /\ x - SharedRankNum = y
  BY <1>4, <1>5, SetupFacts
<1>7. PICK p, i : p = StatusRank(x) /\ i = StatusPlace(q, x)
  OBVIOUS
<1>8. /\ p \in Ranks /\ i \in StatusesOf(setup, p) /\ SenderOf(i) = q
      /\ ~(p < setup.sharedExpertRankNum) /\ ExpertAt(setup, p, i) = y
  BY <1>6, <1>7, ExpertIs
<1>9. PICK a : a = <<k, q, b[1], b[2]>>
  OBVIOUS
<1>10. a[3] = b[1] /\ a[4] = b[2] /\ a \in {k} \X {q} \X Tokens \X (0 .. AxisK - 1)
  BY <1>2, <1>9
<1>11. a \in ToStatus(setup, k, p, i)
  BY <1>2, <1>3, <1>8, <1>10 DEF ToStatus
<1>12. a[4] < AxisK
  BY <1>1, <1>2, <1>10
<1>13. <<a[3], a[4]>> = b
  BY <1>2, <1>10
<1>14. IndexOf(setup, k, q, a) = EntryNumber(setup, k, q, b)
  BY <1>12, <1>13 DEF IndexOf
<1> QED BY <1>8, <1>11, <1>12, <1>14

(* And so is every number of a token for the shared experts.               *)
LEMMA SharedWritten ==
  ASSUME IInv, NEW q \in Ranks, NEW k \in RoundsOf(setup),
         NEW n \in 0 .. SharedNum(setup, k, q) - 1
  PROVE  \E p \in Ranks : \E i \in StatusesOf(setup, p) : \E a \in ToStatus(setup, k, p, i) :
           /\ SenderOf(i) = q /\ ~(a[4] < AxisK)
           /\ IndexOf(setup, k, q, a) = n
<1> DEFINE V == TakersOf(setup, k, q)
           w == setup.sharedExpertRankNum
<1>0. setup \in Setups
  BY DEF IInv, TypeInv
<1>1. PICK v, m, g : v = Cardinality(V) /\ m = setup.sharedExpertNum /\ g = GroupSize(setup)
  OBVIOUS
<1>2. v \in Nat /\ m \in Nat /\ w \in Nat /\ q \in Nat /\ AxisK \in Nat
  <2>1. v \in Nat
    BY <1>0, <1>1, TakerFacts
  <2>2. m \in Nat /\ w \in Nat /\ q \in Nat /\ AxisK \in Nat
    BY <1>0, <1>1, LayoutFacts DEF Ranks
  <2> QED BY <2>1, <2>2
<1>3. SharedNum(setup, k, q) = v * m
  BY <1>1 DEF SharedNum
<1>4. n \in Nat /\ n < v * m /\ v # 0 /\ m # 0
  <2>1. PICK z : z = v * m
    OBVIOUS
  <2>2. z \in Nat /\ n \in 0 .. z - 1
    BY <1>2, <1>3, <2>1
  <2>3. n \in Nat /\ n < z /\ z # 0
    BY <2>2
  <2>4. v = 0 \/ m = 0 => z = 0
    BY <1>2, <2>1
  <2> QED BY <2>1, <2>3, <2>4
<1>5. /\ w > 0 /\ g \in Nat \ {0} /\ w = g * m /\ w < EpWorldSize /\ EpWorldSize \in Nat
  <2>1. w = 0 => m = 0
    BY <1>0, <1>1, LayoutFacts
  <2>2. w > 0
    BY <1>2, <1>4, <2>1
  <2> QED BY <1>0, <1>1, <2>2, LayoutFacts
<1>6. PICK d, r : d = n \div v /\ r = n % v
  OBVIOUS
<1>7. /\ d \in 0 .. m - 1 /\ r \in 0 .. v - 1 /\ n = v * d + r
  <2>1. v \in Nat \ {0}
    BY <1>2, <1>4
  <2> QED BY <1>2, <1>4, <1>6, <2>1, DivBelow, DivMod
<1>8. PICK t \in V : TakerNumber(setup, k, q, t) = r
  BY <1>0, <1>1, <1>7, TakerFacts
<1>9. t \in Tokens /\ DOMAIN setup.expertIds[k][q][t] # {}
  <2>1. V = {u \in Tokens : DOMAIN setup.expertIds[k][q][u] # {}}
    BY <1>0, TakerFacts
  <2> QED BY <2>1
<1>10. PICK f : f = q % g
  OBVIOUS
<1>11. f \in 0 .. g - 1
  BY <1>2, <1>5, <1>10, DivMod
<1>12. PICK p : p = g * d + f
  OBVIOUS
<1>13. p \in Nat /\ p < w /\ p % g = f /\ p \div g = d
  <2>1. (d + 1) * g <= m * g
    <3>1. d + 1 \in Int /\ m \in Int /\ d + 1 <= m
      BY <1>2, <1>7
    <3> QED BY <1>5, <3>1, TimesMonotone
  <2>2. (d + 1) * g = g * d + g /\ m * g = g * m /\ g * d \in Nat
    BY <1>2, <1>5, <1>7
  <2>3. p \in Nat /\ p < w
    <3>1. PICK y, z : y = g * d /\ z = g * m
      OBVIOUS
    <3>2. y \in Nat /\ y + g <= z /\ z = w /\ p = y + f
      BY <1>5, <1>12, <2>1, <2>2, <3>1
    <3> QED BY <1>2, <1>5, <1>11, <3>2
  <2>4. p \div g \in Nat /\ p % g \in 0 .. g - 1 /\ p = g * (p \div g) + (p % g)
    BY <1>5, <2>3, DivMod
  <2>5. PICK y, z : y = p \div g /\ z = p % g
    OBVIOUS
  <2>6. y \in Int /\ z \in 0 .. g - 1 /\ d \in Int /\ g * y + z = g * d + f
    BY <1>7, <1>12, <2>4, <2>5
  <2>7. y = d /\ z = f
    BY <1>5, <1>11, <2>6, DivUnique
  <2> QED BY <2>3, <2>5, <2>7
<1>14. p \in Ranks /\ q \in StatusesOf(setup, p) /\ SenderOf(q) = q
  <2>1. p \in Ranks
    BY <1>2, <1>5, <1>13 DEF Ranks
  <2>2. q \in 0 .. EpWorldSize - 1
    BY DEF Ranks
  <2>3. q \in StatusesOf(setup, p)
    BY <1>13, <2>2 DEF StatusesOf
  <2>4. q % EpWorldSize = q
    BY <1>5, <2>2
  <2> QED BY <2>1, <2>3, <2>4 DEF SenderOf
<1>15. PICK a : a = <<k, q, t, SharedK(setup, p)>>
  OBVIOUS
<1>16. a[3] = t /\ a[4] = AxisK + d
  BY <1>1, <1>13, <1>15 DEF SharedK
<1>17. a \in ToStatus(setup, k, p, q)
  BY <1>1, <1>9, <1>10, <1>13, <1>14, <1>15 DEF ToStatus
<1>18. ~(a[4] < AxisK) /\ a[4] - AxisK = d
  BY <1>2, <1>7, <1>16
<1>19. IndexOf(setup, k, q, a) = n
  <2>1. IndexOf(setup, k, q, a) = d * v + r
    BY <1>1, <1>8, <1>16, <1>18 DEF IndexOf
  <2>2. d * v = v * d
    BY <1>2, <1>7
  <2> QED BY <1>7, <2>1, <2>2
<1> QED BY <1>14, <1>17, <1>18, <1>19

(* So a core sends nothing but the tokens of the statuses.                 *)
LEMMA SendWrites ==
  ASSUME IInv, NEW q \in Ranks, NEW c \in Aivs, NEW k \in RoundsOf(setup),
         NEW n \in 0 .. SendsOf(setup, k, q, c) - 1
  PROVE  \E p \in Ranks : \E i \in StatusesOf(setup, p) : \E a \in ToStatus(setup, k, p, i) :
           SenderOf(i) = q /\ Sends(setup, k, q, c, n, a)
<1>0. setup \in Setups
  BY DEF IInv, TypeInv
<1>1. PICK m, h, index : /\ m = MoeCores(setup) /\ h = SharedCores(setup)
                         /\ index = FirstOf(setup, k, q, c) + n
  OBVIOUS
<1>2. AivNum \in Nat /\ m \in 1 .. AivNum /\ h = AivNum - m /\ c \in 0 .. AivNum - 1
  BY <1>0, <1>1, LayoutFacts, CoreFacts DEF Aivs
<1>3. CASE c < m
  <2>1. PICK e : e = Cardinality(EntriesOf(setup, k, q))
    OBVIOUS
  <2>2. e \in Nat
    BY <1>0, <2>1, EntryFacts
  <2>3. SendsOf(setup, k, q, c) = SendNum(c, e, m) /\ FirstOf(setup, k, q, c) = StartId(c, e, m)
    BY <1>1, <1>3, <2>1 DEF SendsOf, FirstOf
  <2>4. index \in 0 .. e - 1
    <3>1. m \in Nat \ {0} /\ c \in 0 .. m - 1
      BY <1>2, <1>3
    <3>2. n \in 0 .. SendNum(c, e, m) - 1 /\ index = StartId(c, e, m) + n
      BY <1>1, <2>3
    <3> QED BY <2>2, <3>1, <3>2, ChunkPlace
  <2>5. PICK b \in EntriesOf(setup, k, q) : EntryNumber(setup, k, q, b) = index
    BY <1>0, <2>1, <2>4, EntryFacts
  <2>6. PICK p \in Ranks : \E i \in StatusesOf(setup, p) : \E a \in ToStatus(setup, k, p, i) :
          /\ SenderOf(i) = q /\ a[4] < AxisK
          /\ IndexOf(setup, k, q, a) = index
    BY <2>5, EntryWritten
  <2> QED BY <1>1, <1>3, <2>6 DEF Sends
<1>4. CASE ~(c < m)
  <2>1. PICK e, d : e = SharedNum(setup, k, q) /\ d = c - m
    OBVIOUS
  <2>2. e \in Nat
    <3>1. Cardinality(TakersOf(setup, k, q)) \in Nat
      BY <1>0, TakerFacts
    <3>2. setup.sharedExpertNum \in Nat
      BY <1>0, LayoutFacts
    <3> QED BY <2>1, <3>1, <3>2 DEF SharedNum
  <2>3. SendsOf(setup, k, q, c) = SendNum(d, e, h) /\ FirstOf(setup, k, q, c) = StartId(d, e, h)
    BY <1>1, <1>4, <2>1 DEF SendsOf, FirstOf
  <2>4. index \in 0 .. e - 1
    <3>1. h \in Nat \ {0} /\ d \in 0 .. h - 1
      BY <1>2, <1>4, <2>1
    <3>2. n \in 0 .. SendNum(d, e, h) - 1 /\ index = StartId(d, e, h) + n
      BY <1>1, <2>3
    <3> QED BY <2>2, <3>1, <3>2, ChunkPlace
  <2>5. PICK p \in Ranks : \E i \in StatusesOf(setup, p) : \E a \in ToStatus(setup, k, p, i) :
          /\ SenderOf(i) = q /\ ~(a[4] < AxisK)
          /\ IndexOf(setup, k, q, a) = index
    BY <2>1, <2>4, SharedWritten
  <2> QED BY <1>1, <1>4, <2>5 DEF Sends
<1> QED BY <1>3, <1>4

(* The statuses of a rank, their counts, and the rows before each of them. *)
StatusNum(s, p) == IF p < s.sharedExpertRankNum THEN EpWorldSize ELSE EpWorldSize * PerRank(s)

CntTable(s, k, p) == [i \in StatusesOf(s, p) |-> Cardinality(ToStatus(s, k, p, i))]

RowsUpTo(s, k, p, n) == SumOf(0 .. n - 1, CntTable(s, k, p))

(* The counts are bounded by the tokens of a rank, and add up to the rows. *)
LEMMA CntFacts ==
  ASSUME NEW s \in Setups, NEW k \in RoundsOf(s), NEW p \in Ranks
  PROVE  /\ StatusNum(s, p) \in Nat \ {0} /\ StatusesOf(s, p) = 0 .. StatusNum(s, p) - 1
         /\ \A i \in StatusesOf(s, p) :
              /\ CntTable(s, k, p)[i] = Cardinality(ToStatus(s, k, p, i))
              /\ CntTable(s, k, p)[i] \in 0 .. AxisBS
         /\ RowsUpTo(s, k, p, 0) = 0
         /\ \A i \in StatusesOf(s, p) :
              /\ RowsUpTo(s, k, p, i) \in Nat
              /\ RowsUpTo(s, k, p, i + 1) = RowsUpTo(s, k, p, i) + CntTable(s, k, p)[i]
              /\ RowsUpTo(s, k, p, i + 1) <= StatusNum(s, p) * AxisBS
         /\ \A i, j \in StatusesOf(s, p) : i < j =>
              RowsUpTo(s, k, p, i + 1) <= RowsUpTo(s, k, p, j)
<1> DEFINE n == StatusNum(s, p)
           f == CntTable(s, k, p)
           B == RowsUpTo(s, k, p, n)
<1>1. n \in Nat \ {0} /\ AxisBS \in Nat /\ StatusesOf(s, p) = 0 .. n - 1
  <2>1. /\ EpWorldSize \in Nat \ {0} /\ PerRank(s) \in Nat \ {0} /\ AxisBS \in Nat
    BY LayoutFacts
  <2>2. EpWorldSize * PerRank(s) \in Nat \ {0}
    <3>1. PICK w, e : w = EpWorldSize /\ e = PerRank(s)
      OBVIOUS
    <3>2. w \in Nat \ {0} /\ e \in Nat \ {0}
      BY <2>1, <3>1
    <3>3. w * e \in Nat \ {0}
      BY <3>2
    <3> QED BY <3>1, <3>3
  <2> QED BY <2>1, <2>2 DEF StatusNum, StatusesOf
<1>2. \A i \in StatusesOf(s, p) : f[i] = Cardinality(ToStatus(s, k, p, i)) /\ f[i] \in 0 .. AxisBS
  <2>1. \A i \in StatusesOf(s, p) : Cardinality(ToStatus(s, k, p, i)) \in 0 .. AxisBS
    BY SlotFacts
  <2> QED BY <2>1 DEF CntTable
<1>3. \A m : RowsUpTo(s, k, p, m) = SumOf(0 .. m - 1, f)
  BY DEF RowsUpTo
<1> HIDE DEF n, f
<1>4. \A i \in 0 .. n - 1 : f[i] \in Nat
  BY <1>1, <1>2
<1>5. /\ SumOf(0 .. -1, f) = 0
      /\ \A i \in 0 .. n : SumOf(0 .. i - 1, f) \in Nat
      /\ \A i \in 0 .. n - 1 : SumOf(0 .. i, f) = SumOf(0 .. i - 1, f) + f[i]
      /\ \A i \in 0 .. n : \A j \in 0 .. i : SumOf(0 .. j - 1, f) <= SumOf(0 .. i - 1, f)
  BY <1>1, <1>4, SumUpTo
<1>6. RowsUpTo(s, k, p, 0) = 0
  <2>1. 0 - 1 = -1
    OBVIOUS
  <2> QED BY <1>3, <1>5, <2>1
<1>7. \A i \in 0 .. n : RowsUpTo(s, k, p, i) \in Nat
  BY <1>3, <1>5
<1>8. \A i \in 0 .. n - 1 : RowsUpTo(s, k, p, i + 1) = RowsUpTo(s, k, p, i) + f[i]
  <2>1. \A i \in 0 .. n - 1 : (i + 1) - 1 = i
    BY <1>1
  <2> QED BY <1>3, <1>5, <2>1
<1>9. \A i \in 0 .. n : \A j \in 0 .. i : RowsUpTo(s, k, p, j) <= RowsUpTo(s, k, p, i)
  BY <1>3, <1>5
<1>10. \A m \in Nat : m <= n => RowsUpTo(s, k, p, m) <= m * AxisBS
  <2> DEFINE T == {m \in Nat : m <= n => RowsUpTo(s, k, p, m) <= m * AxisBS}
  <2>1. 0 \in T
    BY <1>1, <1>6
  <2>2. ASSUME NEW m \in Nat, m \in T
        PROVE  m + 1 \in T
    <3> SUFFICES ASSUME m + 1 <= n
                 PROVE  RowsUpTo(s, k, p, m + 1) <= (m + 1) * AxisBS
      OBVIOUS
    <3>1. m <= n /\ m \in 0 .. n - 1 /\ m \in 0 .. n
      BY <1>1
    <3>2. PICK y, z, b : y = RowsUpTo(s, k, p, m) /\ z = m * AxisBS /\ b = f[m]
      OBVIOUS
    <3>3. y <= z /\ y \in Nat /\ z \in Nat /\ b \in 0 .. AxisBS
      BY <1>1, <1>2, <1>7, <2>2, <3>1, <3>2
    <3>4. RowsUpTo(s, k, p, m + 1) = y + b
      BY <1>8, <3>1, <3>2
    <3>5. (m + 1) * AxisBS = z + AxisBS
      BY <1>1, <3>2
    <3> QED BY <1>1, <3>3, <3>4, <3>5
  <2> HIDE DEF T
  <2>3. \A m \in Nat : m \in T
    BY <2>1, <2>2, NatInduct
  <2> QED BY <2>3 DEF T
<1>11. \A i \in 0 .. n - 1 : RowsUpTo(s, k, p, i + 1) <= n * AxisBS
  <2> TAKE i \in 0 .. n - 1
  <2>1. n \in 0 .. n /\ i + 1 \in 0 .. n
    BY <1>1
  <2>2. RowsUpTo(s, k, p, i + 1) <= RowsUpTo(s, k, p, n) /\ RowsUpTo(s, k, p, n) <= n * AxisBS
    BY <1>1, <1>9, <1>10, <2>1
  <2>3. RowsUpTo(s, k, p, i + 1) \in Nat /\ RowsUpTo(s, k, p, n) \in Nat /\ n * AxisBS \in Nat
    BY <1>1, <1>7, <2>1
  <2> QED BY <2>2, <2>3
<1>12. \A i, j \in 0 .. n - 1 : i < j => RowsUpTo(s, k, p, i + 1) <= RowsUpTo(s, k, p, j)
  <2> TAKE i, j \in 0 .. n - 1
  <2>1. i < j => j \in 0 .. n /\ i + 1 \in 0 .. j
    BY <1>1
  <2> QED BY <1>9, <2>1
<1>13. \A i \in 0 .. n - 1 : RowsUpTo(s, k, p, i) \in Nat
  BY <1>1, <1>7
<1> QED BY <1>1, <1>2, <1>6, <1>8, <1>11, <1>12, <1>13 DEF n, f

(* Only the last cores are without a share.                                *)
LEMMA EarlierShares ==
  ASSUME NEW n \in Nat, NEW cores \in Nat \ {0}, NEW c \in 0 .. cores - 1, NEW d \in 0 .. c,
         Chunk(c, n, cores) # {}
  PROVE  Chunk(d, n, cores) # {}
<1>1. d \in 0 .. cores - 1
  OBVIOUS
<1>2. n \div cores \in Nat /\ n % cores \in 0 .. cores - 1
  BY DivMod
<1>3. /\ StartId(d, n, cores) \in Nat /\ SendNum(d, n, cores) \in Nat
      /\ StartId(c, n, cores) \in Nat /\ SendNum(c, n, cores) \in Nat
  BY <1>1, ChunkBounds, SendNumType
<1>4. SendNum(c, n, cores) > 0
  <2>1. PICK y, z : y = StartId(c, n, cores) /\ z = SendNum(c, n, cores)
    OBVIOUS
  <2>2. y \in Nat /\ z \in Nat /\ y .. y + z - 1 # {}
    BY <1>3, <2>1 DEF Chunk, EndId
  <2>3. z > 0
    BY <2>2
  <2> QED BY <2>1, <2>3
<1>5. SendNum(d, n, cores) > 0
  <2>1. PICK y, z : y = n \div cores /\ z = n % cores
    OBVIOUS
  <2>2. y \in Nat /\ z \in Int /\ c \in Nat /\ d \in Nat /\ d <= c
    BY <1>2, <2>1
  <2>3. SendNum(c, n, cores) = y + (IF c < z THEN 1 ELSE 0)
    BY <2>1 DEF SendNum
  <2>4. SendNum(d, n, cores) = y + (IF d < z THEN 1 ELSE 0)
    BY <2>1 DEF SendNum
  <2> QED BY <1>4, <2>2, <2>3, <2>4
<1>6. PICK y, z : y = StartId(d, n, cores) /\ z = SendNum(d, n, cores)
  OBVIOUS
<1>7. y \in y .. y + z - 1
  BY <1>3, <1>5, <1>6
<1>8. Chunk(d, n, cores) = y .. y + z - 1
  <2>1. EndId(d, n, cores) = y + z
    BY <1>6 DEF EndId
  <2>2. Chunk(d, n, cores) = y .. EndId(d, n, cores) - 1
    BY <1>6 DEF Chunk
  <2>3. y \in Int /\ z \in Int /\ EndId(d, n, cores) \in Int
    BY <1>3, <1>6, <2>1
  <2> QED BY <2>1, <2>2, <2>3
<1> QED BY <1>7, <1>8

(* The shares of the cores before one, added up.                           *)
SumBefore(m, f) == SumOf(0 .. m - 1, f)

(* The sums of the shares of the cores before c add up to the sum of what  *)
(* comes before the share of c.                                            *)
LEMMA SumOfShares ==
  ASSUME NEW n \in Nat, NEW cores \in Nat \ {0}, NEW f, \A i \in 0 .. n - 1 : f[i] \in Nat,
         NEW c \in 0 .. cores - 1, NEW g,
         \A d \in 0 .. c - 1 : g[d] = SumOf(Chunk(d, n, cores), f)
  PROVE  SumBefore(c, g) = SumBefore(StartId(c, n, cores), f)
<1> DEFINE from(d) == StartId(d, n, cores)
           T == {d \in Nat : d <= c =>
                   SumOf(0 .. d - 1, g) = SumOf(0 .. from(d) - 1, f)}
<1>1. \A d \in 0 .. cores - 1 :
        /\ from(d) \in Nat /\ EndId(d, n, cores) \in Nat /\ from(d) <= EndId(d, n, cores)
        /\ EndId(d, n, cores) <= n
        /\ Chunk(d, n, cores) = from(d) .. EndId(d, n, cores) - 1
  BY ChunkBounds DEF Chunk
<1>2. from(0) = 0 /\ \A d \in 0 .. cores - 2 : from(d + 1) = EndId(d, n, cores)
  BY ChunksAdjacent
<1> HIDE DEF from
<1>3. \A d \in 0 .. c - 1 : g[d] \in Nat
  <2> TAKE d \in 0 .. c - 1
  <2>1. d \in 0 .. cores - 1
    OBVIOUS
  <2>2. /\ from(d) \in Nat /\ EndId(d, n, cores) \in Nat /\ EndId(d, n, cores) <= n
        /\ Chunk(d, n, cores) = from(d) .. EndId(d, n, cores) - 1
    BY <1>1, <2>1
  <2>3. IsFiniteSet(Chunk(d, n, cores)) /\ \A i \in Chunk(d, n, cores) : f[i] \in Nat
    <3>1. from(d) \in Int /\ EndId(d, n, cores) - 1 \in Int
      BY <2>2
    <3>2. IsFiniteSet(Chunk(d, n, cores))
      BY <2>2, <3>1, FS_Interval
    <3> QED BY <2>2, <3>2
  <2>4. SumOf(Chunk(d, n, cores), f) \in Nat
    BY <2>3, SumType
  <2> QED BY <2>4
<1>4. 0 \in T
  <2>1. 0 .. 0 - 1 = {} /\ 0 .. from(0) - 1 = {}
    BY <1>2
  <2>2. SumOf(0 .. 0 - 1, g) = SumOf(0 .. from(0) - 1, f)
    BY <2>1, SumEmpty
  <2> QED BY <2>2
<1>5. ASSUME NEW d \in Nat, d \in T
      PROVE  d + 1 \in T
  <2> SUFFICES ASSUME d + 1 <= c
               PROVE  SumOf(0 .. (d + 1) - 1, g) = SumOf(0 .. from(d + 1) - 1, f)
    OBVIOUS
  <2>1. d <= c /\ d \in 0 .. c - 1 /\ d \in 0 .. cores - 1 /\ d \in 0 .. cores - 2 /\ (d + 1) - 1 = d
    OBVIOUS
  <2>2. PICK y, z : y = from(d) /\ z = EndId(d, n, cores)
    OBVIOUS
  <2>3. /\ y \in Nat /\ z \in Nat /\ y <= z /\ z <= n /\ Chunk(d, n, cores) = y .. z - 1
        /\ from(d + 1) = z
    BY <1>1, <1>2, <2>1, <2>2
  <2>4. SumOf(0 .. d, g) = SumOf(0 .. d - 1, g) + g[d]
    <3>1. \A i \in 0 .. d : g[i] \in Nat
      BY <1>3, <2>1
    <3> QED BY <3>1, SumStep
  <2>5. SumOf(0 .. z - 1, f) = SumOf(0 .. y - 1, f) + SumOf(y .. z - 1, f)
    <3>0. PICK A, B : A = 0 .. y - 1 /\ B = y .. z - 1
      OBVIOUS
    <3>1. 0 .. z - 1 = A \cup B /\ A \cap B = {}
      BY <2>3, <3>0
    <3>2. IsFiniteSet(A) /\ IsFiniteSet(B)
      <4>1. y - 1 \in Int /\ z - 1 \in Int /\ y \in Int /\ 0 \in Int
        BY <2>3
      <4> QED BY <3>0, <4>1, FS_Interval
    <3>3. \A i \in A \cup B : f[i] \in Nat
      BY <2>3, <3>0
    <3>4. SumOf(A \cup B, f) = SumOf(A, f) + SumOf(B, f)
      BY <3>1, <3>2, <3>3, SumUnion
    <3> QED BY <3>0, <3>1, <3>4
  <2>6. SumOf(0 .. d - 1, g) = SumOf(0 .. y - 1, f)
    BY <1>5, <2>1, <2>2
  <2>7. g[d] = SumOf(y .. z - 1, f)
    BY <2>1, <2>3
  <2>8. SumOf(0 .. d, g) = SumOf(0 .. z - 1, f)
    BY <2>4, <2>5, <2>6, <2>7
  <2>9. SumOf(0 .. (d + 1) - 1, g) = SumOf(0 .. d, g)
    BY <2>1
  <2>10. SumOf(0 .. from(d + 1) - 1, f) = SumOf(0 .. z - 1, f)
    BY <2>3
  <2> QED BY <2>8, <2>9, <2>10
<1> HIDE DEF T
<1>6. \A d \in Nat : d \in T
  BY <1>4, <1>5, NatInduct
<1>7. c \in Nat /\ c \in T
  BY <1>6
<1> QED BY <1>7 DEF T, from, SumBefore

(* The count that a rank sends is the number of the tokens.                *)
LEMMA StatusCntIs ==
  ASSUME IInv, NEW q \in Ranks, NEW k \in RoundsOf(setup), k = round[q],
         NEW x \in 0 .. TotalExpertNum - 1,
         NEW p, p = StatusRank(x), NEW i, i = StatusPlace(q, x)
  PROVE  StatusCnt(q, x) = Cardinality(ToStatus(setup, k, p, i))
<1> DEFINE E == EntriesOf(setup, k, q)
           V == TakersOf(setup, k, q)
           S == ToStatus(setup, k, p, i)
           row(t) == setup.expertIds[k][q][t]
<1>0. setup \in Setups
  BY DEF IInv, TypeInv
<1>1. /\ p \in Ranks /\ i \in StatusesOf(setup, p) /\ SenderOf(i) = q
      /\ x < SharedRankNum => p = x /\ i = q /\ p < setup.sharedExpertRankNum
      /\ ~(x < SharedRankNum) =>
           ~(p < setup.sharedExpertRankNum) /\ ExpertAt(setup, p, i) = x - SharedRankNum
  BY ExpertIs
<1>2. /\ Active(q) = E /\ Valid(q) = V /\ RankNumPerShared = GroupSize(setup)
      /\ \A t : Row(q, t) = row(t)
  BY AtWork DEF Row
<1>3. V = {t \in Tokens : DOMAIN row(t) # {}}
  BY <1>0, TakerFacts, SMTT(30)
<1>4. CASE ~(x < SharedRankNum)
  <2> DEFINE T == {b \in E : row(b[1])[b[2]] = x - SharedRankNum}
  <2>1. StatusCnt(q, x) = Cardinality(T)
    BY <1>2, <1>4 DEF StatusCnt, CntOf
  <2>2. \A a \in S : /\ <<a[3], a[4]>> \in E /\ row(a[3])[a[4]] = x - SharedRankNum
    <3>1. \A a \in S : /\ a[3] \in Tokens /\ a[4] \in 0 .. AxisK - 1
                       /\ a[4] \in DOMAIN row(a[3]) /\ row(a[3])[a[4]] = x - SharedRankNum
      BY <1>0, <1>1, <1>4, MoeShape, SMTT(30)
    <3> HIDE DEF S
    <3> QED BY <3>1 DEF EntriesOf
  <2>3. \A b \in T : <<k, q, b[1], b[2]>> \in S /\ b = <<b[1], b[2]>>
    <3>1. \A b \in E : /\ b = <<b[1], b[2]>> /\ b[1] \in Tokens /\ b[2] \in 0 .. AxisK - 1
                       /\ b[2] \in DOMAIN row(b[1])
      BY <1>0, EntryFacts
    <3> QED BY <1>1, <1>4, <3>1, Zenon DEF ToStatus
  <2>4. {<<a[3], a[4]>> : a \in S} = T
    <3> HIDE DEF S, E, row
    <3>1. \A a \in S : <<a[3], a[4]>> \in T
      BY <2>2
    <3>2. ASSUME NEW b \in T
          PROVE  \E a \in S : b = <<a[3], a[4]>>
      <4>1. PICK a : a = <<k, q, b[1], b[2]>>
        OBVIOUS
      <4>2. a \in S /\ a[3] = b[1] /\ a[4] = b[2] /\ b = <<b[1], b[2]>>
        BY <2>3, <4>1
      <4> QED BY <4>2
    <3> QED BY <3>1, <3>2
  <2>5. Cardinality({<<a[3], a[4]>> : a \in S}) = Cardinality(S)
    BY <1>0, <1>1, AsManyEntries
  <2> QED BY <2>1, <2>4, <2>5, Zenon
<1>5. CASE x < SharedRankNum
  <2> DEFINE near == x % GroupSize(setup) = q % GroupSize(setup)
  <2>1. S = {<<k, q, t, SharedK(setup, p)>> :
               t \in {u \in Tokens : DOMAIN row(u) # {} /\ near}}
    BY <1>1, <1>5 DEF ToStatus
  <2>2. CASE V # {} /\ near
    <3>1. StatusCnt(q, x) = Cardinality(V)
      BY <1>2, <1>5, <2>2 DEF StatusCnt
    <3>2. {a[3] : a \in S} = V
      <4>1. S = {<<k, q, t, SharedK(setup, p)>> : t \in V}
        BY <1>3, <2>1, <2>2
      <4> HIDE DEF V, S
      <4>2. \A a \in S : \E t \in V : a = <<k, q, t, SharedK(setup, p)>>
        BY <4>1
      <4>3. \A a \in S : a[3] \in V
        BY <4>2
      <4>4. ASSUME NEW t \in V
            PROVE  \E a \in S : t = a[3]
        <5>1. PICK a : a = <<k, q, t, SharedK(setup, p)>>
          OBVIOUS
        <5>2. a \in S /\ a[3] = t
          BY <4>1, <5>1
        <5> QED BY <5>2
      <4> QED BY <4>3, <4>4
    <3>3. Cardinality({a[3] : a \in S}) = Cardinality(S)
      BY <1>0, <1>1, AsManyTokens
    <3> QED BY <3>1, <3>2, <3>3
  <2>3. CASE V # {} /\ ~near
    <3>1. StatusCnt(q, x) = 0
      BY <1>2, <1>5, <2>3 DEF StatusCnt
    <3>2. S = {}
      BY <2>1, <2>3
    <3> QED BY <3>1, <3>2, FS_EmptySet
  <2>4. CASE V = {}
    <3>1. Active(q) = {}
      BY <1>2, <2>4 DEF Valid
    <3>2. StatusCnt(q, x) = Cardinality({})
      <4>1. StatusCnt(q, x) = CntOf(q, Active(q), x - SharedRankNum)
        BY <1>2, <2>4 DEF StatusCnt
      <4> QED BY <3>1, <4>1 DEF CntOf
    <3>3. S = {}
      <4>1. ~(\E u \in Tokens : DOMAIN row(u) # {})
        BY <1>3, <2>4
      <4> QED BY <2>1, <4>1
    <3> QED BY <3>2, <3>3
  <2> QED BY <2>2, <2>3, <2>4
<1> QED BY <1>4, <1>5

(* The cores before one have put the right sums into the workspace, and    *)
(* the core has the right counts.                                          *)
SumsReady(k, p, c) ==
  \A d \in 0 .. c - 1 : recvCnt[p][d] = SumOf(StatusShare(p, d), CntTable(setup, k, p))

CountsReady(k, p, c) ==
  \A j \in StatusShare(p, c) : counts[p][j] = CntTable(setup, k, p)[j]

(* FirstRow, from what the cores have counted.                             *)
LEMMA FirstRowIs ==
  ASSUME IInv, NEW p \in Ranks, NEW c \in Aivs, NEW k \in RoundsOf(setup),
         SumsReady(k, p, c), CountsReady(k, p, c),
         NEW i \in StatusShare(p, c)
  PROVE  FirstRow(p, c, i) = RowsUpTo(setup, k, p, i)
<1>0. setup \in Setups
  BY DEF IInv, TypeInv
<1>1. PICK n, f : n = StatusNum(setup, p) /\ f = CntTable(setup, k, p)
  OBVIOUS
<1>2. /\ n \in Nat \ {0} /\ StatusesOf(setup, p) = 0 .. n - 1
      /\ \A j \in 0 .. n - 1 : f[j] \in Nat
  <2>1. /\ n \in Nat \ {0} /\ StatusesOf(setup, p) = 0 .. n - 1
        /\ \A j \in StatusesOf(setup, p) : f[j] \in 0 .. AxisBS
    BY <1>0, <1>1, CntFacts
  <2>2. AxisBS \in Nat
    BY <1>0, LayoutFacts
  <2> QED BY <2>1, <2>2
<1>3. /\ AivNum \in Nat \ {0} /\ c \in 0 .. AivNum - 1
      /\ \A d : StatusShare(p, d) = Chunk(d, n, AivNum)
  <2>1. RscvStatusNum(p) = n
    BY <1>1 DEF RscvStatusNum, StatusNum, IsShareExpertRank, SharedRankNum, ExpertPerRank, PerRank
  <2> QED BY <2>1, SetupFacts DEF StatusShare, Aivs
<1>4. PICK y, z : y = StartId(c, n, AivNum) /\ z = EndId(c, n, AivNum)
  OBVIOUS
<1>5. /\ y \in Nat /\ z \in Nat /\ z <= n /\ StatusShare(p, c) = y .. z - 1
  <2>1. y \in Nat /\ z \in Nat /\ z <= n
    BY <1>2, <1>3, <1>4, ChunkBounds
  <2> QED BY <1>3, <1>4, <2>1 DEF Chunk
<1>6. PreCnt(p, c) = SumOf(0 .. y - 1, f)
  <2>1. PICK m \in Nat : m = n
    BY <1>2
  <2>7. PICK w \in Nat \ {0} : w = AivNum
    BY <1>3
  <2>2. PICK e \in 0 .. w - 1 : e = c
    BY <1>3, <2>7
  <2>3. PICK g : g = recvCnt[p]
    OBVIOUS
  <2>4. \A d \in 0 .. e - 1 : g[d] = SumOf(Chunk(d, m, w), f)
    BY <1>1, <1>3, <2>1, <2>2, <2>3, <2>7 DEF SumsReady
  <2>5. \A j \in 0 .. m - 1 : f[j] \in Nat
    BY <1>2, <2>1
  <2>6. SumBefore(e, g) = SumBefore(StartId(e, m, w), f)
    BY <2>4, <2>5, SumOfShares
  <2> QED BY <1>4, <2>1, <2>2, <2>3, <2>6, <2>7 DEF PreCnt, SumBefore
<1>7. i \in y .. z - 1 /\ i \in Nat /\ i < n
  <2>1. i \in y .. z - 1
    BY <1>5
  <2>2. y \in Nat /\ z \in Nat /\ z <= n /\ n \in Nat
    BY <1>2, <1>5
  <2> QED BY <2>1, <2>2
<1>8. {j \in StatusShare(p, c) : j < i} = y .. i - 1
  BY <1>5, <1>7
<1>9. SumOf(y .. i - 1, counts[p]) = SumOf(y .. i - 1, f)
  <2>1. IsFiniteSet(y .. i - 1)
    <3>1. y \in Int /\ i - 1 \in Int
      BY <1>5, <1>7
    <3> QED BY <3>1, FS_Interval
  <2>2. \A j \in y .. i - 1 : f[j] \in Nat /\ counts[p][j] = f[j]
    <3> TAKE j \in y .. i - 1
    <3>1. y \in Nat /\ z \in Nat /\ n \in Nat /\ i \in y .. z - 1 /\ i < n
      BY <1>2, <1>5, <1>7
    <3>2. j \in y .. z - 1 /\ j \in 0 .. n - 1
      BY <3>1
    <3>3. j \in StatusShare(p, c)
      BY <1>5, <3>2
    <3> QED BY <1>1, <1>2, <3>2, <3>3 DEF CountsReady
  <2> QED BY <2>1, <2>2, SumSame
<1>10. SumOf(0 .. i - 1, f) = SumOf(0 .. y - 1, f) + SumOf(y .. i - 1, f)
  <2>0. PICK A, B : A = 0 .. y - 1 /\ B = y .. i - 1
    OBVIOUS
  <2>1. 0 .. i - 1 = A \cup B /\ A \cap B = {}
    BY <1>5, <1>7, <2>0
  <2>2. IsFiniteSet(A) /\ IsFiniteSet(B)
    <3>1. y - 1 \in Int /\ i - 1 \in Int /\ y \in Int /\ 0 \in Int
      BY <1>5, <1>7
    <3> QED BY <2>0, <3>1, FS_Interval
  <2>3. \A j \in A \cup B : f[j] \in Nat
    BY <1>2, <1>5, <1>7, <2>0
  <2>4. SumOf(A \cup B, f) = SumOf(A, f) + SumOf(B, f)
    BY <2>1, <2>2, <2>3, SumUnion
  <2> QED BY <2>0, <2>1, <2>4
<1>11. FirstRow(p, c, i) = SumOf(0 .. y - 1, f) + SumOf(y .. i - 1, f)
  BY <1>6, <1>8, <1>9 DEF FirstRow
<1> QED BY <1>1, <1>10, <1>11 DEF RowsUpTo

(***************************************************************************)
(* The inductive invariant about the tokens.  A token of a round is in its *)
(* cell from when it is sent until the receiver has left the round, and so *)
(* is its count; the cores of the receiver add up the counts and take the  *)
(* tokens from their cells.                                                *)
(***************************************************************************)

(* Rank q has sent token a of round k.                                     *)
MsgSent(q, k, a) ==
  \/ round[q] > k
  \/ /\ round[q] = k
     /\ \A c \in Aivs : \A n : Sends(setup, k, q, c, n, a) =>
          pc[q][c] # "send" \/ n < idx[q][c]

(* The cell of a token: the block of its status, and its place in it.      *)
CellIn(s, k, p, i, a) == <<BlockOf(s, p, i), Slot(ToStatus(s, k, p, i), a)>>

(* The rounds that come into the windows of a rank.                        *)
Coming(p) == {round[p], round[p] + 1} \cap RoundsOf(setup)

(* The windows have a cell for every token of every status.                *)
DataType ==
  /\ DOMAIN dataWin = Ranks
  /\ \A p \in Ranks :
       /\ DOMAIN dataWin[p] = Halves
       /\ \A h \in Halves : DOMAIN dataWin[p][h] = StatusesOf(setup, p) \X Tokens

(* A token that was sent is in its cell.                                   *)
DataInv ==
  \A p \in Ranks : \A i \in StatusesOf(setup, p) : \A k \in Coming(p) :
    \A a \in ToStatus(setup, k, p, i) :
      MsgSent(SenderOf(i), k, a) => dataWin[p][Half(k)][CellIn(setup, k, p, i, a)] = a

(* A status that has arrived has the count of its tokens, also once it is  *)
(* counted.                                                                *)
CntInv ==
  \A p \in Ranks : \A i \in StatusesOf(setup, p) : \A k \in Coming(p) :
    statusWin[p][Half(k)][i].flag = 1 \/ Counted(p, i, k) =>
      statusWin[p][Half(k)][i].cnt = Cardinality(ToStatus(setup, k, p, i))

(* The places of a core that has done its part of the copy.                *)
Ended == {"dispatched"} \cup After

(* The counts that a rank has taken.                                       *)
CountsInv(p) ==
  \A i \in StatusesOf(setup, p) : Counted(p, i, round[p]) =>
    counts[p][i] = CntTable(setup, round[p], p)[i]

(* The sum that a core has put into the workspace.                         *)
RecvInv(p, c) ==
  pc[p][c] \in Passed /\ StatusShare(p, c) # {} =>
    recvCnt[p][c] = SumOf(StatusShare(p, c), CntTable(setup, round[p], p))

(* What a core has copied: the running sums, the tokens in their rows, and *)
(* (core 0) the counts per expert.                                         *)
Copied(p, c) ==
  /\ \A i \in StatusShare(p, c) :
       /\ sendCounts[p][i] = RowsUpTo(setup, round[p], p, i + 1)
       /\ \A a \in ToStatus(setup, round[p], p, i) :
            expandX[p][RowsUpTo(setup, round[p], p, i) + Slot(ToStatus(setup, round[p], p, i), a)]
              = a
  /\ c = 0 => \A e \in DOMAIN expertTokenNums[p] :
       expertTokenNums[p][e] = RowsUpTo(setup, round[p], p, (e + 1) * EpWorldSize)

(* The arrays of a rank are as long as its setup says.                     *)
RankType(p) ==
  /\ DOMAIN counts[p] = StatusesOf(setup, p)
  /\ DOMAIN recvCnt[p] = Aivs
  /\ DOMAIN sendCounts[p] = StatusesOf(setup, p)
  /\ DOMAIN expandX[p] = 0 .. StatusNum(setup, p) * AxisBS - 1
  /\ DOMAIN expertTokenNums[p] = 0 .. StatusNum(setup, p) \div EpWorldSize - 1

(* A core outside a loop has its index at 0.                               *)
LoopInv(p) ==
  \A c \in Aivs : pc[p][c] \notin {"send", "status", "rows", "flags"} => idx[p][c] = 0

(* All of that for one rank.                                               *)
RankInv(p) ==
  /\ round[p] <= Len(setup.expertIds)
  /\ RankType(p) /\ LoopInv(p)
  /\ round[p] > 0 =>
       /\ CountsInv(p)
       /\ \A c \in Aivs : RecvInv(p, c) /\ (pc[p][c] \in Ended => Copied(p, c))

(* The outputs are tables by rank.                                         *)
OutTypes ==
  /\ DOMAIN recvCnt = Ranks /\ DOMAIN sendCounts = Ranks
  /\ DOMAIN expandX = Ranks /\ DOMAIN expertTokenNums = Ranks

(* The invariant about the tokens.                                         *)
DInv == DataType /\ OutTypes /\ DataInv /\ CntInv /\ \A p \in Ranks : RankInv(p)

(* Cells of different tokens are different.                                *)
LEMMA CellFacts ==
  ASSUME NEW s \in Setups, NEW k \in RoundsOf(s), NEW p \in Ranks
  PROVE  /\ \A i \in StatusesOf(s, p) : \A a \in ToStatus(s, k, p, i) :
              CellIn(s, k, p, i, a) \in StatusesOf(s, p) \X Tokens
         /\ \A i, j \in StatusesOf(s, p) :
              \A a \in ToStatus(s, k, p, i), b \in ToStatus(s, k, p, j) :
                CellIn(s, k, p, i, a) = CellIn(s, k, p, j, b) => i = j /\ a = b
<1>1. \A i \in StatusesOf(s, p) : BlockOf(s, p, i) \in StatusesOf(s, p)
  BY BlockFacts
<1>2. \A i, j \in StatusesOf(s, p) : BlockOf(s, p, i) = BlockOf(s, p, j) => i = j
  BY BlockFacts
<1>3. \A i \in StatusesOf(s, p) : \A a \in ToStatus(s, k, p, i) :
        Slot(ToStatus(s, k, p, i), a) \in Tokens
  <2> TAKE i \in StatusesOf(s, p)
  <2> TAKE a \in ToStatus(s, k, p, i)
  <2>1. PICK n, b : n = Slot(ToStatus(s, k, p, i), a) /\ b = Cardinality(ToStatus(s, k, p, i))
    OBVIOUS
  <2>2. b \in 0 .. AxisBS /\ n \in 0 .. b - 1
    BY <2>1, SlotFacts
  <2>3. AxisBS \in Nat
    BY LayoutFacts
  <2>4. n \in Tokens
    BY <2>2, <2>3 DEF Tokens
  <2> QED BY <2>1, <2>4
<1>4. ASSUME NEW i \in StatusesOf(s, p)
      PROVE  \A a, b \in ToStatus(s, k, p, i) :
               Slot(ToStatus(s, k, p, i), a) = Slot(ToStatus(s, k, p, i), b) => a = b
  BY SlotFacts
<1>5. ASSUME NEW i \in StatusesOf(s, p), NEW j \in StatusesOf(s, p),
             NEW a \in ToStatus(s, k, p, i), NEW b \in ToStatus(s, k, p, j),
             CellIn(s, k, p, i, a) = CellIn(s, k, p, j, b)
      PROVE  i = j /\ a = b
  <2>1. /\ BlockOf(s, p, i) = BlockOf(s, p, j)
        /\ Slot(ToStatus(s, k, p, i), a) = Slot(ToStatus(s, k, p, j), b)
    BY <1>5 DEF CellIn
  <2>2. i = j
    BY <1>2, <2>1
  <2> QED BY <1>4, <2>1, <2>2
<1>6. \A i \in StatusesOf(s, p) : \A a \in ToStatus(s, k, p, i) :
        CellIn(s, k, p, i, a) \in StatusesOf(s, p) \X Tokens
  BY <1>1, <1>3 DEF CellIn
<1> QED BY <1>5, <1>6

(* A rank that has counted all statuses of a round has all its tokens.     *)
LEMMA AllSent ==
  ASSUME IInv, NEW p \in Ranks, NEW q \in Ranks, NEW k \in Rounds,
         \A i \in Statuses(p) : Counted(p, i, k)
  PROVE  round[q] > k \/ (round[q] = k /\ \A c \in Aivs : pc[q][c] # "send")
<1> DEFINE r == SharedRankNum
           e == ExpertPerRank
           w == EpWorldSize
<1>1. /\ w \in Nat \ {0} /\ r \in 0 .. w - 1 /\ e \in Nat \ {0} /\ p \in 0 .. w - 1
      /\ TotalExpertNum = r + setup.moeExpertNum /\ setup.moeExpertNum = (w - r) * e
  BY SetupFacts DEF Ranks
<1>2. PICK x \in 0 .. TotalExpertNum - 1 : StatusRank(x) = p
  <2>0. PICK m : m = (w - r) * e
    OBVIOUS
  <2>00. m \in Nat /\ TotalExpertNum = r + m
    BY <1>1, <2>0
  <2>1. CASE p < r
    <3>1. p \in 0 .. TotalExpertNum - 1
      BY <1>1, <2>00, <2>1
    <3>2. StatusRank(p) = p
      BY <2>1 DEF StatusRank
    <3> QED BY <3>1, <3>2
  <2>2. CASE ~(p < r)
    <3>1. PICK y, x : y = p - r /\ x = r + e * y
      OBVIOUS
    <3>2. y \in Nat /\ y + 1 <= w - r
      BY <1>1, <2>2, <3>1
    <3>3. (y + 1) * e <= m
      <4>1. y + 1 \in Int /\ w - r \in Int /\ e \in Nat
        BY <1>1, <3>2
      <4> QED BY <2>0, <3>2, <4>1, TimesMonotone
    <3>4. PICK z : z = e * y
      OBVIOUS
    <3>5. z \in Nat /\ (y + 1) * e = z + e
      BY <1>1, <3>2, <3>4
    <3>6. x = r + z /\ x \in 0 .. TotalExpertNum - 1 /\ ~(x < r) /\ x - r = z
      BY <1>1, <2>00, <3>1, <3>3, <3>4, <3>5
    <3>7. z \div e = y
      <4>1. z \div e \in Nat /\ z % e \in 0 .. e - 1 /\ z = e * (z \div e) + (z % e)
        BY <1>1, <3>5, DivMod
      <4>2. PICK u, v : u = z \div e /\ v = z % e
        OBVIOUS
      <4>3. u \in Int /\ v \in 0 .. e - 1 /\ y \in Int /\ 0 \in 0 .. e - 1 /\ e * u + v = e * y + 0
        BY <1>1, <3>2, <3>4, <3>5, <4>1, <4>2
      <4>4. u = y
        BY <1>1, <4>3, DivUnique
      <4> QED BY <4>2, <4>4
    <3>8. StatusRank(x) = y + r
      BY <3>6, <3>7 DEF StatusRank
    <3>9. y + r = p
      BY <1>1, <3>1
    <3> QED BY <3>6, <3>8, <3>9
  <2> QED BY <2>1, <2>2
<1>3. PICK i : i = StatusPlace(q, x)
  OBVIOUS
<1>4. i \in Statuses(p) /\ i % w = q /\ ExpertOf(p, i) = x
  BY <1>2, <1>3, PlaceFacts
<1>5. Sent(q, x, k)
  BY <1>4 DEF IInv, CountedInv
<1>6. PICK c \in Aivs : x \in ExpertShare(c)
  <2>1. TotalExpertNum \in Nat /\ AivNum \in Nat \ {0}
    BY SetupFacts
  <2> QED BY <2>1, ChunksCover DEF ExpertShare, Aivs
<1>7. pc[q][c] # "send" => \A d \in Aivs : pc[q][d] # "send"
  BY DEF IInv, PhaseInv, Waits, Copies, After
<1>8. round[q] > k \/ (round[q] = k /\ pc[q][c] # "send")
  <2>1. \/ round[q] > k
        \/ round[q] = k /\ \A d \in Aivs : x \in ExpertShare(d) => pc[q][d] # "send"
    BY <1>5 DEF Sent
  <2> QED BY <1>6, <2>1
<1> QED BY <1>7, <1>8

(* A rank that is sending is in the round of its receivers, or the next.   *)
LEMMA SenderRound ==
  ASSUME IInv, NEW q \in Ranks, NEW c \in Aivs, pc[q][c] = "send", NEW p \in Ranks
  PROVE  round[q] \in {round[p], round[p] + 1}
<1>1. round[p] \in Nat /\ round[q] \in Nat /\ round[q] \in Rounds
  BY RoundFacts
<1>2. round[q] <= round[p] + 1
  BY RoundsClose
<1>3. ~(round[p] > round[q])
  <2> SUFFICES ASSUME round[p] > round[q]
               PROVE  FALSE
    OBVIOUS
  <2>1. \A i \in Statuses(p) : Counted(p, i, round[q])
    BY DEF Counted
  <2>2. round[q] > round[q] \/ \A d \in Aivs : pc[q][d] # "send"
    BY <1>1, <2>1, AllSent
  <2> QED BY <1>1, <2>2
<1> QED BY <1>1, <1>2, <1>3

(* The sums of the experts end at a status.                                *)
LEMMA ExpertEnds ==
  ASSUME NEW s \in Setups, NEW p \in Ranks, NEW e \in 0 .. StatusNum(s, p) \div EpWorldSize - 1
  PROVE  (e + 1) * EpWorldSize \in 1 .. StatusNum(s, p)
<1>1. PICK w, n : w = EpWorldSize /\ n = StatusNum(s, p)
  OBVIOUS
<1>2. w \in Nat \ {0}
  BY <1>1, LayoutFacts
<1>3. PICK m \in Nat : n = m * w
  <2>1. PICK r : r = PerRank(s)
    OBVIOUS
  <2>2. r \in Nat
    BY <2>1, LayoutFacts
  <2>3. n = w \/ n = w * r
    BY <1>1, <2>1 DEF StatusNum
  <2>4. w = 1 * w /\ w * r = r * w /\ 1 \in Nat
    BY <1>2, <2>2
  <2> QED BY <2>2, <2>3, <2>4
<1>4. n \in Nat /\ n \div w = m
  <2>1. n \in Nat
    BY <1>2, <1>3
  <2>2. n \div w \in Nat /\ n % w \in 0 .. w - 1 /\ n = w * (n \div w) + (n % w)
    BY <1>2, <2>1, DivMod
  <2>3. PICK y, z : y = n \div w /\ z = n % w
    OBVIOUS
  <2>4. y \in Int /\ z \in 0 .. w - 1 /\ m \in Int /\ 0 \in 0 .. w - 1 /\ w * y + z = w * m + 0
    BY <1>2, <1>3, <2>2, <2>3
  <2>5. y = m
    BY <1>2, <2>4, DivUnique
  <2> QED BY <2>1, <2>3, <2>5
<1>5. e \in Nat /\ e + 1 <= m
  BY <1>1, <1>4
<1>6. (e + 1) * w <= m * w
  BY <1>2, <1>5, TimesMonotone
<1>7. (e + 1) * w \in Nat \ {0}
  <2>1. e + 1 \in Nat \ {0}
    BY <1>5
  <2> QED BY <1>2, <2>1
<1>8. PICK y, z : y = (e + 1) * w /\ z = m * w
  OBVIOUS
<1>9. y \in 1 .. z
  BY <1>3, <1>4, <1>6, <1>7, <1>8
<1> QED BY <1>1, <1>3, <1>8, <1>9

(***************************************************************************)
(* Every action preserves the invariant about the tokens.                  *)
(***************************************************************************)

(* What a step must leave for a core to have sent no more than before.     *)
Steady(q, c) ==
  \/ pc[q][c] # "send"
  \/ pc'[q][c] = "send" /\ idx'[q][c] = idx[q][c]
  \/ \A n, a : Sends(setup, round[q], q, c, n, a) => n < idx[q][c]

(* The tokens in the windows stay.                                         *)
LEMMA DataKept ==
  ASSUME IInv, DInv, UNCHANGED <<setup, round, dataWin>>, \A q \in Ranks, c \in Aivs : Steady(q, c)
  PROVE  DataType' /\ DataInv'
<1>1. \A q \in Ranks : \A k, a : MsgSent(q, k, a)' => MsgSent(q, k, a)
  BY DEF MsgSent, Steady
<1>2. \A p \in Ranks : \A i \in StatusesOf(setup, p) : SenderOf(i) \in Ranks
  BY SenderRank DEF IInv, TypeInv
<1>3. \A p : Coming(p)' = Coming(p)
  BY DEF Coming
<1>4. DataInv'
  BY <1>1, <1>2, <1>3 DEF DInv, DataInv
<1> QED BY <1>4 DEF DInv, DataType

(* So do the counts, as long as no more of them matter than before.        *)
LEMMA CntKept ==
  ASSUME IInv, DInv, UNCHANGED <<setup, round, statusWin>>,
         \A q \in Ranks : \A i \in StatusesOf(setup, q) : \A k : Counted(q, i, k)' => Counted(q, i, k)
  PROVE  CntInv'
<1>1. \A p : Coming(p)' = Coming(p)
  BY DEF Coming
<1> QED BY <1>1 DEF DInv, CntInv

(* What the cores of a rank know.                                          *)
Knows(q) ==
  UNCHANGED <<round[q], counts[q], recvCnt[q], sendCounts[q], expandX[q], expertTokenNums[q]>>

(* What the cores of a rank know stays true when its arrays stay, no       *)
(* status is counted and no core gets further without what it must then    *)
(* know.                                                                   *)
LEMMA RankStays ==
  ASSUME NEW q \in Ranks, setup' = setup, Knows(q), RankInv(q), LoopInv(q)',
         \A i \in StatusesOf(setup, q) : Counted(q, i, round[q])' => Counted(q, i, round[q]),
         \A c \in Aivs : pc'[q][c] \in Passed /\ StatusShare(q, c) # {} => pc[q][c] \in Passed,
         \A c \in Aivs : pc'[q][c] \in Ended => pc[q][c] \in Ended \/ Copied(q, c)
  PROVE  RankInv(q)'
<1>1. \A c \in Aivs : StatusShare(q, c)' = StatusShare(q, c)
  BY SetupKept
<1>2. round'[q] = round[q] /\ counts'[q] = counts[q] /\ recvCnt'[q] = recvCnt[q]
      /\ sendCounts'[q] = sendCounts[q] /\ expandX'[q] = expandX[q]
      /\ expertTokenNums'[q] = expertTokenNums[q]
  BY DEF Knows
<1>3. RankType(q)'
  BY <1>2 DEF RankInv, RankType
<1>4. round[q] > 0 => CountsInv(q)'
  BY <1>2 DEF RankInv, CountsInv, Counted
<1>5. \A c \in Aivs : round[q] > 0 => RecvInv(q, c)'
  BY <1>1, <1>2 DEF RankInv, RecvInv
<1>6. \A c \in Aivs : Copied(q, c) => Copied(q, c)'
  BY <1>1, <1>2 DEF Copied
<1> QED BY <1>2, <1>3, <1>4, <1>5, <1>6 DEF RankInv

(* In particular when the cores of the rank do not move.                   *)
LEMMA RankKept ==
  ASSUME NEW q \in Ranks, setup' = setup, Knows(q), RankInv(q), pc'[q] = pc[q], idx'[q] = idx[q]
  PROVE  RankInv(q)'
<1>1. LoopInv(q)'
  BY DEF RankInv, LoopInv
<1>2. \A i : Counted(q, i, round[q])' => Counted(q, i, round[q])
  BY SetupKept DEF Counted, Knows
<1> QED BY <1>1, <1>2, RankStays

(* The cores of one rank move, and nothing else changes.                   *)
LEMMA CoresGo ==
  ASSUME IInv, DInv, NEW p \in Ranks,
         UNCHANGED <<setup, round, dataWin, statusWin, counts, recvCnt, expandX, sendCounts,
                     expertTokenNums>>,
         \A q \in Ranks \ {p} : pc'[q] = pc[q] /\ idx'[q] = idx[q],
         \A c \in Aivs : Steady(p, c),
         LoopInv(p)',
         \A i \in StatusesOf(setup, p) : \A k : Counted(p, i, k)' => Counted(p, i, k),
         \A c \in Aivs : pc'[p][c] \in Passed /\ StatusShare(p, c) # {} => pc[p][c] \in Passed,
         \A c \in Aivs : pc'[p][c] \in Ended => pc[p][c] \in Ended \/ Copied(p, c)
  PROVE  DInv'
<1>1. \A q \in Ranks, c \in Aivs : Steady(q, c)
  BY DEF Steady
<1>2. DataType' /\ DataInv'
  BY <1>1, DataKept
<1>3. ASSUME NEW q \in Ranks, q # p, NEW i, NEW k, Counted(q, i, k)'
      PROVE  Counted(q, i, k)
  BY <1>3, SetupKept DEF Counted
<1>4. CntInv'
  BY <1>3, CntKept
<1>5. \A q \in Ranks : Knows(q)
  BY DEF Knows
<1>6. RankInv(p)'
  BY <1>5, RankStays DEF DInv
<1>7. \A q \in Ranks \ {p} : RankInv(q)'
  BY <1>5, RankKept DEF DInv
<1>8. OutTypes'
  BY DEF DInv, OutTypes
<1> QED BY <1>2, <1>4, <1>6, <1>7, <1>8 DEF DInv

(* A core has moved on in combine.                                         *)
LEMMA CombineGoes ==
  ASSUME IInv, DInv, NEW p \in Ranks, NEW c \in Aivs, NEW v \in After, NEW n,
         UNCHANGED <<setup, round, dispatchVars>>, pc[p][c] \in After,
         pc' = [pc EXCEPT ![p][c] = v], idx' = [idx EXCEPT ![p][c] = n],
         v \notin {"rows", "flags"} => n = 0
  PROVE  DInv'
<1>1. pc \in [Ranks -> [Aivs -> Places]] /\ idx \in [Ranks -> [Aivs -> Nat]]
  BY DEF IInv, TypeInv, Places
<1>2. /\ \A q \in Ranks \ {p} : pc'[q] = pc[q] /\ idx'[q] = idx[q]
      /\ \A d \in Aivs \ {c} : pc'[p][d] = pc[p][d] /\ idx'[p][d] = idx[p][d]
      /\ pc'[p][c] = v /\ idx'[p][c] = n
  BY <1>1
<1>3. \A d \in Aivs : Steady(p, d)
  BY <1>2 DEF Steady, After
<1>4. LoopInv(p)'
  <2>1. LoopInv(p)
    BY DEF DInv, RankInv
  <2> QED BY <1>2, <2>1 DEF LoopInv, After
<1>5. \A i, k : Counted(p, i, k)' => Counted(p, i, k)
  BY <1>2, SetupKept DEF Counted, After
<1>6. pc[p][c] \in Passed /\ pc[p][c] \in Ended
  BY DEF Passed, Ended
<1>7. UNCHANGED <<dataWin, statusWin, counts, recvCnt, expandX, sendCounts, expertTokenNums>>
  BY DEF dispatchVars
<1> QED BY <1>2, <1>3, <1>4, <1>5, <1>6, <1>7, CoresGo

(* The steps of the combine leave the tokens alone.                        *)
LEMMA CombineKeeps ==
  ASSUME IInv, DInv, NEW p \in Ranks, NEW c \in Aivs, CombineCoreStep(p, c)
  PROVE  DInv'
<1>1. idx \in [Ranks -> [Aivs -> Nat]] /\ pc \in [Ranks -> [Aivs -> Places]]
  BY DEF IInv, TypeInv, Places
<1>2. idx = [idx EXCEPT ![p][c] = idx[p][c]] /\ pc = [pc EXCEPT ![p][c] = pc[p][c]]
  BY <1>1
<1>3. pc[p][c] \in {"rows", "flags", "gather", "add"} /\ UNCHANGED <<setup, round, dispatchVars>>
  BY DEF CombineCoreStep, SendRow, SendFlag, WaitDispatch, ProcessExpert, At
<1>4. LoopInv(p)
  BY DEF DInv, RankInv
<1>5. Waiting(p, c) \in After
  BY DEF Waiting, After
<1>6. \E v \in After : \E n :
        /\ pc' = [pc EXCEPT ![p][c] = v] /\ idx' = [idx EXCEPT ![p][c] = n]
        /\ v \notin {"rows", "flags"} => n = 0
  <2>1. CASE SendRow(p, c)
    <3>1. pc[p][c] = "rows"
      BY <2>1 DEF SendRow, At
    <3>2. CASE idx' = [idx EXCEPT ![p][c] = @ + 1] /\ pc' = pc
      <4>1. idx' = [idx EXCEPT ![p][c] = idx[p][c] + 1] /\ pc' = [pc EXCEPT ![p][c] = "rows"]
        BY <1>1, <1>2, <3>1, <3>2
      <4> QED BY <4>1 DEF After
    <3>3. CASE idx' = [idx EXCEPT ![p][c] = BatchStart(p, c)] /\ Goto(p, c, "flags")
      BY <3>3 DEF After, Goto
    <3> QED BY <2>1, <3>2, <3>3 DEF SendRow
  <2>2. CASE SendFlag(p, c)
    <3>1. pc[p][c] = "flags"
      BY <2>2 DEF SendFlag, At
    <3>2. CASE idx' = [idx EXCEPT ![p][c] = @ + 1] /\ pc' = pc
      <4>1. idx' = [idx EXCEPT ![p][c] = idx[p][c] + 1] /\ pc' = [pc EXCEPT ![p][c] = "flags"]
        BY <1>1, <1>2, <3>1, <3>2
      <4> QED BY <4>1 DEF After
    <3>3. CASE idx' = [idx EXCEPT ![p][c] = @ + 1] /\ Goto(p, c, "rows")
      <4>1. idx' = [idx EXCEPT ![p][c] = idx[p][c] + 1]
        BY <1>1, <3>3
      <4> QED BY <3>3, <4>1 DEF After, Goto
    <3>4. CASE idx' = [idx EXCEPT ![p][c] = 0] /\ Goto(p, c, Waiting(p, c))
      BY <1>5, <3>4 DEF Goto
    <3> QED BY <2>2, <3>2, <3>3, <3>4 DEF SendFlag
  <2>3. CASE WaitDispatch(p, c) \/ ProcessExpert(p, c)
    <3>1. pc[p][c] \in {"gather", "add"} /\ idx' = idx
      BY <2>3 DEF WaitDispatch, ProcessExpert, At
    <3>2. PICK v \in {"idle", "gather", "add"} : pc' = [pc EXCEPT ![p][c] = v]
      BY <2>3 DEF WaitDispatch, ProcessExpert, Goto
    <3>3. idx[p][c] = 0
      BY <1>4, <3>1 DEF LoopInv
    <3>4. idx' = [idx EXCEPT ![p][c] = 0]
      BY <1>2, <3>1, <3>3
    <3>5. v \in After
      BY <3>2 DEF After
    <3> QED BY <3>2, <3>4, <3>5
  <2> QED BY <2>1, <2>2, <2>3 DEF CombineCoreStep
<1>7. PICK v \in After : \E n :
        /\ pc' = [pc EXCEPT ![p][c] = v] /\ idx' = [idx EXCEPT ![p][c] = n]
        /\ v \notin {"rows", "flags"} => n = 0
  BY <1>6
<1>8. PICK n : /\ pc' = [pc EXCEPT ![p][c] = v] /\ idx' = [idx EXCEPT ![p][c] = n]
               /\ v \notin {"rows", "flags"} => n = 0
  BY <1>7
<1>9. pc[p][c] \in After
  BY <1>3 DEF After
<1> QED BY <1>3, <1>8, <1>9, CombineGoes

(* So does starting it: what the core has copied is still there.           *)
LEMMA StartCombineKeeps ==
  ASSUME IInv, DInv, NEW p \in Ranks, StartCombine(p)
  PROVE  DInv'
<1> DEFINE to == [c \in Aivs |-> IF SendCntNum(p, c) = 0 THEN Waiting(p, c) ELSE "rows"]
<1>1. /\ \A c \in Aivs : pc[p][c] = "dispatched"
      /\ pc' = [pc EXCEPT ![p] = to]
      /\ UNCHANGED <<setup, round, idx, dispatchVars>>
  BY DEF StartCombine, AllAt, GotoAll
<1>2. \A c \in Aivs : to[c] \in After
  BY DEF Waiting, After
<1> HIDE DEF to
<1>3. DOMAIN pc = Ranks
  BY DEF IInv, TypeInv
<1>4. pc'[p] = to /\ \A q \in Ranks \ {p} : pc'[q] = pc[q] /\ idx'[q] = idx[q]
  BY <1>1, <1>3
<1>5. \A c \in Aivs : Steady(p, c)
  BY <1>1 DEF Steady
<1>6. LoopInv(p)'
  BY <1>1 DEF DInv, RankInv, LoopInv
<1>7. \A i, k : Counted(p, i, k)' => Counted(p, i, k)
  BY <1>1, SetupKept DEF Counted
<1>8. \A c \in Aivs : pc[p][c] \in Passed /\ pc[p][c] \in Ended
  BY <1>1 DEF Passed, Copies, Ended
<1>9. UNCHANGED <<setup, round, dataWin, statusWin, counts, recvCnt, expandX, sendCounts,
                  expertTokenNums>>
  BY <1>1 DEF dispatchVars
<1> QED BY <1>4, <1>5, <1>6, <1>7, <1>8, <1>9, CoresGo

(* The first core has a share, if any core has one.                        *)
LEMMA FirstShare ==
  ASSUME IInv, NEW p \in Ranks
  PROVE  /\ 0 \in StatusesOf(setup, p)
         /\ \A c \in Aivs : StatusShare(p, c) # {} =>
              \A d \in 0 .. c : d \in Aivs /\ StatusShare(p, d) # {}
         /\ StatusShare(p, 0) # {}
<1>1. RscvStatusNum(p) \in Nat \ {0} /\ Statuses(p) = 0 .. RscvStatusNum(p) - 1
      /\ Statuses(p) = StatusesOf(setup, p)
  BY StatusFacts, AtWork DEF Statuses
<1>2. AivNum \in Nat \ {0} /\ Aivs = 0 .. AivNum - 1
  BY SetupFacts DEF Aivs
<1>3. \A c \in Aivs : StatusShare(p, c) # {} =>
              \A d \in 0 .. c : d \in Aivs /\ StatusShare(p, d) # {}
  <2> SUFFICES ASSUME NEW c \in 0 .. AivNum - 1, StatusShare(p, c) # {}, NEW d \in 0 .. c
               PROVE  d \in 0 .. AivNum - 1 /\ StatusShare(p, d) # {}
    BY <1>2
  <2>1. PICK n \in Nat : n = RscvStatusNum(p)
    BY <1>1
  <2>2. Chunk(c, n, AivNum) # {}
    BY <2>1 DEF StatusShare
  <2>3. Chunk(d, n, AivNum) # {}
    BY <1>2, <2>2, EarlierShares
  <2>4. d \in 0 .. AivNum - 1
    BY <1>2
  <2> QED BY <2>1, <2>3, <2>4 DEF StatusShare
<1>4. 0 \in Statuses(p)
  BY <1>1
<1>5. PICK c \in Aivs : 0 \in StatusShare(p, c)
  BY <1>4, ShareFacts
<1>6. 0 \in 0 .. c
  BY <1>2
<1> QED BY <1>1, <1>3, <1>4, <1>5, <1>6

(* The barrier between tokens and statuses: no core sends any more.        *)
LEMMA SyncSentKeeps ==
  ASSUME IInv, DInv, NEW p \in Ranks, SyncSent(p)
  PROVE  DInv'
<1> DEFINE to(c) == IF FirstStatus(c) < LastStatus(c) THEN "status" ELSE FirstWait(p, c)
           at == [c \in Aivs |-> IF FirstStatus(c) < LastStatus(c) THEN FirstStatus(c) ELSE 0]
           tos == [c \in Aivs |-> to(c)]
<1>1. /\ \A c \in Aivs : pc[p][c] = "send" /\ idx[p][c] = SendTokenNum(p, c)
      /\ pc' = [pc EXCEPT ![p] = tos] /\ idx' = [idx EXCEPT ![p] = at]
      /\ UNCHANGED <<setup, round, dispatchVars>>
  BY DEF SyncSent, AllTokensSent, At, GotoAll
<1>2. \A c \in Aivs : /\ tos[c] \in {"status", "wait", "cleared"}
                      /\ StatusShare(p, c) # {} => tos[c] # "cleared"
                      /\ tos[c] # "status" => at[c] = 0
  BY DEF FirstWait
<1> HIDE DEF tos, at
<1>3. DOMAIN pc = Ranks /\ DOMAIN idx = Ranks
  BY DEF IInv, TypeInv
<1>4. pc'[p] = tos /\ idx'[p] = at /\ \A q \in Ranks \ {p} : pc'[q] = pc[q] /\ idx'[q] = idx[q]
  BY <1>1, <1>3
<1>5. \A c \in Aivs : Steady(p, c)
  <2> TAKE c \in Aivs
  <2>1. PICK n \in Nat : n = idx[p][c]
    BY DEF IInv, TypeInv
  <2>2. n = SendsOf(setup, round[p], p, c)
    BY <1>1, <2>1, AtCores
  <2>3. \A m, a : Sends(setup, round[p], p, c, m, a) => m < n
    BY <2>2 DEF Sends
  <2> QED BY <2>1, <2>3 DEF Steady
<1>6. LoopInv(p)'
  BY <1>2, <1>4 DEF LoopInv
<1>7. ASSUME NEW i \in StatusesOf(setup, p), NEW k, Counted(p, i, k)'
      PROVE  Counted(p, i, k)
  <2>1. i \in Statuses(p)
    BY AtWork
  <2>2. PICK c \in Aivs : i \in StatusShare(p, c)
    BY <2>1, ShareFacts
  <2>3. pc'[p][c] \in {"status", "wait"}
    BY <1>2, <1>4, <2>2
  <2>4. round[p] > k
    BY <1>1, <1>7, <2>2, <2>3, SetupKept DEF Counted
  <2> QED BY <2>4 DEF Counted
<1>8. \A c \in Aivs : pc'[p][c] \notin Ended /\ (pc'[p][c] \in Passed => StatusShare(p, c) = {})
  <2> TAKE c \in Aivs
  <2>1. pc'[p][c] \in {"status", "wait", "cleared"} /\ (StatusShare(p, c) # {} => pc'[p][c] # "cleared")
    BY <1>2, <1>4
  <2> QED BY <2>1 DEF Ended, Passed, Copies, After
<1>9. UNCHANGED <<setup, round, dataWin, statusWin, counts, recvCnt, expandX, sendCounts,
                  expertTokenNums>>
  BY <1>1 DEF dispatchVars
<1> QED BY <1>4, <1>5, <1>6, <1>7, <1>8, <1>9, CoresGo

(* The barrier before the copy: every core of the rank has its sum in      *)
(* place.                                                                  *)
LEMMA SyncClearedKeeps ==
  ASSUME IInv, DInv, NEW p \in Ranks, SyncCleared(p)
  PROVE  DInv'
<1> DEFINE to == [c \in Aivs |-> IF StatusShare(p, c) = {} THEN "dispatched" ELSE "copy"]
<1>1. /\ \A c \in Aivs : pc[p][c] = "cleared"
      /\ pc' = [pc EXCEPT ![p] = to]
      /\ UNCHANGED <<setup, round, idx, dispatchVars>>
  BY DEF SyncCleared, AllAt, GotoAll
<1>2. DOMAIN pc = Ranks
  BY DEF IInv, TypeInv
<1>3. /\ \A c \in Aivs : pc'[p][c] = IF StatusShare(p, c) = {} THEN "dispatched" ELSE "copy"
      /\ \A q \in Ranks \ {p} : pc'[q] = pc[q] /\ idx'[q] = idx[q]
  BY <1>1, <1>2
<1>4. \A c \in Aivs : Steady(p, c)
  BY <1>1 DEF Steady
<1>5. LoopInv(p)'
  BY <1>1, <1>3 DEF DInv, RankInv, LoopInv
<1>6. \A i, k : Counted(p, i, k)' => Counted(p, i, k)
  BY <1>1, SetupKept DEF Counted
<1>7. \A c \in Aivs : pc[p][c] \in Passed
  BY <1>1 DEF Passed
<1>8. \A c \in Aivs : pc'[p][c] \in Ended => Copied(p, c)
  <2> SUFFICES ASSUME NEW c \in Aivs, StatusShare(p, c) = {}
               PROVE  Copied(p, c)
    BY <1>3 DEF Ended, After
  <2>1. c # 0
    BY FirstShare
  <2> QED BY <2>1 DEF Copied
<1>9. UNCHANGED <<setup, round, dataWin, statusWin, counts, recvCnt, expandX, sendCounts,
                  expertTokenNums>>
  BY <1>1 DEF dispatchVars
<1> QED BY <1>3, <1>4, <1>5, <1>6, <1>7, <1>8, <1>9, CoresGo

(* A rank at work is in one of its rounds.                                 *)
LEMMA AtRound ==
  ASSUME IInv, DInv, NEW p \in Ranks
  PROVE  /\ setup \in Setups /\ round[p] \in Nat
         /\ round[p] > 0 => round[p] \in RoundsOf(setup)
         /\ \A c \in Aivs : pc[p][c] # "idle" => round[p] \in RoundsOf(setup)
<1>1. setup \in Setups
  BY DEF IInv, TypeInv
<1>2. round[p] \in Nat /\ \A c \in Aivs : pc[p][c] # "idle" => round[p] \in Rounds
  BY RoundFacts
<1>3. round[p] <= Len(setup.expertIds)
  BY DEF DInv, RankInv
<1>4. Len(setup.expertIds) \in Nat
  BY <1>1, DispatchAssumption
<1> QED BY <1>1, <1>2, <1>3, <1>4 DEF RoundsOf, Rounds

(* Two rounds of a rank's windows in the same half are the same.           *)
LEMMA HalfOnce ==
  ASSUME IInv, NEW p \in Ranks, NEW k \in {round[p], round[p] + 1}, NEW m \in {round[p], round[p] + 1},
         Half(m) = Half(k)
  PROVE  m = k
BY RoundFacts, HalfFacts

(* SendToken puts the next token into its own cell and into no other.      *)
LEMMA SendTokenKeeps ==
  ASSUME IInv, DInv, NEW q \in Ranks, NEW c \in Aivs, SendToken(q, c)
  PROVE  DInv'
<1>0. PICK k, n : k = round[q] /\ n = idx[q][c]
  OBVIOUS
<1>1. /\ pc[q][c] = "send" /\ n < SendTokenNum(q, c)
      /\ dataWin' = [dataWin EXCEPT ![SendAt(q, c).to][DispatchHalf(q)][SendAt(q, c).cell] =
                       SendAt(q, c).token]
      /\ idx' = [idx EXCEPT ![q][c] = n + 1]
      /\ UNCHANGED <<setup, round, pc, dispatchState, statusWin, counts, recvCnt, expandX,
                     sendCounts, expertTokenNums>>
  BY <1>0 DEF SendToken, At
<1>2. setup \in Setups /\ k \in RoundsOf(setup) /\ k \in Nat
  BY <1>0, <1>1, AtRound
<1>3. n \in Nat /\ n \in 0 .. SendsOf(setup, k, q, c) - 1
  <2>1. n \in Nat
    BY <1>0 DEF IInv, TypeInv
  <2>2. PICK m : m = SendsOf(setup, k, q, c)
    OBVIOUS
  <2>3. n < m
    BY <1>0, <1>1, <2>2, AtCores
  <2>4. m \in Nat
    <3>1. MoeCores(setup) \in 1 .. AivNum /\ SharedCores(setup) = AivNum - MoeCores(setup)
          /\ AivNum \in Nat /\ c \in 0 .. AivNum - 1
      BY <1>2, CoreFacts, LayoutFacts DEF Aivs
    <3>2. IsFiniteSet(EntriesOf(setup, k, q)) /\ IsFiniteSet(TakersOf(setup, k, q))
      BY <1>2, EntryFacts, TakerFacts
    <3>3. CASE c < MoeCores(setup)
      <4>1. PICK e \in Nat : e = Cardinality(EntriesOf(setup, k, q))
        BY <3>2, FS_CardinalityType
      <4>2. PICK w \in Nat \ {0} : w = MoeCores(setup)
        BY <3>1
      <4>3. c \in 0 .. w - 1
        BY <3>1, <3>3, <4>2
      <4>4. SendNum(c, e, w) \in Nat
        BY <4>3, SendNumType
      <4> QED BY <2>2, <3>3, <4>1, <4>2, <4>4 DEF SendsOf
    <3>4. CASE ~(c < MoeCores(setup))
      <4>1. PICK e \in Nat : e = SharedNum(setup, k, q)
        <5>1. Cardinality(TakersOf(setup, k, q)) \in Nat /\ setup.sharedExpertNum \in Nat
          BY <1>2, <3>2, FS_CardinalityType, LayoutFacts
        <5> QED BY <5>1 DEF SharedNum
      <4>2. PICK d : d = c - MoeCores(setup)
        OBVIOUS
      <4>3. PICK w \in Nat \ {0} : w = SharedCores(setup)
        BY <3>1, <3>4
      <4>4. d \in 0 .. w - 1
        BY <3>1, <3>4, <4>2, <4>3
      <4>5. SendNum(d, e, w) \in Nat
        BY <4>4, SendNumType
      <4> QED BY <2>2, <3>4, <4>1, <4>2, <4>3, <4>5 DEF SendsOf
    <3> QED BY <3>3, <3>4
  <2> QED BY <2>1, <2>2, <2>3, <2>4
<1>4. PICK p \in Ranks : \E i \in StatusesOf(setup, p) : \E a \in ToStatus(setup, k, p, i) :
           SenderOf(i) = q /\ Sends(setup, k, q, c, n, a)
  BY <1>2, <1>3, SendWrites
<1>5a. PICK i \in StatusesOf(setup, p) : \E a \in ToStatus(setup, k, p, i) :
           SenderOf(i) = q /\ Sends(setup, k, q, c, n, a)
  BY <1>4
<1>5. PICK a \in ToStatus(setup, k, p, i) : SenderOf(i) = q /\ Sends(setup, k, q, c, n, a)
  BY <1>5a
<1>6. ASSUME NEW r \in Ranks, NEW j \in StatusesOf(setup, r), NEW b \in ToStatus(setup, k, r, j),
             SenderOf(j) = q, Sends(setup, k, q, c, n, b)
      PROVE  SendAt(q, c).to = r /\ SendAt(q, c).cell = CellIn(setup, k, r, j, b)
             /\ SendAt(q, c).token = b
  <2>1. SendAt(q, c) = Post(setup, k, r, j, b)
    BY <1>0, <1>2, <1>6, SendIs
  <2> QED BY <2>1 DEF Post, CellIn
<1>7. PICK cell : cell = CellIn(setup, k, p, i, a)
  OBVIOUS
<1>8. dataWin' = [dataWin EXCEPT ![p][Half(k)][cell] = a]
  <2>1. SendAt(q, c).to = p /\ SendAt(q, c).cell = cell /\ SendAt(q, c).token = a
    BY <1>5, <1>6, <1>7
  <2>2. DispatchHalf(q) = Half(k)
    BY <1>0, RoundFacts
  <2> QED BY <1>1, <2>1, <2>2
<1>9. k \in {round[p], round[p] + 1}
  BY <1>0, <1>1, SenderRound
<1>10. cell \in StatusesOf(setup, p) \X Tokens
  BY <1>2, <1>7, CellFacts
<1>11. /\ DOMAIN dataWin' = Ranks
       /\ \A r \in Ranks : DOMAIN dataWin'[r] = Halves
       /\ \A r \in Ranks, h \in Halves : DOMAIN dataWin'[r][h] = StatusesOf(setup, r) \X Tokens
       /\ \A r \in Ranks, h \in Halves : \A l \in StatusesOf(setup, r) \X Tokens :
            dataWin'[r][h][l] = IF r = p /\ h = Half(k) /\ l = cell THEN a ELSE dataWin[r][h][l]
  <2>1. Half(k) \in Halves
    BY <1>2, HalfFacts
  <2> QED BY <1>8, <1>10, <2>1 DEF DInv, DataType
<1>12. idx \in [Ranks -> [Aivs -> Nat]]
  BY DEF IInv, TypeInv
<1>13. /\ \A r \in Ranks, d \in Aivs : r # q \/ d # c => idx'[r][d] = idx[r][d]
       /\ \A r \in Ranks \ {q} : idx'[r] = idx[r]
       /\ idx'[q][c] = n + 1
  BY <1>1, <1>12
<1>14. DataType'
  BY <1>1, <1>11 DEF DataType
<1>15. DataInv'
  <2> SUFFICES ASSUME NEW r \in Ranks, NEW j \in StatusesOf(setup, r), NEW m \in Coming(r),
                      NEW b \in ToStatus(setup, m, r, j), MsgSent(SenderOf(j), m, b)'
               PROVE  dataWin'[r][Half(m)][CellIn(setup, m, r, j, b)] = b
    <3>1. \A r : Coming(r)' = Coming(r)
      BY <1>1 DEF Coming
    <3> QED BY <1>1, <3>1 DEF DataInv
  <2>1. m \in RoundsOf(setup) /\ m \in {round[r], round[r] + 1} /\ Half(m) \in Halves
    <3>1. m \in RoundsOf(setup) /\ m \in {round[r], round[r] + 1}
      BY DEF Coming
    <3>2. m \in Nat
      BY <3>1, RoundFacts
    <3> QED BY <3>1, <3>2, HalfFacts
  <2>2. PICK l : l = CellIn(setup, m, r, j, b)
    OBVIOUS
  <2>3. l \in StatusesOf(setup, r) \X Tokens
    BY <1>2, <2>1, <2>2, CellFacts
  <2>4. CASE r = p /\ Half(m) = Half(k) /\ l = cell
    <3>1. m = k
      BY <1>9, <2>1, <2>4, HalfOnce
    <3>2. b = a
      <4>1. CellIn(setup, k, p, j, b) = CellIn(setup, k, p, i, a)
        BY <1>7, <2>2, <2>4, <3>1
      <4> QED BY <1>2, <2>4, <3>1, <4>1, CellFacts
    <3> QED BY <1>11, <2>1, <2>2, <2>3, <2>4, <3>2
  <2>5. CASE ~(r = p /\ Half(m) = Half(k) /\ l = cell)
    <3>1. dataWin'[r][Half(m)][l] = dataWin[r][Half(m)][l]
      BY <1>11, <2>1, <2>3, <2>5
    <3>2. MsgSent(SenderOf(j), m, b)
      <4>0. SenderOf(j) \in Ranks
        BY <1>2, SenderRank
      <4>1. CASE SenderOf(j) # q
        BY <1>1, <1>13, <4>0, <4>1 DEF MsgSent
      <4>2. CASE SenderOf(j) = q
        <5>1. round[q] > m \/ round[q] = m
          BY <1>1, <4>2 DEF MsgSent
        <5>2. CASE round[q] > m
          BY <4>2, <5>2 DEF MsgSent
        <5>3. CASE round[q] = m /\ ~(round[q] > m)
          <6>1. m = k
            BY <1>0, <5>3
          <6>2. ~Sends(setup, k, q, c, n, b)
            <7> SUFFICES ASSUME Sends(setup, k, q, c, n, b)
                         PROVE  FALSE
              OBVIOUS
            <7>1. SendAt(q, c).to = r /\ SendAt(q, c).cell = l
              BY <1>6, <2>2, <4>2, <6>1
            <7>2. SendAt(q, c).to = p /\ SendAt(q, c).cell = cell
              BY <1>5, <1>6, <1>7
            <7> QED BY <2>5, <6>1, <7>1, <7>2
          <6>3. \A d \in Aivs : \A x : Sends(setup, k, q, d, x, b) => pc[q][d] # "send" \/ x < idx'[q][d]
            BY <1>1, <4>2, <5>3, <6>1 DEF MsgSent
          <6>4. \A x : Sends(setup, k, q, c, x, b) => x \in Int
            BY DEF Sends
          <6>5. ASSUME NEW d \in Aivs, NEW x, Sends(setup, k, q, d, x, b), pc[q][d] = "send"
                PROVE  x < idx[q][d]
            <7>1. x < idx'[q][d]
              BY <6>3, <6>5
            <7>2. CASE d = c
              <8>1. x # n /\ x \in Int /\ x < n + 1
                BY <1>13, <6>2, <6>4, <6>5, <7>1, <7>2
              <8>2. x < n
                BY <1>3, <8>1
              <8> QED BY <1>0, <7>2, <8>2
            <7>3. CASE d # c
              BY <1>13, <7>1, <7>3
            <7> QED BY <7>2, <7>3
          <6> QED BY <4>2, <5>3, <6>1, <6>5 DEF MsgSent
        <5> QED BY <5>1, <5>2, <5>3
      <4> QED BY <4>1, <4>2
    <3>3. dataWin[r][Half(m)][l] = b
      BY <2>2, <3>2 DEF DInv, DataInv
    <3> QED BY <2>2, <3>1, <3>3
  <2> QED BY <2>4, <2>5
<1>16. \A r \in Ranks : \A j, m : Counted(r, j, m)' => Counted(r, j, m)
  BY <1>1, SetupKept DEF Counted
<1>17. CntInv'
  BY <1>1, <1>16, CntKept
<1>18. \A r \in Ranks : Knows(r)
  BY <1>1 DEF Knows
<1>19. RankInv(q)'
  <2>1. LoopInv(q)'
    BY <1>1, <1>13 DEF DInv, RankInv, LoopInv
  <2>2. RankInv(q)
    BY DEF DInv
  <2> QED BY <1>1, <1>16, <1>18, <2>1, <2>2, RankStays
<1>20. \A r \in Ranks \ {q} : RankInv(r)'
  BY <1>1, <1>13, <1>18, RankKept DEF DInv
<1>21. OutTypes'
  BY <1>1 DEF DInv, OutTypes
<1> QED BY <1>14, <1>15, <1>17, <1>19, <1>20, <1>21 DEF DInv

(* SetStatus sends the count of the tokens that its rank has sent.         *)
LEMMA SetStatusKeeps ==
  ASSUME IInv, DInv, NEW p \in Ranks, NEW c \in Aivs, SetStatus(p, c)
  PROVE  DInv'
<1>0. PICK k, x, r, j : /\ k = round[p] /\ x = idx[p][c]
                         /\ r = StatusRank(x) /\ j = StatusPlace(p, x)
  OBVIOUS
<1> DEFINE st == [flag |-> 1, cnt |-> StatusCnt(p, x)]
<1>1. /\ pc[p][c] = "status"
      /\ UNCHANGED <<setup, round, dataWin, counts, recvCnt, expandX, sendCounts, expertTokenNums>>
      /\ statusWin' = [statusWin EXCEPT ![r][DispatchHalf(p)][j] = st]
      /\ \/ x + 1 < LastStatus(c) /\ idx' = [idx EXCEPT ![p][c] = x + 1] /\ pc' = pc
         \/ /\ ~(x + 1 < LastStatus(c)) /\ idx' = [idx EXCEPT ![p][c] = 0]
            /\ pc' = [pc EXCEPT ![p][c] = FirstWait(p, c)]
  BY <1>0 DEF SetStatus, At, Goto
<1>2. /\ r \in Ranks /\ j \in Statuses(r) /\ x \in 0 .. TotalExpertNum - 1
      /\ k \in {round[r], round[r] + 1}
  BY <1>0, <1>1, SenderFacts
<1>3. setup \in Setups /\ k \in RoundsOf(setup) /\ DispatchHalf(p) = Half(k) /\ Half(k) \in Halves
  BY <1>0, <1>1, AtRound, RoundFacts
<1>4. st.cnt = Cardinality(ToStatus(setup, k, r, j))
  BY <1>0, <1>2, <1>3, StatusCntIs
<1> HIDE DEF st
<1>5. FirstWait(p, c) \in {"wait", "cleared"} /\ (StatusShare(p, c) # {} => FirstWait(p, c) = "wait")
  BY DEF FirstWait
<1>6. pc \in [Ranks -> [Aivs -> Places]] /\ idx \in [Ranks -> [Aivs -> Nat]]
  BY DEF IInv, TypeInv, Places
<1>7. /\ \A q \in Ranks, d \in Aivs : q # p \/ d # c => pc'[q][d] = pc[q][d] /\ idx'[q][d] = idx[q][d]
      /\ \A q \in Ranks \ {p} : pc'[q] = pc[q] /\ idx'[q] = idx[q]
      /\ \/ pc'[p][c] = "status"
         \/ pc'[p][c] \in {"wait", "cleared"} /\ idx'[p][c] = 0
            /\ (StatusShare(p, c) # {} => pc'[p][c] = "wait")
  BY <1>1, <1>5, <1>6
<1>8. \A q \in Ranks, h \in Halves : \A i \in StatusesOf(setup, q) :
         statusWin'[q][h][i] = IF q = r /\ h = Half(k) /\ i = j THEN st ELSE statusWin[q][h][i]
  <2>1. \A q \in Ranks : Statuses(q) = StatusesOf(setup, q)
    BY AtWork
  <2> QED BY <1>1, <1>2, <1>3, <2>1 DEF IInv, TypeInv
<1>9. \A q \in Ranks, d \in Aivs : Steady(q, d)
  BY <1>1, <1>7 DEF Steady
<1>10. DataType' /\ DataInv'
  BY <1>1, <1>9, DataKept
<1>11. \A q \in Ranks : \A i, m : Counted(q, i, m)' => Counted(q, i, m)
  BY <1>1, <1>7, SetupKept DEF Counted
<1>12. CntInv'
  <2> SUFFICES ASSUME NEW q \in Ranks, NEW i \in StatusesOf(setup, q), NEW m \in Coming(q),
                      statusWin'[q][Half(m)][i].flag = 1 \/ Counted(q, i, m)
               PROVE  statusWin'[q][Half(m)][i].cnt = Cardinality(ToStatus(setup, m, q, i))
    <3>1. \A q : Coming(q)' = Coming(q)
      BY <1>1 DEF Coming
    <3> QED BY <1>1, <1>11, <3>1 DEF CntInv
  <2>1. m \in {round[q], round[q] + 1} /\ Half(m) \in Halves
    <3>1. m \in {round[q], round[q] + 1}
      BY DEF Coming
    <3>2. m \in Nat
      BY <3>1, RoundFacts
    <3> QED BY <3>1, <3>2, HalfFacts
  <2>2. CASE q = r /\ Half(m) = Half(k) /\ i = j
    <3>1. m = k
      BY <1>2, <2>1, <2>2, HalfOnce
    <3> QED BY <1>4, <1>8, <2>1, <2>2, <3>1
  <2>3. CASE ~(q = r /\ Half(m) = Half(k) /\ i = j)
    <3>1. statusWin'[q][Half(m)][i] = statusWin[q][Half(m)][i]
      BY <1>8, <2>1, <2>3
    <3> QED BY <3>1 DEF DInv, CntInv
  <2> QED BY <2>2, <2>3
<1>13. \A q \in Ranks : Knows(q)
  BY <1>1 DEF Knows
<1>14. RankInv(p)'
  <2>1. LoopInv(p)'
    BY <1>7 DEF DInv, RankInv, LoopInv
  <2>2. RankInv(p)
    BY DEF DInv
  <2>3. \A d \in Aivs : pc'[p][d] \in Passed /\ StatusShare(p, d) # {} => pc[p][d] \in Passed
    BY <1>7 DEF Passed, Copies, After
  <2>4. \A d \in Aivs : pc'[p][d] \in Ended => pc[p][d] \in Ended
    BY <1>7 DEF Ended, After
  <2> QED BY <1>1, <1>11, <1>13, <2>1, <2>2, <2>3, <2>4, RankStays
<1>15. \A q \in Ranks \ {p} : RankInv(q)'
  BY <1>1, <1>7, <1>13, RankKept DEF DInv
<1>16. OutTypes'
  BY <1>1 DEF DInv, OutTypes
<1> QED BY <1>10, <1>12, <1>14, <1>15, <1>16 DEF DInv

(* WaitStatus takes the counts of the round, and adds up those of its      *)
(* share.                                                                  *)
LEMMA WaitStatusKeeps ==
  ASSUME IInv, DInv, NEW p \in Ranks, NEW c \in Aivs, WaitStatus(p, c)
  PROVE  DInv'
<1>0. PICK k : k = round[p]
  OBVIOUS
<1>1. /\ pc[p][c] = "wait" /\ pc' = [pc EXCEPT ![p][c] = "clear"]
      /\ \A i \in StatusShare(p, c) : statusWin[p][DispatchHalf(p)][i].flag = 1
      /\ UNCHANGED <<setup, round, idx, dataWin, statusWin, recvCnt, expandX, sendCounts,
                     expertTokenNums>>
      /\ counts' = [counts EXCEPT ![p] =
           [i \in Statuses(p) |-> IF i \in StatusShare(p, c)
                                  THEN statusWin[p][DispatchHalf(p)][i].cnt ELSE counts[p][i]]]
  BY DEF WaitStatus, At, Goto
<1>2. setup \in Setups /\ k \in RoundsOf(setup) /\ DispatchHalf(p) = Half(k) /\ k \in Coming(p)
      /\ k > 0
  <2>1. setup \in Setups /\ k \in RoundsOf(setup) /\ DispatchHalf(p) = Half(k)
    BY <1>0, <1>1, AtRound, RoundFacts
  <2>2. k > 0
    BY <2>1 DEF RoundsOf
  <2> QED BY <1>0, <2>1, <2>2 DEF Coming
<1>3. DOMAIN pc = Ranks /\ pc \in [Ranks -> [Aivs -> Places]] /\ DOMAIN counts = Ranks
      /\ Statuses(p) = StatusesOf(setup, p)
  BY AtWork DEF IInv, TypeInv, Places
<1>4. /\ pc'[p][c] = "clear"
      /\ \A d \in Aivs \ {c} : pc'[p][d] = pc[p][d]
      /\ \A q \in Ranks \ {p} : pc'[q] = pc[q] /\ counts'[q] = counts[q]
      /\ DOMAIN counts'[p] = StatusesOf(setup, p)
      /\ \A i \in StatusesOf(setup, p) : counts'[p][i] =
           IF i \in StatusShare(p, c) THEN statusWin[p][Half(k)][i].cnt ELSE counts[p][i]
  BY <1>1, <1>2, <1>3
<1>5. \A q \in Ranks, d \in Aivs : StatusShare(q, d)' = StatusShare(q, d)
  BY <1>1, SetupKept
<1>6. \A q \in Ranks : \A i, m : Counted(q, i, m)' =>
        Counted(q, i, m) \/ (q = p /\ m = k /\ i \in StatusShare(p, c))
  <2> SUFFICES ASSUME NEW q \in Ranks, NEW i, NEW m, Counted(q, i, m)',
                      ~(q = p /\ m = k /\ i \in StatusShare(p, c))
               PROVE  Counted(q, i, m)
    OBVIOUS
  <2>1. CASE round[q] > m
    BY <2>1 DEF Counted
  <2>2. CASE ~(round[q] > m)
    <3>1. round[q] = m /\ \A d \in Aivs : i \in StatusShare(q, d) => pc'[q][d] \notin {"send", "status", "wait"}
      BY <1>1, <1>5, <2>2 DEF Counted
    <3>2. \A d \in Aivs : i \in StatusShare(q, d) => pc[q][d] \notin {"send", "status", "wait"}
      BY <1>0, <1>4, <3>1
    <3> QED BY <3>1, <3>2 DEF Counted
  <2> QED BY <2>1, <2>2
<1>7. \A q \in Ranks, d \in Aivs : Steady(q, d)
  BY <1>1, <1>4 DEF Steady
<1>8. DataType' /\ DataInv'
  BY <1>1, <1>7, DataKept
<1>9. \A i \in StatusShare(p, c) : i \in StatusesOf(setup, p) /\ statusWin[p][Half(k)][i].flag = 1
  BY <1>1, <1>2, <1>3, ShareFacts
<1>10. CntInv'
  <2> SUFFICES ASSUME NEW q \in Ranks, NEW i \in StatusesOf(setup, q), NEW m \in Coming(q),
                      statusWin[q][Half(m)][i].flag = 1 \/ Counted(q, i, m)'
               PROVE  statusWin[q][Half(m)][i].cnt = Cardinality(ToStatus(setup, m, q, i))
    <3>1. \A q : Coming(q)' = Coming(q)
      BY <1>1 DEF Coming
    <3> QED BY <1>1, <3>1 DEF CntInv
  <2>1. statusWin[q][Half(m)][i].flag = 1 \/ Counted(q, i, m)
    BY <1>6, <1>9
  <2> QED BY <2>1 DEF DInv, CntInv
<1>11. RankInv(p)
  BY DEF DInv
<1>12. CountsInv(p)'
  <2> SUFFICES ASSUME NEW i \in StatusesOf(setup, p), Counted(p, i, k)'
               PROVE  counts'[p][i] = CntTable(setup, k, p)[i]
    BY <1>0, <1>1 DEF CountsInv, Counted
  <2>1. CASE i \in StatusShare(p, c)
    <3>1. statusWin[p][Half(k)][i].cnt = Cardinality(ToStatus(setup, k, p, i))
      BY <1>2, <1>9, <2>1 DEF DInv, CntInv
    <3>2. CntTable(setup, k, p)[i] = Cardinality(ToStatus(setup, k, p, i))
      BY <1>2, CntFacts
    <3> QED BY <1>4, <2>1, <3>1, <3>2
  <2>2. CASE i \notin StatusShare(p, c)
    <3>1. Counted(p, i, k)
      BY <1>6, <2>2
    <3>2. CountsInv(p)
      BY <1>0, <1>2, <1>11 DEF RankInv
    <3> QED BY <1>0, <1>4, <2>2, <3>1, <3>2 DEF CountsInv
  <2> QED BY <2>1, <2>2
<1>13. LoopInv(p)'
  <2>1. LoopInv(p)
    BY <1>11 DEF RankInv
  <2>2. idx[p][c] = 0
    BY <1>1, <2>1 DEF LoopInv
  <2>3. idx' = idx
    BY <1>1
  <2> QED BY <1>4, <2>1, <2>2, <2>3 DEF LoopInv
<1>14. \A d \in Aivs : RecvInv(p, d)' /\ (pc'[p][d] \in Ended => Copied(p, d)')
  <2> TAKE d \in Aivs
  <2>1. CASE d = c
    BY <1>4, <2>1 DEF RecvInv, Passed, Copies, After, Ended
  <2>2. CASE d # c
    <3>1. pc'[p][d] = pc[p][d] /\ RecvInv(p, d) /\ (pc[p][d] \in Ended => Copied(p, d))
      BY <1>0, <1>2, <1>4, <1>11, <2>2 DEF RankInv
    <3>2. Copied(p, d) => Copied(p, d)'
      BY <1>1, <1>5 DEF Copied
    <3>3. RecvInv(p, d)'
      BY <1>1, <1>5, <3>1 DEF RecvInv
    <3> QED BY <3>1, <3>2, <3>3
  <2> QED BY <2>1, <2>2
<1>15. RankInv(p)'
  <2>1. RankType(p)'
    BY <1>1, <1>4, <1>11 DEF RankInv, RankType
  <2> QED BY <1>1, <1>11, <1>12, <1>13, <1>14, <2>1 DEF RankInv
<1>16. \A q \in Ranks \ {p} : RankInv(q)'
  <2>1. \A q \in Ranks \ {p} : Knows(q) /\ idx'[q] = idx[q] /\ pc'[q] = pc[q]
    BY <1>1, <1>4 DEF Knows
  <2> QED BY <1>1, <2>1, RankKept DEF DInv
<1>17. OutTypes'
  BY <1>1 DEF DInv, OutTypes
<1> QED BY <1>8, <1>10, <1>15, <1>16, <1>17 DEF DInv

(* ClearStatus clears flags that are counted.                              *)
LEMMA ClearStatusKeeps ==
  ASSUME IInv, DInv, NEW p \in Ranks, NEW c \in Aivs, ClearStatus(p, c)
  PROVE  DInv'
<1>0. PICK k : k = round[p]
  OBVIOUS
<1>1. /\ pc[p][c] = "clear" /\ pc' = [pc EXCEPT ![p][c] = "cleared"]
      /\ UNCHANGED <<setup, round, idx, dataWin, counts, expandX, sendCounts, expertTokenNums>>
      /\ statusWin' = [statusWin EXCEPT ![p][DispatchHalf(p)] =
           [i \in Statuses(p) |-> IF i \in StatusShare(p, c) THEN [flag |-> 0, cnt |-> counts[p][i]]
                                  ELSE statusWin[p][DispatchHalf(p)][i]]]
      /\ recvCnt' = [recvCnt EXCEPT ![p][c] = SumOf(StatusShare(p, c), counts[p])]
  BY DEF ClearStatus, At, Goto, StatusCleared
<1>2. setup \in Setups /\ k \in RoundsOf(setup) /\ DispatchHalf(p) = Half(k) /\ k \in Coming(p)
      /\ k > 0 /\ Half(k) \in Halves
  <2>1. setup \in Setups /\ k \in RoundsOf(setup) /\ DispatchHalf(p) = Half(k) /\ Half(k) \in Halves
    BY <1>0, <1>1, AtRound, RoundFacts
  <2>2. k > 0
    BY <2>1 DEF RoundsOf
  <2> QED BY <1>0, <2>1, <2>2 DEF Coming
<1>3. pc \in [Ranks -> [Aivs -> Places]] /\ Statuses(p) = StatusesOf(setup, p)
  BY AtWork DEF IInv, TypeInv, Places
<1>11. RankInv(p)
  BY DEF DInv
<1>4. /\ pc'[p][c] = "cleared"
      /\ \A d \in Aivs \ {c} : pc'[p][d] = pc[p][d]
      /\ \A q \in Ranks \ {p} : pc'[q] = pc[q]
  BY <1>1, <1>3
<1>5. \A q \in Ranks, d \in Aivs : StatusShare(q, d)' = StatusShare(q, d)
  BY <1>1, SetupKept
<1>6. \A q \in Ranks : \A i, m : Counted(q, i, m)' => Counted(q, i, m)
  BY <1>1, <1>4, <1>5 DEF Counted
<1>7. \A q \in Ranks, d \in Aivs : Steady(q, d)
  BY <1>1, <1>4 DEF Steady
<1>8. DataType' /\ DataInv'
  BY <1>1, <1>7, DataKept
<1>9. \A i \in StatusShare(p, c) :
        /\ i \in StatusesOf(setup, p) /\ counts[p][i] = CntTable(setup, k, p)[i]
        /\ CntTable(setup, k, p)[i] = Cardinality(ToStatus(setup, k, p, i))
        /\ CntTable(setup, k, p)[i] \in Nat
  <2> TAKE i \in StatusShare(p, c)
  <2>1. i \in StatusesOf(setup, p)
    BY <1>3, ShareFacts
  <2>2. Counted(p, i, k)
    <3>1. \A d \in Aivs : i \in StatusShare(p, d) => d = c
      BY ShareFacts
    <3> QED BY <1>0, <1>1, <3>1 DEF Counted
  <2>3. CountsInv(p)
    BY <1>0, <1>2, <1>11 DEF RankInv
  <2>4. CntTable(setup, k, p)[i] = Cardinality(ToStatus(setup, k, p, i))
        /\ CntTable(setup, k, p)[i] \in 0 .. AxisBS
    BY <1>2, <2>1, CntFacts
  <2>5. AxisBS \in Nat
    BY <1>2, LayoutFacts
  <2>6. CntTable(setup, k, p)[i] \in Nat
    BY <2>4, <2>5
  <2> QED BY <1>0, <2>1, <2>2, <2>3, <2>4, <2>6 DEF CountsInv
<1>10. \A q \in Ranks, h \in Halves : \A i \in StatusesOf(setup, q) :
          /\ q = p /\ h = Half(k) /\ i \in StatusShare(p, c) =>
               statusWin'[q][h][i] = [flag |-> 0, cnt |-> counts[p][i]]
          /\ ~(q = p /\ h = Half(k) /\ i \in StatusShare(p, c)) =>
               statusWin'[q][h][i] = statusWin[q][h][i]
  <2>1. \A q \in Ranks : Statuses(q) = StatusesOf(setup, q)
    BY AtWork
  <2> QED BY <1>1, <1>2, <2>1 DEF IInv, TypeInv
<1>12. CntInv'
  <2> SUFFICES ASSUME NEW q \in Ranks, NEW i \in StatusesOf(setup, q), NEW m \in Coming(q),
                      statusWin'[q][Half(m)][i].flag = 1 \/ Counted(q, i, m)
               PROVE  statusWin'[q][Half(m)][i].cnt = Cardinality(ToStatus(setup, m, q, i))
    <3>1. \A q : Coming(q)' = Coming(q)
      BY <1>1 DEF Coming
    <3> QED BY <1>1, <1>6, <3>1 DEF CntInv
  <2>1. m \in {round[q], round[q] + 1} /\ Half(m) \in Halves
    <3>1. m \in {round[q], round[q] + 1}
      BY DEF Coming
    <3>2. m \in Nat
      BY <3>1, RoundFacts
    <3> QED BY <3>1, <3>2, HalfFacts
  <2>2. CASE q = p /\ Half(m) = Half(k) /\ i \in StatusShare(p, c)
    <3>1. m = k
      BY <1>0, <2>1, <2>2, HalfOnce
    <3>2. statusWin'[q][Half(m)][i].cnt = counts[p][i]
      <4>1. statusWin'[q][Half(m)][i] = [flag |-> 0, cnt |-> counts[p][i]]
        BY <1>10, <2>1, <2>2
      <4> QED BY <4>1
    <3>3. counts[p][i] = Cardinality(ToStatus(setup, k, p, i))
      BY <1>9, <2>2
    <3> QED BY <2>2, <3>1, <3>2, <3>3
  <2>3. CASE ~(q = p /\ Half(m) = Half(k) /\ i \in StatusShare(p, c))
    <3>1. statusWin'[q][Half(m)][i] = statusWin[q][Half(m)][i]
      BY <1>10, <2>1, <2>3
    <3>2. statusWin[q][Half(m)][i].flag = 1 \/ Counted(q, i, m)
      BY <3>1
    <3> QED BY <3>1, <3>2 DEF DInv, CntInv
  <2> QED BY <2>2, <2>3
<1>13. /\ DOMAIN recvCnt' = Ranks /\ DOMAIN recvCnt'[p] = Aivs
       /\ recvCnt'[p][c] = SumOf(StatusShare(p, c), counts[p])
       /\ \A d \in Aivs \ {c} : recvCnt'[p][d] = recvCnt[p][d]
       /\ \A q \in Ranks \ {p} : recvCnt'[q] = recvCnt[q]
  <2>1. DOMAIN recvCnt = Ranks /\ DOMAIN recvCnt[p] = Aivs
    BY <1>11 DEF DInv, OutTypes, RankInv, RankType
  <2> QED BY <1>1, <2>1
<1>14. SumOf(StatusShare(p, c), counts[p]) = SumOf(StatusShare(p, c), CntTable(setup, k, p))
  <2>1. IsFiniteSet(StatusShare(p, c))
    <3>1. IsFiniteSet(Statuses(p))
      <4>1. RscvStatusNum(p) - 1 \in Int /\ 0 \in Int
        BY StatusFacts
      <4> QED BY <4>1, FS_Interval DEF Statuses
    <3>2. StatusShare(p, c) \subseteq Statuses(p)
      BY ShareFacts
    <3> QED BY <3>1, <3>2, FS_Subset
  <2>2. \A i \in StatusShare(p, c) : CntTable(setup, k, p)[i] \in Nat
                                     /\ counts[p][i] = CntTable(setup, k, p)[i]
    BY <1>9
  <2> QED BY <2>1, <2>2, SumSame
<1>15. \A d \in Aivs : RecvInv(p, d)' /\ (pc'[p][d] \in Ended => Copied(p, d)')
  <2> TAKE d \in Aivs
  <2>1. CASE d = c
    <3>1. recvCnt'[p][d] = SumOf(StatusShare(p, d), CntTable(setup, k, p))
      BY <1>13, <1>14, <2>1
    <3>2. pc'[p][d] \notin Ended
      BY <1>4, <2>1 DEF Ended, After
    <3> QED BY <1>0, <1>1, <1>5, <3>1, <3>2 DEF RecvInv
  <2>2. CASE d # c
    <3>1. pc'[p][d] = pc[p][d] /\ RecvInv(p, d) /\ (pc[p][d] \in Ended => Copied(p, d))
      BY <1>0, <1>2, <1>4, <1>11, <2>2 DEF RankInv
    <3>2. Copied(p, d) => Copied(p, d)'
      BY <1>1, <1>5 DEF Copied
    <3>3. RecvInv(p, d)'
      BY <1>1, <1>5, <1>13, <2>2, <3>1 DEF RecvInv
    <3> QED BY <3>1, <3>2, <3>3
  <2> QED BY <2>1, <2>2
<1>16. LoopInv(p)'
  <2>1. LoopInv(p)
    BY <1>11 DEF RankInv
  <2>2. idx[p][c] = 0
    BY <1>1, <2>1 DEF LoopInv
  <2>3. idx' = idx
    BY <1>1
  <2> QED BY <1>4, <2>1, <2>2, <2>3 DEF LoopInv
<1>17. RankInv(p)'
  <2>1. RankType(p)'
    BY <1>1, <1>11, <1>13 DEF RankInv, RankType
  <2>2. round[p] > 0 => CountsInv(p)'
    BY <1>1, <1>6, <1>11 DEF RankInv, CountsInv
  <2> QED BY <1>1, <1>11, <1>15, <1>16, <2>1, <2>2 DEF RankInv
<1>18. \A q \in Ranks \ {p} : RankInv(q)'
  <2>1. \A q \in Ranks \ {p} : Knows(q) /\ idx'[q] = idx[q] /\ pc'[q] = pc[q]
    BY <1>1, <1>4, <1>13 DEF Knows
  <2> QED BY <1>1, <2>1, RankKept DEF DInv
<1>19. OutTypes'
  BY <1>1, <1>13 DEF DInv, OutTypes
<1> QED BY <1>8, <1>12, <1>17, <1>18, <1>19 DEF DInv

(* The rows of two statuses are apart, and in the output.                  *)
LEMMA RowsApart ==
  ASSUME NEW s \in Setups, NEW k \in RoundsOf(s), NEW p \in Ranks,
         NEW i \in StatusesOf(s, p), NEW x \in 0 .. CntTable(s, k, p)[i] - 1
  PROVE  /\ RowsUpTo(s, k, p, i) + x \in 0 .. StatusNum(s, p) * AxisBS - 1
         /\ \A j \in StatusesOf(s, p) : \A y \in 0 .. CntTable(s, k, p)[j] - 1 :
              RowsUpTo(s, k, p, i) + x = RowsUpTo(s, k, p, j) + y => i = j
<1>1. PICK U, N, l : /\ U = [j \in 0 .. StatusNum(s, p) |-> RowsUpTo(s, k, p, j)]
                     /\ N = CntTable(s, k, p) /\ l = StatusNum(s, p) * AxisBS
  OBVIOUS
<1>2. PICK n \in Nat \ {0} : n = StatusNum(s, p)
  BY CntFacts
<1>3. StatusesOf(s, p) = 0 .. n - 1
  BY <1>2, CntFacts
<1>4. \A j \in 0 .. n : U[j] = RowsUpTo(s, k, p, j)
  BY <1>1, <1>2
<1>5. \A j \in 0 .. n - 1 : /\ U[j] \in Nat /\ N[j] \in Nat /\ U[j + 1] = U[j] + N[j]
                            /\ U[j + 1] <= l
  <2> TAKE j \in 0 .. n - 1
  <2>1. j \in 0 .. n /\ j + 1 \in 0 .. n /\ j \in StatusesOf(s, p)
    BY <1>3
  <2>2. AxisBS \in Nat
    BY LayoutFacts
  <2>3. N[j] \in 0 .. AxisBS
    BY <1>1, <2>1, CntFacts
  <2>4. N[j] \in Nat
    BY <2>2, <2>3
  <2> QED BY <1>1, <1>4, <2>1, <2>4, CntFacts, SMTT(30)
<1>6. \A h, j \in 0 .. n - 1 : h < j => U[h + 1] <= U[j]
  <2> SUFFICES ASSUME NEW h \in 0 .. n - 1, NEW j \in 0 .. n - 1, h < j
               PROVE  U[h + 1] <= U[j]
    OBVIOUS
  <2>1. j \in 0 .. n /\ h + 1 \in 0 .. n
    OBVIOUS
  <2>2. RowsUpTo(s, k, p, h + 1) <= RowsUpTo(s, k, p, j)
    BY <1>3, CntFacts
  <2> QED BY <1>4, <2>1, <2>2
<1>7. l \in Nat
  <2>1. AxisBS \in Nat
    BY LayoutFacts
  <2> QED BY <1>1, <1>2, <2>1
<1>8. i \in 0 .. n - 1 /\ x \in 0 .. N[i] - 1
  BY <1>1, <1>3
<1> HIDE <1>1, <1>2
<1>9. U[i] + x \in 0 .. l - 1
  BY <1>5, <1>7, <1>8
<1>10. ASSUME NEW j \in 0 .. n - 1, NEW y \in 0 .. N[j] - 1, U[i] + x = U[j] + y
       PROVE  i = j
  <2>1. CASE i < j
    BY <1>5, <1>6, <1>8, <1>10, <2>1
  <2>2. CASE j < i
    BY <1>5, <1>6, <1>8, <1>10, <2>2
  <2> QED BY <1>8, <2>1, <2>2
<1>11. U[i] = RowsUpTo(s, k, p, i) /\ \A j \in 0 .. n - 1 : U[j] = RowsUpTo(s, k, p, j)
  BY <1>4, <1>8
<1> QED BY <1>1, <1>3, <1>9, <1>10, <1>11

(* The tokens are there when a core copies them.                           *)
LEMMA CopyReady ==
  ASSUME IInv, DInv, NEW p \in Ranks, NEW c \in Aivs, pc[p][c] = "copy",
         NEW k, k = round[p]
  PROVE  /\ setup \in Setups /\ k \in RoundsOf(setup) /\ k > 0
         /\ \A d \in Aivs : pc[p][d] \in Copies
         /\ \A i \in StatusShare(p, c) : /\ FirstRow(p, c, i) = RowsUpTo(setup, k, p, i)
                                         /\ counts[p][i] = CntTable(setup, k, p)[i]
         /\ \A i \in StatusesOf(setup, p) :
              /\ statusWin[p][Half(k)][i].cnt = CntTable(setup, k, p)[i]
              /\ \A a \in ToStatus(setup, k, p, i) :
                   dataWin[p][Half(k)][CellIn(setup, k, p, i, a)] = a
<1>1. setup \in Setups /\ k \in RoundsOf(setup)
  BY AtRound
<1>2. k > 0 /\ k \in Coming(p) /\ k \in Rounds
  <2>1. k \in Rounds
    BY RoundFacts
  <2>2. k > 0
    BY <2>1 DEF Rounds
  <2> QED BY <1>1, <2>1, <2>2 DEF Coming
<1>3. \A d \in Aivs : pc[p][d] \in Copies
  BY DEF IInv, PhaseInv, Waits, Copies, After
<1>4. \A i : Counted(p, i, k)
  BY <1>3 DEF Counted, Copies
<1>5. RankInv(p)
  BY DEF DInv
<1>6. CountsInv(p) /\ \A d \in Aivs : RecvInv(p, d)
  BY <1>2, <1>5 DEF RankInv
<1>7. Statuses(p) = StatusesOf(setup, p)
  BY AtWork
<1>8. CountsReady(k, p, c)
  <2>1. StatusShare(p, c) \subseteq StatusesOf(setup, p)
    BY <1>7, ShareFacts
  <2> QED BY <1>4, <1>6, <2>1 DEF CountsReady, CountsInv
<1>9. StatusShare(p, c) # {} => SumsReady(k, p, c)
  <2> SUFFICES ASSUME StatusShare(p, c) # {}, NEW d \in 0 .. c - 1
               PROVE  recvCnt[p][d] = SumOf(StatusShare(p, d), CntTable(setup, k, p))
    BY DEF SumsReady
  <2>1. c \in Int
    BY SetupFacts DEF Aivs
  <2>2. d \in 0 .. c
    BY <2>1
  <2>3. d \in Aivs /\ StatusShare(p, d) # {}
    BY <2>2, FirstShare
  <2>4. pc[p][d] \in Passed
    BY <1>3, <2>3 DEF Passed
  <2> QED BY <1>6, <2>3, <2>4 DEF RecvInv
<1>10. \A i \in StatusShare(p, c) : FirstRow(p, c, i) = RowsUpTo(setup, k, p, i)
  BY <1>1, <1>8, <1>9, FirstRowIs
<1>11. \A i \in StatusesOf(setup, p) : statusWin[p][Half(k)][i].cnt = CntTable(setup, k, p)[i]
  <2> TAKE i \in StatusesOf(setup, p)
  <2>1. statusWin[p][Half(k)][i].cnt = Cardinality(ToStatus(setup, k, p, i))
    BY <1>2, <1>4 DEF DInv, CntInv
  <2>2. CntTable(setup, k, p)[i] = Cardinality(ToStatus(setup, k, p, i))
    BY <1>1, CntFacts
  <2> QED BY <2>1, <2>2
<1>12. \A i \in StatusesOf(setup, p) : \A a \in ToStatus(setup, k, p, i) :
          dataWin[p][Half(k)][CellIn(setup, k, p, i, a)] = a
  <2> TAKE i \in StatusesOf(setup, p)
  <2> TAKE a \in ToStatus(setup, k, p, i)
  <2>1. SenderOf(i) \in Ranks
    BY <1>1, SenderRank
  <2>2. \/ round[SenderOf(i)] > k
        \/ round[SenderOf(i)] = k /\ \A d \in Aivs : pc[SenderOf(i)][d] # "send"
    BY <1>2, <1>4, <2>1, AllSent
  <2>3. MsgSent(SenderOf(i), k, a)
    BY <2>2 DEF MsgSent
  <2> QED BY <1>2, <2>3 DEF DInv, DataInv
<1> QED BY <1>1, <1>2, <1>3, <1>8, <1>10, <1>11, <1>12 DEF CountsReady

(* LocalWindowCopy has the tokens of its share in their cells, and puts    *)
(* them into rows of their own.                                            *)
LEMMA LocalWindowCopyKeeps ==
  ASSUME IInv, DInv, NEW p \in Ranks, NEW c \in Aivs, LocalWindowCopy(p, c)
  PROVE  DInv'
<1>0. PICK k : k = round[p]
  OBVIOUS
<1>0a. pc[p][c] = "copy"
  BY DEF LocalWindowCopy, At
<1>0b. /\ setup \in Setups /\ k \in RoundsOf(setup) /\ k > 0
       /\ \A d \in Aivs : pc[p][d] \in Copies
       /\ \A i \in StatusShare(p, c) : /\ FirstRow(p, c, i) = RowsUpTo(setup, k, p, i)
                                       /\ counts[p][i] = CntTable(setup, k, p)[i]
       /\ \A i \in StatusesOf(setup, p) :
            /\ statusWin[p][Half(k)][i].cnt = CntTable(setup, k, p)[i]
            /\ \A a \in ToStatus(setup, k, p, i) :
                 dataWin[p][Half(k)][CellIn(setup, k, p, i, a)] = a
  BY <1>0, <1>0a, CopyReady
<1> DEFINE U(i) == RowsUpTo(setup, k, p, i)
           N(i) == CntTable(setup, k, p)[i]
           mine(n) == {i \in StatusShare(p, c) :
                         n \in FirstRow(p, c, i) .. FirstRow(p, c, i) + counts[p][i] - 1}
           row(n) == IF mine(n) = {} THEN expandX[p][n]
                     ELSE LET i == CHOOSE i \in mine(n) : TRUE
                          IN dataWin[p][DispatchHalf(p)][<<WinOffset(p, i), n - FirstRow(p, c, i)>>]
           ends(e) == SumOf(0 .. (e + 1) * EpWorldSize - 1,
                            [i \in Statuses(p) |-> statusWin[p][DispatchHalf(p)][i].cnt])
<1>1. /\ pc[p][c] = "copy" /\ pc' = [pc EXCEPT ![p][c] = "dispatched"]
      /\ expandX' = [expandX EXCEPT ![p] = [n \in DOMAIN expandX[p] |-> row(n)]]
      /\ sendCounts' = [sendCounts EXCEPT ![p] = [i \in Statuses(p) |->
           IF i \in StatusShare(p, c) THEN FirstRow(p, c, i) + counts[p][i] ELSE sendCounts[p][i]]]
      /\ expertTokenNums' = IF c > 0 THEN expertTokenNums
           ELSE [expertTokenNums EXCEPT ![p] = [e \in DOMAIN expertTokenNums[p] |-> ends(e)]]
      /\ UNCHANGED <<setup, round, idx, dispatchState, dataWin, statusWin, counts, recvCnt>>
  BY DEF LocalWindowCopy, At, Goto
<1>2. /\ setup \in Setups /\ k \in RoundsOf(setup) /\ k > 0
      /\ \A d \in Aivs : pc[p][d] \in Copies
      /\ \A i \in StatusShare(p, c) : FirstRow(p, c, i) = U(i) /\ counts[p][i] = N(i)
      /\ \A i \in StatusesOf(setup, p) :
           /\ statusWin[p][Half(k)][i].cnt = N(i)
           /\ \A a \in ToStatus(setup, k, p, i) :
                dataWin[p][Half(k)][CellIn(setup, k, p, i, a)] = a
  BY <1>0b
<1>3. DispatchHalf(p) = Half(k) /\ Statuses(p) = StatusesOf(setup, p)
      /\ \A i : WinOffset(p, i) = BlockOf(setup, p, i)
  BY <1>0, RoundFacts, AtWork
<1>4. /\ StatusShare(p, c) \subseteq StatusesOf(setup, p)
      /\ \A d \in Aivs \ {c} : StatusShare(p, c) \cap StatusShare(p, d) = {}
      /\ \A d \in Aivs : StatusShare(p, d) \subseteq StatusesOf(setup, p)
  <2>1. \A d \in Aivs : StatusShare(p, d) \subseteq Statuses(p)
    BY ShareFacts
  <2>2. \A d \in Aivs \ {c} : StatusShare(p, c) \cap StatusShare(p, d) = {}
    BY ShareFacts
  <2> QED BY <1>3, <2>1, <2>2
<1>5. RankInv(p)
  BY DEF DInv
<1>6. \A i \in StatusesOf(setup, p) : U(i) \in Nat /\ N(i) \in Nat /\ U(i + 1) = U(i) + N(i)
  <2> TAKE i \in StatusesOf(setup, p)
  <2>1. AxisBS \in Nat /\ N(i) \in 0 .. AxisBS
    BY <1>2, LayoutFacts, CntFacts
  <2>2. N(i) \in Nat
    BY <2>1
  <2> QED BY <1>2, <2>2, CntFacts
<1> HIDE DEF row, ends
<1>7. /\ DOMAIN expandX'[p] = DOMAIN expandX[p] /\ DOMAIN sendCounts'[p] = StatusesOf(setup, p)
      /\ \A n \in DOMAIN expandX[p] : expandX'[p][n] = row(n)
      /\ \A i \in StatusesOf(setup, p) : sendCounts'[p][i] =
           IF i \in StatusShare(p, c) THEN FirstRow(p, c, i) + counts[p][i] ELSE sendCounts[p][i]
      /\ \A q \in Ranks \ {p} : expandX'[q] = expandX[q] /\ sendCounts'[q] = sendCounts[q]
      /\ DOMAIN expandX' = Ranks /\ DOMAIN sendCounts' = Ranks
  BY <1>1, <1>3 DEF DInv, OutTypes
<1>8. /\ DOMAIN expertTokenNums' = Ranks
      /\ \A q \in Ranks \ {p} : expertTokenNums'[q] = expertTokenNums[q]
      /\ DOMAIN expertTokenNums'[p] = DOMAIN expertTokenNums[p]
      /\ c > 0 => expertTokenNums'[p] = expertTokenNums[p]
      /\ ~(c > 0) => \A e \in DOMAIN expertTokenNums[p] : expertTokenNums'[p][e] = ends(e)
  BY <1>1 DEF DInv, OutTypes
<1>9. ASSUME NEW i \in StatusesOf(setup, p), NEW x \in 0 .. N(i) - 1, NEW n, n = U(i) + x
      PROVE  /\ n \in DOMAIN expandX[p]
             /\ i \in StatusShare(p, c) => mine(n) = {i}
             /\ i \notin StatusShare(p, c) => mine(n) = {}
  <2>1. /\ n \in 0 .. StatusNum(setup, p) * AxisBS - 1
        /\ \A j \in StatusesOf(setup, p) : \A y \in 0 .. N(j) - 1 : n = U(j) + y => i = j
    BY <1>2, <1>9, RowsApart
  <2>2. n \in DOMAIN expandX[p]
    BY <1>5, <2>1 DEF RankInv, RankType
  <2>3. U(i) \in Nat /\ N(i) \in Nat
    BY <1>6
  <2> HIDE DEF U, N
  <2>4. n \in U(i) .. U(i) + N(i) - 1 /\ n \in Int
    BY <1>9, <2>3
  <2>5. ASSUME NEW j \in StatusShare(p, c), n \in U(j) .. U(j) + N(j) - 1
        PROVE  j = i
    <3>1. j \in StatusesOf(setup, p)
      BY <1>4
    <3>2. U(j) \in Nat /\ N(j) \in Nat
      BY <1>6, <3>1
    <3>3. PICK y : y = n - U(j)
      OBVIOUS
    <3>4. y \in 0 .. N(j) - 1 /\ n = U(j) + y
      BY <2>4, <2>5, <3>2, <3>3
    <3> QED BY <2>1, <3>1, <3>4
  <2>6. mine(n) = {j \in StatusShare(p, c) : n \in U(j) .. U(j) + N(j) - 1}
    BY <1>2
  <2> HIDE DEF mine
  <2>7. \A j \in mine(n) : j = i /\ j \in StatusShare(p, c)
    BY <2>5, <2>6
  <2>8. i \in StatusShare(p, c) => i \in mine(n)
    BY <2>4, <2>6
  <2> QED BY <2>2, <2>7, <2>8
<1> HIDE DEF mine
<1>10. ASSUME NEW i \in StatusesOf(setup, p), NEW a \in ToStatus(setup, k, p, i)
       PROVE  LET n == U(i) + Slot(ToStatus(setup, k, p, i), a)
              IN expandX'[p][n] = IF i \in StatusShare(p, c) THEN a ELSE expandX[p][n]
  <2>1. PICK x, n : x = Slot(ToStatus(setup, k, p, i), a) /\ n = U(i) + x
    OBVIOUS
  <2>2. x \in 0 .. N(i) - 1 /\ x \in Int
    <3>1. N(i) = Cardinality(ToStatus(setup, k, p, i))
      BY <1>2, CntFacts
    <3>2. x \in 0 .. Cardinality(ToStatus(setup, k, p, i)) - 1
      BY <1>2, <2>1, SlotFacts
    <3> QED BY <3>1, <3>2
  <2>3. /\ n \in DOMAIN expandX[p]
        /\ i \in StatusShare(p, c) => mine(n) = {i}
        /\ i \notin StatusShare(p, c) => mine(n) = {}
    BY <1>9, <2>1, <2>2
  <2>4. expandX'[p][n] = row(n)
    BY <1>7, <2>3
  <2>5. CASE i \in StatusShare(p, c)
    <3>1. mine(n) = {i}
      BY <2>3, <2>5
    <3>2. (CHOOSE j \in mine(n) : TRUE) = i /\ mine(n) # {}
      BY <3>1
    <3>3. row(n) = dataWin[p][DispatchHalf(p)][<<WinOffset(p, i), n - FirstRow(p, c, i)>>]
      BY <3>2 DEF row
    <3>4. n - FirstRow(p, c, i) = x
      <4>1. FirstRow(p, c, i) = U(i) /\ U(i) \in Nat
        BY <1>2, <1>6, <2>5
      <4> QED BY <2>1, <2>2, <4>1
    <3>5. <<WinOffset(p, i), n - FirstRow(p, c, i)>> = CellIn(setup, k, p, i, a)
      BY <1>3, <2>1, <3>4 DEF CellIn
    <3>6. row(n) = a
      BY <1>2, <1>3, <3>3, <3>5
    <3> QED BY <2>1, <2>4, <2>5, <3>6
  <2>6. CASE i \notin StatusShare(p, c)
    <3>1. row(n) = expandX[p][n]
      BY <2>3, <2>6 DEF row
    <3> QED BY <2>1, <2>4, <2>6, <3>1
  <2> QED BY <2>5, <2>6
<1>11. \A i \in StatusesOf(setup, p) : sendCounts'[p][i] =
         IF i \in StatusShare(p, c) THEN U(i + 1) ELSE sendCounts[p][i]
  BY <1>2, <1>6, <1>7
<1>12. ASSUME ~(c > 0), NEW e \in DOMAIN expertTokenNums[p]
       PROVE  ends(e) = U((e + 1) * EpWorldSize)
  <2>1. e \in 0 .. StatusNum(setup, p) \div EpWorldSize - 1
    BY <1>5 DEF RankInv, RankType
  <2>2. PICK m : m = (e + 1) * EpWorldSize
    OBVIOUS
  <2>3. m \in 1 .. StatusNum(setup, p)
    BY <1>2, <2>1, <2>2, ExpertEnds
  <2>4. PICK f : f = [i \in Statuses(p) |-> statusWin[p][DispatchHalf(p)][i].cnt]
    OBVIOUS
  <2>5. StatusNum(setup, p) \in Nat /\ StatusesOf(setup, p) = 0 .. StatusNum(setup, p) - 1
    BY <1>2, CntFacts
  <2>6. \A i \in StatusesOf(setup, p) : f[i] = CntTable(setup, k, p)[i] /\ CntTable(setup, k, p)[i] \in Nat
    BY <1>2, <1>3, <1>6, <2>4
  <2>7. 0 .. m - 1 \subseteq StatusesOf(setup, p) /\ m - 1 \in Int
    BY <2>3, <2>5
  <2>8. IsFiniteSet(0 .. m - 1)
    BY <2>7, FS_Interval
  <2>9. SumOf(0 .. m - 1, f) = SumOf(0 .. m - 1, CntTable(setup, k, p))
    <3>1. PICK S : S = 0 .. m - 1
      OBVIOUS
    <3>2. IsFiniteSet(S) /\ \A i \in S : CntTable(setup, k, p)[i] \in Nat /\ f[i] = CntTable(setup, k, p)[i]
      BY <2>6, <2>7, <2>8, <3>1
    <3>3. SumOf(S, f) = SumOf(S, CntTable(setup, k, p))
      BY <3>2, SumSame
    <3> QED BY <3>1, <3>3
  <2> QED BY <2>2, <2>4, <2>9 DEF ends, RowsUpTo
<1> HIDE DEF U, N
<1>13. DOMAIN pc = Ranks /\ pc \in [Ranks -> [Aivs -> Places]]
  BY DEF IInv, TypeInv, Places
<1>14. /\ pc'[p][c] = "dispatched"
       /\ \A d \in Aivs \ {c} : pc'[p][d] = pc[p][d]
       /\ \A q \in Ranks \ {p} : pc'[q] = pc[q]
  BY <1>1, <1>13
<1>15. \A q \in Ranks, d \in Aivs : StatusShare(q, d)' = StatusShare(q, d)
  BY <1>1, SetupKept
<1>16. \A q \in Ranks : \A i, m : Counted(q, i, m)' => Counted(q, i, m)
  BY <1>1, <1>14, <1>15 DEF Counted
<1>17. \A q \in Ranks, d \in Aivs : Steady(q, d)
  BY <1>1, <1>14 DEF Steady
<1>18. DataType' /\ DataInv'
  BY <1>1, <1>17, DataKept
<1>19. CntInv'
  BY <1>1, <1>16, CntKept
<1>20. Copied(p, c)'
  <2>1. \A i \in StatusShare(p, c) :
          /\ sendCounts'[p][i] = U(i + 1)
          /\ \A a \in ToStatus(setup, k, p, i) :
               expandX'[p][U(i) + Slot(ToStatus(setup, k, p, i), a)] = a
    BY <1>4, <1>10, <1>11
  <2>2. c = 0 => \A e \in DOMAIN expertTokenNums'[p] :
          expertTokenNums'[p][e] = U((e + 1) * EpWorldSize)
    BY <1>8, <1>12
  <2> QED BY <1>0, <1>1, <1>15, <2>1, <2>2 DEF Copied, U
<1>21. ASSUME NEW d \in Aivs, d # c, Copied(p, d)
       PROVE  Copied(p, d)'
  <2>1. ASSUME NEW i \in StatusShare(p, d)
        PROVE  /\ sendCounts'[p][i] = U(i + 1)
               /\ \A a \in ToStatus(setup, k, p, i) :
                    expandX'[p][U(i) + Slot(ToStatus(setup, k, p, i), a)] = a
    <3>1. i \in StatusesOf(setup, p) /\ i \notin StatusShare(p, c)
      BY <1>4, <1>21
    <3>2. sendCounts[p][i] = U(i + 1)
      BY <1>0, <1>21 DEF Copied, U
    <3>3. sendCounts'[p][i] = sendCounts[p][i]
      BY <1>11, <3>1
    <3>4. ASSUME NEW a \in ToStatus(setup, k, p, i)
          PROVE  expandX'[p][U(i) + Slot(ToStatus(setup, k, p, i), a)] = a
      <4>1. expandX[p][U(i) + Slot(ToStatus(setup, k, p, i), a)] = a
        BY <1>0, <1>21 DEF Copied, U
      <4>2. expandX'[p][U(i) + Slot(ToStatus(setup, k, p, i), a)]
              = expandX[p][U(i) + Slot(ToStatus(setup, k, p, i), a)]
        BY <1>10, <3>1
      <4> QED BY <4>1, <4>2
    <3> QED BY <3>2, <3>3, <3>4
  <2>2. d = 0 => expertTokenNums'[p] = expertTokenNums[p]
    <3>1. c \in Nat
      BY SetupFacts DEF Aivs
    <3>2. d = 0 => c > 0
      BY <1>21, <3>1
    <3> QED BY <1>8, <3>2
  <2>3. d = 0 => \A e \in DOMAIN expertTokenNums'[p] :
          expertTokenNums'[p][e] = U((e + 1) * EpWorldSize)
    BY <1>0, <1>21, <2>2 DEF Copied, U
  <2> QED BY <1>0, <1>1, <1>15, <2>1, <2>3 DEF Copied, U
<1>22. \A d \in Aivs : RecvInv(p, d)' /\ (pc'[p][d] \in Ended => Copied(p, d)')
  <2> TAKE d \in Aivs
  <2>1. RecvInv(p, d) /\ (pc[p][d] \in Ended => Copied(p, d))
    BY <1>0, <1>2, <1>5 DEF RankInv
  <2>2. pc[p][d] \in Passed
    BY <1>2 DEF Passed
  <2>3. RecvInv(p, d)'
    BY <1>1, <1>15, <2>1, <2>2 DEF RecvInv
  <2> QED BY <1>14, <1>20, <1>21, <2>1, <2>3
<1>23. LoopInv(p)'
  <2>1. LoopInv(p)
    BY <1>5 DEF RankInv
  <2>2. idx[p][c] = 0
    BY <1>1, <2>1 DEF LoopInv
  <2>3. idx' = idx
    BY <1>1
  <2> QED BY <1>14, <2>1, <2>2, <2>3 DEF LoopInv
<1>24. RankInv(p)'
  <2>1. RankType(p)'
    BY <1>1, <1>5, <1>7, <1>8 DEF RankInv, RankType
  <2>2. round[p] > 0 => CountsInv(p)'
    BY <1>1, <1>5, <1>16 DEF RankInv, CountsInv
  <2> QED BY <1>1, <1>5, <1>22, <1>23, <2>1, <2>2 DEF RankInv
<1>25. \A q \in Ranks \ {p} : RankInv(q)'
  <2>1. \A q \in Ranks \ {p} : Knows(q) /\ idx'[q] = idx[q] /\ pc'[q] = pc[q]
    BY <1>1, <1>7, <1>8, <1>14 DEF Knows
  <2> QED BY <1>1, <2>1, RankKept DEF DInv
<1>26. OutTypes'
  BY <1>1, <1>7, <1>8 DEF DInv, OutTypes
<1> QED BY <1>18, <1>19, <1>24, <1>25, <1>26 DEF DInv

(* The next round finds the half of the windows that it will use free.     *)
LEMMA NextRoundKeeps ==
  ASSUME IInv, DInv, NEW p \in Ranks, NextRound(p)
  PROVE  DInv'
<1>0. PICK k : k = round[p]
  OBVIOUS
<1>1. /\ \A c \in Aivs : pc[p][c] = "idle"
      /\ round[p] < Len(setup.expertIds)
      /\ round' = [round EXCEPT ![p] = k + 1]
      /\ pc' = [pc EXCEPT ![p] = [c \in Aivs |-> "send"]]
      /\ expandX' = [expandX EXCEPT ![p] = [n \in DOMAIN expandX[p] |-> NoToken]]
      /\ sendCounts' = [sendCounts EXCEPT ![p] = [i \in Statuses(p) |-> 0]]
      /\ expertTokenNums' = [expertTokenNums EXCEPT ![p] = [e \in DOMAIN expertTokenNums[p] |-> 0]]
      /\ counts' = [counts EXCEPT ![p] = [i \in Statuses(p) |-> 0]]
      /\ UNCHANGED <<setup, idx, dataWin, statusWin, recvCnt>>
  BY <1>0 DEF NextRound, StartDispatch, AllAt, GotoAll
<1>2. setup \in Setups /\ k \in Nat /\ Len(setup.expertIds) \in Nat
  BY <1>0, AtRound, DispatchAssumption
<1>3. k + 1 <= Len(setup.expertIds)
  BY <1>0, <1>1, <1>2
<1>4. /\ DOMAIN pc = Ranks /\ round \in [Ranks -> 0 .. RoundNum] /\ DOMAIN counts = Ranks
      /\ DOMAIN expandX = Ranks /\ DOMAIN sendCounts = Ranks /\ DOMAIN expertTokenNums = Ranks
  BY DEF IInv, TypeInv, DInv, OutTypes
<1>5. /\ round'[p] = k + 1 /\ \A c \in Aivs : pc'[p][c] = "send"
      /\ \A q \in Ranks \ {p} : /\ round'[q] = round[q] /\ pc'[q] = pc[q]
                                /\ expandX'[q] = expandX[q] /\ sendCounts'[q] = sendCounts[q]
                                /\ expertTokenNums'[q] = expertTokenNums[q]
                                /\ counts'[q] = counts[q]
  BY <1>1, <1>4
<1>6. RankInv(p)
  BY DEF DInv
<1>7. \A c \in Aivs : idx[p][c] = 0
  BY <1>1, <1>6 DEF RankInv, LoopInv
<1>8. \A q \in Ranks : round[q] \in Nat /\ round[q] <= k + 1
  <2> TAKE q \in Ranks
  <2>1. round[q] <= round[p] + 1
    BY RoundsClose
  <2> QED BY <1>0, <2>1, RoundFacts
<1>9. \A q \in Ranks, d \in Aivs : StatusShare(q, d)' = StatusShare(q, d)
  BY <1>1, SetupKept
<1>10. ASSUME NEW q \in Ranks, NEW m \in Coming(q)', ~(q = p /\ m = k + 2)
       PROVE  m \in Coming(q)
  <2>1. m \in {round'[q], round'[q] + 1} /\ m \in RoundsOf(setup)
    BY <1>1, <1>10 DEF Coming
  <2>2. CASE q = p
    BY <1>0, <1>2, <1>5, <1>10, <2>1, <2>2 DEF Coming
  <2>3. CASE q # p
    BY <1>5, <2>1, <2>3 DEF Coming
  <2> QED BY <2>2, <2>3
<1>11. \A q \in Ranks : \A m \in Coming(q)' : m \in RoundsOf(setup) /\ m \in Nat
  BY <1>1 DEF Coming, RoundsOf
<1>12. ASSUME NEW r \in Ranks, NEW j \in StatusesOf(setup, r), NEW m \in RoundsOf(setup), m \in Nat,
              NEW b \in ToStatus(setup, m, r, j), MsgSent(SenderOf(j), m, b)'
       PROVE  MsgSent(SenderOf(j), m, b)
  <2>1. PICK q \in Ranks : q = SenderOf(j)
    BY <1>2, SenderRank
  <2>2. CASE q # p
    BY <1>1, <1>5, <1>12, <2>1, <2>2 DEF MsgSent
  <2>3. CASE q = p
    <3>1. CASE k + 1 > m
      <4>1. k > m \/ k = m
        BY <1>2, <1>12, <3>1
      <4>2. \A c \in Aivs : pc[p][c] # "send"
        BY <1>1
      <4> QED BY <1>0, <2>1, <2>3, <4>1, <4>2 DEF MsgSent
    <3>2. CASE ~(k + 1 > m)
      <4>1. k + 1 = m
        BY <1>5, <1>12, <2>1, <2>3, <3>2 DEF MsgSent
      <4>2. \A c \in Aivs : \A n : Sends(setup, m, p, c, n, b) => n < 0
        <5>1. \A c \in Aivs : \A n : Sends(setup, m, p, c, n, b) =>
                pc'[p][c] # "send" \/ n < idx'[p][c]
          BY <1>1, <1>5, <1>12, <2>1, <2>3, <3>2 DEF MsgSent
        <5> QED BY <1>1, <1>5, <1>7, <5>1
      <4>3. PICK c \in Aivs : \E n : Sends(setup, m, p, c, n, b)
        BY <1>2, <2>1, <2>3, EverySent
      <4>4. PICK n : Sends(setup, m, p, c, n, b)
        BY <4>3
      <4>5. n < 0 /\ n \in 0 .. SendsOf(setup, m, p, c) - 1
        BY <4>2, <4>4 DEF Sends
      <4> QED BY <4>5
    <3> QED BY <3>1, <3>2
  <2> QED BY <2>2, <2>3
<1>13. DataInv'
  <2> SUFFICES ASSUME NEW r \in Ranks, NEW j \in StatusesOf(setup, r), NEW m \in Coming(r)',
                      NEW b \in ToStatus(setup, m, r, j), MsgSent(SenderOf(j), m, b)'
               PROVE  dataWin[r][Half(m)][CellIn(setup, m, r, j, b)] = b
    BY <1>1 DEF DataInv
  <2>1. MsgSent(SenderOf(j), m, b)
    BY <1>11, <1>12
  <2>2. ~(r = p /\ m = k + 2)
    <3> SUFFICES ASSUME r = p, m = k + 2
                 PROVE  FALSE
      OBVIOUS
    <3>1. PICK q \in Ranks : q = SenderOf(j)
      BY <1>2, SenderRank
    <3>2. round[q] > m \/ round[q] = m
      BY <2>1, <3>1 DEF MsgSent
    <3>3. round[q] \in Nat /\ round[q] <= k + 1
      BY <1>8
    <3> QED BY <1>2, <3>2, <3>3
  <2>3. m \in Coming(r)
    BY <1>10, <2>2
  <2> QED BY <2>1, <2>3 DEF DInv, DataInv
<1>14. DataType'
  BY <1>1 DEF DInv, DataType
<1>15. ASSUME NEW i \in StatusesOf(setup, p), NEW m \in Int, m > k
       PROVE  ~Counted(p, i, m)'
  <2>1. i \in Statuses(p)
    BY AtWork
  <2>2. PICK c \in Aivs : i \in StatusShare(p, c)
    BY <2>1, ShareFacts
  <2>3. ~(round'[p] > m)
    BY <1>2, <1>5, <1>15
  <2> QED BY <1>5, <1>9, <2>2, <2>3 DEF Counted
<1>16. CntInv'
  <2> SUFFICES ASSUME NEW q \in Ranks, NEW i \in StatusesOf(setup, q), NEW m \in Coming(q)',
                      statusWin[q][Half(m)][i].flag = 1 \/ Counted(q, i, m)'
               PROVE  statusWin[q][Half(m)][i].cnt = Cardinality(ToStatus(setup, m, q, i))
    BY <1>1 DEF CntInv
  <2>1. CASE q = p
    <3>1. m \in {k + 1, k + 2} /\ m \in Nat
      <4>1. m \in {round'[p], round'[p] + 1} /\ m \in Nat
        BY <1>11, <2>1 DEF Coming
      <4> QED BY <1>2, <1>5, <4>1
    <3>2. ~Counted(q, i, m)'
      BY <1>2, <1>15, <2>1, <3>1
    <3>3. m # k + 2
      <4> SUFFICES ASSUME m = k + 2
                   PROVE  FALSE
        OBVIOUS
      <4>1. Half(m) = Half(k)
        BY <1>2, HalfFacts
      <4>2. Lowered(p, i)
        BY <1>1 DEF Lowered
      <4>3. i \in Statuses(p)
        BY <2>1, AtWork
      <4>4. statusWin[p][Half(k)][i].flag = 0
        BY <1>0, <4>2, <4>3 DEF IInv, LoweredInv
      <4> QED BY <2>1, <3>2, <4>1, <4>4
    <3>4. m \in Coming(q)
      BY <1>10, <3>3
    <3> QED BY <3>2, <3>4 DEF DInv, CntInv
  <2>2. CASE q # p
    <3>1. m \in Coming(q)
      BY <1>10, <2>2
    <3>2. Counted(q, i, m)' => Counted(q, i, m)
      BY <1>5, <1>9, <2>2 DEF Counted
    <3> QED BY <3>1, <3>2 DEF DInv, CntInv
  <2> QED BY <2>1, <2>2
<1>17. RankInv(p)'
  <2>1. RankType(p)'
    <3>1. Statuses(p) = StatusesOf(setup, p)
      BY AtWork
    <3> QED BY <1>1, <1>4, <1>6, <3>1 DEF RankInv, RankType
  <2>2. LoopInv(p)'
    BY <1>5 DEF LoopInv
  <2>3. CountsInv(p)'
    <3>1. \A i \in StatusesOf(setup, p) : ~Counted(p, i, k + 1)'
      BY <1>2, <1>15
    <3>2. \A i \in StatusesOf(setup, p) : ~Counted(p, i, round[p])'
      BY <1>5, <3>1 DEF Counted
    <3> QED BY <1>1, <3>2 DEF CountsInv
  <2>4. \A c \in Aivs : RecvInv(p, c)' /\ pc'[p][c] \notin Ended
    BY <1>5 DEF RecvInv, Passed, Copies, After, Ended
  <2> QED BY <1>1, <1>3, <1>5, <2>1, <2>2, <2>3, <2>4 DEF RankInv
<1>18. \A q \in Ranks \ {p} : RankInv(q)'
  <2>1. \A q \in Ranks \ {p} : Knows(q) /\ idx'[q] = idx[q] /\ pc'[q] = pc[q]
    BY <1>1, <1>5 DEF Knows
  <2> QED BY <1>1, <2>1, RankKept DEF DInv
<1>19. OutTypes'
  BY <1>1, <1>4 DEF DInv, OutTypes
<1> QED BY <1>13, <1>14, <1>16, <1>17, <1>18, <1>19 DEF DInv

(* At first nothing is sent or counted.                                    *)
LEMMA InitTokens ==
  Init => DInv
<1> SUFFICES ASSUME Init
             PROVE  DInv
  OBVIOUS
<1>1. /\ setup \in Setups
      /\ round = [p \in Ranks |-> 0]
      /\ pc = [p \in Ranks |-> [c \in Aivs |-> "idle"]]
      /\ idx = [p \in Ranks |-> [c \in Aivs |-> 0]]
      /\ dataWin = [p \in Ranks |-> [h \in Halves |-> [cell \in Statuses(p) \X Tokens |-> NoToken]]]
      /\ statusWin = [p \in Ranks |-> [h \in Halves |->
           [i \in Statuses(p) |-> [flag |-> 0, cnt |-> 0]]]]
      /\ counts = [p \in Ranks |-> [i \in Statuses(p) |-> 0]]
      /\ recvCnt = [p \in Ranks |-> [c \in Aivs |-> 0]]
      /\ expandX = [p \in Ranks |-> [n \in 0 .. RscvStatusNum(p) * AxisBS - 1 |-> NoToken]]
      /\ sendCounts = [p \in Ranks |-> [i \in Statuses(p) |-> 0]]
      /\ expertTokenNums =
           [p \in Ranks |-> [e \in 0 .. RscvStatusNum(p) \div EpWorldSize - 1 |-> 0]]
  BY DEF Init, DispatchInit
<1>2. \A p \in Ranks : Statuses(p) = StatusesOf(setup, p) /\ RscvStatusNum(p) = StatusNum(setup, p)
  BY AtWork DEF RscvStatusNum, StatusNum, IsShareExpertRank, SharedRankNum, ExpertPerRank, PerRank
<1>3. DataType
  BY <1>1, <1>2 DEF DataType
<1>4. OutTypes
  BY <1>1 DEF OutTypes
<1>5. \A p \in Ranks : round[p] = 0 /\ \A k \in Coming(p) : k = 1
  BY <1>1 DEF Coming, RoundsOf
<1>6. DataInv
  <2>1. \A p \in Ranks : \A i \in StatusesOf(setup, p) : SenderOf(i) \in Ranks
    BY <1>1, SenderRank
  <2>2. \A q \in Ranks : \A a : ~MsgSent(q, 1, a)
    BY <1>5 DEF MsgSent
  <2> QED BY <1>5, <2>1, <2>2 DEF DataInv
<1>7. CntInv
  <2>1. \A p \in Ranks : \A i \in StatusesOf(setup, p) :
          ~Counted(p, i, 1) /\ statusWin[p][Half(1)][i].flag # 1
    <3>1. Half(1) \in Halves
      BY HalfFacts
    <3> QED BY <1>1, <1>2, <1>5, <3>1 DEF Counted
  <2> QED BY <1>5, <2>1 DEF CntInv
<1>8. ASSUME NEW p \in Ranks
      PROVE  RankInv(p)
  <2>1. RankType(p)
    BY <1>1, <1>2 DEF RankType
  <2>2. LoopInv(p)
    BY <1>1 DEF LoopInv
  <2>3. 0 <= Len(setup.expertIds)
    BY <1>1, DispatchAssumption
  <2> QED BY <1>5, <2>1, <2>2, <2>3 DEF RankInv
<1> QED BY <1>3, <1>4, <1>6, <1>7, <1>8 DEF DInv

(* Every step preserves the invariant.                                     *)
LEMMA StepTokens ==
  IInv /\ DInv /\ [Next]_vars => DInv'
<1> SUFFICES ASSUME IInv, DInv, [Next]_vars
             PROVE  DInv'
  OBVIOUS
<1>1. CASE UNCHANGED vars
  <2>1. UNCHANGED <<setup, round, pc, idx, dataWin, statusWin, counts, recvCnt, expandX, sendCounts,
                    expertTokenNums>>
    BY <1>1 DEF vars, dispatchVars
  <2>2. \A q \in Ranks, c \in Aivs : Steady(q, c)
    BY <2>1 DEF Steady
  <2>3. DataType' /\ DataInv'
    BY <2>1, <2>2, DataKept
  <2>4. \A q \in Ranks : \A i, k : Counted(q, i, k)' => Counted(q, i, k)
    BY <2>1, SetupKept DEF Counted
  <2>5. CntInv'
    BY <2>1, <2>4, CntKept
  <2>6. \A q \in Ranks : Knows(q) /\ pc'[q] = pc[q] /\ idx'[q] = idx[q]
    BY <2>1 DEF Knows
  <2>7. \A q \in Ranks : RankInv(q)'
    BY <2>1, <2>6, RankKept DEF DInv
  <2>8. OutTypes'
    BY <2>1 DEF DInv, OutTypes
  <2> QED BY <2>3, <2>5, <2>7, <2>8 DEF DInv
<1>2. CASE Next
  <2>1. PICK p \in Ranks : RankStep(p)
    BY <1>2 DEF Next
  <2>2. CASE NextRound(p)
    BY <2>2, NextRoundKeeps
  <2>3. CASE DispatchStep(p)
    BY <2>3, SyncSentKeeps, SyncClearedKeeps, SendTokenKeeps, SetStatusKeeps, WaitStatusKeeps,
       ClearStatusKeeps, LocalWindowCopyKeeps DEF DispatchStep, DispatchCoreStep
  <2>4. CASE StartCombine(p)
    BY <2>4, StartCombineKeeps
  <2>5. CASE \E c \in Aivs : CombineCoreStep(p, c)
    BY <2>5, CombineKeeps
  <2> QED BY <2>1, <2>2, <2>3, <2>4, <2>5 DEF RankStep
<1> QED BY <1>1, <1>2

(* What a dispatch that has ended has in its outputs.                      *)
LEMMA DispatchEnded ==
  ASSUME IInv, DInv, NEW p \in Ranks, Dispatched(p), NEW k, k = round[p]
  PROVE  /\ setup \in Setups /\ k \in RoundsOf(setup)
         /\ \A i \in StatusesOf(setup, p) :
              /\ sendCounts[p][i] = RowsUpTo(setup, k, p, i + 1)
              /\ RowsBefore(p, i) = RowsUpTo(setup, k, p, i)
              /\ \A a \in ToStatus(setup, k, p, i) :
                   expandX[p][RowsUpTo(setup, k, p, i) + Slot(ToStatus(setup, k, p, i), a)] = a
         /\ \A e \in DOMAIN expertTokenNums[p] :
              expertTokenNums[p][e] = RowsUpTo(setup, k, p, (e + 1) * EpWorldSize)
<1>1. k > 0
  <2>1. k \in Nat /\ 0 \in Aivs
    BY RoundFacts, CoreZero
  <2>2. k = 0 => \A c \in Aivs : pc[p][c] = "idle"
    BY DEF IInv, PhaseInv
  <2>3. AllAt(p, "dispatched") => k # 0
    BY <2>1, <2>2 DEF AllAt
  <2> QED BY <2>1, <2>3 DEF Dispatched, Combining
<1>2. setup \in Setups /\ k \in RoundsOf(setup)
  BY <1>1, AtRound
<1>3. \A c \in Aivs : pc[p][c] \in Ended
  BY DEF Dispatched, Combining, AllAt, Ended, After
<1>4. \A c \in Aivs : Copied(p, c)
  BY <1>1, <1>3 DEF DInv, RankInv
<1>5. \A i \in StatusesOf(setup, p) : \E c \in Aivs : i \in StatusShare(p, c)
  BY AtWork, ShareFacts
<1>6. \A i \in StatusesOf(setup, p) :
         /\ sendCounts[p][i] = RowsUpTo(setup, k, p, i + 1)
         /\ \A a \in ToStatus(setup, k, p, i) :
              expandX[p][RowsUpTo(setup, k, p, i) + Slot(ToStatus(setup, k, p, i), a)] = a
  BY <1>4, <1>5 DEF Copied
<1>7. \A i \in StatusesOf(setup, p) : RowsBefore(p, i) = RowsUpTo(setup, k, p, i)
  <2> TAKE i \in StatusesOf(setup, p)
  <2>1. StatusNum(setup, p) \in Nat \ {0} /\ StatusesOf(setup, p) = 0 .. StatusNum(setup, p) - 1
        /\ RowsUpTo(setup, k, p, 0) = 0
    BY <1>2, CntFacts
  <2>2. CASE i = 0
    BY <2>1, <2>2 DEF RowsBefore
  <2>3. CASE i # 0
    <3>1. PICK j : j = i - 1
      OBVIOUS
    <3>2. j \in StatusesOf(setup, p) /\ j + 1 = i
      BY <2>1, <2>3, <3>1
    <3>3. sendCounts[p][j] = RowsUpTo(setup, k, p, i)
      BY <1>6, <3>2
    <3> QED BY <2>3, <3>1, <3>3 DEF RowsBefore
  <2> QED BY <2>2, <2>3
<1>8. 0 \in Aivs
  BY CoreZero
<1>9. \A e \in DOMAIN expertTokenNums[p] :
        expertTokenNums[p][e] = RowsUpTo(setup, k, p, (e + 1) * EpWorldSize)
  BY <1>4, <1>8 DEF Copied
<1> QED BY <1>2, <1>6, <1>7, <1>9

(* An interval that starts at u and is n long has n members. *)
LEMMA IntervalCount ==
  ASSUME NEW u \in Nat, NEW n \in Nat
  PROVE  Cardinality(u .. u + n - 1) = n
<1>1. PICK v \in Int : v = u + n - 1
  OBVIOUS
<1>2. Cardinality(u .. v) = IF u > v THEN 0 ELSE v - u + 1
  <2>1. u \in Int
    OBVIOUS
  <2> QED BY <2>1, FS_Interval
<1>3. (IF u > v THEN 0 ELSE v - u + 1) = n
  BY <1>1
<1> QED BY <1>1, <1>2, <1>3

(* DispatchExact, for every number of ranks, cores, tokens, experts and    *)
(* rounds and every routing: a dispatch that has ended has exactly the     *)
(* tokens of its round in expandX, in the order of the statuses, with      *)
(* their running sums.                                                     *)
THEOREM DispatchCorrect == Spec => []DispatchExact
<1>1. IInv /\ DInv => DispatchExact
  <2> SUFFICES ASSUME IInv, DInv, NEW p \in Ranks, Dispatched(p)
               PROVE  /\ \A i \in Statuses(p) :
                           /\ {expandX[p][n] : n \in RowsBefore(p, i) .. sendCounts[p][i] - 1}
                                = Routed(p, i)
                           /\ Cardinality(RowsBefore(p, i) .. sendCounts[p][i] - 1)
                                = Cardinality(Routed(p, i))
                      /\ \A e \in DOMAIN expertTokenNums[p] :
                           expertTokenNums[p][e] = sendCounts[p][(e + 1) * EpWorldSize - 1]
    BY DEF DispatchExact
  <2>1. PICK k : k = round[p]
    OBVIOUS
  <2>2. /\ setup \in Setups /\ k \in RoundsOf(setup)
        /\ \A i \in StatusesOf(setup, p) :
             /\ sendCounts[p][i] = RowsUpTo(setup, k, p, i + 1)
             /\ RowsBefore(p, i) = RowsUpTo(setup, k, p, i)
             /\ \A a \in ToStatus(setup, k, p, i) :
                  expandX[p][RowsUpTo(setup, k, p, i) + Slot(ToStatus(setup, k, p, i), a)] = a
        /\ \A e \in DOMAIN expertTokenNums[p] :
             expertTokenNums[p][e] = RowsUpTo(setup, k, p, (e + 1) * EpWorldSize)
    BY <2>1, DispatchEnded
  <2>3. ASSUME NEW i \in Statuses(p)
        PROVE  /\ {expandX[p][n] : n \in RowsBefore(p, i) .. sendCounts[p][i] - 1} = Routed(p, i)
               /\ Cardinality(RowsBefore(p, i) .. sendCounts[p][i] - 1) = Cardinality(Routed(p, i))
    <3>1. i \in StatusesOf(setup, p) /\ Routed(p, i) = ToStatus(setup, k, p, i)
      BY <2>1, AtWork
    <3>2. PICK S, u, n : /\ S = ToStatus(setup, k, p, i) /\ u = RowsUpTo(setup, k, p, i)
                         /\ n = Cardinality(S)
      OBVIOUS
    <3>3. /\ u \in Nat /\ n \in Nat /\ RowsUpTo(setup, k, p, i + 1) = u + n
      <4>1. AxisBS \in Nat /\ n \in 0 .. AxisBS
        BY <2>2, <3>1, <3>2, SlotFacts, LayoutFacts
      <4>2. n \in Nat
        BY <4>1
      <4>3. n = CntTable(setup, k, p)[i]
        BY <2>2, <3>1, <3>2, CntFacts
      <4> QED BY <2>2, <3>1, <3>2, <4>2, <4>3, CntFacts
    <3>4. RowsBefore(p, i) = u /\ sendCounts[p][i] = u + n
      BY <2>2, <3>1, <3>2, <3>3
    <3>5. PICK x : x = expandX[p]
      OBVIOUS
    <3>6. /\ \A a \in S : Slot(S, a) \in 0 .. n - 1 /\ x[u + Slot(S, a)] = a
          /\ \A y \in 0 .. n - 1 : \E a \in S : Slot(S, a) = y
      BY <2>2, <3>1, <3>2, <3>5, SlotFacts
    <3>7. {x[m] : m \in u .. u + n - 1} = S
      <4>1. ASSUME NEW m \in u .. u + n - 1
            PROVE  x[m] \in S
        <5>1. PICK y : y = m - u
          OBVIOUS
        <5>2. y \in 0 .. n - 1 /\ m = u + y
          BY <3>3, <5>1
        <5>3. PICK a \in S : Slot(S, a) = y
          BY <3>6, <5>2
        <5> QED BY <3>6, <5>2, <5>3
      <4>2. ASSUME NEW a \in S
            PROVE  \E m \in u .. u + n - 1 : a = x[m]
        <5>1. PICK y : y = Slot(S, a)
          OBVIOUS
        <5>2. y \in 0 .. n - 1 /\ x[u + y] = a
          BY <3>6, <5>1
        <5>3. u + y \in u .. u + n - 1
          BY <3>3, <5>2
        <5> QED BY <5>2, <5>3
      <4> QED BY <4>1, <4>2
    <3>8. Cardinality(u .. u + n - 1) = n
      BY <3>3, IntervalCount
    <3>9. RowsBefore(p, i) .. sendCounts[p][i] - 1 = u .. u + n - 1
      <4>1. PICK w : w = sendCounts[p][i]
        OBVIOUS
      <4>2. w = u + n
        BY <3>4, <4>1, Zenon
      <4>3. w - 1 = u + n - 1
        BY <3>3, <4>2
      <4> QED BY <3>4, <4>1, <4>3, Zenon
    <3>10. {expandX[p][m] : m \in RowsBefore(p, i) .. sendCounts[p][i] - 1} = S
      BY <3>5, <3>7, <3>9, Zenon
    <3>11. Cardinality(RowsBefore(p, i) .. sendCounts[p][i] - 1) = n
      BY <3>8, <3>9, Zenon
    <3>12. Routed(p, i) = S /\ Cardinality(Routed(p, i)) = n
      BY <3>1, <3>2, Zenon
    <3> QED BY <3>10, <3>11, <3>12
  <2>4. ASSUME NEW e \in DOMAIN expertTokenNums[p]
        PROVE  expertTokenNums[p][e] = sendCounts[p][(e + 1) * EpWorldSize - 1]
    <3>1. e \in 0 .. StatusNum(setup, p) \div EpWorldSize - 1
      BY DEF DInv, RankInv, RankType
    <3>2. PICK m, j : m = (e + 1) * EpWorldSize /\ j = m - 1
      OBVIOUS
    <3>3. m \in 1 .. StatusNum(setup, p)
      BY <2>2, <3>1, <3>2, ExpertEnds
    <3>4. j \in StatusesOf(setup, p) /\ j + 1 = m
      <4>1. StatusNum(setup, p) \in Nat /\ StatusesOf(setup, p) = 0 .. StatusNum(setup, p) - 1
        BY <2>2, CntFacts
      <4> QED BY <3>2, <3>3, <4>1
    <3>5. sendCounts[p][j] = RowsUpTo(setup, k, p, m)
      BY <2>2, <3>4
    <3>6. expertTokenNums[p][e] = RowsUpTo(setup, k, p, m)
      BY <2>2, <3>2
    <3> QED BY <3>2, <3>5, <3>6
  <2> QED BY <2>3, <2>4
<1>2. Spec => [](IInv /\ DInv)
  BY InitInv, StepInv, InitTokens, StepTokens, PTL DEF Spec
<1> QED BY <1>1, <1>2, PTL

(***************************************************************************)
(* What a combine sends back.  Every row that came in goes back to the     *)
(* cell of its token and k, once: here, too, for a setup and a round.      *)
(***************************************************************************)

(* The k of the rows of a token of rank q.                                 *)
AddsOf(s, k, q, t) ==
  DOMAIN s.expertIds[k][q][t] \cup (AxisK .. AxisK + s.sharedExpertNum - 1)

(* The cells of rank q that rows come into.                                *)
CellsOf(s, k, q) ==
  {x \in Rows : x[1] \in TakersOf(s, k, q) /\ x[2] \in AddsOf(s, k, q, x[1])}

TokenAt(k, q, x) == <<k, q, x[1], x[2]>>

(* The rows that a rank sends back.                                        *)
BackTotal(s, k, p) == RowsUpTo(s, k, p, StatusNum(s, p))

(* The share of a core.                                                   *)
BackNum(s, k, p, c) == SendNum(c, BackTotal(s, k, p), AivNum)

(* Where the order of its loop starts, and its row at turn m.              *)
BackPhase(s, k, p, c) ==
  LET n == BackNum(s, k, p, c)
  IN ((p * n) \div EpWorldSize + (c * n) \div AivNum) % n

BackRow(s, k, p, c, m) ==
  StartId(c, BackTotal(s, k, p), AivNum) + PermIdx(BackPhase(s, k, p, c), m, BackNum(s, k, p, c))

(* Row n of rank p is token a.                                             *)
RowIs(s, k, p, n, a) ==
  \E i \in StatusesOf(s, p) :
    a \in ToStatus(s, k, p, i) /\ n = RowsUpTo(s, k, p, i) + Slot(ToStatus(s, k, p, i), a)

(* Turn m of the loop of core c is about cell x of rank q.                 *)
Turns(s, k, p, c) == 0 .. BackNum(s, k, p, c) - 1

TurnIs(s, k, p, c, m, q, x) == RowIs(s, k, p, BackRow(s, k, p, c, m), TokenAt(k, q, x))

(* The combine of a rank has started, or the one before it has ended.      *)
Busy(p) == \A c \in Aivs : pc[p][c] \in After

(* The turns of a core whose rows, and whose flags, are out.               *)
RowsOut(p, c) ==
  LET n == BackNum(setup, round[p], p, c)
      end == (idx[p][c] \div SendSlotNum) * SendSlotNum + SendSlotNum
  IN IF pc[p][c] \notin After THEN 0
     ELSE IF pc[p][c] = "rows" THEN idx[p][c]
     ELSE IF pc[p][c] = "flags" /\ end < n THEN end
     ELSE n

FlagsOut(p, c) ==
  IF pc[p][c] \notin After THEN 0
  ELSE IF pc[p][c] = "rows" THEN (idx[p][c] \div SendSlotNum) * SendSlotNum
  ELSE IF pc[p][c] = "flags" THEN idx[p][c]
  ELSE BackNum(setup, round[p], p, c)

(* The row of cell x of rank q of round k is in its window, and flagged.   *)
RowSent(k, q, x) ==
  \A p \in Ranks, c \in Aivs : \A m \in Turns(setup, k, p, c) :
    TurnIs(setup, k, p, c, m, q, x) =>
      round[p] > k \/ (round[p] = k /\ m < RowsOut(p, c))

FlagSent(k, q, x) ==
  \A p \in Ranks, c \in Aivs : \A m \in Turns(setup, k, p, c) :
    TurnIs(setup, k, p, c, m, q, x) =>
      round[p] > k \/ (round[p] = k /\ m < FlagsOut(p, c))

(* The tokens that a rank has counted in its round.                        *)
Taken(q) == IF Busy(q) THEN tokenStatus[q] ELSE {}

(***************************************************************************)
(* The inductive invariant about the rows.                                 *)
(***************************************************************************)

(* The tables are by rank, half and cell.                                  *)
RowTypes ==
  /\ DOMAIN combineState = Ranks /\ DOMAIN rowWin = Ranks /\ DOMAIN rowFlag = Ranks
  /\ DOMAIN tokenStatus = Ranks /\ DOMAIN expandOut = Ranks
  /\ \A q \in Ranks : /\ DOMAIN rowWin[q] = Halves /\ DOMAIN rowFlag[q] = Halves
                      /\ DOMAIN expandOut[q] = Tokens
                      /\ \A h \in Halves : DOMAIN rowWin[q][h] = Rows

(* The marker of combine is one launch behind until combine starts.        *)
MarkerInv(p) ==
  combineState[p] = IF Busy(p) THEN round[p] % 2 ELSE Half(round[p])

(* A loop is inside its share.                                             *)
TurnInv(p) ==
  \A c \in Aivs : pc[p][c] \in {"rows", "flags"} => idx[p][c] \in Turns(setup, round[p], p, c)

(* Rows are in place until the round is over.                              *)
WinInv(q) ==
  \A x \in CellsOf(setup, round[q], q) : RowSent(round[q], q, x) =>
    rowWin[q][Half(round[q])][x] = TokenAt(round[q], q, x)

(* The flags that are up are those of the rows that are flagged and not    *)
(* counted.                                                                *)
FlagsUp(q) ==
  {x \in CellsOf(setup, round[q], q) : FlagSent(round[q], q, x) /\ x[1] \notin Taken(q)}

(* All others are down.                                                    *)
UpInv(q) ==
  \A h \in Halves :
    rowFlag[q][h] = IF round[q] > 0 /\ h = Half(round[q]) THEN FlagsUp(q) ELSE {}

(* A token that is counted has all its rows.                               *)
TakenInv(q) ==
  /\ Taken(q) \subseteq TakersOf(setup, round[q], q)
  /\ \A x \in CellsOf(setup, round[q], q) : x[1] \in Taken(q) => FlagSent(round[q], q, x)

(* So have all tokens of a round that is over.                             *)
GoneInv(q) ==
  \A k \in RoundsOf(setup) : k < round[q] =>
    \A x \in CellsOf(setup, k, q) : FlagSent(k, q, x)

(* What has been added up, and how far the cores have come.                *)
OutInv(q) ==
  /\ \A t \in Tokens : expandOut[q][t] # NoSum =>
       /\ t \in tokenStatus[q]
       /\ expandOut[q][t] = [j \in AddsOf(setup, round[q], q, t) |-> <<round[q], q, t, j>>]
  /\ \A c \in Aivs :
       LET mine == TokenShare(q, c) \cap tokenStatus[q]
           open == {t \in mine : expandOut[q][t] = NoSum}
       IN /\ pc[q][c] \in {"rows", "flags"} => mine = {}
          /\ pc[q][c] \in {"gather", "idle"} => open = {}
          /\ pc[q][c] = "add" => \A t, u \in open : t = u
          /\ pc[q][c] = "idle" => TokenShare(q, c) \subseteq tokenStatus[q]

CInv ==
  /\ RowTypes
  /\ \A q \in Ranks :
       /\ MarkerInv(q) /\ TurnInv(q) /\ UpInv(q) /\ GoneInv(q)
       /\ round[q] > 0 => WinInv(q) /\ TakenInv(q) /\ (Busy(q) => OutInv(q))

(* A token belongs to one status of one rank.                              *)
LEMMA StatusOfToken ==
  ASSUME NEW s \in Setups, NEW k \in RoundsOf(s), NEW p \in Ranks, NEW r \in Ranks,
         NEW i \in StatusesOf(s, p), NEW j \in StatusesOf(s, r),
         NEW a \in ToStatus(s, k, p, i), a \in ToStatus(s, k, r, j)
  PROVE  p = r /\ i = j
<1> DEFINE w == s.sharedExpertRankNum
<1>1. (a[4] < AxisK) = ~(p < w) /\ (a[4] < AxisK) = ~(r < w)
  BY IndexFacts
<1>2. SenderOf(i) = SenderOf(j)
  <2>1. a[2] = SenderOf(i)
    <3>1. CASE p < w
      BY <3>1, SharedShape
    <3>2. CASE ~(p < w)
      BY <3>2, MoeShape
    <3> QED BY <3>1, <3>2
  <2>2. a[2] = SenderOf(j)
    <3>1. CASE r < w
      BY <3>1, SharedShape
    <3>2. CASE ~(r < w)
      BY <3>2, MoeShape
    <3> QED BY <3>1, <3>2
  <2> QED BY <2>1, <2>2
<1>3. CASE p < w
  <2>1. r < w
    BY <1>1, <1>3
  <2>2. i = j
    BY <1>2, <1>3, <2>1, BlockFacts
  <2>3. PICK g : g = GroupSize(s)
    OBVIOUS
  <2>4. g \in Nat \ {0} /\ p \in Nat /\ r \in Nat /\ AxisK \in Nat
    BY <1>3, <2>3, LayoutFacts DEF Ranks
  <2>5. PICK x, y, u, v : /\ x = p \div g /\ u = p % g /\ y = r \div g /\ v = r % g
    OBVIOUS
  <2>6. /\ x \in Nat /\ y \in Nat /\ u \in 0 .. g - 1 /\ v \in 0 .. g - 1
        /\ p = g * x + u /\ r = g * y + v
    BY <2>4, <2>5, DivMod
  <2>7. AxisK + x = AxisK + y
    BY <1>3, <2>1, <2>3, <2>5, SharedShape DEF SharedK
  <2>8. x = y
    BY <2>4, <2>6, <2>7
  <2>9. u = v
    BY <1>2, <1>3, <2>1, <2>3, <2>5, SharedShape
  <2> QED BY <2>2, <2>6, <2>8, <2>9
<1>4. CASE ~(p < w)
  <2>1. ~(r < w)
    BY <1>1, <1>4
  <2>2. PICK x, e : x = s.expertIds[k][SenderOf(i)][a[3]][a[4]] /\ e = PerRank(s)
    OBVIOUS
  <2>3. x \div e = p - w /\ x % e = i \div EpWorldSize
    BY <1>4, <2>2, EntryOfToken
  <2>4. x \div e = r - w /\ x % e = j \div EpWorldSize
    <3>1. PICK b \in ToStatus(s, k, r, j) : b = a
      OBVIOUS
    <3>2. PICK y : y = s.expertIds[k][SenderOf(j)][b[3]][b[4]]
      OBVIOUS
    <3>3. y \div PerRank(s) = r - w /\ y % PerRank(s) = j \div EpWorldSize
      BY <2>1, <3>2, EntryOfToken
    <3>4. y = x
      BY <1>2, <2>2, <3>1, <3>2
    <3> QED BY <2>2, <3>3, <3>4
  <2>5. p \in Int /\ r \in Int /\ w \in Int
    BY LayoutFacts DEF Ranks
  <2>6. p = r
    BY <2>3, <2>4, <2>5
  <2>7. i \in Nat /\ j \in Nat /\ EpWorldSize \in Nat \ {0}
    BY BlockFacts, LayoutFacts
  <2>8. /\ i = EpWorldSize * (i \div EpWorldSize) + SenderOf(i)
        /\ j = EpWorldSize * (j \div EpWorldSize) + SenderOf(j)
    BY <2>7, DivMod DEF SenderOf
  <2>9. i = j
    BY <1>2, <2>3, <2>4, <2>8
  <2> QED BY <2>6, <2>9
<1> QED BY <1>3, <1>4

(* Its cell is one of its sender's.                                        *)
LEMMA CellOfToken ==
  ASSUME NEW s \in Setups, NEW k \in RoundsOf(s), NEW p \in Ranks,
         NEW i \in StatusesOf(s, p), NEW a \in ToStatus(s, k, p, i)
  PROVE  /\ SenderOf(i) \in Ranks
         /\ a = TokenAt(k, SenderOf(i), <<a[3], a[4]>>)
         /\ <<a[3], a[4]>> \in CellsOf(s, k, SenderOf(i))
<1> DEFINE w == s.sharedExpertRankNum
           q == SenderOf(i)
<1>1. q \in Ranks
  BY SenderRank
<1>2. a = <<k, q, a[3], a[4]>> /\ a[3] \in Tokens
  <2>1. CASE p < w
    BY <2>1, SharedShape
  <2>2. CASE ~(p < w)
    BY <2>2, MoeShape
  <2> QED BY <2>1, <2>2
<1>3. TakersOf(s, k, q) = {t \in Tokens : DOMAIN s.expertIds[k][q][t] # {}}
  BY <1>1, TakerFacts
<1>4. AxisK \in Nat /\ EpWorldSize \in Nat /\ s.sharedExpertNum \in 0 .. EpWorldSize - 1
  <2>1. s.sharedExpertNum \in 0 .. w /\ w \in 0 .. EpWorldSize - 1 /\ EpWorldSize \in Nat \ {0}
    BY DispatchAssumption
  <2> QED BY <2>1, LayoutFacts
<1>5. a[3] \in TakersOf(s, k, q) /\ a[4] \in AddsOf(s, k, q, a[3])
      /\ a[4] \in 0 .. AxisK + EpWorldSize - 1
  <2>1. CASE p < w
    <3>1. PICK g, m, d : g = GroupSize(s) /\ m = s.sharedExpertNum /\ d = p \div g
      OBVIOUS
    <3>2. p \in Nat /\ g \in Nat \ {0} /\ m \in Nat /\ p < g * m
      <4>1. p \in Nat /\ w \in Nat /\ w > 0
        BY <2>1, LayoutFacts DEF Ranks
      <4>2. g \in Nat \ {0} /\ m \in Nat /\ w = g * m
        BY <3>1, <4>1, LayoutFacts
      <4> QED BY <2>1, <4>1, <4>2
    <3>3. d \in 0 .. m - 1
      BY <3>1, <3>2, DivBelow
    <3>4. a[4] = AxisK + d
      BY <2>1, <3>1, SharedShape DEF SharedK
    <3>5. a[4] \in AxisK .. AxisK + m - 1 /\ a[4] \in 0 .. AxisK + EpWorldSize - 1
      BY <1>4, <3>1, <3>2, <3>3, <3>4
    <3>6. a[3] \in TakersOf(s, k, q)
      BY <1>2, <1>3, <2>1, SharedShape
    <3> QED BY <3>1, <3>5, <3>6 DEF AddsOf
  <2>2. CASE ~(p < w)
    <3>1. a[4] \in 0 .. AxisK - 1 /\ a[4] \in DOMAIN s.expertIds[k][q][a[3]]
      BY <2>2, MoeShape
    <3>2. a[4] \in 0 .. AxisK + EpWorldSize - 1
      BY <1>4, <3>1
    <3> QED BY <1>2, <1>3, <3>1, <3>2 DEF AddsOf
  <2> QED BY <2>1, <2>2
<1> QED BY <1>1, <1>2, <1>5 DEF TokenAt, CellsOf, Rows

(* And every cell of a rank has a token.                                   *)
LEMMA TokenOfCell ==
  ASSUME IInv, NEW q \in Ranks, NEW k \in RoundsOf(setup), NEW x \in CellsOf(setup, k, q)
  PROVE  \E p \in Ranks : \E i \in StatusesOf(setup, p) :
           TokenAt(k, q, x) \in ToStatus(setup, k, p, i)
<1>0. setup \in Setups
  BY DEF IInv, TypeInv
<1>1. /\ x = <<x[1], x[2]>> /\ x[1] \in Tokens /\ x[1] \in TakersOf(setup, k, q)
      /\ x[2] \in AddsOf(setup, k, q, x[1])
  BY DEF CellsOf, Rows
<1>2. AxisK \in Nat /\ setup.sharedExpertNum \in Nat
  BY <1>0, LayoutFacts
<1>3. CASE x[2] \in DOMAIN setup.expertIds[k][q][x[1]]
  <2>1. x[2] \in 0 .. AxisK - 1
    BY <1>0, <1>1, <1>3, RowFacts
  <2>2. x \in EntriesOf(setup, k, q)
    BY <1>1, <1>3, <2>1 DEF EntriesOf
  <2>3. PICK p \in Ranks : \E i \in StatusesOf(setup, p) : \E a \in ToStatus(setup, k, p, i) :
           /\ SenderOf(i) = q /\ a[4] < AxisK
           /\ IndexOf(setup, k, q, a) = EntryNumber(setup, k, q, x)
    BY <2>2, EntryWritten
  <2>4. PICK i \in StatusesOf(setup, p) : \E a \in ToStatus(setup, k, p, i) :
           /\ SenderOf(i) = q /\ a[4] < AxisK
           /\ IndexOf(setup, k, q, a) = EntryNumber(setup, k, q, x)
    BY <2>3
  <2>5. PICK a \in ToStatus(setup, k, p, i) :
           /\ SenderOf(i) = q /\ a[4] < AxisK
           /\ IndexOf(setup, k, q, a) = EntryNumber(setup, k, q, x)
    BY <2>4
  <2>6. ~(p < setup.sharedExpertRankNum)
    BY <1>0, <2>5, IndexFacts
  <2>7. EntryNumber(setup, k, q, <<a[3], a[4]>>) = EntryNumber(setup, k, q, x)
    BY <1>0, <2>5, <2>6, IndexFacts
  <2>8. <<a[3], a[4]>> \in EntriesOf(setup, k, q)
    BY <1>0, <2>5, <2>6, EntryOfToken
  <2>9. <<a[3], a[4]>> = x
    BY <1>0, <2>2, <2>7, <2>8, EntryFacts
  <2>10. a = TokenAt(k, q, x)
    BY <1>0, <2>5, <2>9, CellOfToken
  <2> QED BY <2>5, <2>10
<1>4. CASE x[2] \in AxisK .. AxisK + setup.sharedExpertNum - 1
  <2>1. PICK v, m, d, r : /\ v = Cardinality(TakersOf(setup, k, q)) /\ m = setup.sharedExpertNum
                          /\ d = x[2] - AxisK /\ r = TakerNumber(setup, k, q, x[1])
    OBVIOUS
  <2>2. v \in Nat /\ m \in Nat /\ d \in 0 .. m - 1 /\ r \in 0 .. v - 1 /\ x[2] = AxisK + d
    <3>1. v \in Nat /\ r \in 0 .. v - 1
      BY <1>0, <1>1, <2>1, TakerFacts
    <3> QED BY <1>2, <1>4, <2>1, <3>1
  <2>3. d * v + r \in 0 .. v * m - 1
    <3>1. (d + 1) * v <= m * v
      <4>1. d + 1 \in Int /\ m \in Int /\ d + 1 <= m
        BY <2>2
      <4> QED BY <2>2, <4>1, TimesMonotone
    <3>2. (d + 1) * v = d * v + v /\ m * v = v * m /\ d * v \in Nat /\ v * m \in Nat
      BY <2>2
    <3>3. PICK y, z : y = d * v /\ z = v * m
      OBVIOUS
    <3>4. y \in Nat /\ y + v <= z /\ z \in Int
      BY <3>1, <3>2, <3>3
    <3>5. y + r \in 0 .. z - 1
      BY <2>2, <3>4
    <3> QED BY <3>3, <3>5
  <2>4. PICK n \in 0 .. SharedNum(setup, k, q) - 1 : n = d * v + r
    BY <2>1, <2>3 DEF SharedNum
  <2>5. PICK p \in Ranks : \E i \in StatusesOf(setup, p) : \E a \in ToStatus(setup, k, p, i) :
           SenderOf(i) = q /\ ~(a[4] < AxisK) /\ IndexOf(setup, k, q, a) = n
    BY SharedWritten
  <2>6. PICK i \in StatusesOf(setup, p) : \E a \in ToStatus(setup, k, p, i) :
           SenderOf(i) = q /\ ~(a[4] < AxisK) /\ IndexOf(setup, k, q, a) = n
    BY <2>5
  <2>7. PICK a \in ToStatus(setup, k, p, i) :
           SenderOf(i) = q /\ ~(a[4] < AxisK) /\ IndexOf(setup, k, q, a) = n
    BY <2>6
  <2>8. p < setup.sharedExpertRankNum
    BY <1>0, <2>7, IndexFacts
  <2>9. PICK c, b : c = a[4] - AxisK /\ b = TakerNumber(setup, k, q, a[3])
    OBVIOUS
  <2>10. n = c * v + b
    BY <1>0, <2>1, <2>7, <2>8, <2>9, IndexFacts, Zenon
  <2>11. <<a[3], a[4]>> \in CellsOf(setup, k, q) /\ a = TokenAt(k, q, <<a[3], a[4]>>)
    BY <1>0, <2>7, CellOfToken
  <2>12. a[3] \in TakersOf(setup, k, q) /\ a[4] \in Int
    BY <1>2, <2>11, LayoutFacts, <1>0 DEF CellsOf, Rows
  <2>13. b \in 0 .. v - 1 /\ c \in Int /\ a[4] = AxisK + c
    BY <1>0, <1>2, <2>1, <2>9, <2>12, TakerFacts
  <2>14. c = d /\ b = r
    <3>1. v \in Nat \ {0}
      BY <2>2
    <3>2. v * c + b = v * d + r
      <4>1. c * v = v * c /\ d * v = v * d
        BY <2>2, <2>13
      <4> QED BY <2>4, <2>10, <4>1
    <3>3. d \in Int
      BY <2>2
    <3> QED BY <2>2, <2>13, <3>1, <3>2, <3>3, DivUnique
  <2>15. a[3] = x[1] /\ a[4] = x[2]
    <3>1. TakerNumber(setup, k, q, a[3]) = TakerNumber(setup, k, q, x[1])
      BY <2>1, <2>9, <2>14
    <3>2. a[3] = x[1]
      BY <1>0, <1>1, <2>12, <3>1, TakerFacts
    <3>3. a[4] = x[2]
      BY <2>2, <2>13, <2>14
    <3> QED BY <3>2, <3>3
  <2>16. TokenAt(k, q, x) = a
    BY <2>11, <2>15 DEF TokenAt
  <2> QED BY <2>7, <2>16
<1> QED BY <1>1, <1>3, <1>4 DEF AddsOf

(* The rows of a rank: every place has one token, and every token one.     *)
LEMMA RowPlaces ==
  ASSUME NEW s \in Setups, NEW k \in RoundsOf(s), NEW p \in Ranks
  PROVE  /\ BackTotal(s, k, p) \in Nat
         /\ \A i \in StatusesOf(s, p) : \A a \in ToStatus(s, k, p, i) :
              RowsUpTo(s, k, p, i) + Slot(ToStatus(s, k, p, i), a) \in 0 .. BackTotal(s, k, p) - 1
         /\ \A n \in 0 .. BackTotal(s, k, p) - 1 : \E a : RowIs(s, k, p, n, a)
         /\ \A n, a, b : RowIs(s, k, p, n, a) /\ RowIs(s, k, p, n, b) => a = b
         /\ \A n, m, a : RowIs(s, k, p, n, a) /\ RowIs(s, k, p, m, a) => n = m
<1>1. PICK l, f, B : l = StatusNum(s, p) /\ f = CntTable(s, k, p) /\ B = BackTotal(s, k, p)
  OBVIOUS
<1>2. /\ l \in Nat \ {0} /\ StatusesOf(s, p) = 0 .. l - 1
      /\ \A i \in 0 .. l - 1 : /\ f[i] \in Nat
                               /\ f[i] = Cardinality(ToStatus(s, k, p, i))
                               /\ RowsUpTo(s, k, p, i) \in Nat
                               /\ RowsUpTo(s, k, p, i + 1) = RowsUpTo(s, k, p, i) + f[i]
  <2>1. /\ l \in Nat \ {0} /\ StatusesOf(s, p) = 0 .. l - 1
    BY <1>1, CntFacts
  <2>2. AxisBS \in Nat
    BY LayoutFacts
  <2>3. ASSUME NEW i \in 0 .. l - 1
        PROVE  /\ f[i] \in Nat
               /\ f[i] = Cardinality(ToStatus(s, k, p, i))
               /\ RowsUpTo(s, k, p, i) \in Nat
               /\ RowsUpTo(s, k, p, i + 1) = RowsUpTo(s, k, p, i) + f[i]
    <3>1. i \in StatusesOf(s, p)
      BY <2>1
    <3>2. f[i] \in 0 .. AxisBS
      BY <1>1, <3>1, CntFacts
    <3> QED BY <1>1, <2>2, <3>1, <3>2, CntFacts
  <2> QED BY <2>1, <2>3
<1>3. B = SumOf(0 .. l - 1, f) /\ \A i : RowsUpTo(s, k, p, i) = SumOf(0 .. i - 1, f)
  BY <1>1 DEF BackTotal, RowsUpTo
<1>4. PICK m \in Nat : m = l
  BY <1>2
<1>5. \A i \in 0 .. m - 1 : f[i] \in Nat
  BY <1>2, <1>4
<1>6. B \in Nat /\ \A i \in 0 .. m - 1 : RowsUpTo(s, k, p, i) + f[i] <= B
  <2>1. \A i \in 0 .. m : SumOf(0 .. i - 1, f) \in Nat
    BY <1>5, SumUpTo
  <2>2. \A i \in 0 .. m : \A j \in 0 .. i : SumOf(0 .. j - 1, f) <= SumOf(0 .. i - 1, f)
    BY <1>5, SumUpTo
  <2>3. m \in 0 .. m /\ \A i \in 0 .. m - 1 : i + 1 \in 0 .. m
    OBVIOUS
  <2>4. B \in Nat
    BY <1>3, <1>4, <2>1, <2>3
  <2>5. ASSUME NEW i \in 0 .. m - 1
        PROVE  RowsUpTo(s, k, p, i) + f[i] <= B
    <3>1. RowsUpTo(s, k, p, i + 1) = SumOf(0 .. (i + 1) - 1, f)
      BY <1>3
    <3>2. SumOf(0 .. (i + 1) - 1, f) <= SumOf(0 .. m - 1, f)
      BY <2>2, <2>3
    <3>3. RowsUpTo(s, k, p, i + 1) = RowsUpTo(s, k, p, i) + f[i]
      BY <1>2, <1>4
    <3> QED BY <1>3, <1>4, <3>1, <3>2, <3>3
  <2> QED BY <2>4, <2>5
<1>7. ASSUME NEW i \in StatusesOf(s, p), NEW a \in ToStatus(s, k, p, i)
      PROVE  Slot(ToStatus(s, k, p, i), a) \in 0 .. f[i] - 1
             /\ RowsUpTo(s, k, p, i) + Slot(ToStatus(s, k, p, i), a) \in 0 .. B - 1
  <2>1. Slot(ToStatus(s, k, p, i), a) \in 0 .. f[i] - 1
    BY <1>2, SlotFacts
  <2>2. PICK z, u : z = Slot(ToStatus(s, k, p, i), a) /\ u = RowsUpTo(s, k, p, i)
    OBVIOUS
  <2>3. z \in 0 .. f[i] - 1 /\ u \in Nat /\ f[i] \in Nat /\ u + f[i] <= B
    BY <1>2, <1>4, <1>6, <2>1, <2>2
  <2>4. u + z \in 0 .. B - 1
    BY <1>6, <2>3
  <2> QED BY <2>1, <2>2, <2>4
<1>8. ASSUME NEW n \in 0 .. B - 1
      PROVE  \E a : RowIs(s, k, p, n, a)
  <2>1. PICK j \in 0 .. SumOf(0 .. m - 1, f) - 1 : j = n
    BY <1>3, <1>4
  <2>2. PICK i \in 0 .. m - 1 : SumOf(0 .. i - 1, f) <= j /\ j < SumOf(0 .. i - 1, f) + f[i]
    BY <1>5, SumPlace
  <2>3. PICK z, u : u = RowsUpTo(s, k, p, i) /\ z = n - u
    OBVIOUS
  <2>4. u <= n /\ n < u + f[i] /\ u \in Nat /\ f[i] \in Nat
    BY <1>2, <1>3, <1>4, <2>1, <2>2, <2>3
  <2>5. z \in 0 .. f[i] - 1 /\ n = u + z
    BY <1>6, <2>3, <2>4, SMTT(30)
  <2>6. i \in StatusesOf(s, p) /\ f[i] = Cardinality(ToStatus(s, k, p, i))
    BY <1>2, <1>4
  <2>7. PICK a \in ToStatus(s, k, p, i) : Slot(ToStatus(s, k, p, i), a) = z
    BY <2>5, <2>6, SlotFacts
  <2> QED BY <2>3, <2>5, <2>6, <2>7 DEF RowIs
<1>9. ASSUME NEW n, NEW a, NEW b, RowIs(s, k, p, n, a), RowIs(s, k, p, n, b)
      PROVE  a = b
  <2>1. PICK i \in StatusesOf(s, p) :
          a \in ToStatus(s, k, p, i) /\ n = RowsUpTo(s, k, p, i) + Slot(ToStatus(s, k, p, i), a)
    BY <1>9 DEF RowIs
  <2>2. PICK j \in StatusesOf(s, p) :
          b \in ToStatus(s, k, p, j) /\ n = RowsUpTo(s, k, p, j) + Slot(ToStatus(s, k, p, j), b)
    BY <1>9 DEF RowIs
  <2>3. PICK x, y : x = Slot(ToStatus(s, k, p, i), a) /\ y = Slot(ToStatus(s, k, p, j), b)
    OBVIOUS
  <2>4. x \in 0 .. CntTable(s, k, p)[i] - 1 /\ y \in 0 .. CntTable(s, k, p)[j] - 1
    BY <1>1, <1>7, <2>1, <2>2, <2>3
  <2>5. RowsUpTo(s, k, p, i) + x = RowsUpTo(s, k, p, j) + y
    BY <2>1, <2>2, <2>3
  <2>6. i = j
    BY <2>4, <2>5, RowsApart
  <2>7. PICK u : u = RowsUpTo(s, k, p, i)
    OBVIOUS
  <2>8. u \in Nat /\ f[i] \in Nat
    BY <1>2, <2>7
  <2>9. x = y
    BY <1>1, <2>4, <2>5, <2>6, <2>7, <2>8
  <2> QED BY <2>1, <2>2, <2>3, <2>6, <2>9, SlotFacts
<1>10. ASSUME NEW n, NEW o, NEW a, RowIs(s, k, p, n, a), RowIs(s, k, p, o, a)
       PROVE  n = o
  <2>1. PICK i \in StatusesOf(s, p) :
          a \in ToStatus(s, k, p, i) /\ n = RowsUpTo(s, k, p, i) + Slot(ToStatus(s, k, p, i), a)
    BY <1>10 DEF RowIs
  <2>2. PICK j \in StatusesOf(s, p) :
          a \in ToStatus(s, k, p, j) /\ o = RowsUpTo(s, k, p, j) + Slot(ToStatus(s, k, p, j), a)
    BY <1>10 DEF RowIs
  <2>3. PICK b \in ToStatus(s, k, p, i) : b = a
    BY <2>1
  <2>4. b \in ToStatus(s, k, p, j)
    BY <2>2, <2>3
  <2>5. i = j
    BY <2>4, StatusOfToken
  <2> QED BY <2>1, <2>2, <2>5
<1> QED BY <1>1, <1>6, <1>7, <1>8, <1>9, <1>10

(* The turns of the cores go through the rows, each once.                  *)
LEMMA TurnRows ==
  ASSUME NEW s \in Setups, NEW k \in RoundsOf(s), NEW p \in Ranks
  PROVE  /\ \A c \in Aivs : BackNum(s, k, p, c) \in Nat
         /\ \A c \in Aivs : \A m \in Turns(s, k, p, c) :
              BackRow(s, k, p, c, m) \in 0 .. BackTotal(s, k, p) - 1
         /\ \A n \in 0 .. BackTotal(s, k, p) - 1 : \E c \in Aivs : \E m \in Turns(s, k, p, c) :
              BackRow(s, k, p, c, m) = n
         /\ \A c, d \in Aivs : \A m \in Turns(s, k, p, c), l \in Turns(s, k, p, d) :
              BackRow(s, k, p, c, m) = BackRow(s, k, p, d, l) => c = d /\ m = l
<1>1. PICK B \in Nat : B = BackTotal(s, k, p)
  BY RowPlaces
<1>2. PICK w \in Nat \ {0} : w = AivNum
  BY LayoutFacts
<1>3. Aivs = 0 .. w - 1
  BY <1>2 DEF Aivs
<1>4. \A c : BackNum(s, k, p, c) = SendNum(c, B, w)
  BY <1>1, <1>2 DEF BackNum
<1>5. \A c \in Aivs : SendNum(c, B, w) \in Nat /\ StartId(c, B, w) \in Nat
                      /\ Chunk(c, B, w) =
                          StartId(c, B, w) .. StartId(c, B, w) + SendNum(c, B, w) - 1
  <2> TAKE c \in Aivs
  <2>1. c \in 0 .. w - 1
    BY <1>3
  <2>2. SendNum(c, B, w) \in Nat
    BY <2>1, SendNumType
  <2>3. StartId(c, B, w) \in Nat
    BY <2>1, ChunkBounds
  <2> QED BY <2>2, <2>3 DEF Chunk, EndId
<1>6. ASSUME NEW c \in Aivs, SendNum(c, B, w) # 0
      PROVE  BackPhase(s, k, p, c) \in Nat
  <2>1. PICK n \in Nat \ {0} : n = SendNum(c, B, w)
    BY <1>5, <1>6
  <2>2. PICK e \in Nat \ {0} : e = EpWorldSize
    BY LayoutFacts
  <2>3. p \in Nat /\ c \in Nat
    BY <1>3 DEF Ranks
  <2>4. p * n \in Nat /\ c * n \in Nat
    BY <2>3
  <2>5. PICK y, z : y = p * n /\ z = c * n
    OBVIOUS
  <2>6. y \in Nat /\ z \in Nat
    BY <2>4, <2>5
  <2>7. y \div e \in Nat /\ z \div w \in Nat
    BY <2>6, DivMod
  <2>8. PICK g : g = (y \div e) + (z \div w)
    OBVIOUS
  <2>9. g \in Nat
    BY <2>7, <2>8
  <2>10. g % n \in 0 .. n - 1
    BY <2>9, DivMod
  <2>11. BackPhase(s, k, p, c) = g % n
    BY <1>2, <1>4, <2>1, <2>2, <2>5, <2>8 DEF BackPhase
  <2> QED BY <2>10, <2>11
<1>7. ASSUME NEW c \in Aivs, NEW n \in Nat \ {0}, n = SendNum(c, B, w),
             NEW g \in Nat, g = BackPhase(s, k, p, c)
      PROVE  /\ \A m : BackRow(s, k, p, c, m) = StartId(c, B, w) + PermIdx(g, m, n)
             /\ \A m \in 0 .. n - 1 : PermIdx(g, m, n) \in 0 .. n - 1
  <2>1. \A m : BackRow(s, k, p, c, m) = StartId(c, B, w) + PermIdx(g, m, n)
    BY <1>1, <1>2, <1>4, <1>7 DEF BackRow
  <2>2. ASSUME NEW m \in 0 .. n - 1
        PROVE  PermIdx(g, m, n) \in 0 .. n - 1
    <3>1. PermStride(n) \in Nat
      BY StrideInverse
    <3>2. m * PermStride(n) \in Nat
      BY <3>1
    <3>3. PICK y : y = g + m * PermStride(n)
      OBVIOUS
    <3>4. y \in Nat
      BY <3>2, <3>3
    <3>5. y % n \in 0 .. n - 1
      BY <3>4, DivMod
    <3> QED BY <3>3, <3>5 DEF PermIdx
  <2> QED BY <2>1, <2>2
<1>8. ASSUME NEW c \in Aivs, NEW m \in Turns(s, k, p, c)
      PROVE  SendNum(c, B, w) # 0 /\ BackRow(s, k, p, c, m) \in Chunk(c, B, w)
  <2>1. PICK z : z = SendNum(c, B, w)
    OBVIOUS
  <2>2. z \in Nat /\ m \in 0 .. z - 1
    BY <1>4, <1>5, <2>1 DEF Turns
  <2>3. PICK n \in Nat \ {0} : n = z
    BY <2>2
  <2>4. PICK g \in Nat : g = BackPhase(s, k, p, c)
    BY <1>6, <2>1, <2>3
  <2>5. PICK y : y = PermIdx(g, m, n)
    OBVIOUS
  <2>6. y \in 0 .. n - 1 /\ BackRow(s, k, p, c, m) = StartId(c, B, w) + y
    BY <1>7, <2>1, <2>2, <2>3, <2>4, <2>5
  <2>7. PICK u : u = StartId(c, B, w)
    OBVIOUS
  <2>8. u \in Nat /\ Chunk(c, B, w) = u .. u + n - 1
    BY <1>5, <2>1, <2>3, <2>7
  <2>9. u + y \in u .. u + n - 1
    BY <2>6, <2>8
  <2> QED BY <2>1, <2>3, <2>6, <2>7, <2>8, <2>9
<1>9. ASSUME NEW c \in Aivs, NEW m \in Turns(s, k, p, c)
      PROVE  BackRow(s, k, p, c, m) \in 0 .. BackTotal(s, k, p) - 1
  <2>1. c \in 0 .. w - 1
    BY <1>3
  <2>2. PICK y, z : y = StartId(c, B, w) /\ z = EndId(c, B, w)
    OBVIOUS
  <2>3. y \in Nat /\ z \in Nat /\ z <= B
    BY <2>1, <2>2, ChunkBounds
  <2>4. BackRow(s, k, p, c, m) \in y .. z - 1
    BY <1>8, <2>2 DEF Chunk
  <2> QED BY <1>1, <2>3, <2>4
<1>10. ASSUME NEW n \in 0 .. BackTotal(s, k, p) - 1
       PROVE  \E c \in Aivs : \E m \in Turns(s, k, p, c) : BackRow(s, k, p, c, m) = n
  <2>1. PICK c \in 0 .. w - 1 : n \in Chunk(c, B, w)
    BY <1>1, ChunksCover
  <2>2. c \in Aivs
    BY <1>3
  <2>3. PICK u, z, r : u = StartId(c, B, w) /\ z = SendNum(c, B, w) /\ r = n - u
    OBVIOUS
  <2>4. u \in Nat /\ z \in Nat /\ n \in u .. u + z - 1
    BY <1>5, <2>1, <2>2, <2>3
  <2>5. r \in 0 .. z - 1 /\ n = u + r /\ z # 0
    BY <2>3, <2>4
  <2>6. PICK l \in Nat \ {0} : l = z
    BY <2>4, <2>5
  <2>7. PICK g \in Nat : g = BackPhase(s, k, p, c)
    BY <1>6, <2>2, <2>3, <2>5
  <2>8. r \in 0 .. l - 1
    BY <2>5, <2>6
  <2>9. PICK m \in 0 .. l - 1 : PermIdx(g, m, l) = r
    BY <2>8, PermCovers
  <2>10. m \in Turns(s, k, p, c)
    BY <1>4, <2>3, <2>6, <2>9 DEF Turns
  <2>11. BackRow(s, k, p, c, m) = u + r
    BY <1>7, <2>2, <2>3, <2>6, <2>7, <2>9
  <2> QED BY <2>2, <2>5, <2>10, <2>11
<1>11. ASSUME NEW c \in Aivs, NEW d \in Aivs,
              NEW m \in Turns(s, k, p, c), NEW l \in Turns(s, k, p, d),
              BackRow(s, k, p, c, m) = BackRow(s, k, p, d, l)
       PROVE  c = d /\ m = l
  <2>1. c = d
    <3>1. BackRow(s, k, p, c, m) \in Chunk(c, B, w) /\ BackRow(s, k, p, c, m) \in Chunk(d, B, w)
      BY <1>8, <1>11
    <3>2. c \in 0 .. w - 1 /\ d \in 0 .. w - 1
      BY <1>3
    <3> QED BY <3>1, <3>2, ChunksDisjoint
  <2>2. PICK n \in Nat \ {0} : n = SendNum(c, B, w)
    BY <1>5, <1>8
  <2>3. PICK g \in Nat : g = BackPhase(s, k, p, c)
    BY <1>6, <1>8
  <2>4. m \in 0 .. n - 1 /\ l \in 0 .. n - 1
    BY <1>4, <2>1, <2>2 DEF Turns
  <2>5. PICK u, y, z : u = StartId(c, B, w) /\ y = PermIdx(g, m, n) /\ z = PermIdx(g, l, n)
    OBVIOUS
  <2>6. u \in Nat /\ y \in 0 .. n - 1 /\ z \in 0 .. n - 1 /\ u + y = u + z
    BY <1>5, <1>7, <1>11, <2>1, <2>2, <2>3, <2>4, <2>5
  <2>7. y = z
    BY <2>6
  <2> QED BY <2>1, <2>4, <2>5, <2>7, PermNeverRepeats
<1>12. \A c \in Aivs : BackNum(s, k, p, c) \in Nat
  BY <1>4, <1>5
<1> QED BY <1>9, <1>10, <1>11, <1>12

(* Every turn is about a cell, and every cell has its turn.                *)
LEMMA TurnFacts ==
  ASSUME IInv, NEW k \in RoundsOf(setup)
  PROVE  /\ \A p \in Ranks, c \in Aivs : \A m \in Turns(setup, k, p, c) :
              \E q \in Ranks : \E x \in CellsOf(setup, k, q) : TurnIs(setup, k, p, c, m, q, x)
         /\ \A q \in Ranks : \A x \in CellsOf(setup, k, q) :
              \E p \in Ranks, c \in Aivs : \E m \in Turns(setup, k, p, c) :
                TurnIs(setup, k, p, c, m, q, x)
         /\ \A p, r \in Ranks, c, d \in Aivs, q \in Ranks :
              \A m \in Turns(setup, k, p, c), l \in Turns(setup, k, r, d) : \A x :
                TurnIs(setup, k, p, c, m, q, x) /\ TurnIs(setup, k, r, d, l, q, x) =>
                  p = r /\ c = d /\ m = l
         /\ \A p \in Ranks, c \in Aivs, q, r \in Ranks, x, y \in Rows : \A m :
              TurnIs(setup, k, p, c, m, q, x) /\ TurnIs(setup, k, p, c, m, r, y) => q = r /\ x = y
<1>0. setup \in Setups
  BY DEF IInv, TypeInv
<1>1. ASSUME NEW p \in Ranks, NEW c \in Aivs, NEW m \in Turns(setup, k, p, c)
      PROVE  \E q \in Ranks : \E x \in CellsOf(setup, k, q) : TurnIs(setup, k, p, c, m, q, x)
  <2>1. PICK n : n = BackRow(setup, k, p, c, m)
    OBVIOUS
  <2>2. n \in 0 .. BackTotal(setup, k, p) - 1
    BY <1>0, <2>1, TurnRows
  <2>3. PICK a : RowIs(setup, k, p, n, a)
    BY <1>0, <2>2, RowPlaces
  <2>4. PICK i \in StatusesOf(setup, p) : a \in ToStatus(setup, k, p, i)
    BY <2>3 DEF RowIs
  <2>5. /\ SenderOf(i) \in Ranks
        /\ a = TokenAt(k, SenderOf(i), <<a[3], a[4]>>)
        /\ <<a[3], a[4]>> \in CellsOf(setup, k, SenderOf(i))
    BY <1>0, <2>4, CellOfToken
  <2>6. TurnIs(setup, k, p, c, m, SenderOf(i), <<a[3], a[4]>>)
    BY <2>1, <2>3, <2>5 DEF TurnIs
  <2> QED BY <2>5, <2>6
<1>2. ASSUME NEW q \in Ranks, NEW x \in CellsOf(setup, k, q)
      PROVE  \E p \in Ranks, c \in Aivs : \E m \in Turns(setup, k, p, c) :
               TurnIs(setup, k, p, c, m, q, x)
  <2>1. PICK p \in Ranks : \E i \in StatusesOf(setup, p) :
          TokenAt(k, q, x) \in ToStatus(setup, k, p, i)
    BY TokenOfCell
  <2>2. PICK i \in StatusesOf(setup, p) : TokenAt(k, q, x) \in ToStatus(setup, k, p, i)
    BY <2>1
  <2>3. PICK a \in ToStatus(setup, k, p, i) : a = TokenAt(k, q, x)
    BY <2>2
  <2>4. PICK n : n = RowsUpTo(setup, k, p, i) + Slot(ToStatus(setup, k, p, i), a)
    OBVIOUS
  <2>5. n \in 0 .. BackTotal(setup, k, p) - 1
    BY <1>0, <2>4, RowPlaces
  <2>6. PICK c \in Aivs : \E m \in Turns(setup, k, p, c) : BackRow(setup, k, p, c, m) = n
    BY <1>0, <2>5, TurnRows
  <2>7. PICK m \in Turns(setup, k, p, c) : BackRow(setup, k, p, c, m) = n
    BY <2>6
  <2>8. RowIs(setup, k, p, n, a)
    BY <2>4 DEF RowIs
  <2>9. TurnIs(setup, k, p, c, m, q, x)
    BY <2>3, <2>7, <2>8 DEF TurnIs
  <2> QED BY <2>9
<1>3. ASSUME NEW p \in Ranks, NEW r \in Ranks, NEW c \in Aivs, NEW d \in Aivs, NEW q \in Ranks,
             NEW x, NEW m \in Turns(setup, k, p, c), NEW l \in Turns(setup, k, r, d),
             TurnIs(setup, k, p, c, m, q, x), TurnIs(setup, k, r, d, l, q, x)
      PROVE  p = r /\ c = d /\ m = l
  <2>1. PICK a : a = TokenAt(k, q, x)
    OBVIOUS
  <2>2. PICK n, o : n = BackRow(setup, k, p, c, m) /\ o = BackRow(setup, k, r, d, l)
    OBVIOUS
  <2>3. RowIs(setup, k, p, n, a) /\ RowIs(setup, k, r, o, a)
    BY <1>3, <2>1, <2>2 DEF TurnIs
  <2>4. PICK i \in StatusesOf(setup, p) : a \in ToStatus(setup, k, p, i)
    BY <2>3 DEF RowIs
  <2>5. PICK j \in StatusesOf(setup, r) : a \in ToStatus(setup, k, r, j)
    BY <2>3 DEF RowIs
  <2>6. PICK b \in ToStatus(setup, k, p, i) : b = a
    BY <2>4
  <2>7. b \in ToStatus(setup, k, r, j)
    BY <2>5, <2>6
  <2>8. p = r
    BY <1>0, <2>7, StatusOfToken
  <2>9. n = o
    BY <1>0, <2>3, <2>8, RowPlaces
  <2>10. PICK h \in Turns(setup, k, p, d) : h = l
    BY <2>8
  <2>11. BackRow(setup, k, p, c, m) = BackRow(setup, k, p, d, h)
    BY <2>2, <2>8, <2>9, <2>10
  <2>12. c = d /\ m = h
    BY <1>0, <2>11, TurnRows
  <2> QED BY <2>8, <2>10, <2>12
<1>4. ASSUME NEW p \in Ranks, NEW c \in Aivs, NEW q \in Ranks, NEW r \in Ranks,
             NEW x \in Rows, NEW y \in Rows, NEW m,
             TurnIs(setup, k, p, c, m, q, x), TurnIs(setup, k, p, c, m, r, y)
      PROVE  q = r /\ x = y
  <2>1. TokenAt(k, q, x) = TokenAt(k, r, y)
    BY <1>0, <1>4, RowPlaces DEF TurnIs
  <2>2. q = r /\ x[1] = y[1] /\ x[2] = y[2]
    BY <2>1 DEF TokenAt
  <2>3. x = <<x[1], x[2]>> /\ y = <<y[1], y[2]>>
    BY DEF Rows
  <2> QED BY <2>2, <2>3
<1> QED BY <1>1, <1>2, <1>3, <1>4

(* A dispatch that has ended has counted the rows to send back.            *)
LEMMA BackCount ==
  ASSUME IInv, DInv, NEW p \in Ranks, Dispatched(p)
  PROVE  /\ setup \in Setups /\ round[p] \in RoundsOf(setup)
         /\ SelfSendCnt(p) = BackTotal(setup, round[p], p)
         /\ \A c : /\ SendCntNum(p, c) = BackNum(setup, round[p], p, c)
                   /\ StartTokenId(p, c) = StartId(c, BackTotal(setup, round[p], p), AivNum)
<1>1. PICK k : k = round[p]
  OBVIOUS
<1>2. /\ setup \in Setups /\ k \in RoundsOf(setup)
      /\ \A i \in StatusesOf(setup, p) : sendCounts[p][i] = RowsUpTo(setup, k, p, i + 1)
  BY <1>1, DispatchEnded
<1>3. PICK l \in Nat \ {0} : l = StatusNum(setup, p) /\ StatusesOf(setup, p) = 0 .. l - 1
  BY <1>2, CntFacts
<1>4. RscvStatusNum(p) = l
  BY <1>3 DEF RscvStatusNum, StatusNum, IsShareExpertRank, SharedRankNum, ExpertPerRank, PerRank
<1>5. l - 1 \in StatusesOf(setup, p) /\ (l - 1) + 1 = l
  BY <1>3
<1>6. SelfSendCnt(p) = BackTotal(setup, k, p)
  BY <1>2, <1>3, <1>4, <1>5 DEF SelfSendCnt, BackTotal
<1> QED BY <1>1, <1>2, <1>6 DEF SendCntNum, StartTokenId, BackNum

(* The row of a turn, its rank and its cell.                               *)
LEMMA AtTurn ==
  ASSUME IInv, DInv, CInv, NEW p \in Ranks, NEW c \in Aivs, pc[p][c] \in {"rows", "flags"},
         NEW k, k = round[p], NEW m, m = idx[p][c]
  PROVE  /\ setup \in Setups /\ k \in RoundsOf(setup) /\ k \in Nat /\ k > 0 /\ Busy(p)
         /\ m \in Turns(setup, k, p, c) /\ BackNum(setup, k, p, c) \in Nat
         /\ SendCntNum(p, c) = BackNum(setup, k, p, c)
         /\ CombineHalf(p) = Half(k)
         /\ RankOf(p, c) \in Ranks /\ CellOf(p, c) \in CellsOf(setup, k, RankOf(p, c))
         /\ TurnIs(setup, k, p, c, m, RankOf(p, c), CellOf(p, c))
         /\ expandX[p][RowAt(p, c)] = TokenAt(k, RankOf(p, c), CellOf(p, c))
<1>1. Busy(p) /\ Dispatched(p)
  <2>1. \A d \in Aivs : pc[p][d] \in After
    BY DEF IInv, PhaseInv, Waits, Copies, After
  <2>2. round[p] > 0
    BY RoundFacts DEF Rounds
  <2> QED BY <2>1, <2>2 DEF Busy, Dispatched, Combining, After
<1>2. /\ setup \in Setups /\ k \in RoundsOf(setup) /\ k \in Nat /\ k > 0
  BY <1>1, BackCount, RoundFacts DEF RoundsOf
<1>3. m \in Turns(setup, k, p, c)
  BY DEF CInv, TurnInv
<1>4. /\ SendCntNum(p, c) = BackNum(setup, k, p, c)
      /\ StartTokenId(p, c) = StartId(c, BackTotal(setup, k, p), AivNum)
      /\ BackNum(setup, k, p, c) \in Nat
  BY <1>1, <1>2, BackCount, TurnRows
<1>5. CombineHalf(p) = Half(k)
  BY <1>1 DEF CInv, MarkerInv, CombineHalf, Half
<1>6. RowAt(p, c) = BackRow(setup, k, p, c, m)
  <2>1. Phase(p, c) = BackPhase(setup, k, p, c)
    BY <1>4 DEF Phase, BackPhase
  <2> QED BY <1>4, <2>1 DEF RowAt, BackRow
<1>7. PICK q \in Ranks : \E x \in CellsOf(setup, k, q) : TurnIs(setup, k, p, c, m, q, x)
  BY <1>2, <1>3, TurnFacts
<1>8. PICK x \in CellsOf(setup, k, q) : TurnIs(setup, k, p, c, m, q, x)
  BY <1>7
<1>9. PICK a : a = TokenAt(k, q, x)
  OBVIOUS
<1>10. PICK i \in StatusesOf(setup, p) : /\ a \in ToStatus(setup, k, p, i)
                                          /\ RowAt(p, c) = RowsUpTo(setup, k, p, i)
                                                + Slot(ToStatus(setup, k, p, i), a)
  BY <1>6, <1>8, <1>9 DEF TurnIs, RowIs
<1>11. expandX[p][RowAt(p, c)] = a
  BY <1>1, <1>10, DispatchEnded
<1>12. RankOf(p, c) = q /\ CellOf(p, c) = <<x[1], x[2]>>
  BY <1>9, <1>11 DEF RankOf, CellOf, TokenAt
<1>13. x = <<x[1], x[2]>>
  BY DEF CellsOf, Rows
<1> QED BY <1>1, <1>2, <1>3, <1>4, <1>5, <1>8, <1>9, <1>11, <1>12, <1>13

(* The tokens that take part, and the shares of the cores.                 *)
LEMMA TokenShares ==
  ASSUME IInv, NEW q \in Ranks, round[q] \in RoundsOf(setup)
  PROVE  /\ Valid(q) = TakersOf(setup, round[q], q) /\ TakersOf(setup, round[q], q) \subseteq Tokens
         /\ \A c : TokenShare(q, c) \subseteq TakersOf(setup, round[q], q)
         /\ \A t \in TakersOf(setup, round[q], q) : \E c \in Aivs : t \in TokenShare(q, c)
         /\ \A c, d \in Aivs : c # d => TokenShare(q, c) \cap TokenShare(q, d) = {}
         /\ \A t : RowsToAdd(q, t) = AddsOf(setup, round[q], q, t)
<1>0. setup \in Setups
  BY DEF IInv, TypeInv
<1>1. PICK V : V = TakersOf(setup, round[q], q)
  OBVIOUS
<1>2. Valid(q) = V /\ V \subseteq Tokens /\ Cardinality(V) \in Nat
  <2>1. V = {t \in Tokens : DOMAIN setup.expertIds[round[q]][q][t] # {}} /\ Cardinality(V) \in Nat
    BY <1>0, <1>1, TakerFacts
  <2> QED BY <1>1, <2>1, AtWork
<1>3. PICK n \in Nat : n = Cardinality(V)
  BY <1>2
<1>4. PICK w \in Nat \ {0} : w = AivNum
  BY SetupFacts
<1>5. Aivs = 0 .. w - 1
  BY <1>4 DEF Aivs
<1>6. \A c : TokenShare(q, c) = {t \in V : ValidIndex(q, t) \in Chunk(c, n, w)}
  BY <1>2, <1>3, <1>4 DEF TokenShare
<1>7. \A t \in V : \E c \in Aivs : t \in TokenShare(q, c)
  <2> TAKE t \in V
  <2>1. TakerNumber(setup, round[q], q, t) \in 0 .. n - 1
    BY <1>0, <1>1, <1>3, TakerFacts
  <2>2. ValidIndex(q, t) \in 0 .. n - 1
    BY <2>1, AtWork
  <2>3. PICK c \in 0 .. w - 1 : ValidIndex(q, t) \in Chunk(c, n, w)
    BY <2>2, ChunksCover
  <2> QED BY <1>5, <1>6, <2>3
<1>8. ASSUME NEW c \in Aivs, NEW d \in Aivs, c # d
      PROVE  TokenShare(q, c) \cap TokenShare(q, d) = {}
  <2>1. c \in 0 .. w - 1 /\ d \in 0 .. w - 1
    BY <1>5
  <2>2. Chunk(c, n, w) \cap Chunk(d, n, w) = {}
    BY <1>8, <2>1, ChunksDisjoint
  <2> QED BY <1>6, <2>2
<1>9. \A t : RowsToAdd(q, t) = AddsOf(setup, round[q], q, t)
  BY DEF RowsToAdd, AddsOf, Row
<1>10. \A c : TokenShare(q, c) \subseteq V
  BY <1>6
<1> QED BY <1>1, <1>2, <1>7, <1>8, <1>9, <1>10

(* The rows that a token waits for.                                        *)
LEMMA AddsCount ==
  ASSUME NEW s \in Setups, NEW k \in RoundsOf(s), NEW q \in Ranks, NEW t \in Tokens
  PROVE  /\ IsFiniteSet(AddsOf(s, k, q, t))
         /\ Cardinality(AddsOf(s, k, q, t))
              = Cardinality(DOMAIN s.expertIds[k][q][t]) + s.sharedExpertNum
         /\ AddsOf(s, k, q, t) \subseteq 0 .. AxisK + EpWorldSize - 1
<1>1. PICK A, B, m : /\ A = DOMAIN s.expertIds[k][q][t] /\ m = s.sharedExpertNum
                     /\ B = AxisK .. AxisK + m - 1
  OBVIOUS
<1>2. AxisK \in Nat /\ EpWorldSize \in Nat /\ m \in Nat /\ m <= EpWorldSize
  <2>1. m \in 0 .. s.sharedExpertRankNum /\ s.sharedExpertRankNum \in 0 .. EpWorldSize - 1
        /\ EpWorldSize \in Nat \ {0}
    BY <1>1, DispatchAssumption
  <2> QED BY <2>1, LayoutFacts
<1>3. A \subseteq 0 .. AxisK - 1
  BY <1>1, RowFacts
<1>4. IsFiniteSet(A)
  <2>1. AxisK - 1 \in Int /\ 0 \in Int
    BY <1>2
  <2>2. IsFiniteSet(0 .. AxisK - 1)
    BY <2>1, FS_Interval
  <2> QED BY <1>3, <2>2, FS_Subset
<1>5. IsFiniteSet(B) /\ Cardinality(B) = m
  <2>1. Cardinality(B) = m
    BY <1>1, <1>2, IntervalCount
  <2>2. PICK y : y = AxisK + m - 1
    OBVIOUS
  <2>3. AxisK \in Int /\ y \in Int
    BY <1>2, <2>2
  <2>4. IsFiniteSet(AxisK .. y)
    BY <2>3, FS_Interval
  <2> QED BY <1>1, <2>1, <2>2, <2>4
<1>6. A \cap B = {}
  BY <1>1, <1>2, <1>3
<1>7. IsFiniteSet(A \cup B) /\ Cardinality(A \cup B) = Cardinality(A) + Cardinality(B)
  <2>1. Cardinality(A \cap B) = 0
    BY <1>6, FS_EmptySet
  <2>2. Cardinality(A) \in Nat
    BY <1>4, FS_CardinalityType
  <2>3. /\ IsFiniteSet(A \cup B)
        /\ Cardinality(A \cup B) = Cardinality(A) + Cardinality(B) - Cardinality(A \cap B)
    BY <1>4, <1>5, FS_Union
  <2>4. PICK y, z : y = Cardinality(A) /\ z = Cardinality(B)
    OBVIOUS
  <2>5. y + z - 0 = y + z
    BY <1>2, <1>5, <2>2, <2>4
  <2> QED BY <2>1, <2>3, <2>4, <2>5
<1>8. A \cup B \subseteq 0 .. AxisK + EpWorldSize - 1
  BY <1>1, <1>2, <1>3
<1> QED BY <1>1, <1>5, <1>7, <1>8 DEF AddsOf

(***************************************************************************)
(* Every action preserves the invariant about the rows.                    *)
(***************************************************************************)

(* What is sent stays what it is when no core gets on with its loop.       *)
LEMMA SentSame ==
  ASSUME UNCHANGED <<setup, round>>
  PROVE  /\ (\A p \in Ranks, c \in Aivs : RowsOut(p, c)' = RowsOut(p, c)) =>
              \A k, q, x : RowSent(k, q, x)' = RowSent(k, q, x)
         /\ (\A p \in Ranks, c \in Aivs : FlagsOut(p, c)' = FlagsOut(p, c)) =>
              \A k, q, x : FlagSent(k, q, x)' = FlagSent(k, q, x)
  BY DEF RowSent, FlagSent

(* A core that is not in a combine, or that does not move.                 *)
Still(p, c) ==
  IF pc[p][c] \in After THEN pc'[p][c] = pc[p][c] /\ idx'[p][c] = idx[p][c]
  ELSE pc'[p][c] \notin After

(* Such a core has sent what it had sent.                                  *)
LEMMA StillOut ==
  ASSUME UNCHANGED <<setup, round>>, NEW p \in Ranks, NEW c \in Aivs, Still(p, c)
  PROVE  RowsOut(p, c)' = RowsOut(p, c) /\ FlagsOut(p, c)' = FlagsOut(p, c)
<1>1. CASE pc[p][c] \in After
  BY <1>1 DEF Still, RowsOut, FlagsOut
<1>2. CASE pc[p][c] \notin After
  BY <1>2 DEF Still, RowsOut, FlagsOut
<1> QED BY <1>1, <1>2

(* The shares of the tokens, and their rows, are those of the round.       *)
LEMMA SharesKept ==
  ASSUME setup' = setup, NEW q \in Ranks, round'[q] = round[q]
  PROVE  \A c : TokenShare(q, c)' = TokenShare(q, c)
<1>1. Valid(q)' = Valid(q) /\ \A t : ValidIndex(q, t)' = ValidIndex(q, t)
  BY DEF Valid, ValidIndex, Active, Row
<1> QED BY <1>1 DEF TokenShare

(* A rank of which nothing changes that the invariant is about.            *)
Rests(q) ==
  /\ UNCHANGED <<round[q], combineState[q], rowWin[q], rowFlag[q], tokenStatus[q], expandOut[q]>>
  /\ \A c \in Aivs : Still(q, c)

(* So what the invariant says of its cores still holds.                    *)
LEMMA RankRests ==
  ASSUME setup' = setup, CInv, NEW q \in Ranks, Rests(q)
  PROVE  /\ MarkerInv(q)' /\ TurnInv(q)' /\ Busy(q)' = Busy(q) /\ Taken(q)' = Taken(q)
         /\ round[q] > 0 /\ Busy(q) => OutInv(q)'
<1>1. Busy(q)' = Busy(q)
  BY DEF Rests, Still, Busy
<1>2. MarkerInv(q)' /\ Taken(q)' = Taken(q)
  BY <1>1 DEF Rests, CInv, MarkerInv, Taken
<1>3. \A c \in Aivs : pc'[q][c] \in After => pc'[q][c] = pc[q][c] /\ idx'[q][c] = idx[q][c]
  BY DEF Rests, Still
<1>4. TurnInv(q)'
  BY <1>3 DEF Rests, CInv, TurnInv, After
<1>5. ASSUME round[q] > 0, Busy(q)
      PROVE  OutInv(q)'
  <2>1. OutInv(q)
    BY <1>5 DEF CInv
  <2>2. \A c \in Aivs : pc'[q][c] = pc[q][c]
    BY <1>5 DEF Rests, Still, Busy
  <2>3. \A c : TokenShare(q, c)' = TokenShare(q, c)
    BY SharesKept DEF Rests
  <2>4. round'[q] = round[q] /\ tokenStatus'[q] = tokenStatus[q] /\ expandOut'[q] = expandOut[q]
    BY DEF Rests
  <2> QED BY <2>1, <2>2, <2>3, <2>4 DEF OutInv
<1> QED BY <1>1, <1>2, <1>4, <1>5

(* A step that no core of a combine takes part in.                         *)
LEMMA RowsRest ==
  ASSUME CInv, UNCHANGED <<setup, round, combineVars>>, \A q \in Ranks, c \in Aivs : Still(q, c)
  PROVE  CInv'
<1>1. \A q \in Ranks : Rests(q)
  BY DEF Rests, combineVars
<1>2. /\ \A k, q, x : RowSent(k, q, x)' = RowSent(k, q, x)
      /\ \A k, q, x : FlagSent(k, q, x)' = FlagSent(k, q, x)
  BY StillOut, SentSame
<1>3. RowTypes'
  BY DEF CInv, RowTypes, combineVars
<1>4. ASSUME NEW q \in Ranks
      PROVE  /\ MarkerInv(q)' /\ TurnInv(q)' /\ UpInv(q)' /\ GoneInv(q)'
             /\ round'[q] > 0 => WinInv(q)' /\ TakenInv(q)' /\ (Busy(q)' => OutInv(q)')
  <2>1. MarkerInv(q)' /\ TurnInv(q)' /\ Busy(q)' = Busy(q) /\ Taken(q)' = Taken(q)
    BY <1>1, RankRests
  <2>2. round'[q] > 0 /\ Busy(q)' => OutInv(q)'
    BY <1>1, <2>1, RankRests
  <2>3. UpInv(q)'
    <3>1. FlagsUp(q)' = FlagsUp(q)
      BY <1>2, <2>1 DEF FlagsUp
    <3> QED BY <3>1 DEF CInv, UpInv, combineVars
  <2>4. GoneInv(q)'
    BY <1>2 DEF CInv, GoneInv
  <2>5. round'[q] > 0 => WinInv(q)' /\ TakenInv(q)'
    BY <1>2, <2>1 DEF CInv, WinInv, TakenInv, combineVars
  <2> QED BY <2>1, <2>2, <2>3, <2>4, <2>5
<1> QED BY <1>3, <1>4 DEF CInv

(* A dispatch has no core in a combine, before or after.                   *)
LEMMA DispatchRows ==
  ASSUME IInv, CInv, NEW p \in Ranks, DispatchStep(p), UNCHANGED combineVars
  PROVE  CInv'
<1>1. UNCHANGED <<setup, round>>
  BY DEF DispatchStep, SyncSent, SyncCleared, DispatchCoreStep, SendToken, SetStatus, WaitStatus,
         ClearStatus, LocalWindowCopy
<1>2. pc \in [Ranks -> [Aivs -> Places]]
  BY DEF IInv, TypeInv, Places
<1>3. ASSUME NEW c \in Aivs, DispatchCoreStep(p, c)
      PROVE  \A q \in Ranks, d \in Aivs : Still(q, d)
  <2>1. pc[p][c] \in {"send", "status", "wait", "clear", "copy"}
    BY <1>3 DEF DispatchCoreStep, SendToken, SetStatus, WaitStatus, ClearStatus, LocalWindowCopy, At
  <2>2. PICK v \in {"send", "status", "wait", "cleared", "clear", "dispatched"} :
          pc' = [pc EXCEPT ![p][c] = v]
    <3>1. CASE SendToken(p, c)
      <4>1. pc' = [pc EXCEPT ![p][c] = "send"]
        BY <1>2, <3>1 DEF SendToken, At
      <4> QED BY <4>1
    <3>2. CASE SetStatus(p, c)
      <4>1. CASE pc' = pc
        <5>1. pc' = [pc EXCEPT ![p][c] = "status"]
          BY <1>2, <3>2, <4>1 DEF SetStatus, At
        <5> QED BY <5>1
      <4>2. CASE pc' = [pc EXCEPT ![p][c] = FirstWait(p, c)]
        BY <4>2 DEF FirstWait
      <4> QED BY <3>2, <4>1, <4>2 DEF SetStatus, Goto
    <3>3. CASE WaitStatus(p, c)
      BY <3>3 DEF WaitStatus, Goto
    <3>4. CASE ClearStatus(p, c)
      BY <3>4 DEF ClearStatus, Goto
    <3>5. CASE LocalWindowCopy(p, c)
      BY <3>5 DEF LocalWindowCopy, Goto
    <3> QED BY <1>3, <3>1, <3>2, <3>3, <3>4, <3>5 DEF DispatchCoreStep
  <2>3. \A q \in Ranks, d \in Aivs : q # p \/ d # c =>
          pc'[q][d] = pc[q][d] /\ idx'[q][d] = idx[q][d]
    <3>1. \A q \in Ranks, d \in Aivs : q # p \/ d # c => pc'[q][d] = pc[q][d]
      BY <1>2, <2>2
    <3>2. idx \in [Ranks -> [Aivs -> Nat]]
      BY SMTT(30) DEF IInv, TypeInv
    <3>3. idx' = idx \/ \E n : idx' = [idx EXCEPT ![p][c] = n]
      BY <1>3 DEF DispatchCoreStep, SendToken, SetStatus, WaitStatus, ClearStatus, LocalWindowCopy
    <3>4. \A q \in Ranks, d \in Aivs : q # p \/ d # c => idx'[q][d] = idx[q][d]
      BY <3>2, <3>3
    <3> QED BY <3>1, <3>4
  <2>4. pc'[p][c] = v
    BY <1>2, <2>2
  <2> QED BY <2>1, <2>2, <2>3, <2>4, SMTT(30) DEF Still, After
<1>4. ASSUME SyncSent(p) \/ SyncCleared(p)
      PROVE  \A q \in Ranks, d \in Aivs : Still(q, d)
  <2>1. \A d \in Aivs : pc[p][d] \in {"send", "cleared"}
    BY <1>4 DEF SyncSent, SyncCleared, AllTokensSent, AllAt, At
  <2>2. \A d \in Aivs : pc'[p][d] \in {"status", "wait", "cleared", "copy", "dispatched"}
    BY <1>2, <1>4 DEF SyncSent, SyncCleared, GotoAll, FirstWait
  <2>3. \A q \in Ranks \ {p} : pc'[q] = pc[q] /\ idx'[q] = idx[q]
    <3>1. \A q \in Ranks \ {p} : pc'[q] = pc[q]
      BY <1>2, <1>4 DEF SyncSent, SyncCleared, GotoAll
    <3>2. idx \in [Ranks -> [Aivs -> Nat]]
      BY DEF IInv, TypeInv
    <3>3. idx' = idx \/ \E f : idx' = [idx EXCEPT ![p] = f]
      BY <1>4 DEF SyncSent, SyncCleared
    <3>4. \A q \in Ranks \ {p} : idx'[q] = idx[q]
      BY <3>2, <3>3
    <3> QED BY <3>1, <3>4
  <2>4. ASSUME NEW d \in Aivs
        PROVE  Still(p, d)
    BY <2>1, <2>2 DEF Still, After
  <2>5. ASSUME NEW q \in Ranks \ {p}, NEW d \in Aivs
        PROVE  Still(q, d)
    <3>1. pc'[q][d] = pc[q][d] /\ idx'[q][d] = idx[q][d]
      BY <2>3
    <3> QED BY <3>1 DEF Still
  <2> QED BY <2>4, <2>5
<1>5. \A q \in Ranks, c \in Aivs : Still(q, c)
  BY <1>3, <1>4 DEF DispatchStep
<1> QED BY <1>1, <1>5, RowsRest

(* Where batches start.                                                    *)
LEMMA BatchFacts ==
  ASSUME NEW S \in Nat \ {0}, NEW m \in Nat, NEW b, b = (m \div S) * S
  PROVE  /\ b \in Nat /\ b <= m /\ m < b + S
         /\ \A y \in Nat : b <= y /\ y < b + S => (y \div S) * S = b
         /\ ((b + S) \div S) * S = b + S
<1>1. PICK d \in Nat : d = m \div S
  BY DivMod
<1>2. b = S * d
  BY <1>1
<1>3. m % S \in 0 .. S - 1 /\ m = S * d + (m % S)
  BY <1>1, DivMod
<1>4. b \in Nat /\ b <= m /\ m < b + S
  BY <1>2, <1>3
<1>5. ASSUME NEW y \in Nat, NEW e \in Nat, NEW r \in 0 .. S - 1, y = S * e + r
      PROVE  (y \div S) * S = S * e
  <2>1. PICK z \in Nat : z = y \div S
    BY DivMod
  <2>2. y % S \in 0 .. S - 1 /\ y = S * z + (y % S)
    BY <2>1, DivMod
  <2>3. z = e
    <3>1. PICK u \in 0 .. S - 1 : u = y % S
      BY <2>2
    <3>2. S * z + u = S * e + r /\ z \in Int /\ e \in Int
      BY <1>5, <2>2, <3>1
    <3> QED BY <3>2, DivUnique
  <2>4. e * S = S * e
    OBVIOUS
  <2> QED BY <2>1, <2>3, <2>4
<1>6. ASSUME NEW y \in Nat, b <= y, y < b + S
      PROVE  (y \div S) * S = b
  <2>1. PICK r : r = y - b
    OBVIOUS
  <2>2. r \in 0 .. S - 1 /\ y = b + r
    BY <1>4, <1>6, <2>1
  <2> QED BY <1>2, <1>5, <2>2
<1>7. ((b + S) \div S) * S = b + S
  <2>1. b + S = S * (d + 1) + 0 /\ d + 1 \in Nat /\ b + S \in Nat /\ 0 \in 0 .. S - 1
    BY <1>2
  <2> QED BY <1>5, <2>1
<1> QED BY <1>4, <1>6, <1>7

(* SendRow is the next turn of the rows: at the end of a batch the loop    *)
(* goes back to its first flag.                                            *)
LEMMA RowStep ==
  ASSUME IInv, DInv, CInv, NEW p \in Ranks, NEW c \in Aivs, SendRow(p, c)
  PROVE  /\ RowsOut(p, c) = idx[p][c] /\ RowsOut(p, c)' = idx[p][c] + 1
         /\ FlagsOut(p, c)' = FlagsOut(p, c)
         /\ pc'[p][c] \in {"rows", "flags"} /\ idx'[p][c] \in Turns(setup, round[p], p, c)
         /\ \A q \in Ranks, d \in Aivs : q # p \/ d # c =>
              pc'[q][d] = pc[q][d] /\ idx'[q][d] = idx[q][d]
<1>1. PICK k, m, n : k = round[p] /\ m = idx[p][c] /\ n = BackNum(setup, k, p, c)
  OBVIOUS
<1>2. pc[p][c] = "rows" /\ UNCHANGED <<setup, round>>
  BY DEF SendRow, At
<1>3. /\ m \in 0 .. n - 1 /\ n \in Nat /\ SendCntNum(p, c) = n
  BY <1>1, <1>2, AtTurn DEF Turns
<1>4. PICK S \in Nat \ {0} : S = SendSlotNum
  BY CombineAssumption
<1>5. PICK b : b = (m \div S) * S
  OBVIOUS
<1>6. /\ b \in Nat /\ b <= m /\ m < b + S /\ m \in Nat
      /\ \A y \in Nat : b <= y /\ y < b + S => (y \div S) * S = b
  <2>1. m \in Nat
    BY <1>3
  <2> QED BY <1>5, <2>1, BatchFacts
<1>7. PICK e : e = IF b + S < n THEN b + S ELSE n
  OBVIOUS
<1>8. BatchStart(p, c) = b /\ BatchEnd(p, c) = e
  BY <1>1, <1>3, <1>4, <1>5, <1>7 DEF BatchStart, BatchEnd
<1>9. pc \in [Ranks -> [Aivs -> Places]] /\ idx \in [Ranks -> [Aivs -> Nat]]
  BY DEF IInv, TypeInv, Places
<1>10. RowsOut(p, c) = m /\ FlagsOut(p, c) = b
  BY <1>1, <1>2, <1>4, <1>5 DEF RowsOut, FlagsOut, After
<1>11. CASE m + 1 < e
  <2>1. pc' = pc /\ idx' = [idx EXCEPT ![p][c] = m + 1]
    BY <1>1, <1>8, <1>9, <1>11 DEF SendRow
  <2>2. pc'[p][c] = "rows" /\ idx'[p][c] = m + 1
    BY <1>2, <1>9, <2>1
  <2>3. \A q \in Ranks, d \in Aivs : q # p \/ d # c =>
          pc'[q][d] = pc[q][d] /\ idx'[q][d] = idx[q][d]
    BY <1>9, <2>1
  <2>4. m + 1 \in Nat /\ b <= m + 1 /\ m + 1 < b + S /\ m + 1 \in 0 .. n - 1
    BY <1>3, <1>6, <1>7, <1>11
  <2>5. ((m + 1) \div S) * S = b
    BY <1>6, <2>4
  <2>6. RowsOut(p, c)' = m + 1
    BY <2>2 DEF RowsOut, After
  <2>7. FlagsOut(p, c)' = b
    BY <1>4, <2>2, <2>5 DEF FlagsOut, After
  <2> QED BY <1>1, <1>10, <2>2, <2>3, <2>4, <2>6, <2>7 DEF Turns
<1>12. CASE ~(m + 1 < e)
  <2>1. pc' = [pc EXCEPT ![p][c] = "flags"] /\ idx' = [idx EXCEPT ![p][c] = b]
    BY <1>1, <1>8, <1>12 DEF SendRow, Goto
  <2>2. pc'[p][c] = "flags" /\ idx'[p][c] = b
    BY <1>9, <2>1
  <2>3. \A q \in Ranks, d \in Aivs : q # p \/ d # c =>
          pc'[q][d] = pc[q][d] /\ idx'[q][d] = idx[q][d]
    BY <1>9, <2>1
  <2>4. b \in 0 .. n - 1 /\ e = m + 1
    BY <1>3, <1>6, <1>7, <1>12
  <2>5. (b \div S) * S = b
    BY <1>6, <1>4
  <2>6. BackNum(setup, round[p], p, c)' = n
    BY <1>1, <1>2
  <2>7. RowsOut(p, c)' = e
    <3>1. RowsOut(p, c)' = IF (b \div S) * S + S < n THEN (b \div S) * S + S ELSE n
      BY <1>4, <2>2, <2>6 DEF RowsOut, After
    <3> QED BY <1>7, <2>5, <3>1
  <2>8. FlagsOut(p, c)' = b
    BY <2>2 DEF FlagsOut, After
  <2> QED BY <1>1, <1>10, <2>2, <2>3, <2>4, <2>7, <2>8 DEF Turns
<1> QED BY <1>11, <1>12

(* SendFlag is the next turn of the flags: at the end of a batch the loop  *)
(* goes on with the rows of the next.                                      *)
LEMMA FlagStep ==
  ASSUME IInv, DInv, CInv, NEW p \in Ranks, NEW c \in Aivs, SendFlag(p, c)
  PROVE  /\ FlagsOut(p, c) = idx[p][c] /\ FlagsOut(p, c)' = idx[p][c] + 1
         /\ RowsOut(p, c)' = RowsOut(p, c)
         /\ pc'[p][c] \in {"rows", "flags", Waiting(p, c)}
         /\ pc'[p][c] \in {"rows", "flags"} => idx'[p][c] \in Turns(setup, round[p], p, c)
         /\ \A q \in Ranks, d \in Aivs : q # p \/ d # c =>
              pc'[q][d] = pc[q][d] /\ idx'[q][d] = idx[q][d]
<1>1. PICK k, m, n : k = round[p] /\ m = idx[p][c] /\ n = BackNum(setup, k, p, c)
  OBVIOUS
<1>2. pc[p][c] = "flags" /\ UNCHANGED <<setup, round>>
  BY DEF SendFlag, At
<1>3. /\ m \in 0 .. n - 1 /\ n \in Nat /\ SendCntNum(p, c) = n
  BY <1>1, <1>2, AtTurn DEF Turns
<1>4. PICK S \in Nat \ {0} : S = SendSlotNum
  BY CombineAssumption
<1>5. PICK b : b = (m \div S) * S
  OBVIOUS
<1>6. /\ b \in Nat /\ b <= m /\ m < b + S /\ m \in Nat
      /\ \A y \in Nat : b <= y /\ y < b + S => (y \div S) * S = b
      /\ ((b + S) \div S) * S = b + S
  <2>1. m \in Nat
    BY <1>3
  <2> QED BY <1>5, <2>1, BatchFacts
<1>7. PICK e : e = IF b + S < n THEN b + S ELSE n
  OBVIOUS
<1>8. BatchEnd(p, c) = e
  BY <1>1, <1>3, <1>4, <1>5, <1>7 DEF BatchStart, BatchEnd
<1>9. pc \in [Ranks -> [Aivs -> Places]] /\ idx \in [Ranks -> [Aivs -> Nat]]
  BY DEF IInv, TypeInv, Places
<1>10. RowsOut(p, c) = e /\ FlagsOut(p, c) = m
  <2>1. FlagsOut(p, c) = m
    BY <1>1, <1>2 DEF FlagsOut, After
  <2>2. RowsOut(p, c) = IF b + S < n THEN b + S ELSE n
    BY <1>1, <1>2, <1>4, <1>5 DEF RowsOut, After
  <2> QED BY <1>7, <2>1, <2>2
<1>11. BackNum(setup, round[p], p, c)' = n
  BY <1>1, <1>2
<1>12. CASE m + 1 < n /\ m + 1 < e
  <2>1. pc' = pc /\ idx' = [idx EXCEPT ![p][c] = m + 1]
    BY <1>1, <1>3, <1>8, <1>9, <1>12 DEF SendFlag
  <2>2. pc'[p][c] = "flags" /\ idx'[p][c] = m + 1
    BY <1>2, <1>9, <2>1
  <2>3. \A q \in Ranks, d \in Aivs : q # p \/ d # c =>
          pc'[q][d] = pc[q][d] /\ idx'[q][d] = idx[q][d]
    BY <1>9, <2>1
  <2>4. m + 1 \in Nat /\ b <= m + 1 /\ m + 1 < b + S /\ m + 1 \in 0 .. n - 1
    BY <1>3, <1>6, <1>7, <1>12
  <2>5. ((m + 1) \div S) * S = b
    BY <1>6, <2>4
  <2>6. FlagsOut(p, c)' = m + 1
    BY <2>2 DEF FlagsOut, After
  <2>7. RowsOut(p, c)' = e
    <3>1. RowsOut(p, c)' = IF ((m + 1) \div S) * S + S < n THEN ((m + 1) \div S) * S + S ELSE n
      BY <1>4, <1>11, <2>2 DEF RowsOut, After
    <3> QED BY <1>7, <2>5, <3>1
  <2> QED BY <1>1, <1>10, <2>2, <2>3, <2>4, <2>6, <2>7 DEF Turns
<1>13. CASE m + 1 < n /\ ~(m + 1 < e)
  <2>1. pc' = [pc EXCEPT ![p][c] = "rows"] /\ idx' = [idx EXCEPT ![p][c] = m + 1]
    BY <1>1, <1>3, <1>8, <1>9, <1>13 DEF SendFlag, Goto
  <2>2. pc'[p][c] = "rows" /\ idx'[p][c] = m + 1
    BY <1>9, <2>1
  <2>3. \A q \in Ranks, d \in Aivs : q # p \/ d # c =>
          pc'[q][d] = pc[q][d] /\ idx'[q][d] = idx[q][d]
    BY <1>9, <2>1
  <2>4. e = m + 1 /\ m + 1 = b + S /\ m + 1 \in 0 .. n - 1
    BY <1>3, <1>6, <1>7, <1>13
  <2>5. RowsOut(p, c)' = e
    BY <2>2, <2>4 DEF RowsOut, After
  <2>6. FlagsOut(p, c)' = m + 1
    <3>1. ((m + 1) \div S) * S = m + 1
      BY <1>6, <2>4
    <3> QED BY <1>4, <2>2, <3>1 DEF FlagsOut, After
  <2> QED BY <1>1, <1>10, <2>2, <2>3, <2>4, <2>5, <2>6 DEF Turns
<1>14. CASE ~(m + 1 < n)
  <2>1. pc' = [pc EXCEPT ![p][c] = Waiting(p, c)] /\ idx' = [idx EXCEPT ![p][c] = 0]
    BY <1>1, <1>3, <1>14 DEF SendFlag, Goto
  <2>2. pc'[p][c] = Waiting(p, c) /\ idx'[p][c] = 0
    BY <1>9, <2>1
  <2>3. \A q \in Ranks, d \in Aivs : q # p \/ d # c =>
          pc'[q][d] = pc[q][d] /\ idx'[q][d] = idx[q][d]
    BY <1>9, <2>1
  <2>4. e = n /\ m + 1 = n
    BY <1>3, <1>6, <1>7, <1>14
  <2>5. pc'[p][c] \in {"gather", "idle"}
    BY <2>2 DEF Waiting
  <2>6. RowsOut(p, c)' = n /\ FlagsOut(p, c)' = n
    BY <1>11, <2>5 DEF RowsOut, FlagsOut, After
  <2> QED BY <1>1, <1>10, <2>2, <2>3, <2>4, <2>5, <2>6
<1> QED BY <1>12, <1>13, <1>14

(* Flags go out after the rows.                                            *)
LEMMA FlagsBehind ==
  ASSUME IInv, DInv, CInv, NEW p \in Ranks, round[p] \in RoundsOf(setup), NEW c \in Aivs
  PROVE  /\ RowsOut(p, c) \in Nat /\ FlagsOut(p, c) \in Nat /\ FlagsOut(p, c) <= RowsOut(p, c)
         /\ pc[p][c] \in {"gather", "add", "idle"} =>
              FlagsOut(p, c) = BackNum(setup, round[p], p, c)
<1>1. PICK k, m, n : k = round[p] /\ m = idx[p][c] /\ n = BackNum(setup, k, p, c)
  OBVIOUS
<1>2. n \in Nat
  <2>1. setup \in Setups
    BY DEF IInv, TypeInv
  <2> QED BY <1>1, <2>1, TurnRows
<1>3. CASE pc[p][c] \in {"rows", "flags"}
  <2>1. m \in 0 .. n - 1
    BY <1>1, <1>3, AtTurn DEF Turns
  <2>2. PICK S \in Nat \ {0} : S = SendSlotNum
    BY CombineAssumption
  <2>3. PICK b : b = (m \div S) * S
    OBVIOUS
  <2>4. b \in Nat /\ b <= m /\ m < b + S /\ m \in Nat
    <3>1. m \in Nat
      BY <2>1
    <3> QED BY <2>3, <3>1, BatchFacts
  <2>5. CASE pc[p][c] = "rows"
    <3>1. RowsOut(p, c) = m /\ FlagsOut(p, c) = b
      BY <1>1, <2>2, <2>3, <2>5 DEF RowsOut, FlagsOut, After
    <3> QED BY <2>4, <2>5, <3>1
  <2>6. CASE pc[p][c] = "flags"
    <3>1. RowsOut(p, c) = (IF b + S < n THEN b + S ELSE n) /\ FlagsOut(p, c) = m
      BY <1>1, <2>2, <2>3, <2>6 DEF RowsOut, FlagsOut, After
    <3> QED BY <1>2, <2>1, <2>4, <2>6, <3>1
  <2> QED BY <1>3, <2>5, <2>6
<1>4. CASE pc[p][c] \in {"gather", "add", "idle"}
  BY <1>1, <1>2, <1>4 DEF RowsOut, FlagsOut, After
<1>5. CASE pc[p][c] \notin After
  BY <1>5 DEF RowsOut, FlagsOut, After
<1> QED BY <1>3, <1>4, <1>5 DEF After

(* A rank that combines knows that all ranks are in its round.             *)
LEMMA AllMet ==
  ASSUME IInv, NEW p \in Ranks, Busy(p), round[p] > 0, NEW q \in Ranks
  PROVE  round[q] \in Nat /\ round[q] \in {round[p], round[p] + 1}
<1>1. PICK k \in Rounds : k = round[p]
  BY RoundFacts DEF Rounds
<1>2. \A i \in Statuses(p) : Counted(p, i, k)
  BY <1>1 DEF Busy, Counted, After
<1>3. round[q] >= k
  BY <1>2, CountedAll
<1>4. round[q] <= round[p] + 1
  BY RoundsClose
<1> QED BY <1>1, <1>3, <1>4, RoundFacts

(* What is sent, when the cores have come as far as f says.                *)
SentUpTo(f, k, q, x) ==
  \A p \in Ranks, c \in Aivs : \A m \in Turns(setup, k, p, c) :
    TurnIs(setup, k, p, c, m, q, x) => round[p] > k \/ (round[p] = k /\ m < f[p][c])

(* How far they have come.                                                 *)
RowsTable  == [p \in Ranks |-> [c \in Aivs |-> RowsOut(p, c)]]
FlagsTable == [p \in Ranks |-> [c \in Aivs |-> FlagsOut(p, c)]]

(* The same as RowSent and FlagSent.                                       *)
LEMMA SentTables ==
  \A k, q, x : /\ RowSent(k, q, x) = SentUpTo(RowsTable, k, q, x)
               /\ FlagSent(k, q, x) = SentUpTo(FlagsTable, k, q, x)
<1>1. \A p \in Ranks, c \in Aivs :
        RowsTable[p][c] = RowsOut(p, c) /\ FlagsTable[p][c] = FlagsOut(p, c)
  BY DEF RowsTable, FlagsTable
<1> QED BY <1>1 DEF RowSent, FlagSent, SentUpTo

(* One more turn is one more cell.                                         *)
LEMMA SentGoes ==
  ASSUME IInv, NEW p \in Ranks, NEW c \in Aivs, NEW k \in RoundsOf(setup), k = round[p],
         NEW m \in Turns(setup, k, p, c), NEW q \in Ranks, NEW x \in CellsOf(setup, k, q),
         TurnIs(setup, k, p, c, m, q, x), NEW f, NEW g, f[p][c] = m, g[p][c] = m + 1,
         \A r \in Ranks, d \in Aivs : r # p \/ d # c => g[r][d] = f[r][d]
  PROVE  /\ ~SentUpTo(f, k, q, x)
         /\ \A j \in RoundsOf(setup), r \in Ranks : \A y \in CellsOf(setup, j, r) :
              SentUpTo(g, j, r, y) <=> (SentUpTo(f, j, r, y) \/ (j = k /\ r = q /\ y = x))
<1>0. m \in Nat /\ \A n \in Turns(setup, k, p, c) : n \in Nat
  BY DEF Turns
<1>1. ~SentUpTo(f, k, q, x)
  <2>1. ~(m < m) /\ ~(round[p] > k)
    BY <1>0, RoundFacts
  <2> QED BY <2>1 DEF SentUpTo
<1>2. ASSUME NEW j \in RoundsOf(setup), NEW r \in Ranks, NEW y \in CellsOf(setup, j, r),
             SentUpTo(f, j, r, y)
      PROVE  SentUpTo(g, j, r, y)
  <2> SUFFICES ASSUME NEW o \in Ranks, NEW e \in Aivs, NEW l \in Turns(setup, j, o, e),
                      TurnIs(setup, j, o, e, l, r, y)
               PROVE  round[o] > j \/ (round[o] = j /\ l < g[o][e])
    BY DEF SentUpTo
  <2>1. round[o] > j \/ (round[o] = j /\ l < f[o][e])
    BY <1>2 DEF SentUpTo
  <2>2. CASE o = p /\ e = c /\ round[o] = j
    <3>1. l \in Nat
      BY <1>0, <2>2
    <3>2. l < m \/ round[o] > j
      BY <2>1, <2>2
    <3> QED BY <1>0, <2>2, <3>1, <3>2
  <2>3. CASE ~(o = p /\ e = c)
    BY <2>1, <2>3
  <2> QED BY <2>1, <2>2, <2>3
<1>3. SentUpTo(g, k, q, x)
  <2> SUFFICES ASSUME NEW o \in Ranks, NEW e \in Aivs, NEW l \in Turns(setup, k, o, e),
                      TurnIs(setup, k, o, e, l, q, x)
               PROVE  round[o] > k \/ (round[o] = k /\ l < g[o][e])
    BY DEF SentUpTo
  <2>1. o = p /\ e = c /\ l = m
    BY TurnFacts, SMTT(30)
  <2>2. m < m + 1
    BY <1>0
  <2> QED BY <2>1, <2>2
<1>4. ASSUME NEW j \in RoundsOf(setup), NEW r \in Ranks, NEW y \in CellsOf(setup, j, r),
             SentUpTo(g, j, r, y), ~(j = k /\ r = q /\ y = x)
      PROVE  SentUpTo(f, j, r, y)
  <2> SUFFICES ASSUME NEW o \in Ranks, NEW e \in Aivs, NEW l \in Turns(setup, j, o, e),
                      TurnIs(setup, j, o, e, l, r, y)
               PROVE  round[o] > j \/ (round[o] = j /\ l < f[o][e])
    BY DEF SentUpTo
  <2>1. round[o] > j \/ (round[o] = j /\ l < g[o][e])
    BY <1>4 DEF SentUpTo
  <2>2. CASE o = p /\ e = c /\ round[o] = j
    <3>1. l \in Nat /\ j = k
      BY <1>0, <2>2
    <3>2. l # m
      <4>1. y \in Rows /\ x \in Rows
        BY DEF CellsOf
      <4>2. l = m => r = q /\ y = x
        BY <2>2, <3>1, <4>1, TurnFacts, SMTT(30)
      <4> QED BY <1>4, <3>1, <4>2
    <3>3. l < m + 1 \/ round[o] > j
      BY <2>1, <2>2
    <3> QED BY <1>0, <2>2, <3>1, <3>2, <3>3
  <2>3. CASE ~(o = p /\ e = c)
    BY <2>1, <2>3
  <2> QED BY <2>1, <2>2, <2>3
<1> QED BY <1>1, <1>2, <1>3, <1>4

(* A core that gets on with its loop sends the cell of its turn.           *)
LEMMA TurnSent ==
  ASSUME IInv, DInv, CInv, NEW p \in Ranks, NEW c \in Aivs, pc[p][c] \in {"rows", "flags"},
         NEW f, NEW g, f[p][c] = idx[p][c], g[p][c] = idx[p][c] + 1,
         \A r \in Ranks, d \in Aivs : r # p \/ d # c => g[r][d] = f[r][d]
  PROVE  /\ ~SentUpTo(f, round[p], RankOf(p, c), CellOf(p, c))
         /\ \A j \in RoundsOf(setup), r \in Ranks : \A y \in CellsOf(setup, j, r) :
              SentUpTo(g, j, r, y) <=>
                (SentUpTo(f, j, r, y) \/ (j = round[p] /\ r = RankOf(p, c) /\ y = CellOf(p, c)))
<1>1. PICK k \in RoundsOf(setup) : k = round[p]
  BY AtTurn
<1>2. PICK q \in Ranks : q = RankOf(p, c)
  BY AtTurn
<1>3. PICK x \in CellsOf(setup, k, q) : x = CellOf(p, c)
  BY <1>1, <1>2, AtTurn
<1>4. PICK m \in Turns(setup, k, p, c) : m = idx[p][c]
  BY <1>1, AtTurn
<1>5. TurnIs(setup, k, p, c, m, q, x)
  BY <1>1, <1>2, <1>3, <1>4, AtTurn
<1>6. f[p][c] = m /\ g[p][c] = m + 1
  BY <1>4
<1>7. /\ ~SentUpTo(f, k, q, x)
      /\ \A j \in RoundsOf(setup), r \in Ranks : \A y \in CellsOf(setup, j, r) :
           SentUpTo(g, j, r, y) <=> (SentUpTo(f, j, r, y) \/ (j = k /\ r = q /\ y = x))
  BY <1>1, <1>5, <1>6, SentGoes, SMTT(60)
<1> QED BY <1>1, <1>2, <1>3, <1>7

(* And in the next state.                                                  *)
LEMMA SentNext ==
  ASSUME UNCHANGED <<setup, round>>
  PROVE  \A k, q, x : /\ RowSent(k, q, x)' = SentUpTo(RowsTable', k, q, x)
                      /\ FlagSent(k, q, x)' = SentUpTo(FlagsTable', k, q, x)
<1>1. \A p \in Ranks, c \in Aivs :
        RowsTable'[p][c] = RowsOut(p, c)' /\ FlagsTable'[p][c] = FlagsOut(p, c)'
  BY DEF RowsTable, FlagsTable
<1> QED BY <1>1 DEF RowSent, FlagSent, SentUpTo

(* A step of one core in a combine.                                        *)
CoreGoes(p, c) ==
  /\ UNCHANGED <<setup, round, combineState>>
  /\ pc[p][c] \in After /\ pc'[p][c] \in After
  /\ \A q \in Ranks, d \in Aivs : q # p \/ d # c => pc'[q][d] = pc[q][d] /\ idx'[q][d] = idx[q][d]

(* No rank starts or ends a combine by it.                                 *)
LEMMA CoreGoesOn ==
  ASSUME IInv, CInv, NEW p \in Ranks, NEW c \in Aivs, CoreGoes(p, c),
         pc'[p][c] \in {"rows", "flags"} => idx'[p][c] \in Turns(setup, round[p], p, c)
  PROVE  /\ \A q \in Ranks : Busy(q)' = Busy(q) /\ MarkerInv(q)' /\ TurnInv(q)'
         /\ Busy(p) /\ round[p] \in RoundsOf(setup) => round[p] > 0
         /\ \A q \in Ranks : tokenStatus'[q] = tokenStatus[q] => Taken(q)' = Taken(q)
<1>1. ASSUME NEW q \in Ranks
      PROVE  Busy(q)' = Busy(q)
  <2>1. \A d \in Aivs : (pc'[q][d] \in After) = (pc[q][d] \in After)
    BY DEF CoreGoes
  <2> QED BY <2>1 DEF Busy
<1>2. ASSUME NEW q \in Ranks
      PROVE  MarkerInv(q)'
  <2>1. MarkerInv(q)
    BY DEF CInv
  <2> QED BY <1>1, <2>1 DEF MarkerInv, CoreGoes
<1>3. ASSUME NEW q \in Ranks
      PROVE  TurnInv(q)'
  <2>1. TurnInv(q)
    BY DEF CInv
  <2>2. ASSUME NEW d \in Aivs, pc'[q][d] \in {"rows", "flags"}
        PROVE  idx'[q][d] \in Turns(setup, round[q], q, d)
    BY <2>1, <2>2 DEF TurnInv, CoreGoes
  <2> QED BY <2>2 DEF TurnInv, CoreGoes
<1>4. \A q \in Ranks : tokenStatus'[q] = tokenStatus[q] => Taken(q)' = Taken(q)
  BY <1>1 DEF Taken
<1>5. round[p] \in RoundsOf(setup) => round[p] > 0
  BY DEF RoundsOf
<1> QED BY <1>1, <1>2, <1>3, <1>4, <1>5

(* SendRow puts the row of the turn into its own cell.                     *)
LEMMA SendRowRows ==
  ASSUME IInv, DInv, CInv, NEW p \in Ranks, NEW c \in Aivs, SendRow(p, c)
  PROVE  CInv'
<1>1. PICK k, m, q, x, h : /\ k = round[p] /\ m = idx[p][c] /\ q = RankOf(p, c)
                           /\ x = CellOf(p, c) /\ h = Half(k)
  OBVIOUS
<1>2. /\ pc[p][c] = "rows"
      /\ UNCHANGED <<setup, round, combineState, rowFlag, tokenStatus, expandOut>>
  BY DEF SendRow, At
<1>3. /\ setup \in Setups /\ k \in RoundsOf(setup) /\ k \in Nat /\ k > 0 /\ Busy(p)
      /\ m \in Turns(setup, k, p, c) /\ CombineHalf(p) = h
      /\ q \in Ranks /\ x \in CellsOf(setup, k, q) /\ TurnIs(setup, k, p, c, m, q, x)
      /\ expandX[p][RowAt(p, c)] = TokenAt(k, q, x)
  BY <1>1, <1>2, AtTurn
<1>4. rowWin' = [rowWin EXCEPT ![q][h][x] = TokenAt(k, q, x)]
  BY <1>1, <1>3 DEF SendRow
<1>5. CoreGoes(p, c) /\ idx'[p][c] \in Turns(setup, round[p], p, c)
      /\ pc'[p][c] \in {"rows", "flags"}
  BY <1>2, RowStep DEF CoreGoes, After
<1>6. \A r \in Ranks : Busy(r)' = Busy(r) /\ MarkerInv(r)' /\ TurnInv(r)' /\ Taken(r)' = Taken(r)
  BY <1>2, <1>5, CoreGoesOn
<1>7. \A r \in Ranks, d \in Aivs : r # p \/ d # c =>
        RowsOut(r, d)' = RowsOut(r, d) /\ FlagsOut(r, d)' = FlagsOut(r, d)
  <2>1. \A r \in Ranks, d \in Aivs : r # p \/ d # c =>
          pc'[r][d] = pc[r][d] /\ idx'[r][d] = idx[r][d]
    BY <1>5 DEF CoreGoes
  <2> QED BY <1>2, <2>1 DEF RowsOut, FlagsOut
<1>8. RowsOut(p, c) = m /\ RowsOut(p, c)' = m + 1 /\ FlagsOut(p, c)' = FlagsOut(p, c)
  BY <1>1, RowStep
<1>9. \A j, r, y : FlagSent(j, r, y)' = FlagSent(j, r, y)
  BY <1>2, <1>7, <1>8, SentSame
<1>10. \A j \in RoundsOf(setup), r \in Ranks : \A y \in CellsOf(setup, j, r) :
         RowSent(j, r, y)' <=> (RowSent(j, r, y) \/ (j = k /\ r = q /\ y = x))
  <2>1. PICK f, g : f = RowsTable /\ g = RowsTable'
    OBVIOUS
  <2>2. /\ f[p][c] = m /\ g[p][c] = m + 1
        /\ \A r \in Ranks, d \in Aivs : r # p \/ d # c => g[r][d] = f[r][d]
    BY <1>7, <1>8, <2>1 DEF RowsTable
  <2>3. \A j \in RoundsOf(setup), r \in Ranks : \A y \in CellsOf(setup, j, r) :
          SentUpTo(g, j, r, y) <=> (SentUpTo(f, j, r, y) \/ (j = k /\ r = q /\ y = x))
    BY <1>1, <1>2, <2>2, TurnSent
  <2>4. \A j, r, y :
          /\ RowSent(j, r, y) = SentUpTo(f, j, r, y)
          /\ RowSent(j, r, y)' = SentUpTo(g, j, r, y)
    BY <1>2, <2>1, SentTables, SentNext
  <2> QED BY <2>3, <2>4
<1>11. RowTypes'
  <2>1. RowTypes
    BY DEF CInv
  <2> QED BY <1>2, <1>4, <2>1 DEF RowTypes
<1>12. ASSUME NEW r \in Ranks
       PROVE  UpInv(r)' /\ GoneInv(r)'
  <2>1. UpInv(r) /\ GoneInv(r)
    BY DEF CInv
  <2>2. FlagsUp(r)' = FlagsUp(r)
    BY <1>2, <1>6, <1>9 DEF FlagsUp
  <2> QED BY <1>2, <1>9, <2>1, <2>2 DEF UpInv, GoneInv
<1>13. ASSUME NEW r \in Ranks, round[r] > 0
       PROVE  WinInv(r)' /\ TakenInv(r)'
  <2>1. WinInv(r) /\ TakenInv(r)
    BY <1>13 DEF CInv
  <2>2. TakenInv(r)'
    BY <1>2, <1>6, <1>9, <2>1 DEF TakenInv
  <2>3. PICK j, i : j = round[r] /\ i = Half(j)
    OBVIOUS
  <2>4. j \in RoundsOf(setup) /\ j \in Nat /\ j \in {k, k + 1}
    <3>1. j \in {k, k + 1} /\ j \in Nat
      BY <1>1, <1>3, <2>3, AllMet
    <3>2. j <= Len(setup.expertIds)
      BY <2>3 DEF DInv, RankInv
    <3>3. Len(setup.expertIds) \in Nat
      BY <1>3, DispatchAssumption
    <3> QED BY <1>13, <2>3, <3>1, <3>2, <3>3 DEF RoundsOf
  <2>5. ASSUME NEW y \in CellsOf(setup, j, r), RowSent(j, r, y)'
        PROVE  rowWin'[r][i][y] = TokenAt(j, r, y)
    <3>1. RowTypes /\ i \in Halves /\ h \in Halves /\ y \in Rows /\ x \in Rows
      BY <1>1, <1>3, <2>3, <2>4, HalfFacts DEF CInv, CellsOf
    <3>2. CASE j = k /\ r = q /\ y = x
      <4>1. i = h
        BY <1>1, <2>3, <3>2
      <4> QED BY <1>4, <3>1, <3>2, <4>1 DEF RowTypes
    <3>3. CASE ~(j = k /\ r = q /\ y = x)
      <4>1. RowSent(j, r, y)
        BY <1>10, <2>4, <2>5, <3>3
      <4>2. rowWin[r][i][y] = TokenAt(j, r, y)
        BY <2>1, <2>3, <4>1 DEF WinInv
      <4>3. ~(r = q /\ i = h /\ y = x)
        <5>1. j # k => i # h
          BY <1>1, <1>3, <2>3, <2>4, HalfFacts
        <5> QED BY <3>3, <5>1
      <4> QED BY <1>4, <3>1, <4>2, <4>3 DEF RowTypes
    <3> QED BY <3>2, <3>3
  <2>6. WinInv(r)'
    BY <1>2, <2>3, <2>5 DEF WinInv
  <2> QED BY <2>2, <2>6
<1>14. ASSUME NEW r \in Ranks, round[r] > 0, Busy(r)
       PROVE  OutInv(r)'
  <2>1. OutInv(r)
    BY <1>14 DEF CInv
  <2>2. \A d : TokenShare(r, d)' = TokenShare(r, d)
    BY <1>2, SharesKept
  <2>3. \A d \in Aivs : \/ pc'[r][d] = pc[r][d]
                        \/ pc[r][d] = "rows" /\ pc'[r][d] \in {"rows", "flags"}
    BY <1>2, <1>5 DEF CoreGoes
  <2> QED BY <1>2, <2>1, <2>2, <2>3 DEF OutInv
<1> QED BY <1>2, <1>6, <1>11, <1>12, <1>13, <1>14 DEF CInv

(* The flag of a turn is down: the rank it belongs to is still in the      *)
(* round, as it cannot have ended it without this flag.                    *)
LEMMA FlagDown ==
  ASSUME IInv, DInv, CInv, NEW p \in Ranks, NEW c \in Aivs, pc[p][c] = "flags"
  PROVE  /\ ~FlagSent(round[p], RankOf(p, c), CellOf(p, c))
         /\ round[RankOf(p, c)] = round[p]
         /\ CellOf(p, c)[1] \notin Taken(RankOf(p, c))
<1>1. PICK k, q, x : k = round[p] /\ q = RankOf(p, c) /\ x = CellOf(p, c)
  OBVIOUS
<1>2. /\ k \in RoundsOf(setup) /\ k \in Nat /\ k > 0 /\ Busy(p)
      /\ q \in Ranks /\ x \in CellsOf(setup, k, q)
  BY <1>1, AtTurn
<1>3. ~FlagSent(k, q, x)
  <2>1. PICK f : f = FlagsTable
    OBVIOUS
  <2>2. PICK g : g = [f EXCEPT ![p][c] = idx[p][c] + 1]
    OBVIOUS
  <2>3. f[p][c] = idx[p][c]
    BY <2>1 DEF FlagsTable, FlagsOut, After
  <2>4. g[p][c] = idx[p][c] + 1 /\ \A r \in Ranks, d \in Aivs : r # p \/ d # c => g[r][d] = f[r][d]
    BY <2>1, <2>2 DEF FlagsTable
  <2>5. ~SentUpTo(f, k, q, x)
    BY <1>1, <2>3, <2>4, TurnSent
  <2> QED BY <2>1, <2>5, SentTables
<1>4. round[q] = k
  <2>1. round[q] \in {k, k + 1}
    BY <1>1, <1>2, AllMet
  <2>2. round[q] = k + 1 => FlagSent(k, q, x)
    <3>1. GoneInv(q)
      BY <1>2 DEF CInv
    <3>2. k < k + 1
      BY <1>2
    <3> QED BY <1>2, <3>1, <3>2 DEF GoneInv
  <2> QED BY <1>3, <2>1, <2>2
<1>5. x[1] \notin Taken(q)
  <2>1. TakenInv(q)
    BY <1>2, <1>4 DEF CInv
  <2> QED BY <1>2, <1>3, <1>4, <2>1 DEF TakenInv
<1> QED BY <1>1, <1>3, <1>4, <1>5

(* SendFlag raises the flag of its own cell, of which the row is there.    *)
LEMMA SendFlagRows ==
  ASSUME IInv, DInv, CInv, NEW p \in Ranks, NEW c \in Aivs, SendFlag(p, c)
  PROVE  CInv'
<1>1. PICK k, m, q, x, h : /\ k = round[p] /\ m = idx[p][c] /\ q = RankOf(p, c)
                           /\ x = CellOf(p, c) /\ h = Half(k)
  OBVIOUS
<1>2. /\ pc[p][c] = "flags"
      /\ UNCHANGED <<setup, round, combineState, rowWin, tokenStatus, expandOut>>
  BY DEF SendFlag, At
<1>3. /\ setup \in Setups /\ k \in RoundsOf(setup) /\ k \in Nat /\ k > 0 /\ Busy(p)
      /\ CombineHalf(p) = h /\ q \in Ranks /\ x \in CellsOf(setup, k, q)
  BY <1>1, <1>2, AtTurn
<1>4. rowFlag' = [rowFlag EXCEPT ![q][h] = @ \cup {x}]
  BY <1>1, <1>3 DEF SendFlag
<1>5. /\ CoreGoes(p, c) /\ pc'[p][c] \in {"rows", "flags", Waiting(p, c)}
      /\ pc'[p][c] \in {"rows", "flags"} => idx'[p][c] \in Turns(setup, round[p], p, c)
  <2>1. Waiting(p, c) \in After
    BY DEF Waiting, After
  <2> QED BY <1>2, <2>1, FlagStep DEF CoreGoes, After
<1>6. \A r \in Ranks : Busy(r)' = Busy(r) /\ MarkerInv(r)' /\ TurnInv(r)' /\ Taken(r)' = Taken(r)
  BY <1>2, <1>5, CoreGoesOn
<1>7. \A r \in Ranks, d \in Aivs : r # p \/ d # c =>
        RowsOut(r, d)' = RowsOut(r, d) /\ FlagsOut(r, d)' = FlagsOut(r, d)
  <2>1. \A r \in Ranks, d \in Aivs : r # p \/ d # c =>
          pc'[r][d] = pc[r][d] /\ idx'[r][d] = idx[r][d]
    BY <1>5 DEF CoreGoes
  <2> QED BY <1>2, <2>1 DEF RowsOut, FlagsOut
<1>8. FlagsOut(p, c) = m /\ FlagsOut(p, c)' = m + 1 /\ RowsOut(p, c)' = RowsOut(p, c)
  BY <1>1, FlagStep
<1>9. \A j, r, y : RowSent(j, r, y)' = RowSent(j, r, y)
  BY <1>2, <1>7, <1>8, SentSame
<1>10. \A j \in RoundsOf(setup), r \in Ranks : \A y \in CellsOf(setup, j, r) :
         FlagSent(j, r, y)' <=> (FlagSent(j, r, y) \/ (j = k /\ r = q /\ y = x))
  <2>1. PICK f, g : f = FlagsTable /\ g = FlagsTable'
    OBVIOUS
  <2>2. /\ f[p][c] = m /\ g[p][c] = m + 1
        /\ \A r \in Ranks, d \in Aivs : r # p \/ d # c => g[r][d] = f[r][d]
    BY <1>7, <1>8, <2>1 DEF FlagsTable
  <2>3. \A j \in RoundsOf(setup), r \in Ranks : \A y \in CellsOf(setup, j, r) :
          SentUpTo(g, j, r, y) <=> (SentUpTo(f, j, r, y) \/ (j = k /\ r = q /\ y = x))
    BY <1>1, <1>2, <2>2, TurnSent
  <2>4. \A j, r, y : /\ FlagSent(j, r, y) = SentUpTo(f, j, r, y)
                     /\ FlagSent(j, r, y)' = SentUpTo(g, j, r, y)
    BY <1>2, <2>1, SentTables, SentNext
  <2> QED BY <2>3, <2>4
<1>11. RowTypes'
  <2>1. RowTypes
    BY DEF CInv
  <2> QED BY <1>2, <1>4, <2>1 DEF RowTypes
<1>12. ~FlagSent(k, q, x) /\ round[q] = k /\ x[1] \notin Taken(q)
  BY <1>1, <1>2, FlagDown
<1>13. \A r \in Ranks : round[r] > 0 => round[r] \in RoundsOf(setup)
  <2> SUFFICES ASSUME NEW r \in Ranks, round[r] > 0
               PROVE  round[r] \in RoundsOf(setup)
    OBVIOUS
  <2>1. round[r] \in Nat /\ round[r] <= Len(setup.expertIds) /\ Len(setup.expertIds) \in Nat
    BY <1>3, RoundFacts, DispatchAssumption DEF DInv, RankInv
  <2> QED BY <2>1 DEF RoundsOf
<1>14. ASSUME NEW r \in Ranks
       PROVE  UpInv(r)'
  <2>1. UpInv(r) /\ RowTypes
    BY DEF CInv
  <2>2. CASE r = q
    <3>1. FlagsUp(q)' = FlagsUp(q) \cup {x}
      BY <1>2, <1>3, <1>6, <1>10, <1>12 DEF FlagsUp
    <3>2. rowFlag'[q][h] = rowFlag[q][h] \cup {x}
          /\ \A i \in Halves : i # h => rowFlag'[q][i] = rowFlag[q][i]
      <4>1. h \in Halves
        BY <1>1, <1>3, HalfFacts
      <4> QED BY <1>3, <1>4, <2>1, <4>1 DEF RowTypes
    <3> QED BY <1>1, <1>2, <1>3, <1>12, <2>1, <2>2, <3>1, <3>2 DEF UpInv
  <2>3. CASE r # q
    <3>1. rowFlag'[r] = rowFlag[r]
      BY <1>4, <2>1, <2>3 DEF RowTypes
    <3>2. round[r] > 0 => FlagsUp(r)' = FlagsUp(r)
      BY <1>2, <1>6, <1>10, <1>13, <2>3 DEF FlagsUp
    <3> QED BY <1>2, <2>1, <3>1, <3>2 DEF UpInv
  <2> QED BY <2>2, <2>3
<1>15. ASSUME NEW r \in Ranks
       PROVE  GoneInv(r)'
  <2>1. GoneInv(r)
    BY DEF CInv
  <2> QED BY <1>2, <1>10, <2>1 DEF GoneInv
<1>16. ASSUME NEW r \in Ranks, round[r] > 0
       PROVE  WinInv(r)' /\ TakenInv(r)'
  <2>1. WinInv(r) /\ TakenInv(r) /\ round[r] \in RoundsOf(setup)
    BY <1>13, <1>16 DEF CInv
  <2>2. WinInv(r)'
    BY <1>2, <1>9, <2>1 DEF WinInv
  <2>3. TakenInv(r)'
    BY <1>2, <1>6, <1>10, <2>1 DEF TakenInv
  <2> QED BY <2>2, <2>3
<1>17. ASSUME NEW r \in Ranks, round[r] > 0, Busy(r)
       PROVE  OutInv(r)'
  <2>1. OutInv(r)
    BY <1>17 DEF CInv
  <2>2. \A d : TokenShare(r, d)' = TokenShare(r, d)
    BY <1>2, SharesKept
  <2>3. \A d \in Aivs : \/ pc'[r][d] = pc[r][d]
                        \/ pc[r][d] = "flags" /\ pc'[r][d] \in {"rows", "flags", "gather"}
                        \/ pc[r][d] = "flags" /\ pc'[r][d] = "idle" /\ TokenShare(r, d) = {}
    BY <1>2, <1>5 DEF CoreGoes, Waiting
  <2> QED BY <1>2, <2>1, <2>2, <2>3 DEF OutInv
<1> QED BY <1>2, <1>6, <1>11, <1>14, <1>15, <1>16, <1>17 DEF CInv

(* The places of a core that has sent what it had to.                      *)
Adds == {"gather", "add", "idle"}

(* Nothing is sent by a step between them.                                 *)
LEMMA AddingSends ==
  ASSUME IInv, CInv, NEW p \in Ranks, NEW c \in Aivs, CoreGoes(p, c),
         pc[p][c] \in Adds, pc'[p][c] \in Adds
  PROVE  /\ \A k, q, x : RowSent(k, q, x)' = RowSent(k, q, x)
         /\ \A k, q, x : FlagSent(k, q, x)' = FlagSent(k, q, x)
         /\ \A q \in Ranks : Busy(q)' = Busy(q) /\ MarkerInv(q)' /\ TurnInv(q)'
         /\ \A q \in Ranks : tokenStatus'[q] = tokenStatus[q] => Taken(q)' = Taken(q)
<1>1. \A q \in Ranks, d \in Aivs :
        RowsOut(q, d)' = RowsOut(q, d) /\ FlagsOut(q, d)' = FlagsOut(q, d)
  <2> TAKE q \in Ranks, d \in Aivs
  <2>1. CASE q = p /\ d = c
    BY <2>1 DEF CoreGoes, Adds, After, RowsOut, FlagsOut
  <2>2. CASE ~(q = p /\ d = c)
    <3>1. pc'[q][d] = pc[q][d] /\ idx'[q][d] = idx[q][d]
      BY <2>2 DEF CoreGoes
    <3> QED BY <3>1 DEF CoreGoes, RowsOut, FlagsOut
  <2> QED BY <2>1, <2>2
<1>2. UNCHANGED <<setup, round>>
  BY DEF CoreGoes
<1>3. pc'[p][c] \notin {"rows", "flags"}
  BY DEF Adds
<1> QED BY <1>1, <1>2, <1>3, SentSame, CoreGoesOn

(* A rank whose cores stay where they are keeps its outputs.               *)
LEMMA OthersRest ==
  ASSUME CInv, NEW p \in Ranks, NEW c \in Aivs, CoreGoes(p, c), NEW q \in Ranks \ {p},
         tokenStatus'[q] = tokenStatus[q], expandOut'[q] = expandOut[q], round[q] > 0, Busy(q)
  PROVE  OutInv(q)'
<1>1. OutInv(q) /\ UNCHANGED <<setup, round>> /\ \A d \in Aivs : pc'[q][d] = pc[q][d]
  BY DEF CInv, CoreGoes
<1>2. \A d : TokenShare(q, d)' = TokenShare(q, d)
  BY <1>1, SharesKept
<1> QED BY <1>1, <1>2 DEF OutInv

(* A core that waits or adds is in the round and in the half of its rank.  *)
LEMMA AtAdding ==
  ASSUME IInv, DInv, CInv, NEW p \in Ranks, NEW c \in Aivs, pc[p][c] \in {"gather", "add"}
  PROVE  /\ setup \in Setups /\ round[p] \in RoundsOf(setup) /\ round[p] \in Nat /\ round[p] > 0
         /\ Busy(p) /\ CombineHalf(p) = Half(round[p]) /\ Half(round[p]) \in Halves
         /\ Taken(p) = tokenStatus[p]
         /\ rowFlag[p][Half(round[p])] = FlagsUp(p)
<1>1. Busy(p)
  BY DEF IInv, PhaseInv, Waits, Copies, After, Busy
<1>2. setup \in Setups /\ round[p] \in Rounds /\ round[p] \in Nat
  BY RoundFacts DEF IInv, TypeInv
<1>3. round[p] > 0
  BY <1>2 DEF Rounds
<1>4. round[p] \in RoundsOf(setup)
  <2>1. round[p] <= Len(setup.expertIds) /\ Len(setup.expertIds) \in Nat
    BY <1>2, DispatchAssumption DEF DInv, RankInv
  <2> QED BY <1>2, <1>3, <2>1 DEF RoundsOf
<1>5. CombineHalf(p) = Half(round[p])
  <2>1. MarkerInv(p)
    BY DEF CInv
  <2> QED BY <1>1, <2>1 DEF MarkerInv, CombineHalf, Half
<1>6. Half(round[p]) \in Halves
  BY <1>2, HalfFacts
<1>7. rowFlag[p][Half(round[p])] = FlagsUp(p)
  <2>1. UpInv(p)
    BY DEF CInv
  <2> QED BY <1>3, <1>6, <2>1 DEF UpInv
<1> QED BY <1>1, <1>2, <1>3, <1>4, <1>5, <1>6, <1>7 DEF Taken

(* When the flags of a token are as many as its rows, they are all of them.*)
LEMMA AllFlagsUp ==
  ASSUME IInv, DInv, CInv, NEW p \in Ranks, NEW c \in Aivs, pc[p][c] = "gather",
         NEW t \in TokenShare(p, c), Cardinality(FlagsOf(p, t)) = TargetCount(p, t)
  PROVE  \A x \in CellsOf(setup, round[p], p) : x[1] = t => FlagSent(round[p], p, x)
<1>1. PICK k, A, F : k = round[p] /\ A = AddsOf(setup, k, p, t) /\ F = FlagsOf(p, t)
  OBVIOUS
<1>2. /\ setup \in Setups /\ k \in RoundsOf(setup) /\ t \in Tokens
      /\ F = {x \in FlagsUp(p) : x[1] = t}
  BY <1>1, AtAdding, TokenShares DEF FlagsOf
<1>3. IsFiniteSet(A) /\ Cardinality(A) = TargetCount(p, t)
  BY <1>1, <1>2, AddsCount DEF TargetCount, Row
<1>4. PICK B : B = {<<t, j>> : j \in A}
  OBVIOUS
<1>5. IsFiniteSet(B) /\ Cardinality(B) = Cardinality(A)
  <2>1. PICK f : f = [j \in A |-> <<t, j>>]
    OBVIOUS
  <2>2. f \in [A -> B] /\ \A y \in B : \E j \in A : f[j] = y
    BY <1>4, <2>1
  <2>3. \A i, j \in A : f[i] = f[j] => i = j
    BY <2>1
  <2> QED BY <1>3, <2>2, <2>3, SameSize
<1>6. F \subseteq B
  BY <1>1, <1>2, <1>4 DEF FlagsUp, CellsOf, Rows
<1>7. F = B
  <2>1. Cardinality(F) = Cardinality(B)
    BY <1>1, <1>3, <1>5
  <2> QED BY <1>5, <1>6, <2>1, FS_Subset
<1>8. ASSUME NEW x \in CellsOf(setup, k, p), x[1] = t
      PROVE  FlagSent(k, p, x)
  <2>1. x = <<t, x[2]>> /\ x[2] \in A
    BY <1>1, <1>8 DEF CellsOf, Rows
  <2>2. x \in F
    BY <1>4, <1>7, <2>1
  <2> QED BY <1>1, <1>2, <2>2 DEF FlagsUp
<1> QED BY <1>1, <1>8

(* WaitDispatch lowers the flags of a token whose rows are all there.      *)
LEMMA WaitDispatchRows ==
  ASSUME IInv, DInv, CInv, NEW p \in Ranks, NEW c \in Aivs, WaitDispatch(p, c)
  PROVE  CInv'
<1>1. PICK k, h : k = round[p] /\ h = Half(k)
  OBVIOUS
<1>2. /\ pc[p][c] = "gather" /\ pc' = [pc EXCEPT ![p][c] = "add"]
      /\ UNCHANGED <<setup, round, idx, combineState, rowWin, expandOut>>
  BY DEF WaitDispatch, At, Goto
<1>3. /\ setup \in Setups /\ k \in RoundsOf(setup) /\ k \in Nat /\ k > 0 /\ Busy(p)
      /\ CombineHalf(p) = h /\ h \in Halves /\ Taken(p) = tokenStatus[p]
      /\ rowFlag[p][h] = FlagsUp(p)
  BY <1>1, <1>2, AtAdding
<1>4. PICK t \in TokenShare(p, c) \ tokenStatus[p] :
        /\ Cardinality(FlagsOf(p, t)) = TargetCount(p, t)
        /\ rowFlag' = [rowFlag EXCEPT ![p][h] = FlagsReset(p, t)]
        /\ tokenStatus' = [tokenStatus EXCEPT ![p] = @ \cup {t}]
  BY <1>3 DEF WaitDispatch
<1>5. pc \in [Ranks -> [Aivs -> Places]] /\ RowTypes
  BY DEF IInv, TypeInv, Places, CInv
<1>6. pc'[p][c] = "add" /\ \A q \in Ranks, d \in Aivs : q # p \/ d # c => pc'[q][d] = pc[q][d]
  BY <1>2, <1>5
<1>7. CoreGoes(p, c) /\ pc[p][c] \in Adds /\ pc'[p][c] \in Adds
  BY <1>2, <1>6 DEF CoreGoes, After, Adds
<1>8. /\ \A j, q, x : RowSent(j, q, x)' = RowSent(j, q, x)
      /\ \A j, q, x : FlagSent(j, q, x)' = FlagSent(j, q, x)
      /\ \A q \in Ranks : Busy(q)' = Busy(q) /\ MarkerInv(q)' /\ TurnInv(q)'
      /\ \A q \in Ranks : tokenStatus'[q] = tokenStatus[q] => Taken(q)' = Taken(q)
  BY <1>7, AddingSends
<1>9. /\ tokenStatus'[p] = tokenStatus[p] \cup {t}
      /\ \A q \in Ranks \ {p} : tokenStatus'[q] = tokenStatus[q] /\ rowFlag'[q] = rowFlag[q]
      /\ rowFlag'[p][h] = {x \in FlagsUp(p) : x[1] # t}
      /\ \A i \in Halves \ {h} : rowFlag'[p][i] = rowFlag[p][i]
  <2>1. FlagsReset(p, t) = {x \in FlagsUp(p) : x[1] # t}
    BY <1>3 DEF FlagsReset, FlagsOf
  <2> QED BY <1>3, <1>4, <1>5, <2>1 DEF RowTypes
<1>10. Taken(p)' = Taken(p) \cup {t}
  BY <1>3, <1>8, <1>9 DEF Taken
<1>11. RowTypes'
  BY <1>2, <1>4, <1>5 DEF RowTypes
<1>12. \A x \in CellsOf(setup, k, p) : x[1] = t => FlagSent(k, p, x)
  BY <1>1, <1>2, <1>4, AllFlagsUp
<1>13. ASSUME NEW q \in Ranks
       PROVE  GoneInv(q)'
  <2>1. GoneInv(q)
    BY DEF CInv
  <2> QED BY <1>2, <1>8, <2>1 DEF GoneInv
<1>14. ASSUME NEW q \in Ranks
       PROVE  UpInv(q)'
  <2>1. UpInv(q)
    BY DEF CInv
  <2>2. CASE q = p
    <3>1. FlagsUp(p)' = {x \in FlagsUp(p) : x[1] # t}
      BY <1>2, <1>8, <1>10 DEF FlagsUp
    <3> QED BY <1>1, <1>2, <1>9, <2>1, <2>2, <1>3, <3>1 DEF UpInv
  <2>3. CASE q # p
    <3>1. FlagsUp(q)' = FlagsUp(q)
      BY <1>2, <1>8, <1>9, <2>3 DEF FlagsUp
    <3> QED BY <1>2, <1>9, <2>1, <2>3, <3>1 DEF UpInv
  <2> QED BY <2>2, <2>3
<1>15. \A d \in Aivs : TokenShare(p, d) \subseteq TakersOf(setup, k, p)
  BY <1>1, <1>3, TokenShares
<1>16. ASSUME NEW q \in Ranks, round[q] > 0
       PROVE  WinInv(q)' /\ TakenInv(q)'
  <2>1. WinInv(q) /\ TakenInv(q)
    BY <1>16 DEF CInv
  <2>2. WinInv(q)'
    BY <1>2, <1>8, <2>1 DEF WinInv
  <2>3. CASE q = p
    <3>1. Taken(p) \subseteq TakersOf(setup, k, p)
          /\ \A x \in CellsOf(setup, k, p) : x[1] \in Taken(p) => FlagSent(k, p, x)
      BY <1>1, <2>1, <2>3 DEF TakenInv
    <3>2. Taken(p)' \subseteq TakersOf(setup, k, p)
      BY <1>10, <1>15, <3>1
    <3>3. \A x \in CellsOf(setup, k, p) : x[1] \in Taken(p)' => FlagSent(k, p, x)'
      BY <1>8, <1>10, <1>12, <3>1
    <3> QED BY <1>1, <1>2, <2>2, <2>3, <3>2, <3>3 DEF TakenInv
  <2>4. CASE q # p
    <3>1. Taken(q)' = Taken(q)
      BY <1>8, <1>9, <2>4
    <3> QED BY <1>2, <1>8, <2>1, <2>2, <3>1 DEF TakenInv
  <2> QED BY <2>3, <2>4
<1>17. ASSUME NEW q \in Ranks, round[q] > 0, Busy(q)
       PROVE  OutInv(q)'
  <2>1. CASE q # p
    <3>1. q \in Ranks \ {p} /\ tokenStatus'[q] = tokenStatus[q] /\ expandOut'[q] = expandOut[q]
      BY <1>2, <1>9, <2>1
    <3> QED BY <1>7, <1>17, <3>1, OthersRest
  <2>2. CASE q = p
    <3>1. OutInv(p)
      BY <1>17, <2>2 DEF CInv
    <3>2. \A d : TokenShare(p, d)' = TokenShare(p, d)
      BY <1>2, SharesKept
    <3>3. \A s \in Tokens : expandOut'[p][s] # NoSum =>
            /\ s \in tokenStatus'[p]
            /\ expandOut'[p][s] = [j \in AddsOf(setup, k, p, s) |-> <<k, p, s, j>>]
      BY <1>1, <1>2, <1>9, <3>1 DEF OutInv
    <3>4. ASSUME NEW d \in Aivs, d # c
          PROVE  TokenShare(p, d) \cap tokenStatus'[p] = TokenShare(p, d) \cap tokenStatus[p]
      <4>1. TokenShare(p, c) \cap TokenShare(p, d) = {}
        BY <1>1, <1>3, <3>4, TokenShares
      <4> QED BY <1>4, <1>9, <4>1
    <3>5. {s \in TokenShare(p, c) \cap tokenStatus[p] : expandOut[p][s] = NoSum} = {}
      BY <1>2, <3>1 DEF OutInv
    <3>6. ASSUME NEW d \in Aivs
          PROVE  LET mine == TokenShare(p, d) \cap tokenStatus'[p]
                     open == {s \in mine : expandOut'[p][s] = NoSum}
                 IN /\ pc'[p][d] \in {"rows", "flags"} => mine = {}
                    /\ pc'[p][d] \in {"gather", "idle"} => open = {}
                    /\ pc'[p][d] = "add" => \A s, u \in open : s = u
                    /\ pc'[p][d] = "idle" => TokenShare(p, d) \subseteq tokenStatus'[p]
      <4>1. CASE d # c
        <5>1. pc'[p][d] = pc[p][d]
          BY <1>6, <4>1
        <5> QED BY <1>2, <1>9, <3>1, <3>4, <4>1, <5>1 DEF OutInv
      <4>2. CASE d = c
        <5>1. \A s \in TokenShare(p, c) \cap tokenStatus'[p] :
                expandOut'[p][s] = NoSum => s = t
          BY <1>2, <1>9, <3>5
        <5> QED BY <1>6, <4>2, <5>1
      <4> QED BY <4>1, <4>2
    <3> QED BY <1>1, <1>2, <2>2, <3>2, <3>3, <3>6 DEF OutInv
  <2> QED BY <2>1, <2>2
<1> QED BY <1>2, <1>8, <1>11, <1>13, <1>14, <1>16, <1>17 DEF CInv

(* ProcessExpert adds up the rows of the token counted last.               *)
LEMMA ProcessExpertRows ==
  ASSUME IInv, DInv, CInv, NEW p \in Ranks, NEW c \in Aivs, ProcessExpert(p, c)
  PROVE  CInv'
<1>1. PICK k, h : k = round[p] /\ h = Half(k)
  OBVIOUS
<1>2. /\ pc[p][c] = "add"
      /\ pc' = [pc EXCEPT ![p][c] =
           IF TokenShare(p, c) \subseteq tokenStatus[p] THEN "idle" ELSE "gather"]
      /\ UNCHANGED <<setup, round, idx, combineState, rowWin, rowFlag, tokenStatus>>
  BY DEF ProcessExpert, At, Goto
<1>3. /\ setup \in Setups /\ k \in RoundsOf(setup) /\ k \in Nat /\ k > 0 /\ Busy(p)
      /\ CombineHalf(p) = h /\ h \in Halves /\ Taken(p) = tokenStatus[p]
  BY <1>1, <1>2, AtAdding
<1>4. PICK t \in TokenShare(p, c) \cap tokenStatus[p] :
        /\ expandOut[p][t] = NoSum
        /\ expandOut' = [expandOut EXCEPT ![p][t] =
             [j \in RowsToAdd(p, t) |-> rowWin[p][h][<<t, j>>]]]
  BY <1>3 DEF ProcessExpert
<1>5. pc \in [Ranks -> [Aivs -> Places]] /\ RowTypes
  BY DEF IInv, TypeInv, Places, CInv
<1>6. /\ pc'[p][c] \in {"idle", "gather"}
      /\ pc'[p][c] = "idle" => TokenShare(p, c) \subseteq tokenStatus[p]
      /\ \A q \in Ranks, d \in Aivs : q # p \/ d # c => pc'[q][d] = pc[q][d]
  BY <1>2, <1>5
<1>7. CoreGoes(p, c) /\ pc[p][c] \in Adds /\ pc'[p][c] \in Adds
  BY <1>2, <1>6 DEF CoreGoes, After, Adds
<1>8. /\ \A j, q, x : RowSent(j, q, x)' = RowSent(j, q, x)
      /\ \A j, q, x : FlagSent(j, q, x)' = FlagSent(j, q, x)
      /\ \A q \in Ranks : Busy(q)' = Busy(q) /\ MarkerInv(q)' /\ TurnInv(q)'
      /\ \A q \in Ranks : tokenStatus'[q] = tokenStatus[q] => Taken(q)' = Taken(q)
  BY <1>7, AddingSends
<1>9. \A q \in Ranks : Taken(q)' = Taken(q)
  BY <1>2, <1>8
<1>10. PICK A : A = AddsOf(setup, k, p, t)
  OBVIOUS
<1>11. t \in TakersOf(setup, k, p) /\ t \in Tokens /\ RowsToAdd(p, t) = A
  BY <1>1, <1>3, <1>4, <1>10, TokenShares
<1>12. \A j \in A : rowWin[p][h][<<t, j>>] = <<k, p, t, j>>
  <2> TAKE j \in A
  <2>1. <<t, j>> \in CellsOf(setup, k, p)
    <3>1. j \in 0 .. AxisK + EpWorldSize - 1
      BY <1>3, <1>10, <1>11, AddsCount
    <3> QED BY <1>10, <1>11, <3>1 DEF CellsOf, Rows
  <2>2. PICK x \in CellsOf(setup, k, p) : x = <<t, j>>
    BY <2>1
  <2>3. FlagSent(k, p, x)
    <3>1. TakenInv(p)
      BY <1>1, <1>3 DEF CInv
    <3>2. x[1] \in Taken(p)
      BY <1>3, <1>4, <2>2
    <3> QED BY <1>1, <3>1, <3>2 DEF TakenInv
  <2>4. RowSent(k, p, x)
    <3> SUFFICES ASSUME NEW r \in Ranks, NEW d \in Aivs, NEW m \in Turns(setup, k, r, d),
                        TurnIs(setup, k, r, d, m, p, x)
                 PROVE  round[r] > k \/ (round[r] = k /\ m < RowsOut(r, d))
      BY DEF RowSent
    <3>1. round[r] > k \/ (round[r] = k /\ m < FlagsOut(r, d))
      BY <2>3 DEF FlagSent
    <3>2. round[r] = k => /\ RowsOut(r, d) \in Nat /\ FlagsOut(r, d) \in Nat
                          /\ FlagsOut(r, d) <= RowsOut(r, d)
      BY <1>3, FlagsBehind
    <3>3. m \in Nat
      BY DEF Turns
    <3> QED BY <3>1, <3>2, <3>3
  <2>5. WinInv(p)
    BY <1>1, <1>3 DEF CInv
  <2>6. rowWin[p][h][x] = TokenAt(k, p, x)
    BY <1>1, <2>4, <2>5 DEF WinInv
  <2> QED BY <2>2, <2>6 DEF TokenAt
<1>13. /\ expandOut'[p][t] = [j \in A |-> <<k, p, t, j>>]
       /\ \A s \in Tokens \ {t} : expandOut'[p][s] = expandOut[p][s]
       /\ \A q \in Ranks \ {p} : expandOut'[q] = expandOut[q]
  <2>1. [j \in RowsToAdd(p, t) |-> rowWin[p][h][<<t, j>>]] = [j \in A |-> <<k, p, t, j>>]
    BY <1>11, <1>12
  <2>2. expandOut' = [expandOut EXCEPT ![p][t] = [j \in A |-> <<k, p, t, j>>]]
    BY <1>4, <2>1
  <2> QED BY <1>5, <1>11, <2>2 DEF RowTypes
<1>14. expandOut'[p][t] # NoSum
  <2>1. DOMAIN setup.expertIds[k][p][t] # {}
    BY <1>3, <1>11, TakerFacts
  <2>2. A # {}
    BY <1>10, <2>1 DEF AddsOf
  <2>3. DOMAIN [j \in A |-> <<k, p, t, j>>] # DOMAIN NoSum
    BY <2>2 DEF NoSum
  <2> QED BY <1>13, <2>3
<1>15. RowTypes'
  BY <1>2, <1>4, <1>5 DEF RowTypes
<1>16. ASSUME NEW q \in Ranks
       PROVE  UpInv(q)' /\ GoneInv(q)'
  <2>1. UpInv(q) /\ GoneInv(q)
    BY DEF CInv
  <2>2. FlagsUp(q)' = FlagsUp(q)
    BY <1>2, <1>8, <1>9 DEF FlagsUp
  <2> QED BY <1>2, <1>8, <2>1, <2>2 DEF UpInv, GoneInv
<1>17. ASSUME NEW q \in Ranks, round[q] > 0
       PROVE  WinInv(q)' /\ TakenInv(q)'
  <2>1. WinInv(q) /\ TakenInv(q)
    BY <1>17 DEF CInv
  <2> QED BY <1>2, <1>8, <1>9, <2>1 DEF WinInv, TakenInv
<1>18. ASSUME NEW q \in Ranks, round[q] > 0, Busy(q)
       PROVE  OutInv(q)'
  <2>1. CASE q # p
    <3>1. q \in Ranks \ {p} /\ tokenStatus'[q] = tokenStatus[q] /\ expandOut'[q] = expandOut[q]
      BY <1>2, <1>13, <2>1
    <3> QED BY <1>7, <1>18, <3>1, OthersRest
  <2>2. CASE q = p
    <3>1. OutInv(p)
      BY <1>18, <2>2 DEF CInv
    <3>2. \A d : TokenShare(p, d)' = TokenShare(p, d)
      BY <1>2, SharesKept
    <3>3. ASSUME NEW s \in Tokens, expandOut'[p][s] # NoSum
          PROVE  /\ s \in tokenStatus[p]
                 /\ expandOut'[p][s] = [j \in AddsOf(setup, k, p, s) |-> <<k, p, s, j>>]
      <4>1. CASE s = t
        BY <1>4, <1>10, <1>13, <4>1
      <4>2. CASE s # t
        BY <1>1, <1>13, <3>1, <3>3, <4>2 DEF OutInv
      <4> QED BY <4>1, <4>2
    <3>4. ASSUME NEW d \in Aivs
          PROVE  LET mine == TokenShare(p, d) \cap tokenStatus[p]
                     open == {s \in mine : expandOut'[p][s] = NoSum}
                 IN /\ pc'[p][d] \in {"rows", "flags"} => mine = {}
                    /\ pc'[p][d] \in {"gather", "idle"} => open = {}
                    /\ pc'[p][d] = "add" => \A s, u \in open : s = u
                    /\ pc'[p][d] = "idle" => TokenShare(p, d) \subseteq tokenStatus[p]
      <4>0. TokenShare(p, d) \subseteq Tokens
        BY <1>1, <1>3, TokenShares
      <4>1. CASE d # c
        <5>1. pc'[p][d] = pc[p][d]
          BY <1>6, <4>1
        <5>2. TokenShare(p, c) \cap TokenShare(p, d) = {}
          BY <1>1, <1>3, <4>1, TokenShares
        <5>3. \A s \in TokenShare(p, d) : expandOut'[p][s] = expandOut[p][s]
          BY <1>4, <1>13, <4>0, <5>2
        <5> QED BY <3>1, <5>1, <5>3 DEF OutInv
      <4>2. CASE d = c
        <5>1. \A s \in TokenShare(p, c) \cap tokenStatus[p] : expandOut[p][s] = NoSum => s = t
          BY <1>2, <1>4, <3>1 DEF OutInv
        <5>2. \A s \in TokenShare(p, c) \cap tokenStatus[p] : expandOut'[p][s] # NoSum
          BY <1>13, <1>14, <4>0, <4>2, <5>1
        <5> QED BY <1>6, <4>2, <5>2
      <4> QED BY <4>1, <4>2
    <3> QED BY <1>1, <1>2, <2>2, <3>2, <3>3, <3>4 DEF OutInv
  <2> QED BY <2>1, <2>2
<1> QED BY <1>2, <1>8, <1>15, <1>16, <1>17, <1>18 DEF CInv

(* A combine starts with nothing sent and nothing counted.                 *)
LEMMA StartCombineRows ==
  ASSUME IInv, DInv, CInv, NEW p \in Ranks, StartCombine(p)
  PROVE  CInv'
<1>1. PICK k : k = round[p]
  OBVIOUS
<1>2. /\ \A c \in Aivs : pc[p][c] = "dispatched"
      /\ UNCHANGED <<setup, round, idx, rowWin, rowFlag>>
      /\ combineState' = [combineState EXCEPT ![p] = 1 - @]
      /\ tokenStatus' = [tokenStatus EXCEPT ![p] = {}]
      /\ expandOut' = [expandOut EXCEPT ![p] = [t \in Tokens |-> NoSum]]
      /\ pc' = [pc EXCEPT ![p] =
           [c \in Aivs |-> IF SendCntNum(p, c) = 0 THEN Waiting(p, c) ELSE "rows"]]
  BY DEF StartCombine, AllAt, TurnedMarker, GotoAll
<1>3. pc \in [Ranks -> [Aivs -> Places]] /\ RowTypes
  BY DEF IInv, TypeInv, Places, CInv
<1>4. /\ \A q \in Ranks \ {p} : pc'[q] = pc[q]
      /\ \A c \in Aivs : pc'[p][c] = IF SendCntNum(p, c) = 0 THEN Waiting(p, c) ELSE "rows"
  BY <1>2, <1>3
<1>5. Dispatched(p)
  BY <1>2 DEF Dispatched, AllAt
<1>6. /\ setup \in Setups /\ k \in RoundsOf(setup) /\ k \in Nat /\ k > 0
      /\ \A c \in Aivs : /\ SendCntNum(p, c) = BackNum(setup, k, p, c)
                          /\ BackNum(setup, k, p, c) \in Nat
  <2>1. /\ setup \in Setups /\ k \in RoundsOf(setup)
        /\ \A c \in Aivs : SendCntNum(p, c) = BackNum(setup, k, p, c)
    BY <1>1, <1>5, BackCount
  <2> QED BY <2>1, TurnRows DEF RoundsOf
<1>7. \A c \in Aivs : idx[p][c] = 0
  BY <1>2 DEF DInv, RankInv, LoopInv
<1>8. ~Busy(p) /\ Taken(p) = {} /\ Busy(p)' /\ Taken(p)' = {}
  <2>1. ~Busy(p)
    BY <1>2, CoreZero DEF Busy, After
  <2>2. Busy(p)'
    BY <1>4 DEF Busy, After, Waiting
  <2>3. tokenStatus'[p] = {}
    BY <1>2, <1>3 DEF RowTypes
  <2> QED BY <2>1, <2>2, <2>3 DEF Taken
<1>9. \A q \in Ranks \ {p} : /\ UNCHANGED <<combineState[q], tokenStatus[q], expandOut[q]>>
                              /\ Busy(q)' = Busy(q) /\ Taken(q)' = Taken(q)
  <2> TAKE q \in Ranks \ {p}
  <2>1. UNCHANGED <<combineState[q], tokenStatus[q], expandOut[q]>>
    BY <1>2
  <2>2. Busy(q)' = Busy(q)
    BY <1>4 DEF Busy
  <2> QED BY <2>1, <2>2 DEF Taken
<1>10. \A q \in Ranks, c \in Aivs :
         RowsOut(q, c)' = RowsOut(q, c) /\ FlagsOut(q, c)' = FlagsOut(q, c)
  <2> TAKE q \in Ranks, c \in Aivs
  <2>1. CASE q # p
    BY <1>2, <1>4, <2>1 DEF RowsOut, FlagsOut
  <2>2. CASE q = p
    <3>1. RowsOut(p, c) = 0 /\ FlagsOut(p, c) = 0
      BY <1>2 DEF RowsOut, FlagsOut, After
    <3>2. CASE SendCntNum(p, c) = 0
      <4>1. pc'[p][c] \in {"gather", "idle"}
        BY <1>4, <3>2 DEF Waiting
      <4>2. BackNum(setup, round[p], p, c)' = 0
        BY <1>1, <1>2, <1>6, <3>2
      <4>3. RowsOut(p, c)' = 0 /\ FlagsOut(p, c)' = 0
        BY <4>1, <4>2 DEF RowsOut, FlagsOut, After
      <4> QED BY <2>2, <3>1, <4>3
    <3>3. CASE SendCntNum(p, c) # 0
      <4>1. pc'[p][c] = "rows" /\ idx'[p][c] = 0
        BY <1>2, <1>4, <1>7, <3>3
      <4>2. (0 \div SendSlotNum) * SendSlotNum = 0
        <5>1. PICK S \in Nat \ {0} : S = SendSlotNum
          BY CombineAssumption
        <5>2. 0 \in Nat
          OBVIOUS
        <5>3. (0 \div S) * S \in Nat /\ (0 \div S) * S <= 0
          BY <5>2, BatchFacts
        <5> QED BY <5>1, <5>3
      <4>3. RowsOut(p, c)' = 0 /\ FlagsOut(p, c)' = 0
        BY <4>1, <4>2 DEF RowsOut, FlagsOut, After
      <4> QED BY <2>2, <3>1, <4>3
    <3> QED BY <3>2, <3>3
  <2> QED BY <2>1, <2>2
<1>11. /\ \A j, q, x : RowSent(j, q, x)' = RowSent(j, q, x)
       /\ \A j, q, x : FlagSent(j, q, x)' = FlagSent(j, q, x)
  BY <1>2, <1>10, SentSame
<1>12. RowTypes'
  BY <1>2, <1>3 DEF RowTypes
<1>13. ASSUME NEW q \in Ranks
       PROVE  MarkerInv(q)' /\ TurnInv(q)'
  <2>1. MarkerInv(q) /\ TurnInv(q)
    BY DEF CInv
  <2>2. CASE q # p
    BY <1>2, <1>4, <1>9, <2>1, <2>2 DEF MarkerInv, TurnInv
  <2>3. CASE q = p
    <3>1. combineState'[p] = 1 - combineState[p]
      BY <1>2, <1>3 DEF RowTypes
    <3>2. combineState[p] = 1 - (k % 2)
      BY <1>1, <1>8, <2>1, <2>3 DEF MarkerInv, Half
    <3>3. k % 2 \in 0 .. 1
      BY <1>6, HalfFacts
    <3>4. combineState'[p] = k % 2
      BY <3>1, <3>2, <3>3
    <3>5. MarkerInv(p)'
      BY <1>1, <1>2, <1>8, <3>4 DEF MarkerInv
    <3>6. ASSUME NEW c \in Aivs, pc'[p][c] \in {"rows", "flags"}
          PROVE  idx'[p][c] \in Turns(setup, k, p, c)
      <4>1. SendCntNum(p, c) # 0
        BY <1>4, <3>6 DEF Waiting
      <4>2. idx'[p][c] = 0 /\ BackNum(setup, k, p, c) \in Nat \ {0}
        BY <1>2, <1>6, <1>7, <4>1
      <4> QED BY <4>2 DEF Turns
    <3> QED BY <1>1, <1>2, <2>3, <3>5, <3>6 DEF TurnInv
  <2> QED BY <2>2, <2>3
<1>14. \A q \in Ranks : Taken(q)' = Taken(q)
  BY <1>8, <1>9
<1>15. ASSUME NEW q \in Ranks
       PROVE  UpInv(q)' /\ GoneInv(q)'
  <2>1. UpInv(q) /\ GoneInv(q)
    BY DEF CInv
  <2>2. FlagsUp(q)' = FlagsUp(q)
    BY <1>2, <1>11, <1>14 DEF FlagsUp
  <2> QED BY <1>2, <1>11, <2>1, <2>2 DEF UpInv, GoneInv
<1>16. ASSUME NEW q \in Ranks, round[q] > 0
       PROVE  WinInv(q)' /\ TakenInv(q)'
  <2>1. WinInv(q) /\ TakenInv(q)
    BY <1>16 DEF CInv
  <2> QED BY <1>2, <1>11, <1>14, <2>1 DEF WinInv, TakenInv
<1>17. ASSUME NEW q \in Ranks, round[q] > 0, Busy(q)'
       PROVE  OutInv(q)'
  <2>1. \A c : TokenShare(q, c)' = TokenShare(q, c)
    BY <1>2, SharesKept
  <2>2. CASE q # p
    <3>1. OutInv(q)
      BY <1>9, <1>17, <2>2 DEF CInv
    <3> QED BY <1>2, <1>4, <1>9, <2>1, <2>2, <3>1 DEF OutInv
  <2>3. CASE q = p
    <3>1. tokenStatus'[p] = {} /\ \A t \in Tokens : expandOut'[p][t] = NoSum
      BY <1>2, <1>3 DEF RowTypes
    <3>2. ASSUME NEW c \in Aivs
          PROVE  pc'[p][c] # "add" /\ (pc'[p][c] = "idle" => TokenShare(p, c) = {})
      BY <1>4 DEF Waiting
    <3> QED BY <2>1, <2>3, <3>1, <3>2 DEF OutInv
  <2> QED BY <2>2, <2>3
<1> QED BY <1>2, <1>12, <1>13, <1>15, <1>16, <1>17 DEF CInv

(* Nothing of a round is sent before all ranks are in it.                  *)
LEMMA NothingYet ==
  ASSUME IInv, DInv, CInv, NEW p \in Ranks, NEW k \in RoundsOf(setup), round[p] + 1 = k,
         NEW q \in Ranks, NEW x \in CellsOf(setup, k, q)
  PROVE  ~RowSent(k, q, x) /\ ~FlagSent(k, q, x)
<1>1. PICK r \in Ranks, c \in Aivs :
              \E m \in Turns(setup, k, r, c) : TurnIs(setup, k, r, c, m, q, x)
  BY TurnFacts
<1>2. PICK m \in Turns(setup, k, r, c) : TurnIs(setup, k, r, c, m, q, x)
  BY <1>1
<1>3. m \in Nat /\ k \in Nat /\ k > 0
  BY DEF Turns, RoundsOf
<1>4. ~(round[r] > k)
  <2>1. round[r] <= round[p] + 1 /\ round[r] \in Nat
    BY RoundsClose, RoundFacts
  <2> QED BY <1>3, <2>1
<1>5. round[r] = k => ~Busy(r)
  <2> SUFFICES ASSUME round[r] = k, Busy(r)
               PROVE  FALSE
    OBVIOUS
  <2>1. round[p] \in {k, k + 1} /\ round[p] \in Nat
    BY <1>3, AllMet
  <2> QED BY <1>3, <2>1
<1>6. round[r] = k => RowsOut(r, c) = 0 /\ FlagsOut(r, c) = 0
  <2> SUFFICES ASSUME round[r] = k
               PROVE  RowsOut(r, c) = 0 /\ FlagsOut(r, c) = 0
    OBVIOUS
  <2>1. pc[r][c] \notin After
    BY <1>5 DEF Busy, IInv, PhaseInv, Waits, Copies, After
  <2> QED BY <2>1 DEF RowsOut, FlagsOut
<1> QED BY <1>2, <1>3, <1>4, <1>6 DEF RowSent, FlagSent

(* The next round leaves what was sent in the rounds before.               *)
LEMMA NextRoundRows ==
  ASSUME IInv, DInv, CInv, NEW p \in Ranks, NextRound(p)
  PROVE  CInv'
<1>1. PICK k : k = round[p]
  OBVIOUS
<1>2. /\ \A c \in Aivs : pc[p][c] = "idle"
      /\ k < Len(setup.expertIds)
      /\ UNCHANGED <<setup, idx, combineState, rowWin, rowFlag, tokenStatus, expandOut>>
      /\ round' = [round EXCEPT ![p] = k + 1]
      /\ pc' = [pc EXCEPT ![p] = [c \in Aivs |-> "send"]]
  BY <1>1 DEF NextRound, AllAt, StartDispatch, GotoAll, combineVars
<1>3. /\ pc \in [Ranks -> [Aivs -> Places]] /\ round \in [Ranks -> 0 .. RoundNum]
      /\ setup \in Setups /\ RowTypes
  BY DEF IInv, TypeInv, Places, CInv
<1>4. k \in Nat /\ k + 1 \in RoundsOf(setup) /\ \A j \in RoundsOf(setup) : j \in Nat /\ j > 0
  <2>1. k \in Nat /\ Len(setup.expertIds) \in Nat
    BY <1>1, <1>3, RoundFacts, DispatchAssumption
  <2> QED BY <1>2, <2>1 DEF RoundsOf
<1>5. /\ round'[p] = k + 1 /\ \A c \in Aivs : pc'[p][c] = "send"
      /\ \A q \in Ranks \ {p} : round'[q] = round[q] /\ pc'[q] = pc[q]
  BY <1>2, <1>3
<1>6. Busy(p) /\ ~Busy(p)' /\ Taken(p)' = {} /\ Taken(p) = tokenStatus[p]
  <2>1. Busy(p)
    BY <1>2 DEF Busy, After
  <2>2. ~Busy(p)'
    BY <1>5, CoreZero DEF Busy, After
  <2> QED BY <2>1, <2>2 DEF Taken
<1>7. \A q \in Ranks \ {p} : Busy(q)' = Busy(q) /\ Taken(q)' = Taken(q)
  <2> TAKE q \in Ranks \ {p}
  <2>1. Busy(q)' = Busy(q)
    BY <1>5 DEF Busy
  <2> QED BY <1>2, <2>1 DEF Taken
<1>8. \A q \in Ranks \ {p}, c \in Aivs :
        RowsOut(q, c)' = RowsOut(q, c) /\ FlagsOut(q, c)' = FlagsOut(q, c)
  <2> TAKE q \in Ranks \ {p}, c \in Aivs
  <2>1. pc'[q][c] = pc[q][c] /\ idx'[q][c] = idx[q][c] /\ round'[q] = round[q] /\ setup' = setup
    BY <1>2, <1>5
  <2> QED BY <2>1 DEF RowsOut, FlagsOut
<1>9. \A c \in Aivs : RowsOut(p, c)' = 0 /\ FlagsOut(p, c)' = 0
  BY <1>5 DEF RowsOut, FlagsOut, After
<1>10. \A c \in Aivs : /\ RowsOut(p, c) = BackNum(setup, k, p, c)
                       /\ FlagsOut(p, c) = BackNum(setup, k, p, c)
  BY <1>1, <1>2 DEF RowsOut, FlagsOut, After
<1>11. ASSUME NEW j \in RoundsOf(setup), NEW q \in Ranks, NEW x
       PROVE  RowSent(j, q, x)' = RowSent(j, q, x) /\ FlagSent(j, q, x)' = FlagSent(j, q, x)
  <2>1. ASSUME NEW r \in Ranks, NEW c \in Aivs, NEW m \in Turns(setup, j, r, c)
        PROVE  /\ (round'[r] > j \/ (round'[r] = j /\ m < RowsOut(r, c)'))
                    <=> (round[r] > j \/ (round[r] = j /\ m < RowsOut(r, c)))
               /\ (round'[r] > j \/ (round'[r] = j /\ m < FlagsOut(r, c)'))
                    <=> (round[r] > j \/ (round[r] = j /\ m < FlagsOut(r, c)))
    <3>1. CASE r # p
      BY <1>5, <1>8, <3>1
    <3>2. CASE r = p
      <4>1. m \in Nat /\ j \in Nat
        BY <1>4 DEF Turns
      <4>2. j = k => m < BackNum(setup, k, p, c)
        BY <1>3, <3>2, <4>1, TurnRows DEF Turns
      <4>3. ~(m < 0)
        BY <4>1
      <4> QED BY <1>1, <1>4, <1>5, <1>9, <1>10, <3>2, <4>1, <4>2, <4>3
    <3> QED BY <3>1, <3>2
  <2>2. RowSent(j, q, x)' <=> RowSent(j, q, x)
    BY <1>2, <2>1 DEF RowSent
  <2>3. FlagSent(j, q, x)' <=> FlagSent(j, q, x)
    BY <1>2, <2>1 DEF FlagSent
  <2>4. RowSent(j, q, x)' \in BOOLEAN /\ RowSent(j, q, x) \in BOOLEAN
        /\ FlagSent(j, q, x)' \in BOOLEAN /\ FlagSent(j, q, x) \in BOOLEAN
    BY DEF RowSent, FlagSent
  <2> QED BY <2>2, <2>3, <2>4
<1>12. \A x \in CellsOf(setup, k + 1, p) : ~RowSent(k + 1, p, x) /\ ~FlagSent(k + 1, p, x)
  BY <1>1, <1>4, NothingYet
<1>13. k > 0 => \A x \in CellsOf(setup, k, p) : x[1] \in Taken(p)
  <2> SUFFICES ASSUME k > 0, NEW x \in CellsOf(setup, k, p)
               PROVE  x[1] \in tokenStatus[p]
    BY <1>6
  <2>1. OutInv(p)
    BY <1>1, <1>6 DEF CInv
  <2>2. k \in RoundsOf(setup)
    <3>1. Len(setup.expertIds) \in Nat
      BY <1>3, DispatchAssumption
    <3> QED BY <1>2, <1>4, <3>1 DEF RoundsOf
  <2>3. PICK c \in Aivs : x[1] \in TokenShare(p, c)
    BY <1>1, <2>2, TokenShares DEF CellsOf
  <2> QED BY <1>2, <2>1, <2>3 DEF OutInv
<1>14. \A q \in Ranks : round[q] > 0 => round[q] \in RoundsOf(setup)
  <2> SUFFICES ASSUME NEW q \in Ranks, round[q] > 0
               PROVE  round[q] \in RoundsOf(setup)
    OBVIOUS
  <2>1. round[q] \in Nat /\ round[q] <= Len(setup.expertIds) /\ Len(setup.expertIds) \in Nat
    BY <1>3, RoundFacts, DispatchAssumption DEF DInv, RankInv
  <2> QED BY <2>1 DEF RoundsOf
<1>15. RowTypes'
  BY <1>2, <1>3 DEF RowTypes
<1>16. ASSUME NEW q \in Ranks
       PROVE  MarkerInv(q)' /\ TurnInv(q)'
  <2>1. MarkerInv(q) /\ TurnInv(q)
    BY DEF CInv
  <2>2. CASE q # p
    BY <1>2, <1>5, <1>7, <2>1, <2>2 DEF MarkerInv, TurnInv
  <2>3. CASE q = p
    <3>1. combineState[p] = k % 2
      BY <1>1, <1>6, <2>1, <2>3 DEF MarkerInv
    <3>2. Half(k + 1) = k % 2
      BY <1>4, HalfFacts DEF Half
    <3> QED BY <1>2, <1>5, <1>6, <2>3, <3>1, <3>2 DEF MarkerInv, TurnInv
  <2> QED BY <2>2, <2>3
<1>17. ASSUME NEW q \in Ranks
       PROVE  UpInv(q)'
  <2>1. UpInv(q)
    BY DEF CInv
  <2>2. CASE q # p
    <3>1. round[q] > 0 => FlagsUp(q)' = FlagsUp(q)
      BY <1>2, <1>5, <1>7, <1>11, <1>14, <2>2 DEF FlagsUp
    <3> QED BY <1>2, <1>5, <2>1, <2>2, <3>1 DEF UpInv
  <2>3. CASE q = p
    <3>1. k > 0 => FlagsUp(p) = {}
      BY <1>1, <1>13 DEF FlagsUp
    <3>2. FlagsUp(p)' = {}
      BY <1>2, <1>4, <1>5, <1>11, <1>12 DEF FlagsUp
    <3>3. \A h \in Halves : rowFlag[p][h] = {}
      BY <1>1, <2>1, <2>3, <3>1 DEF UpInv
    <3> QED BY <1>2, <2>3, <3>2, <3>3 DEF UpInv
  <2> QED BY <2>2, <2>3
<1>18. ASSUME NEW q \in Ranks
       PROVE  GoneInv(q)'
  <2>1. GoneInv(q)
    BY DEF CInv
  <2>2. CASE q # p
    BY <1>2, <1>5, <1>11, <2>1, <2>2 DEF GoneInv
  <2>3. CASE q = p
    <3>1. ASSUME NEW j \in RoundsOf(setup), j < k + 1, NEW x \in CellsOf(setup, j, p)
          PROVE  FlagSent(j, p, x)
      <4>1. CASE j < k
        BY <1>1, <2>1, <2>3, <4>1 DEF GoneInv
      <4>2. CASE j = k
        <5>1. k > 0
          BY <1>4, <4>2
        <5>2. TakenInv(p)
          BY <1>1, <5>1 DEF CInv
        <5> QED BY <1>1, <1>13, <4>2, <5>1, <5>2 DEF TakenInv
      <4> QED BY <1>4, <3>1, <4>1, <4>2
    <3>2. \A j \in RoundsOf(setup) : j < k + 1 =>
            \A x \in CellsOf(setup, j, p) : FlagSent(j, p, x)'
      BY <1>11, <3>1
    <3> QED BY <1>2, <1>5, <2>3, <3>2 DEF GoneInv
  <2> QED BY <2>2, <2>3
<1>19. ASSUME NEW q \in Ranks, round'[q] > 0
       PROVE  WinInv(q)' /\ TakenInv(q)'
  <2>1. CASE q # p
    <3>1. WinInv(q) /\ TakenInv(q) /\ round[q] \in RoundsOf(setup)
      BY <1>5, <1>14, <1>19, <2>1 DEF CInv
    <3>2. WinInv(q)'
      BY <1>2, <1>5, <1>11, <2>1, <3>1 DEF WinInv
    <3>3. TakenInv(q)'
      BY <1>2, <1>5, <1>7, <1>11, <2>1, <3>1 DEF TakenInv
    <3> QED BY <3>2, <3>3
  <2>2. CASE q = p
    <3>1. WinInv(p)'
      BY <1>2, <1>4, <1>5, <1>11, <1>12 DEF WinInv
    <3>2. TakenInv(p)'
      BY <1>6 DEF TakenInv
    <3> QED BY <2>2, <3>1, <3>2
  <2> QED BY <2>1, <2>2
<1>20. ASSUME NEW q \in Ranks, round'[q] > 0, Busy(q)'
       PROVE  OutInv(q)'
  <2>1. q # p
    BY <1>6, <1>20
  <2>2. OutInv(q)
    BY <1>5, <1>7, <1>20, <2>1 DEF CInv
  <2>3. \A c : TokenShare(q, c)' = TokenShare(q, c)
    BY <1>2, <1>5, <2>1, SharesKept
  <2> QED BY <1>2, <1>5, <2>1, <2>2, <2>3 DEF OutInv
<1> QED BY <1>15, <1>16, <1>17, <1>18, <1>19, <1>20 DEF CInv

(* Nothing is sent in the initial state.                                   *)
LEMMA InitRows ==
  Init => CInv
<1> SUFFICES ASSUME Init
             PROVE  CInv
  OBVIOUS
<1>1. /\ setup \in Setups
      /\ round = [p \in Ranks |-> 0]
      /\ pc = [p \in Ranks |-> [c \in Aivs |-> "idle"]]
      /\ combineState = [p \in Ranks |-> 0]
      /\ rowWin = [p \in Ranks |-> [h \in Halves |-> [cell \in Rows |-> NoToken]]]
      /\ rowFlag = [p \in Ranks |-> [h \in Halves |-> {}]]
      /\ tokenStatus = [p \in Ranks |-> {}]
      /\ expandOut = [p \in Ranks |-> [t \in Tokens |-> NoSum]]
  BY DEF Init, DispatchInit
<1>2. RowTypes
  BY <1>1 DEF RowTypes
<1>3. ASSUME NEW q \in Ranks
      PROVE  MarkerInv(q) /\ TurnInv(q) /\ UpInv(q) /\ GoneInv(q) /\ ~(round[q] > 0)
  <2>1. MarkerInv(q)
    <3>1. Busy(q)
      BY <1>1 DEF Busy, After
    <3>2. combineState[q] = 0 /\ round[q] = 0 /\ 0 % 2 = 0
      BY <1>1
    <3> QED BY <3>1, <3>2 DEF MarkerInv
  <2>2. TurnInv(q)
    BY <1>1 DEF TurnInv
  <2>3. UpInv(q)
    BY <1>1 DEF UpInv
  <2>4. GoneInv(q)
    <3>1. \A k \in RoundsOf(setup) : ~(k < 0)
      BY DEF RoundsOf
    <3> QED BY <1>1, <3>1 DEF GoneInv
  <2> QED BY <1>1, <2>1, <2>2, <2>3, <2>4
<1> QED BY <1>2, <1>3 DEF CInv

(* Every step preserves the invariant.                                     *)
LEMMA StepRows ==
  IInv /\ DInv /\ CInv /\ [Next]_vars => CInv'
<1> SUFFICES ASSUME IInv, DInv, CInv, [Next]_vars
             PROVE  CInv'
  OBVIOUS
<1>1. CASE UNCHANGED vars
  <2>1. UNCHANGED <<setup, round, pc, idx, combineVars>>
    BY <1>1 DEF vars
  <2>2. \A q \in Ranks, c \in Aivs : pc[q][c] \notin After => pc'[q][c] \notin After
    BY <2>1
  <2>3. \A q \in Ranks, c \in Aivs : Still(q, c)
    BY <2>1, <2>2 DEF Still
  <2> QED BY <2>1, <2>3, RowsRest
<1>2. CASE Next
  <2>1. PICK p \in Ranks : RankStep(p)
    BY <1>2 DEF Next
  <2>2. CASE NextRound(p)
    BY <2>2, NextRoundRows
  <2>3. CASE DispatchStep(p) /\ UNCHANGED combineVars
    BY <2>3, DispatchRows
  <2>4. CASE StartCombine(p)
    BY <2>4, StartCombineRows
  <2>5. CASE \E c \in Aivs : CombineCoreStep(p, c)
    BY <2>5, SendRowRows, SendFlagRows, WaitDispatchRows, ProcessExpertRows DEF CombineCoreStep
  <2> QED BY <2>1, <2>2, <2>3, <2>4, <2>5 DEF RankStep
<1> QED BY <1>1, <1>2

(* Every combine adds up exactly the rows of its round, every token that   *)
(* takes part, and raises no flag that is up.                              *)
THEOREM CombineCorrect == Spec => []CombineExact
<1>1. Init => IInv /\ DInv /\ CInv
  BY InitInv, InitTokens, InitRows
<1>2. IInv /\ DInv /\ CInv /\ [Next]_vars => (IInv /\ DInv /\ CInv)'
  BY StepInv, StepTokens, StepRows
<1>3. IInv /\ DInv /\ CInv => CombineExact
  <2> SUFFICES ASSUME IInv, DInv, CInv, NEW p \in Ranks, Combining(p)
               PROVE  /\ \A t \in Tokens : expandOut[p][t] # NoSum =>
                           expandOut[p][t] = [k \in RowsToAdd(p, t) |-> <<round[p], p, t, k>>]
                      /\ AllAt(p, "idle") => \A t \in Valid(p) : expandOut[p][t] # NoSum
                      /\ \A c \in Aivs : pc[p][c] = "flags" =>
                           CellOf(p, c) \notin rowFlag[RankOf(p, c)][CombineHalf(p)]
    BY DEF CombineExact
  <2>1. Busy(p) /\ round[p] > 0 /\ Dispatched(p)
    BY DEF Combining, Busy, After, Dispatched
  <2>2. OutInv(p)
    BY <2>1 DEF CInv
  <2>3. round[p] \in RoundsOf(setup)
    BY <2>1, BackCount
  <2>4. \A t \in Tokens : expandOut[p][t] # NoSum =>
          expandOut[p][t] = [k \in RowsToAdd(p, t) |-> <<round[p], p, t, k>>]
    <3>1. \A t : RowsToAdd(p, t) = AddsOf(setup, round[p], p, t)
      BY <2>3, TokenShares
    <3> QED BY <2>2, <3>1 DEF OutInv
  <2>5. ASSUME AllAt(p, "idle"), NEW t \in Valid(p)
        PROVE  expandOut[p][t] # NoSum
    <3>1. PICK c \in Aivs : t \in TokenShare(p, c)
      BY <2>3, TokenShares
    <3>2. pc[p][c] = "idle"
      BY <2>5 DEF AllAt
    <3> QED BY <2>2, <3>1, <3>2 DEF OutInv
  <2>6. ASSUME NEW c \in Aivs, pc[p][c] = "flags"
        PROVE  CellOf(p, c) \notin rowFlag[RankOf(p, c)][CombineHalf(p)]
    <3>1. PICK k, q, x : k = round[p] /\ q = RankOf(p, c) /\ x = CellOf(p, c)
      OBVIOUS
    <3>2. k > 0 /\ k \in Nat /\ q \in Ranks /\ CombineHalf(p) = Half(k)
      BY <2>6, <3>1, AtTurn
    <3>3. ~FlagSent(k, q, x) /\ round[q] = k
      BY <2>6, <3>1, FlagDown
    <3>4. rowFlag[q][Half(k)] = FlagsUp(q)
      <4>1. UpInv(q) /\ Half(k) \in Halves
        BY <3>2, HalfFacts DEF CInv
      <4> QED BY <3>2, <3>3, <4>1 DEF UpInv
    <3> QED BY <3>1, <3>2, <3>3, <3>4 DEF FlagsUp
  <2> QED BY <2>4, <2>5, <2>6
<1> QED BY <1>1, <1>2, <1>3, PTL DEF Spec

=============================================================================

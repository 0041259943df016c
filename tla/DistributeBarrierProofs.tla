----------------------- MODULE DistributeBarrierProofs -----------------------
(***************************************************************************)
(* Proofs about the barrier, for every number of ranks, cores and rounds   *)
(* and all shrinking worlds.                                               *)
(***************************************************************************)
EXTENDS DistributeBarrier, WorkSplitProofs

(* The half of round k.                                                    *)
Half(k) == (k - 1) % 2

(* Rank p has raised its flag of round k in the window of q.               *)
Sent(p, q, k) ==
  \/ entered[p] > k
  \/ /\ entered[p] = k
     /\ \A c \in SendAivs : Index[k][q] \in Share(c, k) => idx[p][c] > Index[k][q]

(***************************************************************************)
(* The inductive invariant.  A rank that is in round k has left round      *)
(* k - 1, so everyone of k - 1 has raised its flag and is in k - 1 at      *)
(* least: the flags in a window are those of two successive rounds, which  *)
(* the two halves keep apart.                                              *)
(***************************************************************************)

RoundInv ==
  \A p \in Ranks :
    /\ left[p] <= entered[p] /\ entered[p] <= left[p] + 1
    /\ stateFlag[p] = Half(entered[p] + 1)
    /\ \A k \in 1 .. entered[p] : p \in World[k]

PcInv ==
  \A p \in Ranks :
    /\ p \notin timedOut /\ left[p] = entered[p] => pc[p][0] = "idle"
    /\ \A c \in SendAivs :
         /\ pc[p][c] \in {"idle", "send", "clean", "sync"}
         /\ pc[p][c] # "idle" => left[p] < entered[p]
         /\ entered[p] > 0 => First(c, entered[p]) <= idx[p][c] /\ idx[p][c] <= Last(c, entered[p])

(* The flags in a window are raised by ranks of this round or the next.    *)
FlagInv ==
  \A q \in Ranks : \A k \in left[q] + 1 .. left[q] + 2 : \A s \in status[q][Half(k)] :
    /\ k \in Rounds /\ q \in World[k] /\ s \in Numbers[k]
    /\ Sent(Member[k][s], q, k)

(* What a core has waited for and lowered.                                 *)
WaitedInv ==
  \A q \in Ranks, c \in SendAivs, k \in Rounds :
    pc[q][c] \in {"clean", "sync"} /\ entered[q] = k =>
      \A i \in Share(c, k) :
        /\ Sent(Member[k][i], q, k)
        /\ pc[q][c] = "sync" => i \notin status[q][Half(k)]

(* A rank leaves a round with the flags of the whole world.                *)
DoneInv ==
  \A q \in Ranks : \A k \in 1 .. left[q] : \A p \in World[k] : Sent(p, q, k)

(* The finish cells of the half at work belong to this launch, and the     *)
(* other half has none.                                                    *)
FinishInv ==
  \A p \in Ranks \ timedOut :
    /\ finish[p][1 - DataState(p)] = {}
    /\ pc[p][0] # "watch" => finish[p][DataState(p)] = {}
    /\ \A c \in finish[p][DataState(p)] : pc[p][c] \in {"clean", "sync"} /\ c \in UsedAivs(p)

WatchInv ==
  \A p \in Ranks, c \in SendAivs : pc[p][c] = "send" =>
    pc[p][0] = "watch" /\ p \notin timedOut /\ First(c, entered[p]) < Size[entered[p]]

IInv ==
  TypeOK /\ RoundInv /\ PcInv /\ FlagInv /\ WaitedInv /\ DoneInv /\ FinishInv /\ WatchInv

(***************************************************************************)
(* The split of the ranks, the numbers of the ranks, and the halves.       *)
(***************************************************************************)

LEMMA HalfFacts ==
  ASSUME NEW k \in Int
  PROVE  /\ Half(k) \in Halves
         /\ Half(k + 1) = 1 - Half(k)
         /\ Half(k + 2) = Half(k)
         /\ Half(k + 1) # Half(k)
BY DEF Half, Halves

LEMMA ShareFacts ==
  ASSUME NEW k \in Rounds, NEW c \in SendAivs
  PROVE  /\ First(c, k) \in Nat /\ Last(c, k) \in Nat
         /\ First(c, k) <= Last(c, k) /\ Last(c, k) <= Size[k]
         /\ Share(c, k) = First(c, k) .. Last(c, k) - 1
         /\ Share(c, k) \subseteq Numbers[k]
         /\ \A d \in SendAivs : d # c => Share(c, k) \cap Share(d, k) = {}
<1> DEFINE n == Size[k]
           m == AivNum - 1
           b == c - 1
<1>1. n \in Nat /\ n <= WorldSize /\ m \in Nat \ {0} /\ b \in 0 .. m - 1
  BY BarrierAssumption DEF SendAivs
<1>2. /\ StartId(b, n, m) \in Nat /\ EndId(b, n, m) \in Nat
      /\ StartId(b, n, m) <= EndId(b, n, m) /\ EndId(b, n, m) <= n
  BY <1>1, ChunkBounds
<1>5. /\ First(c, k) = StartId(b, n, m) /\ Last(c, k) = EndId(b, n, m)
      /\ Share(c, k) = Chunk(b, n, m)
  BY DEF First, Last, Share
<1>6. Share(c, k) \subseteq Numbers[k]
  BY <1>1, <1>2, <1>5 DEF Chunk, Numbers
<1>7. ASSUME NEW d \in SendAivs, d # c
      PROVE  Share(c, k) \cap Share(d, k) = {}
  <2>1. d - 1 \in 0 .. m - 1 /\ d - 1 # b
    BY <1>7, <1>1, BarrierAssumption DEF SendAivs
  <2> QED BY <1>1, <2>1, ChunksDisjoint DEF Share
<1> QED BY <1>1, <1>2, <1>5, <1>6, <1>7 DEF Chunk

LEMMA SharesCover ==
  ASSUME NEW k \in Rounds, NEW i \in Numbers[k]
  PROVE  \E c \in SendAivs : i \in Share(c, k)
<1>1. Size[k] \in Nat /\ AivNum - 1 \in Nat \ {0} /\ i \in 0 .. Size[k] - 1
  BY BarrierAssumption DEF Numbers
<1>2. PICK d \in 0 .. (AivNum - 1) - 1 : i \in Chunk(d, Size[k], AivNum - 1)
  BY <1>1, ChunksCover
<1>3. d + 1 \in SendAivs /\ (d + 1) - 1 = d
  BY <1>1, BarrierAssumption DEF SendAivs
<1> QED BY <1>2, <1>3 DEF Share

LEMMA NumberFacts ==
  ASSUME NEW k \in Rounds
  PROVE  /\ World[k] \subseteq Ranks
         /\ \A p \in World[k] : Index[k][p] \in Numbers[k] /\ Member[k][Index[k][p]] = p
         /\ \A i \in Numbers[k] : Member[k][i] \in World[k] /\ Index[k][Member[k][i]] = i
         /\ Numbers[k] \subseteq Ranks
<1>1. World[k] = {Member[k][i] : i \in Numbers[k]}
  BY DEF World
<1>2. Numbers[k] = 0 .. Size[k] - 1 /\ Size[k] \in 1 .. WorldSize
  BY BarrierAssumption DEF Numbers
<1> QED BY <1>1, <1>2, BarrierAssumption DEF Ranks

(* A core that has ranks is one that core 0 counts.                        *)
LEMMA UsedFacts ==
  ASSUME NEW k \in Rounds, NEW c \in SendAivs, First(c, k) < Size[k]
  PROVE  c \in (IF Size[k] \div (AivNum - 1) > 0 THEN SendAivs ELSE 1 .. Size[k])
<1> DEFINE n == Size[k]
           m == AivNum - 1
<1>1. n \in Nat /\ m \in Nat \ {0} /\ c \in 1 .. m
  BY BarrierAssumption DEF SendAivs
<1>2. /\ n \div m \in Nat /\ n % m \in 0 .. m - 1
      /\ n = m * (n \div m) + (n % m)
  BY <1>1, DivMod
<1>3. CASE n \div m > 0
  BY <1>3
<1>4. CASE n \div m = 0
  <2>1. n = n % m
    BY <1>1, <1>2, <1>4
  <2>2. First(c, k) = IF c - 1 < n THEN c - 1 ELSE n
    BY <1>1, <1>4, <2>1 DEF First, StartId
  <2> QED BY <1>1, <1>4, <2>2
<1> QED BY <1>2, <1>3, <1>4

LEMMA DataStateFacts ==
  ASSUME TypeOK, NEW q \in Ranks
  PROVE  DataState(q) \in Halves
<1>1. stateFlag[q] \in Halves
  BY DEF TypeOK
<1> QED BY <1>1 DEF DataState, Halves

(* What the invariant says of a rank that is in a round.                   *)
LEMMA RunningFacts ==
  ASSUME IInv, NEW p \in Ranks, left[p] < entered[p]
  PROVE  /\ entered[p] \in Rounds /\ entered[p] = left[p] + 1
         /\ p \in World[entered[p]]
         /\ DataState(p) = Half(entered[p])
         /\ MySlot(p) \in Numbers[entered[p]] /\ Member[entered[p]][MySlot(p)] = p
<1>1. entered[p] \in 0 .. RoundNum /\ left[p] \in 0 .. RoundNum
  BY DEF IInv, TypeOK
<1>2. /\ left[p] <= entered[p] /\ entered[p] <= left[p] + 1
      /\ stateFlag[p] = Half(entered[p] + 1)
      /\ \A k \in 1 .. entered[p] : p \in World[k]
  BY DEF IInv, RoundInv
<1>3. entered[p] \in Rounds /\ entered[p] = left[p] + 1 /\ p \in World[entered[p]]
  BY <1>1, <1>2, BarrierAssumption DEF Rounds
<1>4. DataState(p) = Half(entered[p])
  <2>1. Half(entered[p] + 1) = 1 - Half(entered[p]) /\ Half(entered[p]) \in Halves
    BY <1>1, HalfFacts
  <2> QED BY <1>2, <2>1 DEF DataState, Halves
<1> QED BY <1>3, <1>4, NumberFacts DEF MySlot

(* A core at work is that of a rank that is in a round.                    *)
LEMMA AtFacts ==
  ASSUME IInv, NEW p \in Ranks, NEW c \in SendAivs,
         pc[p][c] \in {"send", "clean", "sync"}
  PROVE  /\ left[p] < entered[p]
         /\ idx[p][c] \in Nat
         /\ First(c, entered[p]) <= idx[p][c] /\ idx[p][c] <= Last(c, entered[p])
<1>1. left[p] < entered[p]
  BY DEF IInv, PcInv
<1>2. entered[p] \in Nat /\ left[p] \in Nat /\ c \in Aivs /\ idx[p][c] \in Nat
  BY BarrierAssumption DEF IInv, TypeOK, Aivs, SendAivs
<1> QED BY <1>1, <1>2 DEF IInv, PcInv

(* The rounds of a receiver and of a rank that is sending to it.           *)
LEMMA SenderFacts ==
  ASSUME IInv, NEW p \in Ranks, NEW c \in SendAivs,
         pc[p][c] = "send", idx[p][c] < Last(c, entered[p])
  PROVE  LET k == entered[p]
             q == Member[k][idx[p][c]]
         IN /\ idx[p][c] \in Share(c, k) /\ idx[p][c] \in Numbers[k]
            /\ q \in World[k] /\ q \in Ranks /\ Index[k][q] = idx[p][c]
            /\ ~Sent(p, q, k)
            /\ k \in left[q] + 1 .. left[q] + 2
<1> DEFINE k == entered[p]
           i == idx[p][c]
           q == Member[k][i]
<1>1. left[p] < k /\ i \in Nat /\ First(c, k) <= i
  BY AtFacts
<1>2. k \in Rounds /\ k = left[p] + 1 /\ p \in World[k]
  BY <1>1, RunningFacts
<1>3. i \in Share(c, k) /\ i \in Numbers[k]
  BY <1>1, <1>2, ShareFacts
<1>4. q \in World[k] /\ q \in Ranks /\ Index[k][q] = i
  BY <1>2, <1>3, NumberFacts
<1>5. ~Sent(p, q, k)
  BY <1>1, <1>2, <1>3, <1>4 DEF Sent, Rounds
<1>6. /\ left[q] \in 0 .. RoundNum /\ entered[q] \in 0 .. RoundNum
      /\ left[p] \in 0 .. RoundNum /\ k \in 1 .. RoundNum
  BY <1>2, <1>4 DEF IInv, TypeOK, Rounds
<1>7. left[q] < k
  BY <1>2, <1>4, <1>5, <1>6 DEF IInv, DoneInv
<1>8. k <= left[q] + 2
  <2>1. CASE k = 1
    BY <2>1, <1>6
  <2>2. CASE k > 1
    <3>1. k - 1 \in Rounds /\ (k - 1) + 1 = k /\ k - 1 \in 1 .. left[p]
      BY <1>2, <1>6, <2>2 DEF Rounds
    <3>2. q \in World[k - 1]
      BY <3>1, <1>2, <1>4, BarrierAssumption
    <3>3. Sent(q, p, k - 1)
      BY <3>1, <3>2 DEF IInv, DoneInv
    <3>4. entered[q] >= k - 1
      BY <3>3, <1>6 DEF Sent
    <3> QED BY <3>4, <1>4, <1>6 DEF IInv, RoundInv
  <2> QED BY <2>1, <2>2, <1>6
<1> QED BY <1>3, <1>4, <1>5, <1>6, <1>7, <1>8

(* What was sent stays sent.                                               *)
LEMMA SentStays ==
  ASSUME IInv, NEW p \in Ranks, NEW k \in Rounds, NEW q \in World[k], Sent(p, q, k),
         entered'[p] \in Nat,
         \/ entered'[p] > entered[p]
         \/ /\ entered'[p] = entered[p]
            /\ \A c \in SendAivs : idx'[p][c] \in Nat /\ idx'[p][c] >= idx[p][c]
  PROVE  Sent(p, q, k)'
<1>1. /\ entered[p] \in Nat /\ k \in Nat /\ Index[k][q] \in Int
      /\ \A c \in SendAivs : idx[p][c] \in Nat
  <2>1. SendAivs \subseteq Aivs
    BY DEF Aivs, SendAivs
  <2>2. Index[k][q] \in Numbers[k] /\ Size[k] \in Nat
    BY NumberFacts, BarrierAssumption
  <2> QED BY <2>1, <2>2 DEF IInv, TypeOK, Rounds, Numbers
<1>2. CASE entered'[p] > entered[p]
  BY <1>1, <1>2 DEF Sent
<1>3. CASE /\ entered'[p] = entered[p]
           /\ \A c \in SendAivs : idx'[p][c] \in Nat /\ idx'[p][c] >= idx[p][c]
  <2>1. CASE entered[p] > k
    BY <2>1, <1>3 DEF Sent
  <2>2. CASE entered[p] = k
    <3>1. ASSUME NEW c \in SendAivs, Index[k][q] \in Share(c, k)
          PROVE  idx'[p][c] > Index[k][q]
      <4>1. idx[p][c] > Index[k][q]
        BY <2>2, <3>1, <1>1 DEF Sent
      <4> QED BY <4>1, <1>1, <1>3
    <3> QED BY <3>1, <2>2, <1>3 DEF Sent, Share
  <2> QED BY <2>1, <2>2, <1>1 DEF Sent
<1> QED BY <1>2, <1>3

(***************************************************************************)
(* Every action preserves the invariant.                                   *)
(***************************************************************************)

LEMMA InitInv == Init => IInv
<1> SUFFICES ASSUME Init PROVE IInv
  OBVIOUS
<1>1. SendAivs \subseteq Aivs /\ 0 \in Aivs /\ 0 \in Halves /\ 1 \in Halves /\ Half(1) = 0
  BY BarrierAssumption DEF SendAivs, Aivs, Halves, Half
<1>2. TypeOK
  BY <1>1, BarrierAssumption DEF Init, TypeOK, Halves
<1>3. RoundInv
  BY <1>1 DEF Init, RoundInv
<1>4. PcInv
  BY <1>1 DEF Init, PcInv
<1>5. FlagInv
  <2> SUFFICES ASSUME NEW q \in Ranks, NEW k \in left[q] + 1 .. left[q] + 2,
                      NEW s \in status[q][Half(k)]
               PROVE  FALSE
    BY DEF FlagInv
  <2>1. left[q] = 0
    BY DEF Init
  <2>2. Half(k) \in Halves
    BY <2>1, HalfFacts
  <2> QED BY <2>2 DEF Init
<1>6. WaitedInv /\ DoneInv /\ WatchInv
  BY <1>1 DEF Init, WaitedInv, DoneInv, WatchInv
<1>7. FinishInv
  BY <1>1 DEF Init, FinishInv, DataState, Halves
<1> QED BY <1>2, <1>3, <1>4, <1>5, <1>6, <1>7 DEF IInv

LEMMA LaunchInv ==
  ASSUME IInv, NEW p \in Ranks, Launch(p)
  PROVE  IInv'
<1> DEFINE n == entered[p] + 1
<1>1. /\ p \notin timedOut /\ left[p] = entered[p] /\ entered[p] < RoundNum /\ p \in World[n]
      /\ entered' = [entered EXCEPT ![p] = n]
      /\ stateFlag' = [stateFlag EXCEPT ![p] = 1 - stateFlag[p]]
      /\ pc' = [pc EXCEPT ![p] = [c \in Aivs |-> FirstPc(c, n)]]
      /\ idx' = [idx EXCEPT ![p] = [c \in Aivs |-> IF c = 0 THEN 0 ELSE First(c, n)]]
      /\ UNCHANGED <<isInputTimeout, status, finish, left, timedOut>>
  BY DEF Launch, TurnedMarker
<1>2. /\ entered \in [Ranks -> 0 .. RoundNum] /\ left \in [Ranks -> 0 .. RoundNum]
      /\ stateFlag \in [Ranks -> Halves] /\ RoundNum \in Nat
      /\ SendAivs \subseteq Aivs /\ 0 \in Aivs /\ 0 \notin SendAivs
      /\ \A c \in Aivs : c # 0 => c \in SendAivs
  BY BarrierAssumption DEF IInv, TypeOK, SendAivs, Aivs
<1>3. n \in Rounds /\ entered'[p] = n /\ n \in Nat
  BY <1>1, <1>2 DEF Rounds
<1>4. \A c \in SendAivs :
        /\ First(c, n) \in 0 .. WorldSize /\ First(c, n) <= Last(c, n)
        /\ First(c, n) >= Size[n] => Share(c, n) = {}
  <2> TAKE c \in SendAivs
  <2> QED BY <1>3, ShareFacts, BarrierAssumption
<1>5. \A c \in SendAivs : pc'[p][c] = FirstPc(c, n) /\ idx'[p][c] = First(c, n)
  BY <1>1, <1>2 DEF IInv, TypeOK
<1>6. TypeOK'
  <2>1. \A c \in Aivs : FirstPc(c, n) \in {"idle", "watch", "send", "clean", "sync"}
    BY DEF FirstPc
  <2>2. [c \in Aivs |-> IF c = 0 THEN 0 ELSE First(c, n)] \in [Aivs -> 0 .. WorldSize]
    BY <1>2, <1>4, BarrierAssumption
  <2>3. 1 - stateFlag[p] \in Halves
    BY <1>2 DEF Halves
  <2>4. n \in 0 .. RoundNum
    BY <1>3 DEF Rounds
  <2> QED BY <1>1, <2>1, <2>2, <2>3, <2>4 DEF IInv, TypeOK
<1>7. RoundInv'
  <2>1. Half(n + 1) = 1 - Half(n)
    BY <1>3, HalfFacts
  <2>2. \A k \in 1 .. n : p \in World[k]
    <3> TAKE k \in 1 .. n
    <3>1. k = n \/ k \in 1 .. entered[p]
      BY <1>2, <1>3
    <3> QED BY <3>1, <1>1 DEF IInv, RoundInv
  <2> QED BY <2>1, <2>2, <1>1, <1>2 DEF IInv, TypeOK, RoundInv
<1>8. PcInv'
  <2>1. \A c \in SendAivs : FirstPc(c, n) \in {"send", "sync"}
    BY <1>2 DEF FirstPc
  <2>2. left'[p] < entered'[p]
    BY <1>1, <1>2
  <2> QED BY <1>1, <1>2, <1>3, <1>4, <1>5, <2>1, <2>2 DEF IInv, TypeOK, PcInv
<1>9. \A r \in Ranks : \A k \in Rounds : \A q \in World[k] : Sent(r, q, k) => Sent(r, q, k)'
  <2> TAKE r \in Ranks
  <2> TAKE k \in Rounds
  <2> TAKE q \in World[k]
  <2>1. CASE r = p
    BY <2>1, <1>1, <1>2, <1>3, SentStays
  <2>2. CASE r # p
    <3>1. /\ entered'[r] = entered[r] /\ idx'[r] = idx[r] /\ entered'[r] \in Nat
          /\ \A c \in SendAivs : idx[r][c] \in Nat
      BY <2>2, <1>1, <1>2 DEF IInv, TypeOK
    <3> QED BY <3>1, SentStays
  <2> QED BY <2>1, <2>2
<1>10. FlagInv'
  <2> SUFFICES ASSUME NEW q \in Ranks, NEW k \in left[q] + 1 .. left[q] + 2,
                      NEW s \in status[q][Half(k)]
               PROVE  k \in Rounds /\ q \in World[k] /\ s \in Numbers[k] /\ Sent(Member[k][s], q, k)'
    BY <1>1 DEF FlagInv
  <2>1. k \in Rounds /\ q \in World[k] /\ s \in Numbers[k] /\ Sent(Member[k][s], q, k)
    BY DEF IInv, FlagInv
  <2> QED BY <2>1, <1>9, NumberFacts
<1>11. WaitedInv'
  <2> SUFFICES ASSUME NEW q \in Ranks, NEW c \in SendAivs, NEW k \in Rounds,
                      pc'[q][c] \in {"clean", "sync"}, entered'[q] = k,
                      NEW i \in Share(c, k)
               PROVE  /\ Sent(Member[k][i], q, k)'
                      /\ pc'[q][c] = "sync" => i \notin status'[q][Half(k)]
    BY DEF WaitedInv
  <2>1. CASE q = p
    <3>1. First(c, n) >= Size[n]
      BY <2>1, <1>2, <1>5 DEF FirstPc
    <3> QED BY <3>1, <2>1, <1>3, <1>4
  <2>2. CASE q # p
    <3>1. pc'[q] = pc[q] /\ entered[q] = k /\ status' = status
      BY <2>2, <1>1, <1>2
    <3>2. left[q] < entered[q]
      BY <3>1, AtFacts
    <3>3. q \in World[k] /\ i \in Numbers[k]
      BY <3>1, <3>2, RunningFacts, ShareFacts
    <3>4. Sent(Member[k][i], q, k) /\ (pc'[q][c] = "sync" => i \notin status'[q][Half(k)])
      BY <3>1 DEF IInv, WaitedInv
    <3>5. Member[k][i] \in Ranks
      BY <3>3, NumberFacts
    <3> QED BY <3>3, <3>4, <3>5, <1>9
  <2> QED BY <2>1, <2>2
<1>12. DoneInv'
  <2> SUFFICES ASSUME NEW q \in Ranks, NEW k \in 1 .. left[q], NEW r \in World[k]
               PROVE  Sent(r, q, k)'
    BY <1>1 DEF DoneInv
  <2>1. k \in Rounds /\ k \in 1 .. entered[q]
    BY <1>2 DEF IInv, RoundInv, Rounds
  <2>2. q \in World[k] /\ Sent(r, q, k)
    BY <2>1 DEF IInv, RoundInv, DoneInv
  <2> QED BY <2>1, <2>2, <1>9, NumberFacts
<1>13. FinishInv'
  <2>1. pc[p][0] = "idle"
    BY <1>1 DEF IInv, PcInv
  <2>2. finish[p][DataState(p)] = {} /\ finish[p][1 - DataState(p)] = {}
    BY <1>1, <2>1 DEF IInv, FinishInv
  <2>3. stateFlag[p] \in 0 .. 1 /\ stateFlag'[p] = 1 - stateFlag[p]
    BY <1>1, <1>2 DEF Halves
  <2>4. finish'[p][DataState(p)'] = {} /\ finish'[p][1 - DataState(p)'] = {}
    BY <1>1, <2>2, <2>3 DEF DataState
  <2>5. ASSUME NEW q \in Ranks \ timedOut, q # p
        PROVE  /\ pc'[q] = pc[q] /\ DataState(q)' = DataState(q)
               /\ finish'[q] = finish[q] /\ UsedAivs(q)' = UsedAivs(q)
    BY <2>5, <1>1, <1>2 DEF DataState, UsedAivs
  <2> QED BY <1>1, <2>4, <2>5 DEF IInv, FinishInv
<1>14. WatchInv'
  <2>1. ASSUME NEW c \in SendAivs, pc'[p][c] = "send"
        PROVE  pc'[p][0] = "watch" /\ First(c, n) < Size[n]
    <3>1. First(c, n) \in Int /\ Size[n] \in Int
      BY <1>3, <1>4, BarrierAssumption
    <3>2. ~(First(c, n) >= Size[n])
      BY <2>1, <1>2, <1>5 DEF FirstPc
    <3>3. pc'[p][0] = "watch"
      BY <1>1, <1>2 DEF IInv, TypeOK, FirstPc
    <3> QED BY <3>1, <3>2, <3>3
  <2>2. ASSUME NEW q \in Ranks, q # p
        PROVE  pc'[q] = pc[q] /\ entered'[q] = entered[q]
    BY <2>2, <1>1, <1>2
  <2> QED BY <1>1, <1>3, <2>1, <2>2 DEF IInv, WatchInv, First, StartId
<1> QED BY <1>6, <1>7, <1>8, <1>10, <1>11, <1>12, <1>13, <1>14 DEF IInv

(* No step of a launch takes a flag back in this sense.                    *)
LEMMA SentKept ==
  ASSUME IInv, UNCHANGED entered,
         \A r \in Ranks, c \in SendAivs : idx'[r][c] \in Nat /\ idx'[r][c] >= idx[r][c]
  PROVE  \A r \in Ranks : \A k \in Rounds : \A q \in World[k] : Sent(r, q, k) => Sent(r, q, k)'
<1> TAKE r \in Ranks
<1> TAKE k \in Rounds
<1> TAKE q \in World[k]
<1>1. entered'[r] = entered[r] /\ entered'[r] \in Nat
  BY DEF IInv, TypeOK
<1> QED BY <1>1, SentStays

LEMMA SetStatusInv ==
  ASSUME IInv, NEW p \in Ranks, NEW c \in SendAivs, SetStatus(p, c)
  PROVE  IInv'
<1>0. PICK n, j, t, u, h : /\ n = entered[p] /\ j = idx[p][c] /\ t = Member[n][j]
                           /\ u = MySlot(p) /\ h = DataState(p)
  OBVIOUS
<1>1. /\ pc[p][c] = "send" /\ p \notin timedOut /\ j < Last(c, n)
      /\ status' = [status EXCEPT ![t][h] = @ \cup {u}]
      /\ idx' = [idx EXCEPT ![p][c] = j + 1]
      /\ UNCHANGED <<isInputTimeout, stateFlag, finish, pc, entered, left, timedOut>>
  BY <1>0 DEF SetStatus, At
<1>2. /\ j \in Share(c, n) /\ j \in Numbers[n] /\ t \in World[n] /\ t \in Ranks
      /\ Index[n][t] = j /\ ~Sent(p, t, n)
      /\ n \in left[t] + 1 .. left[t] + 2
  BY <1>0, <1>1, SenderFacts
<1>3. /\ n \in Rounds /\ p \in World[n] /\ h = Half(n) /\ h \in Halves
      /\ u \in Numbers[n] /\ Member[n][u] = p
  <2>1. left[p] < n
    BY <1>0, <1>1, AtFacts
  <2>2. /\ n \in Rounds /\ p \in World[n] /\ h = Half(n)
        /\ u \in Numbers[n] /\ Member[n][u] = p
    BY <1>0, <2>1, RunningFacts
  <2>3. n \in Int
    BY <2>2 DEF Rounds
  <2> QED BY <2>2, <2>3, HalfFacts
<1>4. SendAivs \subseteq Aivs /\ 0 \in Aivs /\ 0 \notin SendAivs /\ Numbers[n] \subseteq Ranks
  BY <1>3, NumberFacts, BarrierAssumption DEF SendAivs, Aivs
<1>5. /\ j \in Nat /\ j + 1 \in 0 .. WorldSize /\ j + 1 <= Last(c, n) /\ First(c, n) <= j
  <2>1. j \in Nat /\ First(c, n) <= j
    BY <1>0, <1>1, AtFacts
  <2>2. Last(c, n) \in Nat /\ Last(c, n) <= Size[n] /\ First(c, n) \in Nat /\ Size[n] <= WorldSize
        /\ Size[n] \in Nat /\ WorldSize \in Nat
    BY <1>3, ShareFacts, BarrierAssumption
  <2> QED BY <1>1, <2>1, <2>2
<1>6. \A r \in Ranks, d \in SendAivs :
        /\ idx[r][d] \in Nat
        /\ idx'[r][d] = IF r = p /\ d = c THEN j + 1 ELSE idx[r][d]
  BY <1>0, <1>1, <1>4 DEF IInv, TypeOK
<1>7. \A r \in Ranks : \A k \in Rounds : \A q \in World[k] : Sent(r, q, k) => Sent(r, q, k)'
  <2>1. \A r \in Ranks, d \in SendAivs : idx'[r][d] \in Nat /\ idx'[r][d] >= idx[r][d]
    BY <1>0, <1>5, <1>6
  <2> QED BY <1>1, <2>1, SentKept
<1>8. Sent(p, t, n)'
  <2>1. \A d \in SendAivs : Index[n][t] \in Share(d, n) => d = c
    BY <1>2, <1>3, ShareFacts
  <2>2. idx'[p][c] > Index[n][t]
    BY <1>2, <1>5, <1>6
  <2>3. entered'[p] = n
    BY <1>0, <1>1
  <2> QED BY <2>1, <2>2, <2>3 DEF Sent
<1>9. \A q \in Ranks, g \in Halves :
        status'[q][g] = IF q = t /\ g = h THEN status[q][g] \cup {u} ELSE status[q][g]
  BY <1>1, <1>2, <1>3 DEF IInv, TypeOK
<1>10. TypeOK'
  <2>1. status' \in [Ranks -> [Halves -> SUBSET Ranks]]
    <3>1. status \in [Ranks -> [Halves -> SUBSET Ranks]]
      BY DEF IInv, TypeOK
    <3>2. status[t][h] \cup {u} \in SUBSET Ranks
      BY <3>1, <1>2, <1>3, <1>4
    <3> QED BY <3>1, <3>2, <1>1, <1>2, <1>3
  <2>2. idx' \in [Ranks -> [Aivs -> 0 .. WorldSize]]
    BY <1>1, <1>5 DEF IInv, TypeOK
  <2> QED BY <1>1, <2>1, <2>2 DEF IInv, TypeOK
<1>11. RoundInv'
  BY <1>1 DEF IInv, RoundInv
<1>12. PcInv'
  <2>1. \A d \in SendAivs : First(d, n) <= idx'[p][d] /\ idx'[p][d] <= Last(d, n)
    <3>1. \A d \in SendAivs : First(d, n) <= idx[p][d] /\ idx[p][d] <= Last(d, n)
      BY <1>0, <1>3, BarrierAssumption DEF IInv, PcInv, Rounds
    <3>2. First(c, n) \in Nat /\ Last(c, n) \in Nat
      BY <1>3, ShareFacts
    <3> QED BY <1>5, <1>6, <3>1, <3>2
  <2>2. \A r \in Ranks, d \in SendAivs : r # p => idx'[r][d] = idx[r][d]
    BY <1>6
  <2> QED BY <1>0, <1>1, <2>1, <2>2 DEF IInv, PcInv
<1>13. FlagInv'
  <2> SUFFICES ASSUME NEW q \in Ranks, NEW k \in left[q] + 1 .. left[q] + 2,
                      NEW s \in status'[q][Half(k)]
               PROVE  k \in Rounds /\ q \in World[k] /\ s \in Numbers[k] /\ Sent(Member[k][s], q, k)'
    BY <1>1 DEF FlagInv
  <2>1. CASE s \in status[q][Half(k)]
    <3>1. k \in Rounds /\ q \in World[k] /\ s \in Numbers[k] /\ Sent(Member[k][s], q, k)
      BY <2>1 DEF IInv, FlagInv
    <3> QED BY <3>1, <1>7, NumberFacts
  <2>2. CASE s \notin status[q][Half(k)]
    <3>1. left[q] \in Int
      BY DEF IInv, TypeOK
    <3>2. Half(k) \in Halves /\ k \in Int
      BY <3>1, HalfFacts
    <3>3. q = t /\ Half(k) = Half(n) /\ s = u
      BY <2>2, <3>2, <1>3, <1>9
    <3>4. k = n
      <4>1. Half((left[t] + 1) + 1) # Half(left[t] + 1) /\ (left[t] + 1) + 1 = left[t] + 2
        BY <3>1, <3>3, HalfFacts
      <4>2. (k = left[t] + 1 \/ k = left[t] + 2) /\ (n = left[t] + 1 \/ n = left[t] + 2)
        BY <3>1, <3>3, <1>2
      <4> QED BY <3>3, <4>1, <4>2
    <3> QED BY <3>3, <3>4, <1>2, <1>3, <1>8
  <2> QED BY <2>1, <2>2
<1>14. WaitedInv'
  <2> SUFFICES ASSUME NEW q \in Ranks, NEW d \in SendAivs, NEW k \in Rounds,
                      pc[q][d] \in {"clean", "sync"}, entered[q] = k,
                      NEW i \in Share(d, k)
               PROVE  /\ Sent(Member[k][i], q, k)'
                      /\ pc[q][d] = "sync" => i \notin status'[q][Half(k)]
    BY <1>1 DEF WaitedInv
  <2>1. /\ Sent(Member[k][i], q, k)
        /\ pc[q][d] = "sync" => i \notin status[q][Half(k)]
    BY DEF IInv, WaitedInv
  <2>2. k = left[q] + 1 /\ q \in World[k]
    BY AtFacts, RunningFacts
  <2>3. i \in Numbers[k] /\ Member[k][i] \in Ranks
    BY ShareFacts, NumberFacts
  <2>4. ASSUME q = t, Half(k) = h, i = u
        PROVE  FALSE
    <3>1. left[t] \in Int
      BY <1>2 DEF IInv, TypeOK
    <3>2. k = n
      <4>1. Half((left[t] + 1) + 1) # Half(left[t] + 1) /\ (left[t] + 1) + 1 = left[t] + 2
        BY <3>1, HalfFacts
      <4>2. k = left[t] + 1 /\ (n = left[t] + 1 \/ n = left[t] + 2)
        BY <3>1, <2>2, <2>4, <1>2
      <4> QED BY <2>4, <1>3, <4>1, <4>2
    <3> QED BY <3>2, <2>1, <2>4, <1>2, <1>3
  <2>5. Half(k) \in Halves
    BY HalfFacts DEF Rounds
  <2> QED BY <2>1, <2>2, <2>3, <2>4, <2>5, <1>7, <1>9
<1>15. DoneInv'
  <2> SUFFICES ASSUME NEW q \in Ranks, NEW k \in 1 .. left[q], NEW r \in World[k]
               PROVE  Sent(r, q, k)'
    BY <1>1 DEF DoneInv
  <2>1. k \in Rounds /\ k \in 1 .. entered[q]
    BY BarrierAssumption DEF IInv, TypeOK, RoundInv, Rounds
  <2>2. q \in World[k] /\ Sent(r, q, k)
    BY <2>1 DEF IInv, RoundInv, DoneInv
  <2> QED BY <2>1, <2>2, <1>7, NumberFacts
<1>16. FinishInv' /\ WatchInv'
  BY <1>1 DEF IInv, FinishInv, WatchInv, DataState, UsedAivs
<1> QED BY <1>10, <1>11, <1>12, <1>13, <1>14, <1>15, <1>16 DEF IInv

LEMMA WaitStatusInv ==
  ASSUME IInv, NEW p \in Ranks, NEW c \in SendAivs, WaitStatus(p, c)
  PROVE  IInv'
<1>0. PICK n, h : n = entered[p] /\ h = DataState(p)
  OBVIOUS
<1>1. /\ pc[p][c] = "send" /\ p \notin timedOut
      /\ Share(c, n) \subseteq status[p][h]
      /\ finish' = [finish EXCEPT ![p][h] = @ \cup {c}]
      /\ pc' = [pc EXCEPT ![p][c] = "clean"]
      /\ UNCHANGED <<isInputTimeout, stateFlag, status, idx, entered, left, timedOut>>
  BY <1>0 DEF WaitStatus, At, Goto, AllRaised
<1>2. n \in Rounds /\ left[p] < n /\ n = left[p] + 1 /\ p \in World[n] /\ h = Half(n) /\ h \in Halves
  <2>1. left[p] < n
    BY <1>0, <1>1, AtFacts
  <2>2. n \in Rounds /\ n = left[p] + 1 /\ p \in World[n] /\ h = Half(n)
    BY <1>0, <2>1, RunningFacts
  <2> QED BY <2>1, <2>2, HalfFacts DEF Rounds
<1>3. /\ SendAivs \subseteq Aivs /\ 0 \in Aivs /\ 0 \notin SendAivs
      /\ pc \in [Ranks -> [Aivs -> {"idle", "watch", "send", "clean", "sync"}]]
      /\ finish \in [Ranks -> [Halves -> SUBSET SendAivs]]
  BY BarrierAssumption DEF SendAivs, Aivs, IInv, TypeOK
<1>4. /\ pc'[p][0] = pc[p][0] /\ pc'[p][c] = "clean"
      /\ \A d \in SendAivs : d # c => pc'[p][d] = pc[p][d]
      /\ \A r \in Ranks : r # p => pc'[r] = pc[r]
  BY <1>1, <1>3
<1>5. /\ finish'[p][h] = finish[p][h] \cup {c}
      /\ finish'[p][1 - h] = finish[p][1 - h]
      /\ \A r \in Ranks : r # p => finish'[r] = finish[r]
  BY <1>1, <1>2, <1>3 DEF Halves
<1>6. \A r \in Ranks : \A k \in Rounds : \A q \in World[k] : Sent(r, q, k) = Sent(r, q, k)'
  BY <1>1 DEF Sent
<1>7. TypeOK'
  <2>1. finish' \in [Ranks -> [Halves -> SUBSET SendAivs]]
    <3>1. finish[p][h] \cup {c} \in SUBSET SendAivs
      BY <1>2, <1>3
    <3> QED BY <3>1, <1>1, <1>2, <1>3
  <2>2. pc' \in [Ranks -> [Aivs -> {"idle", "watch", "send", "clean", "sync"}]]
    BY <1>1, <1>3
  <2> QED BY <1>1, <2>1, <2>2 DEF IInv, TypeOK
<1>8. RoundInv' /\ PcInv'
  BY <1>0, <1>1, <1>2, <1>3, <1>4 DEF IInv, RoundInv, PcInv
<1>9. FlagInv'
  <2> SUFFICES ASSUME NEW q \in Ranks, NEW k \in left[q] + 1 .. left[q] + 2,
                      NEW s \in status[q][Half(k)]
               PROVE  k \in Rounds /\ q \in World[k] /\ s \in Numbers[k] /\ Sent(Member[k][s], q, k)'
    BY <1>1 DEF FlagInv
  <2>1. k \in Rounds /\ q \in World[k] /\ s \in Numbers[k] /\ Sent(Member[k][s], q, k)
    BY DEF IInv, FlagInv
  <2> QED BY <2>1, <1>6, NumberFacts
<1>10. WaitedInv'
  <2> SUFFICES ASSUME NEW q \in Ranks, NEW d \in SendAivs, NEW k \in Rounds,
                      pc'[q][d] \in {"clean", "sync"}, entered[q] = k,
                      NEW i \in Share(d, k)
               PROVE  /\ Sent(Member[k][i], q, k)'
                      /\ pc'[q][d] = "sync" => i \notin status[q][Half(k)]
    BY <1>1 DEF WaitedInv
  <2>1. i \in Numbers[k] /\ Member[k][i] \in Ranks
    BY ShareFacts, NumberFacts
  <2>2. CASE q = p /\ d = c
    <3>1. k = n /\ n \in left[p] + 1 .. left[p] + 2 /\ i \in status[p][Half(n)]
      <4>1. left[p] \in Int
        BY DEF IInv, TypeOK
      <4>2. k = n
        BY <2>2, <1>0
      <4>3. i \in Share(c, n)
        BY <2>2, <4>2
      <4>4. n \in left[p] + 1 .. left[p] + 2
        BY <4>1, <1>2
      <4> QED BY <4>2, <4>3, <4>4, <1>1, <1>2
    <3>2. Sent(Member[k][i], q, k)
      BY <2>2, <3>1 DEF IInv, FlagInv
    <3> QED BY <2>1, <2>2, <3>1, <3>2, <1>2, <1>4, <1>6
  <2>3. CASE ~(q = p /\ d = c)
    <3>1. pc'[q][d] = pc[q][d]
      BY <2>3, <1>4
    <3>2. q \in World[k]
      BY <3>1, AtFacts, RunningFacts
    <3>3. Sent(Member[k][i], q, k) /\ (pc[q][d] = "sync" => i \notin status[q][Half(k)])
      BY <3>1 DEF IInv, WaitedInv
    <3> QED BY <3>1, <3>2, <3>3, <2>1, <1>6
  <2> QED BY <2>2, <2>3
<1>11. DoneInv'
  <2> SUFFICES ASSUME NEW q \in Ranks, NEW k \in 1 .. left[q], NEW r \in World[k]
               PROVE  Sent(r, q, k)'
    BY <1>1 DEF DoneInv
  <2>1. Sent(r, q, k)
    BY DEF IInv, DoneInv
  <2> QED BY <2>1, <1>1 DEF Sent
<1>12. FinishInv'
  <2>1. pc[p][0] = "watch" /\ First(c, n) < Size[n]
    BY <1>0, <1>1 DEF IInv, WatchInv
  <2>2. c \in UsedAivs(p)
    BY <2>1, <1>0, <1>2, UsedFacts DEF UsedAivs
  <2>3. /\ finish[p][1 - h] = {}
        /\ \A d \in finish[p][h] : d \in SendAivs /\ pc[p][d] \in {"clean", "sync"} /\ d \in UsedAivs(p)
    <3>1. p \in Ranks \ timedOut /\ finish[p][h] \subseteq SendAivs
      BY <1>1, <1>2, <1>3
    <3>2. /\ finish[p][1 - DataState(p)] = {}
          /\ \A d \in finish[p][DataState(p)] : pc[p][d] \in {"clean", "sync"} /\ d \in UsedAivs(p)
      BY <3>1 DEF IInv, FinishInv
    <3> QED BY <3>1, <3>2, <1>0
  <2>4. \A r \in Ranks : DataState(r)' = DataState(r) /\ UsedAivs(r)' = UsedAivs(r)
    BY <1>1 DEF DataState, UsedAivs
  <2>5. \A d \in finish'[p][h] : pc'[p][d] \in {"clean", "sync"} /\ d \in UsedAivs(p)
    BY <2>2, <2>3, <1>4, <1>5
  <2>6. ASSUME NEW q \in Ranks \ timedOut'
        PROVE  /\ finish'[q][1 - DataState(q)] = {}
               /\ pc'[q][0] # "watch" => finish'[q][DataState(q)] = {}
               /\ \A d \in finish'[q][DataState(q)] : pc'[q][d] \in {"clean", "sync"} /\ d \in UsedAivs(q)
    <3>1. CASE q = p
      BY <3>1, <2>1, <2>3, <2>5, <1>0, <1>4, <1>5
    <3>2. CASE q # p
      BY <3>2, <1>1, <1>4, <1>5 DEF IInv, FinishInv
    <3> QED BY <3>1, <3>2
  <2> QED BY <2>4, <2>6 DEF FinishInv
<1>13. WatchInv'
  BY <1>1, <1>4 DEF IInv, WatchInv
<1> QED BY <1>7, <1>8, <1>9, <1>10, <1>11, <1>12, <1>13 DEF IInv

LEMMA CleanStatusInv ==
  ASSUME IInv, NEW p \in Ranks, NEW c \in SendAivs, CleanStatus(p, c)
  PROVE  IInv'
<1>0. PICK n, h : n = entered[p] /\ h = DataState(p)
  OBVIOUS
<1>1. /\ pc[p][c] = "clean" /\ p \notin timedOut
      /\ status' = [status EXCEPT ![p][h] = @ \ Share(c, n)]
      /\ pc' = [pc EXCEPT ![p][c] = "sync"]
      /\ UNCHANGED <<isInputTimeout, stateFlag, finish, idx, entered, left, timedOut>>
  BY <1>0 DEF CleanStatus, At, Goto
<1>2. n \in Rounds /\ left[p] < n /\ h = Half(n) /\ h \in Halves
  <2>1. left[p] < n
    BY <1>0, <1>1, AtFacts
  <2>2. n \in Rounds /\ h = Half(n)
    BY <1>0, <2>1, RunningFacts
  <2> QED BY <2>1, <2>2, HalfFacts DEF Rounds
<1>3. /\ SendAivs \subseteq Aivs /\ 0 \in Aivs /\ 0 \notin SendAivs
      /\ pc \in [Ranks -> [Aivs -> {"idle", "watch", "send", "clean", "sync"}]]
      /\ status \in [Ranks -> [Halves -> SUBSET Ranks]]
      /\ finish \in [Ranks -> [Halves -> SUBSET SendAivs]]
  BY BarrierAssumption DEF SendAivs, Aivs, IInv, TypeOK
<1>4. /\ pc'[p][0] = pc[p][0] /\ pc'[p][c] = "sync"
      /\ \A d \in SendAivs : d # c => pc'[p][d] = pc[p][d]
      /\ \A r \in Ranks : r # p => pc'[r] = pc[r]
  BY <1>1, <1>3
<1>5. /\ status'[p][h] = status[p][h] \ Share(c, n)
      /\ \A r \in Ranks, g \in Halves : status'[r][g] \subseteq status[r][g]
  BY <1>1, <1>2, <1>3
<1>6. \A r \in Ranks : \A k \in Rounds : \A q \in World[k] : Sent(r, q, k) = Sent(r, q, k)'
  BY <1>1 DEF Sent
<1>7. TypeOK'
  <2>1. status' \in [Ranks -> [Halves -> SUBSET Ranks]]
    <3>1. status[p][h] \ Share(c, n) \in SUBSET Ranks
      BY <1>2, <1>3
    <3> QED BY <3>1, <1>1, <1>2, <1>3
  <2>2. pc' \in [Ranks -> [Aivs -> {"idle", "watch", "send", "clean", "sync"}]]
    BY <1>1, <1>3
  <2> QED BY <1>1, <2>1, <2>2 DEF IInv, TypeOK
<1>8. RoundInv' /\ PcInv'
  BY <1>0, <1>1, <1>2, <1>3, <1>4 DEF IInv, RoundInv, PcInv
<1>9. FlagInv'
  <2> SUFFICES ASSUME NEW q \in Ranks, NEW k \in left[q] + 1 .. left[q] + 2,
                      NEW s \in status'[q][Half(k)]
               PROVE  k \in Rounds /\ q \in World[k] /\ s \in Numbers[k] /\ Sent(Member[k][s], q, k)'
    BY <1>1 DEF FlagInv
  <2>1. left[q] \in Int
    BY DEF IInv, TypeOK
  <2>2. Half(k) \in Halves
    BY <2>1, HalfFacts
  <2>3. k \in Rounds /\ q \in World[k] /\ s \in Numbers[k] /\ Sent(Member[k][s], q, k)
    BY <2>2, <1>5 DEF IInv, FlagInv
  <2> QED BY <2>3, <1>6, NumberFacts
<1>10. WaitedInv'
  <2> SUFFICES ASSUME NEW q \in Ranks, NEW d \in SendAivs, NEW k \in Rounds,
                      pc'[q][d] \in {"clean", "sync"}, entered[q] = k,
                      NEW i \in Share(d, k)
               PROVE  /\ Sent(Member[k][i], q, k)'
                      /\ pc'[q][d] = "sync" => i \notin status'[q][Half(k)]
    BY <1>1 DEF WaitedInv
  <2>1. i \in Numbers[k] /\ Member[k][i] \in Ranks /\ Half(k) \in Halves
    <3>1. i \in Numbers[k] /\ Member[k][i] \in Ranks
      BY ShareFacts, NumberFacts
    <3> QED BY <3>1, HalfFacts DEF Rounds
  <2>2. pc[q][d] \in {"clean", "sync"}
    BY <1>1, <1>4
  <2>3. q \in World[k]
    BY <2>2, AtFacts, RunningFacts
  <2>4. Sent(Member[k][i], q, k) /\ (pc[q][d] = "sync" => i \notin status[q][Half(k)])
    BY <2>2 DEF IInv, WaitedInv
  <2>5. pc'[q][d] = "sync" => i \notin status'[q][Half(k)]
    <3>1. CASE q = p /\ d = c
      BY <3>1, <1>0, <1>2, <1>5
    <3>2. CASE ~(q = p /\ d = c)
      <4>1. pc'[q][d] = pc[q][d]
        BY <3>2, <1>4
      <4> QED BY <4>1, <2>1, <2>4, <1>5
    <3> QED BY <3>1, <3>2
  <2> QED BY <2>1, <2>3, <2>4, <2>5, <1>6
<1>11. DoneInv'
  <2> SUFFICES ASSUME NEW q \in Ranks, NEW k \in 1 .. left[q], NEW r \in World[k]
               PROVE  Sent(r, q, k)'
    BY <1>1 DEF DoneInv
  <2>1. Sent(r, q, k)
    BY DEF IInv, DoneInv
  <2> QED BY <2>1, <1>1 DEF Sent
<1>12. FinishInv'
  <2>1. \A r \in Ranks : DataState(r)' = DataState(r) /\ UsedAivs(r)' = UsedAivs(r)
    BY <1>1 DEF DataState, UsedAivs
  <2>2. ASSUME NEW q \in Ranks, NEW d \in SendAivs, pc[q][d] \in {"clean", "sync"}
        PROVE  pc'[q][d] \in {"clean", "sync"}
    BY <2>2, <1>1, <1>4
  <2>3. ASSUME NEW q \in Ranks \ timedOut
        PROVE  /\ finish'[q][1 - DataState(q)] = {}
               /\ pc'[q][0] # "watch" => finish'[q][DataState(q)] = {}
               /\ \A d \in finish'[q][DataState(q)] : pc'[q][d] \in {"clean", "sync"} /\ d \in UsedAivs(q)
    <3>1. /\ finish[q][1 - DataState(q)] = {}
          /\ pc[q][0] # "watch" => finish[q][DataState(q)] = {}
          /\ \A d \in finish[q][DataState(q)] : pc[q][d] \in {"clean", "sync"} /\ d \in UsedAivs(q)
      BY DEF IInv, FinishInv
    <3>2. finish[q][DataState(q)] \subseteq SendAivs
      <4>1. DataState(q) \in Halves
        BY DataStateFacts DEF IInv
      <4> QED BY <4>1, <1>3
    <3>3. pc'[q][0] = pc[q][0]
      BY <1>4
    <3> QED BY <3>1, <3>2, <3>3, <2>2, <1>1
  <2> QED BY <2>1, <2>3, <1>1 DEF FinishInv
<1>13. WatchInv'
  BY <1>1, <1>4 DEF IInv, WatchInv
<1> QED BY <1>7, <1>8, <1>9, <1>10, <1>11, <1>12, <1>13 DEF IInv

(* A step of core 0 or of the clock, which the flags do not see.           *)
LEMMA FlagsUnseen ==
  ASSUME IInv, UNCHANGED <<stateFlag, status, idx, entered, left>>,
         \A q \in Ranks, d \in SendAivs : pc'[q][d] = pc[q][d] \/ pc'[q][d] = "idle"
  PROVE  FlagInv' /\ WaitedInv' /\ DoneInv'
<1>1. \A r, q, k : Sent(r, q, k)' = Sent(r, q, k)
  BY DEF Sent
<1>2. FlagInv'
  BY <1>1 DEF IInv, FlagInv
<1>3. WaitedInv'
  BY <1>1 DEF IInv, WaitedInv
<1>4. DoneInv'
  BY <1>1 DEF IInv, DoneInv
<1> QED BY <1>2, <1>3, <1>4

LEMMA WatchEndsInv ==
  ASSUME IInv, NEW p \in Ranks, WatchEnds(p)
  PROVE  IInv'
<1>0. PICK n, h : n = entered[p] /\ h = DataState(p)
  OBVIOUS
<1>1. /\ pc[p][0] = "watch" /\ p \notin timedOut
      /\ UsedAivs(p) \subseteq finish[p][h]
      /\ finish' = [finish EXCEPT ![p][h] = @ \ UsedAivs(p)]
      /\ pc' = [pc EXCEPT ![p][0] = "sync"]
      /\ UNCHANGED <<isInputTimeout, stateFlag, status, idx, entered, left, timedOut>>
  BY <1>0 DEF WatchEnds, At, Goto, CellsCleared
<1>2. /\ SendAivs \subseteq Aivs /\ 0 \in Aivs /\ 0 \notin SendAivs
      /\ pc \in [Ranks -> [Aivs -> {"idle", "watch", "send", "clean", "sync"}]]
      /\ finish \in [Ranks -> [Halves -> SUBSET SendAivs]]
      /\ h \in Halves
  <2>1. SendAivs \subseteq Aivs /\ 0 \in Aivs /\ 0 \notin SendAivs
    BY BarrierAssumption DEF SendAivs, Aivs
  <2>2. h \in Halves
    BY <1>0, DataStateFacts DEF IInv
  <2> QED BY <2>1, <2>2 DEF IInv, TypeOK
<1>3. /\ pc'[p][0] = "sync"
      /\ \A q \in Ranks, d \in SendAivs : pc'[q][d] = pc[q][d]
      /\ \A r \in Ranks : r # p => pc'[r] = pc[r]
  BY <1>1, <1>2
<1>4. /\ finish[p][1 - h] = {}
      /\ \A d \in finish[p][h] : pc[p][d] \in {"clean", "sync"} /\ d \in UsedAivs(p)
  BY <1>0, <1>1 DEF IInv, FinishInv
<1>5. /\ finish'[p][h] = {} /\ finish'[p][1 - h] = {}
      /\ \A r \in Ranks : r # p => finish'[r] = finish[r]
  BY <1>1, <1>2, <1>4 DEF Halves
<1>6. TypeOK'
  <2>1. finish[p][h] \ UsedAivs(p) \in SUBSET SendAivs
    BY <1>2
  <2> QED BY <2>1, <1>1, <1>2 DEF IInv, TypeOK
<1>7. RoundInv'
  BY <1>1 DEF IInv, RoundInv
<1>8. PcInv'
  <2>1. left[p] # entered[p]
    BY <1>1 DEF IInv, PcInv
  <2> QED BY <2>1, <1>1, <1>3 DEF IInv, PcInv
<1>9. FlagInv' /\ WaitedInv' /\ DoneInv'
  BY <1>1, <1>3, FlagsUnseen
<1>10. FinishInv'
  <2>1. \A r \in Ranks : DataState(r)' = DataState(r) /\ UsedAivs(r)' = UsedAivs(r)
    BY <1>1 DEF DataState, UsedAivs
  <2>2. ASSUME NEW q \in Ranks \ timedOut
        PROVE  /\ finish'[q][1 - DataState(q)] = {}
               /\ pc'[q][0] # "watch" => finish'[q][DataState(q)] = {}
               /\ \A d \in finish'[q][DataState(q)] : pc'[q][d] \in {"clean", "sync"} /\ d \in UsedAivs(q)
    <3>1. CASE q = p
      BY <3>1, <1>0, <1>5
    <3>2. CASE q # p
      BY <3>2, <1>3, <1>5 DEF IInv, FinishInv
    <3> QED BY <3>1, <3>2
  <2> QED BY <2>1, <2>2, <1>1 DEF FinishInv
<1>11. WatchInv'
  <2> SUFFICES ASSUME NEW q \in Ranks, NEW d \in SendAivs, pc'[q][d] = "send"
               PROVE  pc'[q][0] = "watch" /\ q \notin timedOut /\ First(d, entered[q]) < Size[entered[q]]
    BY <1>1 DEF WatchInv
  <2>1. pc[q][d] = "send"
    BY <1>3
  <2>2. pc[q][0] = "watch" /\ q \notin timedOut /\ First(d, entered[q]) < Size[entered[q]]
    BY <2>1 DEF IInv, WatchInv
  <2>3. q # p
    <3> SUFFICES ASSUME q = p PROVE FALSE
      OBVIOUS
    <3>1. entered[p] \in Rounds
      BY <2>1, AtFacts, RunningFacts
    <3>2. d \in UsedAivs(p)
      BY <2>2, <3>1, UsedFacts DEF UsedAivs
    <3> QED BY <2>1, <3>2, <1>1, <1>4
  <2> QED BY <2>2, <2>3, <1>3
<1> QED BY <1>6, <1>7, <1>8, <1>9, <1>10, <1>11 DEF IInv

LEMMA TimeoutInv ==
  ASSUME IInv, NEW p \in Ranks, Timeout(p)
  PROVE  IInv'
<1>1. /\ timedOut' = timedOut \cup {p}
      /\ pc' = [pc EXCEPT ![p] = [c \in Aivs |-> "idle"]]
      /\ UNCHANGED <<isInputTimeout, stateFlag, status, finish, idx, entered, left>>
  BY DEF Timeout, window
<1>2. /\ SendAivs \subseteq Aivs /\ 0 \in Aivs
      /\ pc \in [Ranks -> [Aivs -> {"idle", "watch", "send", "clean", "sync"}]]
  BY BarrierAssumption DEF SendAivs, Aivs, IInv, TypeOK
<1>3. /\ \A c \in Aivs : pc'[p][c] = "idle"
      /\ \A r \in Ranks : r # p => pc'[r] = pc[r]
  BY <1>1, <1>2
<1>4. TypeOK'
  BY <1>1, <1>2 DEF IInv, TypeOK
<1>5. RoundInv'
  BY <1>1 DEF IInv, RoundInv
<1>6. PcInv'
  BY <1>1, <1>2, <1>3 DEF IInv, PcInv
<1>7. FlagInv' /\ WaitedInv' /\ DoneInv'
  BY <1>1, <1>2, <1>3, FlagsUnseen
<1>8. FinishInv'
  <2>1. \A r \in Ranks : DataState(r)' = DataState(r) /\ UsedAivs(r)' = UsedAivs(r)
    BY <1>1 DEF DataState, UsedAivs
  <2> QED BY <2>1, <1>1, <1>3 DEF IInv, FinishInv
<1>9. WatchInv'
  BY <1>1, <1>2, <1>3 DEF IInv, WatchInv
<1> QED BY <1>4, <1>5, <1>6, <1>7, <1>8, <1>9 DEF IInv

(* A launch returns with the flags of the whole world, and leaves none of  *)
(* them in its half of the window.                                         *)
LEMMA ReturnFacts ==
  ASSUME IInv, NEW p \in Ranks, Return(p)
  PROVE  /\ left[p] < entered[p]
         /\ \A q \in World[entered[p]] : Sent(q, p, entered[p])
         /\ status[p][Half(entered[p])] = {}
<1> DEFINE n == entered[p]
<1>1. p \notin timedOut /\ \A c \in Aivs : pc[p][c] = "sync"
  BY DEF Return, AllAtSync
<1>2. left[p] < n
  <2>1. 1 \in SendAivs /\ 1 \in Aivs
    BY BarrierAssumption DEF SendAivs, Aivs
  <2> QED BY <1>1, <2>1, AtFacts
<1>3. n \in Rounds /\ n = left[p] + 1
  BY <1>2, RunningFacts
<1>4. \A i \in Numbers[n] : Sent(Member[n][i], p, n) /\ i \notin status[p][Half(n)]
  <2> TAKE i \in Numbers[n]
  <2>1. PICK c \in SendAivs : i \in Share(c, n)
    BY <1>3, SharesCover
  <2>2. pc[p][c] = "sync"
    BY <1>1, BarrierAssumption DEF SendAivs, Aivs
  <2> QED BY <1>3, <2>1, <2>2 DEF IInv, WaitedInv
<1>5. status[p][Half(n)] = {}
  <2>1. left[p] \in Int
    BY DEF IInv, TypeOK
  <2>2. n \in left[p] + 1 .. left[p] + 2
    BY <1>3, <2>1
  <2>3. \A s \in status[p][Half(n)] : s \in Numbers[n]
    BY <2>2 DEF IInv, FlagInv
  <2> QED BY <2>3, <1>4
<1>6. \A q \in World[n] : Sent(q, p, n)
  BY <1>3, <1>4, NumberFacts
<1> QED BY <1>2, <1>5, <1>6

LEMMA ReturnInv ==
  ASSUME IInv, NEW p \in Ranks, Return(p)
  PROVE  IInv'
<1>0. PICK n : n = entered[p]
  OBVIOUS
<1>1. /\ p \notin timedOut /\ pc[p][0] = "sync"
      /\ left' = [left EXCEPT ![p] = @ + 1]
      /\ pc' = [pc EXCEPT ![p] = [c \in Aivs |-> "idle"]]
      /\ UNCHANGED <<isInputTimeout, stateFlag, status, finish, idx, entered, timedOut>>
  BY BarrierAssumption DEF Return, AllAtSync, Aivs, window
<1>2. /\ left[p] < n /\ \A q \in World[n] : Sent(q, p, n)
      /\ status[p][Half(n)] = {}
  BY <1>0, ReturnFacts
<1>3. n \in Rounds /\ n = left[p] + 1
  BY <1>0, <1>2, RunningFacts
<1>4. /\ SendAivs \subseteq Aivs /\ 0 \in Aivs
      /\ pc \in [Ranks -> [Aivs -> {"idle", "watch", "send", "clean", "sync"}]]
      /\ left \in [Ranks -> 0 .. RoundNum]
  BY BarrierAssumption DEF SendAivs, Aivs, IInv, TypeOK
<1>5. /\ \A c \in Aivs : pc'[p][c] = "idle"
      /\ \A r \in Ranks : r # p => pc'[r] = pc[r]
      /\ left'[p] = n
      /\ \A r \in Ranks : r # p => left'[r] = left[r]
  BY <1>1, <1>3, <1>4
<1>6. \A r, q, k : Sent(r, q, k)' = Sent(r, q, k)
  BY <1>1 DEF Sent
<1>7. TypeOK'
  <2>1. left[p] + 1 \in 0 .. RoundNum
    BY <1>3 DEF Rounds
  <2> QED BY <2>1, <1>1, <1>4 DEF IInv, TypeOK
<1>8. RoundInv'
  <2>1. n \in Int
    BY <1>3 DEF Rounds
  <2> QED BY <2>1, <1>0, <1>1, <1>5 DEF IInv, RoundInv
<1>9. PcInv'
  BY <1>0, <1>1, <1>4, <1>5 DEF IInv, PcInv
<1>10. FlagInv'
  <2> SUFFICES ASSUME NEW q \in Ranks, NEW k \in left'[q] + 1 .. left'[q] + 2,
                      NEW s \in status[q][Half(k)]
               PROVE  k \in Rounds /\ q \in World[k] /\ s \in Numbers[k] /\ Sent(Member[k][s], q, k)
    BY <1>1, <1>6 DEF FlagInv
  <2>1. CASE q # p
    BY <2>1, <1>5 DEF IInv, FlagInv
  <2>2. CASE q = p
    <3>1. n \in Int /\ left[p] \in Int /\ left'[p] = left[p] + 1
      BY <1>3, <1>4, <1>5 DEF Rounds
    <3>2. k # n + 2
      <4>1. Half(n + 2) = Half(n)
        BY <3>1, HalfFacts
      <4> QED BY <2>2, <4>1, <1>2
    <3>3. k \in left[p] + 1 .. left[p] + 2
      BY <2>2, <3>1, <3>2, <1>3
    <3> QED BY <2>2, <3>3 DEF IInv, FlagInv
  <2> QED BY <2>1, <2>2
<1>11. WaitedInv'
  <2> SUFFICES ASSUME NEW q \in Ranks, NEW d \in SendAivs, NEW k \in Rounds,
                      pc'[q][d] \in {"clean", "sync"}, entered[q] = k,
                      NEW i \in Share(d, k)
               PROVE  /\ Sent(Member[k][i], q, k)
                      /\ pc'[q][d] = "sync" => i \notin status[q][Half(k)]
    BY <1>1, <1>6 DEF WaitedInv
  <2>1. q # p
    BY <1>4, <1>5
  <2> QED BY <2>1, <1>5 DEF IInv, WaitedInv
<1>12. DoneInv'
  <2> SUFFICES ASSUME NEW q \in Ranks, NEW k \in 1 .. left'[q], NEW r \in World[k]
               PROVE  Sent(r, q, k)
    BY <1>6 DEF DoneInv
  <2>1. CASE q # p
    BY <2>1, <1>5 DEF IInv, DoneInv
  <2>2. CASE q = p
    <3>1. k = n \/ k \in 1 .. left[p]
      BY <2>2, <1>3, <1>4, <1>5
    <3> QED BY <2>2, <3>1, <1>2 DEF IInv, DoneInv
  <2> QED BY <2>1, <2>2
<1>13. FinishInv'
  <2>1. \A r \in Ranks : DataState(r)' = DataState(r) /\ UsedAivs(r)' = UsedAivs(r)
    BY <1>1 DEF DataState, UsedAivs
  <2>2. finish[p][DataState(p)] = {} /\ finish[p][1 - DataState(p)] = {}
    BY <1>1 DEF IInv, FinishInv
  <2>3. ASSUME NEW q \in Ranks \ timedOut
        PROVE  /\ finish[q][1 - DataState(q)] = {}
               /\ pc'[q][0] # "watch" => finish[q][DataState(q)] = {}
               /\ \A d \in finish[q][DataState(q)] : pc'[q][d] \in {"clean", "sync"} /\ d \in UsedAivs(q)
    <3>1. CASE q = p
      BY <3>1, <2>2
    <3>2. CASE q # p
      BY <3>2, <1>5 DEF IInv, FinishInv
    <3> QED BY <3>1, <3>2
  <2> QED BY <2>1, <2>3, <1>1 DEF FinishInv
<1>14. WatchInv'
  BY <1>1, <1>4, <1>5 DEF IInv, WatchInv
<1> QED BY <1>7, <1>8, <1>9, <1>10, <1>11, <1>12, <1>13, <1>14 DEF IInv

LEMMA StepInv == IInv /\ [Next]_vars => IInv'
<1> SUFFICES ASSUME IInv, [Next]_vars PROVE IInv'
  OBVIOUS
<1>1. CASE UNCHANGED vars
  <2>1. /\ \A r, q, k : Sent(r, q, k)' = Sent(r, q, k)
        /\ \A r : DataState(r)' = DataState(r) /\ UsedAivs(r)' = UsedAivs(r)
    BY <1>1 DEF vars, window, Sent, DataState, UsedAivs
  <2>2. FlagInv' /\ WaitedInv' /\ DoneInv'
    BY <1>1, FlagsUnseen DEF vars, window
  <2>3. FinishInv'
    BY <1>1, <2>1 DEF vars, window, IInv, FinishInv
  <2> QED BY <1>1, <2>2, <2>3 DEF vars, window, IInv, TypeOK, RoundInv, PcInv, WatchInv
<1>2. ASSUME NEW p \in Ranks, Launch(p) PROVE IInv'
  BY <1>2, LaunchInv
<1>3. ASSUME NEW p \in Ranks, NEW c \in SendAivs, CoreStep(p, c) PROVE IInv'
  BY <1>3, SetStatusInv, WaitStatusInv, CleanStatusInv DEF CoreStep
<1>4. ASSUME NEW p \in Ranks, WatchEnds(p) \/ Timeout(p) \/ Return(p) PROVE IInv'
  BY <1>4, WatchEndsInv, TimeoutInv, ReturnInv
<1> QED BY <1>1, <1>2, <1>3, <1>4 DEF Next, RankStep

(***************************************************************************)
(* The theorems.                                                           *)
(***************************************************************************)

(* The inductive invariant holds, and the types with it.                   *)
THEOREM TypeCorrect == Spec => [](IInv /\ TypeOK)
<1>1. IInv => TypeOK
  BY DEF IInv
<1> QED BY <1>1, InitInv, StepInv, PTL DEF Spec

(* SetStatus never raises a flag that is still up, so CleanStatus never    *)
(* lowers two arrivals at once.                                            *)
THEOREM FlagsKept == Spec => []NoFlagLost
<1>1. IInv => NoFlagLost
  <2> SUFFICES ASSUME IInv, NEW p \in Ranks, NEW c \in SendAivs,
                      pc[p][c] = "send", idx[p][c] < Last(c, entered[p]),
                      MySlot(p) \in status[Member[entered[p]][idx[p][c]]][DataState(p)]
               PROVE  FALSE
    BY DEF NoFlagLost
  <2>0. PICK n, t : n = entered[p] /\ t = Member[n][idx[p][c]]
    OBVIOUS
  <2>1. t \in Ranks /\ ~Sent(p, t, n) /\ n \in left[t] + 1 .. left[t] + 2
    BY <2>0, SenderFacts
  <2>2. DataState(p) = Half(n) /\ Member[n][MySlot(p)] = p
    BY <2>0, AtFacts, RunningFacts
  <2>3. Sent(Member[n][MySlot(p)], t, n)
    BY <2>0, <2>1, <2>2 DEF IInv, FlagInv
  <2> QED BY <2>1, <2>2, <2>3
<1> QED BY <1>1, TypeCorrect, PTL

(* While a core waits for other ranks, core 0 looks at the clock.          *)
THEOREM ClockWatched == Spec => []WatchedWhileWaiting
<1>1. IInv => WatchedWhileWaiting
  BY DEF IInv, WatchInv, WatchedWhileWaiting
<1> QED BY <1>1, TypeCorrect, PTL

(* The operator is a barrier.                                              *)
THEOREM IsBarrier == Spec => BarrierSpec
<1>1. Init => Barrier!Init
  BY DEF Init, Barrier!Init
<1>2. IInv /\ [Next]_vars => [Barrier!Next]_<<entered, left, timedOut>>
  <2> SUFFICES ASSUME IInv, [Next]_vars
               PROVE  Barrier!Next \/ UNCHANGED <<entered, left, timedOut>>
    OBVIOUS
  <2>1. CASE UNCHANGED vars
    BY <2>1 DEF vars
  <2>2. ASSUME NEW p \in Ranks, Launch(p)
        PROVE  Barrier!Next
    BY <2>2 DEF Launch, Barrier!Next, Barrier!Enter
  <2>3. ASSUME NEW p \in Ranks, NEW c \in SendAivs, CoreStep(p, c)
        PROVE  UNCHANGED <<entered, left, timedOut>>
    BY <2>3 DEF CoreStep, SetStatus, WaitStatus, CleanStatus
  <2>4. ASSUME NEW p \in Ranks, WatchEnds(p)
        PROVE  UNCHANGED <<entered, left, timedOut>>
    BY <2>4 DEF WatchEnds
  <2>5. ASSUME NEW p \in Ranks, Timeout(p)
        PROVE  Barrier!Next
    <3>1. pc[p][0] = "watch" /\ p \notin timedOut
      BY <2>5 DEF Timeout, At
    <3>2. left[p] < entered[p]
      <4>1. left[p] # entered[p]
        BY <3>1 DEF IInv, PcInv
      <4>2. left[p] <= entered[p] /\ left[p] \in Int /\ entered[p] \in Int
        BY DEF IInv, TypeOK, RoundInv
      <4> QED BY <4>1, <4>2
    <3> QED BY <2>5, <3>1, <3>2 DEF Timeout, Barrier!Next, Barrier!GiveUp
  <2>6. ASSUME NEW p \in Ranks, Return(p)
        PROVE  Barrier!Next
    <3>1. left[p] < entered[p] /\ \A q \in World[entered[p]] : Sent(q, p, entered[p])
      BY <2>6, ReturnFacts
    <3>2. entered[p] \in Rounds
      BY <3>1, RunningFacts
    <3>3. \A q \in World[entered[p]] : entered[q] >= entered[p]
      <4> TAKE q \in World[entered[p]]
      <4>1. q \in Ranks /\ entered[q] \in Int /\ entered[p] \in Int
        BY <3>2, NumberFacts DEF IInv, TypeOK
      <4> QED BY <3>1, <4>1 DEF Sent
    <3> QED BY <2>6, <3>1, <3>3 DEF Return, Barrier!Next, Barrier!Leave
  <2> QED BY <2>1, <2>2, <2>3, <2>4, <2>5, <2>6 DEF Next, RankStep
<1> QED BY <1>1, <1>2, TypeCorrect, PTL DEF Spec, BarrierSpec, Barrier!Spec
=============================================================================

------------------------ MODULE AttentionToFFNProofs ------------------------
(***************************************************************************)
(* The safety of AttentionToFFN for every number of FFN nodes, micro-      *)
(* batches, vector cores, slots and rounds, for all routes and both scenes.*)
(*                                                                         *)
(* A slot of the round under way is on exactly one of the stations         *)
(* unwritten, in the window, listed by its FFN node, answered; the reader  *)
(* of a descriptor and the cores that write into it are kept apart by the  *)
(* flag alone (ReaderInv), and the flag of a node that got tokens stays    *)
(* down until the one core that has the node in its chunk has come to it   *)
(* (FlagInv).                                                              *)
(***************************************************************************)
EXTENDS AttentionToFFN, WorkSplitProofs, FiniteSetTheorems

SomeSends == \E c \in Aivs : pc[c] = "send"

HostInv ==
  /\ mb \in MicroBatches /\ turn \in MicroBatches
  /\ route \in [MicroBatches -> UNION {[0 .. k - 1 -> Ffns] : k \in 0 .. SlotNum}]
  /\ sent \in [MicroBatches -> Nat] /\ collected \in [MicroBatches -> Nat]
  /\ \A m \in MicroBatches : sent[m] \in {collected[m], collected[m] + 1}
  /\ ~Idle => Outstanding(mb)

(* No core is past SyncAll while another one sends; a core in the flag     *)
(* loop is in its chunk; status says who got a token.                      *)
CoreInv ==
  /\ SomeSends => \A c \in Aivs : pc[c] \in {"send", "sync"}
  /\ \A c \in Aivs : pc[c] = "flags" => StartId(c, FfnNum, AivNum) <= idx[c]
  /\ \A c \in Aivs : \A f \in status[c] :
       \E i \in Active(route[mb]) : route[mb][i] = f /\ Written(mb, i)

(* The FFN node drops the flag when it is done with the descriptor.        *)
ReaderInv == \A p \in Pairs : reader[p] # "watch" => flag[p] = 1

(* Slot i is in the descriptor of p, or listed by its node.                *)
There(p, i) == i \in held[p] \/ ids[p][i] # Invalid

(* What is there belongs to the round under way, to this node, and is not  *)
(* answered; an id stands in the window until the node has listed it and   *)
(* wipes it; only slots that are written or masked are flagged.            *)
ThereInv ==
  \A p \in Pairs, i \in Slots : There(p, i) =>
    /\ Outstanding(p[2]) /\ attnFlag[p[2]][i] = 0
    /\ i \in Active(route[p[2]]) /\ route[p[2]][i] = p[1] /\ Written(p[2], i)

IdsInv ==
  \A p \in Pairs, i \in Slots : ids[p][i] # Invalid =>
    /\ ids[p][i] = sent[p[2]] - 1 /\ reader[p] # "clear"
    /\ i \in held[p] <=> reader[p] = "reset"

AttnInv ==
  \A m \in MicroBatches, i \in Slots : attnFlag[m][i] = 1 =>
    Outstanding(m) /\ (i \in Active(route[m]) => Written(m, i))

(* No flag shows the round under way before all cores have sent.           *)
LayerInv ==
  \A p \in Pairs : flag[p] = 1 =>
    /\ layer[p] < sent[p[2]]
    /\ p[2] = mb /\ SomeSends => layer[p] < LayerId

(* The core that has FFN node f in its chunk has not come to it yet.       *)
Unflagged(f) ==
  \A c \in Aivs : f \in Chunk(c, FfnNum, AivNum) =>
    pc[c] \in {"send", "sync"} \/ (pc[c] = "flags" /\ idx[c] <= f)

FlagInv ==
  \A i \in Active(route[mb]) :
    Unflagged(route[mb][i]) /\ Written(mb, i) =>
      flag[<<route[mb][i], mb>>] = 0 /\ ids[<<route[mb][i], mb>>][i] = LayerId

(* The asynchronous scene wakes a node only for work.                      *)
WakeInv ==
  asynchronous => \A p \in Pairs : flag[p] = 1 /\ reader[p] = "watch" =>
    \E i \in Slots : ids[p][i] = layer[p]

SlotInv == ThereInv /\ IdsInv /\ AttnInv /\ NothingLost

IInv == TypeOK /\ HostInv /\ CoreInv /\ ReaderInv /\ SlotInv /\ LayerInv /\ FlagInv /\ WakeInv

(***************************************************************************)
(* Facts about pairs, slots and the tokens of a core.                      *)
(***************************************************************************)

LEMMA Counts ==
  /\ FfnNum \in Nat \ {0} /\ MicroBatchNum \in Nat \ {0}
  /\ AivNum \in Nat \ {0} /\ SlotNum \in Nat \ {0}
  /\ Aivs = 0 .. AivNum - 1
BY SendAssumption DEF Aivs

LEMMA PairFacts ==
  /\ \A p \in Pairs : p[1] \in Ffns /\ p[2] \in MicroBatches /\ p = <<p[1], p[2]>>
  /\ \A f \in Ffns, m \in MicroBatches : <<f, m>> \in Pairs
BY DEF Pairs

(* The active slots come first, the masked ones behind them.               *)
LEMMA RouteFacts ==
  ASSUME HostInv, NEW m \in MicroBatches
  PROVE  /\ Active(route[m]) \subseteq Slots
         /\ \A i \in Active(route[m]) : route[m][i] \in Ffns
         /\ Cardinality(Active(route[m])) \in 0 .. SlotNum
         /\ Active(route[m]) = 0 .. Cardinality(Active(route[m])) - 1
         /\ Cardinality(Masked(route[m])) \in Nat
<1>1. PICK k \in 0 .. SlotNum : route[m] \in [0 .. k - 1 -> Ffns]
  <2>1. route[m] \in UNION {[0 .. k - 1 -> Ffns] : k \in 0 .. SlotNum}
    BY DEF HostInv
  <2> QED  BY <2>1
<1>2. Active(route[m]) = 0 .. k - 1 /\ Masked(route[m]) = k .. SlotNum - 1
  BY <1>1, Counts DEF Active, Masked, Slots
<1>3. Cardinality(0 .. k - 1) = k
  BY FS_Interval, Counts
<1>4. Cardinality(k .. SlotNum - 1) \in Nat
  <2>1. k \in Int /\ SlotNum - 1 \in Int
    BY Counts
  <2>2. IsFiniteSet(k .. SlotNum - 1)
    BY <2>1, FS_Interval
  <2> QED  BY <2>2, FS_CardinalityType
<1> QED  BY <1>1, <1>2, <1>3, <1>4, Counts DEF Slots

LEMMA TokensOfRound ==
  ASSUME IInv
  PROVE  /\ mb \in MicroBatches
         /\ TokenNum \in Nat /\ Active(route[mb]) = 0 .. TokenNum - 1
         /\ \A i \in Active(route[mb]) : i \in Slots /\ route[mb][i] \in Ffns
         /\ Cardinality(Masked(route[mb])) \in Nat
<1>1. HostInv /\ mb \in MicroBatches
  BY DEF IInv, HostInv
<1> QED  BY <1>1, RouteFacts DEF TokenNum

(* Token i is number i \div AivNum of core i % AivNum.                     *)
LEMMA Stride ==
  ASSUME NEW i \in Nat, NEW c \in Aivs, NEW j \in Nat
  PROVE  i = c + j * AivNum <=> i % AivNum = c /\ i \div AivNum = j
<1>1. /\ i = AivNum * (i \div AivNum) + (i % AivNum)
      /\ i \div AivNum \in Nat /\ i % AivNum \in 0 .. AivNum - 1
  BY Counts, DivMod
<1>2. c \in 0 .. AivNum - 1 /\ AivNum \in Nat \ {0}
  BY Counts
<1>3. ASSUME i = c + j * AivNum
      PROVE  i % AivNum = c /\ i \div AivNum = j
  <2>1. AivNum * (i \div AivNum) + (i % AivNum) = AivNum * j + c
    BY <1>1, <1>2, <1>3
  <2> HIDE <1>3
  <2> QED  BY <1>1, <1>2, <2>1, DivUnique
<1>4. ASSUME i % AivNum = c /\ i \div AivNum = j
      PROVE  i = c + j * AivNum
  BY <1>1, <1>2, <1>4
<1> QED  BY <1>3, <1>4

(* The token a core is at is one of its own, and not written yet.          *)
LEMMA TokenFacts ==
  ASSUME IInv, NEW c \in Aivs, pc[c] = "send", idx[c] < SendNum(c, TokenNum, AivNum)
  PROVE  LET i == TokenOffset(c) IN
         /\ i \in Active(route[mb]) /\ i \in Slots /\ route[mb][i] \in Ffns
         /\ i % AivNum = c /\ i \div AivNum = idx[c]
         /\ ~Written(mb, i)
<1> DEFINE i == TokenOffset(c)
<1>1. TokenNum \in Nat /\ Active(route[mb]) = 0 .. TokenNum - 1
  BY TokensOfRound
<1>2. idx[c] \in Nat /\ SendNum(c, TokenNum, AivNum) \in Nat
  BY <1>1, SendNumType, Counts DEF IInv, TypeOK
<1>3. i \in Strided(c, TokenNum, AivNum)
  BY <1>2 DEF Strided, TokenOffset
<1>4. i \in 0 .. TokenNum - 1 /\ i % AivNum = c
  BY <1>1, <1>3, Counts, StridedWithin
<1>5. i \div AivNum = idx[c]
  BY <1>2, <1>4, Stride DEF TokenOffset
<1>6. ~Written(mb, i)
  BY <1>2, <1>4, <1>5 DEF Written
<1> HIDE DEF i
<1>7. i \in Active(route[mb]) /\ i \in Slots /\ route[mb][i] \in Ffns
  BY <1>1, <1>4, TokensOfRound
<1> QED  BY <1>4, <1>5, <1>6, <1>7 DEF i

LEMMA SlotCore ==
  ASSUME NEW i \in Slots
  PROVE  i % AivNum \in Aivs /\ i \div AivNum \in Nat
<1>1. i \in Nat
  BY Counts DEF Slots
<1> QED  BY <1>1, Counts, DivMod

LEMMA TokenShare ==
  ASSUME NEW c \in Aivs, NEW n \in Nat
  PROVE  SendNum(c, n, AivNum) \in Nat /\ SendNum(c, n, AivNum) <= n
<1>1. SendNum(c, n, AivNum) \in Nat
  BY SendNumType, Counts
<1>2. CASE SendNum(c, n, AivNum) = 0
  BY <1>1, <1>2
<1>3. CASE SendNum(c, n, AivNum) # 0
  <2> DEFINE k == SendNum(c, n, AivNum) - 1
  <2>1. k \in 0 .. SendNum(c, n, AivNum) - 1
    BY <1>1, <1>3
  <2>2. c + k * AivNum \in Strided(c, n, AivNum)
    BY <2>1 DEF Strided
  <2>3. c + k * AivNum \in 0 .. n - 1
    BY <2>2, StridedWithin, Counts
  <2>4. k * AivNum >= k
    BY <1>1, <2>1, Counts
  <2> QED  BY <1>1, <2>3, <2>4, Counts
<1> QED  BY <1>2, <1>3

(* A core that has left its loop has written all its tokens.               *)
LEMMA AllWritten ==
  ASSUME IInv, NEW c \in Aivs, idx[c] = SendNum(c, TokenNum, AivNum),
         NEW i \in Active(route[mb]), i % AivNum = c
  PROVE  i \div AivNum < idx[c]
<1>1. TokenNum \in Nat /\ Active(route[mb]) = 0 .. TokenNum - 1
  BY TokensOfRound
<1>2. i \in Strided(c, TokenNum, AivNum)
  BY <1>1, Counts, StridedCovers
<1>3. PICK j \in 0 .. SendNum(c, TokenNum, AivNum) - 1 : i = c + j * AivNum
  BY <1>2 DEF Strided
<1>4. SendNum(c, TokenNum, AivNum) \in Nat /\ i \in Nat /\ j \in Nat
  BY <1>1, SendNumType, Counts
<1>5. i \div AivNum = j
  BY <1>3, <1>4, Stride
<1> QED  BY <1>3, <1>4, <1>5

(* Steps that leave the loops of the sending cores as they are.            *)
LEMMA WrittenSame ==
  ASSUME mb' = mb,
         \A c \in Aivs : /\ pc'[c] = "send" <=> pc[c] = "send"
                         /\ pc[c] = "send" => idx'[c] = idx[c],
         NEW m \in MicroBatches, NEW i \in Slots
  PROVE  Written(m, i)' <=> Written(m, i)
BY SlotCore DEF Written

LEMMA SlotsSame ==
  ASSUME IInv, UNCHANGED <<ids, data, held, reader, attnFlag, sent, collected, route>>,
         \A m \in MicroBatches : \A i \in Active(route[m]) : Written(m, i)' <=> Written(m, i)
  PROVE  SlotInv'
<1>1. \A p \in Pairs : p[2] \in MicroBatches
  BY PairFacts
<1>2. ThereInv'
  BY <1>1 DEF IInv, SlotInv, ThereInv, There, Outstanding
<1>3. IdsInv'
  BY DEF IInv, SlotInv, IdsInv
<1>4. AttnInv'
  BY DEF IInv, SlotInv, AttnInv, Outstanding
<1>5. NothingLost'
  BY DEF IInv, SlotInv, NothingLost, Outstanding
<1> QED  BY <1>2, <1>3, <1>4, <1>5 DEF SlotInv

(* Steps of the FFN nodes and of the attention node that collects.         *)
LEMMA KernelSame ==
  ASSUME IInv, UNCHANGED <<mb, pc, idx, status, route>>
  PROVE  /\ CoreInv'
         /\ \A m \in MicroBatches, i \in Slots : Written(m, i)' <=> Written(m, i)
         /\ \A f \in Ffns : Unflagged(f)' <=> Unflagged(f)
         /\ SomeSends' <=> SomeSends
         /\ Idle' <=> Idle
<1>1. \A m \in MicroBatches, i \in Slots : Written(m, i)' <=> Written(m, i)
  BY DEF Written
<1>2. CoreInv'
  BY DEF IInv, CoreInv, SomeSends, Written
<1> QED  BY <1>1, <1>2 DEF Unflagged, SomeSends, Idle

(* The owner of a chunk.                                                   *)
LEMMA Owner ==
  ASSUME NEW f \in Ffns
  PROVE  /\ \E c \in Aivs : f \in Chunk(c, FfnNum, AivNum)
         /\ \A c, d \in Aivs :
              f \in Chunk(c, FfnNum, AivNum) /\ f \in Chunk(d, FfnNum, AivNum) => c = d
BY ChunksCover, ChunksDisjoint, Counts DEF Ffns

LEMMA InitInv == Init => IInv
<1> SUFFICES ASSUME Init PROVE IInv
  OBVIOUS
<1>1. /\ flag = [p \in Pairs |-> 0] /\ layer = [p \in Pairs |-> 0]
      /\ ids = [p \in Pairs |-> Empty] /\ data = [p \in Pairs |-> Empty]
      /\ pc = [c \in Aivs |-> "idle"] /\ idx = [c \in Aivs |-> 0]
      /\ status = [c \in Aivs |-> {}] /\ mb = 0 /\ turn = 0
      /\ route = [m \in MicroBatches |-> <<>>]
      /\ sent = [m \in MicroBatches |-> 0] /\ collected = [m \in MicroBatches |-> 0]
      /\ attnFlag = [m \in MicroBatches |-> [i \in Slots |-> 0]]
      /\ reader = [p \in Pairs |-> "watch"] /\ held = [p \in Pairs |-> {}]
  BY DEF Init
<1>2. Empty \in [Slots -> Nat \cup {Invalid}] /\ \A i \in Slots : Empty[i] = Invalid
  BY DEF Empty
<1>3. TypeOK
  BY <1>1, <1>2, Counts DEF TypeOK
<1>4. HostInv
  <2>1. <<>> \in UNION {[0 .. k - 1 -> Ffns] : k \in 0 .. SlotNum}
    <3>1. <<>> \in [0 .. 0 - 1 -> Ffns] /\ 0 \in 0 .. SlotNum
      BY Counts
    <3> QED  BY <3>1
  <2>2. 0 \in MicroBatches /\ Idle
    BY <1>1, Counts DEF MicroBatches, Idle
  <2> QED  BY <1>1, <2>1, <2>2 DEF HostInv
<1>5. CoreInv
  BY <1>1 DEF CoreInv, SomeSends
<1>6. ReaderInv /\ LayerInv /\ WakeInv
  BY <1>1 DEF ReaderInv, LayerInv, WakeInv
<1>7. \A m \in MicroBatches : ~Outstanding(m)
  BY <1>1 DEF Outstanding
<1>8. ThereInv /\ IdsInv /\ AttnInv
  BY <1>1, <1>2, PairFacts DEF ThereInv, There, IdsInv, AttnInv
<1>9. NothingLost
  BY <1>7 DEF NothingLost
<1>10. FlagInv
  <2>1. Active(route[mb]) = {}
    BY <1>1, Counts DEF Active, MicroBatches
  <2> QED  BY <2>1 DEF FlagInv
<1> QED  BY <1>3, <1>4, <1>5, <1>6, <1>8, <1>9, <1>10 DEF IInv, SlotInv

(***************************************************************************)
(* The operator.                                                           *)
(***************************************************************************)

(* A launch: no slot of the micro-batch is anywhere, none is written.      *)
LEMMA CallKeeps ==
  ASSUME IInv, NEW r \in Routes, Call(r)
  PROVE  IInv'
<1>1. /\ Idle /\ sent[turn] = collected[turn] /\ turn \in MicroBatches
      /\ mb' = turn /\ route' = [route EXCEPT ![turn] = r]
      /\ sent' = [sent EXCEPT ![turn] = @ + 1] /\ turn' = (turn + 1) % MicroBatchNum
      /\ pc' = [c \in Aivs |-> "send"] /\ idx' = [c \in Aivs |-> 0]
      /\ status' = [c \in Aivs |-> {}]
      /\ UNCHANGED <<asynchronous, flag, layer, ids, data, collected, attnFlag, reader, held>>
  BY DEF Call, IInv, HostInv, window, ffn
<1> PICK t \in MicroBatches : t = turn
  BY <1>1
<1>2. sent \in [MicroBatches -> Nat] /\ collected \in [MicroBatches -> Nat]
  BY DEF IInv, HostInv
<1>3. /\ sent'[t] = sent[t] + 1 /\ route'[t] = r
      /\ \A m \in MicroBatches \ {t} : sent'[m] = sent[m] /\ route'[m] = route[m]
  BY <1>1, <1>2 DEF IInv, HostInv
<1>4. ~Outstanding(t) /\ Outstanding(t)'
  BY <1>1, <1>2, <1>3 DEF Outstanding
<1>5. PICK k \in 0 .. SlotNum : r \in [0 .. k - 1 -> Ffns]
  BY SendAssumption DEF Ffns
<1>6. \A m \in MicroBatches \ {t} : /\ Outstanding(m)' <=> Outstanding(m)
                                       /\ \A i \in Slots : Written(m, i)'
  BY <1>1, <1>3 DEF Outstanding, Written
<1>7. \A i \in Slots : ~Written(t, i)'
  <2> SUFFICES ASSUME NEW i \in Slots PROVE ~Written(t, i)'
    OBVIOUS
  <2> QED  BY <1>1, SlotCore DEF Written
<1>8. \A m \in MicroBatches : \A i \in Active(route[m]) : i \in Slots
  BY RouteFacts DEF IInv
<1>9. \A p \in Pairs, i \in Slots : There(p, i) => p[2] \in MicroBatches \ {t}
  BY <1>4, PairFacts DEF IInv, SlotInv, ThereInv
<1>10. TypeOK'
  <2>1. \A c \in Aivs : SendNum(c, TokenNum', AivNum) \in Nat
    <3>1. Cardinality(0 .. k - 1) = k
      BY FS_Interval, Counts
    <3>2. TokenNum' = k
      BY <1>1, <1>3, <1>5, <3>1 DEF TokenNum, Active
    <3> QED  BY <3>2, SendNumType, Counts
  <2> QED  BY <1>1, <2>1, Counts DEF IInv, TypeOK
<1>11. HostInv'
  <2>1. turn' \in MicroBatches
    BY <1>1, Counts DEF MicroBatches
  <2>2. route' \in [MicroBatches -> UNION {[0 .. j - 1 -> Ffns] : j \in 0 .. SlotNum}]
    BY <1>1, <1>5 DEF IInv, HostInv
  <2>3. sent' \in [MicroBatches -> Nat]
    BY <1>1, <1>2
  <2> QED  BY <1>1, <1>2, <1>3, <1>4, <2>1, <2>2, <2>3 DEF IInv, HostInv
<1>12. CoreInv' /\ ReaderInv'
  BY <1>1 DEF IInv, CoreInv, SomeSends, ReaderInv
<1>13. ThereInv'
  <2> SUFFICES ASSUME NEW p \in Pairs, NEW i \in Slots, There(p, i)'
               PROVE  /\ Outstanding(p[2])' /\ attnFlag'[p[2]][i] = 0
                      /\ i \in Active(route'[p[2]]) /\ route'[p[2]][i] = p[1]
                      /\ Written(p[2], i)'
    BY DEF ThereInv
  <2>1. There(p, i)
    BY <1>1 DEF There
  <2>2. p[2] \in MicroBatches \ {t}
    BY <1>9, <2>1
  <2>3. /\ Outstanding(p[2]) /\ attnFlag[p[2]][i] = 0
        /\ i \in Active(route[p[2]]) /\ route[p[2]][i] = p[1]
    BY <2>1 DEF IInv, SlotInv, ThereInv
  <2> QED  BY <1>1, <1>3, <2>2, <2>3 DEF Outstanding, Written
<1>14. IdsInv'
  BY <1>1, <1>3, <1>9 DEF IInv, SlotInv, IdsInv, There
<1>15. AttnInv'
  <2> SUFFICES ASSUME NEW m \in MicroBatches, NEW i \in Slots, attnFlag'[m][i] = 1
               PROVE  Outstanding(m)' /\ (i \in Active(route'[m]) => Written(m, i)')
    BY DEF AttnInv
  <2>1. Outstanding(m)
    BY <1>1 DEF IInv, SlotInv, AttnInv
  <2>2. m # t
    BY <1>4, <2>1
  <2> QED  BY <1>1, <1>3, <2>1, <2>2 DEF Outstanding, Written
<1>16. NothingLost'
  <2> SUFFICES ASSUME NEW m \in MicroBatches, Outstanding(m)', NEW i \in Active(route'[m]),
                      Written(m, i)'
               PROVE  LET p == <<route'[m][i], m>> IN
                      \/ attnFlag'[m][i] = 1
                      \/ /\ data'[p][i] = sent'[m] - 1
                         /\ \/ i \in held'[p]
                            \/ ids'[p][i] = sent'[m] - 1 /\ reader'[p] = "watch"
    BY <1>1 DEF NothingLost
  <2>1. m # t
    <3>1. m = t => i \in Slots
      BY <1>3, <1>5, Counts DEF Active, Slots
    <3> QED  BY <1>7, <3>1
  <2>2. Outstanding(m) /\ i \in Active(route[m]) /\ i \in Slots
    BY <1>3, <1>6, <1>8, <2>1
  <2>3. Written(m, i)
    BY <1>1, <2>2, SlotCore DEF Written, Idle
  <2> QED  BY <1>1, <1>3, <2>1, <2>2, <2>3 DEF IInv, SlotInv, NothingLost
<1>17. LayerInv'
  <2>1. \A p \in Pairs : p[2] \in MicroBatches /\ layer[p] \in Nat
    BY PairFacts DEF IInv, TypeOK
  <2>2. LayerId' = sent[t]
    BY <1>1, <1>2, <1>3 DEF LayerId
  <2> QED  BY <1>1, <1>2, <1>3, <2>1, <2>2 DEF IInv, LayerInv
<1>18. FlagInv'
  <2>1. \A i \in Active(route'[t]) : i \in Slots
    BY <1>3, <1>5, Counts DEF Active, Slots
  <2> QED  BY <1>1, <1>7, <2>1 DEF FlagInv
<1>19. WakeInv'
  BY <1>1 DEF IInv, WakeInv
<1> QED
  BY <1>10, <1>11, <1>12, <1>13, <1>14, <1>15, <1>16, <1>17, <1>18, <1>19 DEF IInv, SlotInv

(* A token goes out while the reader of its descriptor watches.            *)
LEMMA SendTokenKeeps ==
  ASSUME IInv, NEW c \in Aivs, SendToken(c)
  PROVE  IInv'
<1> PICK w \in MicroBatches : w = mb
  BY TokensOfRound
<1>0. pc[c] = "send" /\ idx[c] < SendNum(c, TokenNum, AivNum)
  BY DEF SendToken
<1> PICK i \in Slots : i = TokenOffset(c)
  BY <1>0, TokenFacts
<1>2. /\ i \in Active(route[w]) /\ route[w][i] \in Ffns
      /\ i % AivNum = c /\ i \div AivNum = idx[c] /\ ~Written(w, i)
  BY <1>0, TokenFacts
<1> PICK p \in Pairs : p = <<route[w][i], w>>
  BY <1>2, PairFacts
<1>1. /\ pc[c] = "send" /\ flag[p] # 1
      /\ data' = [data EXCEPT ![p][i] = LayerId]
      /\ ids' = [ids EXCEPT ![p][i] = LayerId]
      /\ status' = IF asynchronous THEN [status EXCEPT ![c] = @ \cup {p[1]}] ELSE status
      /\ idx' = [idx EXCEPT ![c] = @ + 1]
      /\ UNCHANGED <<asynchronous, flag, layer, pc, mb, route, sent, collected, turn>>
      /\ UNCHANGED <<attnFlag, reader, held>>
  BY DEF SendToken, FlagIsDown, host, ffn
<1>3. p[1] = route[w][i] /\ p[2] = w
  OBVIOUS
<1>4. ~Idle /\ Outstanding(w) /\ LayerId = sent[w] - 1 /\ LayerId \in Nat
  BY <1>1, <1>3 DEF IInv, HostInv, Idle, Outstanding, LayerId
<1>5. flag[p] = 0 /\ reader[p] = "watch"
  BY <1>1, <1>3 DEF IInv, TypeOK, ReaderInv
<1>6. idx[c] \in Nat /\ SendNum(c, TokenNum, AivNum) \in 0 .. SlotNum
  <2>1. TokenNum \in 0 .. SlotNum
    BY <1>3, RouteFacts DEF IInv, TokenNum
  <2>2. SendNum(c, TokenNum, AivNum) \in Nat /\ SendNum(c, TokenNum, AivNum) <= TokenNum
    BY <2>1, TokenShare
  <2> QED  BY <2>1, <2>2, Counts DEF IInv, TypeOK
<1>7. i \notin held[p] /\ attnFlag[w][i] = 0
  <2>1. i \notin held[p]
    BY <1>2, <1>3 DEF IInv, SlotInv, ThereInv, There
  <2>2. attnFlag[w][i] # 1
    BY <1>2, <1>3 DEF IInv, SlotInv, AttnInv
  <2> QED  BY <1>2, <1>3, <2>1, <2>2 DEF IInv, TypeOK
<1>8. /\ ids'[p][i] = LayerId /\ data'[p][i] = LayerId
      /\ \A q \in Pairs, j \in Slots : q # p \/ j # i =>
           ids'[q][j] = ids[q][j] /\ data'[q][j] = data[q][j]
  BY <1>1, <1>2, <1>3 DEF IInv, TypeOK
<1>9. /\ Written(w, i)'
      /\ \A m \in MicroBatches, j \in Slots :
           /\ Written(m, j) => Written(m, j)'
           /\ Written(m, j)' /\ (m # w \/ j # i) => Written(m, j)
  <2>1. Written(w, i)'
    BY <1>1, <1>2, <1>6, Counts DEF Written, IInv, TypeOK
  <2>2. ASSUME NEW m \in MicroBatches, NEW j \in Slots
        PROVE  /\ Written(m, j) => Written(m, j)'
               /\ Written(m, j)' /\ (m # w \/ j # i) => Written(m, j)
    <3>1. /\ j % AivNum \in Aivs /\ j \div AivNum \in Nat
          /\ j % AivNum = c /\ j \div AivNum = idx[c] => j = i
      <4>1. i \in Nat /\ j \in Nat
        BY <1>2, Counts DEF Slots
      <4> QED  BY <1>2, <1>6, <4>1, SlotCore, Stride
    <3>2. /\ \A d \in Aivs \ {c} : idx'[d] = idx[d]
          /\ idx'[c] = idx[c] + 1
      BY <1>1 DEF IInv, TypeOK
    <3> QED  BY <1>1, <1>6, <3>1, <3>2 DEF Written
  <2> QED  BY <2>1, <2>2
<1>10. TypeOK'
  <2>1. /\ ids' \in [Pairs -> [Slots -> Nat \cup {Invalid}]]
        /\ data' \in [Pairs -> [Slots -> Nat \cup {Invalid}]]
    BY <1>1, <1>4 DEF IInv, TypeOK
  <2>2. /\ \A d \in Aivs \ {c} : idx'[d] = idx[d]
        /\ idx'[c] = idx[c] + 1 /\ idx' \in [Aivs -> 0 .. SlotNum + FfnNum]
    BY <1>0, <1>1, <1>6, Counts DEF IInv, TypeOK
  <2>3. \A d \in Aivs : pc'[d] = "send" => idx'[d] <= SendNum(d, TokenNum', AivNum)
    BY <1>0, <1>1, <1>6, <2>2 DEF IInv, TypeOK, TokenNum
  <2>4. \A d \in Aivs : pc'[d] = "flags" => idx'[d] <= EndId(d, FfnNum, AivNum)
    BY <1>1, <2>2 DEF IInv, TypeOK
  <2>5. status' \in [Aivs -> SUBSET Ffns]
    BY <1>1, <1>2, <1>3 DEF IInv, TypeOK
  <2> QED  BY <1>1, <2>1, <2>2, <2>3, <2>4, <2>5 DEF IInv, TypeOK
<1>11. HostInv'
  BY <1>1 DEF IInv, HostInv, Idle, Outstanding
<1>12. CoreInv'
  <2>1. ASSUME NEW d \in Aivs, NEW f \in status'[d]
        PROVE  \E j \in Active(route[w]) : route[w][j] = f /\ Written(w, j)'
    <3>1. CASE f \in status[d]
      <4>1. PICK j \in Active(route[w]) : route[w][j] = f /\ Written(w, j)
        BY <3>1 DEF IInv, CoreInv
      <4>2. j \in Slots
        BY TokensOfRound
      <4> QED  BY <1>3, <1>9, <4>1, <4>2
    <3>2. CASE f \notin status[d]
      BY <1>1, <1>2, <1>9, <3>2 DEF IInv, TypeOK
    <3> QED  BY <3>1, <3>2
  <2>2. \A d \in Aivs : pc[d] = "flags" => d # c /\ idx'[d] = idx[d]
    BY <1>1 DEF IInv, TypeOK
  <2> QED  BY <1>1, <2>1, <2>2 DEF IInv, CoreInv, SomeSends
<1>13. ReaderInv' /\ LayerInv'
  BY <1>1 DEF IInv, ReaderInv, LayerInv, SomeSends, LayerId
<1>14. ThereInv'
  <2> SUFFICES ASSUME NEW q \in Pairs, NEW j \in Slots, There(q, j)'
               PROVE  /\ Outstanding(q[2])' /\ attnFlag'[q[2]][j] = 0
                      /\ j \in Active(route'[q[2]]) /\ route'[q[2]][j] = q[1]
                      /\ Written(q[2], j)'
    BY DEF ThereInv
  <2>1. CASE q = p /\ j = i
    BY <1>1, <1>2, <1>3, <1>4, <1>7, <1>9, <2>1 DEF Outstanding
  <2>2. CASE q # p \/ j # i
    <3>1. There(q, j) /\ q[2] \in MicroBatches
      BY <1>1, <1>8, <2>2, PairFacts DEF There
    <3>2. /\ Outstanding(q[2]) /\ attnFlag[q[2]][j] = 0
          /\ j \in Active(route[q[2]]) /\ route[q[2]][j] = q[1]
          /\ Written(q[2], j)
      BY <3>1 DEF IInv, SlotInv, ThereInv
    <3>3. Written(q[2], j)'
      <4>1. PICK m \in MicroBatches : m = q[2]
        BY <3>1
      <4>2. Written(m, j)'
        BY <1>9, <3>2, <4>1
      <4> QED  BY <4>1, <4>2
    <3> QED  BY <1>1, <3>2, <3>3 DEF Outstanding
  <2> QED  BY <2>1, <2>2
<1>15. IdsInv'
  <2> SUFFICES ASSUME NEW q \in Pairs, NEW j \in Slots, ids'[q][j] # Invalid
               PROVE  /\ ids'[q][j] = sent'[q[2]] - 1 /\ reader'[q] # "clear"
                      /\ j \in held'[q] <=> reader'[q] = "reset"
    BY DEF IdsInv
  <2>1. CASE q = p /\ j = i
    BY <1>1, <1>3, <1>5, <1>7, <1>8, <2>1 DEF LayerId
  <2>2. CASE q # p \/ j # i
    BY <1>1, <1>8, <2>2 DEF IInv, SlotInv, IdsInv
  <2> QED  BY <2>1, <2>2
<1>16. AttnInv'
  <2> SUFFICES ASSUME NEW m \in MicroBatches, NEW j \in Slots, attnFlag'[m][j] = 1
               PROVE  Outstanding(m)' /\ (j \in Active(route'[m]) => Written(m, j)')
    BY DEF AttnInv
  <2>1. Outstanding(m) /\ (j \in Active(route[m]) => Written(m, j))
    BY <1>1 DEF IInv, SlotInv, AttnInv
  <2>2. Outstanding(m)'
    BY <1>1, <2>1 DEF Outstanding
  <2> QED  BY <1>1, <1>9, <2>1, <2>2
<1>17. NothingLost'
  <2> SUFFICES ASSUME NEW m \in MicroBatches, Outstanding(m)', NEW j \in Active(route'[m]),
                      Written(m, j)'
               PROVE  LET q == <<route'[m][j], m>> IN
                      \/ attnFlag'[m][j] = 1
                      \/ /\ data'[q][j] = sent'[m] - 1
                         /\ \/ j \in held'[q]
                            \/ ids'[q][j] = sent'[m] - 1 /\ reader'[q] = "watch"
    BY <1>1 DEF NothingLost
  <2>1. j \in Active(route[m]) /\ j \in Slots /\ route[m][j] \in Ffns /\ Outstanding(m)
    BY <1>1, RouteFacts DEF IInv, Outstanding
  <2>2. CASE m = w /\ j = i
    BY <1>1, <1>5, <1>8, <2>2 DEF LayerId
  <2>3. CASE m # w \/ j # i
    <3> DEFINE q == <<route[m][j], m>>
    <3>1. q \in Pairs /\ (q # p \/ j # i)
      BY <1>3, <2>1, <2>3, PairFacts
    <3>2. ids'[q][j] = ids[q][j] /\ data'[q][j] = data[q][j]
      BY <1>8, <2>1, <3>1
    <3>3. Written(m, j)
      BY <1>9, <2>1, <2>3
    <3> QED  BY <1>1, <2>1, <3>2, <3>3 DEF IInv, SlotInv, NothingLost
  <2> QED  BY <2>2, <2>3
<1>18. FlagInv'
  <2> SUFFICES ASSUME NEW j \in Active(route[w]), Unflagged(route[w][j])', Written(w, j)'
               PROVE  flag[<<route[w][j], w>>] = 0 /\ ids'[<<route[w][j], w>>][j] = LayerId
    BY <1>1 DEF FlagInv, LayerId
  <2>1. CASE j = i
    BY <1>5, <1>8, <2>1
  <2>2. CASE j # i
    <3>1. j \in Slots /\ route[w][j] \in Ffns /\ Written(w, j)
      BY <1>3, <1>9, <2>2, TokensOfRound
    <3>2. \A d \in Aivs : pc[d] = "flags" => idx'[d] = idx[d]
      BY <1>1 DEF IInv, TypeOK
    <3>3. Unflagged(route[w][j])
      BY <1>1, <3>2 DEF Unflagged
    <3>4. <<route[w][j], w>> \in Pairs
      BY <1>3, <3>1, PairFacts
    <3> QED  BY <1>8, <2>2, <3>1, <3>3, <3>4 DEF IInv, FlagInv
  <2> QED  BY <2>1, <2>2
<1>19. WakeInv'
  <2> SUFFICES ASSUME asynchronous, NEW q \in Pairs, flag[q] = 1, reader[q] = "watch"
               PROVE  \E j \in Slots : ids'[q][j] = layer[q]
    BY <1>1 DEF WakeInv
  <2>1. q # p
    BY <1>5
  <2> QED  BY <1>8, <2>1 DEF IInv, WakeInv
<1> QED
  BY <1>10, <1>11, <1>12, <1>13, <1>14, <1>15, <1>16, <1>17, <1>18, <1>19 DEF IInv, SlotInv

(* A core behind its loop has written all it had to.                       *)
LEMMA ArriveAtSyncKeeps ==
  ASSUME IInv, NEW c \in Aivs, ArriveAtSync(c)
  PROVE  IInv'
<1> PICK w \in MicroBatches : w = mb
  BY TokensOfRound
<1>1. /\ pc[c] = "send" /\ idx[c] = SendNum(c, TokenNum, AivNum)
      /\ pc' = [pc EXCEPT ![c] = "sync"]
      /\ UNCHANGED <<asynchronous, flag, layer, ids, data, idx, status>>
      /\ UNCHANGED <<mb, route, sent, collected, turn, attnFlag, reader, held>>
  BY DEF ArriveAtSync, window, host, ffn
<1>2. \A d \in Aivs : pc'[d] = IF d = c THEN "sync" ELSE pc[d]
  BY <1>1 DEF IInv, TypeOK
<1>3. ~Idle
  BY <1>1 DEF Idle
<1>4. \A m \in MicroBatches : \A i \in Active(route[m]) : Written(m, i)' <=> Written(m, i)
  <2> SUFFICES ASSUME NEW m \in MicroBatches, NEW i \in Active(route[m])
               PROVE  Written(m, i)' <=> Written(m, i)
    OBVIOUS
  <2>1. i % AivNum \in Aivs
    BY RouteFacts, SlotCore DEF IInv
  <2>2. m = mb /\ i % AivNum = c => i \div AivNum < idx[c]
    BY <1>1, AllWritten
  <2> QED  BY <1>1, <1>2, <2>1, <2>2 DEF Written
<1>5. TypeOK'
  BY <1>1, <1>2 DEF IInv, TypeOK, TokenNum
<1>6. HostInv'
  BY <1>1, <1>3 DEF IInv, HostInv, Outstanding
<1>7. CoreInv'
  <2>1. ASSUME NEW d \in Aivs, NEW f \in status[d]
        PROVE  \E j \in Active(route[w]) : route[w][j] = f /\ Written(w, j)'
    BY <1>4 DEF IInv, CoreInv
  <2> QED  BY <1>1, <1>2, <2>1 DEF IInv, CoreInv, SomeSends
<1>8. ReaderInv' /\ LayerInv' /\ WakeInv'
  BY <1>1, <1>2 DEF IInv, ReaderInv, LayerInv, WakeInv, SomeSends, LayerId
<1>9. SlotInv'
  BY <1>1, <1>4, SlotsSame
<1>10. FlagInv'
  <2> SUFFICES ASSUME NEW i \in Active(route[w]), Unflagged(route[w][i])', Written(w, i)'
               PROVE  flag[<<route[w][i], w>>] = 0 /\ ids[<<route[w][i], w>>][i] = LayerId
    BY <1>1 DEF FlagInv, LayerId
  <2>1. Unflagged(route[w][i])
    BY <1>1, <1>2 DEF Unflagged
  <2> QED  BY <1>4, <2>1 DEF IInv, FlagInv
<1> QED  BY <1>5, <1>6, <1>7, <1>8, <1>9, <1>10 DEF IInv

(* Nobody sends any more when a core comes through SyncAll.                *)
LEMMA PassSyncKeeps ==
  ASSUME IInv, NEW c \in Aivs, PassSync(c)
  PROVE  IInv'
<1> PICK w \in MicroBatches : w = mb
  BY TokensOfRound
<1>1. /\ pc[c] = "sync" /\ \A d \in Aivs : pc[d] # "send"
      /\ pc' = [pc EXCEPT ![c] = "flags"]
      /\ idx' = [idx EXCEPT ![c] = StartId(c, FfnNum, AivNum)]
      /\ UNCHANGED <<asynchronous, flag, layer, ids, data, status>>
      /\ UNCHANGED <<mb, route, sent, collected, turn, attnFlag, reader, held>>
  BY DEF PassSync, window, host, ffn
<1>2. /\ \A d \in Aivs : pc'[d] = IF d = c THEN "flags" ELSE pc[d]
      /\ \A d \in Aivs : idx'[d] = IF d = c THEN StartId(c, FfnNum, AivNum) ELSE idx[d]
  BY <1>1 DEF IInv, TypeOK
<1>3. ~Idle
  BY <1>1 DEF Idle
<1>4. \A m \in MicroBatches, i \in Slots : Written(m, i)' <=> Written(m, i)
  BY <1>1, <1>2, WrittenSame
<1>5. \A m \in MicroBatches : \A i \in Active(route[m]) : i \in Slots
  BY RouteFacts DEF IInv
<1>6. /\ StartId(c, FfnNum, AivNum) \in Nat /\ EndId(c, FfnNum, AivNum) <= FfnNum
      /\ StartId(c, FfnNum, AivNum) <= EndId(c, FfnNum, AivNum)
      /\ EndId(c, FfnNum, AivNum) \in Nat
  BY ChunkBounds, Counts
<1>7. TypeOK'
  <2>1. idx' \in [Aivs -> 0 .. SlotNum + FfnNum]
    BY <1>1, <1>6, Counts DEF IInv, TypeOK
  <2> QED  BY <1>1, <1>2, <1>6, <2>1 DEF IInv, TypeOK
<1>8. HostInv'
  BY <1>1, <1>3 DEF IInv, HostInv, Outstanding
<1>9. CoreInv'
  <2>1. ASSUME NEW d \in Aivs, NEW f \in status[d]
        PROVE  \E j \in Active(route[w]) : route[w][j] = f /\ Written(w, j)'
    BY <1>4, <1>5 DEF IInv, CoreInv
  <2> QED  BY <1>1, <1>2, <1>6, <2>1 DEF IInv, CoreInv, SomeSends
<1>10. ReaderInv' /\ LayerInv' /\ WakeInv'
  BY <1>1, <1>2 DEF IInv, ReaderInv, LayerInv, WakeInv, SomeSends, LayerId
<1>11. SlotInv'
  BY <1>1, <1>4, <1>5, SlotsSame
<1>12. FlagInv'
  <2> SUFFICES ASSUME NEW i \in Active(route[w]), Unflagged(route[w][i])', Written(w, i)'
               PROVE  flag[<<route[w][i], w>>] = 0 /\ ids[<<route[w][i], w>>][i] = LayerId
    BY <1>1 DEF FlagInv, LayerId
  <2>1. Unflagged(route[w][i])
    BY <1>1, <1>2 DEF Unflagged
  <2> QED  BY <1>4, <1>5, <2>1 DEF IInv, FlagInv
<1> QED  BY <1>7, <1>8, <1>9, <1>10, <1>11, <1>12 DEF IInv

(* The flag of a node goes up once in a round, over all its tokens.        *)
LEMMA SetFlagToFFNKeeps ==
  ASSUME IInv, NEW c \in Aivs, SetFlagToFFN(c)
  PROVE  IInv'
<1> PICK w \in MicroBatches : w = mb
  BY TokensOfRound
<1>1. /\ pc[c] = "flags" /\ idx[c] < EndId(c, FfnNum, AivNum)
      /\ idx' = [idx EXCEPT ![c] = @ + 1]
      /\ UNCHANGED <<asynchronous, ids, data, pc, status>>
      /\ UNCHANGED <<mb, route, sent, collected, turn, attnFlag, reader, held>>
  BY DEF SetFlagToFFN, window, host, ffn
<1>2. /\ StartId(c, FfnNum, AivNum) \in Nat /\ EndId(c, FfnNum, AivNum) <= FfnNum
      /\ EndId(c, FfnNum, AivNum) \in Nat /\ StartId(c, FfnNum, AivNum) <= idx[c]
      /\ idx[c] \in Nat
  BY <1>1, ChunkBounds, Counts DEF IInv, CoreInv, TypeOK
<1>3. idx[c] \in Chunk(c, FfnNum, AivNum) /\ idx[c] \in Ffns
  BY <1>1, <1>2, Counts DEF Chunk, Ffns
<1> PICK f \in Ffns : f = idx[c]
  BY <1>3
<1> PICK p \in Pairs : p = <<f, w>>
  BY PairFacts
<1>4. /\ \/ /\ f \in Chosen
            /\ flag' = [flag EXCEPT ![p] = 1] /\ layer' = [layer EXCEPT ![p] = LayerId]
         \/ UNCHANGED <<flag, layer>>
  BY DEF SetFlagToFFN
<1>5. \A d \in Aivs : idx'[d] = IF d = c THEN f + 1 ELSE idx[d]
  BY <1>1 DEF IInv, TypeOK
<1>6. ~Idle /\ Outstanding(w) /\ LayerId = sent[w] - 1 /\ sent[w] \in Nat /\ LayerId \in Nat
  BY <1>1 DEF Idle, IInv, HostInv, Outstanding, LayerId
<1>7. ~SomeSends /\ ~SomeSends'
  BY <1>1 DEF IInv, CoreInv, SomeSends
<1>8. \A m \in MicroBatches, i \in Slots : Written(m, i)' <=> Written(m, i)
  BY <1>1, <1>5, WrittenSame
<1>9. \A m \in MicroBatches : \A i \in Active(route[m]) : i \in Slots
  BY RouteFacts DEF IInv
<1>10. Unflagged(f)
  <2> SUFFICES ASSUME NEW d \in Aivs, f \in Chunk(d, FfnNum, AivNum)
               PROVE  pc[d] = "flags" /\ idx[d] <= f
    BY DEF Unflagged
  <2>1. d = c
    BY <1>3, Owner
  <2> QED  BY <1>1, <1>2, <2>1
<1>11. \A g \in Ffns : Unflagged(g)' => g # f /\ Unflagged(g)
  <2> SUFFICES ASSUME NEW g \in Ffns, Unflagged(g)'
               PROVE  g # f /\ Unflagged(g)
    OBVIOUS
  <2>1. \A d \in Aivs : g \in Chunk(d, FfnNum, AivNum) =>
          pc[d] \in {"send", "sync"} \/ (pc[d] = "flags" /\ idx'[d] <= g)
    BY <1>1 DEF Unflagged
  <2>2. g # f
    BY <1>1, <1>2, <1>3, <1>5, <2>1
  <2>3. \A d \in Aivs : idx'[d] <= g => idx[d] <= g
    BY <1>2, <1>5 DEF Ffns
  <2> QED  BY <2>1, <2>2, <2>3 DEF Unflagged
<1>12. TypeOK'
  <2>1. flag' \in [Pairs -> {0, 1}] /\ layer' \in [Pairs -> Nat]
    <3>1. flag \in [Pairs -> {0, 1}] /\ layer \in [Pairs -> Nat]
      BY DEF IInv, TypeOK
    <3>2. [flag EXCEPT ![p] = 1] \in [Pairs -> {0, 1}]
      BY <3>1
    <3>3. [layer EXCEPT ![p] = LayerId] \in [Pairs -> Nat]
      BY <1>6, <3>1
    <3> QED  BY <1>4, <3>1, <3>2, <3>3
  <2>2. idx' \in [Aivs -> 0 .. SlotNum + FfnNum]
    BY <1>1, <1>2, Counts DEF IInv, TypeOK
  <2>3. \A d \in Aivs : pc[d] = "flags" => idx'[d] <= EndId(d, FfnNum, AivNum)
    BY <1>1, <1>2, <1>5 DEF IInv, TypeOK
  <2> QED  BY <1>1, <1>7, <2>1, <2>2, <2>3 DEF IInv, TypeOK, SomeSends
<1>13. HostInv'
  BY <1>1, <1>6 DEF IInv, HostInv, Outstanding
<1>14. CoreInv'
  <2>1. ASSUME NEW d \in Aivs, NEW g \in status[d]
        PROVE  \E j \in Active(route[w]) : route[w][j] = g /\ Written(w, j)'
    BY <1>8, <1>9 DEF IInv, CoreInv
  <2>2. \A d \in Aivs : pc[d] = "flags" => StartId(d, FfnNum, AivNum) <= idx'[d]
    BY <1>2, <1>5 DEF IInv, CoreInv
  <2> QED  BY <1>1, <1>7, <2>1, <2>2 DEF CoreInv
<1>15. ReaderInv'
  BY <1>1, <1>4 DEF IInv, ReaderInv, TypeOK
<1>16. LayerInv'
  <2>1. \A q \in Pairs : layer'[q] = layer[q] \/ (q = p /\ layer'[q] = LayerId)
    BY <1>4 DEF IInv, TypeOK
  <2>2. \A q \in Pairs : flag'[q] = 1 => flag[q] = 1 \/ (q = p /\ layer'[q] = LayerId)
    BY <1>4 DEF IInv, TypeOK
  <2> QED  BY <1>1, <1>6, <1>7, <2>1, <2>2 DEF IInv, LayerInv
<1>17. SlotInv'
  BY <1>1, <1>8, <1>9, SlotsSame
<1>18. FlagInv'
  <2> SUFFICES ASSUME NEW i \in Active(route[w]), Unflagged(route[w][i])', Written(w, i)'
               PROVE  flag'[<<route[w][i], w>>] = 0 /\ ids[<<route[w][i], w>>][i] = LayerId
    BY <1>1 DEF FlagInv, LayerId
  <2>1. i \in Slots /\ route[w][i] \in Ffns
    BY RouteFacts DEF IInv
  <2>2. PICK g \in Ffns : g = route[w][i]
    BY <2>1
  <2>3. Unflagged(g)'
    BY <1>1, <2>2 DEF Unflagged
  <2>4. g # f /\ Unflagged(g) /\ <<g, w>> \in Pairs
    BY <1>11, <2>3, PairFacts
  <2>5. flag[<<g, w>>] = 0 /\ ids[<<g, w>>][i] = LayerId
    BY <1>8, <2>1, <2>2, <2>4 DEF IInv, FlagInv
  <2> QED  BY <1>4, <2>2, <2>4, <2>5 DEF IInv, TypeOK
<1>19. WakeInv'
  <2> SUFFICES ASSUME asynchronous, NEW q \in Pairs, flag'[q] = 1, reader[q] = "watch"
               PROVE  \E j \in Slots : ids[q][j] = layer'[q]
    BY <1>1 DEF WakeInv
  <2>1. CASE flag[q] = 1 /\ layer'[q] = layer[q]
    BY <2>1 DEF IInv, WakeInv
  <2>2. CASE ~(flag[q] = 1 /\ layer'[q] = layer[q])
    <3>1. q = p /\ f \in Chosen /\ layer'[q] = LayerId
      BY <1>4, <2>2 DEF IInv, TypeOK
    <3>2. PICK d \in Aivs : f \in status[d]
      BY <3>1 DEF Chosen
    <3>3. PICK i \in Active(route[w]) : route[w][i] = f /\ Written(w, i)
      BY <3>2 DEF IInv, CoreInv
    <3>4. ids[p][i] = LayerId
      BY <1>10, <3>3 DEF IInv, FlagInv
    <3> QED  BY <1>9, <3>1, <3>3, <3>4
  <2> QED  BY <2>1, <2>2
<1> QED  BY <1>12, <1>13, <1>14, <1>15, <1>16, <1>17, <1>18, <1>19 DEF IInv

(* A core marks slots behind the active ones, and leaves.                  *)
LEMMA SetFlagInAttnKeeps ==
  ASSUME IInv, NEW c \in Aivs, SetFlagInAttn(c)
  PROVE  IInv'
<1> PICK w \in MicroBatches : w = mb
  BY TokensOfRound
<1>1. /\ pc[c] = "flags" /\ idx[c] >= EndId(c, FfnNum, AivNum)
      /\ attnFlag' = [attnFlag EXCEPT ![w] =
                        [i \in Slots |-> IF i \in MaskedChunk(c) THEN 1 ELSE @[i]]]
      /\ pc' = [pc EXCEPT ![c] = "idle"]
      /\ UNCHANGED <<asynchronous, flag, layer, ids, data, idx, status>>
      /\ UNCHANGED <<mb, route, sent, collected, turn, reader, held>>
  BY DEF SetFlagInAttn, window, host, ffn
<1>2. \A d \in Aivs : pc'[d] = IF d = c THEN "idle" ELSE pc[d]
  BY <1>1 DEF IInv, TypeOK
<1>3. ~Idle /\ Outstanding(w) /\ ~SomeSends
  BY <1>1 DEF Idle, IInv, HostInv, CoreInv, SomeSends
<1>4. \A i \in Active(route[w]) : i \notin MaskedChunk(c)
  <2>1. TokenNum \in Nat /\ Active(route[w]) = 0 .. TokenNum - 1
    BY TokensOfRound
  <2>2. \A i \in Chunk(c, Cardinality(Masked(route[w])), AivNum) : i \in Nat
    <3>1. PICK n \in Nat : n = Cardinality(Masked(route[w]))
      BY TokensOfRound
    <3>2. StartId(c, n, AivNum) \in Nat
      BY ChunkBounds, Counts
    <3> QED  BY <3>1, <3>2 DEF Chunk
  <2> QED  BY <2>1, <2>2 DEF MaskedChunk
<1>5. /\ \A m \in MicroBatches, i \in Slots : attnFlag[m][i] = 1 => attnFlag'[m][i] = 1
      /\ \A m \in MicroBatches, i \in Slots :
           m # w \/ i \in Active(route[w]) => attnFlag'[m][i] = attnFlag[m][i]
  BY <1>1, <1>4 DEF IInv, TypeOK
<1>6. \A m \in MicroBatches, i \in Slots : Written(m, i)' <=> Written(m, i)
  BY <1>1, <1>2, WrittenSame
<1>7. \A m \in MicroBatches : \A i \in Active(route[m]) : i \in Slots
  BY RouteFacts DEF IInv
<1>8. TypeOK'
  <2>1. attnFlag' \in [MicroBatches -> [Slots -> {0, 1}]]
    BY <1>1 DEF IInv, TypeOK
  <2> QED  BY <1>1, <1>2, <2>1 DEF IInv, TypeOK, TokenNum
<1>9. HostInv'
  BY <1>1, <1>3 DEF IInv, HostInv, Outstanding
<1>10. CoreInv'
  <2>1. ASSUME NEW d \in Aivs, NEW f \in status[d]
        PROVE  \E j \in Active(route[w]) : route[w][j] = f /\ Written(w, j)'
    BY <1>6, <1>7 DEF IInv, CoreInv
  <2> QED  BY <1>1, <1>2, <1>3, <2>1 DEF IInv, CoreInv, SomeSends
<1>11. ReaderInv' /\ LayerInv' /\ WakeInv'
  BY <1>1, <1>2, <1>3 DEF IInv, ReaderInv, LayerInv, WakeInv, SomeSends, LayerId
<1>12. ThereInv'
  <2> SUFFICES ASSUME NEW q \in Pairs, NEW i \in Slots, There(q, i)'
               PROVE  /\ Outstanding(q[2])' /\ attnFlag'[q[2]][i] = 0
                      /\ i \in Active(route'[q[2]]) /\ route'[q[2]][i] = q[1]
                      /\ Written(q[2], i)'
    BY DEF ThereInv
  <2>1. There(q, i)
    BY <1>1 DEF There
  <2>2. PICK m \in MicroBatches : m = q[2]
    BY PairFacts
  <2>3. /\ Outstanding(m) /\ attnFlag[m][i] = 0
        /\ i \in Active(route[m]) /\ route[m][i] = q[1] /\ Written(m, i)
    BY <2>1, <2>2 DEF IInv, SlotInv, ThereInv
  <2>4. Written(m, i)' /\ attnFlag'[m][i] = 0
    BY <1>5, <1>6, <2>3
  <2> QED  BY <1>1, <2>2, <2>3, <2>4 DEF Outstanding
<1>13. IdsInv'
  BY <1>1 DEF IInv, SlotInv, IdsInv
<1>14. AttnInv'
  <2> SUFFICES ASSUME NEW m \in MicroBatches, NEW i \in Slots, attnFlag'[m][i] = 1
               PROVE  Outstanding(m)' /\ (i \in Active(route'[m]) => Written(m, i)')
    BY DEF AttnInv
  <2>1. CASE attnFlag[m][i] = 1
    BY <1>1, <1>6, <2>1 DEF IInv, SlotInv, AttnInv, Outstanding
  <2>2. CASE attnFlag[m][i] # 1
    BY <1>1, <1>3, <1>5, <2>2 DEF Outstanding
  <2> QED  BY <2>1, <2>2
<1>15. NothingLost'
  <2> SUFFICES ASSUME NEW m \in MicroBatches, Outstanding(m)', NEW i \in Active(route'[m]),
                      Written(m, i)'
               PROVE  LET q == <<route'[m][i], m>> IN
                      \/ attnFlag'[m][i] = 1
                      \/ /\ data'[q][i] = sent'[m] - 1
                         /\ \/ i \in held'[q]
                            \/ ids'[q][i] = sent'[m] - 1 /\ reader'[q] = "watch"
    BY <1>1 DEF NothingLost
  <2>1. Outstanding(m) /\ i \in Active(route[m]) /\ i \in Slots /\ Written(m, i)
    BY <1>1, <1>6, <1>7 DEF Outstanding
  <2> QED  BY <1>1, <1>5, <2>1 DEF IInv, SlotInv, NothingLost
<1>16. FlagInv'
  <2> SUFFICES ASSUME NEW i \in Active(route[w]), Unflagged(route[w][i])', Written(w, i)'
               PROVE  flag[<<route[w][i], w>>] = 0 /\ ids[<<route[w][i], w>>][i] = LayerId
    BY <1>1 DEF FlagInv, LayerId
  <2>1. Unflagged(route[w][i])
    BY <1>1, <1>2 DEF Unflagged
  <2> QED  BY <1>6, <1>7, <2>1 DEF IInv, FlagInv
<1> QED
  BY <1>8, <1>9, <1>10, <1>11, <1>12, <1>13, <1>14, <1>15, <1>16 DEF IInv, SlotInv

(***************************************************************************)
(* The FFN nodes and the attention node that collects.                     *)
(***************************************************************************)

(* What the steps of the FFN nodes and the collecting leave alone.         *)
LEMMA OutsideKeeps ==
  ASSUME IInv,
         UNCHANGED <<asynchronous, layer, pc, idx, status, mb, route, sent, turn, data>>,
         flag' \in [Pairs -> {0, 1}], ids' \in [Pairs -> [Slots -> Nat \cup {Invalid}]],
         attnFlag' \in [MicroBatches -> [Slots -> {0, 1}]],
         reader' \in [Pairs -> {"watch", "reset", "clear"}], held' \in [Pairs -> SUBSET Slots],
         \A q \in Pairs : flag'[q] = 1 => flag[q] = 1
  PROVE  TypeOK' /\ CoreInv' /\ LayerInv'
<1>1. TypeOK'
  BY DEF IInv, TypeOK, TokenNum
<1>2. CoreInv'
  BY KernelSame
<1>3. LayerInv'
  BY KernelSame DEF IInv, LayerInv, LayerId
<1> QED  BY <1>1, <1>2, <1>3

LEMMA CopyOutKeeps ==
  ASSUME IInv, NEW p \in Pairs, CopyOut(p)
  PROVE  IInv'
<1>1. /\ reader[p] = "watch" /\ flag[p] = 1
      /\ reader' = [reader EXCEPT ![p] = "reset"]
      /\ held' = [held EXCEPT ![p] = @ \cup {i \in Slots : ids[p][i] # Invalid}]
      /\ UNCHANGED <<asynchronous, flag, layer, ids, data, pc, idx, status>>
      /\ UNCHANGED <<mb, route, sent, collected, turn, attnFlag>>
  BY DEF CopyOut, window, kernel, host
<1>2. /\ \A q \in Pairs : reader'[q] = IF q = p THEN "reset" ELSE reader[q]
      /\ \A q \in Pairs, i \in Slots :
           i \in held'[q] <=> i \in held[q] \/ (q = p /\ ids[q][i] # Invalid)
  BY <1>1 DEF IInv, TypeOK
<1>3. TypeOK' /\ CoreInv' /\ LayerInv'
  <2>1. held' \in [Pairs -> SUBSET Slots]
    BY <1>1 DEF IInv, TypeOK
  <2>2. reader' \in [Pairs -> {"watch", "reset", "clear"}]
    BY <1>1 DEF IInv, TypeOK
  <2>3. /\ flag' \in [Pairs -> {0, 1}] /\ ids' \in [Pairs -> [Slots -> Nat \cup {Invalid}]]
        /\ attnFlag' \in [MicroBatches -> [Slots -> {0, 1}]]
    BY <1>1 DEF IInv, TypeOK
  <2> QED  BY <1>1, <2>1, <2>2, <2>3, OutsideKeeps
<1>4. /\ \A m \in MicroBatches, i \in Slots : Written(m, i)' <=> Written(m, i)
      /\ \A f \in Ffns : Unflagged(f)' <=> Unflagged(f)
      /\ Idle' <=> Idle
  BY <1>1, KernelSame
<1>5. HostInv'
  BY <1>1, <1>4 DEF IInv, HostInv, Outstanding
<1>6. ReaderInv' /\ WakeInv'
  BY <1>1, <1>2 DEF IInv, ReaderInv, WakeInv
<1>7. ThereInv'
  <2>1. \A q \in Pairs, i \in Slots : There(q, i)' <=> There(q, i)
    BY <1>1, <1>2 DEF There
  <2>2. \A q \in Pairs : q[2] \in MicroBatches
    BY PairFacts
  <2> QED  BY <1>1, <1>4, <2>1, <2>2 DEF IInv, SlotInv, ThereInv, Outstanding, Written
<1>8. IdsInv'
  <2> SUFFICES ASSUME NEW q \in Pairs, NEW i \in Slots, ids[q][i] # Invalid
               PROVE  /\ ids[q][i] = sent[q[2]] - 1 /\ reader'[q] # "clear"
                      /\ i \in held'[q] <=> reader'[q] = "reset"
    BY <1>1 DEF IdsInv
  <2> QED  BY <1>1, <1>2 DEF IInv, SlotInv, IdsInv
<1>9. AttnInv'
  BY <1>1, <1>4 DEF IInv, SlotInv, AttnInv, Outstanding, Written
<1>10. NothingLost'
  <2> SUFFICES ASSUME NEW m \in MicroBatches, Outstanding(m), NEW i \in Active(route[m]),
                      Written(m, i)
               PROVE  LET q == <<route[m][i], m>> IN
                      \/ attnFlag[m][i] = 1
                      \/ /\ data[q][i] = sent[m] - 1
                         /\ \/ i \in held'[q]
                            \/ ids[q][i] = sent[m] - 1 /\ reader'[q] = "watch"
    BY <1>1 DEF NothingLost, Outstanding, Written
  <2>1. i \in Slots /\ <<route[m][i], m>> \in Pairs
    BY RouteFacts, PairFacts DEF IInv
  <2>2. sent[m] - 1 # Invalid
    BY DEF Outstanding, IInv, HostInv, Invalid
  <2> QED  BY <1>2, <2>1, <2>2 DEF IInv, SlotInv, NothingLost
<1>11. FlagInv'
  <2>1. \A i \in Active(route[mb]) : i \in Slots /\ route[mb][i] \in Ffns
    BY TokensOfRound
  <2> QED  BY <1>1, <1>4, <2>1 DEF IInv, FlagInv, Unflagged, Written, LayerId
<1> QED  BY <1>3, <1>5, <1>6, <1>7, <1>8, <1>9, <1>10, <1>11 DEF IInv, SlotInv

(* The ids are wiped when all of them are listed.                          *)
LEMMA ResetIdsKeeps ==
  ASSUME IInv, NEW p \in Pairs, ResetIds(p)
  PROVE  IInv'
<1>1. /\ reader[p] = "reset"
      /\ reader' = [reader EXCEPT ![p] = "clear"]
      /\ ids' = [ids EXCEPT ![p] = Empty]
      /\ UNCHANGED <<asynchronous, flag, layer, data, pc, idx, status, held>>
      /\ UNCHANGED <<mb, route, sent, collected, turn, attnFlag>>
  BY DEF ResetIds, kernel, host
<1>2. /\ \A q \in Pairs : reader'[q] = IF q = p THEN "clear" ELSE reader[q]
      /\ \A q \in Pairs, i \in Slots : ids'[q][i] = IF q = p THEN Invalid ELSE ids[q][i]
  BY <1>1 DEF IInv, TypeOK, Empty
<1>3. TypeOK' /\ CoreInv' /\ LayerInv'
  <2>1. ids' \in [Pairs -> [Slots -> Nat \cup {Invalid}]]
    <3>1. Empty \in [Slots -> Nat \cup {Invalid}]
      BY DEF Empty
    <3> QED  BY <1>1, <3>1 DEF IInv, TypeOK
  <2>2. reader' \in [Pairs -> {"watch", "reset", "clear"}]
    BY <1>1 DEF IInv, TypeOK
  <2>3. /\ flag' \in [Pairs -> {0, 1}] /\ held' \in [Pairs -> SUBSET Slots]
        /\ attnFlag' \in [MicroBatches -> [Slots -> {0, 1}]]
    BY <1>1 DEF IInv, TypeOK
  <2> QED  BY <1>1, <2>1, <2>2, <2>3, OutsideKeeps
<1>4. /\ \A m \in MicroBatches, i \in Slots : Written(m, i)' <=> Written(m, i)
      /\ \A f \in Ffns : Unflagged(f)' <=> Unflagged(f)
      /\ Idle' <=> Idle
  BY <1>1, KernelSame
<1>5. HostInv'
  BY <1>1, <1>4 DEF IInv, HostInv, Outstanding
<1>6. ReaderInv' /\ WakeInv'
  <2>1. ReaderInv'
    BY <1>1, <1>2 DEF IInv, ReaderInv
  <2>2. WakeInv'
    <3> SUFFICES ASSUME asynchronous, NEW q \in Pairs, flag[q] = 1, reader'[q] = "watch"
                 PROVE  \E j \in Slots : ids'[q][j] = layer[q]
      BY <1>1 DEF WakeInv
    <3>1. q # p /\ reader[q] = "watch"
      BY <1>2
    <3> QED  BY <1>2, <3>1 DEF IInv, WakeInv
  <2> QED  BY <2>1, <2>2
<1>7. ThereInv'
  <2>1. \A q \in Pairs, i \in Slots : There(q, i)' => There(q, i)
    BY <1>1, <1>2 DEF There
  <2> QED  BY <1>1, <2>1 DEF IInv, SlotInv, ThereInv, Outstanding, Written
<1>8. IdsInv'
  <2> SUFFICES ASSUME NEW q \in Pairs, NEW i \in Slots, ids'[q][i] # Invalid
               PROVE  /\ ids'[q][i] = sent[q[2]] - 1 /\ reader'[q] # "clear"
                      /\ i \in held[q] <=> reader'[q] = "reset"
    BY <1>1 DEF IdsInv
  <2> QED  BY <1>2 DEF IInv, SlotInv, IdsInv
<1>9. AttnInv'
  BY <1>1, <1>4 DEF IInv, SlotInv, AttnInv, Outstanding, Written
<1>10. NothingLost'
  <2> SUFFICES ASSUME NEW m \in MicroBatches, Outstanding(m), NEW i \in Active(route[m]),
                      Written(m, i)
               PROVE  LET q == <<route[m][i], m>> IN
                      \/ attnFlag[m][i] = 1
                      \/ /\ data[q][i] = sent[m] - 1
                         /\ \/ i \in held[q]
                            \/ ids'[q][i] = sent[m] - 1 /\ reader'[q] = "watch"
    BY <1>1 DEF NothingLost, Outstanding, Written
  <2>1. i \in Slots /\ <<route[m][i], m>> \in Pairs
    BY RouteFacts, PairFacts DEF IInv
  <2> QED  BY <1>1, <1>2, <2>1 DEF IInv, SlotInv, NothingLost
<1>11. FlagInv'
  <2> SUFFICES ASSUME NEW i \in Active(route[mb]), Unflagged(route[mb][i]), Written(mb, i)
               PROVE  LET q == <<route[mb][i], mb>> IN flag[q] = 0 /\ ids'[q][i] = LayerId
    BY <1>1 DEF FlagInv, Unflagged, Written, LayerId
  <2>1. i \in Slots /\ <<route[mb][i], mb>> \in Pairs
    BY TokensOfRound, PairFacts
  <2>2. flag[<<route[mb][i], mb>>] = 0 /\ ids[<<route[mb][i], mb>>][i] = LayerId
    BY DEF IInv, FlagInv
  <2>3. flag[p] = 1
    BY <1>1 DEF IInv, ReaderInv
  <2> QED  BY <1>2, <2>1, <2>2, <2>3
<1> QED  BY <1>3, <1>5, <1>6, <1>7, <1>8, <1>9, <1>10, <1>11 DEF IInv, SlotInv

LEMMA ClearFlagKeeps ==
  ASSUME IInv, NEW p \in Pairs, ClearFlag(p)
  PROVE  IInv'
<1>1. /\ reader[p] = "clear"
      /\ reader' = [reader EXCEPT ![p] = "watch"]
      /\ flag' = [flag EXCEPT ![p] = 0]
      /\ UNCHANGED <<asynchronous, layer, ids, data, pc, idx, status, held>>
      /\ UNCHANGED <<mb, route, sent, collected, turn, attnFlag>>
  BY DEF ClearFlag, kernel, host
<1>2. /\ \A q \in Pairs : reader'[q] = IF q = p THEN "watch" ELSE reader[q]
      /\ \A q \in Pairs : flag'[q] = IF q = p THEN 0 ELSE flag[q]
  BY <1>1 DEF IInv, TypeOK
<1>3. TypeOK' /\ CoreInv' /\ LayerInv'
  <2>1. /\ reader' \in [Pairs -> {"watch", "reset", "clear"}] /\ flag' \in [Pairs -> {0, 1}]
    BY <1>1 DEF IInv, TypeOK
  <2>2. /\ held' \in [Pairs -> SUBSET Slots]
        /\ ids' \in [Pairs -> [Slots -> Nat \cup {Invalid}]]
        /\ attnFlag' \in [MicroBatches -> [Slots -> {0, 1}]]
    BY <1>1 DEF IInv, TypeOK
  <2> QED  BY <1>1, <1>2, <2>1, <2>2, OutsideKeeps
<1>4. /\ \A m \in MicroBatches, i \in Slots : Written(m, i)' <=> Written(m, i)
      /\ \A f \in Ffns : Unflagged(f)' <=> Unflagged(f)
      /\ Idle' <=> Idle
  BY <1>1, KernelSame
<1>5. HostInv'
  BY <1>1, <1>4 DEF IInv, HostInv, Outstanding
<1>6. ReaderInv' /\ WakeInv'
  BY <1>1, <1>2 DEF IInv, ReaderInv, WakeInv
<1>7. ThereInv'
  BY <1>1 DEF IInv, SlotInv, ThereInv, There, Outstanding, Written
<1>8. IdsInv'
  <2> SUFFICES ASSUME NEW q \in Pairs, NEW i \in Slots, ids[q][i] # Invalid
               PROVE  /\ ids[q][i] = sent[q[2]] - 1 /\ reader'[q] # "clear"
                      /\ i \in held[q] <=> reader'[q] = "reset"
    BY <1>1 DEF IdsInv
  <2> QED  BY <1>1, <1>2 DEF IInv, SlotInv, IdsInv
<1>9. AttnInv'
  BY <1>1, <1>4 DEF IInv, SlotInv, AttnInv, Outstanding, Written
<1>10. NothingLost'
  <2> SUFFICES ASSUME NEW m \in MicroBatches, Outstanding(m), NEW i \in Active(route[m]),
                      Written(m, i)
               PROVE  LET q == <<route[m][i], m>> IN
                      \/ attnFlag[m][i] = 1
                      \/ /\ data[q][i] = sent[m] - 1
                         /\ \/ i \in held[q]
                            \/ ids[q][i] = sent[m] - 1 /\ reader'[q] = "watch"
    BY <1>1 DEF NothingLost, Outstanding, Written
  <2>1. i \in Slots /\ <<route[m][i], m>> \in Pairs
    BY RouteFacts, PairFacts DEF IInv
  <2> QED  BY <1>2, <2>1 DEF IInv, SlotInv, NothingLost
<1>11. FlagInv'
  <2> SUFFICES ASSUME NEW i \in Active(route[mb]), Unflagged(route[mb][i]), Written(mb, i)
               PROVE  LET q == <<route[mb][i], mb>> IN flag'[q] = 0 /\ ids[q][i] = LayerId
    BY <1>1 DEF FlagInv, Unflagged, Written, LayerId
  <2>1. <<route[mb][i], mb>> \in Pairs
    BY TokensOfRound, PairFacts
  <2> QED  BY <1>2, <2>1 DEF IInv, FlagInv
<1> QED  BY <1>3, <1>5, <1>6, <1>7, <1>8, <1>9, <1>10, <1>11 DEF IInv, SlotInv

(* A slot that is listed is answered into its place, which no other node   *)
(* has a claim to.                                                         *)
LEMMA AnswerKeeps ==
  ASSUME IInv, NEW p \in Pairs, NEW i \in Slots, Answer(p, i)
  PROVE  IInv'
<1> PICK w \in MicroBatches : w = p[2]
  BY PairFacts
<1>1. /\ reader[p] = "watch" /\ i \in held[p]
      /\ held' = [held EXCEPT ![p] = @ \ {i}]
      /\ attnFlag' = [attnFlag EXCEPT ![w][i] = 1]
      /\ UNCHANGED <<asynchronous, flag, layer, ids, data, pc, idx, status, reader>>
      /\ UNCHANGED <<mb, route, sent, collected, turn>>
  BY DEF Answer, window, kernel, host
<1>2. /\ \A q \in Pairs, j \in Slots : j \in held'[q] <=> j \in held[q] /\ ~(q = p /\ j = i)
      /\ \A m \in MicroBatches, j \in Slots :
           attnFlag'[m][j] = IF m = w /\ j = i THEN 1 ELSE attnFlag[m][j]
  BY <1>1 DEF IInv, TypeOK
<1>3. /\ Outstanding(w) /\ i \in Active(route[w]) /\ route[w][i] = p[1]
      /\ Written(w, i) /\ ids[p][i] = Invalid
  BY <1>1 DEF IInv, SlotInv, ThereInv, IdsInv, There
<1>4. TypeOK' /\ CoreInv' /\ LayerInv'
  <2>1. held' \in [Pairs -> SUBSET Slots]
    BY <1>1 DEF IInv, TypeOK
  <2>2. attnFlag' \in [MicroBatches -> [Slots -> {0, 1}]]
    BY <1>1 DEF IInv, TypeOK
  <2>3. /\ flag' \in [Pairs -> {0, 1}] /\ reader' \in [Pairs -> {"watch", "reset", "clear"}]
        /\ ids' \in [Pairs -> [Slots -> Nat \cup {Invalid}]]
    BY <1>1 DEF IInv, TypeOK
  <2> QED  BY <1>1, <2>1, <2>2, <2>3, OutsideKeeps
<1>5. /\ \A m \in MicroBatches, j \in Slots : Written(m, j)' <=> Written(m, j)
      /\ \A f \in Ffns : Unflagged(f)' <=> Unflagged(f)
      /\ Idle' <=> Idle
  BY <1>1, KernelSame
<1>6. HostInv'
  BY <1>1, <1>5 DEF IInv, HostInv, Outstanding
<1>7. ReaderInv' /\ WakeInv'
  BY <1>1 DEF IInv, ReaderInv, WakeInv
<1>8. ThereInv'
  <2> SUFFICES ASSUME NEW q \in Pairs, NEW j \in Slots, There(q, j)'
               PROVE  /\ Outstanding(q[2]) /\ attnFlag'[q[2]][j] = 0
                      /\ j \in Active(route[q[2]]) /\ route[q[2]][j] = q[1]
                      /\ Written(q[2], j)
    BY <1>1 DEF ThereInv, Outstanding, Written
  <2>1. There(q, j) /\ ~(q = p /\ j = i)
    BY <1>1, <1>2, <1>3 DEF There
  <2>2. /\ Outstanding(q[2]) /\ attnFlag[q[2]][j] = 0
        /\ j \in Active(route[q[2]]) /\ route[q[2]][j] = q[1] /\ Written(q[2], j)
    BY <2>1 DEF IInv, SlotInv, ThereInv
  <2>3. ~(q[2] = w /\ j = i)
    BY <1>3, <2>1, <2>2, PairFacts
  <2>4. q[2] \in MicroBatches
    BY PairFacts
  <2> QED  BY <1>2, <2>2, <2>3, <2>4
<1>9. IdsInv'
  BY <1>1, <1>2, <1>3 DEF IInv, SlotInv, IdsInv
<1>10. AttnInv'
  <2> SUFFICES ASSUME NEW m \in MicroBatches, NEW j \in Slots, attnFlag'[m][j] = 1
               PROVE  Outstanding(m) /\ (j \in Active(route[m]) => Written(m, j))
    BY <1>1 DEF AttnInv, Outstanding, Written
  <2> QED  BY <1>2, <1>3 DEF IInv, SlotInv, AttnInv
<1>11. NothingLost'
  <2> SUFFICES ASSUME NEW m \in MicroBatches, Outstanding(m), NEW j \in Active(route[m]),
                      Written(m, j)
               PROVE  LET q == <<route[m][j], m>> IN
                      \/ attnFlag'[m][j] = 1
                      \/ /\ data[q][j] = sent[m] - 1
                         /\ \/ j \in held'[q]
                            \/ ids[q][j] = sent[m] - 1 /\ reader[q] = "watch"
    BY <1>1 DEF NothingLost, Outstanding, Written
  <2>1. j \in Slots /\ <<route[m][j], m>> \in Pairs
    BY RouteFacts, PairFacts DEF IInv
  <2> QED  BY <1>2, <2>1 DEF IInv, SlotInv, NothingLost
<1>12. FlagInv'
  BY <1>1 DEF IInv, FlagInv, Unflagged, Written, LayerId
<1> QED  BY <1>4, <1>6, <1>7, <1>8, <1>9, <1>10, <1>11, <1>12 DEF IInv, SlotInv

(* What is complete in the attention window is nowhere else.               *)
LEMMA CompleteHolds == IInv => CollectComplete
<1> SUFFICES ASSUME IInv, NEW m \in MicroBatches, AllFlagged(m)
             PROVE  /\ Outstanding(m)
                    /\ \A f \in Ffns : held[<<f, m>>] = {} /\ ids[<<f, m>>] = Empty
  BY DEF CollectComplete
<1>1. 0 \in Slots /\ \A i \in Slots : attnFlag[m][i] = 1
  BY Counts DEF AllFlagged, Slots
<1>2. Outstanding(m)
  BY <1>1 DEF IInv, SlotInv, AttnInv
<1>3. ASSUME NEW f \in Ffns
      PROVE  held[<<f, m>>] = {} /\ ids[<<f, m>>] = Empty
  <2>1. <<f, m>> \in Pairs
    BY PairFacts
  <2>2. \A i \in Slots : ~There(<<f, m>>, i)
    BY <1>1, <2>1 DEF IInv, SlotInv, ThereInv
  <2>3. \A i \in Slots : i \notin held[<<f, m>>] /\ ids[<<f, m>>][i] = Invalid
    BY <2>2 DEF There
  <2>4. held[<<f, m>>] \subseteq Slots /\ ids[<<f, m>>] \in [Slots -> Nat \cup {Invalid}]
    BY <2>1 DEF IInv, TypeOK
  <2> QED  BY <2>3, <2>4 DEF Empty
<1> QED  BY <1>2, <1>3

LEMMA CollectKeeps ==
  ASSUME IInv, NEW w \in MicroBatches, Collect(w)
  PROVE  IInv'
<1>1. /\ Idle /\ AllFlagged(w)
      /\ attnFlag' = [attnFlag EXCEPT ![w] = [i \in Slots |-> 0]]
      /\ collected' = [collected EXCEPT ![w] = @ + 1]
      /\ UNCHANGED <<asynchronous, flag, layer, ids, data, pc, idx, status, reader, held>>
      /\ UNCHANGED <<mb, route, sent, turn>>
  BY DEF Collect, window, kernel, ffn
<1>2. /\ Outstanding(w)
      /\ \A q \in Pairs, i \in Slots : There(q, i) => q[2] # w
  <2>1. Outstanding(w) /\ \A i \in Slots : attnFlag[w][i] = 1
    BY <1>1, CompleteHolds DEF CollectComplete, AllFlagged
  <2> QED  BY <2>1 DEF IInv, SlotInv, ThereInv
<1>3. /\ sent[w] = collected[w] + 1 /\ collected[w] \in Nat
      /\ collected'[w] = sent[w]
      /\ \A m \in MicroBatches \ {w} : collected'[m] = collected[m]
  BY <1>1, <1>2 DEF IInv, HostInv, Outstanding
<1>4. /\ ~Outstanding(w)'
      /\ \A m \in MicroBatches \ {w} : Outstanding(m)' <=> Outstanding(m)
  BY <1>1, <1>3 DEF Outstanding, IInv, HostInv
<1>5. \A m \in MicroBatches, i \in Slots :
        attnFlag'[m][i] = IF m = w THEN 0 ELSE attnFlag[m][i]
  BY <1>1 DEF IInv, TypeOK
<1>6. TypeOK' /\ CoreInv' /\ LayerInv'
  <2>1. attnFlag' \in [MicroBatches -> [Slots -> {0, 1}]]
    BY <1>1 DEF IInv, TypeOK
  <2>2. /\ flag' \in [Pairs -> {0, 1}] /\ reader' \in [Pairs -> {"watch", "reset", "clear"}]
        /\ ids' \in [Pairs -> [Slots -> Nat \cup {Invalid}]]
        /\ held' \in [Pairs -> SUBSET Slots]
    BY <1>1 DEF IInv, TypeOK
  <2> QED  BY <1>1, <2>1, <2>2, OutsideKeeps
<1>7. HostInv'
  <2>1. Idle'
    BY <1>1 DEF Idle
  <2>2. collected' \in [MicroBatches -> Nat]
    BY <1>1 DEF IInv, HostInv
  <2> QED  BY <1>1, <1>3, <2>1, <2>2 DEF IInv, HostInv
<1>8. ReaderInv' /\ WakeInv'
  BY <1>1 DEF IInv, ReaderInv, WakeInv
<1>9. ThereInv'
  <2> SUFFICES ASSUME NEW q \in Pairs, NEW j \in Slots, There(q, j)'
               PROVE  /\ Outstanding(q[2])' /\ attnFlag'[q[2]][j] = 0
                      /\ j \in Active(route'[q[2]]) /\ route'[q[2]][j] = q[1]
                      /\ Written(q[2], j)'
    BY DEF ThereInv
  <2>1. There(q, j) /\ q[2] # w /\ q[2] \in MicroBatches
    BY <1>1, <1>2, PairFacts DEF There
  <2>2. /\ Outstanding(q[2]) /\ attnFlag[q[2]][j] = 0
        /\ j \in Active(route[q[2]]) /\ route[q[2]][j] = q[1] /\ Written(q[2], j)
    BY <2>1 DEF IInv, SlotInv, ThereInv
  <2> QED  BY <1>1, <1>3, <1>5, <2>1, <2>2 DEF Outstanding, Written
<1>10. IdsInv'
  BY <1>1 DEF IInv, SlotInv, IdsInv
<1>11. AttnInv'
  <2> SUFFICES ASSUME NEW m \in MicroBatches, NEW j \in Slots, attnFlag'[m][j] = 1
               PROVE  Outstanding(m)' /\ (j \in Active(route[m]) => Written(m, j))
    BY <1>1 DEF AttnInv, Written
  <2>1. m # w /\ attnFlag[m][j] = 1
    BY <1>5
  <2> QED  BY <1>1, <1>3, <2>1 DEF IInv, SlotInv, AttnInv, Outstanding
<1>12. NothingLost'
  <2> SUFFICES ASSUME NEW m \in MicroBatches, Outstanding(m)', NEW j \in Active(route[m]),
                      Written(m, j)
               PROVE  LET q == <<route[m][j], m>> IN
                      \/ attnFlag'[m][j] = 1
                      \/ /\ data[q][j] = sent[m] - 1
                         /\ \/ j \in held[q]
                            \/ ids[q][j] = sent[m] - 1 /\ reader[q] = "watch"
    BY <1>1 DEF NothingLost, Written
  <2>1. m # w
    BY <1>4
  <2>2. Outstanding(m)
    BY <1>1, <1>3, <2>1 DEF Outstanding
  <2>3. j \in Slots
    BY RouteFacts DEF IInv
  <2> QED  BY <1>5, <2>1, <2>2, <2>3 DEF IInv, SlotInv, NothingLost
<1>13. FlagInv'
  BY <1>1 DEF IInv, FlagInv, Unflagged, Written, LayerId
<1> QED  BY <1>6, <1>7, <1>8, <1>9, <1>10, <1>11, <1>12, <1>13 DEF IInv, SlotInv

(***************************************************************************)
(* The theorems.                                                           *)
(***************************************************************************)

LEMMA StutterKeeps == ASSUME IInv, UNCHANGED vars PROVE IInv'
<1>1. /\ UNCHANGED <<asynchronous, flag, layer, ids, data, pc, idx, status, reader, held>>
      /\ UNCHANGED <<mb, route, sent, collected, turn, attnFlag>>
  BY DEF vars, window, kernel, host, ffn
<1>2. TypeOK' /\ CoreInv' /\ LayerInv'
  BY <1>1, OutsideKeeps DEF IInv, TypeOK
<1>3. HostInv' /\ ReaderInv' /\ WakeInv'
  BY <1>1 DEF IInv, HostInv, Idle, Outstanding, ReaderInv, WakeInv
<1>4. SlotInv'
  BY <1>1, SlotsSame DEF Written
<1>5. FlagInv'
  BY <1>1 DEF IInv, FlagInv, Unflagged, Written, LayerId
<1> QED  BY <1>2, <1>3, <1>4, <1>5 DEF IInv

LEMMA NextInv == IInv /\ [Next]_vars => IInv'
<1> SUFFICES ASSUME IInv, [Next]_vars PROVE IInv'
  OBVIOUS
<1>1. ASSUME NEW r \in Routes, Call(r) PROVE IInv'
  BY <1>1, CallKeeps
<1>2. ASSUME NEW c \in Aivs, Core(c) PROVE IInv'
  BY <1>2, SendTokenKeeps, ArriveAtSyncKeeps, PassSyncKeeps, SetFlagToFFNKeeps,
     SetFlagInAttnKeeps DEF Core
<1>3. ASSUME NEW p \in Pairs, Worker(p) PROVE IInv'
  BY <1>3, CopyOutKeeps, ResetIdsKeeps, ClearFlagKeeps, AnswerKeeps DEF Worker, Scheduler
<1>4. ASSUME NEW m \in MicroBatches, Collect(m) PROVE IInv'
  BY <1>4, CollectKeeps
<1>5. CASE Finished \/ UNCHANGED vars
  BY <1>5, StutterKeeps DEF Finished
<1> QED  BY <1>1, <1>2, <1>3, <1>4, <1>5 DEF Next

THEOREM Invariance == Spec => []IInv
<1> QED  BY InitInv, NextInv, PTL DEF Spec

(* The types, and that no core counts past its share of the tokens or of   *)
(* the FFN nodes.                                                          *)
THEOREM TypeCorrect == Spec => []TypeOK
<1>1. IInv => TypeOK
  BY DEF IInv
<1> QED  BY <1>1, Invariance, PTL

(* No token is overwritten or wiped between its core and its answer, also  *)
(* when flags of rounds without tokens are raised over the reader.         *)
THEOREM NothingLostCorrect == Spec => []NothingLost
<1>1. IInv => NothingLost
  BY DEF IInv, SlotInv
<1> QED  BY <1>1, Invariance, PTL

(* A flag of the round under way covers all tokens of its node, and the    *)
(* asynchronous scene raises none without a token under it.                *)
THEOREM FlagCorrect == Spec => []FlagMeansComplete
<1>1. IInv => FlagMeansComplete
  <2> SUFFICES ASSUME IInv PROVE FlagMeansComplete
    OBVIOUS
  <2>1. ASSUME NEW p \in Pairs, flag[p] = 1, layer[p] = sent[p[2]] - 1,
               NEW i \in Active(route[p[2]])
        PROVE  Written(p[2], i)
    <3>1. p[2] \in MicroBatches /\ i \in Slots
      BY PairFacts, RouteFacts DEF IInv
    <3>2. p[2] = mb => ~SomeSends
      BY <2>1, <3>1 DEF IInv, LayerInv, LayerId, TypeOK, HostInv
    <3> QED  BY <3>1, <3>2, SlotCore DEF Written, SomeSends
  <2> QED  BY <2>1 DEF FlagMeansComplete, IInv, WakeInv
<1> QED  BY <1>1, Invariance, PTL

(* A micro-batch looks complete in the attention window only when no FFN   *)
(* node has anything of it any more.                                       *)
THEOREM CollectCorrect == Spec => []CollectComplete
BY CompleteHolds, Invariance, PTL
=============================================================================

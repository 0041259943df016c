------------------------ MODULE MlaPrologPipelineProofs ------------------------
(***************************************************************************)
(* The flag protocol of the split-N kernel of MLA Prolog hands over every  *)
(* intermediate result complete and in its own step, and leaves no flag    *)
(* behind: proved for every number of cores, tokens, steps, heads and      *)
(* blocks, and for every launch.                                           *)
(*                                                                         *)
(* The flags of one id are told apart by nothing but their number.  The    *)
(* invariant therefore counts: how often a core has set or taken each flag *)
(* is a function of its place and step, a counter is the difference of two *)
(* such counts, and a core that has passed a barrier has seen the counts   *)
(* of all the others.                                                      *)
(***************************************************************************)
EXTENDS MlaPrologPipeline, FiniteSetTheorems, TLAPS

(* No cube core has more heads than a flag counter holds.                  *)
FewHeads == \A c \in Cubes : Heads(c) <= MaxSyncFlagCount

CubePlaces ==
  {"MatmulCq", "MatmulCkvKr", "WaitNorm", "MatmulQcQr", "WaitQc", "MatmulQn", "LastWait", "done"}
VecPlaces ==
  {"WaitCq", "RmsNormCq", "ShareNorm", "WaitCkvKr", "ScatterCkvKr", "SplitN", "WaitQcQr",
   "DequantQc", "ShareQc", "RopeQr", "QuantQn", "done"}

Dequant == launch.branch = "dequant"
Plain   == launch.branch = "plain"

(***************************************************************************)
(* How often a core has done a stage: once in every step up to its own,    *)
(* less one while it is at a place before the stage.                       *)
(***************************************************************************)
CubeCount(c, notYet) == cube[c].step - (IF cube[c].at \in notYet THEN 1 ELSE 0)

CqDone(c)    == CubeCount(c, {"MatmulCq"})
CkvKrDone(c) == CubeCount(c, {"MatmulCq", "MatmulCkvKr"})
NormTaken(c) == CubeCount(c, {"MatmulCq", "MatmulCkvKr", "WaitNorm"})
QcQrDone(c)  == CubeCount(c, {"MatmulCq", "MatmulCkvKr", "WaitNorm", "MatmulQcQr"})
QcTaken(c)   == CubeCount(c, {"MatmulCq", "MatmulCkvKr", "WaitNorm", "MatmulQcQr", "WaitQc"})
AtEnd(c)     == IF cube[c].at = "done" THEN 1 ELSE 0

VecCount(v, notYet) == vec[v].step - (IF vec[v].at \in notYet THEN 1 ELSE 0)

CqTaken(v)    == VecCount(v, {"WaitCq"})
Normalized(v) == VecCount(v, {"WaitCq", "RmsNormCq"})
NormShared(v) == VecCount(v, {"WaitCq", "RmsNormCq", "ShareNorm"})
CkvKrTaken(v) == VecCount(v, {"WaitCq", "RmsNormCq", "ShareNorm", "WaitCkvKr"})
Scattered(v)  == VecCount(v, {"WaitCq", "RmsNormCq", "ShareNorm", "WaitCkvKr", "ScatterCkvKr"})
QcQrTaken(v)  == VecCount(v, {"WaitCq", "RmsNormCq", "ShareNorm", "WaitCkvKr", "ScatterCkvKr",
                              "WaitQcQr"})
Dequanted(v)  == VecCount(v, {"WaitCq", "RmsNormCq", "ShareNorm", "WaitCkvKr", "ScatterCkvKr",
                              "WaitQcQr", "DequantQc"})
QcShared(v)   == VecCount(v, {"WaitCq", "RmsNormCq", "ShareNorm", "WaitCkvKr", "ScatterCkvKr",
                              "WaitQcQr", "DequantQc", "ShareQc"})
Roped(v)      == VecCount(v, {"WaitCq", "RmsNormCq", "ShareNorm", "WaitCkvKr", "ScatterCkvKr",
                              "WaitQcQr", "DequantQc", "ShareQc", "RopeQr"})

(* Blocks and heads within the step of the core.                           *)
BlocksDone(c) ==
  IF cube[c].at \in {"MatmulCq", "MatmulCkvKr", "WaitNorm"} THEN 0
  ELSE IF cube[c].at = "MatmulQcQr" THEN cube[c].idx ELSE Blocks(c)
HeadsDone(c) ==
  IF cube[c].at = "MatmulQn" THEN cube[c].idx
  ELSE IF cube[c].at \in {"LastWait", "done"} THEN Heads(c) ELSE 0
BlocksTaken(v) ==
  IF vec[v].at = "SplitN" THEN vec[v].idx
  ELSE IF vec[v].at \in {"QuantQn", "done"} THEN Blocks(CubeOf(v)) ELSE 0
HeadsReady(v) ==
  IF vec[v].at = "SplitN" THEN HeadsWithin(CubeOf(v), vec[v].idx)
  ELSE IF vec[v].at \in {"QuantQn", "done"} THEN Heads(CubeOf(v)) ELSE 0
HeadsTaken(v) ==
  IF vec[v].at = "QuantQn" THEN vec[v].idx
  ELSE IF vec[v].at = "done" THEN Heads(CubeOf(v)) ELSE 0

(* A cube core and a vector core of its own are at most one step apart:    *)
(* what the step between them is worth if each step counts n.              *)
Lead(v, c, n) ==
  IF cube[c].step = vec[v].step THEN 0
  ELSE IF cube[c].step > vec[v].step THEN n ELSE -n
BlockLead(v, c) == Lead(v, c, Blocks(c))
HeadLead(v, c)  == Lead(v, c, Heads(c))

(***************************************************************************)
(* The inductive invariant.                                                *)
(***************************************************************************)
TypeInv ==
  /\ launch \in Launches
  /\ cube \in [Cubes -> [at : CubePlaces, step : 1 .. StepNum, idx : Nat]]
  /\ vec \in [Vecs -> [at : VecPlaces, step : 1 .. StepNum, idx : Nat]]
  /\ toVec \in [Vecs -> [VecFlags -> Nat]]
  /\ toCube \in [Vecs -> [CubeFlags -> Nat]]
  /\ vecArrived \in [Vecs -> Int]
  /\ cubeArrived \in [Cubes -> Int]
  /\ mmCqRes \in [Cubes -> Int]
  /\ mmCkvKrRes \in [Cubes -> Int]
  /\ rmsNormCqRes \in [Vecs -> Int]
  /\ mmQcQrRes \in [Cubes -> [step : Int, done : Int]]
  /\ mmQcQrResDequant \in [Vecs -> [step : Int, done : Int]]
  /\ qrOut \in [Vecs -> Int]
  /\ mmQnRes \in [Cubes -> [step : Int, done : Int]]

(* Which places there are in which launch, and how far the loops count.    *)
CubePlace(c) ==
  /\ CubeAt(c, "WaitQc") => ~SplitN
  /\ CubeAt(c, "LastWait") \/ CubeAt(c, "done") => cube[c].step = StepNum
  /\ CubeAt(c, "MatmulQcQr") => cube[c].idx <= Blocks(c)
  /\ CubeAt(c, "MatmulQn") => cube[c].idx <= Heads(c)
VecPlace(v) ==
  /\ VecAt(v, "SplitN") => SplitN /\ vec[v].idx <= Blocks(CubeOf(v))
  /\ VecAt(v, "WaitQcQr") \/ VecAt(v, "RopeQr") => ~SplitN
  /\ VecAt(v, "DequantQc") \/ VecAt(v, "ShareQc") => Dequant
  /\ VecAt(v, "QuantQn") => launch.quantQn /\ vec[v].idx <= Heads(CubeOf(v))
  /\ VecAt(v, "done") => vec[v].step = StepNum

(* A counter is what was set less what was taken.                          *)
FlagsOf(v, c) ==
  /\ toVec[v][FINISH_MM_CKVKR] = CkvKrDone(c) - CkvKrTaken(v)
  /\ toVec[v][FINISH_MM_CQ] =
       CqDone(c) - CqTaken(v) + (IF SplitN THEN 0 ELSE QcQrDone(c) - QcQrTaken(v))
  /\ toVec[v][FINISH_MM_QCQR_SPLIT_N] =
       IF SplitN THEN BlocksDone(c) - BlocksTaken(v) + BlockLead(v, c) ELSE 0
  /\ toVec[v][FINISH_MM_QN_SPLIT_N] =
       IF launch.quantQn THEN HeadsDone(c) - HeadsTaken(v) + HeadLead(v, c) ELSE 0
  /\ toCube[v][FINISH_VEC_RMSNORM_CQ] =
       NormShared(v) - NormTaken(c) + (IF Dequant THEN QcShared(v) - QcTaken(c) ELSE 0)
  /\ toCube[v][FINISH_VEC_CKVKR] = 1 + Scattered(v) - CkvKrDone(c) - AtEnd(c)
  /\ toCube[v][FINISH_VEC_DEQUANT_QC_SPLIT_N] =
       IF SplitN THEN HeadsReady(v) - HeadsDone(c) - HeadLead(v, c) ELSE 0

(* Barriers a core has reached.                                            *)
CubeArrive(c) == cubeArrived[c] = IF Plain THEN QcQrDone(c) ELSE 0
VecArrive(v) ==
  vecArrived[v] = CqTaken(v) + Normalized(v) + CkvKrTaken(v)
                    + (IF SplitN THEN 0 ELSE QcQrTaken(v))
                    + (IF Dequant THEN Dequanted(v) ELSE 0)
                    + (IF ~SplitN /\ launch.quantQn THEN Roped(v) ELSE 0)

(* Who has passed a barrier knows that all have reached it.                *)
CubeBarrier(c, d) == Plain => QcTaken(c) <= QcQrDone(d)
VecBarrier(v, w) ==
  /\ Normalized(v) <= CqTaken(w)
  /\ NormShared(v) <= Normalized(w)
  /\ Scattered(v) <= CkvKrTaken(w)
  /\ Dequant => Dequanted(v) <= QcQrTaken(w)
  /\ Dequant => QcShared(v) <= Dequanted(w)
  /\ Plain => Roped(v) <= QcQrTaken(w)

(* What the workspace holds.  A tensor that is filled block by block, or   *)
(* head by head, is of the step before until the first one is done.        *)
Filled(step, done, all) ==
  IF done > 0 THEN [step |-> step, done |-> done]
  ELSE [step |-> step - 1, done |-> IF step = 1 THEN 0 ELSE all]
CubeData(c) ==
  /\ c < CqBlockNum => mmCqRes[c] = CqDone(c)
  /\ c < CkvKrBlockNum => mmCkvKrRes[c] = CkvKrDone(c)
  /\ Blocks(c) > 0 => mmQcQrRes[c] = Filled(cube[c].step, BlocksDone(c), Blocks(c))
  /\ Heads(c) > 0 => mmQnRes[c] = Filled(cube[c].step, HeadsDone(c), Heads(c))
VecData(v) ==
  /\ \A k \in Nat : Normalized(v) = k /\ HasRows(v, k) => rmsNormCqRes[v] = k
  /\ SplitN /\ Heads(CubeOf(v)) > 0 =>
       mmQcQrResDequant[v] = Filled(vec[v].step, HeadsReady(v), Heads(CubeOf(v)))
  /\ Dequant => \A k \in Nat : Dequanted(v) = k /\ HasRows(v, k) =>
                                mmQcQrResDequant[v].step = k
  /\ ~SplitN => \A k \in Nat : 1 <= k /\ k <= Roped(v) /\ HasRows(v, k) => qrOut[v] >= k

CubeInv(c) == CubePlace(c) /\ CubeArrive(c) /\ CubeData(c)
VecInv(v)  == VecPlace(v) /\ VecArrive(v) /\ VecData(v)

IInv ==
  /\ TypeInv
  /\ \A c \in Cubes : CubeInv(c)
  /\ \A v \in Vecs : VecInv(v)
  /\ \A c \in Cubes, v \in Vecs : CubeOf(v) = c => FlagsOf(v, c)
  /\ \A c, d \in Cubes : CubeBarrier(c, d)
  /\ \A v, w \in Vecs : VecBarrier(v, w)

(***************************************************************************)
(* Arithmetic of cores, steps, heads and blocks.                           *)
(***************************************************************************)

(* Every vector core has its cube core, every cube core a vector core.     *)
LEMMA CoreFacts ==
  /\ \A v \in Vecs : CubeOf(v) \in Cubes
  /\ \A c \in Cubes : \E v \in Vecs : CubeOf(v) = c
<1>1. CubeNum \in Nat /\ CvRatio \in Nat /\ CubeNum > 0 /\ CvRatio > 0
  BY CoresAssumption
<1>2. ASSUME NEW v \in Vecs PROVE CubeOf(v) \in Cubes
  <2> DEFINE q == v \div CvRatio
             r == v % CvRatio
  <2>1. v \in Nat /\ v < CubeNum * CvRatio
    BY <1>1 DEF Vecs
  <2>2. q \in Int /\ r \in 0 .. CvRatio - 1 /\ v = CvRatio * q + r
    BY <1>1, <2>1
  <2> HIDE DEF q, r
  <2>3. q >= 0
    <3> SUFFICES ASSUME q + 1 <= 0 PROVE FALSE
      BY <2>2
    <3>1. CvRatio * (q + 1) <= CvRatio * 0
      BY <1>1, <2>2
    <3> QED  BY <1>1, <2>1, <2>2, <3>1
  <2>4. q < CubeNum
    <3> SUFFICES ASSUME CubeNum <= q PROVE FALSE
      BY <1>1, <2>2
    <3>1. CvRatio * CubeNum <= CvRatio * q
      BY <1>1, <2>2
    <3> QED  BY <1>1, <2>1, <2>2, <3>1
  <2> QED  BY <1>1, <2>2, <2>3, <2>4 DEF CubeOf, Cubes, q
<1>3. ASSUME NEW c \in Cubes PROVE \E v \in Vecs : CubeOf(v) = c
  <2>1. c \in Nat /\ c + 1 <= CubeNum
    BY <1>1 DEF Cubes
  <2>2. c * CvRatio \in Nat /\ (c + 1) * CvRatio = c * CvRatio + CvRatio
    BY <1>1, <2>1
  <2>3. (c + 1) * CvRatio <= CubeNum * CvRatio
    BY <1>1, <2>1
  <2>4. c * CvRatio \in Vecs
    BY <1>1, <2>2, <2>3 DEF Vecs
  <2>5. (c * CvRatio) \div CvRatio = c
    BY <1>1, <2>1
  <2> QED  BY <2>4, <2>5 DEF CubeOf
<1> QED  BY <1>2, <1>3

(* The quotient rounded up. *)
LEMMA CeilFacts ==
  ASSUME NEW a \in Nat, NEW b \in Nat \ {0}
  PROVE  /\ CeilDiv(a, b) \in Nat
         /\ a <= CeilDiv(a, b) * b
         /\ a > 0 => CeilDiv(a, b) > 0 /\ (CeilDiv(a, b) - 1) * b < a
<1> DEFINE q == (a + b - 1) \div b
           r == (a + b - 1) % b
<1>1. q \in Int /\ r \in 0 .. b - 1 /\ a + b - 1 = b * q + r
  OBVIOUS
<1> HIDE DEF q, r
<1>2. ~(q < 0)
  <2> SUFFICES ASSUME q + 1 <= 0 PROVE FALSE
    BY <1>1
  <2>1. b * (q + 1) <= b * 0
    BY <1>1
  <2> QED  BY <1>1, <2>1
<1>3. a <= q * b
  BY <1>1
<1>4. (q - 1) * b = b * q - b
  BY <1>1
<1>5. a > 0 => q > 0 /\ (q - 1) * b < a
  <2>1. q = 0 => b * q = 0
    BY <1>1
  <2> QED  BY <1>1, <1>2, <1>4, <2>1
<1> QED  BY <1>1, <1>2, <1>3, <1>5 DEF CeilDiv, q

LEMMA StepFacts == StepNum \in Nat /\ StepNum > 0
BY CeilFacts, CoresAssumption DEF StepNum

LEMMA HeadFacts ==
  ASSUME NEW c \in Cubes
  PROVE  /\ Heads(c) \in Nat
         /\ Blocks(c) \in Nat
         /\ SplitN => Heads(c) * HeadWidth <= Blocks(c) * BaseN
         /\ SplitN /\ Blocks(c) > 0 => Heads(c) > 0
<1>1. /\ HeadNum \in Nat /\ HeadNum > 0 /\ CubeNum \in Nat /\ CubeNum > 0
      /\ QcWidth \in Nat /\ QrWidth \in Nat /\ QcWidth > 0
      /\ BaseN \in Nat \ {0} /\ HeadWidth \in Nat
  BY CoresAssumption DEF HeadWidth
<1>2. HeadsPerCube \in Nat /\ HeadsPerCube > 0
  BY <1>1, CeilFacts DEF HeadsPerCube
<1>3. /\ HeadBlockNum \in Nat /\ HeadBlockNum > 0
      /\ (HeadBlockNum - 1) * HeadsPerCube < HeadNum
  BY <1>1, <1>2, CeilFacts DEF HeadBlockNum
<1>4. Heads(c) \in Nat
  <2>1. c \in Nat
    BY DEF Cubes
  <2>2. CASE c = HeadBlockNum - 1
    <3>1. c * HeadsPerCube \in Nat /\ c * HeadsPerCube < HeadNum
      BY <1>2, <1>3, <2>1, <2>2
    <3> QED  BY <1>1, <1>3, <2>1, <2>2, <3>1 DEF Heads
  <2>3. CASE c # HeadBlockNum - 1
    BY <1>2, <2>3 DEF Heads
  <2> QED  BY <2>2, <2>3
<1>5. Heads(c) * HeadWidth \in Nat
  BY <1>1, <1>4
<1>6. /\ CeilDiv(Heads(c) * HeadWidth, BaseN) \in Nat
      /\ Heads(c) * HeadWidth <= CeilDiv(Heads(c) * HeadWidth, BaseN) * BaseN
  BY <1>1, <1>5, CeilFacts
<1>7. Heads(c) = 0 => CeilDiv(Heads(c) * HeadWidth, BaseN) = 0
  <2> SUFFICES ASSUME Heads(c) = 0 PROVE CeilDiv(0, BaseN) = 0
    BY <1>1
  <2> QED  BY <1>1 DEF CeilDiv
<1> QED  BY <1>4, <1>6, <1>7 DEF Blocks

(* The heads whose Qc columns are in the first n blocks come first.        *)
LEMMA HeadsWithinFacts ==
  ASSUME NEW c \in Cubes, NEW n \in Nat
  PROVE  /\ HeadsWithin(c, n) \in 0 .. Heads(c)
         /\ \A h \in 0 .. Heads(c) - 1 :
              h < HeadsWithin(c, n) <=> h * HeadWidth + QcWidth <= n * BaseN
<1> DEFINE H == Heads(c)
           W == HeadWidth
           X == n * BaseN - QcWidth
           q == X \div W
           r == X % W
           S == {h \in 0 .. H - 1 : h * W + QcWidth <= n * BaseN}
           m == IF X < 0 THEN 0 ELSE IF q + 1 < H THEN q + 1 ELSE H
<1>1. H \in Nat /\ W \in Nat /\ W > 0 /\ QcWidth \in Nat /\ BaseN \in Nat /\ n * BaseN \in Nat
  BY HeadFacts, CoresAssumption DEF HeadWidth
<1>2. X \in Int /\ q \in Int /\ r \in 0 .. W - 1 /\ X = W * q + r
  BY <1>1
<1> HIDE DEF H, W
<1>3. \A h \in 0 .. H - 1 : h * W \in Nat /\ (h * W + QcWidth <= n * BaseN <=> h * W <= X)
  BY <1>1
<1> HIDE DEF X, q, r
<1>4. \A h \in 0 .. H - 1 : h * W <= X <=> h <= q
  <2> TAKE h \in 0 .. H - 1
  <2>1. ASSUME h <= q PROVE h * W <= X
    <3>1. h * W <= q * W
      BY <1>1, <1>2, <2>1
    <3> QED  BY <1>1, <1>2, <3>1
  <2>2. ASSUME q + 1 <= h PROVE X < h * W
    <3>1. (q + 1) * W <= h * W
      BY <1>1, <1>2, <2>2
    <3>2. (q + 1) * W = W * q + W
      BY <1>1, <1>2
    <3> QED  BY <1>1, <1>2, <3>1, <3>2
  <2> QED  BY <1>1, <1>2, <2>1, <2>2
<1>5. X >= 0 => q >= 0
  <2> SUFFICES ASSUME X >= 0, q + 1 <= 0 PROVE FALSE
    BY <1>2
  <2>1. W * (q + 1) <= W * 0
    BY <1>1, <1>2
  <2> QED  BY <1>1, <1>2, <2>1
<1>6. X < 0 => S = {}
  BY <1>1, <1>2, <1>3
<1>7. m \in 0 .. H /\ S = 0 .. m - 1
  <2>1. CASE X < 0
    BY <1>1, <1>6, <2>1
  <2>2. CASE X >= 0
    <3>1. S = {h \in 0 .. H - 1 : h <= q}
      BY <1>3, <1>4
    <3> HIDE DEF S
    <3>2. CASE q + 1 < H
      <4>1. m = q + 1 /\ m \in 0 .. H
        BY <1>1, <1>2, <1>5, <2>2, <3>2
      <4>2. {h \in 0 .. H - 1 : h <= q} = 0 .. (q + 1) - 1
        BY <1>1, <1>2, <1>5, <2>2, <3>2
      <4> QED  BY <3>1, <4>1, <4>2
    <3>3. CASE ~(q + 1 < H)
      <4>1. m = H /\ m \in 0 .. H
        BY <1>1, <1>2, <1>5, <2>2, <3>3
      <4>2. {h \in 0 .. H - 1 : h <= q} = 0 .. H - 1
        BY <1>1, <1>2, <1>5, <2>2, <3>3
      <4> QED  BY <3>1, <4>1, <4>2
    <3> QED  BY <3>2, <3>3
  <2> QED  BY <1>2, <2>1, <2>2
<1>8. Cardinality(0 .. m - 1) = m
  <2> HIDE DEF m
  <2>1. m - 1 \in Int /\ (0 > m - 1 => m = 0)
    BY <1>1, <1>7
  <2> QED  BY <1>1, <1>7, <2>1, FS_Interval
<1>9. HeadsWithin(c, n) = m
  BY <1>7, <1>8 DEF HeadsWithin, H, W
<1> HIDE DEF m
<1> QED  BY <1>1, <1>7, <1>9 DEF H, W

(* No head is within no block, all are within all blocks.                  *)
LEMMA HeadsWithinEnds ==
  ASSUME NEW c \in Cubes
  PROVE  /\ HeadsWithin(c, 0) = 0
         /\ SplitN => HeadsWithin(c, Blocks(c)) = Heads(c)
         /\ \A n \in Nat : HeadsWithin(c, n) <= HeadsWithin(c, n + 1)
<1>1. /\ Heads(c) \in Nat /\ Blocks(c) \in Nat /\ HeadWidth \in Nat /\ BaseN \in Nat
      /\ QcWidth \in Nat /\ QcWidth > 0 /\ QcWidth <= HeadWidth
  BY HeadFacts, CoresAssumption DEF HeadWidth
<1>2. HeadsWithin(c, 0) = 0
  <2> SUFFICES ASSUME HeadsWithin(c, 0) # 0 PROVE FALSE
    OBVIOUS
  <2>1. HeadsWithin(c, 0) \in 0 .. Heads(c)
    BY HeadsWithinFacts
  <2>2. 0 \in 0 .. Heads(c) - 1 /\ 0 < HeadsWithin(c, 0)
    BY <1>1, <2>1
  <2>3. 0 * HeadWidth + QcWidth <= 0 * BaseN
    BY <2>2, HeadsWithinFacts
  <2> QED  BY <1>1, <2>3
<1>3. SplitN => HeadsWithin(c, Blocks(c)) = Heads(c)
  <2> SUFFICES ASSUME SplitN, HeadsWithin(c, Blocks(c)) # Heads(c) PROVE FALSE
    OBVIOUS
  <2> DEFINE h == Heads(c) - 1
  <2>1. HeadsWithin(c, Blocks(c)) \in 0 .. Heads(c)
    BY <1>1, HeadsWithinFacts
  <2>2. h \in 0 .. Heads(c) - 1 /\ ~(h < HeadsWithin(c, Blocks(c)))
    BY <1>1, <2>1
  <2>3. h * HeadWidth = Heads(c) * HeadWidth - HeadWidth
    BY <1>1
  <2>4. Heads(c) * HeadWidth <= Blocks(c) * BaseN
    BY HeadFacts
  <2>5. ~(h * HeadWidth + QcWidth <= Blocks(c) * BaseN)
    <3> HIDE DEF h
    <3> QED  BY <1>1, <2>2, HeadsWithinFacts
  <2>6. /\ Heads(c) * HeadWidth \in Int /\ Blocks(c) * BaseN \in Int
    BY <1>1
  <2> QED  BY <1>1, <2>3, <2>4, <2>5, <2>6
<1>4. ASSUME NEW n \in Nat PROVE HeadsWithin(c, n) <= HeadsWithin(c, n + 1)
  <2> SUFFICES ASSUME ~(HeadsWithin(c, n) <= HeadsWithin(c, n + 1)) PROVE FALSE
    OBVIOUS
  <2> DEFINE h == HeadsWithin(c, n + 1)
  <2>1. /\ HeadsWithin(c, n) \in 0 .. Heads(c) /\ h \in 0 .. Heads(c)
    BY HeadsWithinFacts
  <2>2. h \in 0 .. Heads(c) - 1 /\ h < HeadsWithin(c, n) /\ ~(h < HeadsWithin(c, n + 1))
    BY <1>1, <2>1
  <2> HIDE DEF h
  <2>3. h * HeadWidth + QcWidth <= n * BaseN /\ ~(h * HeadWidth + QcWidth <= (n + 1) * BaseN)
    BY <2>2, HeadsWithinFacts
  <2>4. (n + 1) * BaseN = n * BaseN + BaseN /\ n * BaseN \in Int /\ h * HeadWidth \in Int
    BY <1>1, <2>2
  <2> QED  BY <1>1, <2>3, <2>4
<1> QED  BY <1>2, <1>3, <1>4
(***************************************************************************)
(* What the counts say of each other.                                      *)
(***************************************************************************)
USE DEF VecFlags, CubeFlags, FINISH_MM_CKVKR, FINISH_MM_CQ, FINISH_MM_QCQR,
        FINISH_MM_QN_SPLIT_N, FINISH_MM_QCQR_SPLIT_N, FINISH_VEC_RMSNORM_CQ,
        FINISH_VEC_DEQUANT_QC, FINISH_VEC_DEQUANT_QC_SPLIT_N, FINISH_VEC_CKVKR

(* A core passes its stages in their order.                                *)
LEMMA CubeOrder ==
  ASSUME TypeInv, NEW c \in Cubes
  PROVE  /\ cube[c].step \in Int /\ 1 <= cube[c].step /\ cube[c].step <= StepNum
         /\ {CqDone(c), CkvKrDone(c), NormTaken(c), QcQrDone(c), QcTaken(c)} \subseteq Int
         /\ CqDone(c) <= cube[c].step
         /\ CkvKrDone(c) <= CqDone(c)
         /\ NormTaken(c) <= CkvKrDone(c)
         /\ QcQrDone(c) <= NormTaken(c)
         /\ QcTaken(c) <= QcQrDone(c)
         /\ cube[c].step - 1 <= QcTaken(c)
BY StepFacts DEF TypeInv, CubePlaces, CubeCount, CqDone, CkvKrDone, NormTaken, QcQrDone, QcTaken

LEMMA VecOrder ==
  ASSUME TypeInv, NEW v \in Vecs
  PROVE  /\ vec[v].step \in Int /\ 1 <= vec[v].step /\ vec[v].step <= StepNum
         /\ {CqTaken(v), Normalized(v), NormShared(v), CkvKrTaken(v), Scattered(v), QcQrTaken(v),
             Dequanted(v), QcShared(v), Roped(v)} \subseteq Int
         /\ CqTaken(v) <= vec[v].step
         /\ Normalized(v) <= CqTaken(v)
         /\ NormShared(v) <= Normalized(v)
         /\ CkvKrTaken(v) <= NormShared(v)
         /\ Scattered(v) <= CkvKrTaken(v)
         /\ QcQrTaken(v) <= Scattered(v)
         /\ Dequanted(v) <= QcQrTaken(v)
         /\ QcShared(v) <= Dequanted(v)
         /\ Roped(v) <= QcShared(v)
         /\ vec[v].step - 1 <= Roped(v)
BY StepFacts DEF TypeInv, VecPlaces, VecCount, CqTaken, Normalized, NormShared, CkvKrTaken,
   Scattered, QcQrTaken, Dequanted, QcShared, Roped

(* Blocks and heads are counted up to those there are.                     *)
LEMMA CubeBounds ==
  ASSUME TypeInv, NEW c \in Cubes, CubePlace(c)
  PROVE  BlocksDone(c) \in 0 .. Blocks(c) /\ HeadsDone(c) \in 0 .. Heads(c)
BY HeadFacts DEF TypeInv, CubePlaces, CubePlace, CubeAt, BlocksDone, HeadsDone

LEMMA VecBounds ==
  ASSUME TypeInv, NEW v \in Vecs, VecPlace(v)
  PROVE  /\ HeadsReady(v) \in 0 .. Heads(CubeOf(v))
         /\ SplitN => BlocksTaken(v) \in 0 .. Blocks(CubeOf(v))
         /\ HeadsTaken(v) \in 0 .. Heads(CubeOf(v))
<1>1. CubeOf(v) \in Cubes
  BY CoreFacts
<1>2. vec[v].idx \in Nat /\ vec[v].at \in VecPlaces
  BY DEF TypeInv
<1>3. HeadsWithin(CubeOf(v), vec[v].idx) \in 0 .. Heads(CubeOf(v))
  BY <1>1, <1>2, HeadsWithinFacts
<1>4. Heads(CubeOf(v)) \in Nat /\ Blocks(CubeOf(v)) \in Nat
  BY <1>1, HeadFacts
<1> QED
  BY <1>2, <1>3, <1>4 DEF VecPlaces, VecPlace, VecAt, BlocksTaken, HeadsReady, HeadsTaken

(* What the flags say of a cube core and a vector core of its own: each    *)
(* hands over before the other takes, and is at most one step ahead.       *)
LEMMA PairOrder ==
  ASSUME TypeInv, NEW c \in Cubes, NEW v \in Vecs, FlagsOf(v, c)
  PROVE  /\ CqTaken(v) <= CqDone(c)
         /\ ~SplitN => QcQrTaken(v) <= QcQrDone(c)
         /\ CkvKrTaken(v) <= CkvKrDone(c)
         /\ NormTaken(c) <= NormShared(v)
         /\ Dequant => QcTaken(c) <= QcShared(v)
         /\ cube[c].step <= vec[v].step + 1
         /\ vec[v].step <= cube[c].step + 1
<1>1. toVec[v][4] >= 0 /\ toVec[v][6] >= 0 /\ toCube[v][6] >= 0
  BY DEF TypeInv
<1>2. /\ toVec[v][4] = CkvKrDone(c) - CkvKrTaken(v)
      /\ toVec[v][6] =
           CqDone(c) - CqTaken(v) + (IF SplitN THEN 0 ELSE QcQrDone(c) - QcQrTaken(v))
      /\ toCube[v][6] =
           NormShared(v) - NormTaken(c) + (IF Dequant THEN QcShared(v) - QcTaken(c) ELSE 0)
  BY DEF FlagsOf
<1> QED
  BY <1>1, <1>2, CubeOrder, VecOrder

(* Who has reached as many barriers has reached each as often.             *)
LEMMA ArrivedOrder ==
  ASSUME TypeInv, NEW v \in Vecs, NEW w \in Vecs, VecArrive(v), VecArrive(w),
         vecArrived[w] >= vecArrived[v]
  PROVE  /\ CqTaken(v) <= CqTaken(w)
         /\ Normalized(v) <= Normalized(w)
         /\ CkvKrTaken(v) <= CkvKrTaken(w)
         /\ ~SplitN => QcQrTaken(v) <= QcQrTaken(w)
         /\ Dequant => Dequanted(v) <= Dequanted(w)
         /\ ~SplitN /\ launch.quantQn => Roped(v) <= Roped(w)
<1>1. Dequant => ~SplitN
  BY DEF Dequant, SplitN
<1> QED
  BY <1>1, VecOrder DEF VecArrive

(***************************************************************************)
(* What the flags and their waits do.                                      *)
(***************************************************************************)
LEMMA SetForVecsFacts ==
  ASSUME toVec \in [Vecs -> [VecFlags -> Nat]], NEW c \in Cubes, NEW f \in VecFlags,
         SetForVecs(c, f)
  PROVE  /\ toVec' \in [Vecs -> [VecFlags -> Nat]]
         /\ \A v \in Vecs : CubeOf(v) # c => toVec'[v] = toVec[v]
         /\ \A v \in Vecs : CubeOf(v) = c =>
              /\ toVec'[v][f] = toVec[v][f] + 1
              /\ \A g \in VecFlags \ {f} : toVec'[v][g] = toVec[v][g]
BY DEF SetForVecs

LEMMA WaitForVecsFacts ==
  ASSUME toCube \in [Vecs -> [CubeFlags -> Nat]], NEW c \in Cubes, NEW f \in CubeFlags,
         WaitForVecs(c, f)
  PROVE  /\ toCube' \in [Vecs -> [CubeFlags -> Nat]]
         /\ \A v \in Vecs : CubeOf(v) # c => toCube'[v] = toCube[v]
         /\ \A v \in Vecs : CubeOf(v) = c =>
              /\ toCube[v][f] > 0
              /\ toCube'[v][f] = toCube[v][f] - 1
              /\ \A g \in CubeFlags \ {f} : toCube'[v][g] = toCube[v][g]
<1>1. \A v \in Vecs : CubeOf(v) = c => toCube[v][f] > 0
  BY DEF WaitForVecs, FlagFromVecs, VecsOf
<1>2. toCube' = [v \in Vecs |-> IF CubeOf(v) = c THEN [toCube[v] EXCEPT ![f] = @ - 1]
                                                  ELSE toCube[v]]
  BY DEF WaitForVecs
<1> QED  BY <1>1, <1>2

LEMMA SetForCubeFacts ==
  ASSUME toCube \in [Vecs -> [CubeFlags -> Nat]], NEW v \in Vecs, NEW f \in CubeFlags,
         NEW n \in Nat, SetForCube(v, f, n)
  PROVE  /\ toCube' \in [Vecs -> [CubeFlags -> Nat]]
         /\ \A w \in Vecs \ {v} : toCube'[w] = toCube[w]
         /\ toCube'[v][f] = toCube[v][f] + n
         /\ \A g \in CubeFlags \ {f} : toCube'[v][g] = toCube[v][g]
BY DEF SetForCube

LEMMA WaitForCubeFacts ==
  ASSUME toVec \in [Vecs -> [VecFlags -> Nat]], NEW v \in Vecs, NEW f \in VecFlags,
         WaitForCube(v, f)
  PROVE  /\ toVec' \in [Vecs -> [VecFlags -> Nat]]
         /\ \A w \in Vecs \ {v} : toVec'[w] = toVec[w]
         /\ toVec[v][f] > 0
         /\ toVec'[v][f] = toVec[v][f] - 1
         /\ \A g \in VecFlags \ {f} : toVec'[v][g] = toVec[v][g]
BY DEF WaitForCube
(***************************************************************************)
(* A step of one core leaves the others as they are.  What is left to show *)
(* of it is the part of the invariant that is about the core itself.       *)
(***************************************************************************)
CubeSame(c) ==
  /\ CqDone(c)' = CqDone(c) /\ CkvKrDone(c)' = CkvKrDone(c) /\ NormTaken(c)' = NormTaken(c)
  /\ QcQrDone(c)' = QcQrDone(c) /\ QcTaken(c)' = QcTaken(c) /\ AtEnd(c)' = AtEnd(c)
  /\ BlocksDone(c)' = BlocksDone(c) /\ HeadsDone(c)' = HeadsDone(c)

LEMMA CubeFrame ==
  ASSUME NEW c \in Cubes, launch' = launch, cube'[c] = cube[c]
  PROVE  CubeSame(c)
BY DEF CubeSame, CubeCount, CqDone, CkvKrDone, NormTaken, QcQrDone, QcTaken, AtEnd, BlocksDone,
   HeadsDone, Blocks, SplitN

VecSame(v) ==
  /\ CqTaken(v)' = CqTaken(v) /\ Normalized(v)' = Normalized(v)
  /\ NormShared(v)' = NormShared(v) /\ CkvKrTaken(v)' = CkvKrTaken(v)
  /\ Scattered(v)' = Scattered(v) /\ QcQrTaken(v)' = QcQrTaken(v)
  /\ Dequanted(v)' = Dequanted(v) /\ QcShared(v)' = QcShared(v) /\ Roped(v)' = Roped(v)
  /\ BlocksTaken(v)' = BlocksTaken(v) /\ HeadsReady(v)' = HeadsReady(v)
  /\ HeadsTaken(v)' = HeadsTaken(v)

LEMMA VecFrame ==
  ASSUME NEW v \in Vecs, launch' = launch, vec'[v] = vec[v]
  PROVE  VecSame(v)
<1>1. Blocks(CubeOf(v))' = Blocks(CubeOf(v))
  BY DEF Blocks, SplitN
<1>2. HeadsWithin(CubeOf(v), vec[v].idx)' = HeadsWithin(CubeOf(v), vec[v].idx)
  BY DEF HeadsWithin
<1> QED
  BY <1>1, <1>2 DEF VecSame, VecCount, CqTaken, Normalized, NormShared, CkvKrTaken, Scattered,
     QcQrTaken, Dequanted, QcShared, Roped, BlocksTaken, HeadsReady, HeadsTaken

LEMMA LeadFrame ==
  ASSUME NEW c \in Cubes, NEW v \in Vecs, launch' = launch,
         cube'[c].step = cube[c].step, vec'[v].step = vec[v].step
  PROVE  BlockLead(v, c)' = BlockLead(v, c) /\ HeadLead(v, c)' = HeadLead(v, c)
BY DEF BlockLead, HeadLead, Lead, Blocks, SplitN

LEMMA LeadFacts ==
  ASSUME NEW c \in Cubes, NEW v \in Vecs
  PROVE  BlockLead(v, c) \in Int /\ HeadLead(v, c) \in Int
BY HeadFacts DEF BlockLead, HeadLead, Lead

CubeMoves(c) ==
  /\ UNCHANGED <<launch, vec, vecArrived, rmsNormCqRes, mmQcQrResDequant, qrOut>>
  /\ \A d \in Cubes \ {c} :
       /\ cube'[d] = cube[d] /\ cubeArrived'[d] = cubeArrived[d]
       /\ mmCqRes'[d] = mmCqRes[d] /\ mmCkvKrRes'[d] = mmCkvKrRes[d]
       /\ mmQcQrRes'[d] = mmQcQrRes[d] /\ mmQnRes'[d] = mmQnRes[d]
  /\ \A v \in Vecs : CubeOf(v) # c => toVec'[v] = toVec[v] /\ toCube'[v] = toCube[v]

LEMMA CubeMovesKeep ==
  ASSUME IInv, NEW c \in Cubes, CubeMoves(c), TypeInv', CubeInv(c)',
         \A v \in Vecs : CubeOf(v) = c => FlagsOf(v, c)',
         Plain => QcQrDone(c) <= QcQrDone(c)' /\ \A d \in Cubes : QcTaken(c)' <= QcQrDone(d)
  PROVE  IInv'
<1>1. launch' = launch /\ vec' = vec /\ \A d \in Cubes \ {c} : cube'[d] = cube[d]
  BY DEF CubeMoves
<1>2. \A d \in Cubes \ {c} : CubeSame(d)
  BY <1>1, CubeFrame
<1>3. \A v \in Vecs : VecSame(v)
  BY <1>1, VecFrame
<1>4. \A d \in Cubes : CubeInv(d)'
  <2> SUFFICES ASSUME NEW d \in Cubes \ {c} PROVE CubeInv(d)'
    OBVIOUS
  <2>1. CubeInv(d)
    BY DEF IInv
  <2>2. CubePlace(d)'
    BY <1>1, <2>1 DEF CubeInv, CubePlace, CubeAt, Blocks, SplitN
  <2>3. CubeArrive(d)'
    BY <1>1, <1>2, <2>1 DEF CubeInv, CubeArrive, CubeSame, CubeMoves, Plain
  <2>4. CubeData(d)'
    <3>1. Blocks(d)' = Blocks(d)
      BY <1>1 DEF Blocks, SplitN
    <3> QED
      BY <1>1, <1>2, <2>1, <3>1 DEF CubeInv, CubeData, CubeSame, CubeMoves, Filled
  <2> QED  BY <2>2, <2>3, <2>4 DEF CubeInv
<1>5. \A v \in Vecs : VecInv(v)'
  <2> SUFFICES ASSUME NEW v \in Vecs PROVE VecInv(v)'
    OBVIOUS
  <2>1. VecInv(v)
    BY DEF IInv
  <2>2. VecPlace(v)'
    BY <1>1, <2>1 DEF VecInv, VecPlace, VecAt, Blocks, SplitN, Dequant
  <2>3. VecArrive(v)'
    BY <1>1, <1>3, <2>1 DEF VecInv, VecArrive, VecSame, CubeMoves, SplitN, Dequant
  <2>4. VecData(v)'
    BY <1>1, <1>3, <2>1 DEF VecInv, VecData, VecSame, CubeMoves, SplitN, Dequant, Filled
  <2> QED  BY <2>2, <2>3, <2>4 DEF VecInv
<1>6. \A d \in Cubes, v \in Vecs : CubeOf(v) = d => FlagsOf(v, d)'
  <2> SUFFICES ASSUME NEW d \in Cubes \ {c}, NEW v \in Vecs, CubeOf(v) = d PROVE FlagsOf(v, d)'
    OBVIOUS
  <2>1. FlagsOf(v, d)
    BY DEF IInv
  <2>2. toVec'[v] = toVec[v] /\ toCube'[v] = toCube[v] /\ Blocks(d)' = Blocks(d)
    BY <1>1 DEF CubeMoves, Blocks, SplitN
  <2> QED
    BY <1>1, <1>2, <1>3, <2>1, <2>2 DEF FlagsOf, CubeSame, VecSame, Lead, BlockLead,
       HeadLead, SplitN, Dequant
<1>7. \A d, e \in Cubes : CubeBarrier(d, e)'
  <2>1. \A d, e \in Cubes : CubeBarrier(d, e)
    BY DEF IInv
  <2>2. \A d \in Cubes : QcQrDone(d) \in Int /\ QcTaken(d) \in Int
    BY CubeOrder DEF IInv
  <2>3. QcQrDone(c)' \in Int
    <3>1. cube'[c].step \in Int
      BY StepFacts DEF TypeInv
    <3> QED  BY <3>1 DEF QcQrDone, CubeCount
  <2>4. Plain' <=> Plain
    BY <1>1 DEF Plain
  <2>5. \A e \in Cubes : Plain => QcQrDone(e) <= QcQrDone(e)' /\ QcQrDone(e)' \in Int
    BY <1>2, <2>2, <2>3 DEF CubeSame
  <2>6. \A d, e \in Cubes : Plain => QcTaken(d)' <= QcQrDone(e) /\ QcTaken(d)' \in Int
    <3>1. cube'[c].step \in Int
      BY StepFacts DEF TypeInv
    <3>2. QcTaken(c)' \in Int
      BY <3>1 DEF QcTaken, CubeCount
    <3> QED  BY <1>2, <2>1, <2>2, <3>2 DEF CubeBarrier, CubeSame
  <2> QED  BY <2>2, <2>4, <2>5, <2>6 DEF CubeBarrier
<1>8. \A v, w \in Vecs : VecBarrier(v, w)'
  <2>1. \A v, w \in Vecs : VecBarrier(v, w)
    BY DEF IInv
  <2> QED  BY <1>1, <1>3, <2>1 DEF VecBarrier, VecSame, Dequant, Plain
<1> QED  BY <1>4, <1>5, <1>6, <1>7, <1>8 DEF IInv

VecMoves(v) ==
  /\ UNCHANGED <<launch, cube, cubeArrived, mmCqRes, mmCkvKrRes, mmQcQrRes, mmQnRes>>
  /\ \A w \in Vecs \ {v} :
       /\ vec'[w] = vec[w] /\ toVec'[w] = toVec[w] /\ toCube'[w] = toCube[w]
       /\ vecArrived'[w] = vecArrived[w] /\ rmsNormCqRes'[w] = rmsNormCqRes[w]
       /\ mmQcQrResDequant'[w] = mmQcQrResDequant[w] /\ qrOut'[w] = qrOut[w]

(* The counts others rely on do not go back.                               *)
VecAdvances(v) ==
  /\ CqTaken(v) <= CqTaken(v)' /\ Normalized(v) <= Normalized(v)'
  /\ CkvKrTaken(v) <= CkvKrTaken(v)' /\ QcQrTaken(v) <= QcQrTaken(v)'
  /\ Dequanted(v) <= Dequanted(v)'

(* What it has passed all others have reached.                             *)
VecPassed(v) ==
  \A w \in Vecs :
    /\ Normalized(v)' <= CqTaken(w)
    /\ NormShared(v)' <= Normalized(w)
    /\ Scattered(v)' <= CkvKrTaken(w)
    /\ Dequant => Dequanted(v)' <= QcQrTaken(w)
    /\ Dequant => QcShared(v)' <= Dequanted(w)
    /\ Plain => Roped(v)' <= QcQrTaken(w)

LEMMA VecMovesKeep ==
  ASSUME IInv, NEW v \in Vecs, NEW c \in Cubes, CubeOf(v) = c, VecMoves(v), TypeInv',
         VecInv(v)', FlagsOf(v, c)', VecAdvances(v), VecPassed(v)
  PROVE  IInv'
<1>1. launch' = launch /\ cube' = cube /\ \A w \in Vecs \ {v} : vec'[w] = vec[w]
  BY DEF VecMoves
<1>2. \A d \in Cubes : CubeSame(d)
  BY <1>1, CubeFrame
<1>3. \A w \in Vecs \ {v} : VecSame(w)
  BY <1>1, VecFrame
<1>4. \A d \in Cubes : CubeInv(d)'
  <2> SUFFICES ASSUME NEW d \in Cubes PROVE CubeInv(d)'
    OBVIOUS
  <2>1. CubeInv(d) /\ Blocks(d)' = Blocks(d)
    BY <1>1 DEF IInv, Blocks, SplitN
  <2>2. CubePlace(d)'
    BY <1>1, <2>1 DEF CubeInv, CubePlace, CubeAt, SplitN
  <2>3. CubeArrive(d)'
    BY <1>1, <1>2, <2>1 DEF CubeInv, CubeArrive, CubeSame, VecMoves, Plain
  <2>4. CubeData(d)'
    BY <1>1, <1>2, <2>1 DEF CubeInv, CubeData, CubeSame, VecMoves, Filled
  <2> QED  BY <2>2, <2>3, <2>4 DEF CubeInv
<1>5. \A w \in Vecs : VecInv(w)'
  <2> SUFFICES ASSUME NEW w \in Vecs \ {v} PROVE VecInv(w)'
    OBVIOUS
  <2>1. VecInv(w)
    BY DEF IInv
  <2>2. VecPlace(w)'
    BY <1>1, <2>1 DEF VecInv, VecPlace, VecAt, Blocks, SplitN, Dequant
  <2>3. VecArrive(w)'
    BY <1>1, <1>3, <2>1 DEF VecInv, VecArrive, VecSame, VecMoves, SplitN, Dequant
  <2>4. VecData(w)'
    BY <1>1, <1>3, <2>1 DEF VecInv, VecData, VecSame, VecMoves, SplitN, Dequant, Filled
  <2> QED  BY <2>2, <2>3, <2>4 DEF VecInv
<1>6. \A d \in Cubes, w \in Vecs : CubeOf(w) = d => FlagsOf(w, d)'
  <2> SUFFICES ASSUME NEW d \in Cubes, NEW w \in Vecs \ {v}, CubeOf(w) = d PROVE FlagsOf(w, d)'
    OBVIOUS
  <2>1. FlagsOf(w, d)
    BY DEF IInv
  <2>2. toVec'[w] = toVec[w] /\ toCube'[w] = toCube[w] /\ Blocks(d)' = Blocks(d)
    BY <1>1 DEF VecMoves, Blocks, SplitN
  <2> QED
    BY <1>1, <1>2, <1>3, <2>1, <2>2 DEF FlagsOf, CubeSame, VecSame, Lead, BlockLead,
       HeadLead, SplitN, Dequant
<1>7. \A d, e \in Cubes : CubeBarrier(d, e)'
  <2>1. \A d, e \in Cubes : CubeBarrier(d, e)
    BY DEF IInv
  <2> QED  BY <1>1, <1>2, <2>1 DEF CubeBarrier, CubeSame, Plain
<1>8. \A u, w \in Vecs : VecBarrier(u, w)'
  <2>1. \A u, w \in Vecs : VecBarrier(u, w)
    BY DEF IInv
  <2>2. vec'[v].step \in Int
    BY StepFacts DEF TypeInv
  <2>3. {CqTaken(v)', Normalized(v)', NormShared(v)', CkvKrTaken(v)', Scattered(v)', QcQrTaken(v)',
         Dequanted(v)', QcShared(v)', Roped(v)'} \subseteq Int
    BY <2>2 DEF VecCount, CqTaken, Normalized, NormShared, CkvKrTaken, Scattered, QcQrTaken,
       Dequanted, QcShared, Roped
  <2>4. \A w \in Vecs : {CqTaken(w), Normalized(w), NormShared(w), CkvKrTaken(w), Scattered(w),
                         QcQrTaken(w), Dequanted(w), QcShared(w), Roped(w)} \subseteq Int
    BY VecOrder DEF IInv
  <2>5. (Dequant' <=> Dequant) /\ (Plain' <=> Plain)
    BY <1>1 DEF Dequant, Plain
  <2>6. \A w \in Vecs : VecAdvances(w)
    <3> SUFFICES ASSUME NEW w \in Vecs \ {v} PROVE VecAdvances(w)
      OBVIOUS
    <3> QED  BY <1>3, <2>4 DEF VecAdvances, VecSame
  <2>7. \A u \in Vecs : VecPassed(u)
    <3> SUFFICES ASSUME NEW u \in Vecs \ {v} PROVE VecPassed(u)
      OBVIOUS
    <3> QED  BY <1>3, <2>1 DEF VecPassed, VecSame, VecBarrier
  <2>8. \A w \in Vecs : {CqTaken(w)', Normalized(w)', NormShared(w)', CkvKrTaken(w)', Scattered(w)',
                         QcQrTaken(w)', Dequanted(w)', QcShared(w)', Roped(w)'} \subseteq Int
    BY <1>3, <2>3, <2>4 DEF VecSame
  <2> SUFFICES ASSUME NEW u \in Vecs, NEW w \in Vecs PROVE VecBarrier(u, w)'
    OBVIOUS
  <2>9. VecPassed(u) /\ VecAdvances(w)
    BY <2>6, <2>7
  <2> QED  BY <2>4, <2>5, <2>8, <2>9 DEF VecBarrier, VecPassed, VecAdvances
<1> QED  BY <1>4, <1>5, <1>6, <1>7, <1>8 DEF IInv
(***************************************************************************)
(* Steps of a cube core.                                                   *)
(***************************************************************************)

(* What every step of a cube core may use.                                 *)
LEMMA CubeStepFacts ==
  ASSUME IInv, NEW c \in Cubes
  PROVE  /\ TypeInv /\ CubeInv(c) /\ launch \in [branch : Branches, quantQn : BOOLEAN]
         /\ cube[c] \in [at : CubePlaces, step : 1 .. StepNum, idx : Nat]
         /\ Heads(c) \in Nat /\ Blocks(c) \in Nat
         /\ \A v \in Vecs : CubeOf(v) = c => FlagsOf(v, c)
BY HeadFacts, CoresAssumption DEF IInv, TypeInv

LEMMA MatmulCqKeeps ==
  ASSUME IInv, NEW c \in Cubes, MatmulCq(c)
  PROVE  IInv'
<1>1. /\ TypeInv /\ CubeInv(c) /\ Heads(c) \in Nat /\ Blocks(c) \in Nat
      /\ \A v \in Vecs : CubeOf(v) = c => FlagsOf(v, c)
  BY CubeStepFacts
<1>2. cube[c].at = "MatmulCq" /\ cube'[c] = Core("MatmulCkvKr", cube[c].step, 0)
  BY <1>1 DEF TypeInv, MatmulCq, CubeAt, CubeGoes
<1>3. SetForVecs(c, 6)
  BY DEF MatmulCq
<1>4. CubeMoves(c)
  BY <1>1, <1>3, SetForVecsFacts DEF CubeMoves, MatmulCq, CubeGoes, TypeInv
<1>5. TypeInv'
  BY <1>1, <1>3, SetForVecsFacts DEF TypeInv, CubePlaces, MatmulCq, CubeGoes, Core
<1>6. Blocks(c)' = Blocks(c)
  BY DEF MatmulCq, Blocks, SplitN
<1>7. /\ CqDone(c)' = CqDone(c) + 1 /\ CqDone(c)' = cube[c].step
      /\ CkvKrDone(c)' = CkvKrDone(c) /\ NormTaken(c)' = NormTaken(c)
      /\ QcQrDone(c)' = QcQrDone(c) /\ QcTaken(c)' = QcTaken(c) /\ AtEnd(c)' = AtEnd(c)
      /\ BlocksDone(c)' = BlocksDone(c) /\ HeadsDone(c)' = HeadsDone(c)
  BY <1>1, <1>2, CubeOrder DEF Core, CubeCount, CqDone, CkvKrDone, NormTaken, QcQrDone, QcTaken,
     AtEnd, BlocksDone, HeadsDone
<1>8. CubeInv(c)'
  BY <1>1, <1>2, <1>6, <1>7 DEF CubeInv, CubePlace, CubeArrive, CubeData, CubeAt, Core, Filled,
     MatmulCq, TypeInv, Plain
<1>9. ASSUME NEW v \in Vecs, CubeOf(v) = c PROVE FlagsOf(v, c)'
  <2>1. VecSame(v)
    BY VecFrame DEF MatmulCq
  <2>2. FlagsOf(v, c) /\ {CqDone(c), CqTaken(v)} \subseteq Int
    BY <1>1, <1>9, CubeOrder, VecOrder
  <2>3. BlockLead(v, c)' = BlockLead(v, c) /\ HeadLead(v, c)' = HeadLead(v, c)
    BY <1>2, LeadFrame DEF Core, MatmulCq
  <2>4. /\ toVec'[v][6] = toVec[v][6] + 1
        /\ \A g \in {4, 8, 10} : toVec'[v][g] = toVec[v][g]
    BY <1>1, <1>3, <1>9, SetForVecsFacts DEF TypeInv
  <2> QED
    BY <1>7, <2>1, <2>2, <2>3, <2>4, CubeOrder, VecOrder, <1>1
    DEF FlagsOf, VecSame, SplitN, Dequant, MatmulCq
<1> QED
  <2>1. \A d \in Cubes : CubeBarrier(c, d)
    BY DEF IInv
  <2> QED
    BY <1>4, <1>5, <1>7, <1>8, <1>9, <2>1, CubeMovesKeep, CubeOrder, <1>1 DEF CubeBarrier
LEMMA MatmulCkvKrKeeps ==
  ASSUME IInv, NEW c \in Cubes, MatmulCkvKr(c)
  PROVE  IInv'
<1>1. /\ TypeInv /\ CubeInv(c) /\ Heads(c) \in Nat /\ Blocks(c) \in Nat
      /\ \A v \in Vecs : CubeOf(v) = c => FlagsOf(v, c)
  BY CubeStepFacts
<1>2. cube[c].at = "MatmulCkvKr" /\ cube'[c] = Core("WaitNorm", cube[c].step, 0)
  BY <1>1 DEF TypeInv, MatmulCkvKr, CubeAt, CubeGoes
<1>3. WaitForVecs(c, 9) /\ SetForVecs(c, 4)
  BY DEF MatmulCkvKr
<1>4. CubeMoves(c)
  BY <1>1, <1>3, SetForVecsFacts, WaitForVecsFacts DEF CubeMoves, MatmulCkvKr, CubeGoes, TypeInv
<1>5. TypeInv'
  BY <1>1, <1>3, SetForVecsFacts, WaitForVecsFacts
  DEF TypeInv, CubePlaces, MatmulCkvKr, CubeGoes, Core
<1>6. Blocks(c)' = Blocks(c)
  BY DEF MatmulCkvKr, Blocks, SplitN
<1>7. /\ CkvKrDone(c)' = CkvKrDone(c) + 1 /\ CkvKrDone(c)' = cube[c].step
      /\ CqDone(c)' = CqDone(c) /\ NormTaken(c)' = NormTaken(c)
      /\ QcQrDone(c)' = QcQrDone(c) /\ QcTaken(c)' = QcTaken(c) /\ AtEnd(c)' = AtEnd(c)
      /\ BlocksDone(c)' = BlocksDone(c) /\ HeadsDone(c)' = HeadsDone(c)
  BY <1>1, <1>2, CubeOrder DEF Core, CubeCount, CqDone, CkvKrDone, NormTaken, QcQrDone, QcTaken,
     AtEnd, BlocksDone, HeadsDone
<1>8. CubeInv(c)'
  BY <1>1, <1>2, <1>6, <1>7 DEF CubeInv, CubePlace, CubeArrive, CubeData, CubeAt, Core, Filled,
     MatmulCkvKr, TypeInv, Plain
<1>9. ASSUME NEW v \in Vecs, CubeOf(v) = c PROVE FlagsOf(v, c)'
  <2>1. VecSame(v)
    BY VecFrame DEF MatmulCkvKr
  <2>2. FlagsOf(v, c) /\ AtEnd(c) \in Int
    BY <1>1, <1>9 DEF AtEnd
  <2>3. BlockLead(v, c)' = BlockLead(v, c) /\ HeadLead(v, c)' = HeadLead(v, c)
    BY <1>2, LeadFrame DEF Core, MatmulCkvKr
  <2>4. /\ toVec'[v][4] = toVec[v][4] + 1
        /\ \A g \in {6, 8, 10} : toVec'[v][g] = toVec[v][g]
    BY <1>1, <1>3, <1>9, SetForVecsFacts DEF TypeInv
  <2>5. /\ toCube'[v][9] = toCube[v][9] - 1
        /\ \A g \in {6, 7} : toCube'[v][g] = toCube[v][g]
    BY <1>1, <1>3, <1>9, WaitForVecsFacts DEF TypeInv
  <2> QED
    BY <1>1, <1>7, <2>1, <2>2, <2>3, <2>4, <2>5, CubeOrder, VecOrder
    DEF FlagsOf, VecSame, SplitN, Dequant, MatmulCkvKr
<1> QED
  <2>1. \A d \in Cubes : CubeBarrier(c, d)
    BY DEF IInv
  <2> QED
    BY <1>1, <1>4, <1>5, <1>7, <1>8, <1>9, <2>1, CubeMovesKeep, CubeOrder DEF CubeBarrier

LEMMA WaitNormKeeps ==
  ASSUME IInv, NEW c \in Cubes, WaitNorm(c)
  PROVE  IInv'
<1>1. /\ TypeInv /\ CubeInv(c) /\ Heads(c) \in Nat /\ Blocks(c) \in Nat
      /\ \A v \in Vecs : CubeOf(v) = c => FlagsOf(v, c)
  BY CubeStepFacts
<1>2. cube[c].at = "WaitNorm" /\ cube'[c] = Core("MatmulQcQr", cube[c].step, 0)
  BY <1>1 DEF TypeInv, WaitNorm, CubeAt, CubeGoes
<1>3. WaitForVecs(c, 6)
  BY DEF WaitNorm
<1>4. CubeMoves(c)
  BY <1>1, <1>3, WaitForVecsFacts DEF CubeMoves, WaitNorm, CubeGoes, TypeInv
<1>5. TypeInv'
  BY <1>1, <1>3, WaitForVecsFacts DEF TypeInv, CubePlaces, WaitNorm, CubeGoes, Core
<1>6. Blocks(c)' = Blocks(c)
  BY DEF WaitNorm, Blocks, SplitN
<1>7. /\ NormTaken(c)' = NormTaken(c) + 1
      /\ CqDone(c)' = CqDone(c) /\ CkvKrDone(c)' = CkvKrDone(c)
      /\ QcQrDone(c)' = QcQrDone(c) /\ QcTaken(c)' = QcTaken(c) /\ AtEnd(c)' = AtEnd(c)
      /\ BlocksDone(c)' = BlocksDone(c) /\ HeadsDone(c)' = HeadsDone(c)
  BY <1>1, <1>2, CubeOrder DEF Core, CubeCount, CqDone, CkvKrDone, NormTaken, QcQrDone, QcTaken,
     AtEnd, BlocksDone, HeadsDone
<1>8. CubeInv(c)'
  BY <1>1, <1>2, <1>6, <1>7 DEF CubeInv, CubePlace, CubeArrive, CubeData, CubeAt, Core, Filled,
     WaitNorm, TypeInv, Plain
<1>9. ASSUME NEW v \in Vecs, CubeOf(v) = c PROVE FlagsOf(v, c)'
  <2>1. VecSame(v)
    BY VecFrame DEF WaitNorm
  <2>2. FlagsOf(v, c)
    BY <1>1, <1>9
  <2>3. BlockLead(v, c)' = BlockLead(v, c) /\ HeadLead(v, c)' = HeadLead(v, c)
    BY <1>2, LeadFrame DEF Core, WaitNorm
  <2>4. /\ toCube'[v][6] = toCube[v][6] - 1
        /\ \A g \in {7, 9} : toCube'[v][g] = toCube[v][g]
    BY <1>1, <1>3, <1>9, WaitForVecsFacts DEF TypeInv
  <2> QED
    BY <1>1, <1>7, <2>1, <2>2, <2>3, <2>4, CubeOrder, VecOrder
    DEF FlagsOf, VecSame, SplitN, Dequant, WaitNorm
<1> QED
  <2>1. \A d \in Cubes : CubeBarrier(c, d)
    BY DEF IInv
  <2> QED
    BY <1>1, <1>4, <1>5, <1>7, <1>8, <1>9, <2>1, CubeMovesKeep, CubeOrder DEF CubeBarrier

LEMMA MatmulQcQrKeeps ==
  ASSUME IInv, NEW c \in Cubes, MatmulQcQr(c)
  PROVE  IInv'
<1>1. /\ TypeInv /\ CubeInv(c) /\ Heads(c) \in Nat /\ Blocks(c) \in Nat
      /\ \A v \in Vecs : CubeOf(v) = c => FlagsOf(v, c)
  BY CubeStepFacts
<1>2. /\ cube[c].at = "MatmulQcQr" /\ cube[c].idx < Blocks(c)
      /\ cube'[c] = Core("MatmulQcQr", cube[c].step, cube[c].idx + 1)
  BY <1>1 DEF TypeInv, MatmulQcQr, CubeAt, CubeGoes
<1>3. IF SplitN THEN SetForVecs(c, 10) ELSE toVec' = toVec
  BY DEF MatmulQcQr
<1>4. CubeMoves(c)
  BY <1>1, <1>3, SetForVecsFacts DEF CubeMoves, MatmulQcQr, CubeGoes, TypeInv
<1>5. TypeInv'
  <2>1. toVec' \in [Vecs -> [VecFlags -> Nat]]
    BY <1>1, <1>3, SetForVecsFacts DEF TypeInv
  <2>2. cube[c].idx + 1 \in Nat /\ cube[c].step \in Int
    BY <1>1 DEF TypeInv
  <2> QED
    BY <1>1, <2>1, <2>2 DEF TypeInv, CubePlaces, MatmulQcQr, CubeGoes, Core
<1>6. Blocks(c)' = Blocks(c)
  BY DEF MatmulQcQr, Blocks, SplitN
<1>7. /\ BlocksDone(c)' = BlocksDone(c) + 1 /\ BlocksDone(c)' = cube[c].idx + 1
      /\ CqDone(c)' = CqDone(c) /\ CkvKrDone(c)' = CkvKrDone(c) /\ NormTaken(c)' = NormTaken(c)
      /\ QcQrDone(c)' = QcQrDone(c) /\ QcTaken(c)' = QcTaken(c) /\ AtEnd(c)' = AtEnd(c)
      /\ HeadsDone(c)' = HeadsDone(c)
  BY <1>1, <1>2, CubeOrder DEF Core, CubeCount, CqDone, CkvKrDone, NormTaken, QcQrDone, QcTaken,
     AtEnd, BlocksDone, HeadsDone
<1>8. CubeInv(c)'
  <2>1. cube[c].idx \in Nat
    BY <1>1 DEF TypeInv
  <2> QED
    BY <1>1, <1>2, <1>6, <1>7, <2>1 DEF CubeInv, CubePlace, CubeArrive, CubeData, CubeAt, Core,
       Filled, MatmulQcQr, TypeInv, Plain
<1>9. ASSUME NEW v \in Vecs, CubeOf(v) = c PROVE FlagsOf(v, c)'
  <2>1. VecSame(v)
    BY VecFrame DEF MatmulQcQr
  <2>2. FlagsOf(v, c) /\ BlockLead(v, c) \in Int
    BY <1>1, <1>9, LeadFacts
  <2>3. BlockLead(v, c)' = BlockLead(v, c) /\ HeadLead(v, c)' = HeadLead(v, c)
    BY <1>2, LeadFrame DEF Core, MatmulQcQr
  <2>4. /\ toVec'[v][10] = IF SplitN THEN toVec[v][10] + 1 ELSE toVec[v][10]
        /\ \A g \in {4, 6, 8} : toVec'[v][g] = toVec[v][g]
    BY <1>1, <1>3, <1>9, SetForVecsFacts DEF TypeInv
  <2>5. SplitN => BlocksDone(c) \in Int /\ BlocksTaken(v) \in Int
    <3>1. VecPlace(v) /\ CubePlace(c) /\ Blocks(CubeOf(v)) = Blocks(c)
      BY <1>1, <1>9 DEF IInv, VecInv, CubeInv
    <3> QED  BY <1>1, <3>1, CubeBounds, VecBounds
  <2> QED
    BY <1>1, <1>7, <2>1, <2>2, <2>3, <2>4, <2>5
    DEF FlagsOf, VecSame, SplitN, Dequant, MatmulQcQr
<1> QED
  <2>1. \A d \in Cubes : CubeBarrier(c, d)
    BY DEF IInv
  <2> QED
    BY <1>1, <1>4, <1>5, <1>7, <1>8, <1>9, <2>1, CubeMovesKeep, CubeOrder DEF CubeBarrier

LEMMA PreloadQnAndSyncKeeps ==
  ASSUME IInv, NEW c \in Cubes, PreloadQnAndSync(c)
  PROVE  IInv'
<1>1. /\ TypeInv /\ CubeInv(c) /\ Heads(c) \in Nat /\ Blocks(c) \in Nat
      /\ \A v \in Vecs : CubeOf(v) = c => FlagsOf(v, c)
  BY CubeStepFacts
<1>2. /\ cube[c].at = "MatmulQcQr" /\ cube[c].idx = Blocks(c)
      /\ cube'[c] = Core(IF SplitN THEN "MatmulQn" ELSE "WaitQc", cube[c].step, 0)
  BY <1>1 DEF TypeInv, PreloadQnAndSync, CubeAt, CubeGoes
<1>3. IF SplitN THEN toVec' = toVec ELSE SetForVecs(c, 6)
  BY DEF PreloadQnAndSync
<1>4. CubeMoves(c)
  BY <1>1, <1>3, SetForVecsFacts DEF CubeMoves, PreloadQnAndSync, CubeGoes, TypeInv, ArriveCube
<1>5. TypeInv'
  <2>1. toVec' \in [Vecs -> [VecFlags -> Nat]]
    BY <1>1, <1>3, SetForVecsFacts DEF TypeInv
  <2> QED
    BY <1>1, <2>1 DEF TypeInv, CubePlaces, PreloadQnAndSync, CubeGoes, Core, ArriveCube
<1>6. Blocks(c)' = Blocks(c)
  BY DEF PreloadQnAndSync, Blocks, SplitN
<1>7. /\ QcQrDone(c)' = QcQrDone(c) + 1
      /\ QcTaken(c)' = IF SplitN THEN QcTaken(c) + 1 ELSE QcTaken(c)
      /\ CqDone(c)' = CqDone(c) /\ CkvKrDone(c)' = CkvKrDone(c) /\ NormTaken(c)' = NormTaken(c)
      /\ AtEnd(c)' = AtEnd(c) /\ BlocksDone(c)' = BlocksDone(c) /\ HeadsDone(c)' = HeadsDone(c)
  BY <1>1, <1>2, <1>6, CubeOrder DEF Core, CubeCount, CqDone, CkvKrDone, NormTaken, QcQrDone,
     QcTaken, AtEnd, BlocksDone, HeadsDone
<1>8. CubeInv(c)'
  BY <1>1, <1>2, <1>6, <1>7 DEF CubeInv, CubePlace, CubeArrive, CubeData, CubeAt, Core, Filled,
     PreloadQnAndSync, TypeInv, Plain, ArriveCube, SplitN
<1>9. ASSUME NEW v \in Vecs, CubeOf(v) = c PROVE FlagsOf(v, c)'
  <2>1. VecSame(v)
    BY VecFrame DEF PreloadQnAndSync
  <2>2. FlagsOf(v, c)
    BY <1>1, <1>9
  <2>3. BlockLead(v, c)' = BlockLead(v, c) /\ HeadLead(v, c)' = HeadLead(v, c)
    BY <1>2, LeadFrame DEF Core, PreloadQnAndSync
  <2>4. /\ toVec'[v][6] = IF SplitN THEN toVec[v][6] ELSE toVec[v][6] + 1
        /\ \A g \in {4, 8, 10} : toVec'[v][g] = toVec[v][g]
    BY <1>1, <1>3, <1>9, SetForVecsFacts DEF TypeInv
  <2> QED
    BY <1>1, <1>7, <2>1, <2>2, <2>3, <2>4, CubeOrder, VecOrder
    DEF FlagsOf, VecSame, SplitN, Dequant, PreloadQnAndSync
<1> QED
  <2>1. \A d \in Cubes : CubeBarrier(c, d)
    BY DEF IInv
  <2> QED
    BY <1>1, <1>4, <1>5, <1>7, <1>8, <1>9, <2>1, CubeMovesKeep, CubeOrder
    DEF CubeBarrier, Plain, SplitN

LEMMA WaitQcKeeps ==
  ASSUME IInv, NEW c \in Cubes, WaitQc(c)
  PROVE  IInv'
<1>1. /\ TypeInv /\ CubeInv(c) /\ Heads(c) \in Nat /\ Blocks(c) \in Nat
      /\ \A v \in Vecs : CubeOf(v) = c => FlagsOf(v, c)
  BY CubeStepFacts
<1>2. cube[c].at = "WaitQc" /\ cube'[c] = Core("MatmulQn", cube[c].step, 0) /\ ~SplitN
  BY <1>1 DEF TypeInv, WaitQc, CubeAt, CubeGoes, CubeInv, CubePlace
<1>3. IF Dequant THEN WaitForVecs(c, 6) ELSE toCube' = toCube
  BY DEF WaitQc, Dequant
<1>4. CubeMoves(c)
  BY <1>1, <1>3, WaitForVecsFacts DEF CubeMoves, WaitQc, CubeGoes, TypeInv
<1>5. TypeInv'
  <2>1. toCube' \in [Vecs -> [CubeFlags -> Nat]]
    BY <1>1, <1>3, WaitForVecsFacts DEF TypeInv
  <2> QED
    BY <1>1, <2>1 DEF TypeInv, CubePlaces, WaitQc, CubeGoes, Core
<1>6. Blocks(c)' = Blocks(c)
  BY DEF WaitQc, Blocks, SplitN
<1>7. /\ QcTaken(c)' = QcTaken(c) + 1
      /\ CqDone(c)' = CqDone(c) /\ CkvKrDone(c)' = CkvKrDone(c) /\ NormTaken(c)' = NormTaken(c)
      /\ QcQrDone(c)' = QcQrDone(c) /\ AtEnd(c)' = AtEnd(c)
      /\ BlocksDone(c)' = BlocksDone(c) /\ HeadsDone(c)' = HeadsDone(c)
  BY <1>1, <1>2, <1>6, CubeOrder DEF Core, CubeCount, CqDone, CkvKrDone, NormTaken, QcQrDone,
     QcTaken, AtEnd, BlocksDone, HeadsDone
<1>8. CubeInv(c)'
  BY <1>1, <1>2, <1>6, <1>7 DEF CubeInv, CubePlace, CubeArrive, CubeData, CubeAt, Core, Filled,
     WaitQc, TypeInv, Plain
<1>9. ASSUME NEW v \in Vecs, CubeOf(v) = c PROVE FlagsOf(v, c)'
  <2>1. VecSame(v)
    BY VecFrame DEF WaitQc
  <2>2. FlagsOf(v, c)
    BY <1>1, <1>9
  <2>3. BlockLead(v, c)' = BlockLead(v, c) /\ HeadLead(v, c)' = HeadLead(v, c)
    BY <1>2, LeadFrame DEF Core, WaitQc
  <2>4. /\ toCube'[v][6] = IF Dequant THEN toCube[v][6] - 1 ELSE toCube[v][6]
        /\ \A g \in {7, 9} : toCube'[v][g] = toCube[v][g]
    BY <1>1, <1>3, <1>9, WaitForVecsFacts DEF TypeInv
  <2> QED
    BY <1>1, <1>7, <2>1, <2>2, <2>3, <2>4, CubeOrder, VecOrder
    DEF FlagsOf, VecSame, SplitN, Dequant, WaitQc
<1>10. Plain => \A d \in Cubes : QcTaken(c)' <= QcQrDone(d)
  <2> SUFFICES ASSUME Plain, NEW d \in Cubes PROVE QcTaken(c)' <= QcQrDone(d)
    OBVIOUS
  <2>1. cubeArrived[d] >= cubeArrived[c]
    BY DEF WaitQc, AllCubesArrived, Plain
  <2>2. cubeArrived[d] = QcQrDone(d) /\ cubeArrived[c] = QcQrDone(c)
    BY DEF IInv, CubeInv, CubeArrive
  <2>3. QcQrDone(c) = cube[c].step /\ QcTaken(c)' = cube[c].step
    BY <1>1, <1>2, CubeOrder DEF QcQrDone, QcTaken, CubeCount, Core
  <2> QED  BY <1>1, <1>7, <2>1, <2>2, <2>3, CubeOrder
<1> QED
  BY <1>1, <1>4, <1>5, <1>7, <1>8, <1>9, <1>10, CubeMovesKeep, CubeOrder
LEMMA MatmulQnKeeps ==
  ASSUME IInv, FewHeads, NEW c \in Cubes, MatmulQn(c)
  PROVE  IInv'
<1>1. /\ TypeInv /\ CubeInv(c) /\ Heads(c) \in Nat /\ Blocks(c) \in Nat
      /\ \A v \in Vecs : CubeOf(v) = c => FlagsOf(v, c)
  BY CubeStepFacts
<1>2. /\ cube[c].at = "MatmulQn" /\ cube[c].idx < Heads(c)
      /\ cube'[c] = Core("MatmulQn", cube[c].step, cube[c].idx + 1)
  BY <1>1 DEF TypeInv, MatmulQn, MayMatmulQn, CubeAt, CubeGoes
<1>3. /\ IF SplitN THEN WaitForVecs(c, 7) ELSE toCube' = toCube
      /\ IF launch.quantQn THEN SetForVecs(c, 8) ELSE toVec' = toVec
  BY DEF MatmulQn, WaitsForHead, Announced, FewHeads
<1>4. CubeMoves(c)
  BY <1>1, <1>3, SetForVecsFacts, WaitForVecsFacts DEF CubeMoves, MatmulQn, CubeGoes, TypeInv
<1>5. TypeInv'
  <2>1. toVec' \in [Vecs -> [VecFlags -> Nat]] /\ toCube' \in [Vecs -> [CubeFlags -> Nat]]
    BY <1>1, <1>3, SetForVecsFacts, WaitForVecsFacts DEF TypeInv
  <2>2. cube[c].idx + 1 \in Nat /\ cube[c].step \in Int
    BY <1>1 DEF TypeInv
  <2> QED
    BY <1>1, <2>1, <2>2 DEF TypeInv, CubePlaces, MatmulQn, CubeGoes, Core
<1>6. Blocks(c)' = Blocks(c)
  BY DEF MatmulQn, Blocks, SplitN
<1>7. /\ HeadsDone(c)' = HeadsDone(c) + 1 /\ HeadsDone(c)' = cube[c].idx + 1
      /\ CqDone(c)' = CqDone(c) /\ CkvKrDone(c)' = CkvKrDone(c) /\ NormTaken(c)' = NormTaken(c)
      /\ QcQrDone(c)' = QcQrDone(c) /\ QcTaken(c)' = QcTaken(c) /\ AtEnd(c)' = AtEnd(c)
      /\ BlocksDone(c)' = BlocksDone(c)
  BY <1>1, <1>2, <1>6, CubeOrder DEF Core, CubeCount, CqDone, CkvKrDone, NormTaken, QcQrDone,
     QcTaken, AtEnd, BlocksDone, HeadsDone
<1>8. CubeInv(c)'
  <2>1. cube[c].idx \in Nat
    BY <1>1 DEF TypeInv
  <2> QED
    BY <1>1, <1>2, <1>6, <1>7, <2>1 DEF CubeInv, CubePlace, CubeArrive, CubeData, CubeAt, Core,
       Filled, MatmulQn, TypeInv, Plain
<1>9. ASSUME NEW v \in Vecs, CubeOf(v) = c PROVE FlagsOf(v, c)'
  <2>1. VecSame(v)
    BY VecFrame DEF MatmulQn
  <2>2. FlagsOf(v, c) /\ HeadLead(v, c) \in Int
    BY <1>1, <1>9, LeadFacts
  <2>3. BlockLead(v, c)' = BlockLead(v, c) /\ HeadLead(v, c)' = HeadLead(v, c)
    BY <1>2, LeadFrame DEF Core, MatmulQn
  <2>4. /\ toVec'[v][8] = IF launch.quantQn THEN toVec[v][8] + 1 ELSE toVec[v][8]
        /\ \A g \in {4, 6, 10} : toVec'[v][g] = toVec[v][g]
    BY <1>1, <1>3, <1>9, SetForVecsFacts DEF TypeInv
  <2>5. /\ toCube'[v][7] = IF SplitN THEN toCube[v][7] - 1 ELSE toCube[v][7]
        /\ \A g \in {6, 9} : toCube'[v][g] = toCube[v][g]
    BY <1>1, <1>3, <1>9, WaitForVecsFacts DEF TypeInv
  <2>6. HeadsDone(c) \in Int /\ HeadsTaken(v) \in Int /\ HeadsReady(v) \in Int
    <3>1. VecPlace(v) /\ CubePlace(c) /\ Heads(CubeOf(v)) = Heads(c)
      BY <1>1, <1>9 DEF IInv, VecInv, CubeInv
    <3> QED  BY <1>1, <3>1, CubeBounds, VecBounds
  <2> QED
    BY <1>1, <1>7, <2>1, <2>2, <2>3, <2>4, <2>5, <2>6
    DEF FlagsOf, VecSame, SplitN, Dequant, MatmulQn
<1> QED
  <2>1. \A d \in Cubes : CubeBarrier(c, d)
    BY DEF IInv
  <2> QED
    BY <1>1, <1>4, <1>5, <1>7, <1>8, <1>9, <2>1, CubeMovesKeep, CubeOrder DEF CubeBarrier

(* Before its first block or head of a step a tensor is what the step      *)
(* before has left.                                                        *)
LEMMA FilledAnew ==
  \A k, n \in Nat : k > 0 => Filled(k + 1, 0, n) = [step |-> k, done |-> n]
<1> SUFFICES ASSUME NEW k \in Nat, NEW n \in Nat, k > 0
             PROVE  Filled(k + 1, 0, n) = [step |-> k, done |-> n]
  OBVIOUS
<1> DEFINE next == k + 1
<1>1. next - 1 = k /\ next # 1 /\ ~(0 > 0)
  OBVIOUS
<1> HIDE DEF next
<1>2. Filled(next, 0, n) = [step |-> k, done |-> n]
  BY <1>1 DEF Filled
<1> QED  BY <1>2 DEF next

(* The counts of blocks and heads start again, and the lead of the cube    *)
(* core over its vector cores makes up for them.                           *)
LEMMA CubeNextStepKeeps ==
  ASSUME IInv, NEW c \in Cubes, CubeNextStep(c)
  PROVE  IInv'
<1>1. /\ TypeInv /\ CubeInv(c) /\ Heads(c) \in Nat /\ Blocks(c) \in Nat
      /\ \A v \in Vecs : CubeOf(v) = c => FlagsOf(v, c)
  BY CubeStepFacts
<1>2. /\ cube[c].at = "MatmulQn" /\ cube[c].idx = Heads(c)
      /\ cube'[c] = IF cube[c].step < StepNum THEN Core("MatmulCq", cube[c].step + 1, 0)
                                              ELSE Core("LastWait", cube[c].step, 0)
  BY <1>1 DEF TypeInv, CubeNextStep, CubeAt
<1>3. CubeMoves(c)
  BY <1>1 DEF CubeMoves, CubeNextStep, TypeInv, flags
<1>4. cube[c].step \in Int /\ 1 <= cube[c].step /\ cube[c].step <= StepNum /\ StepNum \in Nat
  BY <1>1, CubeOrder, StepFacts
<1>5. TypeInv'
  <2>1. cube'[c] \in [at : CubePlaces, step : 1 .. StepNum, idx : Nat]
    BY <1>2, <1>4 DEF Core, CubePlaces
  <2>2. cube' \in [Cubes -> [at : CubePlaces, step : 1 .. StepNum, idx : Nat]]
    BY <1>1, <2>1 DEF TypeInv, CubeNextStep
  <2> QED
    BY <1>1, <2>2 DEF TypeInv, CubeNextStep, flags
<1>6. Blocks(c)' = Blocks(c)
  BY DEF CubeNextStep, Blocks, SplitN
<1>7. /\ CqDone(c)' = CqDone(c) /\ CkvKrDone(c)' = CkvKrDone(c) /\ NormTaken(c)' = NormTaken(c)
      /\ QcQrDone(c)' = QcQrDone(c) /\ QcTaken(c)' = QcTaken(c) /\ AtEnd(c)' = AtEnd(c)
  BY <1>1, <1>2, <1>4 DEF Core, CubeCount, CqDone, CkvKrDone, NormTaken, QcQrDone, QcTaken,
     AtEnd, BlocksDone, HeadsDone
<1>8. /\ BlocksDone(c) = Blocks(c) /\ HeadsDone(c) = Heads(c) /\ NormTaken(c) = cube[c].step
      /\ QcTaken(c) = cube[c].step
      /\ IF cube[c].step < StepNum THEN BlocksDone(c)' = 0 /\ HeadsDone(c)' = 0
                                   ELSE BlocksDone(c)' = Blocks(c) /\ HeadsDone(c)' = Heads(c)
  BY <1>1, <1>2, <1>4, <1>6 DEF Core, CubeCount, CqDone, CkvKrDone, NormTaken, QcQrDone,
     QcTaken, AtEnd, BlocksDone, HeadsDone
<1>9. CubeInv(c)'
  <2>1. CubePlace(c)'
    BY <1>1, <1>2, <1>4 DEF CubeInv, CubePlace, CubeAt, Core
  <2>2. CubeArrive(c)'
    BY <1>1, <1>7 DEF CubeInv, CubeArrive, CubeNextStep, flags, Plain
  <2>3. CubeData(c)'
    <3>1. CubeData(c) /\ UNCHANGED <<mmCqRes, mmCkvKrRes, mmQcQrRes, mmQnRes>>
      BY <1>1 DEF CubeInv, CubeNextStep
    <3>2. CASE cube[c].step < StepNum
      <4>1. cube'[c].step = cube[c].step + 1 /\ BlocksDone(c)' = 0 /\ HeadsDone(c)' = 0
        BY <1>2, <1>8, <3>2 DEF Core
      <4>2. /\ Blocks(c) > 0 => mmQcQrRes[c] = [step |-> cube[c].step, done |-> Blocks(c)]
            /\ Heads(c) > 0 => mmQnRes[c] = [step |-> cube[c].step, done |-> Heads(c)]
        BY <1>1, <1>8, <3>1 DEF CubeData, Filled
      <4>4. \A n \in Nat : Filled(cube[c].step + 1, 0, n) = [step |-> cube[c].step, done |-> n]
        BY <1>4, FilledAnew
      <4>5. /\ Filled(cube'[c].step, BlocksDone(c)', Blocks(c)')
                 = [step |-> cube[c].step, done |-> Blocks(c)]
            /\ Filled(cube'[c].step, HeadsDone(c)', Heads(c))
                 = [step |-> cube[c].step, done |-> Heads(c)]
        BY <1>1, <1>6, <4>1, <4>4
      <4> QED
        BY <1>6, <1>7, <3>1, <4>2, <4>5 DEF CubeData
    <3>3. CASE ~(cube[c].step < StepNum)
      BY <1>1, <1>2, <1>6, <1>7, <1>8, <3>1, <3>3 DEF CubeData, Filled, Core
    <3> QED  BY <3>2, <3>3
  <2> QED  BY <2>1, <2>2, <2>3 DEF CubeInv
<1>10. ASSUME NEW v \in Vecs, CubeOf(v) = c PROVE FlagsOf(v, c)'
  <2>1. VecSame(v)
    BY VecFrame DEF CubeNextStep
  <2>2. FlagsOf(v, c) /\ vec' = vec /\ toVec' = toVec /\ toCube' = toCube /\ launch' = launch
    BY <1>1, <1>10 DEF CubeNextStep, flags
  <2>3. cube[c].step <= vec[v].step /\ vec[v].step <= cube[c].step + 1
    BY <1>1, <1>8, <2>2, PairOrder, CubeOrder, VecOrder
  <2>4. CASE cube[c].step < StepNum
    <3>1. /\ BlockLead(v, c)' = BlockLead(v, c) + Blocks(c)
          /\ HeadLead(v, c)' = HeadLead(v, c) + Heads(c)
      BY <1>1, <1>2, <1>4, <1>6, <2>2, <2>3, <2>4, VecOrder DEF BlockLead, HeadLead, Lead, Core
    <3>2. BlockLead(v, c) \in Int /\ HeadLead(v, c) \in Int
      BY LeadFacts
    <3>3. (SplitN => BlocksTaken(v) \in Int) /\ HeadsTaken(v) \in Int /\ HeadsReady(v) \in Int
      <4>1. VecPlace(v) /\ Heads(CubeOf(v)) = Heads(c) /\ Blocks(CubeOf(v)) = Blocks(c)
        BY <1>10 DEF IInv, VecInv
      <4> QED  BY <1>1, <4>1, VecBounds
    <3> QED
      BY <1>1, <1>7, <1>8, <2>1, <2>2, <2>4, <3>1, <3>2, <3>3
      DEF FlagsOf, VecSame, SplitN, Dequant
  <2>5. CASE ~(cube[c].step < StepNum)
    <3>1. BlockLead(v, c)' = BlockLead(v, c) /\ HeadLead(v, c)' = HeadLead(v, c)
      BY <1>2, <2>2, <2>5, LeadFrame DEF Core
    <3> QED
      BY <1>7, <1>8, <2>1, <2>2, <2>5, <3>1 DEF FlagsOf, VecSame, SplitN, Dequant
  <2> QED  BY <2>4, <2>5
<1> QED
  <2>1. \A d \in Cubes : CubeBarrier(c, d)
    BY DEF IInv
  <2> QED
    BY <1>1, <1>3, <1>5, <1>7, <1>9, <1>10, <2>1, CubeMovesKeep, CubeOrder DEF CubeBarrier

LEMMA LastWaitKeeps ==
  ASSUME IInv, NEW c \in Cubes, LastWait(c)
  PROVE  IInv'
<1>1. /\ TypeInv /\ CubeInv(c) /\ Heads(c) \in Nat /\ Blocks(c) \in Nat
      /\ \A v \in Vecs : CubeOf(v) = c => FlagsOf(v, c)
  BY CubeStepFacts
<1>2. cube[c].at = "LastWait" /\ cube'[c] = Core("done", cube[c].step, 0)
  BY <1>1 DEF TypeInv, LastWait, CubeAt, CubeGoes
<1>3. WaitForVecs(c, 9)
  BY DEF LastWait
<1>4. CubeMoves(c)
  BY <1>1, <1>3, WaitForVecsFacts DEF CubeMoves, LastWait, CubeGoes, TypeInv
<1>5. TypeInv'
  BY <1>1, <1>3, WaitForVecsFacts DEF TypeInv, CubePlaces, LastWait, CubeGoes, Core
<1>6. Blocks(c)' = Blocks(c)
  BY DEF LastWait, Blocks, SplitN
<1>7. /\ AtEnd(c)' = AtEnd(c) + 1
      /\ CqDone(c)' = CqDone(c) /\ CkvKrDone(c)' = CkvKrDone(c) /\ NormTaken(c)' = NormTaken(c)
      /\ QcQrDone(c)' = QcQrDone(c) /\ QcTaken(c)' = QcTaken(c)
      /\ BlocksDone(c)' = BlocksDone(c) /\ HeadsDone(c)' = HeadsDone(c)
  BY <1>1, <1>2, <1>6, CubeOrder DEF Core, CubeCount, CqDone, CkvKrDone, NormTaken, QcQrDone,
     QcTaken, AtEnd, BlocksDone, HeadsDone
<1>8. CubeInv(c)'
  BY <1>1, <1>2, <1>6, <1>7 DEF CubeInv, CubePlace, CubeArrive, CubeData, CubeAt, Core, Filled,
     LastWait, TypeInv, Plain
<1>9. ASSUME NEW v \in Vecs, CubeOf(v) = c PROVE FlagsOf(v, c)'
  <2>1. VecSame(v)
    BY VecFrame DEF LastWait
  <2>2. FlagsOf(v, c) /\ AtEnd(c) \in Int
    BY <1>1, <1>9 DEF AtEnd
  <2>3. BlockLead(v, c)' = BlockLead(v, c) /\ HeadLead(v, c)' = HeadLead(v, c)
    BY <1>2, LeadFrame DEF Core, LastWait
  <2>4. /\ toCube'[v][9] = toCube[v][9] - 1
        /\ \A g \in {6, 7} : toCube'[v][g] = toCube[v][g]
    BY <1>1, <1>3, <1>9, WaitForVecsFacts DEF TypeInv
  <2> QED
    BY <1>1, <1>7, <2>1, <2>2, <2>3, <2>4, CubeOrder, VecOrder
    DEF FlagsOf, VecSame, SplitN, Dequant, LastWait
<1> QED
  <2>1. \A d \in Cubes : CubeBarrier(c, d)
    BY DEF IInv
  <2> QED
    BY <1>1, <1>4, <1>5, <1>7, <1>8, <1>9, <2>1, CubeMovesKeep, CubeOrder DEF CubeBarrier
(***************************************************************************)
(* Steps of a vector core.                                                 *)
(***************************************************************************)

(* What every step of a vector core may use.                               *)
LEMMA VecStepFacts ==
  ASSUME IInv, NEW v \in Vecs, NEW c \in Cubes, CubeOf(v) = c
  PROVE  /\ TypeInv /\ VecInv(v) /\ FlagsOf(v, c)
         /\ Heads(c) \in Nat /\ Blocks(c) \in Nat
         /\ \A w \in Vecs : VecBarrier(v, w)
BY HeadFacts DEF IInv

(* A vector core that need not wait any more has met all the others.       *)
LEMMA VecMet ==
  ASSUME IInv, NEW v \in Vecs, AllArrived(v), NEW w \in Vecs
  PROVE  /\ CqTaken(v) <= CqTaken(w)
         /\ Normalized(v) <= Normalized(w)
         /\ CkvKrTaken(v) <= CkvKrTaken(w)
         /\ ~SplitN => QcQrTaken(v) <= QcQrTaken(w)
         /\ Dequant => Dequanted(v) <= Dequanted(w)
         /\ ~SplitN /\ launch.quantQn => Roped(v) <= Roped(w)
<1>1. vecArrived[w] >= vecArrived[v]
  BY DEF AllArrived
<1>2. VecArrive(v) /\ VecArrive(w) /\ TypeInv
  BY DEF IInv, VecInv
<1> QED  BY <1>1, <1>2, ArrivedOrder

LEMMA WaitCqKeeps ==
  ASSUME IInv, NEW v \in Vecs, NEW c \in Cubes, CubeOf(v) = c, WaitCq(v)
  PROVE  IInv'
<1>1. /\ TypeInv /\ VecInv(v) /\ FlagsOf(v, c) /\ Heads(c) \in Nat /\ Blocks(c) \in Nat
      /\ \A w \in Vecs : VecBarrier(v, w)
  BY VecStepFacts
<1>2. vec[v].at = "WaitCq" /\ vec'[v] = Core("RmsNormCq", vec[v].step, 0)
  BY <1>1 DEF TypeInv, WaitCq, VecAt, VecGoes
<1>3. WaitForCube(v, 6)
  BY DEF WaitCq
<1>4. VecMoves(v)
  BY <1>1, <1>3, WaitForCubeFacts DEF VecMoves, WaitCq, VecGoes, Arrive, TypeInv
<1>5. TypeInv'
  BY <1>1, <1>3, WaitForCubeFacts DEF TypeInv, VecPlaces, WaitCq, VecGoes, Arrive, Core
<1>6. /\ CqTaken(v)' = CqTaken(v) + 1
      /\ Normalized(v)' = Normalized(v) /\ NormShared(v)' = NormShared(v) /\ CkvKrTaken(v)' = CkvKrTaken(v)
      /\ Scattered(v)' = Scattered(v) /\ QcQrTaken(v)' = QcQrTaken(v) /\ Dequanted(v)' = Dequanted(v)
      /\ QcShared(v)' = QcShared(v) /\ Roped(v)' = Roped(v) /\ BlocksTaken(v)' = BlocksTaken(v)
      /\ HeadsReady(v)' = HeadsReady(v) /\ HeadsTaken(v)' = HeadsTaken(v)
  BY <1>1, <1>2, VecOrder DEF Core, VecCount, CqTaken, Normalized, NormShared, CkvKrTaken,
     Scattered,
     QcQrTaken, Dequanted, QcShared, Roped, BlocksTaken, HeadsReady, HeadsTaken
<1>7. VecInv(v)'
  <2>1. VecPlace(v)'
    BY <1>2 DEF VecPlace, VecAt, Core
  <2>2. VecArrive(v)'
    BY <1>1, <1>6, VecOrder DEF VecInv, VecArrive, WaitCq, Arrive, TypeInv, SplitN, Dequant
  <2>3. VecData(v)'
    BY <1>1, <1>2, <1>6 DEF VecInv, VecData, WaitCq, SplitN, Dequant, Core, Filled
  <2> QED  BY <2>1, <2>2, <2>3 DEF VecInv
<1>8. FlagsOf(v, c)'
  <2>1. CubeSame(c)
    BY CubeFrame DEF WaitCq
  <2>2. BlockLead(v, c)' = BlockLead(v, c) /\ HeadLead(v, c)' = HeadLead(v, c)
    BY <1>2, LeadFrame DEF Core, WaitCq
  <2>3. /\ toVec'[v][6] = toVec[v][6] - 1
        /\ \A g \in {4, 8, 10} : toVec'[v][g] = toVec[v][g]
    BY <1>1, <1>3, WaitForCubeFacts DEF TypeInv
  <2> QED
    BY <1>1, <1>6, <2>1, <2>2, <2>3, CubeOrder, VecOrder
    DEF FlagsOf, CubeSame, SplitN, Dequant, WaitCq
<1>9. VecAdvances(v) /\ VecPassed(v)
  BY <1>1, <1>6, VecOrder DEF VecAdvances, VecPassed, VecBarrier
<1> QED  BY <1>4, <1>5, <1>7, <1>8, <1>9, VecMovesKeep

LEMMA RmsNormCqKeeps ==
  ASSUME IInv, NEW v \in Vecs, NEW c \in Cubes, CubeOf(v) = c, RmsNormCq(v)
  PROVE  IInv'
<1>1. /\ TypeInv /\ VecInv(v) /\ FlagsOf(v, c) /\ Heads(c) \in Nat /\ Blocks(c) \in Nat
      /\ \A w \in Vecs : VecBarrier(v, w)
  BY VecStepFacts
<1>2. /\ vec[v].at = "RmsNormCq" /\ vec'[v] = Core("ShareNorm", vec[v].step, 0)
      /\ AllArrived(v)
  BY <1>1 DEF TypeInv, RmsNormCq, MayRmsNormCq, VecAt, VecGoes
<1>3. VecMoves(v)
  BY <1>1 DEF VecMoves, RmsNormCq, VecGoes, Arrive, TypeInv
<1>4. TypeInv'
  <2>1. vec[v].step \in Int
    BY <1>1, VecOrder
  <2> QED
    BY <1>1, <2>1 DEF TypeInv, VecPlaces, RmsNormCq, VecGoes, Arrive, Core
<1>5. /\ Normalized(v)' = Normalized(v) + 1 /\ Normalized(v)' = vec[v].step
      /\ CqTaken(v) = vec[v].step
      /\ CqTaken(v)' = CqTaken(v) /\ NormShared(v)' = NormShared(v) /\ CkvKrTaken(v)' = CkvKrTaken(v)
      /\ Scattered(v)' = Scattered(v) /\ QcQrTaken(v)' = QcQrTaken(v) /\ Dequanted(v)' = Dequanted(v)
      /\ QcShared(v)' = QcShared(v) /\ Roped(v)' = Roped(v) /\ BlocksTaken(v)' = BlocksTaken(v)
      /\ HeadsReady(v)' = HeadsReady(v) /\ HeadsTaken(v)' = HeadsTaken(v)
  BY <1>1, <1>2, VecOrder DEF Core, VecCount, CqTaken, Normalized, NormShared, CkvKrTaken,
     Scattered,
     QcQrTaken, Dequanted, QcShared, Roped, BlocksTaken, HeadsReady, HeadsTaken
<1>6. VecInv(v)'
  <2>1. VecPlace(v)'
    BY <1>2 DEF VecPlace, VecAt, Core
  <2>2. VecArrive(v)'
    BY <1>1, <1>5, VecOrder DEF VecInv, VecArrive, RmsNormCq, Arrive, TypeInv, SplitN, Dequant
  <2>3. \A k \in Nat : Normalized(v)' = k /\ HasRows(v, k) => rmsNormCqRes'[v] = k
    BY <1>1, <1>5 DEF RmsNormCq, TypeInv
  <2>4. VecData(v)'
    BY <1>1, <1>2, <1>5, <2>3 DEF VecInv, VecData, RmsNormCq, SplitN, Dequant, Core, Filled
  <2> QED  BY <2>1, <2>2, <2>4 DEF VecInv
<1>7. FlagsOf(v, c)'
  <2>1. CubeSame(c)
    BY CubeFrame DEF RmsNormCq
  <2>2. BlockLead(v, c)' = BlockLead(v, c) /\ HeadLead(v, c)' = HeadLead(v, c)
    BY <1>2, LeadFrame DEF Core, RmsNormCq
  <2> QED
    BY <1>1, <1>5, <2>1, <2>2 DEF FlagsOf, CubeSame, SplitN, Dequant, RmsNormCq
<1>8. VecAdvances(v)
  BY <1>1, <1>5, VecOrder DEF VecAdvances
<1>9. VecPassed(v)
  <2>1. \A w \in Vecs : CqTaken(v) <= CqTaken(w)
    BY <1>2, VecMet
  <2> QED
    BY <1>1, <1>5, <2>1 DEF VecPassed, VecBarrier
<1> QED  BY <1>3, <1>4, <1>6, <1>7, <1>8, <1>9, VecMovesKeep

LEMMA ShareNormKeeps ==
  ASSUME IInv, NEW v \in Vecs, NEW c \in Cubes, CubeOf(v) = c, ShareNorm(v)
  PROVE  IInv'
<1>1. /\ TypeInv /\ VecInv(v) /\ FlagsOf(v, c) /\ Heads(c) \in Nat /\ Blocks(c) \in Nat
      /\ \A w \in Vecs : VecBarrier(v, w)
  BY VecStepFacts
<1>2. /\ vec[v].at = "ShareNorm" /\ vec'[v] = Core("WaitCkvKr", vec[v].step, 0)
      /\ AllArrived(v)
  BY <1>1 DEF TypeInv, ShareNorm, MayShareNorm, VecAt, VecGoes
<1>3. SetForCube(v, 6, 1)
  BY DEF ShareNorm
<1>4. VecMoves(v)
  BY <1>1, <1>3, SetForCubeFacts DEF VecMoves, ShareNorm, VecGoes, TypeInv
<1>5. TypeInv'
  BY <1>1, <1>3, SetForCubeFacts DEF TypeInv, VecPlaces, ShareNorm, VecGoes, Core
<1>6. /\ NormShared(v)' = NormShared(v) + 1 /\ NormShared(v)' = Normalized(v)
      /\ CqTaken(v)' = CqTaken(v) /\ Normalized(v)' = Normalized(v) /\ CkvKrTaken(v)' = CkvKrTaken(v)
      /\ Scattered(v)' = Scattered(v) /\ QcQrTaken(v)' = QcQrTaken(v) /\ Dequanted(v)' = Dequanted(v)
      /\ QcShared(v)' = QcShared(v) /\ Roped(v)' = Roped(v) /\ BlocksTaken(v)' = BlocksTaken(v)
      /\ HeadsReady(v)' = HeadsReady(v) /\ HeadsTaken(v)' = HeadsTaken(v)
  BY <1>1, <1>2, VecOrder DEF Core, VecCount, CqTaken, Normalized, NormShared, CkvKrTaken,
     Scattered,
     QcQrTaken, Dequanted, QcShared, Roped, BlocksTaken, HeadsReady, HeadsTaken
<1>7. VecInv(v)'
  <2>1. VecPlace(v)'
    BY <1>2 DEF VecPlace, VecAt, Core
  <2>2. VecArrive(v)'
    BY <1>1, <1>6 DEF VecInv, VecArrive, ShareNorm, SplitN, Dequant
  <2>3. VecData(v)'
    BY <1>1, <1>2, <1>6 DEF VecInv, VecData, ShareNorm, SplitN, Dequant, Core, Filled
  <2> QED  BY <2>1, <2>2, <2>3 DEF VecInv
<1>8. FlagsOf(v, c)'
  <2>1. CubeSame(c)
    BY CubeFrame DEF ShareNorm
  <2>2. BlockLead(v, c)' = BlockLead(v, c) /\ HeadLead(v, c)' = HeadLead(v, c)
    BY <1>2, LeadFrame DEF Core, ShareNorm
  <2>3. /\ toCube'[v][6] = toCube[v][6] + 1
        /\ \A g \in {7, 9} : toCube'[v][g] = toCube[v][g]
    BY <1>1, <1>3, SetForCubeFacts DEF TypeInv
  <2> QED
    BY <1>1, <1>6, <2>1, <2>2, <2>3, CubeOrder, VecOrder
    DEF FlagsOf, CubeSame, SplitN, Dequant, ShareNorm
<1>9. VecAdvances(v)
  BY <1>1, <1>6, VecOrder DEF VecAdvances
<1>10. VecPassed(v)
  <2>1. \A w \in Vecs : Normalized(v) <= Normalized(w)
    BY <1>2, VecMet
  <2> QED
    BY <1>1, <1>6, <2>1 DEF VecPassed, VecBarrier
<1> QED  BY <1>4, <1>5, <1>7, <1>8, <1>9, <1>10, VecMovesKeep

LEMMA WaitCkvKrKeeps ==
  ASSUME IInv, NEW v \in Vecs, NEW c \in Cubes, CubeOf(v) = c, WaitCkvKr(v)
  PROVE  IInv'
<1>1. /\ TypeInv /\ VecInv(v) /\ FlagsOf(v, c) /\ Heads(c) \in Nat /\ Blocks(c) \in Nat
      /\ \A w \in Vecs : VecBarrier(v, w)
  BY VecStepFacts
<1>2. vec[v].at = "WaitCkvKr" /\ vec'[v] = Core("ScatterCkvKr", vec[v].step, 0)
  BY <1>1 DEF TypeInv, WaitCkvKr, VecAt, VecGoes
<1>3. WaitForCube(v, 4)
  BY DEF WaitCkvKr
<1>4. VecMoves(v)
  BY <1>1, <1>3, WaitForCubeFacts DEF VecMoves, WaitCkvKr, VecGoes, Arrive, TypeInv
<1>5. TypeInv'
  BY <1>1, <1>3, WaitForCubeFacts DEF TypeInv, VecPlaces, WaitCkvKr, VecGoes, Arrive, Core
<1>6. /\ CkvKrTaken(v)' = CkvKrTaken(v) + 1
      /\ CqTaken(v)' = CqTaken(v) /\ Normalized(v)' = Normalized(v) /\ NormShared(v)' = NormShared(v)
      /\ Scattered(v)' = Scattered(v) /\ QcQrTaken(v)' = QcQrTaken(v) /\ Dequanted(v)' = Dequanted(v)
      /\ QcShared(v)' = QcShared(v) /\ Roped(v)' = Roped(v) /\ BlocksTaken(v)' = BlocksTaken(v)
      /\ HeadsReady(v)' = HeadsReady(v) /\ HeadsTaken(v)' = HeadsTaken(v)
  BY <1>1, <1>2, VecOrder DEF Core, VecCount, CqTaken, Normalized, NormShared, CkvKrTaken,
     Scattered,
     QcQrTaken, Dequanted, QcShared, Roped, BlocksTaken, HeadsReady, HeadsTaken
<1>7. VecInv(v)'
  <2>1. VecPlace(v)'
    BY <1>2 DEF VecPlace, VecAt, Core
  <2>2. VecArrive(v)'
    BY <1>1, <1>6, VecOrder DEF VecInv, VecArrive, WaitCkvKr, Arrive, TypeInv, SplitN, Dequant
  <2>3. VecData(v)'
    BY <1>1, <1>2, <1>6 DEF VecInv, VecData, WaitCkvKr, SplitN, Dequant, Core, Filled
  <2> QED  BY <2>1, <2>2, <2>3 DEF VecInv
<1>8. FlagsOf(v, c)'
  <2>1. CubeSame(c)
    BY CubeFrame DEF WaitCkvKr
  <2>2. BlockLead(v, c)' = BlockLead(v, c) /\ HeadLead(v, c)' = HeadLead(v, c)
    BY <1>2, LeadFrame DEF Core, WaitCkvKr
  <2>3. /\ toVec'[v][4] = toVec[v][4] - 1
        /\ \A g \in {6, 8, 10} : toVec'[v][g] = toVec[v][g]
    BY <1>1, <1>3, WaitForCubeFacts DEF TypeInv
  <2> QED
    BY <1>1, <1>6, <2>1, <2>2, <2>3, CubeOrder, VecOrder
    DEF FlagsOf, CubeSame, SplitN, Dequant, WaitCkvKr
<1>9. VecAdvances(v) /\ VecPassed(v)
  BY <1>1, <1>6, VecOrder DEF VecAdvances, VecPassed, VecBarrier
<1> QED  BY <1>4, <1>5, <1>7, <1>8, <1>9, VecMovesKeep

LEMMA ScatterCkvKrKeeps ==
  ASSUME IInv, NEW v \in Vecs, NEW c \in Cubes, CubeOf(v) = c, RmsNormRopeScatterCkvKr(v)
  PROVE  IInv'
<1>1. /\ TypeInv /\ VecInv(v) /\ FlagsOf(v, c) /\ Heads(c) \in Nat /\ Blocks(c) \in Nat
      /\ \A w \in Vecs : VecBarrier(v, w)
  BY VecStepFacts
<1>2. /\ vec[v].at = "ScatterCkvKr" /\ AllArrived(v)
      /\ vec'[v] = Core(IF SplitN THEN "SplitN" ELSE "WaitQcQr", vec[v].step, 0)
  BY <1>1 DEF TypeInv, RmsNormRopeScatterCkvKr, MayScatterCkvKr, VecAt, VecGoes
<1>3. SetForCube(v, 9, 1)
  BY DEF RmsNormRopeScatterCkvKr
<1>4. VecMoves(v)
  BY <1>1, <1>3, SetForCubeFacts DEF VecMoves, RmsNormRopeScatterCkvKr, VecGoes, TypeInv
<1>5. TypeInv'
  BY <1>1, <1>3, SetForCubeFacts DEF TypeInv, VecPlaces, RmsNormRopeScatterCkvKr, VecGoes, Core
<1>6. /\ Scattered(v)' = Scattered(v) + 1 /\ Scattered(v)' = CkvKrTaken(v)
      /\ CqTaken(v)' = CqTaken(v) /\ Normalized(v)' = Normalized(v)
      /\ NormShared(v)' = NormShared(v) /\ CkvKrTaken(v)' = CkvKrTaken(v)
      /\ QcQrTaken(v)' = IF SplitN THEN QcQrTaken(v) + 1 ELSE QcQrTaken(v)
      /\ Dequanted(v)' = IF SplitN THEN Dequanted(v) + 1 ELSE Dequanted(v)
      /\ ~SplitN => QcShared(v)' = QcShared(v) /\ Roped(v)' = Roped(v)
      /\ BlocksTaken(v)' = BlocksTaken(v) /\ HeadsTaken(v)' = HeadsTaken(v)
  BY <1>1, <1>2, VecOrder DEF Core, VecCount, CqTaken, Normalized, NormShared, CkvKrTaken,
     Scattered,
     QcQrTaken, Dequanted, QcShared, Roped, BlocksTaken, HeadsReady, HeadsTaken
<1>7. HeadsReady(v)' = HeadsReady(v)
  <2>1. HeadsWithin(CubeOf(v), 0) = 0
    BY HeadsWithinEnds
  <2>2. HeadsReady(v) = 0
    BY <1>2 DEF HeadsReady
  <2>3. vec'[v].at # "SplitN" => vec'[v].at = "WaitQcQr"
    BY <1>2 DEF Core
  <2>4. vec'[v].at = "SplitN" => HeadsWithin(CubeOf(v), vec'[v].idx) = 0
    BY <1>2, <2>1 DEF Core
  <2>5. HeadsReady(v)' = IF vec'[v].at = "SplitN" THEN HeadsWithin(CubeOf(v), vec'[v].idx)
                         ELSE IF vec'[v].at \in {"QuantQn", "done"} THEN Heads(CubeOf(v)) ELSE 0
    BY DEF HeadsReady, HeadsWithin
  <2> QED  BY <2>2, <2>3, <2>4, <2>5
<1>8. VecInv(v)'
  <2>1. VecPlace(v)'
    BY <1>1, <1>2 DEF VecPlace, VecAt, Core, RmsNormRopeScatterCkvKr, SplitN, Blocks
  <2>2. VecArrive(v)'
    BY <1>1, <1>6 DEF VecInv, VecArrive, RmsNormRopeScatterCkvKr, SplitN, Dequant
  <2>3. VecData(v)'
    BY <1>1, <1>2, <1>6, <1>7
    DEF VecInv, VecData, RmsNormRopeScatterCkvKr, SplitN, Dequant, Core, Filled
  <2> QED  BY <2>1, <2>2, <2>3 DEF VecInv
<1>9. FlagsOf(v, c)'
  <2>1. CubeSame(c)
    BY CubeFrame DEF RmsNormRopeScatterCkvKr
  <2>2. BlockLead(v, c)' = BlockLead(v, c) /\ HeadLead(v, c)' = HeadLead(v, c)
    BY <1>2, LeadFrame DEF Core, RmsNormRopeScatterCkvKr
  <2>3. /\ toCube'[v][9] = toCube[v][9] + 1
        /\ \A g \in {6, 7} : toCube'[v][g] = toCube[v][g]
    BY <1>1, <1>3, SetForCubeFacts DEF TypeInv
  <2>4. AtEnd(c) \in Int
    BY DEF AtEnd
  <2> QED
    BY <1>1, <1>6, <1>7, <2>1, <2>2, <2>3, <2>4, CubeOrder, VecOrder
    DEF FlagsOf, CubeSame, SplitN, Dequant, RmsNormRopeScatterCkvKr
<1>10. VecAdvances(v)
  BY <1>1, <1>6, VecOrder DEF VecAdvances
<1>11. VecPassed(v)
  <2>1. \A w \in Vecs : CkvKrTaken(v) <= CkvKrTaken(w)
    BY <1>2, VecMet
  <2> QED
    BY <1>1, <1>6, <2>1 DEF VecPassed, VecBarrier, Dequant, Plain, SplitN
<1> QED  BY <1>4, <1>5, <1>8, <1>9, <1>10, <1>11, VecMovesKeep
(* The heads that become ready with one more block are announced, all of   *)
(* them as long as a counter can hold them.                                *)
LEMMA NewHeadsFacts ==
  ASSUME TypeInv, FewHeads, NEW v \in Vecs, NEW c \in Cubes, CubeOf(v) = c
  PROVE  LET i == vec[v].idx
             n == HeadsWithin(c, i + 1) - HeadsWithin(c, i)
         IN /\ n \in Nat
            /\ Cardinality({h \in NewHeads(v) : Announced(CubeOf(v), h)}) = n
            /\ NewHeads(v) = {} <=> n = 0
<1> DEFINE a == HeadsWithin(c, vec[v].idx)
           b == HeadsWithin(c, vec[v].idx + 1)
<1>1. vec[v].idx \in Nat
  BY DEF TypeInv
<1>2. a \in Nat /\ b \in Nat /\ a <= b
  BY <1>1, HeadsWithinFacts, HeadsWithinEnds, HeadFacts
<1>3. NewHeads(v) = a .. b - 1
  BY DEF NewHeads
<1>4. {h \in NewHeads(v) : Announced(CubeOf(v), h)} = NewHeads(v)
  BY DEF Announced, FewHeads
<1> HIDE DEF a, b
<1>5. a \in Int /\ b - 1 \in Int /\ (a > b - 1 => b - a = 0) /\ (b - 1) - a + 1 = b - a
  BY <1>2
<1>6. Cardinality(a .. b - 1) = b - a
  BY <1>5, FS_Interval
<1>7. a .. b - 1 = {} <=> b - a = 0
  BY <1>2
<1>8. b - a \in Nat
  BY <1>2
<1> QED
  BY <1>3, <1>4, <1>6, <1>7, <1>8 DEF a, b

LEMMA DequantAndRopeKeeps ==
  ASSUME IInv, FewHeads, NEW v \in Vecs, NEW c \in Cubes, CubeOf(v) = c, DequantAndRope(v)
  PROVE  IInv'
<1> DEFINE i == vec[v].idx
           a == HeadsWithin(c, i)
           b == HeadsWithin(c, i + 1)
<1>1. /\ TypeInv /\ VecInv(v) /\ FlagsOf(v, c) /\ Heads(c) \in Nat /\ Blocks(c) \in Nat
      /\ \A w \in Vecs : VecBarrier(v, w)
  BY VecStepFacts
<1>2. /\ vec[v].at = "SplitN" /\ i \in Nat /\ i < Blocks(c) /\ SplitN
      /\ vec'[v] = Core("SplitN", vec[v].step, i + 1)
  BY <1>1 DEF TypeInv, DequantAndRope, MayDequantAndRope, VecAt, VecGoes, VecInv, VecPlace
<1>3. /\ a \in Nat /\ b \in Nat /\ b - a \in Nat /\ (NewHeads(v) = {} <=> a = b)
      /\ Cardinality({h \in NewHeads(v) : Announced(CubeOf(v), h)}) = b - a
  BY <1>1, <1>2, HeadsWithinFacts, NewHeadsFacts
<1>4. WaitForCube(v, 10) /\ SetForCube(v, 7, b - a)
  BY <1>3 DEF DequantAndRope
<1>5. mmQcQrResDequant' = [mmQcQrResDequant EXCEPT ![v] =
                             IF a = b THEN @ ELSE [step |-> vec[v].step, done |-> b]]
  BY <1>3 DEF DequantAndRope
<1> HIDE DEF a, b
<1>6. VecMoves(v)
  BY <1>1, <1>3, <1>4, <1>5, WaitForCubeFacts, SetForCubeFacts
  DEF VecMoves, DequantAndRope, VecGoes, TypeInv
<1>7. TypeInv'
  <2>1. toVec' \in [Vecs -> [VecFlags -> Nat]] /\ toCube' \in [Vecs -> [CubeFlags -> Nat]]
    BY <1>1, <1>3, <1>4, WaitForCubeFacts, SetForCubeFacts DEF TypeInv
  <2>2. vec[v].step \in Int /\ b \in Int /\ i + 1 \in Nat
    BY <1>1, <1>2, <1>3, VecOrder
  <2>3. mmQcQrResDequant' \in [Vecs -> [step : Int, done : Int]]
    BY <1>1, <1>5, <2>2 DEF TypeInv
  <2> QED
    BY <1>1, <2>1, <2>2, <2>3 DEF TypeInv, VecPlaces, DequantAndRope, VecGoes, Core
<1>8. /\ BlocksTaken(v)' = BlocksTaken(v) + 1 /\ BlocksTaken(v) \in Int
      /\ CqTaken(v)' = CqTaken(v) /\ Normalized(v)' = Normalized(v) /\ NormShared(v)' = NormShared(v)
      /\ CkvKrTaken(v)' = CkvKrTaken(v) /\ Scattered(v)' = Scattered(v) /\ QcQrTaken(v)' = QcQrTaken(v)
      /\ Dequanted(v)' = Dequanted(v) /\ QcShared(v)' = QcShared(v) /\ Roped(v)' = Roped(v)
      /\ HeadsTaken(v)' = HeadsTaken(v)
  BY <1>1, <1>2, VecOrder DEF Core, VecCount, CqTaken, Normalized, NormShared, CkvKrTaken,
     Scattered,
     QcQrTaken, Dequanted, QcShared, Roped, BlocksTaken, HeadsReady, HeadsTaken
<1>9. HeadsReady(v) = a /\ HeadsReady(v)' = b
  <2>1. HeadsReady(v)' = IF vec'[v].at = "SplitN" THEN HeadsWithin(CubeOf(v), vec'[v].idx)
                         ELSE IF vec'[v].at \in {"QuantQn", "done"} THEN Heads(CubeOf(v)) ELSE 0
    BY DEF HeadsReady, HeadsWithin
  <2> QED  BY <1>2, <2>1 DEF HeadsReady, Core, a, b
<1>10. VecInv(v)'
  <2>1. VecPlace(v)'
    BY <1>1, <1>2 DEF VecPlace, VecAt, Core, DequantAndRope, SplitN, Blocks
  <2>2. VecArrive(v)'
    BY <1>1, <1>8 DEF VecInv, VecArrive, DequantAndRope, SplitN, Dequant
  <2>3. /\ launch' = launch /\ rmsNormCqRes' = rmsNormCqRes /\ qrOut' = qrOut
        /\ vec'[v].step = vec[v].step /\ mmQcQrResDequant \in [Vecs -> [step : Int, done : Int]]
    BY <1>1, <1>2 DEF DequantAndRope, Core, TypeInv
  <2>4. Heads(CubeOf(v)) > 0 =>
          mmQcQrResDequant'[v] = Filled(vec'[v].step, HeadsReady(v)', Heads(CubeOf(v)))
    <3>1. Heads(CubeOf(v)) > 0 =>
            mmQcQrResDequant[v] = Filled(vec[v].step, a, Heads(CubeOf(v)))
      BY <1>1, <1>2, <1>9 DEF VecInv, VecData
    <3>2. a # b => b > 0
      BY <1>3
    <3> QED  BY <1>5, <1>9, <2>3, <3>1, <3>2 DEF Filled
  <2>5. VecData(v)'
    BY <1>1, <1>2, <1>8, <2>3, <2>4 DEF VecInv, VecData, SplitN, Dequant
  <2> QED  BY <2>1, <2>2, <2>5 DEF VecInv
<1>11. FlagsOf(v, c)'
  <2>1. CubeSame(c)
    BY CubeFrame DEF DequantAndRope
  <2>2. BlockLead(v, c)' = BlockLead(v, c) /\ HeadLead(v, c)' = HeadLead(v, c)
    BY <1>2, LeadFrame DEF Core, DequantAndRope
  <2>3. /\ toVec'[v][10] = toVec[v][10] - 1
        /\ \A g \in {4, 6, 8} : toVec'[v][g] = toVec[v][g]
    BY <1>1, <1>4, WaitForCubeFacts DEF TypeInv
  <2>4. /\ toCube'[v][7] = toCube[v][7] + (b - a)
        /\ \A g \in {6, 9} : toCube'[v][g] = toCube[v][g]
    BY <1>1, <1>3, <1>4, SetForCubeFacts DEF TypeInv
  <2>5. /\ BlocksDone(c) \in Int /\ HeadsDone(c) \in Int
        /\ BlockLead(v, c) \in Int /\ HeadLead(v, c) \in Int
    BY <1>1, CubeBounds, LeadFacts DEF IInv, CubeInv
  <2> QED
    BY <1>1, <1>2, <1>3, <1>8, <1>9, <2>1, <2>2, <2>3, <2>4, <2>5
    DEF FlagsOf, CubeSame, SplitN, Dequant, DequantAndRope
<1>12. VecAdvances(v) /\ VecPassed(v)
  BY <1>1, <1>8, VecOrder DEF VecAdvances, VecPassed, VecBarrier
<1> QED  BY <1>6, <1>7, <1>10, <1>11, <1>12, VecMovesKeep

(* A vector core that is through with its step.  The counts of blocks and  *)
(* heads start again, as they do in a cube core.                           *)
LEMMA VecNextStepFacts ==
  ASSUME TypeInv, NEW v \in Vecs, NEW c \in Cubes, CubeOf(v) = c, FlagsOf(v, c),
         launch' = launch, cube' = cube, VecNextStep(v),
         vec[v].at \in {"SplitN", "RopeQr", "QuantQn"}
  PROVE  /\ vec' \in [Vecs -> [at : VecPlaces, step : 1 .. StepNum, idx : Nat]]
         /\ VecPlace(v)'
         /\ CqTaken(v)' = CqTaken(v) /\ Normalized(v)' = Normalized(v)
         /\ NormShared(v)' = NormShared(v) /\ CkvKrTaken(v)' = CkvKrTaken(v)
         /\ Scattered(v)' = Scattered(v) /\ QcQrTaken(v)' = QcQrTaken(v)
         /\ Dequanted(v)' = Dequanted(v) /\ QcShared(v)' = QcShared(v)
         /\ Roped(v)' = vec[v].step /\ QcQrTaken(v) = vec[v].step
         /\ IF vec[v].step < StepNum
              THEN /\ vec'[v].step = vec[v].step + 1
                   /\ BlocksTaken(v)' = 0 /\ HeadsReady(v)' = 0 /\ HeadsTaken(v)' = 0
                   /\ BlockLead(v, c)' = BlockLead(v, c) - Blocks(c)
                   /\ HeadLead(v, c)' = HeadLead(v, c) - Heads(c)
              ELSE /\ vec'[v].step = vec[v].step
                   /\ BlocksTaken(v)' = Blocks(c)
                   /\ HeadsReady(v)' = Heads(c) /\ HeadsTaken(v)' = Heads(c)
                   /\ BlockLead(v, c)' = BlockLead(v, c) /\ HeadLead(v, c)' = HeadLead(v, c)
<1>1. /\ vec[v].step \in Int /\ 1 <= vec[v].step /\ vec[v].step <= StepNum /\ StepNum \in Nat
      /\ Heads(c) \in Nat /\ Blocks(c) \in Nat /\ Blocks(c)' = Blocks(c)
  BY VecOrder, StepFacts, HeadFacts DEF Blocks, SplitN
<1>2. vec'[v] = IF vec[v].step < StepNum THEN Core("WaitCq", vec[v].step + 1, 0)
                                         ELSE Core("done", vec[v].step, 0)
  BY DEF VecNextStep, TypeInv
<1>3. vec' \in [Vecs -> [at : VecPlaces, step : 1 .. StepNum, idx : Nat]]
  <2>1. vec'[v] \in [at : VecPlaces, step : 1 .. StepNum, idx : Nat]
    BY <1>1, <1>2 DEF Core, VecPlaces
  <2> QED  BY <2>1 DEF TypeInv, VecNextStep
<1>4. VecPlace(v)'
  BY <1>1, <1>2 DEF VecPlace, VecAt, Core
<1>5. /\ CqTaken(v)' = CqTaken(v) /\ Normalized(v)' = Normalized(v)
      /\ NormShared(v)' = NormShared(v) /\ CkvKrTaken(v)' = CkvKrTaken(v)
      /\ Scattered(v)' = Scattered(v) /\ QcQrTaken(v)' = QcQrTaken(v)
      /\ Dequanted(v)' = Dequanted(v) /\ QcShared(v)' = QcShared(v)
      /\ Roped(v)' = vec[v].step /\ QcQrTaken(v) = vec[v].step /\ CkvKrTaken(v) = vec[v].step
  BY <1>1, <1>2 DEF Core, VecCount, CqTaken, Normalized, NormShared, CkvKrTaken, Scattered,
     QcQrTaken, Dequanted, QcShared, Roped, BlocksTaken, HeadsReady, HeadsTaken
<1>6. vec[v].step <= cube[c].step
  <2>1. CkvKrTaken(v) <= CkvKrDone(c)
    BY PairOrder
  <2> QED  BY <1>1, <1>5, <2>1, CubeOrder
<1>7. CASE vec[v].step < StepNum
  <2>1. vec'[v].step = vec[v].step + 1 /\ vec'[v].at = "WaitCq"
    BY <1>2, <1>7 DEF Core
  <2>2. BlocksTaken(v)' = 0 /\ HeadsReady(v)' = 0 /\ HeadsTaken(v)' = 0
    BY <2>1 DEF BlocksTaken, HeadsReady, HeadsTaken
  <2>3. /\ BlockLead(v, c)' = BlockLead(v, c) - Blocks(c)
        /\ HeadLead(v, c)' = HeadLead(v, c) - Heads(c)
    <3>1. cube[c].step <= vec[v].step + 1 /\ cube[c].step \in Int
      BY PairOrder, CubeOrder
    <3> QED  BY <1>1, <1>6, <2>1, <3>1 DEF BlockLead, HeadLead, Lead
  <2> QED  BY <1>3, <1>4, <1>5, <1>7, <2>1, <2>2, <2>3
<1>8. CASE ~(vec[v].step < StepNum)
  <2>1. vec'[v].step = vec[v].step /\ vec'[v].at = "done"
    BY <1>2, <1>8 DEF Core
  <2>2. BlocksTaken(v)' = Blocks(c) /\ HeadsReady(v)' = Heads(c) /\ HeadsTaken(v)' = Heads(c)
    BY <1>1, <2>1 DEF BlocksTaken, HeadsReady, HeadsTaken
  <2>3. BlockLead(v, c)' = BlockLead(v, c) /\ HeadLead(v, c)' = HeadLead(v, c)
    BY <2>1, LeadFrame
  <2> QED  BY <1>3, <1>4, <1>5, <1>8, <2>1, <2>2, <2>3
<1> QED  BY <1>7, <1>8
LEMMA EndSplitNKeeps ==
  ASSUME IInv, NEW v \in Vecs, NEW c \in Cubes, CubeOf(v) = c, EndSplitN(v)
  PROVE  IInv'
<1>1. /\ TypeInv /\ VecInv(v) /\ FlagsOf(v, c) /\ Heads(c) \in Nat /\ Blocks(c) \in Nat
      /\ \A w \in Vecs : VecBarrier(v, w)
  BY VecStepFacts
<1>2. /\ vec[v].at = "SplitN" /\ vec[v].idx = Blocks(c) /\ SplitN
      /\ BlocksTaken(v) = Blocks(c) /\ HeadsReady(v) = Heads(c) /\ HeadsTaken(v) = 0
      /\ Roped(v) = vec[v].step
  <2>1. vec[v].at = "SplitN" /\ vec[v].idx = Blocks(c) /\ SplitN
    BY <1>1 DEF EndSplitN, VecAt, VecInv, VecPlace
  <2> QED
    BY <1>1, <2>1, VecOrder, HeadsWithinEnds
    DEF BlocksTaken, HeadsReady, HeadsTaken, Roped, VecCount
<1>3. VecMoves(v)
  BY <1>1 DEF VecMoves, EndSplitN, VecGoes, VecNextStep, TypeInv, flags
<1>4. /\ vec' \in [Vecs -> [at : VecPlaces, step : 1 .. StepNum, idx : Nat]]
      /\ VecPlace(v)'
      /\ CqTaken(v)' = CqTaken(v) /\ Normalized(v)' = Normalized(v)
      /\ NormShared(v)' = NormShared(v) /\ CkvKrTaken(v)' = CkvKrTaken(v)
      /\ Scattered(v)' = Scattered(v) /\ QcQrTaken(v)' = QcQrTaken(v)
      /\ Dequanted(v)' = Dequanted(v) /\ QcShared(v)' = QcShared(v)
      /\ Roped(v)' = Roped(v)
      /\ \/ /\ vec'[v].step = vec[v].step
            /\ BlocksTaken(v)' = Blocks(c) /\ HeadsReady(v)' = Heads(c)
            /\ launch.quantQn => HeadsTaken(v)' = 0
            /\ BlockLead(v, c)' = BlockLead(v, c) /\ HeadLead(v, c)' = HeadLead(v, c)
         \/ /\ vec'[v].step = vec[v].step + 1 /\ ~launch.quantQn
            /\ BlocksTaken(v)' = 0 /\ HeadsReady(v)' = 0
            /\ BlockLead(v, c)' = BlockLead(v, c) - Blocks(c)
            /\ HeadLead(v, c)' = HeadLead(v, c) - Heads(c)
  <2>1. CASE launch.quantQn
    <3>1. vec'[v] = Core("QuantQn", vec[v].step, 0)
      BY <1>1, <2>1 DEF EndSplitN, VecGoes, TypeInv
    <3>2. vec' \in [Vecs -> [at : VecPlaces, step : 1 .. StepNum, idx : Nat]]
      <4>1. VecGoes(v, "QuantQn", 0)
        BY <2>1 DEF EndSplitN
      <4>2. Core("QuantQn", vec[v].step, 0) \in [at : VecPlaces, step : 1 .. StepNum, idx : Nat]
        BY <1>1 DEF TypeInv, VecPlaces, Core
      <4> QED  BY <1>1, <4>1, <4>2 DEF VecGoes, TypeInv
    <3>3. VecPlace(v)'
      BY <1>1, <2>1, <3>1 DEF EndSplitN, VecPlace, VecAt, Core
    <3>4. Blocks(c)' = Blocks(c)
      BY DEF EndSplitN, Blocks, SplitN
    <3>5. /\ BlocksTaken(v)' = Blocks(c) /\ HeadsReady(v)' = Heads(c) /\ HeadsTaken(v)' = 0
      BY <3>1, <3>4 DEF Core, BlocksTaken, HeadsReady, HeadsTaken
    <3>6. BlockLead(v, c)' = BlockLead(v, c) /\ HeadLead(v, c)' = HeadLead(v, c)
      BY <3>1, LeadFrame DEF EndSplitN, Core
    <3> QED
      BY <1>1, <1>2, <3>1, <3>2, <3>3, <3>5, <3>6, VecOrder DEF Core, VecCount, CqTaken,
         Normalized,
         NormShared, CkvKrTaken, Scattered, QcQrTaken, Dequanted, QcShared, Roped
  <2>2. CASE ~launch.quantQn
    <3>1. VecNextStep(v) /\ launch' = launch /\ cube' = cube
      BY <2>2 DEF EndSplitN
    <3> QED  BY <1>1, <1>2, <2>2, <3>1, VecNextStepFacts
  <2> QED  BY <2>1, <2>2
<1>5. TypeInv'
  <2>1. qrOut' \in [Vecs -> Int]
    BY <1>1, VecOrder DEF TypeInv, EndSplitN
  <2> QED
    BY <1>1, <1>4, <2>1 DEF TypeInv, EndSplitN, flags
<1>6. VecInv(v)'
  <2>1. VecArrive(v)'
    BY <1>1, <1>4 DEF VecInv, VecArrive, EndSplitN, flags, SplitN, Dequant
  <2>2. Heads(CubeOf(v)) > 0 =>
          mmQcQrResDequant[v] = Filled(vec'[v].step, HeadsReady(v)', Heads(CubeOf(v)))
    <3>1. Heads(c) > 0 => mmQcQrResDequant[v] = Filled(vec[v].step, Heads(c), Heads(c))
      BY <1>1, <1>2 DEF VecInv, VecData
    <3>2. Heads(c) > 0 => mmQcQrResDequant[v] = [step |-> vec[v].step, done |-> Heads(c)]
      BY <3>1 DEF Filled
    <3>3. vec[v].step \in Nat /\ vec[v].step > 0
      BY <1>1, VecOrder
    <3>4. Filled(vec[v].step + 1, 0, Heads(c)) = [step |-> vec[v].step, done |-> Heads(c)]
      BY <1>1, <3>3, FilledAnew
    <3> QED  BY <1>4, <3>1, <3>2, <3>4
  <2>3. VecData(v)'
    BY <1>1, <1>2, <1>4, <2>2 DEF VecInv, VecData, EndSplitN, SplitN, Dequant
  <2> QED  BY <1>4, <2>1, <2>3 DEF VecInv
<1>7. FlagsOf(v, c)'
  <2>1. CubeSame(c)
    BY CubeFrame DEF EndSplitN
  <2>2. /\ BlocksDone(c) \in Int /\ HeadsDone(c) \in Int
        /\ BlockLead(v, c) \in Int /\ HeadLead(v, c) \in Int
    BY <1>1, CubeBounds, LeadFacts DEF IInv, CubeInv
  <2>3. toVec' = toVec /\ toCube' = toCube /\ launch' = launch
    BY DEF EndSplitN, flags
  <2> QED
    BY <1>1, <1>2, <1>4, <2>1, <2>2, <2>3 DEF FlagsOf, CubeSame, SplitN, Dequant
<1>8. VecAdvances(v) /\ VecPassed(v)
  BY <1>1, <1>4, VecOrder DEF VecAdvances, VecPassed, VecBarrier
<1> QED  BY <1>3, <1>5, <1>6, <1>7, <1>8, VecMovesKeep

LEMMA WaitQcQrKeeps ==
  ASSUME IInv, NEW v \in Vecs, NEW c \in Cubes, CubeOf(v) = c, WaitQcQr(v)
  PROVE  IInv'
<1>1. /\ TypeInv /\ VecInv(v) /\ FlagsOf(v, c) /\ Heads(c) \in Nat /\ Blocks(c) \in Nat
      /\ \A w \in Vecs : VecBarrier(v, w)
  BY VecStepFacts
<1>2. /\ vec[v].at = "WaitQcQr" /\ ~SplitN
      /\ vec'[v] = Core(IF Dequant THEN "DequantQc" ELSE "RopeQr", vec[v].step, 0)
  BY <1>1 DEF TypeInv, WaitQcQr, VecAt, VecGoes, VecInv, VecPlace, Dequant
<1>3. WaitForCube(v, 6)
  BY DEF WaitQcQr
<1>4. VecMoves(v)
  BY <1>1, <1>3, WaitForCubeFacts DEF VecMoves, WaitQcQr, VecGoes, Arrive, TypeInv
<1>5. TypeInv'
  BY <1>1, <1>3, WaitForCubeFacts DEF TypeInv, VecPlaces, WaitQcQr, VecGoes, Arrive, Core
<1>6. /\ QcQrTaken(v)' = QcQrTaken(v) + 1 /\ QcQrTaken(v)' = Scattered(v)
      /\ CqTaken(v)' = CqTaken(v) /\ Normalized(v)' = Normalized(v)
      /\ NormShared(v)' = NormShared(v) /\ CkvKrTaken(v)' = CkvKrTaken(v)
      /\ Scattered(v)' = Scattered(v) /\ Roped(v)' = Roped(v)
      /\ Dequanted(v)' = IF Dequant THEN Dequanted(v) ELSE Dequanted(v) + 1
      /\ Dequant => QcShared(v)' = QcShared(v)
      /\ HeadsTaken(v)' = HeadsTaken(v)
  BY <1>1, <1>2, VecOrder DEF Core, VecCount, CqTaken, Normalized, NormShared, CkvKrTaken,
     Scattered,
     QcQrTaken, Dequanted, QcShared, Roped, BlocksTaken, HeadsReady, HeadsTaken
<1>7. VecInv(v)'
  <2>1. VecPlace(v)'
    BY <1>1, <1>2 DEF VecPlace, VecAt, Core, WaitQcQr, SplitN, Dequant
  <2>2. VecArrive(v)'
    BY <1>1, <1>2, <1>6, VecOrder
    DEF VecInv, VecArrive, WaitQcQr, Arrive, TypeInv, SplitN, Dequant
  <2>3. VecData(v)'
    BY <1>1, <1>2, <1>6 DEF VecInv, VecData, WaitQcQr, SplitN, Dequant
  <2> QED  BY <2>1, <2>2, <2>3 DEF VecInv
<1>8. FlagsOf(v, c)'
  <2>1. CubeSame(c)
    BY CubeFrame DEF WaitQcQr
  <2>2. BlockLead(v, c)' = BlockLead(v, c) /\ HeadLead(v, c)' = HeadLead(v, c)
    BY <1>2, LeadFrame DEF Core, WaitQcQr
  <2>3. /\ toVec'[v][6] = toVec[v][6] - 1
        /\ \A g \in {4, 8, 10} : toVec'[v][g] = toVec[v][g]
    BY <1>1, <1>3, WaitForCubeFacts DEF TypeInv
  <2> QED
    BY <1>1, <1>2, <1>6, <2>1, <2>2, <2>3, CubeOrder, VecOrder
    DEF FlagsOf, CubeSame, SplitN, Dequant, WaitQcQr
<1>9. VecAdvances(v)
  BY <1>1, <1>6, VecOrder DEF VecAdvances
<1>10. VecPassed(v)
  BY <1>1, <1>6, VecOrder DEF VecPassed, VecBarrier
<1> QED  BY <1>4, <1>5, <1>7, <1>8, <1>9, <1>10, VecMovesKeep

LEMMA DequantQcKeeps ==
  ASSUME IInv, NEW v \in Vecs, NEW c \in Cubes, CubeOf(v) = c, DequantQc(v)
  PROVE  IInv'
<1>1. /\ TypeInv /\ VecInv(v) /\ FlagsOf(v, c) /\ Heads(c) \in Nat /\ Blocks(c) \in Nat
      /\ \A w \in Vecs : VecBarrier(v, w)
  BY VecStepFacts
<1>2. /\ vec[v].at = "DequantQc" /\ vec'[v] = Core("ShareQc", vec[v].step, 0)
      /\ AllArrived(v) /\ Dequant /\ ~SplitN
  BY <1>1 DEF TypeInv, DequantQc, VecAt, VecGoes, VecInv, VecPlace, Dequant, SplitN
<1>3. VecMoves(v)
  BY <1>1 DEF VecMoves, DequantQc, VecGoes, Arrive, TypeInv
<1>4. vec[v].step \in Int
  BY <1>1, VecOrder
<1>5. TypeInv'
  <2>1. mmQcQrResDequant' \in [Vecs -> [step : Int, done : Int]]
    BY <1>1, <1>4 DEF TypeInv, DequantQc
  <2> QED
    BY <1>1, <2>1 DEF TypeInv, VecPlaces, DequantQc, VecGoes, Arrive, Core
<1>6. /\ Dequanted(v)' = Dequanted(v) + 1 /\ Dequanted(v)' = vec[v].step
      /\ QcQrTaken(v) = vec[v].step
      /\ CqTaken(v)' = CqTaken(v) /\ Normalized(v)' = Normalized(v) /\ NormShared(v)' = NormShared(v)
      /\ CkvKrTaken(v)' = CkvKrTaken(v) /\ Scattered(v)' = Scattered(v) /\ QcQrTaken(v)' = QcQrTaken(v)
      /\ QcShared(v)' = QcShared(v) /\ Roped(v)' = Roped(v) /\ BlocksTaken(v)' = BlocksTaken(v)
      /\ HeadsReady(v)' = HeadsReady(v) /\ HeadsTaken(v)' = HeadsTaken(v)
  BY <1>1, <1>2, VecOrder DEF Core, VecCount, CqTaken, Normalized, NormShared, CkvKrTaken,
     Scattered,
     QcQrTaken, Dequanted, QcShared, Roped, BlocksTaken, HeadsReady, HeadsTaken
<1>7. VecInv(v)'
  <2>1. VecPlace(v)'
    BY <1>1, <1>2 DEF VecPlace, VecAt, Core, DequantQc, Dequant
  <2>2. VecArrive(v)'
    BY <1>1, <1>2, <1>6, VecOrder
    DEF VecInv, VecArrive, DequantQc, Arrive, TypeInv, SplitN, Dequant
  <2>3. \A k \in Nat : Dequanted(v)' = k /\ HasRows(v, k) => mmQcQrResDequant'[v].step = k
    BY <1>1, <1>6 DEF DequantQc, TypeInv
  <2>4. VecData(v)'
    BY <1>1, <1>2, <1>6, <2>3 DEF VecInv, VecData, DequantQc, SplitN, Dequant
  <2> QED  BY <2>1, <2>2, <2>4 DEF VecInv
<1>8. FlagsOf(v, c)'
  <2>1. CubeSame(c)
    BY CubeFrame DEF DequantQc
  <2>2. BlockLead(v, c)' = BlockLead(v, c) /\ HeadLead(v, c)' = HeadLead(v, c)
    BY <1>2, LeadFrame DEF Core, DequantQc
  <2> QED
    BY <1>1, <1>6, <2>1, <2>2 DEF FlagsOf, CubeSame, SplitN, Dequant, DequantQc
<1>9. VecAdvances(v)
  BY <1>1, <1>6, VecOrder DEF VecAdvances
<1>10. VecPassed(v)
  <2>1. \A w \in Vecs : QcQrTaken(v) <= QcQrTaken(w)
    BY <1>2, VecMet
  <2> QED
    BY <1>1, <1>6, <2>1 DEF VecPassed, VecBarrier
<1> QED  BY <1>3, <1>5, <1>7, <1>8, <1>9, <1>10, VecMovesKeep

LEMMA ShareQcKeeps ==
  ASSUME IInv, NEW v \in Vecs, NEW c \in Cubes, CubeOf(v) = c, ShareQc(v)
  PROVE  IInv'
<1>1. /\ TypeInv /\ VecInv(v) /\ FlagsOf(v, c) /\ Heads(c) \in Nat /\ Blocks(c) \in Nat
      /\ \A w \in Vecs : VecBarrier(v, w)
  BY VecStepFacts
<1>2. /\ vec[v].at = "ShareQc" /\ vec'[v] = Core("RopeQr", vec[v].step, 0)
      /\ AllArrived(v) /\ Dequant /\ ~SplitN
  BY <1>1 DEF TypeInv, ShareQc, VecAt, VecGoes, VecInv, VecPlace, Dequant, SplitN
<1>3. SetForCube(v, 6, 1)
  BY DEF ShareQc
<1>4. VecMoves(v)
  BY <1>1, <1>3, SetForCubeFacts DEF VecMoves, ShareQc, VecGoes, TypeInv
<1>5. TypeInv'
  BY <1>1, <1>3, SetForCubeFacts DEF TypeInv, VecPlaces, ShareQc, VecGoes, Core
<1>6. /\ QcShared(v)' = QcShared(v) + 1 /\ QcShared(v)' = Dequanted(v)
      /\ CqTaken(v)' = CqTaken(v) /\ Normalized(v)' = Normalized(v) /\ NormShared(v)' = NormShared(v)
      /\ CkvKrTaken(v)' = CkvKrTaken(v) /\ Scattered(v)' = Scattered(v) /\ QcQrTaken(v)' = QcQrTaken(v)
      /\ Dequanted(v)' = Dequanted(v) /\ Roped(v)' = Roped(v) /\ BlocksTaken(v)' = BlocksTaken(v)
      /\ HeadsReady(v)' = HeadsReady(v) /\ HeadsTaken(v)' = HeadsTaken(v)
  BY <1>1, <1>2, VecOrder DEF Core, VecCount, CqTaken, Normalized, NormShared, CkvKrTaken,
     Scattered,
     QcQrTaken, Dequanted, QcShared, Roped, BlocksTaken, HeadsReady, HeadsTaken
<1>7. VecInv(v)'
  <2>1. VecPlace(v)'
    BY <1>1, <1>2 DEF VecPlace, VecAt, Core, ShareQc, SplitN
  <2>2. VecArrive(v)'
    BY <1>1, <1>6 DEF VecInv, VecArrive, ShareQc, SplitN, Dequant
  <2>3. VecData(v)'
    BY <1>1, <1>2, <1>6 DEF VecInv, VecData, ShareQc, SplitN, Dequant
  <2> QED  BY <2>1, <2>2, <2>3 DEF VecInv
<1>8. FlagsOf(v, c)'
  <2>1. CubeSame(c)
    BY CubeFrame DEF ShareQc
  <2>2. BlockLead(v, c)' = BlockLead(v, c) /\ HeadLead(v, c)' = HeadLead(v, c)
    BY <1>2, LeadFrame DEF Core, ShareQc
  <2>3. /\ toCube'[v][6] = toCube[v][6] + 1
        /\ \A g \in {7, 9} : toCube'[v][g] = toCube[v][g]
    BY <1>1, <1>3, SetForCubeFacts DEF TypeInv
  <2> QED
    BY <1>1, <1>2, <1>6, <2>1, <2>2, <2>3, CubeOrder, VecOrder
    DEF FlagsOf, CubeSame, SplitN, Dequant, ShareQc
<1>9. VecAdvances(v)
  BY <1>1, <1>6, VecOrder DEF VecAdvances
<1>10. VecPassed(v)
  <2>1. \A w \in Vecs : Dequanted(v) <= Dequanted(w)
    BY <1>2, VecMet
  <2> QED
    BY <1>1, <1>6, <2>1 DEF VecPassed, VecBarrier
<1> QED  BY <1>4, <1>5, <1>7, <1>8, <1>9, <1>10, VecMovesKeep

LEMMA RopeQrKeeps ==
  ASSUME IInv, NEW v \in Vecs, NEW c \in Cubes, CubeOf(v) = c, RopeQr(v)
  PROVE  IInv'
<1>1. /\ TypeInv /\ VecInv(v) /\ FlagsOf(v, c) /\ Heads(c) \in Nat /\ Blocks(c) \in Nat
      /\ \A w \in Vecs : VecBarrier(v, w)
  BY VecStepFacts
<1>2. /\ vec[v].at = "RopeQr" /\ AllArrived(v) /\ ~SplitN /\ HeadsTaken(v) = 0
      /\ Roped(v) = vec[v].step - 1 /\ vec[v].step \in Int
  BY <1>1, VecOrder
  DEF RopeQr, MayRopeQr, VecAt, VecInv, VecPlace, HeadsTaken, Roped, VecCount
<1>3. VecMoves(v)
  BY <1>1 DEF VecMoves, RopeQr, VecGoes, VecNextStep, Arrive, TypeInv
<1>4. /\ vec' \in [Vecs -> [at : VecPlaces, step : 1 .. StepNum, idx : Nat]]
      /\ VecPlace(v)'
      /\ CqTaken(v)' = CqTaken(v) /\ Normalized(v)' = Normalized(v)
      /\ NormShared(v)' = NormShared(v) /\ CkvKrTaken(v)' = CkvKrTaken(v)
      /\ Scattered(v)' = Scattered(v) /\ QcQrTaken(v)' = QcQrTaken(v)
      /\ Dequanted(v)' = Dequanted(v) /\ QcShared(v)' = QcShared(v)
      /\ Roped(v)' = vec[v].step /\ QcQrTaken(v) = vec[v].step
      /\ launch.quantQn => /\ vec'[v].step = vec[v].step
                           /\ HeadsTaken(v)' = 0
                           /\ HeadLead(v, c)' = HeadLead(v, c)
  <2>1. CASE launch.quantQn
    <3>1. vec'[v] = Core("QuantQn", vec[v].step, 0)
      BY <1>1, <2>1 DEF RopeQr, VecGoes, TypeInv
    <3>2. vec' \in [Vecs -> [at : VecPlaces, step : 1 .. StepNum, idx : Nat]]
      <4>1. VecGoes(v, "QuantQn", 0)
        BY <2>1 DEF RopeQr
      <4>2. Core("QuantQn", vec[v].step, 0) \in [at : VecPlaces, step : 1 .. StepNum, idx : Nat]
        BY <1>1 DEF TypeInv, VecPlaces, Core
      <4> QED  BY <1>1, <4>1, <4>2 DEF VecGoes, TypeInv
    <3>3. VecPlace(v)'
      BY <1>1, <2>1, <3>1 DEF RopeQr, VecPlace, VecAt, Core
    <3>4. HeadsTaken(v)' = 0
      BY <3>1 DEF Core, HeadsTaken
    <3>5. HeadLead(v, c)' = HeadLead(v, c)
      BY <3>1, LeadFrame DEF RopeQr, Core
    <3> QED
      BY <1>1, <1>2, <3>1, <3>2, <3>3, <3>4, <3>5, VecOrder DEF Core, VecCount, CqTaken,
         Normalized,
         NormShared, CkvKrTaken, Scattered, QcQrTaken, Dequanted, QcShared, Roped
  <2>2. CASE ~launch.quantQn
    <3>1. VecNextStep(v) /\ launch' = launch /\ cube' = cube
      BY <2>2 DEF RopeQr
    <3> QED  BY <1>1, <1>2, <2>2, <3>1, VecNextStepFacts
  <2> QED  BY <2>1, <2>2
<1>5. TypeInv'
  <2>1. qrOut' \in [Vecs -> Int] /\ vecArrived' \in [Vecs -> Int]
    BY <1>1, <1>2 DEF TypeInv, RopeQr, Arrive
  <2> QED
    BY <1>1, <1>4, <2>1 DEF TypeInv, RopeQr
<1>6. VecInv(v)'
  <2>1. VecArrive(v)'
    BY <1>1, <1>2, <1>4, VecOrder
    DEF VecInv, VecArrive, RopeQr, Arrive, TypeInv, SplitN, Dequant
  <2>2. \A k \in Nat : 1 <= k /\ k <= vec[v].step /\ HasRows(v, k) => qrOut'[v] >= k
    <3> SUFFICES ASSUME NEW k \in Nat, 1 <= k, k <= vec[v].step, HasRows(v, k)
                 PROVE  qrOut'[v] >= k
      OBVIOUS
    <3>1. qrOut'[v] = IF HasRows(v, vec[v].step) THEN vec[v].step ELSE qrOut[v]
      BY <1>1 DEF RopeQr, TypeInv
    <3>2. CASE k = vec[v].step
      BY <1>2, <3>1, <3>2
    <3>3. CASE k < vec[v].step
      <4>1. k <= Roped(v)
        BY <1>2, <3>3
      <4>2. qrOut[v] >= k
        BY <1>1, <1>2, <4>1 DEF VecInv, VecData
      <4> QED  BY <1>2, <3>1, <3>3, <4>2
    <3> QED  BY <1>2, <3>2, <3>3
  <2>3. VecData(v)'
    BY <1>1, <1>2, <1>4, <2>2 DEF VecInv, VecData, RopeQr, SplitN, Dequant
  <2> QED  BY <1>4, <2>1, <2>3 DEF VecInv
<1>7. FlagsOf(v, c)'
  <2>1. CubeSame(c)
    BY CubeFrame DEF RopeQr
  <2>2. toVec' = toVec /\ toCube' = toCube /\ launch' = launch
    BY DEF RopeQr
  <2> QED
    BY <1>1, <1>2, <1>4, <2>1, <2>2 DEF FlagsOf, CubeSame, SplitN, Dequant
<1>8. VecAdvances(v)
  BY <1>1, <1>4, VecOrder DEF VecAdvances
<1>9. VecPassed(v)
  <2>1. \A w \in Vecs : QcQrTaken(v) <= QcQrTaken(w)
    BY <1>2, VecMet
  <2> QED
    BY <1>1, <1>4, <2>1 DEF VecPassed, VecBarrier
<1> QED  BY <1>3, <1>5, <1>6, <1>7, <1>8, <1>9, VecMovesKeep

LEMMA QuantQnKeeps ==
  ASSUME IInv, NEW v \in Vecs, NEW c \in Cubes, CubeOf(v) = c, DynamicQuantQnAndMulQr(v)
  PROVE  IInv'
<1>1. /\ TypeInv /\ VecInv(v) /\ FlagsOf(v, c) /\ Heads(c) \in Nat /\ Blocks(c) \in Nat
      /\ \A w \in Vecs : VecBarrier(v, w)
  BY VecStepFacts
<1>2. /\ vec[v].at = "QuantQn" /\ vec'[v] = Core("QuantQn", vec[v].step, vec[v].idx + 1)
      /\ vec[v].idx \in Nat /\ vec[v].idx < Heads(c) /\ launch.quantQn
  BY <1>1
  DEF TypeInv, DynamicQuantQnAndMulQr, MayQuantQn, VecAt, VecGoes, VecInv, VecPlace
<1>3. WaitForCube(v, 8)
  BY DEF DynamicQuantQnAndMulQr
<1>4. VecMoves(v)
  BY <1>1, <1>3, WaitForCubeFacts DEF VecMoves, DynamicQuantQnAndMulQr, VecGoes, TypeInv
<1>5. TypeInv'
  <2>1. vec[v].idx + 1 \in Nat
    BY <1>2
  <2> QED
    BY <1>1, <1>3, <2>1, WaitForCubeFacts
    DEF TypeInv, VecPlaces, DynamicQuantQnAndMulQr, VecGoes, Core
<1>6. /\ HeadsTaken(v)' = HeadsTaken(v) + 1 /\ HeadsTaken(v) \in Int
      /\ CqTaken(v)' = CqTaken(v) /\ Normalized(v)' = Normalized(v) /\ NormShared(v)' = NormShared(v)
      /\ CkvKrTaken(v)' = CkvKrTaken(v) /\ Scattered(v)' = Scattered(v) /\ QcQrTaken(v)' = QcQrTaken(v)
      /\ Dequanted(v)' = Dequanted(v) /\ QcShared(v)' = QcShared(v) /\ Roped(v)' = Roped(v)
      /\ HeadsReady(v)' = HeadsReady(v)
  BY <1>1, <1>2, VecOrder DEF Core, VecCount, CqTaken, Normalized, NormShared, CkvKrTaken,
     Scattered,
     QcQrTaken, Dequanted, QcShared, Roped, BlocksTaken, HeadsReady, HeadsTaken
<1>7. BlocksTaken(v)' = BlocksTaken(v)
  <2>1. Blocks(CubeOf(v))' = Blocks(CubeOf(v))
    BY DEF DynamicQuantQnAndMulQr, Blocks, SplitN
  <2> QED  BY <1>2, <2>1 DEF BlocksTaken, Core
<1>8. VecInv(v)'
  <2>1. VecPlace(v)'
    BY <1>1, <1>2 DEF VecPlace, VecAt, Core, DynamicQuantQnAndMulQr
  <2>2. VecArrive(v)'
    BY <1>1, <1>6 DEF VecInv, VecArrive, DynamicQuantQnAndMulQr, SplitN, Dequant
  <2>3. VecData(v)'
    BY <1>1, <1>2, <1>6
    DEF VecInv, VecData, DynamicQuantQnAndMulQr, SplitN, Dequant, Filled, Core
  <2> QED  BY <2>1, <2>2, <2>3 DEF VecInv
<1>9. FlagsOf(v, c)'
  <2>1. CubeSame(c)
    BY CubeFrame DEF DynamicQuantQnAndMulQr
  <2>2. BlockLead(v, c)' = BlockLead(v, c) /\ HeadLead(v, c)' = HeadLead(v, c)
    BY <1>2, LeadFrame DEF Core, DynamicQuantQnAndMulQr
  <2>3. /\ toVec'[v][8] = toVec[v][8] - 1
        /\ \A g \in {4, 6, 10} : toVec'[v][g] = toVec[v][g]
    BY <1>1, <1>3, WaitForCubeFacts DEF TypeInv
  <2>4. HeadsDone(c) \in Int /\ HeadLead(v, c) \in Int
    BY <1>1, CubeBounds, LeadFacts DEF IInv, CubeInv
  <2> QED
    BY <1>1, <1>2, <1>6, <1>7, <2>1, <2>2, <2>3, <2>4
    DEF FlagsOf, CubeSame, SplitN, Dequant, DynamicQuantQnAndMulQr
<1>10. VecAdvances(v) /\ VecPassed(v)
  BY <1>1, <1>6, VecOrder DEF VecAdvances, VecPassed, VecBarrier
<1> QED  BY <1>4, <1>5, <1>8, <1>9, <1>10, VecMovesKeep

LEMMA EndQuantQnKeeps ==
  ASSUME IInv, NEW v \in Vecs, NEW c \in Cubes, CubeOf(v) = c, EndQuantQn(v)
  PROVE  IInv'
<1>1. /\ TypeInv /\ VecInv(v) /\ FlagsOf(v, c) /\ Heads(c) \in Nat /\ Blocks(c) \in Nat
      /\ \A w \in Vecs : VecBarrier(v, w)
  BY VecStepFacts
<1>2. /\ vec[v].at = "QuantQn" /\ vec[v].idx = Heads(c)
      /\ BlocksTaken(v) = Blocks(c) /\ HeadsReady(v) = Heads(c) /\ HeadsTaken(v) = Heads(c)
      /\ Roped(v) = vec[v].step
  BY <1>1, VecOrder
  DEF EndQuantQn, VecAt, BlocksTaken, HeadsReady, HeadsTaken, Roped, VecCount
<1>3. VecNextStep(v) /\ launch' = launch /\ cube' = cube
  BY DEF EndQuantQn
<1>4. VecMoves(v)
  BY <1>1 DEF VecMoves, EndQuantQn, VecNextStep, TypeInv, flags
<1>5. /\ vec' \in [Vecs -> [at : VecPlaces, step : 1 .. StepNum, idx : Nat]]
      /\ VecPlace(v)'
      /\ CqTaken(v)' = CqTaken(v) /\ Normalized(v)' = Normalized(v)
      /\ NormShared(v)' = NormShared(v) /\ CkvKrTaken(v)' = CkvKrTaken(v)
      /\ Scattered(v)' = Scattered(v) /\ QcQrTaken(v)' = QcQrTaken(v)
      /\ Dequanted(v)' = Dequanted(v) /\ QcShared(v)' = QcShared(v)
      /\ Roped(v)' = Roped(v)
      /\ \/ /\ vec'[v].step = vec[v].step
            /\ BlocksTaken(v)' = Blocks(c)
            /\ HeadsReady(v)' = Heads(c) /\ HeadsTaken(v)' = Heads(c)
            /\ BlockLead(v, c)' = BlockLead(v, c) /\ HeadLead(v, c)' = HeadLead(v, c)
         \/ /\ vec'[v].step = vec[v].step + 1
            /\ BlocksTaken(v)' = 0 /\ HeadsReady(v)' = 0 /\ HeadsTaken(v)' = 0
            /\ BlockLead(v, c)' = BlockLead(v, c) - Blocks(c)
            /\ HeadLead(v, c)' = HeadLead(v, c) - Heads(c)
  BY <1>1, <1>2, <1>3, VecNextStepFacts
<1>6. TypeInv'
  BY <1>1, <1>5 DEF TypeInv, EndQuantQn, flags
<1>7. VecInv(v)'
  <2>1. VecArrive(v)'
    BY <1>1, <1>5 DEF VecInv, VecArrive, EndQuantQn, flags, SplitN, Dequant
  <2>2. SplitN /\ Heads(CubeOf(v)) > 0 =>
          mmQcQrResDequant[v] = Filled(vec'[v].step, HeadsReady(v)', Heads(CubeOf(v)))
    <3>1. SplitN /\ Heads(c) > 0 =>
            mmQcQrResDequant[v] = Filled(vec[v].step, Heads(c), Heads(c))
      BY <1>1, <1>2 DEF VecInv, VecData
    <3>2. SplitN /\ Heads(c) > 0 =>
            mmQcQrResDequant[v] = [step |-> vec[v].step, done |-> Heads(c)]
      BY <3>1 DEF Filled
    <3>3. vec[v].step \in Nat /\ vec[v].step > 0
      BY <1>1, VecOrder
    <3>4. Filled(vec[v].step + 1, 0, Heads(c)) = [step |-> vec[v].step, done |-> Heads(c)]
      BY <1>1, <3>3, FilledAnew
    <3> QED  BY <1>5, <3>1, <3>2, <3>4
  <2>3. VecData(v)'
    BY <1>1, <1>5, <2>2 DEF VecInv, VecData, EndQuantQn, SplitN, Dequant
  <2> QED  BY <1>5, <2>1, <2>3 DEF VecInv
<1>8. FlagsOf(v, c)'
  <2>1. CubeSame(c)
    BY <1>3, CubeFrame
  <2>2. /\ BlocksDone(c) \in Int /\ HeadsDone(c) \in Int
        /\ BlockLead(v, c) \in Int /\ HeadLead(v, c) \in Int
    BY <1>1, CubeBounds, LeadFacts DEF IInv, CubeInv
  <2>3. toVec' = toVec /\ toCube' = toCube
    BY DEF EndQuantQn, flags
  <2> QED
    BY <1>1, <1>2, <1>3, <1>5, <2>1, <2>2, <2>3 DEF FlagsOf, CubeSame, SplitN, Dequant
<1>9. VecAdvances(v) /\ VecPassed(v)
  BY <1>1, <1>5, VecOrder DEF VecAdvances, VecPassed, VecBarrier
<1> QED  BY <1>4, <1>6, <1>7, <1>8, <1>9, VecMovesKeep
(***************************************************************************)
(* The invariant holds of every behaviour.                                 *)
(***************************************************************************)
LEMMA InitHolds ==
  ASSUME Init PROVE IInv
<1>1. StepNum \in Nat /\ 1 <= StepNum
  BY StepFacts
<1>2. TypeInv
  BY <1>1 DEF Init, TypeInv, Core, CubePlaces, VecPlaces
<1>3. ASSUME NEW c \in Cubes
      PROVE  /\ cube[c].at = "MatmulCq" /\ cube[c].step = 1
             /\ CqDone(c) = 0 /\ CkvKrDone(c) = 0 /\ NormTaken(c) = 0 /\ QcQrDone(c) = 0
             /\ QcTaken(c) = 0 /\ AtEnd(c) = 0 /\ BlocksDone(c) = 0 /\ HeadsDone(c) = 0
  <2>1. cube[c].at = "MatmulCq" /\ cube[c].step = 1
    BY DEF Init, Core
  <2> QED
    BY <2>1 DEF CubeCount, CqDone, CkvKrDone, NormTaken, QcQrDone, QcTaken, AtEnd, BlocksDone,
       HeadsDone
<1>4. ASSUME NEW v \in Vecs
      PROVE  /\ vec[v].at = "WaitCq" /\ vec[v].step = 1
             /\ CqTaken(v) = 0 /\ Normalized(v) = 0 /\ NormShared(v) = 0 /\ CkvKrTaken(v) = 0
             /\ Scattered(v) = 0 /\ QcQrTaken(v) = 0 /\ Dequanted(v) = 0 /\ QcShared(v) = 0
             /\ Roped(v) = 0 /\ BlocksTaken(v) = 0 /\ HeadsReady(v) = 0 /\ HeadsTaken(v) = 0
  <2>1. vec[v].at = "WaitCq" /\ vec[v].step = 1
    BY DEF Init, Core
  <2> QED
    BY <2>1 DEF VecCount, CqTaken, Normalized, NormShared, CkvKrTaken, Scattered,
     QcQrTaken, Dequanted, QcShared, Roped, BlocksTaken, HeadsReady, HeadsTaken
<1>5. \A n \in Nat : Filled(1, 0, n) = [step |-> 0, done |-> 0]
  BY DEF Filled
<1>6. ASSUME NEW c \in Cubes PROVE CubeInv(c)
  <2>1. CubePlace(c) /\ CubeArrive(c)
    BY <1>3 DEF CubePlace, CubeArrive, CubeAt, Init
  <2>2. CubeData(c)
    BY <1>3, <1>5, HeadFacts DEF CubeData, Init
  <2> QED  BY <2>1, <2>2 DEF CubeInv
<1>7. ASSUME NEW v \in Vecs PROVE VecInv(v)
  <2>1. VecPlace(v) /\ VecArrive(v)
    BY <1>4 DEF VecPlace, VecArrive, VecAt, Init
  <2>2. Heads(CubeOf(v)) \in Nat
    BY CoreFacts, HeadFacts
  <2>3. VecData(v)
    BY <1>4, <1>5, <2>2 DEF VecData, Init
  <2> QED  BY <2>1, <2>3 DEF VecInv
<1>8. ASSUME NEW c \in Cubes, NEW v \in Vecs PROVE FlagsOf(v, c)
  <2>1. BlockLead(v, c) = 0 /\ HeadLead(v, c) = 0
    BY <1>3, <1>4 DEF BlockLead, HeadLead, Lead
  <2>2. /\ \A f \in VecFlags : toVec[v][f] = 0
        /\ toCube[v][6] = 0 /\ toCube[v][7] = 0 /\ toCube[v][9] = 1
    BY DEF Init
  <2> QED
    BY <1>3, <1>4, <2>1, <2>2 DEF FlagsOf
<1>9. \A c, d \in Cubes : CubeBarrier(c, d)
  BY <1>3 DEF CubeBarrier
<1>10. \A v, w \in Vecs : VecBarrier(v, w)
  BY <1>4 DEF VecBarrier
<1> QED  BY <1>2, <1>6, <1>7, <1>8, <1>9, <1>10 DEF IInv

LEMMA StutterKeeps ==
  ASSUME IInv, UNCHANGED vars PROVE IInv'
<1>1. /\ launch' = launch /\ cube' = cube /\ vec' = vec /\ toVec' = toVec /\ toCube' = toCube
      /\ vecArrived' = vecArrived /\ cubeArrived' = cubeArrived /\ mmCqRes' = mmCqRes
      /\ mmCkvKrRes' = mmCkvKrRes /\ rmsNormCqRes' = rmsNormCqRes /\ mmQcQrRes' = mmQcQrRes
      /\ mmQcQrResDequant' = mmQcQrResDequant /\ qrOut' = qrOut /\ mmQnRes' = mmQnRes
  BY DEF vars, flags
<1>2. PICK c \in Cubes : TRUE
  BY CoresAssumption DEF Cubes
<1>3. CubeMoves(c)
  BY <1>1 DEF CubeMoves
<1>4. TypeInv'
  BY <1>1 DEF IInv, TypeInv
<1>5. CubeSame(c) /\ Blocks(c)' = Blocks(c)
  BY <1>1, CubeFrame DEF Blocks, SplitN
<1>6. CubeInv(c)'
  BY <1>1, <1>5 DEF IInv, CubeInv, CubePlace, CubeArrive, CubeData, CubeAt, CubeSame, Filled,
     Plain, SplitN
<1>7. ASSUME NEW v \in Vecs, CubeOf(v) = c PROVE FlagsOf(v, c)'
  <2>1. VecSame(v) /\ FlagsOf(v, c)
    BY <1>1, <1>7, VecFrame DEF IInv
  <2>2. BlockLead(v, c)' = BlockLead(v, c) /\ HeadLead(v, c)' = HeadLead(v, c)
    BY <1>1, LeadFrame
  <2> QED
    BY <1>1, <1>5, <2>1, <2>2 DEF FlagsOf, CubeSame, VecSame, SplitN, Dequant
<1>8. \A d \in Cubes : CubeBarrier(c, d)
  BY DEF IInv
<1> QED
  BY <1>3, <1>4, <1>5, <1>6, <1>7, <1>8, CubeMovesKeep, CubeOrder DEF IInv, CubeBarrier, CubeSame

LEMMA NextKeeps ==
  ASSUME IInv, FewHeads, [Next]_vars PROVE IInv'
<1>1. ASSUME NEW c \in Cubes, Aic(c) PROVE IInv'
  BY <1>1, MatmulCqKeeps, MatmulCkvKrKeeps, WaitNormKeeps, MatmulQcQrKeeps, PreloadQnAndSyncKeeps,
     WaitQcKeeps, MatmulQnKeeps, CubeNextStepKeeps, LastWaitKeeps DEF Aic
<1>2. ASSUME NEW v \in Vecs, Aiv(v) PROVE IInv'
  <2>1. CubeOf(v) \in Cubes
    BY CoreFacts
  <2> QED
    BY <1>2, <2>1, WaitCqKeeps, RmsNormCqKeeps, ShareNormKeeps, WaitCkvKrKeeps, ScatterCkvKrKeeps,
       DequantAndRopeKeeps, EndSplitNKeeps, WaitQcQrKeeps, DequantQcKeeps, ShareQcKeeps,
       RopeQrKeeps, QuantQnKeeps, EndQuantQnKeeps DEF Aiv
<1> QED  BY <1>1, <1>2, StutterKeeps DEF Next

(* Every counter of the flag protocol is, in every state of every launch,  *)
(* what its setters have set less what its waiters have taken.             *)
THEOREM Invariance ==
  ASSUME FewHeads PROVE Spec => []IInv
<1>1. Init => IInv
  BY InitHolds
<1>2. IInv /\ [Next]_vars => IInv'
  BY NextKeeps
<1> QED  BY <1>1, <1>2, PTL DEF Spec
(***************************************************************************)
(* What the counts say about the data.                                     *)
(***************************************************************************)

(* A cube core and a vector core of its own.                               *)
LEMMA Pair ==
  ASSUME IInv, NEW c \in Cubes, NEW v \in Vecs, CubeOf(v) = c
  PROVE  /\ FlagsOf(v, c)
         /\ CqTaken(v) <= CqDone(c)
         /\ ~SplitN => QcQrTaken(v) <= QcQrDone(c)
         /\ CkvKrTaken(v) <= CkvKrDone(c)
         /\ NormTaken(c) <= NormShared(v)
         /\ Dequant => QcTaken(c) <= QcShared(v)
         /\ cube[c].step <= vec[v].step + 1
         /\ vec[v].step <= cube[c].step + 1
<1>1. FlagsOf(v, c) /\ TypeInv
  BY DEF IInv
<1> QED  BY <1>1, PairOrder

LEMMA CqHolds == ASSUME IInv PROVE CqOfStep
<1> SUFFICES ASSUME NEW v \in Vecs, MayRmsNormCq(v), NEW c \in 0 .. CqBlockNum - 1
             PROVE  mmCqRes[c] = vec[v].step
  BY DEF CqOfStep
<1>1. c \in Cubes /\ c < CqBlockNum
  BY CoresAssumption DEF Cubes
<1>2. PICK w \in Vecs : CubeOf(w) = c
  BY <1>1, CoreFacts
<1>3. TypeInv /\ mmCqRes[c] = CqDone(c)
  BY <1>1 DEF IInv, CubeInv, CubeData
<1>4. CqTaken(v) = vec[v].step /\ Normalized(v) = vec[v].step - 1
  BY <1>3, VecOrder DEF MayRmsNormCq, VecAt, CqTaken, Normalized, VecCount
<1>5. CqTaken(v) <= CqTaken(w)
  BY VecMet DEF MayRmsNormCq
<1>6. CqTaken(w) <= CqDone(c) /\ NormTaken(c) <= NormShared(w)
  BY <1>1, <1>2, Pair
<1>7. NormShared(w) <= Normalized(v)
  BY DEF IInv, VecBarrier
<1> QED  BY <1>1, <1>3, <1>4, <1>5, <1>6, <1>7, CubeOrder, VecOrder

(* Every row is normalized once some core knows that all are.              *)
LEMMA NormedFacts ==
  ASSUME IInv, NEW k \in Nat, \A w \in Vecs : Normalized(w) = k
  PROVE  \A w \in Vecs : HasRows(w, k) => rmsNormCqRes[w] = k
BY DEF IInv, VecInv, VecData

LEMMA NormHolds == ASSUME IInv PROVE NormOfStep
<1>1. TypeInv
  BY DEF IInv
<1>2. ASSUME NEW v \in Vecs, MayShareNorm(v), NEW w \in Vecs, HasRows(w, vec[v].step)
      PROVE  rmsNormCqRes[w] = vec[v].step
  <2>1. Normalized(v) = vec[v].step /\ CqTaken(v) = vec[v].step
    BY <1>1, <1>2, VecOrder DEF MayShareNorm, VecAt, Normalized, CqTaken, VecCount
  <2>2. \A u \in Vecs : Normalized(v) <= Normalized(u)
    BY <1>2, VecMet DEF MayShareNorm
  <2>3. \A u \in Vecs : Normalized(u) <= CqTaken(v)
    BY DEF IInv, VecBarrier
  <2>4. \A u \in Vecs : Normalized(u) = vec[v].step
    BY <1>1, <2>1, <2>2, <2>3, VecOrder
  <2>5. vec[v].step \in Nat
    BY <1>1, VecOrder
  <2> QED  BY <1>2, <2>4, <2>5, NormedFacts
<1>3. ASSUME NEW c \in Cubes, CubeAt(c, "MatmulQcQr")
      PROVE  /\ \A w \in Vecs : HasRows(w, cube[c].step) => rmsNormCqRes[w] = cube[c].step
             /\ Plain => \A d \in 0 .. CqBlockNum - 1 : mmCqRes[d] = cube[c].step
  <2>1. PICK v \in Vecs : CubeOf(v) = c
    BY CoreFacts
  <2>2. /\ NormTaken(c) = cube[c].step /\ CqDone(c) = cube[c].step
        /\ QcQrDone(c) = cube[c].step - 1
    BY <1>1, <1>3, CubeOrder DEF CubeAt, NormTaken, CqDone, QcQrDone, CubeCount
  <2>3. NormTaken(c) <= NormShared(v) /\ CqTaken(v) <= CqDone(c)
    BY <2>1, Pair
  <2>4. \A w \in Vecs : NormShared(v) <= Normalized(w) /\ Normalized(w) <= CqTaken(v)
    BY DEF IInv, VecBarrier
  <2>5. cube[c].step \in Nat
    BY <1>1, CubeOrder
  <2>6. \A w \in Vecs : Normalized(w) = cube[c].step
    BY <1>1, <2>2, <2>3, <2>4, <2>5, VecOrder
  <2>7. ASSUME Plain, NEW d \in 0 .. CqBlockNum - 1 PROVE mmCqRes[d] = cube[c].step
    <3>1. d \in Cubes /\ d < CqBlockNum
      BY CoresAssumption DEF Cubes
    <3>2. mmCqRes[d] = CqDone(d) /\ QcTaken(d) <= QcQrDone(c)
      BY <2>7, <3>1 DEF IInv, CubeInv, CubeData, CubeBarrier
    <3>3. PICK w \in Vecs : CubeOf(w) = d
      BY <3>1, CoreFacts
    <3>4. CqTaken(w) <= CqDone(d) /\ Normalized(w) = cube[c].step
      BY <2>6, <3>1, <3>3, Pair
    <3> QED
      BY <1>1, <2>2, <2>5, <3>1, <3>2, <3>4, CubeOrder, VecOrder
  <2> QED  BY <2>5, <2>6, <2>7, NormedFacts
<1> QED  BY <1>2, <1>3 DEF NormOfStep, Plain

LEMMA CkvKrHolds == ASSUME IInv PROVE CkvKrOfSyncedStep
<1> SUFFICES ASSUME Dequant, NEW v \in Vecs, MayScatterCkvKr(v), NEW c \in 0 .. CkvKrBlockNum - 1
             PROVE  mmCkvKrRes[c] = vec[v].step
  BY DEF CkvKrOfSyncedStep, CkvKrOfStep, Dequant
<1>1. c \in Cubes /\ c < CkvKrBlockNum
  BY CoresAssumption DEF Cubes
<1>2. PICK w \in Vecs : CubeOf(w) = c
  BY <1>1, CoreFacts
<1>3. TypeInv /\ mmCkvKrRes[c] = CkvKrDone(c)
  BY <1>1 DEF IInv, CubeInv, CubeData
<1>4. CkvKrTaken(v) = vec[v].step /\ Dequanted(v) = vec[v].step - 1
  BY <1>3, VecOrder DEF MayScatterCkvKr, VecAt, CkvKrTaken, Dequanted, VecCount
<1>5. CkvKrTaken(v) <= CkvKrTaken(w)
  BY VecMet DEF MayScatterCkvKr
<1>6. CkvKrTaken(w) <= CkvKrDone(c) /\ QcTaken(c) <= QcShared(w)
  BY <1>1, <1>2, Pair
<1>7. QcShared(w) <= Dequanted(v)
  BY DEF IInv, VecBarrier
<1> QED  BY <1>1, <1>3, <1>4, <1>5, <1>6, <1>7, CubeOrder, VecOrder

(* A cube core that has finished the up-Q product of step k, and has not   *)
(* seen the normalized rows of the next step, still holds that of step k.  *)
LEMMA QcQrHeld ==
  ASSUME IInv, NEW k \in Nat, NEW c \in Cubes, Blocks(c) > 0, k > 0,
         k <= QcQrDone(c), NormTaken(c) <= k
  PROVE  mmQcQrRes[c] = [step |-> k, done |-> Blocks(c)]
<1>1. /\ TypeInv /\ Blocks(c) \in Nat
      /\ mmQcQrRes[c] = Filled(cube[c].step, BlocksDone(c), Blocks(c))
  BY HeadFacts DEF IInv, CubeInv, CubeData
<1>2. cube[c].step = k \/ cube[c].step = k + 1
  BY <1>1, CubeOrder
<1>3. CASE cube[c].step = k
  <2>1. QcQrDone(c) = cube[c].step
    BY <1>1, <1>3, CubeOrder
  <2>2. cube[c].at \notin {"MatmulCq", "MatmulCkvKr", "WaitNorm", "MatmulQcQr"}
    BY <1>3, <2>1 DEF QcQrDone, CubeCount
  <2>3. BlocksDone(c) = Blocks(c)
    BY <2>2 DEF BlocksDone
  <2> QED  BY <1>1, <1>3, <2>3 DEF Filled
<1>4. CASE cube[c].step = k + 1
  <2>1. NormTaken(c) # cube[c].step
    BY <1>1, <1>4, CubeOrder
  <2>2. cube[c].at \in {"MatmulCq", "MatmulCkvKr", "WaitNorm"}
    BY <1>4, <2>1 DEF NormTaken, CubeCount
  <2>3. BlocksDone(c) = 0
    BY <2>2 DEF BlocksDone
  <2> QED  BY <1>1, <1>4, <2>3, FilledAnew
<1> QED  BY <1>2, <1>3, <1>4

LEMMA QcQrHolds == ASSUME IInv PROVE QcQrOfStep
<1>1. TypeInv
  BY DEF IInv
<1>2. ASSUME NEW v \in Vecs, MayDequantAndRope(v)
      PROVE  LET qcqr == mmQcQrRes[CubeOf(v)]
             IN /\ qcqr.step = vec[v].step
                /\ \A h \in NewHeads(v) : h * HeadWidth + QcWidth <= qcqr.done * BaseN
  <2> DEFINE c == CubeOf(v)
             k == vec[v].step
             i == vec[v].idx
  <2>1. /\ c \in Cubes /\ FlagsOf(v, c) /\ CubeInv(c) /\ VecInv(v)
        /\ Heads(c) \in Nat /\ Blocks(c) \in Nat /\ k \in Nat /\ k > 0 /\ i \in Nat
    BY <1>1, CoreFacts, HeadFacts, VecOrder DEF IInv, TypeInv
  <2>2. vec[v].at = "SplitN" /\ i < Blocks(c) /\ toVec[v][10] > 0 /\ SplitN
    BY <1>2, <2>1 DEF MayDequantAndRope, VecAt, VecInv, VecPlace
  <2> HIDE DEF c, k, i
  <2>3. BlocksDone(c) - i + BlockLead(v, c) > 0
    BY <2>1, <2>2 DEF FlagsOf, BlocksTaken, i
  <2>4. BlocksDone(c) \in 0 .. Blocks(c)
    BY <1>1, <2>1, CubeBounds DEF CubeInv
  <2>5. mmQcQrRes[c] = Filled(cube[c].step, BlocksDone(c), Blocks(c))
    BY <2>1, <2>2 DEF CubeInv, CubeData
  <2>6. NormTaken(c) <= NormShared(v) /\ cube[c].step <= k + 1 /\ cube[c].step \in Int
    BY <1>1, <2>1, Pair, CubeOrder DEF c, k
  <2>7. mmQcQrRes[c].step = k /\ mmQcQrRes[c].done \in Nat /\ i + 1 <= mmQcQrRes[c].done
    <3>1. CASE cube[c].step = k
      <4>1. BlocksDone(c) > i
        BY <2>1, <2>3, <2>4, <3>1 DEF BlockLead, Lead, k
      <4> QED  BY <2>1, <2>4, <2>5, <3>1, <4>1 DEF Filled
    <3>2. CASE cube[c].step = k + 1
      <4>1. NormTaken(c) # cube[c].step
        BY <1>1, <2>1, <2>6, <3>2, VecOrder, CubeOrder DEF k
      <4>2. cube[c].at \in {"MatmulCq", "MatmulCkvKr", "WaitNorm"}
        BY <2>6, <4>1 DEF NormTaken, CubeCount
      <4>3. BlocksDone(c) = 0
        BY <4>2 DEF BlocksDone
      <4>4. mmQcQrRes[c] = [step |-> k, done |-> Blocks(c)]
        BY <2>1, <2>5, <3>2, <4>3, FilledAnew
      <4> QED  BY <2>1, <2>2, <4>4
    <3>3. CASE cube[c].step < k
      <4>1. BlockLead(v, c) = -Blocks(c)
        BY <2>1, <2>6, <3>3 DEF BlockLead, Lead, k
      <4> QED  BY <2>1, <2>3, <2>4, <4>1
    <3> QED  BY <2>1, <2>6, <3>1, <3>2, <3>3
  <2>8. ASSUME NEW h \in NewHeads(v) PROVE h * HeadWidth + QcWidth <= mmQcQrRes[c].done * BaseN
    <3>1. /\ HeadsWithin(c, i) \in 0 .. Heads(c) /\ HeadsWithin(c, i + 1) \in 0 .. Heads(c)
      BY <2>1, HeadsWithinFacts
    <3>2. h \in HeadsWithin(c, i) .. HeadsWithin(c, i + 1) - 1
      BY <2>8 DEF NewHeads, c, i
    <3>3. h \in 0 .. Heads(c) - 1 /\ h < HeadsWithin(c, i + 1)
      BY <2>1, <3>1, <3>2
    <3>4. h * HeadWidth + QcWidth <= (i + 1) * BaseN
      BY <2>1, <3>3, HeadsWithinFacts
    <3>5. /\ BaseN \in Nat /\ QcWidth \in Nat /\ HeadWidth \in Nat
      BY CoresAssumption DEF HeadWidth
    <3>6. (i + 1) * BaseN <= mmQcQrRes[c].done * BaseN
      BY <2>1, <2>7, <3>5
    <3>7. /\ (i + 1) * BaseN \in Int /\ mmQcQrRes[c].done * BaseN \in Int
          /\ h * HeadWidth + QcWidth \in Int
      BY <2>1, <2>7, <3>3, <3>5
    <3> QED  BY <3>4, <3>6, <3>7
  <2> QED  BY <2>7, <2>8 DEF c, k
<1>3. ASSUME NEW v \in Vecs, VecAt(v, "DequantQc") \/ VecAt(v, "RopeQr"), AllArrived(v),
             NEW c \in 0 .. QcQrBlockNum - 1
      PROVE  mmQcQrRes[c].step = vec[v].step
  <2>1. c \in Cubes /\ c < QcQrBlockNum
    BY CoresAssumption DEF Cubes
  <2>2. PICK w \in Vecs : CubeOf(w) = c
    BY <2>1, CoreFacts
  <2>3. ~SplitN
    BY <1>3 DEF IInv, VecInv, VecPlace, Dequant, SplitN
  <2>4. Blocks(c) = 1
    BY <2>1, <2>3 DEF Blocks
  <2>5. QcQrTaken(v) = vec[v].step /\ Normalized(v) = vec[v].step
    BY <1>1, <1>3, VecOrder DEF VecAt, QcQrTaken, Normalized, VecCount
  <2>6. QcQrTaken(v) <= QcQrTaken(w) /\ QcQrTaken(w) <= QcQrDone(c)
    BY <1>3, <2>1, <2>2, <2>3, VecMet, Pair
  <2>7. NormTaken(c) <= NormShared(w) /\ NormShared(w) <= Normalized(v)
    BY <2>1, <2>2, Pair DEF IInv, VecBarrier
  <2>8. vec[v].step \in Nat /\ vec[v].step > 0
    BY <1>1, VecOrder
  <2>9. vec[v].step <= QcQrDone(c) /\ NormTaken(c) <= vec[v].step
    BY <1>1, <2>1, <2>5, <2>6, <2>7, <2>8, CubeOrder, VecOrder
  <2>10. mmQcQrRes[c] = [step |-> vec[v].step, done |-> Blocks(c)]
    BY <2>1, <2>4, <2>8, <2>9, QcQrHeld
  <2> QED  BY <2>10
<1> QED  BY <1>2, <1>3 DEF QcQrOfStep, MayRopeQr
LEMMA HeadsHold == ASSUME IInv, FewHeads PROVE HeadsDequantized
<1> SUFFICES ASSUME NEW c \in Cubes, MayMatmulQn(c)
             PROVE  LET k == cube[c].step
                    IN CASE launch.branch = "splitN" ->
                              \A v \in VecsOf(c) : /\ mmQcQrResDequant[v].step = k
                                                   /\ mmQcQrResDequant[v].done > cube[c].idx
                         [] launch.branch = "dequant" ->
                              \A v \in Vecs : HasRows(v, k) => mmQcQrResDequant[v].step = k
                         [] launch.branch = "plain" ->
                              \A d \in 0 .. QcQrBlockNum - 1 : mmQcQrRes[d].step = k
  BY DEF HeadsDequantized
<1> DEFINE k == cube[c].step
<1>1. /\ TypeInv /\ cube[c].at = "MatmulQn" /\ cube[c].idx \in Nat /\ cube[c].idx < Heads(c)
      /\ k \in Nat /\ k > 0 /\ Heads(c) \in Nat
      /\ CqDone(c) = k /\ CkvKrDone(c) = k /\ QcQrDone(c) = k /\ QcTaken(c) = k
      /\ HeadsDone(c) = cube[c].idx
  <2>1. TypeInv /\ cube[c].at = "MatmulQn" /\ cube[c].idx < Heads(c) /\ Heads(c) \in Nat
    BY HeadFacts DEF IInv, MayMatmulQn, CubeAt
  <2> QED
    BY <2>1, CubeOrder
    DEF TypeInv, CqDone, CkvKrDone, QcQrDone, QcTaken, CubeCount, HeadsDone
<1> HIDE DEF k
<1>2. ASSUME SplitN, NEW v \in Vecs, CubeOf(v) = c
      PROVE  mmQcQrResDequant[v].step = k /\ mmQcQrResDequant[v].done > cube[c].idx
  <2>1. /\ FlagsOf(v, c) /\ VecInv(v) /\ CkvKrTaken(v) <= CkvKrDone(c)
        /\ cube[c].step <= vec[v].step + 1 /\ vec[v].step <= cube[c].step + 1
        /\ vec[v].step \in Nat /\ vec[v].step > 0
    BY <1>1, <1>2, Pair, VecOrder DEF IInv
  <2>2. toCube[v][7] > 0
    BY <1>1, <1>2
    DEF MayMatmulQn, WaitsForHead, Announced, FewHeads, FlagFromVecs, VecsOf
  <2>3. HeadsReady(v) - cube[c].idx - HeadLead(v, c) > 0
    BY <1>1, <1>2, <2>1, <2>2 DEF FlagsOf
  <2>4. HeadsReady(v) \in 0 .. Heads(c)
    BY <1>1, <1>2, <2>1, VecBounds DEF VecInv
  <2>5. mmQcQrResDequant[v] = Filled(vec[v].step, HeadsReady(v), Heads(c))
    BY <1>1, <1>2, <2>1 DEF VecInv, VecData
  <2>6. CASE vec[v].step = k
    <3>1. HeadsReady(v) > cube[c].idx
      BY <1>1, <2>3, <2>4, <2>6 DEF HeadLead, Lead, k
    <3> QED  BY <1>1, <2>4, <2>5, <2>6, <3>1 DEF Filled
  <2>7. CASE vec[v].step = k + 1
    <3>1. CkvKrTaken(v) # vec[v].step
      BY <1>1, <2>1, <2>7, VecOrder
    <3>2. vec[v].at \in {"WaitCq", "RmsNormCq", "ShareNorm", "WaitCkvKr"}
      BY <2>1, <3>1 DEF CkvKrTaken, VecCount
    <3>3. HeadsReady(v) = 0
      BY <3>2 DEF HeadsReady
    <3>4. mmQcQrResDequant[v] = [step |-> k, done |-> Heads(c)]
      BY <1>1, <2>5, <2>7, <3>3, FilledAnew
    <3> QED  BY <1>1, <3>4
  <2>8. CASE vec[v].step < k
    <3>1. HeadLead(v, c) = Heads(c)
      BY <1>1, <2>1, <2>8 DEF HeadLead, Lead, k
    <3> QED  BY <1>1, <2>3, <2>4, <3>1
  <2> QED  BY <1>1, <2>1, <2>6, <2>7, <2>8 DEF k
<1>3. ASSUME Dequant, NEW v \in Vecs, HasRows(v, k) PROVE mmQcQrResDequant[v].step = k
  <2>1. PICK w \in Vecs : CubeOf(w) = c
    BY CoreFacts
  <2>2. QcTaken(c) <= QcShared(w) /\ ~SplitN
    BY <1>3, <2>1, Pair DEF Dequant, SplitN
  <2>3. QcShared(w) <= Dequanted(v) /\ Dequanted(v) <= QcQrTaken(w)
    BY <1>3 DEF IInv, VecBarrier
  <2>4. QcQrTaken(w) <= QcQrDone(c)
    BY <2>1, <2>2, Pair
  <2>5. Dequanted(v) = k
    BY <1>1, <2>2, <2>3, <2>4, VecOrder
  <2> QED  BY <1>1, <1>3, <2>5 DEF IInv, VecInv, VecData
<1>4. ASSUME Plain, NEW d \in 0 .. QcQrBlockNum - 1 PROVE mmQcQrRes[d].step = k
  <2>1. d \in Cubes /\ d < QcQrBlockNum /\ ~SplitN
    BY <1>4, CoresAssumption DEF Cubes, Plain, SplitN
  <2>2. Blocks(d) = 1
    BY <2>1 DEF Blocks
  <2>3. QcTaken(c) <= QcQrDone(d)
    BY <1>4, <2>1 DEF IInv, CubeBarrier
  <2>4. PICK v \in Vecs : CubeOf(v) = c
    BY CoreFacts
  <2>5. PICK w \in Vecs : CubeOf(w) = d
    BY <2>1, CoreFacts
  <2>6. /\ NormTaken(d) <= NormShared(w) /\ CqTaken(v) <= CqDone(c)
    BY <2>1, <2>4, <2>5, Pair
  <2>7. NormShared(w) <= Normalized(v)
    BY DEF IInv, VecBarrier
  <2>8. NormTaken(d) <= k /\ k <= QcQrDone(d)
    BY <1>1, <2>1, <2>3, <2>6, <2>7, CubeOrder, VecOrder
  <2>9. mmQcQrRes[d] = [step |-> k, done |-> Blocks(d)]
    BY <1>1, <2>1, <2>2, <2>8, QcQrHeld
  <2> QED  BY <2>9
<1>5. CASE SplitN
  BY <1>2, <1>5 DEF SplitN, VecsOf, k
<1>6. CASE Dequant
  BY <1>3, <1>6 DEF Dequant, k
<1>7. CASE Plain
  BY <1>4, <1>7 DEF Plain, k
<1>8. launch.branch \in Branches
  BY <1>1, CoresAssumption DEF TypeInv
<1> QED  BY <1>5, <1>6, <1>7, <1>8 DEF Branches, SplitN, Dequant, Plain

LEMMA QnHolds == ASSUME IInv PROVE QnOfStep
<1> SUFFICES ASSUME NEW v \in Vecs, MayQuantQn(v)
             PROVE  LET k == vec[v].step
                        qn == mmQnRes[CubeOf(v)]
                    IN /\ qn.step = k /\ qn.done > vec[v].idx
                       /\ ~SplitN => \A w \in Vecs : HasRows(w, k) => qrOut[w] >= k
  BY DEF QnOfStep
<1> DEFINE c == CubeOf(v)
           k == vec[v].step
           i == vec[v].idx
<1>1. /\ TypeInv /\ c \in Cubes /\ FlagsOf(v, c) /\ CubeInv(c) /\ VecInv(v)
      /\ Heads(c) \in Nat /\ k \in Nat /\ k > 0 /\ i \in Nat
  BY CoreFacts, HeadFacts, VecOrder DEF IInv, TypeInv
<1>2. /\ vec[v].at = "QuantQn" /\ i < Heads(c) /\ toVec[v][8] > 0 /\ launch.quantQn
      /\ AllArrived(v)
  BY <1>1 DEF MayQuantQn, VecAt, VecInv, VecPlace
<1> HIDE DEF c, k, i
<1>3. HeadsDone(c) - i + HeadLead(v, c) > 0
  BY <1>1, <1>2 DEF FlagsOf, HeadsTaken, i
<1>4. HeadsDone(c) \in 0 .. Heads(c)
  BY <1>1, CubeBounds DEF CubeInv
<1>5. mmQnRes[c] = Filled(cube[c].step, HeadsDone(c), Heads(c))
  BY <1>1, <1>2 DEF CubeInv, CubeData
<1>6. NormTaken(c) <= NormShared(v) /\ cube[c].step <= k + 1 /\ cube[c].step \in Int
  BY <1>1, Pair, CubeOrder DEF c, k
<1>7. mmQnRes[c].step = k /\ mmQnRes[c].done > i
  <2>1. CASE cube[c].step = k
    <3>1. HeadsDone(c) > i
      BY <1>1, <1>3, <1>4, <2>1 DEF HeadLead, Lead, k
    <3> QED  BY <1>1, <1>4, <1>5, <2>1, <3>1 DEF Filled
  <2>2. CASE cube[c].step = k + 1
    <3>1. NormTaken(c) # cube[c].step
      BY <1>1, <1>6, <2>2, VecOrder, CubeOrder DEF k
    <3>2. cube[c].at \in {"MatmulCq", "MatmulCkvKr", "WaitNorm"}
      BY <1>6, <3>1 DEF NormTaken, CubeCount
    <3>3. HeadsDone(c) = 0
      BY <3>2 DEF HeadsDone
    <3>4. mmQnRes[c] = [step |-> k, done |-> Heads(c)]
      BY <1>1, <1>5, <2>2, <3>3, FilledAnew
    <3> QED  BY <1>1, <1>2, <3>4
  <2>3. CASE cube[c].step < k
    <3>1. HeadLead(v, c) = -Heads(c)
      BY <1>1, <1>6, <2>3 DEF HeadLead, Lead, k
    <3> QED  BY <1>1, <1>3, <1>4, <3>1
  <2> QED  BY <1>1, <1>6, <2>1, <2>2, <2>3
<1>8. ASSUME ~SplitN, NEW w \in Vecs, HasRows(w, k) PROVE qrOut[w] >= k
  <2>1. Roped(v) = k
    BY <1>1, <1>2 DEF Roped, VecCount, k
  <2>2. Roped(v) <= Roped(w)
    BY <1>2, <1>8, VecMet
  <2> QED  BY <1>1, <1>8, <2>1, <2>2 DEF IInv, VecInv, VecData
<1> QED  BY <1>7, <1>8 DEF c, k, i

LEMMA DrainedHolds == ASSUME IInv PROVE FlagsDrained
<1> SUFFICES ASSUME AllDone, NEW v \in Vecs
             PROVE  /\ \A f \in VecFlags : toVec[v][f] = 0
                    /\ \A f \in CubeFlags : toCube[v][f] = 0
  BY DEF FlagsDrained
<1>1. PICK c \in Cubes : CubeOf(v) = c
  BY CoreFacts
<1>2. /\ cube[c].at = "done" /\ vec[v].at = "done"
      /\ cube[c].step = StepNum /\ vec[v].step = StepNum /\ StepNum \in Nat
      /\ FlagsOf(v, c) /\ Heads(c) \in Nat /\ Blocks(c) \in Nat
  BY <1>1, StepFacts, HeadFacts
  DEF AllDone, CubeAt, VecAt, IInv, CubeInv, VecInv, CubePlace, VecPlace
<1>3. /\ CqDone(c) = StepNum /\ CkvKrDone(c) = StepNum /\ NormTaken(c) = StepNum
      /\ QcQrDone(c) = StepNum /\ QcTaken(c) = StepNum /\ AtEnd(c) = 1
      /\ BlocksDone(c) = Blocks(c) /\ HeadsDone(c) = Heads(c)
  BY <1>2 DEF CubeCount, CqDone, CkvKrDone, NormTaken, QcQrDone, QcTaken, AtEnd, BlocksDone,
     HeadsDone
<1>4. /\ CqTaken(v) = StepNum /\ NormShared(v) = StepNum /\ CkvKrTaken(v) = StepNum
      /\ Scattered(v) = StepNum /\ QcQrTaken(v) = StepNum /\ QcShared(v) = StepNum
      /\ BlocksTaken(v) = Blocks(c) /\ HeadsReady(v) = Heads(c) /\ HeadsTaken(v) = Heads(c)
  BY <1>1, <1>2 DEF VecCount, CqTaken, Normalized, NormShared, CkvKrTaken, Scattered,
     QcQrTaken, Dequanted, QcShared, Roped, BlocksTaken, HeadsReady, HeadsTaken
<1>5. BlockLead(v, c) = 0 /\ HeadLead(v, c) = 0
  BY <1>2 DEF BlockLead, HeadLead, Lead
<1> QED  BY <1>2, <1>3, <1>4, <1>5 DEF FlagsOf

(* Between the stages of a step nothing is early and nothing is stale,     *)
(* whatever the number of cores, tokens, steps, heads and blocks, as long  *)
(* as no cube core has more heads than a counter holds: the places where   *)
(* AicProcess and AivProcess of kernel_mla_prolog_split_n_arch35.h wait    *)
(* are enough, though a flag says no more than that it has been set.       *)
THEOREM HandOversCorrect ==
  ASSUME FewHeads PROVE Spec => []HandOversOfStep
<1>1. IInv => HandOversOfStep
  BY CqHolds, NormHolds, CkvKrHolds, QcQrHolds, HeadsHold, QnHolds DEF HandOversOfStep
<1> QED  BY <1>1, Invariance, PTL

(* The kernel ends with every flag taken that was set: the next kernel of  *)
(* the stream, which uses the same ids, starts from zero.                  *)
THEOREM DrainedCorrect ==
  ASSUME FewHeads PROVE Spec => []FlagsDrained
<1>1. IInv => FlagsDrained
  BY DrainedHolds
<1> QED  BY <1>1, Invariance, PTL
(***************************************************************************)
(* Bounds of loops, counters and steps.                                    *)
(***************************************************************************)

(* Steps a vector core has left behind.                                    *)
Ended(v) == vec[v].step - (IF vec[v].at = "done" THEN 0 ELSE 1)

(* Outside of its loops a core counts nothing; and a vector core goes on   *)
(* from the quantization only when all others have rotated their rows.     *)
LoopInv ==
  /\ \A c \in Cubes : cube[c].at \notin {"MatmulQcQr", "MatmulQn"} => cube[c].idx = 0
  /\ \A v \in Vecs : vec[v].at \notin {"SplitN", "QuantQn"} => vec[v].idx = 0
  /\ ~SplitN /\ launch.quantQn => \A v, w \in Vecs : Ended(v) <= Roped(w)

LEMMA InitLoops == Init => LoopInv
BY DEF Init, Core, LoopInv, Ended, Roped, VecCount

LEMMA CubeLoops ==
  ASSUME IInv, LoopInv, NEW c \in Cubes, Aic(c)
  PROVE  LoopInv'
<1>1. cube \in [Cubes -> [at : CubePlaces, step : 1 .. StepNum, idx : Nat]]
  BY DEF IInv, TypeInv
<1>2. launch' = launch /\ vec' = vec
  BY DEF Aic, MatmulCq, MatmulCkvKr, WaitNorm, MatmulQcQr, PreloadQnAndSync, WaitQc, MatmulQn,
     CubeNextStep, LastWait
<1>3. \E at, step, idx : /\ cube' = [cube EXCEPT ![c] = Core(at, step, idx)]
                         /\ at \notin {"MatmulQcQr", "MatmulQn"} => idx = 0
  <2>1. CASE MatmulCq(c) \/ MatmulCkvKr(c) \/ WaitNorm(c)
    BY <2>1 DEF MatmulCq, MatmulCkvKr, WaitNorm, CubeGoes
  <2>2. CASE MatmulQcQr(c) \/ PreloadQnAndSync(c)
    BY <2>2 DEF MatmulQcQr, PreloadQnAndSync, CubeGoes
  <2>3. CASE WaitQc(c) \/ MatmulQn(c) \/ LastWait(c)
    BY <2>3 DEF WaitQc, MatmulQn, LastWait, CubeGoes
  <2>4. CASE CubeNextStep(c)
    BY <2>4 DEF CubeNextStep
  <2> QED  BY <2>1, <2>2, <2>3, <2>4 DEF Aic
<1>4. \A d \in Cubes : cube'[d].at \notin {"MatmulQcQr", "MatmulQn"} => cube'[d].idx = 0
  <2> TAKE d \in Cubes
  <2>1. PICK at, step, idx : /\ cube' = [cube EXCEPT ![c] = Core(at, step, idx)]
                             /\ at \notin {"MatmulQcQr", "MatmulQn"} => idx = 0
    BY <1>3
  <2>2. CASE d = c
    <3>1. cube'[d] = Core(at, step, idx)
      BY <1>1, <2>1, <2>2
    <3> QED  BY <2>1, <3>1 DEF Core
  <2>3. CASE d # c
    <3>1. cube'[d] = cube[d]
      BY <1>1, <2>1, <2>3
    <3> QED  BY <3>1 DEF LoopInv
  <2> QED  BY <2>2, <2>3
<1>5. \A v \in Vecs : Ended(v)' = Ended(v) /\ Roped(v)' = Roped(v)
  BY <1>2 DEF Ended, Roped, VecCount
<1> QED  BY <1>2, <1>4, <1>5 DEF LoopInv, SplitN

(* A vector core that stays in its step.                                   *)
LEMMA GoingLoops ==
  ASSUME IInv, LoopInv, NEW v \in Vecs, launch' = launch, cube' = cube,
         NEW at \in VecPlaces \ {"done"}, NEW idx \in Int, VecGoes(v, at, idx),
         at \notin {"SplitN", "QuantQn"} => idx = 0,
         vec[v].at \in {"SplitN", "QuantQn"} => at \in {"SplitN", "QuantQn"},
         vec[v].at # "done"
  PROVE  LoopInv'
<1>1. TypeInv
  BY DEF IInv
<1>2. vec'[v] = Core(at, vec[v].step, idx) /\ \A w \in Vecs \ {v} : vec'[w] = vec[w]
  BY <1>1 DEF TypeInv, VecGoes
<1>3. \A w \in Vecs : vec'[w].at \notin {"SplitN", "QuantQn"} => vec'[w].idx = 0
  BY <1>2 DEF LoopInv, Core
<1>4. vec[v].step \in Int /\ vec[v].at \in VecPlaces
  BY <1>1, VecOrder DEF TypeInv
<1>5. Ended(v)' = Ended(v) /\ Ended(v) \in Int
  BY <1>2, <1>4 DEF Ended, Core
<1>6. Roped(v)' >= Roped(v) /\ Roped(v)' \in Int /\ Roped(v) \in Int
  BY <1>2, <1>4 DEF Roped, VecCount, Core, VecPlaces
<1>7. \A w \in Vecs \ {v} : Ended(w)' = Ended(w) /\ Roped(w)' = Roped(w)
  BY <1>2 DEF Ended, Roped, VecCount
<1>8. \A w \in Vecs : Ended(w)' = Ended(w) /\ Roped(w)' >= Roped(w) /\ Roped(w)' \in Int
                       /\ Roped(w) \in Int /\ Ended(w) \in Int
  <2> SUFFICES ASSUME NEW w \in Vecs \ {v}
               PROVE  Roped(w) \in Int /\ Ended(w) \in Int
    BY <1>5, <1>6, <1>7
  <2> QED  BY <1>1, VecOrder DEF Ended
<1>9. ~SplitN /\ launch.quantQn => \A u, w \in Vecs : Ended(u)' <= Roped(w)'
  <2> SUFFICES ASSUME ~SplitN, launch.quantQn, NEW u \in Vecs, NEW w \in Vecs
               PROVE  Ended(u)' <= Roped(w)'
    OBVIOUS
  <2>1. Ended(u) <= Roped(w)
    BY DEF LoopInv
  <2> QED  BY <1>8, <2>1
<1>10. \A c \in Cubes : cube'[c].at \notin {"MatmulQcQr", "MatmulQn"} => cube'[c].idx = 0
  BY DEF LoopInv
<1> QED  BY <1>3, <1>9, <1>10 DEF LoopInv, SplitN

(* A vector core that is through with its step: where the rotation is      *)
(* quantized it has met all the others behind it.                          *)
LEMMA NextStepLoops ==
  ASSUME IInv, LoopInv, NEW v \in Vecs, launch' = launch, cube' = cube, VecNextStep(v),
         vec[v].at \in {"SplitN", "RopeQr", "QuantQn"},
         ~SplitN /\ launch.quantQn => vec[v].at = "QuantQn" /\ AllArrived(v)
  PROVE  LoopInv'
<1>1. TypeInv
  BY DEF IInv
<1>2. vec'[v] = IF vec[v].step < StepNum THEN Core("WaitCq", vec[v].step + 1, 0)
                                         ELSE Core("done", vec[v].step, 0)
  BY <1>1 DEF VecNextStep, TypeInv
<1>3. \A w \in Vecs \ {v} : vec'[w] = vec[w]
  BY <1>1 DEF VecNextStep, TypeInv
<1>4. \A w \in Vecs : vec'[w].at \notin {"SplitN", "QuantQn"} => vec'[w].idx = 0
  BY <1>2, <1>3 DEF LoopInv, Core
<1>5. vec[v].step \in Int
  BY <1>1, VecOrder
<1>6. Ended(v)' = vec[v].step /\ Roped(v)' = vec[v].step
  BY <1>2, <1>5 DEF Ended, Core, Roped, VecCount
<1>7. \A w \in Vecs \ {v} : Ended(w)' = Ended(w) /\ Roped(w)' = Roped(w)
  BY <1>3 DEF Ended, Roped, VecCount
<1>8. ~SplitN /\ launch.quantQn => \A u, w \in Vecs : Ended(u)' <= Roped(w)'
  <2> SUFFICES ASSUME ~SplitN, launch.quantQn, NEW u \in Vecs, NEW w \in Vecs
               PROVE  Ended(u)' <= Roped(w)'
    OBVIOUS
  <2>1. Ended(u) <= Roped(w) /\ Ended(u) <= Roped(v)
    BY DEF LoopInv
  <2>2. Roped(v) = vec[v].step
    BY <1>5 DEF Roped, VecCount
  <2>3. Roped(v) <= Roped(w)
    BY VecMet
  <2>4. Roped(w) \in Int /\ Ended(u) \in Int
    BY <1>1, VecOrder DEF Ended
  <2> QED  BY <1>5, <1>6, <1>7, <2>1, <2>2, <2>3, <2>4
<1>9. \A c \in Cubes : cube'[c].at \notin {"MatmulQcQr", "MatmulQn"} => cube'[c].idx = 0
  BY DEF LoopInv
<1> QED  BY <1>4, <1>8, <1>9 DEF LoopInv, SplitN

LEMMA VecLoops ==
  ASSUME IInv, LoopInv, NEW v \in Vecs, Aiv(v)
  PROVE  LoopInv'
<1>1. launch' = launch /\ cube' = cube
  BY DEF Aiv, WaitCq, RmsNormCq, ShareNorm, WaitCkvKr, RmsNormRopeScatterCkvKr, DequantAndRope,
     EndSplitN, WaitQcQr, DequantQc, ShareQc, RopeQr, DynamicQuantQnAndMulQr, EndQuantQn
<1>2. vec[v].idx \in Int /\ vec[v].idx + 1 \in Int
  BY DEF IInv, TypeInv
<1>3. VecPlace(v) /\ launch.branch \in Branches
  BY CoresAssumption DEF IInv, VecInv, TypeInv
<1>4. CASE WaitCq(v)
  <2>1. VecGoes(v, "RmsNormCq", 0) /\ vec[v].at = "WaitCq"
    BY <1>4 DEF WaitCq, VecAt
  <2> QED  BY <1>1, <2>1, GoingLoops DEF VecPlaces
<1>5. CASE RmsNormCq(v)
  <2>1. VecGoes(v, "ShareNorm", 0) /\ vec[v].at = "RmsNormCq"
    BY <1>5 DEF RmsNormCq, MayRmsNormCq, VecAt
  <2> QED  BY <1>1, <2>1, GoingLoops DEF VecPlaces
<1>6. CASE ShareNorm(v)
  <2>1. VecGoes(v, "WaitCkvKr", 0) /\ vec[v].at = "ShareNorm"
    BY <1>6 DEF ShareNorm, MayShareNorm, VecAt
  <2> QED  BY <1>1, <2>1, GoingLoops DEF VecPlaces
<1>7. CASE WaitCkvKr(v)
  <2>1. VecGoes(v, "ScatterCkvKr", 0) /\ vec[v].at = "WaitCkvKr"
    BY <1>7 DEF WaitCkvKr, VecAt
  <2> QED  BY <1>1, <2>1, GoingLoops DEF VecPlaces
<1>8. CASE RmsNormRopeScatterCkvKr(v)
  <2>1. VecGoes(v, IF SplitN THEN "SplitN" ELSE "WaitQcQr", 0) /\ vec[v].at = "ScatterCkvKr"
    BY <1>8 DEF RmsNormRopeScatterCkvKr, MayScatterCkvKr, VecAt
  <2>2. (IF SplitN THEN "SplitN" ELSE "WaitQcQr") \in VecPlaces \ {"done"}
    BY DEF VecPlaces
  <2> QED  BY <1>1, <2>1, <2>2, GoingLoops
<1>9. CASE DequantAndRope(v)
  <2>1. VecGoes(v, "SplitN", vec[v].idx + 1) /\ vec[v].at = "SplitN"
    BY <1>9 DEF DequantAndRope, MayDequantAndRope, VecAt
  <2> QED  BY <1>1, <1>2, <2>1, GoingLoops DEF VecPlaces
<1>10. CASE EndSplitN(v)
  <2>1. vec[v].at = "SplitN" /\ SplitN
    BY <1>3, <1>10 DEF EndSplitN, VecAt, VecPlace
  <2>2. CASE launch.quantQn
    <3>1. VecGoes(v, "QuantQn", 0)
      BY <1>10, <2>2 DEF EndSplitN
    <3> QED  BY <1>1, <2>1, <3>1, GoingLoops DEF VecPlaces
  <2>3. CASE ~launch.quantQn
    <3>1. VecNextStep(v)
      BY <1>10, <2>3 DEF EndSplitN
    <3> QED  BY <1>1, <2>1, <3>1, NextStepLoops
  <2> QED  BY <2>2, <2>3
<1>11. CASE WaitQcQr(v)
  <2>1. /\ VecGoes(v, IF launch.branch = "dequant" THEN "DequantQc" ELSE "RopeQr", 0)
        /\ vec[v].at = "WaitQcQr"
    BY <1>11 DEF WaitQcQr, VecAt
  <2>2. (IF launch.branch = "dequant" THEN "DequantQc" ELSE "RopeQr") \in VecPlaces \ {"done"}
    BY DEF VecPlaces
  <2> QED  BY <1>1, <2>1, <2>2, GoingLoops
<1>12. CASE DequantQc(v)
  <2>1. VecGoes(v, "ShareQc", 0) /\ vec[v].at = "DequantQc"
    BY <1>12 DEF DequantQc, VecAt
  <2> QED  BY <1>1, <2>1, GoingLoops DEF VecPlaces
<1>13. CASE ShareQc(v)
  <2>1. VecGoes(v, "RopeQr", 0) /\ vec[v].at = "ShareQc"
    BY <1>13 DEF ShareQc, VecAt
  <2> QED  BY <1>1, <2>1, GoingLoops DEF VecPlaces
<1>14. CASE RopeQr(v)
  <2>1. vec[v].at = "RopeQr"
    BY <1>14 DEF RopeQr, MayRopeQr, VecAt
  <2>2. CASE launch.quantQn
    <3>1. VecGoes(v, "QuantQn", 0)
      BY <1>14, <2>2 DEF RopeQr
    <3> QED  BY <1>1, <2>1, <3>1, GoingLoops DEF VecPlaces
  <2>3. CASE ~launch.quantQn
    <3>1. VecNextStep(v)
      BY <1>14, <2>3 DEF RopeQr
    <3> QED  BY <1>1, <2>1, <2>3, <3>1, NextStepLoops
  <2> QED  BY <2>2, <2>3
<1>15. CASE DynamicQuantQnAndMulQr(v)
  <2>1. VecGoes(v, "QuantQn", vec[v].idx + 1) /\ vec[v].at = "QuantQn"
    BY <1>15 DEF DynamicQuantQnAndMulQr, MayQuantQn, VecAt
  <2> QED  BY <1>1, <1>2, <2>1, GoingLoops DEF VecPlaces
<1>16. CASE EndQuantQn(v)
  <2>1. VecNextStep(v) /\ vec[v].at = "QuantQn" /\ AllArrived(v)
    BY <1>16 DEF EndQuantQn, VecAt
  <2> QED  BY <1>1, <2>1, NextStepLoops
<1> QED
  BY <1>4, <1>5, <1>6, <1>7, <1>8, <1>9, <1>10, <1>11, <1>12, <1>13, <1>14, <1>15, <1>16 DEF Aiv

LEMMA LoopsCounted == ASSUME FewHeads PROVE Spec => []LoopInv
<1>1. IInv /\ LoopInv /\ [Next]_vars => LoopInv'
  <2> SUFFICES ASSUME IInv, LoopInv, [Next]_vars PROVE LoopInv'
    OBVIOUS
  <2>1. CASE Next
    BY <2>1, CubeLoops, VecLoops DEF Next
  <2>2. CASE UNCHANGED vars
    BY <2>2 DEF vars, LoopInv, Ended, Roped, VecCount, SplitN
  <2> QED  BY <2>1, <2>2
<1> QED  BY <1>1, InitLoops, Invariance, PTL DEF Spec

(* Loops stop at the blocks and heads of the core.                         *)
LEMMA LoopBounds ==
  ASSUME IInv, LoopInv
  PROVE  /\ \A c \in Cubes : cube[c].idx \in 0 .. Blocks(c) + Heads(c)
         /\ \A v \in Vecs : vec[v].idx \in 0 .. Blocks(CubeOf(v)) + Heads(CubeOf(v))
<1>1. ASSUME NEW c \in Cubes PROVE cube[c].idx \in 0 .. Blocks(c) + Heads(c)
  <2>1. cube[c].idx \in Nat /\ CubePlace(c) /\ Heads(c) \in Nat /\ Blocks(c) \in Nat
    BY HeadFacts DEF IInv, TypeInv, CubeInv
  <2>2. cube[c].at \notin {"MatmulQcQr", "MatmulQn"} => cube[c].idx = 0
    BY DEF LoopInv
  <2> QED  BY <2>1, <2>2 DEF CubePlace, CubeAt
<1>2. ASSUME NEW v \in Vecs PROVE vec[v].idx \in 0 .. Blocks(CubeOf(v)) + Heads(CubeOf(v))
  <2>1. vec[v].idx \in Nat /\ VecPlace(v)
    BY DEF IInv, TypeInv, VecInv
  <2>2. Heads(CubeOf(v)) \in Nat /\ Blocks(CubeOf(v)) \in Nat
    BY CoreFacts, HeadFacts
  <2>3. vec[v].at \notin {"SplitN", "QuantQn"} => vec[v].idx = 0
    BY DEF LoopInv
  <2> QED  BY <2>1, <2>2, <2>3 DEF VecPlace, VecAt
<1> QED  BY <1>1, <1>2

(* A flag that is set once in a step is taken before it is set again.      *)
LEMMA OnceBounds ==
  ASSUME IInv, NEW c \in Cubes, NEW v \in Vecs, CubeOf(v) = c
  PROVE  /\ toVec[v][4] \in 0 .. 1
         /\ toVec[v][6] \in 0 .. (IF SplitN THEN 1 ELSE 2)
         /\ toCube[v][6] \in 0 .. (IF Dequant THEN 2 ELSE 1)
         /\ toCube[v][9] \in 0 .. 1
<1>1. TypeInv /\ FlagsOf(v, c)
  BY DEF IInv
<1>2. toVec[v][4] \in Nat /\ toVec[v][6] \in Nat /\ toCube[v][6] \in Nat /\ toCube[v][9] \in Nat
  BY <1>1 DEF TypeInv, VecFlags, CubeFlags
<1>3. AtEnd(c) \in 0 .. 1
  BY DEF AtEnd
<1>4. CkvKrDone(c) <= 1 + Scattered(v)
  BY <1>1, <1>2, <1>3, CubeOrder, VecOrder DEF FlagsOf
<1>5. toVec[v][4] <= 1
  BY <1>1, <1>4, CubeOrder, VecOrder DEF FlagsOf
<1>6. toCube[v][9] <= 1
  BY <1>1, <1>3, Pair, CubeOrder, VecOrder DEF FlagsOf
<1>7. CqDone(c) - CqTaken(v) <= 1
  BY <1>1, Pair, CubeOrder, VecOrder
<1>8. QcQrDone(c) - QcQrTaken(v) <= 1
  BY <1>1, Pair, CubeOrder, VecOrder
<1>9. NormShared(v) - NormTaken(c) <= 1
  BY <1>1, Pair, CubeOrder, VecOrder
<1>10. Dequant => QcShared(v) - QcTaken(c) <= 1
  <2>1. Dequant => ~SplitN
    BY DEF Dequant, SplitN
  <2> QED  BY <1>1, <2>1, Pair, CubeOrder, VecOrder
<1>11. toVec[v][6] <= IF SplitN THEN 1 ELSE 2
  BY <1>1, <1>7, <1>8, CubeOrder, VecOrder DEF FlagsOf
<1>12. toCube[v][6] <= IF Dequant THEN 2 ELSE 1
  BY <1>1, <1>9, <1>10, CubeOrder, VecOrder DEF FlagsOf
<1> QED  BY <1>2, <1>5, <1>6, <1>11, <1>12

(* A flag that is set for every block, or every head, is not set again in  *)
(* the next step before those of this one are taken.                       *)
LEMMA LoopFlagBounds ==
  ASSUME IInv, NEW c \in Cubes, NEW v \in Vecs, CubeOf(v) = c
  PROVE  /\ toVec[v][10] \in 0 .. Blocks(c)
         /\ toVec[v][8] \in 0 .. Heads(c)
         /\ toCube[v][7] \in 0 .. Heads(c)
<1>1. /\ TypeInv /\ FlagsOf(v, c) /\ Heads(c) \in Nat /\ Blocks(c) \in Nat
      /\ CubePlace(c) /\ VecPlace(v)
  BY HeadFacts DEF IInv, CubeInv, VecInv
<1>2. toVec[v][10] \in Nat /\ toVec[v][8] \in Nat /\ toCube[v][7] \in Nat
  BY <1>1 DEF TypeInv, VecFlags, CubeFlags
<1>3. /\ BlocksDone(c) \in 0 .. Blocks(c) /\ HeadsDone(c) \in 0 .. Heads(c)
      /\ HeadsReady(v) \in 0 .. Heads(c) /\ HeadsTaken(v) \in 0 .. Heads(c)
      /\ SplitN => BlocksTaken(v) \in 0 .. Blocks(c)
  BY <1>1, CubeBounds, VecBounds
<1>4. cube[c].step \in Int /\ vec[v].step \in Int
  BY <1>1, CubeOrder, VecOrder
<1>5. cube[c].step > vec[v].step => BlocksDone(c) = 0 /\ HeadsDone(c) = 0
  <2> SUFFICES ASSUME cube[c].step > vec[v].step PROVE BlocksDone(c) = 0 /\ HeadsDone(c) = 0
    OBVIOUS
  <2>1. NormTaken(c) # cube[c].step
    BY <1>1, Pair, CubeOrder, VecOrder
  <2>2. cube[c].at \in {"MatmulCq", "MatmulCkvKr", "WaitNorm"}
    BY <1>4, <2>1 DEF NormTaken, CubeCount
  <2> QED  BY <2>2 DEF BlocksDone, HeadsDone
<1>6. cube[c].step < vec[v].step => HeadsReady(v) = 0
  <2> SUFFICES ASSUME cube[c].step < vec[v].step PROVE HeadsReady(v) = 0
    OBVIOUS
  <2>1. CkvKrTaken(v) # vec[v].step
    BY <1>1, Pair, CubeOrder, VecOrder
  <2>2. vec[v].at \in {"WaitCq", "RmsNormCq", "ShareNorm", "WaitCkvKr"}
    BY <1>4, <2>1 DEF CkvKrTaken, VecCount
  <2> QED  BY <2>2 DEF HeadsReady
<1>7. toVec[v][10] <= Blocks(c)
  BY <1>1, <1>3, <1>4, <1>5 DEF FlagsOf, BlockLead, Lead
<1>8. toVec[v][8] <= Heads(c)
  BY <1>1, <1>3, <1>4, <1>5 DEF FlagsOf, HeadLead, Lead
<1>9. toCube[v][7] <= Heads(c)
  BY <1>1, <1>3, <1>4, <1>6 DEF FlagsOf, HeadLead, Lead
<1> QED  BY <1>1, <1>2, <1>7, <1>8, <1>9

(* No two vector cores are more than one barrier apart, whichever barriers *)
(* the launch has: behind each of them stands the next, and behind the     *)
(* last one the first of the next step.                                    *)
LEMMA BarrierBounds ==
  ASSUME IInv, LoopInv, NEW v \in Vecs, NEW w \in Vecs
  PROVE  vecArrived[v] <= vecArrived[w] + 1
<1>1. /\ TypeInv /\ VecArrive(v) /\ VecArrive(w) /\ VecBarrier(v, w)
      /\ launch.branch \in Branches
  BY CoresAssumption DEF IInv, VecInv, TypeInv
<1>2. CqTaken(v) <= Ended(v) + 1 /\ Ended(v) \in Int
  BY <1>1, VecOrder DEF Ended, CqTaken, VecCount
<1>3. ~SplitN /\ launch.quantQn => Ended(v) <= Roped(w)
  BY DEF LoopInv
<1>4. CASE SplitN
  <2>1. ~Dequant
    BY <1>4 DEF SplitN, Dequant
  <2> QED  BY <1>1, <1>4, <2>1, VecOrder DEF VecArrive, VecBarrier
<1>5. CASE Dequant
  <2>1. ~SplitN
    BY <1>5 DEF SplitN, Dequant
  <2> QED  BY <1>1, <1>2, <1>3, <1>5, <2>1, VecOrder DEF VecArrive, VecBarrier
<1>6. CASE Plain
  <2>1. ~SplitN /\ ~Dequant
    BY <1>6 DEF SplitN, Dequant, Plain
  <2> QED  BY <1>1, <1>2, <1>3, <1>6, <2>1, VecOrder DEF VecArrive, VecBarrier
<1> QED  BY <1>1, <1>4, <1>5, <1>6 DEF Branches, SplitN, Dequant, Plain

LEMMA CubeBarrierBounds ==
  ASSUME IInv, NEW c \in Cubes, NEW d \in Cubes
  PROVE  cubeArrived[c] <= cubeArrived[d] + 1
<1>1. TypeInv /\ CubeArrive(c) /\ CubeArrive(d) /\ CubeBarrier(c, d)
  BY DEF IInv, CubeInv
<1> QED  BY <1>1, CubeOrder DEF CubeArrive, CubeBarrier

(* Nor is any cube core more than a step away from any vector core.        *)
LEMMA StepBounds ==
  ASSUME IInv, NEW c \in Cubes, NEW v \in Vecs
  PROVE  cube[c].step - vec[v].step \in {-1, 0, 1}
<1>1. PICK w \in Vecs : CubeOf(w) = c
  BY CoreFacts
<1>2. TypeInv /\ VecBarrier(v, w) /\ VecBarrier(w, v)
  BY DEF IInv
<1>3. cube[c].step <= vec[v].step + 1
  <2>1. cube[c].step <= NormTaken(c) + 1 /\ NormTaken(c) <= NormShared(w)
    BY <1>1, <1>2, Pair, CubeOrder
  <2>2. NormShared(w) <= Normalized(v)
    BY <1>2 DEF VecBarrier
  <2> QED  BY <1>2, <2>1, <2>2, CubeOrder, VecOrder
<1>4. vec[v].step <= cube[c].step + 1
  <2>1. CkvKrTaken(w) <= CkvKrDone(c) /\ CkvKrDone(c) <= cube[c].step
    BY <1>1, <1>2, Pair, CubeOrder
  <2>2. Scattered(v) <= CkvKrTaken(w)
    BY <1>2 DEF VecBarrier
  <2> QED  BY <1>2, <2>1, <2>2, CubeOrder, VecOrder
<1>5. cube[c].step \in Int /\ vec[v].step \in Int
  BY <1>2, CubeOrder, VecOrder
<1> QED  BY <1>3, <1>4, <1>5

LEMMA TypeHolds == ASSUME IInv, LoopInv PROVE TypeOK
<1>1. TypeInv
  BY DEF IInv
<1>2. \A c \in Cubes : cube[c].step \in 1 .. StepNum
  BY <1>1 DEF TypeInv
<1>3. \A v \in Vecs : vec[v].step \in 1 .. StepNum
  BY <1>1 DEF TypeInv
<1>4. ASSUME NEW v \in Vecs
      PROVE  LET c == CubeOf(v) IN
       /\ vec[v].step \in 1 .. StepNum /\ vec[v].idx \in 0 .. Blocks(c) + Heads(c)
       /\ toVec[v][FINISH_MM_CKVKR] \in 0 .. 1
       /\ toVec[v][FINISH_MM_CQ] \in 0 .. (IF SplitN THEN 1 ELSE 2)
       /\ toVec[v][FINISH_MM_QCQR_SPLIT_N] \in 0 .. Blocks(c)
       /\ toVec[v][FINISH_MM_QN_SPLIT_N] \in 0 .. Heads(c)
       /\ toCube[v][FINISH_VEC_RMSNORM_CQ] \in 0 .. (IF launch.branch = "dequant" THEN 2 ELSE 1)
       /\ toCube[v][FINISH_VEC_DEQUANT_QC_SPLIT_N] \in 0 .. Heads(c)
       /\ toCube[v][FINISH_VEC_CKVKR] \in 0 .. 1
  <2>1. CubeOf(v) \in Cubes
    BY CoreFacts
  <2>2. /\ toVec[v][4] \in 0 .. 1
        /\ toVec[v][6] \in 0 .. (IF SplitN THEN 1 ELSE 2)
        /\ toCube[v][6] \in 0 .. (IF launch.branch = "dequant" THEN 2 ELSE 1)
        /\ toCube[v][9] \in 0 .. 1
    BY <2>1, OnceBounds DEF Dequant
  <2>3. /\ toVec[v][10] \in 0 .. Blocks(CubeOf(v))
        /\ toVec[v][8] \in 0 .. Heads(CubeOf(v))
        /\ toCube[v][7] \in 0 .. Heads(CubeOf(v))
    BY <2>1, LoopFlagBounds
  <2>4. vec[v].idx \in 0 .. Blocks(CubeOf(v)) + Heads(CubeOf(v))
    BY LoopBounds
  <2> QED
    BY <1>3, <2>2, <2>3, <2>4
    DEF FINISH_MM_CKVKR, FINISH_MM_CQ, FINISH_MM_QCQR_SPLIT_N, FINISH_MM_QN_SPLIT_N,
        FINISH_VEC_RMSNORM_CQ, FINISH_VEC_DEQUANT_QC_SPLIT_N, FINISH_VEC_CKVKR
<1>5. launch \in Launches
  BY <1>1 DEF TypeInv
<1> QED
  BY <1>2, <1>4, <1>5, LoopBounds, BarrierBounds, CubeBarrierBounds, StepBounds DEF TypeOK

(* No counter of a flag ever holds more than the kernel's steps and loops  *)
(* can leave in it - one for each hand-over that shares the id, one for    *)
(* each block or head of one step - and no core runs more than one barrier *)
(* or one step ahead of any other, however many cores and steps there are: *)
(* no CrossCoreSetFlag is set twice before the first one is waited for.    *)
THEOREM TypeCorrect ==
  ASSUME FewHeads PROVE Spec => []TypeOK
<1>1. IInv /\ LoopInv => TypeOK
  BY TypeHolds
<1> QED  BY <1>1, Invariance, LoopsCounted, PTL
=============================================================================

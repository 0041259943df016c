---------------------------- MODULE MlaPrologPipeline ----------------------------
(***************************************************************************)
(* The split-N kernel of MLA Prolog V3, the one the MXFP4 scene runs       *)
(* (kernel_mla_prolog_split_n_arch35.h).  The tokens are worked off in     *)
(* steps of stepBatchSize rows.  In every step each cube core (AIC) runs   *)
(* AicProcess and its CvRatio vector cores (AIV) run AivProcess; they hand *)
(* each other intermediate results through one workspace that all steps    *)
(* share, and what keeps them in order is a handful of flags: flags of     *)
(* mode 2 connect a cube core with its own vector cores, flags of mode 0   *)
(* are barriers of all vector or all cube cores.                           *)
(*                                                                         *)
(* The data of a workspace tensor is the number of the step it was written *)
(* in.  A matmul, or the work of one vector core on its share, is one      *)
(* action; it happens at one instant somewhere between the wait before it  *)
(* and the flag behind it, which is how late, or how early, the cores can  *)
(* get at it.                                                              *)
(***************************************************************************)
EXTENDS Integers, FiniteSets

CONSTANTS
  CubeNum,           \* aicNum: cube cores of the launch
  CvRatio,           \* vector cores of each cube core
  TokenNum,          \* tokenSize
  StepBatchSize,     \* rows of a step
  HeadNum,           \* numHeadSize
  CqBlockNum,        \* mm1BlockNum: cube cores with columns of the down-Q product
  CkvKrBlockNum,     \* mm2BlockNum: cube cores with columns of the down-KV product
  QcQrBlockNum,      \* mm3BlockNum where heads are not kept together
  QcWidth, QrWidth,  \* columns of the two parts of a head, in units
  BaseN,             \* columns of one block of the up-Q product, in units
  MaxSyncFlagCount,  \* MAX_SYNC_FLAG_COUNT
  Launches           \* [branch, quantQn] of the launches considered

Branches == {"splitN", "dequant", "plain"}

ASSUME CoresAssumption ==
  /\ {CubeNum, CvRatio, TokenNum, StepBatchSize, HeadNum} \subseteq Nat \ {0}
  /\ {CqBlockNum, CkvKrBlockNum, QcQrBlockNum} \subseteq 1 .. CubeNum
  /\ {QcWidth, QrWidth, BaseN, MaxSyncFlagCount} \subseteq Nat \ {0}
  /\ Launches \subseteq [branch : Branches, quantQn : BOOLEAN]

VARIABLES
  launch,      \* the template parameters that decide how the cores wait for each other
  cube, vec,   \* where each core is, in which step, and at which block or head
  toVec,       \* counters of the flags a vector core can wait for
  toCube,      \* flags a vector core has set for its cube core
  vecArrived, cubeArrived,  \* barriers of mode 0 each core has reached
  mmCqRes, mmCkvKrRes,      \* step of each cube core's columns
  rmsNormCqRes,             \* step of each vector core's rows
  mmQcQrRes,                \* step of each cube core's columns, and the blocks done
  mmQcQrResDequant,         \* step of each vector core's share, and the heads done
  qrOut,                    \* steps each vector core has rotated
  mmQnRes                   \* step of each cube core's heads, and the heads done

flags == <<toVec, toCube, vecArrived, cubeArrived>>
vars == <<launch, cube, vec, flags, mmCqRes, mmCkvKrRes, rmsNormCqRes, mmQcQrRes,
          mmQcQrResDequant, qrOut, mmQnRes>>

CeilDiv(a, b) == (a + b - 1) \div b

Cubes == 0 .. CubeNum - 1
Vecs == 0 .. CubeNum * CvRatio - 1
CubeOf(v) == v \div CvRatio
VecsOf(c) == {v \in Vecs : CubeOf(v) = c}

StepNum == CeilDiv(TokenNum, StepBatchSize)
StepRows(k) == IF k = StepNum THEN TokenNum - (k - 1) * StepBatchSize ELSE StepBatchSize
HasRows(v, k) == v < StepRows(k)

SplitN == launch.branch = "splitN"
HeadsPerCube == CeilDiv(HeadNum, CubeNum)
HeadBlockNum == CeilDiv(HeadNum, HeadsPerCube)
Heads(c) ==
  IF c >= HeadBlockNum THEN 0
  ELSE IF c = HeadBlockNum - 1 THEN HeadNum - c * HeadsPerCube
  ELSE HeadsPerCube
HeadWidth == QcWidth + QrWidth

(* Blocks of the up-Q product on cube core c, and whether a block belongs  *)
(* to a core at all.  Only the splitN branch tells the blocks apart.       *)
Blocks(c) ==
  IF SplitN THEN CeilDiv(Heads(c) * HeadWidth, BaseN)
  ELSE IF c < QcQrBlockNum THEN 1 ELSE 0

(* Heads whose Qc columns lie within the first n blocks of cube core c.    *)
HeadsWithin(c, n) ==
  Cardinality({h \in 0 .. Heads(c) - 1 : h * HeadWidth + QcWidth <= n * BaseN})

(* With more heads than a counter can hold, only some heads are announced. *)
Announced(c, h) ==
  \/ Heads(c) <= MaxSyncFlagCount
  \/ h % 2 = 0
  \/ h = Heads(c) - 1

-----------------------------------------------------------------------------
(* Flags, by the ids the kernel gives them.                                *)
FINISH_MM_CKVKR == 4
FINISH_MM_CQ == 6
FINISH_MM_QCQR == 6
FINISH_MM_QN_SPLIT_N == 8
FINISH_MM_QCQR_SPLIT_N == 10
FINISH_VEC_RMSNORM_CQ == 6
FINISH_VEC_DEQUANT_QC == 6
FINISH_VEC_DEQUANT_QC_SPLIT_N == 7
FINISH_VEC_CKVKR == 9
VecFlags == {4, 6, 8, 10}
CubeFlags == {6, 7, 9}

(* A cube core sets a flag for each of its vector cores; a flag of the     *)
(* vector cores reaches the cube core when all of them have set it.        *)
SetForVecs(c, f) ==
  toVec' = [v \in Vecs |-> IF CubeOf(v) = c THEN [toVec[v] EXCEPT ![f] = @ + 1] ELSE toVec[v]]
FlagFromVecs(c, f) == \A v \in VecsOf(c) : toCube[v][f] > 0
WaitForVecs(c, f) ==
  /\ FlagFromVecs(c, f)
  /\ toCube' = [v \in Vecs |-> IF CubeOf(v) = c THEN [toCube[v] EXCEPT ![f] = @ - 1]
                                                 ELSE toCube[v]]
SetForCube(v, f, n) == toCube' = [toCube EXCEPT ![v][f] = @ + n]
WaitForCube(v, f) == toVec[v][f] > 0 /\ toVec' = [toVec EXCEPT ![v][f] = @ - 1]

(* WaitAllCore: set the flag of mode 0, then wait until all have set it.   *)
Arrive(v) == vecArrived' = [vecArrived EXCEPT ![v] = @ + 1]
\* Mutant: the flag is set and not waited for.
AllArrivedAtOnce(v) == vecArrived[v] >= 0
AllArrived(v) == \A w \in Vecs : vecArrived[w] >= vecArrived[v]
ArriveCube(c) == cubeArrived' = [cubeArrived EXCEPT ![c] = @ + 1]
AllCubesArrived(c) == \A d \in Cubes : cubeArrived[d] >= cubeArrived[c]

Core(at, step, idx) == [at |-> at, step |-> step, idx |-> idx]

(* VectorBufferInit sets FINISH_VEC_CKVKR once, so that the first down-KV  *)
(* product need not wait.                                                  *)
Init ==
  /\ launch \in Launches
  /\ cube = [c \in Cubes |-> Core("MatmulCq", 1, 0)]
  /\ vec = [v \in Vecs |-> Core("WaitCq", 1, 0)]
  /\ toVec = [v \in Vecs |-> [f \in VecFlags |-> 0]]
  /\ toCube = [v \in Vecs |-> [f \in CubeFlags |-> IF f = FINISH_VEC_CKVKR THEN 1 ELSE 0]]
  /\ vecArrived = [v \in Vecs |-> 0]
  /\ cubeArrived = [c \in Cubes |-> 0]
  /\ mmCqRes = [c \in Cubes |-> 0]
  /\ mmCkvKrRes = [c \in Cubes |-> 0]
  /\ rmsNormCqRes = [v \in Vecs |-> 0]
  /\ mmQcQrRes = [c \in Cubes |-> [step |-> 0, done |-> 0]]
  /\ mmQcQrResDequant = [v \in Vecs |-> [step |-> 0, done |-> 0]]
  /\ qrOut = [v \in Vecs |-> 0]
  /\ mmQnRes = [c \in Cubes |-> [step |-> 0, done |-> 0]]

-----------------------------------------------------------------------------
(* Cube cores: AicProcess.                                                 *)
CubeAt(c, at) == cube[c].at = at
CubeGoes(c, at, idx) == cube' = [cube EXCEPT ![c] = Core(at, cube[c].step, idx)]

MatmulCq(c) ==
  /\ CubeAt(c, "MatmulCq")
  /\ mmCqRes' = IF c < CqBlockNum THEN [mmCqRes EXCEPT ![c] = cube[c].step] ELSE mmCqRes
  /\ SetForVecs(c, FINISH_MM_CQ)
  /\ CubeGoes(c, "MatmulCkvKr", 0)
  /\ UNCHANGED <<launch, vec, toCube, vecArrived, cubeArrived, mmCkvKrRes, rmsNormCqRes,
                 mmQcQrRes, mmQcQrResDequant, qrOut, mmQnRes>>

\* Mutant: a core without columns leaves before it sets the flag.
MatmulCkvKrIdle(c) ==
  /\ CubeAt(c, "MatmulCkvKr")
  /\ WaitForVecs(c, FINISH_VEC_CKVKR)
  /\ IF c < CkvKrBlockNum
       THEN /\ mmCkvKrRes' = [mmCkvKrRes EXCEPT ![c] = cube[c].step]
            /\ SetForVecs(c, FINISH_MM_CKVKR)
       ELSE UNCHANGED <<mmCkvKrRes, toVec>>
  /\ CubeGoes(c, "WaitNorm", 0)
  /\ UNCHANGED <<launch, vec, vecArrived, cubeArrived, mmCqRes, rmsNormCqRes, mmQcQrRes,
                 mmQcQrResDequant, qrOut, mmQnRes>>

MatmulCkvKr(c) ==
  /\ CubeAt(c, "MatmulCkvKr")
  /\ WaitForVecs(c, FINISH_VEC_CKVKR)
  /\ mmCkvKrRes' = IF c < CkvKrBlockNum THEN [mmCkvKrRes EXCEPT ![c] = cube[c].step]
                                         ELSE mmCkvKrRes
  /\ SetForVecs(c, FINISH_MM_CKVKR)
  /\ CubeGoes(c, "WaitNorm", 0)
  /\ UNCHANGED <<launch, vec, vecArrived, cubeArrived, mmCqRes, rmsNormCqRes, mmQcQrRes,
                 mmQcQrResDequant, qrOut, mmQnRes>>

WaitNorm(c) ==
  /\ CubeAt(c, "WaitNorm")
  /\ WaitForVecs(c, FINISH_VEC_RMSNORM_CQ)
  /\ CubeGoes(c, "MatmulQcQr", 0)
  /\ UNCHANGED <<launch, vec, toVec, vecArrived, cubeArrived, mmCqRes, mmCkvKrRes,
                 rmsNormCqRes, mmQcQrRes, mmQcQrResDequant, qrOut, mmQnRes>>

(* One block of the up-Q product.  In the splitN branch the vector cores   *)
(* are told of every block.                                                *)
MatmulQcQr(c) ==
  /\ CubeAt(c, "MatmulQcQr")
  /\ cube[c].idx < Blocks(c)
  /\ mmQcQrRes' = [mmQcQrRes EXCEPT ![c] = [step |-> cube[c].step, done |-> cube[c].idx + 1]]
  /\ IF SplitN THEN SetForVecs(c, FINISH_MM_QCQR_SPLIT_N) ELSE UNCHANGED toVec
  /\ CubeGoes(c, "MatmulQcQr", cube[c].idx + 1)
  /\ UNCHANGED <<launch, vec, toCube, vecArrived, cubeArrived, mmCqRes, mmCkvKrRes,
                 rmsNormCqRes, mmQcQrResDequant, qrOut, mmQnRes>>

(* The splitN branch leaves PreloadQnAndSync at once; otherwise the vector *)
(* cores are told, and without dequantization the cube cores meet.         *)
PreloadQnAndSync(c) ==
  /\ CubeAt(c, "MatmulQcQr")
  /\ cube[c].idx = Blocks(c)
  /\ IF SplitN THEN UNCHANGED toVec ELSE SetForVecs(c, FINISH_MM_QCQR)
  /\ IF launch.branch = "plain" THEN ArriveCube(c) ELSE UNCHANGED cubeArrived
  /\ CubeGoes(c, IF SplitN THEN "MatmulQn" ELSE "WaitQc", 0)
  /\ UNCHANGED <<launch, vec, toCube, vecArrived, mmCqRes, mmCkvKrRes, rmsNormCqRes,
                 mmQcQrRes, mmQcQrResDequant, qrOut, mmQnRes>>

WaitQc(c) ==
  /\ CubeAt(c, "WaitQc")
  /\ IF launch.branch = "dequant"
       THEN WaitForVecs(c, FINISH_VEC_DEQUANT_QC)
       ELSE AllCubesArrived(c) /\ UNCHANGED toCube
  /\ CubeGoes(c, "MatmulQn", 0)
  /\ UNCHANGED <<launch, vec, toVec, vecArrived, cubeArrived, mmCqRes, mmCkvKrRes,
                 rmsNormCqRes, mmQcQrRes, mmQcQrResDequant, qrOut, mmQnRes>>

(* One head of the query product.  In the splitN branch it waits for the   *)
(* heads that are announced.                                               *)
WaitsForHead(c) == SplitN /\ Announced(c, cube[c].idx)
MayMatmulQn(c) ==
  /\ CubeAt(c, "MatmulQn")
  /\ cube[c].idx < Heads(c)
  /\ WaitsForHead(c) => FlagFromVecs(c, FINISH_VEC_DEQUANT_QC_SPLIT_N)
MatmulQn(c) ==
  /\ MayMatmulQn(c)
  /\ IF WaitsForHead(c) THEN WaitForVecs(c, FINISH_VEC_DEQUANT_QC_SPLIT_N)
                        ELSE UNCHANGED toCube
  /\ mmQnRes' = [mmQnRes EXCEPT ![c] = [step |-> cube[c].step, done |-> cube[c].idx + 1]]
  /\ IF launch.quantQn THEN SetForVecs(c, FINISH_MM_QN_SPLIT_N) ELSE UNCHANGED toVec
  /\ CubeGoes(c, "MatmulQn", cube[c].idx + 1)
  /\ UNCHANGED <<launch, vec, vecArrived, cubeArrived, mmCqRes, mmCkvKrRes, rmsNormCqRes,
                 mmQcQrRes, mmQcQrResDequant, qrOut>>

CubeNextStep(c) ==
  /\ CubeAt(c, "MatmulQn")
  /\ cube[c].idx = Heads(c)
  /\ cube' = [cube EXCEPT ![c] = IF cube[c].step < StepNum
                                   THEN Core("MatmulCq", cube[c].step + 1, 0)
                                   ELSE Core("LastWait", cube[c].step, 0)]
  /\ UNCHANGED <<launch, vec, flags, mmCqRes, mmCkvKrRes, rmsNormCqRes, mmQcQrRes,
                 mmQcQrResDequant, qrOut, mmQnRes>>

\* Mutant: the last flag is left where it is.
LastWaitSkipped(c) ==
  /\ CubeAt(c, "LastWait")
  /\ CubeGoes(c, "done", 0)
  /\ UNCHANGED <<launch, vec, flags, mmCqRes, mmCkvKrRes, rmsNormCqRes, mmQcQrRes,
                 mmQcQrResDequant, qrOut, mmQnRes>>

(* Process ends by taking the one FINISH_VEC_CKVKR that is left over.      *)
LastWait(c) ==
  /\ CubeAt(c, "LastWait")
  /\ WaitForVecs(c, FINISH_VEC_CKVKR)
  /\ CubeGoes(c, "done", 0)
  /\ UNCHANGED <<launch, vec, toVec, vecArrived, cubeArrived, mmCqRes, mmCkvKrRes,
                 rmsNormCqRes, mmQcQrRes, mmQcQrResDequant, qrOut, mmQnRes>>

-----------------------------------------------------------------------------
(* Vector cores: AivProcess.                                               *)
VecAt(v, at) == vec[v].at = at
VecGoes(v, at, idx) == vec' = [vec EXCEPT ![v] = Core(at, vec[v].step, idx)]
VecNextStep(v) ==
  vec' = [vec EXCEPT ![v] = IF vec[v].step < StepNum THEN Core("WaitCq", vec[v].step + 1, 0)
                                                      ELSE Core("done", vec[v].step, 0)]

WaitCq(v) ==
  /\ VecAt(v, "WaitCq")
  /\ WaitForCube(v, FINISH_MM_CQ)
  /\ Arrive(v)
  /\ VecGoes(v, "RmsNormCq", 0)
  /\ UNCHANGED <<launch, cube, toCube, cubeArrived, mmCqRes, mmCkvKrRes, rmsNormCqRes,
                 mmQcQrRes, mmQcQrResDequant, qrOut, mmQnRes>>

MayRmsNormCq(v) == VecAt(v, "RmsNormCq") /\ AllArrived(v)
RmsNormCq(v) ==
  /\ MayRmsNormCq(v)
  /\ rmsNormCqRes' = IF HasRows(v, vec[v].step)
                       THEN [rmsNormCqRes EXCEPT ![v] = vec[v].step] ELSE rmsNormCqRes
  /\ Arrive(v)
  /\ VecGoes(v, "ShareNorm", 0)
  /\ UNCHANGED <<launch, cube, toVec, toCube, cubeArrived, mmCqRes, mmCkvKrRes, mmQcQrRes,
                 mmQcQrResDequant, qrOut, mmQnRes>>

MayShareNorm(v) == VecAt(v, "ShareNorm") /\ AllArrived(v)
ShareNorm(v) ==
  /\ MayShareNorm(v)
  /\ SetForCube(v, FINISH_VEC_RMSNORM_CQ, 1)
  /\ VecGoes(v, "WaitCkvKr", 0)
  /\ UNCHANGED <<launch, cube, toVec, vecArrived, cubeArrived, mmCqRes, mmCkvKrRes,
                 rmsNormCqRes, mmQcQrRes, mmQcQrResDequant, qrOut, mmQnRes>>

WaitCkvKr(v) ==
  /\ VecAt(v, "WaitCkvKr")
  /\ WaitForCube(v, FINISH_MM_CKVKR)
  /\ Arrive(v)
  /\ VecGoes(v, "ScatterCkvKr", 0)
  /\ UNCHANGED <<launch, cube, toCube, cubeArrived, mmCqRes, mmCkvKrRes, rmsNormCqRes,
                 mmQcQrRes, mmQcQrResDequant, qrOut, mmQnRes>>

\* Mutant: a vector core waits for the columns of its own cube core only.
MayScatterCkvKrAlone(v) == VecAt(v, "ScatterCkvKr")

(* The rows of the caches are outputs nobody reads again.                  *)
MayScatterCkvKr(v) == VecAt(v, "ScatterCkvKr") /\ AllArrived(v)
RmsNormRopeScatterCkvKr(v) ==
  /\ MayScatterCkvKr(v)
  /\ SetForCube(v, FINISH_VEC_CKVKR, 1)
  /\ VecGoes(v, IF SplitN THEN "SplitN" ELSE "WaitQcQr", 0)
  /\ UNCHANGED <<launch, cube, toVec, vecArrived, cubeArrived, mmCqRes, mmCkvKrRes,
                 rmsNormCqRes, mmQcQrRes, mmQcQrResDequant, qrOut, mmQnRes>>

(* splitN: after every block, dequantize the heads whose Qc columns are    *)
(* there, announce them, and rotate the heads that are complete.           *)
MayDequantAndRope(v) ==
  /\ VecAt(v, "SplitN")
  /\ vec[v].idx < Blocks(CubeOf(v))
  /\ toVec[v][FINISH_MM_QCQR_SPLIT_N] > 0
NewHeads(v) ==
  HeadsWithin(CubeOf(v), vec[v].idx) .. HeadsWithin(CubeOf(v), vec[v].idx + 1) - 1
DequantAndRope(v) ==
  /\ MayDequantAndRope(v)
  /\ WaitForCube(v, FINISH_MM_QCQR_SPLIT_N)
  /\ mmQcQrResDequant' = [mmQcQrResDequant EXCEPT ![v] =
       IF NewHeads(v) = {} THEN @
       ELSE [step |-> vec[v].step, done |-> HeadsWithin(CubeOf(v), vec[v].idx + 1)]]
  /\ SetForCube(v, FINISH_VEC_DEQUANT_QC_SPLIT_N,
                Cardinality({h \in NewHeads(v) : Announced(CubeOf(v), h)}))
  /\ VecGoes(v, "SplitN", vec[v].idx + 1)
  /\ UNCHANGED <<launch, cube, vecArrived, cubeArrived, mmCqRes, mmCkvKrRes, rmsNormCqRes,
                 mmQcQrRes, qrOut, mmQnRes>>

EndSplitN(v) ==
  /\ VecAt(v, "SplitN")
  /\ vec[v].idx = Blocks(CubeOf(v))
  /\ qrOut' = [qrOut EXCEPT ![v] = vec[v].step]
  /\ IF launch.quantQn THEN VecGoes(v, "QuantQn", 0) ELSE VecNextStep(v)
  /\ UNCHANGED <<launch, cube, flags, mmCqRes, mmCkvKrRes, rmsNormCqRes, mmQcQrRes,
                 mmQcQrResDequant, mmQnRes>>

(* The other branches: the vector cores meet before they touch the product *)
(* and, with dequantization, once more before the cube cores are told.     *)
WaitQcQr(v) ==
  /\ VecAt(v, "WaitQcQr")
  /\ WaitForCube(v, FINISH_MM_QCQR)
  /\ Arrive(v)
  /\ VecGoes(v, IF launch.branch = "dequant" THEN "DequantQc" ELSE "RopeQr", 0)
  /\ UNCHANGED <<launch, cube, toCube, cubeArrived, mmCqRes, mmCkvKrRes, rmsNormCqRes,
                 mmQcQrRes, mmQcQrResDequant, qrOut, mmQnRes>>

DequantQc(v) ==
  /\ VecAt(v, "DequantQc")
  /\ AllArrived(v)
  /\ mmQcQrResDequant' = [mmQcQrResDequant EXCEPT ![v].step =
                            IF HasRows(v, vec[v].step) THEN vec[v].step ELSE @]
  /\ Arrive(v)
  /\ VecGoes(v, "ShareQc", 0)
  /\ UNCHANGED <<launch, cube, toVec, toCube, cubeArrived, mmCqRes, mmCkvKrRes, rmsNormCqRes,
                 mmQcQrRes, qrOut, mmQnRes>>

ShareQc(v) ==
  /\ VecAt(v, "ShareQc")
  /\ AllArrived(v)
  /\ SetForCube(v, FINISH_VEC_DEQUANT_QC, 1)
  /\ VecGoes(v, "RopeQr", 0)
  /\ UNCHANGED <<launch, cube, toVec, vecArrived, cubeArrived, mmCqRes, mmCkvKrRes,
                 rmsNormCqRes, mmQcQrRes, mmQcQrResDequant, qrOut, mmQnRes>>

MayRopeQr(v) == VecAt(v, "RopeQr") /\ AllArrived(v)
RopeQr(v) ==
  /\ MayRopeQr(v)
  /\ qrOut' = IF HasRows(v, vec[v].step) THEN [qrOut EXCEPT ![v] = vec[v].step] ELSE qrOut
  /\ IF launch.quantQn THEN Arrive(v) /\ VecGoes(v, "QuantQn", 0)
                       ELSE UNCHANGED vecArrived /\ VecNextStep(v)
  /\ UNCHANGED <<launch, cube, toVec, toCube, cubeArrived, mmCqRes, mmCkvKrRes, rmsNormCqRes,
                 mmQcQrRes, mmQcQrResDequant, mmQnRes>>

(* Head by head behind the cube core; it also scales the rotated part.     *)
MayQuantQn(v) ==
  /\ VecAt(v, "QuantQn")
  /\ AllArrived(v)
  /\ vec[v].idx < Heads(CubeOf(v))
  /\ toVec[v][FINISH_MM_QN_SPLIT_N] > 0
DynamicQuantQnAndMulQr(v) ==
  /\ MayQuantQn(v)
  /\ WaitForCube(v, FINISH_MM_QN_SPLIT_N)
  /\ VecGoes(v, "QuantQn", vec[v].idx + 1)
  /\ UNCHANGED <<launch, cube, toCube, vecArrived, cubeArrived, mmCqRes, mmCkvKrRes,
                 rmsNormCqRes, mmQcQrRes, mmQcQrResDequant, qrOut, mmQnRes>>

EndQuantQn(v) ==
  /\ VecAt(v, "QuantQn")
  /\ AllArrived(v)
  /\ vec[v].idx = Heads(CubeOf(v))
  /\ VecNextStep(v)
  /\ UNCHANGED <<launch, cube, flags, mmCqRes, mmCkvKrRes, rmsNormCqRes, mmQcQrRes,
                 mmQcQrResDequant, qrOut, mmQnRes>>

-----------------------------------------------------------------------------
AllDone == (\A c \in Cubes : CubeAt(c, "done")) /\ (\A v \in Vecs : VecAt(v, "done"))

Aic(c) ==
  \/ MatmulCq(c) \/ MatmulCkvKr(c) \/ WaitNorm(c) \/ MatmulQcQr(c)
  \/ PreloadQnAndSync(c) \/ WaitQc(c) \/ MatmulQn(c) \/ CubeNextStep(c) \/ LastWait(c)
Aiv(v) ==
  \/ WaitCq(v) \/ RmsNormCq(v) \/ ShareNorm(v) \/ WaitCkvKr(v)
  \/ RmsNormRopeScatterCkvKr(v) \/ DequantAndRope(v) \/ EndSplitN(v)
  \/ WaitQcQr(v) \/ DequantQc(v) \/ ShareQc(v) \/ RopeQr(v)
  \/ DynamicQuantQnAndMulQr(v) \/ EndQuantQn(v)

Next == (\E c \in Cubes : Aic(c)) \/ (\E v \in Vecs : Aiv(v))
Spec == Init /\ [][Next]_vars
FairSpec ==
  /\ Spec
  /\ \A c \in Cubes : WF_vars(Aic(c))
  /\ \A v \in Vecs : WF_vars(Aiv(v))
-----------------------------------------------------------------------------
(* Loops count up to the blocks and heads of the core, and so do the       *)
(* counters of the flags that are set in a loop; the others stay at one    *)
(* for each hand-over that shares the id.  No core is more than one step   *)
(* ahead of another, and the cores of a kind differ by at most one barrier.*)
TypeOK ==
  /\ launch \in Launches
  /\ \A c \in Cubes : cube[c].step \in 1 .. StepNum /\ cube[c].idx \in 0 .. Blocks(c) + Heads(c)
  /\ \A v \in Vecs : LET c == CubeOf(v) IN
       /\ vec[v].step \in 1 .. StepNum /\ vec[v].idx \in 0 .. Blocks(c) + Heads(c)
       /\ toVec[v][FINISH_MM_CKVKR] \in 0 .. 1
       /\ toVec[v][FINISH_MM_CQ] \in 0 .. (IF SplitN THEN 1 ELSE 2)
       /\ toVec[v][FINISH_MM_QCQR_SPLIT_N] \in 0 .. Blocks(c)
       /\ toVec[v][FINISH_MM_QN_SPLIT_N] \in 0 .. Heads(c)
       /\ toCube[v][FINISH_VEC_RMSNORM_CQ] \in 0 .. (IF launch.branch = "dequant" THEN 2 ELSE 1)
       /\ toCube[v][FINISH_VEC_DEQUANT_QC_SPLIT_N] \in 0 .. Heads(c)
       /\ toCube[v][FINISH_VEC_CKVKR] \in 0 .. 1
  /\ \A v, w \in Vecs : vecArrived[v] <= vecArrived[w] + 1
  /\ \A c, d \in Cubes : cubeArrived[c] <= cubeArrived[d] + 1
  /\ \A c \in Cubes, v \in Vecs : cube[c].step - vec[v].step \in {-1, 0, 1}

(* What RmsNormCq normalizes is the down-Q product of its own step, the    *)
(* columns of all cube cores: none missing, none already of the next step. *)
CqOfStep ==
  \A v \in Vecs : MayRmsNormCq(v) =>
    \A c \in 0 .. CqBlockNum - 1 : mmCqRes[c] = vec[v].step

(* While a cube core multiplies the normalized rows, and while a vector    *)
(* core copies their scales, all rows are of the step they work on.  In    *)
(* the plain branch they may lie in the memory of the down-Q product       *)
(* itself, which no core may have replaced by the next one.                *)
NormOfStep ==
  LET Normed(k) == \A v \in Vecs : HasRows(v, k) => rmsNormCqRes[v] = k
  IN /\ \A v \in Vecs : MayShareNorm(v) => Normed(vec[v].step)
     /\ \A c \in Cubes : CubeAt(c, "MatmulQcQr") =>
          /\ Normed(cube[c].step)
          /\ launch.branch = "plain" => \A d \in 0 .. CqBlockNum - 1 : mmCqRes[d] = cube[c].step

(* What a vector core writes to the caches is the down-KV product of the   *)
(* tokens of its step.                                                     *)
CkvKrOfStep ==
  \A v \in Vecs : MayScatterCkvKr(v) =>
    \A c \in 0 .. CkvKrBlockNum - 1 : mmCkvKrRes[c] = vec[v].step

(* The same of the launches whose cube cores wait, in every step, for      *)
(* something the vector cores do after they have read the product and met. *)
CkvKrOfSyncedStep == launch.branch = "dequant" => CkvKrOfStep

(* What a vector core dequantizes and rotates has been computed, in its    *)
(* step: in the splitN branch the Qc columns of the heads it takes up.      *)
QcQrOfStep ==
  \A v \in Vecs :
    /\ MayDequantAndRope(v) =>
         LET qcqr == mmQcQrRes[CubeOf(v)]
         IN /\ qcqr.step = vec[v].step
            /\ \A h \in NewHeads(v) : h * HeadWidth + QcWidth <= qcqr.done * BaseN
    /\ (VecAt(v, "DequantQc") /\ AllArrived(v)) \/ MayRopeQr(v) =>
         \A c \in 0 .. QcQrBlockNum - 1 : mmQcQrRes[c].step = vec[v].step

(* A cube core multiplies a head only after that head has been dequantized *)
(* in this step, by every vector core that has a share of it.              *)
HeadsDequantized ==
  \A c \in Cubes : MayMatmulQn(c) =>
    LET k == cube[c].step
    IN CASE launch.branch = "splitN" ->
              \A v \in VecsOf(c) : /\ mmQcQrResDequant[v].step = k
                                   /\ mmQcQrResDequant[v].done > cube[c].idx
         [] launch.branch = "dequant" ->
              \A v \in Vecs : HasRows(v, k) => mmQcQrResDequant[v].step = k
         [] launch.branch = "plain" ->
              \A d \in 0 .. QcQrBlockNum - 1 : mmQcQrRes[d].step = k

(* A head is quantized after it has been multiplied, and scales a rotation *)
(* that is there.                                                          *)
QnOfStep ==
  \A v \in Vecs : MayQuantQn(v) =>
    LET k == vec[v].step
        qn == mmQnRes[CubeOf(v)]
    IN /\ qn.step = k /\ qn.done > vec[v].idx
       /\ ~SplitN => \A w \in Vecs : HasRows(w, k) => qrOut[w] >= k

(* The kernel leaves no flag behind: the next one starts with the same ids. *)
FlagsDrained ==
  AllDone => \A v \in Vecs :
    /\ \A f \in VecFlags : toVec[v][f] = 0
    /\ \A f \in CubeFlags : toCube[v][f] = 0

(* Every core gets to the end: the kernel stops nowhere else, no wait is   *)
(* left without its flag.                                                  *)
KernelEnds == <>AllDone

(* Between the stages of a step nothing is early and nothing stale: every  *)
(* product, normalization, dequantization, rotation and quantization finds *)
(* what it reads complete and of its own step, although rows are split over*)
(* vector cores, columns over cube cores, and all steps share a workspace. *)
HandOversOfStep ==
  CqOfStep /\ NormOfStep /\ CkvKrOfSyncedStep /\ QcQrOfStep /\ HeadsDequantized /\ QnOfStep
=============================================================================

-------------------------- MODULE WorkSplitProofs --------------------------
(***************************************************************************)
(* Every way of dividing the work gives each item to exactly one core, for *)
(* every number of items and of cores.  The runs use a few cores and a few *)
(* items; these theorems are what makes that enough.                       *)
(*                                                                         *)
(* The second half is about the tables of SumOrder: sums over finite sets, *)
(* by induction on their size, and lists in order.                         *)
(***************************************************************************)
EXTENDS WorkSplit, SumOrder, FiniteSetTheorems, TLAPS

LEMMA DivMod ==
  ASSUME NEW n \in Nat, NEW d \in Nat \ {0}
  PROVE  /\ n \div d \in Nat
         /\ n % d \in 0 .. d - 1
         /\ n = d * (n \div d) + (n % d)
  OBVIOUS

(* Quotient and remainder are unique. *)
LEMMA DivUnique ==
  ASSUME NEW d \in Nat \ {0}, NEW q1 \in Int, NEW q2 \in Int,
         NEW r1 \in 0 .. d - 1, NEW r2 \in 0 .. d - 1,
         d * q1 + r1 = d * q2 + r2
  PROVE  q1 = q2 /\ r1 = r2
<1>1. CASE q1 < q2
  <2>1. d * (q2 - q1) >= d
    BY <1>1
  <2>2. d * (q2 - q1) = d * q2 - d * q1
    OBVIOUS
  <2> QED BY <2>1, <2>2
<1>2. CASE q2 < q1
  <2>1. d * (q1 - q2) >= d
    BY <1>2
  <2>2. d * (q1 - q2) = d * q1 - d * q2
    OBVIOUS
  <2> QED BY <2>1, <2>2
<1> QED BY <1>1, <1>2

LEMMA SendNumType ==
  ASSUME NEW n \in Nat, NEW cores \in Nat \ {0}, NEW c \in 0 .. cores - 1
  PROVE  SendNum(c, n, cores) \in Nat
  BY DivMod DEF SendNum

(* The token loop of SendTokenToFFN and FFNToAttention::Process: the work  *)
(* is counted by SplitToCore but addressed with a stride; still every      *)
(* token of 0 .. n-1 belongs to one core, and no core leaves the range.    *)
THEOREM StridedCovers ==
  ASSUME NEW n \in Nat, NEW cores \in Nat \ {0}, NEW t \in 0 .. n - 1
  PROVE  t \in Strided(t % cores, n, cores) /\ (t % cores) \in 0 .. cores - 1
<1> DEFINE c == t % cores
           i == t \div cores
           q == n \div cores
           r == n % cores
<1>1. /\ i \in Nat /\ c \in 0 .. cores - 1
      /\ t = cores * i + c
      /\ q \in Nat /\ r \in 0 .. cores - 1
      /\ n = cores * q + r
  BY DivMod
<1> HIDE DEF c, i, q, r
<1>2. i <= q
  <2> SUFFICES ASSUME i >= q + 1 PROVE FALSE
    BY <1>1
  <2>1. cores * i >= cores * (q + 1)
    BY <1>1
  <2>2. cores * (q + 1) = cores * q + cores
    BY <1>1
  <2> QED BY <1>1, <2>1, <2>2
<1>3. c >= r => i < q
  <2> SUFFICES ASSUME c >= r, i = q PROVE FALSE
    BY <1>1, <1>2
  <2> QED BY <1>1
<1>4. SendNum(c, n, cores) = q + (IF c < r THEN 1 ELSE 0)
  BY DEF SendNum, q, r
<1>5. i \in 0 .. SendNum(c, n, cores) - 1
  BY <1>1, <1>2, <1>3, <1>4
<1>6. t = c + i * cores
  BY <1>1
<1>7. t \in Strided(c, n, cores)
  BY <1>5, <1>6 DEF Strided
<1> QED BY <1>1, <1>7 DEF c

THEOREM StridedWithin ==
  ASSUME NEW n \in Nat, NEW cores \in Nat \ {0}, NEW c \in 0 .. cores - 1,
         NEW t \in Strided(c, n, cores)
  PROVE  t \in 0 .. n - 1 /\ t % cores = c
<1> DEFINE q == n \div cores
           r == n % cores
<1>1. q \in Nat /\ r \in 0 .. cores - 1 /\ n = cores * q + r
  BY DivMod
<1>2. PICK i \in 0 .. SendNum(c, n, cores) - 1 : t = c + i * cores
  BY DEF Strided
<1>3. SendNum(c, n, cores) = q + (IF c < r THEN 1 ELSE 0)
  BY DEF SendNum
<1> HIDE DEF q, r
<1>4. i \in Nat /\ t = cores * i + c
  BY <1>1, <1>2, <1>3
<1>5. t < n
  <2>1. CASE i = q
    BY <1>1, <1>2, <1>3, <1>4, <2>1
  <2>2. CASE i < q
    <3>1. cores * q >= cores * (i + 1)
      BY <1>1, <1>4, <2>2
    <3>2. cores * (i + 1) = cores * i + cores
      BY <1>4
    <3> QED BY <1>1, <1>4, <3>1, <3>2
  <2> QED BY <1>1, <1>2, <1>3, <2>1, <2>2
<1>6. t \in Nat
  <2>1. cores * i \in Nat
    BY <1>4
  <2> QED BY <1>4, <2>1
<1>7. t = cores * (t \div cores) + (t % cores) /\ t % cores \in 0 .. cores - 1 /\ t \div cores \in Nat
  BY <1>6, DivMod
<1>8. t % cores = c
  <2> DEFINE a == t \div cores
             b == t % cores
  <2>1. a \in Int /\ i \in Int /\ b \in 0 .. cores - 1 /\ c \in 0 .. cores - 1
    BY <1>4, <1>7
  <2>2. cores * a + b = cores * i + c
    BY <1>4, <1>7
  <2> HIDE DEF a, b
  <2>3. a = i /\ b = c
    BY <2>1, <2>2, DivUnique
  <2> QED BY <2>3 DEF b
<1> QED BY <1>5, <1>6, <1>8

(* The chunks of SplitToCore lie side by side from 0 to n: what one core   *)
(* leaves the next one takes up, and the last one ends at n.  SetFlagToFFN *)
(* and SetFlagInAttn walk these chunks.                                    *)
THEOREM ChunksAdjacent ==
  ASSUME NEW n \in Nat, NEW cores \in Nat \ {0}
  PROVE  /\ StartId(0, n, cores) = 0
         /\ EndId(cores - 1, n, cores) = n
         /\ \A c \in 0 .. cores - 2 : StartId(c + 1, n, cores) = EndId(c, n, cores)
<1> DEFINE q == n \div cores
           r == n % cores
<1>1. q \in Nat /\ r \in 0 .. cores - 1 /\ n = cores * q + r
  BY DivMod
<1>2. \A c \in Int : /\ StartId(c, n, cores) = q * c + (IF c < r THEN c ELSE r)
                     /\ SendNum(c, n, cores) = q + (IF c < r THEN 1 ELSE 0)
  BY DEF StartId, SendNum
<1> HIDE DEF q, r
<1>3. StartId(0, n, cores) = 0
  BY <1>1, <1>2
<1>4. EndId(cores - 1, n, cores) = n
  <2> DEFINE e == cores - 1
  <2>0. e \in Int /\ ~(e < r)
    BY <1>1
  <2> HIDE DEF e
  <2>1. StartId(e, n, cores) = q * e + r
    BY <1>2, <2>0
  <2>2. SendNum(e, n, cores) = q + 0
    BY <1>2, <2>0
  <2> USE DEF e
  <2>3. q * (cores - 1) = cores * q - q
    BY <1>1
  <2> QED BY <1>1, <2>1, <2>2, <2>3 DEF EndId
<1>5. ASSUME NEW c \in 0 .. cores - 2
      PROVE  StartId(c + 1, n, cores) = EndId(c, n, cores)
  <2>1. q * (c + 1) = q * c + q
    BY <1>1
  <2>2. StartId(c + 1, n, cores) = q * (c + 1) + (IF c + 1 < r THEN c + 1 ELSE r)
    BY <1>2
  <2>3. EndId(c, n, cores) = (q * c + (IF c < r THEN c ELSE r)) + (q + (IF c < r THEN 1 ELSE 0))
    <3>1. c \in Int
      OBVIOUS
    <3>2. StartId(c, n, cores) = q * c + (IF c < r THEN c ELSE r)
      BY <1>2, <3>1
    <3>3. SendNum(c, n, cores) = q + (IF c < r THEN 1 ELSE 0)
      BY <1>2, <3>1
    <3> QED BY <3>2, <3>3 DEF EndId
  <2>4. q * c \in Int
    BY <1>1
  <2> QED BY <1>1, <2>1, <2>2, <2>3, <2>4
<1> QED BY <1>3, <1>4, <1>5

LEMMA StartMonotone ==
  ASSUME NEW n \in Nat, NEW cores \in Nat \ {0},
         NEW c \in 0 .. cores - 1, NEW d \in 0 .. cores - 1, c < d
  PROVE  EndId(c, n, cores) <= StartId(d, n, cores)
<1> DEFINE q == n \div cores
           r == n % cores
<1>1. q \in Nat /\ r \in 0 .. cores - 1
  BY DivMod
<1>2. /\ StartId(d, n, cores) = q * d + (IF d < r THEN d ELSE r)
      /\ EndId(c, n, cores) = q * c + (IF c < r THEN c ELSE r) + q + (IF c < r THEN 1 ELSE 0)
  BY <1>1 DEF StartId, EndId, SendNum
<1> HIDE DEF q, r
<1>3. q * d >= q * (c + 1)
  BY <1>1
<1>4. q * (c + 1) = q * c + q
  BY <1>1
<1>5. q * c \in Int /\ q * d \in Int
  BY <1>1
<1> QED BY <1>1, <1>2, <1>3, <1>4, <1>5

(* A chunk of SplitToCore lies between 0 and n.                            *)
LEMMA ChunkBounds ==
  ASSUME NEW n \in Nat, NEW m \in Nat \ {0}, NEW b \in 0 .. m - 1
  PROVE  /\ StartId(b, n, m) \in Nat /\ EndId(b, n, m) \in Nat
         /\ StartId(b, n, m) <= EndId(b, n, m) /\ EndId(b, n, m) <= n
<1>1. ASSUME NEW d \in 0 .. m - 1
      PROVE  SendNum(d, n, m) \in Nat /\ StartId(d, n, m) \in Nat
  <2> DEFINE e == n \div m
             r == n % m
  <2>1. e \in Nat /\ r \in Nat /\ d \in Nat
    BY DivMod
  <2>2. e * d \in Nat
    BY <2>1
  <2> HIDE DEF e, r
  <2>3. StartId(d, n, m) = e * d + (IF d < r THEN d ELSE r)
    BY DEF StartId, e, r
  <2>4. StartId(d, n, m) \in Nat
    BY <2>1, <2>2, <2>3
  <2> QED BY <2>4, SendNumType
<1>2. \A d \in 0 .. m - 1 : EndId(d, n, m) = StartId(d, n, m) + SendNum(d, n, m)
  BY DEF EndId
<1>3. EndId(m - 1, n, m) = n
  BY ChunksAdjacent
<1>4. m - 1 \in 0 .. m - 1
  OBVIOUS
<1>5. b < m - 1 => EndId(b, n, m) <= StartId(m - 1, n, m)
  BY <1>4, StartMonotone
<1> QED BY <1>1, <1>2, <1>3, <1>4, <1>5

(* No FFN gets its flag from two cores, no masked token two writers.       *)
THEOREM ChunksDisjoint ==
  ASSUME NEW n \in Nat, NEW cores \in Nat \ {0},
         NEW c \in 0 .. cores - 1, NEW d \in 0 .. cores - 1, c # d
  PROVE  Chunk(c, n, cores) \cap Chunk(d, n, cores) = {}
<1>1. \A e \in 0 .. cores - 1 : StartId(e, n, cores) \in Int /\ EndId(e, n, cores) \in Int
  BY DivMod DEF StartId, EndId, SendNum
<1>2. ASSUME NEW x \in 0 .. cores - 1, NEW y \in 0 .. cores - 1, x < y
      PROVE  Chunk(x, n, cores) \cap Chunk(y, n, cores) = {}
  BY <1>1, <1>2, StartMonotone DEF Chunk
<1> QED BY <1>2

(* Every FFN, and every masked token, is in the chunk of some core.        *)
THEOREM ChunksCover ==
  ASSUME NEW n \in Nat, NEW cores \in Nat \ {0}, NEW t \in 0 .. n - 1
  PROVE  \E c \in 0 .. cores - 1 : t \in Chunk(c, n, cores)
<1> DEFINE q == n \div cores
           r == n % cores
           big == (q + 1) * r
<1>1. q \in Nat /\ r \in 0 .. cores - 1 /\ n = cores * q + r
  BY DivMod
<1>2. \A c \in Int : /\ StartId(c, n, cores) = q * c + (IF c < r THEN c ELSE r)
                     /\ SendNum(c, n, cores) = q + (IF c < r THEN 1 ELSE 0)
  BY DEF StartId, SendNum
<1> HIDE DEF q, r
<1>3. CASE t < big
  <2> DEFINE c == t \div (q + 1)
             b == t % (q + 1)
  <2>1. c \in Nat /\ b \in 0 .. q /\ t = (q + 1) * c + b
    <3> DEFINE d == q + 1
    <3>1. d \in Nat \ {0} /\ t \in Nat /\ d - 1 = q
      BY <1>1
    <3> HIDE DEF d
    <3>2. t \div d \in Nat /\ t % d \in 0 .. d - 1 /\ t = d * (t \div d) + (t % d)
      BY <3>1, DivMod
    <3> QED BY <3>1, <3>2 DEF d
  <2> HIDE DEF c, b
  <2>2. c < r
    <3> SUFFICES ASSUME c >= r PROVE FALSE
      BY <1>1, <2>1
    <3>1. (q + 1) * c >= (q + 1) * r
      BY <1>1, <2>1
    <3> QED BY <1>1, <1>3, <2>1, <3>1
  <2>3. StartId(c, n, cores) = q * c + c /\ SendNum(c, n, cores) = q + 1
    <3>1. c \in Int
      BY <2>1
    <3> QED BY <1>2, <2>2, <3>1
  <2>4. (q + 1) * c = q * c + c
    BY <1>1, <2>1
  <2>5. q * c \in Int
    BY <1>1, <2>1
  <2>6. t \in Chunk(c, n, cores)
    BY <1>1, <2>1, <2>3, <2>4, <2>5 DEF Chunk, EndId
  <2> QED BY <1>1, <2>1, <2>2, <2>6
<1>4. CASE ~(t < big)
  <2> DEFINE u == t - big
             a == u \div q
             b == u % q
             c == r + a
  <2>1. big = q * r + r /\ big \in Nat
    BY <1>1
  <2>2. n - big = q * (cores - r)
    <3>1. q * (cores - r) = cores * q - q * r
      BY <1>1
    <3> QED BY <1>1, <2>1, <3>1
  <2>3. q # 0
    <3> SUFFICES ASSUME q = 0 PROVE FALSE
      OBVIOUS
    <3>1. q * (cores - r) = 0
      BY <1>1
    <3> QED BY <1>1, <1>4, <2>1, <2>2, <3>1
  <2>4. u \in Nat /\ u < q * (cores - r)
    BY <1>1, <1>4, <2>1, <2>2
  <2> HIDE DEF big
  <2>5. a \in Nat /\ b \in 0 .. q - 1 /\ u = q * a + b
    BY <1>1, <2>3, <2>4, DivMod
  <2>6. u = t - big
    OBVIOUS
  <2> HIDE DEF a, b, u
  <2>7. a < cores - r
    <3> SUFFICES ASSUME a >= cores - r PROVE FALSE
      BY <1>1, <2>5
    <3>1. q * a >= q * (cores - r)
      BY <1>1, <2>5
    <3> QED BY <1>1, <2>4, <2>5, <3>1
  <2>8. c \in 0 .. cores - 1 /\ ~(c < r)
    BY <1>1, <2>5, <2>7
  <2>9. StartId(c, n, cores) = q * c + r /\ SendNum(c, n, cores) = q + 0
    <3>1. c \in Int /\ ~(c < r)
      BY <2>8
    <3> HIDE DEF c
    <3> QED BY <1>2, <3>1
  <2>10. q * c = q * r + q * a
    BY <1>1, <2>5
  <2>11. q * a \in Int /\ q * r \in Int
    BY <1>1, <2>5
  <2>12. t = q * c + r + b
    BY <1>1, <2>1, <2>4, <2>5, <2>6, <2>10, <2>11
  <2> HIDE DEF c
  <2>13. q * c \in Int
    BY <1>1, <2>8
  <2>14. t \in Chunk(c, n, cores)
    BY <1>1, <2>5, <2>8, <2>9, <2>12, <2>13 DEF Chunk, EndId
  <2> QED BY <2>8, <2>14
<1> QED BY <1>3, <1>4

LEMMA CeilDivBounds ==
  ASSUME NEW n \in Nat, NEW d \in Nat \ {0}
  PROVE  /\ CeilDiv(n, d) \in Nat
         /\ d * CeilDiv(n, d) >= n
         /\ d * CeilDiv(n, d) < n + d
<1> DEFINE m == n + d - 1
<1>1. m \in Nat
  OBVIOUS
<1> HIDE DEF m
<1>2. m \div d \in Nat /\ m % d \in 0 .. d - 1 /\ m = d * (m \div d) + (m % d)
  BY <1>1, DivMod
<1>3. CeilDiv(n, d) = m \div d
  BY DEF CeilDiv, m
<1>4. m = n + d - 1
  BY DEF m
<1> QED BY <1>2, <1>3, <1>4

(* With at least one row, at most all cores get a chunk, and the last one  *)
(* that does gets at least one row and no more than the others: the gather *)
(* and the combine never start a core with a negative or an empty rest.    *)
THEOREM LastCoreWorks ==
  ASSUME NEW n \in Nat \ {0}, NEW cores \in Nat \ {0}
  PROVE  /\ PerCore(n, cores) \in Nat \ {0}
         /\ NeedCores(n, cores) \in 1 .. cores
         /\ LastCore(n, cores) \in 1 .. PerCore(n, cores)
<1> DEFINE p == PerCore(n, cores)
           k == NeedCores(n, cores)
<1>1. p \in Nat /\ cores * p >= n
  BY CeilDivBounds DEF PerCore
<1>2. p # 0
  <2> SUFFICES ASSUME p = 0 PROVE FALSE
    OBVIOUS
  <2>1. cores * p = 0
    OBVIOUS
  <2> QED BY <1>1, <2>1
<1>3. k = CeilDiv(n, p)
  BY <1>2 DEF NeedCores
<1>4. LastCore(n, cores) = n - p * (k - 1)
  BY DEF LastCore
<1> HIDE DEF p, k
<1>5. k \in Nat /\ p * k >= n /\ p * k < n + p
  BY <1>1, <1>2, <1>3, CeilDivBounds
<1>6. k # 0
  <2> SUFFICES ASSUME k = 0 PROVE FALSE
    OBVIOUS
  <2>1. p * k = 0
    BY <1>1
  <2> QED BY <1>5, <2>1
<1>7. k <= cores
  <2> SUFFICES ASSUME k >= cores + 1 PROVE FALSE
    BY <1>5
  <2>1. p * k >= p * (cores + 1)
    BY <1>1, <1>5
  <2>2. p * (cores + 1) = cores * p + p
    BY <1>1
  <2> QED BY <1>1, <1>5, <2>1, <2>2
<1>8. p * (k - 1) = p * k - p /\ p * k \in Int
  BY <1>1, <1>5
<1>9. LastCore(n, cores) \in 1 .. p
  BY <1>1, <1>4, <1>5, <1>8
<1> QED BY <1>1, <1>2, <1>5, <1>6, <1>7, <1>9 DEF p, k

(* Every row is in the chunk of exactly one core.                          *)
THEOREM CeilChunksCover ==
  ASSUME NEW n \in Nat, NEW cores \in Nat \ {0}, NEW t \in 0 .. n - 1
  PROVE  \E c \in 0 .. cores - 1 : t \in CeilChunk(c, n, cores)
<1> DEFINE p == PerCore(n, cores)
           k == NeedCores(n, cores)
           l == LastCore(n, cores)
           c == t \div p
           b == t % p
<1>0. n \in Nat \ {0} /\ t \in Nat
  OBVIOUS
<1>1. p \in Nat \ {0} /\ k \in 1 .. cores
  BY <1>0, LastCoreWorks
<1>2. l = n - p * (k - 1)
  BY DEF LastCore
<1>3. k = CeilDiv(n, p)
  BY <1>1 DEF NeedCores
<1>4. CeilChunk(c, n, cores) =
        IF c < k THEN c * p .. c * p + (IF c = k - 1 THEN l ELSE p) - 1 ELSE {}
  BY DEF CeilChunk
<1> HIDE DEF p, k, l
<1>5. p * k >= n
  BY <1>0, <1>1, <1>3, CeilDivBounds
<1>6. c \in Nat /\ b \in 0 .. p - 1 /\ t = p * c + b
  BY <1>0, <1>1, DivMod
<1> HIDE DEF c, b
<1>7. c < k
  <2> SUFFICES ASSUME c >= k PROVE FALSE
    BY <1>1, <1>6
  <2>1. p * c >= p * k
    BY <1>1, <1>6
  <2> QED BY <1>0, <1>1, <1>5, <1>6, <2>1
<1>8. c * p = p * c /\ p * c \in Int
  BY <1>1, <1>6
<1>9. CASE c = k - 1
  <2>1. p * (k - 1) = p * c
    BY <1>9
  <2>2. t \in c * p .. c * p + l - 1
    BY <1>0, <1>1, <1>2, <1>6, <1>8, <2>1
  <2>3. t \in CeilChunk(c, n, cores)
    BY <1>4, <1>7, <1>9, <2>2
  <2> QED BY <1>1, <1>6, <1>7, <2>3
<1>10. CASE c # k - 1
  <2>2. t \in c * p .. c * p + p - 1
    BY <1>0, <1>1, <1>6, <1>8
  <2>3. t \in CeilChunk(c, n, cores)
    BY <1>4, <1>7, <1>10, <2>2
  <2> QED BY <1>1, <1>6, <1>7, <2>3
<1> QED BY <1>9, <1>10

THEOREM CeilChunksDisjoint ==
  ASSUME NEW n \in Nat \ {0}, NEW cores \in Nat \ {0},
         NEW c \in 0 .. cores - 1, NEW d \in 0 .. cores - 1, c # d
  PROVE  CeilChunk(c, n, cores) \cap CeilChunk(d, n, cores) = {}
<1> DEFINE p == PerCore(n, cores)
           k == NeedCores(n, cores)
           l == LastCore(n, cores)
<1>1. p \in Nat \ {0} /\ k \in 1 .. cores /\ l \in 1 .. p
  BY LastCoreWorks
<1>2. \A e \in 0 .. cores - 1 : CeilChunk(e, n, cores) =
        IF e < k THEN e * p .. e * p + (IF e = k - 1 THEN l ELSE p) - 1 ELSE {}
  BY DEF CeilChunk
<1> HIDE DEF p, k, l
<1>3. ASSUME NEW x \in 0 .. cores - 1, NEW y \in 0 .. cores - 1, x < y
      PROVE  CeilChunk(x, n, cores) \cap CeilChunk(y, n, cores) = {}
  <2>1. y * p >= (x + 1) * p
    BY <1>1, <1>3
  <2>2. (x + 1) * p = x * p + p
    BY <1>1
  <2>3. x * p \in Int /\ y * p \in Int
    BY <1>1
  <2>4. ASSUME NEW t \in CeilChunk(x, n, cores) PROVE t \in Int /\ t < x * p + p
    <3> DEFINE size == IF x = k - 1 THEN l ELSE p
    <3>1. size \in Int /\ size <= p
      BY <1>1
    <3>2. t \in x * p .. x * p + size - 1
      BY <1>2, <2>4
    <3> HIDE DEF size
    <3> QED BY <2>3, <3>1, <3>2, <1>1
  <2>5. ASSUME NEW t \in CeilChunk(y, n, cores) PROVE t >= y * p
    <3> DEFINE size == IF y = k - 1 THEN l ELSE p
    <3>1. size \in Int
      BY <1>1
    <3>2. t \in y * p .. y * p + size - 1
      BY <1>2, <2>5
    <3> HIDE DEF size
    <3> QED BY <2>3, <3>1, <3>2
  <2>6. ASSUME NEW t \in CeilChunk(x, n, cores), t \in CeilChunk(y, n, cores) PROVE FALSE
    <3>1. t \in Int /\ t < x * p + p /\ t >= y * p
      BY <2>4, <2>5, <2>6
    <3> HIDE DEF p
    <3> QED BY <2>1, <2>2, <2>3, <3>1, <1>1
  <2> QED BY <2>6
<1> QED BY <1>3

LEMMA CeilDivPositive ==
  ASSUME NEW n \in Nat \ {0}, NEW d \in Nat \ {0}
  PROVE  CeilDiv(n, d) \in Nat \ {0}
<1>1. CeilDiv(n, d) \in Nat /\ d * CeilDiv(n, d) >= n
  BY CeilDivBounds
<1>2. CeilDiv(n, d) # 0
  BY <1>1
<1> QED BY <1>1, <1>2

LEMMA TimesMonotone ==
  ASSUME NEW x \in Int, NEW y \in Int, NEW z \in Nat, x <= y
  PROVE  x * z <= y * z
  OBVIOUS

(* TilingScanMultiCoreSort takes the number of sort cores from the number  *)
(* of full sorts, but the share of a core from the number of sessions; the *)
(* two roundings never leave the last core without a session (or with a    *)
(* negative lastCoreSessionNum), and there are as many cores as it needs.  *)
THEOREM SortSplitWorks ==
  ASSUME NEW a \in Nat \ {0}, NEW m \in Nat \ {0}, NEW cores \in Nat \ {0}
  PROVE  /\ SortNeed(a, m, cores) \in 1 .. cores
         /\ SortPer(a, m, cores) \in Nat \ {0}
         /\ SortLast(a, m, cores) \in 1 .. SortPer(a, m, cores)
<1> DEFINE left == CeilDiv(a, m)
           q    == CeilDiv(left, cores)
           k    == CeilDiv(left, q)
           per  == CeilDiv(a, k)
<1>1. left \in Nat \ {0} /\ m * left >= a /\ m * left < a + m
  BY CeilDivPositive, CeilDivBounds
<1>2. q \in Nat \ {0} /\ cores * q >= left
  <2> HIDE DEF left
  <2> QED BY <1>1, CeilDivPositive, CeilDivBounds
<1>3. k \in Nat \ {0} /\ q * k >= left /\ q * k < left + q
  <2> HIDE DEF left, q
  <2> QED BY <1>1, <1>2, CeilDivPositive, CeilDivBounds
<1>4. per \in Nat \ {0} /\ k * per >= a /\ k * per < a + k
  <2> HIDE DEF k
  <2> QED BY <1>3, CeilDivPositive, CeilDivBounds
<1>5. SortNeed(a, m, cores) = IF k < cores THEN k ELSE cores
  BY DEF SortNeed
<1> HIDE DEF left, q, k
<1>6. k <= cores
  <2> SUFFICES ASSUME k >= cores + 1 PROVE FALSE
    BY <1>3
  <2>1. (cores + 1) * q <= k * q
    BY <1>2, <1>3, TimesMonotone
  <2>2. (cores + 1) * q = cores * q + q /\ k * q = q * k
    BY <1>2, <1>3
  <2>3. cores * q \in Int /\ q * k \in Int
    BY <1>2, <1>3
  <2> QED BY <1>1, <1>2, <1>3, <2>1, <2>2, <2>3
<1>7. SortNeed(a, m, cores) = k
  BY <1>3, <1>5, <1>6
<1>8. SortPer(a, m, cores) = per /\ SortLast(a, m, cores) = a - (k - 1) * per
  BY <1>7 DEF SortPer, SortLast
<1> HIDE DEF per
<1>9. per <= q * m
  <2> DEFINE qm == q * m
  <2>0. qm \in Nat
    BY <1>2
  <2> SUFFICES ASSUME per >= qm + 1 PROVE FALSE
    BY <1>4, <2>0
  <2>1. (qm + 1) * k <= per * k
    BY <1>3, <1>4, <2>0, TimesMonotone
  <2>2. left * m <= (q * k) * m
    BY <1>1, <1>2, <1>3, TimesMonotone
  <2>3. (q * k) * m = qm * k
    BY <1>2, <1>3
  <2>4. (qm + 1) * k = qm * k + k /\ per * k = k * per /\ left * m = m * left
    BY <1>1, <1>3, <1>4, <2>0
  <2>5. qm * k \in Int /\ k * per \in Int /\ m * left \in Int
    BY <1>1, <1>3, <1>4, <2>0
  <2> HIDE DEF qm
  <2> QED BY <1>1, <1>3, <1>4, <2>1, <2>2, <2>3, <2>4, <2>5
<1>10. (k - 1) * per < a
  <2> DEFINE qm == q * m
             kq == (k - 1) * q
  <2>1. qm \in Nat /\ kq \in Nat
    BY <1>2, <1>3
  <2>2. kq = q * k - q /\ q * k \in Int
    BY <1>2, <1>3
  <2>3. kq <= left - 1
    <3> HIDE DEF kq
    <3> QED BY <1>1, <1>2, <1>3, <2>2
  <2>4. per * (k - 1) <= qm * (k - 1)
    BY <1>3, <1>4, <1>9, <2>1, TimesMonotone
  <2>5. qm * (k - 1) = kq * m
    BY <1>2, <1>3
  <2>6. kq * m <= (left - 1) * m
    <3> HIDE DEF kq
    <3> QED BY <1>1, <2>1, <2>3, TimesMonotone
  <2>7. (left - 1) * m = m * left - m /\ m * left \in Int /\ per * (k - 1) = (k - 1) * per
    BY <1>1, <1>3, <1>4
  <2>8. per * (k - 1) \in Int /\ kq * m \in Int
    BY <1>3, <1>4, <2>1
  <2> HIDE DEF qm, kq
  <2> QED BY <1>1, <2>4, <2>5, <2>6, <2>7, <2>8
<1>11. (k - 1) * per = k * per - per /\ k * per \in Int
  BY <1>3, <1>4
<1> QED BY <1>3, <1>4, <1>6, <1>7, <1>8, <1>10, <1>11

(* Every session is in the share of a sort core. *)
THEOREM SortChunksCover ==
  ASSUME NEW a \in Nat \ {0}, NEW m \in Nat \ {0}, NEW cores \in Nat \ {0}, NEW t \in 0 .. a - 1
  PROVE  \E c \in 0 .. cores - 1 : t \in SortChunk(c, a, m, cores)
<1> DEFINE k == SortNeed(a, m, cores)
           p == SortPer(a, m, cores)
           l == SortLast(a, m, cores)
           c == t \div p
           b == t % p
<1>1. p \in Nat \ {0} /\ k \in 1 .. cores /\ l \in 1 .. p
  BY SortSplitWorks
<1>2. l = a - (k - 1) * p
  BY DEF SortLast
<1> HIDE DEF p, k, l
<1>3. c \in Nat /\ b \in 0 .. p - 1 /\ t = p * c + b
  <2>1. t \in Nat
    OBVIOUS
  <2> QED  BY <1>1, <2>1, DivMod
<1> HIDE DEF c, b
<1>4. c * p \in Nat /\ c * p = p * c
  BY <1>1, <1>3
<1>5. c <= k - 1
  <2> SUFFICES ASSUME c >= k PROVE FALSE
    BY <1>1, <1>3
  <2>1. k * p <= c * p
    BY <1>1, <1>3, TimesMonotone
  <2>2. (k - 1) * p = k * p - p /\ k * p \in Int
    BY <1>1
  <2> QED  BY <1>1, <1>2, <1>3, <1>4, <2>1, <2>2
<1>6. c \in 0 .. cores - 1 /\ c < k
  BY <1>1, <1>3, <1>5
<1>7. CASE c = k - 1
  <2>1. t < c * p + l
    <3>1. (k - 1) * p = c * p
      BY <1>7
    <3> QED  BY <1>1, <1>2, <1>4, <3>1
  <2>2. t \in c * p .. c * p + l - 1
    BY <1>1, <1>3, <1>4, <2>1
  <2> QED  BY <1>6, <1>7, <2>2 DEF SortChunk, p, k, l
<1>8. CASE c # k - 1
  <2>1. t \in c * p .. c * p + p - 1
    BY <1>1, <1>3, <1>4
  <2> QED  BY <1>6, <1>8, <2>1 DEF SortChunk, p, k, l
<1> QED  BY <1>7, <1>8

(* The stride of the combine's send order has an inverse modulo the number *)
(* of rows: half of n and one, made odd where n is even, has no factor in  *)
(* common with n.                                                          *)
LEMMA StrideInverse ==
  ASSUME NEW n \in Nat \ {0}
  PROVE  /\ PermStride(n) \in Nat \ {0}
         /\ \E u \in Nat, a \in Nat : u * PermStride(n) = 1 + n * a
<1> DEFINE s == PermStride(n)
           m == n \div 2
           c == m \div 4
<1>1. CASE n <= 2
  <2>1. s = 1
    BY <1>1 DEF PermStride
  <2>2. 1 * s = 1 + n * 0
    BY <2>1
  <2> QED BY <2>1, <2>2
<1>2. CASE n > 2 /\ n % 2 = 1
  <2>1. m \in Nat /\ n = 2 * m + 1
    BY <1>2, DivMod
  <2>2. s = m + 1
    BY <1>2 DEF PermStride
  <2>3. 2 * s = 1 + n * 1
    BY <2>1, <2>2
  <2>4. s \in Nat \ {0}
    BY <2>1, <2>2
  <2> HIDE DEF s
  <2>5. \E u \in Nat, a \in Nat : u * s = 1 + n * a
    BY <2>3
  <2> QED BY <2>4, <2>5 DEF s
<1>3. CASE n > 2 /\ n % 2 = 0 /\ m % 2 = 0
  <2> DEFINE h == m \div 2
  <2>1. h \in Nat /\ m = 2 * h /\ n = 2 * m
    BY <1>3, DivMod
  <2>2. (m + 1) % 2 = 1
    BY <1>3, <2>1
  <2>3. s = m + 1
    BY <1>3, <2>2 DEF PermStride
  <2> HIDE DEF h, m
  <2>4. s * s = 1 + n * (h + 1)
    BY <2>1, <2>3
  <2>5. s \in Nat \ {0} /\ h + 1 \in Nat
    BY <2>1, <2>3
  <2> HIDE DEF s
  <2>6. \E u \in Nat, a \in Nat : u * s = 1 + n * a
    BY <2>4, <2>5
  <2> QED BY <2>5, <2>6 DEF s
<1>4. CASE n > 2 /\ n % 2 = 0 /\ m % 2 = 1
  <2>1. m \in Nat /\ n = 2 * m
    BY <1>4, DivMod
  <2>2. (m + 1) % 2 = 0
    BY <1>4, <2>1
  <2>3. s = m + 2
    BY <1>4, <2>2 DEF PermStride
  <2>4. c \in Nat /\ (m = 4 * c + 1 \/ m = 4 * c + 3)
    BY <1>4, <2>1, DivMod
  <2> HIDE DEF c, m
  <2>5. CASE m = 4 * c + 1
    <3>1. (2 * c + 1) * s = 1 + n * (c + 1)
      BY <2>1, <2>3, <2>4, <2>5
    <3>2. s \in Nat \ {0} /\ 2 * c + 1 \in Nat /\ c + 1 \in Nat
      BY <2>1, <2>3, <2>4
    <3> HIDE DEF s
    <3>3. \E u \in Nat, a \in Nat : u * s = 1 + n * a
      BY <3>1, <3>2
    <3> QED BY <3>2, <3>3 DEF s
  <2>6. CASE m = 4 * c + 3
    <3>1. (6 * c + 5) * s = 1 + n * (3 * c + 4)
      BY <2>1, <2>3, <2>4, <2>6
    <3>2. s \in Nat \ {0} /\ 6 * c + 5 \in Nat /\ 3 * c + 4 \in Nat
      BY <2>1, <2>3, <2>4
    <3> HIDE DEF s
    <3>3. \E u \in Nat, a \in Nat : u * s = 1 + n * a
      BY <3>1, <3>2
    <3> QED BY <3>2, <3>3 DEF s
  <2> QED BY <2>4, <2>5, <2>6
<1>5. n % 2 \in {0, 1} /\ m % 2 \in {0, 1}
  OBVIOUS
<1> QED BY <1>1, <1>2, <1>3, <1>4, <1>5

(* No row of a chunk is sent twice: the order of MoeDistributeCombine      *)
(* takes different rows at different places.                               *)
THEOREM PermNeverRepeats ==
  ASSUME NEW n \in Nat \ {0}, NEW phase \in Nat,
         NEW j \in 0 .. n - 1, NEW k \in 0 .. n - 1,
         PermIdx(phase, j, n) = PermIdx(phase, k, n)
  PROVE  j = k
<1> DEFINE s  == PermStride(n)
           x  == phase + j * s
           y  == phase + k * s
           q1 == x \div n
           q2 == y \div n
           r  == x % n
<1>1. s \in Nat
  BY StrideInverse
<1>2. PICK u \in Nat, a \in Nat : u * s = 1 + n * a
  BY StrideInverse
<1>3. r = y % n
  BY DEF PermIdx
<1> HIDE DEF s
<1>4. x \in Nat /\ y \in Nat
  <2>1. j * s \in Nat /\ k * s \in Nat
    BY <1>1
  <2> QED BY <2>1
<1>5. x = phase + j * s /\ y = phase + k * s
  OBVIOUS
<1> HIDE DEF x, y
<1>6. q1 \in Int /\ q2 \in Int /\ r \in Int /\ x = n * q1 + r /\ y = n * q2 + r
  BY <1>3, <1>4, DivMod
<1> HIDE DEF q1, q2, r
<1> DEFINE d == j - k
           e == q1 - q2
           w == e * u - d * a
<1>7. d \in Int /\ e \in Int
  BY <1>6
<1>8. d * s = n * e
  <2>1. d * s = j * s - k * s /\ n * e = n * q1 - n * q2
    BY <1>1, <1>6
  <2>2. j * s \in Int /\ k * s \in Int /\ n * q1 \in Int /\ n * q2 \in Int
    BY <1>1, <1>6
  <2> QED BY <1>5, <1>6, <2>1, <2>2
<1>9. d \in (1 - n) .. (n - 1)
  OBVIOUS
<1>10. (d = 0) => (j = k)
  OBVIOUS
<1> HIDE DEF d, e
<1>11. d = n * w
  <2>1. d * (u * s) = u * (d * s)
    BY <1>1, <1>2, <1>7
  <2>2. u * (d * s) = u * (n * e)
    BY <1>8
  <2>3. d * (u * s) = d + n * (d * a)
    BY <1>2, <1>7
  <2>4. u * (n * e) = n * (e * u)
    BY <1>2, <1>7
  <2>5. n * w = n * (e * u) - n * (d * a)
    BY <1>2, <1>7
  <2>6. n * (e * u) \in Int /\ n * (d * a) \in Int
    BY <1>2, <1>7
  <2> QED BY <1>7, <2>1, <2>2, <2>3, <2>4, <2>5, <2>6
<1>12. w \in Int
  BY <1>2, <1>7
<1> HIDE DEF w
<1>13. w = 0
  <2>1. w >= 1 => n * w >= n
    BY <1>12
  <2>2. w <= -1 => n * w <= -n
    BY <1>12
  <2> QED BY <1>9, <1>11, <1>12, <2>1, <2>2
<1> QED BY <1>10, <1>11, <1>13

(* And every row is sent: with the theorem before, each exactly once.      *)
THEOREM PermCovers ==
  ASSUME NEW n \in Nat \ {0}, NEW phase \in Nat, NEW r \in 0 .. n - 1
  PROVE  \E j \in 0 .. n - 1 : PermIdx(phase, j, n) = r
<1> DEFINE s == PermStride(n)
           p == (n - 1) * phase
           d == r + p
<1>1. s \in Nat
  BY StrideInverse
<1>2. PICK u \in Nat, a \in Nat : u * s = 1 + n * a
  BY StrideInverse
<1>3. p \in Nat /\ p = n * phase - phase /\ n * phase \in Nat
  BY TimesMonotone
<1>4. d \in Nat /\ d + phase = r + n * phase
  <2> HIDE DEF p
  <2> QED BY <1>3
<1> HIDE DEF s, d
<1> DEFINE du == d * u
           q  == du \div n
           j  == du % n
<1>5. du \in Nat
  BY <1>2, <1>4
<1>6. q \in Nat /\ j \in 0 .. n - 1 /\ du = n * q + j
  <2> HIDE DEF du
  <2> QED BY <1>5, DivMod
<1>7. PermIdx(phase, j, n) = (phase + j * s) % n
  BY DEF PermIdx, s
<1> HIDE DEF q, j
<1> DEFINE t == phase + d * a - q * s
           x == phase + j * s
<1>8. x = n * t + r
  <2>1. j * s = du * s - (n * q) * s
    BY <1>1, <1>5, <1>6
  <2>2. du * s = d * (u * s)
    BY <1>1, <1>2, <1>4
  <2>3. d * (u * s) = d + n * (d * a)
    BY <1>2, <1>4
  <2>4. (n * q) * s = n * (q * s)
    BY <1>1, <1>6
  <2>5. n * t = n * phase + n * (d * a) - n * (q * s)
    BY <1>1, <1>2, <1>4, <1>6
  <2>6. n * (d * a) \in Int /\ n * (q * s) \in Int /\ j * s \in Int
    BY <1>1, <1>2, <1>4, <1>6
  <2> HIDE DEF du, t
  <2> QED BY <1>3, <1>4, <2>1, <2>2, <2>3, <2>4, <2>5, <2>6
<1>9. t \in Int /\ x \in Nat
  <2>1. j * s \in Nat /\ d * a \in Int /\ q * s \in Int
    BY <1>1, <1>2, <1>4, <1>6
  <2> QED BY <2>1
<1> HIDE DEF t, x
<1>10. x \div n \in Int /\ x % n \in 0 .. n - 1 /\ x = n * (x \div n) + (x % n)
  BY <1>9, DivMod
<1>11. x % n = r
  <2> DEFINE b == x % n
             f == x \div n
  <2>1. f \in Int /\ b \in 0 .. n - 1 /\ n * f + b = n * t + r
    BY <1>8, <1>10
  <2> HIDE DEF b, f
  <2>2. b = r
    BY <1>9, <2>1, DivUnique
  <2> QED BY <2>2 DEF b
<1> QED BY <1>6, <1>7, <1>11 DEF x

----------------------------------------------------------------------------
(* Sums. *)

(* Induction, for a set of numbers instead of a predicate. *)
LEMMA NatInduct ==
  ASSUME NEW T, 0 \in T, \A n \in Nat : n \in T => n + 1 \in T
  PROVE  \A n \in Nat : n \in T
<1> DEFINE Bad == {n \in Nat : n \notin T}
           Less == {p \in Nat \X Nat : p[1] < p[2]}
<1> SUFFICES ASSUME Bad # {} PROVE FALSE
  OBVIOUS
<1>1. IsWellFoundedOn(Less, Nat)
  BY NatLessThanWellFounded DEF OpToRel
<1>2. PICK n \in Bad : \A m \in Bad : ~(<<m, n>> \in Less)
  <2>1. Bad \subseteq Nat
    OBVIOUS
  <2> HIDE DEF Bad, Less
  <2> QED  BY <1>1, <2>1, WFMin
<1>3. n \in Nat /\ n # 0 /\ n - 1 \in Nat /\ n = (n - 1) + 1
  OBVIOUS
<1>4. n - 1 \in Bad /\ <<n - 1, n>> \in Less
  BY <1>3
<1> QED  BY <1>2, <1>4

Pick(s) == CHOOSE x \in s : TRUE

(* h adds up f over each set of D. *)
AddsUp(h, D, f) ==
  h = [s \in D |-> IF s = {} THEN 0 ELSE f[Pick(s)] + h[s \ {Pick(s)}]]

LEMMA SumIsAddsUp ==
  ASSUME NEW S, NEW f
  PROVE  SumOf(S, f) = (CHOOSE h : AddsUp(h, SUBSET S, f))[S]
  BY DEF SumOf, MapThenSumSet, MapThenFoldSet, AddsUp, Pick

LEMMA PickFacts ==
  ASSUME NEW s, s # {}, IsFiniteSet(s)
  PROVE  /\ Pick(s) \in s /\ IsFiniteSet(s \ {Pick(s)})
         /\ Cardinality(s) \in Nat /\ Cardinality(s) # 0
         /\ Cardinality(s \ {Pick(s)}) = Cardinality(s) - 1
<1>1. Pick(s) \in s
  BY DEF Pick
<1> QED  BY <1>1, FS_RemoveElement, FS_CardinalityType, FS_EmptySet

LEMMA AddsUpExists ==
  ASSUME NEW S, IsFiniteSet(S), NEW f
  PROVE  \E h : AddsUp(h, SUBSET S, f)
<1> DEFINE D(n) == {u \in SUBSET S : Cardinality(u) <= n}
           T == {n \in Nat : \E h : AddsUp(h, D(n), f)}
<1>0. \A u \in SUBSET S : IsFiniteSet(u) /\ Cardinality(u) \in Nat /\ Cardinality(u) <= Cardinality(S)
  BY FS_Subset, FS_CardinalityType
<1>1. 0 \in T
  <2>1. D(0) = {{}}
    BY <1>0, FS_EmptySet
  <2>2. AddsUp([s \in {{}} |-> 0], D(0), f)
    BY <2>1 DEF AddsUp
  <2> QED  BY <2>2
<1>2. ASSUME NEW n \in Nat, n \in T PROVE n + 1 \in T
  <2>1. PICK h : AddsUp(h, D(n), f)
    BY <1>2
  <2> DEFINE g == [s \in D(n + 1) |-> IF s = {} THEN 0 ELSE f[Pick(s)] + h[s \ {Pick(s)}]]
  <2>2. \A s \in D(n) : h[s] = IF s = {} THEN 0 ELSE f[Pick(s)] + h[s \ {Pick(s)}]
    BY <2>1 DEF AddsUp
  <2>3. \A s \in D(n) : s \in D(n + 1)
    BY <1>0
  <2>4. \A s \in D(n) : g[s] = h[s]
    BY <2>2, <2>3
  <2>5. \A s \in D(n + 1) : s # {} => s \ {Pick(s)} \in D(n)
    BY <1>0, PickFacts
  <2> HIDE DEF D
  <2>6. g = [s \in D(n + 1) |-> IF s = {} THEN 0 ELSE f[Pick(s)] + g[s \ {Pick(s)}]]
    BY <2>4, <2>5
  <2>7. AddsUp(g, D(n + 1), f)
    BY <2>6 DEF AddsUp
  <2> QED  BY <2>7
<1>3. \A n \in Nat : n \in T
  <2> HIDE DEF T
  <2> QED  BY <1>1, <1>2, NatInduct
<1>4. D(Cardinality(S)) = SUBSET S
  BY <1>0
<1> QED  BY <1>0, <1>3, <1>4, FS_CardinalityType

LEMMA AddsUpUnique ==
  ASSUME NEW S, IsFiniteSet(S), NEW f, NEW U \in SUBSET S, NEW h, NEW g,
         AddsUp(h, SUBSET S, f), AddsUp(g, SUBSET U, f)
  PROVE  h[U] = g[U]
<1> DEFINE T == {n \in Nat : \A u \in SUBSET U : Cardinality(u) <= n => h[u] = g[u]}
<1>0. \A u \in SUBSET U : IsFiniteSet(u) /\ Cardinality(u) \in Nat
  BY FS_Subset, FS_CardinalityType
<1>1. \A u \in SUBSET U :
        /\ h[u] = IF u = {} THEN 0 ELSE f[Pick(u)] + h[u \ {Pick(u)}]
        /\ g[u] = IF u = {} THEN 0 ELSE f[Pick(u)] + g[u \ {Pick(u)}]
  BY DEF AddsUp
<1>2. 0 \in T
  <2>1. \A u \in SUBSET U : Cardinality(u) <= 0 => u = {}
    BY <1>0, FS_EmptySet
  <2>2. h[{}] = g[{}]
    BY <1>1
  <2> QED  BY <2>1, <2>2
<1>3. ASSUME NEW n \in Nat, n \in T PROVE n + 1 \in T
  <2> SUFFICES \A u \in SUBSET U : Cardinality(u) <= n + 1 => h[u] = g[u]
    OBVIOUS
  <2> TAKE u \in SUBSET U
  <2> HAVE Cardinality(u) <= n + 1
  <2>0. CASE u = {}
    <3>1. h[u] = 0 /\ g[u] = 0
      BY <2>0, <1>1
    <3> QED  BY <3>1
  <2> SUFFICES ASSUME u # {} PROVE h[u] = g[u]
    BY <2>0
  <2>1. u \ {Pick(u)} \in SUBSET U /\ Cardinality(u \ {Pick(u)}) <= n
    BY <1>0, PickFacts
  <2>2. h[u \ {Pick(u)}] = g[u \ {Pick(u)}]
    BY <2>1, <1>3
  <2> QED  BY <2>2, <1>1
<1>4. \A n \in Nat : n \in T
  <2> HIDE DEF T
  <2> QED  BY <1>2, <1>3, NatInduct
<1> QED  BY <1>0, <1>4

LEMMA SumUnfold ==
  ASSUME NEW S, IsFiniteSet(S), NEW f
  PROVE  SumOf(S, f) = IF S = {} THEN 0 ELSE f[Pick(S)] + SumOf(S \ {Pick(S)}, f)
<1> DEFINE H(U) == CHOOSE h : AddsUp(h, SUBSET U, f)
<1>1. \A U \in SUBSET S : AddsUp(H(U), SUBSET U, f) /\ SumOf(U, f) = H(U)[U]
  <2> TAKE U \in SUBSET S
  <2>1. \E h : AddsUp(h, SUBSET U, f)
    BY AddsUpExists, FS_Subset
  <2>2. AddsUp(H(U), SUBSET U, f)
    BY <2>1
  <2> QED  BY <2>2, SumIsAddsUp
<1>2. SumOf(S, f) = IF S = {} THEN 0 ELSE f[Pick(S)] + H(S)[S \ {Pick(S)}]
  <2>1. AddsUp(H(S), SUBSET S, f) /\ SumOf(S, f) = H(S)[S] /\ S \in SUBSET S
    BY <1>1
  <2> HIDE DEF H
  <2> QED  BY <2>1 DEF AddsUp
<1>3. S # {} => H(S)[S \ {Pick(S)}] = SumOf(S \ {Pick(S)}, f)
  <2> HAVE S # {}
  <2> DEFINE U == S \ {Pick(S)}
  <2>1. /\ AddsUp(H(S), SUBSET S, f) /\ AddsUp(H(U), SUBSET U, f)
        /\ SumOf(U, f) = H(U)[U] /\ U \in SUBSET S
    BY <1>1
  <2> HIDE DEF H, U
  <2>2. H(S)[U] = H(U)[U]
    BY <2>1, AddsUpUnique
  <2> QED  BY <2>1, <2>2 DEF U
<1> QED  BY <1>2, <1>3

LEMMA SumEmpty ==
  ASSUME NEW f
  PROVE  SumOf({}, f) = 0
  BY SumUnfold, FS_EmptySet

LEMMA SumType ==
  ASSUME NEW S, IsFiniteSet(S), NEW f, \A x \in S : f[x] \in Nat
  PROVE  SumOf(S, f) \in Nat
<1> DEFINE T == {n \in Nat : \A u \in SUBSET S : Cardinality(u) <= n => SumOf(u, f) \in Nat}
<1>0. \A u \in SUBSET S : IsFiniteSet(u) /\ Cardinality(u) \in Nat
  BY FS_Subset, FS_CardinalityType
<1>1. 0 \in T
  <2>1. \A u \in SUBSET S : Cardinality(u) <= 0 => u = {}
    BY <1>0, FS_EmptySet
  <2> QED  BY <2>1, SumEmpty
<1>2. ASSUME NEW n \in Nat, n \in T PROVE n + 1 \in T
  <2> SUFFICES \A u \in SUBSET S : Cardinality(u) <= n + 1 => SumOf(u, f) \in Nat
    OBVIOUS
  <2> TAKE u \in SUBSET S
  <2> HAVE Cardinality(u) <= n + 1
  <2> SUFFICES ASSUME u # {} PROVE SumOf(u, f) \in Nat
    BY SumEmpty
  <2>1. Pick(u) \in S /\ u \ {Pick(u)} \in SUBSET S /\ Cardinality(u \ {Pick(u)}) <= n
    BY <1>0, PickFacts
  <2>2. SumOf(u \ {Pick(u)}, f) \in Nat
    BY <2>1, <1>2
  <2>3. SumOf(u, f) = f[Pick(u)] + SumOf(u \ {Pick(u)}, f)
    BY <1>0, SumUnfold
  <2> QED  BY <2>1, <2>2, <2>3
<1>3. \A n \in Nat : n \in T
  <2> HIDE DEF T
  <2> QED  BY <1>1, <1>2, NatInduct
<1> QED  BY <1>0, <1>3

(* Any element may be taken out first. *)
LEMMA SumOut ==
  ASSUME NEW S, IsFiniteSet(S), NEW f, \A x \in S : f[x] \in Nat, NEW a \in S
  PROVE  SumOf(S, f) = f[a] + SumOf(S \ {a}, f)
<1> DEFINE Splits(u) == \A x \in u : SumOf(u, f) = f[x] + SumOf(u \ {x}, f)
           T == {n \in Nat : \A u \in SUBSET S : Cardinality(u) <= n => Splits(u)}
<1>0. \A u \in SUBSET S : IsFiniteSet(u) /\ Cardinality(u) \in Nat
  BY FS_Subset, FS_CardinalityType
<1>1. 0 \in T
  <2>1. \A u \in SUBSET S : Cardinality(u) <= 0 => u = {}
    BY <1>0, FS_EmptySet
  <2> QED  BY <2>1
<1>2. ASSUME NEW n \in Nat, n \in T PROVE n + 1 \in T
  <2> SUFFICES ASSUME NEW u \in SUBSET S, Cardinality(u) <= n + 1, NEW x \in u
               PROVE  SumOf(u, f) = f[x] + SumOf(u \ {x}, f)
    OBVIOUS
  <2> DEFINE p == Pick(u)
             v == u \ {p}
             w == u \ {x}
  <2>1. p \in u /\ p \in S /\ v \in SUBSET S /\ Cardinality(v) <= n
    BY <1>0, PickFacts
  <2>2. SumOf(u, f) = f[p] + SumOf(v, f)
    BY <1>0, <2>1, SumUnfold
  <2>3. CASE x = p
    BY <2>2, <2>3
  <2>4. CASE x # p
    <3>1. x \in v /\ p \in w /\ v \ {x} = w \ {p} /\ w \in SUBSET S
      BY <2>1, <2>4
    <3>2. SumOf(v, f) = f[x] + SumOf(v \ {x}, f)
      BY <2>1, <3>1, <1>2
    <3>3. Cardinality(w) <= n
      BY <1>0, FS_RemoveElement
    <3>4. SumOf(w, f) = f[p] + SumOf(w \ {p}, f)
      BY <3>1, <3>3, <1>2
    <3>5. f[x] \in Nat /\ f[p] \in Nat /\ SumOf(v \ {x}, f) \in Nat
      <4>1. v \ {x} \in SUBSET S
        BY <2>1
      <4> QED  BY <4>1, <1>0, <2>1, SumType
    <3> HIDE DEF p, v, w
    <3> QED  BY <2>2, <3>1, <3>2, <3>4, <3>5 DEF w
  <2> QED  BY <2>3, <2>4
<1>3. \A n \in Nat : n \in T
  <2> HIDE DEF T
  <2> QED  BY <1>1, <1>2, NatInduct
<1>4. Splits(S)
  BY <1>0, <1>3
<1> QED  BY <1>4

(* A property of all sums over subsets, by adding one element at a time. *)
LEMMA SetInduct ==
  ASSUME NEW S, IsFiniteSet(S), NEW G \in SUBSET SUBSET S, {} \in G,
         \A u \in SUBSET S, x \in S : u \in G /\ x \notin u => u \cup {x} \in G
  PROVE  \A u \in SUBSET S : u \in G
<1> DEFINE T == {n \in Nat : \A u \in SUBSET S : Cardinality(u) <= n => u \in G}
<1>0. \A u \in SUBSET S : IsFiniteSet(u) /\ Cardinality(u) \in Nat
  BY FS_Subset, FS_CardinalityType
<1>1. 0 \in T
  <2>1. \A u \in SUBSET S : Cardinality(u) <= 0 => u = {}
    BY <1>0, FS_EmptySet
  <2> QED  BY <2>1
<1>2. ASSUME NEW n \in Nat, n \in T PROVE n + 1 \in T
  <2> SUFFICES ASSUME NEW u \in SUBSET S, Cardinality(u) <= n + 1, u # {} PROVE u \in G
    BY <1>1
  <2>1. Pick(u) \in u /\ u \ {Pick(u)} \in SUBSET S /\ Cardinality(u \ {Pick(u)}) <= n
    BY <1>0, PickFacts
  <2>2. u \ {Pick(u)} \in G /\ (u \ {Pick(u)}) \cup {Pick(u)} = u
    BY <2>1, <1>2
  <2> QED  BY <2>1, <2>2
<1>3. \A n \in Nat : n \in T
  <2> HIDE DEF T
  <2> QED  BY <1>1, <1>2, NatInduct
<1> QED  BY <1>0, <1>3

LEMMA SumSame ==
  ASSUME NEW S, IsFiniteSet(S), NEW f, NEW g,
         \A x \in S : f[x] \in Nat /\ g[x] = f[x]
  PROVE  SumOf(S, g) = SumOf(S, f)
<1> DEFINE G == {u \in SUBSET S : SumOf(u, g) = SumOf(u, f)}
<1>1. {} \in G
  BY SumEmpty
<1>2. ASSUME NEW u \in SUBSET S, NEW x \in S, u \in G, x \notin u
      PROVE  u \cup {x} \in G
  <2> DEFINE v == u \cup {x}
  <2>1. IsFiniteSet(v) /\ v \ {x} = u /\ x \in v /\ v \in SUBSET S
    BY <1>2, FS_Subset
  <2> HIDE DEF v
  <2>2. SumOf(v, f) = f[x] + SumOf(v \ {x}, f) /\ SumOf(v, g) = g[x] + SumOf(v \ {x}, g)
    BY <2>1, SumOut
  <2> QED  BY <1>2, <2>1, <2>2 DEF v
<1>3. \A u \in SUBSET S : u \in G
  <2> HIDE DEF G
  <2>1. G \in SUBSET SUBSET S
    BY DEF G
  <2> QED  BY <1>1, <1>2, <2>1, SetInduct
<1> QED  BY <1>3

(* One element more. *)
LEMMA SumAdd ==
  ASSUME NEW S, IsFiniteSet(S), NEW f, NEW a, a \notin S, f[a] \in Nat, \A x \in S : f[x] \in Nat
  PROVE  SumOf(S \cup {a}, f) = SumOf(S, f) + f[a] /\ SumOf(S, f) \in Nat
<1> DEFINE v == S \cup {a}
<1>1. IsFiniteSet(v) /\ v \ {a} = S /\ a \in v /\ \A x \in v : f[x] \in Nat
  BY FS_AddElement
<1>2. SumOf(v, f) = f[a] + SumOf(v \ {a}, f)
  <2> HIDE DEF v
  <2> QED  BY <1>1, SumOut
<1>3. SumOf(S, f) \in Nat
  BY SumType
<1>4. SumOf(v, f) = f[a] + SumOf(S, f)
  BY <1>1, <1>2
<1> HIDE DEF v
<1>5. SumOf(v, f) = SumOf(S, f) + f[a]
  BY <1>3, <1>4
<1> QED  BY <1>3, <1>5 DEF v

LEMMA SumUnion ==
  ASSUME NEW S, IsFiniteSet(S), NEW R, IsFiniteSet(R), S \cap R = {}, NEW f,
         \A x \in S \cup R : f[x] \in Nat
  PROVE  SumOf(S \cup R, f) = SumOf(S, f) + SumOf(R, f)
<1> DEFINE G == {u \in SUBSET R : SumOf(S \cup u, f) = SumOf(S, f) + SumOf(u, f)}
<1>0. \A u \in SUBSET R : /\ IsFiniteSet(u) /\ IsFiniteSet(S \cup u)
                         /\ SumOf(u, f) \in Nat /\ SumOf(S, f) \in Nat
  <2> TAKE u \in SUBSET R
  <2>1. IsFiniteSet(u) /\ IsFiniteSet(S \cup u)
    BY FS_Subset, FS_Union
  <2> QED  BY <2>1, SumType
<1>1. {} \in G
  <2>1. S \cup {} = S
    OBVIOUS
  <2> QED  BY <1>0, <2>1, SumEmpty
<1>2. ASSUME NEW u \in SUBSET R, NEW x \in R, u \in G, x \notin u
      PROVE  u \cup {x} \in G
  <2>1. S \cup (u \cup {x}) = (S \cup u) \cup {x} /\ x \notin S \cup u
    BY <1>2
  <2>2. SumOf(u \cup {x}, f) = SumOf(u, f) + f[x]
    BY <1>0, <1>2, SumAdd
  <2>3. SumOf((S \cup u) \cup {x}, f) = SumOf(S \cup u, f) + f[x]
    <3> DEFINE w == S \cup u
    <3>1. IsFiniteSet(w) /\ x \notin w /\ f[x] \in Nat /\ \A y \in w : f[y] \in Nat
      BY <1>0, <2>1
    <3> HIDE DEF w
    <3>2. SumOf(w \cup {x}, f) = SumOf(w, f) + f[x]
      BY <3>1, SumAdd
    <3> QED  BY <3>2 DEF w
  <2> QED  BY <1>0, <1>2, <2>1, <2>2, <2>3
<1>3. \A u \in SUBSET R : u \in G
  <2> HIDE DEF G
  <2>1. G \in SUBSET SUBSET R
    BY DEF G
  <2> QED  BY <1>1, <1>2, <2>1, SetInduct
<1> QED  BY <1>3

LEMMA SumLess ==
  ASSUME NEW S, IsFiniteSet(S), NEW R \in SUBSET S, NEW f, \A x \in S : f[x] \in Nat
  PROVE  SumOf(R, f) <= SumOf(S, f)
<1>1. IsFiniteSet(R) /\ IsFiniteSet(S \ R) /\ R \cup (S \ R) = S /\ R \cap (S \ R) = {}
  BY FS_Subset
<1>2. SumOf(S, f) = SumOf(R, f) + SumOf(S \ R, f)
  BY <1>1, SumUnion
<1> QED  BY <1>1, <1>2, SumType

(* The sum of a table up to an index, and what comes on top of it. *)
LEMMA SumStep ==
  ASSUME NEW n \in Nat, NEW f, \A i \in 0 .. n : f[i] \in Nat
  PROVE  /\ SumOf(0 .. n, f) = SumOf(0 .. n - 1, f) + f[n]
         /\ SumOf(0 .. n - 1, f) \in Nat
<1> DEFINE I == 0 .. n - 1
<1>1. IsFiniteSet(I)
  <2>1. 0 \in Int /\ n - 1 \in Int
    OBVIOUS
  <2> QED  BY <2>1, FS_Interval
<1>2. n \notin I /\ I \cup {n} = 0 .. n
  OBVIOUS
<1>3. f[n] \in Nat /\ \A i \in I : f[i] \in Nat
  OBVIOUS
<1>4. SumOf(I \cup {n}, f) = SumOf(I, f) + f[n] /\ SumOf(I, f) \in Nat
  <2> HIDE DEF I
  <2> QED  BY <1>1, <1>2, <1>3, SumAdd
<1> QED  BY <1>2, <1>4

LEMMA SumUpTo ==
  ASSUME NEW n \in Nat, NEW f, \A i \in 0 .. n - 1 : f[i] \in Nat
  PROVE  /\ SumOf(0 .. -1, f) = 0
         /\ \A i \in 0 .. n : SumOf(0 .. i - 1, f) \in Nat
         /\ \A i \in 0 .. n - 1 : SumOf(0 .. i, f) = SumOf(0 .. i - 1, f) + f[i]
         /\ \A i \in 0 .. n : \A j \in 0 .. i : SumOf(0 .. j - 1, f) <= SumOf(0 .. i - 1, f)
<1>1. SumOf(0 .. -1, f) = 0
  <2>1. 0 .. -1 = {}
    OBVIOUS
  <2> QED  BY <2>1, SumEmpty
<1>2. \A i \in 0 .. n : SumOf(0 .. i - 1, f) \in Nat
  <2> TAKE i \in 0 .. n
  <2>1. IsFiniteSet(0 .. i - 1) /\ \A x \in 0 .. i - 1 : f[x] \in Nat
    <3>1. 0 \in Int /\ i - 1 \in Int
      OBVIOUS
    <3>2. IsFiniteSet(0 .. i - 1)
      BY <3>1, FS_Interval
    <3> QED  BY <3>2
  <2> QED  BY <2>1, SumType
<1>3. \A i \in 0 .. n - 1 : SumOf(0 .. i, f) = SumOf(0 .. i - 1, f) + f[i]
  BY SumStep
<1>4. ASSUME NEW i \in 0 .. n, NEW j \in 0 .. i
      PROVE  SumOf(0 .. j - 1, f) <= SumOf(0 .. i - 1, f)
  <2>1. IsFiniteSet(0 .. i - 1) /\ 0 .. j - 1 \in SUBSET (0 .. i - 1)
    BY FS_Interval
  <2> QED  BY <2>1, SumLess
<1> QED  BY <1>1, <1>2, <1>3, <1>4

(* A place of a table laid out in rows belongs to one row. *)
LEMMA SumPlace ==
  ASSUME NEW n \in Nat, NEW f, \A i \in 0 .. n - 1 : f[i] \in Nat,
         NEW j \in 0 .. SumOf(0 .. n - 1, f) - 1
  PROVE  \E i \in 0 .. n - 1 :
           SumOf(0 .. i - 1, f) <= j /\ j < SumOf(0 .. i - 1, f) + f[i]
<1> DEFINE T == {m \in Nat : m <= n /\ j < SumOf(0 .. m - 1, f) =>
             \E i \in 0 .. n - 1 : SumOf(0 .. i - 1, f) <= j /\ j < SumOf(0 .. i - 1, f) + f[i]}
<1>1. /\ SumOf(0 .. -1, f) = 0
      /\ \A i \in 0 .. n : SumOf(0 .. i - 1, f) \in Nat
      /\ \A i \in 0 .. n - 1 : SumOf(0 .. i, f) = SumOf(0 .. i - 1, f) + f[i]
  BY SumUpTo
<1>2. 0 \in T
  BY <1>1
<1>3. ASSUME NEW m \in Nat, m \in T PROVE m + 1 \in T
  <2> SUFFICES ASSUME m + 1 <= n, j < SumOf(0 .. m, f)
               PROVE  \E i \in 0 .. n - 1 :
                        SumOf(0 .. i - 1, f) <= j /\ j < SumOf(0 .. i - 1, f) + f[i]
    OBVIOUS
  <2>1. CASE j < SumOf(0 .. m - 1, f)
    BY <1>3, <2>1
  <2>2. CASE SumOf(0 .. m - 1, f) <= j
    <3>1. m \in 0 .. n - 1
      OBVIOUS
    <3> QED  BY <1>1, <2>2, <3>1
  <2>3. SumOf(0 .. m - 1, f) \in Nat /\ j \in Nat
    BY <1>1
  <2> QED  BY <2>1, <2>2, <2>3
<1>4. n \in T
  <2> HIDE DEF T
  <2> QED  BY <1>2, <1>3, NatInduct
<1>5. j < SumOf(0 .. n - 1, f)
  BY <1>1
<1> QED  BY <1>4, <1>5

(* A set that is cut into pieces has as many elements as they. *)
LEMMA SumPieces ==
  ASSUME NEW S, IsFiniteSet(S), NEW F,
         \A x \in S : IsFiniteSet(F[x]),
         \A x, y \in S : x # y => F[x] \cap F[y] = {},
         NEW f, \A x \in S : f[x] = Cardinality(F[x])
  PROVE  /\ IsFiniteSet(UNION {F[x] : x \in S})
         /\ Cardinality(UNION {F[x] : x \in S}) = SumOf(S, f)
<1> DEFINE U(u) == UNION {F[x] : x \in u}
           G == {u \in SUBSET S : IsFiniteSet(U(u)) /\ Cardinality(U(u)) = SumOf(u, f)}
<1>0. \A x \in S : f[x] \in Nat
  BY FS_CardinalityType
<1>1. {} \in G
  <2>1. U({}) = {}
    OBVIOUS
  <2> QED  BY <2>1, SumEmpty, FS_EmptySet
<1>2. ASSUME NEW u \in SUBSET S, NEW x \in S, u \in G, x \notin u
      PROVE  u \cup {x} \in G
  <2>1. U(u \cup {x}) = U(u) \cup F[x]
    OBVIOUS
  <2>2. U(u) \cap F[x] = {}
    BY <1>2
  <2>3. IsFiniteSet(U(u) \cup F[x]) /\ Cardinality(U(u) \cup F[x]) = Cardinality(U(u)) + Cardinality(F[x])
    <3> DEFINE V == U(u)
    <3>1. IsFiniteSet(V) /\ IsFiniteSet(F[x]) /\ V \cap F[x] = {}
      BY <1>2, <2>2
    <3> HIDE DEF V
    <3>2. /\ IsFiniteSet(V \cup F[x])
          /\ Cardinality(V \cup F[x]) = Cardinality(V) + Cardinality(F[x]) - Cardinality(V \cap F[x])
          /\ Cardinality(V) \in Nat /\ Cardinality(F[x]) \in Nat
      BY <3>1, FS_Union, FS_CardinalityType
    <3>3. Cardinality(V \cap F[x]) = 0
      BY <3>1, FS_EmptySet
    <3> QED  BY <3>2, <3>3 DEF V
  <2>4. SumOf(u \cup {x}, f) = SumOf(u, f) + f[x]
    <3>1. IsFiniteSet(u)
      BY FS_Subset
    <3> QED  BY <1>0, <1>2, <3>1, SumAdd
  <2> HIDE DEF U
  <2> QED  BY <1>2, <2>1, <2>3, <2>4
<1>3. \A u \in SUBSET S : u \in G
  <2> HIDE DEF G
  <2>1. G \in SUBSET SUBSET S
    BY DEF G
  <2> QED  BY <1>1, <1>2, <2>1, SetInduct
<1> QED  BY <1>3

(* Two cells of a table laid out in rows. *)
LEMMA SumApart ==
  ASSUME NEW n \in Nat, NEW f, \A i \in 0 .. n - 1 : f[i] \in Nat,
         NEW i \in 0 .. n - 1, NEW j \in 0 .. n - 1, i < j
  PROVE  SumOf(0 .. i - 1, f) + f[i] <= SumOf(0 .. j - 1, f)
<1>1. /\ SumOf(0 .. i, f) = SumOf(0 .. i - 1, f) + f[i]
      /\ \A k \in 0 .. n : \A l \in 0 .. k : SumOf(0 .. l - 1, f) <= SumOf(0 .. k - 1, f)
  BY SumUpTo
<1>2. j \in 0 .. n /\ i + 1 \in 0 .. j /\ (i + 1) - 1 = i
  OBVIOUS
<1>3. SumOf(0 .. (i + 1) - 1, f) <= SumOf(0 .. j - 1, f)
  BY <1>1, <1>2
<1> QED  BY <1>1, <1>2, <1>3

----------------------------------------------------------------------------
(* Lists in order. *)

StrictOrder(S, before) ==
  /\ \A x, y \in S : x # y => <<x, y>> \in before \/ <<y, x>> \in before
  /\ \A x \in S : <<x, x>> \notin before
  /\ \A x, y, z \in S : <<x, y>> \in before /\ <<y, z>> \in before => <<x, z>> \in before

(* How many of S come before x. *)
PlaceIn(S, before, x) == Cardinality({y \in S : <<y, x>> \in before})

LEMMA RankFacts ==
  ASSUME NEW S, IsFiniteSet(S), NEW before, StrictOrder(S, before)
  PROVE  /\ \A x \in S : PlaceIn(S, before, x) \in 0 .. Cardinality(S) - 1
         /\ \A x, y \in S : <<x, y>> \in before <=> PlaceIn(S, before, x) < PlaceIn(S, before, y)
         /\ \A x, y \in S : PlaceIn(S, before, x) = PlaceIn(S, before, y) => x = y
         /\ \A k \in 0 .. Cardinality(S) - 1 : \E x \in S : PlaceIn(S, before, x) = k
<1> DEFINE Lower(x) == {y \in S : <<y, x>> \in before}
           n == Cardinality(S)
<1>1. \A x \in S : /\ Lower(x) \in SUBSET S /\ IsFiniteSet(Lower(x))
                   /\ PlaceIn(S, before, x) = Cardinality(Lower(x)) /\ PlaceIn(S, before, x) \in Nat
  BY FS_Subset, FS_CardinalityType DEF PlaceIn
<1>2. n \in Nat
  BY FS_CardinalityType
<1>3. ASSUME NEW x \in S, NEW y \in S, <<x, y>> \in before
      PROVE  PlaceIn(S, before, x) < PlaceIn(S, before, y)
  <2>1. Lower(x) \cup {x} \in SUBSET Lower(y) /\ x \notin Lower(x)
    BY <1>3 DEF StrictOrder
  <2>2. Cardinality(Lower(x) \cup {x}) = Cardinality(Lower(x)) + 1
    BY <1>1, <2>1, FS_AddElement
  <2>3. Cardinality(Lower(x) \cup {x}) <= Cardinality(Lower(y))
    BY <1>1, <2>1, FS_Subset
  <2>4. /\ PlaceIn(S, before, x) = Cardinality(Lower(x)) /\ PlaceIn(S, before, x) \in Nat
        /\ PlaceIn(S, before, y) = Cardinality(Lower(y)) /\ PlaceIn(S, before, y) \in Nat
    BY <1>1
  <2> HIDE DEF Lower
  <2> QED  BY <2>2, <2>3, <2>4
<1>4. \A x, y \in S : <<x, y>> \in before <=> PlaceIn(S, before, x) < PlaceIn(S, before, y)
  <2> SUFFICES ASSUME NEW x \in S, NEW y \in S, PlaceIn(S, before, x) < PlaceIn(S, before, y)
               PROVE  <<x, y>> \in before
    BY <1>3
  <2> DEFINE a == PlaceIn(S, before, x)
             b == PlaceIn(S, before, y)
  <2>0. a \in Nat /\ b \in Nat /\ a < b
    BY <1>1
  <2>1. x # y
    <3> HIDE DEF a, b
    <3>1. a # b
      BY <2>0
    <3> QED  BY <3>1 DEF a, b
  <2>2. ~(<<y, x>> \in before)
    <3>1. ~(b < a)
      <4> HIDE DEF a, b
      <4> QED  BY <2>0
    <3> QED  BY <3>1, <1>3
  <2> QED  BY <2>1, <2>2 DEF StrictOrder
<1>5. \A x, y \in S : PlaceIn(S, before, x) = PlaceIn(S, before, y) => x = y
  <2> SUFFICES ASSUME NEW x \in S, NEW y \in S, x # y
               PROVE  PlaceIn(S, before, x) # PlaceIn(S, before, y)
    OBVIOUS
  <2>1. <<x, y>> \in before \/ <<y, x>> \in before
    BY DEF StrictOrder
  <2>2. PlaceIn(S, before, x) \in Nat /\ PlaceIn(S, before, y) \in Nat
    BY <1>1
  <2> QED  BY <2>1, <2>2, <1>3
<1>6. \A x \in S : PlaceIn(S, before, x) \in 0 .. n - 1
  <2> TAKE x \in S
  <2>1. Lower(x) # S
    BY DEF StrictOrder
  <2>2. Cardinality(Lower(x)) <= n /\ Cardinality(Lower(x)) # n
    BY <1>1, <2>1, FS_Subset
  <2> DEFINE a == PlaceIn(S, before, x)
  <2>3. a \in Nat /\ a <= n /\ a # n
    BY <1>1, <2>2
  <2> HIDE DEF a, n
  <2>4. a \in 0 .. n - 1
    BY <1>2, <2>3
  <2> QED  BY <2>4 DEF a, n
<1>7. \A k \in 0 .. n - 1 : \E x \in S : PlaceIn(S, before, x) = k
  <2> DEFINE r == [x \in S |-> PlaceIn(S, before, x)]
             D == 0 .. n - 1
  <2>1. IsFiniteSet(D) /\ Cardinality(D) = n
    <3>1. 0 \in Int /\ n - 1 \in Int
      BY <1>2
    <3> QED  BY <1>2, <3>1, FS_Interval
  <2>2. r \in [S -> D]
    BY <1>6
  <2>3. IsInjective(r)
    BY <1>5 DEF IsInjective
  <2>4. r \in Injection(S, D)
    BY <2>2, <2>3 DEF Injection
  <2>5. r \in Surjection(S, D)
    <3> HIDE DEF r, D
    <3> QED  BY <2>1, <2>4, FS_Injection
  <2> QED  BY <2>5 DEF Surjection
<1> QED  BY <1>4, <1>5, <1>6, <1>7

(* A list in order holds every element once. *)
LEMMA InOrderFacts ==
  ASSUME NEW S, IsFiniteSet(S), NEW before, StrictOrder(S, before)
  PROVE  LET s == InOrder(S, before)
             n == Cardinality(S)
         IN /\ n \in Nat /\ s \in [1 .. n -> S]
            /\ \A x \in S : \E k \in 1 .. n : s[k] = x
            /\ \A j, k \in 1 .. n : j < k <=> <<s[j], s[k]>> \in before
            /\ \A j, k \in 1 .. n : s[j] = s[k] => j = k
<1> DEFINE s == InOrder(S, before)
           n == Cardinality(S)
           R(x) == PlaceIn(S, before, x)
<1>1. n \in Nat
  BY FS_CardinalityType
<1>2. /\ \A x \in S : R(x) \in 0 .. n - 1
      /\ \A x, y \in S : <<x, y>> \in before <=> R(x) < R(y)
      /\ \A x, y \in S : R(x) = R(y) => x = y
      /\ \A k \in 0 .. n - 1 : \E x \in S : R(x) = k
  BY RankFacts
<1>3. s = [k \in 1 .. n |-> CHOOSE x \in S : R(x) = k - 1]
  BY DEF InOrder, PlaceIn
<1> HIDE DEF R, s, n
<1>4. \A k \in 1 .. n : s[k] \in S /\ R(s[k]) = k - 1
  <2> TAKE k \in 1 .. n
  <2>1. k - 1 \in 0 .. n - 1
    BY <1>1
  <2>2. \E x \in S : R(x) = k - 1
    BY <1>2, <2>1
  <2> QED  BY <1>3, <2>2
<1>5. s \in [1 .. n -> S]
  BY <1>3, <1>4
<1>6. \A x \in S : \E k \in 1 .. n : s[k] = x
  <2> TAKE x \in S
  <2>1. R(x) + 1 \in 1 .. n /\ (R(x) + 1) - 1 = R(x)
    BY <1>1, <1>2
  <2> QED  BY <1>2, <1>4, <2>1
<1>7. \A j, k \in 1 .. n : j < k <=> <<s[j], s[k]>> \in before
  BY <1>1, <1>2, <1>4
<1>8. \A j, k \in 1 .. n : s[j] = s[k] => j = k
  BY <1>1, <1>4
<1> QED  BY <1>1, <1>5, <1>6, <1>7, <1>8 DEF s, n
=============================================================================

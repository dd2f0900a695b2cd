------------------------- MODULE De2ProgramsProofs --------------------------
(***************************************************************************)
(* Proofs about the inference programs (De2Programs): what the MAC4        *)
(* convolution computes, that its requantization does not overflow, that   *)
(* the programs agree on the scores, and what is reported and shown of     *)
(* them, for networks and images of every size.                            *)
(***************************************************************************)
EXTENDS De2Programs, FoldTheorems

-----------------------------------------------------------------------------
(* Arithmetic.                                                             *)

LEMMA Constants ==
    /\ CONV \in Nat \ {0} /\ IMG \in Nat \ {0} /\ IMG = CONV + 2
    /\ AREA \in Nat \ {0} /\ FLAT \in Nat \ {0} /\ FLAT = FILTERS * AREA
    /\ POOL \in Nat \ {0} /\ FILTERS \in Nat \ {0} /\ CLASSES \in Nat \ {0}
  <1>1. \A a, b \in Nat \ {0} : a * b \in Nat \ {0}
    BY SMT
  <1>2. AREA \in Nat \ {0}
    BY <1>1, PoolAssumption DEF AREA
  <1>3. FLAT \in Nat \ {0}
    BY <1>1, <1>2, FilterAssumption DEF FLAT
  <1> QED
    BY <1>2, <1>3, PoolAssumption, FilterAssumption, ClassAssumption DEF CONV, IMG, FLAT

LEMMA ProductBound ==
    ASSUME NEW a \in Int8, NEW b \in Int8
    PROVE  a * b \in Int /\ a * b <= 16384
  <1>1. CASE a >= 0 /\ b >= 0
    <2>1. a * b <= 127 * b
      BY <1>1, SMT DEF Int8
    <2> QED
      BY <1>1, <2>1, SMT DEF Int8
  <1>2. CASE a >= 0 /\ b < 0
    <2>1. a * b <= 0
      BY <1>2, SMT DEF Int8
    <2> QED
      BY <2>1, SMT DEF Int8
  <1>3. CASE a < 0 /\ b >= 0
    <2>1. a * b <= 0
      BY <1>3, SMT DEF Int8
    <2> QED
      BY <2>1, SMT DEF Int8
  <1>4. CASE a < 0 /\ b < 0
    <2>1. (-a) * (-b) <= 128 * (-b) /\ (-a) * (-b) = a * b
      BY <1>4, SMT DEF Int8
    <2> QED
      BY <1>4, <2>1, SMT DEF Int8
  <1> QED
    BY <1>1, <1>2, <1>3, <1>4, SMT DEF Int8

\* Row and column of an element.
LEMMA Division ==
    ASSUME NEW rows \in Nat \ {0}, NEW columns \in Nat \ {0}, NEW n \in 0 .. rows * columns - 1
    PROVE  n \div columns \in 0 .. rows - 1 /\ n % columns \in 0 .. columns - 1
  <1> DEFINE q == n \div columns
  <1>1. n \in Nat /\ rows * columns \in Nat
    BY SMT
  <1>2. n = columns * q + (n % columns) /\ q \in Nat /\ n % columns \in 0 .. columns - 1
    BY <1>1, SMT
  <1>3. q < rows
    <2>1. SUFFICES ASSUME q >= rows PROVE FALSE
      BY <1>2, SMT
    <2>2. columns * q >= columns * rows
      BY <1>2, <2>1, SMT
    <2> QED
      BY <1>1, <1>2, <2>2, SMT
  <1> QED
    BY <1>2, <1>3, SMT

LEMMA Element ==
    ASSUME NEW rows \in Nat \ {0}, NEW columns \in Nat \ {0},
           NEW r \in 0 .. rows - 1, NEW k \in 0 .. columns - 1
    PROVE  r * columns + k \in 0 .. rows * columns - 1
  <1>1. r * columns <= (rows - 1) * columns /\ r * columns \in Nat
    BY SMT
  <1>2. (rows - 1) * columns = rows * columns - columns /\ rows * columns \in Nat
    BY SMT
  <1> QED
    BY <1>1, <1>2, SMT

LEMMA Floor ==
    ASSUME NEW p \in Nat \ {0}, NEW a \in Nat
    PROVE  /\ a \div p \in Nat
           /\ \A d \in Nat : d * p <= a => d <= a \div p
           /\ \A d \in Nat : a <= d * p => a \div p <= d
  <1> DEFINE q == a \div p
  <1>1. a = p * q + (a % p) /\ q \in Nat /\ a % p \in 0 .. p - 1
    BY SMT
  <1>2. ASSUME NEW d \in Nat, d * p <= a, d > q PROVE FALSE
    <2>1. d * p >= (q + 1) * p /\ (q + 1) * p = p * q + p
      BY <1>1, <1>2, SMT
    <2> QED
      BY <1>1, <1>2, <2>1, SMT
  <1>3. ASSUME NEW d \in Nat, a <= d * p, q > d PROVE FALSE
    <2>1. q * p >= (d + 1) * p /\ (d + 1) * p = d * p + p /\ q * p = p * q
      BY <1>1, <1>3, SMT
    <2> QED
      BY <1>1, <1>3, <2>1, SMT
  <1> QED
    BY <1>1, <1>2, <1>3, SMT

\* The maximum of a nonempty bounded set of integers is one of them.
LEMMA MaxOfBounded ==
    ASSUME NEW S \in SUBSET Int, S # {}, NEW bound \in Int, \A x \in S : x <= bound
    PROVE  Max(S) \in S /\ \A x \in S : x <= Max(S)
  <1> DEFINE T == {bound - x : x \in S}
  <1>1. T \in SUBSET Nat /\ T # {}
    <2>1. \A x \in S : bound - x \in Nat
      OBVIOUS
    <2>2. T # {}
      BY Zenon
    <2> QED
      BY <2>1, <2>2
  <1>2. PICK t \in T : \A k \in T : t <= k
    BY <1>1, Least
  <1>3. PICK m \in S : t = bound - m
    BY <1>2
  <1>4. \A x \in S : m >= x
    <2>1. \A x \in S : t <= bound - x
      BY <1>2
    <2> QED
      BY <1>3, <2>1
  <1> QED
    BY <1>4 DEF Max

-----------------------------------------------------------------------------
(* The convolution.                                                        *)

LEMMA LaneOfByte ==
    ASSUME NEW v \in Int8
    PROVE  Lane(UByte(v)) = v
  <1>1. CASE v >= 0
    <2>1. (v % 256) = v
      BY <1>1, SMT DEF Int8
    <2> QED
      BY <2>1, <1>1, SMT DEF Lane, UByte, Int8
  <1>2. CASE v < 0
    <2>1. (v % 256) = v + 256
      BY <1>2, SMT DEF Int8
    <2> QED
      BY <2>1, <1>2, SMT DEF Lane, UByte, Int8
  <1> QED
    BY <1>1, <1>2, SMT DEF Int8

\* MAC4 on packed bytes is the sum of the four products of the signed values.
LEMMA PackedProduct ==
    ASSUME NEW p, NEW q, NEW m \in Int, NEW n \in Int,
           \A k \in 0 .. 3 : p[m + k] \in Int8 /\ q[n + k] \in Int8
    PROVE  MAC4(pack4(p, m), pack4(q, n))
           = p[m + 0] * q[n + 0] + p[m + 1] * q[n + 1] + p[m + 2] * q[n + 2] + p[m + 3] * q[n + 3]
  <1>1. \A k \in 0 .. 3 : pack4(p, m)[k] = UByte(p[m + k]) /\ pack4(q, n)[k] = UByte(q[n + k])
    BY DEF pack4
  <1>2. \A k \in 0 .. 3 : Lane(pack4(p, m)[k]) = p[m + k] /\ Lane(pack4(q, n)[k]) = q[n + k]
    BY <1>1, LaneOfByte
  <1>3. 0 \in 0 .. 3 /\ 1 \in 0 .. 3 /\ 2 \in 0 .. 3 /\ 3 \in 0 .. 3
    OBVIOUS
  <1> HIDE DEF pack4, Lane
  <1> QED
    BY <1>2, <1>3, Zenon DEF MAC4

LEMMA Indices ==
    ASSUME NEW c \in Filters, NEW y \in 0 .. CONV - 1, NEW x \in 0 .. CONV - 1,
           NEW ky \in 0 .. 2
    PROVE  /\ (y + ky) * IMG + x \in Int
           /\ \A k \in 0 .. 3 : (y + ky) * IMG + x + k \in 0 .. IMG * IMG
           /\ \A kx \in 0 .. 2 : c * 9 + ky * 3 + kx \in 0 .. 9 * FILTERS - 1
  <1>1. y + ky \in 0 .. IMG - 1 /\ x \in 0 .. IMG - 3
    BY Constants, SMT
  <1>2. (y + ky) * IMG \in Nat /\ (y + ky) * IMG <= (IMG - 1) * IMG
    BY <1>1, Constants, SMT
  <1>3. (IMG - 1) * IMG = IMG * IMG - IMG /\ IMG * IMG \in Nat
    BY Constants, SMT
  <1>4. \A k \in 0 .. 3 : (y + ky) * IMG + x + k \in 0 .. IMG * IMG
    BY <1>1, <1>2, <1>3, Constants, SMT
  <1>5. \A kx \in 0 .. 2 : c * 9 + ky * 3 + kx \in 0 .. 9 * FILTERS - 1
    BY FilterAssumption, SMT DEF Filters
  <1> QED
    BY <1>1, <1>2, <1>4, <1>5, SMT

LEMMA RowIsScalar ==
    ASSUME NEW n \in Networks, NEW im \in Images, NEW c \in Filters,
           NEW y \in 0 .. CONV - 1, NEW x \in 0 .. CONV - 1, NEW ky \in 0 .. 2
    PROVE  /\ MacRow(n, im, c, y, x, ky) = ScalarRow(n, im, c, y, x, ky)
           /\ ScalarRow(n, im, c, y, x, ky) \in Int
           /\ ScalarRow(n, im, c, y, x, ky) <= 3 * 16384
  <1> DEFINE b == (y + ky) * IMG + x
             w == PaddedRow(n, c, ky)
             wt(k) == n.conv1_weights[c * 9 + ky * 3 + k]
             px(k) == im[b + k]
  <1>1. b \in Int /\ \A k \in 0 .. 3 : px(k) \in Int8
    BY Indices DEF Images
  <1>2. \A k \in 0 .. 2 : wt(k) \in Int8
    BY Indices DEF Networks
  <1>3. \A k \in 0 .. 2 : w[0 + k] = wt(k)
    BY DEF PaddedRow
  <1>4. w[0 + 3] = 0
    BY DEF PaddedRow
  <1>5. 0 \in Int8
    BY SMT DEF Int8
  <1>6. \A k \in 0 .. 3 : w[0 + k] \in Int8
    <2>1. \A k \in 0 .. 3 : k \in 0 .. 2 \/ k = 3
      OBVIOUS
    <2> QED
      BY <2>1, <1>2, <1>3, <1>4, <1>5
  <1>7. MacRow(n, im, c, y, x, ky)
        = px(0) * w[0 + 0] + px(1) * w[0 + 1] + px(2) * w[0 + 2] + px(3) * w[0 + 3]
    <2>1. MAC4(pack4(im, b), pack4(w, 0))
          = px(0) * w[0 + 0] + px(1) * w[0 + 1] + px(2) * w[0 + 2] + px(3) * w[0 + 3]
      <3>1. 0 \in Int /\ \A k \in 0 .. 3 : im[b + k] \in Int8 /\ w[0 + k] \in Int8
        BY <1>1, <1>6
      <3> HIDE DEF b, w
      <3> QED
        BY <1>1, <3>1, PackedProduct
    <2> QED
      BY <2>1 DEF MacRow
  <1>8. px(3) * w[0 + 3] = 0
    BY <1>1, <1>4, SMT DEF Int8
  <1>9. \A kx \in 0 .. 2 : Tap(n, im, c, y, x, ky, kx) = px(kx) * wt(kx)
    <2>1. \A kx \in 0 .. 2 : (y + ky) * IMG + (x + kx) = b + kx
      <3>1. (y + ky) * IMG \in Int
        BY Constants, SMT
      <3> QED
        BY <3>1, SMT
    <2> QED
      BY <2>1 DEF Tap
  <1>10. \A k \in 0 .. 2 : px(k) * wt(k) \in Int /\ px(k) * wt(k) <= 16384
    BY <1>1, <1>2, ProductBound
  <1>11. ScalarRow(n, im, c, y, x, ky) = px(0) * wt(0) + px(1) * wt(1) + px(2) * wt(2)
    <2>1. 0 \in 0 .. 2 /\ 1 \in 0 .. 2 /\ 2 \in 0 .. 2
      OBVIOUS
    <2> QED
      BY <1>9, <2>1, Zenon DEF ScalarRow
  <1>12. w[0 + 0] = wt(0) /\ w[0 + 1] = wt(1) /\ w[0 + 2] = wt(2)
    BY <1>3
  <1> HIDE DEF b, w, px, wt
  <1>13. /\ px(0) * wt(0) \in Int /\ px(0) * wt(0) <= 16384
         /\ px(1) * wt(1) \in Int /\ px(1) * wt(1) <= 16384
         /\ px(2) * wt(2) \in Int /\ px(2) * wt(2) <= 16384
    BY <1>10
  <1> QED
    BY <1>7, <1>8, <1>11, <1>12, <1>13

\* The accumulator inference_mac4.c and the demo compute for an output pixel is
\* that of inference_baseline.c, for every network and image: packing, the
\* padding of the kernel rows and the byte read past the last pixel change nothing.
THEOREM ConvolutionIsScalar ==
    ASSUME NEW n \in Networks, NEW im \in Images, NEW c \in Filters,
           NEW y \in 0 .. CONV - 1, NEW x \in 0 .. CONV - 1
    PROVE  /\ MacSum(n, im, c, y, x) = ScalarSum(n, im, c, y, x)
           /\ ScalarSum(n, im, c, y, x) \in Int
           /\ ScalarSum(n, im, c, y, x) <= n.conv1_bias[c] + 9 * 128 * 128
  <1>1. n.conv1_bias[c] \in Int
    BY DEF Networks
  <1>2. \A ky \in 0 .. 2 :
           /\ MacRow(n, im, c, y, x, ky) = ScalarRow(n, im, c, y, x, ky)
           /\ ScalarRow(n, im, c, y, x, ky) \in Int
           /\ ScalarRow(n, im, c, y, x, ky) <= 3 * 16384
    BY RowIsScalar
  <1>3. 0 \in 0 .. 2 /\ 1 \in 0 .. 2 /\ 2 \in 0 .. 2
    OBVIOUS
  <1>4. MacSum(n, im, c, y, x) = ScalarSum(n, im, c, y, x)
    <2>1. /\ MacRow(n, im, c, y, x, 0) = ScalarRow(n, im, c, y, x, 0)
          /\ MacRow(n, im, c, y, x, 1) = ScalarRow(n, im, c, y, x, 1)
          /\ MacRow(n, im, c, y, x, 2) = ScalarRow(n, im, c, y, x, 2)
      BY <1>2, <1>3
    <2> QED
      BY <2>1 DEF MacSum, ScalarSum
  <1>5. /\ ScalarRow(n, im, c, y, x, 0) \in Int /\ ScalarRow(n, im, c, y, x, 0) <= 3 * 16384
        /\ ScalarRow(n, im, c, y, x, 1) \in Int /\ ScalarRow(n, im, c, y, x, 1) <= 3 * 16384
        /\ ScalarRow(n, im, c, y, x, 2) \in Int /\ ScalarRow(n, im, c, y, x, 2) <= 3 * 16384
    BY <1>2, <1>3
  <1> QED
    BY <1>1, <1>4, <1>5 DEF ScalarSum

-----------------------------------------------------------------------------
(* The layers keep their types.                                            *)

LEMMA RequantizeRange ==
    ASSUME NEW s \in Int
    PROVE  Requantize(s) \in 0 .. 127
  <1> DEFINE relu == IF s < 0 THEN 0 ELSE s
             d == 2 ^ M1_SHIFT
  <1>1. relu \in Nat /\ d \in Nat \ {0} /\ M1_NUM \in Nat
    BY RequantAssumption, Powers
  <1> HIDE DEF relu, d
  <1>2. relu * M1_NUM \in Nat
    BY <1>1
  <1>3. (relu * M1_NUM) \div d \in Nat
    BY <1>1, <1>2, Floor
  <1>4. Requantize(s) = IF (relu * M1_NUM) \div d > 127 THEN 127 ELSE (relu * M1_NUM) \div d
    BY Zenon DEF Requantize, relu, d
  <1> QED
    BY <1>3, <1>4

LEMMA WorldType ==
    ASSUME NEW w \in WORLDS, NEW n \in Selections
    PROVE  w.net \in Networks /\ w.images[n] \in Images
  BY WorldAssumption

LEMMA ConvType ==
    ASSUME NEW w \in WORLDS, NEW n \in Selections
    PROVE  BaselineConv(w, n) \in [Filters -> [Plane(CONV) -> 0 .. 127]]
  <1>1. ASSUME NEW c \in Filters, NEW p \in Plane(CONV)
        PROVE  Requantize(ScalarSum(w.net, w.images[n], c, p[1], p[2])) \in 0 .. 127
    <2>1. p[1] \in 0 .. CONV - 1 /\ p[2] \in 0 .. CONV - 1
      BY DEF Plane
    <2>2. ScalarSum(w.net, w.images[n], c, p[1], p[2]) \in Int
      BY <2>1, WorldType, ConvolutionIsScalar
    <2> QED
      BY <2>2, RequantizeRange
  <1> QED
    BY <1>1 DEF BaselineConv

LEMMA PoolType ==
    ASSUME NEW conv \in [Filters -> [Plane(CONV) -> 0 .. 127]]
    PROVE  BaselinePool(conv) \in [Filters -> [Plane(POOL) -> Int8]]
  <1>1. ASSUME NEW c \in Filters, NEW p \in Plane(POOL)
        PROVE  Pooled(conv, c, p[1], p[2]) \in Int8
    <2> DEFINE cell(py, px) == conv[c][<<p[1] * 2 + py, p[2] * 2 + px>>]
               S == {-128} \cup {cell(py, px) : py \in 0 .. 1, px \in 0 .. 1}
    <2>1. p[1] \in 0 .. POOL - 1 /\ p[2] \in 0 .. POOL - 1
      BY DEF Plane
    <2>2. ASSUME NEW py \in 0 .. 1, NEW px \in 0 .. 1 PROVE cell(py, px) \in 0 .. 127
      <3>1. p[1] * 2 + py \in 0 .. CONV - 1 /\ p[2] * 2 + px \in 0 .. CONV - 1
        BY <2>1, PoolAssumption, SMT DEF CONV
      <3>2. <<p[1] * 2 + py, p[2] * 2 + px>> \in Plane(CONV)
        BY <3>1 DEF Plane
      <3> QED
        BY <3>2
    <2>3. \A x \in S : x \in Int8
      BY <2>2 DEF Int8
    <2>4. -128 \in S
      OBVIOUS
    <2>5. Pooled(conv, c, p[1], p[2]) = Max(S)
      BY DEF Pooled
    <2> HIDE DEF S
    <2>6. S \in SUBSET Int /\ S # {} /\ \A x \in S : x <= 127
      BY <2>3, <2>4 DEF Int8
    <2>7. Max(S) \in S
      BY <2>6, MaxOfBounded
    <2> QED
      BY <2>3, <2>5, <2>7
  <1> QED
    BY <1>1 DEF BaselinePool

LEMMA FlattenedType ==
    ASSUME NEW pool \in [Filters -> [Plane(POOL) -> Int8]], NEW k \in 0 .. FLAT - 1
    PROVE  Flattened(pool, k) \in Int8
  <1>1. k \div AREA \in Filters /\ k % AREA \in 0 .. AREA - 1
    BY Constants, Division DEF Filters
  <1> DEFINE rem == k % AREA
  <1>2. rem \in 0 .. POOL * POOL - 1
    BY <1>1 DEF AREA
  <1> HIDE DEF rem
  <1>3. rem \div POOL \in 0 .. POOL - 1 /\ rem % POOL \in 0 .. POOL - 1
    BY <1>2, PoolAssumption, Division
  <1>4. <<rem \div POOL, rem % POOL>> \in Plane(POOL)
    BY <1>3 DEF Plane
  <1>5. Flattened(pool, k) = pool[k \div AREA][<<rem \div POOL, rem % POOL>>]
    BY DEF Flattened, rem
  <1> QED
    BY <1>1, <1>4, <1>5

-----------------------------------------------------------------------------
(* The invariant: what each statement finds.                               *)

Running == {"enter", "conv", "pool", "flatten", "fc"} \cup Scoring

ChoiceInv ==
    /\ world \in WORLDS
    /\ selected \in 0 .. IMAGES
    /\ pc \in Running => selected \in Selections

\* Each layer leaves what the scalar program's formula says.
LayerInv ==
    /\ pc = "pool" => conv_out = BaselineConv(world, selected)
    /\ pc \in {"flatten", "fc"} => pool_out = BaselinePool(BaselineConv(world, selected))
    /\ pc = "fc" /\ UsesMac => flat = [k \in 0 .. FLAT - 1 |-> Flattened(pool_out, k)]

\* The last layer's accumulator and the scores are integers.
ClassInv ==
    /\ pc = "fc" => i \in Classes /\ sum \in Int /\ j \in Nat /\ (UsesMac => j % 4 = 0)
    /\ pc \in (Running \ {"enter"}) => predictions \in [Classes -> Int]

\* What the scoring loops know after `n' classes.
BestAmong(n) ==
    /\ best_class \in 0 .. n - 1
    /\ max_score = predictions[best_class]
    /\ \A k \in 0 .. n - 1 : predictions[k] <= max_score
    /\ \A k \in 0 .. best_class - 1 : predictions[k] < max_score
ShareOf(n) ==
    /\ pos_sum \in Nat
    /\ max_score <= 0 => pos_sum = 0
    /\ max_score > 0 => pos_sum <= n * max_score
    /\ max_score > 0 /\ best_class < n => pos_sum >= max_score

ScoreInv ==
    /\ pc \notin {"share"} \cup Scored => pos_sum = 0
    /\ pc = "argmax" => i \in Classes /\ (i # 0 => BestAmong(i))
    /\ pc \in {"share"} \cup Scored => BestAmong(CLASSES)
    /\ pc = "share" => i \in Classes /\ ShareOf(i)
    /\ pc = "percent" => ShareOf(CLASSES)

DataInv == ChoiceInv /\ LayerInv /\ ClassInv
IInv    == DataInv /\ ScoreInv /\ ConfidenceIsShare

LEMMA HighestSelects ==
    ASSUME Highest >= 0
    PROVE  Highest \in Selections
  <1> DEFINE on == {n \in Selections : n + 4 \in inputs}
  <1>1. CASE on = {}
    <2>1. Highest = -1
      BY <1>1 DEF Highest
    <2> QED
      BY <2>1
  <1>2. CASE on # {}
    <2>1. on \in SUBSET Int /\ IMAGES \in Int /\ \A x \in on : x <= IMAGES
      BY ImagesAssumption, Constants DEF Selections
    <2>2. Highest = Max(on)
      BY <1>2 DEF Highest
    <2>3. on \subseteq Selections
      OBVIOUS
    <2> HIDE DEF on
    <2>4. Max(on) \in on
      BY <1>2, <2>1, MaxOfBounded
    <2> QED
      BY <2>2, <2>3, <2>4
  <1> QED
    BY <1>1, <1>2

LEMMA TermType ==
    ASSUME DataInv, pc = "fc", j < FLAT
    PROVE  Term \in Int
  <1>1. i \in Classes /\ j \in 0 .. FLAT - 1
    BY Constants DEF DataInv, ClassInv
  <1>2. world \in WORLDS /\ selected \in Selections
    BY DEF DataInv, ChoiceInv, Running
  <1>3. pool_out \in [Filters -> [Plane(POOL) -> Int8]]
    BY <1>2, ConvType, PoolType DEF DataInv, LayerInv
  <1>4. \A k \in 0 .. FLAT - 1 : i * FLAT + k \in 0 .. CLASSES * FLAT - 1
    BY <1>1, Constants, Element DEF Classes
  <1>5. \A k \in 0 .. FLAT - 1 : net.fc_weights[i * FLAT + k] \in Int8
    BY <1>2, <1>4, WorldType DEF net, Networks
  <1>6. \A k \in 0 .. FLAT - 1 : Flattened(pool_out, k) \in Int8
    BY <1>3, FlattenedType
  <1>7. CASE UsesMac
    <2>1. j % 4 = 0 /\ j + 3 < FLAT
      <3>1. j % 4 = 0
        BY <1>7 DEF DataInv, ClassInv
      <3> QED
        BY <1>1, <3>1, Constants, QuadAssumption, SMT
    <2>2. i * FLAT \in Int
      BY <1>1, Constants, SMT DEF Classes
    <2>3. \A k \in 0 .. 3 : j + k \in 0 .. FLAT - 1
      BY <1>1, <2>1, Constants
    <2>4. \A k \in 0 .. 3 : flat[j + k] \in Int8
      BY <1>6, <1>7, <2>3 DEF DataInv, LayerInv
    <2>5. \A k \in 0 .. 3 : net.fc_weights[i * FLAT + j + k] \in Int8
      <3>1. \A k \in 0 .. 3 : i * FLAT + (j + k) = i * FLAT + j + k
        BY <1>1, <2>2
      <3> QED
        BY <1>5, <2>3, <3>1
    <2> DEFINE w == net.fc_weights
               m == i * FLAT + j
    <2>6. m \in Int /\ \A k \in 0 .. 3 : w[m + k] \in Int8
      BY <1>1, <2>2, <2>5
    <2>7. Term = MAC4(pack4(flat, j), pack4(w, m))
      BY <1>7 DEF Term
    <2> HIDE DEF w, m
    <2>8. MAC4(pack4(flat, j), pack4(w, m))
          = flat[j + 0] * w[m + 0] + flat[j + 1] * w[m + 1] + flat[j + 2] * w[m + 2]
            + flat[j + 3] * w[m + 3]
      BY <1>1, <2>4, <2>6, PackedProduct
    <2>9. \A k \in 0 .. 3 : flat[j + k] * w[m + k] \in Int
      BY <2>4, <2>6, ProductBound
    <2>10. /\ flat[j + 0] * w[m + 0] \in Int /\ flat[j + 1] * w[m + 1] \in Int
           /\ flat[j + 2] * w[m + 2] \in Int /\ flat[j + 3] * w[m + 3] \in Int
      BY <2>9
    <2> QED
      BY <2>7, <2>8, <2>10
  <1>8. CASE ~UsesMac
    <2>1. Term = Flattened(pool_out, j) * net.fc_weights[i * FLAT + j]
      BY <1>8 DEF Term
    <2>2. Flattened(pool_out, j) \in Int8 /\ net.fc_weights[i * FLAT + j] \in Int8
      BY <1>1, <1>5, <1>6
    <2> QED
      BY <2>1, <2>2, ProductBound
  <1> QED
    BY <1>7, <1>8

-----------------------------------------------------------------------------
(* The data are as the formulas say.                                       *)

LEMMA DataInit == Init => DataInv
  <1> SUFFICES ASSUME Init PROVE DataInv
    OBVIOUS
  <1>1. pc \in {"blank_seg7", "main"} /\ world \in WORLDS /\ selected = 0
    BY DEF Init, Start
  <1>2. pc \notin Running /\ pc \notin {"pool", "flatten", "fc"}
    BY <1>1 DEF Running, Scoring
  <1> QED
    BY <1>1, <1>2, ImagesAssumption DEF DataInv, ChoiceInv, LayerInv, ClassInv, Running, Scoring

LEMMA DataStep == DataInv /\ [Next]_vars => DataInv'
  <1> SUFFICES ASSUME DataInv, [Next]_vars PROVE DataInv'
    OBVIOUS
  <1> USE DEF DataInv, ChoiceInv, LayerInv, ClassInv, Running, Scoring, rigid, netVars, loopVars,
          scoreVars, boardVars
  <1>1. CASE NextTarget
    BY <1>1, ImagesAssumption DEF NextTarget, Selections
  <1>2. CASE Poll
    BY <1>2, HighestSelects, ImagesAssumption DEF Poll, Selections
  <1>3. CASE BlankSeg7
    BY <1>3 DEF BlankSeg7
  <1>4. CASE BlankLeds
    BY <1>4 DEF BlankLeds
  <1>5. CASE ShowSwitch
    BY <1>5 DEF ShowSwitch
  <1>6. CASE Enter
    BY <1>6 DEF Enter, NoScores
  <1>7. CASE Conv2D
    <2>1. /\ pc = "conv" /\ pc' = "pool" /\ UNCHANGED <<program, world, selected, predictions>>
          /\ conv_out' = [c \in Filters |-> [p \in Plane(CONV) |->
                              Requantize(ConvSum(c, p[1], p[2]))]]
      BY <1>7 DEF Conv2D
    <2>2. ASSUME NEW c \in Filters, NEW p \in Plane(CONV)
          PROVE  ConvSum(c, p[1], p[2])
                 = ScalarSum(world.net, world.images[selected], c, p[1], p[2])
      <3>1. p[1] \in 0 .. CONV - 1 /\ p[2] \in 0 .. CONV - 1
        BY DEF Plane
      <3>2. world.net \in Networks /\ world.images[selected] \in Images
        BY <2>1, WorldType
      <3> QED
        BY <3>1, <3>2, ConvolutionIsScalar DEF ConvSum, net, img
    <2>3. conv_out' = BaselineConv(world, selected)
      BY <2>1, <2>2 DEF BaselineConv
    <2> QED
      BY <2>1, <2>3
  <1>8. CASE MaxPool2D
    <2>1. pc = "pool" /\ UNCHANGED <<program, world, selected, predictions>>
      BY <1>8 DEF MaxPool2D
    <2>2. pool_out' = BaselinePool(conv_out)
      BY <1>8 DEF MaxPool2D, BaselinePool
    <2>3. pool_out' = BaselinePool(BaselineConv(world, selected))
      BY <2>1, <2>2
    <2>4. CASE UsesMac
      BY <1>8, <2>1, <2>3, <2>4 DEF MaxPool2D
    <2>5. CASE ~UsesMac
      <3>1. pc' = "fc" /\ i' = 0 /\ j' = 0 /\ sum' = net.fc_bias[0]
        BY <1>8, <2>5 DEF MaxPool2D, StartClasses
      <3>2. 0 \in Classes
        BY Constants DEF Classes
      <3>3. sum' \in Int
        BY <2>1, <3>1, <3>2, WorldType DEF net, Networks
      <3>4. ~UsesMac'
        BY <2>1, <2>5 DEF UsesMac
      <3> QED
        BY <2>1, <2>3, <3>1, <3>2, <3>3, <3>4
    <2> QED
      BY <2>4, <2>5
  <1>9. CASE FlattenPool
    <2>1. /\ pc = "flatten" /\ UNCHANGED <<program, world, selected, predictions, pool_out>>
          /\ pc' = "fc" /\ i' = 0 /\ j' = 0 /\ sum' = net.fc_bias[0]
          /\ flat' = [k \in 0 .. FLAT - 1 |-> Flattened(pool_out, k)]
      BY <1>9 DEF FlattenPool, StartClasses
    <2>2. 0 \in Classes
      BY Constants DEF Classes
    <2>3. sum' \in Int
      BY <2>1, <2>2, WorldType DEF net, Networks
    <2> QED
      BY <2>1, <2>2, <2>3
  <1>10. CASE Accumulate
    <2>1. /\ pc = "fc" /\ j < FLAT /\ sum' = sum + Term /\ j' = j + Stride
          /\ UNCHANGED <<program, world, selected, predictions, conv_out, pool_out, flat, pc, i>>
      BY <1>10 DEF Accumulate
    <2>2. Term \in Int
      BY <2>1, TermType
    <2>3. j' \in Nat /\ (UsesMac' => j' % 4 = 0)
      BY <2>1 DEF Stride, UsesMac
    <2> QED
      BY <2>1, <2>2, <2>3 DEF UsesMac
  <1>11. CASE StoreScore
    <2>1. /\ pc = "fc" /\ predictions' = [predictions EXCEPT ![i] = sum] /\ j' = 0
          /\ UNCHANGED <<program, world, selected>>
      BY <1>11 DEF StoreScore
    <2>2. predictions' \in [Classes -> Int]
      BY <2>1
    <2>3. CASE i + 1 < CLASSES
      <3>1. i' = i + 1 /\ sum' = net.fc_bias[i + 1] /\ UNCHANGED <<pc, conv_out, pool_out, flat>>
        BY <1>11, <2>3 DEF StoreScore
      <3>2. i + 1 \in Classes
        BY <2>1, <2>3, Constants DEF Classes
      <3>3. sum' \in Int
        BY <2>1, <3>1, <3>2, WorldType DEF net, Networks
      <3> QED
        BY <2>1, <2>2, <3>1, <3>2, <3>3 DEF UsesMac
    <2>4. CASE ~(i + 1 < CLASSES)
      BY <1>11, <2>1, <2>2, <2>4 DEF StoreScore
    <2> QED
      BY <2>3, <2>4
  <1>12. CASE Argmax
    BY <1>12 DEF Argmax
  <1>13. CASE Share
    BY <1>13 DEF Share
  <1>14. CASE Percent
    BY <1>14 DEF Percent
  <1>15. CASE Report
    BY <1>15, ImagesAssumption DEF Report, EndTurn, Selections
  <1>16. CASE ShowDigit
    BY <1>16 DEF ShowDigit
  <1>17. CASE ShowBar
    BY <1>17 DEF ShowBar
  <1>18. CASE Remember
    BY <1>18 DEF Remember, EndTurn
  <1>19. CASE Flip
    BY <1>19 DEF Flip, UsesMac
  <1>20. CASE Reset
    BY <1>20, ImagesAssumption DEF Reset, Start
  <1>21. CASE UNCHANGED vars
    BY <1>21 DEF vars, UsesMac
  <1> QED
    BY <1>1, <1>2, <1>3, <1>4, <1>5, <1>6, <1>7, <1>8, <1>9, <1>10, <1>11, <1>12, <1>13, <1>14,
       <1>15, <1>16, <1>17, <1>18, <1>19, <1>20, <1>21, Zenon DEF Next, ProgramStep

-----------------------------------------------------------------------------
(* Scoring.                                                                *)

\* A share of the sum, in per cent.
LEMMA Percentage ==
    ASSUME NEW max \in Nat \ {0}, NEW total \in Nat \ {0},
           max <= total, total <= CLASSES * max
    PROVE  (100 * max) \div total \in 100 \div CLASSES .. 100
  <1> DEFINE d == 100 \div CLASSES
  <1>1. d \in Nat /\ d * CLASSES <= 100
    <2>1. 100 = CLASSES * d + (100 % CLASSES) /\ d \in Nat /\ 100 % CLASSES \in Nat
      BY ClassAssumption, SMT
    <2>2. CLASSES * d = d * CLASSES
      BY ClassAssumption, <2>1, SMT
    <2> HIDE DEF d
    <2>3. d * CLASSES \in Nat
      BY <2>1, ClassAssumption, SMT
    <2> QED
      BY <2>1, <2>2, <2>3, SMT
  <1> HIDE DEF d
  <1>2. 100 * max \in Nat
    OBVIOUS
  <1>3. 100 * max <= 100 * total
    OBVIOUS
  <1>4. (100 * max) \div total <= 100
    BY <1>2, <1>3, Floor
  <1>5. d * total <= 100 * max
    <2>1. d * total <= d * (CLASSES * max)
      BY <1>1, ClassAssumption, SMT
    <2>2. d * (CLASSES * max) = (d * CLASSES) * max
      BY <1>1, ClassAssumption, SMT
    <2>3. d * CLASSES \in Nat
      BY <1>1, ClassAssumption, SMT
    <2>4. (d * CLASSES) * max <= 100 * max
      BY <1>1, <2>3, SMT
    <2> DEFINE A == d * total
               B == d * (CLASSES * max)
    <2>5. A \in Int /\ B \in Int
      BY <1>1, ClassAssumption, SMT
    <2>6. A <= B /\ B <= 100 * max
      BY <2>1, <2>2, <2>4
    <2> HIDE DEF A, B
    <2>7. A <= 100 * max
      BY <2>5, <2>6
    <2> QED
      BY <2>7 DEF A
  <1>6. d <= (100 * max) \div total /\ (100 * max) \div total \in Nat
    BY <1>1, <1>2, <1>5, Floor
  <1> QED
    BY <1>1, <1>4, <1>6 DEF d

LEMMA ArgmaxKeeps ==
    ASSUME DataInv, ScoreInv, Argmax
    PROVE  ScoreInv'
  <1>1. /\ pc = "argmax" /\ i \in Classes /\ pos_sum = 0 /\ (i # 0 => BestAmong(i))
        /\ predictions \in [Classes -> Int]
        /\ predictions' = predictions /\ pos_sum' = pos_sum
    BY DEF Argmax, ScoreInv, Scored, Scoring, DataInv, ClassInv, Running, netVars
  <1>0. PICK n \in Nat : n = i + 1
    BY <1>1, Constants DEF Classes
  <1>2. BestAmong(n)'
    <2>1. CASE i = 0 \/ Better(i)
      <3>1. best_class' = i /\ max_score' = predictions[i]
        BY <2>1 DEF Argmax
      <3>2. \A k \in 0 .. i - 1 : predictions[k] < predictions[i]
        <4>1. CASE i = 0
          BY <4>1
        <4>2. CASE i # 0
          <5>1. BestAmong(i) /\ predictions[i] > max_score
            BY <1>1, <2>1, <4>2 DEF Better
          <5>2. \A k \in 0 .. i - 1 : k \in Classes /\ best_class \in Classes
            BY <1>1, <5>1, Constants DEF Classes, BestAmong
          <5> QED
            BY <1>1, <5>1, <5>2 DEF BestAmong
        <4> QED
          BY <4>1, <4>2
      <3>3. \A k \in 0 .. i : k \in Classes /\ predictions[k] <= predictions[i]
        BY <1>1, <3>2, Constants DEF Classes
      <3>4. i \in 0 .. n - 1 /\ \A k : k \in 0 .. n - 1 => k \in 0 .. i
        BY <1>0, <1>1, Constants DEF Classes
      <3> QED
        BY <1>1, <3>1, <3>2, <3>3, <3>4 DEF BestAmong
    <2>2. CASE ~(i = 0 \/ Better(i))
      <3>1. UNCHANGED <<best_class, max_score>>
        BY <2>2 DEF Argmax
      <3>2. BestAmong(i) /\ ~(predictions[i] > max_score)
        BY <1>1, <2>2 DEF Better
      <3>3. best_class \in Classes /\ i \in Nat
        BY <1>1, <3>2, Constants DEF Classes, BestAmong
      <3>4. max_score \in Int /\ predictions[i] <= max_score
        BY <1>1, <3>2, <3>3 DEF BestAmong
      <3>5. \A k \in 0 .. n - 1 : k \in 0 .. i - 1 \/ k = i
        BY <1>0, <3>3
      <3>6. best_class \in 0 .. n - 1
        BY <1>0, <3>2, <3>3 DEF BestAmong
      <3> QED
        BY <1>1, <3>1, <3>2, <3>4, <3>5, <3>6 DEF BestAmong
    <2> QED
      BY <2>1, <2>2
  <1>3. CASE i + 1 < CLASSES
    <2>1. i' = n /\ pc' = "argmax"
      BY <1>0, <1>1, <1>3 DEF Argmax
    <2>2. n \in Classes
      BY <1>0, <1>1, <1>3, Constants DEF Classes
    <2>3. BestAmong(i)'
      BY <1>2, <2>1 DEF BestAmong
    <2> QED
      BY <1>1, <2>1, <2>2, <2>3 DEF ScoreInv, Scored, Scoring
  <1>4. CASE ~(i + 1 < CLASSES)
    <2>1. i' = 0 /\ pc' = "share"
      BY <1>1, <1>4 DEF Argmax
    <2>2. n = CLASSES /\ 0 \in Classes /\ CLASSES > 0
      BY <1>0, <1>1, <1>4, Constants DEF Classes
    <2>3. BestAmong(CLASSES)'
      BY <1>2, <2>2 DEF BestAmong
    <2>4. max_score' \in Int /\ best_class' \in Nat
      BY <1>1, <2>3 DEF BestAmong, Classes
    <2>5. ShareOf(0)'
      <3>1. PICK m \in Int : m = max_score'
        BY <2>4
      <3>2. 0 * m = 0
        BY SMT
      <3>3. pos_sum' = 0 /\ ~(best_class' < 0)
        BY <1>1, <2>4
      <3>4. 0 * max_score' = 0
        BY <3>1, <3>2
      <3>5. max_score' > 0 => pos_sum' <= 0 * max_score'
        BY <3>3, <3>4
      <3> QED
        BY <3>3, <3>5, Zenon DEF ShareOf
    <2> QED
      BY <2>1, <2>2, <2>3, <2>5 DEF ScoreInv, ShareOf, Scored, Scoring
  <1> QED
    BY <1>3, <1>4

LEMMA ShareKeeps ==
    ASSUME DataInv, ScoreInv, Share
    PROVE  ScoreInv'
  <1>1. /\ pc = "share" /\ i \in Classes /\ BestAmong(CLASSES) /\ ShareOf(i)
        /\ predictions \in [Classes -> Int]
        /\ UNCHANGED <<predictions, best_class, max_score>>
        /\ pos_sum' = IF predictions[i] > 0 THEN pos_sum + predictions[i] ELSE pos_sum
    BY DEF Share, ScoreInv, Scored, Scoring, DataInv, ClassInv, Running, netVars
  <1>2. /\ i \in Nat /\ best_class \in Classes /\ predictions[i] \in Int /\ pos_sum \in Nat
        /\ max_score \in Int /\ max_score = predictions[best_class] /\ predictions[i] <= max_score
    BY <1>1, Constants DEF BestAmong, ShareOf, Classes
  <1>0. PICK n \in Nat : n = i + 1
    BY <1>2
  <1>3. (i + 1) * max_score = i * max_score + max_score /\ i * max_score \in Int
    BY <1>2
  <1>4. ShareOf(n)'
    <2>1. pos_sum' \in Nat
      BY <1>1, <1>2
    <2>2. max_score' <= 0 => pos_sum' = 0
      BY <1>1, <1>2 DEF ShareOf
    <2>3. max_score' > 0 => pos_sum' <= n * max_score'
      BY <1>0, <1>1, <1>2, <1>3 DEF ShareOf
    <2>4. max_score' > 0 /\ best_class' < n => pos_sum' >= max_score'
      <3>1. CASE best_class = i
        BY <1>1, <1>2, <3>1
      <3>2. CASE best_class # i
        <4>1. best_class < n => best_class < i
          BY <1>0, <1>2, <3>2, Constants DEF Classes
        <4> QED
          BY <1>1, <1>2, <4>1 DEF ShareOf
      <3> QED
        BY <3>1, <3>2
    <2> QED
      BY <2>1, <2>2, <2>3, <2>4 DEF ShareOf
  <1>5. BestAmong(CLASSES)'
    BY <1>1 DEF BestAmong
  <1>6. CASE i + 1 < CLASSES
    <2>1. i' = n /\ pc' = "share" /\ n \in Classes
      BY <1>0, <1>1, <1>6, Constants DEF Share, Classes
    <2>2. ShareOf(i)'
      BY <1>4, <2>1 DEF ShareOf
    <2> QED
      BY <1>5, <2>1, <2>2 DEF ScoreInv, Scored, Scoring
  <1>7. CASE ~(i + 1 < CLASSES)
    <2>1. pc' = "percent" /\ n = CLASSES
      BY <1>0, <1>1, <1>7, Constants DEF Share, Classes
    <2> QED
      BY <1>4, <1>5, <2>1 DEF ScoreInv, Scored, Scoring
  <1> QED
    BY <1>6, <1>7

LEMMA PercentKeeps ==
    ASSUME DataInv, ScoreInv, Percent
    PROVE  ConfidenceIsShare'
  <1>1. /\ pc = "percent" /\ ShareOf(CLASSES) /\ BestAmong(CLASSES)
        /\ UNCHANGED <<pos_sum, max_score>>
        /\ predictions \in [Classes -> Int]
        /\ confidence' = IF pos_sum > 0 THEN (100 * max_score) \div pos_sum ELSE 0
    BY DEF Percent, ScoreInv, Scored, Scoring, DataInv, ClassInv, Running
  <1>2. max_score \in Int /\ pos_sum \in Nat /\ best_class < CLASSES
    BY <1>1, Constants DEF BestAmong, ShareOf, Classes
  <1>3. CASE pos_sum > 0
    <2>1. max_score \in Nat \ {0} /\ pos_sum \in Nat \ {0}
      BY <1>1, <1>2, <1>3 DEF ShareOf
    <2>2. max_score <= pos_sum /\ pos_sum <= CLASSES * max_score
      BY <1>1, <1>2, <2>1 DEF ShareOf
    <2> QED
      BY <1>1, <1>3, <2>1, <2>2, Percentage DEF ConfidenceIsShare
  <1>4. CASE ~(pos_sum > 0)
    BY <1>1, <1>4 DEF ConfidenceIsShare
  <1> QED
    BY <1>3, <1>4

\* The statements that touch neither the scores nor what is known of them.
LEMMA ScoreStep == DataInv /\ ScoreInv /\ [Next]_vars => ScoreInv'
  <1> SUFFICES ASSUME DataInv, ScoreInv, [Next]_vars PROVE ScoreInv'
    OBVIOUS
  <1>0. 0 \in Classes
    BY Constants DEF Classes
  <1> USE DEF ScoreInv, BestAmong, ShareOf, Scored, Scoring, rigid, netVars, loopVars,
          scoreVars, boardVars
  <1>1. CASE NextTarget
    BY <1>1 DEF NextTarget
  <1>2. CASE Poll
    BY <1>2 DEF Poll
  <1>3. CASE BlankSeg7
    BY <1>3 DEF BlankSeg7
  <1>4. CASE BlankLeds
    BY <1>4 DEF BlankLeds
  <1>5. CASE ShowSwitch
    BY <1>5 DEF ShowSwitch
  <1>6. CASE Enter
    BY <1>6 DEF Enter
  <1>7. CASE Conv2D
    BY <1>7 DEF Conv2D
  <1>8. CASE MaxPool2D
    BY <1>8 DEF MaxPool2D, StartClasses
  <1>9. CASE FlattenPool
    BY <1>9 DEF FlattenPool, StartClasses
  <1>10. CASE Accumulate
    BY <1>10 DEF Accumulate
  <1>11. CASE StoreScore
    BY <1>0, <1>11 DEF StoreScore
  <1>12. CASE Argmax
    BY <1>12, ArgmaxKeeps
  <1>13. CASE Share
    BY <1>13, ShareKeeps
  <1>14. CASE Percent
    BY <1>14 DEF Percent
  <1>15. CASE Report
    BY <1>15 DEF Report, EndTurn
  <1>16. CASE ShowDigit
    BY <1>16 DEF ShowDigit
  <1>17. CASE ShowBar
    BY <1>17 DEF ShowBar
  <1>18. CASE Remember
    BY <1>18 DEF Remember, EndTurn
  <1>19. CASE Flip
    BY <1>19 DEF Flip
  <1>20. CASE Reset
    BY <1>20 DEF Reset, Start
  <1>21. CASE UNCHANGED vars
    BY <1>21 DEF vars
  <1> QED
    BY <1>1, <1>2, <1>3, <1>4, <1>5, <1>6, <1>7, <1>8, <1>9, <1>10, <1>11, <1>12, <1>13, <1>14,
       <1>15, <1>16, <1>17, <1>18, <1>19, <1>20, <1>21, Zenon DEF Next, ProgramStep

-----------------------------------------------------------------------------
(* What holds of every reachable state.                                    *)

\* No statement follows the scoring loops but Percent that changes a confidence.
LEMMA ConfidenceStep ==
    DataInv /\ ScoreInv /\ ConfidenceIsShare /\ [Next]_vars => ConfidenceIsShare'
  <1> SUFFICES ASSUME DataInv, ScoreInv, ConfidenceIsShare, [Next]_vars
               PROVE  ConfidenceIsShare'
    OBVIOUS
  <1>14. CASE Percent
    BY <1>14, PercentKeeps
  <1> USE DEF ConfidenceIsShare, Scored, Scoring, rigid, netVars, loopVars, scoreVars, boardVars
  <1>1. CASE NextTarget
    BY <1>1 DEF NextTarget
  <1>2. CASE Poll
    BY <1>2 DEF Poll
  <1>3. CASE BlankSeg7
    BY <1>3 DEF BlankSeg7
  <1>4. CASE BlankLeds
    BY <1>4 DEF BlankLeds
  <1>5. CASE ShowSwitch
    BY <1>5 DEF ShowSwitch
  <1>6. CASE Enter
    BY <1>6 DEF Enter
  <1>7. CASE Conv2D
    BY <1>7 DEF Conv2D
  <1>8. CASE MaxPool2D
    BY <1>8 DEF MaxPool2D, StartClasses
  <1>9. CASE FlattenPool
    BY <1>9 DEF FlattenPool, StartClasses
  <1>10. CASE Accumulate
    BY <1>10 DEF Accumulate
  <1>11. CASE StoreScore
    BY <1>11 DEF StoreScore
  <1>12. CASE Argmax
    BY <1>12 DEF Argmax
  <1>13. CASE Share
    BY <1>13 DEF Share
  <1>15. CASE Report
    BY <1>15 DEF Report, EndTurn
  <1>16. CASE ShowDigit
    BY <1>16 DEF ShowDigit
  <1>17. CASE ShowBar
    BY <1>17 DEF ShowBar
  <1>18. CASE Remember
    BY <1>18 DEF Remember, EndTurn
  <1>19. CASE Flip
    BY <1>19 DEF Flip
  <1>20. CASE Reset
    BY <1>20 DEF Reset, Start
  <1>21. CASE UNCHANGED vars
    BY <1>21 DEF vars
  <1> QED
    BY <1>1, <1>2, <1>3, <1>4, <1>5, <1>6, <1>7, <1>8, <1>9, <1>10, <1>11, <1>12, <1>13, <1>14,
       <1>15, <1>16, <1>17, <1>18, <1>19, <1>20, <1>21, Zenon DEF Next, ProgramStep

LEMMA ScoreInit == Init => ScoreInv /\ ConfidenceIsShare
  <1> SUFFICES ASSUME Init PROVE ScoreInv /\ ConfidenceIsShare
    OBVIOUS
  <1>1. pc \in {"blank_seg7", "main"} /\ pos_sum = 0
    BY DEF Init, Start, NoScoring
  <1>2. pc \notin Scored \cup {"share", "argmax"}
    BY <1>1 DEF Scored, Scoring
  <1> QED
    BY <1>1, <1>2 DEF ScoreInv, ConfidenceIsShare, Scored, Scoring

LEMMA Invariance == Spec => []IInv
  <1>1. Init => IInv
    BY DataInit, ScoreInit DEF IInv
  <1>2. IInv /\ [Next]_vars => IInv'
    BY DataStep, ScoreStep, ConfidenceStep DEF IInv
  <1> QED
    BY <1>1, <1>2, PTL DEF Spec

LEMMA SumsBounded == IInv => SumsFit
  <1> SUFFICES ASSUME IInv, pc = "conv", NEW c \in Filters, NEW p \in Plane(CONV)
               PROVE  SumFits(ConvSum(c, p[1], p[2]))
    BY DEF SumsFit
  <1>1. world \in WORLDS /\ world.net \in Networks /\ world.images[selected] \in Images
    BY WorldType DEF IInv, DataInv, ChoiceInv, Running
  <1>2. p[1] \in 0 .. CONV - 1 /\ p[2] \in 0 .. CONV - 1
    BY DEF Plane
  <1> DEFINE s == ConvSum(c, p[1], p[2])
             b == world.net.conv1_bias[c]
             top == INT_MAX \div M1_NUM
  <1>3. s \in Int /\ s <= b + 147456
    BY <1>1, <1>2, ConvolutionIsScalar DEF ConvSum, net, img
  <1>4. b \in Int /\ b <= top - 147456
    BY <1>1, BiasAssumption DEF Networks
  <1>5. top \in Int
    BY RequantAssumption, Division DEF INT_MAX
  <1>6. s <= top
    <2> HIDE DEF s, b, top
    <2> QED
      BY <1>3, <1>4, <1>5
  <1> QED
    BY <1>6 DEF SumFits

\* Whatever the network and the images, each layer of each program leaves the
\* planes that the formulas of inference_baseline.c give, packed bytes or not.
THEOREM LayersAreBaseline == Spec => []LayerInv
  <1>1. IInv => LayerInv
    BY DEF IInv, DataInv
  <1> QED
    BY <1>1, Invariance, PTL

\* The 32-bit product of the requantization never overflows (the sum * M1_NUM
\* of conv2d), for biases as small as the trained ones.
THEOREM SumsAlwaysFit == Spec => []SumsFit
  BY Invariance, SumsBounded, PTL

\* The scoring loops of main report the first class with the highest score.
THEOREM FirstMaximumIsReported == Spec => []BestIsFirstMaximum
  <1>1. IInv => BestIsFirstMaximum
    BY DEF IInv, ScoreInv, BestAmong, BestIsFirstMaximum, Classes
  <1> QED
    BY <1>1, Invariance, PTL

\* The confidence shown is a percentage, of at least an equal share.
THEOREM ConfidenceIsPercentage == Spec => []ConfidenceIsShare
  <1>1. IInv => ConfidenceIsShare
    BY DEF IInv
  <1> QED
    BY <1>1, Invariance, PTL

-----------------------------------------------------------------------------
(* The last layer and the share: loops that add what the formulas sum up.  *)

Products(w, pool, k) ==
    [m \in 0 .. FLAT - 1 |-> Flattened(pool, m) * w.net.fc_weights[k * FLAT + m]]
Positives(scores) == [k \in Classes |-> IF scores[k] > 0 THEN scores[k] ELSE 0]

LEMMA ProductsType ==
    ASSUME NEW w \in WORLDS, NEW k \in Classes, NEW pool \in [Filters -> [Plane(POOL) -> Int8]]
    PROVE  Products(w, pool, k) \in [0 .. FLAT - 1 -> Int]
  <1> SUFFICES ASSUME NEW m \in 0 .. FLAT - 1
               PROVE  Flattened(pool, m) * w.net.fc_weights[k * FLAT + m] \in Int
    BY DEF Products
  <1>1. k * FLAT + m \in 0 .. CLASSES * FLAT - 1
    BY Constants, Element DEF Classes
  <1>2. w.net.fc_weights[k * FLAT + m] \in Int8
    BY <1>1, WorldAssumption DEF Networks
  <1> QED
    BY <1>2, FlattenedType, ProductBound

LEMMA ScoreIsSum ==
    ASSUME NEW w \in WORLDS, NEW k \in Classes, NEW pool \in [Filters -> [Plane(POOL) -> Int8]]
    PROVE  ScalarScore(w.net, pool, k)
           = w.net.fc_bias[k] + SumOver(Products(w, pool, k), 0 .. FLAT - 1, 0 .. FLAT - 1)
  <1> DEFINE S == 0 .. FLAT - 1
             F == Products(w, pool, k)
             e(m) == Flattened(pool, m) * w.net.fc_weights[k * FLAT + m]
             body(g) == [s \in SUBSET S |-> IF s = {} THEN 0
                                            ELSE e(CHOOSE x \in s : TRUE)
                                                 + g[s \ {CHOOSE x \in s : TRUE}]]
             iter == CHOOSE g : g = body(g)
  <1>1. IsFiniteSet(S) /\ F \in [S -> Int]
    BY Constants, FS_Interval, ProductsType
  <1>2. \A s \in SUBSET S : s # {} => F[Chosen(s)] = e(CHOOSE x \in s : TRUE)
    BY ChosenIn DEF Chosen, Products
  <1>3. \A g : SumsUp(F, S, g) <=> \A s \in SUBSET S : g[s] = body(g)[s]
    BY <1>2 DEF SumsUp, Chosen
  <1>4. PICK g \in [SUBSET S -> Int] : SumsUp(F, S, g)
    BY <1>1, SumsExist
  <1>5. g = body(g)
    BY <1>3, <1>4
  <1>6. iter = body(iter)
    BY <1>5
  <1>7. SumsUp(F, S, iter)
    BY <1>3, <1>6
  <1>8. iter[S] = SumOver(F, S, S)
    BY <1>1, <1>7, FoldIsSum
  <1>9. MapThenSumSet(LAMBDA m : Flattened(pool, m) * w.net.fc_weights[k * FLAT + m], S) = iter[S]
    BY Zenon DEF MapThenSumSet, MapThenFoldSet
  <1> QED
    BY <1>8, <1>9 DEF ScalarScore

LEMMA TotalIsSum ==
    ASSUME NEW scores \in [Classes -> Int]
    PROVE  MapThenSumSet(LAMBDA k : IF scores[k] > 0 THEN scores[k] ELSE 0, Classes)
           = SumOver(Positives(scores), Classes, Classes)
  <1> DEFINE S == Classes
             F == Positives(scores)
             e(k) == IF scores[k] > 0 THEN scores[k] ELSE 0
             body(g) == [s \in SUBSET S |-> IF s = {} THEN 0
                                            ELSE e(CHOOSE x \in s : TRUE)
                                                 + g[s \ {CHOOSE x \in s : TRUE}]]
             iter == CHOOSE g : g = body(g)
  <1>1. IsFiniteSet(S) /\ F \in [S -> Int]
    BY Constants, FS_Interval DEF Classes, Positives
  <1>2. \A s \in SUBSET S : s # {} => F[Chosen(s)] = e(CHOOSE x \in s : TRUE)
    BY ChosenIn DEF Chosen, Positives
  <1>3. \A g : SumsUp(F, S, g) <=> \A s \in SUBSET S : g[s] = body(g)[s]
    BY <1>2 DEF SumsUp, Chosen
  <1>4. PICK g \in [SUBSET S -> Int] : SumsUp(F, S, g)
    BY <1>1, SumsExist
  <1>5. g = body(g)
    BY <1>3, <1>4
  <1>6. iter = body(iter)
    BY <1>5
  <1>7. SumsUp(F, S, iter)
    BY <1>3, <1>6
  <1>8. iter[S] = SumOver(F, S, S)
    BY <1>1, <1>7, FoldIsSum
  <1>9. MapThenSumSet(LAMBDA k : IF scores[k] > 0 THEN scores[k] ELSE 0, S) = iter[S]
    BY Zenon DEF MapThenSumSet, MapThenFoldSet
  <1> QED
    BY <1>8, <1>9

\* What the last layer's accumulator holds after the first n products.
ScoreUpTo(w, pool, k, n) ==
    w.net.fc_bias[k] + SumOver(Products(w, pool, k), 0 .. FLAT - 1, 0 .. n - 1)

LEMMA ScoreUpToAll ==
    ASSUME NEW w \in WORLDS, NEW k \in Classes, NEW pool \in [Filters -> [Plane(POOL) -> Int8]]
    PROVE  /\ ScoreUpTo(w, pool, k, 0) = w.net.fc_bias[k]
           /\ ScoreUpTo(w, pool, k, FLAT) = ScalarScore(w.net, pool, k)
           /\ \A n \in 0 .. FLAT : ScoreUpTo(w, pool, k, n) \in Int
           /\ \A n \in 0 .. FLAT - 1 : ScoreUpTo(w, pool, k, n + 1)
                                       = ScoreUpTo(w, pool, k, n) + Products(w, pool, k)[n]
  <1> DEFINE P == Products(w, pool, k)
             part(n) == SumOver(P, 0 .. FLAT - 1, 0 .. n)
             bias == w.net.fc_bias[k]
  <1>1. FLAT \in Nat \ {0} /\ P \in [0 .. FLAT - 1 -> Int] /\ bias \in Int
    BY Constants, ProductsType, WorldAssumption DEF Networks
  <1>2. /\ part(-1) = 0
        /\ \A n \in 0 .. FLAT - 1 : part(n) = P[n] + part(n - 1)
        /\ \A n \in -1 .. FLAT - 1 : part(n) \in Int
    <2> HIDE DEF P
    <2> QED
      BY <1>1, SumOverInterval
  <1>3. \A n : ScoreUpTo(w, pool, k, n) = bias + part(n - 1)
    BY DEF ScoreUpTo
  <1>4. ScoreUpTo(w, pool, k, FLAT) = ScalarScore(w.net, pool, k)
    BY ScoreIsSum DEF ScoreUpTo
  <1> HIDE DEF P, part, bias
  <1>5. ScoreUpTo(w, pool, k, 0) = bias
    <2>1. 0 - 1 = -1
      OBVIOUS
    <2> QED
      BY <1>1, <1>2, <1>3, <2>1
  <1>6. ASSUME NEW n \in 0 .. FLAT PROVE ScoreUpTo(w, pool, k, n) \in Int
    <2>1. n - 1 \in -1 .. FLAT - 1
      BY <1>1
    <2> QED
      BY <1>1, <1>2, <1>3, <2>1
  <1>7. ASSUME NEW n \in 0 .. FLAT - 1
        PROVE  ScoreUpTo(w, pool, k, n + 1) = ScoreUpTo(w, pool, k, n) + P[n]
    <2>1. n + 1 - 1 = n /\ n - 1 \in -1 .. FLAT - 1
      BY <1>1
    <2>2. P[n] \in Int /\ part(n - 1) \in Int
      BY <1>1, <1>2, <2>1
    <2>3. ScoreUpTo(w, pool, k, n + 1) = bias + part(n)
      BY <1>3, <2>1
    <2>4. part(n) = P[n] + part(n - 1)
      BY <1>2
    <2> QED
      BY <1>1, <1>3, <2>2, <2>3, <2>4
  <1> QED
    BY <1>4, <1>5, <1>6, <1>7 DEF P, bias

LEMMA TermAdds ==
    ASSUME DataInv, pc = "fc", j \in 0 .. FLAT - 1
    PROVE  /\ j + Stride \in 0 .. FLAT
           /\ ScoreUpTo(world, pool_out, i, j + Stride) = ScoreUpTo(world, pool_out, i, j) + Term
  <1> DEFINE P == Products(world, pool_out, i)
             A(n) == ScoreUpTo(world, pool_out, i, n)
             w == world.net.fc_weights
             m == i * FLAT + j
  <1>1. i \in Classes /\ FLAT \in Nat \ {0} /\ i \in Nat /\ j \in Nat
    BY Constants DEF DataInv, ClassInv, Classes
  <1>2. world \in WORLDS /\ selected \in Selections
    BY DEF DataInv, ChoiceInv, Running
  <1>3. pool_out \in [Filters -> [Plane(POOL) -> Int8]]
    BY <1>2, ConvType, PoolType DEF DataInv, LayerInv
  <1>4. /\ \A n \in 0 .. FLAT : A(n) \in Int
        /\ \A n \in 0 .. FLAT - 1 : A(n + 1) = A(n) + P[n]
    BY <1>1, <1>2, <1>3, ScoreUpToAll
  <1>5. P \in [0 .. FLAT - 1 -> Int]
    BY <1>1, <1>2, <1>3, ProductsType
  <1>6. \A n \in 0 .. FLAT - 1 : P[n] = Flattened(pool_out, n) * w[i * FLAT + n]
    BY DEF Products
  <1>7. CASE UsesMac
    <2>1. Stride = 4 /\ j + 3 < FLAT
      <3>1. j % 4 = 0
        BY <1>7 DEF DataInv, ClassInv
      <3> QED
        BY <1>1, <1>7, <3>1, QuadAssumption, SMT DEF Stride
    <2>2. i * FLAT \in Int
      BY <1>1, SMT
    <2>3. \A k \in 0 .. 3 : j + k \in 0 .. FLAT - 1 /\ i * FLAT + (j + k) = m + k
      BY <1>1, <2>1, <2>2
    <2>4. \A k \in 0 .. 3 : P[j + k] = flat[j + k] * w[m + k]
      BY <1>6, <1>7, <2>3 DEF DataInv, LayerInv
    <2>5. \A k \in 0 .. 3 : flat[j + k] \in Int8 /\ w[m + k] \in Int8
      <3>1. \A n \in 0 .. FLAT - 1 : Flattened(pool_out, n) \in Int8
        BY <1>3, FlattenedType
      <3>2. \A n \in 0 .. FLAT - 1 : i * FLAT + n \in 0 .. CLASSES * FLAT - 1
        BY <1>1, Constants, Element DEF Classes
      <3>3. \A n \in 0 .. FLAT - 1 : w[i * FLAT + n] \in Int8
        BY <1>2, <3>2, WorldType DEF Networks
      <3>4. \A n \in 0 .. FLAT - 1 : flat[n] = Flattened(pool_out, n)
        BY <1>7 DEF DataInv, LayerInv
      <3> QED
        BY <2>3, <3>1, <3>3, <3>4
    <2>6. Term = MAC4(pack4(flat, j), pack4(w, m))
      BY <1>7 DEF Term, net
    <2>7. m \in Int
      BY <1>1, <2>2
    <2> HIDE DEF w, m
    <2>8. Term = flat[j + 0] * w[m + 0] + flat[j + 1] * w[m + 1] + flat[j + 2] * w[m + 2]
                 + flat[j + 3] * w[m + 3]
      BY <1>1, <2>5, <2>6, <2>7, PackedProduct
    <2>9. Term = P[j + 0] + P[j + 1] + P[j + 2] + P[j + 3]
      <3>1. 0 \in 0 .. 3 /\ 1 \in 0 .. 3 /\ 2 \in 0 .. 3 /\ 3 \in 0 .. 3
        OBVIOUS
      <3> QED
        BY <2>4, <2>8, <3>1, Zenon
    <2>10. /\ j \in 0 .. FLAT - 1 /\ j + 1 \in 0 .. FLAT - 1
           /\ j + 2 \in 0 .. FLAT - 1 /\ j + 3 \in 0 .. FLAT - 1
           /\ j + 1 + 1 = j + 2 /\ j + 2 + 1 = j + 3 /\ j + 3 + 1 = j + 4 /\ j + 0 = j
      BY <1>1, <2>1
    <2> HIDE DEF P, A
    <2>11. /\ A(j + 1) = A(j) + P[j] /\ A(j + 2) = A(j + 1) + P[j + 1]
           /\ A(j + 3) = A(j + 2) + P[j + 2] /\ A(j + 4) = A(j + 3) + P[j + 3]
      BY <1>4, <2>10
    <2>12. A(j) \in Int /\ P[j] \in Int /\ P[j + 1] \in Int /\ P[j + 2] \in Int /\ P[j + 3] \in Int
      <3>1. j \in 0 .. FLAT
        BY <1>1
      <3>2. A(j) \in Int
        BY <1>4, <3>1
      <3> QED
        BY <1>5, <2>10, <3>2
    <2>13. A(j + 4) = A(j) + Term
      <3>1. A(j + 4) = A(j) + P[j] + P[j + 1] + P[j + 2] + P[j + 3]
        BY <2>11
      <3>2. Term = P[j] + P[j + 1] + P[j + 2] + P[j + 3]
        BY <2>9, <2>10
      <3> QED
        BY <2>12, <3>1, <3>2
    <2>14. j + 4 \in 0 .. FLAT
      BY <1>1, <2>1
    <2> QED
      BY <2>1, <2>13, <2>14 DEF A
  <1>8. CASE ~UsesMac
    <2>1. Stride = 1 /\ Term = P[j]
      BY <1>6, <1>8 DEF Stride, Term, net
    <2>2. j + 1 \in 0 .. FLAT
      BY <1>1
    <2> HIDE DEF P
    <2>3. A(j + 1) = A(j) + P[j]
      BY <1>4
    <2> QED
      BY <2>1, <2>2, <2>3
  <1> QED
    BY <1>7, <1>8

-----------------------------------------------------------------------------
(* What the loops have added up.                                           *)

ReferenceInv == reference = [n \in Selections |-> BaselineScores(world, n)]
AccumulatorInv ==
    /\ pc = "fc" => /\ j \in 0 .. FLAT
                    /\ sum = ScoreUpTo(world, pool_out, i, j)
                    /\ \A k \in Classes : k < i => predictions[k] = reference[selected][k]
    /\ pc \in Scoring => predictions = reference[selected]
TotalInv ==
    /\ pc = "share" => pos_sum = SumOver(Positives(predictions), Classes, 0 .. i - 1)
    /\ pc \in Scored => pos_sum = SumOver(Positives(predictions), Classes, Classes)
    /\ pc \in Scored \ {"percent"} =>
          confidence = IF pos_sum > 0 THEN (100 * max_score) \div pos_sum ELSE 0

LEMMA ReferenceIs ==
    ASSUME DataInv, ReferenceInv, selected \in Selections,
           pool_out = BaselinePool(BaselineConv(world, selected))
    PROVE  /\ world \in WORLDS /\ pool_out \in [Filters -> [Plane(POOL) -> Int8]]
           /\ reference[selected] = [k \in Classes |-> ScalarScore(world.net, pool_out, k)]
  <1>1. world \in WORLDS
    BY DEF DataInv, ChoiceInv
  <1>2. pool_out \in [Filters -> [Plane(POOL) -> Int8]]
    BY <1>1, ConvType, PoolType
  <1>3. reference[selected] = [k \in Classes |-> ScalarScore(world.net, pool_out, k)]
    BY DEF ReferenceInv, BaselineScores
  <1> QED
    BY <1>1, <1>2, <1>3

LEMMA StoreScoreKeeps ==
    ASSUME DataInv, ReferenceInv, AccumulatorInv, StoreScore
    PROVE  AccumulatorInv'
  <1>1. /\ pc = "fc" /\ j >= FLAT /\ predictions' = [predictions EXCEPT ![i] = sum] /\ j' = 0
        /\ UNCHANGED <<world, selected, reference>>
    BY DEF StoreScore, rigid
  <1>2. /\ i \in Classes /\ selected \in Selections /\ predictions \in [Classes -> Int]
        /\ pool_out = BaselinePool(BaselineConv(world, selected))
        /\ j \in 0 .. FLAT /\ sum = ScoreUpTo(world, pool_out, i, j)
        /\ \A k \in Classes : k < i => predictions[k] = reference[selected][k]
    BY <1>1 DEF DataInv, ChoiceInv, LayerInv, ClassInv, AccumulatorInv, Running, Scoring
  <1>3. /\ world \in WORLDS /\ pool_out \in [Filters -> [Plane(POOL) -> Int8]]
        /\ reference[selected] = [k \in Classes |-> ScalarScore(world.net, pool_out, k)]
    BY <1>2, ReferenceIs
  <1>4. j = FLAT /\ i \in Nat /\ CLASSES \in Nat
    BY <1>1, <1>2, Constants DEF Classes
  <1>5. sum = reference[selected][i]
    BY <1>2, <1>3, <1>4, ScoreUpToAll
  <1>6. \A k \in Classes : k < i + 1 => predictions'[k] = reference'[selected'][k]
    <2>1. \A k \in Classes : k < i + 1 => k = i \/ k < i
      BY <1>4 DEF Classes
    <2> QED
      BY <1>1, <1>2, <1>5, <2>1
  <1>7. CASE i + 1 < CLASSES
    <2>1. i' = i + 1 /\ sum' = net.fc_bias[i + 1] /\ pc' = "fc" /\ pool_out' = pool_out
      BY <1>1, <1>7 DEF StoreScore
    <2>2. i + 1 \in Classes /\ 0 \in 0 .. FLAT
      BY <1>4, <1>7, Constants DEF Classes
    <2>3. sum' = ScoreUpTo(world, pool_out, i + 1, 0)
      BY <1>3, <2>1, <2>2, ScoreUpToAll DEF net
    <2>4. sum' = ScoreUpTo(world', pool_out', i', j')
      BY <1>1, <2>1, <2>3
    <2>5. \A k \in Classes : k < i' => predictions'[k] = reference'[selected'][k]
      BY <1>6, <2>1
    <2> QED
      BY <1>1, <2>1, <2>2, <2>4, <2>5 DEF AccumulatorInv, Scoring
  <1>8. CASE ~(i + 1 < CLASSES)
    <2>1. pc' = "argmax" /\ \A k \in Classes : k < i + 1
      BY <1>2, <1>4, <1>8, Constants DEF StoreScore, Classes
    <2>2. predictions' \in [Classes -> Int] /\ reference'[selected'] = reference[selected]
      BY <1>1, <1>2, <1>3, <1>5, <1>4, ScoreUpToAll
    <2>3. predictions' = reference'[selected']
      <3> DEFINE r == reference'[selected']
      <3>1. r = [k \in Classes |-> ScalarScore(world.net, pool_out, k)]
        BY <1>3, <2>2
      <3>2. r = [k \in Classes |-> r[k]]
        BY <3>1, Zenon
      <3>3. \A k \in Classes : predictions'[k] = r[k]
        BY <1>6, <2>1
      <3> HIDE DEF r
      <3>4. predictions' = r
        BY <2>2, <3>2, <3>3
      <3> QED
        BY <3>4 DEF r
    <2> QED
      BY <2>1, <2>3 DEF AccumulatorInv
  <1> QED
    BY <1>7, <1>8

\* The accumulator starts with the bias of class 0.
LEMMA StartKeeps ==
    ASSUME DataInv', ReferenceInv', pc' = "fc", i' = 0, j' = 0, sum' = net'.fc_bias[0]
    PROVE  AccumulatorInv'
  <1>1. world' \in WORLDS /\ selected' \in Selections
    BY DEF DataInv, ChoiceInv, Running
  <1>2. pool_out' \in [Filters -> [Plane(POOL) -> Int8]]
    BY <1>1, ConvType, PoolType DEF DataInv, LayerInv
  <1>3. 0 \in Classes /\ 0 \in 0 .. FLAT
    BY Constants DEF Classes
  <1>4. sum' = ScoreUpTo(world', pool_out', 0, 0)
    BY <1>1, <1>2, <1>3, ScoreUpToAll DEF net
  <1>5. \A k \in Classes : ~(k < 0)
    BY Constants DEF Classes
  <1> QED
    BY <1>3, <1>4, <1>5 DEF AccumulatorInv, Scoring

LEMMA AccumulateKeeps ==
    ASSUME DataInv, AccumulatorInv, Accumulate
    PROVE  AccumulatorInv'
  <1>1. /\ pc = "fc" /\ j < FLAT /\ sum' = sum + Term /\ j' = j + Stride
        /\ UNCHANGED <<world, selected, reference, predictions, pool_out, pc, i>>
    BY DEF Accumulate, rigid, netVars
  <1>2. j \in 0 .. FLAT - 1 /\ sum = ScoreUpTo(world, pool_out, i, j)
    BY <1>1, Constants DEF AccumulatorInv
  <1>3. j' \in 0 .. FLAT /\ sum' = ScoreUpTo(world, pool_out, i, j')
    BY <1>1, <1>2, TermAdds
  <1> QED
    BY <1>1, <1>3 DEF AccumulatorInv, Scoring

LEMMA ReferenceStep == ReferenceInv /\ [Next]_vars => ReferenceInv'
  <1> SUFFICES ASSUME ReferenceInv, [Next]_vars PROVE ReferenceInv'
    OBVIOUS
  <1>1. UNCHANGED <<world, reference>>
    BY DEF Next, ProgramStep, NextTarget, Poll, BlankSeg7, BlankLeds, ShowSwitch, Enter, Conv2D,
           MaxPool2D, FlattenPool, Accumulate, StoreScore, Argmax, Share, Percent, Report,
           ShowDigit, ShowBar, Remember, Flip, Reset, vars, rigid
  <1> QED
    BY <1>1 DEF ReferenceInv

LEMMA AccumulatorStep ==
    DataInv /\ ReferenceInv /\ AccumulatorInv /\ [Next]_vars => AccumulatorInv'
  <1> SUFFICES ASSUME DataInv, ReferenceInv, AccumulatorInv, [Next]_vars
               PROVE  AccumulatorInv'
    OBVIOUS
  <1>0. DataInv' /\ ReferenceInv'
    BY DataStep, ReferenceStep
  <1>8. CASE MaxPool2D
    <2>1. CASE UsesMac
      BY <1>8, <2>1 DEF MaxPool2D, AccumulatorInv, Scoring
    <2>2. CASE ~UsesMac
      <3>1. pc' = "fc" /\ i' = 0 /\ j' = 0 /\ sum' = net'.fc_bias[0]
        BY <1>8, <2>2 DEF MaxPool2D, StartClasses, rigid, net
      <3> QED
        BY <1>0, <3>1, StartKeeps
    <2> QED
      BY <2>1, <2>2
  <1>9. CASE FlattenPool
    <2>1. pc' = "fc" /\ i' = 0 /\ j' = 0 /\ sum' = net'.fc_bias[0]
      BY <1>9 DEF FlattenPool, StartClasses, rigid, net
    <2> QED
      BY <1>0, <2>1, StartKeeps
  <1>10. CASE Accumulate
    BY <1>10, AccumulateKeeps
  <1>11. CASE StoreScore
    BY <1>11, StoreScoreKeeps
  <1> USE DEF AccumulatorInv, Scoring, rigid, netVars, loopVars, scoreVars, boardVars
  <1>1. CASE NextTarget
    BY <1>1 DEF NextTarget
  <1>2. CASE Poll
    BY <1>2 DEF Poll
  <1>3. CASE BlankSeg7
    BY <1>3 DEF BlankSeg7
  <1>4. CASE BlankLeds
    BY <1>4 DEF BlankLeds
  <1>5. CASE ShowSwitch
    BY <1>5 DEF ShowSwitch
  <1>6. CASE Enter
    BY <1>6 DEF Enter
  <1>7. CASE Conv2D
    BY <1>7 DEF Conv2D
  <1>12. CASE Argmax
    BY <1>12 DEF Argmax
  <1>13. CASE Share
    BY <1>13 DEF Share
  <1>14. CASE Percent
    BY <1>14 DEF Percent
  <1>15. CASE Report
    BY <1>15 DEF Report, EndTurn
  <1>16. CASE ShowDigit
    BY <1>16 DEF ShowDigit
  <1>17. CASE ShowBar
    BY <1>17 DEF ShowBar
  <1>18. CASE Remember
    BY <1>18 DEF Remember, EndTurn
  <1>19. CASE Flip
    BY <1>19 DEF Flip
  <1>20. CASE Reset
    BY <1>20 DEF Reset, Start
  <1>21. CASE UNCHANGED vars
    BY <1>21 DEF vars
  <1> QED
    BY <1>1, <1>2, <1>3, <1>4, <1>5, <1>6, <1>7, <1>8, <1>9, <1>10, <1>11, <1>12, <1>13, <1>14,
       <1>15, <1>16, <1>17, <1>18, <1>19, <1>20, <1>21, Zenon DEF Next, ProgramStep

LEMMA PositivesType ==
    ASSUME NEW scores \in [Classes -> Int]
    PROVE  /\ Positives(scores) \in [0 .. CLASSES - 1 -> Int]
           /\ Classes = 0 .. CLASSES - 1 /\ CLASSES \in Nat \ {0}
  BY Constants DEF Positives, Classes

LEMMA ShareAdds ==
    ASSUME DataInv, ScoreInv, TotalInv, Share
    PROVE  TotalInv'
  <1>1. /\ pc = "share" /\ i \in Classes /\ predictions \in [Classes -> Int]
        /\ UNCHANGED <<predictions>>
        /\ pos_sum = SumOver(Positives(predictions), Classes, 0 .. i - 1)
        /\ pos_sum' = IF predictions[i] > 0 THEN pos_sum + predictions[i] ELSE pos_sum
        /\ pc' \in {"share", "percent"}
    BY DEF Share, DataInv, ClassInv, ScoreInv, Running, Scored, Scoring, netVars, TotalInv
  <1> DEFINE P == Positives(predictions)
             part(n) == SumOver(P, Classes, 0 .. n)
  <1>2. P \in [0 .. CLASSES - 1 -> Int] /\ Classes = 0 .. CLASSES - 1 /\ CLASSES \in Nat \ {0}
    BY <1>1, PositivesType
  <1>3. P[i] = IF predictions[i] > 0 THEN predictions[i] ELSE 0
    BY <1>1 DEF Positives
  <1> HIDE DEF P
  <1>4. part(i) = P[i] + part(i - 1) /\ part(i - 1) \in Int
    <2>1. SumOver(P, 0 .. CLASSES - 1, 0 .. i) = P[i] + SumOver(P, 0 .. CLASSES - 1, 0 .. i - 1)
      BY <1>1, <1>2, SumOverInterval
    <2>2. i - 1 \in -1 .. CLASSES - 1
      BY <1>1, <1>2
    <2>3. SumOver(P, 0 .. CLASSES - 1, 0 .. i - 1) \in Int
      BY <1>2, <2>2, SumOverInterval
    <2> QED
      BY <1>2, <2>1, <2>3
  <1>5. pos_sum' = part(i) /\ pos_sum = part(i - 1)
    <2>1. pos_sum = part(i - 1)
      BY <1>1 DEF P
    <2> HIDE DEF part
    <2>2. P[i] \in Int
      BY <1>1, <1>2
    <2> QED
      BY <1>1, <1>3, <1>4, <2>1, <2>2
  <1>6. CASE i + 1 < CLASSES
    <2>1. i' = i + 1 /\ pc' = "share"
      BY <1>1, <1>6 DEF Share
    <2>2. 0 .. i' - 1 = 0 .. i
      <3>1. i \in Int
        BY <1>1, <1>2
      <3>2. i' - 1 = i
        BY <2>1, <3>1
      <3> QED
        BY <3>2
    <2>3. pos_sum' = SumOver(Positives(predictions'), Classes, 0 .. i' - 1)
      BY <1>1, <1>5, <2>2 DEF P
    <2> QED
      BY <2>1, <2>3 DEF TotalInv, Scored, Scoring
  <1>7. CASE ~(i + 1 < CLASSES)
    <2>1. pc' = "percent" /\ 0 .. i = Classes
      BY <1>1, <1>2, <1>7 DEF Share
    <2>2. pos_sum' = SumOver(Positives(predictions'), Classes, Classes)
      BY <1>1, <1>5, <2>1 DEF P
    <2> QED
      BY <2>1, <2>2 DEF TotalInv
  <1> QED
    BY <1>6, <1>7

LEMMA ArgmaxTotal ==
    ASSUME DataInv, ScoreInv, TotalInv, Argmax
    PROVE  TotalInv'
  <1>1. /\ pc = "argmax" /\ predictions \in [Classes -> Int] /\ pos_sum = 0
        /\ UNCHANGED <<predictions, pos_sum>>
    BY DEF Argmax, DataInv, ClassInv, ScoreInv, Running, Scored, Scoring, netVars
  <1>2. CASE i + 1 < CLASSES
    BY <1>2 DEF Argmax, TotalInv, Scored, Scoring
  <1>3. CASE ~(i + 1 < CLASSES)
    <2>1. pc' = "share" /\ i' = 0
      BY <1>3 DEF Argmax
    <2> DEFINE P == Positives(predictions)
    <2>2. P \in [0 .. CLASSES - 1 -> Int] /\ Classes = 0 .. CLASSES - 1 /\ CLASSES \in Nat \ {0}
      BY <1>1, PositivesType
    <2> HIDE DEF P
    <2>3. SumOver(P, 0 .. CLASSES - 1, 0 .. -1) = 0
      BY <2>2, SumOverInterval
    <2>4. 0 .. i' - 1 = 0 .. -1
      BY <2>1
    <2>5. pos_sum' = SumOver(Positives(predictions'), Classes, 0 .. i' - 1)
      BY <1>1, <2>2, <2>3, <2>4 DEF P
    <2> QED
      BY <2>1, <2>5 DEF TotalInv, Scored, Scoring
  <1> QED
    BY <1>2, <1>3

LEMMA TotalStep == DataInv /\ ScoreInv /\ TotalInv /\ [Next]_vars => TotalInv'
  <1> SUFFICES ASSUME DataInv, ScoreInv, TotalInv, [Next]_vars PROVE TotalInv'
    OBVIOUS
  <1>12. CASE Argmax
    BY <1>12, ArgmaxTotal
  <1>13. CASE Share
    BY <1>13, ShareAdds
  <1> USE DEF TotalInv, Scored, Scoring, rigid, netVars, loopVars, scoreVars, boardVars
  <1>1. CASE NextTarget
    BY <1>1 DEF NextTarget
  <1>2. CASE Poll
    BY <1>2 DEF Poll
  <1>3. CASE BlankSeg7
    BY <1>3 DEF BlankSeg7
  <1>4. CASE BlankLeds
    BY <1>4 DEF BlankLeds
  <1>5. CASE ShowSwitch
    BY <1>5 DEF ShowSwitch
  <1>6. CASE Enter
    BY <1>6 DEF Enter
  <1>7. CASE Conv2D
    BY <1>7 DEF Conv2D
  <1>8. CASE MaxPool2D
    BY <1>8 DEF MaxPool2D, StartClasses
  <1>9. CASE FlattenPool
    BY <1>9 DEF FlattenPool, StartClasses
  <1>10. CASE Accumulate
    BY <1>10 DEF Accumulate
  <1>11. CASE StoreScore
    BY <1>11 DEF StoreScore
  <1>14. CASE Percent
    BY <1>14 DEF Percent
  <1>15. CASE Report
    BY <1>15 DEF Report, EndTurn
  <1>16. CASE ShowDigit
    BY <1>16 DEF ShowDigit
  <1>17. CASE ShowBar
    BY <1>17 DEF ShowBar
  <1>18. CASE Remember
    BY <1>18 DEF Remember, EndTurn
  <1>19. CASE Flip
    BY <1>19 DEF Flip
  <1>20. CASE Reset
    BY <1>20 DEF Reset, Start
  <1>21. CASE UNCHANGED vars
    BY <1>21 DEF vars
  <1> QED
    BY <1>1, <1>2, <1>3, <1>4, <1>5, <1>6, <1>7, <1>8, <1>9, <1>10, <1>11, <1>12, <1>13, <1>14,
       <1>15, <1>16, <1>17, <1>18, <1>19, <1>20, <1>21, Zenon DEF Next, ProgramStep

SumInv == IInv /\ ReferenceInv /\ AccumulatorInv /\ TotalInv

LEMMA SumInvariance == Spec => []SumInv
  <1>1. Init => SumInv
    <2> SUFFICES ASSUME Init PROVE SumInv
      OBVIOUS
    <2>1. pc \in {"blank_seg7", "main"} /\ ReferenceInv
      BY DEF Init, Start, ReferenceInv
    <2>2. AccumulatorInv /\ TotalInv
      BY <2>1 DEF AccumulatorInv, TotalInv, Scored, Scoring
    <2> QED
      BY <2>1, <2>2, DataInit, ScoreInit DEF SumInv, IInv
  <1>2. SumInv /\ [Next]_vars => SumInv'
    BY DataStep, ScoreStep, ConfidenceStep, ReferenceStep, AccumulatorStep, TotalStep
       DEF SumInv, IInv
  <1> QED
    BY <1>1, <1>2, PTL DEF Spec

\* Every program ends with the scores of the scalar one, bit for bit, for networks
\* and images of every size: packing, padding, the layout of the flattened planes
\* and the four-byte strides change nothing (run_inference).
THEOREM ScoresAlwaysBaseline == Spec => []ScoresAreBaseline
  <1>1. SumInv => ScoresAreBaseline
    BY DEF SumInv, AccumulatorInv, ScoresAreBaseline
  <1> QED
    BY <1>1, SumInvariance, PTL

-----------------------------------------------------------------------------
(* What is shown.                                                          *)

LEMMA FirstMaximumIs ==
    ASSUME NEW scores, NEW n \in Classes,
           \A m \in Classes : scores[m] \in Int /\ scores[m] <= scores[n],
           \A m \in 0 .. n - 1 : scores[m] < scores[n]
    PROVE  FirstMaximum(scores) = n
  <1> DEFINE P(k) == /\ \A m \in Classes : scores[m] <= scores[k]
                     /\ \A m \in 0 .. k - 1 : scores[m] < scores[k]
  <1>1. n \in Nat /\ CLASSES \in Nat
    BY Constants DEF Classes
  <1>2. ASSUME NEW k \in Classes, P(k) PROVE k = n
    <2>1. k \in Nat /\ scores[n] <= scores[k] /\ scores[k] <= scores[n]
      BY <1>1, <1>2 DEF Classes
    <2>2. ~(k < n)
      <3>1. SUFFICES ASSUME k < n PROVE FALSE
        OBVIOUS
      <3>2. k \in 0 .. n - 1
        BY <1>1, <2>1, <3>1
      <3> QED
        BY <1>2, <2>1, <3>2
    <2>3. ~(n < k)
      <3>1. SUFFICES ASSUME n < k PROVE FALSE
        OBVIOUS
      <3>2. n \in 0 .. k - 1
        BY <1>1, <2>1, <3>1
      <3> QED
        BY <1>2, <2>1, <3>2
    <2> QED
      BY <1>1, <2>1, <2>2, <2>3
  <1>3. P(n)
    OBVIOUS
  <1>4. FirstMaximum(scores) = CHOOSE k \in Classes : P(k)
    BY DEF FirstMaximum
  <1> HIDE DEF P
  <1> QED
    BY <1>2, <1>3, <1>4

\* After the loops, class and confidence are those of the baseline's scores.
LEMMA ReportsBaseline ==
    ASSUME SumInv, pc \in Scored
    PROVE  /\ best_class = Digit(selected)
           /\ pc # "percent" => confidence = Share100(selected)
  <1> DEFINE scores == reference[selected]
  <1>1. scores = predictions /\ predictions \in [Classes -> Int] /\ BestAmong(CLASSES)
    BY DEF SumInv, IInv, DataInv, ClassInv, ScoreInv, AccumulatorInv, Scored, Scoring, Running
  <1>2. /\ best_class \in Classes /\ max_score = predictions[best_class]
        /\ \A m \in Classes : predictions[m] \in Int /\ predictions[m] <= max_score
        /\ \A m \in 0 .. best_class - 1 : predictions[m] < max_score
    BY <1>1 DEF BestAmong, Classes
  <1>3. FirstMaximum(predictions) = best_class
    BY <1>2, FirstMaximumIs
  <1>4. best_class = Digit(selected)
    BY <1>1, <1>3 DEF Digit
  <1>5. ASSUME pc # "percent" PROVE confidence = Share100(selected)
    <2>1. /\ pos_sum = SumOver(Positives(predictions), Classes, Classes)
          /\ confidence = IF pos_sum > 0 THEN (100 * max_score) \div pos_sum ELSE 0
      BY <1>5 DEF SumInv, TotalInv
    <2>2. pos_sum = MapThenSumSet(LAMBDA k : IF predictions[k] > 0 THEN predictions[k] ELSE 0, Classes)
      BY <1>1, <2>1, TotalIsSum
    <2>3. confidence = ShareOfWinner(predictions)
      BY <1>2, <1>3, <2>1, <2>2 DEF ShareOfWinner
    <2> QED
      BY <1>1, <2>3 DEF Share100
  <1> QED
    BY <1>4, <1>5

\* The demo stores one register after the other; main is only reached with both
\* stores made.
DisplayInv ==
    program = "demo" =>
        /\ pc = "main" => DemoShows(last)
        /\ pc = "main" => console = IF last = -1 THEN <<<<"blanked">>>>
                                    ELSE <<<<"predicted", last, Digit(last), Share100(last)>>>>
        /\ pc = "blank_leds" => seg7 = BLANK
        /\ pc \in {"leds", "report"} => seg7 = Digit(selected)
        /\ pc = "report" => leds = confidence_to_leds(Share100(selected))

LEMMA DisplayStep == SumInv /\ DisplayInv /\ [Next]_vars => DisplayInv'
  <1> SUFFICES ASSUME SumInv, DisplayInv, [Next]_vars, program = "demo" PROVE DisplayInv'
    <2>1. [Next]_vars => UNCHANGED program
      BY DEF Next, ProgramStep, NextTarget, Poll, BlankSeg7, BlankLeds, ShowSwitch, Enter, Conv2D,
             MaxPool2D, FlattenPool, Accumulate, StoreScore, Argmax, Share, Percent, Report,
             ShowDigit, ShowBar, Remember, Flip, Reset, vars, rigid
    <2> QED
      BY <2>1 DEF DisplayInv
  <1>0. OnBoard /\ (pc \in Running => selected \in Selections)
    BY DEF OnBoard, SumInv, IInv, DataInv, ChoiceInv
  <1>17. CASE ShowBar
    <2>1. confidence = Share100(selected)
      BY <1>17, ReportsBaseline DEF ShowBar, Scored, Scoring
    <2> QED
      BY <1>17, <2>1 DEF ShowBar, DisplayInv, Digit, Share100, rigid
  <1>16. CASE ShowDigit
    <2>1. best_class = Digit(selected)
      BY <1>16, ReportsBaseline DEF ShowDigit, Scored, Scoring
    <2> QED
      BY <1>16, <2>1 DEF ShowDigit, DisplayInv, Digit, Share100, rigid
  <1>18. CASE Remember
    <2>1. /\ pc = "report" /\ pc' = "main" /\ last' = selected
          /\ console' = <<<<"predicted", selected, best_class, confidence>>>>
          /\ UNCHANGED <<reference, seg7, leds>>
      BY <1>0, <1>18 DEF Remember, Say, EndTurn, rigid, boardVars
    <2>2. best_class = Digit(selected) /\ confidence = Share100(selected)
      BY <2>1, ReportsBaseline DEF Scored, Scoring
    <2>3. selected # -1
      BY <1>0, <2>1 DEF Running, Scoring, Selections
    <2>4. seg7 = Digit(selected) /\ leds = confidence_to_leds(Share100(selected))
      BY <2>1 DEF DisplayInv
    <2> QED
      BY <2>1, <2>2, <2>3, <2>4 DEF DisplayInv, DemoShows, Digit, Share100
  <1>4. CASE BlankLeds
    BY <1>0, <1>4 DEF BlankLeds, DisplayInv, DemoShows, Say
  <1>15. CASE Report
    BY <1>0, <1>15 DEF Report
  <1> USE DEF DisplayInv, DemoShows, Digit, Share100, rigid, netVars, loopVars, scoreVars, boardVars
  <1>1. CASE NextTarget
    BY <1>0, <1>1 DEF NextTarget
  <1>2. CASE Poll
    BY <1>2 DEF Poll
  <1>3. CASE BlankSeg7
    BY <1>3 DEF BlankSeg7
  <1>5. CASE ShowSwitch
    BY <1>5 DEF ShowSwitch
  <1>6. CASE Enter
    BY <1>6 DEF Enter
  <1>7. CASE Conv2D
    BY <1>7 DEF Conv2D
  <1>8. CASE MaxPool2D
    BY <1>8 DEF MaxPool2D, StartClasses
  <1>9. CASE FlattenPool
    BY <1>9 DEF FlattenPool, StartClasses
  <1>10. CASE Accumulate
    BY <1>10 DEF Accumulate
  <1>11. CASE StoreScore
    BY <1>11 DEF StoreScore
  <1>12. CASE Argmax
    BY <1>12 DEF Argmax
  <1>13. CASE Share
    BY <1>13 DEF Share
  <1>14. CASE Percent
    BY <1>0, <1>14 DEF Percent
  <1>19. CASE Flip
    BY <1>19 DEF Flip
  <1>20. CASE Reset
    BY <1>20 DEF Reset, Start
  <1>21. CASE UNCHANGED vars
    BY <1>21 DEF vars
  <1> QED
    BY <1>1, <1>2, <1>3, <1>4, <1>5, <1>6, <1>7, <1>8, <1>9, <1>10, <1>11, <1>12, <1>13, <1>14,
       <1>15, <1>16, <1>17, <1>18, <1>19, <1>20, <1>21, Zenon DEF Next, ProgramStep

\* Whenever the demo looks at the switches, display, LED bar and last line belong
\* to the image it remembers, whatever the switches did and wherever a reset fell
\* (main of inference_demo.c).
THEOREM DisplayIsSelected == Spec => []DisplayShowsSelected
  <1>1. Init => DisplayInv
    <2> SUFFICES ASSUME Init, program = "demo" PROVE DisplayInv
      BY DEF DisplayInv
    <2>1. pc = "blank_seg7"
      BY DEF Init, Start
    <2> QED
      BY <2>1 DEF DisplayInv
  <1>2. DisplayInv => DisplayShowsSelected
    BY DEF DisplayInv, DisplayShowsSelected
  <1> QED
    BY <1>1, <1>2, SumInvariance, DisplayStep, PTL DEF Spec

\* The apps have reported the images below `selected', in order.
Reported(n) == [k \in 1 .. n |-> <<"predicted", k - 1, Digit(k - 1), Share100(k - 1)>>]
RightBelow(n) == {k \in 0 .. n - 1 : Digit(k) = k}
AppsInv ==
    ~OnBoard =>
        /\ pc \notin {"blank_seg7", "blank_leds", "seg7", "leds"}
        /\ correct_count = Cardinality(RightBelow(selected))
        /\ pc # "done" => console = Reported(selected)
        /\ pc = "done" => /\ selected = IMAGES
                          /\ console = Reported(selected) \o <<<<"accuracy", correct_count>>>>

LEMMA ReportedGrows ==
    ASSUME NEW n \in Nat
    PROVE  /\ Append(Reported(n), <<"predicted", n, Digit(n), Share100(n)>>) = Reported(n + 1)
           /\ \A line : Append(Reported(n), line) = Reported(n) \o <<line>>
           /\ Cardinality(RightBelow(n + 1))
              = IF Digit(n) = n THEN Cardinality(RightBelow(n)) + 1 ELSE Cardinality(RightBelow(n))
  <1> DEFINE e(k) == <<"predicted", k - 1, Digit(k - 1), Share100(k - 1)>>
             S == {e(k) : k \in 1 .. n + 1}
  <1>1. Reported(n) = [k \in 1 .. n |-> e(k)] /\ Reported(n + 1) = [k \in 1 .. n + 1 |-> e(k)]
    BY DEF Reported
  <1>2. e(n + 1) = <<"predicted", n, Digit(n), Share100(n)>>
    <2>1. n + 1 - 1 = n
      OBVIOUS
    <2> QED
      BY <2>1
  <1>3. \A k \in 1 .. n + 1 : e(k) \in S
    OBVIOUS
  <1> HIDE DEF e, S
  <1>4. Reported(n) \in Seq(S) /\ Len(Reported(n)) = n
    BY <1>1, <1>3
  <1>5. Append(Reported(n), e(n + 1)) = Reported(n + 1)
    BY <1>1, <1>3, <1>4
  <1>6. \A line : Append(Reported(n), line) = Reported(n) \o <<line>>
    <2> SUFFICES ASSUME NEW line PROVE Append(Reported(n), line) = Reported(n) \o <<line>>
      OBVIOUS
    <2>1. Reported(n) \in Seq(S \cup {line}) /\ <<line>> \in Seq(S \cup {line})
      BY <1>1, <1>3
    <2> QED
      BY <2>1
  <1>7. IsFiniteSet(RightBelow(n)) /\ n \notin RightBelow(n)
    <2>1. IsFiniteSet(0 .. n - 1)
      BY FS_Interval
    <2> QED
      BY <2>1, FS_Subset DEF RightBelow
  <1>8. CASE Digit(n) = n
    <2>1. RightBelow(n + 1) = RightBelow(n) \cup {n}
      BY <1>8 DEF RightBelow
    <2> QED
      BY <1>2, <1>5, <1>6, <1>7, <1>8, <2>1, FS_AddElement
  <1>9. CASE Digit(n) # n
    <2>1. RightBelow(n + 1) = RightBelow(n)
      BY <1>9 DEF RightBelow
    <2> QED
      BY <1>2, <1>5, <1>6, <1>9, <2>1
  <1> QED
    BY <1>8, <1>9

LEMMA AppsStep == SumInv /\ AppsInv /\ [Next]_vars => AppsInv'
  <1> SUFFICES ASSUME SumInv, AppsInv, [Next]_vars, ~OnBoard PROVE AppsInv'
    <2>1. [Next]_vars => UNCHANGED program
      BY DEF Next, ProgramStep, NextTarget, Poll, BlankSeg7, BlankLeds, ShowSwitch, Enter, Conv2D,
             MaxPool2D, FlattenPool, Accumulate, StoreScore, Argmax, Share, Percent, Report,
             ShowDigit, ShowBar, Remember, Flip, Reset, vars, rigid
    <2> QED
      BY <2>1 DEF AppsInv, OnBoard
  <1>0. /\ selected \in 0 .. IMAGES /\ IMAGES \in Nat
        /\ pc \in Running => selected \in Selections
        /\ program # "demo" /\ program # "led_test"
    BY ImagesAssumption DEF OnBoard, SumInv, IInv, DataInv, ChoiceInv
  <1>1. CASE NextTarget
    <2>1. pc = "main" /\ UNCHANGED <<selected, correct_count, reference, program>>
      BY <1>1 DEF NextTarget, rigid
    <2>2. console = Reported(selected) /\ correct_count = Cardinality(RightBelow(selected))
      BY <2>1 DEF AppsInv
    <2>3. CASE selected < IMAGES
      <3>1. pc' = "enter" /\ console' = console
        BY <1>1, <2>3 DEF NextTarget
      <3> QED
        BY <2>1, <2>2, <3>1 DEF AppsInv, Reported, RightBelow, Digit, Share100
    <2>4. CASE ~(selected < IMAGES)
      <3>1. pc' = "done" /\ console' = Append(console, <<"accuracy", correct_count>>)
        BY <1>1, <2>4 DEF NextTarget, Say
      <3>2. selected = IMAGES /\ selected \in Nat
        BY <1>0, <2>4
      <3>3. console' = Reported(selected) \o <<<<"accuracy", correct_count>>>>
        BY <2>2, <3>1, <3>2, ReportedGrows
      <3> QED
        BY <2>1, <2>2, <3>1, <3>2, <3>3 DEF AppsInv, Reported, RightBelow, Digit, Share100
    <2> QED
      BY <2>3, <2>4
  <1>15. CASE Report
    <2>1. /\ pc = "report" /\ pc' = "main" /\ selected' = selected + 1
          /\ console' = Append(console, <<"predicted", selected, best_class, confidence>>)
          /\ correct_count' = IF best_class = selected THEN correct_count + 1 ELSE correct_count
          /\ UNCHANGED <<program, reference>>
      BY <1>15 DEF Report, Say, EndTurn, rigid
    <2>2. best_class = Digit(selected) /\ confidence = Share100(selected)
      BY <2>1, ReportsBaseline DEF Scored, Scoring
    <2>3. console = Reported(selected) /\ correct_count = Cardinality(RightBelow(selected))
      BY <2>1 DEF AppsInv
    <2>4. selected \in Nat
      BY <1>0
    <2>5. /\ console' = Reported(selected + 1)
          /\ correct_count' = Cardinality(RightBelow(selected + 1))
      BY <2>1, <2>2, <2>3, <2>4, ReportedGrows
    <2> QED
      BY <2>1, <2>5 DEF AppsInv, Reported, RightBelow, Digit, Share100
  <1> USE DEF AppsInv, Reported, RightBelow, Digit, Share100, OnBoard, Say, rigid, netVars, loopVars,
          scoreVars, boardVars
  <1>2. CASE Poll
    BY <1>0, <1>2 DEF Poll
  <1>3. CASE BlankSeg7
    BY <1>3 DEF BlankSeg7
  <1>4. CASE BlankLeds
    BY <1>4 DEF BlankLeds
  <1>5. CASE ShowSwitch
    BY <1>0, <1>5 DEF ShowSwitch
  <1>6. CASE Enter
    BY <1>6 DEF Enter
  <1>7. CASE Conv2D
    BY <1>7 DEF Conv2D
  <1>8. CASE MaxPool2D
    BY <1>8 DEF MaxPool2D, StartClasses
  <1>9. CASE FlattenPool
    BY <1>9 DEF FlattenPool, StartClasses
  <1>10. CASE Accumulate
    BY <1>10 DEF Accumulate
  <1>11. CASE StoreScore
    BY <1>11 DEF StoreScore
  <1>12. CASE Argmax
    BY <1>12 DEF Argmax
  <1>13. CASE Share
    BY <1>13 DEF Share
  <1>14. CASE Percent
    BY <1>14 DEF Percent
  <1>16. CASE ShowDigit
    BY <1>16 DEF ShowDigit
  <1>17. CASE ShowBar
    BY <1>17 DEF ShowBar
  <1>18. CASE Remember
    BY <1>0, <1>18 DEF Remember
  <1>19. CASE Flip
    BY <1>0, <1>19 DEF Flip
  <1>20. CASE Reset
    BY <1>0, <1>20 DEF Reset
  <1>21. CASE UNCHANGED vars
    BY <1>21 DEF vars
  <1> QED
    BY <1>1, <1>2, <1>3, <1>4, <1>5, <1>6, <1>7, <1>8, <1>9, <1>10, <1>11, <1>12, <1>13, <1>14,
       <1>15, <1>16, <1>17, <1>18, <1>19, <1>20, <1>21, Zenon DEF Next, ProgramStep

\* The board's programs never end.
AppsEnd == pc = "done" => ~OnBoard

LEMMA EndStep == AppsEnd /\ [Next]_vars => AppsEnd'
  <1> SUFFICES ASSUME AppsEnd, [Next]_vars, pc' = "done" PROVE ~OnBoard'
    BY DEF AppsEnd
  <1>1. pc = "done" \/ NextTarget
    BY DEF Next, ProgramStep, Poll, BlankSeg7, BlankLeds, ShowSwitch, Enter, Conv2D,
           MaxPool2D, FlattenPool, StartClasses, Accumulate, StoreScore, Argmax, Share, Percent,
           Report, EndTurn, ShowDigit, ShowBar, Remember, Flip, Reset, Start, vars
  <1>2. UNCHANGED program
    BY DEF Next, ProgramStep, NextTarget, Poll, BlankSeg7, BlankLeds, ShowSwitch, Enter, Conv2D,
           MaxPool2D, FlattenPool, Accumulate, StoreScore, Argmax, Share, Percent, Report,
           ShowDigit, ShowBar, Remember, Flip, Reset, vars, rigid
  <1> QED
    BY <1>1, <1>2 DEF AppsEnd, NextTarget, OnBoard

\* The apps report each image once, in order, with the baseline's digit and share,
\* and the accuracy they print counts the images they got right (main of
\* inference_baseline.c and inference_mac4.c).
THEOREM AccuracyIsCount == Spec => []AccuracyCounted
  <1>1. Init => AppsInv
    <2> SUFFICES ASSUME Init, ~OnBoard PROVE AppsInv
      BY DEF AppsInv
    <2>1. pc = "main" /\ selected = 0 /\ console = <<>> /\ correct_count = 0
      BY DEF Init, Start, OnBoard
    <2>2. RightBelow(0) = {} /\ Reported(0) = <<>>
      BY DEF RightBelow, Reported
    <2> QED
      BY <2>1, <2>2, FS_EmptySet DEF AppsInv
  <1>2. Init => AppsEnd
    BY DEF Init, Start, AppsEnd
  <1>3. AppsInv /\ AppsEnd => AccuracyCounted
    <2> SUFFICES ASSUME AppsInv, AppsEnd, pc = "done"
                 PROVE  console = Reported(IMAGES)
                                  \o <<<<"accuracy", Cardinality(RightBelow(IMAGES))>>>>
      BY DEF AccuracyCounted, Reported, RightBelow, Selections
    <2>1. ~OnBoard
      BY DEF AppsEnd
    <2> QED
      BY <2>1 DEF AppsInv
  <1> QED
    BY <1>1, <1>2, <1>3, SumInvariance, AppsStep, EndStep, PTL DEF Spec
=============================================================================

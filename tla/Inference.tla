----------------------------- MODULE Inference -----------------------------
(***************************************************************************)
(* The integer network of neural/apps/inference_baseline.c (scalar) and    *)
(* inference_mac4.c, fpga/quartus/inference/inference_demo.c (the MAC4     *)
(* co-processor): 3x3 convolution, ReLU, requantization, 2x2 max pooling,  *)
(* and a fully connected layer.                                            *)
(*                                                                         *)
(* An array of the program is a function on 0 .. length - 1.  An image has *)
(* one element more than its pixels: the byte of memory that follows it,   *)
(* which the four-byte loads of the last row reach.                        *)
(***************************************************************************)
EXTENDS Integers, FiniteSetsExt

CONSTANTS
    POOL,      \* side of a pooled plane (13)
    FILTERS,   \* convolution filters (4)
    CLASSES,   \* digits told apart (10)
    M1_NUM,    \* requantization multiplier (169)
    M1_SHIFT   \* requantization shift (15)

CONV == 2 * POOL              \* side of a convolved plane (26)
IMG  == CONV + 2              \* side of an image (28)
AREA == POOL * POOL           \* elements of a pooled plane (169)
FLAT == FILTERS * AREA        \* inputs of the fully connected layer (676)

ASSUME PoolAssumption    == POOL \in Nat \ {0}
ASSUME FilterAssumption  == FILTERS \in Nat \ {0}
ASSUME ClassAssumption   == CLASSES \in Nat \ {0}
ASSUME QuadAssumption    == FLAT % 4 = 0     \* no remainder loop
ASSUME RequantAssumption == M1_NUM \in Nat \ {0} /\ M1_SHIFT \in Nat

Int8    == -128 .. 127
INT_MAX == 2147483647
Filters == 0 .. FILTERS - 1
Classes == 0 .. CLASSES - 1
Taps    == 0 .. 8             \* of a 3x3 kernel, row by row

Images   == [0 .. IMG * IMG -> Int8]
Networks == [conv1_weights : [0 .. 9 * FILTERS - 1 -> Int8],
             conv1_bias    : [Filters -> Int],
             fc_weights    : [0 .. CLASSES * FLAT - 1 -> Int8],
             fc_bias       : [Classes -> Int]]

-----------------------------------------------------------------------------
(* The co-processor instruction, as the program uses it.                   *)

MutUByte(v) == v % 65536
UByte(v) == v % 256                               \* (uint8_t)
Lane(b)  == IF b > 127 THEN b - 256 ELSE b        \* a signed byte lane

pack4(p, at) == [k \in 0 .. 3 |-> UByte(p[at + k])]

MAC4(rs1, rs2) ==
    Lane(rs1[0]) * Lane(rs2[0]) + Lane(rs1[1]) * Lane(rs2[1])
    + Lane(rs1[2]) * Lane(rs2[2]) + Lane(rs1[3]) * Lane(rs2[3])

-----------------------------------------------------------------------------
(* Convolution: the accumulator of one output pixel.                       *)

\* A kernel row of conv1_w_pad: three weights and a zero.
MutPaddedRow(net, c, ky) ==
    [k \in 0 .. 3 |-> net.conv1_weights[(c * 9 + ky * 3 + k) % (9 * FILTERS)]]
PaddedRow(net, c, ky) ==
    [k \in 0 .. 3 |-> IF k < 3 THEN net.conv1_weights[c * 9 + ky * 3 + k] ELSE 0]

MacRow(net, img, c, y, x, ky) ==
    MAC4(pack4(img, (y + ky) * IMG + x), pack4(PaddedRow(net, c, ky), 0))

MacSum(net, img, c, y, x) ==
    net.conv1_bias[c] + MacRow(net, img, c, y, x, 0)
    + MacRow(net, img, c, y, x, 1) + MacRow(net, img, c, y, x, 2)

Tap(net, img, c, y, x, ky, kx) ==
    img[(y + ky) * IMG + (x + kx)] * net.conv1_weights[c * 9 + ky * 3 + kx]

ScalarRow(net, img, c, y, x, ky) ==
    Tap(net, img, c, y, x, ky, 0) + Tap(net, img, c, y, x, ky, 1)
    + Tap(net, img, c, y, x, ky, 2)

ScalarSum(net, img, c, y, x) ==
    net.conv1_bias[c] + ScalarRow(net, img, c, y, x, 0)
    + ScalarRow(net, img, c, y, x, 1) + ScalarRow(net, img, c, y, x, 2)

\* ReLU, then the fixed-point scaling and the clamp to int8.
Requantize(sum) ==
    LET relu   == IF sum < 0 THEN 0 ELSE sum
        scaled == (relu * M1_NUM) \div 2 ^ M1_SHIFT
    IN  IF scaled > 127 THEN 127 ELSE scaled

Plane(side) == (0 .. side - 1) \X (0 .. side - 1)

-----------------------------------------------------------------------------
(* Pooling and flattening.                                                 *)

Pooled(conv_out, c, y, x) ==
    Max({-128} \cup {conv_out[c][<<y * 2 + py, x * 2 + px>>] : py \in 0 .. 1, px \in 0 .. 1})

\* Element j of the channel-major layout fc_weights is stored in.
Flattened(pool_out, j) ==
    LET rem == j % AREA IN pool_out[j \div AREA][<<rem \div POOL, rem % POOL>>]

-----------------------------------------------------------------------------
(* The fully connected layer.                                              *)

\* What the scalar program's accumulator of class i ends with.
ScalarScore(net, pool_out, i) ==
    net.fc_bias[i]
    + MapThenSumSet(LAMBDA j : Flattened(pool_out, j) * net.fc_weights[i * FLAT + j],
                    0 .. FLAT - 1)

=============================================================================

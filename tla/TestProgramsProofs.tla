------------------------- MODULE TestProgramsProofs -------------------------
(***************************************************************************)
(* Proofs about the two parts of TestPrograms that need no bitwise         *)
(* operators: multiplier and divider of PcpiArith give the results of the  *)
(* M extension, for words of any width, chains of any length and any       *)
(* number of steps in a cycle; strcpy, strcmp, memcpy and memset of        *)
(* CLibrary do what C promises, for bytes of any width and memories of any *)
(* size; print_signed prints every number of 32 bits that C can negate.    *)
(***************************************************************************)
EXTENDS PcpiArith, CLibrary, FoldTheorems

-----------------------------------------------------------------------------
(* The invariant.                                                          *)

Registers == [rd : Double, rdx : Double, rs1 : Double, rs2 : Double]
Accumulator == [rd |-> rd, rdx |-> rdx, rs1 |-> rs1, rs2 |-> rs2]

Types ==
    /\ instr \in MulInsns \cup DivInsns /\ pcpi_rs1 \in Word /\ pcpi_rs2 \in Word
    /\ started \in BOOLEAN /\ mul_waiting \in BOOLEAN /\ mul_finish \in BOOLEAN
    /\ mul_counter \in Int /\ rd \in Double /\ rdx \in Double /\ rs1 \in Double /\ rs2 \in Double
    /\ running \in BOOLEAN /\ outsign \in BOOLEAN
    /\ dividend \in Nat /\ divisor \in Nat /\ quotient \in Nat /\ quotient_msk \in Nat
    /\ pcpi_ready \in BOOLEAN

\* One unit works at a time, on an instruction it knows.
Phase ==
    /\ ~started => mul_waiting /\ ~mul_finish /\ ~running /\ ~pcpi_ready
    /\ ~mul_waiting => instr \in MulInsns /\ ~mul_finish
    /\ mul_finish => instr \in MulInsns
    /\ running => instr \in DivInsns
    /\ pcpi_ready => Idle

\* A chain never holds more than one carry, at its lowest bit.
Sparse(x) == \A j \in Chains : Bits(x, j) \in {0, 1}
\* After k steps the shifted operand and the carries have moved up k bits.
Cleared(c, k) == \A e \in 0 .. 2*W : e <= k => c.rs2 % 2^e = 0 /\ c.rdx % 2^e = 0
Total(c) == (c.rd + c.rdx + c.rs1 * c.rs2) % 2^(2*W)

Bottom == IF instr_any_mulh THEN 2*W ELSE W
StepsDone == Bottom - 1 - STEPS_AT_ONCE - mul_counter

MulInv ==
    /\ Sparse(rdx)
    /\ ~mul_waiting => StepsDone \in Nat /\ Cleared(Accumulator, StepsDone)
    /\ mul_finish => Cleared(Accumulator, Bottom)
    /\ ~mul_waiting \/ mul_finish => Total(Accumulator) = Product % 2^(2*W)

\* p bits of the quotient are still to come.
BitsLeft(p) ==
    LET A == Magnitude(pcpi_rs1)
        B == Magnitude(pcpi_rs2)
    IN  /\ quotient_msk = IF p = 0 THEN 0 ELSE 2^(p - 1)
        /\ p # 0 => divisor = B * 2^(p - 1)
        /\ dividend + quotient * B = A
        /\ IF B = 0 THEN quotient = 2^W - 2^p ELSE dividend < 2^p * B
SignOfResult ==
    \/ instr = "div" /\ Negative(pcpi_rs1) # Negative(pcpi_rs2) /\ pcpi_rs2 # 0
    \/ instr = "rem" /\ Negative(pcpi_rs1)
DivInv == running => outsign = SignOfResult /\ \E p \in 0 .. W : BitsLeft(p)

AnswerInv == pcpi_ready => IsResult(pcpi_rd)

IInv == Types /\ Phase /\ MulInv /\ DivInv /\ AnswerInv

-----------------------------------------------------------------------------
(* Chains of bits.                                                         *)

Count == (2*W) \div Chain

LEMMA Widths ==
    /\ W \in Nat \ {0, 1} /\ 2*W \in Nat \ {0} /\ W - 1 \in Nat \ {0} /\ W <= 2*W
    /\ STEPS_AT_ONCE \in Nat \ {0}
    /\ Chain \in Nat \ {0} /\ Count \in Nat \ {0} /\ 2*W = Chain * Count
  <1>1. W \in Nat \ {0, 1} /\ STEPS_AT_ONCE \in Nat \ {0} /\ CARRY_CHAIN \in Nat
    BY WidthAssumption
  <1>2. 2*W \in Nat \ {0} /\ W - 1 \in Nat \ {0} /\ W <= 2*W
    BY <1>1
  <1>3. Chain \in Nat \ {0} /\ (2*W) % Chain = 0
    <2>1. CASE CARRY_CHAIN = 0
      <3>1. Chain = 1
        BY <2>1 DEF Chain
      <3>2. \A x \in Nat : x % 1 = 0
        OBVIOUS
      <3> QED
        BY <1>2, <3>1, <3>2
    <2>2. CASE CARRY_CHAIN # 0
      BY <1>1, <2>2, WidthAssumption DEF Chain
    <2> QED
      BY <2>1, <2>2
  <1>4. Count \in Int /\ 2*W = Chain * Count + ((2*W) % Chain)
    <2> DEFINE n == 2*W
    <2>1. n \in Int
      BY <1>2
    <2> HIDE DEF n
    <2>2. n \div Chain \in Int /\ n = Chain * (n \div Chain) + (n % Chain)
      BY <1>3, <2>1, DivMod
    <2> QED
      BY <2>2 DEF n, Count
  <1>5. 2*W = Chain * Count
    BY <1>2, <1>3, <1>4
  <1>6. Count > 0
    <2>1. SUFFICES ASSUME Count <= 0 PROVE FALSE
      BY <1>4
    <2>2. Chain * Count <= 0
      BY <1>3, <1>4, <2>1
    <2> QED
      BY <1>2, <1>5, <2>2
  <1> QED
    BY <1>1, <1>2, <1>3, <1>4, <1>5, <1>6

LEMMA ChainPlaces ==
    /\ \A i \in 0 .. Count - 1 : /\ Chain * i \in Chains /\ Chain * i \in Nat
                                 /\ Chain * (i + 1) = Chain * i + Chain
                                 /\ Chain * i + Chain <= 2*W
    /\ \A j \in Chains : j \in Nat /\ \E i \in 0 .. Count - 1 : j = Chain * i
  <1>1. ASSUME NEW i \in 0 .. Count - 1
        PROVE  /\ Chain * i \in Chains /\ Chain * i \in Nat
               /\ Chain * (i + 1) = Chain * i + Chain /\ Chain * i + Chain <= 2*W
    <2>1. i \in Nat /\ Count \in Nat /\ Chain \in Nat \ {0} /\ i + 1 <= Count
      BY Widths
    <2>2. Chain * i \in Nat /\ Chain * (i + 1) = Chain * i + Chain
      BY <2>1
    <2>3. Chain * (i + 1) <= Chain * Count
      <3>1. Chain * Count = Chain * (i + 1) + Chain * (Count - (i + 1))
        BY <2>1
      <3>2. Chain * (Count - (i + 1)) >= 0 /\ Chain * (Count - (i + 1)) \in Int
        BY <2>1
      <3> QED
        BY <2>1, <2>2, <3>1, <3>2
    <2>4. (Chain * i) % Chain = 0
      <3>1. Chain * i = Chain * i + 0 /\ 0 \in 0 .. Chain - 1
        BY <2>1, <2>2
      <3> QED
        BY <2>1, <2>2, <3>1, DivModIs
    <2>5. Chain * i + Chain <= 2*W
      BY <2>2, <2>3, Widths
    <2> QED
      BY <2>1, <2>2, <2>4, <2>5, Widths DEF Chains
  <1>2. ASSUME NEW j \in Chains PROVE j \in Nat /\ \E i \in 0 .. Count - 1 : j = Chain * i
    <2>1. j \in Nat /\ j < 2*W /\ j % Chain = 0
      BY Widths DEF Chains
    <2> DEFINE i == j \div Chain
    <2>2. i \in Int /\ j = Chain * i + (j % Chain)
      BY <2>1, Widths, DivMod
    <2> HIDE DEF i
    <2>3. j = Chain * i
      BY <2>1, <2>2, Widths
    <2>4. i >= 0
      <3>1. SUFFICES ASSUME i <= -1 PROVE FALSE
        BY <2>2
      <3>2. Chain * i <= -Chain
        BY <2>2, <3>1, Widths
      <3> QED
        BY <2>1, <2>3, <3>2, Widths
    <2>5. i < Count
      <3>1. SUFFICES ASSUME i >= Count PROVE FALSE
        BY <2>2, Widths
      <3>2. Chain * i = Chain * Count + Chain * (i - Count) /\ Chain * (i - Count) >= 0
        BY <2>2, <3>1, Widths
      <3>3. Chain * Count \in Nat /\ Chain * (i - Count) \in Int
        BY <2>2, Widths
      <3> QED
        BY <2>1, <2>3, <3>2, <3>3, Widths
    <2> QED
      BY <2>1, <2>2, <2>3, <2>4, <2>5, Widths
  <1> QED
    BY <1>1, <1>2

\* The chains below the i-th one, and sums over them.
Below(i) == {j \in Chains : j < Chain * i}
SumBelow(F, i) == SumOver(F, Chains, Below(i))

LEMMA ChainSums ==
    ASSUME NEW F \in [Chains -> Int]
    PROVE  /\ SumBelow(F, 0) = 0
           /\ \A i \in 0 .. Count - 1 : SumBelow(F, i + 1) = F[Chain * i] + SumBelow(F, i)
           /\ \A i \in 0 .. Count : SumBelow(F, i) \in Int
           /\ SumBelow(F, Count) = SumOver(F, Chains, Chains)
  <1>1. IsFiniteSet(Chains)
    <2>1. IsFiniteSet(0 .. 2*W - 1) /\ Chains \in SUBSET (0 .. 2*W - 1)
      BY Widths, FS_Interval DEF Chains
    <2> QED
      BY <2>1, FS_Subset
  <1>2. PICK g \in [SUBSET Chains -> Int] :
            SumsUp(F, Chains, g) /\ AnyFirst(F, Chains, g) /\ \A T : SumOver(F, Chains, T) = g[T]
    BY <1>1, SumOverIs
  <1>3. SumBelow(F, 0) = 0
    <2>1. Below(0) = {} /\ {} \in SUBSET Chains
      BY ChainPlaces, Widths DEF Below
    <2> QED
      BY <1>2, <2>1 DEF SumBelow, SumsUp
  <1>4. ASSUME NEW i \in 0 .. Count - 1 PROVE SumBelow(F, i + 1) = F[Chain * i] + SumBelow(F, i)
    <2> DEFINE j == Chain * i
    <2>1. j \in Chains /\ j \in Nat /\ Chain * (i + 1) = j + Chain
      BY ChainPlaces
    <2>2. j \in Below(i + 1)
      BY <2>1, Widths DEF Below
    <2>3. Below(i + 1) \ {j} = Below(i)
      <3>1. ASSUME NEW k \in Chains, k < j + Chain, k # j PROVE k < j
        <4>1. PICK n \in 0 .. Count - 1 : k = Chain * n
          BY ChainPlaces
        <4>2. n <= i
          <5>1. SUFFICES ASSUME n >= i + 1 PROVE FALSE
            BY Widths
          <5>2. Chain * n = Chain * (i + 1) + Chain * (n - (i + 1))
            BY Widths
          <5>3. Chain * (n - (i + 1)) >= 0 /\ Chain * (n - (i + 1)) \in Int
            BY <5>1, Widths
          <5> HIDE DEF j
          <5> QED
            BY <2>1, <3>1, <4>1, <5>2, <5>3, Widths
        <4>3. n # i
          BY <3>1, <4>1
        <4>4. Chain * i = Chain * n + Chain * (i - n) /\ Chain * (i - n) > 0
          BY <4>2, <4>3, Widths
        <4>5. Chain * n \in Int /\ Chain * (i - n) \in Int
          BY Widths
        <4> QED
          BY <4>1, <4>4, <4>5
      <3>2. ASSUME NEW k \in Chains, k < j PROVE k < j + Chain /\ k # j
        BY <2>1, <3>2, ChainPlaces, Widths
      <3> HIDE DEF j
      <3>3. Below(i) = {k \in Chains : k < j} /\ Below(i + 1) = {k \in Chains : k < j + Chain}
        BY <2>1 DEF Below, j
      <3> QED
        BY <3>1, <3>2, <3>3
    <2>4. Below(i + 1) \in SUBSET Chains
      BY DEF Below
    <2> HIDE DEF j
    <2>5. g[Below(i + 1)] = F[j] + g[Below(i)]
      BY <1>2, <2>2, <2>3, <2>4 DEF AnyFirst
    <2> QED
      BY <1>2, <2>5, Zenon DEF SumBelow, j
  <1>5. ASSUME NEW i \in 0 .. Count PROVE SumBelow(F, i) \in Int
    <2>1. Below(i) \in SUBSET Chains
      BY DEF Below
    <2>2. g[Below(i)] \in Int
      BY <1>2, <2>1
    <2> QED
      BY <1>2, <2>2, Zenon DEF SumBelow
  <1>6. Below(Count) = Chains
    BY Widths DEF Below, Chains
  <1> QED
    BY <1>3, <1>4, <1>5, <1>6 DEF SumBelow

-----------------------------------------------------------------------------
(* The bits of a chain.                                                    *)

LEMMA ChainBits ==
    ASSUME NEW x \in Int, NEW j \in Nat
    PROVE  /\ Bits(x, j) \in 0 .. 2^Chain - 1
           /\ x % 2^(j + Chain) = (x % 2^j) + Bits(x, j) * 2^j
           /\ \A e \in Nat : \A k \in Int : j + Chain <= e => Bits(x + 2^e * k, j) = Bits(x, j)
           /\ \A e \in Nat : j + Chain <= e /\ x % 2^e = 0 => Bits(x, j) = 0
  <1> DEFINE b == 2^j
             c == 2^Chain
  <1>1. b \in Nat \ {0} /\ c \in Nat \ {0} /\ 2^(j + Chain) = b * c
    BY Powers, Widths
  <1>2. \A y : Bits(y, j) = (y \div b) % c
    BY DEF Bits
  <1>3. \A e \in Nat : j + Chain <= e => \E d \in Nat \ {0} : 2^e = (b * c) * d
    <2>1. j + Chain \in Nat
      BY Widths
    <2>2. ASSUME NEW e \in Nat, j + Chain <= e PROVE \E d \in Nat \ {0} : 2^e = 2^(j + Chain) * d
      BY <2>1, <2>2, Powers
    <2> HIDE DEF b, c
    <2> QED
      BY <1>1, <2>2
  <1> HIDE DEF b, c
  <1>4. ASSUME NEW y \in Int PROVE y \div b \in Int /\ (y \div b) % c \in 0 .. c - 1
    BY <1>1, DivMod
  <1>5. x % (b * c) = (x % b) + ((x \div b) % c) * b
    BY <1>1, ModSplit
  <1>6. ASSUME NEW y \in Int, NEW e \in Nat, NEW k \in Int, j + Chain <= e
        PROVE  Bits(y + 2^e * k, j) = Bits(y, j)
    <2>1. PICK d \in Nat \ {0} : 2^e = (b * c) * d
      BY <1>3, <1>6
    <2>2. 2^e * k = b * (c * (d * k)) /\ c * (d * k) \in Int /\ d * k \in Int
      <3>1. \A p, q, r, s \in Int : ((p * q) * r) * s = p * (q * (r * s))
        OBVIOUS
      <3>2. b \in Int /\ c \in Int /\ d \in Int
        BY <1>1
      <3> QED
        BY <2>1, <3>1, <3>2
    <2> DEFINE n == c * (d * k)
               m == d * k
    <2>3. (y + b * n) \div b = (y \div b) + n
      <3> HIDE DEF n
      <3>1. n \in Int
        BY <2>2 DEF n
      <3> QED
        BY <1>1, <3>1, DivModAdds
    <2>4. ((y \div b) + c * m) % c = (y \div b) % c
      <3> HIDE DEF m
      <3>1. m \in Int
        BY <2>2 DEF m
      <3> QED
        BY <1>1, <1>4, <3>1, DivModAdds
    <2> QED
      BY <1>2, <2>2, <2>3, <2>4
  <1>7. ASSUME NEW e \in Nat, j + Chain <= e, x % 2^e = 0 PROVE Bits(x, j) = 0
    <2>1. 2^e \in Nat \ {0}
      BY Powers
    <2>2. x \div 2^e \in Int /\ x = 2^e * (x \div 2^e) + (x % 2^e)
      BY <2>1, DivMod
    <2> DEFINE k == x \div 2^e
    <2>3. k \in Int /\ x = 0 + 2^e * k
      BY <1>7, <2>1, <2>2
    <2> HIDE DEF k
    <2>4. Bits(x, j) = Bits(0, j)
      BY <1>6, <1>7, <2>3
    <2>5. 0 \div b = 0
      <3>1. 0 = b * 0 + 0 /\ 0 \in 0 .. b - 1
        BY <1>1
      <3> QED
        BY <1>1, <3>1, DivModIs
    <2>6. 0 % c = 0
      <3>1. 0 = c * 0 + 0 /\ 0 \in 0 .. c - 1
        BY <1>1
      <3> QED
        BY <1>1, <3>1, DivModIs
    <2> QED
      BY <1>2, <2>4, <2>5, <2>6
  <1>8. Bits(x, j) \in 0 .. 2^Chain - 1
    BY <1>2, <1>4 DEF c
  <1>9. x % 2^(j + Chain) = (x % 2^j) + Bits(x, j) * 2^j
    BY <1>1, <1>2, <1>5 DEF b
  <1> QED
    BY <1>6, <1>7, <1>8, <1>9

-----------------------------------------------------------------------------
(* One step of the multiplier.                                             *)

Addend(c) == IF c.rs1 % 2 = 1 THEN c.rs2 ELSE 0
ChainSum(c, j) == Bits(c.rd, j) + Bits(c.rdx, j) + Bits(Addend(c), j)
ChainRest(c, j)  == ChainSum(c, j) % 2^Chain
ChainCarry(c, j) == (ChainSum(c, j) \div 2^Chain) % 2
Lows(c)    == [j \in Chains |-> ChainRest(c, j) * 2^j]
Carries(c) == [j \in Chains |-> ChainCarry(c, j) * 2^(j + Chain)]

LEMMA RegisterTypes ==
    ASSUME NEW c \in Registers
    PROVE  /\ c.rd \in Nat /\ c.rdx \in Nat /\ c.rs1 \in Nat /\ c.rs2 \in Nat /\ Addend(c) \in Nat
           /\ c.rd < 2^(2*W) /\ c.rdx < 2^(2*W) /\ c.rs2 < 2^(2*W) /\ Addend(c) < 2^(2*W)
           /\ 2^(2*W) \in Nat \ {0} /\ 2^Chain \in Nat \ {0}
           /\ c.rs1 \div 2 \in Nat /\ c.rs1 \div 2 <= c.rs1
           /\ c.rs1 = 2 * (c.rs1 \div 2) + (c.rs1 % 2) /\ c.rs1 % 2 \in {0, 1}
  <1>1. 2^(2*W) \in Nat \ {0} /\ 2^Chain \in Nat \ {0}
    BY Powers, Widths
  <1>2. c.rd \in Double /\ c.rdx \in Double /\ c.rs1 \in Double /\ c.rs2 \in Double
    BY DEF Registers
  <1>3. /\ c.rd \in Nat /\ c.rdx \in Nat /\ c.rs1 \in Nat /\ c.rs2 \in Nat
        /\ c.rd < 2^(2*W) /\ c.rdx < 2^(2*W) /\ c.rs2 < 2^(2*W)
    BY <1>1, <1>2 DEF Double
  <1>4. Addend(c) \in Nat /\ Addend(c) < 2^(2*W)
    BY <1>1, <1>3 DEF Addend
  <1>5. \A x \in Nat : x \div 2 \in Nat /\ x \div 2 <= x /\ x = 2 * (x \div 2) + (x % 2) /\ x % 2 \in {0, 1}
    OBVIOUS
  <1> QED
    BY <1>1, <1>3, <1>4, <1>5

LEMMA SumTypes ==
    ASSUME NEW c \in Registers
    PROVE  Lows(c) \in [Chains -> Int] /\ Carries(c) \in [Chains -> Int]
  <1>1. ASSUME NEW j \in Chains
        PROVE  /\ (ChainSum(c, j) % 2^Chain) * 2^j \in Int
               /\ ((ChainSum(c, j) \div 2^Chain) % 2) * 2^(j + Chain) \in Int
    <2>1. j \in Nat /\ j + Chain \in Nat /\ 2^j \in Int /\ 2^(j + Chain) \in Int
      BY ChainPlaces, Powers, Widths
    <2>2. ChainSum(c, j) \in Int
      <3>1. c.rd \in Int /\ c.rdx \in Int /\ Addend(c) \in Int
        BY RegisterTypes
      <3>2. \A x \in Int : Bits(x, j) \in 0 .. 2^Chain - 1
        BY <2>1, ChainBits
      <3>3. \A x \in Int : Bits(x, j) \in Int
        BY <3>2, RegisterTypes
      <3> QED
        BY <3>1, <3>3 DEF ChainSum
    <2>3. \A x \in Int : x % 2^Chain \in Int /\ x \div 2^Chain \in Int
      <3> DEFINE n == 2^Chain
      <3>1. n \in Nat \ {0}
        BY RegisterTypes
      <3> HIDE DEF n
      <3>2. \A x \in Int : x % n \in Int /\ x \div n \in Int
        BY <3>1, DivMod
      <3> QED
        BY <3>2 DEF n
    <2>4. \A x \in Int : x % 2 \in Int
      OBVIOUS
    <2> QED
      BY <2>1, <2>2, <2>3, <2>4
  <1> QED
    BY <1>1 DEF Lows, Carries, ChainRest, ChainCarry

LEMMA StepIs ==
    ASSUME NEW c \in Registers
    PROVE  MulStep(c) = [rd  |-> SumOver(Lows(c), Chains, Chains),
                         rdx |-> SumOver(Carries(c), Chains, Chains) % 2^(2*W),
                         rs1 |-> c.rs1 \div 2, rs2 |-> (c.rs2 * 2) % 2^(2*W)]
  <1> DEFINE S == Chains
             low(j) == ChainRest(c, j) * 2^j
             carry(j) == ChainCarry(c, j) * 2^(j + Chain)
             lowBody(g) == [s \in SUBSET S |-> IF s = {} THEN 0
                                               ELSE low(CHOOSE x \in s : TRUE)
                                                    + g[s \ {CHOOSE x \in s : TRUE}]]
             carryBody(g) == [s \in SUBSET S |-> IF s = {} THEN 0
                                                 ELSE carry(CHOOSE x \in s : TRUE)
                                                      + g[s \ {CHOOSE x \in s : TRUE}]]
             lowIter == CHOOSE g : g = lowBody(g)
             carryIter == CHOOSE g : g = carryBody(g)
  <1>1. IsFiniteSet(S)
    <2>1. IsFiniteSet(0 .. 2*W - 1) /\ Chains \in SUBSET (0 .. 2*W - 1)
      BY Widths, FS_Interval DEF Chains
    <2> QED
      BY <2>1, FS_Subset
  <1>2. \A s \in SUBSET S : s # {} => /\ Lows(c)[Chosen(s)] = low(CHOOSE x \in s : TRUE)
                                      /\ Carries(c)[Chosen(s)] = carry(CHOOSE x \in s : TRUE)
    BY ChosenIn DEF Chosen, Lows, Carries
  <1>3. \A g : SumsUp(Lows(c), S, g) <=> \A s \in SUBSET S : g[s] = lowBody(g)[s]
    <2> HIDE DEF low, carry
    <2> QED
      BY <1>2 DEF SumsUp, Chosen
  <1>4. \A g : SumsUp(Carries(c), S, g) <=> \A s \in SUBSET S : g[s] = carryBody(g)[s]
    <2> HIDE DEF low, carry
    <2> QED
      BY <1>2 DEF SumsUp, Chosen
  <1>5. lowIter[S] = SumOver(Lows(c), S, S)
    <2>1. PICK g \in [SUBSET S -> Int] : SumsUp(Lows(c), S, g)
      BY <1>1, SumTypes, SumsExist
    <2>2. g = lowBody(g)
      <3> HIDE DEF low
      <3> QED
        BY <1>3, <2>1
    <2>3. lowIter = lowBody(lowIter)
      BY <2>2
    <2>4. SumsUp(Lows(c), S, lowIter)
      <3> HIDE DEF low
      <3> QED
        BY <1>3, <2>3
    <2> HIDE DEF lowIter
    <2> QED
      BY <1>1, <2>4, SumTypes, FoldIsSum
  <1>6. carryIter[S] = SumOver(Carries(c), S, S)
    <2>1. PICK g \in [SUBSET S -> Int] : SumsUp(Carries(c), S, g)
      BY <1>1, SumTypes, SumsExist
    <2>2. g = carryBody(g)
      <3> HIDE DEF carry
      <3> QED
        BY <1>4, <2>1
    <2>3. carryIter = carryBody(carryIter)
      BY <2>2
    <2>4. SumsUp(Carries(c), S, carryIter)
      <3> HIDE DEF carry
      <3> QED
        BY <1>4, <2>3
    <2> HIDE DEF carryIter
    <2> QED
      BY <1>1, <2>4, SumTypes, FoldIsSum
  <1>7. MulStep(c) = [rd  |-> lowIter[S], rdx |-> carryIter[S] % 2^(2*W),
                      rs1 |-> c.rs1 \div 2, rs2 |-> (c.rs2 * 2) % 2^(2*W)]
    BY Zenon DEF MulStep, MapThenSumSet, MapThenFoldSet, ChainRest, ChainCarry, ChainSum, Addend
  <1> QED
    BY <1>5, <1>6, <1>7

\* What enters a chain is what stays in it and what leaves it: one carry at most,
\* and none from a chain that only holds bits of the sum.
LEMMA CarryOut ==
    ASSUME NEW c \in Registers, Sparse(c.rdx), NEW j \in Chains
    PROVE  /\ ChainCarry(c, j) \in {0, 1} /\ ChainRest(c, j) \in 0 .. 2^Chain - 1
           /\ ChainSum(c, j) = ChainRest(c, j) + 2^Chain * ChainCarry(c, j)
           /\ \A e \in Nat : j + Chain <= e /\ c.rdx % 2^e = 0 /\ Addend(c) % 2^e = 0 => ChainCarry(c, j) = 0
  <1> DEFINE n == 2^Chain
             a == Bits(c.rd, j)
             b == Bits(c.rdx, j)
             t == Bits(Addend(c), j)
             s == ChainSum(c, j)
             q == s \div n
  <1>1. n \in Nat \ {0} /\ c.rd \in Int /\ c.rdx \in Int /\ Addend(c) \in Int /\ j \in Nat
    BY RegisterTypes, ChainPlaces
  <1>2. a \in 0 .. n - 1 /\ t \in 0 .. n - 1 /\ b \in {0, 1}
    <2>1. \A x \in Int : Bits(x, j) \in 0 .. 2^Chain - 1
      BY <1>1, ChainBits
    <2> QED
      BY <1>1, <2>1 DEF Sparse
  <1>3. ASSUME NEW e \in Nat, j + Chain <= e, c.rdx % 2^e = 0, Addend(c) % 2^e = 0 PROVE b = 0 /\ t = 0
    <2>1. \A x \in Int : x % 2^e = 0 => Bits(x, j) = 0
      BY <1>1, <1>3, ChainBits
    <2> QED
      BY <1>1, <1>3, <2>1
  <1>4. s = a + b + t
    BY DEF ChainSum
  <1> HIDE DEF n, a, b, t, s
  <1>5. s \in Nat /\ s < 2 * n /\ (b = 0 /\ t = 0 => s < n)
    BY <1>1, <1>2, <1>4
  <1>6. q \in Int /\ s % n \in 0 .. n - 1 /\ s = n * q + (s % n)
    BY <1>1, <1>5, DivMod
  <1> DEFINE r == s % n
  <1>7. r \in 0 .. n - 1 /\ s = n * q + r
    BY <1>6
  <1> HIDE DEF q, r
  <1>8. q >= 0
    <2>1. SUFFICES ASSUME q <= -1 PROVE FALSE
      BY <1>6
    <2>2. n * q <= -n
      BY <1>1, <1>6, <2>1
    <2>3. n * q \in Int
      BY <1>1, <1>6
    <2> QED
      BY <1>1, <1>5, <1>7, <2>2, <2>3
  <1>9. q <= 1
    <2>1. SUFFICES ASSUME q >= 2 PROVE FALSE
      BY <1>6
    <2>2. n * q >= 2 * n
      BY <1>1, <1>6, <2>1
    <2>3. n * q \in Int
      BY <1>1, <1>6
    <2> QED
      BY <1>1, <1>5, <1>7, <2>2, <2>3
  <1>10. s < n => q = 0
    <2>1. SUFFICES ASSUME s < n, q = 1 PROVE FALSE
      BY <1>6, <1>8, <1>9
    <2> QED
      BY <1>1, <1>7, <2>1
  <1>11. q \in {0, 1} /\ q % 2 = q
    BY <1>6, <1>8, <1>9
  <1>12. ChainCarry(c, j) = q /\ ChainRest(c, j) = r
    BY <1>11 DEF ChainCarry, ChainRest, q, r, s, n
  <1>13. ChainSum(c, j) = ChainRest(c, j) + 2^Chain * ChainCarry(c, j)
    <2>1. n * q \in Int
      BY <1>1, <1>6
    <2>2. s = r + n * q
      BY <1>7, <2>1
    <2> QED
      BY <1>12, <2>2 DEF n, s
  <1>14. ChainRest(c, j) \in 0 .. 2^Chain - 1
    BY <1>7, <1>12 DEF n
  <1>15. ASSUME NEW e \in Nat, j + Chain <= e, c.rdx % 2^e = 0, Addend(c) % 2^e = 0 PROVE ChainCarry(c, j) = 0
    BY <1>3, <1>5, <1>10, <1>12, <1>15
  <1> QED
    BY <1>11, <1>12, <1>13, <1>14, <1>15

\* The sum is kept: chain by chain, rest and carries are what was there.
LEMMA SumIsKept ==
    ASSUME NEW c \in Registers, Sparse(c.rdx)
    PROVE  \A i \in 0 .. Count :
               LET p == 2^(Chain * i)
               IN  /\ SumBelow(Lows(c), i) \in 0 .. p - 1
                   /\ SumBelow(Lows(c), i) + SumBelow(Carries(c), i)
                      = (c.rd % p) + (c.rdx % p) + (Addend(c) % p)
  <1> DEFINE L(i) == SumBelow(Lows(c), i)
             K(i) == SumBelow(Carries(c), i)
             V(i, x) == x % 2^(Chain * i)
             Kept(i) == /\ L(i) \in 0 .. 2^(Chain * i) - 1
                        /\ L(i) + K(i) = V(i, c.rd) + V(i, c.rdx) + V(i, Addend(c))
             Good == {i \in Nat : i \in 0 .. Count => Kept(i)}
  <1>1. Lows(c) \in [Chains -> Int] /\ Carries(c) \in [Chains -> Int]
    BY SumTypes
  <1>2. c.rd \in Int /\ c.rdx \in Int /\ Addend(c) \in Int
    BY RegisterTypes
  <1>3. 0 \in Good
    <2>1. Chain * 0 = 0 /\ 2^0 = 1
      BY Widths, Powers
    <2>2. \A x \in Int : x % 1 = 0
      OBVIOUS
    <2>3. L(0) = 0 /\ K(0) = 0
      BY <1>1, ChainSums
    <2>4. V(0, c.rd) = 0 /\ V(0, c.rdx) = 0 /\ V(0, Addend(c)) = 0
      <3>1. 2^(Chain * 0) = 1
        BY <2>1
      <3>2. \A x : V(0, x) = x % 1
        BY <3>1, Zenon
      <3> HIDE DEF V
      <3> QED
        BY <1>2, <2>2, <3>2
    <2>5. 2^(Chain * 0) - 1 = 0
      <3>1. 2^(Chain * 0) = 1
        BY <2>1, Zenon
      <3> QED
        BY <3>1
    <2> HIDE DEF L, K, V
    <2>6. Kept(0)
      BY <2>3, <2>4, <2>5
    <2> QED
      BY <2>6
  <1>4. ASSUME NEW i \in 0 .. Count - 1, i \in Good PROVE i + 1 \in Good
    <2> DEFINE j == Chain * i
               p == 2^j
               n == 2^Chain
               f == ChainRest(c, j)
               g == ChainCarry(c, j)
    <2>1. i \in 0 .. Count /\ i + 1 \in 0 .. Count /\ i + 1 \in Nat
      BY Widths
    <2>2. j \in Chains /\ j \in Nat /\ Chain * (i + 1) = j + Chain
      BY ChainPlaces
    <2>3. L(i + 1) = f * p + L(i) /\ K(i + 1) = g * 2^(j + Chain) + K(i)
      <3>1. L(i + 1) = Lows(c)[j] + L(i) /\ K(i + 1) = Carries(c)[j] + K(i)
        BY <1>1, ChainSums
      <3>2. Lows(c)[j] = f * p /\ Carries(c)[j] = g * 2^(j + Chain)
        BY <2>2 DEF Lows, Carries
      <3> HIDE DEF L, K
      <3> QED
        BY <3>1, <3>2
    <2>4. p \in Nat \ {0} /\ n \in Nat \ {0} /\ 2^(j + Chain) = p * n
      BY <2>2, Powers, Widths
    <2>5. g \in {0, 1} /\ f \in 0 .. n - 1 /\ ChainSum(c, j) = f + n * g
      BY <2>2, CarryOut
    <2>6. \A x \in Int : V(i + 1, x) = V(i, x) + Bits(x, j) * p /\ V(i, x) \in Int
      <3>1. \A x \in Int : x % 2^(j + Chain) = (x % 2^j) + Bits(x, j) * 2^j
        BY <2>2, ChainBits
      <3>2. \A x \in Int : x % p \in Int
        <4> HIDE DEF p
        <4> QED
          BY <2>4, DivMod
      <3> QED
        BY <2>2, <3>1, <3>2
    <2>7. ChainSum(c, j) = Bits(c.rd, j) + Bits(c.rdx, j) + Bits(Addend(c), j)
      BY DEF ChainSum
    <2>8. \A x \in Int : Bits(x, j) \in Int
      BY <2>2, <2>4, ChainBits
    <2>9. L(i) \in 0 .. p - 1 /\ L(i) + K(i) = V(i, c.rd) + V(i, c.rdx) + V(i, Addend(c))
          /\ L(i) \in Int /\ K(i) \in Int
      BY <1>1, <1>4, <2>1, ChainSums
    <2> DEFINE a == Bits(c.rd, j)
               b == Bits(c.rdx, j)
               t == Bits(Addend(c), j)
               x == V(i, c.rd)
               y == V(i, c.rdx)
               z == V(i, Addend(c))
    <2>10. /\ a \in Int /\ b \in Int /\ t \in Int /\ x \in Int /\ y \in Int /\ z \in Int
           /\ V(i + 1, c.rd) = x + a * p /\ V(i + 1, c.rdx) = y + b * p
           /\ V(i + 1, Addend(c)) = z + t * p
           /\ f + n * g = a + b + t /\ L(i) + K(i) = x + y + z
      BY <1>2, <2>5, <2>6, <2>7, <2>8, <2>9
    <2> HIDE DEF a, b, t, x, y, z, f, g, p, n, L, K, V
    <2>11. L(i + 1) + K(i + 1) = (x + a * p) + (y + b * p) + (z + t * p)
      <3>1. L(i + 1) + K(i + 1) = (f * p + g * (p * n)) + (L(i) + K(i))
        BY <2>3, <2>4, <2>5, <2>9
      <3>2. f * p + g * (p * n) = (f + n * g) * p
        BY <2>4, <2>5
      <3>3. (a + b + t) * p = a * p + b * p + t * p
        BY <2>4, <2>10
      <3>4. a * p \in Int /\ b * p \in Int /\ t * p \in Int
        BY <2>4, <2>10
      <3> QED
        BY <2>10, <3>1, <3>2, <3>3, <3>4
    <2>12. L(i + 1) \in 0 .. p * n - 1
      <3>1. f * p >= 0 /\ f * p \in Int
        BY <2>4, <2>5
      <3>2. f * p <= (n - 1) * p
        BY <2>4, <2>5
      <3>3. (n - 1) * p = p * n - p /\ p * n \in Int
        BY <2>4
      <3> QED
        BY <2>3, <2>4, <2>9, <3>1, <3>2, <3>3
    <2>13. Kept(i + 1)
      <3>1. 2^(Chain * (i + 1)) = p * n
        BY <2>2, <2>4
      <3> QED
        BY <2>10, <2>11, <2>12, <3>1
    <2> QED
      BY <2>1, <2>13
  <1>5. 0 .. Count \subseteq Good
    <2> HIDE DEF Good
    <2> QED
      BY <1>3, <1>4, Widths, UpTo
  <1> QED
    BY <1>5

\* A carry stands alone in its chain.
LEMMA CarriesAreSparse ==
    ASSUME NEW c \in Registers, Sparse(c.rdx)
    PROVE  \A i \in 0 .. Count : /\ SumBelow(Carries(c), i) \in 0 .. 2 * 2^(Chain * i) - 1
                                 /\ \A n \in 0 .. i : Bits(SumBelow(Carries(c), i), Chain * n) \in {0, 1}
  <1> DEFINE K(i) == SumBelow(Carries(c), i)
             Alone(i) == /\ K(i) \in 0 .. 2 * 2^(Chain * i) - 1
                         /\ \A n \in 0 .. i : Bits(K(i), Chain * n) \in {0, 1}
             Good == {i \in Nat : i \in 0 .. Count => Alone(i)}
  <1>1. Carries(c) \in [Chains -> Int]
    BY SumTypes
  <1>2. 2^Chain \in Nat \ {0} /\ 2 <= 2^Chain
    <2>1. PICK k \in Nat : Chain = k + 1
      <3>1. Chain - 1 \in Nat /\ Chain = (Chain - 1) + 1
        BY Widths
      <3> QED
        BY <3>1
    <2>2. 2^k \in Nat \ {0} /\ 2^(k + 1) = 2 * 2^k
      BY Doubles, Powers
    <2> QED
      BY <2>1, <2>2
  <1>3. \A b \in Nat \ {0} : 0 \div b = 0 /\ 0 % b = 0 /\ (b > 1 => 1 % b = 1)
    <2>1. ASSUME NEW b \in Nat \ {0} PROVE 0 \div b = 0 /\ 0 % b = 0
      <3>1. 0 = b * 0 + 0 /\ 0 \in 0 .. b - 1
        OBVIOUS
      <3> QED
        BY <3>1, DivModIs
    <2>2. ASSUME NEW b \in Nat \ {0}, b > 1 PROVE 1 % b = 1
      <3>1. 1 = b * 0 + 1 /\ 1 \in 0 .. b - 1
        BY <2>2
      <3> QED
        BY <3>1, DivModIs
    <2> QED
      BY <2>1, <2>2
  <1>4. 0 \in Good
    <2>1. K(0) = 0
      BY <1>1, ChainSums
    <2>2. Chain * 0 = 0 /\ 2^0 = 1
      BY Widths, Powers
    <2>3. Bits(0, 0) = 0
      BY <1>2, <1>3, <2>2 DEF Bits
    <2> HIDE DEF K
    <2>4. \A n \in 0 .. 0 : Bits(K(0), Chain * n) \in {0, 1}
      BY <2>1, <2>2, <2>3
    <2>5. 0 \in 0 .. 2 * 2^(Chain * 0) - 1
      <3>1. 2^(Chain * 0) = 1
        BY <2>2, Zenon
      <3> QED
        BY <3>1
    <2> QED
      BY <2>1, <2>4, <2>5
  <1>5. ASSUME NEW i \in 0 .. Count - 1, i \in Good PROVE i + 1 \in Good
    <2> DEFINE j == Chain * i
               e == j + Chain
               g == ChainCarry(c, j)
    <2>1. i \in 0 .. Count /\ i + 1 \in 0 .. Count /\ i + 1 \in Nat
      BY Widths
    <2>2. j \in Chains /\ j \in Nat /\ Chain * (i + 1) = e /\ e \in Nat
      BY ChainPlaces, Widths
    <2>3. K(i + 1) = g * 2^e + K(i)
      <3>1. K(i + 1) = Carries(c)[j] + K(i)
        BY <1>1, ChainSums
      <3>2. Carries(c)[j] = g * 2^e
        BY <2>2 DEF Carries
      <3> HIDE DEF K
      <3> QED
        BY <3>1, <3>2
    <2>4. g \in {0, 1}
      BY <2>2, CarryOut
    <2>5. 2^e \in Nat \ {0} /\ 2^e = 2^j * 2^Chain /\ 2^j \in Nat \ {0}
      BY <2>2, Powers, Widths
    <2>6. K(i) \in 0 .. 2 * 2^j - 1 /\ \A n \in 0 .. i : Bits(K(i), Chain * n) \in {0, 1}
      BY <1>5, <2>1
    <2> HIDE DEF j, e, g, K
    <2>7. K(i) < 2^e /\ K(i) \in Nat
      <3>1. 2 * 2^j <= 2^j * 2^Chain
        BY <1>2, <2>5
      <3> QED
        BY <2>5, <2>6, <3>1
    <2>8. K(i + 1) \in 0 .. 2 * 2^e - 1
      BY <2>3, <2>4, <2>5, <2>7
    <2>9. ASSUME NEW n \in 0 .. i + 1 PROVE Bits(K(i + 1), Chain * n) \in {0, 1}
      <3>1. CASE n = i + 1
        <4>1. K(i + 1) = 2^e * g + K(i)
          BY <2>3, <2>4, <2>5, <2>7
        <4>2. K(i + 1) \div 2^e = g
          <5> DEFINE p == 2^e
          <5>1. p \in Nat \ {0} /\ K(i + 1) = p * g + K(i) /\ K(i) \in 0 .. p - 1
                /\ K(i + 1) \in Int /\ g \in Int
            BY <2>4, <2>5, <2>7, <2>8, <4>1
          <5> HIDE DEF p
          <5>2. K(i + 1) \div p = g
            BY <5>1, DivModIs
          <5> QED
            BY <5>2 DEF p
        <4>3. g % 2^Chain = g
          BY <1>2, <1>3, <2>4
        <4> QED
          BY <2>2, <2>4, <3>1, <4>2, <4>3 DEF Bits
      <3>2. CASE n # i + 1
        <4>1. n \in 0 .. i
          BY <3>2
        <4>2. Chain * n \in Nat /\ Chain * n + Chain <= e
          <5>1. Chain * (i + 1) = (Chain * n + Chain) + Chain * (i - n)
            BY <4>1, Widths
          <5>2. Chain * (i - n) >= 0 /\ Chain * (i - n) \in Int /\ Chain * n \in Nat
            BY <4>1, Widths
          <5> QED
            BY <2>2, <5>1, <5>2, Widths
        <4>3. K(i + 1) = K(i) + 2^e * g
          BY <2>3, <2>4, <2>5, <2>7
        <4>4. Bits(K(i) + 2^e * g, Chain * n) = Bits(K(i), Chain * n)
          <5> DEFINE m == Chain * n
          <5>1. m \in Nat /\ m + Chain <= e
            BY <4>2
          <5> HIDE DEF m
          <5>2. \A x \in Int : \A k \in Int : Bits(x + 2^e * k, m) = Bits(x, m)
            <6> SUFFICES ASSUME NEW x \in Int, NEW k \in Int PROVE Bits(x + 2^e * k, m) = Bits(x, m)
              OBVIOUS
            <6>1. \A f \in Nat : \A y \in Int : m + Chain <= f => Bits(x + 2^f * y, m) = Bits(x, m)
              BY <5>1, ChainBits
            <6> QED
              BY <2>2, <5>1, <6>1
          <5> QED
            BY <2>4, <2>7, <5>2 DEF m
        <4> QED
          BY <2>6, <4>1, <4>3, <4>4
      <3> QED
        BY <3>1, <3>2
    <2>10. Alone(i + 1)
      BY <2>2, <2>8, <2>9
    <2> QED
      BY <2>1, <2>10
  <1>6. 0 .. Count \subseteq Good
    <2> HIDE DEF Good
    <2> QED
      BY <1>4, <1>5, Widths, UpTo
  <1> QED
    BY <1>6

LEMMA Multiples ==
    /\ \A e \in Nat : \A x, y \in Int : x % 2^e = 0 => (x + 2^e * y) % 2^e = 0 /\ (2^e * y) % 2^e = 0
    /\ \A e \in Nat : \A x \in Int : x % 2^e = 0 => \E y \in Int : x = 2^e * y
    /\ \A x \in Int : x % 2^0 = 0
  <1>1. ASSUME NEW e \in Nat, NEW x \in Int, NEW y \in Int, x % 2^e = 0
        PROVE  (x + 2^e * y) % 2^e = 0 /\ (2^e * y) % 2^e = 0
    <2> DEFINE b == 2^e
    <2>1. b \in Nat \ {0} /\ x % b = 0
      BY <1>1, Powers
    <2> HIDE DEF b
    <2>2. (x + b * y) % b = 0
      BY <2>1, DivModAdds
    <2>3. (b * y) % b = 0
      <3>1. b * y = b * y + 0 /\ 0 \in 0 .. b - 1 /\ b * y \in Int
        BY <2>1
      <3> QED
        BY <2>1, <3>1, DivModIs
    <2> QED
      BY <2>2, <2>3 DEF b
  <1>2. ASSUME NEW e \in Nat, NEW x \in Int, x % 2^e = 0 PROVE \E y \in Int : x = 2^e * y
    <2> DEFINE b == 2^e
    <2>1. b \in Nat \ {0} /\ x % b = 0
      BY <1>2, Powers
    <2> HIDE DEF b
    <2>2. x \div b \in Int /\ x = b * (x \div b) + (x % b)
      BY <2>1, DivMod
    <2>3. x = b * (x \div b)
      BY <2>1, <2>2
    <2> QED
      BY <2>2, <2>3 DEF b
  <1>3. ASSUME NEW x \in Int PROVE x % 2^0 = 0
    <2>1. x % 1 = 0
      OBVIOUS
    <2> QED
      BY <2>1, Powers, Zenon
  <1> QED
    BY <1>1, <1>2, <1>3

\* Where the carries had moved up e bits, they move up one more.
LEMMA CarriesMoveUp ==
    ASSUME NEW c \in Registers, Sparse(c.rdx), NEW e \in Nat, NEW f \in Nat, f <= e + 1,
           c.rdx % 2^e = 0, Addend(c) % 2^e = 0
    PROVE  \A i \in 0 .. Count : SumBelow(Carries(c), i) % 2^f = 0
  <1> DEFINE K(i) == SumBelow(Carries(c), i)
             Good == {i \in Nat : i \in 0 .. Count => K(i) % 2^f = 0}
  <1>1. Carries(c) \in [Chains -> Int]
    BY SumTypes
  <1>2. ASSUME NEW j \in Chains PROVE \E k \in Int : Carries(c)[j] = 2^f * k
    <2>1. j \in Nat /\ j + Chain \in Nat /\ 2^f \in Nat
      BY ChainPlaces, Powers, Widths
    <2>2. CASE j + Chain <= e
      <3>1. ChainCarry(c, j) = 0
        BY <2>2, CarryOut
      <3>2. Carries(c)[j] = 0 * 2^(j + Chain) /\ 2^(j + Chain) \in Nat
        BY <2>1, <3>1, Powers DEF Carries
      <3>3. Carries(c)[j] = 2^f * 0
        BY <2>1, <3>2
      <3> QED
        BY <3>3
    <2>3. CASE ~(j + Chain <= e)
      <3>1. f <= j + Chain
        BY <2>1, <2>3
      <3>2. PICK d \in Nat \ {0} : 2^(j + Chain) = 2^f * d
        BY <2>1, <3>1, Powers
      <3>3. Carries(c)[j] = ChainCarry(c, j) * 2^(j + Chain) /\ ChainCarry(c, j) \in {0, 1}
        BY CarryOut DEF Carries
      <3>4. Carries(c)[j] = 2^f * 0 \/ Carries(c)[j] = 2^f * d
        BY <2>1, <3>2, <3>3
      <3> QED
        BY <3>4
    <2> QED
      BY <2>2, <2>3
  <1>3. 0 \in Good
    <2>1. K(0) = 0 /\ 0 = 2^f * 0
      BY <1>1, ChainSums, Powers
    <2>2. 0 % 2^f = 0
      <3> DEFINE b == 2^f
      <3>1. b \in Nat \ {0}
        BY Powers
      <3> HIDE DEF b
      <3>2. 0 = b * 0 + 0 /\ 0 \in 0 .. b - 1
        BY <3>1
      <3>3. 0 % b = 0
        BY <3>1, <3>2, DivModIs
      <3> QED
        BY <3>3 DEF b
    <2> HIDE DEF K
    <2> QED
      BY <2>1, <2>2
  <1>4. ASSUME NEW i \in 0 .. Count - 1, i \in Good PROVE i + 1 \in Good
    <2>1. i \in 0 .. Count /\ i + 1 \in 0 .. Count /\ i + 1 \in Nat
      BY Widths
    <2>2. Chain * i \in Chains
      BY ChainPlaces
    <2>3. K(i + 1) = Carries(c)[Chain * i] + K(i) /\ K(i) \in Int
      BY <1>1, <2>1, ChainSums
    <2>4. PICK k \in Int : Carries(c)[Chain * i] = 2^f * k
      BY <1>2, <2>2
    <2>5. K(i) % 2^f = 0
      BY <1>4, <2>1
    <2> HIDE DEF K
    <2>6. K(i + 1) = K(i) + 2^f * k
      <3>1. 2^f * k \in Int
        BY Powers
      <3> QED
        BY <2>3, <2>4, <3>1
    <2>7. K(i + 1) % 2^f = 0
      <3>1. K(i) \in Int /\ f \in Nat
        BY <2>3
      <3>2. (K(i) + 2^f * k) % 2^f = 0
        BY <2>5, <3>1, Multiples, Zenon
      <3> QED
        BY <2>6, <3>2
    <2> QED
      BY <2>1, <2>7
  <1>5. 0 .. Count \subseteq Good
    <2> HIDE DEF Good
    <2> QED
      BY <1>3, <1>4, Widths, UpTo
  <1> QED
    BY <1>5

\* What a step of the multiplier does to its registers.
LEMMA StepMoves ==
    ASSUME NEW c \in Registers, Sparse(c.rdx)
    PROVE  /\ MulStep(c) \in Registers /\ Sparse(MulStep(c).rdx)
           /\ Total(MulStep(c)) = Total(c)
           /\ \A k \in Nat : Cleared(c, k) => Cleared(MulStep(c), k + 1)
  <1> DEFINE d == MulStep(c)
             M == 2^(2*W)
             L == SumBelow(Lows(c), Count)
             K == SumBelow(Carries(c), Count)
             t == Addend(c)
             h == c.rs1 \div 2
             q == K \div M
             p == (c.rs2 * 2) \div M
  <1>1. /\ M \in Nat \ {0} /\ c.rd \in 0 .. M - 1 /\ c.rdx \in 0 .. M - 1 /\ c.rs2 \in 0 .. M - 1
        /\ t \in 0 .. M - 1 /\ c.rs1 \in 0 .. M - 1 /\ h \in 0 .. M - 1
        /\ c.rs1 = 2 * h + (c.rs1 % 2) /\ c.rs1 % 2 \in {0, 1}
    <2>1. c.rs1 \in 0 .. M - 1
      BY DEF Registers, Double
    <2>2. /\ M \in Nat \ {0} /\ c.rd \in Nat /\ c.rd < M /\ c.rdx \in Nat /\ c.rdx < M
          /\ c.rs2 \in Nat /\ c.rs2 < M /\ t \in Nat /\ t < M /\ h \in Nat /\ h <= c.rs1
          /\ c.rs1 = 2 * h + (c.rs1 % 2) /\ c.rs1 % 2 \in {0, 1}
      BY RegisterTypes
    <2> HIDE DEF M, t, h
    <2> QED
      BY <2>1, <2>2
  <1>2. Count \in 0 .. Count /\ Chain * Count = 2*W
    BY Widths
  <1>3. /\ SumOver(Lows(c), Chains, Chains) = L /\ SumOver(Carries(c), Chains, Chains) = K
        /\ L \in Int /\ K \in Int
    BY <1>2, SumTypes, ChainSums
  <1>4. d.rd = L /\ d.rdx = K % M /\ d.rs1 = h /\ d.rs2 = (c.rs2 * 2) % M
        /\ d = [rd |-> L, rdx |-> K % M, rs1 |-> h, rs2 |-> (c.rs2 * 2) % M]
    <2>1. d = [rd |-> L, rdx |-> K % M, rs1 |-> h, rs2 |-> (c.rs2 * 2) % M]
      BY <1>3, StepIs
    <2> HIDE DEF d, L, K, M, h
    <2> QED
      BY <2>1
  <1>5. L \in 0 .. M - 1 /\ L + K = (c.rd % M) + (c.rdx % M) + (t % M)
    <2>1. LET b == 2^(Chain * Count)
          IN  L \in 0 .. b - 1 /\ L + K = (c.rd % b) + (c.rdx % b) + (t % b)
      BY <1>2, SumIsKept
    <2> QED
      BY <1>2, <2>1, Zenon
  <1>6. \A n \in 0 .. Count : Bits(K, Chain * n) \in {0, 1}
    BY <1>2, CarriesAreSparse
  <1>7. t = IF c.rs1 % 2 = 1 THEN c.rs2 ELSE 0
    BY DEF Addend
  <1>8. \A f, e \in Nat : f <= e + 1 /\ c.rdx % 2^e = 0 /\ t % 2^e = 0 => K % 2^f = 0
    BY <1>2, CarriesMoveUp
  <1> HIDE DEF d, L, K, t, h
  <1>9. /\ K % M \in 0 .. M - 1 /\ q \in Int /\ K % M = K + M * (-q)
        /\ (c.rs2 * 2) % M \in 0 .. M - 1 /\ p \in Int /\ (c.rs2 * 2) % M = c.rs2 * 2 + M * (-p)
    <2> HIDE DEF M
    <2>1. ASSUME NEW x \in Int PROVE x % M \in 0 .. M - 1 /\ x \div M \in Int /\ x % M = x + M * (-(x \div M))
      <3> DEFINE r == x % M
                 u == x \div M
      <3>1. r \in 0 .. M - 1 /\ u \in Int /\ x = M * u + r
        BY <1>1, DivMod
      <3> HIDE DEF r, u
      <3>2. M * (-u) = -(M * u) /\ M * u \in Int
        BY <1>1, <3>1
      <3>3. r = x + M * (-u)
        BY <1>1, <3>1, <3>2
      <3> QED
        BY <3>1, <3>3 DEF r, u
    <2>2. K \in Int /\ c.rs2 * 2 \in Int
      BY <1>1, <1>3
    <2> QED
      BY <2>1, <2>2
  <1> HIDE DEF q, p
  <1>10. d \in Registers
    <2>1. L \in Double /\ K % M \in Double /\ h \in Double /\ (c.rs2 * 2) % M \in Double
      BY <1>1, <1>5, <1>9 DEF Double, M
    <2> HIDE DEF M
    <2> QED
      BY <1>4, <2>1 DEF Registers
  <1>11. Sparse(d.rdx)
    <2> SUFFICES ASSUME NEW j \in Chains PROVE Bits(d.rdx, j) \in {0, 1}
      BY DEF Sparse
    <2>1. PICK n \in 0 .. Count - 1 : j = Chain * n
      BY ChainPlaces
    <2>2. j \in Nat /\ j + Chain <= 2*W /\ n \in 0 .. Count /\ 2*W \in Nat
      BY <2>1, ChainPlaces, Widths
    <2>3. \A f \in Nat : \A y \in Int : j + Chain <= f => Bits(K + 2^f * y, j) = Bits(K, j)
      BY <1>3, <2>2, ChainBits
    <2>4. Bits(K + 2^(2*W) * (-q), j) = Bits(K, j)
      <3>1. -q \in Int
        BY <1>9
      <3> QED
        BY <2>2, <2>3, <3>1
    <2> QED
      BY <1>4, <1>6, <1>9, <2>1, <2>2, <2>4 DEF M
  <1>12. Total(d) = Total(c)
    <2>1. L + K = c.rd + c.rdx + t
      <3> HIDE DEF M
      <3>1. \A x \in 0 .. M - 1 : x % M = x
        <4>1. M \in Nat \ {0}
          BY <1>1
        <4> QED
          BY <4>1, SmallMod
      <3>2. c.rd % M = c.rd /\ c.rdx % M = c.rdx /\ t % M = t
        BY <1>1, <3>1
      <3>3. L + K = (c.rd % M) + (c.rdx % M) + (t % M)
        BY <1>5
      <3> QED
        BY <3>2, <3>3
    <2> DEFINE s == c.rd + c.rdx + c.rs1 * c.rs2
               k == (-q) + h * (-p)
    <2>2. s \in Int /\ k \in Int
      BY <1>1, <1>9
    <2>3. t + h * (c.rs2 * 2) = c.rs1 * c.rs2
      <3>1. c.rs1 * c.rs2 = (2 * h + (c.rs1 % 2)) * c.rs2
        BY <1>1
      <3>2. (2 * h + (c.rs1 % 2)) * c.rs2 = h * (c.rs2 * 2) + (c.rs1 % 2) * c.rs2
        BY <1>1
      <3>3. (c.rs1 % 2) * c.rs2 = t
        BY <1>1, <1>7
      <3>4. h * (c.rs2 * 2) \in Int /\ t \in Int
        BY <1>1
      <3> QED
        BY <3>1, <3>2, <3>3, <3>4
    <2>4. d.rs1 * d.rs2 = h * (c.rs2 * 2) + M * (h * (-p))
      <3> HIDE DEF M
      <3>1. d.rs1 * d.rs2 = h * (c.rs2 * 2 + M * (-p))
        BY <1>4, <1>9
      <3>2. h * (c.rs2 * 2 + M * (-p)) = h * (c.rs2 * 2) + h * (M * (-p))
        BY <1>1, <1>9
      <3>3. h * (M * (-p)) = M * (h * (-p))
        BY <1>1, <1>9
      <3> QED
        BY <3>1, <3>2, <3>3
    <2>5. d.rd + d.rdx = (L + K) + M * (-q)
      <3> HIDE DEF M
      <3>1. M * (-q) \in Int
        BY <1>1, <1>9
      <3> QED
        BY <1>3, <1>4, <1>9, <3>1
    <2>6. d.rd + d.rdx + d.rs1 * d.rs2 = s + M * k
      <3> HIDE DEF M
      <3>1. M * k = M * (-q) + M * (h * (-p)) /\ M * (-q) \in Int /\ M * (h * (-p)) \in Int
        BY <1>1, <1>9
      <3>2. c.rs1 * c.rs2 \in Int /\ h * (c.rs2 * 2) \in Int
        BY <1>1
      <3>3. d.rd + d.rdx + d.rs1 * d.rs2
            = ((L + K) + M * (-q)) + (h * (c.rs2 * 2) + M * (h * (-p)))
        BY <2>4, <2>5
      <3> HIDE DEF k
      <3> QED
        BY <1>1, <1>3, <2>1, <2>3, <3>1, <3>2, <3>3
    <2> HIDE DEF s, k, M
    <2>7. (s + M * k) % M = s % M
      BY <1>1, <2>2, DivModAdds
    <2> QED
      BY <2>6, <2>7 DEF Total, s, M
  <1>13. ASSUME NEW k \in Nat, Cleared(c, k) PROVE Cleared(d, k + 1)
    <2> SUFFICES ASSUME NEW e \in 0 .. 2*W, e <= k + 1
                 PROVE  d.rs2 % 2^e = 0 /\ d.rdx % 2^e = 0
      BY DEF Cleared
    <2>1. d.rs2 \in Int /\ d.rdx \in Int
      BY <1>10, RegisterTypes
    <2>2. CASE e = 0
      BY <2>1, <2>2, Multiples
    <2>3. CASE e # 0
      <3>1. PICK f \in Nat : f + 1 = e
        <4>1. e - 1 \in Nat /\ (e - 1) + 1 = e
          BY <2>3, Widths
        <4> QED
          BY <4>1
      <3>2. f \in 0 .. 2*W /\ f <= k /\ e \in Nat /\ e <= 2*W /\ 2*W \in Nat
        BY <3>1, Widths
      <3>3. c.rs2 % 2^f = 0 /\ c.rdx % 2^f = 0
        BY <1>13, <3>2 DEF Cleared
      <3>4. t % 2^f = 0
        <4>1. 0 % 2^f = 0
          <5>1. 2^f * 0 = 0 /\ (2^f * 0) % 2^f = 0
            BY <1>1, <3>3, Multiples, Powers
          <5> QED
            BY <5>1
        <4> QED
          BY <1>7, <3>3, <4>1
      <3>5. K % 2^e = 0
        BY <1>8, <3>1, <3>2, <3>3, <3>4
      <3>6. PICK m \in Nat \ {0} : M = 2^e * m
        BY <3>2, Powers
      <3>7. \A y \in Int : 2^e * (m * y) = (2^e * m) * y /\ m * y \in Int
        <4>1. 2^e \in Int
          BY <3>2, Powers
        <4> QED
          BY <4>1
      <3>8. d.rdx % 2^e = 0
        <4>1. d.rdx = K + 2^e * (m * (-q)) /\ m * (-q) \in Int
          BY <1>4, <1>9, <3>6, <3>7
        <4> QED
          BY <1>3, <3>2, <3>5, <4>1, Multiples
      <3>9. (c.rs2 * 2) % 2^e = 0 /\ c.rs2 * 2 \in Int
        <4>1. PICK y \in Int : c.rs2 = 2^f * y
          <5>1. \A n \in Nat : \A x \in Int : x % 2^n = 0 => \E y \in Int : x = 2^n * y
            BY Multiples
          <5>2. c.rs2 \in Int /\ f \in Nat
            BY <1>1, <3>1
          <5> QED
            BY <3>3, <5>1, <5>2
        <4>2. 2^e = 2 * 2^f /\ 2^f \in Nat
          BY <3>1, Doubles
        <4>3. c.rs2 * 2 = 2^e * y
          BY <4>1, <4>2
        <4>4. (2^e * y) % 2^e = 0
          BY <1>3, <3>2, <3>5, Multiples
        <4> QED
          BY <1>1, <4>3, <4>4
      <3>10. d.rs2 % 2^e = 0
        <4>1. d.rs2 = c.rs2 * 2 + 2^e * (m * (-p)) /\ m * (-p) \in Int
          BY <1>4, <1>9, <3>6, <3>7
        <4>2. \A n \in Nat : \A x, y \in Int : x % 2^n = 0 => (x + 2^n * y) % 2^n = 0
          BY Multiples
        <4> QED
          BY <3>2, <3>9, <4>1, <4>2
      <3> QED
        BY <3>8, <3>10
    <2> QED
      BY <2>2, <2>3
  <1> QED
    BY <1>10, <1>11, <1>12, <1>13 DEF d

\* And what the steps of a cycle do.
LEMMA StepsMove ==
    ASSUME Accumulator \in Registers, Sparse(rdx)
    PROVE  /\ MulSteps \in Registers /\ Sparse(MulSteps.rdx)
           /\ Total(MulSteps) = Total(Accumulator)
           /\ \A k \in Nat : Cleared(Accumulator, k) => Cleared(MulSteps, k + STEPS_AT_ONCE)
  <1> DEFINE a == Accumulator
             N == STEPS_AT_ONCE
             S == {c \in Registers : Sparse(c.rdx)}
             step == [c \in S |-> MulStep(c)]
             round == [i \in 1 .. N |-> step]
             body(g) == [n \in 0 .. N |-> IF n = 0 THEN [rd |-> rd, rdx |-> rdx, rs1 |-> rs1, rs2 |-> rs2]
                                          ELSE MulStep(g[n - 1])]
             after == CHOOSE g : g = body(g)
             Kept(c, n) == /\ c \in S /\ Total(c) = Total(a)
                           /\ \A k \in Nat : Cleared(a, k) => Cleared(c, k + n)
             Good == {n \in Nat : n \in 0 .. N => Kept(after[n], n)}
  <1>1. N \in Nat
    BY Widths
  <1>2. a \in S
    <2>1. a.rdx = rdx
      BY DEF Accumulator
    <2> QED
      BY <2>1
  <1>3. \A c \in S : MulStep(c) \in S
    BY StepMoves
  <1>4. PICK f \in [0 .. N -> S] : IsLoop(f, N, a, round)
    <2>1. round \in [1 .. N -> [S -> S]]
      BY <1>3
    <2> HIDE DEF a, N, S, round
    <2> QED
      BY <1>1, <1>2, <2>1, LoopExists
  <1>5. ASSUME NEW n \in 0 .. N PROVE f[n] = body(f)[n]
    <2>1. CASE n = 0
      BY <1>4, <2>1 DEF IsLoop, Accumulator
    <2>2. CASE n # 0
      <3>1. n \in 1 .. N /\ n - 1 \in 0 .. N
        BY <1>1, <2>2
      <3>2. f[n] = round[n][f[n - 1]] /\ f[n - 1] \in S
        BY <1>4, <3>1 DEF IsLoop
      <3>3. round[n][f[n - 1]] = MulStep(f[n - 1])
        <4>1. \A c \in S : round[n][c] = MulStep(c)
          <5>1. round[n] = step
            BY <3>1
          <5> HIDE DEF S, round
          <5> QED
            BY <5>1
        <4> HIDE DEF S, round
        <4> QED
          BY <3>2, <4>1
      <3> HIDE DEF round
      <3> QED
        BY <2>2, <3>2, <3>3
    <2> QED
      BY <2>1, <2>2
  <1>6. f = body(f)
    <2> HIDE DEF S, round, N
    <2> QED
      BY <1>4, <1>5
  <1>7. after = body(after)
    BY <1>6
  <1>8. \A n \in 0 .. N : after[n] = IF n = 0 THEN a ELSE MulStep(after[n - 1])
    <2>1. \A g : g = body(g) => \A n \in 0 .. N : g[n] = IF n = 0 THEN a ELSE MulStep(g[n - 1])
      BY DEF Accumulator
    <2> HIDE DEF body, after
    <2> QED
      BY <1>7, <2>1
  <1> HIDE DEF after, body, round, N, a, S, step
  <1>9. 0 \in Good
    <2>1. after[0] = a
      BY <1>1, <1>8
    <2>2. \A k \in Nat : Cleared(a, k) => Cleared(a, k + 0)
      <3>1. \A k \in Nat : k + 0 = k
        OBVIOUS
      <3> QED
        BY <3>1
    <2> QED
      BY <1>2, <2>1, <2>2
  <1>10. ASSUME NEW i \in 0 .. N - 1, i \in Good PROVE i + 1 \in Good
    <2>1. PICK n \in 1 .. N : n = i + 1 /\ n - 1 = i
      BY <1>1
    <2> DEFINE c == after[i]
    <2>2. Kept(c, i) /\ after[n] = MulStep(c) /\ i \in Nat
      BY <1>1, <1>8, <1>10, <2>1
    <2>3. c \in Registers /\ Sparse(c.rdx) /\ Total(c) = Total(a)
      BY <2>2 DEF S
    <2> HIDE DEF c
    <2>4. MulStep(c) \in S /\ Total(MulStep(c)) = Total(a)
      BY <1>3, <2>2, <2>3, StepMoves
    <2>5. ASSUME NEW k \in Nat, Cleared(a, k) PROVE Cleared(MulStep(c), k + n)
      <3>1. k + i \in Nat /\ (k + i) + 1 = k + n
        BY <2>1, <2>2
      <3>2. Cleared(c, k + i)
        BY <2>2, <2>5
      <3>3. Cleared(MulStep(c), (k + i) + 1)
        BY <2>3, <3>1, <3>2, StepMoves
      <3> QED
        BY <3>1, <3>3
    <2>6. Kept(after[n], n)
      BY <2>2, <2>4, <2>5
    <2> QED
      BY <2>1, <2>6
  <1>11. 0 .. N \subseteq Good
    <2> HIDE DEF Good
    <2> QED
      BY <1>1, <1>9, <1>10, UpTo
  <1>12. Kept(after[N], N)
    BY <1>1, <1>11
  <1>13. MulSteps = after[N]
    BY Zenon DEF MulSteps, after, body, N
  <1> QED
    BY <1>12, <1>13 DEF S, N, a

-----------------------------------------------------------------------------
(* Words and their signs.                                                  *)

LEMMA WordSizes ==
    /\ 2^(W - 1) \in Nat \ {0} /\ 2^W \in Nat \ {0} /\ 2^(2*W) \in Nat \ {0} /\ 2^(2*W - 1) \in Nat \ {0}
    /\ 2^W = 2 * 2^(W - 1) /\ 2^(2*W) = 2^W * 2^W /\ 2^(2*W - 1) = 2^W * 2^(W - 1)
    /\ 2^W <= 2^(2*W)
  <1>1. W - 1 \in Nat /\ W \in Nat /\ 2*W \in Nat /\ 2*W - 1 \in Nat
    BY Widths
  <1>2. /\ 2^(W - 1) \in Nat \ {0} /\ 2^W \in Nat \ {0} /\ 2^(2*W) \in Nat \ {0}
        /\ 2^(2*W - 1) \in Nat \ {0}
    BY <1>1, Powers
  <1>3. 2^W = 2 * 2^(W - 1)
    <2>1. (W - 1) + 1 = W
      BY <1>1
    <2>2. 2^((W - 1) + 1) = 2 * 2^(W - 1)
      BY <1>1, Doubles
    <2> QED
      BY <2>1, <2>2
  <1>4. 2^(2*W) = 2^W * 2^W /\ 2^(2*W - 1) = 2^W * 2^(W - 1)
    <2>1. W + W = 2*W /\ W + (W - 1) = 2*W - 1
      BY <1>1
    <2>2. 2^(W + W) = 2^W * 2^W /\ 2^(W + (W - 1)) = 2^W * 2^(W - 1)
      BY <1>1, Powers
    <2> QED
      BY <2>1, <2>2
  <1>5. 2^W <= 2^(2*W)
    <2> DEFINE m == 2^W
    <2>1. m * m >= m
      <3>1. m \in Nat \ {0}
        BY <1>2
      <3> HIDE DEF m
      <3>2. m * m = m + m * (m - 1) /\ m * (m - 1) >= 0 /\ m * (m - 1) \in Int
        BY <3>1
      <3> QED
        BY <3>1, <3>2
    <2> QED
      BY <1>4, <2>1
  <1> QED
    BY <1>2, <1>3, <1>4, <1>5

LEMMA Words ==
    ASSUME NEW x \in Word
    PROVE  /\ x \in Nat /\ x < 2^W /\ x \in Double
           /\ Signed(x) \in Int /\ SignExtended(x) \in Double
           /\ SignExtended(x) = Signed(x) + 2^(2*W) * (IF Negative(x) THEN 1 ELSE 0)
           /\ Signed(x) = x - 2^W * (IF Negative(x) THEN 1 ELSE 0)
           /\ (Negative(x) => Signed(x) < 0) /\ (~Negative(x) => Signed(x) = x)
           /\ -2^(W - 1) <= Signed(x) /\ Signed(x) < 2^(W - 1)
  <1> DEFINE h == 2^(W - 1)
             n == 2^W
             m == 2^(2*W)
  <1>1. /\ h \in Nat \ {0} /\ n \in Nat \ {0} /\ m \in Nat \ {0} /\ n = 2 * h /\ n <= m
        /\ x \in 0 .. n - 1
    BY WordSizes DEF Word
  <1>2. /\ Signed(x) = IF x >= h THEN x - n ELSE x
        /\ SignExtended(x) = IF x >= h THEN x + m - n ELSE x
        /\ Negative(x) <=> x >= h
    BY DEF Signed, SignExtended, Negative
  <1>3. Double = 0 .. m - 1
    BY DEF Double
  <1> HIDE DEF h, n, m
  <1>4. /\ x \in Nat /\ x < n /\ x \in 0 .. m - 1
        /\ Signed(x) \in Int /\ SignExtended(x) \in 0 .. m - 1
        /\ SignExtended(x) = Signed(x) + m * (IF Negative(x) THEN 1 ELSE 0)
        /\ Signed(x) = x - n * (IF Negative(x) THEN 1 ELSE 0)
        /\ (Negative(x) => Signed(x) < 0) /\ (~Negative(x) => Signed(x) = x)
        /\ -h <= Signed(x) /\ Signed(x) < h
    <2>1. CASE x >= h
      BY <1>1, <1>2, <2>1
    <2>2. CASE ~(x >= h)
      BY <1>1, <1>2, <2>2
    <2> QED
      BY <2>1, <2>2
  <1> QED
    BY <1>3, <1>4 DEF h, n, m

First  == IF instr_rs1_signed THEN SignExtended(pcpi_rs1) ELSE pcpi_rs1
Second == IF instr_rs2_signed THEN SignExtended(pcpi_rs2) ELSE pcpi_rs2

\* The operands of the multiplier make up the product, but for what 2*W bits
\* do not hold.
LEMMA Operands ==
    ASSUME Types
    PROVE  /\ First \in Double /\ Second \in Double /\ Product \in Int
           /\ (First * Second) % 2^(2*W) = Product % 2^(2*W)
  <1> DEFINE m == 2^(2*W)
             a == IF instr_rs1_signed THEN Signed(pcpi_rs1) ELSE pcpi_rs1
             b == IF instr_rs2_signed THEN Signed(pcpi_rs2) ELSE pcpi_rs2
             s == IF instr_rs1_signed /\ Negative(pcpi_rs1) THEN 1 ELSE 0
             t == IF instr_rs2_signed /\ Negative(pcpi_rs2) THEN 1 ELSE 0
  <1>1. m \in Nat \ {0} /\ pcpi_rs1 \in Word /\ pcpi_rs2 \in Word
    BY WordSizes DEF Types
  <1>2. /\ a \in Int /\ s \in Int /\ First = a + m * s /\ First \in Double
    BY <1>1, Words DEF First
  <1>3. /\ b \in Int /\ t \in Int /\ Second = b + m * t /\ Second \in Double
    BY <1>1, Words DEF Second
  <1>4. Product = a * b
    BY DEF Product
  <1> HIDE DEF m, a, b, s, t
  <1> DEFINE k == a * t + s * b + m * (s * t)
  <1>5. First * Second = a * b + m * k /\ k \in Int /\ a * b \in Int
    BY <1>1, <1>2, <1>3
  <1> HIDE DEF k
  <1>6. (a * b + m * k) % m = (a * b) % m
    <2> DEFINE x == a * b
    <2> HIDE DEF x
    <2>1. x \in Int
      BY <1>5 DEF x
    <2>2. (x + m * k) % m = x % m
      BY <1>1, <1>5, <2>1, DivModAdds
    <2> QED
      BY <2>2 DEF x
  <1> QED
    BY <1>2, <1>3, <1>4, <1>5, <1>6 DEF m

-----------------------------------------------------------------------------
(* What the multiplier answers.                                            *)

LEMMA ModOfMod ==
    ASSUME NEW n \in Nat \ {0}, NEW x \in Int
    PROVE  (x % (n * n)) % n = x % n /\ (x % (n * n)) \div n = (x \div n) % n
  <1> DEFINE q == (x \div n) % n
             r == x % n
             y == x % (n * n)
  <1>1. y = r + q * n
    BY ModSplit
  <1>2. r \in 0 .. n - 1 /\ x \div n \in Int
    BY DivMod
  <1>3. q \in 0 .. n - 1
    BY <1>2, DivMod
  <1> HIDE DEF q, r, y
  <1>4. y \in Int /\ y = n * q + r /\ q \in Int
    <2>1. q * n = n * q /\ n * q \in Int
      BY <1>3
    <2> QED
      BY <1>1, <1>2, <1>3, <2>1
  <1>5. y \div n = q /\ y % n = r
    BY <1>2, <1>4, DivModIs
  <1> QED
    BY <1>5 DEF q, r, y

LEMMA MulResult ==
    ASSUME Types, instr \in MulInsns, Cleared(Accumulator, Bottom),
           Total(Accumulator) = Product % 2^(2*W)
    PROVE  IsResult(IF instr_any_mulh THEN rd \div 2^W ELSE rd % 2^W)
  <1> DEFINE n == 2^W
             m == 2^(2*W)
             P == Product
  <1>1. n \in Nat \ {0} /\ m = n * n /\ m \in Nat \ {0}
    BY WordSizes
  <1>2. /\ rd \in 0 .. m - 1 /\ rdx \in 0 .. m - 1 /\ rs1 \in 0 .. m - 1 /\ rs2 \in 0 .. m - 1
    BY DEF Types, Double
  <1>3. P \in Int
    BY Operands
  <1>4. (rd + rdx + rs1 * rs2) % m = P % m
    BY DEF Total, Accumulator
  <1>5. \A e \in 0 .. 2*W : e <= Bottom => rs2 % 2^e = 0 /\ rdx % 2^e = 0
    BY DEF Cleared, Accumulator
  <1>6. CASE instr_any_mulh
    <2>1. rs2 % m = 0 /\ rdx % m = 0
      <3>1. 2*W \in 0 .. 2*W /\ 2*W <= Bottom
        BY <1>6, Widths DEF Bottom
      <3> QED
        BY <1>5, <3>1
    <2> HIDE DEF n, m, P
    <2>2. rs2 = 0 /\ rdx = 0
      <3>1. rs2 % m = rs2 /\ rdx % m = rdx
        BY <1>1, <1>2, SmallMod
      <3> QED
        BY <2>1, <3>1
    <2>3. rd + rdx + rs1 * rs2 = rd
      <3>1. rs1 * rs2 = 0
        BY <1>2, <2>2
      <3> QED
        BY <1>2, <2>2, <3>1
    <2>4. rd = P % m
      <3>1. rd % m = rd
        BY <1>1, <1>2, SmallMod
      <3> QED
        BY <1>4, <2>3, <3>1
    <2>5. rd \div n = (P \div n) % n
      <3>1. (P % (n * n)) \div n = (P \div n) % n
        BY <1>1, <1>3, ModOfMod
      <3> QED
        BY <1>1, <2>4, <3>1
    <2>6. (IF instr_any_mulh THEN rd \div n ELSE rd % n) = (P \div n) % n
      BY <1>6, <2>5
    <2> QED
      BY <1>6, <2>6 DEF IsResult, n, P
  <1>7. CASE ~instr_any_mulh
    <2>1. instr = "mul"
      BY <1>7 DEF instr_any_mulh, MulInsns
    <2>2. rs2 % n = 0 /\ rdx % n = 0
      <3>1. W \in 0 .. 2*W /\ W <= Bottom
        BY <1>7, Widths DEF Bottom
      <3> QED
        BY <1>5, <3>1
    <2> HIDE DEF m, P
    <2>3. PICK y \in Int : rs2 = n * y
      <3>1. \A x \in Int : x % 2^W = 0 => \E y \in Int : x = 2^W * y
        BY Multiples, Widths
      <3> QED
        BY <1>2, <2>2, <3>1
    <2>4. PICK z \in Int : rdx = n * z
      <3>1. \A x \in Int : x % 2^W = 0 => \E u \in Int : x = 2^W * u
        BY Multiples, Widths
      <3> QED
        BY <1>2, <2>2, <3>1
    <2> HIDE DEF n
    <2> DEFINE X == rd + rdx + rs1 * rs2
               k == z + rs1 * y
    <2>5. X = rd + n * k /\ k \in Int /\ X \in Int /\ rd \in Int
      <3>1. rs1 * (n * y) = n * (rs1 * y) /\ n * (z + rs1 * y) = n * z + n * (rs1 * y)
        BY <1>1, <1>2
      <3>2. n * z \in Int /\ n * (rs1 * y) \in Int /\ rs1 * y \in Int
        BY <1>1, <1>2
      <3> QED
        BY <1>2, <2>3, <2>4, <3>1, <3>2
    <2> HIDE DEF X, k
    <2>6. X % n = rd % n
      <3>1. (rd + n * k) % n = rd % n
        BY <1>1, <2>5, DivModAdds
      <3> QED
        BY <2>5, <3>1
    <2>7. X % n = P % n
      <3>1. (X % (n * n)) % n = X % n /\ (P % (n * n)) % n = P % n
        BY <1>1, <1>3, <2>5, ModOfMod
      <3>2. X % (n * n) = P % (n * n)
        BY <1>1, <1>4 DEF X
      <3> QED
        BY <3>1, <3>2
    <2>8. (IF instr_any_mulh THEN rd \div n ELSE rd % n) = P % n
      BY <1>7, <2>6, <2>7
    <2> QED
      BY <2>1, <2>8 DEF IsResult, n, P
  <1> QED
    BY <1>6, <1>7

-----------------------------------------------------------------------------
(* The divider.                                                            *)

Operand(x) == IF instr \in {"div", "rem"} THEN Signed(x) ELSE x
Sign(x)    == IF instr \in {"div", "rem"} /\ Negative(x) THEN -1 ELSE 1

LEMMA NegatedIs == \A x \in Int : Negated(x) = (-x) % 2^W
  <1> DEFINE n == 2^W
  <1>1. n \in Nat \ {0}
    BY WordSizes
  <1>2. ASSUME NEW x \in Int PROVE (n - x) % n = (-x) % n
    <2> HIDE DEF n
    <2> DEFINE y == -x
    <2>1. y \in Int /\ n - x = y + n * 1 /\ 1 \in Int
      BY <1>1
    <2> HIDE DEF y
    <2>2. (y + n * 1) % n = y % n
      BY <1>1, <2>1, DivModAdds
    <2> QED
      BY <2>1, <2>2 DEF y
  <1> QED
    BY <1>2 DEF Negated, n

LEMMA Magnitudes ==
    ASSUME NEW x \in Word
    PROVE  /\ Magnitude(x) \in Nat /\ Magnitude(x) < 2^W
           /\ Magnitude(x) = 0 <=> x = 0
           /\ Operand(x) = Sign(x) * Magnitude(x) /\ Operand(x) \in Int
           /\ Operand(x) % 2^W = x
  <1> DEFINE n == 2^W
             h == 2^(W - 1)
  <1>1. n \in Nat \ {0} /\ h \in Nat \ {0} /\ n = 2 * h /\ x \in 0 .. n - 1
    BY WordSizes DEF Word
  <1>2. Negative(x) <=> x >= h
    BY DEF Negative
  <1>3. x % n = x
    BY <1>1, SmallMod
  <1>4. CASE instr \in {"div", "rem"} /\ Negative(x)
    <2>1. Negated(x) = n - x
      <3>1. Negated(x) = (n - x) % n
        BY DEF Negated
      <3>2. n - x \in 0 .. n - 1
        BY <1>1, <1>2, <1>4
      <3> HIDE DEF n
      <3>3. (n - x) % n = n - x
        BY <1>1, <3>2, SmallMod
      <3> QED
        BY <3>1, <3>3
    <2>2. Magnitude(x) = n - x /\ Sign(x) = -1 /\ Operand(x) = x - n
      BY <1>4, <2>1 DEF Magnitude, Sign, Operand, Signed
    <2> HIDE DEF n, h
    <2>3. (x - n) % n = x
      <3> DEFINE y == x - n
      <3>1. y \in Int /\ y = n * (-1) + x /\ -1 \in Int
        BY <1>1
      <3> HIDE DEF y
      <3>2. y % n = x
        BY <1>1, <3>1, DivModIs
      <3> QED
        BY <3>2 DEF y
    <2>4. /\ n - x \in Nat /\ n - x < n /\ (n - x = 0 <=> x = 0)
          /\ x - n = -1 * (n - x) /\ x - n \in Int
      BY <1>1, <1>2, <1>4
    <2> QED
      BY <2>2, <2>3, <2>4 DEF n
  <1>5. CASE ~(instr \in {"div", "rem"} /\ Negative(x))
    <2>1. Magnitude(x) = x /\ Sign(x) = 1 /\ Operand(x) = x
      BY <1>5 DEF Magnitude, Sign, Operand, Signed
    <2>2. x \in Nat /\ x < n /\ x = 1 * x
      BY <1>1
    <2> QED
      BY <1>3, <2>1, <2>2 DEF n
  <1> QED
    BY <1>4, <1>5

Loaded ==
    /\ Types /\ quotient = 0 /\ quotient_msk = 2^(W - 1) /\ dividend = Magnitude(pcpi_rs1)
    /\ divisor = (Magnitude(pcpi_rs2) * 2^(W - 1)) % 2^(2*W - 1)

LEMMA DivLoaded == Loaded => BitsLeft(W)
  <1> SUFFICES ASSUME Loaded PROVE BitsLeft(W)
    OBVIOUS
  <1> USE DEF Loaded
  <1> DEFINE n == 2^W
             h == 2^(W - 1)
             A == Magnitude(pcpi_rs1)
             B == Magnitude(pcpi_rs2)
  <1>1. /\ n \in Nat \ {0} /\ h \in Nat \ {0} /\ A \in Nat /\ A < n /\ B \in Nat /\ B < n
        /\ 2^(2*W - 1) = n * h
    BY WordSizes, Magnitudes DEF Types
  <1> HIDE DEF n, h, A, B
  <1>2. (B * h) % (n * h) = B * h
    <2> DEFINE x == B * h
               m == n * h
    <2>1. m = x + (n - B) * h /\ (n - B) * h > 0 /\ (n - B) * h \in Int /\ x >= 0 /\ x \in Int
      BY <1>1
    <2> HIDE DEF x, m
    <2>2. m \in Nat \ {0} /\ x \in 0 .. m - 1
      BY <2>1
    <2>3. x % m = x
      BY <2>2, SmallMod
    <2> QED
      BY <2>3 DEF x, m
  <1>3. divisor = B * h
    BY <1>1, <1>2 DEF B, h
  <1>4. B # 0 => A < n * B
    <2>1. n * B = n + n * (B - 1) /\ n * (B - 1) \in Int
      BY <1>1
    <2>2. B # 0 => n * (B - 1) >= 0
      BY <1>1
    <2> QED
      BY <1>1, <2>1, <2>2
  <1>5. dividend + quotient * B = A /\ n - n = 0
    BY <1>1 DEF A
  <1> QED
    BY <1>3, <1>4, <1>5, Widths DEF BitsLeft, n, h, A, B

LEMMA DivStepped ==
    ASSUME Types, NEW p \in 0 .. W, BitsLeft(p), quotient_msk # 0,
           NEW d, NEW q,
           d = IF divisor <= dividend THEN dividend - divisor ELSE dividend,
           q = IF divisor <= dividend THEN quotient + quotient_msk ELSE quotient
    PROVE  LET A == Magnitude(pcpi_rs1)
               B == Magnitude(pcpi_rs2)
           IN  /\ p - 1 \in 0 .. W /\ d \in Nat /\ q \in Nat
               /\ divisor \div 2 \in Nat /\ quotient_msk \div 2 \in Nat
               /\ quotient_msk \div 2 = IF p - 1 = 0 THEN 0 ELSE 2^(p - 1 - 1)
               /\ p - 1 # 0 => divisor \div 2 = B * 2^(p - 1 - 1)
               /\ d + q * B = A
               /\ IF B = 0 THEN q = 2^W - 2^(p - 1) ELSE d < 2^(p - 1) * B
  <1> DEFINE A == Magnitude(pcpi_rs1)
             B == Magnitude(pcpi_rs2)
             b == 2^(p - 1)
             n == 2^W
  <1>1. A \in Nat /\ B \in Nat
    BY Magnitudes DEF Types
  <1>2. p # 0 /\ p - 1 \in 0 .. W /\ p \in Nat
    <2>1. p # 0
      BY DEF BitsLeft
    <2> QED
      BY <2>1, Widths
  <1>3. b \in Nat \ {0} /\ 2^p = 2 * b /\ n \in Nat
    <2>1. PICK k \in Nat : k = p - 1 /\ k + 1 = p
      BY <1>2
    <2>2. 2^k \in Nat \ {0} /\ 2^(k + 1) = 2 * 2^k
      BY <2>1, Powers, Doubles
    <2> QED
      BY <2>1, <2>2, WordSizes
  <1>4. /\ quotient_msk = b /\ divisor = B * b /\ dividend + quotient * B = A
        /\ B = 0 => quotient = n - 2^p
        /\ B # 0 => dividend < 2^p * B
    BY <1>2 DEF BitsLeft
  <1>5. dividend \in Nat /\ divisor \in Nat /\ quotient \in Nat
    BY DEF Types
  <1> HIDE DEF A, B, b, n
  <1>6. d \in Nat /\ q \in Nat
    BY <1>3, <1>4, <1>5
  <1>7. divisor \div 2 \in Nat /\ quotient_msk \div 2 \in Nat
    BY <1>3, <1>4, <1>5
  <1>8. /\ quotient_msk \div 2 = IF p - 1 = 0 THEN 0 ELSE 2^(p - 1 - 1)
        /\ p - 1 # 0 => divisor \div 2 = B * 2^(p - 1 - 1)
    <2>1. CASE p - 1 = 0
      <3>1. b = 1
        BY <2>1, Powers DEF b
      <3> QED
        BY <1>4, <2>1, <3>1
    <2>2. CASE p - 1 # 0
      <3>1. PICK k \in Nat : k = p - 1 - 1 /\ k + 1 = p - 1
        BY <1>2, <2>2
      <3> DEFINE c == 2^k
      <3>2. c \in Nat \ {0} /\ b = 2 * c
        BY <3>1, Powers, Doubles DEF b
      <3>3. 2^(p - 1 - 1) = c
        BY <3>1
      <3> HIDE DEF c
      <3>4. b \div 2 = c
        BY <3>2
      <3>5. B * b = 2 * (B * c) /\ B * c \in Nat
        BY <1>1, <3>2
      <3>6. (B * b) \div 2 = B * c
        BY <3>5
      <3> QED
        BY <1>4, <2>2, <3>3, <3>4, <3>6
    <2> QED
      BY <2>1, <2>2
  <1>9. d + q * B = A
    <2>1. (quotient + b) * B = quotient * B + B * b /\ quotient * B \in Int /\ B * b \in Int
      BY <1>1, <1>3, <1>5
    <2>2. CASE divisor <= dividend
      BY <1>4, <1>5, <2>1, <2>2
    <2>3. CASE ~(divisor <= dividend)
      BY <1>4, <2>3
    <2> QED
      BY <2>2, <2>3
  <1>10. B = 0 => q = n - b
    <2>1. B = 0 => B * b = 0
      BY <1>3
    <2> QED
      BY <1>3, <1>4, <1>5, <2>1
  <1>11. B # 0 => d < b * B
    <2>1. (2 * b) * B = B * b + B * b /\ b * B = B * b /\ B * b \in Int
      BY <1>1, <1>3
    <2> QED
      BY <1>3, <1>4, <1>5, <2>1
  <1> QED
    BY <1>2, <1>6, <1>7, <1>8, <1>9, <1>10, <1>11 DEF A, B, b, n

LEMMA DivResult ==
    ASSUME Types, instr \in DivInsns, outsign = SignOfResult, BitsLeft(0)
    PROVE  IsResult(LET r == IF instr \in {"div", "divu"} THEN quotient ELSE dividend
                    IN  IF outsign THEN Negated(r) ELSE r)
  <1> DEFINE n == 2^W
             A == Magnitude(pcpi_rs1)
             B == Magnitude(pcpi_rs2)
             s == Sign(pcpi_rs1)
             t == Sign(pcpi_rs2)
             a == Operand(pcpi_rs1)
             b == Operand(pcpi_rs2)
             byQuotient == instr \in {"div", "divu"}
             r == IF byQuotient THEN quotient ELSE dividend
             x == IF outsign THEN Negated(r) ELSE r
             q == (s * t) * quotient
  <1>1. /\ n \in Nat \ {0} /\ pcpi_rs1 \in Word /\ pcpi_rs2 \in Word
        /\ dividend \in Nat /\ quotient \in Nat
    BY WordSizes DEF Types
  <1>2. /\ A \in Nat /\ A < n /\ a = s * A /\ a \in Int /\ a % n = pcpi_rs1
        /\ B \in Nat /\ B < n /\ b = t * B /\ b \in Int /\ (B = 0 <=> pcpi_rs2 = 0)
    BY <1>1, Magnitudes
  <1>3. s \in {1, -1} /\ t \in {1, -1}
    BY DEF Sign
  <1>4. /\ dividend + quotient * B = A
        /\ B = 0 => quotient = n - 1
        /\ B # 0 => dividend < B
    <2>1. 2^0 = 1 /\ 1 * B = B
      BY <1>2, Powers
    <2> QED
      BY <2>1 DEF BitsLeft
  <1>5. \A y \in 0 .. n - 1 : y % n = y
    <2> HIDE DEF n
    <2> QED
      BY <1>1, SmallMod
  <1>6. x = IF outsign THEN (-r) % n ELSE r
    <2>1. r \in Int
      BY <1>1
    <2> HIDE DEF r
    <2> QED
      BY <2>1, NegatedIs
  <1>7. outsign <=> \/ instr = "div" /\ s # t /\ B # 0
                    \/ instr = "rem" /\ s = -1
    <2>1. outsign <=> \/ /\ instr = "div" /\ (pcpi_rs1 >= 2^(W - 1)) # (pcpi_rs2 >= 2^(W - 1))
                         /\ pcpi_rs2 # 0
                      \/ instr = "rem" /\ pcpi_rs1 >= 2^(W - 1)
      BY DEF SignOfResult, Negative
    <2>2. /\ s = IF instr \in {"div", "rem"} /\ pcpi_rs1 >= 2^(W - 1) THEN -1 ELSE 1
          /\ t = IF instr \in {"div", "rem"} /\ pcpi_rs2 >= 2^(W - 1) THEN -1 ELSE 1
      BY DEF Sign, Negative
    <2> HIDE DEF s, t, A, B
    <2> QED
      BY <1>2, <2>1, <2>2
  <1> HIDE DEF s, t, a, b, A, B, n, x
  <1>8. CASE B = 0
    <2>1. b = 0 /\ quotient * B = 0
      BY <1>1, <1>2, <1>3, <1>8
    <2>2. dividend = A
      BY <1>1, <1>4, <2>1
    <2>3. CASE byQuotient
      <3>1. ~outsign
        BY <1>7, <1>8, <2>3
      <3>2. x = n - 1
        BY <1>4, <1>6, <1>8, <2>3, <3>1
      <3> QED
        BY <2>1, <2>3, <3>2 DEF IsResult, Operand, x, n, b
    <2>4. CASE ~byQuotient
      <3>1. instr \in {"rem", "remu"}
        BY <2>4 DEF DivInsns
      <3>2. x = pcpi_rs1
        <4>1. CASE outsign
          <5>1. s = -1
            BY <1>7, <1>8, <4>1
          <5>2. a = -A
            BY <1>2, <5>1
          <5> QED
            BY <1>2, <1>6, <2>2, <2>4, <4>1, <5>2
        <4>2. CASE ~outsign
          <5>1. s = 1
            <6>1. instr # "rem" => s = 1
              BY <3>1 DEF s, Sign
            <6> QED
              BY <1>3, <1>7, <4>2, <6>1
          <5>2. a = A /\ A \in 0 .. n - 1
            BY <1>1, <1>2, <5>1
          <5>3. A % n = A
            BY <1>5, <5>2
          <5> QED
            BY <1>2, <1>6, <2>2, <2>4, <4>2, <5>2, <5>3
        <4> QED
          BY <4>1, <4>2
      <3> QED
        BY <2>1, <3>1, <3>2 DEF IsResult, Operand, x, n, b
    <2> QED
      BY <2>3, <2>4
  <1>9. CASE B # 0
    <2>1. quotient <= A /\ dividend <= A /\ quotient \in 0 .. n - 1 /\ dividend \in 0 .. n - 1
      <3>1. quotient * B = quotient + quotient * (B - 1) /\ quotient * (B - 1) >= 0
        BY <1>1, <1>2, <1>9
      <3>2. quotient * (B - 1) \in Int /\ quotient * B \in Int
        BY <1>1, <1>2
      <3>3. quotient <= A /\ dividend <= A
        BY <1>1, <1>2, <1>4, <3>1, <3>2
      <3> QED
        BY <1>1, <1>2, <3>3
    <2>2. q \in Int /\ q \in -n .. n
      BY <1>1, <1>3, <2>1
    <2>3. a - q * b = s * dividend
      <3>1. q * b = s * (quotient * B)
        <4>1. ((s * t) * quotient) * (t * B) = (s * (t * t)) * (quotient * B)
          <5>1. \A i, j, k, l \in Int : ((i * j) * k) * (j * l) = (i * (j * j)) * (k * l)
            OBVIOUS
          <5>2. s \in Int /\ t \in Int /\ quotient \in Int /\ B \in Int
            BY <1>1, <1>2, <1>3
          <5> QED
            BY <5>1, <5>2
        <4>2. t * t = 1 /\ s * 1 = s
          BY <1>3
        <4> QED
          BY <1>2, <4>1, <4>2
      <3>2. quotient * B \in Int
        BY <1>1, <1>2
      <3> DEFINE m == quotient * B
      <3> HIDE DEF m
      <3>3. a = s * (dividend + m) /\ q * b = s * m /\ m \in Int
        BY <1>2, <1>4, <3>1, <3>2 DEF m
      <3>4. a - q * b = s * dividend
        <4>1. CASE s = 1
          BY <1>1, <3>3, <4>1
        <4>2. CASE s = -1
          BY <1>1, <3>3, <4>2
        <4> QED
          BY <1>3, <4>1, <4>2
      <3> QED
        BY <3>4
    <2> HIDE DEF q
    <2>4. IsQuotient(q, a, b)
      <3> DEFINE u == a - q * b
      <3>1. u = s * dividend
        BY <2>3
      <3> HIDE DEF u
      <3>2. (IF u < 0 THEN -u ELSE u) = dividend
        BY <1>1, <1>3, <3>1
      <3>3. (IF b < 0 THEN -b ELSE b) = B
        BY <1>2, <1>3
      <3>4. a >= 0 => u >= 0
        <4>1. a >= 0 /\ s = -1 => A = 0
          BY <1>2
        <4> QED
          BY <1>1, <1>2, <1>3, <2>1, <3>1, <4>1
      <3>5. a <= 0 => u <= 0
        <4>1. a <= 0 /\ s = 1 => A = 0
          BY <1>2
        <4> QED
          BY <1>1, <1>2, <1>3, <2>1, <3>1, <4>1
      <3> QED
        BY <1>4, <1>9, <3>2, <3>3, <3>4, <3>5 DEF IsQuotient, u
    <2>5. b # 0
      BY <1>2, <1>3, <1>9
    <2>6. x = (IF byQuotient THEN q ELSE a - q * b) % n
      <3>1. CASE byQuotient
        <4>1. outsign <=> s # t
          <5>1. instr # "div" => s = 1 /\ t = 1
            BY <3>1 DEF s, t, Sign
          <5> QED
            BY <1>3, <1>7, <1>9, <3>1, <5>1
        <4>2. CASE outsign
          <5>1. q = -quotient
            BY <1>1, <1>3, <4>1, <4>2 DEF q
          <5> QED
            BY <1>6, <3>1, <4>2, <5>1
        <4>3. CASE ~outsign
          <5>1. q = quotient
            BY <1>1, <1>3, <4>1, <4>3 DEF q
          <5>2. quotient % n = quotient
            BY <1>5, <2>1
          <5> QED
            BY <1>6, <3>1, <4>3, <5>1, <5>2
        <4> QED
          BY <4>2, <4>3
      <3>2. CASE ~byQuotient
        <4>1. outsign <=> s = -1
          <5>1. instr # "rem" => s = 1
            BY <3>2 DEF s, Sign, DivInsns
          <5> QED
            BY <1>3, <1>7, <3>2, <5>1
        <4>2. CASE outsign
          <5>1. a - q * b = -dividend
            BY <1>1, <2>3, <4>1, <4>2
          <5> QED
            BY <1>6, <3>2, <4>2, <5>1
        <4>3. CASE ~outsign
          <5>1. a - q * b = dividend
            BY <1>1, <1>3, <2>3, <4>1, <4>3
          <5>2. dividend % n = dividend
            BY <1>5, <2>1
          <5> QED
            BY <1>6, <3>2, <4>3, <5>1, <5>2
        <4> QED
          BY <4>2, <4>3
      <3> QED
        BY <3>1, <3>2
    <2>7. \E w \in -n .. n : IsQuotient(w, a, b) /\ x = (IF byQuotient THEN w ELSE a - w * b) % n
      BY <2>2, <2>4, <2>6
    <2>8. \/ instr = "mul" /\ x = Product % n
          \/ instr_any_mulh /\ x = (Product \div n) % n
          \/ byQuotient /\ b = 0 /\ x = n - 1
          \/ instr \in {"rem", "remu"} /\ b = 0 /\ x = pcpi_rs1
          \/ /\ instr \in DivInsns /\ b # 0
             /\ \E w \in -n .. n : IsQuotient(w, a, b) /\ x = (IF byQuotient THEN w ELSE a - w * b) % n
      BY <2>5, <2>7
    <2> QED
      BY <2>8, Zenon DEF IsResult, Operand, x, n, a, b
  <1> QED
    BY <1>8, <1>9

-----------------------------------------------------------------------------
(* The steps keep the invariant.                                           *)

LEMMA NoCarries == Sparse(0)
  <1> SUFFICES ASSUME NEW j \in Chains PROVE Bits(0, j) \in {0, 1}
    BY DEF Sparse
  <1>1. j \in Nat /\ j + Chain \in Nat
    BY ChainPlaces, Widths
  <1>2. \A x \in Int : \A e \in Nat : j + Chain <= e /\ x % 2^e = 0 => Bits(x, j) = 0
    BY <1>1, ChainBits
  <1>3. \A x \in Int : x = 0 => x % 2^(j + Chain) = 0
    <2> DEFINE n == 2^(j + Chain)
    <2>1. n \in Nat \ {0}
      BY <1>1, Powers
    <2> HIDE DEF n
    <2>2. \A x \in 0 .. n - 1 : x % n = x
      BY <2>1, SmallMod
    <2>3. \A x \in Int : x = 0 => x % n = 0
      BY <2>1, <2>2
    <2> QED
      BY <2>3 DEF n
  <1>4. \A x \in Int : x = 0 => Bits(x, j) = 0
    BY <1>1, <1>2, <1>3
  <1> QED
    BY <1>4

LEMMA InitHolds ==
    ASSUME Init
    PROVE  IInv
  <1>1. 0 \in Double
    BY WordSizes DEF Double
  <1>2. Types
    <2>1. /\ instr \in MulInsns \cup DivInsns /\ pcpi_rs1 \in Word /\ pcpi_rs2 \in Word
          /\ mul_counter \in Int /\ rd \in Double /\ rdx \in Double /\ rs1 \in Double /\ rs2 \in Double
          /\ dividend \in Nat /\ divisor \in Nat /\ quotient \in Nat /\ quotient_msk \in Nat
      BY <1>1 DEF Init
    <2>2. /\ started \in BOOLEAN /\ mul_waiting \in BOOLEAN /\ mul_finish \in BOOLEAN
          /\ running \in BOOLEAN /\ outsign \in BOOLEAN /\ pcpi_ready \in BOOLEAN
      BY DEF Init
    <2> QED
      BY <2>1, <2>2 DEF Types
  <1>3. Phase
    BY DEF Phase, Init, Idle
  <1>4. MulInv
    BY NoCarries DEF MulInv, Init
  <1>5. DivInv /\ AnswerInv
    BY DEF DivInv, AnswerInv, Init
  <1> QED
    BY <1>2, <1>3, <1>4, <1>5 DEF IInv

LEMMA BottomIs == Bottom \in Nat /\ Bottom <= 2*W
  BY Widths DEF Bottom

LEMMA MulLoadHolds ==
    ASSUME IInv, MulLoad
    PROVE  IInv'
  <1> USE DEF request, divVars, answer
  <1>1. Types /\ Phase
    BY DEF IInv
  <1>2. /\ instr \in MulInsns /\ ~started /\ started' = TRUE
        /\ rs1' = First /\ rs2' = Second /\ rd' = 0 /\ rdx' = 0
        /\ mul_counter' = Bottom - 1 - STEPS_AT_ONCE
        /\ mul_waiting' = FALSE
        /\ UNCHANGED <<instr, pcpi_rs1, pcpi_rs2, mul_finish, running, outsign, dividend, divisor,
                       quotient, quotient_msk, pcpi_ready, pcpi_rd>>
    BY Widths DEF MulLoad, First, Second, Bottom
  <1>3. ~mul_finish /\ ~running /\ ~pcpi_ready
    BY <1>1, <1>2 DEF Phase
  <1>4. 0 \in Double
    BY WordSizes DEF Double
  <1>5. mul_counter' \in Int
    BY <1>2, BottomIs, Widths
  <1>6. Types'
    BY <1>1, <1>2, <1>4, <1>5, Operands DEF Types
  <1>7. Phase'
    BY <1>2, <1>3 DEF Phase
  <1>8. MulInv'
    <2>1. Sparse(rdx)'
      BY <1>2, NoCarries DEF Sparse
    <2>2. StepsDone' = 0
      <3>1. Bottom' = Bottom
        BY <1>2 DEF Bottom, instr_any_mulh
      <3>2. StepsDone' = Bottom - 1 - STEPS_AT_ONCE - (Bottom - 1 - STEPS_AT_ONCE)
        BY <1>2, <3>1 DEF StepsDone
      <3> QED
        BY <3>2, BottomIs, Widths
    <2>3. Cleared(Accumulator, StepsDone)'
      <3>1. Accumulator' = [rd |-> 0, rdx |-> 0, rs1 |-> First, rs2 |-> Second]
        BY <1>2 DEF Accumulator
      <3> DEFINE c == [rd |-> 0, rdx |-> 0, rs1 |-> First, rs2 |-> Second]
      <3>2. c.rs2 \in Int /\ c.rdx \in Int
        BY <1>1, Operands, WordSizes DEF Double
      <3> HIDE DEF c
      <3>3. Cleared(c, 0)
        <4> SUFFICES ASSUME NEW e \in 0 .. 2*W, e <= 0 PROVE c.rs2 % 2^e = 0 /\ c.rdx % 2^e = 0
          BY DEF Cleared
        <4>1. e = 0
          BY Widths
        <4> QED
          BY <3>2, <4>1, Multiples
      <3> QED
        BY <2>2, <3>1, <3>3 DEF c, Cleared
    <2>4. Total(Accumulator)' = (Product % 2^(2*W))'
      <3>1. Total(Accumulator)' = (0 + 0 + First * Second) % 2^(2*W)
        BY <1>2 DEF Total, Accumulator
      <3>2. First * Second \in Int
        BY <1>1, Operands, WordSizes DEF Double
      <3>3. 0 + 0 + First * Second = First * Second
        BY <3>2
      <3>4. Product' = Product
        BY <1>2 DEF Product, instr_rs1_signed, instr_rs2_signed, Signed, Negative
      <3> QED
        BY <1>1, <3>1, <3>3, <3>4, Operands
    <2> QED
      BY <1>2, <1>3, <2>1, <2>2, <2>3, <2>4 DEF MulInv
  <1>9. DivInv' /\ AnswerInv'
    BY <1>2, <1>3 DEF DivInv, AnswerInv
  <1> QED
    BY <1>6, <1>7, <1>8, <1>9 DEF IInv

LEMMA MulIterateHolds ==
    ASSUME IInv, MulIterate
    PROVE  IInv'
  <1> USE DEF request, divVars, answer
  <1> DEFINE c == MulSteps
             N == STEPS_AT_ONCE
  <1>1. Types /\ Phase /\ MulInv
    BY DEF IInv
  <1>2. /\ ~mul_waiting /\ rd' = c.rd /\ rdx' = c.rdx /\ rs1' = c.rs1 /\ rs2' = c.rs2
        /\ mul_counter' = mul_counter - N
        /\ mul_finish' = (mul_counter < 0) /\ mul_waiting' = (mul_counter < 0)
        /\ UNCHANGED <<instr, pcpi_rs1, pcpi_rs2, started, running, outsign, dividend, divisor,
                       quotient, quotient_msk, pcpi_ready, pcpi_rd>>
    BY DEF MulIterate
  <1>3. instr \in MulInsns /\ started /\ ~running /\ ~pcpi_ready
    <2>1. instr \in MulInsns /\ started /\ ~pcpi_ready
      BY <1>1, <1>2 DEF Phase, Idle
    <2> QED
      BY <1>1, <2>1 DEF Phase, MulInsns, DivInsns
  <1>4. Accumulator \in Registers
    BY <1>1 DEF Types, Accumulator, Registers
  <1>5. /\ Sparse(rdx) /\ StepsDone \in Nat /\ Cleared(Accumulator, StepsDone)
        /\ Total(Accumulator) = Product % 2^(2*W)
    BY <1>1, <1>2 DEF MulInv
  <1>6. /\ c \in Registers /\ Sparse(c.rdx) /\ Total(c) = Total(Accumulator)
        /\ Cleared(c, StepsDone + N)
    BY <1>4, <1>5, StepsMove
  <1> HIDE DEF c
  <1>7. Accumulator' = c
    BY <1>2, <1>6 DEF Accumulator, Registers
  <1>8. mul_counter \in Int /\ mul_counter' \in Int /\ mul_finish' \in BOOLEAN /\ mul_waiting' \in BOOLEAN
    BY <1>1, <1>2, Widths DEF Types
  <1>9. Types'
    BY <1>1, <1>2, <1>6, <1>8 DEF Types, Registers
  <1>10. Phase'
    BY <1>2, <1>3, <1>8 DEF Phase
  <1>11. Bottom' = Bottom /\ Bottom \in Nat
    BY <1>2, BottomIs DEF Bottom, instr_any_mulh
  <1>12. StepsDone' = StepsDone + N
    BY <1>2, <1>8, <1>11, Widths DEF StepsDone
  <1>13. MulInv'
    <2>1. Sparse(rdx)'
      BY <1>2, <1>6 DEF Sparse
    <2>2. StepsDone' \in Nat /\ Cleared(Accumulator, StepsDone)'
      BY <1>5, <1>6, <1>7, <1>12, Widths DEF Cleared
    <2>3. mul_finish' => Cleared(Accumulator, Bottom)'
      <3> SUFFICES ASSUME mul_finish' PROVE Cleared(Accumulator, Bottom)'
        OBVIOUS
      <3>1. Bottom <= StepsDone + N
        <4>1. mul_counter < 0
          BY <1>2
        <4> QED
          BY <1>8, <1>11, <4>1, Widths DEF StepsDone
      <3>2. StepsDone + N \in Int
        BY <1>5, Widths
      <3>3. Cleared(c, Bottom)
        <4> SUFFICES ASSUME NEW e \in 0 .. 2*W, e <= Bottom PROVE c.rs2 % 2^e = 0 /\ c.rdx % 2^e = 0
          BY DEF Cleared
        <4>1. e <= StepsDone + N
          BY <1>11, <3>1, <3>2, Widths
        <4> QED
          BY <1>6, <4>1 DEF Cleared
      <3> QED
        BY <1>7, <1>11, <3>3 DEF Cleared
    <2>4. Total(Accumulator)' = (Product % 2^(2*W))'
      <3>1. Product' = Product
        BY <1>2 DEF Product, instr_rs1_signed, instr_rs2_signed, Signed, Negative
      <3>2. Total(Accumulator)' = Total(c)
        BY <1>7 DEF Total
      <3> QED
        BY <1>5, <1>6, <3>1, <3>2
    <2> QED
      BY <2>1, <2>2, <2>3, <2>4 DEF MulInv
  <1>14. DivInv' /\ AnswerInv'
    BY <1>2, <1>3 DEF DivInv, AnswerInv
  <1> QED
    BY <1>9, <1>10, <1>13, <1>14 DEF IInv

LEMMA SameResult ==
    ASSUME UNCHANGED request, IsResult(pcpi_rd')
    PROVE  IsResult(pcpi_rd)'
  <1>1. instr' = instr /\ pcpi_rs1' = pcpi_rs1 /\ pcpi_rs2' = pcpi_rs2
    BY DEF request
  <1>2. Product' = Product /\ instr_any_mulh' = instr_any_mulh
    BY <1>1 DEF Product, instr_rs1_signed, instr_rs2_signed, instr_any_mulh, Signed, Negative
  <1>3. Signed(pcpi_rs1)' = Signed(pcpi_rs1) /\ Signed(pcpi_rs2)' = Signed(pcpi_rs2)
    BY <1>1 DEF Signed, Negative
  <1> QED
    BY <1>1, <1>2, <1>3 DEF IsResult

LEMMA MulAnswerHolds ==
    ASSUME IInv, MulAnswer
    PROVE  IInv'
  <1> USE DEF request, divVars, answer
  <1>1. Types /\ Phase /\ MulInv
    BY DEF IInv
  <1>2. /\ mul_finish /\ mul_finish' = FALSE /\ pcpi_ready' = TRUE
        /\ pcpi_rd' = IF instr_any_mulh THEN rd \div 2^W ELSE rd % 2^W
        /\ UNCHANGED <<instr, pcpi_rs1, pcpi_rs2, started, mul_waiting, mul_counter, rs1, rs2, rd, rdx,
                       running, outsign, dividend, divisor, quotient, quotient_msk>>
    BY DEF MulAnswer
  <1>3. instr \in MulInsns /\ started /\ ~running /\ mul_waiting
    <2>1. instr \in MulInsns /\ started /\ mul_waiting
      BY <1>1, <1>2 DEF Phase
    <2> QED
      BY <1>1, <2>1 DEF Phase, MulInsns, DivInsns
  <1>4. Types'
    BY <1>1, <1>2 DEF Types
  <1>5. Phase'
    BY <1>2, <1>3 DEF Phase, Idle
  <1>6. MulInv'
    <2>1. Sparse(rdx)'
      BY <1>1, <1>2 DEF Sparse, MulInv
    <2> QED
      BY <1>2, <1>3, <2>1 DEF MulInv
  <1>7. AnswerInv'
    <2>1. IsResult(IF instr_any_mulh THEN rd \div 2^W ELSE rd % 2^W)
      BY <1>1, <1>2, <1>3, MulResult DEF MulInv
    <2>2. IsResult(pcpi_rd)'
      BY <1>2, <2>1, SameResult
    <2> QED
      BY <2>2 DEF AnswerInv
  <1>8. DivInv'
    BY <1>2, <1>3 DEF DivInv
  <1> QED
    BY <1>4, <1>5, <1>6, <1>7, <1>8 DEF IInv

\* What the multiplier has is as it was.
LEMMA MulUntouched ==
    ASSUME MulInv, UNCHANGED <<request, mulVars>>
    PROVE  MulInv'
  <1>1. UNCHANGED <<instr, pcpi_rs1, pcpi_rs2, mul_waiting, mul_finish, mul_counter, rs1, rs2, rd, rdx>>
    BY DEF request, mulVars
  <1>2. Product' = Product /\ Bottom' = Bottom /\ Accumulator' = Accumulator
    BY <1>1 DEF Product, instr_rs1_signed, instr_rs2_signed, Signed, Negative, Bottom, instr_any_mulh,
                Accumulator
  <1>3. StepsDone' = StepsDone
    BY <1>1, <1>2 DEF StepsDone
  <1>4. Total(Accumulator)' = Total(Accumulator)
    BY <1>2 DEF Total
  <1>5. Sparse(rdx)' = Sparse(rdx)
    BY <1>1 DEF Sparse
  <1>6. /\ Cleared(Accumulator, StepsDone)' = Cleared(Accumulator, StepsDone)
        /\ Cleared(Accumulator, Bottom)' = Cleared(Accumulator, Bottom)
    BY <1>2, <1>3 DEF Cleared
  <1> QED
    BY <1>1, <1>2, <1>3, <1>4, <1>5, <1>6 DEF MulInv

LEMMA DivStartHolds ==
    ASSUME IInv, DivStart
    PROVE  IInv'
  <1> USE DEF request, mulVars, answer
  <1>1. Types /\ Phase /\ MulInv
    BY DEF IInv
  <1>2. /\ instr \in DivInsns /\ ~started /\ started' = TRUE /\ running' = TRUE
        /\ dividend' = Magnitude(pcpi_rs1)
        /\ divisor' = (Magnitude(pcpi_rs2) * 2^(W - 1)) % 2^(2*W - 1)
        /\ outsign' = \/ instr = "div" /\ Negative(pcpi_rs1) # Negative(pcpi_rs2) /\ pcpi_rs2 # 0
                      \/ instr = "rem" /\ Negative(pcpi_rs1)
        /\ quotient' = 0 /\ quotient_msk' = 2^(W - 1)
        /\ UNCHANGED <<instr, pcpi_rs1, pcpi_rs2, mul_waiting, mul_finish, mul_counter, rs1, rs2, rd, rdx,
                       pcpi_ready, pcpi_rd>>
    BY DEF DivStart
  <1>3. mul_waiting /\ ~mul_finish /\ ~pcpi_ready
    BY <1>1, <1>2 DEF Phase
  <1>4. Magnitude(pcpi_rs1)' = Magnitude(pcpi_rs1) /\ Magnitude(pcpi_rs2)' = Magnitude(pcpi_rs2)
    BY <1>2 DEF Magnitude, Negated, Negative
  <1>5. divisor' \in Nat /\ dividend' \in Nat /\ quotient_msk' \in Nat /\ outsign' \in BOOLEAN
    <2> DEFINE y == Magnitude(pcpi_rs2) * 2^(W - 1)
               m == 2^(2*W - 1)
    <2>1. m \in Nat \ {0} /\ 2^(W - 1) \in Nat
      BY WordSizes
    <2>2. Magnitude(pcpi_rs1) \in Nat /\ y \in Int
      BY <1>1, <2>1, Magnitudes DEF Types
    <2> HIDE DEF y, m
    <2>3. y % m \in 0 .. m - 1
      BY <2>1, <2>2, DivMod
    <2>4. y % m \in Nat
      BY <2>1, <2>3
    <2> QED
      BY <1>2, <2>1, <2>2, <2>4 DEF y, m
  <1>6. Types'
    BY <1>1, <1>2, <1>5 DEF Types
  <1>7. Phase'
    BY <1>2, <1>3 DEF Phase, MulInsns, DivInsns
  <1>8. MulInv'
    BY <1>1, <1>2, MulUntouched
  <1>9. DivInv'
    <2>1. Loaded'
      BY <1>2, <1>4, <1>6 DEF Loaded
    <2>2. BitsLeft(W)'
      BY <2>1, DivLoaded, PTL
    <2>3. outsign' = SignOfResult'
      BY <1>2 DEF SignOfResult, Negative
    <2>4. W \in 0 .. W
      BY Widths
    <2> QED
      BY <2>2, <2>3, <2>4 DEF DivInv
  <1>10. AnswerInv'
    BY <1>2, <1>3 DEF AnswerInv
  <1> QED
    BY <1>6, <1>7, <1>8, <1>9, <1>10 DEF IInv

LEMMA DivIterateHolds ==
    ASSUME IInv, DivIterate
    PROVE  IInv'
  <1> USE DEF request, mulVars, answer
  <1>1. Types /\ Phase /\ MulInv /\ DivInv
    BY DEF IInv
  <1> DEFINE d == IF divisor <= dividend THEN dividend - divisor ELSE dividend
             q == IF divisor <= dividend THEN quotient + quotient_msk ELSE quotient
  <1>2. /\ running /\ quotient_msk # 0 /\ dividend' = d /\ quotient' = q
        /\ divisor' = divisor \div 2 /\ quotient_msk' = quotient_msk \div 2
        /\ UNCHANGED <<instr, pcpi_rs1, pcpi_rs2, started, running, outsign, mul_waiting, mul_finish,
                       mul_counter, rs1, rs2, rd, rdx, pcpi_ready, pcpi_rd>>
    BY DEF DivIterate
  <1>3. started /\ ~pcpi_ready
    BY <1>1, <1>2 DEF Phase, Idle
  <1>4. outsign = SignOfResult
    BY <1>1, <1>2 DEF DivInv
  <1>5. PICK p \in 0 .. W : BitsLeft(p)
    BY <1>1, <1>2 DEF DivInv
  <1> DEFINE A == Magnitude(pcpi_rs1)
             B == Magnitude(pcpi_rs2)
  <1>6. /\ p - 1 \in 0 .. W /\ d \in Nat /\ q \in Nat
        /\ divisor \div 2 \in Nat /\ quotient_msk \div 2 \in Nat
        /\ quotient_msk \div 2 = IF p - 1 = 0 THEN 0 ELSE 2^(p - 1 - 1)
        /\ p - 1 # 0 => divisor \div 2 = B * 2^(p - 1 - 1)
        /\ d + q * B = A
        /\ IF B = 0 THEN q = 2^W - 2^(p - 1) ELSE d < 2^(p - 1) * B
    <2>1. d = (IF divisor <= dividend THEN dividend - divisor ELSE dividend)
      OBVIOUS
    <2>2. q = IF divisor <= dividend THEN quotient + quotient_msk ELSE quotient
      OBVIOUS
    <2> HIDE DEF d, q
    <2> QED
      BY <1>1, <1>2, <1>5, <2>1, <2>2, DivStepped, Zenon
  <1> HIDE DEF d, q
  <1>7. A' = A /\ B' = B
    BY <1>2 DEF Magnitude, Negated, Negative
  <1>8. Types'
    BY <1>1, <1>2, <1>6 DEF Types
  <1>9. Phase'
    BY <1>1, <1>2, <1>3 DEF Phase
  <1>10. MulInv'
    BY <1>1, <1>2, MulUntouched
  <1>11. DivInv'
    <2>1. BitsLeft(p - 1)'
      BY <1>2, <1>6, <1>7 DEF BitsLeft
    <2>2. SignOfResult' = SignOfResult
      BY <1>2 DEF SignOfResult, Negative
    <2> QED
      BY <1>2, <1>4, <1>6, <2>1, <2>2 DEF DivInv
  <1>12. AnswerInv'
    BY <1>2, <1>3 DEF AnswerInv
  <1> QED
    BY <1>8, <1>9, <1>10, <1>11, <1>12 DEF IInv

LEMMA DivAnswerHolds ==
    ASSUME IInv, DivAnswer
    PROVE  IInv'
  <1> USE DEF request, mulVars, answer
  <1>1. Types /\ Phase /\ MulInv /\ DivInv
    BY DEF IInv
  <1> DEFINE x == LET r == IF instr \in {"div", "divu"} THEN quotient ELSE dividend
                  IN  IF outsign THEN Negated(r) ELSE r
  <1>2. /\ running /\ quotient_msk = 0 /\ running' = FALSE /\ pcpi_ready' = TRUE /\ pcpi_rd' = x
        /\ UNCHANGED <<instr, pcpi_rs1, pcpi_rs2, started, outsign, dividend, divisor, quotient,
                       quotient_msk, mul_waiting, mul_finish, mul_counter, rs1, rs2, rd, rdx>>
    BY DEF DivAnswer
  <1>3. instr \in DivInsns /\ started /\ mul_waiting /\ ~mul_finish
    <2>1. instr \in DivInsns /\ started
      BY <1>1, <1>2 DEF Phase
    <2> QED
      BY <1>1, <2>1 DEF Phase, MulInsns, DivInsns, Types
  <1>4. Types' /\ Phase'
    <2>1. Types'
      BY <1>1, <1>2 DEF Types
    <2>2. Phase'
      BY <1>2, <1>3 DEF Phase, Idle
    <2> QED
      BY <2>1, <2>2
  <1>5. MulInv'
    BY <1>1, <1>2, MulUntouched
  <1>6. DivInv'
    BY <1>2 DEF DivInv
  <1>7. AnswerInv'
    <2>1. PICK p \in 0 .. W : BitsLeft(p)
      BY <1>1, <1>2 DEF DivInv
    <2>2. p = 0
      <3>1. SUFFICES ASSUME p # 0 PROVE FALSE
        OBVIOUS
      <3>2. quotient_msk = 2^(p - 1)
        BY <2>1, <3>1 DEF BitsLeft
      <3>3. p - 1 \in Nat
        BY <3>1, Widths
      <3>4. 2^(p - 1) \in Nat \ {0}
        BY <3>3, Powers
      <3> QED
        BY <1>2, <3>2, <3>4
    <2>3. BitsLeft(0)
      BY <2>1, <2>2
    <2>4. outsign = SignOfResult
      BY <1>1, <1>2 DEF DivInv
    <2>5. IsResult(x)
      BY <1>1, <1>3, <2>3, <2>4, DivResult
    <2> HIDE DEF x
    <2>6. IsResult(pcpi_rd)'
      BY <1>2, <2>5, SameResult
    <2> QED
      BY <2>6 DEF AnswerInv
  <1> QED
    BY <1>4, <1>5, <1>6, <1>7 DEF IInv

LEMMA TakenHolds ==
    ASSUME IInv, Taken
    PROVE  IInv'
  <1> USE DEF request, mulVars, divVars
  <1>1. Types /\ Phase /\ MulInv /\ DivInv
    BY DEF IInv
  <1>2. /\ pcpi_ready' = FALSE
        /\ UNCHANGED <<instr, pcpi_rs1, pcpi_rs2, started, mul_waiting, mul_finish, mul_counter, rs1, rs2,
                       rd, rdx, running, outsign, dividend, divisor, quotient, quotient_msk>>
    BY DEF Taken
  <1>3. Types' /\ Phase'
    <2>1. Types'
      BY <1>1, <1>2 DEF Types
    <2>2. Phase'
      BY <1>1, <1>2 DEF Phase
    <2> QED
      BY <2>1, <2>2
  <1>4. MulInv'
    BY <1>1, <1>2, MulUntouched
  <1>5. DivInv'
    <2>1. SignOfResult' = SignOfResult
      BY <1>2 DEF SignOfResult, Negative
    <2>2. ASSUME NEW p \in 0 .. W, BitsLeft(p) PROVE BitsLeft(p)'
      BY <1>2, <2>2 DEF BitsLeft, Magnitude, Negated, Negative
    <2> QED
      BY <1>1, <1>2, <2>1, <2>2 DEF DivInv
  <1>6. AnswerInv'
    BY <1>2 DEF AnswerInv
  <1> QED
    BY <1>3, <1>4, <1>5, <1>6 DEF IInv

LEMMA OfferHolds ==
    ASSUME IInv, NEW op \in MulInsns \cup DivInsns, NEW a \in Word, NEW b \in Word, Offer(op, a, b)
    PROVE  IInv'
  <1> USE DEF mulVars, divVars
  <1>1. Types /\ MulInv
    BY DEF IInv
  <1>2. /\ mul_waiting /\ ~mul_finish /\ ~running
        /\ instr' = op /\ pcpi_rs1' = a /\ pcpi_rs2' = b /\ started' = FALSE /\ pcpi_ready' = FALSE
        /\ UNCHANGED <<mul_waiting, mul_finish, mul_counter, rs1, rs2, rd, rdx, running, outsign,
                       dividend, divisor, quotient, quotient_msk>>
    BY DEF Offer, Idle
  <1>3. Types'
    BY <1>1, <1>2 DEF Types
  <1>4. Phase'
    BY <1>2 DEF Phase
  <1>5. MulInv'
    <2>1. Sparse(rdx)'
      BY <1>1, <1>2 DEF Sparse, MulInv
    <2> QED
      BY <1>2, <2>1 DEF MulInv
  <1>6. DivInv' /\ AnswerInv'
    BY <1>2 DEF DivInv, AnswerInv
  <1> QED
    BY <1>3, <1>4, <1>5, <1>6 DEF IInv

LEMMA NothingHolds ==
    ASSUME IInv, UNCHANGED vars
    PROVE  IInv'
  <1>1. UNCHANGED <<request, started, mulVars, divVars, answer>>
    BY DEF vars
  <1> USE DEF request, mulVars, divVars, answer
  <1>2. Types /\ Phase /\ MulInv /\ DivInv /\ AnswerInv
    BY DEF IInv
  <1>3. UNCHANGED <<instr, pcpi_rs1, pcpi_rs2, started, mul_waiting, mul_finish, mul_counter, rs1, rs2,
                    rd, rdx, running, outsign, dividend, divisor, quotient, quotient_msk,
                    pcpi_ready, pcpi_rd>>
    BY <1>1
  <1>4. Types'
    BY <1>2, <1>3 DEF Types
  <1>5. Phase'
    BY <1>2, <1>3 DEF Phase, Idle
  <1>6. MulInv'
    BY <1>2, <1>3, MulUntouched
  <1>7. DivInv'
    <2>1. SignOfResult' = SignOfResult
      BY <1>3 DEF SignOfResult, Negative
    <2>2. ASSUME NEW p \in 0 .. W, BitsLeft(p) PROVE BitsLeft(p)'
      BY <1>3, <2>2 DEF BitsLeft, Magnitude, Negated, Negative
    <2> QED
      BY <1>2, <1>3, <2>1, <2>2 DEF DivInv
  <1>8. AnswerInv'
    BY <1>2, <1>3, SameResult DEF AnswerInv
  <1> QED
    BY <1>4, <1>5, <1>6, <1>7, <1>8 DEF IInv

\* The invariant: the sum of the accumulator, the sparseness of its carries, how
\* far they have moved up, and the bits of the quotient still to come.
THEOREM Invariant == Spec => []IInv
  <1>1. IInv /\ [Next \/ Core]_vars => IInv'
    <2> SUFFICES ASSUME IInv, [Next \/ Core]_vars PROVE IInv'
      OBVIOUS
    <2>1. CASE MulLoad
      BY <2>1, MulLoadHolds
    <2>2. CASE MulIterate
      BY <2>2, MulIterateHolds
    <2>3. CASE MulAnswer
      BY <2>3, MulAnswerHolds
    <2>4. CASE DivStart
      BY <2>4, DivStartHolds
    <2>5. CASE DivIterate
      BY <2>5, DivIterateHolds
    <2>6. CASE DivAnswer
      BY <2>6, DivAnswerHolds
    <2>7. CASE Taken
      BY <2>7, TakenHolds
    <2>8. ASSUME NEW op \in MulInsns \cup DivInsns, NEW a \in Word, NEW b \in Word, Offer(op, a, b)
          PROVE  IInv'
      BY <2>8, OfferHolds
    <2>9. CASE UNCHANGED vars
      BY <2>9, NothingHolds
    <2> QED
      BY <2>1, <2>2, <2>3, <2>4, <2>5, <2>6, <2>7, <2>8, <2>9 DEF Next, Core
  <1> QED
    BY <1>1, InitHolds, PTL DEF Spec

LEMMA Parts ==
    ASSUME IInv
    PROVE  PartialResults
  <1>1. Types /\ MulInv /\ DivInv /\ AnswerInv
    BY DEF IInv
  <1>2. SumIsProduct
    BY <1>1 DEF SumIsProduct, MulInv, Total, Accumulator
  <1>3. QuotientAndRest
    <2> DEFINE A == Magnitude(pcpi_rs1)
               B == Magnitude(pcpi_rs2)
    <2> SUFFICES ASSUME running
                 PROVE  /\ dividend + quotient * B = A
                        /\ pcpi_rs2 # 0 => dividend < 2 * quotient_msk * B \/ dividend < B
      BY DEF QuotientAndRest
    <2>1. PICK p \in 0 .. W : BitsLeft(p)
      BY <1>1 DEF DivInv
    <2>2. B \in Nat /\ (pcpi_rs2 # 0 => B # 0)
      BY <1>1, Magnitudes DEF Types
    <2>3. /\ quotient_msk = IF p = 0 THEN 0 ELSE 2^(p - 1)
          /\ dividend + quotient * B = A
          /\ B # 0 => dividend < 2^p * B
      BY <2>1 DEF BitsLeft
    <2>4. CASE p = 0
      <3>1. 2^p * B = B
        BY <2>2, <2>4, Powers
      <3> QED
        BY <2>2, <2>3, <3>1
    <2>5. CASE p # 0
      <3>1. PICK k \in Nat : k = p - 1 /\ k + 1 = p
        BY <2>5, Widths
      <3>2. 2^p = 2 * 2^(p - 1)
        BY <3>1, Doubles
      <3> QED
        BY <2>2, <2>3, <2>5, <3>2
    <2> QED
      BY <2>4, <2>5
  <1>4. pcpi_ready => IsResult(pcpi_rd)
    BY <1>1 DEF AnswerInv
  <1> QED
    BY <1>2, <1>3, <1>4 DEF PartialResults

\* pcpi_mul and pcpi_div keep, in every cycle, a sum that is the product and a
\* quotient and rest that make up the dividend, and answer what the instruction
\* asks for: for words of any width, chains of any length that divides the
\* product's, and any number of steps in a cycle.
THEOREM PartialResultsRight == Spec => []PartialResults
  BY Invariant, Parts, PTL

-----------------------------------------------------------------------------
(* The test for a zero in a word, for bytes of any width.                  *)

R == 2^BYTE_BITS
H == 2^(BYTE_BITS - 1)
Bytes == 0 .. R - 1

\* The word of four bytes, and the bytes of its difference from another one: each
\* takes what the one below borrowed.
Joined(b0, b1, b2, b3) == b0 + R * (b1 + R * (b2 + R * b3))
Lent(b, c) == IF b - 1 - c < 0 THEN 1 ELSE 0
Rest(b, c) == IF b - 1 - c < 0 THEN (b - 1 - c) + R ELSE b - 1 - c

\* The values of a byte and of its top bit.
LEMMA ByteWidths ==
    /\ R \in Nat \ {0} /\ H \in Nat \ {0} /\ R = 2 * H
    /\ 2^(2*BYTE_BITS) = R * R /\ 2^(3*BYTE_BITS) = R * (R * R) /\ 2^(4*BYTE_BITS) = (R * R) * (R * R)
    /\ 2^(0*BYTE_BITS + BYTE_BITS - 1) = H /\ 2^(1*BYTE_BITS + BYTE_BITS - 1) = R * H
    /\ 2^(2*BYTE_BITS + BYTE_BITS - 1) = (R * R) * H
    /\ 2^(3*BYTE_BITS + BYTE_BITS - 1) = (R * (R * R)) * H
<1> DEFINE B == BYTE_BITS
<1>0. B \in Nat /\ B >= 1 /\ B - 1 \in Nat /\ 2*B \in Nat /\ 3*B \in Nat BY BytesAssumption
<1> DEFINE top == B - 1
<1> DEFINE two == 2*B
<1> DEFINE three == 3*B
<1>1. /\ top \in Nat /\ two \in Nat /\ three \in Nat
      /\ top + 1 = B /\ B + B = two /\ B + two = three /\ two + two = 4*B
      /\ 0*B + B - 1 = top /\ 1*B + B - 1 = B + top /\ 2*B + B - 1 = two + top
      /\ 3*B + B - 1 = three + top
    BY <1>0
<1>2. /\ 2^(top + 1) = 2 * 2^top
      /\ 2^(B + B) = 2^B * 2^B /\ 2^(B + two) = 2^B * 2^two /\ 2^(two + two) = 2^two * 2^two
      /\ 2^(B + top) = 2^B * 2^top /\ 2^(two + top) = 2^two * 2^top
      /\ 2^(three + top) = 2^three * 2^top
  <2>1. B \in Nat BY <1>0
  <2> HIDE DEF B, top, two, three
  <2>2. \A m, n \in Nat : 2^(m + n) = 2^m * 2^n BY Powers
  <2>3. top \in Nat /\ two \in Nat /\ three \in Nat BY <1>1
  <2>4. 2^(top + 1) = 2 * 2^top BY <2>3, Doubles
  <2> QED BY <2>1, <2>2, <2>3, <2>4, Zenon
<1>3. 2^B \in Nat \ {0} /\ 2^top \in Nat \ {0}
  <2>1. B \in Nat BY <1>0
  <2> HIDE DEF B, top
  <2> QED BY <1>1, <2>1, Powers
<1>4. 2^B = R /\ 2^top = H BY DEF R, H
<1> QED
  <2> HIDE DEF two, three, top
  <2>1. 2^two = R * R /\ 2^three = R * (R * R) BY <1>1, <1>2, <1>4
  <2>2. 2^(4*B) = (R * R) * (R * R) BY <1>1, <1>2, <2>1
  <2>3. R = 2 * H BY <1>1, <1>2, <1>4
  <2>4. /\ 2^(0*B + B - 1) = H /\ 2^(1*B + B - 1) = R * H /\ 2^(2*B + B - 1) = (R * R) * H
        /\ 2^(3*B + B - 1) = (R * (R * R)) * H
      BY <1>1, <1>2, <1>4, <2>1
  <2> QED BY <1>3, <1>4, <2>1, <2>2, <2>3, <2>4 DEF two, three

\* The top bit of the lowest byte, whatever is above it.
LEMMA TopOfByte ==
    ASSUME NEW d \in Bytes, NEW y \in Int
    PROVE  /\ (d + R * y) \div R = y /\ (d + R * y) % R = d
           /\ ((d + R * y) \div H) % 2 = IF d >= H THEN 1 ELSE 0
<1>0. R \in Nat \ {0} /\ H \in Nat \ {0} /\ R = 2 * H /\ d \in 0 .. R - 1 /\ d \in Int
    BY ByteWidths DEF Bytes
<1> DEFINE x == d + R * y
<1> DEFINE t == IF d >= H THEN 1 ELSE 0
<1> DEFINE r == d - H * t
<1>1. R * y \in Int /\ H * y \in Int /\ R * y = 2 * (H * y)
  <2> HIDE DEF R, H
  <2> QED BY <1>0
<1>2. x \in Int /\ x = R * y + d BY <1>0, <1>1
<1>3. x \div R = y /\ x % R = d
  <2> HIDE DEF R, x
  <2> QED BY <1>0, <1>2, DivModIs
<1>4. t \in 0 .. 1 /\ r \in 0 .. H - 1 /\ d = H * t + r
  <2> HIDE DEF R, H
  <2>1. CASE d >= H BY <1>0, <2>1
  <2>2. CASE ~(d >= H) BY <1>0, <2>2
  <2> QED BY <2>1, <2>2
<1>5. x = H * (2 * y + t) + r
  <2> HIDE DEF R, H, r, t
  <2>1. H * (2 * y + t) = 2 * (H * y) + H * t BY <1>0, <1>4
  <2> QED BY <1>0, <1>1, <1>2, <1>4, <2>1
<1>6. x \div H = 2 * y + t
  <2>1. 2 * y + t \in Int BY <1>4
  <2> HIDE DEF R, H, x, r, t
  <2> QED BY <1>0, <1>2, <1>4, <1>5, <2>1, DivModIs
<1>7. (2 * y + t) % 2 = t
  <2>1. t \in 0 .. 2 - 1 /\ 2 * y + t \in Int BY <1>4
  <2> HIDE DEF t
  <2> QED BY <2>1, DivModIs
<1> QED
  <2> HIDE DEF R, H, r
  <2> QED BY <1>3, <1>6, <1>7

LEMMA TopBitOfWord ==
    ASSUME NEW d0 \in Bytes, NEW d1 \in Bytes, NEW d2 \in Bytes, NEW d3 \in Bytes
    PROVE  LET w == Joined(d0, d1, d2, d3)
           IN  /\ w \in 0 .. (R * R) * (R * R) - 1
               /\ TopBit(w, 0) = IF d0 >= H THEN 1 ELSE 0
               /\ TopBit(w, 1) = IF d1 >= H THEN 1 ELSE 0
               /\ TopBit(w, 2) = IF d2 >= H THEN 1 ELSE 0
               /\ TopBit(w, 3) = IF d3 >= H THEN 1 ELSE 0
<1> DEFINE w == Joined(d0, d1, d2, d3)
<1> DEFINE w1 == d1 + R * (d2 + R * d3)
<1> DEFINE w2 == d2 + R * d3
<1>0. /\ R \in Nat \ {0} /\ H \in Nat \ {0}
      /\ d0 \in 0 .. R - 1 /\ d1 \in 0 .. R - 1 /\ d2 \in 0 .. R - 1 /\ d3 \in 0 .. R - 1
    BY ByteWidths DEF Bytes
<1>1. w2 \in Nat /\ w2 <= R * R - 1 /\ R * R \in Nat
  <2> HIDE DEF R
  <2>1. R * d3 \in Nat /\ R * d3 <= R * (R - 1) /\ R * (R - 1) = R * R - R BY <1>0
  <2> QED BY <1>0, <2>1
<1>2. w1 \in Nat /\ w1 <= R * (R * R) - 1 /\ R * (R * R) \in Nat
  <2> DEFINE square == R * R
  <2>1. w1 = d1 + R * w2 OBVIOUS
  <2> HIDE DEF R, w2, square, w1
  <2>2. square \in Nat /\ w2 \in Nat /\ w2 <= square - 1 BY <1>1 DEF square
  <2>3. R * w2 \in Nat /\ R * w2 <= R * (square - 1) /\ R * (square - 1) = R * square - R BY <1>0, <2>2
  <2>4. R * square \in Nat BY <1>0, <2>2
  <2> QED BY <1>0, <2>1, <2>3, <2>4 DEF square
<1>3. w \in 0 .. R * (R * (R * R)) - 1
  <2> DEFINE cube == R * (R * R)
  <2>1. w = d0 + R * w1 BY DEF Joined
  <2> HIDE DEF R, w1, cube, w
  <2>2. cube \in Nat /\ w1 \in Nat /\ w1 <= cube - 1 BY <1>2 DEF cube
  <2>3. R * w1 \in Nat /\ R * w1 <= R * (cube - 1) /\ R * (cube - 1) = R * cube - R BY <1>0, <2>2
  <2>4. R * cube \in Nat BY <1>0, <2>2
  <2> QED BY <1>0, <2>1, <2>3, <2>4 DEF cube
<1>4. R * (R * (R * R)) = (R * R) * (R * R)
  <2> HIDE DEF R
  <2> QED BY <1>0
<1>5. /\ w = d0 + R * w1 /\ w1 = d1 + R * w2 /\ w2 = d2 + R * d3
      /\ w \in Int /\ w1 \in Int /\ w2 \in Int /\ d3 \in Int /\ d3 = d3 + R * 0
  <2>1. w \in Int BY <1>3
  <2>2. R * 0 = 0 BY <1>0
  <2> QED BY <1>0, <1>1, <1>2, <2>1, <2>2 DEF Joined
<1>6. w \div R = w1 /\ w1 \div R = w2 /\ w2 \div R = d3
  <2> HIDE DEF R, H, w, w1, w2, Bytes
  <2> QED BY <1>5, TopOfByte
<1>7. /\ (w \div H) % 2 = IF d0 >= H THEN 1 ELSE 0
      /\ (w1 \div H) % 2 = IF d1 >= H THEN 1 ELSE 0
      /\ (w2 \div H) % 2 = IF d2 >= H THEN 1 ELSE 0
      /\ (d3 \div H) % 2 = IF d3 >= H THEN 1 ELSE 0
  <2> HIDE DEF R, H, w, w1, w2, Bytes
  <2>1. /\ ((d0 + R * w1) \div H) % 2 = IF d0 >= H THEN 1 ELSE 0
        /\ ((d1 + R * w2) \div H) % 2 = IF d1 >= H THEN 1 ELSE 0
        /\ ((d2 + R * d3) \div H) % 2 = IF d2 >= H THEN 1 ELSE 0
        /\ ((d3 + R * 0) \div H) % 2 = IF d3 >= H THEN 1 ELSE 0
      BY <1>5, TopOfByte
  <2> QED BY <1>5, <2>1, Zenon
<1>8. /\ w \div (R * H) = w1 \div H /\ w \div ((R * R) * H) = w2 \div H
      /\ w \div ((R * (R * R)) * H) = d3 \div H
  <2> HIDE DEF R, H, w, w1, w2, Bytes
  <2>1. R * R \in Nat \ {0} /\ R * (R * R) \in Nat \ {0} BY <1>0
  <2>2. w \div (R * R) = w2
    <3>1. (w \div R) \div R = w \div (R * R) BY <1>0, <1>5, ModSplit
    <3> QED BY <1>6, <3>1
  <2>3. w \div (R * (R * R)) = d3
    <3>1. w1 \div (R * R) = d3
      <4>1. (w1 \div R) \div R = w1 \div (R * R) BY <1>0, <1>5, ModSplit
      <4> QED BY <1>6, <4>1
    <3>2. (w \div R) \div (R * R) = w \div (R * (R * R)) BY <1>0, <1>5, <2>1, ModSplit
    <3> QED BY <1>6, <3>1, <3>2
  <2>4. \A n \in Nat \ {0} : (w \div n) \div H = w \div (n * H) BY <1>0, <1>5, ModSplit
  <2>5. /\ (w \div R) \div H = w \div (R * H)
        /\ (w \div (R * R)) \div H = w \div ((R * R) * H)
        /\ (w \div (R * (R * R))) \div H = w \div ((R * (R * R)) * H)
      BY <1>0, <2>1, <2>4, Zenon
  <2> QED BY <1>6, <2>2, <2>3, <2>5
<1>9. /\ TopBit(w, 0) = (w \div H) % 2 /\ TopBit(w, 1) = (w \div (R * H)) % 2
      /\ TopBit(w, 2) = (w \div ((R * R) * H)) % 2
      /\ TopBit(w, 3) = (w \div ((R * (R * R)) * H)) % 2
  <2> HIDE DEF R, H, w
  <2> QED BY ByteWidths DEF TopBit
<1>10. /\ TopBit(w, 0) = IF d0 >= H THEN 1 ELSE 0
       /\ TopBit(w, 1) = IF d1 >= H THEN 1 ELSE 0
       /\ TopBit(w, 2) = IF d2 >= H THEN 1 ELSE 0
       /\ TopBit(w, 3) = IF d3 >= H THEN 1 ELSE 0
  <2> HIDE DEF R, H, w, w1, w2
  <2> QED BY <1>7, <1>8, <1>9, Zenon
<1>11. w \in 0 .. (R * R) * (R * R) - 1
  <2> HIDE DEF R, w
  <2> QED BY <1>3, <1>4
<1> QED
  <2> HIDE DEF w, R, H
  <2> QED BY <1>10, <1>11 DEF w

\* What a byte lends and keeps.
LEMMA Borrows ==
    ASSUME NEW b \in Bytes, NEW c \in {0, 1}
    PROVE  /\ Lent(b, c) \in {0, 1} /\ Rest(b, c) \in Bytes
           /\ b - 1 - c = Rest(b, c) - R * Lent(b, c)
           /\ (b # 0 /\ c = 0 => Lent(b, c) = 0 /\ (Rest(b, c) >= H => b >= H))
           /\ (b = 0 /\ c = 0 => Rest(b, c) >= H /\ ~(b >= H))
<1>0. R \in Nat \ {0} /\ H \in Nat \ {0} /\ R = 2 * H /\ b \in 0 .. R - 1 /\ c \in 0 .. 1
    BY ByteWidths DEF Bytes
<1> HIDE DEF R, H
<1>1. R * 0 = 0 /\ R * 1 = R BY <1>0
<1>2. CASE b - 1 - c < 0
  <2>1. Lent(b, c) = 1 /\ Rest(b, c) = (b - 1 - c) + R BY <1>2 DEF Lent, Rest
  <2>2. (b - 1 - c) + R \in 0 .. R - 1 BY <1>0, <1>2
  <2>3. b # 0 => c # 0 BY <1>0, <1>2
  <2>4. b = 0 /\ c = 0 => (b - 1 - c) + R >= H /\ ~(b >= H) BY <1>0
  <2>5. b - 1 - c = ((b - 1 - c) + R) - R * 1 BY <1>0, <1>1
  <2> QED BY <2>1, <2>2, <2>3, <2>4, <2>5 DEF Bytes
<1>3. CASE ~(b - 1 - c < 0)
  <2>1. Lent(b, c) = 0 /\ Rest(b, c) = b - 1 - c BY <1>3 DEF Lent, Rest
  <2>2. b - 1 - c \in 0 .. R - 1 BY <1>0, <1>3
  <2>3. b # 0 BY <1>0, <1>3
  <2>4. c = 0 => (b - 1 - c >= H => b >= H) BY <1>0
  <2>5. b - 1 - c = (b - 1 - c) - R * 0 BY <1>0, <1>1
  <2> QED BY <2>1, <2>2, <2>3, <2>4, <2>5 DEF Bytes
<1> QED BY <1>2, <1>3

\* The test for a zero finds one exactly if there is one: the lowest zero byte
\* borrows and is not borrowed from, and without a zero nothing is.
LEMMA ZeroIsFound ==
    ASSUME NEW b0 \in Bytes, NEW b1 \in Bytes, NEW b2 \in Bytes, NEW b3 \in Bytes
    PROVE  HasZero(Joined(b0, b1, b2, b3)) <=> 0 \in {b0, b1, b2, b3}
<1> DEFINE c1 == Lent(b0, 0)
<1> DEFINE c2 == Lent(b1, c1)
<1> DEFINE c3 == Lent(b2, c2)
<1> DEFINE c4 == Lent(b3, c3)
<1> DEFINE d0 == Rest(b0, 0)
<1> DEFINE d1 == Rest(b1, c1)
<1> DEFINE d2 == Rest(b2, c2)
<1> DEFINE d3 == Rest(b3, c3)
<1> DEFINE v == Joined(b0, b1, b2, b3)
<1> DEFINE w == Joined(d0, d1, d2, d3)
<1>0. R \in Nat \ {0} BY ByteWidths
<1>1. c1 \in {0, 1} /\ c2 \in {0, 1} /\ c3 \in {0, 1} /\ c4 \in {0, 1}
  <2> HIDE DEF Bytes
  <2>1. c1 \in {0, 1} BY Borrows
  <2> HIDE DEF c1
  <2>2. c2 \in {0, 1} BY <2>1, Borrows
  <2> HIDE DEF c2
  <2>3. c3 \in {0, 1} BY <2>2, Borrows
  <2> HIDE DEF c3
  <2> QED BY <2>1, <2>2, <2>3, Borrows
<1>2. /\ d0 \in Bytes /\ d1 \in Bytes /\ d2 \in Bytes /\ d3 \in Bytes
      /\ b0 - 1 - 0 = d0 - R * c1 /\ b1 - 1 - c1 = d1 - R * c2
      /\ b2 - 1 - c2 = d2 - R * c3 /\ b3 - 1 - c3 = d3 - R * c4
      /\ (b0 # 0 => c1 = 0 /\ (d0 >= H => b0 >= H)) /\ (b0 = 0 => d0 >= H /\ ~(b0 >= H))
      /\ (b1 # 0 /\ c1 = 0 => c2 = 0 /\ (d1 >= H => b1 >= H))
      /\ (b1 = 0 /\ c1 = 0 => d1 >= H /\ ~(b1 >= H))
      /\ (b2 # 0 /\ c2 = 0 => c3 = 0 /\ (d2 >= H => b2 >= H))
      /\ (b2 = 0 /\ c2 = 0 => d2 >= H /\ ~(b2 >= H))
      /\ (b3 # 0 /\ c3 = 0 => (d3 >= H => b3 >= H))
      /\ (b3 = 0 /\ c3 = 0 => d3 >= H /\ ~(b3 >= H))
  <2>1. /\ d0 \in Bytes /\ b0 - 1 - 0 = d0 - R * c1
        /\ (b0 # 0 => c1 = 0 /\ (d0 >= H => b0 >= H)) /\ (b0 = 0 => d0 >= H /\ ~(b0 >= H))
    <3> HIDE DEF Bytes, R, H
    <3> QED BY Borrows
  <2> HIDE DEF c1, d0
  <2>2. /\ d1 \in Bytes /\ b1 - 1 - c1 = d1 - R * c2
        /\ (b1 # 0 /\ c1 = 0 => c2 = 0 /\ (d1 >= H => b1 >= H))
        /\ (b1 = 0 /\ c1 = 0 => d1 >= H /\ ~(b1 >= H))
    <3> HIDE DEF Bytes, R, H
    <3> QED BY <1>1, Borrows
  <2> HIDE DEF c2, d1
  <2>3. /\ d2 \in Bytes /\ b2 - 1 - c2 = d2 - R * c3
        /\ (b2 # 0 /\ c2 = 0 => c3 = 0 /\ (d2 >= H => b2 >= H))
        /\ (b2 = 0 /\ c2 = 0 => d2 >= H /\ ~(b2 >= H))
    <3> HIDE DEF Bytes, R, H
    <3> QED BY <1>1, Borrows
  <2> HIDE DEF c3, d2
  <2>4. /\ d3 \in Bytes /\ b3 - 1 - c3 = d3 - R * c4
        /\ (b3 # 0 /\ c3 = 0 => (d3 >= H => b3 >= H))
        /\ (b3 = 0 /\ c3 = 0 => d3 >= H /\ ~(b3 >= H))
    <3> HIDE DEF Bytes, R, H
    <3> QED BY <1>1, Borrows
  <2> HIDE DEF Bytes, R, H
  <2> QED BY <2>1, <2>2, <2>3, <2>4
<1> HIDE DEF c1, c2, c3, c4, d0, d1, d2, d3
<1>3. v - Ones = ((R * R) * (R * R)) * (-c4) + w
  <2>1. /\ b0 \in Int /\ b1 \in Int /\ b2 \in Int /\ b3 \in Int
        /\ d0 \in Int /\ d1 \in Int /\ d2 \in Int /\ d3 \in Int
        /\ c1 \in Int /\ c2 \in Int /\ c3 \in Int /\ c4 \in Int
      BY <1>0, <1>1, <1>2 DEF Bytes
  <2>2. Ones = 1 + R + (R * R) + R * (R * R)
    <3> HIDE DEF R
    <3>1. 2^BYTE_BITS = R BY DEF R
    <3> QED BY <3>1, ByteWidths DEF Ones
  <2> HIDE DEF R
  <2>3. Ones = 1 + R * (1 + R * (1 + R)) BY <1>0, <2>2
  <2>4. v - Ones = (b0 - 1) + R * ((b1 - 1) + R * ((b2 - 1) + R * (b3 - 1)))
    <3>1. R * b3 - R = R * (b3 - 1) /\ R * b3 \in Int BY <1>0, <2>1
    <3> DEFINE x3 == R * (b3 - 1)
    <3>2. x3 \in Int BY <1>0, <2>1
    <3>3. R * (b2 + R * b3) - R * (1 + R) = R * ((b2 - 1) + R * (b3 - 1))
      <4>1. (b2 + R * b3) - (1 + R) = (b2 - 1) + R * (b3 - 1) BY <1>0, <2>1, <3>1
      <4> DEFINE p == b2 + R * b3
      <4> DEFINE q == 1 + R
      <4>2. p \in Int /\ q \in Int BY <1>0, <2>1, <3>1
      <4> HIDE DEF p, q
      <4>3. R * p - R * q = R * (p - q) BY <1>0, <4>2
      <4> QED BY <4>1, <4>3 DEF p, q
    <3>4. R * (b1 + R * (b2 + R * b3)) - R * (1 + R * (1 + R))
             = R * ((b1 - 1) + R * ((b2 - 1) + R * (b3 - 1)))
      <4> DEFINE p == b1 + R * (b2 + R * b3)
      <4> DEFINE q == 1 + R * (1 + R)
      <4>1. /\ R * (b2 + R * b3) \in Int /\ R * (1 + R) \in Int
            /\ R * ((b2 - 1) + R * (b3 - 1)) \in Int
          BY <1>0, <2>1
      <4>2. p \in Int /\ q \in Int BY <2>1, <4>1
      <4>3. p - q = (b1 - 1) + R * ((b2 - 1) + R * (b3 - 1)) BY <2>1, <3>3, <4>1
      <4> HIDE DEF p, q
      <4>4. R * p - R * q = R * (p - q) BY <1>0, <4>2
      <4> QED BY <4>3, <4>4 DEF p, q
    <3> DEFINE y == R * (b1 + R * (b2 + R * b3))
    <3> DEFINE z == R * (1 + R * (1 + R))
    <3>5. y \in Int /\ z \in Int BY <1>0, <2>1
    <3>6. v = b0 + y /\ Ones = 1 + z BY <2>3 DEF Joined
    <3> HIDE DEF v, y, z
    <3>7. v - Ones = (b0 - 1) + (y - z) BY <2>1, <3>5, <3>6
    <3> QED BY <3>4, <3>7 DEF y, z
  <2>5. (b2 - 1) + R * (b3 - 1) = d2 + R * (d3 - R * c4) + c2
    <3>1. b3 - 1 = (d3 - R * c4) + c3 /\ b2 - 1 = (d2 - R * c3) + c2 /\ R * c3 \in Int /\ R * c4 \in Int
        BY <1>0, <1>2, <2>1
    <3> DEFINE x == d3 - R * c4
    <3>2. x \in Int /\ b3 - 1 = x + c3 BY <2>1, <3>1
    <3> HIDE DEF x
    <3>3. R * (x + c3) = R * x + R * c3 /\ R * x \in Int BY <1>0, <2>1, <3>2
    <3>4. (b2 - 1) + R * (b3 - 1) = d2 + R * x + c2 BY <2>1, <3>1, <3>2, <3>3
    <3> QED BY <3>4 DEF x
  <2>6. (b1 - 1) + R * ((b2 - 1) + R * (b3 - 1)) = d1 + R * (d2 + R * (d3 - R * c4)) + c1
    <3>1. b1 - 1 = (d1 - R * c2) + c1 /\ R * c2 \in Int BY <1>0, <1>2, <2>1
    <3> DEFINE x == d2 + R * (d3 - R * c4)
    <3>2. x \in Int BY <1>0, <2>1
    <3>3. R * ((b2 - 1) + R * (b3 - 1)) = R * (x + c2) BY <2>5
    <3> HIDE DEF x
    <3>4. R * (x + c2) = R * x + R * c2 /\ R * x \in Int BY <1>0, <2>1, <3>2
    <3>5. (b1 - 1) + R * ((b2 - 1) + R * (b3 - 1)) = d1 + R * x + c1 BY <2>1, <3>1, <3>3, <3>4
    <3> QED BY <3>5 DEF x
  <2>7. v - Ones = d0 + R * (d1 + R * (d2 + R * (d3 - R * c4)))
    <3>1. b0 - 1 = d0 - R * c1 /\ R * c1 \in Int BY <1>0, <1>2, <2>1
    <3> DEFINE x == d1 + R * (d2 + R * (d3 - R * c4))
    <3>2. x \in Int BY <1>0, <2>1
    <3>3. v - Ones = (b0 - 1) + R * (x + c1) BY <2>4, <2>6
    <3> HIDE DEF x, v
    <3>4. R * (x + c1) = R * x + R * c1 /\ R * x \in Int BY <1>0, <2>1, <3>2
    <3>5. v - Ones = d0 + R * x BY <2>1, <3>1, <3>3, <3>4
    <3> QED BY <3>5 DEF x
  <2>8. d0 + R * (d1 + R * (d2 + R * (d3 - R * c4))) = ((R * R) * (R * R)) * (-c4) + w
      BY <1>0, <2>1 DEF Joined
  <2> QED BY <2>7, <2>8
<1> HIDE DEF v
<1>4. (v - Ones) % 2^(4*BYTE_BITS) = w
  <2> DEFINE m == (R * R) * (R * R)
  <2>1. w \in 0 .. m - 1
    <3> HIDE DEF Bytes, R, H
    <3> QED BY <1>2, TopBitOfWord
  <2>2. m \in Nat \ {0} /\ -c4 \in Int
    <3> HIDE DEF R
    <3> QED BY <1>0, <1>1
  <2>3. v - Ones = m * (-c4) + w /\ 2^(4*BYTE_BITS) = m BY <1>3, ByteWidths
  <2> HIDE DEF m, w
  <2>4. v - Ones \in Int
    <3>1. m * (-c4) \in Int BY <2>2
    <3> QED BY <2>1, <2>2, <2>3, <3>1
  <2> DEFINE x == v - Ones
  <2>5. x \in Int /\ x = m * (-c4) + w BY <2>3, <2>4
  <2> HIDE DEF x
  <2>6. x % m = w BY <2>1, <2>2, <2>5, DivModIs
  <2> QED BY <2>3, <2>6 DEF x
<1>5. HasZero(v) <=> \/ (d0 >= H /\ ~(b0 >= H)) \/ (d1 >= H /\ ~(b1 >= H))
                     \/ (d2 >= H /\ ~(b2 >= H)) \/ (d3 >= H /\ ~(b3 >= H))
  <2>1. HasZero(v) <=> \E k \in InWord : TopBit(w, k) = 1 /\ TopBit(v, k) = 0
      BY <1>4 DEF HasZero
  <2>2. InWord = {0, 1, 2, 3} BY DEF InWord
  <2>3. /\ TopBit(w, 0) = (IF d0 >= H THEN 1 ELSE 0) /\ TopBit(w, 1) = (IF d1 >= H THEN 1 ELSE 0)
        /\ TopBit(w, 2) = (IF d2 >= H THEN 1 ELSE 0) /\ TopBit(w, 3) = (IF d3 >= H THEN 1 ELSE 0)
    <3> HIDE DEF Bytes, R, H
    <3> QED BY <1>2, TopBitOfWord
  <2>4. /\ TopBit(v, 0) = (IF b0 >= H THEN 1 ELSE 0) /\ TopBit(v, 1) = (IF b1 >= H THEN 1 ELSE 0)
        /\ TopBit(v, 2) = (IF b2 >= H THEN 1 ELSE 0) /\ TopBit(v, 3) = (IF b3 >= H THEN 1 ELSE 0)
    <3> HIDE DEF Bytes, R, H
    <3> QED BY TopBitOfWord DEF v
  <2> HIDE DEF v, w, H
  <2> QED BY <2>1, <2>2, <2>3, <2>4
<1> HIDE DEF H, w
<1>6. HasZero(v) <=> 0 \in {b0, b1, b2, b3} BY <1>2, <1>5
<1> QED BY <1>6 DEF v

\* The lowest byte of a word, and what is above it.
LEMMA LowByte ==
    ASSUME NEW x \in Bytes, NEW y \in Bytes, NEW p \in Int, NEW q \in Int,
           x + R * p = y + R * q
    PROVE  x = y /\ p = q
<1> DEFINE w(a, b) == a + R * b
<1>1. (w(x, p) \div R = p /\ w(x, p) % R = x) /\ (w(y, q) \div R = q /\ w(y, q) % R = y)
  <2> HIDE DEF Bytes, R
  <2> QED BY TopOfByte
<1>2. w(x, p) = w(y, q) OBVIOUS
<1> HIDE DEF w, R
<1> QED BY <1>1, <1>2

-----------------------------------------------------------------------------
(* Words in memory.                                                        *)

InBytes(p) == \A k \in InWord : ram[p + k] \in Bytes

LEMMA WordIs ==
    ASSUME NEW p \in Nat, InBytes(p)
    PROVE  /\ WordAt(p) = Joined(ram[p], ram[p + 1], ram[p + 2], ram[p + 3])
           /\ ram[p] \in Bytes /\ ram[p + 1] \in Bytes /\ ram[p + 2] \in Bytes /\ ram[p + 3] \in Bytes
<1>1. InWord = {0, 1, 2, 3} /\ p + 0 = p BY DEF InWord
<1>2. ram[p] \in Bytes /\ ram[p + 1] \in Bytes /\ ram[p + 2] \in Bytes /\ ram[p + 3] \in Bytes
    BY <1>1, Zenon DEF InBytes
<1> DEFINE b0 == ram[p]
<1> DEFINE b1 == ram[p + 1]
<1> DEFINE b2 == ram[p + 2]
<1> DEFINE b3 == ram[p + 3]
<1>3. b0 \in Int /\ b1 \in Int /\ b2 \in Int /\ b3 \in Int BY <1>2, ByteWidths DEF Bytes
<1>4. WordAt(p) = b0 + b1 * R + b2 * (R * R) + b3 * (R * (R * R))
  <2> HIDE DEF R
  <2>1. 2^BYTE_BITS = R BY DEF R
  <2> QED BY <2>1, ByteWidths DEF WordAt
<1>5. b0 + b1 * R + b2 * (R * R) + b3 * (R * (R * R)) = Joined(b0, b1, b2, b3)
  <2>1. R \in Int BY ByteWidths
  <2> HIDE DEF R, b0, b1, b2, b3
  <2> QED BY <1>3, <2>1 DEF Joined
<1> QED BY <1>2, <1>4, <1>5

LEMMA ZeroInRam ==
    ASSUME NEW p \in Nat, InBytes(p)
    PROVE  HasZero(WordAt(p)) <=> \E k \in InWord : ram[p + k] = 0
<1>1. InWord = {0, 1, 2, 3} /\ p + 0 = p BY DEF InWord
<1>2. HasZero(WordAt(p)) <=> 0 \in {ram[p], ram[p + 1], ram[p + 2], ram[p + 3]}
    BY WordIs, ZeroIsFound
<1>3. (\E k \in InWord : ram[p + k] = 0)
         <=> ram[p] = 0 \/ ram[p + 1] = 0 \/ ram[p + 2] = 0 \/ ram[p + 3] = 0
    BY <1>1
<1> QED BY <1>2, <1>3

LEMMA EqualInRam ==
    ASSUME NEW p \in Nat, InBytes(p), NEW q \in Nat, InBytes(q)
    PROVE  WordAt(p) = WordAt(q) <=> \A k \in InWord : ram[p + k] = ram[q + k]
<1>1. InWord = {0, 1, 2, 3} /\ p + 0 = p /\ q + 0 = q BY DEF InWord
<1>2. WordAt(p) = WordAt(q) <=> /\ ram[p] = ram[q] /\ ram[p + 1] = ram[q + 1]
                                /\ ram[p + 2] = ram[q + 2] /\ ram[p + 3] = ram[q + 3]
  <2>1. /\ WordAt(p) = Joined(ram[p], ram[p + 1], ram[p + 2], ram[p + 3])
        /\ ram[p] \in Bytes /\ ram[p + 1] \in Bytes /\ ram[p + 2] \in Bytes /\ ram[p + 3] \in Bytes
      BY WordIs
  <2>2. /\ WordAt(q) = Joined(ram[q], ram[q + 1], ram[q + 2], ram[q + 3])
        /\ ram[q] \in Bytes /\ ram[q + 1] \in Bytes /\ ram[q + 2] \in Bytes /\ ram[q + 3] \in Bytes
      BY WordIs
  <2> DEFINE b0 == ram[p]
  <2> DEFINE b1 == ram[p + 1]
  <2> DEFINE b2 == ram[p + 2]
  <2> DEFINE b3 == ram[p + 3]
  <2> DEFINE d0 == ram[q]
  <2> DEFINE d1 == ram[q + 1]
  <2> DEFINE d2 == ram[q + 2]
  <2> DEFINE d3 == ram[q + 3]
  <2>3. /\ b0 \in Bytes /\ b1 \in Bytes /\ b2 \in Bytes /\ b3 \in Bytes
        /\ d0 \in Bytes /\ d1 \in Bytes /\ d2 \in Bytes /\ d3 \in Bytes
      BY <2>1, <2>2
  <2>4. Joined(b0, b1, b2, b3) = Joined(d0, d1, d2, d3)
           <=> b0 = d0 /\ b1 = d1 /\ b2 = d2 /\ b3 = d3
    <3>1. R \in Int BY ByteWidths
    <3>2. /\ b0 \in Int /\ b1 \in Int /\ b2 \in Int /\ b3 \in Int
          /\ d0 \in Int /\ d1 \in Int /\ d2 \in Int /\ d3 \in Int
        BY <2>3, <3>1 DEF Bytes
    <3> HIDE DEF b0, b1, b2, b3, d0, d1, d2, d3, Bytes
    <3> DEFINE x2 == b2 + R * b3
    <3> DEFINE y2 == d2 + R * d3
    <3>3. x2 \in Int /\ y2 \in Int
      <4> HIDE DEF R
      <4> QED BY <3>1, <3>2
    <3>4. x2 = y2 => b2 = d2 /\ b3 = d3 BY <2>3, <3>2, LowByte
    <3> HIDE DEF x2, y2
    <3> DEFINE x1 == b1 + R * x2
    <3> DEFINE y1 == d1 + R * y2
    <3>5. x1 \in Int /\ y1 \in Int
      <4> HIDE DEF R
      <4> QED BY <3>1, <3>2, <3>3
    <3>6. x1 = y1 => b1 = d1 /\ x2 = y2 BY <2>3, <3>3, LowByte
    <3> HIDE DEF x1, y1
    <3>7. b0 + R * x1 = d0 + R * y1 => b0 = d0 /\ x1 = y1 BY <2>3, <3>5, LowByte
    <3>8. Joined(b0, b1, b2, b3) = b0 + R * x1 /\ Joined(d0, d1, d2, d3) = d0 + R * y1
        BY DEF Joined, x1, y1, x2, y2
    <3>9. Joined(b0, b1, b2, b3) = Joined(d0, d1, d2, d3)
             => b0 = d0 /\ b1 = d1 /\ b2 = d2 /\ b3 = d3
      <4> HIDE DEF R
      <4> QED BY <3>4, <3>6, <3>7, <3>8
    <3> QED BY <3>9
  <2>5. WordAt(p) = Joined(b0, b1, b2, b3) /\ WordAt(q) = Joined(d0, d1, d2, d3) BY <2>1, <2>2
  <2>6. WordAt(p) = WordAt(q) <=> b0 = d0 /\ b1 = d1 /\ b2 = d2 /\ b3 = d3
    <3> HIDE DEF b0, b1, b2, b3, d0, d1, d2, d3
    <3> QED BY <2>4, <2>5
  <2> QED BY <2>6
<1>3. (\A k \in InWord : ram[p + k] = ram[q + k])
         <=> /\ ram[p] = ram[q] /\ ram[p + 1] = ram[q + 1]
             /\ ram[p + 2] = ram[q + 2] /\ ram[p + 3] = ram[q + 3]
    BY <1>1
<1> QED BY <1>2, <1>3

-----------------------------------------------------------------------------
(* How far a call is: its first k bytes are written, or k characters are     *)
(* found equal.                                                            *)

Written(k) ==
    /\ ram \in [DOMAIN call.ram -> Bytes]
    /\ \A a \in DOMAIN call.ram :
          ram[a] = IF a - call.dst \in 0 .. k - 1 THEN Wanted(a) ELSE call.ram[a]

Copying(k) ==
    routine = "strcpy" /\ src = call.src + k /\ dst = call.dst + k /\ Written(k)

CopyInv ==
    \E k \in Nat : \/ k <= Length /\ Copying(k)
                   \/ k = Length + 1 /\ routine = "returned" /\ Written(k)

EqualSoFar(k) == \A j \in 0 .. k - 1 :
    call.ram[call.dst + j] = call.ram[call.src + j] /\ call.ram[call.dst + j] # 0

Comparing(k) ==
    routine = "strcmp" /\ src = call.src + k /\ dst = call.dst + k /\ EqualSoFar(k)

CompareInv ==
    /\ ram = call.ram
    /\ (routine = "returned" /\ result = Compared) \/ \E k \in Nat : Comparing(k)

Moving(k) ==
    /\ left = call.n - k /\ dst = call.dst + k
    /\ src = IF call.routine = "memcpy" THEN call.src + k ELSE call.src
    /\ Written(k)
    /\ IF routine = "returned" THEN k = call.n ELSE routine = call.routine

MoveInv == \E k \in Nat : k <= call.n /\ Moving(k)

\* PrintNumber notes the number in the call.
PrintInv == ram = call.ram /\ routine \in {"print", "returned"}

LibInv ==
    \/ call \in CALLS /\ call.routine = "strcpy" /\ CopyInv
    \/ call \in CALLS /\ call.routine = "strcmp" /\ CompareInv
    \/ call \in CALLS /\ call.routine \in {"memcpy", "memset"} /\ MoveInv
    \/ call.routine = "print" /\ PrintInv

D == DOMAIN call.ram

LEMMA CallIs ==
    ASSUME call \in CALLS
    PROVE  /\ call.routine \in {"strcpy", "strcmp", "memcpy", "memset", "print"}
           /\ call.dst \in Nat /\ call.src \in Nat /\ call.n \in Nat
           /\ call.ram \in [D -> Bytes] /\ D \subseteq Nat
           /\ \A a \in D : a % 4 = 0 => \A k \in InWord : a + k \in D
<1>1. IsCall(call) BY CallAssumption
<1>2. /\ call.routine \in {"strcpy", "strcmp", "memcpy", "memset", "print"}
      /\ call.dst \in Nat /\ call.src \in Nat /\ call.n \in Nat
      /\ call.ram \in [DOMAIN call.ram -> 0 .. 2^BYTE_BITS - 1]
    BY <1>1 DEF IsCall
<1>3. \A a \in DOMAIN call.ram : a \in Nat /\ InMemory(call, a - (a % 4), 4) BY <1>1 DEF IsCall
<1>4. call.ram \in [D -> Bytes] BY <1>2 DEF D, Bytes, R
<1>5. ASSUME NEW a \in D, a % 4 = 0, NEW k \in InWord PROVE a + k \in D
  <2>1. a \in Nat /\ InMemory(call, a - (a % 4), 4) BY <1>3 DEF D
  <2>2. a - (a % 4) = a BY <1>5, <2>1
  <2>3. InMemory(call, a, 4) BY <2>1, <2>2
  <2>4. k \in 0 .. 4 - 1 BY DEF InWord
  <2> QED BY <2>3, <2>4, Zenon DEF InMemory, D
<1> QED BY <1>2, <1>3, <1>4, <1>5 DEF D

\* The end of the string is found once.
LEMMA LengthIs ==
    ASSUME call \in CALLS, call.routine = "strcpy"
    PROVE  /\ Length \in Nat /\ Ends(call, Length) /\ Disjoint(call, Length + 1)
           /\ InMemory(call, call.src, Length + 1) /\ InMemory(call, call.dst, Length + 1)
<1>1. IsCall(call) BY CallAssumption
<1>2. PICK k \in D : /\ InMemory(call, call.src, k + 1) /\ InMemory(call, call.dst, k + 1)
                     /\ Disjoint(call, k + 1) /\ Ends(call, k)
    BY <1>1 DEF IsCall, D
<1>3. ASSUME NEW i \in D, Ends(call, i) PROVE i = k
  <2>1. i \in Nat /\ k \in Nat BY CallIs
  <2>2. \A j \in 0 .. i - 1 : call.ram[call.src + j] # 0 BY <1>3 DEF Ends
  <2>3. \A j \in 0 .. k - 1 : call.ram[call.src + j] # 0 BY <1>2 DEF Ends
  <2>4. call.ram[call.src + i] = 0 /\ call.ram[call.src + k] = 0 BY <1>2, <1>3 DEF Ends
  <2>5. ~(k < i) BY <2>1, <2>2, <2>4
  <2>6. ~(i < k) BY <2>1, <2>3, <2>4
  <2> QED BY <2>1, <2>5, <2>6
<1>4. Length = k BY <1>2, <1>3 DEF Length, D
<1> QED BY <1>2, <1>4, CallIs

\* So are the first characters that decide.
LEMMA ComparedAt ==
    ASSUME call \in CALLS, call.routine = "strcmp"
    PROVE  \E k \in Nat :
             /\ InMemory(call, call.src, k + 1) /\ InMemory(call, call.dst, k + 1)
             /\ Part(call, k)
             /\ Compared = Order(call.ram[call.dst + k], call.ram[call.src + k])
             /\ \A i \in Nat : EqualSoFar(i) => i <= k
<1>1. IsCall(call) BY CallAssumption
<1>2. PICK k \in D : /\ InMemory(call, call.src, k + 1) /\ InMemory(call, call.dst, k + 1)
                     /\ Part(call, k)
    BY <1>1 DEF IsCall, D
<1>3. ASSUME NEW i \in D, Part(call, i) PROVE i = k
  <2>1. i \in Nat /\ k \in Nat BY CallIs
  <2>2. \A j \in 0 .. i - 1 : call.ram[call.dst + j] = call.ram[call.src + j] /\ call.ram[call.dst + j] # 0
      BY <1>3 DEF Part
  <2>3. \A j \in 0 .. k - 1 : call.ram[call.dst + j] = call.ram[call.src + j] /\ call.ram[call.dst + j] # 0
      BY <1>2 DEF Part
  <2>4. /\ call.ram[call.dst + i] # call.ram[call.src + i] \/ call.ram[call.dst + i] = 0
        /\ call.ram[call.dst + k] # call.ram[call.src + k] \/ call.ram[call.dst + k] = 0
      BY <1>2, <1>3 DEF Part
  <2>5. ~(k < i) BY <2>1, <2>2, <2>4
  <2>6. ~(i < k) BY <2>1, <2>3, <2>4
  <2> QED BY <2>1, <2>5, <2>6
<1>4. (CHOOSE i \in DOMAIN call.ram : Part(call, i)) = k BY <1>2, <1>3 DEF D
<1>5. Compared = Order(call.ram[call.dst + k], call.ram[call.src + k]) BY <1>4 DEF Compared
<1>6. ASSUME NEW i \in Nat, EqualSoFar(i) PROVE i <= k
  <2>1. k \in Nat BY CallIs
  <2>2. call.ram[call.dst + k] # call.ram[call.src + k] \/ call.ram[call.dst + k] = 0
      BY <1>2 DEF Part
  <2>3. ~(k < i) BY <1>6, <2>1, <2>2 DEF EqualSoFar
  <2> QED BY <2>1, <2>3
<1> QED BY <1>2, <1>5, <1>6, CallIs

-----------------------------------------------------------------------------
(* The calls that write: how many bytes, and what each of them is made from. *)

Writers == {"strcpy", "memcpy", "memset"}
Size    == IF call.routine = "strcpy" THEN Length + 1 ELSE call.n
From(j) == IF call.routine = "memset" THEN call.src ELSE call.src + j

LEMMA WritersAre ==
    ASSUME call \in CALLS, call.routine \in Writers
    PROVE  /\ Size \in Nat /\ call.dst \in Nat /\ call.ram \in [D -> Bytes] /\ D \subseteq Nat
           /\ \A j \in 0 .. Size - 1 :
                 /\ call.dst + j \in D /\ From(j) \in D
                 /\ \A i \in 0 .. Size - 1 : call.dst + i # From(j)
<1>1. IsCall(call) BY CallAssumption
<1>2. CASE call.routine = "strcpy"
  <2>1. Size = Length + 1 /\ Size \in Nat BY <1>2, LengthIs DEF Size
  <2>2. InMemory(call, call.src, Size) /\ InMemory(call, call.dst, Size) /\ Disjoint(call, Size)
      BY <1>2, <2>1, LengthIs
  <2>3. \A j \in 0 .. Size - 1 : From(j) = call.src + j BY <1>2 DEF From
  <2> QED BY <2>1, <2>2, <2>3, CallIs DEF InMemory, Disjoint, D
<1>3. CASE call.routine = "memcpy"
  <2>1. Size = call.n BY <1>3 DEF Size
  <2>2. InMemory(call, call.src, Size) /\ InMemory(call, call.dst, Size) /\ Disjoint(call, Size)
      BY <1>1, <1>3, <2>1 DEF IsCall
  <2>3. \A j \in 0 .. Size - 1 : From(j) = call.src + j BY <1>3 DEF From
  <2> QED BY <2>1, <2>2, <2>3, CallIs DEF InMemory, Disjoint, D
<1>4. CASE call.routine = "memset"
  <2>1. Size = call.n BY <1>4 DEF Size
  <2>2. InMemory(call, call.src, 1) /\ InMemory(call, call.dst, Size)
        /\ \A j \in 0 .. Size - 1 : call.dst + j # call.src
      BY <1>1, <1>4, <2>1 DEF IsCall
  <2>3. call.src \in D
    <3>1. 0 \in 0 .. 1 - 1 /\ call.src + 0 = call.src BY CallIs
    <3> QED BY <2>2, <3>1 DEF InMemory, D
  <2>4. \A j \in 0 .. Size - 1 : From(j) = call.src BY <1>4 DEF From
  <2> QED BY <2>1, <2>2, <2>3, <2>4, CallIs DEF InMemory, D
<1> QED BY <1>2, <1>3, <1>4 DEF Writers

LEMMA WantedFrom == ASSUME call \in CALLS, NEW a \in D PROVE Wanted(a) = call.ram[From(a - call.dst)]
<1>1. a \in Nat /\ call.dst \in Nat /\ call.src \in Nat BY CallIs
<1>2. call.src + a - call.dst = call.src + (a - call.dst) BY <1>1
<1> QED BY <1>2 DEF Wanted, From

\* What is still to be read is as it was.
LEMMA Kept ==
    ASSUME call \in CALLS, call.routine \in Writers, NEW k \in Nat, k <= Size, Written(k)
    PROVE  /\ ram \in [D -> Bytes]
           /\ \A j \in 0 .. Size - 1 : ram[From(j)] = call.ram[From(j)]
<1>0. Size \in Nat /\ call.dst \in Nat /\ D \subseteq Nat BY WritersAre
<1>1. /\ ram \in [D -> Bytes]
      /\ \A a \in D : ram[a] = IF a - call.dst \in 0 .. k - 1 THEN Wanted(a) ELSE call.ram[a]
    BY DEF Written, D
<1>3. ASSUME NEW j \in 0 .. Size - 1 PROVE ram[From(j)] = call.ram[From(j)]
  <2>1. From(j) \in D /\ \A i \in 0 .. Size - 1 : call.dst + i # From(j) BY WritersAre
  <2>2. ~(From(j) - call.dst \in 0 .. k - 1)
    <3> DEFINE a == From(j)
    <3>1. a \in Nat BY <1>0, <2>1
    <3>2. \A i \in 0 .. Size - 1 : call.dst + i # a BY <2>1
    <3> HIDE DEF a
    <3>3. ASSUME a - call.dst \in 0 .. k - 1 PROVE FALSE
      <4>1. a - call.dst \in 0 .. Size - 1 /\ call.dst + (a - call.dst) = a BY <1>0, <3>1, <3>3
      <4> QED BY <3>2, <4>1
    <3> QED BY <3>3 DEF a
  <2> QED BY <1>1, <2>1, <2>2
<1> QED BY <1>1, <1>3

\* The next m bytes.
Wrote(k, m) ==
    ram' = [a \in D |-> IF a - (call.dst + k) \in 0 .. m - 1
                        THEN call.ram[From(a - call.dst)] ELSE ram[a]]

LEMMA WriteMore ==
    ASSUME call \in CALLS, call.routine \in Writers, NEW k \in Nat, NEW m \in Nat, k + m <= Size,
           Written(k), call' = call, Wrote(k, m)
    PROVE  Written(k + m)'
<1>0. Size \in Nat /\ call.dst \in Nat /\ D \subseteq Nat /\ call.ram \in [D -> Bytes] BY WritersAre
<1>1. /\ ram \in [D -> Bytes]
      /\ \A a \in D : ram[a] = IF a - call.dst \in 0 .. k - 1 THEN Wanted(a) ELSE call.ram[a]
    BY DEF Written, D
<1>2. \A a \in D : ram'[a] = IF a - (call.dst + k) \in 0 .. m - 1
                             THEN call.ram[From(a - call.dst)] ELSE ram[a]
    BY DEF Wrote
<1>3. ASSUME NEW a \in D PROVE ram'[a] \in Bytes
  <2>1. CASE a - (call.dst + k) \in 0 .. m - 1
    <3>1. a - call.dst \in 0 .. Size - 1 BY <1>0, <2>1
    <3>2. From(a - call.dst) \in D BY <3>1, WritersAre
    <3> QED BY <1>0, <1>2, <2>1, <3>2
  <2>2. CASE ~(a - (call.dst + k) \in 0 .. m - 1) BY <1>1, <1>2, <2>2
  <2> QED BY <2>1, <2>2
<1>4. ASSUME NEW a \in D
      PROVE  ram'[a] = IF a - call.dst \in 0 .. k + m - 1 THEN Wanted(a) ELSE call.ram[a]
  <2>1. a - call.dst \in 0 .. k + m - 1
          <=> a - call.dst \in 0 .. k - 1 \/ a - (call.dst + k) \in 0 .. m - 1
      BY <1>0
  <2> QED BY <1>1, <1>2, <2>1, WantedFrom
<1>5. D' = D /\ \A a \in D : Wanted(a)' = Wanted(a) BY DEF Wanted, D
<1>6. ram' \in [D -> Bytes] BY <1>3 DEF Wrote
<1> QED BY <1>4, <1>5, <1>6 DEF Written, D

LEMMA WriteByte ==
    ASSUME call \in CALLS, call.routine \in Writers, NEW k \in Nat, k < Size, Written(k),
           call' = call, ram' = [ram EXCEPT ![call.dst + k] = ram[From(k)]]
    PROVE  Written(k + 1)'
<1>0. call.dst \in Nat /\ D \subseteq Nat /\ Size \in Nat BY CallIs, WritersAre
<1>1. k \in 0 .. Size - 1 /\ k <= Size BY <1>0
<1>2. DOMAIN ram = D /\ ram[From(k)] = call.ram[From(k)] BY <1>1, Kept
<1> DEFINE x == ram[From(k)]
<1>3. ASSUME NEW a \in D
      PROVE  ram'[a] = IF a - (call.dst + k) \in 0 .. 1 - 1 THEN call.ram[From(a - call.dst)] ELSE ram[a]
  <2>1. a - (call.dst + k) \in 0 .. 1 - 1 <=> a = call.dst + k BY <1>0
  <2>2. a = call.dst + k => a - call.dst = k BY <1>0
  <2>3. ram'[a] = IF a = call.dst + k THEN x ELSE ram[a] BY <1>2
  <2> QED BY <1>2, <2>1, <2>2, <2>3
<1>4. Wrote(k, 1)
  <2>1. ram' = [a \in D |-> ram'[a]] BY <1>2
  <2> QED BY <1>3, <2>1 DEF Wrote
<1>5. 1 \in Nat /\ k + 1 <= Size BY <1>0
<1> QED BY <1>4, <1>5, WriteMore

-----------------------------------------------------------------------------
(* strcpy *)

Copied(m) == ram' = [a \in DOMAIN ram |-> IF a - dst \in 0 .. m - 1 THEN ram[src + a - dst] ELSE ram[a]]

LEMMA CopyFacts ==
    ASSUME call \in CALLS, call.routine = "strcpy", NEW k \in Nat, k <= Length, Copying(k)
    PROVE  /\ call.routine \in Writers /\ Size = Length + 1 /\ Length \in Nat /\ Written(k)
           /\ call.dst \in Nat /\ call.src \in Nat /\ dst = call.dst + k /\ src = call.src + k
           /\ ram \in [D -> Bytes] /\ D \subseteq Nat /\ src \in D
           /\ \A j \in Nat : j <= Length =>
                 ram[call.src + j] = call.ram[call.src + j] /\ (ram[call.src + j] = 0 <=> j = Length)
<1>1. call.routine \in Writers /\ Size = Length + 1 /\ Length \in Nat BY LengthIs DEF Writers, Size
<1>2. /\ Written(k) /\ dst = call.dst + k /\ src = call.src + k
      /\ call.dst \in Nat /\ call.src \in Nat /\ D \subseteq Nat
    BY CallIs DEF Copying
<1>3. k <= Size BY <1>1
<1>4. ram \in [D -> Bytes] /\ \A j \in 0 .. Size - 1 : ram[From(j)] = call.ram[From(j)]
    BY <1>1, <1>2, <1>3, Kept
<1>5. ASSUME NEW j \in Nat, j <= Length
      PROVE  ram[call.src + j] = call.ram[call.src + j] /\ (ram[call.src + j] = 0 <=> j = Length)
  <2>1. j \in 0 .. Size - 1 /\ From(j) = call.src + j BY <1>1, <1>5 DEF From
  <2>2. Ends(call, Length) BY LengthIs
  <2>3. j # Length => j \in 0 .. Length - 1 BY <1>1, <1>5
  <2> QED BY <1>4, <2>1, <2>2, <2>3 DEF Ends
<1>6. src \in D
  <2>1. k \in 0 .. Size - 1 /\ From(k) = src BY <1>1, <1>2 DEF From
  <2> QED BY <1>1, <2>1, WritersAre
<1> QED BY <1>1, <1>2, <1>4, <1>5, <1>6

LEMMA CopiedWrites ==
    ASSUME call \in CALLS, call.routine = "strcpy", NEW k \in Nat, k <= Length, Copying(k),
           NEW m \in Nat, k + m <= Length + 1, Copied(m)
    PROVE  Wrote(k, m)
<1>0. /\ Length \in Nat /\ call.dst \in Nat /\ call.src \in Nat /\ D \subseteq Nat
      /\ dst = call.dst + k /\ src = call.src + k /\ DOMAIN ram = D
    BY CopyFacts
<1>1. ASSUME NEW a \in D, a - dst \in 0 .. m - 1 PROVE ram[src + a - dst] = call.ram[From(a - call.dst)]
  <2> DEFINE j == a - call.dst
  <2>1. j \in Nat /\ j <= Length /\ src + a - dst = call.src + j BY <1>0, <1>1
  <2>2. From(j) = call.src + j BY DEF From
  <2> HIDE DEF j
  <2>3. ram[call.src + j] = call.ram[call.src + j] BY <2>1, CopyFacts
  <2>4. ram[src + a - dst] = call.ram[From(j)] BY <2>1, <2>2, <2>3
  <2> QED BY <2>4 DEF j
<1>2. ram' = [a \in D |-> IF a - (call.dst + k) \in 0 .. m - 1
                          THEN ram[src + a - dst] ELSE ram[a]]
    BY <1>0 DEF Copied
<1> QED BY <1>0, <1>1, <1>2 DEF Wrote

LEMMA CopyByte ==
    ASSUME call \in CALLS, call.routine = "strcpy", NEW k \in Nat, k <= Length, Copying(k), StrcpyByte
    PROVE  CopyInv'
<1>1. /\ call.routine \in Writers /\ Size = Length + 1 /\ Length \in Nat /\ Written(k)
      /\ dst = call.dst + k /\ src = call.src + k /\ call.dst \in Nat /\ call.src \in Nat
      /\ ram[src] = 0 <=> k = Length
    BY CopyFacts
<1>2. /\ ram' = [ram EXCEPT ![dst] = ram[src]] /\ dst' = dst + 1 /\ src' = src + 1 /\ call' = call
      /\ routine' = IF ram[src] = 0 THEN "returned" ELSE "strcpy"
    BY DEF StrcpyByte, Advance
<1>3. Written(k + 1)'
  <2>1. From(k) = src BY <1>1 DEF From
  <2>2. k < Size BY <1>1
  <2> QED BY <1>1, <1>2, <2>1, <2>2, WriteByte
<1>4. Length' = Length BY <1>2 DEF Length, Ends
<1>5. k + 1 \in Nat /\ (k # Length => k + 1 <= Length) BY <1>1
<1>6. src' = call'.src + (k + 1) /\ dst' = call'.dst + (k + 1) BY <1>1, <1>2
<1> QED BY <1>1, <1>2, <1>3, <1>4, <1>5, <1>6 DEF CopyInv, Copying

LEMMA CopyWordFacts ==
    ASSUME call \in CALLS, call.routine = "strcpy", NEW k \in Nat, k <= Length, Copying(k), Aligned
    PROVE  /\ \A j \in InWord : k + j <= Length => (ram[src + j] = 0 <=> k + j = Length)
           /\ HasZero(WordAt(src)) <=> \E j \in InWord : ram[src + j] = 0
<1>1. /\ call.src \in Nat /\ src = call.src + k /\ ram \in [D -> Bytes] /\ src \in D /\ src \in Nat
      /\ Length \in Nat
    BY CopyFacts
<1>2. InBytes(src)
  <2>1. \A j \in InWord : src + j \in D BY <1>1, CallIs DEF Aligned
  <2> QED BY <1>1, <2>1 DEF InBytes
<1>3. ASSUME NEW j \in InWord, k + j <= Length PROVE ram[src + j] = 0 <=> k + j = Length
  <2>1. k + j \in Nat /\ src + j = call.src + (k + j) BY <1>1 DEF InWord
  <2> QED BY <1>3, <2>1, CopyFacts
<1> QED BY <1>1, <1>2, <1>3, ZeroInRam

LEMMA CopyWord ==
    ASSUME call \in CALLS, call.routine = "strcpy", NEW k \in Nat, k <= Length, Copying(k), StrcpyWord
    PROVE  CopyInv'
<1>1. /\ call.routine \in Writers /\ Size = Length + 1 /\ Length \in Nat /\ Written(k)
      /\ dst = call.dst + k /\ src = call.src + k /\ call.dst \in Nat /\ call.src \in Nat
    BY CopyFacts
<1>2. /\ Copied(4) /\ dst' = dst + 4 /\ src' = src + 4 /\ call' = call /\ routine' = "strcpy"
      /\ Aligned /\ ~HasZero(WordAt(src))
    BY DEF StrcpyWord, Advance, Copied, InWord
<1>3. k + 4 <= Length
  <2>1. \A j \in InWord : ram[src + j] # 0 BY <1>2, CopyWordFacts
  <2>2. ASSUME ~(k + 4 <= Length) PROVE FALSE
    <3>1. Length - k \in InWord /\ k + (Length - k) = Length BY <1>1, <2>2 DEF InWord
    <3> QED BY <1>1, <1>2, <2>1, <3>1, CopyWordFacts
  <2> QED BY <2>2
<1>4. Written(k + 4)'
  <2>1. 4 \in Nat /\ k + 4 <= Length + 1 BY <1>1, <1>3
  <2>2. Wrote(k, 4) BY <1>2, <2>1, CopiedWrites
  <2> QED BY <1>1, <1>2, <2>1, <2>2, WriteMore
<1>5. Length' = Length BY <1>2 DEF Length, Ends
<1>6. k + 4 \in Nat /\ src' = call'.src + (k + 4) /\ dst' = call'.dst + (k + 4) BY <1>1, <1>2
<1> QED BY <1>2, <1>3, <1>4, <1>5, <1>6 DEF CopyInv, Copying

LEMMA CopyLast ==
    ASSUME call \in CALLS, call.routine = "strcpy", NEW k \in Nat, k <= Length, Copying(k), StrcpyLast
    PROVE  CopyInv'
<1>1. /\ call.routine \in Writers /\ Size = Length + 1 /\ Length \in Nat /\ Written(k)
      /\ dst = call.dst + k /\ src = call.src + k /\ call.dst \in Nat /\ call.src \in Nat
      /\ ram \in [D -> Bytes] /\ D \subseteq Nat
    BY CopyFacts
<1> DEFINE Stored(i) == i \in InWord /\ \A j \in 0 .. i - 1 : ram[src + j] # 0
<1>2. /\ ram' = [a \in DOMAIN ram |-> IF Stored(a - dst) THEN ram[src + a - dst] ELSE ram[a]]
      /\ call' = call /\ routine' = "returned" /\ Aligned /\ HasZero(WordAt(src))
    BY DEF StrcpyLast
<1> DEFINE z == Length - k
<1>3. z \in InWord /\ z \in Nat /\ k + z = Length
  <2>1. PICK j \in InWord : ram[src + j] = 0 BY <1>2, CopyWordFacts
  <2>2. j \in Nat /\ j <= 3 BY DEF InWord
  <2>3. ~(k + j < Length)
    <3>1. ASSUME k + j < Length PROVE FALSE
      <4>1. k + j <= Length /\ k + j # Length BY <1>1, <2>2, <3>1
      <4> QED BY <1>2, <2>1, <4>1, CopyWordFacts
    <3> QED BY <3>1
  <2> QED BY <1>1, <2>2, <2>3 DEF InWord
<1> HIDE DEF z
<1>4. ASSUME NEW i \in Int PROVE Stored(i) <=> i \in 0 .. z
  <2>1. ASSUME i \in 0 .. z PROVE Stored(i)
    <3>1. i \in InWord BY <1>3, <2>1 DEF InWord
    <3>2. ASSUME NEW j \in 0 .. i - 1 PROVE ram[src + j] # 0
      <4>1. j \in InWord /\ k + j <= Length /\ k + j # Length BY <1>1, <1>3, <2>1 DEF InWord
      <4> QED BY <1>2, <4>1, CopyWordFacts
    <3> QED BY <3>1, <3>2
  <2>2. ASSUME Stored(i), ~(i \in 0 .. z) PROVE FALSE
    <3>1. z \in 0 .. i - 1 BY <1>3, <2>2 DEF InWord
    <3>2. ram[src + z] = 0
      <4>1. k + z <= Length BY <1>1, <1>3
      <4> QED BY <1>2, <1>3, <4>1, CopyWordFacts
    <3> QED BY <2>2, <3>1, <3>2
  <2> QED BY <2>1, <2>2
<1> HIDE DEF Stored
<1>5. Copied(z + 1)
  <2>1. \A a \in DOMAIN ram : Stored(a - dst) <=> a - dst \in 0 .. (z + 1) - 1
    <3>1. (z + 1) - 1 = z BY <1>3
    <3>2. \A a \in DOMAIN ram : a - dst \in Int BY <1>1
    <3> QED BY <1>4, <3>1, <3>2
  <2> QED BY <1>2, <2>1 DEF Copied
<1>6. \E n \in Nat : n = Length + 1 /\ Written(n)'
  <2>0. PICK m \in Nat : m = z + 1 BY <1>3
  <2>1. k + m = Length + 1 /\ k + m \in Nat BY <1>1, <1>3, <2>0
  <2>2. Wrote(k, m) BY <1>1, <1>5, <2>0, <2>1, CopiedWrites
  <2>3. Written(k + m)' BY <1>1, <1>2, <2>1, <2>2, WriteMore
  <2> QED BY <2>1, <2>3
<1>7. Length' = Length BY <1>2 DEF Length, Ends
<1> QED BY <1>1, <1>2, <1>6, <1>7 DEF CopyInv

-----------------------------------------------------------------------------
(* strcmp *)

\* The characters at the pointers are equal up to the n-th, which decides.
Decides(n) ==
    /\ \A j \in 0 .. n - 1 : ram[dst + j] = ram[src + j] /\ ram[dst + j] # 0
    /\ ram[dst + n] # ram[src + n] \/ ram[dst + n] = 0
    /\ Compared = Order(ram[dst + n], ram[src + n])

LEMMA CompareFacts ==
    ASSUME call \in CALLS, call.routine = "strcmp", ram = call.ram, NEW k \in Nat, Comparing(k)
    PROVE  /\ dst \in D /\ src \in D /\ dst \in Nat /\ src \in Nat /\ ram \in [D -> Bytes]
           /\ \E n \in Nat : Decides(n)
<1>1. /\ call.dst \in Nat /\ call.src \in Nat /\ dst = call.dst + k /\ src = call.src + k
      /\ EqualSoFar(k) /\ ram \in [D -> Bytes]
    BY CallIs DEF Comparing
<1>2. PICK i \in Nat :
             /\ InMemory(call, call.src, i + 1) /\ InMemory(call, call.dst, i + 1)
             /\ Part(call, i)
             /\ Compared = Order(call.ram[call.dst + i], call.ram[call.src + i])
             /\ \A m \in Nat : EqualSoFar(m) => m <= i
    BY ComparedAt
<1>3. k <= i BY <1>1, <1>2
<1>4. dst \in D /\ src \in D
  <2>1. k \in 0 .. (i + 1) - 1 BY <1>3
  <2> QED BY <1>1, <1>2, <2>1 DEF InMemory, D
<1> DEFINE n == i - k
<1>5. n \in Nat /\ dst + n = call.dst + i /\ src + n = call.src + i BY <1>1, <1>3
<1>6. \A j \in 0 .. n - 1 : ram[dst + j] = ram[src + j] /\ ram[dst + j] # 0
  <2> SUFFICES ASSUME NEW j \in 0 .. n - 1 PROVE ram[dst + j] = ram[src + j] /\ ram[dst + j] # 0
      OBVIOUS
  <2>1. k + j \in 0 .. i - 1 /\ dst + j = call.dst + (k + j) /\ src + j = call.src + (k + j)
      BY <1>1, <1>3
  <2> QED BY <1>2, <2>1 DEF Part
<1>7. Decides(n) BY <1>2, <1>5, <1>6 DEF Decides, Part
<1> QED BY <1>1, <1>4, <1>5, <1>7

LEMMA CompareMore ==
    ASSUME call \in CALLS, call.routine = "strcmp", ram = call.ram, NEW k \in Nat, Comparing(k),
           NEW m \in Nat, \A j \in 0 .. m - 1 : ram[dst + j] = ram[src + j] /\ ram[dst + j] # 0,
           call' = call
    PROVE  EqualSoFar(k + m)'
<1>1. /\ call.dst \in Nat /\ call.src \in Nat /\ dst = call.dst + k /\ src = call.src + k
      /\ EqualSoFar(k)
    BY CallIs DEF Comparing
<1>2. ASSUME NEW j \in 0 .. k + m - 1
      PROVE  call.ram[call.dst + j] = call.ram[call.src + j] /\ call.ram[call.dst + j] # 0
  <2>1. CASE j < k
    <3>1. j \in 0 .. k - 1 BY <2>1
    <3> QED BY <1>1, <3>1 DEF EqualSoFar
  <2>2. CASE ~(j < k)
    <3>1. j - k \in 0 .. m - 1 /\ dst + (j - k) = call.dst + j /\ src + (j - k) = call.src + j
        BY <1>1, <2>2
    <3> QED BY <3>1
  <2> QED BY <2>1, <2>2
<1> QED BY <1>2 DEF EqualSoFar

LEMMA SameCompared == ASSUME call' = call PROVE Compared' = Compared
BY DEF Compared, Part

LEMMA OrderSame == ASSUME NEW x \in Bytes PROVE Order(x, x) = 0
<1>1. x \in Int BY ByteWidths DEF Bytes
<1> QED BY <1>1 DEF Order

LEMMA CompareByte ==
    ASSUME call \in CALLS, call.routine = "strcmp", ram = call.ram, NEW k \in Nat, Comparing(k), StrcmpByte
    PROVE  CompareInv'
<1>1. dst \in Nat /\ src \in Nat /\ dst + 0 = dst /\ src + 0 = src BY CompareFacts
<1>2. call' = call /\ ram' = ram BY DEF StrcmpByte
<1>3. PICK n \in Nat : Decides(n) BY CompareFacts
<1>4. CASE ram[dst] # ram[src] \/ ram[dst] = 0
  <2>1. n = 0 BY <1>1, <1>3, <1>4 DEF Decides
  <2>2. routine' = "returned" /\ result' = Order(ram[dst], ram[src]) BY <1>4 DEF StrcmpByte
  <2>3. result' = Compared BY <1>1, <1>3, <2>1, <2>2 DEF Decides
  <2> QED BY <1>2, <2>2, <2>3, SameCompared DEF CompareInv
<1>5. CASE ~(ram[dst] # ram[src] \/ ram[dst] = 0)
  <2>1. dst' = dst + 1 /\ src' = src + 1 /\ routine' = "strcmp" BY <1>5 DEF StrcmpByte, Advance
  <2>2. \A j \in 0 .. 1 - 1 : ram[dst + j] = ram[src + j] /\ ram[dst + j] # 0 BY <1>1, <1>5
  <2>3. EqualSoFar(k + 1)' BY <1>2, <2>2, CompareMore
  <2>4. k + 1 \in Nat /\ dst' = call'.dst + (k + 1) /\ src' = call'.src + (k + 1)
      BY <1>2, <2>1, CallIs DEF Comparing
  <2> QED BY <1>2, <2>1, <2>3, <2>4 DEF CompareInv, Comparing
<1> QED BY <1>4, <1>5

LEMMA CompareWordFacts ==
    ASSUME call \in CALLS, call.routine = "strcmp", ram = call.ram, NEW k \in Nat, Comparing(k), Aligned
    PROVE  /\ \A j \in InWord : ram[dst + j] \in Bytes
           /\ HasZero(WordAt(dst)) <=> \E j \in InWord : ram[dst + j] = 0
           /\ WordAt(dst) = WordAt(src) <=> \A j \in InWord : ram[dst + j] = ram[src + j]
<1>1. dst \in D /\ src \in D /\ dst \in Nat /\ src \in Nat /\ ram \in [D -> Bytes] BY CompareFacts
<1>2. InBytes(dst) /\ InBytes(src)
  <2>1. \A j \in InWord : dst + j \in D /\ src + j \in D BY <1>1, CallIs DEF Aligned
  <2> QED BY <1>1, <2>1 DEF InBytes
<1> QED BY <1>1, <1>2, ZeroInRam, EqualInRam DEF InBytes

LEMMA CompareEqualWords ==
    ASSUME call \in CALLS, call.routine = "strcmp", ram = call.ram, NEW k \in Nat, Comparing(k),
           StrcmpEqualWords
    PROVE  CompareInv'
<1>1. dst \in Nat /\ src \in Nat BY CompareFacts
<1>2. call' = call /\ ram' = ram /\ Aligned /\ WordAt(dst) = WordAt(src) BY DEF StrcmpEqualWords
<1>3. \A j \in InWord : ram[dst + j] = ram[src + j] /\ ram[dst + j] \in Bytes BY <1>2, CompareWordFacts
<1>4. PICK n \in Nat : Decides(n) BY CompareFacts
<1>5. CASE HasZero(WordAt(dst))
  <2>1. PICK z \in InWord : ram[dst + z] = 0 BY <1>2, <1>5, CompareWordFacts
  <2>2. ~(z \in 0 .. n - 1) BY <1>4, <2>1 DEF Decides
  <2>3. n \in InWord BY <2>2 DEF InWord
  <2>4. Order(ram[dst + n], ram[src + n]) = 0 BY <1>3, <2>3, OrderSame
  <2>5. routine' = "returned" /\ result' = Compared BY <1>4, <1>5, <2>4 DEF StrcmpEqualWords, Decides
  <2> QED BY <1>2, <2>5, SameCompared DEF CompareInv
<1>6. CASE ~HasZero(WordAt(dst))
  <2>1. dst' = dst + 4 /\ src' = src + 4 /\ routine' = "strcmp"
      BY <1>6 DEF StrcmpEqualWords, Advance
  <2>2. \A j \in 0 .. 4 - 1 : ram[dst + j] = ram[src + j] /\ ram[dst + j] # 0
    <3>1. \A j \in InWord : ram[dst + j] # 0 BY <1>2, <1>6, CompareWordFacts
    <3> QED BY <1>3, <3>1 DEF InWord
  <2>3. 4 \in Nat OBVIOUS
  <2>4. EqualSoFar(k + 4)' BY <1>2, <2>2, <2>3, CompareMore
  <2>5. k + 4 \in Nat /\ dst' = call'.dst + (k + 4) /\ src' = call'.src + (k + 4)
      BY <1>2, <2>1, CallIs DEF Comparing
  <2> QED BY <1>2, <2>1, <2>4, <2>5 DEF CompareInv, Comparing
<1> QED BY <1>5, <1>6

LEMMA CompareOtherWords ==
    ASSUME call \in CALLS, call.routine = "strcmp", ram = call.ram, NEW k \in Nat, Comparing(k),
           StrcmpOtherWords
    PROVE  CompareInv'
<1> DEFINE Stop(i) == ram[dst + i] # ram[src + i] \/ ram[dst + i] = 0
<1> DEFINE Earliest(i) == Stop(i) /\ \A j \in 0 .. i - 1 : ~Stop(j)
<1>1. call' = call /\ ram' = ram /\ routine' = "returned" /\ Aligned /\ WordAt(dst) # WordAt(src)
    BY DEF StrcmpOtherWords
<1>2. LET i == CHOOSE i \in InWord : Earliest(i)
      IN  result' = Order(ram[dst + i], ram[src + i])
    BY DEF StrcmpOtherWords
<1>3. PICK n \in Nat : Decides(n) BY CompareFacts
<1>4. n \in InWord
  <2>1. PICK z \in InWord : ram[dst + z] # ram[src + z] BY <1>1, CompareWordFacts
  <2>2. ~(z \in 0 .. n - 1) BY <1>3, <2>1 DEF Decides
  <2> QED BY <2>2 DEF InWord
<1>5. Earliest(n) BY <1>3 DEF Decides
<1>6. \A i \in InWord : Earliest(i) => i = n
  <2> SUFFICES ASSUME NEW i \in InWord, Earliest(i) PROVE i = n OBVIOUS
  <2>1. Stop(i) /\ Stop(n) BY <1>5
  <2>2. \A j \in 0 .. i - 1 : ~Stop(j) OBVIOUS
  <2>3. \A j \in 0 .. n - 1 : ~Stop(j) BY <1>5
  <2>4. i \in Nat BY DEF InWord
  <2> HIDE DEF Stop, Earliest
  <2>5. ~(n < i) /\ ~(i < n) BY <2>1, <2>2, <2>3, <2>4
  <2> QED BY <2>4, <2>5
<1> HIDE DEF Earliest
<1>7. (CHOOSE i \in InWord : Earliest(i)) = n BY <1>4, <1>5, <1>6
<1>8. result' = Compared BY <1>2, <1>3, <1>7 DEF Decides
<1> QED BY <1>1, <1>8, SameCompared DEF CompareInv

-----------------------------------------------------------------------------
(* memcpy and memset *)

LEMMA MoveFacts ==
    ASSUME call \in CALLS, call.routine \in {"memcpy", "memset"}, NEW k \in Nat, k <= call.n, Moving(k)
    PROVE  /\ call.routine \in Writers /\ Size = call.n /\ Size \in Nat /\ Written(k)
           /\ call.dst \in Nat /\ dst = call.dst + k /\ src = From(k) /\ left = Size - k
<1>1. call.routine \in Writers /\ call.routine # "strcpy" /\ call.n \in Nat /\ call.dst \in Nat
    BY CallIs DEF Writers
<1>2. src = From(k) BY DEF Moving, From
<1> QED BY <1>1, <1>2 DEF Moving, Size

LEMMA MoveByte ==
    ASSUME call \in CALLS, call.routine \in {"memcpy", "memset"}, NEW k \in Nat, k <= call.n, Moving(k),
           MemcpyByte \/ MemsetByte
    PROVE  MoveInv'
<1>1. /\ call.routine \in Writers /\ Size = call.n /\ Size \in Nat /\ Written(k)
      /\ call.dst \in Nat /\ dst = call.dst + k /\ src = From(k) /\ left = Size - k
    BY MoveFacts
<1>2. /\ left > 0 /\ ram' = [ram EXCEPT ![dst] = ram[src]] /\ dst' = dst + 1 /\ left' = left - 1
      /\ call' = call /\ routine' = routine /\ routine # "returned"
    BY DEF MemcpyByte, MemsetByte, Advance
<1>3. routine = call.routine BY <1>2 DEF Moving
<1>4. src' = IF call.routine = "memcpy" THEN src + 1 ELSE src
    BY <1>3 DEF MemcpyByte, MemsetByte, Advance
<1>5. k < Size /\ k + 1 <= call.n /\ k + 1 \in Nat BY <1>1, <1>2
<1>6. Written(k + 1)'
  <2>1. ram' = [ram EXCEPT ![call.dst + k] = ram[From(k)]] BY <1>1, <1>2
  <2> QED BY <1>1, <1>2, <1>5, <2>1, WriteByte
<1>7. left' = call'.n - (k + 1) /\ dst' = call'.dst + (k + 1) BY <1>1, <1>2
<1>8. src' = IF call'.routine = "memcpy" THEN call'.src + (k + 1) ELSE call'.src
  <2>1. call.src \in Nat BY CallIs
  <2>2. src = IF call.routine = "memcpy" THEN call.src + k ELSE call.src BY DEF Moving
  <2> QED BY <1>2, <1>4, <2>1, <2>2
<1> QED BY <1>2, <1>3, <1>5, <1>6, <1>7, <1>8 DEF MoveInv, Moving

LEMMA MoveReturn ==
    ASSUME call \in CALLS, call.routine \in {"memcpy", "memset"}, NEW k \in Nat, k <= call.n, Moving(k),
           MemReturn
    PROVE  MoveInv'
<1>1. Size = call.n /\ Size \in Nat /\ left = Size - k BY MoveFacts
<1>2. left = 0 /\ routine' = "returned" /\ UNCHANGED <<dst, src, left, ram, call>> BY DEF MemReturn
<1>3. k = call.n BY <1>1, <1>2
<1>4. Written(k)' = Written(k) BY <1>2 DEF Written, Wanted
<1> QED BY <1>2, <1>3, <1>4 DEF MoveInv, Moving

-----------------------------------------------------------------------------
(* The whole call *)

LEMMA Nothing == ASSUME call \in CALLS, ram = call.ram PROVE Written(0)
<1>1. call.ram \in [D -> Bytes] BY CallIs
<1>2. \A i : ~(i \in 0 .. 0 - 1) OBVIOUS
<1> QED BY <1>1, <1>2 DEF Written, D

LEMMA LibStarts == ASSUME LibraryInit PROVE LibInv
<1>1. /\ call \in CALLS /\ routine = call.routine /\ dst = call.dst /\ src = call.src
      /\ left = call.n /\ ram = call.ram
    BY DEF LibraryInit
<1>2. /\ call.routine \in {"strcpy", "strcmp", "memcpy", "memset", "print"}
      /\ call.dst \in Nat /\ call.src \in Nat /\ call.n \in Nat
    BY <1>1, CallIs
<1>3. Written(0) BY <1>1, Nothing
<1>4. 0 \in Nat /\ dst = call.dst + 0 /\ src = call.src + 0 /\ left = call.n - 0 BY <1>1, <1>2
<1>5. CASE call.routine = "strcpy"
  <2>1. 0 <= Length BY <1>1, <1>5, LengthIs
  <2>2. Copying(0) BY <1>1, <1>3, <1>4, <1>5 DEF Copying
  <2>3. CopyInv BY <1>4, <2>1, <2>2 DEF CopyInv
  <2> QED BY <1>1, <1>5, <2>3 DEF LibInv
<1>6. CASE call.routine = "strcmp"
  <2>1. EqualSoFar(0) BY DEF EqualSoFar
  <2>2. CompareInv BY <1>1, <1>4, <1>6, <2>1 DEF CompareInv, Comparing
  <2> QED BY <1>1, <1>6, <2>2 DEF LibInv
<1>7. CASE call.routine \in {"memcpy", "memset"}
  <2>1. Moving(0) BY <1>1, <1>3, <1>4, <1>7 DEF Moving
  <2>2. MoveInv BY <1>2, <1>4, <2>1 DEF MoveInv
  <2> QED BY <1>1, <1>7, <2>2 DEF LibInv
<1>8. CASE call.routine = "print" BY <1>1, <1>8 DEF LibInv, PrintInv
<1> QED BY <1>2, <1>5, <1>6, <1>7, <1>8

LEMMA LibSteps == ASSUME LibInv, LibraryNext PROVE LibInv'
<1>1. ASSUME call \in CALLS, call.routine = "strcpy", CopyInv PROVE LibInv'
  <2>1. PICK k \in Nat : \/ k <= Length /\ Copying(k)
                         \/ k = Length + 1 /\ routine = "returned" /\ Written(k)
      BY <1>1 DEF CopyInv
  <2>2. routine # "returned"
      BY DEF LibraryNext, StrcpyByte, StrcpyWord, StrcpyLast, StrcmpByte, StrcmpEqualWords,
             StrcmpOtherWords, MemcpyByte, MemsetByte, MemReturn, PrintNumber
  <2>3. k <= Length /\ Copying(k) /\ routine = "strcpy" BY <2>1, <2>2 DEF Copying
  <2>4. (StrcpyByte \/ StrcpyWord \/ StrcpyLast) /\ call' = call
      BY <2>3 DEF LibraryNext, StrcpyByte, StrcpyWord, StrcpyLast, StrcmpByte, StrcmpEqualWords,
             StrcmpOtherWords, MemcpyByte, MemsetByte, MemReturn, PrintNumber
  <2>5. CopyInv' BY <1>1, <2>3, <2>4, CopyByte, CopyWord, CopyLast
  <2> QED BY <1>1, <2>4, <2>5 DEF LibInv
<1>2. ASSUME call \in CALLS, call.routine = "strcmp", CompareInv PROVE LibInv'
  <2>1. routine # "returned"
      BY DEF LibraryNext, StrcpyByte, StrcpyWord, StrcpyLast, StrcmpByte, StrcmpEqualWords,
             StrcmpOtherWords, MemcpyByte, MemsetByte, MemReturn, PrintNumber
  <2>2. ram = call.ram /\ \E k \in Nat : Comparing(k) BY <1>2, <2>1 DEF CompareInv
  <2>3. PICK k \in Nat : Comparing(k) /\ routine = "strcmp" BY <2>2 DEF Comparing
  <2>4. (StrcmpByte \/ StrcmpEqualWords \/ StrcmpOtherWords) /\ call' = call
      BY <2>3 DEF LibraryNext, StrcpyByte, StrcpyWord, StrcpyLast, StrcmpByte, StrcmpEqualWords,
             StrcmpOtherWords, MemcpyByte, MemsetByte, MemReturn, PrintNumber
  <2>5. CompareInv' BY <1>2, <2>2, <2>3, <2>4, CompareByte, CompareEqualWords, CompareOtherWords
  <2> QED BY <1>2, <2>4, <2>5 DEF LibInv
<1>3. ASSUME call \in CALLS, call.routine \in {"memcpy", "memset"}, MoveInv PROVE LibInv'
  <2>1. PICK k \in Nat : k <= call.n /\ Moving(k) BY <1>3 DEF MoveInv
  <2>2. routine \in {"memcpy", "memset", "returned"} BY <1>3, <2>1 DEF Moving
  <2>3. (MemcpyByte \/ MemsetByte \/ MemReturn) /\ call' = call
      BY <2>2 DEF LibraryNext, StrcpyByte, StrcpyWord, StrcpyLast, StrcmpByte, StrcmpEqualWords,
             StrcmpOtherWords, MemcpyByte, MemsetByte, MemReturn, PrintNumber
  <2>4. MoveInv' BY <1>3, <2>1, <2>3, MoveByte, MoveReturn
  <2> QED BY <1>3, <2>3, <2>4 DEF LibInv
<1>4. ASSUME call.routine = "print", PrintInv PROVE LibInv'
  <2>1. routine \in {"print", "returned"} /\ ram = call.ram BY <1>4 DEF PrintInv
  <2>2. PrintNumber
      BY <2>1 DEF LibraryNext, StrcpyByte, StrcpyWord, StrcpyLast, StrcmpByte, StrcmpEqualWords,
             StrcmpOtherWords, MemcpyByte, MemsetByte, MemReturn, PrintNumber
  <2>3. PICK val \in VALUES : call' = [call EXCEPT !.n = val] BY <2>2 DEF PrintNumber
  <2>4. call'.routine = call.routine /\ call'.ram = call.ram BY <2>3
  <2>5. ram' = ram /\ routine' = "returned" BY <2>2 DEF PrintNumber
  <2> QED BY <1>4, <2>1, <2>4, <2>5 DEF LibInv, PrintInv
<1> QED BY <1>1, <1>2, <1>3, <1>4 DEF LibInv

LEMMA LibIdles == ASSUME LibInv, UNCHANGED libraryVars PROVE LibInv'
<1>1. /\ call' = call /\ routine' = routine /\ dst' = dst /\ src' = src /\ left' = left
      /\ ram' = ram /\ result' = result
    BY DEF libraryVars
<1>2. /\ Length' = Length /\ Compared' = Compared
      /\ \A k \in Nat : Written(k)' = Written(k)
    BY <1>1 DEF Length, Ends, Compared, Part, Written, Wanted
<1>3. (CopyInv => CopyInv') /\ (CompareInv => CompareInv') /\ (MoveInv => MoveInv') /\ (PrintInv => PrintInv')
    BY <1>1, <1>2 DEF CopyInv, Copying, CompareInv, Comparing, EqualSoFar, MoveInv, Moving, PrintInv
<1> QED BY <1>1, <1>3 DEF LibInv

\* Only the target changes, and it is complete when the call returns.
LEMMA TargetIsWritten ==
    ASSUME call \in CALLS, call.routine \in Writers, NEW k \in Nat, k <= Size, Written(k),
           routine = "returned" => k = Size
    PROVE  /\ \A a \in DOMAIN ram \ Target : ram[a] = call.ram[a]
           /\ routine = "returned" => \A a \in Target : ram[a] = Wanted(a)
<1>1. Size \in Nat /\ call.dst \in Nat /\ D \subseteq Nat BY WritersAre
<1>2. Target = call.dst .. call.dst + (Size - 1)
  <2>1. CASE call.routine = "strcpy"
    <3>1. Size - 1 = Length BY <2>1, LengthIs DEF Size
    <3> QED BY <2>1, <3>1 DEF Target
  <2>2. CASE call.routine \in {"memcpy", "memset"}
    <3>1. Size = call.n /\ call.dst + (Size - 1) = call.dst + call.n - 1 BY <1>1, <2>2 DEF Size
    <3> QED BY <2>2, <3>1 DEF Target
  <2> QED BY <2>1, <2>2 DEF Writers
<1>3. /\ DOMAIN ram = D
      /\ \A a \in D : ram[a] = IF a - call.dst \in 0 .. k - 1 THEN Wanted(a) ELSE call.ram[a]
    BY DEF Written, D
<1>4. \A a \in D : a - call.dst \in 0 .. Size - 1 <=> a \in Target BY <1>1, <1>2
<1>5. ASSUME NEW a \in Target PROVE a \in D
  <2>1. a - call.dst \in 0 .. Size - 1 /\ call.dst + (a - call.dst) = a BY <1>1, <1>2
  <2> QED BY <2>1, WritersAre
<1>6. ASSUME NEW a \in DOMAIN ram \ Target PROVE ram[a] = call.ram[a]
  <2>1. a \in D /\ ~(a - call.dst \in 0 .. Size - 1) BY <1>3, <1>4
  <2>2. ~(a - call.dst \in 0 .. k - 1) BY <1>1, <2>1
  <2> QED BY <1>3, <2>1, <2>2
<1>7. ASSUME routine = "returned", NEW a \in Target PROVE ram[a] = Wanted(a)
    BY <1>3, <1>4, <1>5, <1>7
<1> QED BY <1>6, <1>7

LEMMA LibInvIsRight == ASSUME LibInv PROVE StringsAreRight
<1>1. CASE call \in CALLS /\ call.routine = "strcpy" /\ CopyInv
  <2>1. PICK k \in Nat : \/ k <= Length /\ Copying(k)
                         \/ k = Length + 1 /\ routine = "returned" /\ Written(k)
      BY <1>1 DEF CopyInv
  <2>2. call.routine \in Writers /\ Size = Length + 1 /\ Length \in Nat
      BY <1>1, LengthIs DEF Writers, Size
  <2>3. k <= Size /\ Written(k) /\ (routine = "returned" => k = Size) BY <2>1, <2>2 DEF Copying
  <2> QED BY <1>1, <2>2, <2>3, TargetIsWritten DEF StringsAreRight
<1>2. CASE call \in CALLS /\ call.routine = "strcmp" /\ CompareInv
  <2>1. ram = call.ram /\ (routine = "returned" => result = Compared)
      BY <1>2 DEF CompareInv, Comparing
  <2>2. Target = {} BY <1>2 DEF Target
  <2> QED BY <2>1, <2>2 DEF StringsAreRight
<1>3. CASE call \in CALLS /\ call.routine \in {"memcpy", "memset"} /\ MoveInv
  <2>1. PICK k \in Nat : k <= call.n /\ Moving(k) BY <1>3 DEF MoveInv
  <2>2. call.routine \in Writers /\ Size = call.n /\ Written(k) BY <1>3, <2>1, MoveFacts
  <2>3. routine = "returned" => k = Size BY <2>1, <2>2 DEF Moving
  <2> QED BY <1>3, <2>1, <2>2, <2>3, TargetIsWritten DEF StringsAreRight
<1>4. CASE call.routine = "print" /\ PrintInv
  <2>1. Target = {} BY <1>4 DEF Target
  <2> QED BY <1>4, <2>1 DEF StringsAreRight, PrintInv
<1> QED BY <1>1, <1>2, <1>3, <1>4 DEF LibInv

\* For bytes of any width and memories of any size: strcpy copies the string and its
\* end, strcmp orders as bytes do, memcpy and memset write their bytes, and nothing
\* else changes (strcpy and strcmp of dhrystone/stdlib.c, memcpy and memset of the
\* inference programs).
THEOREM StringsAlwaysRight == LibrarySpec => []StringsAreRight
<1>1. LibraryInit => LibInv BY LibStarts
<1>2. LibInv /\ [LibraryNext]_libraryVars => LibInv' BY LibSteps, LibIdles
<1>3. LibInv => StringsAreRight BY LibInvIsRight
<1> QED BY <1>1, <1>2, <1>3, PTL DEF LibrarySpec

-----------------------------------------------------------------------------
(* Numbers.                                                                *)

Digits == 0 .. 9

\* d is the numeral of v.
Numeral(v, d) ==
    /\ d \in Seq(Digits) /\ Len(d) # 0 /\ Horner(10, d) = v
    /\ IF v < 10 THEN Len(d) = 1 ELSE d[1] # 0

Shows(val, f) ==
    \A v \in 0 .. val : f[v] = IF v < 10 THEN <<v>> ELSE Append(f[v \div 10], v % 10)

\* A quotient by ten is smaller.
LEMMA Tenth ==
    ASSUME NEW v \in Nat, v >= 10
    PROVE  /\ v \div 10 \in 1 .. v - 1 /\ v % 10 \in Digits /\ v = 10 * (v \div 10) + (v % 10)
           /\ \A b \in Nat : v < 10 * b => v \div 10 < b
<1> DEFINE q == v \div 10
           r == v % 10
<1>1. q \in Int /\ r \in 0 .. 9 /\ v = 10 * q + r BY DivMod
<1> HIDE DEF q, r
<1>2. q \in 1 .. v - 1 BY <1>1
<1>3. \A b \in Nat : v < 10 * b => q < b BY <1>1
<1> QED BY <1>1, <1>2, <1>3 DEF q, r, Digits

LEMMA ShownExists ==
    ASSUME NEW val \in Nat
    PROVE  \E f : f = [v \in 0 .. val |-> IF v < 10 THEN <<v>> ELSE Append(f[v \div 10], v % 10)]
<1> DEFINE Good == {m \in 0 .. val : \E f : DOMAIN f = 0 .. m /\ Shows(m, f)}
<1>1. 0 \in Good
  <2> DEFINE f == [v \in 0 .. 0 |-> <<v>>]
  <2>1. DOMAIN f = 0 .. 0 /\ Shows(0, f) BY DEF Shows
  <2> HIDE DEF f
  <2> QED BY <2>1
<1>2. ASSUME NEW m \in 0 .. val - 1, m \in Good PROVE m + 1 \in Good
  <2>1. PICK f : DOMAIN f = 0 .. m /\ Shows(m, f) BY <1>2
  <2> DEFINE n == m + 1
             last == IF n < 10 THEN <<n>> ELSE Append(f[n \div 10], n % 10)
             g == [v \in 0 .. n |-> IF v = n THEN last ELSE f[v]]
  <2>2. n \in Nat /\ n \in 0 .. val /\ g[n] = last /\ \A v \in 0 .. m : v \in 0 .. n /\ v # n OBVIOUS
  <2>3. \A v \in 0 .. m : g[v] = f[v] BY <2>2
  <2>4. \A v \in 0 .. n : v >= 10 => v \div 10 \in 0 .. m
    <3>1. ASSUME NEW v \in 0 .. n, v >= 10 PROVE v \div 10 \in 0 .. m
      <4>1. v \in Nat /\ v \div 10 \in 1 .. v - 1 BY <3>1, Tenth
      <4> QED BY <4>1
    <3> QED BY <3>1
  <2>5. DOMAIN g = 0 .. n OBVIOUS
  <2>6. \A v \in 0 .. n : v \in 0 .. m \/ v = n OBVIOUS
  <2>7. Shows(n, g)
    <3>1. ASSUME NEW v \in 0 .. n PROVE g[v] = IF v < 10 THEN <<v>> ELSE Append(g[v \div 10], v % 10)
      <4>1. v >= 10 => g[v \div 10] = f[v \div 10] BY <2>3, <2>4
      <4>2. g[v] = IF v < 10 THEN <<v>> ELSE Append(f[v \div 10], v % 10)
        <5>1. CASE v = n BY <2>2, <5>1
        <5>2. CASE v \in 0 .. m
          <6> HIDE DEF g
          <6> QED BY <2>1, <2>3, <5>2 DEF Shows
        <5> QED BY <2>6, <5>1, <5>2
      <4> HIDE DEF g
      <4>3. v \in Nat OBVIOUS
      <4>4. CASE v < 10 BY <4>2, <4>4
      <4>5. CASE ~(v < 10)
        <5>1. v >= 10 BY <4>3, <4>5
        <5> QED BY <4>1, <4>2, <4>5, <5>1
      <4> QED BY <4>4, <4>5
    <3> HIDE DEF g
    <3> QED BY <3>1 DEF Shows
  <2> HIDE DEF g
  <2> QED BY <2>2, <2>5, <2>7
<1>3. val \in Good
  <2> HIDE DEF Good
  <2>1. 0 .. val \subseteq Good BY <1>1, <1>2, UpTo
  <2> QED BY <2>1
<1>4. PICK f : DOMAIN f = 0 .. val /\ Shows(val, f) BY <1>3
<1> DEFINE g == [v \in 0 .. val |-> f[v]]
<1>5. \A v \in 0 .. val : g[v] = f[v] OBVIOUS
<1>6. \A v \in 0 .. val : v < 10 \/ v \div 10 \in 0 .. val
  <2>1. ASSUME NEW v \in 0 .. val, v >= 10 PROVE v \div 10 \in 0 .. val
    <3>1. v \in Nat /\ v \div 10 \in 1 .. v - 1 BY <2>1, Tenth
    <3> QED BY <3>1
  <2> QED BY <2>1
<1>7. ASSUME NEW v \in 0 .. val PROVE g[v] = IF v < 10 THEN <<v>> ELSE Append(g[v \div 10], v % 10)
  <2>1. g[v] = IF v < 10 THEN <<v>> ELSE Append(f[v \div 10], v % 10) BY <1>4, <1>5 DEF Shows
  <2>2. v < 10 \/ g[v \div 10] = f[v \div 10] BY <1>5, <1>6
  <2> HIDE DEF g
  <2> QED BY <2>1, <2>2
<1>8. g = [v \in 0 .. val |-> g[v]] OBVIOUS
<1> HIDE DEF g
<1>9. g = [v \in 0 .. val |-> IF v < 10 THEN <<v>> ELSE Append(g[v \div 10], v % 10)] BY <1>7, <1>8
<1> QED BY <1>9

\* One more digit.
LEMMA NumeralGrows ==
    ASSUME NEW v \in Nat, v >= 10, NEW d, Numeral(v \div 10, d)
    PROVE  Numeral(v, Append(d, v % 10))
<1> DEFINE q == v \div 10
           r == v % 10
           e == Append(d, r)
<1>1. q \in Nat \ {0} /\ r \in Digits /\ v = 10 * q + r BY Tenth
<1>2. Numeral(q, d) OBVIOUS
<1> HIDE DEF q, r
<1>3. d \in Seq(Digits) /\ Len(d) \in Nat \ {0} /\ Horner(10, d) = q BY <1>2 DEF Numeral
<1>4. e \in Seq(Digits) /\ Len(e) = Len(d) + 1 /\ e[1] = d[1] BY <1>1, <1>3
<1>5. Horner(10, e) = v
  <2>1. d \in Seq(Nat) /\ r \in Nat /\ 10 \in Nat BY <1>1, <1>3 DEF Digits
  <2>2. Horner(10, e) = 10 * Horner(10, d) + r BY <2>1, HornerGrows
  <2> QED BY <1>1, <1>3, <2>2
<1>6. d[1] # 0
  <2>1. CASE q < 10
    <3>1. Len(d) = 1 BY <1>2, <2>1 DEF Numeral
    <3> DEFINE x == d[1]
    <3>2. x \in Digits /\ d = Append(<<>>, x) /\ <<>> \in Seq(Nat) BY <1>3, <3>1
    <3> HIDE DEF x
    <3>3. x \in Nat /\ 10 \in Nat BY <3>2 DEF Digits
    <3>4. <<>> \in Seq(Nat) BY <3>2
    <3>5. Horner(10, <<>>) = 0 /\ Horner(10, Append(<<>>, x)) = 10 * Horner(10, <<>>) + x
        BY <3>3, <3>4, HornerGrows
    <3>6. Horner(10, d) = x BY <3>2, <3>3, <3>5
    <3> QED BY <1>1, <1>3, <3>6 DEF x
  <2>2. CASE ~(q < 10) BY <1>2, <2>2 DEF Numeral
  <2> QED BY <2>1, <2>2
<1>7. Numeral(v, e)
  <2> HIDE DEF e
  <2>1. Len(e) # 0 BY <1>3, <1>4
  <2> QED BY <1>4, <1>5, <1>6, <2>1 DEF Numeral
<1> QED BY <1>7 DEF q, r

LEMMA OneDigit == ASSUME NEW v \in Digits PROVE Numeral(v, <<v>>)
<1>1. v \in Nat /\ v < 10 /\ 10 \in Nat /\ <<>> \in Seq(Nat) BY DEF Digits
<1>2. <<v>> = Append(<<>>, v) /\ Len(<<v>>) = 1 /\ <<v>> \in Seq(Digits) OBVIOUS
<1>3. Horner(10, <<>>) = 0 /\ Horner(10, Append(<<>>, v)) = 10 * Horner(10, <<>>) + v
    BY <1>1, HornerGrows
<1>4. Horner(10, <<v>>) = v BY <1>1, <1>2, <1>3
<1> QED BY <1>1, <1>2, <1>4 DEF Numeral

\* What is shown of a number is its numeral.
LEMMA ShownIs ==
    ASSUME NEW val \in Nat, NEW f, Shows(val, f)
    PROVE  \A v \in 0 .. val : Numeral(v, f[v])
<1> DEFINE Bad == {v \in 0 .. val : ~Numeral(v, f[v])}
<1>1. SUFFICES ASSUME Bad # {} PROVE FALSE OBVIOUS
<1>2. PICK m \in Bad : \A k \in Bad : m <= k
  <2>1. Bad \in SUBSET Nat OBVIOUS
  <2> HIDE DEF Bad
  <2> QED BY <1>1, <2>1, Least
<1>3. m \in 0 .. val /\ m \in Nat /\ ~Numeral(m, f[m]) BY <1>2
<1>4. CASE m < 10
  <2>1. m \in Digits BY <1>3, <1>4 DEF Digits
  <2>2. f[m] = <<m>> BY <1>3, <1>4 DEF Shows
  <2> QED BY <1>3, <2>1, <2>2, OneDigit
<1>5. CASE ~(m < 10)
  <2>1. m >= 10 BY <1>3, <1>5
  <2>2. f[m] = Append(f[m \div 10], m % 10) BY <1>3, <1>5 DEF Shows
  <2>3. m \div 10 \in 1 .. m - 1 BY <1>3, <2>1, Tenth
  <2> DEFINE q == m \div 10
  <2>4. q \in 0 .. val /\ ~(m <= q) BY <1>3, <2>3
  <2>5. Numeral(q, f[q])
    <3> HIDE DEF q
    <3>1. q \notin Bad BY <1>2, <2>4
    <3> QED BY <2>4, <3>1
  <2> QED BY <1>3, <2>1, <2>2, <2>5, NumeralGrows
<1> QED BY <1>4, <1>5

\* A number below ten to the n has at most n digits.
Fits(val, f, b, n) == \A v \in 0 .. val : v < b => Len(f[v]) <= n

LEMMA FitsMore ==
    ASSUME NEW val \in Nat, NEW f, Shows(val, f), NEW b \in Nat, b >= 10, NEW n \in Nat \ {0},
           Fits(val, f, b, n)
    PROVE  Fits(val, f, 10 * b, n + 1)
<1>1. \A v \in 0 .. val : f[v] \in Seq(Digits) /\ Len(f[v]) \in Nat BY ShownIs DEF Numeral
<1>2. ASSUME NEW v \in 0 .. val, v < 10 * b PROVE Len(f[v]) <= n + 1
  <2>1. CASE v < 10
    <3>1. Len(f[v]) <= n BY <2>1 DEF Fits
    <3> QED BY <1>1, <3>1
  <2>2. CASE ~(v < 10)
    <3> DEFINE q == v \div 10
    <3>1. v \in Nat /\ v >= 10 BY <2>2
    <3>2. q \in 1 .. v - 1 /\ q < b BY <1>2, <3>1, Tenth
    <3>3. f[v] = Append(f[q], v % 10) BY <2>2 DEF Shows
    <3>4. q \in 0 .. val BY <3>1, <3>2
    <3> HIDE DEF q
    <3>5. Len(f[q]) <= n BY <3>2, <3>4 DEF Fits
    <3>6. Len(f[v]) = Len(f[q]) + 1 BY <1>1, <3>3, <3>4
    <3> QED BY <1>1, <3>4, <3>5, <3>6
  <2> QED BY <2>1, <2>2
<1> QED BY <1>2 DEF Fits

TenToTheTenth == 10000000000

\* A word of 32 bits has at most ten digits.
LEMMA TenDigits ==
    ASSUME NEW val \in Nat, val < TenToTheTenth, NEW f, Shows(val, f)
    PROVE  Len(f[val]) <= 10
<1>1. Fits(val, f, 10, 1)
  <2>1. ASSUME NEW v \in 0 .. val, v < 10 PROVE Len(f[v]) <= 1
    <3>1. Numeral(v, f[v]) BY ShownIs
    <3>2. Len(f[v]) = 1 BY <2>1, <3>1 DEF Numeral
    <3> QED BY <3>2
  <2> QED BY <2>1 DEF Fits
<1>2. Fits(val, f, 100, 2) BY <1>1, FitsMore
<1>3. Fits(val, f, 1000, 3) BY <1>2, FitsMore
<1>4. Fits(val, f, 10000, 4) BY <1>3, FitsMore
<1>5. Fits(val, f, 100000, 5) BY <1>4, FitsMore
<1>6. Fits(val, f, 1000000, 6) BY <1>5, FitsMore
<1>7. Fits(val, f, 10000000, 7) BY <1>6, FitsMore
<1>8. Fits(val, f, 100000000, 8) BY <1>7, FitsMore
<1>9. Fits(val, f, 1000000000, 9) BY <1>8, FitsMore
<1>10. Fits(val, f, 10000000000, 10) BY <1>9, FitsMore
<1>11. val \in 0 .. val OBVIOUS
<1> QED BY <1>10, <1>11, SMT DEF Fits, TenToTheTenth

LEMMA DecIs ==
    ASSUME NEW val \in Nat, val < TenToTheTenth
    PROVE  Numeral(val, print_dec(val)) /\ Len(print_dec(val)) <= 10
<1> DEFINE body(g) == [v \in 0 .. val |-> IF v < 10 THEN <<v>> ELSE Append(g[v \div 10], v % 10)]
           f == CHOOSE g : g = body(g)
<1>1. \E g : g = body(g) BY ShownExists, Zenon
<1>2. f = body(f)
  <2> HIDE DEF body
  <2> QED BY <1>1
<1>3. print_dec(val) = f[val] BY DEF print_dec
<1> HIDE DEF f
<1>4. Shows(val, f) BY <1>2 DEF Shows
<1>5. val \in 0 .. val OBVIOUS
<1> QED BY <1>3, <1>4, <1>5, ShownIs, TenDigits

\* Until it returns, a call is what it was; a print leaves the characters of a number.
DecInv ==
    \/ call \in CALLS /\ routine = call.routine
    \/ routine = "returned" /\ call.routine # "print"
    \/ routine = "returned" /\ \E val \in VALUES : result = print_signed(val) /\ call.n = val

LEMMA DecSteps == ASSUME DecInv, LibraryNext PROVE DecInv'
<1>1. routine # "returned"
    BY DEF LibraryNext, StrcpyByte, StrcpyWord, StrcpyLast, StrcmpByte, StrcmpEqualWords,
           StrcmpOtherWords, MemcpyByte, MemsetByte, MemReturn, PrintNumber
<1>2. call \in CALLS /\ routine = call.routine BY <1>1 DEF DecInv
<1>3. CASE PrintNumber
  <2>1. PICK val \in VALUES : result' = print_signed(val) /\ call' = [call EXCEPT !.n = val]
      BY <1>3 DEF PrintNumber
  <2>2. call'.n = val
    <3>1. call \in [routine : {"strcpy", "strcmp", "memcpy", "memset", "print"},
                    dst : Nat, src : Nat, n : Nat, ram : [D -> 0 .. 2^BYTE_BITS - 1]]
        BY <1>2, CallAssumption DEF IsCall, D
    <3>2. "n" \in DOMAIN call BY <3>1
    <3> QED BY <2>1, <3>2
  <2>3. routine' = "returned" BY <1>3 DEF PrintNumber
  <2> HIDE DEF DecInv
  <2> QED BY <2>1, <2>2, <2>3, Zenon DEF DecInv
<1>4. CASE ~PrintNumber
  <2>1. call' = call /\ routine' \in {routine, "returned"} /\ routine # "print"
      BY <1>4 DEF LibraryNext, StrcpyByte, StrcpyWord, StrcpyLast, StrcmpByte, StrcmpEqualWords,
             StrcmpOtherWords, MemcpyByte, MemsetByte, MemReturn
  <2> QED BY <1>2, <2>1 DEF DecInv
<1> QED BY <1>3, <1>4

LEMMA QuotientBound ==
    ASSUME NEW a \in Int, NEW b \in Nat \ {0}, NEW hi \in Int, a \div b <= hi
    PROVE  a < b * (hi + 1)
<1> DEFINE q == a \div b
           r == a % b
<1>1. q \in Int /\ r \in 0 .. b - 1 /\ a = b * q + r /\ q <= hi BY DivMod
<1> HIDE DEF q, r
<1>2. PICK y \in Nat : hi = q + y
  <2>1. hi - q \in Nat /\ hi = q + (hi - q) BY <1>1
  <2> QED BY <2>1
<1>3. b * y \in Nat OBVIOUS
<1>4. b * (hi + 1) = b * q + b * y + b BY <1>1, <1>2
<1>5. b * q \in Int BY <1>1
<1> QED BY <1>1, <1>3, <1>4, <1>5

LEMMA NumberReadsBack ==
    ASSUME NEW val \in VALUES, result = print_signed(val), call.n = val
    PROVE  DecimalsReadBack
<1>1. val \in Int /\ val < TenToTheTenth /\ -val < TenToTheTenth
  <2>1. val \in Int /\ val >= -2147483647 /\ val \div 65536 <= 65535 BY ValuesAssumption
  <2>2. val < 65536 * (65535 + 1) BY <2>1, QuotientBound
  <2> QED BY <2>1, <2>2, SMT DEF TenToTheTenth
<1> DEFINE m == IF val < 0 THEN -val ELSE val
           d == print_dec(m)
<1>2. m \in Nat /\ m < TenToTheTenth /\ val = IF val < 0 THEN -m ELSE m BY <1>1
<1>3. result = IF val < 0 THEN <<MINUS>> \o d ELSE d BY DEF print_signed
<1> HIDE DEF m
<1>4. Numeral(m, d) /\ Len(d) <= 10 BY <1>2, DecIs
<1> HIDE DEF d
<1>5. d \in Seq(Digits) /\ Len(d) \in 1 .. 10 /\ Horner(10, d) = m /\ (Len(d) > 1 => d[1] # 0)
  <2>1. d \in Seq(Digits) /\ Len(d) # 0 /\ Horner(10, d) = m /\ (Len(d) = 1 \/ d[1] # 0)
      BY <1>4 DEF Numeral
  <2>2. Len(d) \in Nat BY <2>1
  <2> DEFINE n == Len(d)
  <2>3. n \in Nat /\ n # 0 /\ n <= 10 /\ (n = 1 \/ d[1] # 0) BY <1>4, <2>1, <2>2
  <2> HIDE DEF n
  <2>4. n \in 1 .. 10 /\ (n > 1 => d[1] # 0) BY <2>3
  <2> QED BY <2>1, <2>4 DEF n
<1>6. \A i \in 1 .. Len(d) : d[i] \in 0 .. 9 BY <1>5 DEF Digits
<1>7. IF val < 0 THEN result[1] = MINUS /\ Tail(result) = d ELSE result = d /\ result[1] # MINUS
  <2>1. CASE val < 0
    <3>1. d \in Seq(Int) /\ MINUS \in Int BY <1>5 DEF Digits, MINUS
    <3>2. result = <<MINUS>> \o d BY <1>3, <2>1
    <3> HIDE DEF MINUS
    <3>3. result[1] = MINUS /\ Tail(result) = d BY <3>1, <3>2
    <3> QED BY <2>1, <3>3
  <2>2. CASE ~(val < 0)
    <3>1. result = d BY <1>3, <2>2
    <3>2. d[1] \in 0 .. 9 BY <1>5, <1>6
    <3>3. d[1] # MINUS BY <3>2 DEF MINUS
    <3> QED BY <2>2, <3>1, <3>3
  <2> QED BY <2>1, <2>2
<1> DEFINE digits == IF result[1] = MINUS THEN Tail(result) ELSE result
<1>8. digits = d BY <1>7
<1>9. call.n = IF result[1] = MINUS THEN -Horner(10, digits) ELSE Horner(10, digits)
  <2>1. Horner(10, digits) = m BY <1>5, <1>8
  <2>2. (result[1] = MINUS) = (val < 0) BY <1>7
  <2> HIDE DEF digits
  <2> QED BY <1>2, <2>1, <2>2
<1>10. /\ Len(digits) \in 1 .. 10
       /\ \A i \in 1 .. Len(digits) : digits[i] \in 0 .. 9
       /\ Len(digits) > 1 => digits[1] # 0
    BY <1>5, <1>6, <1>8
<1> QED BY <1>9, <1>10, Zenon DEF DecimalsReadBack, Horner

\* For every number of 32 bits that C can negate: what print_signed prints reads back as the number, from at
\* most ten decimal digits without a leading zero (print_dec and print_signed of the
\* inference programs, printf_d of dhrystone/stdlib.c).
THEOREM DecimalsAlwaysReadBack == LibrarySpec => []DecimalsReadBack
<1>1. LibraryInit => DecInv BY DEF LibraryInit, DecInv
<1>2. DecInv /\ [LibraryNext]_libraryVars => DecInv'
  <2>1. ASSUME DecInv, UNCHANGED libraryVars PROVE DecInv'
    <3>1. call' = call /\ routine' = routine /\ result' = result BY <2>1 DEF libraryVars
    <3> QED BY <2>1, <3>1, Zenon DEF DecInv
  <2> QED BY <2>1, DecSteps
<1>3. DecInv => DecimalsReadBack
  <2>1. CASE routine = "returned" /\ \E val \in VALUES : result = print_signed(val) /\ call.n = val
      BY <2>1, NumberReadsBack
  <2>2. ASSUME call \in CALLS, routine = call.routine PROVE DecimalsReadBack
    <3>1. routine # "returned" BY <2>2, CallIs
    <3> QED BY <3>1 DEF DecimalsReadBack
  <2>3. CASE call.routine # "print" BY <2>3 DEF DecimalsReadBack
  <2> QED BY <2>1, <2>2, <2>3 DEF DecInv
<1> QED BY <1>1, <1>2, <1>3, PTL DEF LibrarySpec
=============================================================================

----------------------------- MODULE PcpiArith -----------------------------
(***************************************************************************)
(* The arithmetic of picorv32_pcpi_mul and picorv32_pcpi_div over words of *)
(* W bits: a shift-and-add multiplier whose sum is kept in two registers,  *)
(* rd and the carries rdx, and a restoring divider on absolute values.     *)
(* One request runs from its start to the answer; the handshake around it  *)
(* is in PcpiUnits.                                                        *)
(***************************************************************************)
EXTENDS Integers, FiniteSetsExt

CONSTANTS
    W,               \* 32 in the code; the product has 2*W bits
    STEPS_AT_ONCE,   \* steps of the multiplier in a cycle
    CARRY_CHAIN      \* bits over which a carry runs in one step

ASSUME WidthAssumption ==
    /\ W \in Nat \ {0, 1} /\ STEPS_AT_ONCE \in Nat \ {0} /\ CARRY_CHAIN \in Nat
    /\ CARRY_CHAIN > 0 => (2*W) % CARRY_CHAIN = 0

Word     == 0 .. 2^W - 1
Double   == 0 .. 2^(2*W) - 1
MulInsns == {"mul", "mulh", "mulhsu", "mulhu"}
DivInsns == {"div", "divu", "rem", "remu"}

VARIABLES
    instr, pcpi_rs1, pcpi_rs2,   \* the request, stable until it is answered
    started,                     \* the unit has taken its operands
    mul_waiting, mul_finish, mul_counter, rs1, rs2, rd, rdx,
    running, outsign, dividend, divisor, quotient, quotient_msk,
    pcpi_ready, pcpi_rd

request == <<instr, pcpi_rs1, pcpi_rs2>>
mulVars == <<mul_waiting, mul_finish, mul_counter, rs1, rs2, rd, rdx>>
divVars == <<running, outsign, dividend, divisor, quotient, quotient_msk>>
answer  == <<pcpi_ready, pcpi_rd>>
vars    == <<request, started, mulVars, divVars, answer>>

Negative(x) == x >= 2^(W - 1)

-----------------------------------------------------------------------------
(* The multiplier.                                                         *)

SignExtended(x) == IF Negative(x) THEN x + 2^(2*W) - 2^W ELSE x

instr_any_mulh   == instr \in MulInsns \ {"mul"}
instr_rs1_signed == instr \in {"mulh", "mulhsu"}
instr_rs2_signed == instr = "mulh"

\* CARRY_CHAIN = 0 selects the bitwise form, which is a chain of one bit.
Chain      == IF CARRY_CHAIN = 0 THEN 1 ELSE CARRY_CHAIN
Chains     == {j \in 0 .. 2*W - 1 : j % Chain = 0}
Bits(x, j) == (x \div 2^j) % 2^Chain

MutCarryInPlace(c) ==
    LET this_rs2 == IF c.rs1 % 2 = 1 THEN c.rs2 ELSE 0
        Sum3(j)  == Bits(c.rd, j) + Bits(c.rdx, j) + Bits(this_rs2, j)
        Low(j)   == (Sum3(j) % 2^Chain) * 2^j
        Carry(j) == ((Sum3(j) \div 2^Chain) % 2) * 2^(j + Chain - 1)
    IN  [rd  |-> MapThenSumSet(Low, Chains),
         rdx |-> MapThenSumSet(Carry, Chains) % 2^(2*W),
         rs1 |-> c.rs1 \div 2, rs2 |-> (c.rs2 * 2) % 2^(2*W)]
\* One step of the carry save accumulator: the carry out of a chain enters the
\* next one a step later.
MulStep(c) ==
    LET this_rs2 == IF c.rs1 % 2 = 1 THEN c.rs2 ELSE 0
        Sum3(j)  == Bits(c.rd, j) + Bits(c.rdx, j) + Bits(this_rs2, j)
        Low(j)   == (Sum3(j) % 2^Chain) * 2^j
        Carry(j) == ((Sum3(j) \div 2^Chain) % 2) * 2^(j + Chain)
    IN  [rd  |-> MapThenSumSet(Low, Chains),
         rdx |-> MapThenSumSet(Carry, Chains) % 2^(2*W),
         rs1 |-> c.rs1 \div 2, rs2 |-> (c.rs2 * 2) % 2^(2*W)]

MulSteps ==
    LET after[n \in 0 .. STEPS_AT_ONCE] ==
            IF n = 0 THEN [rd |-> rd, rdx |-> rdx, rs1 |-> rs1, rs2 |-> rs2]
            ELSE MulStep(after[n - 1])
    IN  after[STEPS_AT_ONCE]

\* The cycle of mul_start.
MulLoad ==
    /\ instr \in MulInsns /\ ~started /\ started' = TRUE
    /\ rs1' = IF instr_rs1_signed THEN SignExtended(pcpi_rs1) ELSE pcpi_rs1
    /\ rs2' = IF instr_rs2_signed THEN SignExtended(pcpi_rs2) ELSE pcpi_rs2
    /\ rd' = 0 /\ rdx' = 0
    /\ mul_counter' = (IF instr_any_mulh THEN 2*W - 1 ELSE W - 1) - STEPS_AT_ONCE
    /\ mul_waiting' = FALSE
    /\ UNCHANGED <<request, mul_finish, divVars, answer>>

MulIterate ==
    /\ ~mul_waiting
    /\ rd' = MulSteps.rd /\ rdx' = MulSteps.rdx /\ rs1' = MulSteps.rs1 /\ rs2' = MulSteps.rs2
    /\ mul_counter' = mul_counter - STEPS_AT_ONCE
    /\ mul_finish' = (mul_counter < 0) /\ mul_waiting' = (mul_counter < 0)
    /\ UNCHANGED <<request, started, divVars, answer>>

MulAnswer ==
    /\ mul_finish /\ mul_finish' = FALSE
    /\ pcpi_ready' = TRUE
    /\ pcpi_rd' = IF instr_any_mulh THEN rd \div 2^W ELSE rd % 2^W
    /\ UNCHANGED <<request, started, mul_waiting, mul_counter, rs1, rs2, rd, rdx, divVars>>

-----------------------------------------------------------------------------
(* The divider.  The divisor register has 2*W - 1 bits.                    *)

Negated(x)   == (2^W - x) % 2^W
Magnitude(x) == IF instr \in {"div", "rem"} /\ Negative(x) THEN Negated(x) ELSE x

MutSignOfZeroDivisor ==
    /\ instr \in DivInsns /\ ~started /\ started' = TRUE
    /\ running' = TRUE
    /\ dividend' = Magnitude(pcpi_rs1)
    /\ divisor' = (Magnitude(pcpi_rs2) * 2^(W - 1)) % 2^(2*W - 1)
    /\ outsign' = \/ instr = "div" /\ Negative(pcpi_rs1) # Negative(pcpi_rs2)
                  \/ instr = "rem" /\ Negative(pcpi_rs1)
    /\ quotient' = 0 /\ quotient_msk' = 2^(W - 1)
    /\ UNCHANGED <<request, mulVars, answer>>
DivStart ==
    /\ instr \in DivInsns /\ ~started /\ started' = TRUE
    /\ running' = TRUE
    /\ dividend' = Magnitude(pcpi_rs1)
    /\ divisor' = (Magnitude(pcpi_rs2) * 2^(W - 1)) % 2^(2*W - 1)
    /\ outsign' = \/ /\ instr = "div" /\ Negative(pcpi_rs1) # Negative(pcpi_rs2)
                     /\ pcpi_rs2 # 0
                  \/ instr = "rem" /\ Negative(pcpi_rs1)
    /\ quotient' = 0 /\ quotient_msk' = 2^(W - 1)
    /\ UNCHANGED <<request, mulVars, answer>>

DivIterate ==
    /\ running /\ quotient_msk # 0
    /\ IF divisor <= dividend
       THEN dividend' = dividend - divisor /\ quotient' = quotient + quotient_msk
       ELSE UNCHANGED <<dividend, quotient>>
    /\ divisor' = divisor \div 2 /\ quotient_msk' = quotient_msk \div 2
    /\ UNCHANGED <<request, started, running, outsign, mulVars, answer>>

DivAnswer ==
    /\ running /\ quotient_msk = 0 /\ running' = FALSE
    /\ pcpi_ready' = TRUE
    /\ pcpi_rd' = LET r == IF instr \in {"div", "divu"} THEN quotient ELSE dividend
                  IN  IF outsign THEN Negated(r) ELSE r
    /\ UNCHANGED <<request, started, outsign, dividend, divisor, quotient, quotient_msk, mulVars>>

-----------------------------------------------------------------------------
\* Idle units: no request, or the last one answered and the answer taken.
Init ==
    /\ instr \in MulInsns \cup DivInsns /\ pcpi_rs1 \in Word /\ pcpi_rs2 \in Word
    /\ started = TRUE
    /\ mul_waiting = TRUE /\ mul_finish = FALSE /\ mul_counter = 0
    /\ rs1 = 0 /\ rs2 = 0 /\ rd = 0 /\ rdx = 0
    /\ running = FALSE /\ outsign = FALSE
    /\ dividend = 0 /\ divisor = 0 /\ quotient = 0 /\ quotient_msk = 0
    /\ pcpi_ready = FALSE /\ pcpi_rd = 0

Next == MulLoad \/ MulIterate \/ MulAnswer \/ DivStart \/ DivIterate \/ DivAnswer

\* The core takes an answer, and offers an instruction with its operands when
\* the one before is answered.
Idle  == started /\ mul_waiting /\ ~mul_finish /\ ~running
Taken == /\ pcpi_ready /\ pcpi_ready' = FALSE
         /\ UNCHANGED <<request, started, mulVars, divVars, pcpi_rd>>
Offer(op, a, b) ==
    /\ Idle
    /\ instr' = op /\ pcpi_rs1' = a /\ pcpi_rs2' = b
    /\ started' = FALSE /\ pcpi_ready' = FALSE
    /\ UNCHANGED <<mulVars, divVars, pcpi_rd>>

Core == Taken \/ \E op \in MulInsns \cup DivInsns, a, b \in Word : Offer(op, a, b)
Spec == Init /\ [][Next \/ Core]_vars

-----------------------------------------------------------------------------
Signed(x) == IF Negative(x) THEN x - 2^W ELSE x

\* The M extension: the product of the operands, signed as the instruction says.
Product    == (IF instr_rs1_signed THEN Signed(pcpi_rs1) ELSE pcpi_rs1)
              * (IF instr_rs2_signed THEN Signed(pcpi_rs2) ELSE pcpi_rs2)

\* What is accumulated and what is left to add make up the product, at every
\* step, although the carries lag behind.
SumIsProduct ==
    ~mul_waiting => (rd + rdx + rs1 * rs2) % 2^(2*W) = Product % 2^(2*W)

\* Quotient and remainder make up the dividend at every step, and what is left
\* can still be divided by the bits to come.
QuotientAndRest ==
    running => /\ dividend + quotient * Magnitude(pcpi_rs2) = Magnitude(pcpi_rs1)
               /\ pcpi_rs2 # 0 => dividend < 2 * quotient_msk * Magnitude(pcpi_rs2)
                                  \/ dividend < Magnitude(pcpi_rs2)

\* Division rounds towards zero: what is left is less than the divisor and has
\* the sign of the dividend.
IsQuotient(q, a, b) ==
    LET r == a - q * b
    IN  /\ (IF r < 0 THEN -r ELSE r) < (IF b < 0 THEN -b ELSE b)
        /\ a >= 0 => r >= 0
        /\ a <= 0 => r <= 0

\* The result of the M extension for the instruction and its operands.
IsResult(x) ==
    LET Operand(y) == IF instr \in {"div", "rem"} THEN Signed(y) ELSE y
        a == Operand(pcpi_rs1)
        b == Operand(pcpi_rs2)
    IN  \/ instr = "mul" /\ x = Product % 2^W
        \/ instr_any_mulh /\ x = (Product \div 2^W) % 2^W
        \/ instr \in {"div", "divu"} /\ b = 0 /\ x = 2^W - 1
        \/ instr \in {"rem", "remu"} /\ b = 0 /\ x = pcpi_rs1
        \/ /\ instr \in DivInsns /\ b # 0
           /\ \E q \in -2^W .. 2^W :
                  /\ IsQuotient(q, a, b)
                  /\ x = (IF instr \in {"div", "divu"} THEN q ELSE a - q * b) % 2^W

\* No carry is lost in the multiplier and no part of the dividend in the
\* divider, step by step, and what they end with is the instruction's result.
PartialResults == SumIsProduct /\ QuotientAndRest /\ (pcpi_ready => IsResult(pcpi_rd))
=============================================================================

---------------------------- MODULE TestFirmware ----------------------------
(***************************************************************************)
(* The C tests of the core's test firmware (firmware/sieve.c, multest.c,   *)
(* stats.c, print.c), in the order start.S calls them.  multest runs the   *)
(* eight multiply and divide instructions on the units of PcpiArith and    *)
(* compares each answer with one it computes itself.                       *)
(***************************************************************************)
EXTENDS PcpiArith, Sequences, SequencesExt, Bitwise

CONSTANTS
    BITMAP_SIZE,   \* 64; the checksum the test expects is that of 64
    PAIRS,         \* operand pairs of multest (15)
    COUNTS         \* values of the cycle and instruction counters, as pairs

ASSUME BitmapAssumption == BITMAP_SIZE \in Nat
ASSUME PairsAssumption  == PAIRS \in Nat
ASSUME CountsAssumption == \A c \in COUNTS : c[1] >= c[2] /\ c[2] > 0

VARIABLES
    at,         \* what runs: sieve, multest, pair (of multest), stats, done, error
    candidate,  \* i of sieve
    bitmap,     \* the indices whose bit is set
    printed,    \* the primes printed
    hash,       \* <<upper half, lower half>>
    pairs,      \* pairs multest has begun
    hard,       \* h_mul .. h_remu of the pair so far
    report      \* the four numbers stats prints, as characters

sieveVars == <<candidate, bitmap, printed, hash>>
allVars   == <<vars, at, sieveVars, pairs, hard, report>>

-----------------------------------------------------------------------------
(* sieve                                                                   *)

mkhash(a, b) ==   \* ((a << 5) + a) ^ b, for b below 2^16
    LET low == a[2] * 33
    IN  <<(a[1] * 33 + low \div 65536) % 65536, (low % 65536) ^^ b>>

PrintPrime(val) ==
    /\ printed' = Append(printed, val)
    /\ hash' = mkhash(mkhash(hash, Len(printed) + 1), val)

\* j runs over the odd multiples from 2*p on, until k leaves the bitmap.
Struck(p) == {k \in 0 .. BITMAP_SIZE - 1 : (2*k + 3) % p = 0 /\ 2*k + 3 > 2*p}

SieveFirst ==
    /\ at = "sieve" /\ printed = <<>>
    /\ PrintPrime(2)
    /\ UNCHANGED <<vars, at, candidate, bitmap, pairs, hard, report>>

SieveNext ==
    /\ at = "sieve" /\ printed # <<>> /\ candidate < BITMAP_SIZE
    /\ candidate' = candidate + 1
    /\ IF candidate \in bitmap
       THEN UNCHANGED <<bitmap, printed, hash>>
       ELSE /\ PrintPrime(3 + 2 * candidate)
            /\ bitmap' = bitmap \cup Struck(3 + 2 * candidate)
    /\ UNCHANGED <<vars, at, pairs, hard, report>>

SieveCheck ==
    /\ at = "sieve" /\ candidate = BITMAP_SIZE
    /\ at' = IF hash = <<6002, 42127>> THEN "multest" ELSE "error"   \* 0x1772A48F
    /\ UNCHANGED <<vars, sieveVars, pairs, hard, report>>

-----------------------------------------------------------------------------
(* multest                                                                 *)

HardOrder == <<"mul", "mulh", "mulhsu", "mulhu", "div", "divu", "rem", "remu">>

\* An unsigned 64-bit product keeps its sign-extended operand modulo 2^64.
UpperHalf(x) == (x \div 2^W) % 2^W
\* Division of C: towards zero.
CDiv(x, y) == LET q == (IF x < 0 THEN -x ELSE x) \div (IF y < 0 THEN -y ELSE y)
              IN  IF (x < 0) # (y < 0) THEN -q ELSE q
CRem(x, y) == x - CDiv(x, y) * y

Soft(op, a, b) ==
    CASE op = "mul"    -> (a * b) % 2^W
      [] op = "mulh"   -> UpperHalf(Signed(a) * Signed(b))
      [] op = "mulhsu" -> UpperHalf(((Signed(a) % 2^(2*W)) * b) % 2^(2*W))
      [] op = "mulhu"  -> UpperHalf(a * b)
      [] op = "div"    -> IF b # 0 THEN CDiv(Signed(a), Signed(b)) % 2^W ELSE 2^W - 1
      [] op = "divu"   -> IF b # 0 THEN a \div b ELSE 2^W - 1
      [] op = "rem"    -> IF b # 0 THEN CRem(Signed(a), Signed(b)) % 2^W ELSE a
      [] op = "remu"   -> IF b # 0 THEN a % b ELSE a

\* xorshift32 and the special cases of the first rounds: any operands.
NextPair ==
    /\ at = "multest" /\ pairs < PAIRS /\ at' = "pair"
    /\ pairs' = pairs + 1
    /\ \E a, b \in Word : Offer(HardOrder[1], a, b)
    /\ UNCHANGED <<sieveVars, hard, report>>

RunUnit == Next /\ UNCHANGED <<at, sieveVars, pairs, hard, report>>

\* hard_*: the result is kept and the next instruction issued.
TakeResult ==
    /\ at = "pair" /\ pcpi_ready /\ Len(hard) < 7
    /\ hard' = Append(hard, pcpi_rd)
    /\ Offer(HardOrder[Len(hard) + 2], pcpi_rs1, pcpi_rs2)
    /\ UNCHANGED <<at, sieveVars, pairs, report>>

Agree(results) ==
    \A n \in DOMAIN results : results[n] = Soft(HardOrder[n], pcpi_rs1, pcpi_rs2)

\* The comparison after the eighth instruction; an error stops at `ebreak'.
ComparePair ==
    /\ at = "pair" /\ Len(hard) = 7 /\ Taken /\ hard' = <<>>
    /\ at' = IF Agree(Append(hard, pcpi_rd)) THEN "multest" ELSE "error"
    /\ UNCHANGED <<sieveVars, pairs, report>>

MultestEnd ==
    /\ at = "multest" /\ pairs = PAIRS
    /\ at' = "stats"
    /\ UNCHANGED <<vars, sieveVars, pairs, hard, report>>

-----------------------------------------------------------------------------
(* stats.  A character is a digit, a blank or a dot.                       *)

BLANK == -1
DOT   == -2

MutFill(val, digits, fill) ==
    LET low[n \in 0 .. 32] == LET v == val \div 10^n
                              IN  IF v = 0 /\ n >= digits THEN <<>>
                                  ELSE <<IF v = 0 THEN BLANK ELSE v % 10>> \o low[n + 1]
    IN  low[0]
\* The buffer of stats_print_dec, lowest digit first.
Fill(val, digits, fill) ==
    LET low[n \in 0 .. 32] == LET v == val \div 10^n
                              IN  IF v = 0 /\ n >= digits THEN <<>>
                                  ELSE <<IF v = 0 THEN fill ELSE v % 10>> \o low[n + 1]
    IN  low[0]

\* It is printed from its end; a blank before a blank becomes a dot.
stats_print_dec(val, digits, fill) ==
    LET buffer == Fill(val, digits, fill)
    IN  Reverse([n \in DOMAIN buffer |->
            IF n > 1 /\ buffer[n] = BLANK /\ buffer[n - 1] = BLANK THEN DOT ELSE buffer[n]])

Stats ==
    /\ at = "stats" /\ at' = "done"
    /\ \E c \in COUNTS :
        report' = [counts |-> c,
                   cycles |-> stats_print_dec(c[1], 8, BLANK),
                   instrs |-> stats_print_dec(c[2], 8, BLANK),
                   whole  |-> stats_print_dec(c[1] \div c[2], 0, BLANK),
                   cents  |-> stats_print_dec(((100 * c[1]) \div c[2]) % 100, 2, 0)]
    /\ UNCHANGED <<vars, sieveVars, pairs, hard>>

-----------------------------------------------------------------------------
FirmwareInit ==
    /\ Init /\ instr = "mul" /\ pcpi_rs1 = 0 /\ pcpi_rs2 = 0
    /\ at = "sieve" /\ candidate = 0 /\ bitmap = {} /\ printed = <<>>
    /\ hash = <<0, 5381>>
    /\ pairs = 0 /\ hard = <<>> /\ report = <<>>

FirmwareNext ==
    \/ SieveFirst \/ SieveNext \/ SieveCheck
    \/ NextPair \/ RunUnit \/ TakeResult \/ ComparePair \/ MultestEnd
    \/ Stats
FirmwareSpec == FirmwareInit /\ [][FirmwareNext]_allVars

\* The sieve prints the primes in order and no other number: each candidate is
\* struck by its smallest factor before its turn comes.
IsPrime(n) == n > 1 /\ \A d \in 2 .. n - 1 : n % d # 0
PrintsPrimes ==
    at = "sieve" /\ printed # <<>> =>
        /\ ToSet(printed) = {n \in 2 .. 2 * candidate + 2 : IsPrime(n)}
        /\ \A n \in 2 .. Len(printed) : printed[n - 1] < printed[n]

\* The counters read back from the characters printed: no digit is lost at
\* eight digits or beyond, only leading blanks become dots, and the fraction
\* keeps its leading zero.
ReadBack(chars) ==
    FoldLeft(LAMBDA acc, ch : IF ch >= 0 THEN 10 * acc + ch ELSE acc, 0, chars)
StatsReadBack ==
    report # <<>> =>
        /\ ReadBack(report.cycles) = report.counts[1]
        /\ ReadBack(report.instrs) = report.counts[2]
        /\ ReadBack(report.whole \o report.cents) = (100 * report.counts[1]) \div report.counts[2]

\* The tests of the firmware find no error and are right not to: the sieve prints
\* the primes, its checksum is the one of the first primes, multiplier and
\* divider give what the C expressions of multest give, zero divisors and the
\* overflowing division included, and stats prints the counters.
TestsPass == at # "error" /\ PrintsPrimes /\ StatsReadBack
=============================================================================

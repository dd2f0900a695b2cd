------------------------------ MODULE CLibrary ------------------------------
(***************************************************************************)
(* The C library routines the bare-metal programs bring with them: strcpy  *)
(* and strcmp of dhrystone/stdlib.c, which go a word at a time once both   *)
(* pointers are aligned, memcpy, memset, and the printing of numbers.      *)
(*                                                                         *)
(* One call of one routine runs on `ram'; one step is one turn of a loop.  *)
(***************************************************************************)
EXTENDS Integers, Sequences, SequencesExt

CONSTANTS
    BYTE_BITS,   \* 8
    CALLS,       \* the calls: [routine, dst, src, n, ram]
    VALUES       \* the numbers printed

ASSUME BytesAssumption == BYTE_BITS \in Nat \ {0}
\* Words of 32 bits, signed or not, but the smallest, which C cannot negate.
ASSUME ValuesAssumption ==
    \A v \in VALUES : v \in Int /\ v >= -2147483647 /\ v \div 65536 <= 65535

VARIABLES
    routine,     \* what runs, or "returned"
    dst, src,    \* its pointers, s1 and s2 of strcmp
    left,        \* bytes memcpy and memset have left to write (n)
    ram,         \* the bytes; a word has four, the lowest first
    result,      \* what strcmp returns, or the characters printed
    call         \* history: the call

libraryVars == <<routine, dst, src, left, ram, result, call>>

-----------------------------------------------------------------------------
(* Words                                                                   *)

Aligned == dst % 4 = 0 /\ src % 4 = 0       \* ((dst | src) & 3) == 0
InWord  == 0 .. 3

WordAt(p) == ram[p] + ram[p+1] * 2^BYTE_BITS + ram[p+2] * 2^(2*BYTE_BITS)
                    + ram[p+3] * 2^(3*BYTE_BITS)
Ones         == 1 + 2^BYTE_BITS + 2^(2*BYTE_BITS) + 2^(3*BYTE_BITS)   \* 0x01010101
TopBit(v, k) == (v \div 2^(k*BYTE_BITS + BYTE_BITS - 1)) % 2          \* v & 0x80808080

MutHasZero(v) ==
    \E k \in InWord : TopBit((v - Ones) % 2^(4*BYTE_BITS), k) = 1
\* (v - 0x01010101) & ~v & 0x80808080
HasZero(v) ==
    \E k \in InWord : TopBit((v - Ones) % 2^(4*BYTE_BITS), k) = 1 /\ TopBit(v, k) = 0

Advance(k) == dst' = dst + k /\ src' = src + k

-----------------------------------------------------------------------------
StrcpyByte ==
    /\ routine = "strcpy" /\ ~Aligned
    /\ ram' = [ram EXCEPT ![dst] = ram[src]] /\ Advance(1)
    /\ routine' = IF ram[src] = 0 THEN "returned" ELSE routine
    /\ UNCHANGED <<left, result, call>>

StrcpyWord ==
    /\ routine = "strcpy" /\ Aligned /\ ~HasZero(WordAt(src))
    /\ ram' = [a \in DOMAIN ram |-> IF a - dst \in InWord THEN ram[src + a - dst] ELSE ram[a]]
    /\ Advance(4)
    /\ UNCHANGED <<routine, left, result, call>>

\* The bytes of the last word up to its zero; the fourth is not looked at.
StrcpyLast ==
    /\ routine = "strcpy" /\ Aligned /\ HasZero(WordAt(src))
    /\ LET Stored(k) == k \in InWord /\ \A j \in 0 .. k - 1 : ram[src + j] # 0
       IN  ram' = [a \in DOMAIN ram |-> IF Stored(a - dst) THEN ram[src + a - dst] ELSE ram[a]]
    /\ routine' = "returned"
    /\ UNCHANGED <<dst, src, left, result, call>>

\* char is unsigned on RISC-V.
Order(c1, c2) == IF c1 < c2 THEN -1 ELSE IF c1 = c2 THEN 0 ELSE 1

StrcmpByte ==
    /\ routine = "strcmp" /\ ~Aligned
    /\ IF ram[dst] # ram[src] \/ ram[dst] = 0
       THEN /\ routine' = "returned" /\ result' = Order(ram[dst], ram[src])
            /\ UNCHANGED <<dst, src>>
       ELSE Advance(1) /\ UNCHANGED <<routine, result>>
    /\ UNCHANGED <<left, ram, call>>

StrcmpEqualWords ==
    /\ routine = "strcmp" /\ Aligned /\ WordAt(dst) = WordAt(src)
    /\ IF HasZero(WordAt(dst))
       THEN routine' = "returned" /\ result' = 0 /\ UNCHANGED <<dst, src>>
       ELSE Advance(4) /\ UNCHANGED <<routine, result>>
    /\ UNCHANGED <<left, ram, call>>

\* The first bytes that differ decide, unless both strings end before them.
StrcmpOtherWords ==
    /\ routine = "strcmp" /\ Aligned /\ WordAt(dst) # WordAt(src)
    /\ LET Ends(k) == ram[dst + k] # ram[src + k] \/ ram[dst + k] = 0
           k == CHOOSE k \in InWord : Ends(k) /\ \A j \in 0 .. k - 1 : ~Ends(j)
       IN  result' = Order(ram[dst + k], ram[src + k])
    /\ routine' = "returned"
    /\ UNCHANGED <<dst, src, left, ram, call>>

MemcpyByte ==
    /\ routine = "memcpy" /\ left > 0
    /\ ram' = [ram EXCEPT ![dst] = ram[src]] /\ Advance(1) /\ left' = left - 1
    /\ UNCHANGED <<routine, result, call>>

\* The value is kept where src points.
MemsetByte ==
    /\ routine = "memset" /\ left > 0
    /\ ram' = [ram EXCEPT ![dst] = ram[src]] /\ dst' = dst + 1 /\ left' = left - 1
    /\ UNCHANGED <<routine, src, result, call>>

MemReturn ==
    /\ routine \in {"memcpy", "memset"} /\ left = 0
    /\ routine' = "returned"
    /\ UNCHANGED <<dst, src, left, ram, result, call>>

-----------------------------------------------------------------------------
(* Numbers.  A character is a digit or the sign.                           *)

MINUS == -1

\* Ten is taken for a digit.
MutPrintDec(val) ==
    LET shown[v \in 0 .. val] ==
            IF v <= 10 THEN <<v>> ELSE Append(shown[v \div 10], v % 10)
    IN  shown[val]

\* The buffer is filled with val % 10 until val is zero, and printed from its end.
print_dec(val) ==
    LET shown[v \in 0 .. val] ==
            IF v < 10 THEN <<v>> ELSE Append(shown[v \div 10], v % 10)
    IN  shown[val]

print_signed(val) ==
    IF val < 0 THEN <<MINUS>> \o print_dec(-val) ELSE print_dec(val)

PrintNumber ==
    /\ routine = "print"
    /\ \E val \in VALUES : result' = print_signed(val) /\ call' = [call EXCEPT !.n = val]
    /\ routine' = "returned"
    /\ UNCHANGED <<dst, src, left, ram>>

-----------------------------------------------------------------------------
(* Calls, as C defines them: whole words of memory, strings that end in it,  *)
(* and no target that overlaps what is read.                               *)

InMemory(c, p, n) == \A j \in 0 .. n - 1 : p + j \in DOMAIN c.ram
Disjoint(c, n)    == \A j, k \in 0 .. n - 1 : c.dst + j # c.src + k

\* The first k characters are followed by the end of the string.
Ends(c, k) == c.ram[c.src + k] = 0 /\ \A j \in 0 .. k - 1 : c.ram[c.src + j] # 0
\* The strings agree in their first k characters, and not, or no longer, behind them.
Part(c, k) ==
    /\ c.ram[c.dst + k] # c.ram[c.src + k] \/ c.ram[c.dst + k] = 0
    /\ \A j \in 0 .. k - 1 : c.ram[c.dst + j] = c.ram[c.src + j] /\ c.ram[c.dst + j] # 0

IsCall(c) ==
    /\ c \in [routine : {"strcpy", "strcmp", "memcpy", "memset", "print"},
              dst : Nat, src : Nat, n : Nat, ram : [DOMAIN c.ram -> 0 .. 2^BYTE_BITS - 1]]
    /\ \A a \in DOMAIN c.ram : a \in Nat /\ InMemory(c, a - (a % 4), 4)
    /\ c.routine = "strcpy" =>
          \E k \in DOMAIN c.ram : /\ InMemory(c, c.src, k + 1) /\ InMemory(c, c.dst, k + 1)
                                /\ Disjoint(c, k + 1) /\ Ends(c, k)
    /\ c.routine = "strcmp" =>
          \E k \in DOMAIN c.ram : /\ InMemory(c, c.src, k + 1) /\ InMemory(c, c.dst, k + 1)
                                /\ Part(c, k)
    /\ c.routine = "memcpy" =>
          InMemory(c, c.src, c.n) /\ InMemory(c, c.dst, c.n) /\ Disjoint(c, c.n)
    /\ c.routine = "memset" =>
          InMemory(c, c.src, 1) /\ InMemory(c, c.dst, c.n)
          /\ \A j \in 0 .. c.n - 1 : c.dst + j # c.src

ASSUME CallAssumption == \A c \in CALLS : IsCall(c)

-----------------------------------------------------------------------------
LibraryInit ==
    /\ call \in CALLS /\ routine = call.routine
    /\ dst = call.dst /\ src = call.src /\ left = call.n /\ ram = call.ram
    /\ result = 0

LibraryNext ==
    \/ StrcpyByte \/ StrcpyWord \/ StrcpyLast
    \/ StrcmpByte \/ StrcmpEqualWords \/ StrcmpOtherWords
    \/ MemcpyByte \/ MemsetByte \/ MemReturn
    \/ PrintNumber

LibrarySpec == LibraryInit /\ [][LibraryNext]_libraryVars

-----------------------------------------------------------------------------
\* Characters of the string that is copied.
Length == CHOOSE k \in DOMAIN call.ram : Ends(call, k)

\* The bytes a call may write.
Target ==
    CASE call.routine = "strcpy" -> call.dst .. call.dst + Length
      [] call.routine \in {"memcpy", "memset"} -> call.dst .. call.dst + call.n - 1
      [] OTHER -> {}

\* What a byte of the target must become.
Wanted(a) ==
    call.ram[IF call.routine = "memset" THEN call.src ELSE call.src + a - call.dst]

\* The order of two strings: that of the first bytes that differ, if they come
\* before the end.
Compared ==
    LET k == CHOOSE k \in DOMAIN call.ram : Part(call, k)
    IN  Order(call.ram[call.dst + k], call.ram[call.src + k])

\* Whatever the alignment of its pointers and the bytes behind the strings, strcpy
\* copies the string with its end and nothing more, strcmp orders as a comparison
\* byte by byte, memcpy and memset write their bytes; no byte outside the target
\* changes on the way.  The word-wide test for a zero must not miss one, nor see
\* one in the borrow of a neighbour.
StringsAreRight ==
    /\ \A a \in DOMAIN ram \ Target : ram[a] = call.ram[a]
    /\ routine = "returned" =>
        /\ \A a \in Target : ram[a] = Wanted(a)
        /\ call.routine = "strcmp" => result = Compared

\* A number printed by print_signed reads back, its sign included, from decimal
\* digits without a leading zero that fit into the buffer of print_dec.
DecimalsReadBack ==
    routine = "returned" /\ call.routine = "print" =>
        LET digits == IF result[1] = MINUS THEN Tail(result) ELSE result
            value  == FoldLeft(LAMBDA acc, d : 10 * acc + d, 0, digits)
        IN  /\ Len(digits) \in 1 .. 10
            /\ \A i \in 1 .. Len(digits) : digits[i] \in 0 .. 9
            /\ Len(digits) > 1 => digits[1] # 0
            /\ call.n = IF result[1] = MINUS THEN -value ELSE value
=============================================================================

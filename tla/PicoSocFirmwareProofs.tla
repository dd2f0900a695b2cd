------------------------ MODULE PicoSocFirmwareProofs ------------------------
(***************************************************************************)
(* Proofs about the PicoSoC firmware.  The verdict of the memory test      *)
(* (cmd_memtest) is right, for memories, strides and walks of every size   *)
(* and any stuck address line.  Before, between and after the operations   *)
(* of each command the flash follows its controller, or the program is     *)
(* lost for one of two reasons; what is printed is true, and the benchmark *)
(* packs an array of any length.                                           *)
(***************************************************************************)
EXTENDS PicoSocFirmware, FoldTheorems, TLAPS

-----------------------------------------------------------------------------
(* What a memory with an address line stuck does to a walk.  The operators *)
(* take the line and the memory as arguments, so that a step changes the   *)
(* arguments only.                                                         *)

CellOf(s, a) == IF s # NONE /\ (a \div 2 ^ s) % 2 = 1 THEN a - 2 ^ s ELSE a

\* Each address below n that a walk stored is in a cell that holds the number of
\* the last of them there.
Filled(s, m, walk, r, n) ==
    \A b \in walk : b < n =>
        \E w \in walk : /\ b <= w /\ w < n /\ CellOf(s, w) = CellOf(s, b)
                        /\ CellOf(s, b) \in DOMAIN m /\ m[CellOf(s, b)] = <<r, w>>
\* The comparisons below n found what was stored.
Verified(s, m, walk, r, n) ==
    \A b \in walk : b < n => m[CellOf(s, b)] = <<r, b>>

DistinctOn(s, walk) == \A a, b \in walk : CellOf(s, a) = CellOf(s, b) => a = b
LostTo(s, x, walk)  == \E b \in walk : b > x /\ CellOf(s, b) = CellOf(s, x)
FirstLostOn(s, a, walk) ==
    a \in walk /\ LostTo(s, a, walk) /\ \A y \in walk : y < a => ~LostTo(s, y, walk)

\* A walk from 0 in steps up to a limit.
OnWalk(walk, step, limit) ==
    /\ walk \subseteq Nat /\ 0 \in walk
    /\ \A a \in walk : a < limit
    /\ \A a \in walk : a + step < limit => a + step \in walk
    /\ \A a, b \in walk : b < a + step => b <= a

\* The words the test visits on a board.
WordsOf(b) == {a \in 0 .. MEM_TOTAL[b] - 1 : a % STRIDE = 0}

LEMMA CellIsCellOf == \A a : Cell(a) = CellOf(stuck, a)
  BY DEF Cell, CellOf

\* Multiples of the stride, one after the other.
LEMMA Strides ==
    ASSUME NEW step \in Nat \ {0}, NEW a \in Nat, a % step = 0
    PROVE  /\ (a + step) % step = 0
           /\ \A b \in Nat : b % step = 0 /\ b < a + step => b <= a
  <1> DEFINE q == a \div step
  <1>1. q \in Nat /\ a = step * q
    BY SMT
  <1>2. a + step = step * (q + 1)
    BY <1>1, SMT
  <1>3. (a + step) % step = 0
    <2> DEFINE d == (a + step) \div step
               m == (a + step) % step
    <2>1. a + step = step * d + m /\ d \in Nat /\ m \in 0 .. step - 1
      BY SMT
    <2>2. m = step * (q + 1 - d)
      BY <1>1, <1>2, <2>1, SMT
    <2> DEFINE k == q + 1 - d
    <2>3. k \in Int /\ m = step * k
      BY <1>1, <2>1, <2>2
    <2> HIDE DEF m, k
    <2>4. k = 0
      <3>1. CASE k >= 1
        <4>1. step * k >= step
          BY <2>3, <3>1, SMT
        <4> QED
          BY <2>1, <2>3, <4>1
      <3>2. CASE k <= -1
        <4>1. step * k <= -step
          BY <2>3, <3>2, SMT
        <4> QED
          BY <2>1, <2>3, <4>1
      <3> QED
        BY <2>3, <3>1, <3>2
    <2>5. m = 0
      BY <2>3, <2>4
    <2> QED
      BY <2>5 DEF m
  <1>4. ASSUME NEW b \in Nat, b % step = 0, b < a + step PROVE b <= a
    <2> DEFINE d == b \div step
    <2>1. d \in Nat /\ b = step * d
      BY <1>4, SMT
    <2>2. d < q + 1
      <3>1. SUFFICES ASSUME d >= q + 1 PROVE FALSE
        BY <1>1, <2>1
      <3>2. step * d >= step * (q + 1)
        BY <1>1, <2>1, <3>1, SMT
      <3> QED
        BY <1>2, <1>4, <2>1, <3>2
    <2>3. d <= q
      BY <1>1, <2>1, <2>2
    <2>4. step * d <= step * q
      BY <1>1, <2>1, <2>3, SMT
    <2> QED
      BY <1>1, <2>1, <2>4
  <1> QED
    BY <1>3, <1>4

LEMMA Walks ==
    /\ \A b \in BOARDS : OnWalk(WordsOf(b), STRIDE, MEM_TOTAL[b])
    /\ OnWalk(ByteAddresses, 1, TEST_BYTES)
  <1>1. ASSUME NEW b \in BOARDS PROVE OnWalk(WordsOf(b), STRIDE, MEM_TOTAL[b])
    <2> DEFINE limit == MEM_TOTAL[b]
    <2>1. limit \in Nat \ {0} /\ STRIDE \in Nat \ {0}
      BY <1>1, MemoryAssumption
    <2> HIDE DEF limit
    <2>2. WordsOf(b) = {a \in 0 .. limit - 1 : a % STRIDE = 0}
      BY DEF WordsOf, limit
    <2>3. 0 % STRIDE = 0
      BY <2>1, SMT
    <2>4. WordsOf(b) \subseteq Nat /\ 0 \in WordsOf(b) /\ \A a \in WordsOf(b) : a < limit
      BY <2>1, <2>2, <2>3
    <2>5. ASSUME NEW a \in WordsOf(b)
          PROVE  /\ a + STRIDE < limit => a + STRIDE \in WordsOf(b)
                 /\ \A c \in WordsOf(b) : c < a + STRIDE => c <= a
      <3>1. a \in Nat /\ a % STRIDE = 0
        BY <2>2, <2>4
      <3>2. /\ (a + STRIDE) % STRIDE = 0
            /\ \A c \in Nat : c % STRIDE = 0 /\ c < a + STRIDE => c <= a
        BY <2>1, <3>1, Strides
      <3>3. a + STRIDE \in Nat
        BY <2>1, <3>1
      <3> QED
        BY <2>1, <2>2, <2>4, <3>2, <3>3
    <2>6. OnWalk(WordsOf(b), STRIDE, limit)
      BY <2>4, <2>5 DEF OnWalk
    <2> QED
      BY <2>6 DEF limit
  <1>2. OnWalk(ByteAddresses, 1, TEST_BYTES)
    BY MemoryAssumption DEF OnWalk, ByteAddresses
  <1> QED
    BY <1>1, <1>2

\* Storing the number of the next address keeps the cells in order.
LEMMA StoreFills ==
    ASSUME NEW s, NEW m, NEW n, NEW walk, NEW step, NEW limit, NEW r, NEW a \in walk,
           OnWalk(walk, step, limit), Filled(s, m, walk, r, a),
           n = [c \in DOMAIN m \cup {CellOf(s, a)} |-> IF c = CellOf(s, a) THEN <<r, a>> ELSE m[c]],
           NEW t \in Nat, \A b \in walk : b < t => b <= a, a < t
    PROVE  Filled(s, n, walk, r, t)
  <1> SUFFICES ASSUME NEW b \in walk, b < t
               PROVE  \E w \in walk : /\ b <= w /\ w < t /\ CellOf(s, w) = CellOf(s, b)
                                      /\ CellOf(s, b) \in DOMAIN n /\ n[CellOf(s, b)] = <<r, w>>
    BY DEF Filled
  <1>1. b <= a /\ walk \subseteq Nat
    BY DEF OnWalk
  <1>2. CASE CellOf(s, b) = CellOf(s, a)
    BY <1>1, <1>2
  <1>3. CASE CellOf(s, b) # CellOf(s, a)
    <2>1. b < a
      BY <1>1, <1>3
    <2>2. PICK w \in walk : /\ b <= w /\ w < a /\ CellOf(s, w) = CellOf(s, b)
                            /\ CellOf(s, b) \in DOMAIN m /\ m[CellOf(s, b)] = <<r, w>>
      BY <2>1 DEF Filled
    <2>3. w < t
      BY <1>1, <2>2
    <2>4. CellOf(s, b) \in DOMAIN n /\ n[CellOf(s, b)] = <<r, w>>
      BY <1>3, <2>2
    <2> QED
      BY <2>2, <2>3, <2>4
  <1> QED
    BY <1>2, <1>3

\* Nothing is lost up to an address that compares right.
LEMMA NothingLost ==
    ASSUME NEW s, NEW m, NEW walk, NEW step, NEW limit, NEW r, OnWalk(walk, step, limit),
           Filled(s, m, walk, r, limit), NEW y \in walk, m[CellOf(s, y)] = <<r, y>>
    PROVE  ~LostTo(s, y, walk)
  <1> SUFFICES ASSUME NEW b \in walk, b > y, CellOf(s, b) = CellOf(s, y) PROVE FALSE
    BY DEF LostTo
  <1>1. b < limit /\ walk \subseteq Nat
    BY DEF OnWalk
  <1>2. PICK w \in walk : b <= w /\ m[CellOf(s, b)] = <<r, w>>
    BY <1>1 DEF Filled
  <1>3. w = y
    BY <1>2
  <1> QED
    BY <1>1, <1>2, <1>3

\* The first address that compares wrong is the first whose number was lost.
LEMMA WrongIsLost ==
    ASSUME NEW s, NEW m, NEW walk, NEW step, NEW limit, NEW r, NEW a \in walk,
           OnWalk(walk, step, limit), Filled(s, m, walk, r, limit), Verified(s, m, walk, r, a),
           m[CellOf(s, a)] # <<r, a>>
    PROVE  FirstLostOn(s, a, walk) /\ ~DistinctOn(s, walk)
  <1>1. a < limit /\ walk \subseteq Nat
    BY DEF OnWalk
  <1>2. PICK w \in walk : a <= w /\ CellOf(s, w) = CellOf(s, a) /\ m[CellOf(s, a)] = <<r, w>>
    BY <1>1 DEF Filled
  <1>3. w # a /\ w > a
    BY <1>1, <1>2
  <1>4. LostTo(s, a, walk)
    BY <1>2, <1>3 DEF LostTo
  <1>5. ASSUME NEW y \in walk, y < a PROVE ~LostTo(s, y, walk)
    <2>1. m[CellOf(s, y)] = <<r, y>>
      BY <1>5 DEF Verified
    <2> QED
      BY <2>1, NothingLost
  <1>6. ~DistinctOn(s, walk)
    BY <1>2, <1>3 DEF DistinctOn
  <1> QED
    BY <1>4, <1>5, <1>6 DEF FirstLostOn

\* All addresses compare right only if their cells are distinct.
LEMMA RightIsDistinct ==
    ASSUME NEW s, NEW m, NEW walk, NEW r, NEW n, Verified(s, m, walk, r, n),
           \A b \in walk : b < n
    PROVE  DistinctOn(s, walk)
  <1> SUFFICES ASSUME NEW a \in walk, NEW b \in walk, CellOf(s, a) = CellOf(s, b) PROVE a = b
    BY DEF DistinctOn
  <1>1. m[CellOf(s, a)] = <<r, a>> /\ m[CellOf(s, b)] = <<r, b>>
    BY DEF Verified
  <1> QED
    BY <1>1

\* One comparison more.
LEMMA CompareVerifies ==
    ASSUME NEW s, NEW m, NEW walk, NEW r, NEW a \in walk, Verified(s, m, walk, r, a),
           m[CellOf(s, a)] = <<r, a>>, walk \subseteq Nat,
           NEW t, \A b \in walk : b < t => b <= a
    PROVE  Verified(s, m, walk, r, t)
  <1> SUFFICES ASSUME NEW b \in walk, b < t PROVE m[CellOf(s, b)] = <<r, b>>
    BY DEF Verified
  <1>1. b <= a /\ b \in Nat /\ a \in Nat
    OBVIOUS
  <1>2. b = a \/ b < a
    BY <1>1
  <1> QED
    BY <1>2 DEF Verified

\* The CHOOSE of the property picks the only such address.
LEMMA FirstIsUnique ==
    ASSUME NEW a, NEW walk, walk \subseteq Nat, FirstLostOn(stuck, a, walk)
    PROVE  FirstLost(a, walk)
  <1> DEFINE P(x) == /\ \E b \in walk : b > x /\ Cell(b) = Cell(x)
                     /\ \A y \in walk : y < x => ~\E b \in walk : b > y /\ Cell(b) = Cell(y)
  <1>1. P(a) /\ a \in walk
    BY CellIsCellOf DEF FirstLostOn, LostTo
  <1>2. ASSUME NEW x \in walk, P(x) PROVE x = a
    <2>1. x \in Nat /\ a \in Nat
      BY <1>1
    <2>2. ~(x < a)
      BY <1>1, <1>2
    <2>3. ~(a < x)
      BY <1>1, <1>2
    <2> QED
      BY <2>1, <2>2, <2>3
  <1>3. a = CHOOSE x \in walk : P(x)
    <2> HIDE DEF P
    <2> QED
      BY <1>1, <1>2
  <1> QED
    BY <1>3 DEF FirstLost

-----------------------------------------------------------------------------
(* The invariant: what each loop of the test has stored and compared, and  *)
(* that the verdicts on the screen are true.                               *)

WordLoops ==
    /\ pc = "fill" => /\ at \in WordsOf(board)
                      /\ Filled(stuck, ram, WordsOf(board), round, at)
    /\ pc = "verify" => /\ at \in WordsOf(board)
                        /\ Filled(stuck, ram, WordsOf(board), round, MEM_TOTAL[board])
                        /\ Verified(stuck, ram, WordsOf(board), round, at)
ByteLoops ==
    /\ pc \in {"fill bytes", "verify bytes"} =>
          at \in ByteAddresses /\ DistinctOn(stuck, WordsOf(board))
    /\ pc = "fill bytes" => Filled(stuck, ram, ByteAddresses, 0, at)
    /\ pc = "verify bytes" => /\ Filled(stuck, ram, ByteAddresses, 0, TEST_BYTES)
                              /\ Verified(stuck, ram, ByteAddresses, 0, at)

VerdictTrue(s, words, line) ==
    /\ line[1] = "passed" => DistinctOn(s, words) /\ DistinctOn(s, ByteAddresses)
    /\ line[1] = "word" => ~DistinctOn(s, words) /\ FirstLostOn(s, line[2][1], words)
    /\ line[1] = "byte" => ~DistinctOn(s, ByteAddresses) /\ FirstLostOn(s, line[2][1], ByteAddresses)
IsSeq(q) == Len(q) \in Nat /\ q = [k \in 1 .. Len(q) |-> q[k]]
ScreenTrue(s, words, q) == IsSeq(q) /\ \A k \in DOMAIN q : VerdictTrue(s, words, q[k])

TestInv == board \in BOARDS /\ WordLoops /\ ByteLoops
IInv    == TestInv /\ ScreenTrue(stuck, WordsOf(board), screen)

\* One more line: each line was there before, or is the new one.
LEMMA LineAppended ==
    ASSUME NEW q, NEW line, IsSeq(q)
    PROVE  /\ IsSeq(Append(q, line))
           /\ \A k \in DOMAIN Append(q, line) :
                  Append(q, line)[k] = line \/ \E j \in DOMAIN q : Append(q, line)[k] = q[j]
  <1> DEFINE S == {q[k] : k \in 1 .. Len(q)} \cup {line}
             a == Append(q, line)
  <1>1. Len(q) \in Nat /\ q = [k \in 1 .. Len(q) |-> q[k]]
    BY DEF IsSeq
  <1>2. q \in Seq(S)
    BY <1>1
  <1>3. /\ Len(a) = Len(q) + 1 /\ a \in Seq(S)
        /\ \A k \in 1 .. Len(q) : a[k] = q[k]
        /\ a[Len(q) + 1] = line
    BY <1>2
  <1> HIDE DEF a, S
  <1>4. IsSeq(a) /\ DOMAIN a = 1 .. Len(a)
    BY <1>3 DEF IsSeq
  <1>5. ASSUME NEW k \in DOMAIN a PROVE a[k] = line \/ \E j \in DOMAIN q : a[k] = q[j]
    <2>1. k \in 1 .. Len(q) + 1 /\ DOMAIN q = 1 .. Len(q)
      BY <1>1, <1>3, <1>4
    <2>2. k # Len(q) + 1 => k \in 1 .. Len(q)
      BY <1>1, <2>1
    <2> QED
      BY <1>3, <2>1, <2>2
  <1> QED
    BY <1>4, <1>5 DEF a

LEMMA ScreenGrows ==
    ASSUME NEW s, NEW words, NEW q, NEW line,
           ScreenTrue(s, words, q), VerdictTrue(s, words, line)
    PROVE  ScreenTrue(s, words, Append(q, line))
  BY LineAppended DEF ScreenTrue

\* Lines that are no verdict are true.
LEMMA OtherLines ==
    ASSUME NEW s, NEW words, NEW line, line[1] \notin {"passed", "word", "byte"}
    PROVE  VerdictTrue(s, words, line)
  BY DEF VerdictTrue

LEMMA EmptyScreen == \A s, words : ScreenTrue(s, words, <<>>)
  BY DEF ScreenTrue, IsSeq

LEMMA EchoAppends ==
    ASSUME NEW q, NEW c, IsSeq(q)
    PROVE  q \o putchar(c) \in {Append(q, <<"char", c>>),
                               Append(Append(q, <<"char", "\r">>), <<"char", "\n">>)}
  <1> DEFINE S == {q[k] : k \in 1 .. Len(q)} \cup {<<"char", c>>, <<"char", "\r">>, <<"char", "\n">>}
  <1>1. q \in Seq(S)
    BY DEF IsSeq
  <1>2. q \o <<<<"char", c>>>> = Append(q, <<"char", c>>)
    BY <1>1
  <1>3. q \o <<<<"char", "\r">>, <<"char", "\n">>>>
        = Append(Append(q, <<"char", "\r">>), <<"char", "\n">>)
    BY <1>1
  <1> QED
    BY <1>2, <1>3 DEF putchar

LEMMA EchoKeeps ==
    ASSUME NEW s, NEW words, NEW q, NEW c, ScreenTrue(s, words, q)
    PROVE  ScreenTrue(s, words, q \o putchar(c))
  <1>1. ScreenTrue(s, words, Append(q, <<"char", c>>))
    BY OtherLines, ScreenGrows
  <1>2. ScreenTrue(s, words, Append(Append(q, <<"char", "\r">>), <<"char", "\n">>))
    <2>1. ScreenTrue(s, words, Append(q, <<"char", "\r">>))
      BY OtherLines, ScreenGrows
    <2> QED
      BY <2>1, OtherLines, ScreenGrows
  <1>3. IsSeq(q)
    BY DEF ScreenTrue
  <1> QED
    BY <1>1, <1>2, <1>3, EchoAppends

-----------------------------------------------------------------------------
(* Every step.                                                             *)

\* Steps that leave the memory test alone, or are outside of it.
LEMMA OutsideTest ==
    ASSUME TestInv, board' = board, pc' \notin {"fill", "verify", "fill bytes", "verify bytes"}
    PROVE  TestInv'
  BY DEF TestInv, WordLoops, ByteLoops

LEMMA SameTest ==
    ASSUME TestInv, UNCHANGED <<board, stuck, pc, ram, round, at>>
    PROVE  TestInv'
  BY DEF TestInv, WordLoops, ByteLoops

\* A verdict ends the test; another line on the screen leaves it as it was.
LEMMA ScreenSays ==
    ASSUME IInv, UNCHANGED <<board, stuck>>, NEW line, screen' = Append(screen, line),
           VerdictTrue(stuck, WordsOf(board), line)
    PROVE  ScreenTrue(stuck, WordsOf(board), screen)'
  BY ScreenGrows DEF IInv

LEMMA ScreenStays ==
    ASSUME IInv, UNCHANGED <<board, stuck, screen>>
    PROVE  ScreenTrue(stuck, WordsOf(board), screen)'
  BY DEF IInv

LEMMA FillWordKeeps == ASSUME IInv, FillWord PROVE IInv'
  <1> DEFINE walk == WordsOf(board)
             limit == MEM_TOTAL[board]
  <1>1. /\ pc = "fill" /\ at \in walk /\ Filled(stuck, ram, walk, round, at)
        /\ UNCHANGED <<board, stuck, round, screen>>
        /\ ram' = [c \in DOMAIN ram \cup {CellOf(stuck, at)} |->
                      IF c = CellOf(stuck, at) THEN <<round, at>> ELSE ram[c]]
        /\ IF at + STRIDE < limit THEN at' = at + STRIDE /\ pc' = pc
                                  ELSE at' = 0 /\ pc' = "verify"
    BY CellIsCellOf
       DEF FillWord, Testing, Put, xorshift32, Walk, IInv, TestInv, WordLoops, rigid
  <1>2. OnWalk(walk, STRIDE, limit) /\ limit \in Nat /\ STRIDE \in Nat \ {0}
    BY Walks, MemoryAssumption DEF IInv, TestInv
  <1>3. ScreenTrue(stuck, WordsOf(board), screen)'
    BY <1>1, ScreenStays
  <1>4. TestInv'
    <2>1. CASE at + STRIDE < limit
      <3>1. at + STRIDE \in walk /\ at + STRIDE \in Nat /\ at < at + STRIDE
        BY <1>1, <1>2, <2>1 DEF OnWalk
      <3>2. \A b \in walk : b < at + STRIDE => b <= at
        BY <1>1, <1>2 DEF OnWalk
      <3>3. Filled(stuck, ram', walk, round, at + STRIDE)
        BY <1>1, <1>2, <3>1, <3>2, StoreFills
      <3> QED
        BY <1>1, <2>1, <3>1, <3>3 DEF IInv, TestInv, WordLoops, ByteLoops
    <2>2. CASE ~(at + STRIDE < limit)
      <3>1. at < limit /\ 0 \in walk /\ walk \subseteq Nat
        BY <1>1, <1>2 DEF OnWalk
      <3>2. \A b \in walk : b < limit => b <= at
        <4>1. \A b \in walk : b < at + STRIDE => b <= at
          BY <1>1, <1>2 DEF OnWalk
        <4>2. \A b \in walk : b < limit => b < at + STRIDE
          BY <1>1, <1>2, <2>2, <3>1
        <4> QED
          BY <4>1, <4>2
      <3>3. Filled(stuck, ram', walk, round, limit)
        BY <1>1, <1>2, <3>1, <3>2, StoreFills
      <3>4. Verified(stuck, ram', walk, round, 0)
        BY <3>1 DEF Verified
      <3> QED
        BY <1>1, <2>2, <3>1, <3>3, <3>4 DEF IInv, TestInv, WordLoops, ByteLoops
    <2> QED
      BY <2>1, <2>2
  <1> QED
    BY <1>3, <1>4 DEF IInv

LEMMA VerifyWordKeeps == ASSUME IInv, VerifyWord PROVE IInv'
  <1> DEFINE walk == WordsOf(board)
             limit == MEM_TOTAL[board]
             right == ram[CellOf(stuck, at)] = <<round, at>>
  <1>1. /\ pc = "verify" /\ at \in walk
        /\ Filled(stuck, ram, walk, round, limit) /\ Verified(stuck, ram, walk, round, at)
        /\ UNCHANGED <<board, stuck, ram>>
    BY DEF VerifyWord, Testing, IInv, TestInv, WordLoops, rigid
  <1>2. OnWalk(walk, STRIDE, limit) /\ limit \in Nat /\ STRIDE \in Nat \ {0}
    BY Walks, MemoryAssumption DEF IInv, TestInv
  <1>3. walk \subseteq Nat /\ 0 \in walk /\ at < limit
    BY <1>1, <1>2 DEF OnWalk
  <1>4. CASE ~right
    <2> DEFINE line == <<"word", <<at, 4>>, print_hex(at, 4)>>
    <2>1. pc' = "menu" /\ screen' = Append(screen, line)
      BY <1>4, CellIsCellOf DEF VerifyWord, Stored, xorshift32, Verdict, Output
    <2>2. FirstLostOn(stuck, at, walk) /\ ~DistinctOn(stuck, walk)
      BY <1>1, <1>2, <1>4, WrongIsLost
    <2>3. line[1] = "word" /\ line[2][1] = at
      OBVIOUS
    <2> HIDE DEF line
    <2>4. VerdictTrue(stuck, walk, line)
      BY <2>2, <2>3 DEF VerdictTrue
    <2>5. ScreenTrue(stuck, WordsOf(board), screen)'
      BY <1>1, <2>1, <2>4, ScreenSays
    <2>6. TestInv'
      BY <1>1, <2>1, OutsideTest DEF IInv
    <2> QED
      BY <2>5, <2>6 DEF IInv
  <1>5. CASE right
    <2>1. /\ screen' = screen
          /\ IF at + STRIDE < limit THEN at' = at + STRIDE /\ pc' = pc
             ELSE at' = 0 /\ pc' = IF round < CYCLES THEN "fill" ELSE "fill bytes"
          /\ round' = IF pc' = "fill" THEN round + 1 ELSE round
      BY <1>5, CellIsCellOf DEF VerifyWord, Stored, xorshift32, Walk
    <2>2. ScreenTrue(stuck, WordsOf(board), screen)'
      BY <1>1, <2>1, ScreenStays
    <2>3. CASE at + STRIDE < limit
      <3>1. pc' = "verify" /\ at' = at + STRIDE /\ at' \in walk /\ round' = round
        BY <1>1, <1>2, <2>1, <2>3 DEF OnWalk
      <3>2. Verified(stuck, ram, walk, round, at')
        <4>1. \A b \in walk : b < at' => b <= at
          BY <1>1, <1>2, <3>1 DEF OnWalk
        <4> QED
          BY <1>1, <1>3, <1>5, <4>1, CompareVerifies
      <3> QED
        BY <1>1, <2>2, <3>1, <3>2 DEF IInv, TestInv, WordLoops, ByteLoops
    <2>4. CASE ~(at + STRIDE < limit)
      <3>1. at' = 0 /\ pc' \in {"fill", "fill bytes"}
        BY <2>1, <2>4
      <3>2. CASE pc' = "fill"
        <4>1. Filled(stuck, ram', walk, round', 0)
          BY <1>3 DEF Filled
        <4> QED
          BY <1>1, <1>3, <2>2, <3>1, <3>2, <4>1 DEF IInv, TestInv, WordLoops, ByteLoops
      <3>3. CASE pc' = "fill bytes"
        <4>1. \A b \in walk : b < limit => b <= at
          <5>1. \A b \in walk : b < at + STRIDE => b <= at
            BY <1>1, <1>2 DEF OnWalk
          <5>2. \A b \in walk : b < limit => b < at + STRIDE
            BY <1>1, <1>2, <1>3, <2>4
          <5> QED
            BY <5>1, <5>2
        <4>2. Verified(stuck, ram, walk, round, limit)
          BY <1>1, <1>3, <1>5, <4>1, CompareVerifies
        <4>3. DistinctOn(stuck, walk)
          BY <1>2, <4>2, RightIsDistinct DEF OnWalk
        <4>4. Filled(stuck, ram', ByteAddresses, 0, 0) /\ 0 \in ByteAddresses
          BY Walks DEF Filled, OnWalk
        <4> QED
          BY <1>1, <2>2, <3>1, <3>3, <4>3, <4>4 DEF IInv, TestInv, WordLoops, ByteLoops
      <3> QED
        BY <3>1, <3>2, <3>3
    <2> QED
      BY <2>3, <2>4
  <1> QED
    BY <1>4, <1>5

(* The byte test walks the addresses below TEST_BYTES one by one. *)
LEMMA NextByte ==
    \A a \in ByteAddresses :
        /\ a \in Nat /\ a + 1 \in Nat /\ a < a + 1 /\ a < TEST_BYTES
        /\ a + 1 < TEST_BYTES <=> a + 1 # TEST_BYTES
        /\ a + 1 < TEST_BYTES => a + 1 \in ByteAddresses
        /\ ~(a + 1 < TEST_BYTES) => \A b \in ByteAddresses : b < TEST_BYTES => b <= a
  <1>1. TEST_BYTES \in Nat
    BY MemoryAssumption
  <1> QED
    BY <1>1 DEF ByteAddresses

LEMMA FillByteKeeps == ASSUME IInv, FillByte PROVE IInv'
  <1> DEFINE walk == ByteAddresses
  <1>1. /\ pc = "fill bytes" /\ at \in walk /\ Filled(stuck, ram, walk, 0, at)
        /\ DistinctOn(stuck, WordsOf(board))
        /\ UNCHANGED <<board, stuck, round, screen>>
        /\ ram' = [c \in DOMAIN ram \cup {CellOf(stuck, at)} |->
                      IF c = CellOf(stuck, at) THEN <<0, at>> ELSE ram[c]]
        /\ IF at + 1 < TEST_BYTES THEN at' = at + 1 /\ pc' = pc
                                  ELSE at' = 0 /\ pc' = "verify bytes"
    BY CellIsCellOf
       DEF FillByte, Testing, Put, Byte, Walk, IInv, TestInv, ByteLoops, rigid
  <1>2. OnWalk(walk, 1, TEST_BYTES) /\ TEST_BYTES \in Nat
    BY Walks, MemoryAssumption
  <1>3. ScreenTrue(stuck, WordsOf(board), screen)'
    BY <1>1, ScreenStays
  <1>4a. at \in ByteAddresses
    BY <1>1
  <1>4. TestInv'
    <2>1. CASE at + 1 < TEST_BYTES
      <3>1. at + 1 \in walk /\ at + 1 \in Nat /\ at < at + 1
        BY <1>4a, <2>1, NextByte
      <3>2. \A b \in walk : b < at + 1 => b <= at
        BY <1>1, <1>2 DEF OnWalk
      <3>3. Filled(stuck, ram', walk, 0, at + 1)
        BY <1>1, <1>2, <3>1, <3>2, StoreFills
      <3> QED
        BY <1>1, <2>1, <3>1, <3>3 DEF IInv, TestInv, WordLoops, ByteLoops
    <2>2. CASE ~(at + 1 < TEST_BYTES)
      <3>1. at < TEST_BYTES /\ 0 \in walk /\ walk \subseteq Nat
        BY <1>1, <1>2 DEF OnWalk
      <3>2. \A b \in walk : b < TEST_BYTES => b <= at
        BY <1>4a, <2>2, NextByte
      <3>3. Filled(stuck, ram', walk, 0, TEST_BYTES)
        BY <1>1, <1>2, <3>1, <3>2, StoreFills
      <3>4. Verified(stuck, ram', walk, 0, 0)
        BY <3>1 DEF Verified
      <3> QED
        BY <1>1, <2>2, <3>1, <3>3, <3>4 DEF IInv, TestInv, WordLoops, ByteLoops
    <2> QED
      BY <2>1, <2>2
  <1> QED
    BY <1>3, <1>4 DEF IInv

LEMMA VerifyByteKeeps == ASSUME IInv, VerifyByte PROVE IInv'
  <1> DEFINE walk == ByteAddresses
             right == ram[CellOf(stuck, at)] = <<0, at>>
  <1>1. /\ pc = "verify bytes" /\ at \in walk
        /\ DistinctOn(stuck, WordsOf(board))
        /\ Filled(stuck, ram, walk, 0, TEST_BYTES) /\ Verified(stuck, ram, walk, 0, at)
        /\ UNCHANGED <<board, stuck, ram, round>>
    BY DEF VerifyByte, Testing, IInv, TestInv, ByteLoops, rigid
  <1>2. OnWalk(walk, 1, TEST_BYTES) /\ TEST_BYTES \in Nat
    BY Walks, MemoryAssumption
  <1>3. walk \subseteq Nat /\ at \in Nat /\ at < TEST_BYTES
    BY <1>1, <1>2 DEF OnWalk
  <1>3a. at \in ByteAddresses
    BY <1>1
  <1>4. CASE ~right
    <2> DEFINE line == <<"byte", <<at, 4>>, print_hex(at, 4)>>
    <2>1. pc' = "menu" /\ screen' = Append(screen, line)
      BY <1>4, CellIsCellOf DEF VerifyByte, Stored, Byte, Verdict, Output
    <2>2. FirstLostOn(stuck, at, walk) /\ ~DistinctOn(stuck, walk)
      BY <1>1, <1>2, <1>4, WrongIsLost
    <2>3. line[1] = "byte" /\ line[2][1] = at
      OBVIOUS
    <2> HIDE DEF line
    <2>4. VerdictTrue(stuck, WordsOf(board), line)
      BY <2>2, <2>3 DEF VerdictTrue
    <2>5. ScreenTrue(stuck, WordsOf(board), screen)'
      BY <1>1, <2>1, <2>4, ScreenSays
    <2>6. TestInv'
      BY <1>1, <2>1, OutsideTest DEF IInv
    <2> QED
      BY <2>5, <2>6 DEF IInv
  <1>5. CASE right /\ at + 1 = TEST_BYTES
    <2>1. pc' = "menu" /\ screen' = Append(screen, <<"passed">>)
      BY <1>5, CellIsCellOf DEF VerifyByte, Stored, Byte, Verdict, Output
    <2>2. Verified(stuck, ram, walk, 0, TEST_BYTES)
      <3>1. \A b \in walk : b < TEST_BYTES => b <= at
        BY <1>3a, <1>5, NextByte
      <3> QED
        BY <1>1, <1>3, <1>5, <3>1, CompareVerifies
    <2>3. DistinctOn(stuck, walk)
      BY <1>2, <2>2, RightIsDistinct DEF OnWalk
    <2>4. VerdictTrue(stuck, WordsOf(board), <<"passed">>)
      BY <1>1, <2>3 DEF VerdictTrue
    <2>5. ScreenTrue(stuck, WordsOf(board), screen)'
      BY <1>1, <2>1, <2>4, ScreenSays
    <2>6. TestInv'
      BY <1>1, <2>1, OutsideTest DEF IInv
    <2> QED
      BY <2>5, <2>6 DEF IInv
  <1>6. CASE right /\ at + 1 # TEST_BYTES
    <2>1. at' = at + 1 /\ pc' = pc /\ screen' = screen
      BY <1>6, CellIsCellOf DEF VerifyByte, Stored, Byte
    <2>2. at + 1 \in walk
      BY <1>3a, <1>6, NextByte
    <2>3. Verified(stuck, ram, walk, 0, at + 1)
      <3>1. \A b \in walk : b < at + 1 => b <= at
        BY <1>3
      <3> QED
        BY <1>1, <1>3, <1>6, <3>1, CompareVerifies
    <2>4. ScreenTrue(stuck, WordsOf(board), screen)'
      BY <1>1, <2>1, ScreenStays
    <2> QED
      BY <1>1, <2>1, <2>2, <2>3, <2>4 DEF IInv, TestInv, WordLoops, ByteLoops
  <1> QED
    BY <1>4, <1>5, <1>6

LEMMA TakeCommandKeeps == ASSUME IInv, TakeCommand PROVE IInv'
  <1>1. board' = board /\ screen' = <<>> /\ ram' = <<>> /\ pc = "command" /\ board \in BOARDS
    BY DEF TakeCommand, IInv, TestInv
  <1>2. ScreenTrue(stuck, WordsOf(board), screen)'
    BY <1>1, EmptyScreen
  <1>3. CASE uart = "M"
    <2>1. pc' = "fill" /\ at' = 0
      BY <1>3 DEF TakeCommand, Commands
    <2>2. OnWalk(WordsOf(board), STRIDE, MEM_TOTAL[board])
      BY <1>1, Walks
    <2>3. 0 \in WordsOf(board') /\ Filled(stuck', ram', WordsOf(board'), round', 0)
      BY <1>1, <2>2 DEF Filled, OnWalk
    <2> QED
      BY <1>1, <1>2, <2>1, <2>3 DEF IInv, TestInv, WordLoops, ByteLoops
  <1>4. CASE uart # "M"
    <2>1. pc' \in {"menu", "echo", "command"}
      BY <1>4 DEF TakeCommand
    <2>2. TestInv'
      BY <1>1, <2>1, OutsideTest DEF IInv
    <2> QED
      BY <1>2, <2>2 DEF IInv
  <1> QED
    BY <1>3, <1>4

LEMMA Step == IInv /\ [Next]_vars => IInv'
  <1> SUFFICES ASSUME IInv, [Next]_vars PROVE IInv'
    OBVIOUS
  <1>0. ASSUME UNCHANGED <<board, stuck, pc, ram, round, at>>,
               ScreenTrue(stuck, WordsOf(board), screen)'
        PROVE  IInv'
    BY <1>0, SameTest DEF IInv
  <1>1. CASE PrintNumber
    <2>1. UNCHANGED <<board, stuck, pc, ram, round, at>>
      BY <1>1 DEF PrintNumber, rigid, memVars
    <2>2. \/ screen' = Append(screen, <<"dec", Arg, print_dec(Arg)>>)
          \/ screen' = Append(screen, <<"hex", Arg, print_hex(Arg[1], Arg[2])>>)
      BY <1>1 DEF PrintNumber, Output
    <2>3. ScreenTrue(stuck, WordsOf(board), screen)'
      BY <2>1, <2>2, OtherLines, ScreenSays
    <2> QED
      BY <1>0, <2>1, <2>3
  <1>2. CASE ShowField
    <2>1. UNCHANGED <<board, stuck, pc, ram, round, at>>
      BY <1>2 DEF ShowField, rigid, memVars
    <2>2. \/ screen' = Append(screen, <<"dec", spictrl.latency, print_dec(spictrl.latency)>>)
          \/ screen' = Append(screen, <<"state", Arg, spictrl[Arg]>>)
      BY <1>2 DEF ShowField, Output
    <2>3. ScreenTrue(stuck, WordsOf(board), screen)'
      BY <2>1, <2>2, OtherLines, ScreenSays
    <2> QED
      BY <1>0, <2>1, <2>3
  <1>3. CASE PrintRegister
    <2>1. UNCHANGED <<board, stuck, pc, ram, round, at>>
      BY <1>3 DEF PrintRegister, rigid, memVars
    <2> DEFINE line == <<"register", Arg, Head(buffer), Contents(Arg), spictrl.cont>>
    <2>2. screen' = Append(screen, line)
      BY <1>3 DEF PrintRegister, Output
    <2>4. line[1] = "register"
      OBVIOUS
    <2> HIDE DEF line
    <2>3. ScreenTrue(stuck, WordsOf(board), screen)'
      BY <2>1, <2>2, <2>4, OtherLines, ScreenSays
    <2> QED
      BY <1>0, <2>1, <2>3
  <1>4. CASE RunBenchmark
    <2>1. UNCHANGED <<board, stuck, pc, ram, round, at>>
      BY <1>4 DEF RunBenchmark, rigid
    <2>2. screen' = Append(screen, <<"benchmark", Arg, spictrl, chip.latency>>)
      BY <1>4 DEF RunBenchmark, Output
    <2>3. ScreenTrue(stuck, WordsOf(board), screen)'
      BY <2>1, <2>2, OtherLines, ScreenSays
    <2> QED
      BY <1>0, <2>1, <2>3
  <1>5. CASE SetLeds \/ Remind \/ Type \/ UNCHANGED vars
    <2>1. UNCHANGED <<board, stuck, pc, ram, round, at, screen>>
      BY <1>5 DEF SetLeds, Remind, Type, vars, rigid, memVars
    <2> QED
      BY <1>0, <2>1, ScreenStays
  <1>14. CASE StoreSpiCtrl \/ FlashRead \/ FlashWrite
    <2>1. UNCHANGED <<board, stuck, ram, round, at, screen>> /\ (pc' = pc \/ pc' = "lost")
      BY <1>14 DEF StoreSpiCtrl, FlashRead, FlashWrite, Restart, rigid, memVars
    <2>2. TestInv'
      BY <2>1, SameTest, OutsideTest DEF IInv
    <2> QED
      BY <2>1, <2>2, ScreenStays DEF IInv
  <1>6. CASE TakeEnter
    <2>1. /\ UNCHANGED <<board, stuck>> /\ screen' = <<>>
          /\ pc' \notin {"fill", "verify", "fill bytes", "verify bytes"}
      BY <1>6 DEF TakeEnter, rigid
    <2> QED
      BY <2>1, EmptyScreen, OutsideTest DEF IInv
  <1>7. CASE ShowMenu
    <2>1. /\ UNCHANGED <<board, stuck, screen>>
          /\ pc' \notin {"fill", "verify", "fill bytes", "verify bytes"}
      BY <1>7 DEF ShowMenu, rigid
    <2> QED
      BY <2>1, ScreenStays, OutsideTest DEF IInv
  <1>8. CASE TakeCommand
    BY <1>8, TakeCommandKeeps
  <1>9. CASE Echo
    <2>1. /\ UNCHANGED <<board, stuck>>
          /\ pc' \notin {"fill", "verify", "fill bytes", "verify bytes"}
          /\ screen' = screen \/ screen' = screen \o putchar(uart)
      BY <1>9 DEF Echo, rigid
    <2>2. ScreenTrue(stuck, WordsOf(board), screen)'
      BY <2>1, EchoKeeps DEF IInv
    <2> QED
      BY <2>1, <2>2, OutsideTest DEF IInv
  <1>10. CASE FillWord
    BY <1>10, FillWordKeeps
  <1>11. CASE VerifyWord
    BY <1>11, VerifyWordKeeps
  <1>12. CASE FillByte
    BY <1>12, FillByteKeeps
  <1>13. CASE VerifyByte
    BY <1>13, VerifyByteKeeps
  <1> QED
    BY <1>1, <1>2, <1>3, <1>4, <1>5, <1>6, <1>7, <1>8, <1>9, <1>10, <1>11, <1>12, <1>13, <1>14,
       Zenon
       DEF Next, ProgramStep, Operation

\* At each moment the loop in progress has stored and compared what it should.
THEOREM TestInvariant == Spec => []IInv
  <1>1. Init => IInv
    <2> SUFFICES ASSUME Init PROVE IInv
      OBVIOUS
    <2>1. board \in BOARDS /\ pc = "enter" /\ screen = <<>>
      BY DEF Init
    <2> QED
      BY <2>1, EmptyScreen DEF IInv, TestInv, WordLoops, ByteLoops
  <1> QED
    BY <1>1, Step, PTL DEF Spec

\* The memory test passes exactly when no two addresses of a walk share a cell,
\* and names the first address that lost its value (cmd_memtest), whatever the
\* memory, the stride and the stuck line.
THEOREM VerdictIsRight == Spec => []MemtestVerdict
  <1>1. IInv => MemtestVerdict
    <2> SUFFICES ASSUME IInv, NEW k \in DOMAIN screen
                 PROVE  /\ screen[k][1] = "passed" => Distinct(WordAddresses) /\ Distinct(ByteAddresses)
                        /\ screen[k][1] = "word" => /\ ~Distinct(WordAddresses)
                                                    /\ FirstLost(screen[k][2][1], WordAddresses)
                        /\ screen[k][1] = "byte" => /\ ~Distinct(ByteAddresses)
                                                    /\ FirstLost(screen[k][2][1], ByteAddresses)
      BY DEF MemtestVerdict
    <2>1. VerdictTrue(stuck, WordsOf(board), screen[k]) /\ board \in BOARDS
      BY DEF IInv, ScreenTrue, TestInv
    <2>2. WordAddresses = WordsOf(board)
      BY DEF WordAddresses, WordsOf
    <2>3. WordAddresses \subseteq Nat /\ ByteAddresses \subseteq Nat
      BY <2>1, <2>2, Walks DEF OnWalk
    <2>4. \A walk : Distinct(walk) <=> DistinctOn(stuck, walk)
      BY CellIsCellOf DEF Distinct, DistinctOn
    <2>5. /\ FirstLostOn(stuck, screen[k][2][1], WordAddresses)
                => FirstLost(screen[k][2][1], WordAddresses)
          /\ FirstLostOn(stuck, screen[k][2][1], ByteAddresses)
                => FirstLost(screen[k][2][1], ByteAddresses)
      BY <2>3, FirstIsUnique
    <2> QED
      BY <2>1, <2>2, <2>4, <2>5 DEF VerdictTrue
  <1> QED
    BY <1>1, TestInvariant, PTL
-----------------------------------------------------------------------------
(* Straight-line code on the flash: what a sequence of operations needs    *)
(* and leaves, as triples of a condition before, the operations and a      *)
(* condition after.  A condition is a set of states of controller, chip    *)
(* and buffer.  In a lost program nothing follows.                         *)

Modes == [ddr : BOOLEAN, qspi : BOOLEAN, cont : BOOLEAN]
CtrlOf(latencies) == [ddr : BOOLEAN, qspi : BOOLEAN, cont : BOOLEAN, latency : latencies]
Chips == [bits : SUBSET Int, latency : 0 .. 15, found : SUBSET Int, xip : Modes, ends : BOOLEAN]

\* The registers of the chip and the fields of the controller's.
Names == {"ID", "SR1V", "SR2V", "CR1V", "CR2V", "CR3V", "VDLP", "SR1", "SR2", "SR3",
          "latency", "ddr", "qspi", "cont"}

\* What a register holds, and what a read of it brings.
ContentsOf(f, reg) ==
    IF reg \in {"CR1V", "SR2"} THEN <<"bits", f.bits>>
    ELSE IF reg = "CR3V" THEN <<"latency", f.latency>> ELSE <<"factory", reg>>
AnswerOf(f, reg) == IF f.xip = Spi THEN ContentsOf(f, reg) ELSE <<"noise">>
Values == {<<"noise">>} \cup {ContentsOf(f, reg) : f \in Chips, reg \in Names}

FlashStates == [ctrl : CtrlOf(0 .. 15), chip : Chips, lost : BOOLEAN, buf : Seq(Values)]

\* The operations of the commands.  The quad bit is written before the first one.
FlashOps ==
    [op : {"store"}, arg : CtrlOf(-1 .. 15)]
    \cup [op : {"write"}, arg : [reg : {"CR3V"}, v : 0 .. 15, wren : {6}]]
    \cup [op : {"benchmark"}, arg : SUBSET CtrlOf(-1 .. 15)]
    \cup [op : {"toggle", "crm"}, arg : {0}]
    \cup [op : {"leds", "dec"}, arg : Int] \cup [op : {"hex"}, arg : Int \X Int]
    \cup [op : {"show", "read", "register"}, arg : Names]

\* Whether the flash answers, on one board or the other.
DummiesOn(hx, f, c) == IF hx THEN f.latency ELSE IF c.qspi THEN (IF c.ddr THEN 7 ELSE 4) ELSE 0
AnswersOn(hx, f, c) ==
    /\ f.xip = Spi
    /\ c.cont => c.ddr \/ c.qspi
    /\ c.qspi => QUAD_BIT \in f.bits
    /\ c.ddr \/ c.qspi => c.latency = DummiesOn(hx, f, c)
\* The mode the chip stays in between two reads of a controller set to c.
Between(c) == IF c.cont THEN Lanes(c) ELSE Spi
Restarted(hx, c, f, b) ==
    IF AnswersOn(hx, AfterFF(f), c)
    THEN [ctrl |-> c, chip |-> [AfterFF(f) EXCEPT !.xip = Between(c)], lost |-> FALSE, buf |-> b]
    ELSE [ctrl |-> c, chip |-> AfterFF(f), lost |-> TRUE, buf |-> b]

\* What an operation does to controller, chip and buffer.
CtrlAfter(c, o) ==
    IF o.op = "store"
    THEN [o.arg EXCEPT !.latency = IF o.arg.latency = KEEP THEN c.latency ELSE o.arg.latency]
    ELSE IF o.op = "toggle" THEN [c EXCEPT !.cont = ~c.cont] ELSE [c EXCEPT !.cont = TRUE]
Took(f, v) == IF f.xip = Spi THEN [f EXCEPT !.latency = v] ELSE f
Effect(hx, x, o) ==
    IF x.lost THEN x
    ELSE IF o.op \in {"store", "toggle", "crm"}
    THEN Restarted(hx, CtrlAfter(x.ctrl, o), x.chip, x.buf)
    ELSE IF o.op = "read"
    THEN Restarted(hx, x.ctrl, Clocked(x.chip), Append(x.buf, AnswerOf(x.chip, o.arg)))
    ELSE IF o.op = "write" THEN Restarted(hx, x.ctrl, Clocked(Took(x.chip, o.arg.v)), <<>>)
    ELSE IF o.op = "register"
    THEN [ctrl |-> x.ctrl, chip |-> x.chip, lost |-> FALSE, buf |-> Tail(x.buf)]
    ELSE x

\* What it prints is true.
DecTrue(v)    == DigitsTrue(v, 10, print_dec(v), 1)
HexTrue(v, n) == DigitsTrue(v, 16, print_hex(v, n), n)
RegisterTrue(x, reg) == ~x.ctrl.cont => Head(x.buf) = ContentsOf(x.chip, reg)
Fine(x, o) == x.lost \/
    /\ o.op = "benchmark" => LabelTrue(<<"benchmark", o.arg, x.ctrl, x.chip.latency>>)
    /\ o.op = "dec" => DecTrue(o.arg)
    /\ o.op = "hex" => HexTrue(o.arg[1], o.arg[2])
    /\ o.op = "show" => DecTrue(x.ctrl.latency)
    /\ o.op = "register" => RegisterTrue(x, o.arg)

\* FlashMatches of a state, and what it rests on: a chip that is read is in the mode the
\* controller expects it in.
Excused(x)  == (x.chip.xip = Dual /\ ~x.chip.ends) \/ (x.ctrl.cont /\ ~x.ctrl.ddr /\ ~x.ctrl.qspi)
Agreed(hx, c, f) ==
    /\ f.xip = Between(c)
    /\ c.cont => c.ddr \/ c.qspi
    /\ c.ddr \/ c.qspi => c.latency = DummiesOn(hx, f, c)
KeepsBits(f) == f.bits \ {QUAD_BIT} = f.found \ {QUAD_BIT}
Consistent(hx, x) ==
    /\ IF x.lost THEN Excused(x) ELSE Agreed(hx, x.ctrl, x.chip)
    /\ KeepsBits(x.chip)

\* Between two operations, with the values of the registers in names still to print;
\* between two commands.
ReadTrue(x, names) ==
    /\ Len(x.buf) = Len(names)
    /\ ~x.ctrl.cont => \A k \in 1 .. Len(names) : x.buf[k] = ContentsOf(x.chip, names[k])
Holding(hx, names) ==
    {x \in FlashStates : /\ Consistent(hx, x)
                         /\ ~x.lost => /\ QUAD_BIT \in x.chip.bits /\ ReadTrue(x, names)
                                       /\ hx => x.ctrl.latency = x.chip.latency}
AtRest(hx) == Holding(hx, <<>>)

\* st are the states before, between and after the first n operations of s.
Run(hx, st, s, n) == \A k \in 1 .. n : st[k] = Effect(hx, st[k - 1], s[k])
Triple(hx, P, s, Q) ==
    \A n \in 0 .. Len(s) : \A st : st[0] \in P /\ Run(hx, st, s, n) =>
        /\ Consistent(hx, st[n])
        /\ n < Len(s) => Fine(st[n], s[n + 1])
        /\ n = Len(s) => st[n] \in Q
Safe(hx) == {s \in Seq(FlashOps) : Triple(hx, AtRest(hx), s, AtRest(hx))}

\* One element after another.  (Concatenated tuples are the provers' business only
\* element by element.)
LEMMA Pair ==
    ASSUME NEW S, NEW s \in S, NEW w \in S
    PROVE  <<s>> \o <<w>> = <<s, w>>
  <1> DEFINE t == <<s>> \o <<w>>
  <1>1. t \in Seq(S) /\ Len(t) = 2 /\ t[1] = s /\ t[2] = w
    OBVIOUS
  <1> HIDE DEF t
  <1>2. DOMAIN t = 1 .. 2 /\ t = [i \in 1 .. 2 |-> t[i]]
    BY <1>1
  <1>3. <<s, w>> = [i \in 1 .. 2 |-> t[i]]
    BY <1>1
  <1>4. t = <<s, w>>
    BY <1>2, <1>3
  <1> QED
    BY <1>4 DEF t

\* One element after one, two or three others.
LEMMA Tuples ==
    ASSUME NEW a, NEW b, NEW c, NEW d
    PROVE  /\ <<a>> \o <<b>> = <<a, b>>
           /\ <<a, b>> \o <<c>> = <<a, b, c>>
           /\ <<a, b, c>> \o <<d>> = <<a, b, c, d>>
  <1> DEFINE S == {a, b, c, d}
  <1>5. a \in S /\ b \in S /\ c \in S /\ d \in S
    OBVIOUS
  <1> HIDE DEF S
  <1> DEFINE t == <<a, b>> \o <<c>>
             u == <<a, b, c>> \o <<d>>
  <1>1. t \in Seq(S) /\ Len(t) = 3 /\ t[1] = a /\ t[2] = b /\ t[3] = c
    BY <1>5
  <1>2. u \in Seq(S) /\ Len(u) = 4 /\ u[1] = a /\ u[2] = b /\ u[3] = c /\ u[4] = d
    BY <1>5
  <1> HIDE DEF t, u
  <1>3. t = <<a, b, c>>
    <2>1. t = [i \in 1 .. 3 |-> t[i]]
      BY <1>1
    <2>2. <<a, b, c>> = [i \in 1 .. 3 |-> t[i]]
      BY <1>1
    <2> QED
      BY <2>1, <2>2
  <1>4. u = <<a, b, c, d>>
    <2>1. u = [i \in 1 .. 4 |-> u[i]]
      BY <1>2
    <2>2. <<a, b, c, d>> = [i \in 1 .. 4 |-> u[i]]
      BY <1>2
    <2> QED
      BY <2>1, <2>2
  <1> QED
    BY <1>3, <1>4, <1>5, Pair DEF t, u

\* One piece of code after another.
LEMMA OneAfterOther ==
    ASSUME NEW hx, NEW P, NEW Q, NEW R, NEW s \in Seq(FlashOps), NEW t \in Seq(FlashOps),
           Triple(hx, P, s, Q), Triple(hx, Q, t, R)
    PROVE  Triple(hx, P, s \o t, R)
  <1> DEFINE l == Len(s)
             m == Len(t)
             both == s \o t
  <1>1. /\ l \in Nat /\ m \in Nat /\ both \in Seq(FlashOps) /\ Len(both) = l + m
        /\ \A k \in 1 .. l : both[k] = s[k]
        /\ \A k \in 1 .. m : both[l + k] = t[k]
    OBVIOUS
  <1> SUFFICES ASSUME NEW n \in 0 .. l + m, NEW st, st[0] \in P, Run(hx, st, both, n)
               PROVE  /\ Consistent(hx, st[n])
                      /\ n < l + m => Fine(st[n], both[n + 1])
                      /\ n = l + m => st[n] \in R
    BY <1>1 DEF Triple
  <1> HIDE DEF both, l, m
  <1>2. CASE n < l
    <2>1. n \in 0 .. l /\ n + 1 \in 1 .. l /\ n # l + m
      BY <1>1, <1>2
    <2>2. Run(hx, st, s, n)
      BY <1>1, <2>1 DEF Run
    <2>3. Consistent(hx, st[n]) /\ Fine(st[n], s[n + 1])
      <3>1. \A k \in 0 .. l : Run(hx, st, s, k) =>
                Consistent(hx, st[k]) /\ (k < l => Fine(st[k], s[k + 1]))
        BY DEF Triple, l
      <3> QED
        BY <1>2, <2>1, <2>2, <3>1
    <2> QED
      BY <1>1, <2>1, <2>3
  <1>3. CASE ~(n < l)
    <2>1. l \in 0 .. l /\ n - l \in 0 .. m /\ l + (n - l) = n
      BY <1>1, <1>3
    <2>2. Run(hx, st, s, l)
      BY <1>1, <1>3 DEF Run
    <2>3. st[l] \in Q
      BY <2>1, <2>2 DEF Triple, l
    <2> DEFINE u == [k \in 0 .. m |-> st[l + k]]
    <2>4. u[0] = st[l] /\ u[n - l] = st[n]
      BY <1>1, <2>1
    <2>5. ASSUME NEW k \in 1 .. n - l PROVE u[k] = Effect(hx, u[k - 1], t[k])
      <3>1. k \in 1 .. m /\ k - 1 \in 0 .. m /\ k \in 0 .. m
        BY <1>1, <2>1
      <3>2. PICK j \in 1 .. n : j = l + k /\ j - 1 = l + (k - 1)
        BY <1>1, <2>1
      <3>3. st[j] = Effect(hx, st[j - 1], both[j])
        BY DEF Run
      <3>4. u[k] = st[j] /\ u[k - 1] = st[j - 1] /\ both[j] = t[k]
        BY <1>1, <3>1, <3>2
      <3> HIDE DEF u
      <3> QED
        BY <3>3, <3>4
    <2>6. Run(hx, u, t, n - l)
      BY <2>5 DEF Run
    <2> HIDE DEF u
    <2>7. /\ Consistent(hx, u[n - l])
          /\ n - l < m => Fine(u[n - l], t[n - l + 1])
          /\ n - l = m => u[n - l] \in R
      BY <2>1, <2>3, <2>4, <2>6 DEF Triple, m
    <2>8. n < l + m => n - l + 1 \in 1 .. m /\ l + (n - l + 1) = n + 1
      BY <1>1, <2>1
    <2> QED
      BY <1>1, <2>1, <2>4, <2>7, <2>8
  <1> QED
    BY <1>2, <1>3

\* One operation.
LEMMA Single ==
    ASSUME NEW hx, NEW P, NEW Q, NEW o,
           \A x \in P : Consistent(hx, x) /\ Fine(x, o) /\ Effect(hx, x, o) \in Q,
           \A x \in Q : Consistent(hx, x)
    PROVE  Triple(hx, P, <<o>>, Q)
  <1> SUFFICES ASSUME NEW n \in 0 .. 1, NEW st, st[0] \in P, Run(hx, st, <<o>>, n)
               PROVE  /\ Consistent(hx, st[n])
                      /\ n < 1 => Fine(st[n], <<o>>[n + 1])
                      /\ n = 1 => st[n] \in Q
    BY DEF Triple
  <1>1. CASE n = 0
    BY <1>1
  <1>2. CASE n = 1
    <2>1. st[1] = Effect(hx, st[0], o)
      BY <1>2 DEF Run
    <2> QED
      BY <1>2, <2>1
  <1> QED
    BY <1>1, <1>2

\* Sequences of safe commands are safe.
LEMMA SafeTogether == \A hx : \A s, t \in Safe(hx) : s \o t \in Safe(hx)
  <1> SUFFICES ASSUME NEW hx, NEW s \in Safe(hx), NEW t \in Safe(hx) PROVE s \o t \in Safe(hx)
    OBVIOUS
  <1>1. /\ s \in Seq(FlashOps) /\ Triple(hx, AtRest(hx), s, AtRest(hx))
        /\ t \in Seq(FlashOps) /\ Triple(hx, AtRest(hx), t, AtRest(hx))
    BY DEF Safe
  <1>2. Triple(hx, AtRest(hx), s \o t, AtRest(hx))
    BY <1>1, OneAfterOther
  <1>3. s \o t \in Seq(FlashOps)
    BY <1>1
  <1> QED
    BY <1>2, <1>3 DEF Safe

\* One operation of a sequence is done.
LEMMA Advance ==
    ASSUME NEW hx, NEW x, NEW Q, NEW s \in Seq(FlashOps), s # <<>>, Triple(hx, {x}, s, Q)
    PROVE  /\ Consistent(hx, x) /\ Fine(x, Head(s)) /\ Head(s) \in FlashOps
           /\ Tail(s) \in Seq(FlashOps) /\ Triple(hx, {Effect(hx, x, Head(s))}, Tail(s), Q)
  <1> DEFINE l == Len(s)
             r == Tail(s)
  <1>1. /\ l \in Nat \ {0} /\ Head(s) = s[1] /\ s[1] \in FlashOps
        /\ r \in Seq(FlashOps) /\ Len(r) = l - 1 /\ \A k \in 1 .. l - 1 : r[k] = s[k + 1]
    OBVIOUS
  <1>2. Consistent(hx, x) /\ Fine(x, s[1])
    <2> DEFINE st == [k \in 0 .. 0 |-> x]
    <2>1. st[0] \in {x} /\ Run(hx, st, s, 0) /\ 0 \in 0 .. l /\ 0 < l
      BY <1>1 DEF Run
    <2> HIDE DEF l
    <2>2. Consistent(hx, st[0]) /\ Fine(st[0], s[0 + 1])
      <3> HIDE DEF st
      <3> QED
        BY <2>1 DEF Triple, l
    <2> QED
      BY <2>2
  <1>3. ASSUME NEW n \in 0 .. l - 1, NEW st, st[0] = Effect(hx, x, s[1]), Run(hx, st, r, n)
        PROVE  /\ Consistent(hx, st[n])
               /\ n < l - 1 => Fine(st[n], r[n + 1])
               /\ n = l - 1 => st[n] \in Q
    <2> DEFINE u == [k \in 0 .. n + 1 |-> IF k = 0 THEN x ELSE st[k - 1]]
    <2> HIDE DEF l, r
    <2>1. u[0] = x /\ u[n + 1] = st[n] /\ n + 1 \in 0 .. l
      BY <1>1
    <2>2. ASSUME NEW k \in 1 .. n + 1 PROVE u[k] = Effect(hx, u[k - 1], s[k])
      <3>1. k - 1 \in 0 .. n /\ k \in 0 .. n + 1 /\ k # 0 /\ k - 1 \in 0 .. n + 1 /\ k - 1 + 1 = k
        BY <1>1
      <3>2. u[k] = st[k - 1]
        BY <3>1
      <3>3. CASE k = 1
        BY <1>3, <3>2, <3>3
      <3>4. CASE k # 1
        <4>1. k - 1 \in 1 .. n /\ k - 1 # 0 /\ k - 1 \in 1 .. l - 1
          BY <1>1, <3>1, <3>4
        <4>2. st[k - 1] = Effect(hx, st[k - 1 - 1], r[k - 1])
          BY <1>3, <4>1 DEF Run
        <4>3. u[k - 1] = st[k - 1 - 1] /\ r[k - 1] = s[k]
          BY <1>1, <3>1, <4>1
        <4> HIDE DEF u
        <4> QED
          BY <3>2, <4>2, <4>3
      <3> QED
        BY <3>3, <3>4
    <2>3. Run(hx, u, s, n + 1)
      BY <2>2 DEF Run
    <2> HIDE DEF u
    <2>4. /\ Consistent(hx, u[n + 1])
          /\ n + 1 < l => Fine(u[n + 1], s[n + 1 + 1])
          /\ n + 1 = l => u[n + 1] \in Q
      BY <2>1, <2>3 DEF Triple, l
    <2>5. n < l - 1 => n + 1 < l /\ r[n + 1] = s[n + 1 + 1]
      BY <1>1
    <2>6. n = l - 1 => n + 1 = l
      BY <1>1
    <2> QED
      BY <2>1, <2>4, <2>5, <2>6
  <1>4. Triple(hx, {Effect(hx, x, s[1])}, r, Q)
    <2> HIDE DEF l, r
    <2> QED
      BY <1>1, <1>3 DEF Triple
  <1> QED
    BY <1>1, <1>2, <1>4

\* With no operation left the condition after holds.
LEMMA Ended ==
    ASSUME NEW hx, NEW x, NEW Q, Triple(hx, {x}, <<>>, Q)
    PROVE  x \in Q
  <1> DEFINE st == [k \in 0 .. 0 |-> x]
  <1>1. st[0] \in {x} /\ Run(hx, st, <<>>, 0) /\ 0 \in 0 .. Len(<<>>) /\ st[0] = x /\ Len(<<>>) = 0
    BY DEF Run
  <1> HIDE DEF st
  <1> QED
    BY <1>1 DEF Triple

\* A safe command begun at rest.
LEMMA Begun ==
    ASSUME NEW hx, NEW x \in AtRest(hx), NEW s \in Safe(hx)
    PROVE  s \in Seq(FlashOps) /\ Triple(hx, {x}, s, AtRest(hx))
  BY DEF Safe, Triple

-----------------------------------------------------------------------------
(* The operations and the commands.                                        *)

LEMMA DigitsAre ==
    \A v, base, digits, least :
        DigitsTrue(v, base, digits, least)
            <=> Horner(base, digits) = v /\ Len(digits) >= least /\ (Len(digits) > least => digits[1] # 0)
  BY Zenon DEF DigitsTrue, Horner

\* Numbers of one, two and three digits.
LEMMA FewDigits ==
    ASSUME NEW d \in Seq(Nat), Len(d) \in 1 .. 3
    PROVE  /\ Len(d) = 1 => Horner(10, d) = d[1]
           /\ Len(d) = 2 => Horner(10, d) = 10 * d[1] + d[2]
           /\ Len(d) = 3 => Horner(10, d) = 100 * d[1] + 10 * d[2] + d[3]
  <1> DEFINE n == Len(d)
             v == [i \in 0 .. n |-> IF i = 0 THEN 0 ELSE IF i = 1 THEN d[1]
                                    ELSE IF i = 2 THEN 10 * d[1] + d[2]
                                    ELSE 100 * d[1] + 10 * d[2] + d[3]]
  <1>1. n \in 1 .. 3 /\ \A i \in 1 .. n : d[i] \in Nat
    OBVIOUS
  <1>2. v \in [0 .. n -> Nat]
    <2> DEFINE w(i) == IF i = 0 THEN 0 ELSE IF i = 1 THEN d[1]
                       ELSE IF i = 2 THEN 10 * d[1] + d[2] ELSE 100 * d[1] + 10 * d[2] + d[3]
    <2>1. ASSUME NEW i \in 0 .. n PROVE w(i) \in Nat
      <3>1. d[1] \in Nat /\ (i >= 2 => d[2] \in Nat) /\ (i >= 3 => d[3] \in Nat)
        BY <1>1
      <3>2. i = 0 \/ i = 1 \/ i = 2 \/ i = 3
        BY <1>1
      <3>3. CASE i = 2
        BY <3>1, <3>3
      <3>4. CASE i = 3
        <4>1. d[1] \in Nat /\ d[2] \in Nat /\ d[3] \in Nat
          BY <3>1, <3>4
        <4>2. w(i) = 100 * d[1] + 10 * d[2] + d[3]
          BY <3>4
        <4> HIDE DEF w
        <4>3. 100 * d[1] + 10 * d[2] + d[3] \in Nat
          <5>1. \A x, y, z \in Nat : 100 * x + 10 * y + z \in Nat
            OBVIOUS
          <5> QED
            BY <4>1, <5>1, Zenon
        <4> QED
          BY <4>2, <4>3, Zenon
      <3> QED
        BY <3>1, <3>2, <3>3, <3>4
    <2>2. v = [i \in 0 .. n |-> w(i)]
      OBVIOUS
    <2> HIDE DEF v, w
    <2> QED
      BY <2>1, <2>2
  <1>3. v[0] = 0
    OBVIOUS
  <1>4. ASSUME NEW i \in 1 .. n PROVE v[i] = 10 * v[i - 1] + d[i]
    <2>1. /\ i = 1 \/ i = 2 \/ i = 3
          /\ 1 \in 1 .. n /\ (i >= 2 => 2 \in 1 .. n) /\ (i = 3 => 3 \in 1 .. n)
          /\ i - 1 \in 0 .. n /\ i \in 0 .. n
      BY <1>1
    <2>2. CASE i = 1
      BY <1>1, <2>1, <2>2
    <2>3. CASE i = 2
      <3>1. v[i] = 10 * d[1] + d[2] /\ v[i - 1] = d[1] /\ d[i] = d[2]
        BY <1>1, <2>1, <2>3
      <3> QED
        BY <3>1
    <2>4. CASE i = 3
      <3>1. v[i] = 100 * d[1] + 10 * d[2] + d[3] /\ v[i - 1] = 10 * d[1] + d[2] /\ d[i] = d[3]
        BY <1>1, <2>1, <2>4
      <3>2. d[1] \in Nat /\ d[2] \in Nat /\ d[3] \in Nat
        BY <1>1, <2>1, <2>4
      <3> HIDE DEF v
      <3>3. \A x, y, z \in Nat : 100 * x + 10 * y + z = 10 * (10 * x + y) + z
        OBVIOUS
      <3>4. 100 * d[1] + 10 * d[2] + d[3] = 10 * (10 * d[1] + d[2]) + d[3]
        BY <3>2, <3>3, Zenon
      <3>5. v[i] = 10 * (10 * d[1] + d[2]) + d[3]
        BY <3>1, <3>4, Zenon
      <3> QED
        BY <3>1, <3>5, Zenon
    <2> QED
      BY <2>1, <2>2, <2>3, <2>4
  <1>5. Horner(10, d) = v[n]
    <2> HIDE DEF v
    <2>1. 10 \in Nat
      OBVIOUS
    <2> QED
      BY <1>2, <1>3, <1>4, <2>1, HornerIs
  <1>6. v[n] = IF n = 1 THEN d[1] ELSE IF n = 2 THEN 10 * d[1] + d[2]
               ELSE 100 * d[1] + 10 * d[2] + d[3]
    <2>1. n \in 0 .. n /\ n # 0 BY <1>1
    <2> QED BY <2>1
  <1> HIDE DEF v
  <1>7. Horner(10, d) = IF n = 1 THEN d[1] ELSE IF n = 2 THEN 10 * d[1] + d[2]
                        ELSE 100 * d[1] + 10 * d[2] + d[3]
    BY <1>5, <1>6
  <1> DEFINE two == 10 * d[1] + d[2]
             three == 100 * d[1] + 10 * d[2] + d[3]
  <1>8. Horner(10, d) = IF n = 1 THEN d[1] ELSE IF n = 2 THEN two ELSE three
    BY <1>7
  <1> HIDE DEF two, three, n
  <1>9. (n = 1 => Horner(10, d) = d[1]) /\ (n = 2 => Horner(10, d) = two)
        /\ (n = 3 => Horner(10, d) = three)
    BY <1>8
  <1> QED
    BY <1>9 DEF two, three, n

\* The numbers print_dec is given: latencies and the memory of each board.
LEMMA DecsTrue == DecTrue(128) /\ \A v \in 0 .. 99 : DecTrue(v)
  <1>1. DecTrue(128)
    <2> DEFINE d == print_dec(128)
    <2>1. d = (<<1>> \o <<2>>) \o <<8>>
      <3>1. /\ ~(128 >= 1000) /\ 128 \div 100 = 1 /\ (128 % 100) \div 10 = 2 /\ 128 % 10 = 8
            /\ 1 > 0 /\ 2 > 0
        OBVIOUS
      <3> QED
        BY <3>1, Zenon DEF print_dec
    <2>2. d \in Seq(Nat) /\ Len(d) = 3 /\ d[1] = 1 /\ d[2] = 2 /\ d[3] = 8
      <3> HIDE DEF d
      <3> QED
        BY <2>1
    <2> HIDE DEF d
    <2>3. Horner(10, d) = 128
      BY <2>2, FewDigits
    <2>4. DigitsTrue(128, 10, d, 1)
      BY <2>2, <2>3, DigitsAre
    <2> QED
      BY <2>4 DEF DecTrue, d
  <1>2. ASSUME NEW v \in 0 .. 99 PROVE DecTrue(v)
    <2> DEFINE h == v \div 10
               l == v % 10
               d == print_dec(v)
    <2>1. /\ h \in Nat /\ l \in Nat /\ v = 10 * h + l /\ v \div 100 = 0 /\ (v % 100) \div 10 = h
          /\ ~(v >= 1000)
      OBVIOUS
    <2>2. d = (<<>> \o (IF h > 0 THEN <<h>> ELSE <<>>)) \o <<l>>
      BY <2>1 DEF print_dec
    <2> HIDE DEF h, l, d
    <2>3. /\ d \in Seq(Nat) /\ Len(d) = (IF h > 0 THEN 2 ELSE 1)
          /\ h > 0 => d[1] = h /\ d[2] = l
          /\ ~(h > 0) => d[1] = l /\ h = 0
      BY <2>1, <2>2
    <2>4. Horner(10, d) = v
      <3>1. CASE h > 0
        <4>1. Len(d) \in 1 .. 3 /\ Len(d) = 2 /\ d \in Seq(Nat)
          BY <2>3, <3>1
        <4>2. Horner(10, d) = 10 * d[1] + d[2]
          BY <4>1, FewDigits
        <4> QED
          BY <2>1, <2>3, <3>1, <4>2
      <3>2. CASE ~(h > 0)
        <4>1. Len(d) \in 1 .. 3 /\ Len(d) = 1 /\ d \in Seq(Nat)
          BY <2>3, <3>2
        <4>2. Horner(10, d) = d[1]
          BY <4>1, FewDigits
        <4> QED
          BY <2>1, <2>3, <3>2, <4>2
      <3> QED
        BY <3>1, <3>2
    <2>5. DigitsTrue(v, 10, d, 1)
      <3>1. Len(d) >= 1 /\ (Len(d) > 1 => d[1] # 0)
        BY <2>1, <2>3
      <3> QED
        BY <2>4, <3>1, DigitsAre
    <2> QED
      BY <2>5 DEF DecTrue, d
  <1> QED
    BY <1>1, <1>2
\* The nibble i of a number and what is above it.
Nibble(v, i) == (v \div 16 ^ i) % 16
Above(v, i)  == v \div 16 ^ i

\* The value above a nibble, and with it.
LEMMA Nibbles ==
    ASSUME NEW v \in Nat, v < 16 ^ 8
    PROVE  /\ Above(v, 8) = 0 /\ Above(v, 0) = v
           /\ \A i \in 0 .. 7 : /\ Nibble(v, i) \in Nat /\ Above(v, i) \in Nat
                               /\ Above(v, i) = 16 * Above(v, i + 1) + Nibble(v, i)
  <1>1. Above(v, 8) = 0 /\ Above(v, 0) = v
    BY SMT DEF Above
  <1>2. ASSUME NEW i \in 0 .. 7
        PROVE  /\ Nibble(v, i) \in Nat /\ Above(v, i) \in Nat
               /\ Above(v, i) = 16 * Above(v, i + 1) + Nibble(v, i)
    <2>1. CASE i = 0
      BY <2>1, SMT DEF Above, Nibble
    <2>2. CASE i = 1
      BY <2>2, SMT DEF Above, Nibble
    <2>3. CASE i = 2
      BY <2>3, SMT DEF Above, Nibble
    <2>4. CASE i = 3
      BY <2>4, SMT DEF Above, Nibble
    <2>5. CASE i = 4
      BY <2>5, SMT DEF Above, Nibble
    <2>6. CASE i = 5
      BY <2>6, SMT DEF Above, Nibble
    <2>7. CASE i = 6
      BY <2>7, SMT DEF Above, Nibble
    <2>8. CASE i = 7
      BY <2>8, SMT DEF Above, Nibble
    <2> QED
      BY <2>1, <2>2, <2>3, <2>4, <2>5, <2>6, <2>7, <2>8, SMT
  <1> QED
    BY <1>1, <1>2

\* The loop of print_hex, round by round.
HexStates == [limit : Int, out : Seq(Nat)]
HexRound(v, n, b) ==
    IF Nibble(v, 8 - n) = 0 /\ 8 - n >= b.limit THEN b
    ELSE [limit |-> 8 - n, out |-> Append(b.out, Nibble(v, 8 - n))]

\* The rounds of print_hex.
LEMMA HexLoop ==
    ASSUME NEW v \in Nat, v < 16 ^ 8, NEW digits \in 1 .. 8
    PROVE  \E f \in [0 .. 8 -> HexStates] :
               /\ f[0] = [limit |-> digits, out |-> <<>>]
               /\ \A n \in 1 .. 8 : f[n] = HexRound(v, n, f[n - 1])
               /\ print_hex(v, digits) = f[8].out
  <1> DEFINE a == [limit |-> digits, out |-> <<>>]
             rounds == [n \in 1 .. 8 |-> [b \in HexStates |-> HexRound(v, n, b)]]
             nibble(i) == (v \div 16 ^ i) % 16
             body(g) == [n \in 0 .. 8 |->
                 IF n = 0 THEN a
                 ELSE LET before == g[n - 1]
                          i      == 8 - n
                      IN  IF nibble(i) = 0 /\ i >= before.limit THEN before
                          ELSE [limit |-> i, out |-> Append(before.out, nibble(i))]]
             after == CHOOSE g : g = body(g)
  <1>1. a \in HexStates
    BY DEF HexStates
  <1>2. ASSUME NEW n \in 1 .. 8, NEW b \in HexStates PROVE HexRound(v, n, b) \in HexStates
    <2>1. 8 - n \in 0 .. 7
      OBVIOUS
    <2>2. Nibble(v, 8 - n) \in Nat
      BY <2>1, Nibbles
    <2>3. b.out \in Seq(Nat) /\ 8 - n \in Int
      BY DEF HexStates
    <2>4. Append(b.out, Nibble(v, 8 - n)) \in Seq(Nat)
      BY <2>2, <2>3
    <2> QED
      BY <2>3, <2>4 DEF HexRound, HexStates
  <1>3. rounds \in [1 .. 8 -> [HexStates -> HexStates]]
    BY <1>2
  <1>4. PICK f \in [0 .. 8 -> HexStates] : IsLoop(f, 8, a, rounds)
    <2>1. 8 \in Nat
      OBVIOUS
    <2> HIDE DEF a, rounds
    <2> QED
      BY <1>1, <1>3, <2>1, LoopExists
  <1>5. f[0] = a /\ \A n \in 1 .. 8 : f[n] = HexRound(v, n, f[n - 1])
    <2>1. \A n \in 1 .. 8 : n - 1 \in 0 .. 8
      OBVIOUS
    <2>2. \A n \in 1 .. 8 : f[n - 1] \in HexStates
      BY <2>1
    <2>3. \A n \in 1 .. 8 : \A b \in HexStates : rounds[n][b] = HexRound(v, n, b)
      OBVIOUS
    <2> HIDE DEF rounds
    <2> QED
      BY <1>4, <2>2, <2>3 DEF IsLoop
  <1>6. \A n : nibble(8 - n) = Nibble(v, 8 - n)
    BY DEF Nibble
  <1>7. \A g : body(g) = [n \in 0 .. 8 |-> IF n = 0 THEN a ELSE HexRound(v, n, g[n - 1])]
    BY Zenon DEF HexRound, Nibble
  <1> DEFINE whole(g) == [n \in 0 .. 8 |-> IF n = 0 THEN a ELSE HexRound(v, n, g[n - 1])]
  <1>8. f = whole(f)
    <2>1. \A n \in 0 .. 8 : n # 0 => n \in 1 .. 8
      OBVIOUS
    <2> HIDE DEF a
    <2>2. \A n \in 0 .. 8 : f[n] = whole(f)[n]
      BY <1>5, <2>1
    <2> QED
      BY <2>2
  <1>9. after = body(after)
    <2>1. f = body(f)
      <3> HIDE DEF body, whole
      <3>1. body(f) = whole(f)
        BY <1>7 DEF whole
      <3> QED
        BY <1>8, <3>1
    <2> QED
      BY <2>1
  <1>10. after = whole(after)
    <2> HIDE DEF body, after
    <2> QED
      BY <1>7, <1>9
  <1>11. \A h : h = whole(h) => h[0] = a /\ \A n \in 1 .. 8 : h[n] = HexRound(v, n, h[n - 1])
    OBVIOUS
  <1>12. after[0] = a /\ \A n \in 1 .. 8 : after[n] = HexRound(v, n, after[n - 1])
    <2> HIDE DEF whole, after
    <2> QED
      BY <1>10, <1>11
  <1>13. after[8] = f[8]
    <2> DEFINE Good == {n \in Nat : after[n] = f[n]}
    <2> HIDE DEF after, a
    <2>1. 0 \in Good
      BY <1>5, <1>12
    <2>2. ASSUME NEW n \in 0 .. 8 - 1, n \in Good PROVE n + 1 \in Good
      <3>1. PICK k \in 1 .. 8 : k = n + 1 /\ k - 1 = n
        OBVIOUS
      <3>2. after[k] = f[k]
        BY <1>5, <1>12, <2>2, <3>1
      <3> QED
        BY <3>1, <3>2
    <2>3. 0 .. 8 \subseteq Good
      <3>1. 8 \in Nat
        OBVIOUS
      <3> HIDE DEF Good
      <3> QED
        BY <2>1, <2>2, <3>1, UpTo
    <2> QED
      BY <2>3
  <1>14. print_hex(v, digits) = after[8].out
    BY Zenon DEF print_hex, after, body, nibble, a
  <1> HIDE DEF after
  <1> QED
    BY <1>5, <1>13, <1>14

\* print_hex, for every value of 32 bits: the digits printed stand for the value above
\* the nibble of the round, and skipped nibbles are leading zeros.
LEMMA HexsTrue == \A v \in Nat : v < 16 ^ 8 => \A n \in 1 .. 8 : HexTrue(v, n)
  <1> SUFFICES ASSUME NEW v \in Nat, v < 16 ^ 8, NEW d \in 1 .. 8 PROVE HexTrue(v, d)
    OBVIOUS
  <1>1. PICK f \in [0 .. 8 -> HexStates] :
            /\ f[0] = [limit |-> d, out |-> <<>>]
            /\ \A n \in 1 .. 8 : f[n] = HexRound(v, n, f[n - 1])
            /\ print_hex(v, d) = f[8].out
    BY HexLoop
  <1> DEFINE Skipping(n) == f[n].out = <<>> /\ f[n].limit = d /\ 8 - n >= d
             Printing(n) == /\ Len(f[n].out) >= n - 8 + d /\ f[n].limit = 8 - n
                            /\ Len(f[n].out) > n - 8 + d => f[n].out[1] # 0
                            /\ Len(f[n].out) >= 1
             Good == {n \in 0 .. 8 : /\ Horner(16, f[n].out) = Above(v, 8 - n)
                                     /\ Skipping(n) \/ Printing(n)}
  <1>2. 0 \in Good
    <2>1. Horner(16, <<>>) = 0 /\ Above(v, 8 - 0) = 0
      <3>1. 16 \in Nat /\ 0 \in Nat /\ <<>> \in Seq(Nat) /\ 8 - 0 = 8
        OBVIOUS
      <3> QED
        BY <3>1, HornerGrows, Nibbles
    <2> QED
      BY <1>1, <2>1
  <1>3. ASSUME NEW m \in 0 .. 8 - 1, m \in Good PROVE m + 1 \in Good
    <2>1. PICK n \in 1 .. 8 : n = m + 1 /\ n - 1 = m /\ m \in 0 .. 8
      OBVIOUS
    <2> DEFINE i == 8 - n
               b == f[m]
               x == Nibble(v, i)
    <2>2. f[n] = IF x = 0 /\ i >= b.limit THEN b ELSE [limit |-> i, out |-> Append(b.out, x)]
      BY <1>1, <2>1 DEF HexRound
    <2>3. /\ i \in 0 .. 7 /\ 8 - m = i + 1 /\ x \in Nat
          /\ Above(v, i) = 16 * Above(v, i + 1) + x /\ Above(v, i) \in Nat
      <3>1. i \in 0 .. 7 /\ 8 - m = i + 1
        BY <2>1
      <3> QED
        BY <3>1, Nibbles
    <2>4. b \in HexStates /\ b.out \in Seq(Nat)
      BY <2>1 DEF HexStates
    <2>5. Horner(16, b.out) = Above(v, i + 1) /\ (Skipping(m) \/ Printing(m))
      BY <1>3, <2>3
    <2>6. /\ Horner(16, Append(b.out, x)) = 16 * Above(v, i + 1) + x
          /\ Horner(16, b.out) \in Nat /\ Horner(16, <<>>) = 0
      <3>1. 16 \in Nat
        OBVIOUS
      <3> HIDE DEF b, x
      <3> QED
        BY <2>3, <2>4, <2>5, <3>1, HornerGrows
    <2> HIDE DEF x, b, i
    <2>7. CASE x = 0 /\ i >= b.limit
      <3>1. f[n] = b
        BY <2>2, <2>7
      <3>2. Skipping(m)
        BY <2>1, <2>3, <2>5, <2>7 DEF b
      <3>3. Above(v, i + 1) = 0
        BY <2>5, <2>6, <3>2 DEF b
      <3> QED
        BY <2>1, <2>3, <2>5, <2>7, <3>1, <3>2, <3>3 DEF b, i
    <2>8. CASE ~(x = 0 /\ i >= b.limit)
      <3>1. f[n] = [limit |-> i, out |-> Append(b.out, x)]
        BY <2>2, <2>8
      <3>2. /\ f[n].limit = i /\ Len(f[n].out) = Len(b.out) + 1
            /\ f[n].out[1] = (IF Len(b.out) = 0 THEN x ELSE b.out[1])
            /\ Len(b.out) \in Nat
        <4>1. f[n].limit = i /\ f[n].out = Append(b.out, x) BY <3>1
        <4>2. b.out \in Seq(Nat) /\ x \in Nat BY <2>3, <2>4
        <4>3. /\ Len(Append(b.out, x)) = Len(b.out) + 1 /\ Len(b.out) \in Nat
              /\ Append(b.out, x)[1] = (IF Len(b.out) = 0 THEN x ELSE b.out[1])
          BY <4>2
        <4> QED BY <4>1, <4>3
      <3>3. Horner(16, f[n].out) = Above(v, i)
        BY <2>3, <2>6, <3>1
      <3>4. Printing(n)
        <4>1. CASE Skipping(m)
          <5>1. Len(b.out) = 0 /\ b.limit = d /\ (i < d => i + 1 = d) /\ (i >= d => x # 0)
            BY <2>1, <2>3, <2>8, <4>1 DEF b
          <5>2. 8 - n = i /\ n - 8 + d = d - i /\ i \in Int
            BY <2>1, <2>3 DEF i
          <5>3. f[n].limit = 8 - n /\ Len(f[n].out) = 1
            BY <3>2, <5>1, <5>2
          <5>4. 1 >= d - i /\ (1 > d - i => i >= d)
            BY <5>1, <5>2
          <5>5. 1 > d - i => f[n].out[1] # 0
            BY <3>2, <5>1, <5>4
          <5> QED
            BY <5>2, <5>3, <5>4, <5>5
        <4>2. CASE Printing(m)
          <5>1. /\ Len(b.out) >= m - 8 + d /\ Len(b.out) >= 1
                /\ Len(b.out) > m - 8 + d => b.out[1] # 0
            BY <4>2 DEF b
          <5>2. f[n].out[1] = b.out[1]
            BY <3>2, <5>1
          <5>3. f[n].limit = 8 - n
            BY <3>2 DEF i
          <5>4. Len(f[n].out) >= n - 8 + d /\ Len(f[n].out) >= 1
            BY <2>1, <3>2, <5>1
          <5>5. Len(f[n].out) > n - 8 + d => Len(b.out) > m - 8 + d
            BY <2>1, <3>2, <5>1
          <5> QED
            BY <5>1, <5>2, <5>3, <5>4, <5>5
        <4> QED
          BY <2>5, <4>1, <4>2
      <3> QED
        BY <2>1, <3>3, <3>4 DEF i
    <2> QED
      BY <2>7, <2>8
  <1>4. 8 \in Good
    <2>1. 8 \in Nat /\ 8 \in 0 .. 8
      OBVIOUS
    <2> HIDE DEF Good
    <2> QED
      BY <1>2, <1>3, <2>1, UpTo
  <1>5. /\ Horner(16, f[8].out) = v
        /\ Len(f[8].out) >= d /\ (Len(f[8].out) > d => f[8].out[1] # 0)
    <2>1. Above(v, 8 - 8) = v
      <3>1. 8 - 8 = 0
        OBVIOUS
      <3> QED
        BY <3>1, Nibbles
    <2> QED
      BY <1>4, <2>1
  <1> QED
    BY <1>1, <1>5, DigitsAre DEF HexTrue
-----------------------------------------------------------------------------
(* A restart of the controller.                                            *)

LEMMA ModesAre == /\ {Spi, Dual, Quad, Qddr} \subseteq Modes /\ ~Spi.cont /\ ~Spi.ddr /\ ~Spi.qspi
                  /\ {Crm(Dual), Crm(Quad), Crm(Qddr)} \subseteq Modes
                  /\ \A mode \in Modes : Dummies(mode) \in 0 .. 15
                  /\ \A c \in CtrlOf(0 .. 15) : Between(c) \in Modes
  <1>1. \A ddr, qspi, cont \in BOOLEAN : Mode(ddr, qspi, cont) \in Modes
    BY DEF Mode, Modes
  <1>2. \A mode \in Modes : Crm(mode) \in Modes
    BY DEF Crm, Modes
  <1>5. \A mode : Dummies(mode) \in 0 .. 15
    BY DEF Dummies
  <1>3. {Spi, Dual, Quad, Qddr} \subseteq Modes
    BY <1>1 DEF Spi, Dual, Quad, Qddr
  <1>4. ~Spi.cont /\ ~Spi.ddr /\ ~Spi.qspi
    BY DEF Spi, Mode
  <1>6. ASSUME NEW c \in CtrlOf(0 .. 15) PROVE Between(c) \in Modes
    <2>1. c.ddr \in BOOLEAN /\ c.qspi \in BOOLEAN
      BY DEF CtrlOf
    <2>2. Lanes(c) \in Modes
      BY <1>1, <2>1 DEF Lanes
    <2> QED
      BY <1>3, <2>2 DEF Between
  <1> QED
    BY <1>2, <1>3, <1>4, <1>5, <1>6

\* A chip in another mode is still a chip, with the same registers.
LEMMA ChipIn ==
    ASSUME NEW f \in Chips, NEW m \in Modes
    PROVE  LET g == [f EXCEPT !.xip = m]
           IN  /\ g \in Chips /\ g.xip = m /\ g.bits = f.bits /\ g.latency = f.latency
               /\ g.found = f.found /\ g.ends = f.ends
  BY DEF Chips

LEMMA ForcedIs ==
    ASSUME NEW f \in Chips
    PROVE  LET g == AfterFF(f)
           IN  /\ g \in Chips /\ g.bits = f.bits /\ g.latency = f.latency /\ g.found = f.found
               /\ g.xip = Spi \/ (g.xip = Dual /\ ~g.ends)
               /\ f.xip = Spi => g.xip = Spi
  <1> DEFINE m == IF f.xip = Dual /\ ~f.ends THEN Dual ELSE Spi
  <1>1. m \in Modes /\ (m = Spi \/ (m = Dual /\ ~f.ends)) /\ (f.xip = Spi => m = Spi)
    BY ModesAre
  <1>2. AfterFF(f) = [f EXCEPT !.xip = m]
    BY DEF AfterFF
  <1> HIDE DEF m
  <1> QED
    BY <1>1, <1>2, ChipIn

LEMMA ClockedIs ==
    ASSUME NEW f \in Chips
    PROVE  LET g == Clocked(f)
           IN  /\ g \in Chips /\ g.xip = Spi /\ g.bits = f.bits /\ g.latency = f.latency
               /\ g.found = f.found
  BY ChipIn, ModesAre DEF Clocked

\* What a restart needs: in a mode on several lanes the number of dummy clocks that the
\* chip waits, and the quad bit.
Ready(hx, c, f) ==
    /\ c \in CtrlOf(0 .. 15) /\ f \in Chips /\ KeepsBits(f) /\ QUAD_BIT \in f.bits
    /\ c.ddr \/ c.qspi => c.latency = DummiesOn(hx, f, c)

\* Then it goes well, or the program is lost for one of the two reasons.
GoesWell(hx, c, f, b, y) ==
    /\ y \in FlashStates /\ Consistent(hx, y) /\ y.ctrl = c /\ y.buf = b
    /\ y.chip.bits = f.bits /\ y.chip.latency = f.latency
    /\ f.xip = Spi /\ (c.cont => c.ddr \/ c.qspi) => ~y.lost
LEMMA Restarts ==
    ASSUME NEW hx, NEW c, NEW f, NEW b \in Seq(Values), Ready(hx, c, f)
    PROVE  GoesWell(hx, c, f, b, Restarted(hx, c, f, b))
  <1> DEFINE g == AfterFF(f)
             h == [g EXCEPT !.xip = Between(c)]
             y == Restarted(hx, c, f, b)
  <1>1. /\ g \in Chips /\ g.bits = f.bits /\ g.latency = f.latency /\ g.found = f.found
        /\ g.xip = Spi \/ (g.xip = Dual /\ ~g.ends)
        /\ f.xip = Spi => g.xip = Spi
    BY ForcedIs DEF Ready
  <1>2. /\ h \in Chips /\ h.xip = Between(c) /\ h.bits = f.bits /\ h.latency = f.latency
        /\ h.found = f.found
    <2>1. Between(c) \in Modes
      BY ModesAre DEF Ready
    <2> HIDE DEF g
    <2> QED
      BY <1>1, <2>1, ChipIn
  <1>3. y = IF AnswersOn(hx, g, c) THEN [ctrl |-> c, chip |-> h, lost |-> FALSE, buf |-> b]
                                   ELSE [ctrl |-> c, chip |-> g, lost |-> TRUE, buf |-> b]
    BY DEF Restarted
  <1>4. AnswersOn(hx, g, c) <=> g.xip = Spi /\ (c.cont => c.ddr \/ c.qspi)
    <2> HIDE DEF g
    <2> QED
      BY <1>1 DEF AnswersOn, Ready, DummiesOn
  <1> HIDE DEF g, h, y
  <1>5. c \in CtrlOf(0 .. 15) /\ KeepsBits(f)
    BY DEF Ready
  <1>6. CASE AnswersOn(hx, g, c)
    <2>1. y = [ctrl |-> c, chip |-> h, lost |-> FALSE, buf |-> b]
      BY <1>3, <1>6
    <2>2. y \in FlashStates /\ y.ctrl = c /\ y.chip = h /\ ~y.lost /\ y.buf = b
      BY <1>2, <1>5, <2>1 DEF FlashStates
    <2>3. Agreed(hx, c, h)
      BY <1>2, <1>4, <1>6 DEF Agreed, Ready, DummiesOn
    <2>4. Consistent(hx, y)
      BY <1>2, <1>5, <2>2, <2>3 DEF Consistent, KeepsBits
    <2> QED
      BY <1>2, <2>2, <2>4 DEF GoesWell, y
  <1>7. CASE ~AnswersOn(hx, g, c)
    <2>1. y = [ctrl |-> c, chip |-> g, lost |-> TRUE, buf |-> b]
      BY <1>3, <1>7
    <2>2. y \in FlashStates /\ y.ctrl = c /\ y.chip = g /\ y.lost /\ y.buf = b
      BY <1>1, <1>5, <2>1 DEF FlashStates
    <2>3. (g.xip = Dual /\ ~g.ends) \/ (c.cont /\ ~c.ddr /\ ~c.qspi)
      BY <1>1, <1>4, <1>7
    <2>4. Consistent(hx, y)
      BY <1>1, <1>5, <2>2, <2>3 DEF Consistent, KeepsBits, Excused
    <2>5. ~(f.xip = Spi /\ (c.cont => c.ddr \/ c.qspi))
      BY <1>1, <1>4, <1>7
    <2> QED
      BY <1>1, <2>2, <2>4, <2>5 DEF GoesWell, y
  <1> QED
    BY <1>6, <1>7

-----------------------------------------------------------------------------
(* The operations and the commands.                                        *)

\* Between two commands, in a given mode, or with a given number of dummy cycles
\* in the chip, or while the controller waits for the chip to get it.
InMode(hx, mode) == {x \in AtRest(hx) : x.lost \/ ModeOf(x.ctrl) = mode}
Latent(v)        == {x \in AtRest(TRUE) : x.lost \/ x.chip.latency = v}
Changing(v)      == {x \in FlashStates : /\ Consistent(TRUE, x)
                                         /\ ~x.lost => /\ QUAD_BIT \in x.chip.bits /\ x.buf = <<>>
                                                       /\ x.ctrl = SpiCtrl(Spi, v)}

\* Nothing is read that is not printed.
LEMMA Rests ==
    \A hx : \A x \in FlashStates :
        x \in AtRest(hx) <=> /\ Consistent(hx, x)
                             /\ ~x.lost => /\ QUAD_BIT \in x.chip.bits /\ x.buf = <<>>
                                           /\ hx => x.ctrl.latency = x.chip.latency
  <1> SUFFICES ASSUME NEW hx, NEW x \in FlashStates PROVE ReadTrue(x, <<>>) <=> x.buf = <<>>
    BY DEF AtRest, Holding
  <1>1. x.buf \in Seq(Values)
    BY DEF FlashStates
  <1>2. Len(x.buf) = 0 <=> x.buf = <<>>
    BY <1>1
  <1>3. Len(<<>>) = 0 /\ 1 .. 0 = {}
    OBVIOUS
  <1> QED
    BY <1>2, <1>3 DEF ReadTrue

\* The conditions are states the flash agrees on.
LEMMA Conditions ==
    \A hx : /\ \A names : \A x \in Holding(hx, names) : Consistent(hx, x) /\ x \in FlashStates
            /\ \A x \in AtRest(hx) : Consistent(hx, x) /\ x \in FlashStates
            /\ \A mode : InMode(hx, mode) \subseteq AtRest(hx)
            /\ \A v : Latent(v) \subseteq AtRest(TRUE)
            /\ \A v : \A x \in Changing(v) : Consistent(TRUE, x)
  BY DEF AtRest, Holding, InMode, Latent, Changing

\* A weaker condition after.
LEMMA Weaker ==
    ASSUME NEW hx, NEW P, NEW Q, NEW s, NEW P1, NEW Q1,
           Triple(hx, P, s, Q), P1 \subseteq P, Q \subseteq Q1
    PROVE  Triple(hx, P1, s, Q1)
  BY DEF Triple

\* One operation, of a program that is not lost.
LEMMA SingleAlive ==
    ASSUME NEW hx, NEW P, NEW Q, NEW o,
           \A x \in P : Consistent(hx, x) /\ (x.lost => x \in Q),
           \A x \in P : ~x.lost => Fine(x, o) /\ Effect(hx, x, o) \in Q,
           \A x \in Q : Consistent(hx, x)
    PROVE  Triple(hx, P, <<o>>, Q)
  <1>1. ASSUME NEW x \in P PROVE Consistent(hx, x) /\ Fine(x, o) /\ Effect(hx, x, o) \in Q
    <2>1. CASE x.lost
      <3>1. Effect(hx, x, o) = x /\ Fine(x, o)
        BY <2>1 DEF Effect, Fine
      <3> QED
        BY <2>1, <3>1
    <2> QED
      BY <2>1
  <1> QED
    BY <1>1, Single

\* Operations that only print or light a LED.
IsQuiet(o) == \/ o.op \in {"leds", "show"}
              \/ o.op = "dec" /\ DecTrue(o.arg)
              \/ o.op = "hex" /\ HexTrue(o.arg[1], o.arg[2])
LEMMA QuietKeeps ==
    ASSUME NEW hx, NEW P \in SUBSET FlashStates, \A x \in P : Consistent(hx, x),
           NEW o \in FlashOps, IsQuiet(o)
    PROVE  Triple(hx, P, <<o>>, P)
  <1>1. ASSUME NEW x \in P, ~x.lost PROVE Fine(x, o) /\ Effect(hx, x, o) \in P
    <2>1. x \in FlashStates
      BY <1>1
    <2>2. x.ctrl.latency \in 0 .. 15
      BY <2>1 DEF FlashStates, CtrlOf
    <2>3. DecTrue(x.ctrl.latency)
      BY <2>2, DecsTrue
    <2>4. Effect(hx, x, o) = x
      BY <1>1 DEF Effect, IsQuiet
    <2> QED
      BY <1>1, <2>3, <2>4 DEF Fine, IsQuiet
  <1> QED
    BY <1>1, SingleAlive

LEMMA QuietOps ==
    /\ \A v \in Int : Leds(v) \in FlashOps /\ IsQuiet(Leds(v))
    /\ \A f \in Names : Show(f) \in FlashOps /\ IsQuiet(Show(f))
    /\ \A v \in Int : DecTrue(v) => Op("dec", v) \in FlashOps /\ IsQuiet(Op("dec", v))
    /\ \A v, n \in Int : HexTrue(v, n) => /\ Op("hex", <<v, n>>) \in FlashOps
                                          /\ IsQuiet(Op("hex", <<v, n>>))
  <1>1. /\ \A v \in Int : Leds(v) \in FlashOps /\ Leds(v).op = "leds"
        /\ \A f \in Names : Show(f) \in FlashOps /\ Show(f).op = "show"
        /\ \A v \in Int : Op("dec", v) \in FlashOps /\ Op("dec", v).op = "dec" /\ Op("dec", v).arg = v
    BY DEF Leds, Show, Op, FlashOps
  <1>2. \A v, n \in Int : /\ Op("hex", <<v, n>>) \in FlashOps /\ Op("hex", <<v, n>>).op = "hex"
                          /\ Op("hex", <<v, n>>).arg[1] = v /\ Op("hex", <<v, n>>).arg[2] = n
    BY DEF Op, FlashOps
  <1> QED
    BY <1>1, <1>2 DEF IsQuiet

LEMMA SafeQuiet ==
    \A hx : /\ \A v \in Int : <<Leds(v)>> \in Safe(hx)
            /\ \A f \in Names : <<Show(f)>> \in Safe(hx)
            /\ \A v \in 0 .. 99 \cup {128} : <<Op("dec", v)>> \in Safe(hx)
  <1> SUFFICES ASSUME NEW hx
               PROVE  /\ \A v \in Int : <<Leds(v)>> \in Safe(hx)
                      /\ \A f \in Names : <<Show(f)>> \in Safe(hx)
                      /\ \A v \in 0 .. 99 \cup {128} : <<Op("dec", v)>> \in Safe(hx)
    OBVIOUS
  <1>1. ASSUME NEW o \in FlashOps, IsQuiet(o) PROVE <<o>> \in Safe(hx)
    <2> DEFINE P == AtRest(hx)
    <2>1. P \in SUBSET FlashStates /\ \A x \in P : Consistent(hx, x)
      BY Conditions
    <2> HIDE DEF P
    <2>2. Triple(hx, P, <<o>>, P)
      BY <1>1, <2>1, QuietKeeps
    <2>3. <<o>> \in Seq(FlashOps)
      OBVIOUS
    <2> QED
      BY <2>2, <2>3 DEF Safe, P
  <1>2. \A v \in 0 .. 99 \cup {128} : DecTrue(v) /\ v \in Int
    BY DecsTrue
  <1> QED
    BY <1>1, <1>2, QuietOps

\* Registers that are read, and printed in that order.
LEMMA ReadOps ==
    \A r \in Names : /\ Read(r) \in FlashOps /\ Read(r).op = "read" /\ Read(r).arg = r
                     /\ Register(r) \in FlashOps /\ Register(r).op = "register" /\ Register(r).arg = r
  BY DEF Read, Register, Op, FlashOps

LEMMA AnswersAre ==
    \A f \in Chips : \A r \in Names : ContentsOf(f, r) \in Values /\ AnswerOf(f, r) \in Values
  BY DEF AnswerOf, Values

LEMMA SameContents ==
    ASSUME NEW f, NEW g, f.bits = g.bits, f.latency = g.latency
    PROVE  \A r : ContentsOf(f, r) = ContentsOf(g, r)
  BY DEF ContentsOf

\* A read: the mode stays, as the clocks of the worker end a continuous read.
LEMMA ReadKeeps ==
    ASSUME NEW hx, NEW names \in Seq(Names), NEW r \in Names
    PROVE  Triple(hx, Holding(hx, names), <<Read(r)>>, Holding(hx, Append(names, r)))
  <1> DEFINE o == Read(r)
             P == Holding(hx, names)
             Q == Holding(hx, Append(names, r))
  <1>1. o.op = "read" /\ o.arg = r
    BY ReadOps
  <1> HIDE DEF o
  <1>2. ASSUME NEW x \in P, ~x.lost PROVE Fine(x, o) /\ Effect(hx, x, o) \in Q
    <2> DEFINE b == Append(x.buf, AnswerOf(x.chip, r))
               f == Clocked(x.chip)
               y == Effect(hx, x, o)
    <2>1. /\ x \in FlashStates /\ Agreed(hx, x.ctrl, x.chip) /\ KeepsBits(x.chip)
          /\ QUAD_BIT \in x.chip.bits /\ ReadTrue(x, names)
          /\ hx => x.ctrl.latency = x.chip.latency
      BY <1>2 DEF Holding, Consistent
    <2>2. x.ctrl \in CtrlOf(0 .. 15) /\ x.chip \in Chips /\ x.buf \in Seq(Values)
      BY <2>1 DEF FlashStates
    <2>3. /\ f \in Chips /\ f.xip = Spi /\ f.bits = x.chip.bits /\ f.latency = x.chip.latency
          /\ f.found = x.chip.found
      BY <2>2, ClockedIs
    <2>4. AnswerOf(x.chip, r) \in Values
      BY <2>2, AnswersAre
    <2>5. y = Restarted(hx, x.ctrl, f, b)
      BY <1>1, <1>2 DEF Effect
    <2> HIDE DEF f
    <2>6. Ready(hx, x.ctrl, f)
      BY <2>1, <2>2, <2>3 DEF Ready, Agreed, DummiesOn, KeepsBits
    <2>7. b \in Seq(Values)
      BY <2>2, <2>4
    <2> HIDE DEF b, y
    <2>8. /\ y \in FlashStates /\ Consistent(hx, y) /\ y.ctrl = x.ctrl /\ y.buf = b
          /\ y.chip.bits = x.chip.bits /\ y.chip.latency = x.chip.latency
      BY <2>3, <2>5, <2>6, <2>7, Restarts DEF GoesWell
    <2>9. ~x.ctrl.cont => AnswerOf(x.chip, r) = ContentsOf(x.chip, r)
      BY <2>1 DEF Agreed, Between, AnswerOf
    <2>10. ReadTrue(y, Append(names, r))
      <3>1. Len(b) = Len(x.buf) + 1 /\ Len(x.buf) = Len(names) /\ Len(Append(names, r)) = Len(names) + 1
        BY <2>1, <2>2, <2>4 DEF b, ReadTrue
      <3>2. ASSUME ~x.ctrl.cont, NEW k \in 1 .. Len(names) + 1
            PROVE  b[k] = ContentsOf(y.chip, Append(names, r)[k])
        <4>1. \A n : ContentsOf(y.chip, n) = ContentsOf(x.chip, n)
          BY <2>8, SameContents
        <4>2. CASE k = Len(names) + 1
          <5>1. b[k] = AnswerOf(x.chip, r) /\ Append(names, r)[k] = r
            BY <2>2, <2>4, <3>1, <4>2 DEF b
          <5> QED
            BY <2>9, <3>2, <4>1, <5>1
        <4>3. CASE k # Len(names) + 1
          <5>1. k \in 1 .. Len(names)
            BY <4>3
          <5>2. b[k] = x.buf[k] /\ Append(names, r)[k] = names[k]
            BY <2>2, <2>4, <3>1, <5>1 DEF b
          <5> QED
            BY <2>1, <3>2, <4>1, <5>1, <5>2 DEF ReadTrue
        <4> QED
          BY <4>2, <4>3
      <3> QED
        BY <2>8, <3>1, <3>2 DEF ReadTrue
    <2>11. y \in Q
      BY <2>1, <2>8, <2>10 DEF Holding
    <2>12. Fine(x, o)
      BY <1>1 DEF Fine
    <2> QED
      BY <2>11, <2>12 DEF y
  <1>3. \A x \in P : Consistent(hx, x) /\ (x.lost => x \in Q)
    BY DEF Holding
  <1>4. \A x \in Q : Consistent(hx, x)
    BY Conditions
  <1> HIDE DEF P, Q
  <1>5. Triple(hx, P, <<o>>, Q)
    BY <1>2, <1>3, <1>4, SingleAlive
  <1> QED
    BY <1>5 DEF o, P, Q

\* The value that is printed was read first.
LEMMA RegisterKeeps ==
    ASSUME NEW hx, NEW names \in Seq(Names), names # <<>>
    PROVE  Triple(hx, Holding(hx, names), <<Register(Head(names))>>, Holding(hx, Tail(names)))
  <1> DEFINE r == Head(names)
             t == Tail(names)
             o == Register(r)
             P == Holding(hx, names)
             Q == Holding(hx, t)
  <1>1. /\ r \in Names /\ r = names[1] /\ Len(names) \in Nat \ {0} /\ Len(t) = Len(names) - 1
        /\ \A k \in 1 .. Len(names) - 1 : t[k] = names[k + 1]
    OBVIOUS
  <1>2. o.op = "register" /\ o.arg = r
    BY <1>1, ReadOps
  <1> HIDE DEF o, r, t
  <1>3. ASSUME NEW x \in P, ~x.lost PROVE Fine(x, o) /\ Effect(hx, x, o) \in Q
    <2> DEFINE y == Effect(hx, x, o)
    <2>1. x \in FlashStates /\ Consistent(hx, x) /\ ReadTrue(x, names)
          /\ QUAD_BIT \in x.chip.bits /\ (hx => x.ctrl.latency = x.chip.latency)
      BY <1>3 DEF Holding
    <2>2. x.ctrl \in CtrlOf(0 .. 15) /\ x.chip \in Chips /\ x.buf \in Seq(Values)
      BY <2>1 DEF FlashStates
    <2>3. y = [ctrl |-> x.ctrl, chip |-> x.chip, lost |-> FALSE, buf |-> Tail(x.buf)]
      BY <1>2, <1>3 DEF Effect
    <2>4. /\ x.buf # <<>> /\ Head(x.buf) = x.buf[1] /\ Tail(x.buf) \in Seq(Values)
          /\ Len(x.buf) = Len(names) /\ Len(Tail(x.buf)) = Len(names) - 1
          /\ \A k \in 1 .. Len(names) - 1 : Tail(x.buf)[k] = x.buf[k + 1]
      BY <1>1, <2>1, <2>2 DEF ReadTrue
    <2>5. y \in FlashStates /\ y.ctrl = x.ctrl /\ y.chip = x.chip /\ ~y.lost /\ y.buf = Tail(x.buf)
      BY <2>2, <2>3, <2>4 DEF FlashStates
    <2> HIDE DEF y
    <2>6. ReadTrue(y, t)
      <3>1. ASSUME ~x.ctrl.cont, NEW k \in 1 .. Len(t)
            PROVE  y.buf[k] = ContentsOf(y.chip, t[k])
        <4>1. k \in 1 .. Len(names) - 1 /\ k + 1 \in 1 .. Len(names)
          BY <1>1, <3>1
        <4>2. y.buf[k] = x.buf[k + 1] /\ t[k] = names[k + 1]
          BY <1>1, <2>4, <2>5, <4>1
        <4> QED
          BY <2>1, <2>5, <3>1, <4>1, <4>2 DEF ReadTrue
      <3> QED
        BY <1>1, <2>4, <2>5, <3>1 DEF ReadTrue
    <2>7. y \in Q
      BY <1>3, <2>1, <2>5, <2>6 DEF Holding, Consistent
    <2>8. RegisterTrue(x, r)
      <3>1. 1 \in 1 .. Len(names)
        BY <1>1
      <3> QED
        BY <1>1, <2>1, <2>4, <3>1 DEF RegisterTrue, ReadTrue
    <2>9. Fine(x, o)
      BY <1>2, <2>8 DEF Fine
    <2> QED
      BY <2>7, <2>9 DEF y
  <1>4. \A x \in P : Consistent(hx, x) /\ (x.lost => x \in Q)
    BY DEF Holding
  <1>5. \A x \in Q : Consistent(hx, x)
    BY Conditions
  <1> HIDE DEF P, Q
  <1>6. Triple(hx, P, <<o>>, Q)
    BY <1>3, <1>4, <1>5, SingleAlive
  <1> QED
    BY <1>6 DEF o, P, Q, r, t

\* Two and three operations, each from the condition the one before it leaves.
LEMMA InTurn ==
    ASSUME NEW hx, NEW P, NEW Q, NEW R, NEW S, NEW a \in FlashOps, NEW b \in FlashOps, NEW c \in FlashOps,
           Triple(hx, P, <<a>>, Q), Triple(hx, Q, <<b>>, R), Triple(hx, R, <<c>>, S)
    PROVE  Triple(hx, P, <<a, b>>, R) /\ Triple(hx, P, <<a, b, c>>, S)
  <1>1. /\ <<a>> \in Seq(FlashOps) /\ <<b>> \in Seq(FlashOps) /\ <<c>> \in Seq(FlashOps)
        /\ <<a, b>> \in Seq(FlashOps)
    OBVIOUS
  <1>2. <<a>> \o <<b>> = <<a, b>> /\ <<a, b>> \o <<c>> = <<a, b, c>>
    BY Tuples
  <1>3. Triple(hx, P, <<a, b>>, R)
    BY <1>1, <1>2, OneAfterOther
  <1>4. Triple(hx, P, <<a, b, c>>, S)
    BY <1>1, <1>2, <1>3, OneAfterOther
  <1> QED
    BY <1>3, <1>4

\* Registers read one by one, and printed at once or after a number.
LEMMA ReadSafe ==
    ASSUME NEW hx, NEW r \in Names
    PROVE  /\ <<Read(r), Register(r)>> \in Safe(hx)
           /\ \A v \in Nat : v < 16 ^ 8 => <<Read(r), Op("hex", <<v, 6>>), Register(r)>> \in Safe(hx)
  <1> DEFINE a == Read(r)
             c == Register(r)
             P == AtRest(hx)
             Q == Holding(hx, <<r>>)
  <1>1. a \in FlashOps /\ c \in FlashOps
    BY ReadOps
  <1>2. Triple(hx, P, <<a>>, Q)
    <2>1. <<>> \in Seq(Names) /\ Append(<<>>, r) = <<r>>
      OBVIOUS
    <2> QED
      BY <2>1, ReadKeeps DEF AtRest
  <1>3. Triple(hx, Q, <<c>>, P)
    <2>1. <<r>> \in Seq(Names) /\ <<r>> # <<>> /\ Head(<<r>>) = r /\ Tail(<<r>>) = <<>>
      OBVIOUS
    <2> QED
      BY <2>1, RegisterKeeps DEF AtRest
  <1>4. Q \in SUBSET FlashStates /\ \A x \in Q : Consistent(hx, x)
    BY Conditions
  <1> HIDE DEF a, c, P, Q
  <1>5. <<a, c>> \in Safe(hx)
    <2>1. Triple(hx, P, <<a, c>>, P)
      <3>1. <<a>> \in Seq(FlashOps) /\ <<c>> \in Seq(FlashOps) /\ <<a>> \o <<c>> = <<a, c>>
        BY <1>1, Pair
      <3> QED
        BY <1>2, <1>3, <3>1, OneAfterOther
    <2>2. <<a, c>> \in Seq(FlashOps)
      BY <1>1
    <2> QED
      BY <2>1, <2>2 DEF Safe, P
  <1>6. ASSUME NEW v \in Nat, v < 16 ^ 8 PROVE <<a, Op("hex", <<v, 6>>), c>> \in Safe(hx)
    <2> DEFINE b == Op("hex", <<v, 6>>)
    <2>1. b \in FlashOps /\ IsQuiet(b)
      <3>1. 6 \in 1 .. 8 /\ v \in Int /\ 6 \in Int
        OBVIOUS
      <3>2. HexTrue(v, 6)
        BY <1>6, <3>1, HexsTrue, Zenon
      <3> QED
        BY <3>1, <3>2, QuietOps, Zenon
    <2> HIDE DEF b
    <2>2. Triple(hx, Q, <<b>>, Q)
      BY <1>4, <2>1, QuietKeeps
    <2>3. Triple(hx, P, <<a, b, c>>, P)
      BY <1>1, <1>2, <1>3, <2>1, <2>2, InTurn
    <2>4. <<a, b, c>> \in Seq(FlashOps)
      BY <1>1, <2>1
    <2> QED
      BY <2>3, <2>4 DEF Safe, P, b
  <1> QED
    BY <1>5, <1>6 DEF a, c

\* Three registers read, and printed in the same order.
LEMMA ReadThreeSafe ==
    ASSUME NEW hx, NEW r \in Names, NEW s \in Names, NEW t \in Names
    PROVE  <<Read(r), Read(s), Read(t)>> \o <<Register(r), Register(s), Register(t)>> \in Safe(hx)
  <1> DEFINE H(names) == Holding(hx, names)
  <1>1. /\ <<r>> \in Seq(Names) /\ <<r, s>> \in Seq(Names) /\ <<r, s, t>> \in Seq(Names)
        /\ <<s, t>> \in Seq(Names) /\ <<t>> \in Seq(Names) /\ <<>> \in Seq(Names)
    OBVIOUS
  <1>2. /\ Append(<<>>, r) = <<r>> /\ Append(<<r>>, s) = <<r, s>> /\ Append(<<r, s>>, t) = <<r, s, t>>
    <2>1. \A a : Append(<<>>, a) = <<a>>
      OBVIOUS
    <2>2. \A a, b : Append(<<a>>, b) = <<a>> \o <<b>>
      OBVIOUS
    <2>3. Append(<<r, s>>, t) = <<r, s>> \o <<t>>
      OBVIOUS
    <2> QED
      BY <2>1, <2>2, <2>3, Tuples
  <1>3. /\ <<r, s, t>> # <<>> /\ Head(<<r, s, t>>) = r /\ Tail(<<r, s, t>>) = <<s, t>>
        /\ <<s, t>> # <<>> /\ Head(<<s, t>>) = s /\ Tail(<<s, t>>) = <<t>>
        /\ <<t>> # <<>> /\ Head(<<t>>) = t /\ Tail(<<t>>) = <<>>
    OBVIOUS
  <1>4. /\ Read(r) \in FlashOps /\ Read(s) \in FlashOps /\ Read(t) \in FlashOps
        /\ Register(r) \in FlashOps /\ Register(s) \in FlashOps /\ Register(t) \in FlashOps
    BY ReadOps
  <1> HIDE DEF H
  <1>5. /\ Triple(hx, H(<<>>), <<Read(r)>>, H(<<r>>))
        /\ Triple(hx, H(<<r>>), <<Read(s)>>, H(<<r, s>>))
        /\ Triple(hx, H(<<r, s>>), <<Read(t)>>, H(<<r, s, t>>))
    BY <1>1, <1>2, ReadKeeps DEF H
  <1>6. /\ Triple(hx, H(<<r, s, t>>), <<Register(r)>>, H(<<s, t>>))
        /\ Triple(hx, H(<<s, t>>), <<Register(s)>>, H(<<t>>))
        /\ Triple(hx, H(<<t>>), <<Register(t)>>, H(<<>>))
    BY <1>1, <1>3, RegisterKeeps DEF H
  <1> DEFINE reads == <<Read(r), Read(s), Read(t)>>
             prints == <<Register(r), Register(s), Register(t)>>
  <1>7. Triple(hx, H(<<>>), reads, H(<<r, s, t>>)) /\ Triple(hx, H(<<r, s, t>>), prints, H(<<>>))
    BY <1>4, <1>5, <1>6, InTurn
  <1>8. reads \in Seq(FlashOps) /\ prints \in Seq(FlashOps)
    BY <1>4
  <1> HIDE DEF reads, prints
  <1>9. Triple(hx, H(<<>>), reads \o prints, H(<<>>))
    BY <1>7, <1>8, OneAfterOther
  <1>10. reads \o prints \in Seq(FlashOps)
    BY <1>8
  <1> QED
    BY <1>9, <1>10 DEF Safe, AtRest, H, reads, prints

\* Stores, measurements and writes are operations of commands.
LEMMA StoreOps ==
    \A mode \in Modes : \A l \in -1 .. 15 :
        /\ Store(mode, l) \in FlashOps /\ Store(mode, l).op = "store"
        /\ Store(mode, l).arg = SpiCtrl(mode, l) /\ SpiCtrl(mode, l) \in CtrlOf(-1 .. 15)
        /\ Benchmark(SpiCtrl(mode, l)) \in FlashOps /\ Benchmark(SpiCtrl(mode, l)).op = "benchmark"
        /\ Benchmark(SpiCtrl(mode, l)).arg = {SpiCtrl(mode, l)}
  <1> SUFFICES ASSUME NEW mode \in Modes, NEW l \in -1 .. 15
               PROVE  /\ Store(mode, l) \in FlashOps /\ Store(mode, l).op = "store"
                      /\ Store(mode, l).arg = SpiCtrl(mode, l) /\ SpiCtrl(mode, l) \in CtrlOf(-1 .. 15)
                      /\ Benchmark(SpiCtrl(mode, l)) \in FlashOps /\ Benchmark(SpiCtrl(mode, l)).op = "benchmark"
                      /\ Benchmark(SpiCtrl(mode, l)).arg = {SpiCtrl(mode, l)}
    OBVIOUS
  <1>1. SpiCtrl(mode, l) \in CtrlOf(-1 .. 15)
    BY DEF SpiCtrl, CtrlOf, Modes
  <1> QED
    BY <1>1 DEF Store, Benchmark, Op, FlashOps

LEMMA WriteOps ==
    \A v \in 0 .. 15 : /\ Write("CR3V", v, 6) \in FlashOps /\ Write("CR3V", v, 6).op = "write"
                       /\ Write("CR3V", v, 6).arg.v = v
  BY DEF Write, Op, FlashOps

LEMMA ModeOfCtrl ==
    \A mode \in Modes : \A l : ModeOf(SpiCtrl(mode, l)) = mode /\ SpiCtrl(mode, l).latency = l
                               /\ SpiCtrl(mode, l).ddr = mode.ddr /\ SpiCtrl(mode, l).qspi = mode.qspi
                               /\ SpiCtrl(mode, l).cont = mode.cont
  BY DEF ModeOf, SpiCtrl, Mode, Modes

\* What a store of a mode does: a restart, with the latency given or kept.
LEMMA StoreEffect ==
    ASSUME NEW hx, NEW x \in FlashStates, ~x.lost, NEW mode \in Modes, NEW l \in -1 .. 15,
           NEW k \in 0 .. 15, k = IF l = KEEP THEN x.ctrl.latency ELSE l
    PROVE  /\ Effect(hx, x, Store(mode, l)) = Restarted(hx, SpiCtrl(mode, k), x.chip, x.buf)
           /\ SpiCtrl(mode, k) \in CtrlOf(0 .. 15)
           /\ Fine(x, Store(mode, l))
  <1> DEFINE o == Store(mode, l)
             c == SpiCtrl(mode, l)
  <1>1. o.op = "store" /\ o.arg = c
    BY StoreOps
  <1>2. c.latency = l /\ [c EXCEPT !.latency = k] = SpiCtrl(mode, k)
    BY DEF SpiCtrl
  <1> HIDE DEF o, c
  <1>3. CtrlAfter(x.ctrl, o) = [c EXCEPT !.latency = IF c.latency = KEEP THEN x.ctrl.latency ELSE c.latency]
    BY <1>1 DEF CtrlAfter
  <1>4. (IF c.latency = KEEP THEN x.ctrl.latency ELSE c.latency) = k
    BY <1>2
  <1>5. CtrlAfter(x.ctrl, o) = SpiCtrl(mode, k)
    BY <1>2, <1>3, <1>4
  <1>6. Effect(hx, x, o) = Restarted(hx, SpiCtrl(mode, k), x.chip, x.buf)
    BY <1>1, <1>5 DEF Effect
  <1>7. SpiCtrl(mode, k) \in CtrlOf(0 .. 15)
    BY DEF SpiCtrl, CtrlOf, Modes
  <1>8. Fine(x, o)
    BY <1>1 DEF Fine
  <1> QED
    BY <1>6, <1>7, <1>8 DEF o

\* A mode on several lanes that comes with the dummy clocks of the chip takes the flash to
\* it, or the program is lost.
IsStored(x, l, k)     == k = IF l = KEEP THEN x.ctrl.latency ELSE l
IsMatched(hx, x, m, k) == m.ddr \/ m.qspi => k = DummiesOn(hx, x.chip, m)
IsSet(hx, x, y, m, k) ==
    /\ y \in FlashStates /\ Consistent(hx, y) /\ y.ctrl = SpiCtrl(m, k) /\ y.buf = <<>>
    /\ QUAD_BIT \in y.chip.bits /\ y.chip.latency = x.chip.latency /\ ModeOf(y.ctrl) = m
LEMMA ModeSet ==
    ASSUME NEW hx, NEW x \in AtRest(hx), ~x.lost, NEW mode \in Modes, NEW l \in -1 .. 15,
           NEW k \in 0 .. 15, IsStored(x, l, k), IsMatched(hx, x, mode, k)
    PROVE  IsSet(hx, x, Effect(hx, x, Store(mode, l)), mode, k) /\ Fine(x, Store(mode, l))
  <1> DEFINE y == Effect(hx, x, Store(mode, l))
             c == SpiCtrl(mode, k)
  <1>1. /\ x \in FlashStates /\ KeepsBits(x.chip) /\ QUAD_BIT \in x.chip.bits /\ x.buf = <<>>
    BY Conditions, Rests DEF Consistent
  <1>2. x.chip \in Chips /\ x.buf \in Seq(Values)
    BY <1>1 DEF FlashStates
  <1>3. y = Restarted(hx, c, x.chip, x.buf) /\ c \in CtrlOf(0 .. 15) /\ Fine(x, Store(mode, l))
    BY <1>1, StoreEffect DEF IsStored
  <1>4. ModeOf(c) = mode /\ c.latency = k /\ c.ddr = mode.ddr /\ c.qspi = mode.qspi
    BY ModeOfCtrl
  <1> HIDE DEF y, c
  <1>5. Ready(hx, c, x.chip)
    BY <1>1, <1>2, <1>3, <1>4 DEF Ready, DummiesOn, IsMatched
  <1>6. /\ y \in FlashStates /\ Consistent(hx, y) /\ y.ctrl = c /\ y.buf = x.buf
        /\ y.chip.bits = x.chip.bits /\ y.chip.latency = x.chip.latency
    BY <1>2, <1>3, <1>5, Restarts DEF GoesWell
  <1> QED
    BY <1>1, <1>3, <1>4, <1>6 DEF y, c, IsSet

\* HX8KDEMO: a mode keeps the latency both agree on.
LEMMA ModeHx8k ==
    ASSUME NEW mode \in Modes
    PROVE  /\ Triple(TRUE, AtRest(TRUE), <<Store(mode, KEEP)>>, InMode(TRUE, mode))
           /\ \A v : Triple(TRUE, Latent(v), <<Store(mode, KEEP)>>, InMode(TRUE, mode) \cap Latent(v))
  <1> DEFINE o == Store(mode, KEEP)
  <1>1. ASSUME NEW x \in AtRest(TRUE), ~x.lost
        PROVE  /\ Fine(x, o) /\ Effect(TRUE, x, o) \in InMode(TRUE, mode)
               /\ \A v : x.chip.latency = v => Effect(TRUE, x, o) \in Latent(v)
    <2> DEFINE y == Effect(TRUE, x, o)
    <2>1. PICK k \in 0 .. 15 : k = x.ctrl.latency /\ k = x.chip.latency
      <3>1. x \in FlashStates /\ x.ctrl.latency = x.chip.latency
        BY <1>1, Conditions, Rests
      <3>2. x.ctrl.latency \in 0 .. 15
        BY <3>1 DEF FlashStates, CtrlOf
      <3> QED
        BY <3>1, <3>2
    <2>2. KEEP \in -1 .. 15 /\ IsStored(x, KEEP, k)
      BY <2>1 DEF KEEP, IsStored
    <2>3. IsMatched(TRUE, x, mode, k)
      BY <2>1 DEF DummiesOn, IsMatched
    <2>4. IsSet(TRUE, x, y, mode, k) /\ Fine(x, o)
      BY <1>1, <2>2, <2>3, ModeSet, Zenon
    <2> HIDE DEF y, o
    <2>5. y.ctrl.latency = y.chip.latency
      BY <2>1, <2>4, ModeOfCtrl DEF IsSet
    <2>6. y \in AtRest(TRUE)
      BY <2>4, <2>5, Rests DEF IsSet
    <2> QED
      BY <2>4, <2>6 DEF InMode, Latent, IsSet, y
  <1> HIDE DEF o
  <1>2. Triple(TRUE, AtRest(TRUE), <<o>>, InMode(TRUE, mode))
    <2>1. \A x \in AtRest(TRUE) : Consistent(TRUE, x) /\ (x.lost => x \in InMode(TRUE, mode))
      BY Conditions DEF InMode
    <2>2. \A x \in InMode(TRUE, mode) : Consistent(TRUE, x)
      BY Conditions
    <2> QED
      BY <1>1, <2>1, <2>2, SingleAlive
  <1>3. ASSUME NEW v PROVE Triple(TRUE, Latent(v), <<o>>, InMode(TRUE, mode) \cap Latent(v))
    <2> DEFINE P == Latent(v)
               Q == InMode(TRUE, mode) \cap Latent(v)
    <2>1. \A x \in P : x \in AtRest(TRUE) /\ Consistent(TRUE, x) /\ (x.lost => x \in Q)
      BY Conditions DEF InMode, Latent
    <2>2. \A x \in P : ~x.lost => x.chip.latency = v
      BY DEF Latent
    <2>3. \A x \in Q : Consistent(TRUE, x)
      BY Conditions
    <2>4. \A x \in P : ~x.lost => Fine(x, o) /\ Effect(TRUE, x, o) \in Q
      BY <1>1, <2>1, <2>2
    <2> HIDE DEF P, Q
    <2>5. Triple(TRUE, P, <<o>>, Q)
      BY <2>1, <2>3, <2>4, SingleAlive
    <2> QED
      BY <2>5 DEF P, Q
  <1> QED
    BY <1>2, <1>3 DEF o

\* HX8KDEMO: the controller gets the latency first, in a mode that does not use it, and the
\* chip next, if the program is still read.
LEMMA LatencyHx8k ==
    ASSUME NEW v \in 0 .. 15
    PROVE  Triple(TRUE, AtRest(TRUE), <<Store(Spi, v), Write("CR3V", v, 6)>>, Latent(v))
  <1> DEFINE s == Store(Spi, v)
             w == Write("CR3V", v, 6)
  <1>1. ASSUME NEW x \in AtRest(TRUE), ~x.lost
        PROVE  Fine(x, s) /\ Effect(TRUE, x, s) \in Changing(v)
    <2> DEFINE y == Effect(TRUE, x, s)
    <2>1. Spi \in Modes /\ v \in -1 .. 15 /\ IsStored(x, v, v) /\ IsMatched(TRUE, x, Spi, v)
      <3>1. v \in -1 .. 15 /\ IsStored(x, v, v)
        BY DEF KEEP, IsStored
      <3>2. Spi \in Modes /\ IsMatched(TRUE, x, Spi, v)
        BY ModesAre DEF IsMatched
      <3> QED
        BY <3>1, <3>2
    <2>2. IsSet(TRUE, x, y, Spi, v) /\ Fine(x, s)
      BY <1>1, <2>1, ModeSet, Zenon
    <2> QED
      BY <2>2 DEF Changing, IsSet
  <1>2. ASSUME NEW x \in Changing(v), ~x.lost
        PROVE  Fine(x, w) /\ Effect(TRUE, x, w) \in Latent(v)
    <2> DEFINE c == x.ctrl
               g == Took(x.chip, v)
               f == Clocked(g)
               y == Effect(TRUE, x, w)
    <2>1. /\ x \in FlashStates /\ Agreed(TRUE, c, x.chip) /\ KeepsBits(x.chip)
          /\ QUAD_BIT \in x.chip.bits /\ c = SpiCtrl(Spi, v)
      BY <1>2 DEF Changing, Consistent
    <2>2. x.chip \in Chips /\ c \in CtrlOf(0 .. 15)
      BY <2>1 DEF FlashStates
    <2>3. ~c.ddr /\ ~c.qspi /\ ~c.cont /\ c.latency = v
      BY <2>1, ModeOfCtrl, ModesAre
    <2>4. x.chip.xip = Spi
      BY <2>1, <2>3 DEF Agreed, Between
    <2>5. /\ g \in Chips /\ g.bits = x.chip.bits /\ g.latency = v /\ g.found = x.chip.found
      BY <2>2, <2>4 DEF Took, Chips
    <2> HIDE DEF g
    <2>6. /\ f \in Chips /\ f.xip = Spi /\ f.bits = x.chip.bits /\ f.latency = v
          /\ f.found = x.chip.found
      BY <2>5, ClockedIs
    <2>7. w.op = "write" /\ w.arg.v = v
      BY WriteOps
    <2> HIDE DEF f, w
    <2>8. y = Restarted(TRUE, c, f, <<>>)
      BY <1>2, <2>7 DEF Effect, f, g
    <2> HIDE DEF y, c
    <2>9. Ready(TRUE, c, f)
      BY <2>1, <2>2, <2>3, <2>6 DEF Ready, KeepsBits
    <2>13. <<>> \in Seq(Values)
      OBVIOUS
    <2>14. GoesWell(TRUE, c, f, <<>>, y)
      BY <2>8, <2>9, <2>13, Restarts, Zenon
    <2>10. /\ y \in FlashStates /\ Consistent(TRUE, y) /\ y.ctrl = c /\ y.buf = <<>>
           /\ y.chip.bits = f.bits /\ y.chip.latency = f.latency
      BY <2>14 DEF GoesWell
    <2>11. y \in AtRest(TRUE)
      BY <2>1, <2>3, <2>6, <2>10, Rests
    <2>12. Fine(x, w)
      BY <2>7 DEF Fine
    <2> QED
      BY <2>6, <2>10, <2>11, <2>12 DEF Latent, y
  <1>3. s \in FlashOps /\ w \in FlashOps
    <2>1. Spi \in Modes BY ModesAre
    <2>2. v \in -1 .. 15 /\ v \in 0 .. 15 OBVIOUS
    <2>3. s \in FlashOps BY <2>1, <2>2, StoreOps, Zenon
    <2>4. w \in FlashOps BY <2>2, WriteOps, Zenon
    <2> QED BY <2>3, <2>4
  <1> HIDE DEF s, w
  <1>4. Triple(TRUE, AtRest(TRUE), <<s>>, Changing(v))
    <2>1. \A x \in AtRest(TRUE) : Consistent(TRUE, x) /\ (x.lost => x \in Changing(v))
      BY Conditions DEF Changing
    <2>2. \A x \in Changing(v) : Consistent(TRUE, x)
      BY Conditions
    <2> QED
      BY <1>1, <2>1, <2>2, SingleAlive
  <1>5. Triple(TRUE, Changing(v), <<w>>, Latent(v))
    <2>1. \A x \in Changing(v) : Consistent(TRUE, x) /\ (x.lost => x \in Latent(v))
      <3>1. \A x \in Changing(v) : x \in FlashStates /\ Consistent(TRUE, x)
        BY DEF Changing
      <3>2. \A x \in Changing(v) : x.lost => x \in AtRest(TRUE)
        BY <3>1, Rests
      <3> QED
        BY <3>1, <3>2 DEF Latent
    <2>2. \A x \in Latent(v) : Consistent(TRUE, x)
      BY Conditions
    <2> QED
      BY <1>2, <2>1, <2>2, SingleAlive
  <1>6. <<s>> \in Seq(FlashOps) /\ <<w>> \in Seq(FlashOps)
    BY <1>3
  <1>7. <<s>> \o <<w>> = <<s, w>>
    BY <1>3, Pair
  <1>8. Triple(TRUE, AtRest(TRUE), <<s>> \o <<w>>, Latent(v))
    BY <1>4, <1>5, <1>6, OneAfterOther
  <1> QED
    BY <1>7, <1>8 DEF s, w

\* ICEBREAKER: a mode comes with the dummy cycles of its command.
LEMMA ModeIcebreaker ==
    ASSUME NEW mode \in Modes
    PROVE  Triple(FALSE, AtRest(FALSE), <<Store(mode, Dummies(mode))>>, InMode(FALSE, mode))
  <1> DEFINE d == Dummies(mode)
             o == Store(mode, d)
  <1>1. ASSUME NEW x \in AtRest(FALSE), ~x.lost
        PROVE  Fine(x, o) /\ Effect(FALSE, x, o) \in InMode(FALSE, mode)
    <2> DEFINE y == Effect(FALSE, x, o)
    <2>1. d \in -1 .. 15 /\ d \in 0 .. 15 /\ IsStored(x, d, d)
      BY ModesAre DEF KEEP, IsStored
    <2>2. IsMatched(FALSE, x, mode, d)
      BY DEF IsMatched, DummiesOn, Dummies
    <2> HIDE DEF d
    <2>3. IsSet(FALSE, x, y, mode, d) /\ Fine(x, o)
      BY <1>1, <2>1, <2>2, ModeSet, Zenon
    <2> HIDE DEF y
    <2>4. y \in AtRest(FALSE)
      BY <2>3, Rests DEF IsSet
    <2> QED
      BY <2>3, <2>4 DEF InMode, IsSet, y
  <1> HIDE DEF d, o
  <1>2. \A x \in AtRest(FALSE) : Consistent(FALSE, x) /\ (x.lost => x \in InMode(FALSE, mode))
    BY Conditions DEF InMode
  <1>3. \A x \in InMode(FALSE, mode) : Consistent(FALSE, x)
    BY Conditions
  <1>4. Triple(FALSE, AtRest(FALSE), <<o>>, InMode(FALSE, mode))
    BY <1>1, <1>2, <1>3, SingleAlive
  <1> QED
    BY <1>4 DEF o, d

\* A benchmark of the mode, and of the latency, that are set.
LEMMA BenchmarkKeeps ==
    ASSUME NEW hx, NEW mode \in Modes, NEW l \in -1 .. 15, NEW P \in SUBSET InMode(hx, mode),
           \A x \in P : ~x.lost /\ l # KEEP => l = x.ctrl.latency /\ l = x.chip.latency
    PROVE  Triple(hx, P, <<Benchmark(SpiCtrl(mode, l))>>, P)
  <1> DEFINE o == Benchmark(SpiCtrl(mode, l))
  <1>1. o.op = "benchmark" /\ o.arg = {SpiCtrl(mode, l)}
    BY StoreOps
  <1> HIDE DEF o
  <1>2. \A x \in P : Consistent(hx, x)
    BY Conditions
  <1>3. ASSUME NEW x \in P, ~x.lost PROVE Fine(x, o) /\ Effect(hx, x, o) \in P
    <2>1. ModeOf(x.ctrl) = mode
      BY <1>3 DEF InMode
    <2>2. Effect(hx, x, o) = x
      BY <1>1, <1>3 DEF Effect
    <2>3. ModeOf(SpiCtrl(mode, l)) = mode /\ SpiCtrl(mode, l).latency = l
      BY ModeOfCtrl
    <2>4. LabelTrue(<<"benchmark", o.arg, x.ctrl, x.chip.latency>>)
      BY <1>1, <1>3, <2>1, <2>3 DEF LabelTrue
    <2> QED
      BY <1>1, <1>3, <2>2, <2>4 DEF Fine
  <1> QED
    BY <1>2, <1>3, SingleAlive DEF o

\* Operations that are safe one by one are safe together.
LEMMA SafeTuples ==
    ASSUME NEW hx, NEW a, NEW b, NEW c, NEW d,
           <<a>> \in Safe(hx), <<b>> \in Safe(hx), <<c>> \in Safe(hx), <<d>> \in Safe(hx)
    PROVE  <<a, b>> \in Safe(hx) /\ <<a, b, c>> \in Safe(hx) /\ <<a, b, c, d>> \in Safe(hx)
  <1>1. /\ <<a>> \o <<b>> = <<a, b>>
        /\ <<a, b>> \o <<c>> = <<a, b, c>>
        /\ <<a, b, c>> \o <<d>> = <<a, b, c, d>>
    BY Tuples
  <1>7. <<a>> \o <<b>> \in Safe(hx)
    BY SafeTogether
  <1>2. <<a, b>> \in Safe(hx)
    BY <1>1, <1>7
  <1>3. <<a, b>> \o <<c>> \in Safe(hx)
    BY <1>2, SafeTogether
  <1>4. <<a, b, c>> \in Safe(hx)
    BY <1>1, <1>3
  <1>5. <<a, b, c>> \o <<d>> \in Safe(hx)
    BY <1>4, SafeTogether
  <1>6. <<a, b, c, d>> \in Safe(hx)
    BY <1>1, <1>5
  <1> QED
    BY <1>2, <1>4, <1>6

\* HX8KDEMO: one latency of one mode.
LEMMA MeasureOne ==
    ASSUME NEW mode \in Modes, NEW i \in 0 .. 15
    PROVE  /\ <<Store(Spi, i), Write("CR3V", i, 6)>> \in Safe(TRUE)
           /\ <<Store(Spi, i), Write("CR3V", i, 6)>>
                \o <<Store(mode, KEEP), Benchmark(SpiCtrl(mode, i))>> \in Safe(TRUE)
  <1> DEFINE s == Store(Spi, i)
             w == Write("CR3V", i, 6)
             m == Store(mode, KEEP)
             b == Benchmark(SpiCtrl(mode, i))
             P == InMode(TRUE, mode) \cap Latent(i)
  <1>1. s \in FlashOps /\ w \in FlashOps /\ m \in FlashOps /\ b \in FlashOps
    <2>1. KEEP \in -1 .. 15 /\ i \in -1 .. 15
      BY DEF KEEP
    <2> QED
      BY <2>1, StoreOps, WriteOps, ModesAre
  <1>2. Triple(TRUE, AtRest(TRUE), <<s, w>>, Latent(i))
    BY LatencyHx8k
  <1>3. Triple(TRUE, Latent(i), <<m>>, P)
    BY ModeHx8k
  <1>4. Triple(TRUE, P, <<b>>, P)
    <2>1. \A x \in P : ~x.lost => i = x.ctrl.latency /\ i = x.chip.latency
      <3>1. \A x \in P : ~x.lost => x.chip.latency = i /\ x.ctrl.latency = x.chip.latency
        BY Conditions, Rests DEF Latent
      <3> QED
        BY <3>1
    <2>2. P \in SUBSET InMode(TRUE, mode)
      OBVIOUS
    <2>3. i \in -1 .. 15
      OBVIOUS
    <2> HIDE DEF P
    <2> QED
      BY <2>1, <2>2, <2>3, BenchmarkKeeps
  <1>5. P \subseteq AtRest(TRUE) /\ Latent(i) \subseteq AtRest(TRUE)
    BY Conditions
  <1> HIDE DEF P, s, w, m, b
  <1>6. <<m>> \in Seq(FlashOps) /\ <<b>> \in Seq(FlashOps) /\ <<s, w>> \in Seq(FlashOps)
        /\ <<m, b>> \in Seq(FlashOps)
    BY <1>1
  <1>7. <<m>> \o <<b>> = <<m, b>>
    BY <1>1, Pair
  <1>8. Triple(TRUE, Latent(i), <<m, b>>, P)
    BY <1>3, <1>4, <1>6, <1>7, OneAfterOther
  <1>9. Triple(TRUE, AtRest(TRUE), <<s, w>> \o <<m, b>>, P)
    BY <1>2, <1>6, <1>8, OneAfterOther
  <1>10. Triple(TRUE, AtRest(TRUE), <<s, w>> \o <<m, b>>, AtRest(TRUE))
    BY <1>5, <1>9, Weaker
  <1>11. Triple(TRUE, AtRest(TRUE), <<s, w>>, AtRest(TRUE))
    BY <1>2, <1>5, Weaker
  <1>12. <<s, w>> \in Safe(TRUE)
    BY <1>6, <1>11 DEF Safe
  <1>13. <<s, w>> \o <<m, b>> \in Safe(TRUE)
    <2>1. <<s, w>> \o <<m, b>> \in Seq(FlashOps)
      BY <1>6
    <2> QED
      BY <2>1, <1>10 DEF Safe
  <1> QED
    BY <1>12, <1>13 DEF s, w, m, b

\* All latencies of a mode, one after the other.
LEMMA MeasureSafe == \A mode \in Modes : Measure(mode) \in Safe(TRUE)
  <1> SUFFICES ASSUME NEW mode \in Modes PROVE Measure(mode) \in Safe(TRUE)
    OBVIOUS
  <1> DEFINE block(k) == set_flash_latency(LATENCIES - k + 1)
                         \o <<Store(mode, KEEP), Benchmark(SpiCtrl(mode, LATENCIES - k + 1))>>
             seqs == [k \in 1 .. LATENCIES |-> block(k)]
  <1>1. LATENCIES \in Nat \ {0} /\ LATENCIES <= 15
    BY LatencyAssumption
  <1>2. ASSUME NEW k \in 1 .. LATENCIES PROVE block(k) \in Safe(TRUE)
    <2>1. PICK i \in 0 .. 15 : i = LATENCIES - k + 1
      BY <1>1
    <2>2. set_flash_latency(i) \o <<Store(mode, KEEP), Benchmark(SpiCtrl(mode, i))>> \in Safe(TRUE)
      BY MeasureOne DEF set_flash_latency
    <2> QED
      BY <2>1, <2>2
  <1>3. Measure(mode) = FlattenSeq(seqs)
    BY DEF Measure
  <1> HIDE DEF block
  <1>4. seqs \in [1 .. LATENCIES -> Safe(TRUE)]
    BY <1>2
  <1> HIDE DEF seqs
  <1>5. FlattenSeq(seqs) \in Safe(TRUE)
    BY <1>1, <1>4, SafeTogether, FlattenIn
  <1> QED
    BY <1>3, <1>5

\* Continuous read on or off: a restart in the same mode, that is read on at rest if the
\* program is not lost.
SetsCont(x, o, b) == \/ o.op = "toggle" /\ b = ~x.ctrl.cont
                     \/ o.op = "crm" /\ b = TRUE
LEMMA ContinuousIs ==
    ASSUME NEW hx, NEW x \in AtRest(hx), ~x.lost, NEW b \in BOOLEAN, NEW o, SetsCont(x, o, b)
    PROVE  LET y == Effect(hx, x, o)
           IN  y \in AtRest(hx) /\ Fine(x, o) /\ ModeOf(y.ctrl) = Mode(x.ctrl.ddr, x.ctrl.qspi, b)
  <1> DEFINE c == [x.ctrl EXCEPT !.cont = b]
             y == Effect(hx, x, o)
  <1>1. /\ x \in FlashStates /\ Agreed(hx, x.ctrl, x.chip) /\ KeepsBits(x.chip)
        /\ QUAD_BIT \in x.chip.bits /\ x.buf = <<>> /\ (hx => x.ctrl.latency = x.chip.latency)
    BY Conditions, Rests DEF Consistent
  <1>2. x.ctrl \in CtrlOf(0 .. 15) /\ x.chip \in Chips /\ x.buf \in Seq(Values)
    BY <1>1 DEF FlashStates
  <1>3. /\ c \in CtrlOf(0 .. 15) /\ c.ddr = x.ctrl.ddr /\ c.qspi = x.ctrl.qspi /\ c.cont = b
        /\ c.latency = x.ctrl.latency
    BY <1>2 DEF CtrlOf
  <1>4. CtrlAfter(x.ctrl, o) = c /\ o.op \in {"toggle", "crm"}
    BY DEF CtrlAfter, SetsCont
  <1>5. y = Restarted(hx, c, x.chip, x.buf)
    BY <1>4 DEF Effect
  <1> HIDE DEF c
  <1>6. Ready(hx, c, x.chip)
    BY <1>1, <1>2, <1>3 DEF Ready, Agreed, DummiesOn
  <1> HIDE DEF y
  <1>7. GoesWell(hx, c, x.chip, x.buf, y)
    BY <1>2, <1>5, <1>6, Restarts, Zenon
  <1>8. y \in AtRest(hx)
    BY <1>1, <1>3, <1>7, Rests DEF GoesWell
  <1>9. ModeOf(y.ctrl) = Mode(x.ctrl.ddr, x.ctrl.qspi, b)
    BY <1>3, <1>7 DEF GoesWell, ModeOf
  <1>10. Fine(x, o)
    BY <1>4 DEF Fine
  <1> QED
    BY <1>8, <1>9, <1>10 DEF y

\* A benchmark that prints no label, a change of the continuous read mode.
LEMMA OthersSafe ==
    \A hx \in BOOLEAN : <<Verbose>> \in Safe(hx) /\ <<Toggle>> \in Safe(hx)
  <1> SUFFICES ASSUME NEW hx \in BOOLEAN PROVE <<Verbose>> \in Safe(hx) /\ <<Toggle>> \in Safe(hx)
    OBVIOUS
  <1>1. Verbose \in FlashOps /\ Verbose.op = "benchmark" /\ Verbose.arg = {}
        /\ Toggle \in FlashOps /\ Toggle.op = "toggle"
    BY DEF Verbose, Toggle, Op, FlashOps
  <1>2. ASSUME NEW x \in AtRest(hx), ~x.lost
        PROVE  Fine(x, Verbose) /\ Effect(hx, x, Verbose) \in AtRest(hx)
    <2>1. Effect(hx, x, Verbose) = x
      BY <1>1, <1>2 DEF Effect
    <2>2. LabelTrue(<<"benchmark", {}, x.ctrl, x.chip.latency>>)
      BY DEF LabelTrue
    <2> QED
      BY <1>1, <2>1, <2>2 DEF Fine
  <1>3. ASSUME NEW x \in AtRest(hx), ~x.lost
        PROVE  Fine(x, Toggle) /\ Effect(hx, x, Toggle) \in AtRest(hx)
    <2>1. (~x.ctrl.cont) \in BOOLEAN
      OBVIOUS
    <2>2. Toggle.op = "toggle"
      BY <1>1
    <2>3. SetsCont(x, Toggle, ~x.ctrl.cont)
      BY <2>2, Zenon DEF SetsCont
    <2> QED
      BY <1>3, <2>1, <2>3, ContinuousIs, Zenon
  <1>4. \A x \in AtRest(hx) : Consistent(hx, x)
    BY Conditions
  <1>5. Triple(hx, AtRest(hx), <<Verbose>>, AtRest(hx)) /\ Triple(hx, AtRest(hx), <<Toggle>>, AtRest(hx))
    BY <1>2, <1>3, <1>4, SingleAlive
  <1>6. <<Verbose>> \in Seq(FlashOps) /\ <<Toggle>> \in Seq(FlashOps)
    BY <1>1
  <1> QED
    BY <1>5, <1>6 DEF Safe

\* HX8KDEMO's benchmark of all modes.
LEMMA BenchmarkHx8kSafe == BenchmarkAllHx8k \in Safe(TRUE)
  <1> DEFINE s == Store(Spi, KEEP)
             b == Benchmark(SpiCtrl(Spi, KEEP))
  <1>1. KEEP \in -1 .. 15 /\ Spi \in Modes
    BY ModesAre DEF KEEP
  <1>2. s \in FlashOps /\ b \in FlashOps
    BY <1>1, StoreOps
  <1>3. Triple(TRUE, AtRest(TRUE), <<s>>, InMode(TRUE, Spi))
    BY <1>1, ModeHx8k
  <1>4. Triple(TRUE, InMode(TRUE, Spi), <<b>>, InMode(TRUE, Spi))
    <2> DEFINE P == InMode(TRUE, Spi)
    <2>1. P \in SUBSET InMode(TRUE, Spi) /\ \A x \in P : ~x.lost /\ KEEP # KEEP => KEEP = x.ctrl.latency /\ KEEP = x.chip.latency
      OBVIOUS
    <2> HIDE DEF P
    <2>2. Triple(TRUE, P, <<b>>, P)
      BY <1>1, <2>1, BenchmarkKeeps
    <2> QED
      BY <2>2 DEF P
  <1> HIDE DEF s, b
  <1>5. <<s>> \in Seq(FlashOps) /\ <<b>> \in Seq(FlashOps) /\ <<s, b>> \in Seq(FlashOps)
    BY <1>2
  <1>6. <<s>> \o <<b>> = <<s, b>>
    BY <1>2, Pair
  <1>7. Triple(TRUE, AtRest(TRUE), <<s, b>>, InMode(TRUE, Spi))
    BY <1>3, <1>4, <1>5, <1>6, OneAfterOther
  <1>8. Triple(TRUE, AtRest(TRUE), <<s, b>>, AtRest(TRUE))
    BY <1>7, Conditions, Weaker
  <1>9. <<s, b>> \in Safe(TRUE)
    BY <1>5, <1>8 DEF Safe
  <1>10. /\ Measure(Dual) \in Safe(TRUE) /\ Measure(Crm(Dual)) \in Safe(TRUE)
         /\ Measure(Quad) \in Safe(TRUE) /\ Measure(Crm(Quad)) \in Safe(TRUE)
         /\ Measure(Qddr) \in Safe(TRUE) /\ Measure(Crm(Qddr)) \in Safe(TRUE)
    BY ModesAre, MeasureSafe
  <1>11. <<s, b>> \o Measure(Dual) \o Measure(Crm(Dual)) \o Measure(Quad) \o Measure(Crm(Quad))
             \o Measure(Qddr) \o Measure(Crm(Qddr)) \in Safe(TRUE)
    <2>1. <<s, b>> \o Measure(Dual) \in Safe(TRUE)
      BY <1>9, <1>10, SafeTogether
    <2>2. <<s, b>> \o Measure(Dual) \o Measure(Crm(Dual)) \in Safe(TRUE)
      BY <1>10, <2>1, SafeTogether
    <2>3. <<s, b>> \o Measure(Dual) \o Measure(Crm(Dual)) \o Measure(Quad) \in Safe(TRUE)
      BY <1>10, <2>2, SafeTogether
    <2>4. <<s, b>> \o Measure(Dual) \o Measure(Crm(Dual)) \o Measure(Quad) \o Measure(Crm(Quad)) \in Safe(TRUE)
      BY <1>10, <2>3, SafeTogether
    <2>5. <<s, b>> \o Measure(Dual) \o Measure(Crm(Dual)) \o Measure(Quad) \o Measure(Crm(Quad))
              \o Measure(Qddr) \in Safe(TRUE)
      BY <1>10, <2>4, SafeTogether
    <2> QED
      BY <1>10, <2>5, SafeTogether
  <1> QED
    BY <1>11 DEF BenchmarkAllHx8k, s, b

\* ICEBREAKER: operations that need a mode, after those that come before.
LEMMA IcebreakerBlock ==
    ASSUME NEW s \in Safe(FALSE), NEW mode \in Modes, NEW t \in Seq(FlashOps), NEW Q,
           Q \subseteq AtRest(FALSE), Triple(FALSE, InMode(FALSE, mode), t, Q)
    PROVE  s \o <<Store(mode, Dummies(mode))>> \o t \in Safe(FALSE)
  <1> DEFINE m == <<Store(mode, Dummies(mode))>>
  <1>1. s \in Seq(FlashOps) /\ Triple(FALSE, AtRest(FALSE), s, AtRest(FALSE))
    BY DEF Safe
  <1>2. m \in Seq(FlashOps)
    <2>1. Dummies(mode) \in -1 .. 15
      BY ModesAre
    <2>2. Store(mode, Dummies(mode)) \in FlashOps
      BY <2>1, StoreOps
    <2> QED
      BY <2>2
  <1>3. Triple(FALSE, AtRest(FALSE), m, InMode(FALSE, mode))
    BY ModeIcebreaker
  <1> HIDE DEF m
  <1>4. s \o m \in Seq(FlashOps) /\ s \o m \o t \in Seq(FlashOps)
    BY <1>1, <1>2
  <1>5. Triple(FALSE, AtRest(FALSE), s \o m, InMode(FALSE, mode))
    BY <1>1, <1>2, <1>3, OneAfterOther
  <1>6. Triple(FALSE, AtRest(FALSE), s \o m \o t, Q)
    BY <1>4, <1>5, OneAfterOther
  <1>7. Triple(FALSE, AtRest(FALSE), s \o m \o t, AtRest(FALSE))
    BY <1>6, Weaker
  <1> QED
    BY <1>4, <1>7 DEF Safe, m

\* A measurement on ICEBREAKER.
LEMMA IcebreakerMeasure ==
    ASSUME NEW hx, NEW mode \in Modes
    PROVE  /\ Benchmark(SpiCtrl(mode, KEEP)) \in FlashOps
           /\ <<Benchmark(SpiCtrl(mode, KEEP))>> \in Seq(FlashOps)
           /\ Triple(hx, InMode(hx, mode), <<Benchmark(SpiCtrl(mode, KEEP))>>, InMode(hx, mode))
  <1> DEFINE P == InMode(hx, mode)
  <1>1. KEEP \in -1 .. 15
    BY DEF KEEP
  <1>2. P \in SUBSET InMode(hx, mode) /\ \A x \in P : ~x.lost /\ KEEP # KEEP => KEEP = x.ctrl.latency /\ KEEP = x.chip.latency
    OBVIOUS
  <1>3. Benchmark(SpiCtrl(mode, KEEP)) \in FlashOps
    BY <1>1, StoreOps
  <1> HIDE DEF P
  <1>4. Triple(hx, P, <<Benchmark(SpiCtrl(mode, KEEP))>>, P)
    BY <1>1, <1>2, BenchmarkKeeps
  <1>5. <<Benchmark(SpiCtrl(mode, KEEP))>> \in Seq(FlashOps)
    BY <1>3
  <1> QED
    BY <1>3, <1>4, <1>5 DEF P

\* Continuous read on top of a mode: the same dummy cycles.
LEMMA CrmKeeps ==
    ASSUME NEW mode \in Modes, Crm(mode) \in Modes
    PROVE  /\ enable_flash_crm \in FlashOps
           /\ Triple(FALSE, InMode(FALSE, mode), <<enable_flash_crm>>, InMode(FALSE, Crm(mode)))
  <1> DEFINE o == enable_flash_crm
  <1>1. o \in FlashOps /\ o.op = "crm"
    BY DEF enable_flash_crm, Op, FlashOps
  <1> HIDE DEF o
  <1>2. ASSUME NEW x \in InMode(FALSE, mode), ~x.lost
        PROVE  Fine(x, o) /\ Effect(FALSE, x, o) \in InMode(FALSE, Crm(mode))
    <2> DEFINE y == Effect(FALSE, x, o)
    <2>1. x \in AtRest(FALSE) /\ mode = Mode(x.ctrl.ddr, x.ctrl.qspi, x.ctrl.cont)
      BY <1>2 DEF InMode, ModeOf
    <2>2. Crm(mode) = Mode(x.ctrl.ddr, x.ctrl.qspi, TRUE)
      <3>1. Crm(mode) = [ddr |-> mode.ddr, qspi |-> mode.qspi, cont |-> TRUE]
        <4>1. Crm(mode) = [ddr |-> Crm(mode).ddr, qspi |-> Crm(mode).qspi, cont |-> Crm(mode).cont]
          BY DEF Modes
        <4>2. Crm(mode).ddr = mode.ddr /\ Crm(mode).qspi = mode.qspi /\ Crm(mode).cont = TRUE
          BY DEF Crm, Modes
        <4> QED
          BY <4>1, <4>2
      <3>2. mode.ddr = x.ctrl.ddr /\ mode.qspi = x.ctrl.qspi
        BY <2>1 DEF Mode
      <3> QED
        BY <3>1, <3>2 DEF Mode
    <2>3. y \in AtRest(FALSE) /\ Fine(x, o) /\ ModeOf(y.ctrl) = Mode(x.ctrl.ddr, x.ctrl.qspi, TRUE)
      <3>1. TRUE \in BOOLEAN /\ SetsCont(x, o, TRUE)
        BY <1>1 DEF SetsCont
      <3> QED
        BY <1>2, <2>1, <3>1, ContinuousIs, Zenon
    <2> QED
      BY <2>2, <2>3 DEF InMode
  <1>3. \A x \in InMode(FALSE, mode) : Consistent(FALSE, x) /\ (x.lost => x \in InMode(FALSE, Crm(mode)))
    BY Conditions DEF InMode
  <1>4. \A x \in InMode(FALSE, Crm(mode)) : Consistent(FALSE, x)
    BY Conditions
  <1>5. Triple(FALSE, InMode(FALSE, mode), <<o>>, InMode(FALSE, Crm(mode)))
    BY <1>2, <1>3, <1>4, SingleAlive
  <1> QED
    BY <1>1, <1>5 DEF o

LEMMA IcebreakerCrmMeasure ==
    ASSUME NEW mode \in Modes, Crm(mode) \in Modes
    PROVE  LET t == <<Benchmark(SpiCtrl(mode, KEEP)), enable_flash_crm,
                      Benchmark(SpiCtrl(Crm(mode), KEEP))>>
           IN  t \in Seq(FlashOps) /\ Triple(FALSE, InMode(FALSE, mode), t, InMode(FALSE, Crm(mode)))
  <1> DEFINE a == Benchmark(SpiCtrl(mode, KEEP))
             b == enable_flash_crm
             c == Benchmark(SpiCtrl(Crm(mode), KEEP))
             P == InMode(FALSE, mode)
             Q == InMode(FALSE, Crm(mode))
  <1>1. /\ a \in FlashOps /\ Triple(FALSE, P, <<a>>, P)
        /\ c \in FlashOps /\ Triple(FALSE, Q, <<c>>, Q)
    BY IcebreakerMeasure
  <1>2. b \in FlashOps /\ Triple(FALSE, P, <<b>>, Q)
    BY CrmKeeps
  <1> HIDE DEF a, b, c, P, Q
  <1>3. /\ <<a>> \in Seq(FlashOps) /\ <<b>> \in Seq(FlashOps) /\ <<c>> \in Seq(FlashOps)
        /\ <<a, b>> \in Seq(FlashOps) /\ <<a, b, c>> \in Seq(FlashOps)
    BY <1>1, <1>2
  <1>4. <<a>> \o <<b>> = <<a, b>> /\ <<a, b>> \o <<c>> = <<a, b, c>>
    BY Tuples
  <1>5. Triple(FALSE, P, <<a, b>>, Q)
    BY <1>1, <1>2, <1>3, <1>4, OneAfterOther
  <1>6. Triple(FALSE, P, <<a, b, c>>, Q)
    BY <1>1, <1>3, <1>4, <1>5, OneAfterOther
  <1> QED
    BY <1>3, <1>6 DEF a, b, c, P, Q

LEMMA IcebreakerMode == ASSUME NEW mode \in Modes PROVE <<Store(mode, Dummies(mode))>> \in Safe(FALSE)
  <1>1. Triple(FALSE, AtRest(FALSE), <<Store(mode, Dummies(mode))>>, InMode(FALSE, mode))
    BY ModeIcebreaker
  <1>2. Triple(FALSE, AtRest(FALSE), <<Store(mode, Dummies(mode))>>, AtRest(FALSE))
    BY <1>1, Conditions, Weaker
  <1>3. Dummies(mode) \in -1 .. 15
    BY ModesAre
  <1>4. Store(mode, Dummies(mode)) \in FlashOps
    BY <1>3, StoreOps
  <1>5. <<Store(mode, Dummies(mode))>> \in Seq(FlashOps)
    BY <1>4
  <1> QED
    BY <1>2, <1>5 DEF Safe

LEMMA Hx8kMode == ASSUME NEW mode \in Modes PROVE <<Store(mode, KEEP)>> \in Safe(TRUE)
  <1>1. Triple(TRUE, AtRest(TRUE), <<Store(mode, KEEP)>>, InMode(TRUE, mode))
    BY ModeHx8k
  <1>2. Triple(TRUE, AtRest(TRUE), <<Store(mode, KEEP)>>, AtRest(TRUE))
    BY <1>1, Conditions, Weaker
  <1>3. KEEP \in -1 .. 15
    BY DEF KEEP
  <1>4. Store(mode, KEEP) \in FlashOps
    BY <1>3, StoreOps
  <1>5. <<Store(mode, KEEP)>> \in Seq(FlashOps)
    BY <1>4
  <1> QED
    BY <1>2, <1>5 DEF Safe

\* The whole benchmark of ICEBREAKER.
LEMMA BenchmarkIcebreakerSafe == ~Hx8k => BenchmarkAllIcebreaker \in Safe(FALSE)
  <1> SUFFICES ASSUME ~Hx8k PROVE BenchmarkAllIcebreaker \in Safe(FALSE)
    OBVIOUS
  <1> DEFINE m(mode) == <<Store(mode, Dummies(mode))>>
             b(mode) == <<Benchmark(SpiCtrl(mode, KEEP))>>
             t(mode) == <<Benchmark(SpiCtrl(mode, KEEP)), enable_flash_crm,
                          Benchmark(SpiCtrl(Crm(mode), KEEP))>>
             s1 == m(Spi) \o b(Spi)
             s2 == s1 \o m(Dual) \o b(Dual)
             s3 == s2 \o m(Quad) \o t(Quad)
             s4 == s3 \o m(Qddr) \o t(Qddr)
  <1>1. \A mode : set_flash_mode(mode) = m(mode)
    BY DEF set_flash_mode
  <1>2. BenchmarkAllIcebreaker = s4
    BY <1>1 DEF BenchmarkAllIcebreaker
  <1>3. /\ Spi \in Modes /\ Dual \in Modes /\ Quad \in Modes /\ Qddr \in Modes
        /\ Crm(Quad) \in Modes /\ Crm(Qddr) \in Modes
    BY ModesAre
  <1>4. \A mode \in {Spi, Dual} : /\ b(mode) \in Seq(FlashOps)
                                  /\ Triple(FALSE, InMode(FALSE, mode), b(mode), InMode(FALSE, mode))
    <2> SUFFICES ASSUME NEW mode \in Modes
                 PROVE  /\ b(mode) \in Seq(FlashOps)
                        /\ Triple(FALSE, InMode(FALSE, mode), b(mode), InMode(FALSE, mode))
      BY <1>3
    <2> QED
      BY IcebreakerMeasure
  <1>5. \A mode \in {Quad, Qddr} : /\ t(mode) \in Seq(FlashOps)
                                   /\ Triple(FALSE, InMode(FALSE, mode), t(mode), InMode(FALSE, Crm(mode)))
    <2> SUFFICES ASSUME NEW mode \in Modes, Crm(mode) \in Modes
                 PROVE  /\ t(mode) \in Seq(FlashOps)
                        /\ Triple(FALSE, InMode(FALSE, mode), t(mode), InMode(FALSE, Crm(mode)))
      BY <1>3
    <2> QED
      BY IcebreakerCrmMeasure
  <1>6. \A mode : InMode(FALSE, mode) \subseteq AtRest(FALSE)
    BY Conditions
  <1>7. s1 \in Safe(FALSE)
    <2>1. Triple(FALSE, AtRest(FALSE), m(Spi), InMode(FALSE, Spi)) /\ m(Spi) \in Safe(FALSE)
      BY <1>3, ModeIcebreaker, IcebreakerMode
    <2>2. m(Spi) \in Seq(FlashOps) /\ b(Spi) \in Seq(FlashOps)
      BY <1>4, <2>1 DEF Safe
    <2>3. Triple(FALSE, InMode(FALSE, Spi), b(Spi), InMode(FALSE, Spi))
      BY <1>4
    <2> HIDE DEF m, b
    <2>4. Triple(FALSE, AtRest(FALSE), s1, InMode(FALSE, Spi))
      BY <2>1, <2>2, <2>3, OneAfterOther
    <2>5. Triple(FALSE, AtRest(FALSE), s1, AtRest(FALSE))
      BY <1>6, <2>4, Weaker
    <2>6. s1 \in Seq(FlashOps)
      BY <2>2
    <2> QED
      BY <2>5, <2>6 DEF Safe
  <1>8. s2 \in Safe(FALSE)
    <2> HIDE DEF s1, b
    <2> QED
      BY <1>3, <1>4, <1>6, <1>7, IcebreakerBlock
  <1>9. s3 \in Safe(FALSE)
    <2> HIDE DEF s2, t
    <2> QED
      BY <1>3, <1>5, <1>6, <1>8, IcebreakerBlock
  <1>10. s4 \in Safe(FALSE)
    <2> HIDE DEF s3, t
    <2> QED
      BY <1>3, <1>5, <1>6, <1>9, IcebreakerBlock
  <1> QED
    BY <1>2, <1>10

LEMMA Sixfold ==
    ASSUME NEW a, NEW b, NEW c, NEW d, NEW e, NEW f
    PROVE  <<a, b, c, d, e, f>> = <<a, b, c>> \o <<d, e, f>>
  <1> DEFINE S == {a, b, c, d, e, f}
             t == <<a, b, c>> \o <<d, e, f>>
  <1>1. a \in S /\ b \in S /\ c \in S /\ d \in S /\ e \in S /\ f \in S
    OBVIOUS
  <1> HIDE DEF S
  <1>2. /\ t \in Seq(S) /\ Len(t) = 6
        /\ t[1] = a /\ t[2] = b /\ t[3] = c /\ t[4] = d /\ t[5] = e /\ t[6] = f
    BY <1>1
  <1> HIDE DEF t
  <1>3. t = [i \in 1 .. 6 |-> t[i]]
    BY <1>2
  <1>4. <<a, b, c, d, e, f>> = [i \in 1 .. 6 |-> t[i]]
    BY <1>2
  <1>5. <<a, b, c, d, e, f>> = t
    BY <1>3, <1>4
  <1> QED
    BY <1>5 DEF t

\* Printing the state.
LEMMA StateSafe == \A hx : cmd_print_spi_state \in Safe(hx)
  <1> SUFFICES ASSUME NEW hx PROVE cmd_print_spi_state \in Safe(hx)
    OBVIOUS
  <1>1. "latency" \in Names /\ "ddr" \in Names /\ "qspi" \in Names /\ "cont" \in Names
    BY DEF Names
  <1>2. /\ <<Show("latency")>> \in Safe(hx) /\ <<Show("ddr")>> \in Safe(hx)
        /\ <<Show("qspi")>> \in Safe(hx) /\ <<Show("cont")>> \in Safe(hx)
    BY <1>1, SafeQuiet
  <1>3. <<Show("latency"), Show("ddr"), Show("qspi"), Show("cont")>> \in Safe(hx)
    BY <1>2, SafeTuples
  <1> QED
    BY <1>3 DEF cmd_print_spi_state

\* Every command is safe on its board.
LEMMA CommandSafe == \A c \in Commands : Command(c) \in Safe(Hx8k)
  <1> SUFFICES ASSUME NEW c \in Commands PROVE Command(c) \in Safe(Hx8k)
    OBVIOUS
  <1>1. CASE c = "1"
    <2>3. "ID" \in Names
      BY DEF Names
    <2>2. <<Read("ID"), Register("ID")>> \in Safe(Hx8k)
      BY <2>3, ReadSafe
    <2> QED
      BY <1>1, <2>2 DEF Command, cmd_read_flash_id
  <1>2. CASE c = "2" /\ Hx8k
    <2>1. ASSUME NEW k \in 1 .. 6 PROVE cmd_read_flash_regs_print(k) \in Safe(TRUE)
      <3>1. set_flash_latency(8) \in Safe(TRUE)
        <4>1. 8 \in 0 .. 15 /\ Spi \in Modes
          BY ModesAre
        <4> QED
          BY <4>1, MeasureOne DEF set_flash_latency
      <3>2. PICK r \in Names : r = FlashRegisters[k]
        <4>1. k = 1 \/ k = 2 \/ k = 3 \/ k = 4 \/ k = 5 \/ k = 6
          OBVIOUS
        <4>2. FlashRegisters[k] \in Names
          BY <4>1 DEF FlashRegisters, Names
        <4> QED
          BY <4>2
      <3>3. PICK v \in Nat : v = 8388607 + k /\ v < 16 ^ 8
        BY SMT
      <3>4. v \in Nat /\ v < 16 ^ 8 /\ 6 \in 1 .. 8
        BY <3>3
      <3>6. <<Read(r), Op("hex", <<v, 6>>), Register(r)>> \in Safe(TRUE)
        BY <3>4, ReadSafe, Zenon
      <3>7. set_flash_latency(8) \o <<Read(r), Op("hex", <<v, 6>>), Register(r)>> \in Safe(TRUE)
        BY <3>1, <3>6, SafeTogether
      <3>8. cmd_read_flash_regs_print(k)
                = set_flash_latency(8) \o <<Read(r), Op("hex", <<v, 6>>), Register(r)>>
        BY <3>2, <3>3, SMT DEF cmd_read_flash_regs_print
      <3> QED
        BY <3>7, <3>8, Zenon
    <2> DEFINE seqs == [k \in 1 .. 6 |-> cmd_read_flash_regs_print(k)]
    <2>2. seqs \in [1 .. 6 -> Safe(TRUE)]
      BY <2>1, Zenon
    <2> HIDE DEF seqs
    <2>3. FlattenSeq(seqs) \in Safe(TRUE)
      <3>1. 6 \in Nat \ {0}
        OBVIOUS
      <3> QED
        BY <2>2, <3>1, SafeTogether, FlattenIn
    <2>4. cmd_read_flash_regs = FlattenSeq(seqs)
      BY <1>2 DEF cmd_read_flash_regs, seqs
    <2>5. Hx8k = TRUE
      BY <1>2 DEF Hx8k
    <2> QED
      BY <1>2, <2>3, <2>4, <2>5 DEF Command
  <1>3. CASE c = "2" /\ ~Hx8k
    <2>1. "SR1" \in Names /\ "SR2" \in Names /\ "SR3" \in Names
      BY DEF Names
    <2>5. <<Read("SR1"), Read("SR2"), Read("SR3")>>
              \o <<Register("SR1"), Register("SR2"), Register("SR3")>> \in Safe(FALSE)
      BY <2>1, ReadThreeSafe, Zenon
    <2>6. cmd_read_flash_regs = <<Read("SR1"), Read("SR2"), Read("SR3")>>
                                \o <<Register("SR1"), Register("SR2"), Register("SR3")>>
      <3>1. cmd_read_flash_regs = <<Read("SR1"), Read("SR2"), Read("SR3"),
                                    Register("SR1"), Register("SR2"), Register("SR3")>>
        BY <1>3 DEF cmd_read_flash_regs, cmd_read_flash_reg, print_reg_bit
      <3> QED
        BY <3>1, Sixfold
    <2>7. Hx8k = FALSE
      BY <1>3 DEF Hx8k
    <2>8. Command(c) = cmd_read_flash_regs
      BY <1>3 DEF Command
    <2> QED
      BY <2>5, <2>6, <2>7, <2>8
  <1>4. CASE c \in {"3", "4", "5", "6"}
    <2>1. PICK mode \in Modes : Command(c) = set_flash_mode(mode)
      BY <1>4, ModesAre DEF Command
    <2>2. CASE Hx8k
      <3>1. set_flash_mode(mode) = <<Store(mode, KEEP)>> /\ Hx8k = TRUE
        BY <2>2 DEF set_flash_mode, Hx8k
      <3> QED
        BY <2>1, <3>1, Hx8kMode
    <2>3. CASE ~Hx8k
      <3>1. set_flash_mode(mode) = <<Store(mode, Dummies(mode))>> /\ Hx8k = FALSE
        BY <2>3 DEF set_flash_mode, Hx8k
      <3> QED
        BY <2>1, <3>1, IcebreakerMode
    <2> QED
      BY <2>2, <2>3
  <1>5. CASE c \in {"7", "9"}
    <2>1. Hx8k \in BOOLEAN
      BY DEF Hx8k
    <2> QED
      BY <1>5, <2>1, OthersSafe DEF Command
  <1>6. CASE c = "0"
    <2>1. Command(c) = cmd_benchmark_all
      BY <1>6 DEF Command
    <2>2. CASE Hx8k
      <3>1. cmd_benchmark_all = BenchmarkAllHx8k /\ Hx8k = TRUE
        BY <2>2 DEF cmd_benchmark_all, Hx8k
      <3> QED
        BY <2>1, <3>1, BenchmarkHx8kSafe
    <2>3. CASE ~Hx8k
      <3>1. cmd_benchmark_all = BenchmarkAllIcebreaker /\ Hx8k = FALSE
        BY <2>3 DEF cmd_benchmark_all, Hx8k
      <3> QED
        BY <2>1, <2>3, <3>1, BenchmarkIcebreakerSafe
    <2> QED
      BY <2>2, <2>3
  <1>7. CASE c = "S"
    <2>1. Command(c) = cmd_print_spi_state
      BY <1>7 DEF Command
    <2> QED
      BY <2>1, StateSafe
  <1> QED
    BY <1>1, <1>2, <1>3, <1>4, <1>5, <1>6, <1>7 DEF Commands

\* The text before the first menu.
LEMMA BannerSafe == Banner \in Safe(Hx8k)
  <1>1. MEM_KIB \in 0 .. 99 \cup {128}
    BY DEF MEM_KIB
  <1>2. <<Op("dec", MEM_KIB)>> \in Safe(Hx8k)
    BY <1>1, SafeQuiet
  <1>3. cmd_print_spi_state \in Safe(Hx8k)
    BY StateSafe
  <1>4. <<Op("dec", MEM_KIB)>> \o cmd_print_spi_state \in Safe(Hx8k)
    BY <1>2, <1>3, SafeTogether
  <1> QED
    BY <1>4 DEF Banner


-----------------------------------------------------------------------------
(* The invariant of the flash: at boot the quad bit is not set yet, and    *)
(* what is left of the boot sequence is known; later the operations left   *)
(* take controller, chip and buffer to a state of rest, or the program is  *)
(* lost.                                                                   *)

Now == [ctrl |-> spictrl, chip |-> chip, lost |-> pc = "lost", buf |-> buffer]

BootOp(n) ==
    CASE n = 1 -> Leds(31)
      [] n = 2 -> Leds(63)
      [] n = 3 -> Read(IF Hx8k THEN "CR1V" ELSE "SR2")
      [] n = 4 -> IF Hx8k THEN Write("CR1V", KEEP, 6) ELSE Write("SR2", KEEP, 80)
      [] n = 5 -> Leds(127)

BootChips == [bits : SUBSET Int, latency : {8}, found : SUBSET Int, xip : {Spi}, ends : BOOLEAN]
BootingAt(n) ==
    /\ pc # "lost" /\ spictrl = SpiCtrl(Spi, 8)
    /\ chip \in BootChips /\ chip.bits = chip.found
    /\ todo \in Seq({BootOp(i) : i \in 1 .. 5}) /\ Len(todo) = 6 - n
    /\ \A i \in 1 .. 6 - n : todo[i] = BootOp(i + n - 1)
    /\ n < 4 => buffer = <<>>
    /\ n = 4 => buffer = <<<<"bits", chip.found>>>>
Working ==
    IF pc = "lost" THEN todo = <<>> /\ Consistent(Hx8k, Now)
    ELSE todo \in Seq(FlashOps) /\ Triple(Hx8k, {Now}, todo, AtRest(Hx8k))
FlashInv == (\E n \in 1 .. 4 : BootingAt(n)) \/ Working

LEMMA NowIs == Now.ctrl = spictrl /\ Now.chip = chip /\ Now.lost = (pc = "lost") /\ Now.buf = buffer
  BY DEF Now

\* A restart of the controller, by a store or at the end of flashio.
LEMMA RestartIs ==
    ASSUME NEW c, NEW f, Restart(c, f), pc # "lost", NEW b, buffer' = b
    PROVE  /\ Now' = Restarted(Hx8k, c, f, b)
           /\ todo' = IF pc' = "lost" THEN <<>> ELSE Tail(todo)
  <1> DEFINE g == AfterFF(f)
             h == [g EXCEPT !.xip = Between(c)]
  <1>1. AnswersOn(Hx8k, g, c) <=> Answers(g, c)
    BY DEF AnswersOn, Answers, DummiesOn, DummyClocks
  <1>2. [g EXCEPT !.xip = IF c.cont THEN Lanes(c) ELSE Spi] = h
    BY DEF Between
  <1>3. spictrl' = c
    BY DEF Restart
  <1>4. Answers(g, c) => chip' = h /\ todo' = Tail(todo) /\ pc' = pc
    BY <1>2 DEF Restart
  <1>5. ~Answers(g, c) => chip' = g /\ todo' = <<>> /\ pc' = "lost"
    BY DEF Restart
  <1>6. Now' = [ctrl |-> spictrl', chip |-> chip', lost |-> pc' = "lost", buf |-> buffer']
    BY DEF Now
  <1>7. Restarted(Hx8k, c, f, b) = IF AnswersOn(Hx8k, g, c)
                                   THEN [ctrl |-> c, chip |-> h, lost |-> FALSE, buf |-> b]
                                   ELSE [ctrl |-> c, chip |-> g, lost |-> TRUE, buf |-> b]
    BY DEF Restarted
  <1> HIDE DEF g, h
  <1>8. CASE Answers(g, c)
    BY <1>1, <1>3, <1>4, <1>6, <1>7, <1>8
  <1>9. CASE ~Answers(g, c)
    BY <1>1, <1>3, <1>5, <1>6, <1>7, <1>9
  <1> QED
    BY <1>8, <1>9

\* A step of straight-line code has the effect of its operation.
LEMMA EffectOfOperation ==
    ASSUME Operation, pc # "lost", Head(todo) \in FlashOps
    PROVE  /\ Now' = Effect(Hx8k, Now, Head(todo)) /\ todo # <<>> /\ board' = board
           /\ todo' = IF pc' = "lost" THEN <<>> ELSE Tail(todo)
  <1> DEFINE o == Head(todo)
             y == Effect(Hx8k, Now, o)
  <1>0. todo # <<>> /\ board' = board
    BY DEF Operation, PrintNumber, ShowField, SetLeds, StoreSpiCtrl, FlashRead, FlashWrite,
           PrintRegister, RunBenchmark, Doing, Due, rigid
  <1>1. Now.ctrl = spictrl /\ Now.chip = chip /\ ~Now.lost /\ Now.buf = buffer
    BY NowIs
  <1>2. CASE PrintNumber \/ ShowField \/ SetLeds \/ RunBenchmark
    <2>1. o.op \notin {"store", "toggle", "crm", "read", "write", "register"}
      BY <1>2 DEF PrintNumber, ShowField, SetLeds, RunBenchmark, Doing, Due
    <2>2. UNCHANGED <<spictrl, chip, buffer, pc>> /\ todo' = Tail(todo)
      BY <1>2 DEF PrintNumber, ShowField, SetLeds, RunBenchmark, Doing, spiVars
    <2>3. y = Now
      BY <1>1, <2>1 DEF Effect
    <2>4. Now' = Now
      BY <2>2 DEF Now
    <2> QED
      BY <1>0, <2>2, <2>3, <2>4
  <1>3. CASE StoreSpiCtrl
    <2> DEFINE c == CtrlAfter(spictrl, o)
    <2>1. o.op \in {"store", "toggle", "crm"} /\ buffer' = buffer
      BY <1>3 DEF StoreSpiCtrl, Due
    <2>2. Restart(c, chip)
      <3>1. CASE o.op = "store"
        <4>1. Restart([o.arg EXCEPT !.latency = IF o.arg.latency = KEEP THEN spictrl.latency
                                                ELSE o.arg.latency], chip)
          BY <1>3, <3>1 DEF StoreSpiCtrl, Due, Arg
        <4> QED
          BY <3>1, <4>1 DEF CtrlAfter
      <3>2. CASE o.op = "toggle"
        BY <1>3, <3>2 DEF StoreSpiCtrl, Due, CtrlAfter
      <3>3. CASE o.op = "crm"
        BY <1>3, <3>3 DEF StoreSpiCtrl, Due, CtrlAfter
      <3> QED
        BY <2>1, <3>1, <3>2, <3>3
    <2>3. y = Restarted(Hx8k, c, chip, buffer)
      BY <1>1, <2>1 DEF Effect
    <2> QED
      BY <1>0, <2>1, <2>2, <2>3, RestartIs
  <1>4. CASE FlashRead
    <2> DEFINE b == Append(buffer, AnswerOf(chip, o.arg))
    <2>1. o.op = "read" /\ Restart(spictrl, Clocked(chip))
      BY <1>4 DEF FlashRead, Due
    <2>2. buffer' = b
      BY <1>4 DEF FlashRead, Answer, Contents, AnswerOf, ContentsOf, Arg
    <2>3. y = Restarted(Hx8k, spictrl, Clocked(chip), b)
      BY <1>1, <2>1 DEF Effect
    <2> QED
      BY <1>0, <2>1, <2>2, <2>3, RestartIs
  <1>5. CASE FlashWrite
    <2> DEFINE f == Clocked(Took(chip, o.arg.v))
    <2>1. o.op = "write" /\ o.arg.reg = "CR3V" /\ o.arg.wren = 6 /\ buffer' = <<>>
      BY <1>5 DEF FlashWrite, Due, FlashOps
    <2>2. Written = Took(chip, o.arg.v)
      BY <2>1 DEF Written, Took, Arg
    <2>3. Restart(spictrl, f)
      BY <1>5, <2>2 DEF FlashWrite
    <2>4. y = Restarted(Hx8k, spictrl, f, <<>>)
      BY <1>1, <2>1 DEF Effect
    <2> HIDE DEF f
    <2> QED
      BY <1>0, <2>1, <2>3, <2>4, RestartIs
  <1>6. CASE PrintRegister
    <2>1. /\ o.op = "register" /\ UNCHANGED <<spictrl, chip, pc>>
          /\ buffer' = Tail(buffer) /\ todo' = Tail(todo)
      BY <1>6 DEF PrintRegister, Doing, Due
    <2>2. y = [ctrl |-> spictrl, chip |-> chip, lost |-> FALSE, buf |-> Tail(buffer)]
      BY <1>1, <2>1 DEF Effect
    <2>3. Now' = [ctrl |-> spictrl, chip |-> chip, lost |-> FALSE, buf |-> Tail(buffer)]
      BY <2>1 DEF Now
    <2> QED
      BY <1>0, <2>1, <2>2, <2>3
  <1> QED
    BY <1>2, <1>3, <1>4, <1>5, <1>6 DEF Operation

\* After boot.
LEMMA WorkingStep == ASSUME Working, Operation PROVE Working'
  <1>1. todo # <<>>
    BY DEF Operation, PrintNumber, ShowField, SetLeds, StoreSpiCtrl, FlashRead, FlashWrite,
           PrintRegister, RunBenchmark, Doing, Due
  <1>2. pc # "lost" /\ todo \in Seq(FlashOps) /\ Triple(Hx8k, {Now}, todo, AtRest(Hx8k))
    BY <1>1 DEF Working
  <1> DEFINE y == Effect(Hx8k, Now, Head(todo))
             s == Tail(todo)
  <1>3. Head(todo) \in FlashOps /\ s \in Seq(FlashOps) /\ Triple(Hx8k, {y}, s, AtRest(Hx8k))
    BY <1>1, <1>2, Advance
  <1>4. Consistent(Hx8k, y)
    <2> HIDE DEF y, s
    <2>1. CASE s = <<>>
      <3>1. y \in AtRest(Hx8k)
        BY <1>3, <2>1, Ended
      <3> QED
        BY <3>1, Conditions
    <2>2. CASE s # <<>>
      BY <1>3, <2>2, Advance
    <2> QED
      BY <2>1, <2>2
  <1>5. Now' = y /\ board' = board /\ todo' = IF pc' = "lost" THEN <<>> ELSE s
    BY <1>2, <1>3, EffectOfOperation
  <1> HIDE DEF y, s
  <1>6. Hx8k' = Hx8k /\ AtRest(Hx8k)' = AtRest(Hx8k)
    BY <1>5 DEF Hx8k
  <1>7. CASE pc' = "lost"
    <2>1. todo' = <<>> /\ Consistent(Hx8k, Now)'
      BY <1>4, <1>5, <1>6, <1>7
    <2> QED
      BY <1>7, <2>1 DEF Working
  <1>8. CASE pc' # "lost"
    <2>1. todo' \in Seq(FlashOps) /\ Triple(Hx8k', {Now'}, todo', AtRest(Hx8k)')
      BY <1>3, <1>5, <1>6, <1>8
    <2> QED
      BY <1>8, <2>1 DEF Working
  <1> QED
    BY <1>7, <1>8

\* The operations at boot.
LEMMA BootOps ==
    ASSUME NEW n \in 1 .. 4
    PROVE  /\ n < 3 => BootOp(n).op = "leds"
           /\ n = 3 => BootOp(n).op = "read" /\ BootOp(n).arg \in {"CR1V", "SR2"}
           /\ n = 4 => /\ BootOp(n).op = "write" /\ BootOp(n).arg.reg \in {"CR1V", "SR2"}
                       /\ BootOp(n).arg.wren # 0
  BY DEF BootOp, Leds, Read, Write, Op

\* What is left of the boot sequence after one operation.
LEMMA BootTail ==
    ASSUME NEW n \in 1 .. 4, BootingAt(n)
    PROVE  /\ todo # <<>> /\ Head(todo) = BootOp(n)
           /\ Tail(todo) \in Seq({BootOp(i) : i \in 1 .. 5}) /\ Len(Tail(todo)) = 5 - n
           /\ \A i \in 1 .. 5 - n : Tail(todo)[i] = BootOp(i + n)
  <1> DEFINE S == {BootOp(i) : i \in 1 .. 5}
             t == Tail(todo)
  <1>1. todo \in Seq(S) /\ Len(todo) = 6 - n /\ \A i \in 1 .. 6 - n : todo[i] = BootOp(i + n - 1)
    BY DEF BootingAt
  <1> HIDE DEF S
  <1>2. /\ todo # <<>> /\ Head(todo) = todo[1] /\ t \in Seq(S) /\ Len(t) = 5 - n
        /\ \A i \in 1 .. 5 - n : t[i] = todo[i + 1]
    BY <1>1
  <1>3. todo[1] = BootOp(n)
    <2>1. 1 \in 1 .. 6 - n /\ 1 + n - 1 = n
      OBVIOUS
    <2> QED
      BY <1>1, <2>1
  <1>4. ASSUME NEW i \in 1 .. 5 - n PROVE t[i] = BootOp(i + n)
    <2>1. i + 1 \in 1 .. 6 - n /\ (i + 1) + n - 1 = i + n
      OBVIOUS
    <2> QED
      BY <1>1, <1>2, <2>1
  <1> QED
    BY <1>2, <1>3, <1>4 DEF S

\* At boot the flash answers, and goes on in the default mode.
LEMMA BootRestart ==
    ASSUME NEW n \in 1 .. 4, BootingAt(n), NEW f \in BootChips, Restart(spictrl, Clocked(f))
    PROVE  spictrl' = spictrl /\ chip' = f /\ pc' = pc /\ todo' = Tail(todo)
  <1>1. /\ ~spictrl.cont /\ ~spictrl.ddr /\ ~spictrl.qspi
    BY DEF BootingAt, SpiCtrl, Spi, Mode
  <1>2. f.xip = Spi /\ Spi # Dual
    BY DEF BootChips, Spi, Dual, Mode
  <1>3. [f EXCEPT !.xip = Spi] = f
    BY <1>2 DEF BootChips
  <1>4. Clocked(f) = f
    BY <1>3 DEF Clocked
  <1>5. AfterFF(f) = f
    <2>1. (IF f.xip = Dual /\ ~f.ends THEN Dual ELSE Spi) = Spi
      BY <1>2
    <2> QED
      BY <1>3, <2>1 DEF AfterFF
  <1>6. Answers(f, spictrl)
    BY <1>1, <1>2 DEF Answers
  <1> QED
    BY <1>1, <1>3, <1>4, <1>5, <1>6 DEF Restart

\* One operation of the boot sequence.
LEMMA BootStep == ASSUME NEW n \in 1 .. 4, BootingAt(n), Operation PROVE FlashInv'
  <1> DEFINE o == Head(todo)
             ops == {BootOp(i) : i \in 1 .. 5}
  <1>1. /\ o = BootOp(n)
        /\ Tail(todo) \in Seq(ops) /\ Len(Tail(todo)) = 5 - n
        /\ \A i \in 1 .. 5 - n : Tail(todo)[i] = BootOp(i + n)
    BY BootTail
  <1>2. board' = board
    BY DEF Operation, PrintNumber, ShowField, SetLeds, StoreSpiCtrl, FlashRead, FlashWrite,
           PrintRegister, RunBenchmark, rigid
  <1>3. Hx8k' = Hx8k /\ ops' = ops /\ \A i : BootOp(i)' = BootOp(i)
    BY <1>2 DEF Hx8k, BootOp
  <1>4. /\ pc # "lost" /\ spictrl = SpiCtrl(Spi, 8)
        /\ chip \in BootChips /\ chip.bits = chip.found
        /\ n < 4 => buffer = <<>>
        /\ n = 4 => buffer = <<<<"bits", chip.found>>>>
    BY DEF BootingAt
  <1>5. chip.xip = Spi
    BY <1>4 DEF BootChips
  <1>6. CASE n < 3
    <2>1. o.op = "leds"
      BY <1>1, <1>6, BootOps
    <2>2. UNCHANGED <<spictrl, chip, buffer, pc>> /\ todo' = Tail(todo)
      BY <2>1 DEF Operation, PrintNumber, ShowField, SetLeds, StoreSpiCtrl, FlashRead, FlashWrite,
                  PrintRegister, RunBenchmark, Doing, Due, spiVars
    <2>3. PICK m \in 1 .. 4 : m = n + 1 /\ m < 4
      BY <1>6
    <2>4. todo' \in Seq(ops') /\ Len(todo') = 6 - m /\ \A i \in 1 .. 6 - m : todo'[i] = BootOp(i + m - 1)'
      <3>1. 6 - m = 5 - n /\ \A i \in 1 .. 6 - m : i + m - 1 = i + n
        BY <2>3
      <3> HIDE DEF ops
      <3> QED
        BY <1>1, <1>3, <2>2, <3>1
    <2>5. BootingAt(m)'
      BY <1>4, <1>6, <2>2, <2>3, <2>4 DEF BootingAt
    <2> QED
      BY <2>5 DEF FlashInv
  <1>7. CASE n = 3
    <2>1. o.op = "read" /\ Arg \in {"CR1V", "SR2"}
      BY <1>1, <1>7, BootOps DEF Arg
    <2>2. FlashRead
      BY <2>1 DEF Operation, PrintNumber, ShowField, SetLeds, StoreSpiCtrl, FlashRead, FlashWrite,
                  PrintRegister, RunBenchmark, Doing, Due
    <2>3. spictrl' = spictrl /\ chip' = chip /\ pc' = pc /\ todo' = Tail(todo)
      BY <1>4, <2>2, BootRestart DEF FlashRead
    <2>4. Answer(Arg) = <<"bits", chip.found>> /\ buffer' = Append(buffer, Answer(Arg))
      BY <1>4, <1>5, <2>1, <2>2 DEF Answer, Contents, FlashRead
    <2>5. buffer' = <<<<"bits", chip'.found>>>>
      BY <1>4, <1>7, <2>3, <2>4
    <2>6. todo' \in Seq(ops') /\ Len(todo') = 6 - 4 /\ \A i \in 1 .. 6 - 4 : todo'[i] = BootOp(i + 4 - 1)'
      <3>1. 6 - 4 = 5 - n /\ \A i \in 1 .. 6 - 4 : i + 4 - 1 = i + n
        BY <1>7
      <3> HIDE DEF ops
      <3> QED
        BY <1>1, <1>3, <2>3, <3>1
    <2>7. /\ pc' # "lost" /\ spictrl' = SpiCtrl(Spi, 8)' /\ chip' \in BootChips' /\ chip'.bits = chip'.found
      BY <1>4, <2>3
    <2>8. BootingAt(4)'
      BY <2>5, <2>6, <2>7 DEF BootingAt
    <2> QED
      BY <2>8 DEF FlashInv
  <1>8. CASE n = 4
    <2>1. o.op = "write" /\ Arg.reg \in {"CR1V", "SR2"} /\ Arg.wren # 0
      BY <1>1, <1>8, BootOps DEF Arg
    <2>2. FlashWrite
      BY <2>1 DEF Operation, PrintNumber, ShowField, SetLeds, StoreSpiCtrl, FlashRead, FlashWrite,
                  PrintRegister, RunBenchmark, Doing, Due
    <2> DEFINE f == [chip EXCEPT !.bits = chip.found \cup {QUAD_BIT}]
    <2>3. Written = f
      <3>1. Head(buffer)[2] = chip.found
        BY <1>4, <1>8
      <3> QED
        BY <1>5, <2>1, <3>1 DEF Written
    <2>4. f \in BootChips /\ f.bits = chip.found \cup {QUAD_BIT} /\ f.found = chip.found
      BY <1>4 DEF BootChips, QUAD_BIT
    <2> HIDE DEF f
    <2>5. spictrl' = spictrl /\ chip' = f /\ pc' = pc /\ todo' = Tail(todo) /\ buffer' = <<>>
      BY <2>2, <2>3, <2>4, BootRestart DEF FlashWrite
    <2>6. Now' \in AtRest(Hx8k)
      <3>1. /\ f.latency = 8 /\ f.xip = Spi /\ QUAD_BIT \in f.bits /\ KeepsBits(f)
            /\ f \in Chips
        <4>1. Spi \in Modes
          BY ModesAre
        <4> QED
          BY <2>4, <4>1 DEF BootChips, Chips, KeepsBits
      <3>2. /\ ~spictrl.ddr /\ ~spictrl.qspi /\ ~spictrl.cont /\ spictrl.latency = 8
            /\ spictrl \in CtrlOf(0 .. 15)
        BY <1>4 DEF SpiCtrl, Spi, Mode, CtrlOf
      <3>3. Now' = [ctrl |-> spictrl, chip |-> f, lost |-> FALSE, buf |-> <<>>]
        BY <1>4, <2>5 DEF Now
      <3>4. <<>> \in Seq(Values)
        OBVIOUS
      <3>5. /\ Now'.ctrl = spictrl /\ Now'.chip = f /\ ~Now'.lost /\ Now'.buf = <<>>
            /\ Now' \in FlashStates
        BY <3>1, <3>2, <3>3, <3>4 DEF FlashStates
      <3>6. Agreed(Hx8k, spictrl, f)
        BY <3>1, <3>2 DEF Agreed, Between
      <3>7. Consistent(Hx8k, Now')
        BY <3>1, <3>5, <3>6 DEF Consistent
      <3> QED
        BY <3>1, <3>2, <3>5, <3>7, Rests
    <2>7. todo' = <<Leds(127)>>
      <3>1. todo' \in Seq(ops) /\ Len(todo') = 1 /\ todo'[1] = BootOp(5)
        <4>1. 5 - n = 1 /\ 1 + n = 5 /\ 1 \in 1 .. 5 - n
          BY <1>8
        <4> HIDE DEF ops
        <4> QED
          BY <1>1, <2>5, <4>1
      <3>2. BootOp(5) = Leds(127)
        BY DEF BootOp
      <3> HIDE DEF ops
      <3>3. todo' = [i \in 1 .. 1 |-> todo'[i]]
        BY <3>1
      <3>4. <<Leds(127)>> = [i \in 1 .. 1 |-> todo'[i]]
        BY <3>1, <3>2
      <3> QED
        BY <3>3, <3>4
    <2>8. <<Leds(127)>> \in Safe(Hx8k)
      <3>1. 127 \in Int
        OBVIOUS
      <3> QED
        BY <3>1, SafeQuiet, Zenon
    <2>9. todo' \in Seq(FlashOps) /\ Triple(Hx8k, {Now'}, todo', AtRest(Hx8k))
      BY <2>6, <2>7, <2>8, Begun
    <2>10. pc' # "lost" /\ AtRest(Hx8k)' = AtRest(Hx8k)
      BY <1>3, <1>4, <2>5
    <2> QED
      BY <1>3, <2>9, <2>10 DEF FlashInv, Working
  <1> QED
    BY <1>6, <1>7, <1>8

\* The boot sequence from its start.
LEMMA FlashStarts == Init => FlashInv
  <1> SUFFICES ASSUME Init PROVE FlashInv
    OBVIOUS
  <1> DEFINE S == {BootOp(i) : i \in 1 .. 5}
             q == <<BootOp(3), BootOp(4)>>
             t == <<BootOp(1), BootOp(2)>> \o q \o <<BootOp(5)>>
  <1>1. /\ BootOp(1) \in S /\ BootOp(2) \in S /\ BootOp(3) \in S /\ BootOp(4) \in S
        /\ BootOp(5) \in S
    OBVIOUS
  <1>2. todo = t
    <2>1. /\ BootOp(1) = Leds(31) /\ BootOp(2) = Leds(63) /\ BootOp(5) = Leds(127)
          /\ BootOp(3) = Read(IF Hx8k THEN "CR1V" ELSE "SR2")
          /\ BootOp(4) = IF Hx8k THEN Write("CR1V", KEEP, 6) ELSE Write("SR2", KEEP, 80)
      BY DEF BootOp
    <2>2. set_flash_qspi_flag = <<BootOp(3), BootOp(4)>>
      BY <2>1 DEF set_flash_qspi_flag
    <2>3. todo = <<Leds(31), Leds(63)>> \o set_flash_qspi_flag \o <<Leds(127)>>
      BY DEF Init, Boot
    <2> QED
      BY <2>1, <2>2, <2>3
  <1> HIDE DEF S
  <1>3. /\ t \in Seq(S) /\ Len(t) = 5 /\ t[1] = BootOp(1) /\ t[2] = BootOp(2) /\ t[3] = BootOp(3)
        /\ t[4] = BootOp(4) /\ t[5] = BootOp(5)
    BY <1>1
  <1> HIDE DEF t
  <1>4. \A i \in 1 .. 5 : t[i] = BootOp(i + 1 - 1)
    <2> SUFFICES ASSUME NEW i \in 1 .. 5 PROVE t[i] = BootOp(i + 1 - 1)
      OBVIOUS
    <2>1. i + 1 - 1 = i /\ i \in {1, 2, 3, 4, 5}
      OBVIOUS
    <2> QED
      BY <1>3, <2>1
  <1>5. PICK bits \in {{}, {5}} : \E ends \in BOOLEAN :
            chip = [bits |-> bits, latency |-> 8, found |-> bits, xip |-> Spi, ends |-> ends]
    BY DEF Init
  <1>6. chip \in BootChips /\ chip.bits = chip.found
    BY <1>5 DEF BootChips
  <1>7. pc # "lost" /\ spictrl = SpiCtrl(Spi, 8) /\ buffer = <<>>
    BY DEF Init
  <1>8. BootingAt(1)
    <2>1. todo \in Seq(S) /\ Len(todo) = 6 - 1 /\ \A i \in 1 .. 6 - 1 : todo[i] = BootOp(i + 1 - 1)
      BY <1>2, <1>3, <1>4
    <2> QED
      BY <1>6, <1>7, <2>1 DEF BootingAt, S
  <1> QED
    BY <1>8 DEF FlashInv

\* Between operations of a program that is not lost: nothing to do is a state of rest,
\* from which banner and commands start; all else leaves the flash and the operations alone.
LEMMA AtRestWhenDone == ASSUME FlashInv, todo = <<>>, pc # "lost" PROVE Now \in AtRest(Hx8k)
  <1>1. ~ \E n \in 1 .. 4 : BootingAt(n)
    <2> SUFFICES ASSUME NEW n \in 1 .. 4, BootingAt(n) PROVE FALSE
      OBVIOUS
    <2>1. todo # <<>>
      BY BootTail
    <2> QED
      BY <2>1
  <1>2. Triple(Hx8k, {Now}, <<>>, AtRest(Hx8k))
    BY <1>1 DEF FlashInv, Working
  <1> QED
    BY <1>2, Ended

LEMMA CodeStarts ==
    ASSUME FlashInv, todo = <<>>, pc # "lost", pc' # "lost",
           UNCHANGED <<board, spictrl, chip, buffer>>, todo' \in Safe(Hx8k)
    PROVE  FlashInv'
  <1>1. Now' = Now /\ Hx8k' = Hx8k
    BY DEF Now, Hx8k
  <1>2. Now \in AtRest(Hx8k) /\ AtRest(Hx8k)' = AtRest(Hx8k)
    BY <1>1, AtRestWhenDone
  <1>3. todo' \in Seq(FlashOps) /\ Triple(Hx8k, {Now}, todo', AtRest(Hx8k))
    BY <1>2, Begun
  <1> QED
    BY <1>1, <1>2, <1>3 DEF FlashInv, Working

LEMMA FlashStays ==
    ASSUME FlashInv, UNCHANGED <<board, spictrl, chip, buffer, todo>>, pc' = "lost" <=> pc = "lost"
    PROVE  FlashInv'
  <1>1. Now' = Now /\ Hx8k' = Hx8k /\ \A i : BootOp(i)' = BootOp(i)
    BY DEF Now, Hx8k, BootOp
  <1>2. ASSUME NEW n \in 1 .. 4, BootingAt(n) PROVE BootingAt(n)'
    BY <1>1, <1>2 DEF BootingAt
  <1>3. AtRest(Hx8k)' = AtRest(Hx8k) /\ Consistent(Hx8k, Now)' = Consistent(Hx8k, Now)
    BY <1>1
  <1>4. Working => Working'
    BY <1>1, <1>3 DEF Working
  <1> QED
    BY <1>2, <1>4 DEF FlashInv

LEMMA FlashStep == FlashInv /\ [Next]_vars => FlashInv'
  <1> SUFFICES ASSUME FlashInv, [Next]_vars PROVE FlashInv'
    OBVIOUS
  <1>1. CASE Operation
    <2>1. Working => Working'
      BY <1>1, WorkingStep
    <2>2. ASSUME NEW n \in 1 .. 4, BootingAt(n) PROVE FlashInv'
      BY <1>1, <2>2, BootStep
    <2> QED
      BY <2>1, <2>2 DEF FlashInv
  <1>2. CASE TakeEnter /\ uart = "enter"
    <2>1. todo = <<>> /\ todo' = Banner /\ UNCHANGED <<board, spictrl, chip, buffer>>
          /\ pc # "lost" /\ pc' # "lost"
      BY <1>2 DEF TakeEnter, Take, Waiting, rigid, spiVars
    <2> QED
      BY <2>1, BannerSafe, CodeStarts
  <1>3. CASE TakeCommand /\ uart \in Commands
    <2>1. todo = <<>> /\ UNCHANGED <<board, spictrl, chip, buffer>> /\ pc # "lost"
      BY <1>3 DEF TakeCommand, Take, Waiting, spiVars
    <2>3. todo' = Command(uart) /\ pc' # "lost"
      BY <1>3 DEF TakeCommand, Commands
    <2>2. Command(uart) \in Safe(Hx8k)
      BY <1>3, CommandSafe
    <2> QED
      BY <2>1, <2>2, <2>3, CodeStarts
  <1>4. CASE TakeEnter /\ uart # "enter"
    <2>1. UNCHANGED <<board, spictrl, chip, buffer, todo, pc>>
      BY <1>4 DEF TakeEnter, rigid, spiVars
    <2> QED
      BY <2>1, FlashStays
  <1>5. CASE TakeCommand /\ uart \notin Commands
    <2>1. UNCHANGED <<board, spictrl, chip, buffer, todo>> /\ pc # "lost" /\ pc' # "lost"
      BY <1>5 DEF TakeCommand, spiVars
    <2> QED
      BY <2>1, FlashStays
  <1>6. CASE \/ Remind \/ ShowMenu \/ Echo \/ FillWord \/ VerifyWord \/ FillByte \/ VerifyByte
             \/ Type \/ UNCHANGED vars
    <2>1. UNCHANGED <<board, spictrl, chip, buffer, todo>>
      BY <1>6 DEF Remind, ShowMenu, Echo, FillWord, VerifyWord, FillByte, VerifyByte, Testing, Type,
                  vars, rigid, spiVars
    <2>2. pc' = "lost" <=> pc = "lost"
      BY <1>6 DEF Remind, ShowMenu, Echo, FillWord, VerifyWord, FillByte, VerifyByte, Testing, Type,
                  vars, Walk, Verdict
    <2> QED
      BY <2>1, <2>2, FlashStays
  <1> QED
    BY <1>1, <1>2, <1>3, <1>4, <1>5, <1>6 DEF Next, ProgramStep

\* What is left to do takes controller, chip and buffer to a state of rest, through states
\* in which the program is still read, or loses it for one of the two reasons.
THEOREM FlashInvariant == Spec => []FlashInv
  BY FlashStarts, FlashStep, PTL DEF Spec

\* The firmware never gives the flash a configuration that the chip cannot follow
\* (set_flash_latency, set_flash_mode_*, cmd_benchmark_all, set_flash_qspi_flag), on both
\* boards, in each state between two operations of each command: the program is lost only
\* by a chip that reads on two lanes continuously and is not brought back by FF, or by
\* continuous reads in a mode without a mode byte.
THEOREM FlashAlwaysMatches == Spec => []FlashMatches
  <1>1. FlashInv => FlashMatches
    <2>1. ASSUME NEW n \in 1 .. 4, BootingAt(n) PROVE FlashMatches
      <3>1. pc # "lost" /\ chip.bits = chip.found
        BY <2>1 DEF BootingAt
      <3> QED
        BY <3>1 DEF FlashMatches
    <2>2. ASSUME Working PROVE FlashMatches
      <3>1. Consistent(Hx8k, Now)
        <4>1. CASE pc = "lost"
          BY <2>2, <4>1 DEF Working
        <4>2. CASE pc # "lost" /\ todo = <<>>
          <5>1. Now \in AtRest(Hx8k)
            BY <2>2, <4>2, Ended DEF Working
          <5> QED
            BY <5>1, Conditions
        <4>3. CASE pc # "lost" /\ todo # <<>>
          BY <2>2, <4>3, Advance DEF Working
        <4> QED
          BY <4>1, <4>2, <4>3
      <3> QED
        BY <3>1, NowIs DEF Consistent, Excused, KeepsBits, FlashMatches
    <2> QED
      BY <2>1, <2>2 DEF FlashInv
  <1> QED
    BY <1>1, FlashInvariant, PTL

-----------------------------------------------------------------------------
(* What is printed.                                                        *)

\* The lines of each operation.
LEMMA LinesAre ==
    \A v, w, x, y, z, n, c :
        /\ LineTrue(<<"dec", v, print_dec(v)>>) <=> DecTrue(v)
        /\ HexTrue(w[1], w[2]) => LineTrue(<<"hex", w, print_hex(w[1], w[2])>>)
        /\ HexTrue(v, n) => /\ LineTrue(<<"word", <<v, n>>, print_hex(v, n)>>)
                            /\ LineTrue(<<"byte", <<v, n>>, print_hex(v, n)>>)
        /\ LabelTrue(<<"benchmark", w, x, y>>) => LineTrue(<<"benchmark", w, x, y>>)
        /\ (z \/ x = y) => LineTrue(<<"register", w, x, y, z>>)
        /\ LineTrue(<<"state", v, w>>) /\ LineTrue(<<"char", c>>)
        /\ LineTrue(<<"passed">>)
  BY DEF LineTrue, DecTrue, HexTrue

LEMMA ReportGrows ==
    ASSUME ReportsTrue, IsSeq(screen), NEW line, LineTrue(line), screen' = Append(screen, line)
    PROVE  ReportsTrue'
  <1>1. \A k \in DOMAIN screen : LineTrue(screen[k])
    BY DEF ReportsTrue
  <1>2. \A k \in DOMAIN screen' : screen'[k] = line \/ \E j \in DOMAIN screen : screen'[k] = screen[j]
    BY LineAppended
  <1>3. \A k \in DOMAIN screen' : LineTrue(screen'[k])
    BY <1>1, <1>2
  <1> QED
    BY <1>3 DEF ReportsTrue

LEMMA ReportEcho ==
    ASSUME ReportsTrue, IsSeq(screen), NEW c, screen' = screen \o putchar(c)
    PROVE  ReportsTrue'
  <1> DEFINE grown(q, line) == \A k \in DOMAIN Append(q, line) :
                 Append(q, line)[k] = line \/ \E j \in DOMAIN q : Append(q, line)[k] = q[j]
             true(q) == \A k \in DOMAIN q : LineTrue(q[k])
  <1>1. ASSUME NEW q, IsSeq(q), true(q), NEW line, LineTrue(line)
        PROVE  IsSeq(Append(q, line)) /\ true(Append(q, line))
    BY <1>1, LineAppended
  <1>2. true(screen)
    BY DEF ReportsTrue
  <1>3. \A d : LineTrue(<<"char", d>>)
    BY LinesAre
  <1> HIDE DEF true
  <1>4. true(Append(screen, <<"char", c>>))
    BY <1>1, <1>2, <1>3
  <1>5. true(Append(Append(screen, <<"char", "\r">>), <<"char", "\n">>))
    <2>1. /\ IsSeq(Append(screen, <<"char", "\r">>))
          /\ true(Append(screen, <<"char", "\r">>))
      BY <1>1, <1>2, <1>3
    <2> QED
      BY <1>1, <1>3, <2>1
  <1>6. true(screen')
    BY <1>4, <1>5, EchoAppends
  <1> QED
    BY <1>6 DEF true, ReportsTrue

\* The address of a word or a byte is below that of the registers.
LEMMA AddressesFit ==
    ASSUME NEW a \in Nat, a < 2 ^ 25
    PROVE  HexTrue(a, 4)
  <1>1. a < 16 ^ 8
    OBVIOUS
  <1> QED
    BY <1>1, HexsTrue DEF HexTrue

\* An operation that prints, prints what is true.
LEMMA OperationReports ==
    ASSUME Working, IsSeq(screen), ReportsTrue, Operation
    PROVE  ReportsTrue'
  <1> DEFINE o == Head(todo)
  <1>1. todo # <<>>
    BY DEF Operation, PrintNumber, ShowField, SetLeds, StoreSpiCtrl, FlashRead, FlashWrite,
           PrintRegister, RunBenchmark, Doing, Due
  <1>2. Fine(Now, o) /\ pc # "lost"
    BY <1>1, Advance DEF Working
  <1>3. Now.ctrl = spictrl /\ Now.chip = chip /\ ~Now.lost /\ Now.buf = buffer
    BY <1>2, NowIs
  <1>4. CASE PrintNumber
    <2>1. CASE o.op = "dec"
      <3>1. LineTrue(<<"dec", Arg, print_dec(Arg)>>)
        BY <1>2, <2>1, <1>3, LinesAre DEF Fine, Arg
      <3>2. screen' = Append(screen, <<"dec", Arg, print_dec(Arg)>>)
        BY <1>4, <2>1 DEF PrintNumber, Doing, Due, Output
      <3> QED
        BY <3>1, <3>2, ReportGrows
    <2>2. CASE o.op = "hex"
      <3>1. LineTrue(<<"hex", Arg, print_hex(Arg[1], Arg[2])>>)
        BY <1>2, <2>2, <1>3, LinesAre DEF Fine, Arg
      <3>2. screen' = Append(screen, <<"hex", Arg, print_hex(Arg[1], Arg[2])>>)
        BY <1>4, <2>2 DEF PrintNumber, Doing, Due, Output
      <3> QED
        BY <3>1, <3>2, ReportGrows
    <2> QED
      BY <1>4, <2>1, <2>2 DEF PrintNumber, Doing, Due
  <1>5. CASE ShowField
    <2>1. PICK line : /\ screen' = Append(screen, line)
                      /\ \/ line = <<"dec", spictrl.latency, print_dec(spictrl.latency)>>
                         \/ line = <<"state", Arg, spictrl[Arg]>>
      BY <1>5 DEF ShowField, Output
    <2>2. DecTrue(spictrl.latency)
      BY <1>2, <1>3, <1>5 DEF Fine, ShowField, Doing, Due
    <2>3. LineTrue(line)
      BY <2>1, <2>2, LinesAre
    <2> QED
      BY <2>1, <2>3, ReportGrows
  <1>6. CASE RunBenchmark
    <2>1. LabelTrue(<<"benchmark", Arg, spictrl, chip.latency>>)
      BY <1>2, <1>3, <1>6 DEF Fine, RunBenchmark, Doing, Due, Arg
    <2>2. LineTrue(<<"benchmark", Arg, spictrl, chip.latency>>)
      BY <2>1, LinesAre
    <2>3. screen' = Append(screen, <<"benchmark", Arg, spictrl, chip.latency>>)
      BY <1>6 DEF RunBenchmark, Output
    <2> QED
      BY <2>2, <2>3, ReportGrows
  <1>7. CASE PrintRegister
    <2> DEFINE line == <<"register", Arg, Head(buffer), Contents(Arg), spictrl.cont>>
    <2>1. screen' = Append(screen, line)
      BY <1>7 DEF PrintRegister, Output
    <2>2. RegisterTrue(Now, Arg)
      BY <1>2, <1>3, <1>7 DEF Fine, PrintRegister, Doing, Due, Arg
    <2>3. ~spictrl.cont => Head(buffer) = Contents(Arg)
      BY <1>3, <2>2 DEF RegisterTrue, Contents, ContentsOf
    <2>4. LineTrue(line)
      BY <2>3, LinesAre
    <2> QED
      BY <2>1, <2>4, ReportGrows
  <1>8. CASE SetLeds \/ StoreSpiCtrl \/ FlashRead \/ FlashWrite
    <2>1. screen' = screen
      BY <1>8 DEF SetLeds, StoreSpiCtrl, FlashRead, FlashWrite
    <2> QED
      BY <2>1 DEF ReportsTrue
  <1> QED
    BY <1>4, <1>5, <1>6, <1>7, <1>8 DEF Operation

\* At boot nothing is printed.
LEMMA BootIsSilent ==
    ASSUME NEW n \in 1 .. 4, BootingAt(n), Operation
    PROVE  screen' = screen
  <1>1. Head(todo).op \in {"leds", "read", "write"}
    BY BootTail, BootOps
  <1> QED
    BY <1>1 DEF Operation, PrintNumber, ShowField, SetLeds, StoreSpiCtrl, FlashRead, FlashWrite,
                PrintRegister, RunBenchmark, Doing, Due

LEMMA ReportStep == IInv /\ FlashInv /\ ReportsTrue /\ [Next]_vars => ReportsTrue'
  <1> SUFFICES ASSUME IInv, FlashInv, ReportsTrue, [Next]_vars PROVE ReportsTrue'
    OBVIOUS
  <1>1. IsSeq(screen) /\ board \in BOARDS
    BY DEF IInv, ScreenTrue, TestInv
  <1>2. ASSUME screen' = screen PROVE ReportsTrue'
    BY <1>2 DEF ReportsTrue
  <1>3. ASSUME screen' = <<>> PROVE ReportsTrue'
    BY <1>3 DEF ReportsTrue
  <1>4. CASE Operation
    <2>1. CASE Working
      BY <1>1, <1>4, <2>1, OperationReports
    <2>2. ASSUME NEW n \in 1 .. 4, BootingAt(n) PROVE ReportsTrue'
      BY <1>2, <1>4, <2>2, BootIsSilent
    <2> QED
      BY <2>1, <2>2 DEF FlashInv
  <1>5. CASE TakeEnter \/ TakeCommand
    <2>1. screen' = <<>>
      BY <1>5 DEF TakeEnter, TakeCommand
    <2> QED
      BY <1>3, <2>1
  <1>6. CASE Remind \/ ShowMenu \/ FillWord \/ FillByte \/ Type \/ UNCHANGED vars
    <2>1. screen' = screen
      BY <1>6 DEF Remind, ShowMenu, FillWord, FillByte, Type, vars
    <2> QED
      BY <1>2, <2>1
  <1>7. CASE Echo
    <2>1. screen' = screen \/ screen' = screen \o putchar(uart)
      BY <1>7 DEF Echo
    <2> QED
      BY <1>1, <1>2, <2>1, ReportEcho
  <1>8. CASE VerifyWord
    <2>1. \/ screen' = screen
          \/ screen' = Append(screen, <<"word", <<at, 4>>, print_hex(at, 4)>>)
      BY <1>8 DEF VerifyWord, Verdict, Output
    <2>2. at \in WordsOf(board)
      BY <1>8 DEF IInv, TestInv, WordLoops, VerifyWord, Testing
    <2>3. at \in Nat /\ at < 2 ^ 25
      <3>1. OnWalk(WordsOf(board), STRIDE, MEM_TOTAL[board])
        BY <1>1, Walks
      <3>2. at \in Nat /\ at < MEM_TOTAL[board]
        BY <2>2, <3>1 DEF OnWalk
      <3>3. MEM_TOTAL[board] \in Nat /\ MEM_TOTAL[board] <= 2 ^ 25
        BY <1>1, MemoryAssumption
      <3> QED
        BY <3>2, <3>3
    <2>4. LineTrue(<<"word", <<at, 4>>, print_hex(at, 4)>>)
      BY <2>3, AddressesFit, LinesAre
    <2> QED
      BY <1>1, <1>2, <2>1, <2>4, ReportGrows
  <1>9. CASE VerifyByte
    <2>1. \/ screen' = screen \/ screen' = Append(screen, <<"passed">>)
          \/ screen' = Append(screen, <<"byte", <<at, 4>>, print_hex(at, 4)>>)
      BY <1>9 DEF VerifyByte, Verdict, Output
    <2>2. at \in ByteAddresses
      BY <1>9 DEF IInv, TestInv, ByteLoops, VerifyByte, Testing
    <2>3. at \in Nat /\ at < 2 ^ 25
      <3>1. at \in Nat /\ at < TEST_BYTES
        BY <2>2, NextByte
      <3>2. TEST_BYTES \in Nat /\ TEST_BYTES <= 2 ^ 25
        BY MemoryAssumption
      <3> QED
        BY <3>1, <3>2
    <2>4. LineTrue(<<"byte", <<at, 4>>, print_hex(at, 4)>>) /\ LineTrue(<<"passed">>)
      BY <2>3, AddressesFit, LinesAre
    <2> QED
      BY <1>1, <1>2, <2>1, <2>4, ReportGrows
  <1> QED
    BY <1>4, <1>5, <1>6, <1>7, <1>8, <1>9 DEF Next, ProgramStep

\* What is on the screen is true: the mode and the latency that head a line of the
\* benchmark are those measured (cmd_benchmark_all), the digits of each number are those
\* of its value (print_dec, print_hex), and the value of a register is what the chip holds
\* unless reads are continuous (cmd_read_flash_id, cmd_read_flash_regs).
THEOREM ReportsAlwaysTrue == Spec => []ReportsTrue
  <1>1. Init => ReportsTrue
    BY DEF Init, ReportsTrue
  <1> QED
    BY <1>1, ReportStep, TestInvariant, FlashInvariant, PTL DEF Spec

-----------------------------------------------------------------------------
(* The pass of the benchmark over its array.                               *)

PackStates == [p : Nat, d : [0 .. DATA - 1 -> Int]]
PackRound(k, b) ==
    IF b.d[k - 1] # 0 THEN [p |-> b.p + 1, d |-> [b.d EXCEPT ![b.p] = k - 1]] ELSE b

\* The rounds of the pass.
LEMMA PackLoop ==
    ASSUME NEW from \in [0 .. DATA - 1 -> Int]
    PROVE  \E f \in [0 .. DATA -> PackStates] :
               /\ f[0] = [p |-> 0, d |-> from]
               /\ \A k \in 1 .. DATA : f[k] = PackRound(k, f[k - 1])
               /\ Pack(from) = f[DATA].d
  <1> DEFINE a == [p |-> 0, d |-> from]
             rounds == [k \in 1 .. DATA |-> [b \in PackStates |-> PackRound(k, b)]]
             body(g) == [k \in 0 .. DATA |->
                 IF k = 0 THEN a
                 ELSE LET before == g[k - 1]
                      IN  IF before.d[k - 1] # 0
                          THEN [p |-> before.p + 1, d |-> [before.d EXCEPT ![before.p] = k - 1]]
                          ELSE before]
             pass == CHOOSE g : g = body(g)
             whole(g) == [k \in 0 .. DATA |-> IF k = 0 THEN a ELSE PackRound(k, g[k - 1])]
  <1>0. DATA \in Nat \ {0}
    BY DataAssumption
  <1>1. a \in PackStates
    BY DEF PackStates
  <1>2. ASSUME NEW k \in 1 .. DATA, NEW b \in PackStates PROVE PackRound(k, b) \in PackStates
    <2>1. k - 1 \in Int /\ b.p \in Nat /\ b.p + 1 \in Nat /\ b.d \in [0 .. DATA - 1 -> Int]
      BY <1>0 DEF PackStates
    <2>2. [b.d EXCEPT ![b.p] = k - 1] \in [0 .. DATA - 1 -> Int]
      BY <2>1
    <2> QED
      BY <2>1, <2>2 DEF PackRound, PackStates
  <1>3. rounds \in [1 .. DATA -> [PackStates -> PackStates]]
    BY <1>2
  <1>4. PICK f \in [0 .. DATA -> PackStates] : IsLoop(f, DATA, a, rounds)
    <2>1. DATA \in Nat
      BY <1>0
    <2> HIDE DEF a, rounds
    <2> QED
      BY <1>1, <1>3, <2>1, LoopExists
  <1>5. f[0] = a /\ \A k \in 1 .. DATA : f[k] = PackRound(k, f[k - 1])
    <2>1. \A k \in 1 .. DATA : k - 1 \in 0 .. DATA
      BY <1>0
    <2>2. \A k \in 1 .. DATA : f[k - 1] \in PackStates
      BY <2>1
    <2>3. \A k \in 1 .. DATA : \A b \in PackStates : rounds[k][b] = PackRound(k, b)
      OBVIOUS
    <2> HIDE DEF rounds
    <2> QED
      BY <1>4, <2>2, <2>3 DEF IsLoop
  <1>6. \A g : body(g) = whole(g)
    BY Zenon DEF PackRound
  <1>7. f = whole(f)
    <2>1. \A k \in 0 .. DATA : k # 0 => k \in 1 .. DATA
      BY <1>0
    <2> HIDE DEF a
    <2>2. \A k \in 0 .. DATA : f[k] = whole(f)[k]
      BY <1>5, <2>1
    <2> QED
      BY <2>2
  <1>8. pass = body(pass)
    <2>1. f = body(f)
      <3> HIDE DEF body, whole
      <3> QED
        BY <1>6, <1>7
    <2> QED
      BY <2>1
  <1>9. pass = whole(pass)
    <2> HIDE DEF body, pass
    <2> QED
      BY <1>6, <1>8
  <1>10. \A h : h = whole(h) => h[0] = a /\ \A k \in 1 .. DATA : h[k] = PackRound(k, h[k - 1])
    BY <1>0
  <1>11. pass[0] = a /\ \A k \in 1 .. DATA : pass[k] = PackRound(k, pass[k - 1])
    <2> HIDE DEF whole, pass
    <2> QED
      BY <1>9, <1>10
  <1>12. pass[DATA] = f[DATA]
    <2> DEFINE Good == {k \in Nat : pass[k] = f[k]}
    <2> HIDE DEF pass, a
    <2>1. 0 \in Good
      BY <1>5, <1>11
    <2>2. ASSUME NEW n \in 0 .. DATA - 1, n \in Good PROVE n + 1 \in Good
      <3>1. PICK k \in 1 .. DATA : k = n + 1 /\ k - 1 = n
        BY <1>0
      <3>2. pass[k] = f[k]
        BY <1>5, <1>11, <2>2, <3>1
      <3> QED
        BY <3>1, <3>2
    <2>3. 0 .. DATA \subseteq Good
      <3>1. DATA \in Nat
        BY <1>0
      <3> HIDE DEF Good
      <3> QED
        BY <2>1, <2>2, <3>1, UpTo
    <2> QED
      BY <1>0, <2>3
  <1>13. Pack(from) = pass[DATA].d
    BY Zenon DEF Pack, pass, body, a
  <1> HIDE DEF pass
  <1> QED
    BY <1>5, <1>12, <1>13

\* What the property says of the array before and after a pass.
PackedFrom(from, to) ==
    LET nonzero == {k \in 0 .. DATA - 1 : from[k] # 0}
    IN  \A k \in 0 .. DATA - 1 :
            IF k < Cardinality(nonzero)
            THEN /\ to[k] \in nonzero
                 /\ Cardinality({n \in nonzero : n < to[k]}) = k
            ELSE to[k] = from[k]

\* After k rounds the positions of the nonzero bytes below k are in front, in order, and
\* all else is as it was: a round writes at or below the byte it reads.
LEMMA PassPacks ==
    ASSUME NEW from \in [0 .. DATA - 1 -> Int]
    PROVE  PackedFrom(from, Pack(from))
  <1> DEFINE nz == {k \in 0 .. DATA - 1 : from[k] # 0}
             Below(k) == {n \in nz : n < k}
  <1>0. DATA \in Nat \ {0}
    BY DataAssumption
  <1>1. /\ \A k \in 0 .. DATA : IsFiniteSet(Below(k)) /\ Cardinality(Below(k)) \in Nat
        /\ Cardinality(Below(0)) = 0
        /\ \A k \in 0 .. DATA - 1 :
               Cardinality(Below(k + 1)) = IF from[k] # 0 THEN Cardinality(Below(k)) + 1
                                           ELSE Cardinality(Below(k))
    <2>1. ASSUME NEW k \in 0 .. DATA PROVE IsFiniteSet(Below(k)) /\ Cardinality(Below(k)) \in Nat
      <3>1. IsFiniteSet(0 .. DATA - 1) /\ Below(k) \subseteq 0 .. DATA - 1
        BY <1>0, FS_Interval
      <3> QED
        BY <3>1, FS_Subset, FS_CardinalityType
    <2>2. Cardinality(Below(0)) = 0
      <3>1. Below(0) = {}
        BY <1>0
      <3> QED
        BY <3>1, FS_EmptySet
    <2>3. ASSUME NEW k \in 0 .. DATA - 1
          PROVE  Cardinality(Below(k + 1)) = IF from[k] # 0 THEN Cardinality(Below(k)) + 1
                                             ELSE Cardinality(Below(k))
      <3>1. k \in 0 .. DATA
        BY <1>0
      <3>2. CASE from[k] # 0
        <4>1. Below(k + 1) = Below(k) \cup {k} /\ k \notin Below(k)
          BY <1>0, <3>2
        <4> HIDE DEF Below
        <4> QED
          BY <2>1, <3>1, <3>2, <4>1, FS_AddElement
      <3>3. CASE ~(from[k] # 0)
        <4>1. Below(k + 1) = Below(k)
          BY <1>0, <3>3
        <4> QED
          BY <3>3, <4>1
      <3> QED
        BY <3>2, <3>3
    <2> QED
      BY <2>1, <2>2, <2>3
  <1>2. Cardinality(nz) = Cardinality(Below(DATA))
    <2>1. nz = Below(DATA)
      BY <1>0
    <2> QED
      BY <2>1
  <1> DEFINE C(k) == Cardinality(Below(k))
  <1>3. /\ \A k \in 0 .. DATA : C(k) \in Nat
        /\ C(0) = 0
        /\ \A k \in 0 .. DATA - 1 : C(k + 1) = IF from[k] # 0 THEN C(k) + 1 ELSE C(k)
    BY <1>1
  <1>4. PICK f \in [0 .. DATA -> PackStates] :
            /\ f[0] = [p |-> 0, d |-> from]
            /\ \A k \in 1 .. DATA : f[k] = PackRound(k, f[k - 1])
            /\ Pack(from) = f[DATA].d
    BY PackLoop
  <1> DEFINE Good == {k \in 0 .. DATA :
                         /\ f[k].p = C(k) /\ C(k) <= k
                         /\ \A j \in 0 .. DATA - 1 :
                                IF j < C(k) THEN f[k].d[j] \in nz /\ C(f[k].d[j]) = j
                                ELSE f[k].d[j] = from[j]}
  <1> HIDE DEF C
  <1>5. 0 \in Good
    <2>1. f[0].p = 0 /\ f[0].d = from
      BY <1>4
    <2>2. \A j \in 0 .. DATA - 1 : ~(j < 0)
      BY <1>0
    <2> QED
      BY <1>0, <1>3, <2>1, <2>2
  <1>6. ASSUME NEW m \in 0 .. DATA - 1, m \in Good PROVE m + 1 \in Good
    <2>1. PICK k \in 1 .. DATA : k = m + 1 /\ k - 1 = m /\ k \in 0 .. DATA /\ m \in 0 .. DATA
      BY <1>0
    <2> DEFINE b == f[m]
               c == C(m)
    <2>2. /\ b.p = c /\ c <= m /\ c \in Nat /\ c \in 0 .. DATA - 1
          /\ \A j \in 0 .. DATA - 1 : IF j < c THEN b.d[j] \in nz /\ C(b.d[j]) = j ELSE b.d[j] = from[j]
      BY <1>0, <1>3, <1>6, <2>1
    <2>3. b.d \in [0 .. DATA - 1 -> Int]
      BY <2>1 DEF PackStates
    <2>4. f[k] = PackRound(k, b) /\ b.d[m] = from[m] /\ k \in Nat /\ k = m + 1
      <3>1. ~(m < c)
        BY <1>0, <2>2
      <3> QED
        BY <1>4, <2>1, <2>2, <3>1
    <2>5. C(k) = IF from[m] # 0 THEN c + 1 ELSE c
      BY <1>3, <2>1
    <2> HIDE DEF b, c
    <2>6. CASE from[m] # 0
      <3>1. f[k] = [p |-> c + 1, d |-> [b.d EXCEPT ![c] = m]]
        BY <2>1, <2>2, <2>4, <2>6 DEF PackRound
      <3>2. f[k].p = c + 1 /\ C(k) = c + 1 /\ c + 1 <= k
        BY <2>1, <2>2, <2>5, <2>6, <3>1
      <3>3. ASSUME NEW j \in 0 .. DATA - 1
            PROVE  IF j < c + 1 THEN f[k].d[j] \in nz /\ C(f[k].d[j]) = j ELSE f[k].d[j] = from[j]
        <4>1. f[k].d[j] = IF j = c THEN m ELSE b.d[j]
          <5>1. f[k].d = [b.d EXCEPT ![c] = m]
            BY <3>1
          <5> DEFINE e == [b.d EXCEPT ![c] = m]
          <5>2. e[j] = IF j = c THEN m ELSE b.d[j]
            BY <2>3
          <5> QED
            BY <5>1, <5>2
        <4>2. m \in nz
          BY <2>6
        <4>3. C(m) = c
          BY DEF c
        <4>4. CASE j = c
          <5>1. j < c + 1
            BY <2>2, <4>4
          <5> QED
            BY <4>1, <4>2, <4>3, <4>4, <5>1
        <4>5. CASE j # c
          <5>1. j < c + 1 <=> j < c
            BY <2>2, <4>5
          <5> QED
            BY <2>2, <4>1, <4>5, <5>1
        <4> QED
          BY <4>4, <4>5
      <3> QED
        BY <2>1, <3>2, <3>3
    <2>7. CASE ~(from[m] # 0)
      <3>1. f[k] = b /\ C(k) = c /\ c <= k
        BY <2>1, <2>2, <2>4, <2>5, <2>7 DEF PackRound
      <3> QED
        BY <2>1, <2>2, <3>1
    <2> QED
      BY <2>6, <2>7
  <1>7. 0 .. DATA \subseteq Good
    <2>1. DATA \in Nat
      BY <1>0
    <2> HIDE DEF Good
    <2> QED
      BY <1>5, <1>6, <2>1, UpTo
  <1>8. ASSUME NEW j \in 0 .. DATA - 1
        PROVE  IF j < C(DATA) THEN Pack(from)[j] \in nz /\ C(Pack(from)[j]) = j
               ELSE Pack(from)[j] = from[j]
    <2>1. DATA \in 0 .. DATA
      BY <1>0
    <2> QED
      BY <1>4, <1>7, <2>1
  <1>9. \A k : C(k) = Cardinality({n \in nz : n < k})
    BY DEF C
  <1>10. C(DATA) = Cardinality(nz)
    BY <1>2 DEF C
  <1> HIDE DEF nz
  <1>11. \A j \in 0 .. DATA - 1 :
            IF j < Cardinality(nz)
            THEN Pack(from)[j] \in nz /\ Cardinality({n \in nz : n < Pack(from)[j]}) = j
            ELSE Pack(from)[j] = from[j]
    BY <1>8, <1>9, <1>10
  <1> QED
    BY <1>11 DEF PackedFrom, nz

\* The benchmark's pass packs the positions of the nonzero bytes, in order, though
\* it reads and writes the same array (cmd_benchmark): for arrays of every length
\* and with every content.
THEOREM PassAlwaysPacks == Spec => []PackedInOrder
  <1> DEFINE Inv == data # <<>> => PackedFrom(data.from, data.to)
  <1>1. Init => Inv
    BY DEF Init
  <1>2. Inv /\ [Next]_vars => Inv'
    <2> SUFFICES ASSUME Inv, [Next]_vars PROVE Inv'
      OBVIOUS
    <2>1. CASE RunBenchmark
      <3>1. PICK from \in [0 .. DATA - 1 -> {0, NONZERO}] : data' = [from |-> from, to |-> Pack(from)]
        BY <2>1 DEF RunBenchmark
      <3>2. from \in [0 .. DATA - 1 -> Int]
        BY DEF NONZERO
      <3>3. PackedFrom(from, Pack(from))
        BY <3>2, PassPacks
      <3> QED
        BY <3>1, <3>3
    <2>2. CASE TakeEnter \/ TakeCommand
      <3>1. data' = <<>>
        BY <2>2 DEF TakeEnter, TakeCommand
      <3> QED
        BY <3>1
    <2>3. CASE Operation /\ ~RunBenchmark
      <3>1. data' = data
        BY <2>3 DEF Operation, PrintNumber, ShowField, SetLeds, StoreSpiCtrl, FlashRead, FlashWrite,
                    PrintRegister, memVars
      <3> QED
        BY <3>1
    <2>4. CASE Remind \/ ShowMenu \/ Echo \/ Type \/ UNCHANGED vars
      <3>1. data' = data
        BY <2>4 DEF Remind, ShowMenu, Echo, Type, vars, memVars
      <3> QED
        BY <3>1
    <2>5. CASE FillWord \/ VerifyWord \/ FillByte \/ VerifyByte
      <3>1. data' = data
        BY <2>5 DEF FillWord, VerifyWord, FillByte, VerifyByte, Testing
      <3> QED
        BY <3>1
    <2> QED
      BY <2>1, <2>2, <2>3, <2>4, <2>5, Zenon DEF Next, ProgramStep
  <1>3. Inv => PackedInOrder
    BY DEF PackedInOrder, PackedFrom
  <1> QED
    BY <1>1, <1>2, <1>3, PTL DEF Spec
=============================================================================

-------------------------- MODULE PicoSocFirmware ---------------------------
(***************************************************************************)
(* The demonstration firmware of PicoSoC (picosoc/firmware.c) for both     *)
(* boards, with the registers it uses: the configuration of the flash      *)
(* controller, the data register of the UART with its one-byte buffer, the *)
(* LEDs and the registers of the flash chip.  A user types at any time.    *)
(*                                                                         *)
(* Straight-line code is a sequence of operations, `todo', one step each;  *)
(* loops and everything that depends on input are actions.  Fixed texts    *)
(* are left out, but for those that give a verdict.                        *)
(*                                                                         *)
(* The program itself is in the flash.  What it does to controller and     *)
(* chip decides whether its next instruction is still read: if not, it is  *)
(* lost (pc = "lost"), and the words that are run then are not modelled.   *)
(***************************************************************************)
EXTENDS Integers, Sequences, FiniteSets, SequencesExt

CONSTANTS
    BOARDS,      \* "HX8KDEMO", "ICEBREAKER"
    KEYS,        \* characters the user types
    TYPED,       \* bound on them
    REPS,        \* prompts before the menu is shown again (10)
    LATENCIES,   \* highest latency benchmarked (8)
    CYCLES,      \* rounds of the word test (5)
    MEM_TOTAL,   \* bytes of memory on each board (512 and 131072)
    STRIDE,      \* bytes between two words of the word test (1024)
    TEST_BYTES,  \* bytes of the byte test (128)
    LINES,       \* address lines of the memory that may be stuck at 0
    DATA         \* bytes of the benchmark's array (256)

ASSUME BoardAssumption   == BOARDS \subseteq {"HX8KDEMO", "ICEBREAKER"}
ASSUME RepsAssumption    == REPS \in Nat \ {0}
ASSUME LatencyAssumption == LATENCIES \in 1 .. 15
ASSUME DataAssumption    == DATA \in Nat \ {0}
ASSUME MemoryAssumption  ==
    /\ MEM_TOTAL \in [BOARDS -> Nat \ {0}]
    /\ STRIDE \in Nat \ {0} /\ TEST_BYTES \in Nat \ {0}
    /\ \A b \in BOARDS : MEM_TOTAL[b] <= 2 ^ 25      \* the registers are at 02000000
    /\ TEST_BYTES <= 2 ^ 25

VARIABLES
    board,
    stuck,               \* in a memory test: the stuck address line, or NONE
    pc, todo,            \* where the program is, operations before it goes on
    rep,                 \* prompts left
    spictrl,             \* the configuration register: [ddr, qspi, cont, latency]
    chip,                \* the flash: [bits, latency] of its registers, bits at power-up
                         \* (found), the mode it reads continuously in (xip; Spi: none),
                         \* whether FF on one lane ends that on two (ends)
    buffer,              \* values flashio brought, the oldest in front
    leds,
    uart,                \* received byte or EMPTY
    ram, round, at,      \* memory test: cells written, i, the address of word or byte
    data,                \* benchmark: [from, to], the array before and after a pass
    screen,              \* since the last command
    typed                \* characters typed so far

vars == <<board, stuck, pc, todo, rep, spictrl, chip, buffer, leds, uart, ram, round, at, data,
          screen, typed>>
rigid   == <<board, stuck>>
memVars == <<ram, round, at, data>>
ioVars  == <<leds, uart, typed>>
spiVars == <<spictrl, chip, buffer>>

EMPTY == "none"
NONE  == -1
ON    == -1            \* ~0

Mode(ddr, qspi, cont) == [ddr |-> ddr, qspi |-> qspi, cont |-> cont]
Spi    == Mode(FALSE, FALSE, FALSE)
Dual   == Mode(TRUE, FALSE, FALSE)
Quad   == Mode(FALSE, TRUE, FALSE)
Qddr   == Mode(TRUE, TRUE, FALSE)
Crm(m) == [m EXCEPT !.cont = TRUE]

SpiCtrl(m, latency) == [ddr |-> m.ddr, qspi |-> m.qspi, cont |-> m.cont, latency |-> latency]
ModeOf(c) == Mode(c.ddr, c.qspi, c.cont)
Lanes(c)  == Mode(c.ddr, c.qspi, FALSE)       \* whether reads are continuous or not

Hx8k == board = "HX8KDEMO"

-----------------------------------------------------------------------------
(* Numbers.                                                                *)

\* print_dec: at most three digits, a hundreds or tens digit only if not 0.
print_dec(v) ==
    LET h == v \div 100
        t == (v % 100) \div 10
    IN  IF v >= 1000 THEN <<">=1000">>
        ELSE (IF h > 0 THEN <<h>> ELSE <<>>) \o (IF t > 0 THEN <<t>> ELSE <<>>) \o <<v % 10>>

\* print_hex: the nibbles i = 7 .. 0, of which zeros are skipped as long as `digits'
\* is not above i; a printed one becomes the limit.
print_hex(v, digits) ==
    LET nibble(i) == (v \div 16 ^ i) % 16
        after[n \in 0 .. 8] ==
            IF n = 0 THEN [limit |-> digits, out |-> <<>>]
            ELSE LET before == after[n - 1]
                     i      == 8 - n
                 IN  IF nibble(i) = 0 /\ i >= before.limit THEN before
                     ELSE [limit |-> i, out |-> Append(before.out, nibble(i))]
    IN  after[8].out

-----------------------------------------------------------------------------
(* Operations of straight-line code.                                       *)

Op(op, arg)        == [op |-> op, arg |-> arg]
Leds(v)            == Op("leds", v)
Show(field)        == Op("show", field)             \* one field of reg_spictrl
Store(mode, latency) == Op("store", SpiCtrl(mode, latency))
KEEP               == -1                            \* the store keeps the latency
Toggle             == Op("toggle", 0)
Read(reg)          == Op("read", reg)               \* flashio of a read command
Write(reg, v, wren) == Op("write", [reg |-> reg, v |-> v, wren |-> wren])
Register(reg)      == Op("register", reg)           \* print what was read
Benchmark(label)   == Op("benchmark", {label})
Verbose            == Op("benchmark", {})           \* prints counts and a sum instead

QUAD_BIT == 1

\* The boards' own versions of the functions that set up the flash.
set_flash_qspi_flag ==
    IF Hx8k THEN <<Read("CR1V"), Write("CR1V", KEEP, 6)>>
            ELSE <<Read("SR2"), Write("SR2", KEEP, 80)>>

MutSetFlashLatency(v) == <<Write("CR3V", v, 6), Store(Spi, v)>>
set_flash_latency(v) == <<Store(Spi, v), Write("CR3V", v, 6)>>

\* ICEBREAKER's mode functions set the dummy cycles of the mode's command.
Dummies(mode) == IF mode.qspi THEN (IF mode.ddr THEN 7 ELSE 4) ELSE 0
set_flash_mode(mode) == <<Store(mode, IF Hx8k THEN KEEP ELSE Dummies(mode))>>

cmd_print_spi_state == <<Show("latency"), Show("ddr"), Show("qspi"), Show("cont")>>
cmd_read_flash_id   == <<Read("ID"), Register("ID")>>

FlashRegisters == <<"SR1V", "SR2V", "CR1V", "CR2V", "CR3V", "VDLP">>
cmd_read_flash_regs_print(k) ==
    set_flash_latency(8) \o <<Read(FlashRegisters[k]), Op("hex", <<8388607 + k, 6>>),
                              Register(FlashRegisters[k])>>

\* ICEBREAKER reads its three registers before it prints a bit of them.
cmd_read_flash_reg(reg) == Read(reg)
print_reg_bit(reg)      == Register(reg)
cmd_read_flash_regs ==
    IF Hx8k
    THEN FlattenSeq([k \in 1 .. 6 |-> cmd_read_flash_regs_print(k)])
    ELSE <<cmd_read_flash_reg("SR1"), cmd_read_flash_reg("SR2"), cmd_read_flash_reg("SR3"),
           print_reg_bit("SR1"), print_reg_bit("SR2"), print_reg_bit("SR3")>>

\* HX8KDEMO: one mode, latency by latency down to 1.
MutMeasure(mode) ==
    FlattenSeq([k \in 1 .. LATENCIES |->
        LET i == LATENCIES - k + 1
        IN  <<Store(mode, KEEP)>> \o set_flash_latency(i) \o <<Benchmark(SpiCtrl(mode, i))>>])
Measure(mode) ==
    FlattenSeq([k \in 1 .. LATENCIES |->
        LET i == LATENCIES - k + 1
        IN  set_flash_latency(i) \o <<Store(mode, KEEP), Benchmark(SpiCtrl(mode, i))>>])

BenchmarkAllHx8k ==
    <<Store(Spi, KEEP), Benchmark(SpiCtrl(Spi, KEEP))>>
    \o Measure(Dual) \o Measure(Crm(Dual)) \o Measure(Quad) \o Measure(Crm(Quad))
    \o Measure(Qddr) \o Measure(Crm(Qddr))

enable_flash_crm == Op("crm", 0)

BenchmarkAllIcebreaker ==
    LET measured(mode) == Benchmark(SpiCtrl(mode, KEEP))
    IN  set_flash_mode(Spi) \o <<measured(Spi)>> \o set_flash_mode(Dual) \o <<measured(Dual)>>
        \o set_flash_mode(Quad) \o <<measured(Quad), enable_flash_crm, measured(Crm(Quad))>>
        \o set_flash_mode(Qddr) \o <<measured(Qddr), enable_flash_crm, measured(Crm(Qddr))>>

cmd_benchmark_all == IF Hx8k THEN BenchmarkAllHx8k ELSE BenchmarkAllIcebreaker

Boot ==
    <<Leds(31), Leds(63)>> \o set_flash_qspi_flag \o <<Leds(127)>>

MEM_KIB == IF Hx8k THEN 0 ELSE 128
Banner  == <<Op("dec", MEM_KIB)>> \o cmd_print_spi_state

\* The menu's commands but the memory test and the echo.
Commands == {"1", "2", "3", "4", "5", "6", "7", "9", "0", "S"}
Command(c) ==
    CASE c = "1" -> cmd_read_flash_id
      [] c = "2" -> cmd_read_flash_regs
      [] c = "3" -> set_flash_mode(Spi)
      [] c = "4" -> set_flash_mode(Dual)
      [] c = "5" -> set_flash_mode(Quad)
      [] c = "6" -> set_flash_mode(Qddr)
      [] c = "7" -> <<Toggle>>
      [] c = "9" -> <<Verbose>>
      [] c = "0" -> cmd_benchmark_all
      [] c = "S" -> cmd_print_spi_state

-----------------------------------------------------------------------------
Init ==
    /\ board \in BOARDS /\ stuck = NONE
    /\ pc = "enter" /\ todo = Boot
    /\ rep = 0
    /\ spictrl = SpiCtrl(Spi, 8)
    /\ \E bits \in {{}, {5}}, ends \in BOOLEAN :
          chip = [bits |-> bits, latency |-> 8, found |-> bits, xip |-> Spi, ends |-> ends]
    /\ buffer = <<>> /\ leds = 15 /\ uart = EMPTY
    /\ ram = <<>> /\ round = 0 /\ at = 0 /\ data = <<>>
    /\ screen = <<>> /\ typed = 0

\* The next operation.
Due(op)   == todo # <<>> /\ Head(todo).op = op
Arg       == Head(todo).arg
Doing(op) == Due(op) /\ todo' = Tail(todo)
Output(x) == screen' = Append(screen, x)

PrintNumber ==
    /\ \/ Doing("dec") /\ Output(<<"dec", Arg, print_dec(Arg)>>)
       \/ Doing("hex") /\ Output(<<"hex", Arg, print_hex(Arg[1], Arg[2])>>)
    /\ UNCHANGED <<rigid, pc, rep, spiVars, ioVars, memVars>>

ShowField ==
    /\ Doing("show")
    /\ IF Arg = "latency" THEN Output(<<"dec", spictrl.latency, print_dec(spictrl.latency)>>)
                          ELSE Output(<<"state", Arg, spictrl[Arg]>>)
    /\ UNCHANGED <<rigid, pc, rep, spiVars, ioVars, memVars>>

SetLeds ==
    /\ Doing("leds") /\ leds' = Arg
    /\ UNCHANGED <<rigid, pc, rep, spiVars, uart, typed, memVars, screen>>

\* Clocks between the mode byte and the data, as the chip counts them: HX8KDEMO's by its
\* register, ICEBREAKER's by the command.
DummyClocks(f, c) == IF Hx8k THEN f.latency ELSE IF c.qspi THEN (IF c.ddr THEN 7 ELSE 4) ELSE 0

\* A store and the end of a flashio restart the controller.  It sends FF on one lane,
\* which ends a continuous read on four lanes.  On two lanes it is two bytes of an address to
\* spiflash.v; the chip that performance.py was recorded with was brought back by it.
AfterFF(f) == [f EXCEPT !.xip = IF @ = Dual /\ ~f.ends THEN Dual ELSE Spi]

\* The chip f answers reads of a controller set to c: it takes the command, has its four
\* lanes enabled, and waits as long as the controller.  A controller that reads
\* continuously omits its next command, so a mode byte must have announced that.
Answers(f, c) ==
    /\ f.xip = Spi
    /\ c.cont => c.ddr \/ c.qspi
    /\ c.qspi => QUAD_BIT \in f.bits
    /\ c.ddr \/ c.qspi => c.latency = DummyClocks(f, c)

\* The controller restarts with c and a chip f, and the program is read on, or lost.
Restart(c, f) ==
    LET chipNow == AfterFF(f)
    IN  /\ spictrl' = c
        /\ IF Answers(chipNow, c)
           THEN /\ chip' = [chipNow EXCEPT !.xip = IF c.cont THEN Lanes(c) ELSE Spi]
                /\ todo' = Tail(todo) /\ UNCHANGED pc
           ELSE chip' = chipNow /\ todo' = <<>> /\ pc' = "lost"

StoreSpiCtrl ==
    /\ \/ /\ Due("store")
          /\ Restart([Arg EXCEPT !.latency = IF @ = KEEP THEN spictrl.latency ELSE @], chip)
       \/ Due("toggle") /\ Restart([spictrl EXCEPT !.cont = ~@], chip)
       \/ Due("crm") /\ Restart([spictrl EXCEPT !.cont = TRUE], chip)
    /\ UNCHANGED <<rigid, rep, buffer, ioVars, memVars, screen>>

\* A chip that reads continuously takes the command for an address; the clocks of the
\* worker pass the mode byte, which is not A5, and end that.
Contents(reg) ==
    IF reg \in {"CR1V", "SR2"} THEN <<"bits", chip.bits>>
    ELSE IF reg = "CR3V" THEN <<"latency", chip.latency>> ELSE <<"factory", reg>>
Answer(reg) == IF chip.xip = Spi THEN Contents(reg) ELSE <<"noise">>
Clocked(f)  == [f EXCEPT !.xip = Spi]

FlashRead ==
    /\ Due("read") /\ buffer' = Append(buffer, Answer(Arg))
    /\ Restart(spictrl, Clocked(chip))
    /\ UNCHANGED <<rigid, rep, ioVars, memVars, screen>>

\* A write counts if a write enable went before it.  A KEEP value is the one read
\* last, with the quad flag.
Written ==
    IF chip.xip # Spi \/ Arg.wren = 0 THEN chip
    ELSE IF Arg.reg = "CR3V" THEN [chip EXCEPT !.latency = Arg.v]
    ELSE [chip EXCEPT !.bits = Head(buffer)[2] \cup {QUAD_BIT}]
FlashWrite ==
    /\ Due("write") /\ buffer' = <<>>
    /\ Restart(spictrl, Clocked(Written))
    /\ UNCHANGED <<rigid, rep, ioVars, memVars, screen>>

PrintRegister ==
    /\ Doing("register") /\ Output(<<"register", Arg, Head(buffer), Contents(Arg), spictrl.cont>>)
    /\ buffer' = Tail(buffer)
    /\ UNCHANGED <<rigid, pc, rep, spictrl, chip, ioVars, memVars>>

\* One pass over the array: the positions of its nonzero bytes move to the front.
\* `data' keeps the pass until the next operation.
NONZERO == 255
MutPack(from) ==
    LET pass[k \in 0 .. DATA] ==
            IF k = 0 THEN [p |-> 0, d |-> from]
            ELSE LET before == pass[k - 1]
                 IN  IF before.d[k - 1] # 0
                     THEN [p |-> before.p + 1, d |-> [before.d EXCEPT ![DATA - 1 - before.p] = k - 1]]
                     ELSE before
    IN  pass[DATA].d
Pack(from) ==
    LET pass[k \in 0 .. DATA] ==
            IF k = 0 THEN [p |-> 0, d |-> from]
            ELSE LET before == pass[k - 1]
                 IN  IF before.d[k - 1] # 0
                     THEN [p |-> before.p + 1, d |-> [before.d EXCEPT ![before.p] = k - 1]]
                     ELSE before
    IN  pass[DATA].d

RunBenchmark ==
    /\ Doing("benchmark")
    /\ \E from \in [0 .. DATA - 1 -> {0, NONZERO}] : data' = [from |-> from, to |-> Pack(from)]
    /\ Output(<<"benchmark", Arg, spictrl, chip.latency>>)
    /\ UNCHANGED <<rigid, pc, rep, spiVars, ioVars, ram, round, at>>

Operation ==
    \/ PrintNumber \/ ShowField \/ SetLeds \/ StoreSpiCtrl
    \/ FlashRead \/ FlashWrite \/ PrintRegister \/ RunBenchmark

-----------------------------------------------------------------------------
(* Waiting for a character: getchar_prompt, called from `pc'.              *)

Waiting == todo = <<>> /\ pc \in {"enter", "command", "echo"}

\* The LEDs light up at the call and change every 12000000 cycles.
Remind ==
    /\ Waiting /\ uart = EMPTY
    /\ leds' = IF leds = ON THEN 0 ELSE ON
    /\ UNCHANGED <<rigid, pc, todo, rep, spiVars, uart, typed, memVars, screen>>

\* The character is taken; the data register is empty again.
Take == Waiting /\ uart # EMPTY /\ uart' = EMPTY /\ leds' = 0

\* What the screen showed before the command is of no use any more.
TakeEnter ==
    /\ pc = "enter" /\ Take
    /\ IF uart = "enter" THEN pc' = "menu" /\ todo' = Banner ELSE UNCHANGED <<pc, todo>>
    /\ screen' = <<>> /\ data' = <<>>
    /\ UNCHANGED <<rigid, rep, spiVars, typed, ram, round, at>>

ShowMenu ==
    /\ pc = "menu" /\ todo = <<>>
    /\ pc' = "command" /\ rep' = REPS
    /\ UNCHANGED <<rigid, todo, spiVars, ioVars, memVars, screen>>

\* A known command runs and the menu comes again; others use up a prompt.
TakeCommand ==
    /\ pc = "command" /\ Take
    /\ screen' = <<>> /\ data' = <<>>
    /\ CASE uart \in Commands -> pc' = "menu" /\ todo' = Command(uart) /\ UNCHANGED rep
         [] uart = "M" -> pc' = "fill" /\ UNCHANGED <<todo, rep>>
         [] uart = "e" -> pc' = "echo" /\ UNCHANGED <<todo, rep>>
         [] OTHER -> /\ rep' = rep - 1
                     /\ pc' = IF rep > 1 THEN "command" ELSE "menu"
                     /\ UNCHANGED todo
    /\ IF uart = "M" THEN round' = 1 /\ at' = 0 /\ stuck' \in LINES \cup {NONE}
                     ELSE stuck' = NONE /\ UNCHANGED <<round, at>>
    /\ ram' = <<>>       \* no later code reads what a test left
    /\ UNCHANGED <<board, spiVars, typed>>

\* putchar sends a carriage return before a line feed.
putchar(c) == IF c = "\n" THEN <<<<"char", "\r">>, <<"char", "\n">>>> ELSE <<<<"char", c>>>>

Echo ==
    /\ pc = "echo" /\ Take
    /\ IF uart = "!" THEN pc' = "menu" /\ UNCHANGED screen
                     ELSE screen' = screen \o putchar(uart) /\ UNCHANGED pc
    /\ UNCHANGED <<rigid, todo, rep, spiVars, typed, memVars>>

-----------------------------------------------------------------------------
(* cmd_memtest.                                                            *)

\* The cell an address reaches; what was stored there last.
Cell(a)   == IF stuck # NONE /\ (a \div 2 ^ stuck) % 2 = 1 THEN a - 2 ^ stuck ELSE a
Stored(a) == ram[Cell(a)]
Put(a, v) == ram' = [c \in DOMAIN ram \cup {Cell(a)} |-> IF c = Cell(a) THEN v ELSE ram[c]]

\* The numbers xorshift32 makes of the seed i, and the bytes: all different here.
xorshift32(i, address) == <<i, address>>
Byte(address)          == <<0, address>>

\* On to the next address, or after the last one to another loop.
Walk(step, limit, then) ==
    IF at + step < limit THEN at' = at + step /\ UNCHANGED pc ELSE at' = 0 /\ pc' = then

Testing(loop) ==
    /\ pc = loop /\ todo = <<>>
    /\ UNCHANGED <<rigid, todo, rep, spiVars, ioVars, data>>

\* A loop's verdict ends the test.
Verdict(v) == Output(v) /\ pc' = "menu" /\ UNCHANGED at

MutFillWord ==
    /\ Testing("fill") /\ Put(at, xorshift32(round, 0))
    /\ Walk(STRIDE, MEM_TOTAL[board], "verify") /\ UNCHANGED <<round, screen>>
FillWord ==
    /\ Testing("fill") /\ Put(at, xorshift32(round, at))
    /\ Walk(STRIDE, MEM_TOTAL[board], "verify") /\ UNCHANGED <<round, screen>>

MutVerifyWord ==
    /\ Testing("verify") /\ UNCHANGED <<ram, round>>
    /\ IF Stored(at) # xorshift32(round, at)
       THEN Verdict(<<"word", <<at, 4>>, print_hex(at, 4)>>)
       ELSE /\ Walk(STRIDE, MEM_TOTAL[board], IF round < CYCLES THEN "fill" ELSE "fill bytes")
            /\ UNCHANGED screen
VerifyWord ==
    /\ Testing("verify") /\ UNCHANGED ram
    /\ IF Stored(at) # xorshift32(round, at)
       THEN Verdict(<<"word", <<at, 4>>, print_hex(at, 4)>>) /\ UNCHANGED round
       ELSE /\ Walk(STRIDE, MEM_TOTAL[board], IF round < CYCLES THEN "fill" ELSE "fill bytes")
            /\ round' = IF pc' = "fill" THEN round + 1 ELSE round
            /\ UNCHANGED screen

FillByte ==
    /\ Testing("fill bytes") /\ Put(at, Byte(at))
    /\ Walk(1, TEST_BYTES, "verify bytes") /\ UNCHANGED <<round, screen>>

VerifyByte ==
    /\ Testing("verify bytes") /\ UNCHANGED <<ram, round>>
    /\ IF Stored(at) # Byte(at) THEN Verdict(<<"byte", <<at, 4>>, print_hex(at, 4)>>)
       ELSE IF at + 1 = TEST_BYTES THEN Verdict(<<"passed">>)
       ELSE at' = at + 1 /\ UNCHANGED <<pc, screen>>

-----------------------------------------------------------------------------
\* A character arrives; one not read yet is overwritten.
Type ==
    /\ typed < TYPED /\ typed' = typed + 1
    /\ uart' \in KEYS
    /\ UNCHANGED <<rigid, pc, todo, rep, spiVars, leds, memVars, screen>>

ProgramStep ==
    \/ Operation \/ Remind \/ TakeEnter \/ ShowMenu \/ TakeCommand \/ Echo
    \/ FillWord \/ VerifyWord \/ FillByte \/ VerifyByte

Next == ProgramStep \/ Type
Spec == Init /\ [][Next]_vars
FairSpec == Spec /\ WF_vars(ProgramStep)

-----------------------------------------------------------------------------
(* What the firmware promises.                                             *)

\* The firmware never gives the flash a configuration that the chip cannot follow: at no
\* moment, between two stores or two writes of the flash either, another number of dummy
\* clocks than the chip's or a quad mode without the quad bit.  A program is lost only
\* by a store while a chip reads continuously on two lanes that FF does not bring back, or
\* by continuous reads in a mode without a mode byte.  In setting the quad bit no other
\* bit of the chip's register is changed.
FlashMatches ==
    /\ pc = "lost" => \/ chip.xip = Dual /\ ~chip.ends
                      \/ spictrl.cont /\ ~spictrl.ddr /\ ~spictrl.qspi
    /\ chip.bits \ {QUAD_BIT} = chip.found \ {QUAD_BIT}

\* What is printed is true.  A benchmark line is headed by the mode and the latency
\* that was measured, of the controller and of the chip; the digits of a number
\* are those of its value, in hexadecimal as many as asked for or more, without a
\* leading zero among those; a register line is what the chip holds, unless reads are
\* continuous, when no register can be read.
LabelTrue(line) == \A label \in line[2] :
    /\ ModeOf(label) = ModeOf(line[3])
    /\ label.latency # KEEP => label.latency = line[3].latency /\ label.latency = line[4]
DigitsTrue(v, base, digits, least) ==
    /\ FoldLeft(LAMBDA sum, d : base * sum + d, 0, digits) = v
    /\ Len(digits) >= least
    /\ Len(digits) > least => digits[1] # 0
LineTrue(line) ==
    CASE line[1] = "benchmark" -> LabelTrue(line)
      [] line[1] = "dec" -> DigitsTrue(line[2], 10, line[3], 1)
      [] line[1] = "register" -> line[5] \/ line[3] = line[4]
      [] line[1] \in {"hex", "word", "byte"} -> DigitsTrue(line[2][1], 16, line[3], line[2][2])
      [] OTHER -> TRUE
ReportsTrue == \A k \in DOMAIN screen : LineTrue(screen[k])

\* The memory test passes exactly when no two addresses of one of its walks reach
\* the same cell, and names the first address that lost its value to another.
WordAddresses == {a \in 0 .. MEM_TOTAL[board] - 1 : a % STRIDE = 0}
ByteAddresses == 0 .. TEST_BYTES - 1
FirstLost(a, walk) == a = CHOOSE x \in walk :
    /\ \E b \in walk : b > x /\ Cell(b) = Cell(x)
    /\ \A y \in walk : y < x => ~\E b \in walk : b > y /\ Cell(b) = Cell(y)
Distinct(walk) == \A a, b \in walk : Cell(a) = Cell(b) => a = b
MemtestVerdict == \A k \in DOMAIN screen :
    /\ screen[k][1] = "passed" => Distinct(WordAddresses) /\ Distinct(ByteAddresses)
    /\ screen[k][1] = "word" => ~Distinct(WordAddresses) /\ FirstLost(screen[k][2][1], WordAddresses)
    /\ screen[k][1] = "byte" => ~Distinct(ByteAddresses) /\ FirstLost(screen[k][2][1], ByteAddresses)

\* The benchmark's pass packs the positions of the nonzero bytes, in order, in
\* front of bytes it leaves alone, though it reads and writes the same array: byte
\* k becomes the position of the nonzero byte that k others come before.
PackedInOrder ==
    data # <<>> =>
        LET nonzero == {k \in 0 .. DATA - 1 : data.from[k] # 0}
        IN  \A k \in 0 .. DATA - 1 :
                IF k < Cardinality(nonzero)
                THEN /\ data.to[k] \in nonzero
                     /\ Cardinality({n \in nonzero : n < data.to[k]}) = k
                ELSE data.to[k] = data.from[k]

\* Whatever the firmware is doing, a character that arrived is read in the end, if the
\* program is not lost: every command and the memory test return to the prompt.
KeyIsRead == uart # EMPTY ~> (uart = EMPTY \/ pc = "lost")
=============================================================================

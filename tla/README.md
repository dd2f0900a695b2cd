# PicoRV32 with a neural MAC coprocessor: TLA+ models

This directory holds TLA+ models of the hardware and software in this
repository: the picorv32 processor core (`picorv32.v`) with its co-processors,
the DE2 board system that runs a quantized neural network on it (`neural/`), the
PicoSoC (`picosoc/`), and the programs that run on them. TLC model-checks them on
small instances; TLAPS proves some of their invariants for every instance.

Paths are relative to `src/`. One step of a hardware model is one rising edge of
`clk`: a Verilog register is a variable, a wire is an operator, and the
non-blocking assignments of an edge are the primed variables of one action. One
step of a software model is a statement, or a loop body, between two accesses
to what others can change.

1. [The system](#1-the-system)
2. [Plan](#2-plan)
3. [Modules and code](#3-modules-and-code)
4. [Runs](#4-runs)
5. [Bounds](#5-bounds)
6. [Fairness](#6-fairness)
7. [Proofs](#7-proofs)
8. [Where code and documentation disagree](#8-where-code-and-documentation-disagree)
9. [What is not modelled](#9-what-is-not-modelled)

## 1. The system

```
             +------------------------- picorv32 --------------------------+
 irq ------> | interrupts, timer                                           |
             |        |                                                    |
             |  main state machine --pcpi_valid/insn/rs1/rs2--> PCPI mux --+--> MAC4 (neural/rtl)
             |   |  ^      ^     <--ready/wait/wr/rd-----        |         |
             |   |  |      |                                mul, fast_mul, |
             |   |  |   decoder (2 stages)                       div       |
             |  mem_do_*   |  ^                                            |
             |   v  |   triggers, mem_rdata_latched                        |
             |  memory interface --mem_valid/instr/addr/wdata/wstrb--------+--> bus
             +-------------------------------------------------------------+
 bus: DE2 controller (RAM, switches, LEDs, console) | PicoSoC (SRAM, SPI flash, UART)
      | AXI4-Lite adapter | Wishbone bridge
```

### Processor core

| Part | State | Operations | What is hard | What makes it correct |
| --- | --- | --- | --- | --- |
| Memory interface (`picorv32.v:350-620`) | `mem_state` 0..3, the bus outputs, the buffer of the upper halfword, `mem_la_*` bookkeeping | start a read or write, wait, second word of a split instruction, complete, hold a prefetch | the memory answers after any delay; a prefetch can be answered before or after the instruction is asked for; `next_pc` moves while a transfer runs; a long instruction may lie across two words; the kept halfword may be stale | one request at a time; a request stays unchanged until answered; the buffer is used only for the halfword it holds; a look-ahead pulse announces a transfer |
| Decoder (`:628-1128`) | first-stage flags, second-stage flags, two triggers | decode the first stage as the fetch completes, the second one cycle later | the first stage is overwritten by the next instruction while a branch, load or store still reads it; a data load overwrites `mem_rdata_q` | the decoded instruction is the one at the pc it runs for |
| Main state machine, ALU timing (`:1190-1970`) | `cpu_state`, `reg_pc`, `reg_next_pc`, `reg_out`, `latched_*`, `reg_sh`, ALU pipeline registers | launch, load operands, execute, shift, store, load, trap | write-back is deferred to the next fetch; branches discard a fetch that is on its way; results come one or two cycles late in some configurations | instructions run whole, in program order, each writing its own result and accessing memory once |
| Interrupts and timer (`:1330-1600`) | `irq_pending`, `irq_mask`, `irq_active`, `irq_delay`, `irq_state`, `do_waitirq`, `eoi`, `timer`, q0 | entry in two cycles, `retirq`, `waitirq`, `maskirq`, `timer` | an interrupt may arrive in any cycle of any instruction, in the cycle of entry too; faults raise interrupts | none is lost, none nests, a fault is served before any other instruction, a due interrupt is taken |
| PCPI master and multiplexer (`:265-345`, `:1410-1435`) | `pcpi_valid`, timeout counter and flag | offer an instruction, wait, take the result, give up | a co-processor may answer, wait or keep silent; the time left over from an earlier instruction | a whole timeout for each instruction; one result for each |
| Register file, counters, trace, RVFI | data | | | |

### Co-processors

| Part | State | What is hard |
| --- | --- | --- |
| MAC4 (`neural/rtl/picorv32_pcpi_mac.v`) | two pipeline stages, registered `pcpi_wait`, `pcpi_ready` | `pcpi_ready` is still high after the core took the result: the next instruction must not see it |
| `pcpi_mul`, `pcpi_fast_mul`, `pcpi_div` (`picorv32.v:2197-2510`) | iteration counters, start edge of their own wait | two are never ready together; a back-to-back instruction needs a new start edge; a reset that not every register follows; carries kept apart from the sum |

What makes them correct: each instruction gets one result, which is that of the
instruction and of the operands offered; two units never answer in one cycle;
an instruction a unit knows is answered and never times out.

### Buses and peripherals

| Part | State | What is hard |
| --- | --- | --- |
| DE2 bus controller (`neural/fpga/quartus/inference/de2_top.v`) | RAM with registered output, read pipeline, I/O registers; no reset | a spurious second read is started while the first is answered; a reset cuts a load off and the pipeline keeps it; stores must act once |
| PicoSoC bus (`picosoc/picosoc.v`) | `ram_ready`, `iomem_ready`, ready and data multiplexers | registered answers must be gone before the next request |
| SPI flash controller (`picosoc/spimemio.v`) | sequencer state, tags, address read, prefetch, transfer engine | a jump abandons a burst while a byte of it is in the engine; a change of mode must bring the flash back; bit-banged commands come between reads |
| UART (`picosoc/simpleuart.v`) | dividers, shift registers, one-byte buffer, request for an idle line | a byte completes in the cycle the last one is read; a rate change during a byte |
| AXI4-Lite adapter (`picorv32.v:2731`) | acknowledgement registers | channels accepted in any order, each once per request; a reset that clears one register of four |
| Wishbone bridge (`picorv32.v:2821`) | three states, bus outputs | `mem_ready` has no reset; the request is still up when the cycle on the bus has ended |

### Software

| Part | What is hard |
| --- | --- |
| Inference programs (`neural/apps`, `neural/fpga/quartus/inference/*.c`) | packed and scalar arithmetic must agree bit for bit, kernel rows are padded, the last row is read one byte too far; 32-bit overflow in the requantization; the demo's switches move, and a reset comes, at any time |
| DE2 LED test (`neural/fpga/quartus/test/led_test.c`) | the same switches |
| PicoSoC firmware (`picosoc/firmware.c`) | every store to the flash's configuration restarts the controller that the program is read through, while the chip keeps its own mode: controller and chip must agree again before the next instruction; the memory test must find what it is for; number formatting; every command returns to the prompt |
| C library routines (`dhrystone/stdlib.c`, `neural/`) | strings are copied and compared a word at a time, from any alignment, with bytes behind their ends |
| Test firmware (`firmware/`) | `multest` on the arithmetic units; a checksum that must be right for the right reason; formatting of counters |

The complete list of parts with what is modelled of each is in `PROJECT.json`
(`components`); what is hard to test, at its line and with the properties that
watch it, is there under `hazards`.

## 2. Plan

In the order of importance for the program that runs on the core:

1. `PicoMem`, `PicoCore`: memory interface, decoder, main state machine and
   interrupts in one composition, because the hazards are between them. Done.
2. `PicoISA`: the abstract machine the core implements. Done.
3. `NativeMaster` with `De2Bus`, the bus the inference system runs on, and the two
   other buses that answer the same interface, `AxiBus` and `WbBus`; together in
   `NativeBuses`. Done.
4. `PcpiUnits`, `PicoPcpi`: multiplexer, MAC4, mul, fast_mul and div at the level
   of their handshakes, composed with the core. Done. `PcpiArith` with
   `TestFirmware`: the data paths of the serial multiplier and the divider, and
   the firmware that tests them; `CLibrary`, the library routines of the programs.
   Done.
5. `Inference`, `De2Programs`: the network and the programs around it. Done.
6. `SpiFlash`, `SpiMemio`, `SimpleUart`, `PicoSoc`: the SoC with flash and
   terminal. Done. `PicoSocFirmware`: its demonstration program. Done.
7. `PicoCoreProofs`, `PicoSystemProofs`; `TestProgramsProofs` and `De2ProgramsProofs` on
   `FoldTheorems`; `NativeBusesProofs`; `PicoSocProofs`, `PicoSocFirmwareProofs`: see
   section 7. Done.
8. Left, proofs: the flash controller (`LoadsReadRight`).

No module uses a `RECURSIVE` operator. The runs are few on purpose: one
configuration shows as many properties as meet in it.

## 3. Modules and code

### `PicoMem`: memory interface

Variables are the registers of `picorv32.v:350-620`; operators with the names of
wires (`mem_xfer`, `mem_done`, `mem_la_firstword`, ...) are those wires. Its
actions are the cases of `mem_state`:

| Action | Code |
| --- | --- |
| `MemIdle`, `MemStartRead`, `MemStartWrite` | `mem_state` 0 |
| `MemWait`, `MemSecondWord`, `MemReadDone` | `mem_state` 1 |
| `MemWait`, `MemWriteDone` | `mem_state` 2 |
| `MemHeld` | `mem_state` 3: a prefetched instruction waits to be asked for |
| `MemTrapped`, `MemReset` | `!resetn || trap` |
| `MemRegs`, `MemRequest` | what every cycle updates: `mem_rdata_q`, first-word register, address, write strobe |

What memory contains is left open. A halfword that is read is a *parcel*: the
address it came from and whether it starts a 32-bit instruction. Every read may
answer either, so a program of any lengths runs in one model, self-modifying
programs included, and the tag `at` shows when a stale parcel is used. A load
or store addresses the separate `DataWord`; its data, byte lanes and
`mem_wordsize` are left out.

### `PicoCore`: decoder, main state machine, interrupts

An instruction is a class and one argument. The first decoder stage (`Stage1`)
picks any class of the program (`Ops`), as far as the first-stage flags tell
classes apart; the second (`Stage2`) completes it. A stage that works on a stale
word produces the address `NoAddr`, which the properties look for.

Every branch of `cpu_state` is an action: `Fetch*`, `Launch`, `LaunchJal` for
`cpu_state_fetch`; `LdRs1*`, `LdRs2*`; `ExecWait`, `ExecBranch`, `ExecAlu`;
`Shift`; `StMem`; `LdMem`; `Trapped`. In the code a branch assigns some of
the registers and the head and the tail of the same `always` block assign the
rest. The model keeps that form: `Default(i)` is the record of what the head
assigns, a branch overrides fields of it with `EXCEPT`, and `Finish(i, r)` is
the tail (`set_mem_do_*`, `mem_done` clearing the requests, `CATCH_MISALIGN`,
`irq_pending <= next_irq_pending & ~MASKED_IRQ`). `Clock(i)` joins one core
action with one step of `PicoMem`: they share the edge. `i` holds the inputs of
the cycle: `mem_ready`, the word read, `irq`, and the co-processors' answer.

Register values appear where control depends on them: jump targets through
`reg_out`, `alu_out_q`, `reg_next_pc` and q0. Everywhere else a register is
`Value` or undefined. `latched_rd` and `latched_is` name the instruction they
came from, so that a write-back can be tied to it.

`Reset` may come at any edge and leaves what the code's reset branch leaves.

Two history variables are added: `cur`, the instruction launched last, and
`accesses`, the data transfers started for it.

### `PicoISA`: what the core promises

A machine without bus, pipeline or prefetch: `Begin`, `Access`, `Retire`,
`Jump`, `Interrupt`, `Trap`, `Reset`. `PicoCoreProps` maps the core to it:
`pc` is `current_pc` in the fetch state and `reg_pc` elsewhere, `acc` is the
count of data transfers, `in_irq` and `epc` come from `irq_active`, `irq_state`
and q0. `ISASpec` says that every behaviour of the core is one of this machine:
the instruction executed is the one at pc, the next pc is its successor or its
target, loads and stores access memory exactly once before they retire, an
interrupt saves the pc it came at and does not nest, and one instruction runs
between `retirq` and the next interrupt.

### `PicoCoreProps`

Type invariant, invariants, action properties, liveness and the refinement
mapping, each with the code behaviour it is about. `MCPicoCore` is what the
configurations instantiate.

### `PcpiUnits`: the co-processors and their multiplexer

`MacStep`, `MulStep`, `FastStep` and `DivStep` are one edge of each unit, for the
request `q` of the cycle (`pcpi_valid`, `pcpi_insn`, operands). What a unit
computes is an *operation*, the instruction with its operands: it is taken up
with the operands, travels through the registers, and becomes `NoOp` where the
code would put out a half or a sign nobody asked for (the serial multiplier
chooses the half of the product by the instruction decoded when it answers, the
fast one by a register of its own). `pcpi_int_ready`, `pcpi_int_wait`,
`pcpi_int_rd` are the multiplexer. `ENABLE_MAC`, `ENABLE_MUL`,
`ENABLE_DIV` choose the units; `FAST_MUL` is the set of values of
`ENABLE_FAST_MUL` considered, so that one run covers both multipliers. The
parameters of `pcpi_fast_mul` are constants too.

### `PicoPcpi`: the core with its co-processors

`PicoCore` alone takes any answer of a co-processor. Here `Tick` joins a `Clock`
of the core, whose `i.pcpi` is what the multiplexer drives, with an edge of the
units; the core's registers `pcpi_insn` and the operands are added
(`LoadInsn`, `LoadOperands`). `SysReset` holds `resetn` low for at least
`RESET_CYCLES` edges, which `held` counts.

### `PcpiArith` and `TestFirmware`: arithmetic, and its test

`PcpiArith` counts modulo `2^W`, or `2^(2W)` in the multiplier, as the registers do.
The multiplier has `rd` and `rdx`, the carries that are kept apart between the
chains of `CARRY_CHAIN` bits; an iteration adds a partial product chain by chain.
The divider is a restoring one: dividend, shifted divisor, mask and quotient.
The core takes an answer (`Taken`) and offers an instruction with operands when
the units are done with the one before (`Offer`, which may take its answer in the
same step); that is all it does in `Spec`. `IsResult` is the result of the M
extension: the product's lower or upper half, and the quotient or remainder of a
division that rounds towards zero (`IsQuotient`).

`TestFirmware` runs the tests of `firmware/` on it in the order of `start.S`, and so
chooses what `Offer` offers.
`SieveFirst`, `SieveNext` and `SieveCheck` are `sieve()` with its bitmap and
checksum; `NextPair`, `RunUnit`, `TakeResult` and `ComparePair` are a round of
`multest()`, with any operands where the code takes random ones; `Stats` is
`stats()`, whose padding of numbers is `stats_print_dec`. `Soft` is the C
expression each answer is compared with.

### `CLibrary` and `TestPrograms`: library routines

One call of a routine on a small memory, one step per turn of its loop. `strcpy`
and `strcmp` go byte by byte until both pointers are aligned (`StrcpyByte`,
`StrcmpByte`), and then by words: `HasZero` is `(v - 0x01010101) & ~v & 0x80808080`
on bytes of `BYTE_BITS` bits, `StrcpyLast` stores the last word up to its zero,
`StrcmpOtherWords` looks for the bytes that decide. `MemcpyByte` and `MemsetByte`
are what the inference programs bring for the compiler. `print_dec` and
`print_signed` are the decimals that the programs print. `TestPrograms` is either the
test firmware or one call, so that one run checks both.

### `NativeMaster`, `De2Bus`, `AxiBus`, `WbBus`, `NativeBuses`: the buses

`NativeMaster` is the core as its buses see it: each edge is one of `CoreRaise`,
`CoreWait`, `CoreAccept`, `CoreIdle`, or `CoreReset`. It is what `PicoCoreProps`
shows of the core: a request is stable until it is answered (`RequestStable`), and
`mem_valid` falls for a cycle after an answer. `stored` is a history variable, the
memory as the accepted stores leave it; a store cut off by a reset may have
happened or not.

`De2Bus`: the clocked block of `de2_top.v` has one action per branch (`Capture`,
`RamRead`, `PlainWrite`, `OutByteWrite`, `Seg7Write`, `LedWrite`, `SwitchRead`,
`Quiet`), joined in each edge with the RAM port and one step of the core. No
register of the controller has a reset, so `Init` leaves them all open, and a reset
of the core leaves them as they are. `sampled` is a history variable, the switch
values during the current request. The top level of the LED test (`test/de2_top.v`)
is the same controller without the LED bar.

`AxiBus`: the adapter with the AXI memory of `testbench.v`. A rising edge
(`AxiRising`) is a step of the core, one of the adapter and one of the memory; the
falling edge (`AxiFalling`) runs the memory's handlers again. `go` is the set of
handlers the random bits allow at the edge. They run in the order of the code, so
that a channel may be latched and handled in one edge. The ready strobe of a
channel and its `fast_` flag are set and cleared together, hence one set, and the
branches that latch for a strobe without its flag are never taken. The memory of the
test bench has no reset and is never used with one but at the start; in the model
it is reset with its master, as an AXI slave is (`SlaveReset`). That is an
assumption the system needs: TLC finds that a memory which keeps an answer across
a reset of the core hands it to the first load afterwards.

`WbBus`: the state machine of `picorv32_wb`, one action per branch, with the RAM of
`testbench_wb.v`. `wbm_cyc_o` always equals `wbm_stb_o`. `MasterReset` and `WbReset`
leave `mem_ready`, `mem_rdata` and the memory's write as the code does.

`NativeBuses` puts the three behind one variable, `bus`, so that one run asks
the same of all. A system has one of them; the registers of the others keep one
value.

### `Inference` and `De2Programs`: the network and its programs

`Inference` has the network as functions: the dot product of MAC4 on byte lanes
(`Lane`, `pack4`, `MAC4`), the packed and the scalar accumulator of a convolution
(`MacSum`, `ScalarSum`), `Requantize`, `Pooled`, `Flattened`, `ScalarScore`. An
image has the byte of memory that follows it as a further element, because the
four-byte loads of its last row reach it.

`De2Programs` runs `inference_baseline.c`, `inference_mac4.c`, `inference_demo.c`
or `led_test.c`. `pc` names the statement: a layer of `run_inference` is one step
(`Conv2D`, `MaxPool2D`, `FlattenPool`), the last layer one step for each turn of
its inner loop (`Accumulate`, `StoreScore`), the scoring loops one for each class
(`Argmax`, `Share`, `Percent`). The demo loads the switches in `Poll` and stores
display and bar in steps of their own (`ShowDigit`, `ShowBar`, `BlankSeg7`,
`BlankLeds`), for the user moves the switches (`Flip`) or presses the reset button
(`Reset`, which leaves the board's registers) between any two. `reference`, a
history variable, holds the scores the scalar program's formula gives.

### `SpiFlash`, `SpiMemio`, `SimpleUart`, `PicoSoc`: the SoC

`SpiFlash` is the flash of the test benches (`picosoc/spiflash.v`) as operators on a
record: what a rising or falling clock edge does, and chip select. It counts bits
and carries whole bytes: a byte that is shifted in on other lanes, or from another
bit on, than it was sent is `JUNK`. Deselecting it also clears the command and the
address, which the next transfer brings before it uses them.

`SpiMemio` is the controller. `Advance` is the sequencer (`Offers`, `OfferedByte`,
`Successor`), `Collect` and `CollectPart` take what the transfer engine brings,
with the tags, `Configure` is the configuration register with its soft reset, `Xfer`
the engine, `Pins` what its edges do to the flash. A jump overrides what the
sequencer chose in the same cycle, as the last assignment does in the code.
`Clocked` is the worker of `start.s` that clocks bytes by hand.

`SimpleUart` is the UART bit by bit; a byte is the sequence of its bits.

`PicoSoc` joins them on the bus with the SRAM and the LED register of the board
wrapper. `Master` issues the requests of a program and lets `mem_valid` fall for a
cycle after each answer, as the core does. A terminal types bytes whenever its
line is idle (`TermSends`) and listens like the test bench (`TermListens`).
`TRAFFIC` says which slaves the program uses: flash and configuration register,
SRAM and LEDs, or the serial port. The parts share nothing but the multiplexer,
which every run has whole.

### `PicoSocFirmware`: the demonstration program

`firmware.c` for both boards. Straight-line code is a sequence of operations,
`todo`, worked off one per step (`StoreSpiCtrl`, `FlashRead`, `FlashWrite`,
`RunBenchmark`, ...), so that a command reads like its C function:
`set_flash_latency(v) == <<Store(Spi, v), Write("CR3V", v, 6)>>`. Waiting for a key
(`Remind`, `TakeEnter`, `TakeCommand`, `Echo`) and the loops of the memory test
(`FillWord`, `VerifyWord`, `FillByte`, `VerifyByte`) are actions. The memory may
have an address line that is stuck at 0. The pass of the benchmark over its array
is the function `Pack`; the numbers printed are the digits `print_dec` and
`print_hex` make.

The program is in the flash it configures. `chip` has the chip's registers and, apart
from the controller's setting, the mode the chip itself reads continuously in (`xip`).
Each store to the configuration register and each end of `flashio` is a `Restart` of
the controller, as `softreset` makes it: FF on one lane (`AfterFF`), then a read
command, which the chip answers (`Answers`) if it takes commands, has its four lanes
enabled and waits as many dummy clocks as the controller. If it does not, the next
instruction is not read: the program is lost (`pc = "lost"`), and what the processor does
with the words it finds is not modelled. `AfterFF` ends a continuous read on four
lanes. Whether it ends one on two lanes is a property of the chip, `ends`, and both kinds
are modelled: `spiflash.v` takes the FF for two bytes of an address, and the chip that the
figures of `performance.py` were recorded on was brought back. A command that `flashio`
clocks by hand reaches the chip in its mode too: one that reads continuously takes it for
an address and answers noise, or does not take the write, and the clocks end its mode
(`Clocked`, as in `SpiMemio`).

Operators whose names start with `Mut` are wrong variants of the definition that
follows them, with a mistake that could be made in the code. Nothing uses them
but the mutation runs of `PROJECT.json`, which put one in place of the right
definition and expect its property to be violated.

## 4. Runs

| Run | Configuration | Shows |
| --- | --- | --- |
| `core` | compressed and long instructions of every class but the interrupt ones, one-port registers, `TWO_CYCLE_ALU`, `TWO_CYCLE_COMPARE`, serial shifter, co-processors that answer, wait or keep silent, resets at any edge | `RequestsExclusive`, `TransferMatchesRequest`, `RequestStable`: the assertions of the memory interface hold. `RunsWhatIsAtPc`: no stale halfword, word or length is used, and nothing is fetched from an address still being computed. `WritesOwnResult`, `FreshTimeout`, `ISASpec` |
| `irq` | external interrupt, ebreak, misaligned stores, `maskirq`, `waitirq`, `retirq`, compressed instructions | `InterruptEntryAlone`; `FaultIsReported`: the handler of a fault runs before any other instruction and finds the instruction from q0; `LatchedIrqKept`, `ISASpec` |
| `irq_live` | loops, loads, shifts, `waitirq`, `retirq`, `maskirq`, `timer`, a memory that answers | `KeepsRunning`, `DueIsTaken` |
| `pcpi` | core with MAC4, serial or fast multiplier and divider, instructions nobody knows, resets of two cycles or more | `TakesOwnResult`: a result taken is that of the instruction and the operands offered, back to back and after a reset, and only one unit is ready; `KnownNeverTimesOut`; `OfferEnds`: every instruction offered is answered or given up |
| `tests` | multiplier and divider on 4-bit operands, sieve, multest, stats; calls of `strcpy`, `strcmp`, `memcpy`, `memset` with any first or last word and different alignments | `PartialResults`: `SumIsProduct` (with the carries in their places the sum is the product of what is consumed) and `QuotientAndRest` (the divider's loop invariant), and the answer is the result of the instruction (`IsResult`); `TestsPass`: every answer is the one C computes, division by zero and overflow included, the sieve prints the primes and `stats` the counters; `DecimalsReadBack`: the decimals printed are those of the number; `StringsAreRight`: the routines do what a byte by byte routine does, and write nowhere else |
| `buses` | the DE2 controller, or the AXI4-Lite adapter with a memory that delays each channel as it likes, or the Wishbone bridge; resets at any edge, registers without a reset unknown at the start | `LoadReturnsStored`: over each bus a load returns what the accepted stores left there; `LoadReturnsSampled` and `OutByteOncePerStore` of the DE2 controller; `MappedIsAnswered`: a request comes to its answer |
| `inference` | the three inference programs and the switch test, three networks with two images each, switches and resets at any time | `ScoresAreBaseline`: MAC4 gives the scores of the scalar program, bit for bit; `SumsFit`; `BestIsFirstMaximum`; `ConfidenceIsShare`; `DisplayShowsSelected`; `AccuracyCounted`; `DisplaySettles` |
| `picosoc` | flash in the six modes the ICEBREAKER benchmark uses with bit-banged commands in between, or SRAM and LEDs, or UART and terminal | `LoadsReadRight`: every load returns what its address holds; `SentArrives`; `TypedIsTaken`; `Answered` |
| `firmware` | the menu of both boards, stuck address lines, keys at any time | `FlashMatches`: the firmware never gives the flash a configuration the chip cannot follow, neither between the two steps of a change of latency nor in a quad mode; the program is lost only by continuous reads on two lanes that the chip does not leave, or without a mode byte (section 8). `ReportsTrue`: labels, digits and registers printed are true; `MemtestVerdict`: the test passes exactly if its addresses are told apart; `PackedInOrder`; `KeyIsRead` |
| `look_ahead` | compressed and `waitirq` | violation of `LookAheadAnnounces`, see section 8 |
| `pcpi_short_reset` | a reset of one cycle | violation of `TakesOwnResult`, see section 8 |
| `picosoc_modes` | the modes of `picosoc` and continuous reading on two lanes | violation of `LoadsReadRight`, see section 8 |

Deadlock is checked in every run of hardware, for the clock never stops. `tests`,
`inference` and `firmware` switch it off: the test firmware and the simulation programs
end, and a lost program does nothing that is modelled. That `firmware` does not stop
elsewhere is `KeyIsRead`: with a key waiting, every program that is not lost goes on.

The runs of the core use different configurations on purpose: between them compressed and plain, one-port and two-port, barrel and
serial shifter, one-cycle and two-cycle ALU are all on and off.

## 5. Bounds

| Bound | Where | Why it is enough |
| --- | --- | --- |
| `WORDS` 2 or 3 | halfword addresses wrap around at 4 or 6 | the control logic compares no addresses and only looks at bit 1 of the pc; with 2 words the word of an instruction, the next one and a target are told apart; 3 add a target that is neither |
| `Targets` one or two | jump targets of the program | lower and upper half of a word are both targets in `core` |
| `Ops` differs by run | instruction classes | `core` takes all but the interrupt ones; `irq` those that raise, end, mask or await interrupts, with the jump and the store that meet them; `irq_live` those that loop or wait |
| `MAX_SHIFT` 5 | serial shifter | steps of 4 and of 1, and both in one shift |
| `MAX_TIMER` 1 | timer values | a started timer expires during any later instruction, as memory delays are not bounded |
| `IRQ_MASKS` {{}} | values `maskirq` writes | unmasking meets pending interrupts; the reset value masks all |
| `EXT_IRQ` {3} | external inputs | bits of the interrupt vector are treated alike; 0, 1 and 2 are the internal ones |
| `accesses` at most 2 | history counter | a second access is already a violation |
| resets off in the interrupt runs | `RESETS` | keeps the state space small; `LatchedIrqKept` and `InterruptEntryAlone` are proved with resets on |
| `PCPI_TIMEOUT` 2 to 4 (15 in the code) | timeout counter | answers before, in and after the last cycle; `TimeoutIsFresh` is proved for every length |
| `MUL_STEPS` 3, `DIV_STEPS` 4 (32 in the code) | `pcpi` | as in the code a unit works longer than what is left of the timeout, so that its `pcpi_wait` keeps the instruction alive; the counters are compared with zero only |
| `RS_VALUES` two | `pcpi` | the operands of an instruction and of the one before it are equal or differ |
| `RESET_CYCLES` 2, or 1 in `pcpi_short_reset` | `pcpi*` | two is the shortest reset that does no harm |
| `W` 4, `STEPS_AT_ONCE` 1, `CARRY_CHAIN` 2 | `tests` | every pair of operands of every instruction; two chains in each word, so that carries cross from one to another |
| `PAIRS` 2 (15) | rounds of `multest` | a unit meets what a round before left |
| `COUNTS` four pairs | `stats` | fewer, exactly and more than eight digits, a fraction below ten hundredths, none |
| `BYTE_BITS` 2 (8), buffers of 8 bytes | `tests` | the bytes 0 to 3 are the zero, the one, the top bit alone and all bits, which are what the borrow of the zero test tells apart; every word of them is the first or the last of a string |
| 2 words, 1 byte lane, 2 byte values, `RESET_GAP` 1 | `buses` | each bus holds one request at a time; the theorems cover any number of words, lanes and values, for the three buses |
| `POOL` 2 (13), `FILTERS` 2 (4), `CLASSES` 3 (10), `IMAGES` 2 (10) | `inference` | a border, an inner pixel and a last row; two planes to flatten; a first, a middle and a last class. The formulas behind them are proved for every size (section 7) |
| three worlds | `inference` | weights of mixed signs, weights at their limits with bright images, and networks whose scores tie or are all negative; the byte behind an image is 0, -1, 127 or -128 |
| `RESETS` 2 | presses of the reset button | one before and one in the middle of a second turn |
| `BITS` 2 (8), `DUMMY` 5 (15), `DIV` 2 (104), `DEFAULT_DIV` 1 | `picosoc` | the counters are compared with the divider and with 0 and 10 only; `DUMMY` stays longer than a frame |
| `FLASH_WORDS` {0, 1} | words read | a sequential read, a repeated one and a jump back |
| `WRITES` 2 | writes of configuration and divider | from each mode to each other one and to bit-banging and back |
| `LATENCY` 8 | flash | that of the code; no other is used by the controller after reset |
| `TYPED` 4, `REPS` 2 (10) | keys | return, two commands that follow each other, one that meets a running command |
| `LATENCIES` 2 (8), `CYCLES` 2 (5), memory of 8 and 64 bytes (512 and 131072), `STRIDE` 16 (1024), `TEST_BYTES` 4 (128), `LINES` {1, 2, 4} | `firmware` | as in the code the word test of HX8KDEMO visits a single word, that of ICEBREAKER several; a stuck line below and above the stride |
| `DATA` 3 (256) | benchmark | every array of zero and nonzero bytes |

`RESET_GAP` is the number of edges `mem_valid` stays low after a reset, less one.
The core needs at least two (a fetch state, then the memory interface), and the
proofs need it to be at least one.

The numbers of `WORDS`, memory delays and the length of a program are unbounded
in the code's behaviour: a run of TLC covers programs of any length over these
classes, and any memory delay, because nothing counts them.

Assumptions of the models: software does not rewrite q0 with `setq` within the
handler (q0 is otherwise the target of `retirq`); `CATCH_MISALIGN` and
`CATCH_ILLINSN` are 1 and `LATCHED_MEM_RDATA` is 0, as by default; an invalid
encoding is an instruction for the co-processors, as in the decoder; PicoSoC is
reset at power-up only, by the counter of its board wrapper; `config_dummy` keeps
its reset value in `PicoSoc`; software bit-bangs the flash only while it does not
read continuously, as the commands of the firmware that need an answer do.

## 6. Fairness

`FairSpec` of the core assumes that the clock runs without reset
(`WF_vars(\E i \in Inputs : Clock(i))`), and that memory answers a request in
the end (`WF_vars` of a cycle with `mem_ready`): while `mem_valid` is high that
cycle stays possible, so it comes. Nothing is assumed of the core itself, whose
every step is a clock edge. Co-processors keep silent or answer
(`PCPI_WAITS = FALSE`): one that asserts `pcpi_wait` for ever stops the core by
design. Interrupts come in any cycle or never.

`SysFairSpec` of `PicoPcpi` assumes only that the clock runs with the core out of
reset, again and again, if it may; a reset ends an offer too. `OfferEnds` needs
no fairness of memory: an instruction on offer makes no data access, and a
prefetch on its way does not stop the units.

`BusesSpec` assumes for each bus that a clock edge with the core out of reset comes
in the end, and of the AXI memory that again and again a rising edge allows all
of its handlers (`SF` of `AxiRising(Handlers)`): the random bits come from a
generator of full period. `FairSpec` of `PicoSoc` assumes that the clock runs
(`WF_vars(Tick)`).

`FairSpec` of `De2Programs` and of `PicoSocFirmware` is weak fairness of the program's
next step: the processor keeps executing. Nothing is assumed of the user.
`DisplaySettles` is about the case that the switches stay as they are from some
time on; `KeyIsRead` holds whether the user goes on typing or not, and promises nothing
of a program that is lost.

`DueIsTaken` excepts what the code does not promise. `waitirq` does not end
`irq_delay`, so a program that does nothing but `waitirq` after `retirq` keeps
a due interrupt waiting.

## 7. Proofs

All theorems assume only the named `ASSUME`s of the modules: sizes are
naturals, switches are Booleans, jump targets are addresses, interrupt sets are
subsets of `IRQ`. Those about the co-processors have a further hypothesis,
`Supported`, which stands in their statements and is discussed below.

`PicoCoreProofs`, for every configuration, program and memory:

| Theorem | States | Argument |
| --- | --- | --- |
| `TypeCorrect` | `Spec => []TypeOK` | inductive as it stands; one lemma per group of registers and per state of the core |
| `OneRequestAtATime` | `[]RequestsExclusive` | `ReqInv`. A data request is raised in `stmem` or `ldmem` once the prefetch has ended, so it must be known that no other state has a data request (`DataRequests`), that a state which asks for an instruction has no data request (`FetchRequests`), and that interrupt entry keeps the core in the fetch state (`EntryRequests`) |
| `EntryIsAlone` | `[]InterruptEntryAlone` | the same `ReqInv`: the entry begins in a cycle with `decoder_trigger`, whose fetch head has cleared `latched_store` and `latched_branch` one cycle later |
| `TimeoutIsFresh` | `[]FreshTimeout` | `PcpiInv`: outside an instruction for the co-processors `pcpi_valid` is low, the counter full and the flag, which trails the counter by a cycle, low. That the two decoder stages agree on the class (`Decoded`) is needed, because `ld_rs1` leaves by the first stage or by the second |
| `NoLatchedIrqLost` | `Spec => LatchedIrqKept` | action property; `PendingInv` and the type invariant |

Splitting the proof by the values a branch hands to `Finish`
(`FetchResult`, `LoadingResult`, `ComputeResult`, `DataResult`) keeps the cases
independent: the lemmas `...Outcome` say which records a state can produce, and
the step lemmas argue from the record alone.

The second part of `PicoCoreProofs`, on the memory interface, rests on the first:

| Theorem | States | Argument |
| --- | --- | --- |
| `ControlInvariant` | `[]Control` | `trap` is raised by the trap state only (`TrapState`); in which states `next_pc` may be the target of a branch, and that an instruction is launched only when it is not (`BranchPhase`); in which states an instruction is prefetched or asked for (`FetchPhase`); a branch waits until the comparison is that of its operands (`ComparePhase`). Inductive with the invariants of the first part |
| `MemInvariant` | `[]MemInv` | `TransferInv` is `TransferMatchesRequest` with the trapped core and the look-ahead bookkeeping. Not inductive: whether a read is served from the buffer of the upper half is a wire (`mem_la_use_prefetched_high_word`) that follows `next_pc`, the buffer and the branch. `StartInv`: branches and interrupts find the interface idle. `BufferInv`: a prefetch of an odd address is served from the buffer, or already reads its second word; `HasNext` in it: when the next instruction starts in the upper half, that half is kept |
| `TransferIsRequested` | `[]TransferMatchesRequest` | from `MemInv` |
| `RequestsAreStable` | `Spec => RequestStable` | action property: a transfer that is valid and not answered leaves the interface waiting or held by the trapped core, and what the main state machine does meanwhile (`ClockMoves`) does not reach the address |

The main state machine enters these proofs only through `ClockMoves`, what it may do
to the requests and to `next_pc` in one cycle, which has one lemma per state; the
interface is then argued about once, not once per branch of the core.

`PicoSystemProofs`, on top of it, for the same values. Its first part:

| Theorem | States | Argument |
| --- | --- | --- |
| `RightInstruction` | `[]RunsWhatIsAtPc` | `PathInv`, below |
| `OwnResult` | `[]WritesOwnResult` | `PathInv`: the property is one of its conjuncts |

`PathInvariant` (`Spec => []PathInv`) follows an instruction from the address to the
write-back. Neither property is inductive: which instruction is at `pc` depends on
what was read, what was read on what was asked for, and that on the upper half that
was kept from the read before. The parts, in the order an instruction meets them:

* `PcInv`: every program counter is an address, `next_pc` as long as something is fetched;
* `ReadInv`: a read of instructions is addressed by `next_pc`, and its first word is
  the parcel there. A branch drops what was read, so all of this only without one;
* `KeptInv`: the kept upper half is the parcel at `next_pc`, or the one behind the
  instruction in the decoder, or is about to be dropped. The middle case is the one a
  test hardly reaches: the half is kept while its use is two instructions away;
* `SuccessorInv`: the decoder holds the instruction at `reg_next_pc` in fetch and,
  because the prefetch has ended by then, behind a load or store that makes its access;
* `InsnInv`: until then both decoder stages hold the instruction that was launched, and
  `latched_rd` is its destination;
* `HandOverInv`: a result or a branch is left to fetch by the instruction it belongs
  to; a registered ALU result is waited for;
* `TrapInv`: a trapped core does not use a prefetched half it no longer follows.

A cycle is argued about once per hand-over and not once per branch of the code:
`FetchedIsAtPc` says what a finished read brings, `HandsOn` what the main state
machine hands to the next cycle (one lemma per state), and `NextPc` ... `NextKept`
preserve one part each from those.

Its second part:

| Theorem | States | Argument |
| --- | --- | --- |
| `ImplementsIsa` | `Spec => ISASpec` | the refinement of `PicoISA`: `IsaInv`, below, and one lemma per kind of step |

The abstract machine sees a program counter, whether an instruction is being executed,
its accesses, the handler it is in and whether it is halted; the refinement mapping is
in `PicoCoreProps`. Most cycles change none of these. `InterruptStep`, `BeginStep`,
`WorkStep`, `RetireStep`, `FetchTrapStep`, `ExecuteTrapStep` and `ResetStep` say which
abstract step each of the others is; `UnseenFetch` and `JumpStep` that fetch, with a
finished branch to take or without, moves no program counter that is seen.
`IsaInvariant` (`Spec => []IsaInv`) supplies what they need beyond `PathInv`:

* `OrderInv`: `reg_next_pc` is the address behind the instruction that is executed, and
  `irq_delay` agrees with `irq_active`, so that a handler is left by its `retirq` and not
  by the instruction after it;
* `ClassInv`: which classes of instruction reach which state of the core;
* `AccessInv`: a data access is counted once, in the cycle its request starts in the
  memory interface, and a request that stays up while it runs is not a second one; a
  fault of alignment belongs to an instruction whose address is odd;
* `EntryInv`: the return register stays selected from the first cycle of an interrupt
  to the one that writes it;
* `LongInv`, `OddInv`: without compressed instructions every instruction has two
  parcels, and one at an odd address gets through fetch only if interrupt 2 can be
  raised for it; otherwise the core halts, and the abstract machine with it.

`FetchHands`, `LoadEnds`, `ComputeEnds` and `DataEnds` say what each group of states may
leave to the next cycle, once, and the lemmas of the invariant and those of the
refinement both argue from them.

`FaultsAreReported` in the same module: `AlignedJumps /\ irq_ebreak \in LATCHED_IRQ => (Spec => []FaultIsReported)`.
The hypotheses are what software and configuration have to provide. `AlignedJumps`
holds whenever compressed instructions are compiled in; without them it says that jump
targets and the two fixed addresses are whole words, as an instruction's address
otherwise is not what the return address is behind of. An interrupt that is not latched is
gone after a cycle, and interrupt 1 may then be lost while the next instruction is still
being fetched. `FaultInv` follows the fault into the handler: `ServedInv` keeps its interrupt
pending and unmasked until the entry begins (`EbreakEnds`: nothing is offered to
the co-processors before it, so it ends at once); `FoundInv` keeps the address behind
the instruction and its length in `reg_next_pc` and `latched_compr` until they are saved in `q0`,
although fetch rewrites the length in every cycle it waits, from a decoder that
still holds the instruction (after an `ecall`) or not at all (after an access, whose
successor is already decoded). `BehindOnce`, that an address is told by the one behind
it, makes the handler's answer unique.

Its last part joins the core with its co-processors, for operands, latencies, timeouts
and resets of any length and any mix of units:

| Theorem | States | Argument |
| --- | --- | --- |
| `OwnResultTaken` | `Supported => (SysSpec => []TakesOwnResult)` | `SysInv`: `CoreInv`, `BusInv` and one invariant per unit. Nothing tells a unit that the core gave an instruction up, so each of them says what the unit's registers hold while an instruction is offered and how long they outlive the offer; `OfferMoves` says that no other offer comes for two cycles, which is just enough for the slowest to empty |
| `KnownIsAnswered` | `Supported => (SysSpec => []KnownNeverTimesOut)` | `TimeoutWithin(n)` in the units' invariants: a unit that decodes the instruction raises `pcpi_wait`, or answers, within `n` cycles of the offer |
| `SystemIsCore` | `Supported /\ PCPI_WAITS => (SysSpec => Spec)` | the core joined with its units implements the core with any co-processor, so every theorem on `Spec` holds of the whole. `AnswerIgnored`: outside an offer the core does not look at the answer, which may then be any |
| `SystemImplementsIsa` | `Supported /\ PCPI_WAITS => (SysSpec => ISASpec /\ []RunsWhatIsAtPc /\ []WritesOwnResult)` | the three theorems on the core, through `SystemIsCore` |

`Supported` is `RESET_CYCLES >= 2`, `PCPI_TIMEOUT >= 3` (15 in the code),
`~EXTRA_INSN_FFS` and `MUL_CLKGATE => EXTRA_MUL_FFS`; the default parameters of
`pcpi_fast_mul` satisfy it. It is not a convenience of the proof: section 8 says how
a reset of one cycle and either setting of the fast multiplier break
`TakesOwnResult`, and with a timeout of less than three cycles an instruction is
given up before its unit has raised `pcpi_wait`.

`TestProgramsProofs`, first on the arithmetic units, for words of any width, chains of
any length that divides the product's and any number of steps in a cycle:

| Theorem | States | Argument |
| --- | --- | --- |
| `Invariant` | `Spec => []IInv` | the conjuncts below, each inductive only with the others |
| `PartialResultsRight` | `[]PartialResults` | `Parts`: from `IInv` |

`MulInv` says why the multiplier may read the product from `rd` alone although carries
are still on their way in `rdx`. `Total`: sum, carries and what is left to add make up the
product modulo `2^(2W)`. `Sparse`: a chain holds one carry at most, at its lowest bit,
so that the three numbers added in a chain carry out at most one (`CarryOut`). `Cleared(k)`:
after `k` steps the lowest `k` bits of the carries and of the shifted operand are 0;
after the `W` or `2W` steps that `mul_counter` lets pass (`StepsDone`), so are all that
could reach the half that is answered (`MulResult`). `StepMoves` shows the three of one
step: `MulStep` sums over the chains, `SumIsKept`, `CarriesAreSparse` and `CarriesMoveUp`
take them one after the other (`ChainSums`), and `ChainBits` says how the bits of a chain
continue those below it. `StepsMove` repeats it `STEPS_AT_ONCE` times.

`DivInv` is the loop invariant of the divider with the number of quotient bits to come
(`BitsLeft(p)`): the rest is less than `2^p` divisors. Division by zero needs an invariant
of its own, that every step subtracts and the quotient is all ones so far; the overflow of
the most negative dividend by -1 needs none, its quotient is `2^(W - 1)` modulo `2^W`
(`DivResult`).

The same module on `CLibrary`, for bytes of any width, memories and strings of any size,
and every number of 32 bits but the smallest:

| Theorem | States | Argument |
| --- | --- | --- |
| `StringsAlwaysRight` | `LibrarySpec => []StringsAreRight` | `LibInv`: after `k` bytes or characters memory is the one of the call with `k` bytes of the target written (`Written(k)`), or `k` characters were equal and no end (`EqualSoFar(k)`), and the pointers are `k` ahead. What is still to be read is as it was (`Kept`), as long as the target does not overlap it |
| `DecimalsAlwaysReadBack` | `LibrarySpec => []DecimalsReadBack` | `DecInv`: a print that returned leaves the characters of a number (`print_signed`), and these are its sign and its numeral (`Numeral`, by `DecIs`): decimal digits, no leading zero, at most ten, whose value by Horner's rule is the number |

The step of a word rests on `ZeroIsFound`: `HasZero(w)` holds exactly if one of the bytes
of `w` is 0. The subtraction of `0x01010101` borrows from the next byte and so may
set the top bit above a zero; `Borrows` follows what a byte lends
and keeps, `TopBitOfWord` finds the top bits of the difference. Since the lowest zero is
never hidden by a borrow, the test is exact although single bits of it are not.
`CopyLast` then shows that the bytes of the last word up to its zero are those of
the string, whatever comes behind it in the word.

`CallAssumption` is what C asks of a call (`IsCall`): strings that end inside memory, a
target that does not overlap what is read, and memory of whole words, since the routines
read up to three bytes past the end of a string. `ValuesAssumption` says that the numbers
are words of 32 bits, signed or not; it leaves out `-2^31`, whose negation C leaves undefined.

`print_dec` is a recursive function. `ShownExists` shows that there is one, value by
value; `ShownIs` takes the smallest value shown wrong and finds that its tenth is
shown right and one more digit keeps it so (`NumeralGrows`); `TenDigits` counts the
digits, ten times the bound being one digit more (`FitsMore`).

`NativeBusesProofs`, on the DE2 bus, for any RAM size, lanes and byte values:

| Theorem | States | Argument |
| --- | --- | --- |
| `TypeCorrect` | `[]TypeOK` | inductive |
| `LoadsAreFresh` | `[]LoadReturnsStored` | `IInv`: a request starts with an empty pipeline, whatever the last one or a reset left there, because `mem_valid` stays low long enough (`PipeInv`); each stage holds the word of the request (`DataInv`); RAM and accepted stores differ only by the store being answered (`StoreInv`) |
| `SwitchesAreFresh` | `[]LoadReturnsSampled` | `DataInv` |
| `AnswersAreMapped` | `[]OnlyMappedAnswered` | `PipeInv` |
| `ConsoleByteOncePerStore` | `[]OutByteOncePerStore` | inductive next to `IInv`: a strobe is raised by a held request only, and the read pipeline never answers for the console address (`PipeInv`) |

The same module on the AXI adapter and the Wishbone bridge, for the same sizes and any
delay of a channel:

| Theorem | States | Argument |
| --- | --- | --- |
| `AxiInvariant` | `AxiSpec => []AxiInv` | `AxiPhase`: within a request each channel is taken once, is acknowledged or has its strobe up but not both, and an answer is on offer only when every channel was taken; between requests the memory is idle. What the partial reset leaves in `ack` and `xfer_done` is gone before a request can be seen, because `mem_valid` stays low for an edge more (`GapAssumption`). `AxiData`: what is latched is the request's |
| `AxiLoadsAreFresh` | `[]LoadReturnsStored` | from `AxiData`: the answer on offer is the word of the request, and memory and accepted stores differ only by the store being answered |
| `WbInvariant` | `WbSpec => []WbInv` | `WbPhase`: the cycle on the bus is the request's, and `mem_ready`, which no reset clears, falls in the first idle edge, before a request can be there. `WbData`: what the RAM and the bridge hold is the word of the request |
| `WbLoadsAreFresh` | `[]LoadReturnsStored` | from `WbData` |

The lemmas on the master and its history are shared by the three and come first.

`De2ProgramsProofs`, for planes, filter counts, networks and images of any size:

| Theorem | States | Argument |
| --- | --- | --- |
| `ConvolutionIsScalar` | `MacSum = ScalarSum`, an integer, at most the bias plus `9 * 128 * 128` | a lane of a packed byte is the signed byte it was packed from (`LaneOfByte`), so a packed product of four is the sum of four products (`PackedProduct`); the indices stay inside the arrays (`Indices`), and the fourth product of a row has a zero weight, so that the byte past the image does not matter (`RowIsScalar`) |
| `LayersAreBaseline` | `[]LayerInv` | each layer finds what the formulas of `inference_baseline.c` give: `DataInv`, with `ConvolutionIsScalar` for the programs that pack |
| `SumsAlwaysFit` | `[]SumsFit` | the bound of `ConvolutionIsScalar` with `BiasAssumption`: the bias leaves 147456 below `INT_MAX \div M1_NUM`. The trained biases do |
| `FirstMaximumIsReported` | `[]BestIsFirstMaximum` | `ScoreInv`: after `n` classes `best_class` is the first maximum of those (`BestAmong(n)`); needs that the scores are integers, hence the last layer's type (`TermType`) |
| `ConfidenceIsPercentage` | `[]ConfidenceIsShare` | `ShareOf(n)`: the sum of positive scores is at most `n` times the best one and at least the best one as soon as the loop has passed it; `Percentage` turns that into bounds of the quotient |
| `ScoresAlwaysBaseline` | `[]ScoresAreBaseline` | `SumInv`: the accumulator of the last layer is the sum over the inputs passed (`AccumulatorInv`), and so is that of the positive scores (`TotalInv`). The formula sums over all inputs, in no order; that a loop arrives there is `TermAdds` and `ScoreUpToAll`, from `FoldTheorems` |
| `DisplayIsSelected` | `[]DisplayShowsSelected` | `DisplayInv`: after each statement of the demo, which of console, bar and digit already belong to the image read last, and which still to the one before; a reset starts over from any of them. `ReportsBaseline`: after the loops, class and confidence are those of the baseline's scores, since the first maximum is unique (`FirstMaximumIs`) |
| `AccuracyIsCount` | `[]AccuracyCounted` | `AppsInv`: the lines printed are those of the images passed, and `correct_count` counts the ones that were right (`ReportedGrows`) |

`FoldTheorems` holds the lemmas on loops, sums and powers that these proofs and those of
`TestProgramsProofs` need. `MapThenSumSet` of the community
modules is a fold that takes the elements in an order nobody chose. `FoldIsSum` says
that it sums at all, that is, that the function its definition chooses exists and is
unique (`SumsExist`, `SumsAgree`); `AnyFirst`, that every element may come first;
`SumOverInterval`, what a loop over an interval has added up after `n` rounds. All
are inductions on the size of a set. The library's induction theorems take an operator
as a parameter, which the provers cannot instantiate; the least-element
theorem does not (`WFMin` with `NatLessThanWellFounded`, here `Least`), so each induction is
stated as: the sizes for which the claim fails have no least one. The prover knows no
law of exponents either, so `Doubles` and `Powers` count subsets: a set of `n` elements
has `2^n` of them (`FS_SUBSET`), and one element more makes twice as many. With them
come the laws of quotients and remainders that widths of any size need (`DivModIs`,
`DivModAdds`, `ModSplit`).

`PicoSocProofs`, for bytes of any length, any divider (`DEFAULT_DIV` and `DIV` are any
numbers), whatever the program sends, reads and writes to the registers and whatever is
typed in between:

| Theorem | States | Argument |
| --- | --- | --- |
| `SentAlwaysArrives` | `Spec => []SentArrives` | `SendInv`: the sender is `Quiet`, everything displayed and nothing but ones in the shift register, or `Sending`: the shift register holds the rest of the last byte, ones behind it, and the listener stands at a fixed distance behind the sender (`Heard`), half a bit, or two cycles if that is longer. Neither half says enough alone: the listener is done with a byte before `send_bitcnt` falls to 0, and an idle line is `Quiet` although its bits are counted |
| `TypedIsAlwaysTaken` | `DIV # 0 => (Spec => []TypedIsTaken)` | `ReceiveInv`: the receiver is `Silent` or `Receiving`, `START` cycles behind the terminal, which must not be more than a bit; `Received` says which bits of the byte are already in `recv_pattern`, and how far up. `BufferStep` does the buffer: a byte that completes in the cycle of a read stays |
| `LocalLoadsReadRight` | `[](IF To("flash") THEN ~ram_ready /\ ~iomem_ready ELSE LoadsReadRight)` | `BusInv`: a registered answer is for the request it meets; `SramInv`: `ram_rdata` is what the SRAM holds there |

At the divider 0 the first wait of the receiver is three cycles, and a bit is two: the
theorem is false there, and so TLC finds (section 8). Both parts use `BusInv`: the program
writes bytes at the divider `DIV` only. The counters of the code have 32 bits and those of
the model any number; they count to `DIV + 1`, and twice to `DIV \div 2 + 1`, so nothing
overflows up to the divider `2^32 - 3`. `DummyAssumption` says that the idle line after
a divider write is longer than a frame, `TrafficAssumption` what a program may be
made of.

`PicoSocFirmwareProofs`, for both boards, memories, strides, walks and arrays of any
size, any highest latency and any address line stuck at 0:

| Theorem | States | Argument |
| --- | --- | --- |
| `TestInvariant` | `[]IInv` | the loop invariants of the four loops. `Filled`: every address stored so far lies in a cell that holds the number of the last address stored there, which does not come before it. `Verified`: every address compared so far held its own number. A byte walk starts only after the words were all right, so then no two words share a cell |
| `VerdictIsRight` | `[]MemtestVerdict` | from `Filled`, a comparison that fails is at an address whose cell a later one took (`WrongIsLost`), and `Verified` makes it the first such; comparisons that all succeed leave no two addresses in one cell (`RightIsDistinct`). `ScreenTrue`, the verdict already on the screen, does not change until the screen is cleared |
| `FlashInvariant` | `[]FlashInv` | the operations of a command form a triple: from every state of rest, in each state on the way the chip follows the controller or the program is lost for one of the two reasons (`Consistent`), each line printed there is true, and the last state is one of rest again (`Safe`). `Restarts` does the restart: with the right dummy clocks and the quad bit set (`Ready`) only those two reasons are left. `Holding` is the state between reading registers and printing them: the values in the buffer are those of the chip, in order. `OneAfterOther` composes triples, `Advance` takes one operation off: what is left in `todo` stays a triple from the state the flash is in, whatever is typed meanwhile. `CommandSafe` goes through the menu, `MeasureSafe` through the latencies of a mode. At boot, before the quad bit is set, the sequence is followed step by step (`BootingAt`, `BootRestart`). A step of the model has the effect the triples speak of (`EffectOfOperation`) |
| `FlashAlwaysMatches` | `[]FlashMatches` | from `FlashInv`: the state before the next operation, or in which the program was lost, is `Consistent` |
| `ReportsAlwaysTrue` | `[]ReportsTrue` | `Fine`, the part of the triple about what is printed, a register among it (`RegisterTrue`); the addresses of the memory test from `IInv`. `HexsTrue`: after each round of `print_hex` the digits printed stand for the value above the nibble of the round, and only leading zeros were skipped |
| `PassAlwaysPacks` | `[]PackedInOrder` | `PassPacks`: after `k` rounds the positions of the nonzero bytes below `k` are in front, and the rest of the array is as it was, because a round writes at or below the byte it reads |

The latencies, the memories and the array of the benchmark have any size the code's
types allow. `MemoryAssumption` says that the memories, the stride and the byte test are
not empty and that memory ends below the registers at `02000000`
(`picosoc.v:117-123`), so that `print_hex` can print an address;
`LatencyAssumption`, that a latency fits its four bits; `DataAssumption`, that the array is
not empty. `Strides`, that the multiples of the stride follow each other without a
gap, is the arithmetic behind the walk of the words. The digits a number is printed with
are a sequence, their value a fold of the community modules (`FoldLeft`), and so are the
commands of the benchmark (`FlattenSeq`): `FoldTheorems` has what is needed of both
(`HornerGrows`, `FlattenIn`), from the same kind of induction.

Only model-checked:

* liveness under fairness (`KeepsRunning`, `DueIsTaken`, `MappedIsAnswered`,
  `OfferEnds`, `DisplaySettles`, `Answered`, `KeyIsRead`), which is out of the
  prover's reach;
* `LoadsReadRight` for the flash, and with it that PicoSoC's modes can be changed at any
  time. Nothing rules a proof out. It would need the place of controller, byte engine
  and flash in every cycle of every mode: an invariant as long as the three modules;
* the tests of the firmware (`TestsPass`), with the counters `stats` prints.
  `TestFirmware` uses the bit operations of the community modules (`Bitwise`), which
  no proof can reach.

## 8. Where code and documentation disagree

* **A look-ahead pulse without its transfer** (`look_ahead`). `README.md:434-436`
  and the assertion at `picorv32.v:2151-2152` say that a pulse on `mem_la_read`
  is followed by `mem_valid` in the next cycle. When a `waitirq` in the lower
  half of a word ends, the upper half is in the buffer; if it starts a 32-bit
  instruction, `mem_la_read` pulses in `mem_state` 0 for the second word, but
  the transfer starts one cycle later, after a second pulse. Without `waitirq`,
  `mem_do_rinst` is never raised in that situation.
* **A one-cycle reset does not stop the multiplier** (`pcpi_short_reset`).
  `pcpi_wait` of `pcpi_mul` follows `instr_any_mul` without a reset
  (`picorv32.v:2236`; the divider has one). If `resetn` is low for a single edge
  in the cycle after a multiplication is decoded, `pcpi_wait` rises in the first
  cycle after the reset and starts a multiplication nobody asked for, whose
  `pcpi_ready` is taken as the answer to the instruction offered then. `resetn` of
  the DE2 system is a push button (`de2_top.v:44`), which nothing in the design
  makes last two cycles; two are harmless (run `pcpi`).

* **Continuous reading on two lanes cannot be left** (`picosoc_modes`).
  `picosoc/README.md:86-96` lists CRM 1, QSPI 0, DDR 1 among the valid modes. A
  change of mode starts with the byte FF on one lane (`spimemio.v:236`), eight
  clocks. A flash that reads continuously on two lanes takes them as two bytes, never
  reaches its mode byte, and stays in continuous mode: the next read returns wrong
  words. On four lanes the same eight clocks reach the mode byte. The benchmark of
  ICEBREAKER has this mode commented out (`firmware.c:628-631`), that of HX8KDEMO
  uses it (`:544`). On a chip like `spiflash.v` the latter loses the program at the second
  latency of `dspi-crm`: `set_flash_latency` stores its default mode while the chip reads
  continuously (`firmware.c:543`, `:85`). So do the keys 4, 7 and then any key that
  stores the configuration (3 to 7, 0, and 2 on HX8KDEMO). `FlashMatches` (run `firmware`) allows for exactly this, and for such chips only.
  The figures recorded with that benchmark (`performance.py:6-57`) go on after
  `dspi-crm-8`: the chip they come from took the FF as the end of the mode.

Observations on documents and code that no run is about:

* The LSB of q0 after a taken branch is the length of the discarded instruction
  behind the branch, not of the interrupted one as `README.md:516-518` has it
  (`picorv32.v:1542`). For the faults, which are what a handler needs the bit for,
  it is right (`FaultIsReported`, run `irq`).
* At the divider 0 the UART's receiver samples every bit one late: its first wait is three
  cycles (`simpleuart.v:79-88`), a bit is two. The sender works at every divider.
* A bit of the UART lasts `divider + 2` cycles; `picosoc/README.md` gives the divider
  as frequency by baud rate. The test bench uses 106 for the divider 104.
* The menu's `7` in the default mode sets CRM without QSPI or DDR
  (`firmware.c:745-747`), which the table of `picosoc/README.md` does not list. The
  controller then omits its read command after the first read, and the chip, which was sent
  no mode byte, does not follow: the program is lost. `FlashMatches` allows for this too.
* Command 1, and command 2 of ICEBREAKER, read noise while the flash reads
  continuously; command 2 of HX8KDEMO resets latency and mode.
* The comment on `MEM_TOTAL` of HX8KDEMO says 2 KB for 512 bytes (`firmware.c:26`). The word
  test then visits a single word; address lines 7 and 8 are tested by neither walk.
* `printf_d` of dhrystone negates the smallest integer, which C leaves undefined
  (`stdlib.c:70`); if it stays negative, each digit comes out below `'0'`. Dhrystone never
  prints it.
* `print_dec(105)` of the PicoSoC firmware prints 15; it never passes such a number.
* `iomem_valid` is also high for addresses 0x02... that the SoC answers itself.
* `stats_print_dec` looks at the byte before its buffer when it pads with blanks only,
  and `100 * num_cycles` wraps above 42.9 million cycles (`stats.c:22`, `:39`).

Observations that contradict no document:

* A misaligned store raises its interrupt and still goes out on the bus.
* `waitirq` ends for a masked interrupt too.
* Without compressed instructions, a misaligned pc can be reached again through
  `retirq`, and the instruction at the rounded-down address is then launched
  once.
* Two settings of `pcpi_fast_mul`'s parameters, which `picorv32` leaves at 0, break
  `TakesOwnResult`. `MUL_CLKGATE = 1` without `EXTRA_MUL_FFS` returns the product of
  the multiplication before. With `EXTRA_INSN_FFS = 1` the registered valid bit is
  still high after the answer, so the unit runs once more and its second answer
  meets the next instruction.
* `neural/test/tb_pcpi_mac.v:73` takes `pcpi_valid` to be up for one cycle. The core
  holds it until it sees the answer, so that MAC4 accepts an instruction three
  times and keeps `pcpi_ready` up for two cycles after its result was taken.
  `TakesOwnResult` (run `pcpi`) shows that the core does not look at it then.
* The DE2 controller starts a spurious second read while it answers a RAM load;
  `LoadReturnsStored` shows that it is harmless, because the core keeps
  `mem_valid` low for a cycle after each answer.

## 9. What is not modelled

* Data of the core: ALU results, addresses of loads and stores, byte lanes,
  register contents, the counters. The bit patterns of instructions and the
  expansion of compressed ones.
* `CATCH_MISALIGN = 0`, `CATCH_ILLINSN = 0`, `LATCHED_MEM_RDATA = 1`,
  `ENABLE_COUNTERS`, the trace port and the RVFI outputs.
* The AXI protection bits, which pass through, and of the test benches all but the
  memories behind AXI and Wishbone: their console and the address that ends a test
  (`testbench.v:453-472`, `testbench_wb.v:247-262`), interrupt stimuli, trace files.
* What a processor does that has lost its program: it takes the words it reads for
  instructions.
* Of the flash model the power-down command; a reset of PicoSoC while it runs (the
  flash is then left in the middle of a transfer, and one cut off in its dummy
  clocks is not brought back by the FF that follows).
* Fixed texts, cycle counts, and the cycles between two reminders of the prompt.
* `malloc` of dhrystone, which adds up sizes, and `printf`, which spells its format.
* Boot code, the other board wrappers, instruction tests, dhrystone and scripts:
  they have no protocol of their own, or are environment and tooling.

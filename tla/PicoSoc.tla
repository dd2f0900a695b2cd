------------------------------ MODULE PicoSoc -------------------------------
(***************************************************************************)
(* The bus of PicoSoC (picosoc/picosoc.v): one native memory master, the   *)
(* SRAM, the flash controller with its configuration register, the UART    *)
(* with its divider and data registers, and the LED register of the board  *)
(* (picosoc/icebreaker.v).  A terminal sends to and listens to the UART.   *)
(* One step is one rising edge of clk; the SoC is only reset at power-up.  *)
(***************************************************************************)
EXTENDS SpiMemio, SimpleUart

CONSTANTS
    TRAFFIC,      \* parts of the SoC in use: "flash", "local" (SRAM, LEDs), "serial"
    FLASH_WORDS,  \* words the master reads from the flash
    SRAM_WORDS,   \* words of the SRAM
    VALUES,       \* values stored in SRAM and LED register
    MODES,        \* settings of the configuration register the firmware writes
    DIV,          \* divider the firmware writes (104); 32 bits count past all but the largest two
    SENDS, TYPES, \* what the program writes to the UART, and what the user types
    WRITES        \* bound on the writes of the configuration and divider registers

ASSUME CharAssumption == SENDS \in Seq(Frames) /\ TYPES \in Seq(Frames)
ASSUME DivAssumption == DIV \in Nat
ASSUME TrafficAssumption == TRAFFIC \subseteq {"flash", "local", "serial"}

VARIABLES
    traffic,
    mem_valid, mem,         \* the request: [to, w, write, data]
    ram, ram_ready, ram_rdata,
    leds, iomem_ready,
    writes,                 \* register writes so far
    term,                   \* the terminal: [tx, txcnt, rx, rxcnt, rxpattern]
    sent, arrived,          \* history: bytes written to the UART, bytes displayed
    typed, completed,       \* history: bytes typed, how many of them have arrived
    taken,                  \* history: bytes read
    overrun                 \* history: a byte was completed over one nobody had read

busVars  == <<traffic, mem_valid, mem, ram, ram_ready, ram_rdata, leds, iomem_ready, writes>>
termVars == <<term, sent, arrived, typed, completed, taken, overrun>>
vars     == <<spiVars, uartVars, busVars, termVars>>

BIT == DIV + 2      \* cycles of a bit at the divider's rate

\* Configurations as the firmware writes them.
Mode(ddr, qspi, cont) == [en |-> TRUE, ddr |-> ddr, qspi |-> qspi, cont |-> cont]
set_flash_mode_spi  == Mode(FALSE, FALSE, FALSE)
set_flash_mode_dual == Mode(TRUE, FALSE, FALSE)
set_flash_mode_quad == Mode(FALSE, TRUE, FALSE)
set_flash_mode_qddr == Mode(TRUE, TRUE, FALSE)
enable_flash_crm(m) == [m EXCEPT !.cont = TRUE]
Memio(on)           == [cfg EXCEPT !.en = on]

-----------------------------------------------------------------------------
(* The multiplexer.                                                        *)

To(slave) == mem_valid /\ mem.to = slave

spimem_ready == ready(To("flash"), mem.w)
dat_wait     == mem.write /\ reg_dat_wait
mem_ready ==
    \/ (iomem_ready /\ To("leds"))
    \/ spimem_ready \/ ram_ready
    \/ To("cfg") \/ To("div")
    \/ (To("dat") /\ ~dat_wait)

mem_rdata ==
    CASE iomem_ready /\ To("leds") -> leds
      [] spimem_ready -> rdata
      [] ram_ready -> ram_rdata
      [] To("cfg") -> cfg
      [] To("div") -> cfg_divider
      [] To("dat") -> reg_dat_do
      [] OTHER -> 0

RamReady == mem_valid /\ ~mem_ready /\ mem.to = "sram"

\* The SRAM writes in the cycle a request arrives and reads what was there.
Sram ==
    /\ ram_ready' = RamReady
    /\ IF To("sram") THEN ram_rdata' = ram[mem.w] ELSE UNCHANGED ram_rdata
    /\ ram' = IF To("sram") /\ ~mem_ready /\ mem.write THEN [ram EXCEPT ![mem.w] = mem.data] ELSE ram

Gpio ==
    /\ iomem_ready' = (To("leds") /\ ~iomem_ready)
    /\ leds' = IF To("leds") /\ ~iomem_ready /\ mem.write THEN mem.data ELSE leds

-----------------------------------------------------------------------------
(* The master: a program that reads flash, uses the SRAM and the registers.*)

Req(to, w, write, data) == [to |-> to, w |-> w, write |-> write, data |-> data]

\* The bit-banging worker runs between a write that turns MEMIO off and one that
\* turns it on, from the SRAM.
FlashRequests ==
    IF cfg.en
    THEN {Req("flash", w, FALSE, 0) : w \in FLASH_WORDS}
         \cup (IF writes >= WRITES THEN {}
               ELSE {Req("cfg", 0, TRUE, to) : to \in MODES}
                    \cup (IF cfg.cont THEN {} ELSE {Req("cfg", 0, TRUE, Memio(FALSE))}))
    ELSE {Req("cfg", 0, TRUE, Memio(TRUE))}

LocalRequests ==
    {Req("sram", w, FALSE, 0) : w \in SRAM_WORDS}
    \cup {Req("sram", w, TRUE, v) : w \in SRAM_WORDS, v \in VALUES}
    \cup {Req("leds", 0, FALSE, 0)} \cup {Req("leds", 0, TRUE, v) : v \in VALUES}

\* The divider is set before anything is sent.
SerialRequests ==
    (IF writes < WRITES THEN {Req("div", 0, TRUE, DIV)} ELSE {})
    \cup (IF cfg_divider # DIV THEN {}
          ELSE {Req("dat", 0, FALSE, 0), Req("div", 0, FALSE, 0)}
               \cup (IF Len(sent) < Len(SENDS)
                     THEN {Req("dat", 0, TRUE, SENDS[Len(sent) + 1])} ELSE {}))

Requests ==
    CASE traffic = "flash" -> FlashRequests
      [] traffic = "local" -> LocalRequests
      [] traffic = "serial" -> SerialRequests

NoRequest == Req("none", 0, FALSE, 0)

\* mem_valid is low for a cycle after every request, and what mem_addr holds then
\* is nobody's.
Master ==
    \/ /\ ~mem_valid
       /\ mem_valid' = TRUE /\ mem' \in Requests
    \/ /\ (mem_valid => mem_ready)
       /\ mem_valid' = FALSE /\ mem' = NoRequest
    \/ /\ mem_valid /\ ~mem_ready
       /\ UNCHANGED <<mem_valid, mem>>

Done(to, write) == To(to) /\ mem_ready /\ mem.write = write

Bus ==
    /\ Master /\ Sram /\ Gpio
    /\ writes' = IF Done("cfg", TRUE) \/ Done("div", TRUE) THEN writes + 1 ELSE writes
    /\ UNCHANGED traffic

-----------------------------------------------------------------------------
(* The terminal, at the divider's rate.                                    *)

Idle == [tx |-> <<1>>, txcnt |-> 0, rx |-> -1, rxcnt |-> 0, rxpattern |-> <<>>]

\* Bits not yet sent, one cycle of the current one after the other; the user may
\* type a byte when the line is idle and the divider is set.
TermSends(t) ==
    IF t.txcnt < BIT - 1 /\ Len(t.tx) > 1 THEN {[t EXCEPT !.txcnt = @ + 1]}
    ELSE IF Len(t.tx) > 1 THEN {[t EXCEPT !.tx = Tail(@), !.txcnt = 0]}
    ELSE {t} \cup (IF cfg_divider = DIV /\ Len(typed) < Len(TYPES)
                   THEN {[t EXCEPT !.tx = <<0>> \o TYPES[Len(typed) + 1] \o <<1, 1>>,
                                   !.txcnt = 0]}
                   ELSE {})

\* The test bench's listener: half a bit after the falling edge, then bit by bit.
TermListens(t) ==
    CASE t.rx = -1 -> IF ser_tx = 1 THEN t ELSE [t EXCEPT !.rx = 0, !.rxcnt = 1]
      [] t.rx \in 0 .. BITS + 1 ->
           IF t.rxcnt + 1 < (IF t.rx = 0 THEN BIT \div 2 ELSE BIT)
           THEN [t EXCEPT !.rxcnt = @ + 1]
           ELSE IF t.rx = BITS + 1 THEN [t EXCEPT !.rx = -1, !.rxcnt = 0, !.rxpattern = <<>>]
           ELSE [t EXCEPT !.rx = @ + 1, !.rxcnt = 0,
                          !.rxpattern = IF t.rx = 0 THEN <<>> ELSE Append(@, ser_tx)]

Displays == term.rx = BITS + 1 /\ term.rxcnt + 1 >= BIT

Serial ==
    /\ \E t \in TermSends(term) :
          /\ term' = TermListens(t)
          /\ typed' = IF Len(t.tx) > Len(term.tx) THEN Append(typed, SubSeq(t.tx, 2, BITS + 1)) ELSE typed
    /\ UartStep(term.tx[1], Done("dat", FALSE),
                IF To("dat") /\ mem.write THEN mem.data ELSE EMPTY,
                IF To("div") /\ mem.write THEN mem.data ELSE -1)
    /\ sent' = IF Done("dat", TRUE) THEN Append(sent, mem.data) ELSE sent
    /\ arrived' = IF Displays THEN Append(arrived, term.rxpattern) ELSE arrived
    /\ completed' = IF Completes THEN completed + 1 ELSE completed
    /\ taken' = IF Done("dat", FALSE) /\ recv_buf_valid THEN Append(taken, mem_rdata) ELSE taken
    /\ overrun' = (overrun \/ (Completes /\ recv_buf_valid /\ ~Done("dat", FALSE)))

Init ==
    /\ traffic \in TRAFFIC
    /\ SpiInit /\ UartInit
    /\ mem_valid = FALSE /\ mem = NoRequest
    /\ ram = [w \in SRAM_WORDS |-> 0] /\ ram_ready = FALSE /\ ram_rdata = 0   \* cleared by start.s
    /\ leds = 0 /\ iomem_ready = FALSE /\ writes = 0
    /\ term = Idle
    /\ sent = <<>> /\ arrived = <<>> /\ typed = <<>> /\ completed = 0 /\ taken = <<>> /\ overrun = FALSE

Tick ==
    /\ Bus
    /\ IF traffic = "flash"
       THEN SpiStep(To("flash"), mem.w, To("cfg") /\ mem.write, mem.data) /\ Pins
       ELSE UNCHANGED spiVars
    /\ IF traffic = "serial" THEN Serial ELSE UNCHANGED <<uartVars, termVars>>

\* With MEMIO off the worker's bytes reach the flash instead.
FlashIo ==
    /\ ~cfg.en /\ xf.csb /\ ~mem_valid
    /\ \E command \in {159, 53}, len \in {2} : flash' = Clocked(command, len)
    /\ UNCHANGED <<cfg, softreset, state, xfer_resetn, din, rd, buffer, rdata, xf, uartVars, busVars, termVars>>

Next     == Tick \/ FlashIo
Spec     == Init /\ [][Next]_vars
FairSpec == Spec /\ WF_vars(Tick)

-----------------------------------------------------------------------------
\* What a load must return: the flash's word, the last value stored.
Expected ==
    CASE mem.to = "flash" -> WordOf(mem.w)
      [] mem.to = "sram" -> ram[mem.w]
      [] mem.to = "leds" -> leds
      [] OTHER -> mem_rdata

\* A load returns what its address holds, in every mode of the flash and however
\* modes, jumps, prefetches and bit-banged commands follow each other.  Answers
\* that are registered are gone before the next request, so that it is not
\* answered by a slave it is not for.
LoadsReadRight ==
    /\ mem_valid /\ mem_ready /\ ~mem.write => mem_rdata = Expected
    /\ ram_ready => To("sram")
    /\ iomem_ready => To("leds")

\* The terminal displays every byte written to the data register, in order and
\* once, idle lines after a divider write included.
Prefix(s, t) == Len(s) <= Len(t) /\ s = SubSeq(t, 1, Len(s))
SentArrives ==
    /\ Prefix(arrived, sent)
    /\ send_bitcnt = 0 /\ term.rx = -1 => arrived = sent

\* What the program has read, and the byte that waits, are the bytes typed, as
\* long as none arrived before the one in the buffer was read.
TypedIsTaken ==
    overrun \/ taken \o (IF recv_buf_valid THEN <<recv_buf_data>> ELSE <<>>)
                = SubSeq(typed, 1, completed)

\* Every request is answered: the flash wakes up, changes modes and jumps, the
\* data register waits for the bytes and the idle line before it.
Answered == mem_valid ~> ~mem_valid
=============================================================================

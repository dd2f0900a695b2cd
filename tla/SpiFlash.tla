------------------------------ MODULE SpiFlash ------------------------------
(***************************************************************************)
(* The serial flash of the PicoSoC test benches (picosoc/spiflash.v), as   *)
(* operators on a record: what an edge of its clock or of its chip select  *)
(* does.  Bits are counted, whole bytes are carried: a byte taken on other *)
(* lanes, or from another bit on, than it was sent is JUNK.                *)
(***************************************************************************)
EXTENDS Integers

CONSTANT LATENCY     \* dummy clocks between the mode byte and the data (8)

ASSUME LatencyAssumption == LATENCY \in Nat

JUNK == -1

\* Commands and mode bytes.
EXIT   == 255        \* FF: leave continuous reading
WAKE   == 171        \* AB: release from power-down
READ   == 3          \* 03: one lane each way
DIO    == 187        \* BB: two lanes
QIO    == 235        \* EB: four lanes
DDRQIO == 237        \* ED: four lanes, both edges
CONTINUE == 165      \* A5: the next read omits its command
Reads  == {READ, DIO, QIO, DDRQIO}

\* The byte stored at an address, no member of 0 .. 255 that could be a command.
Stored(addr) == IF addr = JUNK THEN JUNK ELSE 256 + addr

Lanes(mode) ==
    CASE mode = "spi" -> 1
      [] mode \in {"dspi_rd", "dspi_wr"} -> 2
      [] OTHER -> 4

\* `out' is the byte being shifted out, `line' the byte whose last nibble is on
\* the lanes (both edges).
FlashAtPowerUp ==
    [powered |-> FALSE, mode |-> "spi", next_ddr |-> FALSE, cmd |-> 0, xip_cmd |-> 0,
     bitcount |-> 0, bytecount |-> 0, dummycount |-> 0, addr |-> 0, out |-> 0, line |-> JUNK]

\* Byte number bytecount is the first of the data, which the address bytes and,
\* with more than one lane, the mode byte precede.
FirstData(cmd) == IF cmd = READ THEN 4 ELSE 5

Command(f, b) ==
    IF f.bytecount = 1
    THEN [f EXCEPT !.cmd = b, !.out = b, !.powered = @ \/ b = WAKE,
                   !.xip_cmd = IF b = EXIT THEN 0 ELSE @]
    ELSE [f EXCEPT !.out = b]

EnterRead(f) ==
    IF f.bytecount # 1 THEN f
    ELSE CASE f.cmd = DIO -> [f EXCEPT !.mode = "dspi_rd"]
           [] f.cmd = QIO -> [f EXCEPT !.mode = "qspi_rd"]
           [] f.cmd = DDRQIO -> [f EXCEPT !.next_ddr = TRUE]
           [] OTHER -> f

TakeAddress(f, b) ==
    CASE f.bytecount = 2 -> [f EXCEPT !.addr = IF b = JUNK THEN JUNK ELSE 65536 * b]
      [] f.bytecount = 3 -> [f EXCEPT !.addr = IF JUNK \in {b, @} THEN JUNK ELSE @ + 256 * b]
      [] f.bytecount = 4 -> [f EXCEPT !.addr = IF JUNK \in {b, @} THEN JUNK ELSE @ + b]
      [] OTHER -> f

\* The mode byte: from here on the flash drives the lanes.
TakeMode(f, b) ==
    IF f.bytecount # 5 \/ f.cmd = READ THEN f
    ELSE [f EXCEPT !.xip_cmd = IF b = CONTINUE THEN f.cmd ELSE 0,
                   !.mode = CASE f.cmd = DIO -> "dspi_wr" [] f.cmd = QIO -> "qspi_wr"
                              [] f.cmd = DDRQIO -> "ddr_wr",
                   !.dummycount = LATENCY]

GiveData(f) ==
    IF f.bytecount < FirstData(f.cmd) THEN f
    ELSE [f EXCEPT !.out = Stored(f.addr), !.addr = IF @ = JUNK THEN JUNK ELSE @ + 1]

\* spi_action, with the byte `b' that is complete.
spi_action(f, b) ==
    LET g == Command(f, b)
    IN  IF g.powered /\ g.cmd \in Reads
        THEN GiveData(TakeMode(TakeAddress(EnterRead(g), b), b))
        ELSE g

\* One more group of bits; `sent' is the byte a complete one is.  Counting bytes
\* stops one after the mode byte: nothing tells the later ones apart.
Shift(f, sent) ==
    LET n == f.bitcount + Lanes(f.mode)
    IN  IF n < 8 THEN [f EXCEPT !.bitcount = n]
        ELSE spi_action([f EXCEPT !.bitcount = 0, !.bytecount = IF @ < 6 THEN @ + 1 ELSE 6], sent)

\* ddr_wr_edge: a nibble goes out at each edge.
DriveNibble(f) ==
    LET onLine == IF f.bitcount = 4 THEN f.out ELSE JUNK
    IN  [Shift(f, JUNK) EXCEPT !.line = onLine]

\* A rising clock edge.
PosEdge(f, sent) ==
    IF f.dummycount > 0 THEN [f EXCEPT !.dummycount = @ - 1]
    ELSE IF f.mode = "ddr_wr" THEN DriveNibble(f) ELSE Shift(f, sent)

\* Clock and chip select low: double-rate edges, and the change to double rate.
NegEdge(f, sent) ==
    LET g == CASE f.dummycount > 0 -> f
               [] f.dummycount = 0 /\ f.mode = "ddr_rd" -> Shift(f, sent)
               [] f.dummycount = 0 /\ f.mode = "ddr_wr" -> DriveNibble(f)
               [] OTHER -> f
    IN  IF g.next_ddr THEN [g EXCEPT !.mode = "ddr_rd", !.next_ddr = FALSE] ELSE g

\* Chip select rises: the transfer is forgotten, with the command and the address
\* that the next one brings before it uses them; the dummy clocks still owed and
\* the continuous read are not.
Deselect(f) == [f EXCEPT !.bitcount = 0, !.bytecount = 0, !.mode = "spi", !.out = 0,
                         !.line = JUNK, !.cmd = 0, !.addr = 0]

\* Chip select falls: in a continuous read the command is already there.
Select(f) ==
    NegEdge(IF f.xip_cmd = 0 THEN f
            ELSE spi_action([f EXCEPT !.bitcount = 0, !.bytecount = 1], f.xip_cmd), JUNK)

=============================================================================

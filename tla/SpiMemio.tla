------------------------------ MODULE SpiMemio ------------------------------
(***************************************************************************)
(* The SPI flash controller of PicoSoC (picosoc/spimemio.v), with the      *)
(* flash it drives: the state machine that turns word reads into command,  *)
(* address, mode and data bytes, its prefetch of the next word, and the    *)
(* byte engine spimemio_xfer.  One step is one rising edge of clk.         *)
(***************************************************************************)
EXTENDS SpiFlash, FiniteSets

CONSTANT BASE    \* byte address of flash word 0, a multiple of 65536

VARIABLES
    cfg,          \* configuration register: [en, ddr, qspi, cont]
    softreset,
    state,        \* 0 .. 12
    xfer_resetn,
    din,          \* registers din_*: [valid, data, tag, qspi, ddr, rd]
    rd,           \* registers rd_*: [addr, valid, wait, inc], addr a word number
    buffer, rdata,\* bytes collected, word delivered
    xf,           \* registers of spimemio_xfer
    flash         \* the flash (SpiFlash)

spiVars == <<cfg, softreset, state, xfer_resetn, din, rd, buffer, rdata, xf, flash>>

DefaultMode == [en |-> TRUE, ddr |-> FALSE, qspi |-> FALSE, cont |-> FALSE]
IdleDin     == [valid |-> FALSE, data |-> 0, tag |-> 0, qspi |-> FALSE, ddr |-> FALSE, rd |-> FALSE]
IdleXfer    == [count |-> 0, dummy |-> 0, tag |-> 0, lanes |-> 1, both |-> FALSE, rd |-> FALSE,
                fetch |-> TRUE, last_fetch |-> TRUE, clk |-> FALSE, csb |-> TRUE,
                obyte |-> 0, ibyte |-> 0, both_q |-> FALSE, tag_q |-> 0]

\* The cycle after resetn rose: softreset is still set.
SpiInit ==
    /\ cfg = DefaultMode /\ softreset = TRUE
    /\ state = 0 /\ xfer_resetn = FALSE
    /\ din = IdleDin
    /\ rd = [addr |-> 0, valid |-> FALSE, wait |-> FALSE, inc |-> FALSE]
    /\ buffer = <<0, 0, 0>> /\ rdata = <<0, 0, 0, 0>>
    /\ xf = IdleXfer /\ flash = FlashAtPowerUp

WordOf(w) == [k \in 1 .. 4 |-> Stored(BASE + 4 * w + k - 1)]
AddrByte(w, k) == CASE k = 1 -> BASE \div 65536
                    [] k = 2 -> (4 * w) \div 256
                    [] k = 3 -> (4 * w) % 256

-----------------------------------------------------------------------------
(* spimemio_xfer: bytes out and in, on one, two or four lanes.             *)

\* Bits move at every edge (double rate), or leave at the falling one.
next_count ==
    IF xf.both \/ xf.clk
    THEN IF xf.count >= xf.lanes THEN xf.count - xf.lanes ELSE 0
    ELSE xf.count
next_fetch == xf.dummy = 0 /\ next_count = 0
din_ready  == din.valid /\ xfer_resetn /\ next_fetch
dout_valid ==
    /\ IF xf.both_q THEN xf.fetch /\ ~xf.last_fetch ELSE next_fetch /\ ~xf.fetch
    /\ xfer_resetn

\* The last group of bits of a byte is sampled; it is the byte the flash sends
\* when both count the same bits on the same lanes.
Sampling == xf.dummy = 0 /\ xf.count = xf.lanes /\ (xf.both \/ ~xf.clk)
Sampled ==
    IF flash.dummycount > 0 THEN JUNK
    ELSE IF xf.both
         THEN IF flash.mode = "ddr_wr" THEN flash.line ELSE JUNK
         ELSE IF /\ flash.mode \in {"spi", "dspi_wr", "qspi_wr"}
                 /\ Lanes(flash.mode) = xf.lanes /\ flash.bitcount = 8 - xf.lanes
              THEN flash.out ELSE JUNK

\* The byte the flash takes if one is complete with this edge.
Sent ==
    IF /\ xf.dummy = 0 /\ xf.count = xf.lanes /\ xf.lanes = Lanes(flash.mode)
       /\ (xf.both <=> flash.mode = "ddr_rd") /\ (xf.lanes = 1 \/ ~xf.rd)
    THEN xf.obyte ELSE JUNK

XferReset == [IdleXfer EXCEPT !.obyte = xf.obyte, !.ibyte = xf.ibyte,
                              !.both_q = xf.both, !.tag_q = xf.tag]

\* The registers that move on every edge.
XferMoved ==
    LET running == xf.dummy > 0 \/ xf.count > 0
    IN  [xf EXCEPT !.fetch = next_fetch,
                   !.last_fetch = IF xf.both THEN xf.fetch ELSE TRUE,
                   !.both_q = xf.both, !.tag_q = xf.tag,
                   !.clk = IF running THEN ~xf.clk /\ ~xf.csb ELSE @,
                   !.dummy = IF xf.dummy > 0 /\ xf.clk THEN @ - 1 ELSE @,
                   !.count = IF xf.dummy = 0 THEN next_count ELSE @,
                   !.ibyte = IF Sampling THEN Sampled ELSE @]

XferLoaded ==
    [XferMoved EXCEPT
        !.csb = FALSE, !.clk = FALSE, !.count = 8,
        !.dummy = IF din.rd THEN din.data ELSE 0,
        !.obyte = din.data, !.tag = din.tag, !.rd = din.rd,
        !.lanes = IF din.qspi THEN 4 ELSE IF din.ddr THEN 2 ELSE 1,
        !.both = din.ddr /\ din.qspi]

Xfer == xf' = IF ~xfer_resetn THEN XferReset ELSE IF din_ready THEN XferLoaded ELSE XferMoved

\* With MEMIO off the pins follow the register, which holds chip select high.
Csb(c, x) == ~c.en \/ x.csb

\* What the pins do to the flash.
Pins ==
    flash' = IF Csb(cfg', xf') THEN (IF Csb(cfg, xf) THEN flash ELSE Deselect(flash))
             ELSE IF Csb(cfg, xf) THEN Select(flash)
             ELSE IF xf.clk = xf'.clk THEN flash
             ELSE IF xf'.clk THEN PosEdge(flash, Sent) ELSE NegEdge(flash, Sent)

\* flashio: the worker clocks `len' bytes by hand, the first of them `command',
\* on one lane each way.
Clocked(command, len) ==
    LET edge[n \in 0 .. 8 * len] ==
            IF n = 0 THEN Select(flash)
            ELSE LET f == PosEdge(edge[n - 1], IF n = 8 /\ edge[7].mode = "spi" THEN command ELSE JUNK)
                 IN  NegEdge(f, JUNK)
    IN  Deselect(edge[8 * len])

-----------------------------------------------------------------------------
(* The controller.                                                         *)

ready(valid, w) == valid /\ w = rd.addr /\ rd.valid
jump(valid, w)  == valid /\ ~ready(valid, w) /\ w # rd.addr + 1 /\ rd.valid

\* The states that offer a byte, and the byte, tag and successor of each.
Offers(valid, w) ==
    \/ state \in {0, 2, 4, 6, 7, 8, 9, 10, 11}
    \/ state = 5 /\ valid /\ ~ready(valid, w)
    \/ state = 12 /\ (~rd.wait \/ valid)

ReadCommand ==
    CASE cfg.ddr /\ cfg.qspi -> DDRQIO
      [] cfg.qspi /\ ~cfg.ddr -> QIO
      [] cfg.ddr /\ ~cfg.qspi -> DIO
      [] OTHER -> READ

OfferedByte(w) ==
    CASE state = 0 -> EXIT
      [] state = 2 -> WAKE
      [] state = 4 -> ReadCommand
      [] state \in 5 .. 7 -> AddrByte(w, state - 4)
      [] state = 8 -> IF cfg.cont THEN CONTINUE ELSE EXIT
      [] state = 10 -> 0
      [] OTHER -> din.data

Successor == IF state = 12 THEN 9
             ELSE IF state = 7 /\ ~(cfg.qspi \/ cfg.ddr) THEN 9 ELSE state + 1

DinOffered(w) ==
    [din EXCEPT !.valid = ~din_ready,
                !.data = CASE state = 7 /\ din_ready -> 0
                           [] state = 8 /\ din_ready -> LATENCY      \* config_dummy
                           [] OTHER -> OfferedByte(w),
                !.tag = IF state >= 9 THEN state - 8 ELSE 0,
                !.qspi = IF state = 5 THEN cfg.qspi ELSE @,
                !.ddr = IF state = 5 THEN cfg.ddr ELSE @,
                !.rd = @ \/ (state = 8 /\ din_ready)]

\* A pair of wake-up bytes ends with the engine in reset: chip select rises.
Ending == state \in {1, 3} /\ dout_valid

MutCollect(valid, w) ==
    IF dout_valid /\ xf.tag_q = 4
    THEN /\ rdata' = <<buffer[1], buffer[2], buffer[3], xf.ibyte>>
         /\ rd' = [addr |-> IF rd.inc THEN rd.addr + 1 ELSE w, valid |-> TRUE,
                   wait |-> FALSE, inc |-> TRUE]
    ELSE rd' = [rd EXCEPT !.wait = @ /\ ~valid] /\ UNCHANGED rdata
Collect(valid, w) ==
    IF dout_valid /\ xf.tag_q = 4
    THEN /\ rdata' = <<buffer[1], buffer[2], buffer[3], xf.ibyte>>
         /\ rd' = [addr |-> IF rd.inc THEN rd.addr + 1 ELSE w,
                   valid |-> ~jump(valid, w),
                   wait |-> rd.inc /\ ~valid,
                   inc |-> ~jump(valid, w) /\ state # 4]
    ELSE /\ rd' = [rd EXCEPT !.wait = @ /\ ~valid,
                             !.valid = @ /\ ~jump(valid, w),
                             !.inc = @ /\ ~jump(valid, w) /\ state # 4]
         /\ UNCHANGED rdata

CollectPart ==
    buffer' = IF dout_valid /\ xf.tag_q \in 1 .. 3
              THEN [buffer EXCEPT ![xf.tag_q] = xf.ibyte] ELSE buffer

\* A jump overrides what the state machine chose in the same cycle.
Advance(valid, w) ==
    LET next == IF Offers(valid, w) THEN DinOffered(w) ELSE [din EXCEPT !.valid = FALSE]
    IN  IF jump(valid, w)
        THEN /\ state' = IF cfg.cont THEN 5 ELSE 4
             /\ din' = [next EXCEPT !.rd = FALSE, !.qspi = @ /\ cfg.cont, !.ddr = @ /\ cfg.cont]
             /\ xfer_resetn' = FALSE
        ELSE /\ state' = IF (Offers(valid, w) /\ din_ready) \/ Ending
                         THEN Successor ELSE state
             /\ din' = next
             /\ xfer_resetn' = ~Ending

Restart ==
    /\ state' = 0 /\ xfer_resetn' = FALSE
    /\ din' = [IdleDin EXCEPT !.data = din.data]
    /\ rd' = [rd EXCEPT !.valid = FALSE]
    /\ UNCHANGED <<buffer, rdata>>

\* The bus reads word `w' when valid, or writes the configuration register.
MutConfigure(writes, to) ==
    /\ cfg' = IF writes THEN to ELSE cfg
    /\ softreset' = ~cfg.en
Configure(writes, to) ==
    /\ cfg' = IF writes THEN to ELSE cfg
    /\ softreset' = (~cfg.en \/ writes)

SpiStep(valid, w, writes, to) ==
    /\ Configure(writes, to)
    /\ IF softreset THEN Restart
       ELSE Advance(valid, w) /\ Collect(valid, w) /\ CollectPart
    /\ Xfer

=============================================================================

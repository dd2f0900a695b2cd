----------------------------- MODULE SimpleUart -----------------------------
(***************************************************************************)
(* The UART of PicoSoC (picosoc/simpleuart.v): a shift register that sends *)
(* what the data register is given, a receiver with a buffer of one byte,  *)
(* and the idle line it sends after the divider is written.  One step is   *)
(* one rising edge of clk.                                                 *)
(***************************************************************************)
EXTENDS Integers, Sequences

CONSTANTS
    BITS,          \* data bits of a frame (8)
    DUMMY,         \* bits of idle line after a divider write (15)
    DEFAULT_DIV    \* divider after reset (1)

ASSUME BitsAssumption    == BITS \in Nat \ {0}
ASSUME DividerAssumption == DEFAULT_DIV \in Nat

VARIABLES
    cfg_divider,
    recv_state, recv_divcnt, recv_pattern, recv_buf_data, recv_buf_valid,
    send_pattern, send_bitcnt, send_divcnt, send_dummy

recvVars == <<recv_state, recv_divcnt, recv_pattern, recv_buf_data, recv_buf_valid>>
sendVars == <<send_pattern, send_bitcnt, send_divcnt, send_dummy>>
uartVars == <<cfg_divider, recvVars, sendVars>>

\* A byte is the sequence of its bits, the one sent first in front.
Frames == [1 .. BITS -> 0 .. 1]
EMPTY  == <<>>     \* what the data register reads as -1

LAST  == BITS + 2  \* recv_state of the stop bit, bits of a frame (10)

ASSUME DummyAssumption == DUMMY \in Nat /\ DUMMY > LAST

UartInit ==
    /\ cfg_divider = DEFAULT_DIV
    /\ recv_state = 0 /\ recv_divcnt = 0 /\ recv_pattern = [k \in 1 .. BITS |-> 0]
    /\ recv_buf_data = [k \in 1 .. BITS |-> 0] /\ recv_buf_valid = FALSE
    /\ send_pattern = [k \in 1 .. LAST |-> 1] /\ send_bitcnt = 0 /\ send_divcnt = 0
    /\ send_dummy = TRUE

ser_tx       == send_pattern[1]
MutDatWait == send_bitcnt > 0
reg_dat_wait == send_bitcnt > 0 \/ send_dummy
reg_dat_do   == IF recv_buf_valid THEN recv_buf_data ELSE EMPTY

\* A counter compared with the divider only: values past it are one.
Count(n) == IF n > cfg_divider THEN n ELSE n + 1

-----------------------------------------------------------------------------
\* The sampled line has settled for a whole bit, half of one in the start bit.
BitOver   == recv_divcnt > cfg_divider
Completes == recv_state = LAST /\ BitOver

MutKeep(re) == (recv_buf_valid \/ Completes) /\ ~re
\* A byte that completes in the cycle of a read of the data register stays.
Keep(re) == (recv_buf_valid /\ ~re) \/ Completes

ReceiveState(ser_rx) ==
    CASE recv_state = 0 -> IF ser_rx = 0 THEN 1 ELSE 0
      [] recv_state = 1 -> IF 2 * recv_divcnt > cfg_divider THEN 2 ELSE 1
      [] recv_state \in 2 .. LAST - 1 -> IF BitOver THEN recv_state + 1 ELSE recv_state
      [] recv_state = LAST -> IF BitOver THEN 0 ELSE LAST

\* The receiver, with the line and whether the data register is read.
Receive(ser_rx, re) ==
    /\ recv_state' = ReceiveState(ser_rx)
    /\ recv_divcnt' = IF recv_state = 0 \/ (recv_state # LAST /\ recv_state' # recv_state)
                      THEN 0 ELSE Count(recv_divcnt)
    /\ recv_pattern' = IF recv_state \in 2 .. LAST - 1 /\ BitOver
                       THEN Append(Tail(recv_pattern), ser_rx) ELSE recv_pattern
    /\ recv_buf_data' = IF Completes THEN recv_pattern ELSE recv_buf_data
    /\ recv_buf_valid' = Keep(re)

-----------------------------------------------------------------------------
SendShift ==
    IF send_bitcnt > 0 /\ send_divcnt > cfg_divider
    THEN /\ send_pattern' = Append(Tail(send_pattern), 1)
         /\ send_bitcnt' = send_bitcnt - 1 /\ send_divcnt' = 0
    ELSE send_divcnt' = Count(send_divcnt) /\ UNCHANGED <<send_pattern, send_bitcnt>>

\* The sender, with the byte the data register is written with or EMPTY, and
\* whether the divider register is written.
Send(byte, div) ==
    IF send_dummy /\ send_bitcnt = 0
    THEN /\ send_pattern' = [k \in 1 .. LAST |-> 1]
         /\ send_bitcnt' = DUMMY /\ send_divcnt' = 0 /\ send_dummy' = FALSE
    ELSE IF byte # EMPTY /\ send_bitcnt = 0
    THEN /\ send_pattern' = <<0>> \o byte \o <<1>>
         /\ send_bitcnt' = LAST /\ send_divcnt' = 0 /\ send_dummy' = (send_dummy \/ div)
    ELSE SendShift /\ send_dummy' = (send_dummy \/ div)

\* `divider' is -1 when the divider register is not written.
UartStep(ser_rx, re, byte, divider) ==
    /\ cfg_divider' = IF divider >= 0 THEN divider ELSE cfg_divider
    /\ Receive(ser_rx, re)
    /\ Send(byte, divider >= 0)

=============================================================================

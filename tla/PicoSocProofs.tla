--------------------------- MODULE PicoSocProofs ---------------------------
(***************************************************************************)
(* Proofs about PicoSoc, for any divider, number of data bits and program: *)
(* the UART sends and receives what it is given, in order and once, and    *)
(* the answers of SRAM, LEDs and registers are for the request they meet.  *)
(***************************************************************************)
EXTENDS PicoSoc, TLAPS

-----------------------------------------------------------------------------
(* The bus.                                                                *)

Requested ==
    /\ traffic = "flash" => mem.to \in {"flash", "cfg"}
    /\ traffic = "local" => mem.to \in {"sram", "leds"}
    /\ traffic = "serial" => mem.to \in {"div", "dat"}
    /\ mem.write \in BOOLEAN
    /\ mem.to = "dat" => cfg_divider = DIV
    /\ mem.to = "dat" /\ mem.write =>
          Len(sent) < Len(SENDS) /\ mem.data = SENDS[Len(sent) + 1]
    /\ mem.to = "div" /\ mem.write => mem.data = DIV

BusInv ==
    /\ traffic \in {"flash", "local", "serial"}
    /\ mem_valid \in BOOLEAN
    /\ IF mem_valid THEN Requested ELSE mem = NoRequest
    /\ ram_ready \in BOOLEAN /\ (ram_ready => To("sram"))
    /\ iomem_ready \in BOOLEAN /\ (iomem_ready => To("leds"))
    /\ cfg_divider \in {DEFAULT_DIV, DIV}
    /\ sent \in Seq(Frames)

-----------------------------------------------------------------------------
(* The sender and the listener.                                            *)

\* The bits of a byte on the line, the ones of the idle line behind them.
LineBit(byte, i) == IF i = 1 THEN 0 ELSE IF i \in 2 .. BITS + 1 THEN byte[i - 1] ELSE 1

\* Cycles from the start of a frame to where the listener starts counting bits.
HALF == IF BIT \div 2 < 2 THEN 2 ELSE BIT \div 2

InFlight == sent[Len(sent)]
BitsSent == LAST - send_bitcnt

\* Where the listener is in the frame.
Heard ==
    \/ term.rx = -1 /\ BitsSent = 0 /\ send_divcnt = 0
    \/ term.rx = 0 /\ BitsSent = 0 /\ send_divcnt = term.rxcnt /\ term.rxcnt \in 1 .. HALF - 1
    \/ /\ term.rx \in 1 .. BITS + 1 /\ term.rxcnt \in 0 .. BIT - 1
       /\ IF HALF + term.rxcnt < BIT
          THEN BitsSent = term.rx - 1 /\ send_divcnt = HALF + term.rxcnt
          ELSE BitsSent = term.rx /\ send_divcnt = HALF + term.rxcnt - BIT
       /\ Len(term.rxpattern) = term.rx - 1
       /\ \A i \in 1 .. term.rx - 1 : term.rxpattern[i] = InFlight[i]

Terms == [tx : Seq({0, 1}), txcnt : Nat, rx : Int, rxcnt : Nat, rxpattern : Seq({0, 1})]
TermType == term \in Terms

SenderType ==
    /\ send_pattern \in Seq({0, 1}) /\ Len(send_pattern) = LAST
    /\ send_bitcnt \in Nat /\ send_divcnt \in Nat /\ send_dummy \in BOOLEAN

Quiet ==
    /\ term.rx = -1 /\ arrived = sent
    /\ \A i \in 1 .. LAST : send_pattern[i] = 1

Sending ==
    /\ sent # <<>> /\ arrived = SubSeq(sent, 1, Len(sent) - 1)
    /\ cfg_divider = DIV
    /\ send_bitcnt \in 1 .. LAST /\ send_divcnt \in 0 .. DIV + 1
    /\ \A i \in 1 .. LAST : send_pattern[i] = LineBit(InFlight, i + BitsSent)
    /\ Heard

SendInv == TermType /\ SenderType /\ typed \in Seq(Frames) /\ (Quiet \/ Sending)

-----------------------------------------------------------------------------
(* The typist and the receiver.                                            *)

\* Cycles from the start of a frame to where the receiver starts counting bits.
START == DIV \div 2 + 3

Typing    == typed[Len(typed)]
BitsTyped == BITS + 3 - Len(term.tx)

Received ==
    \/ recv_state = 0 /\ BitsTyped = 0 /\ term.txcnt = 0
    \/ recv_state = 1 /\ BitsTyped = 0 /\ recv_divcnt \in 0 .. START - 2 /\ term.txcnt = recv_divcnt + 1
    \/ /\ recv_state \in 2 .. LAST /\ recv_divcnt \in 0 .. DIV + 1
       /\ IF START + recv_divcnt < BIT
          THEN BitsTyped = recv_state - 2 /\ term.txcnt = START + recv_divcnt
          ELSE BitsTyped = recv_state - 1 /\ term.txcnt = START + recv_divcnt - BIT
       /\ \A i \in 1 .. recv_state - 2 : recv_pattern[LAST - recv_state + i] = Typing[i]

ReceiverType ==
    /\ completed \in Nat
    /\ recv_state \in 0 .. LAST /\ recv_divcnt \in Nat
    /\ recv_pattern \in Seq({0, 1}) /\ Len(recv_pattern) = BITS
    /\ recv_buf_valid \in BOOLEAN
    /\ overrun \in BOOLEAN /\ taken \in Seq(Frames) /\ recv_buf_data \in Frames

Silent ==
    /\ recv_state = 0 /\ completed = Len(typed)
    /\ Len(term.tx) \in 1 .. 2 /\ \A i \in 1 .. Len(term.tx) : term.tx[i] = 1

Receiving ==
    /\ typed # <<>> /\ completed = Len(typed) - 1
    /\ cfg_divider = DIV
    /\ Len(term.tx) \in 2 .. BITS + 3 /\ term.txcnt \in 0 .. BIT - 1
    /\ \A i \in 1 .. Len(term.tx) : term.tx[i] = LineBit(Typing, i + BitsTyped)
    /\ Received

ReceiveInv == ReceiverType /\ (Silent \/ Receiving) /\ TypedIsTaken

-----------------------------------------------------------------------------
(* Numbers, strings and sequences.                                         *)

\* Half a bit and the receiver's first wait lie within the bit they start in.
LEMMA Rates ==
    /\ BITS \in Nat \ {0} /\ LAST = BITS + 2 /\ LAST \in Nat
    /\ DIV \in Nat /\ DEFAULT_DIV \in Nat /\ BIT = DIV + 2
    /\ HALF \in Nat /\ 2 <= HALF /\ HALF <= BIT
    /\ START \in Nat /\ 3 <= START /\ (DIV # 0 => START <= BIT)
    /\ DUMMY \in Nat /\ DUMMY > LAST
<1>1. /\ BITS \in Nat \ {0} /\ LAST = BITS + 2 /\ DIV \in Nat /\ DEFAULT_DIV \in Nat
      /\ BIT = DIV + 2 /\ DUMMY \in Nat /\ DUMMY > LAST
    BY BitsAssumption, DivAssumption, DividerAssumption, DummyAssumption DEF LAST, BIT
<1>2. /\ DIV \div 2 \in Nat /\ DIV = 2 * (DIV \div 2) + (DIV % 2) /\ DIV % 2 \in 0 .. 1
      /\ BIT \div 2 \in Nat /\ BIT = 2 * (BIT \div 2) + (BIT % 2) /\ BIT % 2 \in 0 .. 1
    BY <1>1
<1>3. /\ HALF \in Nat /\ 2 <= HALF /\ HALF <= BIT BY <1>1, <1>2 DEF HALF
<1>4. /\ START \in Nat /\ 3 <= START /\ (DIV # 0 => START <= BIT) BY <1>1, <1>2 DEF START
<1> QED BY <1>1, <1>3, <1>4

LEMMA IdleLine == \A byte, i : i \in Nat /\ i > BITS + 1 => LineBit(byte, i) = 1
BY Rates DEF LineBit

LEMMA Halves == \A n \in 1 .. HALF - 1 : n + 1 >= BIT \div 2 <=> n = HALF - 1
<1>1. BIT \in Nat /\ BIT \div 2 \in Nat BY Rates
<1> QED BY <1>1 DEF HALF

\* A frame on the line: the start bit, the byte, idle line.
LEMMA Framed ==
    ASSUME NEW byte \in Frames
    PROVE  /\ byte # EMPTY /\ byte \in Seq({0, 1}) /\ Len(byte) = BITS
           /\ <<0>> \o byte \o <<1>> \in Seq({0, 1})
           /\ Len(<<0>> \o byte \o <<1>>) = LAST
           /\ \A i \in 1 .. LAST : (<<0>> \o byte \o <<1>>)[i] = LineBit(byte, i)
           /\ <<0>> \o byte \o <<1, 1>> \in Seq({0, 1})
           /\ Len(<<0>> \o byte \o <<1, 1>>) = BITS + 3
           /\ \A i \in 1 .. BITS + 3 : (<<0>> \o byte \o <<1, 1>>)[i] = LineBit(byte, i)
<1>0. BITS \in Nat \ {0} /\ LAST = BITS + 2 BY Rates
<1>1. byte \in Seq({0, 1}) /\ Len(byte) = BITS BY <1>0 DEF Frames
<1> DEFINE start == <<0>> \o byte
<1>2. start \in Seq({0, 1}) /\ Len(start) = BITS + 1 BY <1>0, <1>1
<1>3. \A i \in 1 .. BITS + 1 : start[i] = IF i = 1 THEN 0 ELSE byte[i - 1] BY <1>0, <1>1
<1> HIDE DEF start
<1>4. /\ start \o <<1>> \in Seq({0, 1}) /\ Len(start \o <<1>>) = BITS + 2
      /\ start \o <<1, 1>> \in Seq({0, 1}) /\ Len(start \o <<1, 1>>) = BITS + 3
    BY <1>0, <1>2
<1>5. \A i \in 1 .. BITS + 2 : (start \o <<1>>)[i] = IF i <= BITS + 1 THEN start[i] ELSE 1
    BY <1>0, <1>2
<1>6. \A i \in 1 .. BITS + 3 : (start \o <<1, 1>>)[i] = IF i <= BITS + 1 THEN start[i] ELSE 1
    BY <1>0, <1>2
<1> DEFINE frame == start \o <<1>>
<1> DEFINE longFrame == start \o <<1, 1>>
<1> HIDE DEF frame, longFrame
<1>7. \A i \in 1 .. LAST : frame[i] = LineBit(byte, i)
  <2> SUFFICES ASSUME NEW i \in 1 .. LAST PROVE frame[i] = LineBit(byte, i) OBVIOUS
  <2>1. i \in 1 .. BITS + 2 /\ frame[i] = IF i <= BITS + 1 THEN start[i] ELSE 1
      BY <1>0, <1>5 DEF frame
  <2>2. i <= BITS + 1 => start[i] = IF i = 1 THEN 0 ELSE byte[i - 1] BY <2>1, <1>0, <1>3
  <2> QED BY <1>0, <2>1, <2>2 DEF LineBit
<1>8. \A i \in 1 .. BITS + 3 : longFrame[i] = LineBit(byte, i)
  <2> SUFFICES ASSUME NEW i \in 1 .. BITS + 3 PROVE longFrame[i] = LineBit(byte, i) OBVIOUS
  <2>1. i \in 1 .. BITS + 3 /\ longFrame[i] = IF i <= BITS + 1 THEN start[i] ELSE 1
      BY <1>0, <1>6 DEF longFrame
  <2>2. i <= BITS + 1 => start[i] = IF i = 1 THEN 0 ELSE byte[i - 1] BY <2>1, <1>0, <1>3
  <2> QED BY <1>0, <2>1, <2>2 DEF LineBit
<1>9. byte # EMPTY BY <1>0, <1>1 DEF EMPTY
<1> QED BY <1>0, <1>1, <1>4, <1>7, <1>8, <1>9 DEF start, frame, longFrame

-----------------------------------------------------------------------------
(* The bus.                                                                *)

\* Answers that are registered are for the request they meet.
LEMMA Answers ==
    ASSUME BusInv
    PROVE  /\ mem_valid /\ mem_ready /\ mem.to = "dat" => ~dat_wait
           /\ mem_valid /\ mem.to = "dat" /\ ~dat_wait => mem_ready
           /\ mem_valid /\ mem.to = "div" => mem_ready
           /\ mem_valid /\ mem.to = "dat" => mem_rdata = reg_dat_do
<1>1. /\ ram_ready => mem_valid /\ mem.to = "sram"
      /\ iomem_ready => mem_valid /\ mem.to = "leds"
      /\ spimem_ready => mem_valid /\ mem.to = "flash"
    BY DEF BusInv, To, spimem_ready, ready
<1>2. mem_valid /\ mem.to = "dat" => mem_rdata = reg_dat_do
    BY <1>1 DEF mem_rdata, To
<1> QED BY <1>1, <1>2 DEF mem_ready, To

LEMMA RequestsAre ==
    ASSUME traffic \in {"flash", "local", "serial"}, NEW req \in Requests, mem' = req,
           traffic' = traffic, cfg_divider' = cfg_divider, sent' = sent
    PROVE  Requested'
<1> USE DEF Req
<1>1. CASE traffic = "flash"
  <2>1. req \in FlashRequests BY <1>1 DEF Requests
  <2>2. CASE req \in {Req("flash", w, FALSE, 0) : w \in FLASH_WORDS}
    <3>1. req.to = "flash" /\ req.write = FALSE BY <2>2
    <3> QED BY <1>1, <3>1 DEF Requested
  <2>3. CASE req \in {Req("cfg", 0, TRUE, to) : to \in MODES}
    <3>1. req.to = "cfg" /\ req.write = TRUE BY <2>3
    <3> QED BY <1>1, <3>1 DEF Requested
  <2>4. CASE req = Req("cfg", 0, TRUE, Memio(FALSE)) \/ req = Req("cfg", 0, TRUE, Memio(TRUE))
    <3>1. req.to = "cfg" /\ req.write = TRUE BY <2>4 DEF Memio
    <3> QED BY <1>1, <3>1 DEF Requested
  <2> QED BY <2>1, <2>2, <2>3, <2>4 DEF FlashRequests
<1>2. CASE traffic = "local"
  <2>1. req \in LocalRequests BY <1>2 DEF Requests
  <2>2. CASE req \in {Req("sram", w, FALSE, 0) : w \in SRAM_WORDS}
    <3>1. req.to = "sram" /\ req.write = FALSE BY <2>2
    <3> QED BY <1>2, <3>1 DEF Requested
  <2>3. CASE req \in {Req("sram", w, TRUE, v) : w \in SRAM_WORDS, v \in VALUES}
    <3>1. req.to = "sram" /\ req.write = TRUE BY <2>3
    <3> QED BY <1>2, <3>1 DEF Requested
  <2>4. CASE req = Req("leds", 0, FALSE, 0)
    <3>1. req.to = "leds" /\ req.write = FALSE BY <2>4
    <3> QED BY <1>2, <3>1 DEF Requested
  <2>5. CASE req \in {Req("leds", 0, TRUE, v) : v \in VALUES}
    <3>1. req.to = "leds" /\ req.write = TRUE BY <2>5
    <3> QED BY <1>2, <3>1 DEF Requested
  <2> QED BY <2>1, <2>2, <2>3, <2>4, <2>5 DEF LocalRequests
<1>3. CASE traffic = "serial"
  <2>1. req \in SerialRequests BY <1>3 DEF Requests
  <2>2. \/ req = Req("div", 0, TRUE, DIV)
        \/ cfg_divider = DIV /\ req \in {Req("dat", 0, FALSE, 0), Req("div", 0, FALSE, 0)}
        \/ cfg_divider = DIV /\ Len(sent) < Len(SENDS) /\ req = Req("dat", 0, TRUE, SENDS[Len(sent) + 1])
      BY <2>1 DEF SerialRequests
  <2>3. CASE req = Req("div", 0, TRUE, DIV)
    <3>1. req.to = "div" /\ req.write = TRUE /\ req.data = DIV BY <2>3
    <3> QED BY <1>3, <3>1 DEF Requested
  <2>4. CASE cfg_divider = DIV /\ req \in {Req("dat", 0, FALSE, 0), Req("div", 0, FALSE, 0)}
    <3>1. req.to \in {"dat", "div"} /\ req.write = FALSE BY <2>4
    <3> QED BY <1>3, <2>4, <3>1 DEF Requested
  <2>5. CASE /\ cfg_divider = DIV /\ Len(sent) < Len(SENDS)
             /\ req = Req("dat", 0, TRUE, SENDS[Len(sent) + 1])
    <3>1. req.to = "dat" /\ req.write = TRUE /\ req.data = SENDS[Len(sent) + 1] BY <2>5
    <3> QED BY <1>3, <2>5, <3>1 DEF Requested
  <2> QED BY <2>2, <2>3, <2>4, <2>5
<1> QED BY <1>1, <1>2, <1>3

LEMMA BusInit == Init => BusInv
<1> SUFFICES ASSUME Init PROVE BusInv OBVIOUS
<1>1. sent \in Seq(Frames) BY DEF Init
<1>2. cfg_divider = DEFAULT_DIV BY DEF Init, UartInit
<1> QED BY <1>1, <1>2, TrafficAssumption DEF Init, BusInv

\* Bytes written, divider and request in a cycle of the UART.
LEMMA Written ==
    ASSUME BusInv, traffic = "serial", Serial
    PROVE  /\ mem_valid /\ mem.to = "dat" /\ mem.write /\ ~reg_dat_wait
                 => sent' = Append(sent, mem.data) /\ mem.data \in Frames
           /\ ~(mem_valid /\ mem.to = "dat" /\ mem.write /\ ~reg_dat_wait) => sent' = sent
           /\ cfg_divider' \in {cfg_divider, DIV}
           /\ ~(mem_valid /\ mem_ready) => cfg_divider' = cfg_divider
<1>1. mem_valid \in BOOLEAN /\ (mem_valid => Requested) BY DEF BusInv
<1>2. mem_valid /\ mem.to = "dat" => (mem_ready <=> ~(mem.write /\ reg_dat_wait))
    BY Answers DEF dat_wait
<1>3. Done("dat", TRUE) <=> mem_valid /\ mem.to = "dat" /\ mem.write /\ ~reg_dat_wait
    BY <1>1, <1>2 DEF Done, To, Requested
<1>4. mem_valid /\ mem.to = "dat" /\ mem.write => mem.data \in Frames
    BY <1>1, CharAssumption DEF Requested
<1>5. sent' = IF Done("dat", TRUE) THEN Append(sent, mem.data) ELSE sent BY DEF Serial
<1>6. cfg_divider' = IF To("div") /\ mem.write THEN (IF mem.data >= 0 THEN mem.data ELSE cfg_divider)
                     ELSE cfg_divider
    BY DEF Serial, UartStep
<1>7. To("div") => mem_ready BY Answers DEF To
<1>8. To("div") /\ mem.write => mem.data = DIV BY <1>1 DEF To, Requested
<1> QED BY <1>3, <1>4, <1>5, <1>6, <1>7, <1>8, Rates DEF To

LEMMA BusStep == BusInv /\ [Next]_vars => BusInv'
<1> SUFFICES ASSUME BusInv, [Next]_vars PROVE BusInv' OBVIOUS
<1>1. CASE UNCHANGED vars \/ FlashIo
  <2>1. UNCHANGED <<traffic, mem_valid, mem, ram_ready, iomem_ready, cfg_divider, sent>>
      BY <1>1 DEF vars, FlashIo, busVars, uartVars, termVars
  <2> QED BY <2>1 DEF BusInv, Requested, To
<1>2. CASE Tick
  <2>1. Bus /\ traffic' = traffic BY <1>2 DEF Tick, Bus
  <2>0. /\ traffic \in {"flash", "local", "serial"} /\ mem_valid \in BOOLEAN
        /\ mem_valid => Requested
        /\ ram_ready \in BOOLEAN /\ iomem_ready \in BOOLEAN
        /\ cfg_divider \in {DEFAULT_DIV, DIV} /\ sent \in Seq(Frames)
      BY DEF BusInv
  <2>2. /\ sent' \in Seq(Frames) /\ cfg_divider' \in {DEFAULT_DIV, DIV}
        /\ ~(mem_valid /\ mem_ready) => UNCHANGED <<cfg_divider, sent>>
    <3>1. CASE traffic = "serial"
      <4>1. Serial BY <1>2, <3>1 DEF Tick
      <4>2. ~(mem_valid /\ mem_ready) => sent' = sent BY <4>1 DEF Serial, Done, To
      <4>3. \/ sent' = sent
            \/ sent' = Append(sent, mem.data) /\ mem.data \in Frames
          BY <3>1, <4>1, Written
      <4>4. sent' \in Seq(Frames) BY <2>0, <4>3
      <4>5. /\ cfg_divider' \in {cfg_divider, DIV}
            /\ ~(mem_valid /\ mem_ready) => cfg_divider' = cfg_divider
          BY <3>1, <4>1, Written
      <4> QED BY <2>0, <4>2, <4>4, <4>5
    <3>2. CASE traffic # "serial"
      <4>1. UNCHANGED <<sent, cfg_divider>> BY <1>2, <3>2 DEF Tick, termVars, uartVars
      <4> QED BY <2>0, <4>1
    <3> QED BY <3>1, <3>2
  <2>3. CASE ~mem_valid
    <3>1. (mem_valid' = TRUE /\ mem' \in Requests) \/ (mem_valid' = FALSE /\ mem' = NoRequest)
        BY <2>1, <2>3 DEF Bus, Master
    <3>2. mem' \in Requests => Requested' BY <2>0, <2>1, <2>2, <2>3, RequestsAre
    <3>3. ram_ready' = FALSE /\ iomem_ready' = FALSE BY <2>1, <2>3 DEF Bus, Sram, Gpio, RamReady, To
    <3> QED BY <2>0, <2>1, <2>2, <3>1, <3>2, <3>3 DEF BusInv
  <2>4. CASE mem_valid /\ mem_ready
    <3>1. mem_valid' = FALSE /\ mem' = NoRequest BY <2>1, <2>4 DEF Bus, Master
    <3>2. ram_ready' = FALSE BY <2>1, <2>4 DEF Bus, Sram, RamReady
    <3>3. iomem_ready' = FALSE
      <4>1. To("leds") => iomem_ready BY <2>4 DEF BusInv, mem_ready, To, spimem_ready, ready
      <4> QED BY <2>1, <4>1 DEF Bus, Gpio
    <3> QED BY <2>0, <2>1, <2>2, <3>1, <3>2, <3>3 DEF BusInv
  <2>5. CASE mem_valid /\ ~mem_ready
    <3>1. UNCHANGED <<mem_valid, mem>> BY <2>1, <2>5 DEF Bus, Master
    <3>2. Requested' BY <2>0, <2>1, <2>2, <2>5, <3>1 DEF Requested
    <3>3. ram_ready' \in BOOLEAN /\ (ram_ready' => To("sram")')
        BY <2>1, <2>5, <3>1 DEF Bus, Sram, RamReady, To
    <3>4. iomem_ready' \in BOOLEAN /\ (iomem_ready' => To("leds")')
        BY <2>1, <2>5, <3>1 DEF Bus, Gpio, To
    <3> QED BY <2>0, <2>1, <2>2, <2>5, <3>1, <3>2, <3>3, <3>4 DEF BusInv
  <2> QED BY <2>3, <2>4, <2>5
<1> QED BY <1>1, <1>2 DEF Next

-----------------------------------------------------------------------------
(* The terminal.                                                           *)

\* What the terminal sends in a cycle: one more cycle of a bit, the next bit,
\* nothing, or the start of a byte.
TermSent(tx, txcnt, bytes) ==
    \/ /\ Len(term.tx) > 1 /\ term.txcnt < BIT - 1
       /\ tx = term.tx /\ txcnt = term.txcnt + 1 /\ bytes = typed
    \/ /\ Len(term.tx) > 1 /\ term.txcnt >= BIT - 1
       /\ tx = Tail(term.tx) /\ txcnt = 0 /\ bytes = typed
    \/ /\ Len(term.tx) <= 1
       /\ tx = term.tx /\ txcnt = term.txcnt /\ bytes = typed
    \/ /\ Len(term.tx) <= 1 /\ cfg_divider = DIV
       /\ \E byte \in Frames :
             /\ tx = <<0>> \o byte \o <<1, 1>> /\ txcnt = 0
             /\ bytes = Append(typed, byte)

\* Half a bit after the start of a frame, a bit after that.
BitHeard == term.rxcnt + 1 >= IF term.rx = 0 THEN BIT \div 2 ELSE BIT

\* What it hears: an idle line, the start of a frame, one more cycle of a bit, a
\* bit, the last bit.
TermHeard(rx, rxcnt, rxpattern) ==
    \/ term.rx = -1 /\ ser_tx = 1 /\ rx = -1
    \/ term.rx = -1 /\ ser_tx # 1 /\ rx = 0 /\ rxcnt = 1
    \/ /\ term.rx \in 0 .. BITS + 1 /\ ~BitHeard
       /\ rx = term.rx /\ rxcnt = term.rxcnt + 1 /\ rxpattern = term.rxpattern
    \/ /\ term.rx \in 0 .. BITS /\ BitHeard
       /\ rx = term.rx + 1 /\ rxcnt = 0
       /\ rxpattern = IF term.rx = 0 THEN <<>> ELSE Append(term.rxpattern, ser_tx)
    \/ term.rx = BITS + 1 /\ BitHeard /\ rx = -1

LEMMA TermSteps ==
    ASSUME TermType, SenderType, typed \in Seq(Frames), term.rx \in -1 .. BITS + 1, Serial
    PROVE  /\ TermType'
           /\ TermSent(term'.tx, term'.txcnt, typed')
           /\ TermHeard(term'.rx, term'.rxcnt, term'.rxpattern)
<1>0. /\ term \in Terms /\ BIT \in Nat /\ BITS \in Nat \ {0}
      /\ term.tx \in Seq({0, 1}) /\ term.rxpattern \in Seq({0, 1})
      /\ term.rxcnt \in Nat /\ term.txcnt \in Nat /\ Len(term.tx) \in Nat
  <2>1. term \in Terms BY DEF TermType
  <2>2. BIT \in Nat /\ BITS \in Nat \ {0} BY Rates
  <2>3. /\ term.tx \in Seq({0, 1}) /\ term.rxpattern \in Seq({0, 1})
        /\ term.rxcnt \in Nat /\ term.txcnt \in Nat
      BY <2>1 DEF Terms
  <2>4. Len(term.tx) \in Nat BY <2>3
  <2> QED BY <2>1, <2>2, <2>3, <2>4
<1>1. ser_tx \in {0, 1} BY Rates DEF SenderType, ser_tx
<1>2. PICK t \in TermSends(term) :
        /\ term' = TermListens(t)
        /\ typed' = IF Len(t.tx) > Len(term.tx) THEN Append(typed, SubSeq(t.tx, 2, BITS + 1)) ELSE typed
    BY DEF Serial
<1>3. t \in Terms /\ t.rx = term.rx /\ t.rxcnt = term.rxcnt /\ t.rxpattern = term.rxpattern
      /\ TermSent(t.tx, t.txcnt, typed')
  <2>1. CASE Len(term.tx) > 1 /\ term.txcnt < BIT - 1
    <3>1. t = [term EXCEPT !.txcnt = term.txcnt + 1] BY <1>2, <2>1 DEF TermSends
    <3>2. /\ t \in Terms /\ t.rx = term.rx /\ t.rxcnt = term.rxcnt /\ t.rxpattern = term.rxpattern
          /\ t.tx = term.tx /\ t.txcnt = term.txcnt + 1
        BY <1>0, <3>1 DEF Terms
    <3>3. typed' = typed BY <1>0, <1>2, <3>2
    <3> QED BY <2>1, <3>2, <3>3 DEF TermSent
  <2>2. CASE Len(term.tx) > 1 /\ ~(term.txcnt < BIT - 1)
    <3>1. t = [term EXCEPT !.tx = Tail(term.tx), !.txcnt = 0] BY <1>2, <2>2 DEF TermSends
    <3>2. Tail(term.tx) \in Seq({0, 1}) /\ Len(Tail(term.tx)) = Len(term.tx) - 1
        BY <1>0, <2>2
    <3>3. /\ t \in Terms /\ t.rx = term.rx /\ t.rxcnt = term.rxcnt /\ t.rxpattern = term.rxpattern
          /\ t.tx = Tail(term.tx) /\ t.txcnt = 0
        BY <1>0, <3>1, <3>2 DEF Terms
    <3>4. typed' = typed BY <1>0, <1>2, <3>2, <3>3
    <3>5. term.txcnt >= BIT - 1 BY <1>0, <2>2
    <3> QED BY <2>2, <3>3, <3>4, <3>5 DEF TermSent
  <2>3. CASE ~(Len(term.tx) > 1) /\ t = term
    <3>1. typed' = typed /\ Len(term.tx) <= 1 BY <1>0, <1>2, <2>3
    <3> QED BY <1>0, <2>3, <3>1 DEF TermSent
  <2>4. CASE ~(Len(term.tx) > 1) /\ t # term
    <3> DEFINE byte == TYPES[Len(typed) + 1]
    <3>1. /\ cfg_divider = DIV /\ Len(typed) < Len(TYPES)
          /\ t = [term EXCEPT !.tx = <<0>> \o byte \o <<1, 1>>, !.txcnt = 0]
        BY <1>2, <2>4 DEF TermSends
    <3>2. byte \in Frames BY <3>1, CharAssumption
    <3> HIDE DEF byte
    <3> DEFINE frame == <<0>> \o byte \o <<1, 1>>
    <3>3. /\ frame \in Seq({0, 1}) /\ Len(frame) = BITS + 3
          /\ \A i \in 1 .. BITS + 3 : frame[i] = LineBit(byte, i)
          /\ byte \in Seq({0, 1}) /\ Len(byte) = BITS
        BY <3>2, Framed
    <3>4. t = [term EXCEPT !.tx = frame, !.txcnt = 0] BY <3>1
    <3> HIDE DEF frame
    <3>5. /\ t \in Terms /\ t.rx = term.rx /\ t.rxcnt = term.rxcnt /\ t.rxpattern = term.rxpattern
          /\ t.tx = frame /\ t.txcnt = 0
        BY <1>0, <3>3, <3>4 DEF Terms
    <3>6. SubSeq(frame, 2, BITS + 1) = byte
      <4>1. \A i \in 1 .. BITS : frame[i + 1] = byte[i] BY <1>0, <3>3 DEF LineBit
      <4> QED BY <1>0, <3>3, <4>1
    <3>7. typed' = Append(typed, byte) /\ Len(term.tx) <= 1
        BY <1>0, <1>2, <2>4, <3>3, <3>5, <3>6
    <3>8. t.tx = <<0>> \o byte \o <<1, 1>> BY <3>5 DEF frame
    <3> QED BY <2>4, <3>1, <3>2, <3>5, <3>7, <3>8 DEF TermSent
  <2> QED BY <2>1, <2>2, <2>3, <2>4
<1>4. term' \in Terms /\ term'.tx = t.tx /\ term'.txcnt = t.txcnt
      /\ TermHeard(term'.rx, term'.rxcnt, term'.rxpattern)
  <2> DEFINE heard == t.rxcnt + 1 >= IF t.rx = 0 THEN BIT \div 2 ELSE BIT
  <2>0. /\ t.rx = term.rx /\ t.rxcnt = term.rxcnt /\ t.rxpattern = term.rxpattern
        /\ t.rxcnt \in Nat /\ t.rx \in -1 .. BITS + 1 /\ t.rxpattern \in Seq({0, 1})
        /\ t \in Terms /\ BITS \in Nat
        /\ heard = BitHeard
      BY <1>0, <1>3 DEF BitHeard
  <2>9. /\ heard \in BOOLEAN
        /\ t.rxcnt + 1 < (IF t.rx = 0 THEN BIT \div 2 ELSE BIT) <=> ~heard
      BY <1>0, <2>0, Rates
  <2>8. t \in Terms BY <2>0
  <2>1. CASE t.rx = -1
    <3>1. term' = IF ser_tx = 1 THEN t ELSE [t EXCEPT !.rx = 0, !.rxcnt = 1]
        BY <1>2, <2>1, <1>0 DEF TermListens
    <3>2. CASE ser_tx = 1
      <4> QED BY <2>0, <2>1, <3>1, <3>2 DEF TermHeard
    <3>3. CASE ser_tx # 1
      <4> DEFINE zero == 0
      <4> DEFINE one == 1
      <4>1. term' = [t EXCEPT !.rx = zero, !.rxcnt = one] /\ zero \in Int /\ one \in Nat
          BY <3>1, <3>3
      <4> HIDE DEF zero, one
      <4>2. /\ term' \in Terms /\ term'.tx = t.tx /\ term'.txcnt = t.txcnt
            /\ term'.rx = zero /\ term'.rxcnt = one
          BY <2>8, <4>1 DEF Terms
      <4> QED BY <2>0, <2>1, <3>3, <4>2 DEF TermHeard, zero, one
    <3> QED BY <3>2, <3>3
  <2> HIDE DEF heard
  <2>2. CASE t.rx \in 0 .. BITS + 1 /\ ~heard
    <3> DEFINE n == t.rxcnt + 1
    <3>0. n \in Nat /\ n = term.rxcnt + 1 BY <1>0, <2>0, <2>9
    <3>1. term' = [t EXCEPT !.rxcnt = n] /\ n \in Nat /\ n = term.rxcnt + 1
      <4>1. t.rx # -1 BY <1>0, <2>2
      <4>2. term' = [t EXCEPT !.rxcnt = n] BY <1>2, <2>2, <2>9, <4>1 DEF TermListens
      <4> QED BY <3>0, <4>2
    <3> HIDE DEF n
    <3>2. /\ term' \in Terms /\ term'.tx = t.tx /\ term'.txcnt = t.txcnt
          /\ term'.rx = t.rx /\ term'.rxcnt = n /\ term'.rxpattern = t.rxpattern
        BY <2>8, <3>1 DEF Terms
    <3> QED BY <2>0, <2>2, <3>1, <3>2 DEF TermHeard
  <2>3. CASE t.rx = BITS + 1 /\ heard
    <3> DEFINE none == -1
    <3> DEFINE nothing == <<>>
    <3>0. none \in Int /\ nothing \in Seq({0, 1}) OBVIOUS
    <3>1. term' = [t EXCEPT !.rx = none, !.rxcnt = 0, !.rxpattern = nothing]
      <4>1. t.rx # -1 /\ t.rx \in 0 .. BITS + 1 BY <1>0, <2>3
      <4> QED BY <4>1, <1>2, <2>3, <2>9 DEF TermListens
    <3> HIDE DEF none, nothing
    <3>2. term' \in Terms /\ term'.tx = t.tx /\ term'.txcnt = t.txcnt /\ term'.rx = none
        BY <2>8, <3>0, <3>1 DEF Terms
    <3> QED BY <2>0, <2>3, <3>2 DEF TermHeard, none
  <2>4. CASE t.rx \in 0 .. BITS /\ heard
    <3> DEFINE bits == IF t.rx = 0 THEN <<>> ELSE Append(t.rxpattern, ser_tx)
    <3> DEFINE n == t.rx + 1
    <3>1. term' = [t EXCEPT !.rx = n, !.rxcnt = 0, !.rxpattern = bits]
      <4>1. t.rx # -1 /\ t.rx \in 0 .. BITS + 1 /\ t.rx # BITS + 1 BY <1>0, <2>4
      <4> QED BY <4>1, <1>2, <2>4, <2>9 DEF TermListens
    <3>2. bits \in Seq({0, 1}) /\ n \in Int /\ n = term.rx + 1 BY <1>1, <2>0
    <3>3. bits = IF term.rx = 0 THEN <<>> ELSE Append(term.rxpattern, ser_tx) BY <2>0
    <3> HIDE DEF bits, n
    <3>4. /\ term' \in Terms /\ term'.tx = t.tx /\ term'.txcnt = t.txcnt
          /\ term'.rx = n /\ term'.rxcnt = 0 /\ term'.rxpattern = bits
        BY <2>8, <3>1, <3>2 DEF Terms
    <3> QED BY <2>0, <2>4, <3>2, <3>3, <3>4 DEF TermHeard
  <2>5. \/ t.rx = -1
        \/ t.rx \in 0 .. BITS + 1 /\ ~heard
        \/ t.rx = BITS + 1 /\ heard
        \/ t.rx \in 0 .. BITS /\ heard
      BY <2>0, <2>9
  <2> QED BY <2>1, <2>2, <2>3, <2>4, <2>5
<1> QED BY <1>3, <1>4 DEF TermType, Terms

-----------------------------------------------------------------------------
(* The sender.                                                             *)

\* In a cycle the sender starts the idle line or a byte, moves on to the next
\* bit, or counts.
LEMMA SenderSteps ==
    ASSUME BusInv, SenderType, traffic = "serial", Serial
    PROVE  /\ SenderType' /\ sent' \in Seq(Frames)
           /\ \/ /\ send_bitcnt = 0 /\ sent' = sent
                 /\ \A i \in 1 .. LAST : send_pattern'[i] = 1
              \/ /\ send_bitcnt = 0 /\ cfg_divider' = DIV
                 /\ send_bitcnt' = LAST /\ send_divcnt' = 0
                 /\ \E byte \in Frames :
                       /\ sent' = Append(sent, byte)
                       /\ \A i \in 1 .. LAST : send_pattern'[i] = LineBit(byte, i)
              \/ /\ send_bitcnt > 0 /\ send_divcnt > cfg_divider /\ sent' = sent
                 /\ send_bitcnt' = send_bitcnt - 1 /\ send_divcnt' = 0
                 /\ \A i \in 1 .. LAST : send_pattern'[i] = IF i = LAST THEN 1 ELSE send_pattern[i + 1]
              \/ /\ ~(send_bitcnt > 0 /\ send_divcnt > cfg_divider) /\ sent' = sent
                 /\ send_pattern' = send_pattern /\ send_bitcnt' = send_bitcnt
                 /\ send_divcnt' = Count(send_divcnt)
<1> DEFINE byte == IF To("dat") /\ mem.write THEN mem.data ELSE EMPTY
<1> DEFINE div  == (IF To("div") /\ mem.write THEN mem.data ELSE -1) >= 0
<1> DEFINE writes_dat == mem_valid /\ mem.to = "dat" /\ mem.write
<1>0. /\ LAST \in Nat \ {0} /\ DUMMY \in Nat /\ BITS \in Nat \ {0}
      /\ cfg_divider \in Nat /\ sent \in Seq(Frames)
      /\ send_pattern \in Seq({0, 1}) /\ Len(send_pattern) = LAST
      /\ send_bitcnt \in Nat /\ send_divcnt \in Nat /\ send_dummy \in BOOLEAN
    BY Rates DEF BusInv, SenderType
<1>1. Send(byte, div) BY DEF Serial, UartStep
<1>2. byte = IF writes_dat THEN mem.data ELSE EMPTY BY DEF To
<1>3. reg_dat_wait <=> send_bitcnt > 0 \/ send_dummy BY DEF reg_dat_wait
<1>4. /\ writes_dat /\ ~reg_dat_wait => sent' = Append(sent, mem.data) /\ mem.data \in Frames
      /\ ~(writes_dat /\ ~reg_dat_wait) => sent' = sent
      /\ cfg_divider' \in {cfg_divider, DIV}
    BY Written
<1>5. writes_dat => mem.data \in Frames /\ mem.data # EMPTY /\ cfg_divider = DIV
    BY Framed, CharAssumption DEF BusInv, Requested
<1>6. div \in BOOLEAN BY <1>0
<1> HIDE DEF byte, div
<1>7. sent' \in Seq(Frames) BY <1>0, <1>4
<1>8. CASE send_dummy /\ send_bitcnt = 0
  <2> DEFINE ones == [k \in 1 .. LAST |-> 1]
  <2>1. send_pattern' = ones /\ send_bitcnt' = DUMMY /\ send_divcnt' = 0 /\ send_dummy' = FALSE
      BY <1>1, <1>8 DEF Send
  <2>2. ones \in Seq({0, 1}) /\ Len(ones) = LAST /\ \A i \in 1 .. LAST : ones[i] = 1 BY <1>0
  <2>3. sent' = sent BY <1>3, <1>4, <1>8
  <2> HIDE DEF ones
  <2> QED BY <1>0, <1>7, <1>8, <2>1, <2>2, <2>3 DEF SenderType
<1>9. CASE ~(send_dummy /\ send_bitcnt = 0) /\ byte # EMPTY /\ send_bitcnt = 0
  <2>1. writes_dat /\ ~reg_dat_wait BY <1>0, <1>2, <1>3, <1>9
  <2> DEFINE frame == <<0>> \o mem.data \o <<1>>
  <2>2. send_pattern' = frame /\ send_bitcnt' = LAST /\ send_divcnt' = 0 /\ send_dummy' = (send_dummy \/ div)
      BY <1>1, <1>2, <1>9, <2>1 DEF Send
  <2>3. mem.data \in Frames /\ sent' = Append(sent, mem.data) /\ cfg_divider' = DIV
      BY <1>4, <1>5, <2>1
  <2>4. /\ frame \in Seq({0, 1}) /\ Len(frame) = LAST
        /\ \A i \in 1 .. LAST : frame[i] = LineBit(mem.data, i)
      BY <2>3, Framed
  <2> HIDE DEF frame
  <2>5. SenderType' BY <1>0, <1>6, <2>2, <2>4 DEF SenderType
  <2> QED BY <1>7, <1>9, <2>2, <2>3, <2>4, <2>5
<1>10. CASE ~(send_dummy /\ send_bitcnt = 0) /\ ~(byte # EMPTY /\ send_bitcnt = 0)
  <2>1. SendShift /\ send_dummy' = (send_dummy \/ div) BY <1>1, <1>10 DEF Send
  <2>2. sent' = sent BY <1>0, <1>2, <1>3, <1>4, <1>5, <1>10
  <2>3. CASE send_bitcnt > 0 /\ send_divcnt > cfg_divider
    <3> DEFINE shifted == Append(Tail(send_pattern), 1)
    <3>1. send_pattern' = shifted /\ send_bitcnt' = send_bitcnt - 1 /\ send_divcnt' = 0
        BY <2>1, <2>3 DEF SendShift
    <3>2. /\ shifted \in Seq({0, 1}) /\ Len(shifted) = LAST
          /\ \A i \in 1 .. LAST : shifted[i] = IF i = LAST THEN 1 ELSE send_pattern[i + 1]
        BY <1>0
    <3> HIDE DEF shifted
    <3>3. SenderType' BY <1>0, <1>6, <2>1, <2>3, <3>1, <3>2 DEF SenderType
    <3> QED BY <1>7, <2>2, <2>3, <3>1, <3>2, <3>3
  <2>4. CASE ~(send_bitcnt > 0 /\ send_divcnt > cfg_divider)
    <3>1. send_divcnt' = Count(send_divcnt) /\ UNCHANGED <<send_pattern, send_bitcnt>>
        BY <2>1, <2>4 DEF SendShift
    <3>2. SenderType' BY <1>0, <1>6, <2>1, <3>1 DEF SenderType, Count
    <3> QED BY <1>7, <2>2, <2>4, <3>1, <3>2
  <2> QED BY <2>3, <2>4
<1> QED BY <1>8, <1>9, <1>10

\* A line that is quiet stays so until a byte is given.
LEMMA QuietStep ==
    ASSUME BusInv, TermType, SenderType, typed \in Seq(Frames), Quiet, traffic = "serial", Serial
    PROVE  (Quiet \/ Sending)'
<1>0. /\ LAST \in Nat \ {0} /\ BITS \in Nat \ {0} /\ DIV \in Nat /\ sent \in Seq(Frames)
      /\ term.rx = -1 /\ arrived = sent /\ ser_tx = 1
    BY Rates DEF BusInv, Quiet, ser_tx
<1>1. term.rx \in -1 .. BITS + 1 BY <1>0
<1>2. term'.rx = -1
  <2>1. TermHeard(term'.rx, term'.rxcnt, term'.rxpattern) BY <1>1, TermSteps
  <2> QED BY <1>0, <2>1 DEF TermHeard
<1>3. arrived' = sent BY <1>0 DEF Serial, Displays
<1>4. CASE send_bitcnt = 0 /\ sent' = sent /\ \A i \in 1 .. LAST : send_pattern'[i] = 1
    BY <1>2, <1>3, <1>4 DEF Quiet
<1>5. CASE /\ cfg_divider' = DIV
           /\ send_bitcnt' = LAST /\ send_divcnt' = 0
           /\ \E byte \in Frames :
                 /\ sent' = Append(sent, byte)
                 /\ \A i \in 1 .. LAST : send_pattern'[i] = LineBit(byte, i)
  <2>1. PICK byte \in Frames :
           /\ sent' = Append(sent, byte)
           /\ \A i \in 1 .. LAST : send_pattern'[i] = LineBit(byte, i)
      BY <1>5
  <2>2. /\ sent' # <<>> /\ Len(sent') = Len(sent) + 1 /\ sent'[Len(sent')] = byte
        /\ SubSeq(sent', 1, Len(sent') - 1) = sent
      BY <1>0, <2>1
  <2>3. BitsSent' = 0 /\ InFlight' = byte BY <1>0, <1>5, <2>2 DEF BitsSent, InFlight
  <2>4. \A i \in 1 .. LAST : send_pattern'[i] = LineBit(InFlight', i + BitsSent') BY <1>0, <2>1, <2>3
  <2>5. Heard' BY <1>2, <1>5, <2>3 DEF Heard
  <2> QED BY <1>0, <1>3, <1>5, <2>2, <2>4, <2>5 DEF Sending
<1>6. CASE /\ sent' = sent
           /\ \A i \in 1 .. LAST : send_pattern'[i] = IF i = LAST THEN 1 ELSE send_pattern[i + 1]
  <2>1. \A i \in 1 .. LAST : send_pattern'[i] = 1 BY <1>0, <1>6 DEF Quiet
  <2> QED BY <1>2, <1>3, <1>6, <2>1 DEF Quiet
<1>7. CASE sent' = sent /\ send_pattern' = send_pattern
    BY <1>2, <1>3, <1>7 DEF Quiet
<1> QED BY <1>4, <1>5, <1>6, <1>7, SenderSteps

\* A frame goes on, a cycle of sender and listener at a time, until the byte is
\* displayed.
LEMMA SendingStep ==
    ASSUME BusInv, TermType, SenderType, typed \in Seq(Frames), Sending, traffic = "serial", Serial
    PROVE  (Quiet \/ Sending)'
<1>0. /\ LAST = BITS + 2 /\ BITS \in Nat \ {0} /\ DIV \in Nat /\ BIT = DIV + 2
      /\ HALF \in Nat /\ 2 <= HALF /\ HALF <= BIT
      /\ sent \in Seq(Frames) /\ sent # <<>> /\ InFlight \in Seq({0, 1}) /\ Len(InFlight) = BITS
      /\ cfg_divider = DIV /\ cfg_divider' = DIV
      /\ send_bitcnt \in 1 .. LAST /\ send_divcnt \in 0 .. DIV + 1
      /\ BitsSent \in 0 .. BITS + 1
      /\ term.rxcnt \in Nat /\ term.rxpattern \in Seq({0, 1})
  <2>1. InFlight \in Frames BY DEF BusInv, Sending, InFlight
  <2>2. cfg_divider' = DIV BY Written DEF Sending
  <2>3. term.rxcnt \in Nat /\ term.rxpattern \in Seq({0, 1}) BY DEF TermType, Terms
  <2> QED BY Rates, Framed, <2>1, <2>2, <2>3 DEF BusInv, Sending, BitsSent
<1>01. /\ LAST = BITS + 2 /\ BITS \in Nat \ {0} /\ DIV \in Nat /\ BIT = DIV + 2
       /\ HALF \in Nat /\ 2 <= HALF /\ HALF <= BIT
       /\ BitsSent \in Int /\ send_divcnt \in 0 .. DIV + 1 /\ term.rxcnt \in Nat
    BY <1>0
<1>1. term.rx \in -1 .. BITS + 1
  <2>1. term.rx = -1 \/ term.rx = 0 \/ term.rx \in 1 .. BITS + 1 BY DEF Sending, Heard
  <2> QED BY <1>0, <2>1
<1>2. TermHeard(term'.rx, term'.rxcnt, term'.rxpattern) BY <1>1, TermSteps
<1>3. sent' = sent /\ InFlight' = InFlight BY <1>0, SenderSteps DEF InFlight
<1>4. ser_tx = LineBit(InFlight, BitsSent + 1) BY <1>0 DEF Sending, ser_tx
<1>5. IF send_divcnt = DIV + 1
      THEN /\ send_bitcnt' = send_bitcnt - 1 /\ send_divcnt' = 0 /\ BitsSent' = BitsSent + 1
           /\ \A i \in 1 .. LAST : send_pattern'[i] = IF i = LAST THEN 1 ELSE send_pattern[i + 1]
      ELSE /\ send_bitcnt' = send_bitcnt /\ send_divcnt' = send_divcnt + 1 /\ BitsSent' = BitsSent
           /\ send_pattern' = send_pattern
    BY <1>0, SenderSteps DEF Count, BitsSent
<1>50. IF send_divcnt = DIV + 1 THEN send_divcnt' = 0 /\ BitsSent' = BitsSent + 1
                               ELSE send_divcnt' = send_divcnt + 1 /\ BitsSent' = BitsSent
    BY <1>5
<1>6. BitsSent' \in 0 .. BITS + 2 /\ send_divcnt' \in 0 .. DIV + 1 BY <1>0, <1>5
<1>7. \A i \in 1 .. LAST : send_pattern'[i] = LineBit(InFlight, i + BitsSent')
  <2> SUFFICES ASSUME NEW i \in 1 .. LAST PROVE send_pattern'[i] = LineBit(InFlight, i + BitsSent')
      OBVIOUS
  <2>1. \A j \in 1 .. LAST : send_pattern[j] = LineBit(InFlight, j + BitsSent) BY DEF Sending
  <2>2. CASE send_divcnt # DIV + 1
    BY <1>5, <2>1, <2>2
  <2>3. CASE send_divcnt = DIV + 1 /\ i # LAST
    <3>1. i + 1 \in 1 .. LAST /\ (i + 1) + BitsSent = i + BitsSent' BY <1>0, <1>5, <2>3
    <3> QED BY <1>5, <2>1, <2>3, <3>1
  <2>4. CASE send_divcnt = DIV + 1 /\ i = LAST
    <3>1. send_pattern'[i] = 1 BY <1>5, <2>4
    <3>2. PICK k \in Nat : k = BitsSent' BY <1>0, <1>6
    <3>3. i + k \in Nat /\ i + k > BITS + 1 BY <1>01, <2>4
    <3> QED BY <3>1, <3>2, <3>3, IdleLine
  <2> QED BY <2>2, <2>3, <2>4
<1>8. CASE term.rx = BITS + 1 /\ BitHeard
  <2>1. term.rxcnt = BIT - 1 /\ Len(term.rxpattern) = BITS
        /\ \A i \in 1 .. BITS : term.rxpattern[i] = InFlight[i]
    <3>1. term.rx # 0 /\ term.rxcnt + 1 >= BIT BY <1>0, <1>8 DEF BitHeard
    <3>2. Heard BY DEF Sending
    <3>3. /\ term.rxcnt \in 0 .. BIT - 1 /\ Len(term.rxpattern) = term.rx - 1
          /\ \A i \in 1 .. term.rx - 1 : term.rxpattern[i] = InFlight[i]
        BY <1>01, <1>8, <3>2 DEF Heard
    <3>4. term.rx - 1 = BITS BY <1>01, <1>8
    <3>5. term.rxcnt = BIT - 1 BY <1>01, <3>1, <3>3
    <3> QED BY <3>3, <3>4, <3>5
  <2>2. term.rxpattern = InFlight
    <3>1. /\ term.rxpattern \in Seq({0, 1}) /\ InFlight \in Seq({0, 1})
          /\ Len(term.rxpattern) = BITS /\ Len(InFlight) = BITS
        BY <1>0, <2>1
    <3> QED BY <2>1, <3>1
  <2>3. BitsSent = BITS + 1 BY <1>0, <1>8, <2>1 DEF Sending, Heard
  <2>4. \A i \in 1 .. LAST : send_pattern'[i] = 1
    <3> SUFFICES ASSUME NEW i \in 1 .. LAST PROVE send_pattern'[i] = 1 OBVIOUS
    <3>1. PICK k \in Nat : k = BitsSent' /\ k >= BITS + 1 BY <1>0, <1>5, <2>3
    <3>0. i \in Nat /\ i >= 1 BY <1>01
    <3>2. i + k \in Nat /\ i + k > BITS + 1
      <4>1. k \in Nat /\ k >= BITS + 1 BY <3>1
      <4> QED BY <1>01, <3>0, <4>1
    <3>3. LineBit(InFlight, i + k) = 1 BY <3>2, IdleLine
    <3> QED BY <1>7, <3>1, <3>3
  <2>5. arrived' = sent
    <3>1. Displays BY <1>0, <1>8, <2>1 DEF Displays
    <3>2. arrived' = Append(arrived, InFlight) BY <2>2, <3>1 DEF Serial
    <3>3. arrived = SubSeq(sent, 1, Len(sent) - 1) BY DEF Sending
    <3> QED BY <1>0, <3>2, <3>3 DEF InFlight
  <2>6. term'.rx = -1 BY <1>0, <1>2, <1>8 DEF TermHeard
  <2> QED BY <1>3, <2>4, <2>5, <2>6 DEF Quiet
<1>9. CASE ~(term.rx = BITS + 1 /\ BitHeard)
  <2>1. arrived' = arrived
    <3>1. ~Displays BY <1>0, <1>9 DEF Displays, BitHeard
    <3> QED BY <3>1 DEF Serial
  <2>2. Heard'
    <3>1. CASE term.rx = -1 /\ BitsSent = 0 /\ send_divcnt = 0
      <4>1. ser_tx # 1 BY <1>4, <3>1 DEF LineBit
      <4>2. term'.rx = 0 /\ term'.rxcnt = 1 BY <1>0, <1>2, <3>1, <4>1 DEF TermHeard
      <4>3. BitsSent' = 0 /\ send_divcnt' = 1 BY <1>0, <1>5, <3>1
      <4>4. 1 \in 1 .. HALF - 1 BY <1>01
      <4> QED BY <4>2, <4>3, <4>4 DEF Heard
    <3>2. CASE /\ term.rx = 0 /\ BitsSent = 0 /\ send_divcnt = term.rxcnt
               /\ term.rxcnt \in 1 .. HALF - 1
      <4>1. BitHeard <=> term.rxcnt = HALF - 1 BY <1>0, <3>2, Halves DEF BitHeard
      <4>2. CASE ~BitHeard
        <5>1. term'.rx = 0 /\ term'.rxcnt = term.rxcnt + 1 BY <1>0, <1>2, <3>2, <4>2 DEF TermHeard
        <5>2. BitsSent' = 0 /\ send_divcnt' = term.rxcnt + 1 /\ term.rxcnt < HALF - 1
            BY <1>0, <1>5, <3>2, <4>1, <4>2
        <5> QED BY <1>0, <3>2, <5>1, <5>2 DEF Heard
      <4>3. CASE BitHeard
        <5>1. term'.rx = 1 /\ term'.rxcnt = 0 /\ term'.rxpattern = <<>>
            BY <1>0, <1>2, <3>2, <4>3 DEF TermHeard
        <5>2. IF HALF < BIT THEN BitsSent' = 0 /\ send_divcnt' = HALF
                            ELSE BitsSent' = 1 /\ send_divcnt' = HALF - BIT
            BY <1>01, <1>50, <3>2, <4>1, <4>3
        <5> QED BY <1>01, <5>1, <5>2 DEF Heard
      <4> QED BY <4>2, <4>3
    <3>3. CASE /\ term.rx \in 1 .. BITS + 1 /\ term.rxcnt \in 0 .. BIT - 1
               /\ IF HALF + term.rxcnt < BIT
                  THEN BitsSent = term.rx - 1 /\ send_divcnt = HALF + term.rxcnt
                  ELSE BitsSent = term.rx /\ send_divcnt = HALF + term.rxcnt - BIT
               /\ Len(term.rxpattern) = term.rx - 1
               /\ \A i \in 1 .. term.rx - 1 : term.rxpattern[i] = InFlight[i]
      <4>0. /\ term.rx \in Int
            /\ IF HALF + term.rxcnt < BIT
               THEN BitsSent = term.rx - 1 /\ send_divcnt = HALF + term.rxcnt
               ELSE BitsSent = term.rx /\ send_divcnt = HALF + term.rxcnt - BIT
          BY <1>01, <3>3
      <4>1. BitHeard <=> term.rxcnt = BIT - 1
        <5>1. term.rxcnt \in 0 .. BIT - 1 /\ term.rx # 0 BY <1>01, <3>3
        <5>2. BitHeard <=> term.rxcnt + 1 >= BIT BY <5>1 DEF BitHeard
        <5> QED BY <1>01, <5>1, <5>2
      <4>2. CASE ~BitHeard
        <5>1. /\ term'.rx = term.rx /\ term'.rxcnt = term.rxcnt + 1
              /\ term'.rxpattern = term.rxpattern
            BY <1>0, <1>2, <3>3, <4>2 DEF TermHeard
        <5>2. IF HALF + (term.rxcnt + 1) < BIT
              THEN BitsSent' = term.rx - 1 /\ send_divcnt' = HALF + (term.rxcnt + 1)
              ELSE BitsSent' = term.rx /\ send_divcnt' = HALF + (term.rxcnt + 1) - BIT
          <6>1. term.rxcnt < BIT - 1 BY <1>01, <3>3, <4>1, <4>2
          <6>2. CASE HALF + term.rxcnt < BIT - 1
            <7>1. send_divcnt # DIV + 1 /\ HALF + term.rxcnt < BIT BY <1>01, <4>0, <6>2
            <7>2. BitsSent' = BitsSent /\ send_divcnt' = send_divcnt + 1 BY <1>50, <7>1
            <7>3. BitsSent = term.rx - 1 /\ send_divcnt = HALF + term.rxcnt BY <4>0, <7>1
            <7>4. HALF + (term.rxcnt + 1) < BIT /\ (HALF + term.rxcnt) + 1 = HALF + (term.rxcnt + 1)
                BY <1>01, <6>2
            <7> QED BY <7>2, <7>3, <7>4
          <6>3. CASE HALF + term.rxcnt = BIT - 1
            <7>1. send_divcnt = DIV + 1 /\ HALF + term.rxcnt < BIT BY <1>01, <4>0, <6>3
            <7> QED BY <1>01, <1>50, <4>0, <6>3, <7>1
          <6>4. CASE HALF + term.rxcnt >= BIT
            <7>1. send_divcnt # DIV + 1 /\ ~(HALF + term.rxcnt < BIT) BY <1>01, <4>0, <6>1, <6>4
            <7> QED BY <1>01, <1>50, <4>0, <6>4, <7>1
          <6> QED BY <1>01, <6>2, <6>3, <6>4
        <5>3. term.rxcnt + 1 \in 0 .. BIT - 1 BY <1>0, <3>3, <4>1, <4>2
        <5> QED BY <1>3, <3>3, <5>1, <5>2, <5>3 DEF Heard
      <4>3. CASE BitHeard
        <5>1. /\ term'.rx = term.rx + 1 /\ term'.rxcnt = 0 /\ term.rx \in 1 .. BITS
              /\ term'.rxpattern = Append(term.rxpattern, ser_tx)
          <6>1. term.rx # -1 /\ term.rx # BITS + 1 /\ term.rx # 0 BY <1>01, <1>9, <3>3, <4>3
          <6> QED BY <1>2, <3>3, <4>3, <6>1 DEF TermHeard
        <5>2. IF HALF < BIT THEN BitsSent' = term.rx /\ send_divcnt' = HALF
                            ELSE BitsSent' = term.rx + 1 /\ send_divcnt' = HALF - BIT
          <6>1. term.rxcnt = BIT - 1 BY <4>1, <4>3
          <6> QED BY <1>01, <1>50, <4>0, <6>1
        <5>3. ser_tx = InFlight[term.rx]
          <6>1. BitsSent = term.rx BY <1>0, <3>3, <4>1, <4>3
          <6>2. term.rx \in 1 .. BITS BY <5>1
          <6>3. ser_tx = LineBit(InFlight, term.rx + 1) BY <1>4, <6>1
          <6>4. term.rx + 1 # 1 /\ term.rx + 1 \in 2 .. BITS + 1 /\ (term.rx + 1) - 1 = term.rx
              BY <1>01, <6>2
          <6> QED BY <6>3, <6>4 DEF LineBit
        <5>4. /\ Len(term'.rxpattern) = term.rx
              /\ \A i \in 1 .. term.rx : term'.rxpattern[i] = InFlight[i]
          <6> DEFINE heard == Append(term.rxpattern, ser_tx)
          <6>1. /\ Len(heard) = term.rx
                /\ \A i \in 1 .. term.rx : heard[i] = IF i = term.rx THEN ser_tx ELSE term.rxpattern[i]
            <7>1. term.rxpattern \in Seq({0, 1}) /\ Len(term.rxpattern) = term.rx - 1 /\ term.rx \in Nat
                BY <1>0, <3>3, <5>1
            <7> QED BY <7>1
          <6>2. term'.rxpattern = heard BY <5>1
          <6> HIDE DEF heard
          <6>3. \A i \in 1 .. term.rx : i # term.rx => i \in 1 .. term.rx - 1 BY <5>1
          <6> QED BY <3>3, <5>3, <6>1, <6>2, <6>3
        <5>5. term'.rx \in 1 .. BITS + 1 /\ term'.rxcnt \in 0 .. BIT - 1 /\ term'.rx - 1 = term.rx
          <6>1. BITS \in Int /\ BIT \in Int /\ BIT >= 2 BY <1>01
          <6>2. term.rx \in 1 .. BITS /\ term'.rx = term.rx + 1 /\ term'.rxcnt = 0 BY <5>1
          <6>3. 0 \in 0 .. BIT - 1 BY <6>1
          <6> QED BY <6>1, <6>2, <6>3
        <5>6. IF HALF + term'.rxcnt < BIT
              THEN BitsSent' = term'.rx - 1 /\ send_divcnt' = HALF + term'.rxcnt
              ELSE BitsSent' = term'.rx /\ send_divcnt' = HALF + term'.rxcnt - BIT
            BY <1>01, <5>1, <5>2
        <5>7. /\ Len(term'.rxpattern) = term'.rx - 1
              /\ \A i \in 1 .. term'.rx - 1 : term'.rxpattern[i] = InFlight'[i]
            BY <1>3, <5>4, <5>5
        <5> QED BY <5>5, <5>6, <5>7 DEF Heard
      <4> QED BY <4>2, <4>3
    <3> QED BY <3>1, <3>2, <3>3 DEF Sending, Heard
  <2>3. send_bitcnt' \in 1 .. LAST
    <3>1. BitsSent' <= BITS + 1 BY <1>0, <1>6, <2>2 DEF Heard
    <3>2. send_bitcnt' \in Int
      <4>1. send_bitcnt' = send_bitcnt \/ send_bitcnt' = send_bitcnt - 1 BY <1>5
      <4>2. send_bitcnt \in Int BY <1>0
      <4> QED BY <4>1, <4>2
    <3>3. BitsSent' = LAST - send_bitcnt' BY DEF BitsSent
    <3>4. PICK k \in Nat : k = BitsSent' /\ k <= BITS + 1 BY <1>01, <1>6, <3>1
    <3>5. PICK c \in Int : c = send_bitcnt' BY <3>2
    <3>6. k = LAST - c BY <3>3, <3>4, <3>5
    <3>7. c \in 1 .. LAST
      <4>0. LAST = BITS + 2 /\ BITS \in Int BY <1>01
      <4>1. LAST \in Int /\ k + 1 <= LAST
        <5>1. k <= BITS + 1 BY <3>4
        <5>2. k \in Int OBVIOUS
        <5>3. LAST \in Int BY <4>0
        <5>4. k + 1 <= BITS + 2 BY <4>0, <5>1, <5>2
        <5> QED BY <4>0, <5>3, <5>4
      <4>2. 1 <= c /\ c <= LAST
        <5> HIDE DEF LAST
        <5> QED BY <3>6, <4>1
      <4> QED BY <4>1, <4>2
    <3> QED BY <3>5, <3>7
  <2>4. sent' # <<>> /\ arrived' = SubSeq(sent', 1, Len(sent') - 1) BY <1>3, <2>1 DEF Sending
  <2> QED BY <1>0, <1>3, <1>6, <1>7, <2>2, <2>3, <2>4 DEF Sending
<1> QED BY <1>8, <1>9

LEMMA ListenerRange == ASSUME Quiet \/ Sending PROVE term.rx \in -1 .. BITS + 1
<1>1. BITS \in Nat BY Rates
<1>2. term.rx = -1 \/ term.rx = 0 \/ term.rx \in 1 .. BITS + 1 BY DEF Quiet, Sending, Heard
<1> QED BY <1>1, <1>2

LEMMA SendInit == Init => SendInv
<1> SUFFICES ASSUME Init PROVE SendInv OBVIOUS
<1>0. BITS \in Nat /\ LAST = BITS + 2 BY Rates
<1>1. term = Idle /\ sent = <<>> /\ arrived = <<>> /\ typed = <<>> /\ UartInit BY DEF Init
<1>2. /\ send_pattern = [k \in 1 .. LAST |-> 1] /\ send_bitcnt = 0 /\ send_divcnt = 0
      /\ send_dummy = TRUE
    BY <1>1 DEF UartInit
<1>3. SenderType /\ \A i \in 1 .. LAST : send_pattern[i] = 1 BY <1>0, <1>2 DEF SenderType
<1>4. TermType /\ term.rx = -1
  <2> DEFINE one == <<1>>
  <2> DEFINE none == <<>>
  <2> DEFINE off == -1
  <2>1. one \in Seq({0, 1}) /\ none \in Seq({0, 1}) /\ off \in Int /\ off = -1 OBVIOUS
  <2>2. term = [tx |-> one, txcnt |-> 0, rx |-> off, rxcnt |-> 0, rxpattern |-> none]
      BY <1>1 DEF Idle
  <2> HIDE DEF one, none, off
  <2> QED BY <2>1, <2>2 DEF TermType, Terms
<1>5. typed \in Seq(Frames) BY <1>1
<1>6. Quiet BY <1>1, <1>3, <1>4 DEF Quiet
<1> QED BY <1>3, <1>4, <1>5, <1>6 DEF SendInv

LEMMA SendStep == BusInv /\ SendInv /\ [Next]_vars => SendInv'
<1> SUFFICES ASSUME BusInv, SendInv, [Next]_vars PROVE SendInv' OBVIOUS
<1>1. CASE UNCHANGED vars \/ FlashIo \/ (Tick /\ traffic # "serial")
  <2>1. UNCHANGED <<sent, arrived, typed, term, cfg_divider, send_pattern, send_bitcnt, send_divcnt, send_dummy>>
      BY <1>1 DEF vars, FlashIo, Tick, uartVars, sendVars, termVars
  <2>2. (TermType /\ SenderType /\ typed \in Seq(Frames))' BY <2>1 DEF SendInv, TermType, SenderType
  <2>3. Quiet => Quiet' BY <2>1 DEF Quiet
  <2>4. Sending => Sending' BY <2>1 DEF Sending, Heard, InFlight, BitsSent
  <2> QED BY <2>2, <2>3, <2>4 DEF SendInv
<1>2. CASE Tick /\ traffic = "serial"
  <2>1. Serial BY <1>2 DEF Tick
  <2>2. TermType /\ SenderType /\ typed \in Seq(Frames) /\ (Quiet \/ Sending) BY DEF SendInv
  <2>3. TermType' /\ TermSent(term'.tx, term'.txcnt, typed')
      BY <2>1, <2>2, TermSteps, ListenerRange
  <2>4. typed' \in Seq(Frames)
    <3>1. typed' = typed \/ \E byte \in Frames : typed' = Append(typed, byte)
        BY <2>3 DEF TermSent
    <3> QED BY <2>2, <3>1
  <2>5. SenderType' BY <1>2, <2>1, <2>2, SenderSteps
  <2>6. (Quiet \/ Sending)' BY <1>2, <2>1, <2>2, QuietStep, SendingStep
  <2> QED BY <2>3, <2>4, <2>5, <2>6 DEF SendInv
<1> QED BY <1>1, <1>2 DEF Next

LEMMA SendArrives == BusInv /\ SendInv => SentArrives
<1> SUFFICES ASSUME BusInv, SendInv PROVE SentArrives OBVIOUS
<1>0. sent \in Seq(Frames) /\ LAST \in Nat BY Rates DEF BusInv
<1>1. CASE Quiet
  <2>1. arrived = sent BY <1>1 DEF Quiet
  <2> QED BY <1>0, <2>1 DEF SentArrives, Prefix
<1>2. CASE Sending
  <2>1. /\ sent # <<>> /\ arrived = SubSeq(sent, 1, Len(sent) - 1) /\ send_bitcnt # 0
      BY <1>0, <1>2 DEF Sending
  <2>2. Prefix(arrived, sent)
    <3>1. Len(sent) \in Nat /\ Len(sent) >= 1 BY <1>0, <2>1
    <3>2. PICK n \in Nat : n = Len(sent) - 1 BY <3>1
    <3>3. arrived = SubSeq(sent, 1, n) /\ n <= Len(sent) BY <2>1, <3>1, <3>2
    <3>4. Len(arrived) = n BY <1>0, <3>1, <3>3
    <3> QED BY <1>0, <3>3, <3>4 DEF Prefix
  <2> QED BY <2>1, <2>2 DEF SentArrives
<1> QED BY <1>1, <1>2 DEF SendInv

\* The terminal displays what the program writes to the UART, for every divider,
\* length of a byte and order of register writes.
THEOREM SentAlwaysArrives == Spec => []SentArrives
<1>1. Init => BusInv /\ SendInv BY BusInit, SendInit
<1>2. BusInv /\ SendInv /\ [Next]_vars => (BusInv /\ SendInv)' BY BusStep, SendStep
<1>3. BusInv /\ SendInv => SentArrives BY SendArrives
<1> QED BY <1>1, <1>2, <1>3, PTL DEF Spec

-----------------------------------------------------------------------------
(* The receiver.                                                           *)

\* What is read is the byte that waits; a byte that completes takes its place.
LEMMA BufferStep ==
    ASSUME BusInv, typed \in Seq(Frames), ReceiverType, TypedIsTaken,
           traffic = "serial", Serial, completed <= Len(typed),
           Completes => completed < Len(typed) /\ recv_pattern = typed[completed + 1],
           NEW more \in Seq(Frames), typed' = typed \o more
    PROVE  /\ completed' = IF Completes THEN completed + 1 ELSE completed
           /\ recv_buf_valid' \in BOOLEAN /\ recv_buf_data' \in Frames
           /\ overrun' \in BOOLEAN /\ taken' \in Seq(Frames)
           /\ TypedIsTaken'
<1> DEFINE re == Done("dat", FALSE)
<1> DEFINE buffer0 == IF recv_buf_valid THEN <<recv_buf_data>> ELSE <<>>
<1>1. /\ completed \in Nat /\ recv_buf_valid \in BOOLEAN /\ overrun \in BOOLEAN
      /\ taken \in Seq(Frames) /\ recv_buf_data \in Frames
    BY DEF ReceiverType
<1>2. re \in BOOLEAN /\ Completes \in BOOLEAN BY DEF Done, Completes
<1>3. /\ recv_buf_data' = IF Completes THEN recv_pattern ELSE recv_buf_data
      /\ recv_buf_valid' = ((recv_buf_valid /\ ~re) \/ Completes)
    BY DEF Serial, UartStep, Receive, Keep
<1>4. completed' = IF Completes THEN completed + 1 ELSE completed BY DEF Serial
<1>5. overrun' = (overrun \/ (Completes /\ recv_buf_valid /\ ~re)) BY DEF Serial
<1>6. taken' = IF re /\ recv_buf_valid THEN Append(taken, recv_buf_data) ELSE taken
  <2>1. taken' = IF re /\ recv_buf_valid THEN Append(taken, mem_rdata) ELSE taken BY DEF Serial
  <2>2. re /\ recv_buf_valid => mem_rdata = recv_buf_data
      BY Answers DEF Done, To, reg_dat_do
  <2> QED BY <2>1, <2>2
<1> HIDE DEF re
<1>7. Completes => recv_pattern \in Frames BY <1>1
<1>8. /\ recv_buf_valid' \in BOOLEAN /\ recv_buf_data' \in Frames
      /\ overrun' \in BOOLEAN /\ taken' \in Seq(Frames)
    BY <1>1, <1>2, <1>3, <1>5, <1>6, <1>7
<1>9. TypedIsTaken'
  <2> SUFFICES ASSUME ~overrun'
               PROVE  taken' \o (IF recv_buf_valid' THEN <<recv_buf_data'>> ELSE <<>>)
                         = SubSeq(typed', 1, completed')
      BY DEF TypedIsTaken
  <2>1. taken \o buffer0 = SubSeq(typed, 1, completed) BY <1>5 DEF TypedIsTaken
  <2>2. CASE ~Completes
    <3>1. SubSeq(typed', 1, completed') = SubSeq(typed, 1, completed)
      <4>1. completed' = completed BY <1>4, <2>2
      <4> QED BY <1>1, <4>1
    <3>2. taken' \o (IF recv_buf_valid' THEN <<recv_buf_data'>> ELSE <<>>) = taken \o buffer0
      <4>1. CASE re /\ recv_buf_valid
        <5>1. taken' = Append(taken, recv_buf_data) /\ recv_buf_valid' = FALSE
            BY <1>1, <1>2, <1>3, <1>6, <2>2, <4>1
        <5> QED BY <1>1, <4>1, <5>1
      <4>2. CASE ~(re /\ recv_buf_valid)
        <5>1. taken' = taken /\ recv_buf_valid' = recv_buf_valid /\ recv_buf_data' = recv_buf_data
            BY <1>1, <1>2, <1>3, <1>6, <2>2, <4>2
        <5> QED BY <5>1
      <4> QED BY <4>1, <4>2
    <3> QED BY <2>1, <3>1, <3>2
  <2>3. CASE Completes
    <3>1. taken' = taken \o buffer0
      <4>1. CASE recv_buf_valid
        <5>1. taken' = Append(taken, recv_buf_data) BY <1>2, <1>5, <1>6, <2>3, <4>1
        <5> QED BY <1>1, <4>1, <5>1
      <4>2. CASE ~recv_buf_valid
        <5>1. taken' = taken BY <1>6, <4>2
        <5> QED BY <1>1, <4>2, <5>1
      <4> QED BY <4>1, <4>2
    <3>2. recv_buf_valid' = TRUE /\ recv_buf_data' = typed[completed + 1] /\ completed' = completed + 1
        BY <1>3, <1>4, <2>3
    <3>3. SubSeq(typed', 1, completed + 1) = Append(SubSeq(typed, 1, completed), typed[completed + 1])
      <4>1. completed \in 0 .. Len(typed) - 1 BY <1>1, <2>3
      <4>2. SubSeq(typed', 1, completed + 1) = SubSeq(typed, 1, completed + 1) BY <4>1
      <4>3. SubSeq(typed, 1, completed + 1) = Append(SubSeq(typed, 1, completed), typed[completed + 1])
          BY <4>1
      <4> QED BY <4>2, <4>3
    <3>4. SubSeq(typed, 1, completed) \in Seq(Frames) BY <1>1
    <3>5. \A s \in Seq(Frames), b \in Frames : s \o <<b>> = Append(s, b) OBVIOUS
    <3>6. typed[completed + 1] \in Frames BY <1>1, <2>3
    <3>7. taken' = SubSeq(typed, 1, completed) BY <2>1, <3>1
    <3>8. taken' \o <<recv_buf_data'>> = Append(taken', recv_buf_data') BY <3>2, <3>4, <3>5, <3>6, <3>7
    <3> QED BY <3>2, <3>3, <3>7, <3>8
  <2> QED BY <2>2, <2>3
<1> QED BY <1>4, <1>8, <1>9

\* What a cycle does to the receiver.
LEMMA ReceiverSteps ==
    ASSUME BusInv, TermType, ReceiverType, Serial, Len(term.tx) >= 1
    PROVE  /\ recv_state' \in 0 .. LAST /\ recv_divcnt' \in Nat
           /\ recv_pattern' \in Seq({0, 1}) /\ Len(recv_pattern') = BITS
           /\ recv_state = 0 => recv_state' = (IF term.tx[1] = 0 THEN 1 ELSE 0) /\ recv_divcnt' = 0
           /\ recv_state = 1 => IF 2 * recv_divcnt > cfg_divider
                                THEN recv_state' = 2 /\ recv_divcnt' = 0
                                ELSE recv_state' = 1 /\ recv_divcnt' = Count(recv_divcnt)
           /\ recv_state \in 2 .. LAST /\ ~BitOver
                 => /\ recv_state' = recv_state /\ recv_divcnt' = Count(recv_divcnt)
                    /\ recv_pattern' = recv_pattern
           /\ recv_state \in 2 .. LAST - 1 /\ BitOver
                 => /\ recv_state' = recv_state + 1 /\ recv_divcnt' = 0
                    /\ \A i \in 1 .. BITS :
                          recv_pattern'[i] = IF i = BITS THEN term.tx[1] ELSE recv_pattern[i + 1]
           /\ Completes => recv_state' = 0
<1>0. /\ BITS \in Nat \ {0} /\ LAST = BITS + 2 /\ cfg_divider \in Nat
      /\ recv_state \in 0 .. LAST /\ recv_divcnt \in Nat
      /\ recv_pattern \in Seq({0, 1}) /\ Len(recv_pattern) = BITS
      /\ term.tx \in Seq({0, 1}) /\ term.tx[1] \in {0, 1}
  <2>1. term.tx \in Seq({0, 1}) BY DEF TermType, Terms
  <2>2. term.tx[1] \in {0, 1} BY <2>1
  <2> QED BY Rates, <2>1, <2>2 DEF BusInv, ReceiverType
<1>1. /\ recv_state' = ReceiveState(term.tx[1])
      /\ recv_divcnt' = IF recv_state = 0 \/ (recv_state # LAST /\ recv_state' # recv_state)
                        THEN 0 ELSE Count(recv_divcnt)
      /\ recv_pattern' = IF recv_state \in 2 .. LAST - 1 /\ BitOver
                         THEN Append(Tail(recv_pattern), term.tx[1]) ELSE recv_pattern
    BY DEF Serial, UartStep, Receive
<1>2. Count(recv_divcnt) \in Nat BY <1>0 DEF Count
<1>3. BitOver \in BOOLEAN /\ (Completes <=> recv_state = LAST /\ BitOver) BY DEF BitOver, Completes
<1>4. CASE recv_state = 0
  <2>1. recv_state' = IF term.tx[1] = 0 THEN 1 ELSE 0 BY <1>0, <1>1, <1>4 DEF ReceiveState
  <2> QED BY <1>0, <1>1, <1>3, <1>4, <2>1
<1>5. CASE recv_state = 1
  <2>1. recv_state' = IF 2 * recv_divcnt > cfg_divider THEN 2 ELSE 1
      BY <1>0, <1>1, <1>5 DEF ReceiveState
  <2>2. recv_pattern' = recv_pattern BY <1>0, <1>1, <1>5
  <2> QED BY <1>0, <1>1, <1>2, <1>3, <1>5, <2>1, <2>2
<1>6. CASE recv_state \in 2 .. LAST - 1
  <2>0. recv_state # 0 /\ recv_state # 1 /\ recv_state # LAST BY <1>0, <1>6
  <2>1. recv_state' = IF BitOver THEN recv_state + 1 ELSE recv_state
      BY <1>0, <1>1, <1>6, <2>0 DEF ReceiveState
  <2>2. CASE BitOver
    <3> DEFINE shifted == Append(Tail(recv_pattern), term.tx[1])
    <3>1. /\ shifted \in Seq({0, 1}) /\ Len(shifted) = BITS
          /\ \A i \in 1 .. BITS : shifted[i] = IF i = BITS THEN term.tx[1] ELSE recv_pattern[i + 1]
        BY <1>0
    <3>2. recv_pattern' = shifted BY <1>1, <1>6, <2>2
    <3> HIDE DEF shifted
    <3> QED BY <1>0, <1>1, <1>3, <1>6, <2>0, <2>1, <2>2, <3>1, <3>2
  <2>3. CASE ~BitOver
    BY <1>0, <1>1, <1>2, <1>3, <1>6, <2>0, <2>1, <2>3
  <2> QED BY <2>2, <2>3
<1>7. CASE recv_state = LAST
  <2>1. recv_state' = IF BitOver THEN 0 ELSE LAST
    <3>1. recv_state # 0 /\ recv_state # 1 /\ recv_state \notin 2 .. LAST - 1 BY <1>0, <1>7
    <3> QED BY <1>0, <1>1, <1>7, <3>1 DEF ReceiveState
  <2>2. recv_pattern' = recv_pattern /\ recv_divcnt' = Count(recv_divcnt) BY <1>0, <1>1, <1>7
  <2> QED BY <1>0, <1>2, <1>3, <1>7, <2>1, <2>2
<1> QED BY <1>0, <1>4, <1>5, <1>6, <1>7

LEMMA Longer ==
    ASSUME NEW s \in Seq(Frames)
    PROVE  /\ s = s \o <<>>
           /\ \A byte \in Frames : /\ Append(s, byte) = s \o <<byte>> /\ Append(s, byte) # <<>>
                                 /\ Len(Append(s, byte)) = Len(s) + 1 /\ Append(s, byte)[Len(s) + 1] = byte
<1>1. s = s \o <<>> OBVIOUS
<1>2. ASSUME NEW byte \in Frames
      PROVE  /\ Append(s, byte) = s \o <<byte>> /\ Append(s, byte) # <<>>
             /\ Len(Append(s, byte)) = Len(s) + 1 /\ Append(s, byte)[Len(s) + 1] = byte
  <2>1. Append(s, byte) = s \o <<byte>> OBVIOUS
  <2>2. Len(Append(s, byte)) = Len(s) + 1 /\ Append(s, byte)[Len(s) + 1] = byte OBVIOUS
  <2>3. Append(s, byte) # <<>> BY <2>2
  <2> QED BY <2>1, <2>2, <2>3
<1> QED BY <1>1, <1>2

LEMMA NextBits ==
    ASSUME NEW s \in Seq({0, 1}), Len(s) > 1
    PROVE  Len(Tail(s)) = Len(s) - 1 /\ \A i \in 1 .. Len(s) - 1 : Tail(s)[i] = s[i + 1]
<1>1. Len(Tail(s)) = Len(s) - 1 OBVIOUS
<1> QED BY <1>1

\* A receiver that waits does so until a byte is typed.
LEMMA SilentStep ==
    ASSUME BusInv, SendInv, ReceiverType, TypedIsTaken, Silent, traffic = "serial", Serial
    PROVE  /\ (Silent \/ Receiving)' /\ recv_buf_valid' \in BOOLEAN /\ recv_buf_data' \in Frames
           /\ overrun' \in BOOLEAN /\ taken' \in Seq(Frames) /\ completed' \in Nat /\ TypedIsTaken'
<1>0. /\ BITS \in Nat \ {0} /\ LAST = BITS + 2 /\ BIT = DIV + 2 /\ DIV \in Nat
      /\ typed \in Seq(Frames) /\ term.tx \in Seq({0, 1}) /\ term.tx[1] = 1
      /\ completed = Len(typed) /\ recv_state = 0 /\ Len(term.tx) \in 1 .. 2
  <2>1. term.tx \in Seq({0, 1}) /\ typed \in Seq(Frames) BY DEF SendInv, TermType, Terms
  <2> QED BY Rates, <2>1 DEF Silent
<1>1. TermSent(term'.tx, term'.txcnt, typed') BY TermSteps, ListenerRange DEF SendInv
<1>2. recv_state' = 0
  <2>1. TermType BY DEF SendInv
  <2> QED BY <1>0, <2>1, ReceiverSteps
<1>3. ~Completes BY <1>0 DEF Completes
<1>4. \/ typed' = typed
      \/ \E byte \in Frames : typed' = Append(typed, byte)
    BY <1>1 DEF TermSent
<1>5. PICK more \in Seq(Frames) : typed' = typed \o more
  <2>1. CASE typed' = typed
    <3>1. typed' = typed \o <<>> /\ <<>> \in Seq(Frames) BY <1>0, <2>1, Longer
    <3> QED BY <3>1, Zenon
  <2>2. CASE \E byte \in Frames : typed' = Append(typed, byte)
    <3>1. PICK byte \in Frames : typed' = Append(typed, byte) BY <2>2
    <3> DEFINE one == <<byte>>
    <3>2. typed' = typed \o one /\ one \in Seq(Frames) BY <1>0, <3>1, Longer
    <3> QED BY <3>2, Zenon
  <2> QED BY <1>4, <2>1, <2>2, Zenon
<1>6. /\ completed' = completed
      /\ recv_buf_valid' \in BOOLEAN /\ recv_buf_data' \in Frames
      /\ overrun' \in BOOLEAN /\ taken' \in Seq(Frames) /\ TypedIsTaken'
  <2>1. completed <= Len(typed) BY <1>0
  <2> QED BY <1>0, <1>3, <1>5, <2>1, BufferStep
<1>7. CASE term'.tx = term.tx /\ typed' = typed
    BY <1>0, <1>2, <1>6, <1>7 DEF Silent
<1>8. CASE Len(term.tx) > 1 /\ term'.tx = Tail(term.tx) /\ typed' = typed
  <2>1. Len(term'.tx) = 1 /\ term'.tx[1] = term.tx[2] BY <1>0, <1>8, NextBits
  <2>2. term.tx[2] = 1 BY <1>0, <1>8 DEF Silent
  <2>3. \A i \in 1 .. 1 : term'.tx[i] = 1 BY <2>1, <2>2
  <2> QED BY <1>0, <1>2, <1>6, <1>8, <2>1, <2>3 DEF Silent
<1>9. CASE /\ cfg_divider = DIV
           /\ \E byte \in Frames :
                 /\ term'.tx = <<0>> \o byte \o <<1, 1>> /\ term'.txcnt = 0
                 /\ typed' = Append(typed, byte)
  <2>1. PICK byte \in Frames :
           term'.tx = <<0>> \o byte \o <<1, 1>> /\ term'.txcnt = 0 /\ typed' = Append(typed, byte)
      BY <1>9
  <2>2. /\ Len(term'.tx) = BITS + 3
        /\ \A i \in 1 .. BITS + 3 : term'.tx[i] = LineBit(byte, i)
      BY <2>1, Framed
  <2>3. typed' # <<>> /\ completed' = Len(typed') - 1 /\ typed'[Len(typed')] = byte
    <3>1. /\ typed' # <<>> /\ Len(typed') = Len(typed) + 1 /\ typed'[Len(typed) + 1] = byte
        BY <1>0, <2>1, Longer, Zenon
    <3>2. completed' = Len(typed) /\ Len(typed) \in Nat BY <1>0, <1>6
    <3>3. PICK n \in Nat : n = Len(typed') BY <3>1, <3>2
    <3>4. completed' = n - 1 /\ n = Len(typed) + 1 BY <3>1, <3>2, <3>3
    <3> QED BY <3>1, <3>3, <3>4
  <2>4. BitsTyped' = 0 /\ Typing' = byte BY <1>0, <2>2, <2>3 DEF BitsTyped, Typing
  <2>5. cfg_divider' = DIV BY <1>9, Written
  <2>6. Received' BY <1>2, <2>1, <2>4 DEF Received
  <2>7. \A i \in 1 .. Len(term'.tx) : term'.tx[i] = LineBit(Typing', i + BitsTyped')
      BY <1>0, <2>2, <2>4
  <2>8. Len(term'.tx) \in 2 .. BITS + 3 /\ term'.txcnt \in 0 .. BIT - 1 BY <1>0, <2>1, <2>2
  <2> QED BY <1>0, <1>6, <2>3, <2>5, <2>6, <2>7, <2>8 DEF Receiving
<1>10. (Silent \/ Receiving)' BY <1>1, <1>7, <1>8, <1>9 DEF TermSent
<1> QED BY <1>0, <1>6, <1>10

\* The terminal's next cycle, and where it then is in the byte.
LEMMA TypingStep ==
    ASSUME BusInv, SendInv, traffic = "serial", Serial, Receiving
    PROVE  /\ typed' = typed
           /\ BitsTyped \in 0 .. BITS + 1
           /\ term'.tx \in Seq({0, 1}) /\ Len(term'.tx) = BITS + 3 - BitsTyped'
           /\ IF term.txcnt = BIT - 1 THEN term'.txcnt = 0 /\ BitsTyped' = BitsTyped + 1
              ELSE term'.txcnt = term.txcnt + 1 /\ BitsTyped' = BitsTyped
           /\ \A i \in 1 .. Len(term'.tx) : term'.tx[i] = LineBit(Typing, i + BitsTyped')
<1>0. /\ BITS \in Nat \ {0} /\ BIT \in Nat
      /\ term.tx \in Seq({0, 1}) /\ Len(term.tx) \in 2 .. BITS + 3 /\ term.txcnt \in 0 .. BIT - 1
      /\ \A i \in 1 .. Len(term.tx) : term.tx[i] = LineBit(Typing, i + BitsTyped)
  <2>1. term.tx \in Seq({0, 1}) BY DEF SendInv, TermType, Terms
  <2> QED BY Rates, <2>1 DEF Receiving
<1>1. TermSent(term'.tx, term'.txcnt, typed') BY TermSteps, ListenerRange DEF SendInv
<1>2. BitsTyped \in 0 .. BITS + 1
  <2>1. BITS \in Nat BY <1>0
  <2>2. \A n \in 2 .. BITS + 3 : BITS + 3 - n \in 0 .. BITS + 1 BY <2>1
  <2>3. BITS + 3 - Len(term.tx) \in 0 .. BITS + 1 BY <1>0, <2>2, Zenon
  <2> QED BY <2>3, Zenon DEF BitsTyped
<1>3. term'.tx \in Seq({0, 1})
  <2>1. TermType' BY TermSteps, ListenerRange DEF SendInv
  <2> QED BY <2>1 DEF TermType, Terms
<1>4. BitsTyped' = BITS + 3 - Len(term'.tx) BY DEF BitsTyped
<1>5. CASE term.txcnt = BIT - 1
  <2>1. term'.tx = Tail(term.tx) /\ term'.txcnt = 0 /\ typed' = typed
      BY <1>0, <1>1, <1>5 DEF TermSent
  <2>2. /\ Len(term'.tx) = Len(term.tx) - 1
        /\ \A i \in 1 .. Len(term.tx) - 1 : term'.tx[i] = term.tx[i + 1]
      BY <1>0, <2>1, NextBits
  <2>3. BitsTyped' = BitsTyped + 1 /\ Len(term'.tx) = BITS + 3 - BitsTyped'
    <3>1. BITS \in Int /\ Len(term.tx) \in Int BY <1>0
    <3>2. BitsTyped = BITS + 3 - Len(term.tx) BY DEF BitsTyped
    <3>3. BitsTyped' = BITS + 3 - (Len(term.tx) - 1) BY <1>4, <2>2
    <3>4. BitsTyped' = (BITS + 3 - Len(term.tx)) + 1 BY <3>1, <3>3
    <3>5. Len(term.tx) - 1 = BITS + 3 - (BITS + 3 - (Len(term.tx) - 1)) BY <3>1
    <3> QED BY <2>2, <3>2, <3>3, <3>4, <3>5
  <2>4. ASSUME NEW i \in 1 .. Len(term'.tx) PROVE term'.tx[i] = LineBit(Typing, i + BitsTyped')
    <3>1. i \in Nat /\ i \in 1 .. Len(term.tx) - 1 /\ i + 1 \in 1 .. Len(term.tx) BY <1>0, <2>2
    <3>2. (i + 1) + BitsTyped = i + BitsTyped' BY <1>2, <2>3, <3>1
    <3>3. term'.tx[i] = term.tx[i + 1] BY <2>2, <3>1
    <3>4. term.tx[i + 1] = LineBit(Typing, (i + 1) + BitsTyped) BY <1>0, <3>1
    <3> QED BY <3>2, <3>3, <3>4
  <2> QED BY <1>2, <1>3, <1>5, <2>1, <2>3, <2>4
<1>6. CASE term.txcnt # BIT - 1
  <2>1. term'.tx = term.tx /\ term'.txcnt = term.txcnt + 1 /\ typed' = typed
      BY <1>0, <1>1, <1>6 DEF TermSent
  <2>2. BitsTyped' = BitsTyped BY <2>1 DEF BitsTyped
  <2>3. Len(term'.tx) = BITS + 3 - BitsTyped' BY <1>0, <2>1, <2>2 DEF BitsTyped
  <2>4. \A i \in 1 .. Len(term'.tx) : term'.tx[i] = LineBit(Typing, i + BitsTyped')
      BY <1>0, <2>1, <2>2
  <2> QED BY <1>2, <1>3, <1>6, <2>1, <2>2, <2>3, <2>4
<1> QED BY <1>5, <1>6

\* Where the receiver then is: it goes on with the byte, or has received it.
LEMMA ReceivedStep ==
    ASSUME BusInv, SendInv, ReceiverType, traffic = "serial", Serial, Receiving, DIV # 0
    PROVE  /\ Completes => recv_pattern = Typing /\ BitsTyped = BITS + 1
           /\ ~Completes => Received' /\ BitsTyped' <= BITS + 1 /\ term'.txcnt \in 0 .. BIT - 1
<1>0. /\ BITS \in Nat \ {0} /\ LAST = BITS + 2 /\ BIT = DIV + 2 /\ DIV \in Nat \ {0}
      /\ START \in Nat /\ 3 <= START /\ START <= BIT
      /\ DIV = 2 * (START - 3) + (DIV % 2) /\ DIV % 2 \in 0 .. 1
  <2>1. DIV \in Nat \ {0} BY Rates
  <2>2. DIV = 2 * (DIV \div 2) + (DIV % 2) /\ DIV % 2 \in 0 .. 1 /\ DIV \div 2 \in Nat BY <2>1
  <2>3. DIV \div 2 = START - 3 BY <2>2 DEF START
  <2> QED BY Rates, <2>1, <2>2, <2>3
<1>1. /\ recv_divcnt \in Nat /\ recv_pattern \in Seq({0, 1}) /\ Len(recv_pattern) = BITS
      /\ recv_state \in 0 .. LAST /\ cfg_divider = DIV
      /\ term.txcnt \in 0 .. BIT - 1
    BY DEF ReceiverType, Receiving
<1>2. /\ typed' = typed /\ BitsTyped \in 0 .. BITS + 1
      /\ IF term.txcnt = BIT - 1 THEN term'.txcnt = 0 /\ BitsTyped' = BitsTyped + 1
         ELSE term'.txcnt = term.txcnt + 1 /\ BitsTyped' = BitsTyped
    BY TypingStep
<1>3. Len(term.tx) >= 1 /\ term.tx[1] = LineBit(Typing, 1 + BitsTyped)
  <2>1. Len(term.tx) \in 2 .. BITS + 3 BY DEF Receiving
  <2>2. 1 \in 1 .. Len(term.tx) /\ Len(term.tx) >= 1 BY <1>0, <2>1
  <2> QED BY <2>2 DEF Receiving
<1>4. Typing' = Typing BY <1>2 DEF Typing
<1>5. TermType /\ typed # <<>> /\ typed \in Seq(Frames) BY DEF SendInv, Receiving
<1>6. Typing \in Frames
  <2>1. Len(typed) \in 1 .. Len(typed) BY <1>5
  <2> QED BY <1>5, <2>1 DEF Typing
<1>7. /\ recv_state = 0 => recv_state' = (IF term.tx[1] = 0 THEN 1 ELSE 0) /\ recv_divcnt' = 0
      /\ recv_state = 1 => IF 2 * recv_divcnt > DIV
                           THEN recv_state' = 2 /\ recv_divcnt' = 0
                           ELSE recv_state' = 1 /\ recv_divcnt' = Count(recv_divcnt)
      /\ recv_state \in 2 .. LAST /\ ~BitOver
            => /\ recv_state' = recv_state /\ recv_divcnt' = Count(recv_divcnt)
               /\ recv_pattern' = recv_pattern
      /\ recv_state \in 2 .. LAST - 1 /\ BitOver
            => /\ recv_state' = recv_state + 1 /\ recv_divcnt' = 0
               /\ \A i \in 1 .. BITS :
                     recv_pattern'[i] = IF i = BITS THEN term.tx[1] ELSE recv_pattern[i + 1]
    BY <1>1, <1>3, <1>5, ReceiverSteps
<1>8. recv_divcnt <= DIV => Count(recv_divcnt) = recv_divcnt + 1 BY <1>0, <1>1 DEF Count
<1>9. (BitOver <=> recv_divcnt > DIV) /\ (Completes <=> recv_state = LAST /\ BitOver)
    BY <1>1 DEF BitOver, Completes
<1>10. CASE recv_state = 0 /\ BitsTyped = 0 /\ term.txcnt = 0
  <2>1. term.tx[1] = 0 BY <1>0, <1>3, <1>10 DEF LineBit
  <2>2. recv_state' = 1 /\ recv_divcnt' = 0 BY <1>7, <1>10, <2>1
  <2>3. term'.txcnt = 1 /\ BitsTyped' = 0 BY <1>0, <1>2, <1>10
  <2>4. Received' BY <1>0, <2>2, <2>3 DEF Received
  <2>5. ~Completes BY <1>0, <1>9, <1>10
  <2> QED BY <1>0, <2>3, <2>4, <2>5
<1>11. CASE /\ recv_state = 1 /\ BitsTyped = 0 /\ recv_divcnt \in 0 .. START - 2
            /\ term.txcnt = recv_divcnt + 1
  <2>0. ~Completes BY <1>0, <1>9, <1>11
  <2>1. CASE 2 * recv_divcnt > DIV
    <3>1. recv_divcnt = START - 2 /\ term.txcnt = START - 1 BY <1>0, <1>1, <1>11, <2>1
    <3>2. recv_state' = 2 /\ recv_divcnt' = 0 BY <1>7, <1>11, <2>1
    <3>3. IF START < BIT THEN term'.txcnt = START /\ BitsTyped' = 0
          ELSE term'.txcnt = 0 /\ BitsTyped' = 1 /\ START = BIT
        BY <1>0, <1>2, <1>11, <3>1
    <3>4. Received'
      <4>1. recv_state' \in 2 .. LAST /\ recv_divcnt' \in 0 .. DIV + 1 BY <1>0, <3>2
      <4>2. IF START + recv_divcnt' < BIT
            THEN BitsTyped' = recv_state' - 2 /\ term'.txcnt = START + recv_divcnt'
            ELSE BitsTyped' = recv_state' - 1 /\ term'.txcnt = START + recv_divcnt' - BIT
          BY <1>0, <3>2, <3>3
      <4>3. \A i \in 1 .. recv_state' - 2 : recv_pattern'[LAST - recv_state' + i] = Typing'[i]
          BY <3>2
      <4> QED BY <4>1, <4>2, <4>3 DEF Received
    <3>5. term'.txcnt \in 0 .. BIT - 1 /\ BitsTyped' <= BITS + 1 BY <1>0, <3>3
    <3> QED BY <2>0, <3>4, <3>5
  <2>2. CASE ~(2 * recv_divcnt > DIV)
    <3>1. recv_divcnt <= START - 3 /\ recv_divcnt <= DIV BY <1>0, <1>1, <1>11, <2>2
    <3>2. recv_state' = 1 /\ recv_divcnt' = recv_divcnt + 1 BY <1>7, <1>8, <1>11, <2>2, <3>1
    <3>3. term'.txcnt = recv_divcnt + 2 /\ BitsTyped' = 0 BY <1>0, <1>1, <1>2, <1>11, <3>1
    <3>4. recv_divcnt' \in 0 .. START - 2 /\ term'.txcnt = recv_divcnt' + 1 BY <1>0, <1>1, <3>1, <3>2, <3>3
    <3>5. Received' BY <3>2, <3>3, <3>4 DEF Received
    <3>6. term'.txcnt \in 0 .. BIT - 1 /\ BitsTyped' <= BITS + 1 BY <1>0, <1>1, <3>1, <3>3
    <3> QED BY <2>0, <3>5, <3>6
  <2> QED BY <2>1, <2>2
<1>12. CASE /\ recv_state \in 2 .. LAST /\ recv_divcnt \in 0 .. DIV + 1
            /\ IF START + recv_divcnt < BIT
               THEN BitsTyped = recv_state - 2 /\ term.txcnt = START + recv_divcnt
               ELSE BitsTyped = recv_state - 1 /\ term.txcnt = START + recv_divcnt - BIT
            /\ \A i \in 1 .. recv_state - 2 : recv_pattern[LAST - recv_state + i] = Typing[i]
  <2>1. CASE ~BitOver
    <3>1. recv_divcnt <= DIV /\ recv_state' = recv_state /\ recv_divcnt' = recv_divcnt + 1
        BY <1>0, <1>1, <1>7, <1>8, <1>9, <1>12, <2>1
    <3>2. recv_pattern' = recv_pattern BY <1>7, <1>12, <2>1
    <3>3. IF START + recv_divcnt' < BIT
          THEN BitsTyped' = recv_state' - 2 /\ term'.txcnt = START + recv_divcnt'
          ELSE BitsTyped' = recv_state' - 1 /\ term'.txcnt = START + recv_divcnt' - BIT
      <4>1. CASE START + recv_divcnt < BIT
        <5>1. BitsTyped = recv_state - 2 /\ term.txcnt = START + recv_divcnt BY <1>12, <4>1
        <5>2. CASE START + recv_divcnt = BIT - 1
          <6>1. term'.txcnt = 0 /\ BitsTyped' = recv_state - 1
              BY <1>0, <1>2, <1>12, <5>1, <5>2
          <6> QED BY <1>0, <1>1, <3>1, <5>2, <6>1
        <5>3. CASE START + recv_divcnt # BIT - 1
          <6>1. term'.txcnt = START + recv_divcnt + 1 /\ BitsTyped' = recv_state - 2
              BY <1>0, <1>2, <1>12, <5>1, <5>3
          <6> QED BY <1>0, <1>1, <3>1, <4>1, <5>3, <6>1
        <5> QED BY <5>2, <5>3
      <4>2. CASE ~(START + recv_divcnt < BIT)
        <5>1. BitsTyped = recv_state - 1 /\ term.txcnt = START + recv_divcnt - BIT BY <1>12, <4>2
        <5>2. term.txcnt # BIT - 1 BY <1>0, <1>1, <3>1, <5>1
        <5>3. BitsTyped' = recv_state - 1 /\ term'.txcnt = START + recv_divcnt - BIT + 1
            BY <1>2, <5>1, <5>2
        <5> QED BY <1>0, <1>1, <3>1, <4>2, <5>3
      <4> QED BY <4>1, <4>2
    <3>4. recv_state' \in 2 .. LAST /\ recv_divcnt' \in 0 .. DIV + 1 BY <1>0, <1>1, <1>12, <3>1
    <3>5. \A i \in 1 .. recv_state' - 2 : recv_pattern'[LAST - recv_state' + i] = Typing'[i]
        BY <1>4, <1>12, <3>1, <3>2
    <3>6. Received' BY <3>3, <3>4, <3>5 DEF Received
    <3>7. term'.txcnt \in 0 .. BIT - 1 /\ BitsTyped' <= BITS + 1
      <4>1. PICK s \in 2 .. LAST, d \in 0 .. DIV + 1 : s = recv_state' /\ d = recv_divcnt' BY <3>4
      <4>2. IF START + d < BIT THEN BitsTyped' = s - 2 /\ term'.txcnt = START + d
            ELSE BitsTyped' = s - 1 /\ term'.txcnt = START + d - BIT
          BY <3>3, <4>1
      <4>3. s - 2 <= BITS + 1 /\ s - 1 <= BITS + 1 BY <1>0
      <4>4. IF START + d < BIT THEN START + d \in 0 .. BIT - 1 ELSE START + d - BIT \in 0 .. BIT - 1
          BY <1>0
      <4> QED BY <4>2, <4>3, <4>4, Zenon
    <3>8. ~Completes BY <1>9, <2>1
    <3> QED BY <3>6, <3>7, <3>8
  <2>2. CASE BitOver /\ recv_state # LAST
    <3>1. recv_divcnt = DIV + 1 /\ BitsTyped = recv_state - 1 /\ term.txcnt = START - 1
        BY <1>0, <1>1, <1>9, <1>12, <2>2
    <3>2. recv_state \in 2 .. LAST - 1 BY <1>0, <1>12, <2>2
    <3>3. term.tx[1] = Typing[recv_state - 1]
      <4>1. 1 + BitsTyped = recv_state /\ recv_state # 1 /\ recv_state \in 2 .. BITS + 1
          BY <1>0, <3>1, <3>2
      <4> QED BY <1>3, <4>1 DEF LineBit
    <3>4. recv_state' = recv_state + 1 /\ recv_divcnt' = 0 BY <1>7, <2>2, <3>2
    <3>5. ASSUME NEW i \in 1 .. recv_state' - 2
          PROVE  recv_pattern'[LAST - recv_state' + i] = Typing'[i]
      <4> DEFINE j == LAST - recv_state' + i
      <4>1. j \in 1 .. BITS /\ (j = BITS <=> i = recv_state - 1) /\ j + 1 = LAST - recv_state + i
            /\ i \in 1 .. recv_state - 1
          BY <1>0, <3>2, <3>4
      <4> HIDE DEF j
      <4>2. recv_pattern'[j] = IF j = BITS THEN term.tx[1] ELSE recv_pattern[j + 1]
          BY <1>7, <2>2, <3>2, <4>1
      <4>3. CASE j = BITS BY <1>4, <3>3, <4>1, <4>2, <4>3 DEF j
      <4>4. CASE j # BITS
        <5>1. i \in 1 .. recv_state - 2 BY <3>2, <4>1, <4>4
        <5>2. recv_pattern[LAST - recv_state + i] = Typing[i] BY <1>12, <5>1
        <5>3. recv_pattern'[j] = Typing[i] BY <4>1, <4>2, <4>4, <5>2
        <5> QED BY <1>4, <5>3 DEF j
      <4> QED BY <4>3, <4>4
    <3>6. IF START < BIT THEN term'.txcnt = START /\ BitsTyped' = recv_state - 1
          ELSE term'.txcnt = 0 /\ BitsTyped' = recv_state /\ START = BIT
        BY <1>0, <1>2, <3>1, <3>2
    <3>7. IF START + recv_divcnt' < BIT
          THEN BitsTyped' = recv_state' - 2 /\ term'.txcnt = START + recv_divcnt'
          ELSE BitsTyped' = recv_state' - 1 /\ term'.txcnt = START + recv_divcnt' - BIT
        BY <1>0, <3>2, <3>4, <3>6
    <3>8. recv_state' \in 2 .. LAST /\ recv_divcnt' \in 0 .. DIV + 1 BY <1>0, <3>2, <3>4
    <3>9. Received' BY <3>5, <3>7, <3>8 DEF Received
    <3>10. term'.txcnt \in 0 .. BIT - 1 /\ BitsTyped' <= BITS + 1 BY <1>0, <3>2, <3>6
    <3>11. ~Completes BY <1>9, <2>2
    <3> QED BY <3>9, <3>10, <3>11
  <2>3. CASE BitOver /\ recv_state = LAST
    <3>1. Completes BY <1>9, <2>3
    <3>2. recv_divcnt = DIV + 1 /\ BitsTyped = BITS + 1 BY <1>0, <1>1, <1>9, <1>12, <2>3
    <3>3. \A i \in 1 .. BITS : recv_pattern[i] = Typing[i]
      <4>1. \A i \in 1 .. BITS : i \in 1 .. recv_state - 2 /\ LAST - recv_state + i = i BY <1>0, <2>3
      <4> QED BY <1>12, <4>1
    <3>4. recv_pattern = Typing BY <1>1, <1>6, <3>3 DEF Frames
    <3> QED BY <3>1, <3>2, <3>4
  <2> QED BY <2>1, <2>2, <2>3
<1> QED BY <1>10, <1>11, <1>12 DEF Receiving, Received

\* A receiver of a byte goes on with it until it has it.
LEMMA ReceivingStep ==
    ASSUME BusInv, SendInv, ReceiverType, TypedIsTaken, Receiving, traffic = "serial", Serial, DIV # 0
    PROVE  /\ (Silent \/ Receiving)' /\ recv_buf_valid' \in BOOLEAN /\ recv_buf_data' \in Frames
           /\ overrun' \in BOOLEAN /\ taken' \in Seq(Frames) /\ completed' \in Nat /\ TypedIsTaken'
<1>0. /\ BITS \in Nat \ {0} /\ LAST = BITS + 2 /\ DIV \in Nat /\ BIT = DIV + 2
      /\ typed \in Seq(Frames) /\ typed # <<>> /\ Len(typed) \in Nat /\ Len(typed) >= 1
      /\ completed = Len(typed) - 1 /\ cfg_divider = DIV
  <2>1. typed \in Seq(Frames) /\ typed # <<>> BY DEF SendInv, Receiving
  <2>2. Len(typed) \in Nat /\ Len(typed) >= 1 BY <2>1
  <2> QED BY Rates, <2>1, <2>2 DEF Receiving
<1>1. /\ typed' = typed /\ BitsTyped \in 0 .. BITS + 1
      /\ term'.tx \in Seq({0, 1}) /\ Len(term'.tx) = BITS + 3 - BitsTyped'
      /\ IF term.txcnt = BIT - 1 THEN term'.txcnt = 0 /\ BitsTyped' = BitsTyped + 1
         ELSE term'.txcnt = term.txcnt + 1 /\ BitsTyped' = BitsTyped
      /\ \A i \in 1 .. Len(term'.tx) : term'.tx[i] = LineBit(Typing, i + BitsTyped')
    BY TypingStep
<1>2. /\ Completes => recv_pattern = Typing /\ BitsTyped = BITS + 1
      /\ ~Completes => Received' /\ BitsTyped' <= BITS + 1 /\ term'.txcnt \in 0 .. BIT - 1
    BY ReceivedStep
<1>3. /\ completed' = IF Completes THEN completed + 1 ELSE completed
      /\ recv_buf_valid' \in BOOLEAN /\ recv_buf_data' \in Frames
      /\ overrun' \in BOOLEAN /\ taken' \in Seq(Frames) /\ TypedIsTaken'
  <2>1. completed <= Len(typed) BY <1>0
  <2>2. Completes => completed < Len(typed) /\ recv_pattern = typed[completed + 1]
    <3>1. completed + 1 = Len(typed) /\ completed < Len(typed) BY <1>0
    <3> QED BY <1>2, <3>1 DEF Typing
  <2>3. typed' = typed \o <<>> /\ <<>> \in Seq(Frames)
    <3>1. typed = typed \o <<>> BY <1>0, Longer
    <3> QED BY <1>1, <3>1
  <2> QED BY <1>0, <2>1, <2>2, <2>3, BufferStep
<1>4. completed' \in Nat BY <1>0, <1>3
<1>5. CASE Completes
  <2>1. PICK k \in Nat : k = BitsTyped' /\ k \in BITS + 1 .. BITS + 2 BY <1>0, <1>1, <1>2, <1>5
  <2>2. recv_state' = 0
    <3>1. Len(term.tx) \in 2 .. BITS + 3 /\ TermType BY DEF Receiving, SendInv
    <3>2. Len(term.tx) >= 1 BY <1>0, <3>1
    <3> QED BY <1>5, <3>1, <3>2, ReceiverSteps
  <2>3. completed' = Len(typed') BY <1>0, <1>1, <1>3, <1>5
  <2>4. Len(term'.tx) \in 1 .. 2
    <3>1. BITS + 3 - k \in 1 .. 2
      <4>1. BITS \in Nat /\ k \in BITS + 1 .. BITS + 2 BY <1>0, <2>1
      <4> QED BY <4>1, SMT
    <3> QED BY <1>1, <2>1, <3>1
  <2>5. \A i \in 1 .. Len(term'.tx) : term'.tx[i] = 1
    <3> SUFFICES ASSUME NEW i \in 1 .. Len(term'.tx) PROVE term'.tx[i] = 1 OBVIOUS
    <3>1. i \in Nat /\ i >= 1 BY <2>4
    <3>2. i + k \in Nat /\ i + k > BITS + 1
      <4>1. BITS \in Nat /\ k \in BITS + 1 .. BITS + 2 BY <1>0, <2>1
      <4> QED BY <3>1, <4>1
    <3>3. LineBit(Typing, i + k) = 1 BY <3>2, IdleLine
    <3> QED BY <1>1, <2>1, <3>3
  <2>6. Silent' BY <2>2, <2>3, <2>4, <2>5 DEF Silent
  <2> QED BY <1>3, <1>4, <2>6
<1>6. CASE ~Completes
  <2>1. PICK k \in Nat : k = BitsTyped' /\ k <= BITS + 1 BY <1>0, <1>1, <1>2, <1>6
  <2>2. Len(term'.tx) \in 2 .. BITS + 3
    <3>1. BITS + 3 - k \in 2 .. BITS + 3
      <4>1. BITS \in Nat /\ k \in Nat /\ k <= BITS + 1 BY <1>0, <2>1
      <4> QED BY <4>1, SMT
    <3> QED BY <1>1, <2>1, <3>1
  <2>3. typed' # <<>> /\ completed' = Len(typed') - 1 BY <1>0, <1>1, <1>3, <1>6
  <2>4. cfg_divider' = DIV BY <1>0, Written
  <2>5. Typing' = Typing BY <1>1 DEF Typing
  <2>6. \A i \in 1 .. Len(term'.tx) : term'.tx[i] = LineBit(Typing', i + BitsTyped') BY <1>1, <2>5
  <2>7. Received' /\ term'.txcnt \in 0 .. BIT - 1 BY <1>2, <1>6
  <2>8. Receiving' BY <2>2, <2>3, <2>4, <2>6, <2>7 DEF Receiving
  <2> QED BY <1>3, <1>4, <2>8
<1> QED BY <1>5, <1>6

LEMMA ReceiveInit == Init => ReceiveInv
<1> SUFFICES ASSUME Init PROVE ReceiveInv OBVIOUS
<1>0. BITS \in Nat \ {0} /\ LAST = BITS + 2 BY Rates
<1>1. /\ term = Idle /\ typed = <<>> /\ completed = 0 /\ taken = <<>> /\ overrun = FALSE
      /\ recv_state = 0 /\ recv_divcnt = 0 /\ recv_pattern = [k \in 1 .. BITS |-> 0]
      /\ recv_buf_data = [k \in 1 .. BITS |-> 0] /\ recv_buf_valid = FALSE
    BY DEF Init, UartInit
<1>2. recv_pattern \in Seq({0, 1}) /\ Len(recv_pattern) = BITS BY <1>0, <1>1
<1>3. recv_buf_data \in Frames BY <1>1 DEF Frames
<1>4. ReceiverType
  <2>1. recv_state \in 0 .. LAST /\ recv_divcnt \in Nat /\ completed \in Nat BY <1>0, <1>1
  <2>2. recv_buf_valid \in BOOLEAN /\ overrun \in BOOLEAN BY <1>1, Zenon
  <2>3. taken \in Seq(Frames) BY <1>1
  <2> QED BY <1>2, <1>3, <2>1, <2>2, <2>3, Zenon DEF ReceiverType
<1>5. term.tx = <<1>> BY <1>1 DEF Idle
<1>6. Silent BY <1>1, <1>5 DEF Silent
<1>7. TypedIsTaken BY <1>1 DEF TypedIsTaken
<1> QED BY <1>4, <1>6, <1>7 DEF ReceiveInv

LEMMA ReceiveStep ==
    ASSUME DIV # 0
    PROVE  BusInv /\ SendInv /\ ReceiveInv /\ [Next]_vars => ReceiveInv'
<1> SUFFICES ASSUME BusInv, SendInv, ReceiveInv, [Next]_vars PROVE ReceiveInv' OBVIOUS
<1>1. CASE UNCHANGED vars \/ FlashIo \/ (Tick /\ traffic # "serial")
  <2>1. /\ UNCHANGED <<term, typed, completed, taken, overrun, cfg_divider>>
        /\ UNCHANGED <<recv_state, recv_divcnt, recv_pattern, recv_buf_data, recv_buf_valid>>
      BY <1>1 DEF vars, FlashIo, Tick, uartVars, recvVars, termVars
  <2>2. ReceiverType' /\ TypedIsTaken' BY <2>1 DEF ReceiveInv, ReceiverType, TypedIsTaken
  <2>3. Silent => Silent' BY <2>1 DEF Silent
  <2>4. Receiving => Receiving' BY <2>1 DEF Receiving, Received, Typing, BitsTyped
  <2> QED BY <2>2, <2>3, <2>4 DEF ReceiveInv
<1>2. CASE Tick /\ traffic = "serial"
  <2>1. Serial BY <1>2 DEF Tick
  <2>2. ReceiverType /\ TypedIsTaken /\ (Silent \/ Receiving) BY DEF ReceiveInv
  <2>3. /\ (Silent \/ Receiving)' /\ recv_buf_valid' \in BOOLEAN /\ recv_buf_data' \in Frames
        /\ overrun' \in BOOLEAN /\ taken' \in Seq(Frames) /\ completed' \in Nat /\ TypedIsTaken'
      BY <1>2, <2>1, <2>2, SilentStep, ReceivingStep
  <2>4. Len(term.tx) >= 1
    <3>1. Len(term.tx) \in 1 .. 2 \/ Len(term.tx) \in 2 .. BITS + 3 BY <2>2 DEF Silent, Receiving
    <3> QED BY <3>1, Rates
  <2>5. /\ recv_state' \in 0 .. LAST /\ recv_divcnt' \in Nat
        /\ recv_pattern' \in Seq({0, 1}) /\ Len(recv_pattern') = BITS
    <3>1. TermType BY DEF SendInv
    <3> QED BY <2>1, <2>2, <2>4, <3>1, ReceiverSteps
  <2>6. ReceiverType' BY <2>3, <2>5 DEF ReceiverType
  <2> QED BY <2>3, <2>6 DEF ReceiveInv
<1> QED BY <1>1, <1>2 DEF Next

\* What the program reads is what the user types, in order and once, for every
\* length of a byte and every divider but 0, at which the receiver samples late.
THEOREM TypedIsAlwaysTaken ==
    ASSUME DIV # 0
    PROVE  Spec => []TypedIsTaken
<1>1. Init => BusInv /\ SendInv /\ ReceiveInv BY BusInit, SendInit, ReceiveInit
<1>2. BusInv /\ SendInv /\ ReceiveInv /\ [Next]_vars => (BusInv /\ SendInv /\ ReceiveInv)'
    BY BusStep, SendStep, ReceiveStep
<1>3. ReceiveInv => TypedIsTaken BY DEF ReceiveInv
<1> QED BY <1>1, <1>2, <1>3, PTL DEF Spec

-----------------------------------------------------------------------------
(* The slaves but the flash.                                               *)

\* What the SRAM holds ready for a load is what is stored at the load's address.
SramInv == ram_ready /\ ~mem.write => ram_rdata = ram[mem.w]

LEMMA SramStep == BusInv /\ SramInv /\ [Next]_vars => SramInv'
<1> SUFFICES ASSUME BusInv, SramInv, [Next]_vars, ram_ready', ~mem.write'
             PROVE  ram_rdata' = ram'[mem.w']
    BY DEF SramInv
<1>1. CASE UNCHANGED vars \/ FlashIo
  <2>1. UNCHANGED <<mem, ram, ram_ready, ram_rdata>> BY <1>1 DEF vars, FlashIo, busVars
  <2> QED BY <2>1 DEF SramInv
<1>2. CASE Tick
  <2>1. Sram /\ Master BY <1>2 DEF Tick, Bus
  <2>2. mem_valid /\ ~mem_ready /\ mem.to = "sram" BY <2>1 DEF Sram, RamReady
  <2>3. mem' = mem BY <2>1, <2>2 DEF Master
  <2>4. ram_rdata' = ram[mem.w] /\ ram' = ram BY <2>1, <2>2, <2>3 DEF Sram, To
  <2> QED BY <2>3, <2>4
<1> QED BY <1>1, <1>2 DEF Next

\* A load from SRAM, LEDs or a register returns what is stored there, and the
\* SRAM and the LEDs answer no request but their own, one to the flash included.
THEOREM LocalLoadsReadRight ==
    Spec => [](IF To("flash") THEN ~ram_ready /\ ~iomem_ready ELSE LoadsReadRight)
<1> DEFINE Right == IF To("flash") THEN ~ram_ready /\ ~iomem_ready ELSE LoadsReadRight
<1>1. Init => BusInv /\ SramInv BY BusInit DEF Init, SramInv
<1>2. BusInv /\ SramInv /\ [Next]_vars => (BusInv /\ SramInv)' BY BusStep, SramStep
<1>3. ASSUME BusInv, SramInv PROVE Right
  <2>1. (ram_ready => To("sram")) /\ (iomem_ready => To("leds")) BY <1>3 DEF BusInv
  <2>2. CASE To("flash")
    <3>1. ~To("sram") /\ ~To("leds") BY <2>2 DEF To
    <3> QED BY <2>1, <2>2, <3>1
  <2>3. CASE ~To("flash")
    <3>1. ASSUME mem_valid, mem_ready, ~mem.write PROVE mem_rdata = Expected
      <4>1. ~spimem_ready /\ mem.to # "flash" BY <2>3, <3>1 DEF spimem_ready, ready, To
      <4>2. CASE mem.to = "sram"
        <5>1. ram_ready /\ ~iomem_ready BY <2>1, <3>1, <4>1, <4>2 DEF mem_ready, To
        <5>2. mem_rdata = ram_rdata BY <2>1, <4>1, <4>2, <5>1 DEF mem_rdata, To
        <5>3. Expected = ram[mem.w] BY <4>2 DEF Expected
        <5> QED BY <1>3, <3>1, <5>1, <5>2, <5>3 DEF SramInv
      <4>3. CASE mem.to = "leds"
        <5>1. iomem_ready /\ ~ram_ready BY <2>1, <3>1, <4>1, <4>3 DEF mem_ready, To
        <5>2. mem_rdata = leds BY <2>1, <3>1, <4>1, <4>3, <5>1 DEF mem_rdata, To
        <5> QED BY <4>3, <5>2 DEF Expected
      <4>4. CASE mem.to # "sram" /\ mem.to # "leds"
        BY <4>1, <4>4 DEF Expected
      <4> QED BY <4>2, <4>3, <4>4
    <3> QED BY <2>1, <2>3, <3>1 DEF LoadsReadRight
  <2> QED BY <2>2, <2>3
<1> QED BY <1>1, <1>2, <1>3, PTL DEF Spec
=============================================================================

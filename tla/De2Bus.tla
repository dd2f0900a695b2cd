------------------------------- MODULE De2Bus -------------------------------
(***************************************************************************)
(* The bus controller of the DE2 board top level                           *)
(* (neural/fpga/quartus/inference/de2_top.v): block RAM with a registered  *)
(* read port, memory-mapped I/O registers, and the ready/data pipeline     *)
(* that answers the native memory interface of picorv32.                   *)
(*                                                                         *)
(* The core is the master of NativeMaster.  The controller has no reset:   *)
(* its registers hold anything when the core leaves reset, and keep what a *)
(* cut-off transfer left in them.                                          *)
(***************************************************************************)
EXTENDS NativeMaster

CONSTANT
    LaneZero    \* the lane of mem_wdata[7:0]

ASSUME LaneAssumption == LaneZero \in Lanes

\* Addresses: RAM words, the I/O registers, and one address nothing decodes.
IoAddrs == {"out_byte", "test", "seg7", "sw_key", "led_conf", "unmapped"}
ASSUME AddrAssumption == Words \cap IoAddrs = {}
Addrs == Words \cup IoAddrs

VARIABLES
    ram_rdata,                                     \* output register of the block RAM
    m_read_data, m_read_en, ram_read_pending,      \* read pipeline
    out_byte, out_byte_en, seg7_reg, led_conf_reg, \* I/O registers
    sampled   \* history: values of the switches since the request was raised

ramVars  == <<memory, ram_rdata>>
busVars  == <<mem_ready, mem_rdata, m_read_data, m_read_en, ram_read_pending,
              out_byte, out_byte_en, seg7_reg, led_conf_reg>>
histVars == <<stored, sampled>>
vars     == <<coreVars, ramVars, busVars, histVars>>

\* The requests the decoder answers: RAM both ways, each register one way.
Mapped(addr, strobe) ==
    \/ addr \in Words
    \/ addr \in {"out_byte", "test", "seg7", "led_conf"} /\ strobe # {}
    \/ addr = "sw_key" /\ strobe = {}

Init ==
    /\ CoreInit(Addrs)
    /\ mem_ready \in BOOLEAN /\ m_read_en \in BOOLEAN /\ ram_read_pending \in BOOLEAN
    /\ mem_rdata \in Data /\ m_read_data \in Data /\ ram_rdata \in Data
    /\ seg7_reg \in Data /\ led_conf_reg \in Data
    /\ out_byte \in Byte /\ out_byte_en \in BOOLEAN
    /\ sampled = {}

-----------------------------------------------------------------------------
(* The RAM block: read port and byte-enabled write port of one array.      *)

RamPort ==
    /\ IF mem_addr_is_ram
       THEN ram_rdata' = memory[mem_addr]
       ELSE ram_rdata' \in Data   \* mem_addr[15:2] of an I/O address, or out of range
    /\ memory' = IF mem_valid /\ mem_addr_is_ram /\ Writing
                 THEN [memory EXCEPT ![mem_addr] = Merge(@, mem_wdata, mem_wstrb)]
                 ELSE memory

-----------------------------------------------------------------------------
(* The bus controller: one branch of its clocked block per action.         *)

\* The assignment every branch starts from.
DefaultReady == mem_valid /\ ~mem_ready /\ m_read_en
MutRequestedAgain == ~ram_read_pending /\ mem_valid
Requested    == ~ram_read_pending /\ mem_valid /\ ~mem_ready
KeepRegs     == UNCHANGED <<out_byte, seg7_reg, led_conf_reg>>

Capture ==
    /\ ram_read_pending
    /\ m_read_data' = ram_rdata /\ m_read_en' = TRUE /\ ram_read_pending' = FALSE
    /\ mem_ready' = DefaultReady /\ out_byte_en' = FALSE
    /\ KeepRegs

RamRead ==
    /\ Requested /\ mem_addr_is_ram /\ ~Writing
    /\ ram_read_pending' = TRUE /\ m_read_en' = FALSE
    /\ mem_ready' = DefaultReady /\ out_byte_en' = FALSE
    /\ UNCHANGED m_read_data /\ KeepRegs

\* A RAM store, or one to the pass/fail address: ready at the next edge.
PlainWrite ==
    /\ Requested /\ Writing /\ (mem_addr_is_ram \/ mem_addr = "test")
    /\ mem_ready' = TRUE /\ m_read_en' = FALSE /\ out_byte_en' = FALSE
    /\ UNCHANGED <<m_read_data, ram_read_pending>> /\ KeepRegs

OutByteWrite ==
    /\ Requested /\ Writing /\ mem_addr = "out_byte"
    /\ out_byte_en' = TRUE /\ out_byte' = mem_wdata[LaneZero]
    /\ mem_ready' = TRUE /\ m_read_en' = FALSE
    /\ UNCHANGED <<m_read_data, ram_read_pending, seg7_reg, led_conf_reg>>

Seg7Write ==
    /\ Requested /\ Writing /\ mem_addr = "seg7"
    /\ seg7_reg' = mem_wdata
    /\ mem_ready' = TRUE /\ m_read_en' = FALSE /\ out_byte_en' = FALSE
    /\ UNCHANGED <<m_read_data, ram_read_pending, out_byte, led_conf_reg>>

LedWrite ==
    /\ Requested /\ Writing /\ mem_addr = "led_conf"
    /\ led_conf_reg' = mem_wdata
    /\ mem_ready' = TRUE /\ m_read_en' = FALSE /\ out_byte_en' = FALSE
    /\ UNCHANGED <<m_read_data, ram_read_pending, out_byte, seg7_reg>>

MutSwitchReadyAtOnce(sw) ==
    /\ Requested /\ ~Writing /\ mem_addr = "sw_key"
    /\ m_read_data' = sw /\ m_read_en' = TRUE
    /\ mem_ready' = TRUE /\ out_byte_en' = FALSE
    /\ UNCHANGED ram_read_pending /\ KeepRegs
SwitchRead(sw) ==
    /\ Requested /\ ~Writing /\ mem_addr = "sw_key"
    /\ m_read_data' = sw /\ m_read_en' = TRUE
    /\ mem_ready' = DefaultReady /\ out_byte_en' = FALSE
    /\ UNCHANGED ram_read_pending /\ KeepRegs

\* Nothing requested, the request being answered, or nothing decodes it.
Quiet ==
    /\ ~ram_read_pending
    /\ ~Requested \/ ~Mapped(mem_addr, mem_wstrb)
    /\ m_read_en' = FALSE /\ mem_ready' = DefaultReady /\ out_byte_en' = FALSE
    /\ UNCHANGED <<m_read_data, ram_read_pending>> /\ KeepRegs

BusStep(sw) ==
    /\ mem_rdata' = m_read_data
    /\ \/ Capture \/ RamRead \/ PlainWrite \/ OutByteWrite \/ Seg7Write
       \/ LedWrite \/ SwitchRead(sw) \/ Quiet

-----------------------------------------------------------------------------
RememberSwitches(sw) ==
    sampled' = IF mem_valid THEN sampled \cup {sw} ELSE {}

Tick(sw) ==
    CoreStep(Addrs) /\ RamPort /\ BusStep(sw) /\ RememberStore /\ RememberSwitches(sw)
Reset(sw) ==
    CoreReset /\ RamPort /\ BusStep(sw) /\ RememberCutOff /\ RememberSwitches(sw)

Next == \E sw \in Data : Tick(sw) \/ Reset(sw)
\* The clock runs; how long the button holds the core in reset is open.
Spec     == Init /\ [][Next]_vars
FairSpec == Spec /\ WF_vars(\E sw \in Data : Tick(sw))

-----------------------------------------------------------------------------
TypeOK ==
    /\ mem_valid \in BOOLEAN /\ hold \in 0 .. RESET_GAP
    /\ mem_addr \in Addrs /\ mem_wdata \in Data /\ mem_wstrb \in Strobe
    /\ mem_ready \in BOOLEAN /\ mem_rdata \in Data
    /\ memory \in [Words -> Data] /\ ram_rdata \in Data
    /\ m_read_data \in Data /\ m_read_en \in BOOLEAN /\ ram_read_pending \in BOOLEAN
    /\ out_byte \in Byte /\ out_byte_en \in BOOLEAN
    /\ seg7_reg \in Data /\ led_conf_reg \in Data
    /\ stored \in [Words -> Data] /\ sampled \subseteq Data

\* A load of the switch register returns a value the switches had during it.
LoadReturnsSampled ==
    mem_valid /\ mem_ready /\ mem_addr = "sw_key" => mem_rdata \in sampled

\* Only a request the decoder maps is answered: an address nothing decodes, or
\* a register used in its other direction, waits for ever.
OnlyMappedAnswered ==
    mem_valid /\ mem_ready => Mapped(mem_addr, mem_wstrb)

\* One console byte per completed store: the strobe is high in the cycle the
\* store is answered, with its byte, and in no other cycle; outside a transfer
\* it is high only in the cycle after a reset that cut the store off.
OutByteOncePerStore ==
    /\ mem_valid => (out_byte_en <=> mem_ready /\ mem_addr = "out_byte")
    /\ mem_valid /\ out_byte_en => out_byte = mem_wdata[LaneZero]
    /\ ~mem_valid /\ out_byte_en => hold = RESET_GAP

-----------------------------------------------------------------------------
(* Why it works: what each stage of the read pipeline holds.               *)

RamReading == mem_valid /\ mem_addr_is_ram /\ ~Writing

\* A request starts with an empty pipeline, whatever the last one left.
PipeInv ==
    /\ mem_valid => hold = 0
    /\ ~mem_valid /\ hold = 0 => ~ram_read_pending /\ ~mem_ready
    /\ mem_valid => ~(ram_read_pending /\ m_read_en)
    /\ mem_valid /\ ram_read_pending => RamReading
    /\ mem_valid /\ m_read_en => RamReading \/ (mem_addr = "sw_key" /\ ~Writing)

\* Each stage holds the word of the request being served.
DataInv ==
    /\ RamReading /\ ram_read_pending => ram_rdata = memory[mem_addr]
    /\ RamReading /\ m_read_en /\ ~mem_ready => m_read_data = memory[mem_addr]
    /\ RamReading /\ mem_ready => mem_rdata = memory[mem_addr]
    /\ mem_valid /\ mem_addr = "sw_key" /\ m_read_en => m_read_data \in sampled
    /\ mem_valid /\ mem_addr = "sw_key" /\ mem_ready => mem_rdata \in sampled

\* The RAM runs ahead of the accepted stores by the store being answered.
StoreInv ==
    \/ memory = stored
    \/ /\ mem_valid /\ mem_ready /\ mem_addr_is_ram /\ Writing
       /\ memory = [stored EXCEPT ![mem_addr] = Merge(@, mem_wdata, mem_wstrb)]

IInv == TypeOK /\ PipeInv /\ DataInv /\ StoreInv /\ OnlyMappedAnswered

-----------------------------------------------------------------------------
\* Every request the decoder maps is answered, unless a reset withdraws it.
MappedIsAnswered ==
    mem_valid /\ Mapped(mem_addr, mem_wstrb) ~> mem_ready \/ ~mem_valid

=============================================================================

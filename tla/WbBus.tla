-------------------------------- MODULE WbBus --------------------------------
(***************************************************************************)
(* The Wishbone master of picorv32_wb (picorv32.v) and the Wishbone RAM of *)
(* the test bench (testbench_wb.v).  One step is one rising edge of        *)
(* wb_clk_i.  wbm_cyc_o and wbm_stb_o always have the same value.          *)
(***************************************************************************)
EXTENDS NativeMaster

VARIABLES
    state, wbm_stb_o, wbm_we_o, wbm_adr_o, wbm_dat_o, wbm_sel_o,   \* master
    wb_ack_o, wb_dat_o, adr_r                                      \* RAM

masterVars == <<state, wbm_stb_o, wbm_we_o, wbm_adr_o, wbm_dat_o, wbm_sel_o>>
ramRegs    == <<wb_ack_o, wb_dat_o, adr_r>>
wbVars     == <<masterVars, ramRegs>>

\* A reset edge has passed; mem_ready and mem_rdata have no reset.
WbInit ==
    /\ CoreInit(Words)
    /\ state = "IDLE" /\ wbm_stb_o = FALSE /\ wbm_we_o = FALSE
    /\ wbm_adr_o \in Words /\ wbm_dat_o = mem_wdata /\ wbm_sel_o = {}
    /\ wb_ack_o = FALSE /\ wb_dat_o \in Data /\ adr_r = wbm_adr_o
    /\ mem_ready \in BOOLEAN /\ mem_rdata \in Data

-----------------------------------------------------------------------------
(* The master: one branch of its state machine per action                  *)

MasterIdle ==
    /\ state = "IDLE" /\ ~mem_valid
    /\ mem_ready' = FALSE /\ wbm_stb_o' = FALSE /\ wbm_we_o' = FALSE
    /\ UNCHANGED <<state, wbm_adr_o, wbm_dat_o, wbm_sel_o, mem_rdata>>

MasterStart ==
    /\ state = "IDLE" /\ mem_valid
    /\ wbm_adr_o' = mem_addr /\ wbm_dat_o' = mem_wdata
    /\ wbm_we_o' = Writing /\ wbm_sel_o' = mem_wstrb
    /\ wbm_stb_o' = TRUE /\ state' = "WBSTART"
    /\ UNCHANGED <<mem_ready, mem_rdata>>

MasterWait ==
    /\ state = "WBSTART" /\ ~wb_ack_o
    /\ UNCHANGED <<masterVars, mem_ready, mem_rdata>>

MutAnsweredIdle ==
    /\ state = "WBSTART" /\ wb_ack_o
    /\ mem_rdata' = wb_dat_o /\ mem_ready' = TRUE
    /\ state' = "IDLE" /\ wbm_stb_o' = FALSE /\ wbm_we_o' = FALSE
    /\ UNCHANGED <<wbm_adr_o, wbm_dat_o, wbm_sel_o>>
MasterAnswered ==
    /\ state = "WBSTART" /\ wb_ack_o
    /\ mem_rdata' = wb_dat_o /\ mem_ready' = TRUE
    /\ state' = "WBEND" /\ wbm_stb_o' = FALSE /\ wbm_we_o' = FALSE
    /\ UNCHANGED <<wbm_adr_o, wbm_dat_o, wbm_sel_o>>

MasterEnd ==
    /\ state = "WBEND" /\ state' = "IDLE" /\ mem_ready' = FALSE
    /\ UNCHANGED <<wbm_stb_o, wbm_we_o, wbm_adr_o, wbm_dat_o, wbm_sel_o, mem_rdata>>

MasterStep == MasterIdle \/ MasterStart \/ MasterWait \/ MasterAnswered \/ MasterEnd

\* Address and data become 0, which is one of the words and of the values.
MasterReset ==
    /\ state' = "IDLE" /\ wbm_stb_o' = FALSE /\ wbm_we_o' = FALSE /\ wbm_sel_o' = {}
    /\ wbm_adr_o' \in Words /\ wbm_dat_o' \in Data
    /\ UNCHANGED <<mem_ready, mem_rdata>>

-----------------------------------------------------------------------------
\* The RAM answers every other cycle; only the address and the answer have a reset.
Ram(ack, adr) ==
    /\ wb_ack_o' = ack /\ adr_r' = adr
    /\ wb_dat_o' = memory[wbm_adr_o]
    /\ memory' = IF wbm_we_o /\ wbm_stb_o /\ wb_ack_o
                 THEN [memory EXCEPT ![adr_r] = Merge(@, wbm_dat_o, wbm_sel_o)]
                 ELSE memory

WbTick  == CoreStep(Words) /\ MasterStep /\ Ram(wbm_stb_o /\ ~wb_ack_o, wbm_adr_o) /\ RememberStore
WbReset == CoreReset /\ MasterReset /\ (\E a \in Words : Ram(FALSE, a)) /\ RememberCutOff

WbNext == WbTick \/ WbReset

wbBusVars == <<coreVars, mem_ready, mem_rdata, memory, stored, wbVars>>
WbSpec == WbInit /\ [][WbNext]_wbBusVars

-----------------------------------------------------------------------------
WbTypeOK ==
    /\ mem_valid \in BOOLEAN /\ hold \in 0 .. RESET_GAP
    /\ mem_addr \in Words /\ mem_wdata \in Data /\ mem_wstrb \in Strobe
    /\ mem_ready \in BOOLEAN /\ mem_rdata \in Data
    /\ memory \in [Words -> Data] /\ stored \in [Words -> Data]
    /\ state \in {"IDLE", "WBSTART", "WBEND"}
    /\ wbm_stb_o \in BOOLEAN /\ wbm_we_o \in BOOLEAN
    /\ wbm_adr_o \in Words /\ wbm_dat_o \in Data /\ wbm_sel_o \in Strobe
    /\ wb_ack_o \in BOOLEAN /\ wb_dat_o \in Data /\ adr_r \in Words

\* A cycle on the bus is that of the request; mem_ready, which no reset clears,
\* is low again before a request can be there.
WbPhase ==
    /\ mem_valid => hold = 0 /\ (mem_ready <=> state = "WBEND")
    /\ ~mem_valid => state = "IDLE" /\ (hold = 0 => ~mem_ready)
    /\ wbm_stb_o <=> state = "WBSTART"
    /\ wbm_we_o <=> state = "WBSTART" /\ Writing
    /\ wb_ack_o => state = "WBSTART" /\ adr_r = mem_addr
    /\ state = "WBSTART" => /\ wbm_adr_o = mem_addr
                            /\ wbm_dat_o = mem_wdata /\ wbm_sel_o = mem_wstrb

WbData ==
    /\ wb_ack_o => wb_dat_o = memory[mem_addr]
    /\ state = "WBEND" /\ ~Writing => mem_rdata = memory[mem_addr]
    /\ memory = IF state = "WBEND"
                THEN [stored EXCEPT ![mem_addr] = Merge(@, mem_wdata, mem_wstrb)]
                ELSE stored

WbInv == WbTypeOK /\ WbPhase /\ WbData
=============================================================================

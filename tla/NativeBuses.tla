----------------------------- MODULE NativeBuses -----------------------------
(***************************************************************************)
(* The three buses of the repository that answer the native memory         *)
(* interface, against the same promises: the controller of the DE2 board,  *)
(* the AXI4-Lite adapter and the Wishbone bridge.  A system has one of     *)
(* them; the registers of the others do not exist and keep one value.      *)
(***************************************************************************)
EXTENDS De2Bus, AxiBus, WbBus

VARIABLE bus

de2Only == <<ram_rdata, m_read_data, m_read_en, ram_read_pending,
             out_byte, out_byte_en, seg7_reg, led_conf_reg, sampled>>
busesVars == <<vars, axiVars, wbVars, bus>>

NoDe2 ==
    LET d == CHOOSE x \in Data : TRUE IN
    /\ ram_rdata = d /\ m_read_data = d /\ seg7_reg = d /\ led_conf_reg = d
    /\ m_read_en = FALSE /\ ram_read_pending = FALSE /\ out_byte_en = FALSE
    /\ out_byte = d[LaneZero] /\ sampled = {}
NoAxi ==
    /\ clk = "none" /\ ack = {} /\ fast = {} /\ latched_en = {}
    /\ xfer_done = FALSE /\ rvalid = FALSE /\ bvalid = FALSE
    /\ latched_raddr = "none" /\ latched_waddr = "none"
    /\ latched_wdata = "none" /\ latched_wstrb = {}
NoWb ==
    /\ state = "none" /\ wbm_stb_o = FALSE /\ wbm_we_o = FALSE /\ wbm_sel_o = {}
    /\ wbm_adr_o = "none" /\ wbm_dat_o = "none"
    /\ wb_ack_o = FALSE /\ wb_dat_o = "none" /\ adr_r = "none"

BusesInit ==
    \/ bus = "de2" /\ Init    /\ NoAxi /\ NoWb
    \/ bus = "axi" /\ AxiInit /\ NoDe2 /\ NoWb
    \/ bus = "wb"  /\ WbInit  /\ NoDe2 /\ NoAxi

De2Step(A) == bus = "de2" /\ A /\ UNCHANGED <<axiVars, wbVars, bus>>
AxiStep(A) == bus = "axi" /\ A /\ UNCHANGED <<de2Only, wbVars, bus>>
WbStep(A)  == bus = "wb"  /\ A /\ UNCHANGED <<de2Only, axiVars, bus>>

BusesNext == De2Step(Next) \/ AxiStep(AxiNext) \/ WbStep(WbNext)

\* The clock runs, and how long a reset is held is open.  The random bits of the
\* AXI memory come from a generator of full period: again and again they allow
\* every handler at a rising edge.
BusesSpec ==
    /\ BusesInit /\ [][BusesNext]_busesVars
    /\ WF_busesVars(De2Step(\E sw \in Data : Tick(sw)))
    /\ WF_busesVars(WbStep(WbTick))
    /\ WF_busesVars(AxiStep(\E go \in SUBSET Handlers : AxiRising(go) \/ AxiFalling(go)))
    /\ SF_busesVars(AxiStep(AxiRising(Handlers)))
=============================================================================

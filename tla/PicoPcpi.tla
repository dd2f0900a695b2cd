------------------------------ MODULE PicoPcpi ------------------------------
(***************************************************************************)
(* The core (PicoCore) with its co-processors (PcpiUnits): the registered  *)
(* handshake of the PCPI, the operands it carries and resets of any        *)
(* length.  DE2 systems run this with MAC4, mul and div.                   *)
(***************************************************************************)
EXTENDS PicoCoreProps, PcpiUnits

CONSTANT RESET_CYCLES      \* cycles resetn stays low, at least

ASSUME ResetAssumption == RESET_CYCLES \in Nat \ {0}

VARIABLES
    pcpi_insn,
    pcpi_rs,     \* reg_op1 and reg_op2
    held         \* cycles resetn has been low, at most RESET_CYCLES

pcpiBusVars == <<pcpi_insn, pcpi_rs, held>>
sysVars     == <<vars, unitVars, pcpiBusVars>>

Request == [valid |-> pcpi_valid, insn |-> pcpi_insn, rs |-> pcpi_rs]
Answer  == [ready |-> pcpi_int_ready, wait |-> pcpi_int_wait, wr |-> pcpi_int_wr]

\* The cycle's inputs, with the answer the units drive.
SysInputs == {[i EXCEPT !.pcpi = Answer] : i \in Inputs}

\* pcpi_insn is a register of the second decoder stage.
LoadInsn ==
    IF decoder_trigger /\ ~decoder_pseudo_trigger
    THEN pcpi_insn' \in IF insn'.op = "pcpi" THEN PcpiInsns ELSE {"other"}
    ELSE UNCHANGED pcpi_insn

\* ld_rs1 and ld_rs2 load the operands; while an instruction is offered they
\* load the same registers again.
LoadOperands ==
    IF cpu_state \in {"ld_rs1", "ld_rs2"} /\ IsTrap /\ ~pcpi_valid
    THEN pcpi_rs' \in RS_VALUES
    ELSE UNCHANGED pcpi_rs

Tick(i) ==
    /\ held \in {0, RESET_CYCLES} /\ held' = 0
    /\ Clock(i) /\ UnitsStep(Request, TRUE) /\ LoadInsn /\ LoadOperands

SysReset(i) ==
    /\ Reset(i) /\ UnitsStep(Request, FALSE) /\ LoadInsn /\ UNCHANGED pcpi_rs
    /\ held' = IF held < RESET_CYCLES THEN held + 1 ELSE held

SysInit ==
    /\ Init /\ UnitsInit /\ held = RESET_CYCLES
    /\ pcpi_insn = "other" /\ pcpi_rs \in RS_VALUES

SysNext == \E i \in SysInputs : Tick(i) \/ SysReset(i)
SysSpec == SysInit /\ [][SysNext]_sysVars
SysFairSpec == SysSpec /\ WF_sysVars(\E i \in SysInputs : Tick(i))

-----------------------------------------------------------------------------
\* The cycles in which the core looks at the answer; in the first of them it
\* does not offer the instruction yet.
Asking ==
    /\ cpu_state = IF ENABLE_REGS_DUALPORT THEN "ld_rs1" ELSE "ld_rs2"
    /\ IsTrap

\* A result the core takes is that of the instruction it offers, on the
\* operands it offers, however recently another one was answered: MAC4 keeps
\* pcpi_ready up for two more cycles, a unit must not run twice, and no two of
\* them answer in one cycle ((* parallel_case *) of the multiplexer).
TakesOwnResult ==
    /\ Asking /\ pcpi_int_ready =>
          pcpi_valid /\ pcpi_insn \in Known /\ pcpi_int_rd = Op(pcpi_insn, pcpi_rs)
    /\ ~(pcpi_mac_ready /\ pcpi_mul_ready) /\ ~(pcpi_mac_ready /\ pcpi_div_ready)
    /\ ~(pcpi_mul_ready /\ pcpi_div_ready)

\* README.md, PCPI: pcpi_wait keeps the core from raising an illegal instruction
\* exception for an instruction a unit is working on.
KnownNeverTimesOut ==
    Asking /\ pcpi_timeout /\ ~pcpi_int_ready => pcpi_insn \notin Known

\* An instruction on offer is answered, or given up if no unit knows it: the
\* edge of pcpi_wait that starts the multiplier and the divider comes again for
\* every instruction, and pcpi_wait does not stay up for an unknown one.
OfferEnds == pcpi_valid ~> ~pcpi_valid
=============================================================================

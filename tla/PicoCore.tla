------------------------------ MODULE PicoCore ------------------------------
(***************************************************************************)
(* The picorv32 core (picorv32.v, "Instruction Decoder" and "Main State    *)
(* Machine") joined with its memory interface PicoMem.                     *)
(*                                                                         *)
(* Instructions are modelled by what the control logic tells apart: a      *)
(* class op and one argument arg (a jump target, whether a data address is *)
(* misaligned, a shift amount).  The first decoder stage fixes the class   *)
(* as far as its registers do, the second the rest.  Register values are   *)
(* modelled only where control depends on them (jump targets, q0);         *)
(* elsewhere a register holds a Value or is undefined ('x, NoAddr).        *)
(*                                                                         *)
(* CATCH_MISALIGN and CATCH_ILLINSN are 1 and LATCHED_MEM_RDATA is 0, as   *)
(* by default; counters, trace port, RVFI and register file are left out.  *)
(***************************************************************************)
EXTENDS PicoMem, FiniteSets

CONSTANTS
    ENABLE_IRQ, ENABLE_REGS_DUALPORT, BARREL_SHIFTER, TWO_STAGE_SHIFT,
    TWO_CYCLE_ALU, TWO_CYCLE_COMPARE,
    WITH_PCPI,                    \* ENABLE_PCPI, ENABLE_MUL, ENABLE_FAST_MUL or ENABLE_DIV
    SET_STACKADDR,                \* STACKADDR is not ffff_ffff
    PROGADDR_RESET, PROGADDR_IRQ,
    MASKED_IRQ, LATCHED_IRQ,
    EXT_IRQ,                      \* interrupts the irq inputs raise
    IRQ_MASKS,                    \* values software writes to irq_mask
    Ops,                          \* instruction classes of the program
    Targets,                      \* jump targets of the program
    MAX_SHIFT, MAX_TIMER,         \* bounds of shift amounts and timer values
    PCPI_TIMEOUT,                 \* 15 in the code
    PCPI_WAITS,                   \* whether a co-processor may assert pcpi_wait
    RESETS                        \* whether resetn may go low again

irq_timer == 0
irq_ebreak == 1
irq_buserror == 2
IRQ == {irq_timer, irq_ebreak, irq_buserror} \cup EXT_IRQ

\* Classes the first decoder stage knows, and those left to the second.
Stage1Ops == {"jal", "jalr", "retirq", "waitirq", "branch", "load", "store"}
Stage2Ops == {"lui",        \* lui, auipc
              "alui",       \* register-immediate ALU instructions
              "alur",       \* register-register ALU instructions, fence
              "slli",       \* shifts by an immediate
              "sll",        \* shifts by a register
              "move",       \* rdcycle[h], rdinstr[h], getq, setq: done in ld_rs1
              "maskirq", "timer",
              "ebreak",     \* ecall and ebreak
              "pcpi"}       \* anything else: a co-processor's, or illegal
IrqOps    == {"retirq", "waitirq", "maskirq", "timer"}
LongOps   == IrqOps \cup {"move"}          \* no compressed form

ASSUME ParamAssumption ==
    /\ {ENABLE_IRQ, ENABLE_REGS_DUALPORT, BARREL_SHIFTER, TWO_STAGE_SHIFT, TWO_CYCLE_ALU,
        TWO_CYCLE_COMPARE, WITH_PCPI, PCPI_WAITS, SET_STACKADDR, RESETS} \subseteq BOOLEAN
    /\ PROGADDR_RESET \in HalfAddr /\ PROGADDR_IRQ \in HalfAddr
    /\ Targets \subseteq HalfAddr
    /\ MAX_SHIFT \in Nat /\ MAX_TIMER \in Nat /\ PCPI_TIMEOUT \in Nat \ {0}
ASSUME OpsAssumption == Ops \subseteq Stage1Ops \cup Stage2Ops /\ (ENABLE_IRQ \/ Ops \cap IrqOps = {})
ASSUME IrqAssumption ==
    /\ MASKED_IRQ \subseteq IRQ /\ LATCHED_IRQ \subseteq IRQ
    /\ IRQ_MASKS \subseteq SUBSET IRQ

Value    == 2*WORDS + 1          \* a defined register value that is no jump target
NotTaken == NoAddr               \* argument of a branch that is not taken
Values   == HalfAddr \cup {NoAddr, Value}

\* The arguments an instruction class may have.
Args(op) ==
    CASE op = "branch"                        -> Targets \cup {NotTaken}
      [] op \in {"jal", "jalr"}               -> Targets
      [] op \in {"load", "store"}             -> {0, 1}      \* 1: misaligned
      [] op \in {"slli", "sll"}               -> 0 .. MAX_SHIFT
      [] op = "timer"                         -> 0 .. MAX_TIMER
      [] OTHER                                -> {0}

MaxArg == 2*WORDS + MAX_SHIFT + MAX_TIMER + 1
Insn   == [at : HalfAddr \cup {NoAddr}, long : BOOLEAN, op : Stage1Ops \cup Stage2Ops \cup {"other"},
           arg : 0 .. MaxArg]
NoInsn == [at |-> NoAddr, long |-> TRUE, op |-> "other", arg |-> 0]

\* Destination registers by where the index comes from.
rd_zero == 2*WORDS + 1
rd_sp   == 2*WORDS + 2
rd_q0   == 2*WORDS + 3
rd_q1   == 2*WORDS + 4
Rd      == HalfAddr \cup {NoAddr, rd_zero, rd_sp, rd_q0, rd_q1}

States == {"trap", "fetch", "ld_rs1", "ld_rs2", "exec", "shift", "stmem", "ldmem"}

VARIABLES
    cpu_state, reg_pc, reg_sh, alu_wait, alu_wait_2,
    alu_add_sub,       \* TWO_CYCLE_ALU: the registered results are this instruction's
    alu_out_0_q,       \* the registered comparison is this instruction's
    alu_out_q,
    latched_stalu, latched_compr, latched_rd, latched_is,
    dec,               \* first-stage decoder registers
    insn,              \* second-stage decoder registers and pcpi_insn
    decoder_trigger, decoder_pseudo_trigger,
    misaligned,        \* mem_wordsize and the low bits of reg_op1
    pcpi_valid, pcpi_timeout_counter, pcpi_timeout,
    irq_pending, irq_mask, irq_active, irq_delay, do_waitirq, eoi, timer,
    q0                 \* the interrupt return register: address and LSB

VARIABLES
    cur,       \* history: the instruction launched last
    accesses   \* history: data accesses made for it, at most 2

doVars      == <<mem_do_prefetch, mem_do_rinst, mem_do_rdata, mem_do_wdata>>
pcVars      == <<reg_pc, reg_next_pc>>
latchedVars == <<latched_store, latched_stalu, latched_branch, latched_compr, latched_rd, latched_is>>
decVars     == <<dec, insn, decoder_trigger, decoder_pseudo_trigger>>
aluVars     == <<alu_wait, alu_wait_2, alu_add_sub, alu_out_0_q, alu_out_q>>
pcpiVars    == <<pcpi_valid, pcpi_timeout_counter, pcpi_timeout>>
irqVars     == <<irq_pending, irq_mask, irq_active, irq_delay, irq_state, do_waitirq, eoi, timer, q0>>
histVars    == <<cur, accesses>>
coreVars    == <<cpu_state, reg_out, trap, aluVars, reg_sh, misaligned,
                 doVars, pcVars, latchedVars, decVars, pcpiVars, irqVars>>
vars        == <<coreVars, memVars, histVars>>

-----------------------------------------------------------------------------
(* Inputs of a cycle with resetn high.                                     *)

PcpiInputs ==
    IF pcpi_valid THEN [ready : BOOLEAN, wait : {FALSE, PCPI_WAITS}, wr : BOOLEAN]
    ELSE {[ready |-> FALSE, wait |-> FALSE, wr |-> FALSE]}

Inputs ==
    UNION {{[mem_ready |-> r, lo |-> d.lo, hi |-> d.hi, irq |-> q, pcpi |-> p] :
              d \in ReadData(r), q \in SUBSET EXT_IRQ, p \in PcpiInputs} : r \in Ready}

-----------------------------------------------------------------------------
(* Instruction decoder                                                     *)

\* First stage: what the instruction word in mem_rdata_latched may decode to.
Stage1(p) ==
    UNION {[at : {p.at}, long : {p.long},
            op  : {IF o \in Stage1Ops THEN o ELSE "other"},
            arg : IF o = "jal" THEN Args(o) ELSE {0}] :
              o \in IF p.long THEN Ops ELSE Ops \ LongOps}

\* Second stage: completes what the first found, from mem_rdata_q.
Stage2(d) ==
    UNION {[at : {IF mem_rdata_q.at = d.at THEN d.at ELSE NoAddr}, long : {d.long},
            op  : {o},
            arg : IF o = "jal" THEN {d.arg} ELSE Args(o)] :
              o \in IF d.op # "other" THEN {d.op}
                    ELSE (IF d.long THEN Ops ELSE Ops \ LongOps) \cap Stage2Ops}

Decode(i) ==
    /\ IF mem_do_rinst /\ mem_done(i) THEN dec' \in Stage1(mem_rdata_latched(i)) ELSE UNCHANGED dec
    /\ IF decoder_trigger /\ ~decoder_pseudo_trigger THEN insn' \in Stage2(dec) ELSE UNCHANGED insn

-----------------------------------------------------------------------------
(* Main state machine: what every cycle does.  Each action hands Finish the *)
(* values its branch assigns, starting from the defaults.                   *)

Default(i) ==
    [cpu_state |-> cpu_state, prefetch |-> mem_do_prefetch, rinst |-> mem_do_rinst,
     set       |-> "none",                       \* set_mem_do_*
     trigger   |-> mem_do_rinst /\ mem_done(i), pseudo |-> FALSE,
     reg_out   |-> NoAddr, stalu |-> latched_stalu, store |-> latched_store,
     branch    |-> latched_branch,
     pending   |-> irq_pending \cap LATCHED_IRQ,
     timer     |-> IF timer = 0 THEN 0 ELSE timer - 1,
     wait      |-> FALSE, wait_2 |-> FALSE, pcpi |-> pcpi_valid, waitirq |-> FALSE]

CanRaise(n) == ENABLE_IRQ /\ n \notin irq_mask /\ ~irq_active

\* CATCH_MISALIGN: a misaligned access or fetch address raises its interrupt
\* as long as it is requested, or traps.
Misaligned ==
    \/ (mem_do_rdata \/ mem_do_wdata) /\ misaligned
    \/ mem_do_rinst /\ ~COMPRESSED_ISA /\ Odd(reg_pc)

NextPending(i, r) ==
    r.pending \cup i.irq
              \cup (IF timer = 1 THEN {irq_timer} ELSE {})
              \cup (IF Misaligned /\ CanRaise(irq_buserror) THEN {irq_buserror} ELSE {})

MutTimeoutKept(i) ==
    /\ pcpi_timeout_counter' = IF pcpi_valid /\ ~i.pcpi.wait /\ pcpi_timeout_counter # 0
                               THEN pcpi_timeout_counter - 1 ELSE pcpi_timeout_counter
    /\ pcpi_timeout' = (pcpi_timeout_counter = 0)
Timeout(i) ==
    IF ~WITH_PCPI THEN UNCHANGED <<pcpi_timeout_counter, pcpi_timeout>>
    ELSE /\ pcpi_timeout_counter' =
               IF pcpi_valid /\ ~i.pcpi.wait
               THEN IF pcpi_timeout_counter = 0 THEN 0 ELSE pcpi_timeout_counter - 1
               ELSE PCPI_TIMEOUT
         /\ pcpi_timeout' = (pcpi_timeout_counter = 0)

\* The adder and comparator follow the operands, which are loaded on the way
\* into exec; with TWO_CYCLE_ALU through one more register.
AluValid     == cpu_state = "exec" /\ (TWO_CYCLE_ALU => alu_add_sub)
CompareValid == IF TWO_CYCLE_COMPARE THEN alu_out_0_q ELSE AluValid
Alu ==
    /\ alu_add_sub' = (cpu_state = "exec")
    /\ alu_out_0_q' = AluValid
    /\ alu_out_q'   = IF ~AluValid THEN NoAddr
                      ELSE IF insn.op = "jalr" THEN insn.arg ELSE Value

MutClearBeforeDone(i, r) ==
    /\ mem_do_prefetch' = r.prefetch /\ mem_do_rinst' = (r.rinst \/ r.set = "rinst")
    /\ mem_do_rdata' = (r.set = "rdata" \/ (mem_do_rdata /\ ~mem_done(i)))
    /\ mem_do_wdata' = (r.set = "wdata" \/ (mem_do_wdata /\ ~mem_done(i)))
Requests(i, r) ==
    /\ mem_do_prefetch' = (r.prefetch /\ ~mem_done(i))
    /\ mem_do_rinst'    = (r.set = "rinst" \/ (r.rinst /\ ~mem_done(i)))
    /\ mem_do_rdata'    = (r.set = "rdata" \/ (mem_do_rdata /\ ~mem_done(i)))
    /\ mem_do_wdata'    = (r.set = "wdata" \/ (mem_do_wdata /\ ~mem_done(i)))

Finish(i, r) ==
    /\ trap' = (cpu_state = "trap")
    /\ cpu_state' = IF Misaligned /\ ~CanRaise(irq_buserror) THEN "trap" ELSE r.cpu_state
    /\ Requests(i, r)
    /\ decoder_trigger' = r.trigger /\ decoder_pseudo_trigger' = r.pseudo
    /\ reg_out' = r.reg_out
    /\ latched_store' = r.store /\ latched_stalu' = r.stalu /\ latched_branch' = r.branch
    /\ alu_wait' = r.wait /\ alu_wait_2' = r.wait_2 /\ Alu
    /\ pcpi_valid' = r.pcpi /\ Timeout(i)
    /\ irq_pending' = IF ENABLE_IRQ THEN NextPending(i, r) \ MASKED_IRQ ELSE {}
    /\ timer' = r.timer /\ do_waitirq' = r.waitirq
    /\ Decode(i)

\* The states but fetch leave these alone.
KeepFetch == UNCHANGED <<reg_pc, reg_next_pc, latched_compr, irq_delay, irq_state, q0>>
KeepIrq   == UNCHANGED <<irq_active, irq_mask, eoi>>
KeepData  == UNCHANGED <<latched_is, misaligned>>
KeepRd    == UNCHANGED latched_rd

-----------------------------------------------------------------------------
(* cpu_state_fetch                                                         *)

current_pc ==
    IF latched_branch
    THEN IF latched_store THEN IF latched_stalu THEN alu_out_q ELSE reg_out ELSE reg_next_pc
    ELSE IF ~latched_store /\ irq_state = 1 THEN PROGADDR_IRQ ELSE reg_next_pc

\* Where the instruction at pc is fetched from.
FetchAddr(pc) == IF COMPRESSED_ISA \/ pc \notin HalfAddr THEN pc ELSE 2*WordOf(pc)
PcAfter(d)    == Plus(current_pc, IF d.long THEN 2 ELSE 1)
\* current_pc + decoded_imm_j
JumpTarget(d) == IF d.at = FetchAddr(current_pc) THEN d.arg ELSE NoAddr

MutNestInterrupts ==
    /\ ENABLE_IRQ
    /\ \/ decoder_trigger /\ ~irq_delay /\ irq_pending \ irq_mask # {}
       \/ irq_state # 0
InterruptTaken ==
    /\ ENABLE_IRQ
    /\ \/ decoder_trigger /\ ~irq_active /\ ~irq_delay /\ irq_pending \ irq_mask # {}
       \/ irq_state # 0

Waiting == ENABLE_IRQ /\ (decoder_trigger \/ do_waitirq) /\ dec.op = "waitirq"

\* The assignments at the head of the state.
MutStoreNotCleared(i) ==
    [Default(i) EXCEPT !.rinst = ~decoder_trigger /\ ~do_waitirq,
                       !.stalu = FALSE, !.branch = FALSE]
Fetched(i) ==
    [Default(i) EXCEPT !.rinst = ~decoder_trigger /\ ~do_waitirq,
                       !.store = FALSE, !.stalu = FALSE, !.branch = FALSE]
FetchHead ==
    /\ cpu_state = "fetch"
    /\ reg_pc' = current_pc
    /\ latched_is' = NoAddr /\ misaligned' = FALSE /\ reg_sh' = 0
    /\ UNCHANGED irq_mask

\* An instruction is ready, an interrupt goes first: irq_state 0 to 1.
MutInterruptTakesNewLength(i) ==
    /\ FetchHead /\ InterruptTaken /\ irq_state = 0
    /\ irq_state' = 1 /\ latched_rd' = rd_q0 /\ reg_next_pc' = current_pc
    /\ latched_compr' = ~dec.long
    /\ UNCHANGED <<irq_active, irq_delay, eoi, q0>>
    /\ Finish(i, Fetched(i))
FetchInterrupt(i) ==
    /\ FetchHead /\ InterruptTaken /\ irq_state = 0
    /\ irq_state' = 1 /\ latched_rd' = rd_q0 /\ reg_next_pc' = current_pc
    /\ UNCHANGED <<latched_compr, irq_active, irq_delay, eoi, q0>>
    /\ Finish(i, Fetched(i))

\* irq_state 1: write the return address to q0, go to the handler.
MutClearsEarly(i) ==
    /\ FetchHead /\ irq_state = 1
    /\ irq_state' = 2 /\ latched_rd' = rd_q1 /\ reg_next_pc' = current_pc
    /\ IF latched_branch \/ latched_store
       THEN UNCHANGED <<irq_active, q0>> /\ Finish(i, Fetched(i))
       ELSE /\ irq_active' = TRUE
            /\ q0' = IF latched_rd = rd_q0 THEN [at |-> reg_next_pc, lsb |-> latched_compr] ELSE q0
            /\ Finish(i, [Fetched(i) EXCEPT !.rinst = TRUE, !.pending = @ \cap irq_mask])
    /\ UNCHANGED <<latched_compr, irq_delay, eoi>>
FetchSaveReturn(i) ==
    /\ FetchHead /\ irq_state = 1
    /\ irq_state' = 2 /\ latched_rd' = rd_q1 /\ reg_next_pc' = current_pc
    /\ IF latched_branch \/ latched_store
       THEN UNCHANGED <<irq_active, q0>> /\ Finish(i, Fetched(i))
       ELSE /\ irq_active' = TRUE
            /\ q0' = IF latched_rd = rd_q0 THEN [at |-> reg_next_pc, lsb |-> latched_compr] ELSE q0
            /\ Finish(i, [Fetched(i) EXCEPT !.rinst = TRUE])
    /\ UNCHANGED <<latched_compr, irq_delay, eoi>>

\* irq_state 2: report the unmasked pending interrupts in q1 and eoi.
FetchSaveMask(i) ==
    /\ FetchHead /\ irq_state = 2
    /\ irq_state' = 0 /\ latched_rd' = rd_q0 /\ reg_next_pc' = current_pc
    /\ IF latched_branch \/ latched_store
       THEN UNCHANGED eoi /\ Finish(i, Fetched(i))
       ELSE eoi' = irq_pending \ irq_mask /\ Finish(i, [Fetched(i) EXCEPT !.pending = @ \cap irq_mask])
    /\ UNCHANGED <<latched_compr, irq_active, irq_delay, q0>>

\* What the branches without an interrupt share.
FetchTail ==
    /\ FetchHead /\ ~InterruptTaken
    /\ latched_rd' = dec.at /\ latched_compr' = ~dec.long
    /\ UNCHANGED <<irq_active, irq_state, eoi, q0>>

FetchWaitirq(i) ==
    /\ FetchTail /\ Waiting
    /\ UNCHANGED irq_delay
    /\ IF irq_pending # {}
       THEN /\ reg_next_pc' = PcAfter(dec)
            /\ Finish(i, [Fetched(i) EXCEPT !.store = TRUE, !.reg_out = Value, !.rinst = TRUE])
       ELSE /\ reg_next_pc' = current_pc
            /\ Finish(i, [Fetched(i) EXCEPT !.waitirq = TRUE])

LaunchJal(i) ==
    /\ FetchTail /\ ~Waiting /\ decoder_trigger /\ dec.op = "jal"
    /\ irq_delay' = irq_active
    /\ reg_next_pc' = JumpTarget(dec)
    /\ Finish(i, [Fetched(i) EXCEPT !.branch = TRUE, !.rinst = TRUE])

MutDelaySticks(i) ==
    /\ FetchTail /\ ~Waiting /\ decoder_trigger /\ dec.op # "jal"
    /\ irq_delay' = (irq_delay \/ irq_active)
    /\ reg_next_pc' = PcAfter(dec)
    /\ Finish(i, [Fetched(i) EXCEPT !.cpu_state = "ld_rs1", !.rinst = FALSE,
                                    !.prefetch = dec.op \notin {"jalr", "retirq"}])
Launch(i) ==
    /\ FetchTail /\ ~Waiting /\ decoder_trigger /\ dec.op # "jal"
    /\ irq_delay' = irq_active
    /\ reg_next_pc' = PcAfter(dec)
    /\ Finish(i, [Fetched(i) EXCEPT !.cpu_state = "ld_rs1", !.rinst = FALSE,
                                    !.prefetch = dec.op \notin {"jalr", "retirq"}])

FetchIdle(i) ==
    /\ FetchTail /\ ~Waiting /\ ~decoder_trigger
    /\ reg_next_pc' = current_pc
    /\ UNCHANGED irq_delay
    /\ Finish(i, Fetched(i))

-----------------------------------------------------------------------------
(* cpu_state_ld_rs1 and cpu_state_ld_rs2                                   *)

LdRs1 == cpu_state = "ld_rs1" /\ KeepFetch /\ KeepData /\ KeepRd
LdRs2 == cpu_state = "ld_rs2" /\ KeepFetch /\ KeepData /\ KeepRd

\* An instruction no unit takes, ecall or ebreak: interrupt 1 or trap.
Raise(i, r) ==
    IF CanRaise(irq_ebreak)
    THEN [r EXCEPT !.pending = @ \cup {irq_ebreak}, !.cpu_state = "fetch"]
    ELSE [r EXCEPT !.cpu_state = "trap"]

\* One cycle of waiting for a co-processor.
PcpiCycle(i) ==
    IF i.pcpi.ready
    THEN [Default(i) EXCEPT !.pcpi = FALSE, !.cpu_state = "fetch", !.rinst = TRUE,
                            !.reg_out = Value, !.store = i.pcpi.wr]
    ELSE IF pcpi_timeout \/ insn.op = "ebreak"
    THEN Raise(i, [Default(i) EXCEPT !.pcpi = FALSE])
    ELSE [Default(i) EXCEPT !.pcpi = TRUE]

\* Both operands are there: to exec, where with a one-cycle ALU the prefetched
\* instruction is asked for, to the shifter, or to the store.
ToExec(i, r, branch) ==
    LET wait == TWO_CYCLE_ALU \/ (TWO_CYCLE_COMPARE /\ branch) IN
    [r EXCEPT !.cpu_state = "exec",
              !.wait   = wait,
              !.wait_2 = TWO_CYCLE_ALU /\ TWO_CYCLE_COMPARE /\ branch,
              !.rinst  = IF wait THEN @ ELSE mem_do_prefetch]

Operands(i) ==
    /\ reg_sh' = IF insn.op = "sll" THEN insn.arg ELSE 0
    /\ KeepIrq
    /\ Finish(i, IF dec.op = "store"
                 THEN [Default(i) EXCEPT !.cpu_state = "stmem", !.rinst = TRUE]
                 ELSE IF insn.op = "sll" /\ ~BARREL_SHIFTER
                 THEN [Default(i) EXCEPT !.cpu_state = "shift"]
                 ELSE ToExec(i, Default(i), dec.op = "branch"))

IsTrap     == insn.op \in {"ebreak", "pcpi"}
NeedsRs2   == dec.op \in {"branch", "store"} \/ insn.op \in {"alur", "sll"}

LdRs1Trap(i) ==
    /\ LdRs1 /\ IsTrap /\ reg_sh' = 0 /\ KeepIrq
    /\ Finish(i, IF ~WITH_PCPI THEN Raise(i, Default(i))
                 ELSE IF ENABLE_REGS_DUALPORT THEN PcpiCycle(i)
                 ELSE [Default(i) EXCEPT !.cpu_state = "ld_rs2"])

LdRs1Move(i) ==
    /\ LdRs1 /\ insn.op = "move" /\ reg_sh' = 0 /\ KeepIrq
    /\ Finish(i, [Default(i) EXCEPT !.cpu_state = "fetch", !.store = TRUE, !.reg_out = Value])

LdRs1Retirq(i) ==
    /\ LdRs1 /\ dec.op = "retirq" /\ reg_sh' = 0
    /\ eoi' = {} /\ irq_active' = FALSE /\ UNCHANGED irq_mask
    /\ Finish(i, [Default(i) EXCEPT !.cpu_state = "fetch", !.store = TRUE, !.branch = TRUE,
                                    !.reg_out = q0.at])

LdRs1Maskirq(i) ==
    /\ LdRs1 /\ insn.op = "maskirq" /\ reg_sh' = 0
    /\ irq_mask' \in {m \cup MASKED_IRQ : m \in IRQ_MASKS} /\ UNCHANGED <<irq_active, eoi>>
    /\ Finish(i, [Default(i) EXCEPT !.cpu_state = "fetch", !.store = TRUE, !.reg_out = Value])

LdRs1Timer(i) ==
    /\ LdRs1 /\ insn.op = "timer" /\ reg_sh' = 0 /\ KeepIrq
    /\ Finish(i, [Default(i) EXCEPT !.cpu_state = "fetch", !.store = TRUE, !.reg_out = Value,
                                    !.timer = insn.arg])

LdRs1Load(i) ==
    /\ LdRs1 /\ dec.op = "load" /\ reg_sh' = 0 /\ KeepIrq
    /\ Finish(i, [Default(i) EXCEPT !.cpu_state = "ldmem", !.rinst = TRUE])

LdRs1ShiftImm(i) ==
    /\ LdRs1 /\ insn.op = "slli" /\ ~BARREL_SHIFTER /\ reg_sh' = insn.arg /\ KeepIrq
    /\ Finish(i, [Default(i) EXCEPT !.cpu_state = "shift"])

LdRs1Imm(i) ==
    /\ LdRs1 /\ \/ insn.op \in {"lui", "alui"} \/ dec.op = "jalr"
                \/ insn.op = "slli" /\ BARREL_SHIFTER
    /\ reg_sh' = 0 /\ KeepIrq
    /\ Finish(i, ToExec(i, Default(i), FALSE))

LdRs1Rs2(i) ==
    /\ LdRs1 /\ NeedsRs2
    /\ IF ENABLE_REGS_DUALPORT THEN Operands(i)
       ELSE /\ reg_sh' = 0 /\ KeepIrq
            /\ Finish(i, [Default(i) EXCEPT !.cpu_state = "ld_rs2"])

LdRs2Trap(i) ==
    /\ LdRs2 /\ IsTrap /\ reg_sh' = 0 /\ KeepIrq
    /\ Finish(i, PcpiCycle(i))

LdRs2Operands(i) == LdRs2 /\ ~IsTrap /\ Operands(i)

-----------------------------------------------------------------------------
(* cpu_state_exec and cpu_state_shift                                      *)

\* reg_pc + decoded_imm
PcPlusImm == IF insn.op # "branch" THEN Value
             ELSE IF insn.at = FetchAddr(reg_pc) THEN insn.arg ELSE NoAddr

Exec == cpu_state = "exec" /\ KeepFetch /\ KeepData /\ KeepIrq /\ reg_sh' = 0
MutOnlyCompareWaits == TWO_CYCLE_COMPARE /\ alu_wait_2
AluWaits == (TWO_CYCLE_ALU \/ TWO_CYCLE_COMPARE) /\ (alu_wait \/ alu_wait_2)

ExecWait(i) ==
    /\ Exec /\ AluWaits /\ KeepRd
    /\ Finish(i, [Default(i) EXCEPT !.rinst = mem_do_prefetch /\ ~alu_wait_2,
                                    !.wait = alu_wait_2, !.reg_out = PcPlusImm])

\* A branch waits for the fetch of the next instruction; when it is taken that
\* fetch is thrown away and the target fetched instead.
ExecBranch(i) ==
    /\ Exec /\ ~AluWaits /\ dec.op = "branch" /\ latched_rd' = rd_zero
    /\ \E taken \in IF CompareValid THEN {insn.arg # NotTaken} ELSE BOOLEAN :
         Finish(i, [Default(i) EXCEPT
             !.store = taken, !.branch = taken, !.reg_out = PcPlusImm,
             !.cpu_state = IF mem_done(i) THEN "fetch" ELSE "exec",
             !.trigger = @ /\ ~taken,
             !.set = IF taken THEN "rinst" ELSE "none"])

ExecAlu(i) ==
    /\ Exec /\ ~AluWaits /\ dec.op # "branch" /\ KeepRd
    /\ Finish(i, [Default(i) EXCEPT !.cpu_state = "fetch", !.store = TRUE, !.stalu = TRUE,
                                    !.branch = (dec.op = "jalr"), !.reg_out = PcPlusImm])

Shift(i) ==
    /\ cpu_state = "shift" /\ KeepFetch /\ KeepData /\ KeepIrq /\ KeepRd
    /\ reg_sh' = IF reg_sh = 0 THEN 0
                 ELSE IF TWO_STAGE_SHIFT /\ reg_sh >= 4 THEN reg_sh - 4 ELSE reg_sh - 1
    /\ Finish(i, IF reg_sh = 0
                 THEN [Default(i) EXCEPT !.store = TRUE, !.reg_out = Value, !.cpu_state = "fetch",
                                         !.rinst = mem_do_prefetch]
                 ELSE [Default(i) EXCEPT !.store = TRUE])

-----------------------------------------------------------------------------
(* cpu_state_stmem and cpu_state_ldmem: the next instruction is fetched    *)
(* first, then the data access is made; its completion triggers the        *)
(* decoder without a second decode, as mem_rdata_q holds the data by then. *)

DataState(st) == cpu_state = st /\ KeepFetch /\ KeepIrq /\ KeepRd /\ reg_sh' = 0
FetchedNext(i) == ~mem_do_prefetch \/ mem_done(i)
Accessed(i)    == ~mem_do_prefetch /\ mem_done(i)

MutDecodesData(i, r) ==
    IF Accessed(i)
    THEN [r EXCEPT !.cpu_state = "fetch", !.trigger = TRUE]
    ELSE r
DataDone(i, r) ==
    IF Accessed(i)
    THEN [r EXCEPT !.cpu_state = "fetch", !.trigger = TRUE, !.pseudo = TRUE]
    ELSE r

StMem(i) ==
    /\ DataState("stmem") /\ UNCHANGED latched_is
    /\ IF FetchedNext(i) /\ ~mem_do_wdata
       THEN /\ misaligned' = (insn.arg = 1)
            /\ Finish(i, DataDone(i, [Default(i) EXCEPT !.set = "wdata"]))
       ELSE /\ UNCHANGED misaligned
            /\ Finish(i, DataDone(i, Default(i)))

LdMem(i) ==
    /\ DataState("ldmem")
    /\ IF FetchedNext(i) /\ ~mem_do_rdata
       THEN /\ misaligned' = (insn.arg = 1) /\ latched_is' = insn.at
            /\ Finish(i, DataDone(i, [Default(i) EXCEPT !.store = TRUE, !.set = "rdata"]))
       ELSE /\ UNCHANGED <<misaligned, latched_is>>
            /\ Finish(i, DataDone(i, [Default(i) EXCEPT !.store = TRUE,
                   !.reg_out = IF Accessed(i) /\ latched_is # NoAddr THEN Value ELSE NoAddr]))

Trapped(i) ==
    /\ cpu_state = "trap" /\ KeepFetch /\ KeepData /\ KeepIrq /\ KeepRd /\ reg_sh' = 0
    /\ Finish(i, Default(i))

-----------------------------------------------------------------------------
(* History variables: which instruction the core is working on.            *)

Launches ==
    /\ cpu_state = "fetch" /\ ~InterruptTaken
    /\ IF Waiting THEN irq_pending # {} ELSE decoder_trigger

StartsAccess == ~trap /\ mem_state = 0 /\ (mem_do_rdata \/ mem_do_wdata)

History ==
    /\ cur' = IF Launches THEN insn' ELSE cur
    /\ accesses' = IF Launches THEN 0
                   ELSE IF StartsAccess /\ accesses < 2 THEN accesses + 1 ELSE accesses

-----------------------------------------------------------------------------
FetchStep(i) ==
    \/ FetchInterrupt(i) \/ FetchSaveReturn(i) \/ FetchSaveMask(i)
    \/ FetchWaitirq(i) \/ LaunchJal(i) \/ Launch(i) \/ FetchIdle(i)

LdRs1Step(i) ==
    \/ LdRs1Trap(i) \/ LdRs1Move(i) \/ LdRs1Retirq(i) \/ LdRs1Maskirq(i) \/ LdRs1Timer(i)
    \/ LdRs1Load(i) \/ LdRs1ShiftImm(i) \/ LdRs1Imm(i) \/ LdRs1Rs2(i)

ExecuteStep(i) ==
    \/ LdRs1Step(i) \/ LdRs2Trap(i) \/ LdRs2Operands(i)
    \/ ExecWait(i) \/ ExecBranch(i) \/ ExecAlu(i) \/ Shift(i)
    \/ StMem(i) \/ LdMem(i) \/ Trapped(i)

Clock(i) == (FetchStep(i) \/ ExecuteStep(i)) /\ MemStep(i) /\ History

\* What a cycle with resetn low assigns outside the memory interface.
ResetState ==
    /\ cpu_state' = "fetch" /\ trap' = FALSE
    /\ reg_pc' = PROGADDR_RESET /\ reg_next_pc' = PROGADDR_RESET
    /\ mem_do_prefetch' = FALSE /\ mem_do_rinst' = FALSE
    /\ mem_do_rdata' = FALSE /\ mem_do_wdata' = FALSE
    /\ latched_store' = SET_STACKADDR /\ latched_stalu' = FALSE /\ latched_branch' = FALSE
    /\ latched_is' = NoAddr
    /\ reg_out' = IF SET_STACKADDR THEN Value ELSE NoAddr
    /\ decoder_trigger' = FALSE /\ decoder_pseudo_trigger' = FALSE
    /\ alu_wait' = FALSE /\ alu_wait_2' = FALSE
    /\ pcpi_valid' = FALSE /\ pcpi_timeout' = FALSE /\ pcpi_timeout_counter' = PCPI_TIMEOUT
    /\ irq_mask' = IRQ /\ irq_active' = FALSE /\ irq_delay' = FALSE /\ irq_state' = 0
    /\ do_waitirq' = FALSE /\ eoi' = {} /\ timer' = 0

Reset(i) ==
    /\ RESETS /\ ResetState /\ MemReset(i) /\ Alu
    /\ latched_rd' = IF SET_STACKADDR THEN rd_sp ELSE latched_rd
    /\ irq_pending' = IF ENABLE_IRQ THEN (i.irq \cup IF timer = 1 THEN {irq_timer} ELSE {}) \ MASKED_IRQ
                      ELSE {}
    /\ IF decoder_trigger /\ ~decoder_pseudo_trigger THEN insn' \in Stage2(dec) ELSE UNCHANGED insn
    /\ UNCHANGED <<latched_compr, dec, misaligned, q0>> /\ reg_sh' = 0
    /\ cur' = NoInsn /\ accesses' = 0

Next == \E i \in Inputs : Clock(i) \/ Reset(i)

\* After power-up and a first cycle of reset; what no reset assigns is unknown.
Init ==
    /\ cpu_state = "fetch" /\ trap = FALSE
    /\ reg_pc = PROGADDR_RESET /\ reg_next_pc = PROGADDR_RESET
    /\ mem_do_prefetch = FALSE /\ mem_do_rinst = FALSE
    /\ mem_do_rdata = FALSE /\ mem_do_wdata = FALSE
    /\ latched_store = SET_STACKADDR /\ latched_stalu = FALSE /\ latched_branch = FALSE
    /\ latched_compr \in BOOLEAN /\ latched_is = NoAddr
    /\ latched_rd = IF SET_STACKADDR THEN rd_sp ELSE NoAddr
    /\ reg_out = IF SET_STACKADDR THEN Value ELSE NoAddr
    /\ dec = NoInsn /\ insn = NoInsn
    /\ decoder_trigger = FALSE /\ decoder_pseudo_trigger = FALSE
    /\ alu_wait = FALSE /\ alu_wait_2 = FALSE /\ alu_add_sub = FALSE
    /\ alu_out_0_q = FALSE /\ alu_out_q = NoAddr
    /\ reg_sh = 0 /\ misaligned = FALSE
    /\ pcpi_valid = FALSE /\ pcpi_timeout = FALSE /\ pcpi_timeout_counter = PCPI_TIMEOUT
    /\ irq_pending = {} /\ irq_mask = IRQ /\ irq_active = FALSE /\ irq_delay = FALSE
    /\ irq_state = 0 /\ do_waitirq = FALSE /\ eoi = {} /\ timer = 0
    /\ q0 = [at |-> PROGADDR_RESET, lsb |-> FALSE]     \* it may hold anything
    /\ mem_valid = FALSE /\ mem_instr \in BOOLEAN /\ mem_addr = NoWord /\ mem_wstrb \in BOOLEAN
    /\ mem_state = 0 /\ mem_la_secondword = FALSE /\ mem_la_firstword_reg = FALSE
    /\ last_mem_valid = FALSE /\ prefetched_high_word = FALSE
    /\ clear_prefetched_high_word_q = COMPRESSED_ISA
    /\ mem_16bit_buffer = Unknown /\ mem_rdata_q = Unknown
    /\ last_mem_la_read = FALSE /\ last_mem_la_write = FALSE
    /\ cur = NoInsn /\ accesses = 0

Spec == Init /\ [][Next]_vars
=============================================================================

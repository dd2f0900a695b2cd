------------------------------ MODULE PcpiUnits ------------------------------
(***************************************************************************)
(* The co-processors behind the PCPI of picorv32: MAC4                     *)
(* (neural/rtl/picorv32_pcpi_mac.v), the serial and the fast multiplier    *)
(* and the divider (picorv32.v), and the multiplexer that joins their      *)
(* answers.                                                                *)
(*                                                                         *)
(* Each is modelled by its registers, one step per clock edge; what it     *)
(* computes is an operation, the instruction together with its operands,   *)
(* carried from register to register.  A result of the wrong instruction,  *)
(* of other operands, or of a half of the product that was not asked for   *)
(* is another operation.  q is the request of the cycle: pcpi_valid,       *)
(* pcpi_insn and the operands.                                             *)
(***************************************************************************)
EXTENDS Naturals

CONSTANTS
    ENABLE_MAC,         \* MAC4 on the external PCPI
    ENABLE_MUL, ENABLE_DIV,
    FAST_MUL,           \* the values of the parameter ENABLE_FAST_MUL
    MUL_STEPS,          \* 32 / STEPS_AT_ONCE
    DIV_STEPS,          \* 32
    EXTRA_MUL_FFS, EXTRA_INSN_FFS, MUL_CLKGATE,
    RS_VALUES           \* values of the operand registers

ASSUME UnitsAssumption ==
    /\ {ENABLE_MAC, ENABLE_MUL, ENABLE_DIV} \cup FAST_MUL \subseteq BOOLEAN
    /\ {EXTRA_MUL_FFS, EXTRA_INSN_FFS, MUL_CLKGATE} \subseteq BOOLEAN
    /\ MUL_STEPS \in Nat \ {0} /\ DIV_STEPS \in Nat \ {0}
    /\ RS_VALUES # {}

MulInsns  == {"mul", "mulh"}       \* mulh, mulhsu and mulhu take the upper half
DivInsns  == {"div", "rem"}        \* signed and unsigned
PcpiInsns == {"mac4", "other"} \cup MulInsns \cup DivInsns

\* What a data register holds: the operation it belongs to.
NoOp         == [insn |-> "none", rs |-> "none"]
Op(insn, rs) == IF insn = "none" THEN NoOp ELSE [insn |-> insn, rs |-> rs]
AnyOp        == [insn : PcpiInsns, rs : RS_VALUES] \cup {NoOp}

VARIABLES
    ENABLE_FAST_MUL,    \* which multiplier is built in, for ever
    mac_stage1_valid, mac_prod, mac_wait, mac_ready, mac_rd,
    mul_instr, mul_wait, mul_wait_q, mul_waiting, mul_finish, mul_counter, mul_op,
    mul_ready, mul_rd,
    fast_active, fast_valid_q, fast_rs, fast_rs_q, fast_rd, fast_rd_q, fast_shift_out,
    div_instr, div_wait, div_wait_q, div_running, div_left, div_op, div_ready, div_rd

macVars  == <<mac_stage1_valid, mac_prod, mac_wait, mac_ready, mac_rd>>
mulVars  == <<mul_instr, mul_wait, mul_wait_q, mul_waiting, mul_finish, mul_counter,
              mul_op, mul_ready, mul_rd>>
fastVars == <<fast_active, fast_valid_q, fast_rs, fast_rs_q, fast_rd, fast_rd_q, fast_shift_out>>
divVars  == <<div_instr, div_wait, div_wait_q, div_running, div_left, div_op, div_ready, div_rd>>
unitVars == <<ENABLE_FAST_MUL, macVars, mulVars, fastVars, divVars>>

\* The instruction of the cycle that a unit recognises.
Instr(q, insns) == IF q.valid /\ q.insn \in insns THEN q.insn ELSE "none"

-----------------------------------------------------------------------------
(* MAC4: multiply, add, each registered.                                   *)

instr_mac4(q) == q.valid /\ q.insn = "mac4"

MacStep(q, resetn) ==
    /\ mac_stage1_valid' = (resetn /\ instr_mac4(q))
    /\ mac_prod' = IF resetn /\ instr_mac4(q) THEN Op(q.insn, q.rs) ELSE mac_prod
    /\ mac_ready' = (resetn /\ mac_stage1_valid)
    /\ mac_rd' = IF resetn /\ mac_stage1_valid THEN mac_prod ELSE mac_rd
    /\ mac_wait' = (resetn /\ instr_mac4(q))

-----------------------------------------------------------------------------
(* Serial multiplier: starts when its own pcpi_wait rises, loads the       *)
(* operands until then, and counts its steps down.                         *)

MutStartsByLevel == mul_wait
mul_start == mul_wait /\ ~mul_wait_q

MutWaitDropped(q, resetn) ==
    /\ mul_instr' = IF resetn THEN Instr(q, MulInsns) ELSE "none"
    /\ mul_wait' = (mul_instr # "none" /\ mul_waiting)
    /\ mul_wait_q' = (mul_wait \/ mul_wait_q)
MutWaitSticks(q, resetn) ==
    /\ mul_instr' = IF resetn THEN Instr(q, MulInsns) ELSE "none"
    /\ mul_wait' = (mul_instr # "none")
    /\ mul_wait_q' = (mul_wait \/ mul_wait_q)
MulDecode(q, resetn) ==
    /\ mul_instr' = IF resetn THEN Instr(q, MulInsns) ELSE "none"
    /\ mul_wait' = (mul_instr # "none")
    /\ mul_wait_q' = mul_wait

MulLoad(q) ==
    /\ mul_waiting
    /\ mul_op' = Op(mul_instr, q.rs)
    /\ mul_counter' = (IF mul_instr = "mulh" THEN 2*MUL_STEPS ELSE MUL_STEPS) - 1
    /\ mul_waiting' = ~mul_start /\ mul_finish' = FALSE

MulIterate ==
    /\ ~mul_waiting
    /\ UNCHANGED mul_op
    /\ mul_counter' = IF mul_counter = 0 THEN 0 ELSE mul_counter - 1
    /\ mul_finish' = (mul_counter = 0) /\ mul_waiting' = (mul_counter = 0)

\* The half of the product is chosen by the instruction decoded now.
MulAnswer(resetn) ==
    /\ mul_ready' = (resetn /\ mul_finish)
    /\ mul_rd' = IF resetn /\ mul_finish
                 THEN IF mul_op.insn = mul_instr THEN mul_op ELSE NoOp
                 ELSE mul_rd

MulStep(q, resetn) ==
    /\ MulDecode(q, resetn) /\ MulAnswer(resetn)
    /\ IF resetn THEN MulLoad(q) \/ MulIterate
       ELSE mul_waiting' = TRUE /\ mul_finish' = FALSE /\ UNCHANGED <<mul_op, mul_counter>>

-----------------------------------------------------------------------------
(* Fast multiplier: a pipeline whose stages fast_active follows.           *)

fast_instr(q, resetn) ==
    IF resetn /\ (IF EXTRA_INSN_FFS THEN fast_valid_q ELSE q.valid) /\ q.insn \in MulInsns
    THEN q.insn ELSE "none"

FastBusy == \E s \in IF EXTRA_MUL_FFS THEN 0 .. 3 ELSE 0 .. 1 : fast_active[s]

FastStarts(q, resetn) == fast_instr(q, resetn) # "none" /\ ~FastBusy

FastStep(q, resetn) ==
    /\ fast_valid_q' = (q.valid /\ q.insn \in MulInsns \cup DivInsns)
    /\ fast_active' = [s \in 0 .. 3 |-> /\ resetn
                                        /\ IF s = 0 THEN FastStarts(q, resetn)
                                                    ELSE fast_active[s - 1]]
    /\ fast_rs' = IF FastStarts(q, resetn) THEN Op(q.insn, q.rs) ELSE fast_rs
    /\ fast_rs_q' = IF ~MUL_CLKGATE \/ fast_active[0] THEN fast_rs ELSE fast_rs_q
    /\ fast_rd' = IF ~MUL_CLKGATE \/ fast_active[1]
                  THEN IF EXTRA_MUL_FFS THEN fast_rs_q ELSE fast_rs
                  ELSE fast_rd
    /\ fast_rd_q' = IF ~MUL_CLKGATE \/ fast_active[2] THEN fast_rd ELSE fast_rd_q
    /\ fast_shift_out' = (fast_instr(q, resetn) = "mulh")

fast_ready  == fast_active[IF EXTRA_MUL_FFS THEN 3 ELSE 1]
fast_result == LET o == IF EXTRA_MUL_FFS THEN fast_rd_q ELSE fast_rd IN
               IF (o.insn = "mulh") = fast_shift_out THEN o ELSE NoOp

-----------------------------------------------------------------------------
(* Divider: starts like the multiplier, one quotient bit per cycle.        *)

div_start == div_wait /\ ~div_wait_q

DivDecode(q, resetn) ==
    /\ div_instr' = IF resetn /\ ~div_ready THEN Instr(q, DivInsns) ELSE "none"
    /\ div_wait' = (resetn /\ div_instr # "none")
    /\ div_wait_q' = (resetn /\ div_wait)

DivStart(q) ==
    /\ div_start
    /\ div_running' = TRUE /\ div_left' = DIV_STEPS /\ div_op' = Op(div_instr, q.rs)
    /\ div_ready' = FALSE /\ div_rd' = NoOp

DivAnswer ==
    /\ ~div_start /\ div_left = 0 /\ div_running
    /\ div_running' = FALSE /\ div_ready' = TRUE
    /\ div_rd' = IF div_op.insn = div_instr THEN div_op ELSE NoOp
    /\ UNCHANGED <<div_left, div_op>>

DivIterate ==
    /\ ~div_start /\ ~(div_left = 0 /\ div_running)
    /\ div_left' = IF div_left = 0 THEN 0 ELSE div_left - 1
    /\ div_ready' = FALSE /\ div_rd' = NoOp
    /\ UNCHANGED <<div_running, div_op>>

DivStep(q, resetn) ==
    /\ DivDecode(q, resetn)
    /\ IF resetn THEN DivStart(q) \/ DivAnswer \/ DivIterate
       ELSE /\ div_running' = FALSE /\ div_ready' = FALSE /\ div_rd' = NoOp
            /\ UNCHANGED <<div_left, div_op>>

-----------------------------------------------------------------------------
(* The multiplexer, and the units an instance of picorv32 has.             *)

SerialMul == ENABLE_MUL /\ ~ENABLE_FAST_MUL

pcpi_mac_ready == ENABLE_MAC /\ mac_ready
pcpi_mul_ready == (ENABLE_FAST_MUL /\ fast_ready) \/ (SerialMul /\ mul_ready)
pcpi_div_ready == ENABLE_DIV /\ div_ready

pcpi_int_ready == pcpi_mac_ready \/ pcpi_mul_ready \/ pcpi_div_ready
pcpi_int_wait  == (ENABLE_MAC /\ mac_wait) \/ (SerialMul /\ mul_wait) \/ (ENABLE_DIV /\ div_wait)
pcpi_int_wr    == pcpi_int_ready
pcpi_int_rd ==
    CASE pcpi_mac_ready -> mac_rd
      [] ~pcpi_mac_ready /\ pcpi_mul_ready -> IF ENABLE_FAST_MUL THEN fast_result ELSE mul_rd
      [] ~pcpi_mac_ready /\ ~pcpi_mul_ready /\ pcpi_div_ready -> div_rd
      [] OTHER -> NoOp

\* Instructions some unit executes.
Known == (IF ENABLE_MAC THEN {"mac4"} ELSE {})
         \cup (IF ENABLE_MUL \/ ENABLE_FAST_MUL THEN MulInsns ELSE {})
         \cup (IF ENABLE_DIV THEN DivInsns ELSE {})

UnitsStep(q, resetn) ==
    /\ IF ENABLE_MAC THEN MacStep(q, resetn) ELSE UNCHANGED macVars
    /\ IF SerialMul THEN MulStep(q, resetn) ELSE UNCHANGED mulVars
    /\ IF ENABLE_FAST_MUL THEN FastStep(q, resetn) ELSE UNCHANGED fastVars
    /\ IF ENABLE_DIV THEN DivStep(q, resetn) ELSE UNCHANGED divVars
    /\ UNCHANGED ENABLE_FAST_MUL

\* After a reset at power-up that every unit has settled in.  A count no reset
\* clears holds anything; the data registers are written before they are used.
UnitsInit ==
    /\ ENABLE_FAST_MUL \in FAST_MUL
    /\ mac_stage1_valid = FALSE /\ mac_wait = FALSE /\ mac_ready = FALSE
    /\ mac_prod = NoOp /\ mac_rd = NoOp
    /\ mul_instr = "none" /\ mul_wait = FALSE /\ mul_wait_q = FALSE
    /\ mul_waiting = TRUE /\ mul_finish = FALSE /\ mul_counter = 0
    /\ mul_op = NoOp /\ mul_ready = FALSE /\ mul_rd = NoOp
    /\ fast_active = [s \in 0 .. 3 |-> FALSE] /\ fast_valid_q = FALSE
    /\ fast_rs = NoOp /\ fast_rs_q = NoOp /\ fast_rd = NoOp /\ fast_rd_q = NoOp
    /\ fast_shift_out = FALSE
    /\ div_instr = "none" /\ div_wait = FALSE /\ div_wait_q = FALSE
    /\ div_running = FALSE /\ div_left \in IF ENABLE_DIV THEN 0 .. DIV_STEPS ELSE {0}
    /\ div_op = NoOp /\ div_ready = FALSE /\ div_rd = NoOp
=============================================================================

------------------------------ MODULE PicoISA ------------------------------
(***************************************************************************)
(* What picorv32 promises to the program it runs: instructions execute one *)
(* after the other, each the one at pc, each making its data accesses      *)
(* exactly once; the next pc is the following instruction or the jump      *)
(* target; interrupts fall between instructions, save the pc they came at, *)
(* do not nest, and let one instruction through after a return; the core   *)
(* stops only for a fault.                                                 *)
(*                                                                         *)
(* No bus, pipeline, prefetch buffer or decoder exists here; PicoCore is   *)
(* shown to implement this module.                                         *)
(***************************************************************************)
EXTENDS Naturals

CONSTANTS
    PARCELS,          \* halfwords of the address space, as PROGADDR_* number them
    Insns,            \* instructions: where, how long, operation and argument
    NoInsn,
    COMPRESSED_ISA, ENABLE_IRQ,
    PROGADDR_RESET, PROGADDR_IRQ

Addr == 0 .. PARCELS - 1
NoPc == PARCELS

VARIABLES
    phase,     \* between instructions, within one, or stopped by a fault
    pc, insn,
    acc,       \* data accesses made by insn
    in_irq, epc, delay

vars == <<phase, pc, insn, acc, in_irq, epc, delay>>

\* Without compressed instructions the lowest bits of the pc are not fetched from.
InsnAddr(a) == IF COMPRESSED_ISA THEN a ELSE 2 * (a \div 2)

IsAccess(d) == d.op \in {"load", "store"}
Behind(n)   == (pc + n) % PARCELS
NextPc(d) ==
    CASE d.op = "jalr"                        -> d.arg
      [] d.op = "branch" /\ d.arg \in Addr    -> d.arg
      [] d.op = "retirq"                      -> epc
      [] OTHER                                -> Behind(IF d.long THEN 2 ELSE 1)

Faulty(d) == d.op \in {"ebreak", "pcpi"} \/ (IsAccess(d) /\ d.arg = 1)

Init ==
    /\ phase = "ready" /\ pc = PROGADDR_RESET /\ insn = NoInsn /\ acc = 0
    /\ in_irq = FALSE /\ epc \in Addr \cup {NoPc} /\ delay = FALSE

Begin ==
    /\ phase = "ready" /\ phase' = "exec"
    /\ insn' \in Insns /\ insn'.at = InsnAddr(pc) /\ insn'.op \notin {"jal", "waitirq"}
    /\ acc' = 0 /\ delay' = FALSE
    /\ UNCHANGED <<pc, in_irq, epc>>

Access ==
    /\ phase = "exec" /\ IsAccess(insn) /\ acc = 0 /\ acc' = 1
    /\ UNCHANGED <<phase, pc, insn, in_irq, epc, delay>>

Retire ==
    /\ phase = "exec" /\ phase' = "ready"
    /\ IsAccess(insn) => acc = 1
    /\ pc' = NextPc(insn) /\ insn' = NoInsn /\ acc' = 0
    /\ in_irq' = (in_irq /\ insn.op # "retirq")
    /\ delay' = (insn.op = "retirq" /\ in_irq)
    /\ UNCHANGED epc

\* jal and waitirq take effect at once, within the fetch: where the core goes is
\* all there is to see of them.
Jump ==
    /\ phase = "ready" /\ UNCHANGED <<phase, insn, acc, in_irq, epc>>
    /\ \/ pc' \in Addr /\ delay' = FALSE                       \* jal
       \/ pc' \in {Behind(2), Behind(1)} /\ UNCHANGED delay     \* waitirq

Interrupt ==
    /\ ENABLE_IRQ /\ phase = "ready" /\ ~in_irq /\ ~delay
    /\ in_irq' = TRUE /\ epc' = pc /\ pc' = PROGADDR_IRQ
    /\ UNCHANGED <<phase, insn, acc, delay>>

Trap ==
    /\ \/ phase = "exec" /\ Faulty(insn)
       \/ phase = "ready" /\ InsnAddr(pc) # pc
    /\ phase' = "halted" /\ pc' = NoPc /\ insn' = NoInsn /\ acc' = 0
    /\ UNCHANGED <<in_irq, epc, delay>>

\* Registers, epc among them, are not reset.
Reset ==
    /\ phase' = "ready" /\ pc' = PROGADDR_RESET /\ insn' = NoInsn /\ acc' = 0
    /\ in_irq' = FALSE /\ epc' \in Addr \cup {NoPc} /\ delay' = FALSE

Next ==
    \/ Begin \/ Access \/ Retire \/ Jump
    \/ Interrupt \/ Trap \/ Reset

Spec == Init /\ [][Next]_vars
=============================================================================

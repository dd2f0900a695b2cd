---------------------------- MODULE PicoCoreProps ----------------------------
(***************************************************************************)
(* What the picorv32 core and its memory interface (PicoCore) must keep.   *)
(***************************************************************************)
EXTENDS PicoCore

\* Every register holds what its declaration in picorv32.v allows, 'x included,
\* and the decoder what the classes of instructions allow.
MemTypeOK ==
    /\ mem_valid \in BOOLEAN /\ mem_instr \in BOOLEAN /\ mem_wstrb \in BOOLEAN
    /\ mem_addr \in WordAddr /\ mem_state \in 0 .. 3
    /\ mem_la_secondword \in BOOLEAN /\ mem_la_firstword_reg \in BOOLEAN
    /\ last_mem_valid \in BOOLEAN /\ prefetched_high_word \in BOOLEAN
    /\ clear_prefetched_high_word_q \in BOOLEAN
    /\ mem_16bit_buffer \in Parcel /\ mem_rdata_q \in Parcel
    /\ last_mem_la_read \in BOOLEAN /\ last_mem_la_write \in BOOLEAN
RequestTypeOK ==
    /\ mem_do_prefetch \in BOOLEAN /\ mem_do_rinst \in BOOLEAN
    /\ mem_do_rdata \in BOOLEAN /\ mem_do_wdata \in BOOLEAN
StateTypeOK ==
    /\ cpu_state \in States /\ trap \in BOOLEAN
    /\ reg_pc \in Values /\ reg_next_pc \in Values /\ reg_out \in Values
    /\ latched_store \in BOOLEAN /\ latched_stalu \in BOOLEAN /\ latched_branch \in BOOLEAN
    /\ latched_compr \in BOOLEAN /\ latched_rd \in Rd /\ latched_is \in HalfAddr \cup {NoAddr}
    /\ reg_sh \in 0 .. MAX_SHIFT /\ misaligned \in BOOLEAN
    /\ alu_wait \in BOOLEAN /\ alu_wait_2 \in BOOLEAN /\ alu_add_sub \in BOOLEAN
    /\ alu_out_0_q \in BOOLEAN /\ alu_out_q \in Values
    /\ pcpi_valid \in BOOLEAN /\ pcpi_timeout \in BOOLEAN
    /\ pcpi_timeout_counter \in 0 .. PCPI_TIMEOUT
DecoderTypeOK ==
    /\ dec \in Insn /\ insn \in Insn
    /\ dec.op = "jal" => dec.arg \in Targets
    /\ insn.op # "other" => insn.arg \in Args(insn.op)
    /\ decoder_trigger \in BOOLEAN /\ decoder_pseudo_trigger \in BOOLEAN
IrqTypeOK ==
    /\ irq_pending \subseteq IRQ /\ irq_mask \subseteq IRQ /\ eoi \subseteq IRQ
    /\ irq_active \in BOOLEAN /\ irq_delay \in BOOLEAN /\ do_waitirq \in BOOLEAN
    /\ irq_state \in 0 .. 2 /\ timer \in 0 .. MAX_TIMER
    /\ q0 \in [at : Values, lsb : BOOLEAN]
HistTypeOK == cur \in Insn /\ accesses \in 0 .. 2
TypeOK == MemTypeOK /\ RequestTypeOK /\ StateTypeOK /\ DecoderTypeOK /\ IrqTypeOK /\ HistTypeOK

-----------------------------------------------------------------------------
(* Memory interface                                                        *)

\* The assertions of the memory interface: the main state machine asks for
\* one kind of transfer at a time, and never withdraws or changes what the
\* transfer under way was started for.
RequestsExclusive ==
    ~trap => /\ mem_do_wdata => ~(Fetching \/ mem_do_rdata)
             /\ mem_do_rdata => ~Fetching
TransferMatchesRequest ==
    ~trap => /\ mem_state = 1 => /\ ~mem_wstrb /\ (Fetching \/ mem_do_rdata)
                                 /\ mem_valid = ~mem_la_use_prefetched_high_word
                                 /\ mem_instr = Fetching
             /\ mem_state = 2 => mem_wstrb /\ mem_valid /\ mem_do_wdata
             /\ mem_state = 3 => ~mem_wstrb /\ mem_do_prefetch

\* README.md, Native Memory Interface: an unanswered request stays, unchanged.
RequestStable ==
    [][last_mem_valid' => mem_valid' /\ UNCHANGED <<mem_addr, mem_instr, mem_wstrb>>]_vars

\* FORMAL section and README.md, Look-Ahead Interface: a look-ahead pulse
\* announces the transfer of the next cycle.
LookAheadAnnounces ==
    /\ last_mem_la_read  => mem_valid /\ ~mem_wstrb
    /\ last_mem_la_write => mem_valid /\ mem_wstrb

-----------------------------------------------------------------------------
(* Instructions                                                            *)

\* What is executed at an address is what memory holds there.  A fetch starts only
\* from an address the core has computed; the upper half kept from the last word
\* is used only when it is the parcel at next_pc, so that branches, interrupts and
\* resets drop it in time; and the decoder holds the instruction at the pc it is
\* executed for, though the next one overwrites it while a branch, load or store
\* is still running.
Operating == cpu_state \in {"ld_rs1", "ld_rs2", "exec", "shift", "stmem", "ldmem"}
FetchAddressKnown   == Fetching /\ mem_state = 0 /\ ~trap => next_pc \in HalfAddr
BufferIsNextParcel  == mem_la_use_prefetched_high_word => mem_16bit_buffer.at = next_pc
DecodedAtPc ==
    /\ cpu_state = "fetch" /\ decoder_trigger => dec.at = FetchAddr(current_pc)
    /\ cpu_state \in {"ld_rs1", "ld_rs2", "exec"} => dec.at = cur.at /\ insn = cur
    /\ Operating => cur.at = FetchAddr(reg_pc)
RunsWhatIsAtPc == FetchAddressKnown /\ BufferIsNextParcel /\ DecodedAtPc

\* (* parallel_case *) of cpu_state_fetch: interrupt entry and the write-back
\* of an instruction never meet, and entry is never left half way.
InterruptEntryAlone ==
    irq_state # 0 => cpu_state = "fetch" /\ ~latched_store /\ ~latched_branch

\* An instruction writes its own destination, with a value that was computed; a
\* jump links to the instruction behind it.
WritesOwnResult ==
    /\ cpu_state = "fetch" /\ latched_store /\ ~latched_branch /\ latched_rd # rd_sp =>
          /\ latched_rd = cur.at
          /\ (IF latched_stalu THEN alu_out_q ELSE reg_out) # NoAddr
    /\ cpu_state = "fetch" /\ latched_branch =>
          latched_compr = ~cur.long /\ cur.at = FetchAddr(reg_pc)

\* A co-processor instruction starts with the whole timeout before it.
FreshTimeout ==
    cpu_state \in {"ld_rs1", "ld_rs2"} /\ ~pcpi_valid =>
        ~pcpi_timeout /\ pcpi_timeout_counter = PCPI_TIMEOUT

-----------------------------------------------------------------------------
(* Interrupts                                                              *)

\* A latched interrupt stays pending until eoi reports it to the handler.
LatchedIrqKept ==
    [][\/ ResetState
       \/ \A n \in irq_pending \cap LATCHED_IRQ : n \in irq_pending' \/ n \in eoi' ]_vars

\* README.md, IRQ handling: an instruction that raises interrupt 1 is followed
\* by the handler, whatever else is pending, and by no further instruction.
FaultIsServed ==
    cpu_state = "fetch" /\ cur.op = "ebreak" /\ irq_state = 0 /\ ~irq_active
       => irq_ebreak \in irq_pending \ irq_mask /\ ~irq_delay

\* The handler finds the instruction that raised interrupt 1 or 2 in front of the
\* return address, by the LSB of q0 (firmware/irq.c prints a mismatch otherwise).
handler_pc(q) == CHOOSE a \in HalfAddr : Plus(a, IF q.lsb THEN 1 ELSE 2) = q.at
FaultIsFound ==
    irq_state = 2 /\ cur.op \in {"ebreak", "load", "store"} =>
        q0.lsb = ~cur.long /\ handler_pc(q0) = cur.at
FaultIsReported == FaultIsServed /\ FaultIsFound

-----------------------------------------------------------------------------
(* Progress, when the clock runs, no reset comes and the memory answers.   *)

FairSpec ==
    /\ Spec
    /\ WF_vars(\E i \in Inputs : Clock(i))
    /\ WF_vars(\E i \in Inputs : i.mem_ready /\ Clock(i))

\* The core always gets to another instruction, unless it waits or stopped.
KeepsRunning == []<>(decoder_trigger \/ do_waitirq \/ trap)

\* An unmasked latched interrupt is taken, even from within waitirq.  Only a
\* program that does nothing but waitirq after retirq keeps it waiting: waitirq
\* does not end the delay of one instruction.
Due == (irq_pending \cap LATCHED_IRQ) \ irq_mask # {}
DueIsTaken == Due ~> (irq_active \/ trap \/ ~Due \/ (irq_delay /\ dec.op = "waitirq"))

-----------------------------------------------------------------------------
(* The core implements the abstract machine.                               *)

InFetch == cpu_state = "fetch"
Halted  == cpu_state = "trap"
ISA == INSTANCE PicoISA WITH
    PARCELS <- 2*WORDS,
    Insns   <- Insn,
    phase   <- IF InFetch THEN "ready" ELSE IF Halted THEN "halted" ELSE "exec",
    pc      <- IF InFetch THEN current_pc ELSE IF Halted THEN NoAddr ELSE reg_pc,
    insn    <- IF InFetch \/ Halted THEN NoInsn ELSE cur,
    acc     <- IF InFetch \/ Halted THEN 0 ELSE accesses,
    in_irq  <- irq_active \/ irq_state = 1,
    epc     <- IF irq_state = 1 THEN reg_next_pc ELSE q0.at,
    delay   <- irq_delay /\ ~irq_active

\* picorv32 implements PicoISA: seen from one fetch state to the next, the core
\* runs whole instructions one after the other, each from the pc its predecessor
\* set, and takes interrupts only between two of them, without nesting.
ISASpec == ISA!Spec
=============================================================================

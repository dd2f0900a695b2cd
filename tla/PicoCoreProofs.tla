--------------------------- MODULE PicoCoreProofs ---------------------------
(***************************************************************************)
(* Proofs about PicoCore, for every value of its constants.                *)
(***************************************************************************)
EXTENDS PicoCoreProps, TLAPS

-----------------------------------------------------------------------------
(* Types of the parts                                                      *)

InputOK(i) ==
    /\ i.mem_ready \in BOOLEAN /\ i.lo \in Parcel /\ i.hi \in Parcel
    /\ i.irq \in SUBSET EXT_IRQ
    /\ i.pcpi.ready \in BOOLEAN /\ i.pcpi.wait \in BOOLEAN /\ i.pcpi.wr \in BOOLEAN

Result ==
    [cpu_state : States, prefetch : BOOLEAN, rinst : BOOLEAN,
     set : {"none", "rinst", "rdata", "wdata"}, trigger : BOOLEAN, pseudo : BOOLEAN,
     reg_out : Values, stalu : BOOLEAN, store : BOOLEAN, branch : BOOLEAN,
     pending : SUBSET IRQ, timer : 0 .. MAX_TIMER,
     wait : BOOLEAN, wait_2 : BOOLEAN, pcpi : BOOLEAN, waitirq : BOOLEAN]

\* What the bus answers is made of parcels.
LEMMA WordParcels ==
    ASSUME NEW w \in WordAddr, NEW d \in Words(w)
    PROVE  d.lo \in Parcel /\ d.hi \in Parcel
<1>1. LoAddr(w) \in HalfAddr \cup {NoAddr} /\ HiAddr(w) \in HalfAddr \cup {NoAddr}
  BY WordsAssumption DEF LoAddr, HiAddr, HalfAddr, NoAddr, WordAddr
<1>2. Longs \subseteq BOOLEAN
  BY DEF Longs
<1> QED BY <1>1, <1>2 DEF Words, Parcel

LEMMA InputsOK ==
    ASSUME MemTypeOK, NEW i \in Inputs
    PROVE  InputOK(i)
<1>1. PICK r \in Ready : \E d \in ReadData(r), q \in SUBSET EXT_IRQ, p \in PcpiInputs :
            i = [mem_ready |-> r, lo |-> d.lo, hi |-> d.hi, irq |-> q, pcpi |-> p]
  BY DEF Inputs
<1>2. PICK d \in ReadData(r), q \in SUBSET EXT_IRQ, p \in PcpiInputs :
            i = [mem_ready |-> r, lo |-> d.lo, hi |-> d.hi, irq |-> q, pcpi |-> p]
  BY <1>1
<1>3. r \in BOOLEAN
  BY DEF Ready
<1>4. d.lo \in Parcel /\ d.hi \in Parcel
  <2>1. CASE r /\ mem_instr
    BY <2>1, WordParcels DEF ReadData, MemTypeOK
  <2>2. CASE ~(r /\ mem_instr) /\ mem_la_use_prefetched_high_word /\ mem_do_rinst
    <3>1. NoWord \in WordAddr
      BY WordsAssumption DEF NoWord, WordAddr
    <3> QED BY <2>2, <3>1, WordParcels DEF ReadData
  <2>3. CASE ~(r /\ mem_instr) /\ ~(mem_la_use_prefetched_high_word /\ mem_do_rinst)
    <3>1. d = [lo |-> Junk, hi |-> Junk]
      BY <2>3 DEF ReadData
    <3>2. Junk \in Parcel
      BY DEF Junk, Parcel
    <3> QED BY <3>1, <3>2
  <2> QED BY <2>1, <2>2, <2>3
<1>5. p.ready \in BOOLEAN /\ p.wait \in BOOLEAN /\ p.wr \in BOOLEAN
  <2>1. PCPI_WAITS \in BOOLEAN
    BY ParamAssumption
  <2>2. CASE pcpi_valid
    BY <2>1, <2>2 DEF PcpiInputs
  <2>3. CASE ~pcpi_valid
    <3>1. p \in {[ready |-> FALSE, wait |-> FALSE, wr |-> FALSE]}
      BY <2>3, Zenon DEF PcpiInputs
    <3>2. p = [ready |-> FALSE, wait |-> FALSE, wr |-> FALSE]
      BY <3>1
    <3>3. p.ready = FALSE /\ p.wait = FALSE /\ p.wr = FALSE
      BY <3>2
    <3> QED BY <3>3
  <2> QED BY <2>2, <2>3
<1> QED BY <1>2, <1>3, <1>4, <1>5 DEF InputOK

-----------------------------------------------------------------------------
(* The memory interface                                                    *)

LEMMA ModuloRange ==
    ASSUME NEW a \in Nat, NEW b \in Nat \ {0}
    PROVE  a % b \in 0 .. b - 1
OBVIOUS

\* Address arithmetic stays within the address space.
LEMMA AddressTypes ==
    ASSUME NEW a
    PROVE  /\ \A n \in {1, 2} : Plus(a, n) \in HalfAddr \cup {NoAddr}
           /\ WordOf(a) \in WordAddr
           /\ \A w \in WordAddr : NextWord(w) \in WordAddr
<1>1. ASSUME NEW n \in {1, 2} PROVE Plus(a, n) \in HalfAddr \cup {NoAddr}
  <2>1. CASE a \in HalfAddr
    <3>1. a + n \in Nat /\ 2*WORDS \in Nat \ {0}
      BY <2>1, WordsAssumption DEF HalfAddr
    <3>2. (a + n) % (2*WORDS) \in 0 .. 2*WORDS - 1
      BY <3>1, ModuloRange
    <3> QED BY <2>1, <3>2 DEF Plus, HalfAddr
  <2> QED BY <2>1 DEF Plus
<1>2. WordOf(a) \in WordAddr
  BY WordsAssumption DEF WordOf, WordAddr, HalfAddr, NoWord
<1>3. ASSUME NEW w \in WordAddr PROVE NextWord(w) \in WordAddr
  <2>1. CASE w < WORDS
    <3>1. (w + 1) % WORDS \in 0 .. WORDS - 1
      BY WordsAssumption, ModuloRange DEF WordAddr
    <3> QED BY <2>1, <3>1, WordsAssumption DEF NextWord, WordAddr
  <2>2. CASE ~(w < WORDS)
    BY <2>2, WordsAssumption DEF NextWord, NoWord, WordAddr
  <2> QED BY <2>1, <2>2
<1> QED BY <1>1, <1>2, <1>3

LEMMA LatchedParcel ==
    ASSUME MemTypeOK, NEW i, InputOK(i)
    PROVE  mem_rdata_latched(i) \in Parcel
<1>1. \A lo, hi \in Parcel : Join(lo, hi) \in Parcel /\ Alone(lo) \in Parcel
  BY DEF Join, Alone, Parcel
<1>2. Unknown \in Parcel
  BY DEF Unknown, Parcel
<1> QED BY <1>1, <1>2 DEF mem_rdata_latched, MemTypeOK, InputOK

LEMMA MemTypes ==
    ASSUME MemTypeOK, NEW i, InputOK(i), MemStep(i) \/ MemReset(i)
    PROVE  MemTypeOK'
<1>1. mem_rdata_latched(i) \in Parcel
  BY LatchedParcel
<1>2. mem_la_addr(i) \in WordAddr
  BY AddressTypes, WordsAssumption DEF mem_la_addr, DataWord, WordAddr
<1>3. CASE MemReset(i)
  <2>1. mem_rdata_q' \in Parcel /\ mem_16bit_buffer' \in Parcel /\ mem_addr' \in WordAddr
    BY <1>1, <1>3 DEF MemReset, MemTypeOK
  <2>2. clear_prefetched_high_word_q' \in BOOLEAN
    BY <1>3, CompressedAssumption DEF MemReset
  <2>3. mem_state' \in 0 .. 3 /\ mem_instr' \in BOOLEAN /\ mem_wstrb' \in BOOLEAN
    BY <1>3 DEF MemReset, MemTypeOK
  <2>4. /\ mem_valid' \in BOOLEAN /\ mem_la_secondword' \in BOOLEAN /\ last_mem_valid' \in BOOLEAN
        /\ mem_la_firstword_reg' \in BOOLEAN /\ prefetched_high_word' \in BOOLEAN
        /\ last_mem_la_read' \in BOOLEAN /\ last_mem_la_write' \in BOOLEAN
    BY <1>3 DEF MemReset
  <2> QED BY <2>1, <2>2, <2>3, <2>4 DEF MemTypeOK
<1>4. CASE MemStep(i)
  <2>1. /\ mem_la_firstword_reg' \in BOOLEAN /\ last_mem_valid' \in BOOLEAN
        /\ mem_rdata_q' \in Parcel /\ clear_prefetched_high_word_q' \in BOOLEAN
        /\ last_mem_la_read' \in BOOLEAN /\ last_mem_la_write' \in BOOLEAN
    BY <1>1, <1>4 DEF MemStep, MemRegs, MemTypeOK, mem_la_firstword, clear_prefetched_high_word,
       mem_la_read, mem_la_write
  <2>2. mem_addr' \in WordAddr /\ mem_wstrb' \in BOOLEAN
    BY <1>2, <1>4 DEF MemStep, MemRequest, MemTrapped, MemTypeOK
  <2>3. /\ mem_valid' \in BOOLEAN /\ mem_instr' \in BOOLEAN /\ mem_state' \in 0 .. 3
        /\ mem_la_secondword' \in BOOLEAN /\ prefetched_high_word' \in BOOLEAN
        /\ mem_16bit_buffer' \in Parcel
    <3> USE DEF Prefetched, MemTypeOK
    <3>1. CASE MemTrapped(i)
      BY <3>1 DEF MemTrapped
    <3>2. CASE MemIdle(i)
      BY <3>2 DEF MemIdle
    <3>3. CASE MemStartRead(i)
      BY <3>3 DEF MemStartRead, Fetching
    <3>4. CASE MemStartWrite(i)
      <4>1. mem_state' \in 0 .. 3 /\ mem_16bit_buffer' \in Parcel
        BY <3>4 DEF MemStartWrite
      <4>2. /\ mem_valid' \in BOOLEAN /\ mem_instr' \in BOOLEAN
            /\ mem_la_secondword' \in BOOLEAN /\ prefetched_high_word' \in BOOLEAN
        BY <3>4 DEF MemStartWrite
      <4> QED BY <4>1, <4>2
    <3>5. CASE MemWait(i)
      BY <3>5 DEF MemWait
    <3>6. CASE MemSecondWord(i)
      BY <3>6 DEF MemSecondWord, InputOK
    <3>7. CASE MemReadDone(i)
      <4>1. mem_state' \in 0 .. 3 /\ mem_16bit_buffer' \in Parcel
        BY <3>7 DEF MemReadDone, InputOK
      <4>2. /\ mem_valid' \in BOOLEAN /\ mem_instr' \in BOOLEAN
            /\ mem_la_secondword' \in BOOLEAN /\ prefetched_high_word' \in BOOLEAN
        BY <3>7 DEF MemReadDone, InputOK
      <4> QED BY <4>1, <4>2
    <3>8. CASE MemWriteDone(i)
      <4>1. mem_state' \in 0 .. 3 /\ mem_16bit_buffer' \in Parcel
        BY <3>8 DEF MemWriteDone
      <4>2. /\ mem_valid' \in BOOLEAN /\ mem_instr' \in BOOLEAN
            /\ mem_la_secondword' \in BOOLEAN /\ prefetched_high_word' \in BOOLEAN
        BY <3>8 DEF MemWriteDone
      <4> QED BY <4>1, <4>2
    <3>9. CASE MemHeld
      BY <3>9 DEF MemHeld
    <3> QED
      BY <1>4, <3>1, <3>2, <3>3, <3>4, <3>5, <3>6, <3>7, <3>8, <3>9 DEF MemStep
  <2> QED BY <2>1, <2>2, <2>3 DEF MemTypeOK
<1> QED BY <1>3, <1>4

-----------------------------------------------------------------------------
(* The decoder                                                             *)

\* The arguments of every class lie within the bounds of the model.
LEMMA ArgTypes ==
    ASSUME NEW op \in Stage1Ops \cup Stage2Ops
    PROVE  Args(op) \subseteq 0 .. MaxArg
<1>1. Targets \subseteq 0 .. MaxArg /\ NotTaken \in 0 .. MaxArg
  BY WordsAssumption, ParamAssumption DEF MaxArg, NotTaken, NoAddr, HalfAddr
<1>2. {0, 1} \subseteq 0 .. MaxArg /\ 0 .. MAX_SHIFT \subseteq 0 .. MaxArg /\ 0 .. MAX_TIMER \subseteq 0 .. MaxArg
  BY WordsAssumption, ParamAssumption DEF MaxArg
<1> QED BY <1>1, <1>2 DEF Args

LEMMA Stage1Types ==
    ASSUME NEW p \in Parcel, NEW d \in Stage1(p)
    PROVE  d \in Insn /\ (d.op = "jal" => d.arg \in Targets)
<1>1. PICK o \in Stage1Ops \cup Stage2Ops :
        d \in [at : {p.at}, long : {p.long}, op : {IF o \in Stage1Ops THEN o ELSE "other"},
               arg : IF o = "jal" THEN Args(o) ELSE {0}]
  BY OpsAssumption DEF Stage1
<1>2. Args("jal") = Targets /\ Targets \subseteq 0 .. MaxArg
  BY ArgTypes DEF Args, Stage1Ops
<1>3. 0 \in 0 .. MaxArg
  BY WordsAssumption, ParamAssumption DEF MaxArg
<1>4. p.at \in HalfAddr \cup {NoAddr} /\ p.long \in BOOLEAN
  BY DEF Parcel
<1>5. d.op = "jal" => o = "jal"
  BY <1>1
<1> QED BY <1>1, <1>2, <1>3, <1>4, <1>5 DEF Insn

LEMMA Stage2Types ==
    ASSUME DecoderTypeOK, NEW d \in Stage2(dec)
    PROVE  d \in Insn /\ (d.op # "other" => d.arg \in Args(d.op))
<1> DEFINE t == IF mem_rdata_q.at = dec.at THEN dec.at ELSE NoAddr
<1>1. dec.at \in HalfAddr \cup {NoAddr} /\ dec.op \in Stage1Ops \cup Stage2Ops \cup {"other"}
      /\ dec.long \in BOOLEAN
  BY DEF DecoderTypeOK, Insn
<1>2. PICK o \in Stage1Ops \cup Stage2Ops :
        /\ d \in [at : {t}, long : {dec.long}, op : {o}, arg : IF o = "jal" THEN {dec.arg} ELSE Args(o)]
        /\ o = "jal" => dec.op = "jal"
  BY <1>1 DEF Stage2, Stage2Ops
<1>3. t \in HalfAddr \cup {NoAddr}
  BY <1>1
<1>4. (IF o = "jal" THEN {dec.arg} ELSE Args(o)) \subseteq Args(o)
  <2>1. Args("jal") = Targets
    BY DEF Args
  <2> QED BY <1>2, <2>1 DEF DecoderTypeOK
<1>5. Args(o) \subseteq 0 .. MaxArg
  BY ArgTypes
<1> HIDE DEF t
<1> QED BY <1>1, <1>2, <1>3, <1>4, <1>5 DEF Insn

-----------------------------------------------------------------------------
(* What every cycle does                                                   *)

\* The registers Finish assigns, and those the branches assign themselves.
CommonOK ==
    /\ cpu_state \in States /\ trap \in BOOLEAN /\ reg_out \in Values
    /\ latched_store \in BOOLEAN /\ latched_stalu \in BOOLEAN /\ latched_branch \in BOOLEAN
    /\ alu_wait \in BOOLEAN /\ alu_wait_2 \in BOOLEAN /\ alu_add_sub \in BOOLEAN
    /\ alu_out_0_q \in BOOLEAN /\ alu_out_q \in Values
    /\ pcpi_valid \in BOOLEAN /\ pcpi_timeout \in BOOLEAN
    /\ pcpi_timeout_counter \in 0 .. PCPI_TIMEOUT
    /\ irq_pending \subseteq IRQ /\ timer \in 0 .. MAX_TIMER /\ do_waitirq \in BOOLEAN
BranchOK ==
    /\ reg_pc \in Values /\ reg_next_pc \in Values
    /\ latched_compr \in BOOLEAN /\ latched_rd \in Rd /\ latched_is \in HalfAddr \cup {NoAddr}
    /\ reg_sh \in 0 .. MAX_SHIFT /\ misaligned \in BOOLEAN
    /\ irq_mask \subseteq IRQ /\ eoi \subseteq IRQ /\ irq_active \in BOOLEAN
    /\ irq_delay \in BOOLEAN /\ irq_state \in 0 .. 2 /\ q0 \in [at : Values, lsb : BOOLEAN]

LEMMA TypeParts ==
    TypeOK <=> MemTypeOK /\ RequestTypeOK /\ CommonOK /\ BranchOK /\ DecoderTypeOK /\ HistTypeOK
BY DEF TypeOK, StateTypeOK, IrqTypeOK, CommonOK, BranchOK

LEMMA DefaultResult ==
    ASSUME TypeOK, NEW i, InputOK(i)
    PROVE  Default(i) \in Result /\ Fetched(i) \in Result
<1>1. Default(i) \in Result
  <2>1. (IF timer = 0 THEN 0 ELSE timer - 1) \in 0 .. MAX_TIMER
    BY ParamAssumption DEF TypeOK, IrqTypeOK
  <2>2. irq_pending \cap LATCHED_IRQ \in SUBSET IRQ
    BY DEF TypeOK, IrqTypeOK
  <2>3. NoAddr \in Values
    BY DEF Values
  <2> HIDE DEF Values, States, IRQ
  <2> QED BY <2>1, <2>2, <2>3 DEF Default, Result, TypeOK, StateTypeOK, RequestTypeOK
<1>2. Fetched(i) \in Result
  BY <1>1 DEF Fetched, Result
<1> QED BY <1>1, <1>2

LEMMA IrqNumbers == IRQ \subseteq IRQ /\ EXT_IRQ \subseteq IRQ /\ {irq_timer, irq_ebreak, irq_buserror} \subseteq IRQ
BY DEF IRQ

LEMMA FinishTypes ==
    ASSUME TypeOK, NEW i, InputOK(i), NEW r \in Result, Finish(i, r)
    PROVE  RequestTypeOK' /\ CommonOK' /\ DecoderTypeOK'
<1>1. RequestTypeOK'
  BY DEF Finish, Requests, RequestTypeOK
<1>2. CommonOK'
  <2>1. cpu_state' \in States /\ trap' \in BOOLEAN /\ reg_out' \in Values
    <3>1. r.cpu_state \in States /\ "trap" \in States /\ r.reg_out \in Values
      BY DEF Result, States
    <3> QED BY <3>1 DEF Finish
  <2>2. /\ latched_store' \in BOOLEAN /\ latched_stalu' \in BOOLEAN /\ latched_branch' \in BOOLEAN
        /\ alu_wait' \in BOOLEAN /\ alu_wait_2' \in BOOLEAN
        /\ pcpi_valid' \in BOOLEAN /\ do_waitirq' \in BOOLEAN
    BY DEF Finish, Result
  <2>3. alu_add_sub' \in BOOLEAN /\ alu_out_0_q' \in BOOLEAN
    BY DEF Finish, Alu, AluValid
  <2>4. alu_out_q' \in Values
    <3>1. insn.op = "jalr" => insn.arg \in HalfAddr
      <4>1. insn.op = "jalr" => insn.arg \in Args("jalr")
        BY DEF TypeOK, DecoderTypeOK
      <4>2. Args("jalr") = Targets
        BY DEF Args
      <4> QED BY <4>1, <4>2, ParamAssumption
    <3> QED BY <3>1 DEF Finish, Alu, Values
  <2>5. pcpi_timeout' \in BOOLEAN
    BY DEF Finish, Timeout, TypeOK, StateTypeOK
  <2>6. pcpi_timeout_counter' \in 0 .. PCPI_TIMEOUT
    BY ParamAssumption DEF Finish, Timeout, TypeOK, StateTypeOK
  <2>7. irq_pending' \subseteq IRQ
    <3>1. r.pending \subseteq IRQ /\ i.irq \subseteq IRQ
      BY IrqNumbers DEF Result, InputOK
    <3>2. NextPending(i, r) \subseteq IRQ
      BY <3>1, IrqNumbers DEF NextPending
    <3> QED BY <3>2 DEF Finish
  <2>8. timer' \in 0 .. MAX_TIMER
    BY DEF Finish, Result
  <2> QED BY <2>1, <2>2, <2>3, <2>4, <2>5, <2>6, <2>7, <2>8 DEF CommonOK
<1>3. DecoderTypeOK'
  <2>1. mem_rdata_latched(i) \in Parcel
    BY LatchedParcel DEF TypeOK
  <2>2. dec' \in Insn /\ (dec'.op = "jal" => dec'.arg \in Targets)
    BY <2>1, Stage1Types DEF Finish, Decode, TypeOK, DecoderTypeOK
  <2>3. insn' \in Insn /\ (insn'.op # "other" => insn'.arg \in Args(insn'.op))
    BY Stage2Types DEF Finish, Decode, TypeOK, DecoderTypeOK
  <2>4. decoder_trigger' \in BOOLEAN /\ decoder_pseudo_trigger' \in BOOLEAN
    BY DEF Finish, Result
  <2> QED BY <2>2, <2>3, <2>4 DEF DecoderTypeOK
<1> QED BY <1>1, <1>2, <1>3

-----------------------------------------------------------------------------
(* The branches of the main state machine                                  *)

LEMMA PcTypes ==
    ASSUME TypeOK
    PROVE  /\ current_pc \in Values /\ PcAfter(dec) \in Values
           /\ dec.op = "jal" => JumpTarget(dec) \in Values
           /\ PcPlusImm \in Values /\ dec.at \in Rd /\ insn.at \in HalfAddr \cup {NoAddr}
<1>1. current_pc \in Values
  BY ParamAssumption DEF current_pc, Values, TypeOK, StateTypeOK
<1>2. PcAfter(dec) \in Values
  BY AddressTypes DEF PcAfter, Values
<1>3. dec.op = "jal" => JumpTarget(dec) \in Values
  BY ParamAssumption DEF JumpTarget, Values, TypeOK, DecoderTypeOK
<1>4. PcPlusImm \in Values
  <2>1. insn.op = "branch" => insn.arg \in Targets \cup {NoAddr}
    <3>1. insn.op = "branch" => insn.arg \in Args("branch")
      BY DEF TypeOK, DecoderTypeOK
    <3>2. Args("branch") = Targets \cup {NoAddr}
      BY DEF Args, NotTaken
    <3> QED BY <3>1, <3>2
  <2> QED BY <2>1, ParamAssumption DEF PcPlusImm, Values
<1>5. dec.at \in Rd /\ insn.at \in HalfAddr \cup {NoAddr}
  BY DEF TypeOK, DecoderTypeOK, Insn, Rd
<1> QED BY <1>1, <1>2, <1>3, <1>4, <1>5

LEMMA FetchTypes ==
    ASSUME TypeOK, NEW i, InputOK(i), FetchStep(i)
    PROVE  RequestTypeOK' /\ CommonOK' /\ DecoderTypeOK' /\ BranchOK'
<1>1. Fetched(i) \in Result
  BY DefaultResult
<1>2. /\ current_pc \in Values /\ PcAfter(dec) \in Values /\ dec.at \in Rd
      /\ dec.op = "jal" => JumpTarget(dec) \in Values
  BY PcTypes
<1>3. /\ rd_q0 \in Rd /\ rd_q1 \in Rd /\ 0 \in 0 .. MAX_SHIFT /\ "ld_rs1" \in States
      /\ Value \in Values /\ 1 \in 0 .. 2 /\ 2 \in 0 .. 2 /\ 0 \in 0 .. 2
  BY ParamAssumption DEF Rd, States, Values
<1>4. BranchOK
  BY TypeParts
<1>5. irq_pending \subseteq IRQ /\ dec.long \in BOOLEAN
  BY DEF TypeOK, IrqTypeOK, DecoderTypeOK, Insn
<1>6. /\ reg_pc' \in Values /\ latched_is' \in HalfAddr \cup {NoAddr} /\ reg_sh' \in 0 .. MAX_SHIFT
      /\ misaligned' \in BOOLEAN /\ irq_mask' \subseteq IRQ
  BY <1>2, <1>3, <1>4 DEF FetchStep, FetchInterrupt, FetchSaveReturn, FetchSaveMask, FetchTail,
     FetchWaitirq, LaunchJal, Launch, FetchIdle, FetchHead, BranchOK
<1>7. CASE FetchInterrupt(i)
  <2>1. RequestTypeOK' /\ CommonOK' /\ DecoderTypeOK'
    BY <1>1, <1>7, FinishTypes DEF FetchInterrupt
  <2>2. BranchOK'
    BY <1>2, <1>3, <1>4, <1>6, <1>7 DEF FetchInterrupt, BranchOK
  <2> QED BY <2>1, <2>2
<1>8. CASE FetchSaveReturn(i)
  <2>1. [Fetched(i) EXCEPT !.rinst = TRUE] \in Result
    BY <1>1 DEF Result
  <2>2. RequestTypeOK' /\ CommonOK' /\ DecoderTypeOK'
    BY <1>1, <1>8, <2>1, FinishTypes DEF FetchSaveReturn
  <2>3. q0' \in [at : Values, lsb : BOOLEAN]
    BY <1>4, <1>8 DEF FetchSaveReturn, BranchOK
  <2>4. irq_active' \in BOOLEAN
    BY <1>4, <1>8 DEF FetchSaveReturn, BranchOK
  <2>5. BranchOK'
    BY <1>2, <1>3, <1>4, <1>6, <1>8, <2>3, <2>4 DEF FetchSaveReturn, BranchOK
  <2> QED BY <2>2, <2>5
<1>9. CASE FetchSaveMask(i)
  <2>1. [Fetched(i) EXCEPT !.pending = @ \cap irq_mask] \in Result
    BY <1>1 DEF Result
  <2>2. RequestTypeOK' /\ CommonOK' /\ DecoderTypeOK'
    BY <1>1, <1>9, <2>1, FinishTypes DEF FetchSaveMask
  <2>3. BranchOK'
    BY <1>2, <1>3, <1>4, <1>5, <1>6, <1>9 DEF FetchSaveMask, BranchOK
  <2> QED BY <2>2, <2>3
<1>10. CASE FetchTail /\ (FetchWaitirq(i) \/ LaunchJal(i) \/ Launch(i) \/ FetchIdle(i))
  <2>1. /\ latched_rd' \in Rd /\ latched_compr' \in BOOLEAN /\ eoi' \subseteq IRQ
        /\ irq_active' \in BOOLEAN /\ irq_state' \in 0 .. 2 /\ q0' \in [at : Values, lsb : BOOLEAN]
    BY <1>2, <1>4, <1>10 DEF FetchTail, BranchOK
  <2>2. reg_next_pc' \in Values
    BY <1>2, <1>10 DEF FetchWaitirq, LaunchJal, Launch, FetchIdle
  <2>3. irq_delay' \in BOOLEAN
    BY <1>4, <1>10 DEF FetchWaitirq, LaunchJal, Launch, FetchIdle, BranchOK
  <2>4. BranchOK'
    BY <1>6, <2>1, <2>2, <2>3 DEF BranchOK
  <2>5. /\ [Fetched(i) EXCEPT !.store = TRUE, !.reg_out = Value, !.rinst = TRUE] \in Result
        /\ [Fetched(i) EXCEPT !.waitirq = TRUE] \in Result
        /\ [Fetched(i) EXCEPT !.branch = TRUE, !.rinst = TRUE] \in Result
        /\ [Fetched(i) EXCEPT !.cpu_state = "ld_rs1", !.rinst = FALSE,
                              !.prefetch = dec.op \notin {"jalr", "retirq"}] \in Result
    BY <1>1, <1>3 DEF Result
  <2>6. RequestTypeOK' /\ CommonOK' /\ DecoderTypeOK'
    BY <1>1, <1>10, <2>5, FinishTypes DEF FetchWaitirq, LaunchJal, Launch, FetchIdle
  <2> QED BY <2>4, <2>6
<1> QED
  BY <1>7, <1>8, <1>9, <1>10 DEF FetchStep, FetchWaitirq, LaunchJal, Launch, FetchIdle

LEMMA ExecuteResults ==
    ASSUME TypeOK, NEW i, InputOK(i)
    PROVE  /\ \A r \in Result : Raise(i, r) \in Result
           /\ PcpiCycle(i) \in Result
           /\ \A b \in BOOLEAN : ToExec(i, Default(i), b) \in Result
<1>1. Default(i) \in Result
  BY DefaultResult
<1>2. ASSUME NEW r \in Result PROVE Raise(i, r) \in Result
  <2>1. "fetch" \in States /\ "trap" \in States /\ irq_ebreak \in IRQ
    BY IrqNumbers DEF States
  <2>2. r.pending \cup {irq_ebreak} \in SUBSET IRQ
    BY <2>1 DEF Result
  <2> QED BY <2>1, <2>2 DEF Raise, Result
<1>3. PcpiCycle(i) \in Result
  <2>1. "fetch" \in States /\ Value \in Values /\ i.pcpi.wr \in BOOLEAN
    BY DEF States, Values, InputOK
  <2>2. /\ [Default(i) EXCEPT !.pcpi = FALSE, !.cpu_state = "fetch", !.rinst = TRUE,
                              !.reg_out = Value, !.store = i.pcpi.wr] \in Result
        /\ [Default(i) EXCEPT !.pcpi = FALSE] \in Result
        /\ [Default(i) EXCEPT !.pcpi = TRUE] \in Result
    BY <1>1, <2>1 DEF Result
  <2> QED BY <1>2, <2>2 DEF PcpiCycle
<1>4. ASSUME NEW b \in BOOLEAN PROVE ToExec(i, Default(i), b) \in Result
  <2>1. mem_do_prefetch \in BOOLEAN /\ "exec" \in States
    BY DEF TypeOK, RequestTypeOK, States
  <2> QED BY <1>1, <2>1, ZenonT(30) DEF ToExec, Result
<1> QED BY <1>2, <1>3, <1>4

LEMMA OperandTypes ==
    ASSUME TypeOK, NEW i, InputOK(i), Operands(i)
    PROVE  RequestTypeOK' /\ CommonOK' /\ DecoderTypeOK' /\ reg_sh' \in 0 .. MAX_SHIFT
<1>1. Default(i) \in Result /\ ToExec(i, Default(i), dec.op = "branch") \in Result
  BY DefaultResult, ExecuteResults
<1>2. "stmem" \in States /\ "shift" \in States
  BY DEF States
<1>3. /\ [Default(i) EXCEPT !.cpu_state = "stmem", !.rinst = TRUE] \in Result
      /\ [Default(i) EXCEPT !.cpu_state = "shift"] \in Result
  BY <1>1, <1>2 DEF Result
<1>4. RequestTypeOK' /\ CommonOK' /\ DecoderTypeOK'
  BY <1>1, <1>3, FinishTypes DEF Operands
<1>5. reg_sh' \in 0 .. MAX_SHIFT
  <2>1. insn.op = "sll" => insn.arg \in Args("sll")
    BY DEF TypeOK, DecoderTypeOK
  <2>2. Args("sll") = 0 .. MAX_SHIFT
    BY DEF Args
  <2> QED BY <2>1, <2>2, ParamAssumption DEF Operands
<1> QED BY <1>4, <1>5

LEMMA LdRs1Types ==
    ASSUME TypeOK, NEW i, InputOK(i), LdRs1Step(i)
    PROVE  RequestTypeOK' /\ CommonOK' /\ DecoderTypeOK' /\ BranchOK'
<1>1. Default(i) \in Result
  BY DefaultResult
<1>2. BranchOK
  BY TypeParts
<1>3. /\ reg_pc' \in Values /\ reg_next_pc' \in Values /\ latched_compr' \in BOOLEAN
      /\ irq_delay' \in BOOLEAN /\ irq_state' \in 0 .. 2 /\ q0' \in [at : Values, lsb : BOOLEAN]
      /\ latched_is' \in HalfAddr \cup {NoAddr} /\ misaligned' \in BOOLEAN /\ latched_rd' \in Rd
  BY <1>2 DEF LdRs1Step, LdRs1Trap, LdRs1Move, LdRs1Retirq, LdRs1Maskirq, LdRs1Timer,
     LdRs1Load, LdRs1ShiftImm, LdRs1Imm, LdRs1Rs2, LdRs1, KeepFetch, KeepData, KeepRd, BranchOK
<1>4. 0 \in 0 .. MAX_SHIFT
  BY ParamAssumption
<1>5. /\ {"fetch", "ldmem", "shift", "ld_rs2"} \subseteq States
      /\ Value \in Values /\ q0.at \in Values
  BY <1>2 DEF States, Values, BranchOK
<1>6. CASE LdRs1Trap(i)
  <2>1. [Default(i) EXCEPT !.cpu_state = "ld_rs2"] \in Result
    BY <1>1, <1>5 DEF Result
  <2>2. RequestTypeOK' /\ CommonOK' /\ DecoderTypeOK'
    BY <1>1, <1>6, <2>1, ExecuteResults, FinishTypes DEF LdRs1Trap
  <2>3. BranchOK'
    BY <1>2, <1>3, <1>4, <1>6 DEF LdRs1Trap, KeepIrq, BranchOK
  <2> QED BY <2>2, <2>3
<1>7. CASE LdRs1Move(i)
  <2>1. [Default(i) EXCEPT !.cpu_state = "fetch", !.store = TRUE, !.reg_out = Value] \in Result
    BY <1>1, <1>5 DEF Result
  <2>2. RequestTypeOK' /\ CommonOK' /\ DecoderTypeOK'
    BY <1>7, <2>1, FinishTypes DEF LdRs1Move
  <2>3. BranchOK'
    BY <1>2, <1>3, <1>4, <1>7 DEF LdRs1Move, KeepIrq, BranchOK
  <2> QED BY <2>2, <2>3
<1>8. CASE LdRs1Retirq(i)
  <2>1. [Default(i) EXCEPT !.cpu_state = "fetch", !.store = TRUE, !.branch = TRUE,
                           !.reg_out = q0.at] \in Result
    BY <1>1, <1>5 DEF Result
  <2>2. RequestTypeOK' /\ CommonOK' /\ DecoderTypeOK'
    BY <1>8, <2>1, FinishTypes DEF LdRs1Retirq
  <2>3. BranchOK'
    BY <1>2, <1>3, <1>4, <1>8 DEF LdRs1Retirq, BranchOK
  <2> QED BY <2>2, <2>3
<1>9. CASE LdRs1Maskirq(i)
  <2>1. [Default(i) EXCEPT !.cpu_state = "fetch", !.store = TRUE, !.reg_out = Value] \in Result
    BY <1>1, <1>5 DEF Result
  <2>2. RequestTypeOK' /\ CommonOK' /\ DecoderTypeOK'
    BY <1>9, <2>1, FinishTypes DEF LdRs1Maskirq
  <2>3. irq_mask' \subseteq IRQ
    <3>1. PICK m \in IRQ_MASKS : irq_mask' = m \cup MASKED_IRQ
      BY <1>9 DEF LdRs1Maskirq
    <3> QED BY <3>1, IrqAssumption
  <2>4. BranchOK'
    BY <1>2, <1>3, <1>4, <1>9, <2>3 DEF LdRs1Maskirq, BranchOK
  <2> QED BY <2>2, <2>4
<1>10. CASE LdRs1Timer(i)
  <2>1. insn.arg \in 0 .. MAX_TIMER
    <3>1. insn.arg \in Args("timer")
      BY <1>10 DEF LdRs1Timer, TypeOK, DecoderTypeOK
    <3>2. Args("timer") = 0 .. MAX_TIMER
      BY DEF Args
    <3> QED BY <3>1, <3>2
  <2>2. [Default(i) EXCEPT !.cpu_state = "fetch", !.store = TRUE, !.reg_out = Value,
                           !.timer = insn.arg] \in Result
    BY <1>1, <1>5, <2>1 DEF Result
  <2>3. RequestTypeOK' /\ CommonOK' /\ DecoderTypeOK'
    BY <1>10, <2>2, FinishTypes DEF LdRs1Timer
  <2>4. BranchOK'
    BY <1>2, <1>3, <1>4, <1>10 DEF LdRs1Timer, KeepIrq, BranchOK
  <2> QED BY <2>3, <2>4
<1>11. CASE LdRs1Load(i)
  <2>1. [Default(i) EXCEPT !.cpu_state = "ldmem", !.rinst = TRUE] \in Result
    BY <1>1, <1>5 DEF Result
  <2>2. RequestTypeOK' /\ CommonOK' /\ DecoderTypeOK'
    BY <1>11, <2>1, FinishTypes DEF LdRs1Load
  <2>3. BranchOK'
    BY <1>2, <1>3, <1>4, <1>11 DEF LdRs1Load, KeepIrq, BranchOK
  <2> QED BY <2>2, <2>3
<1>12. CASE LdRs1ShiftImm(i)
  <2>1. [Default(i) EXCEPT !.cpu_state = "shift"] \in Result
    BY <1>1, <1>5 DEF Result
  <2>2. RequestTypeOK' /\ CommonOK' /\ DecoderTypeOK'
    BY <1>12, <2>1, FinishTypes DEF LdRs1ShiftImm
  <2>3. reg_sh' \in 0 .. MAX_SHIFT
    <3>1. insn.arg \in Args("slli")
      BY <1>12 DEF LdRs1ShiftImm, TypeOK, DecoderTypeOK
    <3>2. Args("slli") = 0 .. MAX_SHIFT
      BY DEF Args
    <3> QED BY <1>12, <3>1, <3>2 DEF LdRs1ShiftImm
  <2>4. BranchOK'
    BY <1>2, <1>3, <1>12, <2>3 DEF LdRs1ShiftImm, KeepIrq, BranchOK
  <2> QED BY <2>2, <2>4
<1>13. CASE LdRs1Imm(i)
  <2>1. RequestTypeOK' /\ CommonOK' /\ DecoderTypeOK'
    BY <1>13, ExecuteResults, FinishTypes DEF LdRs1Imm
  <2>2. BranchOK'
    BY <1>2, <1>3, <1>4, <1>13 DEF LdRs1Imm, KeepIrq, BranchOK
  <2> QED BY <2>1, <2>2
<1>14. CASE LdRs1Rs2(i)
  <2>1. CASE ENABLE_REGS_DUALPORT
    <3>1. Operands(i)
      BY <1>14, <2>1 DEF LdRs1Rs2
    <3>2. KeepIrq
      BY <3>1 DEF Operands
    <3>3. BranchOK'
      BY <1>2, <1>3, <3>1, <3>2, OperandTypes DEF KeepIrq, BranchOK
    <3> QED BY <3>1, <3>3, OperandTypes
  <2>2. CASE ~ENABLE_REGS_DUALPORT
    <3>1. [Default(i) EXCEPT !.cpu_state = "ld_rs2"] \in Result
      BY <1>1, <1>5 DEF Result
    <3>2. RequestTypeOK' /\ CommonOK' /\ DecoderTypeOK'
      BY <1>14, <2>2, <3>1, FinishTypes DEF LdRs1Rs2
    <3>3. BranchOK'
      BY <1>2, <1>3, <1>4, <1>14, <2>2 DEF LdRs1Rs2, KeepIrq, BranchOK
    <3> QED BY <3>2, <3>3
  <2> QED BY <2>1, <2>2
<1> QED
  BY <1>6, <1>7, <1>8, <1>9, <1>10, <1>11, <1>12, <1>13, <1>14 DEF LdRs1Step

LEMMA LateTypes ==
    ASSUME TypeOK, NEW i, InputOK(i), ExecuteStep(i), ~LdRs1Step(i)
    PROVE  RequestTypeOK' /\ CommonOK' /\ DecoderTypeOK' /\ BranchOK'
<1>1. Default(i) \in Result
  BY DefaultResult
<1>2. BranchOK
  BY TypeParts
<1>3. /\ reg_pc' \in Values /\ reg_next_pc' \in Values /\ latched_compr' \in BOOLEAN
      /\ irq_delay' \in BOOLEAN /\ irq_state' \in 0 .. 2 /\ q0' \in [at : Values, lsb : BOOLEAN]
  BY <1>2 DEF ExecuteStep, LdRs2Trap, LdRs2Operands, LdRs2, ExecWait, ExecBranch, ExecAlu, Exec,
     Shift, StMem, LdMem, DataState, Trapped, KeepFetch, BranchOK
<1>4. irq_mask' \subseteq IRQ /\ eoi' \subseteq IRQ /\ irq_active' \in BOOLEAN
  BY <1>2 DEF ExecuteStep, LdRs2Trap, LdRs2Operands, Operands, LdRs2, ExecWait, ExecBranch, ExecAlu,
     Exec, Shift, StMem, LdMem, DataState, Trapped, KeepIrq, BranchOK
<1>5. /\ {"fetch", "exec"} \subseteq States /\ Value \in Values /\ NoAddr \in Values
      /\ PcPlusImm \in Values /\ mem_do_prefetch \in BOOLEAN /\ rd_zero \in Rd
      /\ 0 \in 0 .. MAX_SHIFT
  BY PcTypes, ParamAssumption DEF States, Values, TypeOK, RequestTypeOK, Rd
<1>6. CASE LdRs2Trap(i)
  <2>1. RequestTypeOK' /\ CommonOK' /\ DecoderTypeOK'
    BY <1>6, ExecuteResults, FinishTypes DEF LdRs2Trap
  <2>2. BranchOK'
    BY <1>2, <1>3, <1>4, <1>5, <1>6 DEF LdRs2Trap, LdRs2, KeepData, KeepRd, BranchOK
  <2> QED BY <2>1, <2>2
<1>7. CASE LdRs2Operands(i)
  <2>1. Operands(i)
    BY <1>7 DEF LdRs2Operands
  <2>2. BranchOK'
    BY <1>2, <1>3, <1>4, <1>7, <2>1, OperandTypes DEF LdRs2Operands, LdRs2, KeepData, KeepRd, BranchOK
  <2> QED BY <2>1, <2>2, OperandTypes
<1>8. CASE ExecWait(i)
  <2>1. [Default(i) EXCEPT !.rinst = mem_do_prefetch /\ ~alu_wait_2,
                           !.wait = alu_wait_2, !.reg_out = PcPlusImm] \in Result
    BY <1>1, <1>5 DEF Result, TypeOK, StateTypeOK
  <2>2. RequestTypeOK' /\ CommonOK' /\ DecoderTypeOK'
    BY <1>8, <2>1, FinishTypes DEF ExecWait
  <2>3. BranchOK'
    BY <1>2, <1>3, <1>4, <1>5, <1>8 DEF ExecWait, Exec, KeepData, KeepRd, BranchOK
  <2> QED BY <2>2, <2>3
<1>9. CASE ExecBranch(i)
  <2>1. ASSUME NEW taken \in BOOLEAN
        PROVE  [Default(i) EXCEPT
             !.store = taken, !.branch = taken, !.reg_out = PcPlusImm,
             !.cpu_state = IF mem_done(i) THEN "fetch" ELSE "exec",
             !.trigger = @ /\ ~taken,
             !.set = IF taken THEN "rinst" ELSE "none"] \in Result
    BY <1>1, <1>5, ZenonT(30) DEF Result
  <2>2. \E taken \in BOOLEAN : Finish(i, [Default(i) EXCEPT
             !.store = taken, !.branch = taken, !.reg_out = PcPlusImm,
             !.cpu_state = IF mem_done(i) THEN "fetch" ELSE "exec",
             !.trigger = @ /\ ~taken,
             !.set = IF taken THEN "rinst" ELSE "none"])
    BY <1>9 DEF ExecBranch
  <2>3. RequestTypeOK' /\ CommonOK' /\ DecoderTypeOK'
    BY <2>1, <2>2, FinishTypes
  <2>4. BranchOK'
    BY <1>2, <1>3, <1>4, <1>5, <1>9 DEF ExecBranch, Exec, KeepData, BranchOK
  <2> QED BY <2>3, <2>4
<1>10. CASE ExecAlu(i)
  <2>1. [Default(i) EXCEPT !.cpu_state = "fetch", !.store = TRUE, !.stalu = TRUE,
                           !.branch = (dec.op = "jalr"), !.reg_out = PcPlusImm] \in Result
    BY <1>1, <1>5 DEF Result
  <2>2. RequestTypeOK' /\ CommonOK' /\ DecoderTypeOK'
    BY <1>10, <2>1, FinishTypes DEF ExecAlu
  <2>3. BranchOK'
    BY <1>2, <1>3, <1>4, <1>5, <1>10 DEF ExecAlu, Exec, KeepData, KeepRd, BranchOK
  <2> QED BY <2>2, <2>3
<1>11. CASE Shift(i)
  <2>1. /\ [Default(i) EXCEPT !.store = TRUE, !.reg_out = Value, !.cpu_state = "fetch",
                              !.rinst = mem_do_prefetch] \in Result
        /\ [Default(i) EXCEPT !.store = TRUE] \in Result
    BY <1>1, <1>5 DEF Result
  <2>2. RequestTypeOK' /\ CommonOK' /\ DecoderTypeOK'
    BY <1>11, <2>1, FinishTypes DEF Shift
  <2>3. reg_sh' \in 0 .. MAX_SHIFT
    BY <1>2, <1>11, ParamAssumption DEF Shift, BranchOK
  <2>4. BranchOK'
    BY <1>2, <1>3, <1>4, <1>11, <2>3 DEF Shift, KeepData, KeepRd, BranchOK
  <2> QED BY <2>2, <2>4
<1>12. ASSUME NEW r \in Result PROVE DataDone(i, r) \in Result
  <2>1. [r EXCEPT !.cpu_state = "fetch", !.trigger = TRUE, !.pseudo = TRUE] \in Result
    BY <1>5 DEF Result
  <2> QED BY <2>1 DEF DataDone
<1>13. CASE StMem(i)
  <2>1. [Default(i) EXCEPT !.set = "wdata"] \in Result
    BY <1>1 DEF Result
  <2>2. RequestTypeOK' /\ CommonOK' /\ DecoderTypeOK'
    BY <1>1, <1>12, <1>13, <2>1, FinishTypes DEF StMem
  <2>3. BranchOK'
    BY <1>2, <1>3, <1>4, <1>5, <1>13 DEF StMem, DataState, KeepRd, BranchOK
  <2> QED BY <2>2, <2>3
<1>14. CASE LdMem(i)
  <2>1. /\ [Default(i) EXCEPT !.store = TRUE, !.set = "rdata"] \in Result
        /\ [Default(i) EXCEPT !.store = TRUE,
              !.reg_out = IF Accessed(i) /\ latched_is # NoAddr THEN Value ELSE NoAddr] \in Result
    BY <1>1, <1>5 DEF Result
  <2>2. RequestTypeOK' /\ CommonOK' /\ DecoderTypeOK'
    BY <1>12, <1>14, <2>1, FinishTypes DEF LdMem
  <2>3. latched_is' \in HalfAddr \cup {NoAddr} /\ misaligned' \in BOOLEAN
    BY <1>2, <1>14, PcTypes DEF LdMem, BranchOK
  <2>4. BranchOK'
    BY <1>2, <1>3, <1>4, <1>5, <1>14, <2>3 DEF LdMem, DataState, KeepRd, BranchOK
  <2> QED BY <2>2, <2>4
<1>15. CASE Trapped(i)
  <2>1. RequestTypeOK' /\ CommonOK' /\ DecoderTypeOK'
    BY <1>1, <1>15, FinishTypes DEF Trapped
  <2>2. BranchOK'
    BY <1>2, <1>3, <1>4, <1>5, <1>15 DEF Trapped, KeepData, KeepRd, BranchOK
  <2> QED BY <2>1, <2>2
<1> QED
  BY <1>6, <1>7, <1>8, <1>9, <1>10, <1>11, <1>13, <1>14, <1>15 DEF ExecuteStep

LEMMA ClockTypes ==
    ASSUME TypeOK, NEW i, InputOK(i), Clock(i)
    PROVE  TypeOK'
<1>1. MemTypeOK'
  BY MemTypes DEF TypeOK, Clock
<1>2. RequestTypeOK' /\ CommonOK' /\ DecoderTypeOK' /\ BranchOK'
  BY FetchTypes, LdRs1Types, LateTypes DEF Clock, ExecuteStep
<1>3. HistTypeOK'
  BY <1>2 DEF Clock, History, HistTypeOK, DecoderTypeOK, TypeOK
<1> QED BY <1>1, <1>2, <1>3 DEF TypeOK, StateTypeOK, IrqTypeOK, CommonOK, BranchOK

LEMMA AluTypes ==
    ASSUME TypeOK, Alu
    PROVE  alu_add_sub' \in BOOLEAN /\ alu_out_0_q' \in BOOLEAN /\ alu_out_q' \in Values
<1>1. alu_add_sub' \in BOOLEAN /\ alu_out_0_q' \in BOOLEAN
  BY DEF Alu, AluValid
<1>2. insn.op = "jalr" => insn.arg \in HalfAddr
  <2>1. insn.op = "jalr" => insn.arg \in Args("jalr")
    BY DEF TypeOK, DecoderTypeOK
  <2>2. Args("jalr") = Targets
    BY DEF Args
  <2> QED BY <2>1, <2>2, ParamAssumption
<1>3. alu_out_q' \in Values
  BY <1>2 DEF Alu, Values
<1> QED BY <1>1, <1>3

LEMMA ResetTypes ==
    ASSUME TypeOK, NEW i, InputOK(i), Reset(i)
    PROVE  TypeOK'
<1>1. MemTypeOK'
  BY MemTypes DEF TypeOK, Reset
<1>2. RequestTypeOK'
  BY DEF Reset, ResetState, RequestTypeOK
<1>3. CommonOK'
  <2>1. cpu_state' \in States /\ trap' \in BOOLEAN /\ reg_out' \in Values
    BY DEF Reset, ResetState, States, Values
  <2>2. /\ latched_store' \in BOOLEAN /\ latched_stalu' \in BOOLEAN /\ latched_branch' \in BOOLEAN
        /\ alu_wait' \in BOOLEAN /\ alu_wait_2' \in BOOLEAN
        /\ pcpi_valid' \in BOOLEAN /\ pcpi_timeout' \in BOOLEAN /\ do_waitirq' \in BOOLEAN
    BY ParamAssumption DEF Reset, ResetState
  <2>3. pcpi_timeout_counter' \in 0 .. PCPI_TIMEOUT /\ timer' \in 0 .. MAX_TIMER
    BY ParamAssumption DEF Reset, ResetState
  <2>4. irq_pending' \subseteq IRQ
    BY IrqNumbers DEF Reset, InputOK
  <2>5. alu_add_sub' \in BOOLEAN /\ alu_out_0_q' \in BOOLEAN /\ alu_out_q' \in Values
    BY AluTypes DEF Reset
  <2> QED BY <2>1, <2>2, <2>3, <2>4, <2>5 DEF CommonOK
<1>4. BranchOK'
  <2>1. BranchOK
    BY TypeParts
  <2>2. reg_pc' \in Values /\ reg_next_pc' \in Values /\ rd_sp \in Rd /\ 0 \in 0 .. MAX_SHIFT
    BY ParamAssumption DEF Reset, ResetState, Values, Rd
  <2>3. irq_mask' \subseteq IRQ /\ eoi' \subseteq IRQ /\ irq_state' \in 0 .. 2
    BY DEF Reset, ResetState
  <2> QED BY <2>1, <2>2, <2>3 DEF Reset, ResetState, BranchOK
<1>5. DecoderTypeOK'
  <2>1. insn' \in Insn /\ (insn'.op # "other" => insn'.arg \in Args(insn'.op))
    BY Stage2Types DEF Reset, TypeOK, DecoderTypeOK
  <2> QED BY <2>1 DEF Reset, ResetState, TypeOK, DecoderTypeOK
<1>6. HistTypeOK'
  <2>1. NoInsn \in Insn
    BY WordsAssumption, ParamAssumption DEF NoInsn, Insn, MaxArg
  <2> QED BY <2>1 DEF Reset, HistTypeOK
<1> QED BY <1>1, <1>2, <1>3, <1>4, <1>5, <1>6 DEF TypeOK, StateTypeOK, IrqTypeOK, CommonOK, BranchOK

LEMMA InitTypes == Init => TypeOK
<1> SUFFICES ASSUME Init PROVE TypeOK
  OBVIOUS
<1>1. MemTypeOK
  <2>1. Unknown \in Parcel /\ NoWord \in WordAddr
    BY WordsAssumption DEF Unknown, Parcel, NoWord, WordAddr
  <2>2. mem_state \in 0 .. 3 /\ mem_addr \in WordAddr
    BY <2>1 DEF Init
  <2>3. /\ mem_valid \in BOOLEAN /\ mem_instr \in BOOLEAN /\ mem_wstrb \in BOOLEAN
        /\ mem_la_secondword \in BOOLEAN /\ mem_la_firstword_reg \in BOOLEAN
        /\ last_mem_valid \in BOOLEAN /\ prefetched_high_word \in BOOLEAN
        /\ clear_prefetched_high_word_q \in BOOLEAN
        /\ last_mem_la_read \in BOOLEAN /\ last_mem_la_write \in BOOLEAN
    BY CompressedAssumption DEF Init
  <2> QED BY <2>1, <2>2, <2>3 DEF Init, MemTypeOK
<1>2. RequestTypeOK
  BY DEF Init, RequestTypeOK
<1>3. CommonOK
  <2>1. cpu_state \in States /\ trap \in BOOLEAN /\ reg_out \in Values /\ alu_out_q \in Values
    BY DEF Init, States, Values
  <2>2. pcpi_timeout_counter \in 0 .. PCPI_TIMEOUT /\ timer \in 0 .. MAX_TIMER
    BY ParamAssumption DEF Init
  <2> QED BY <2>1, <2>2, ParamAssumption DEF Init, CommonOK
<1>4. BranchOK
  <2>1. reg_pc \in Values /\ reg_next_pc \in Values /\ q0 \in [at : Values, lsb : BOOLEAN]
    BY ParamAssumption DEF Init, Values
  <2>2. latched_rd \in Rd /\ reg_sh \in 0 .. MAX_SHIFT /\ irq_state \in 0 .. 2
    BY ParamAssumption DEF Init, Rd
  <2> QED BY <2>1, <2>2 DEF Init, BranchOK
<1>5. NoInsn \in Insn
  BY WordsAssumption, ParamAssumption DEF NoInsn, Insn, MaxArg
<1>6. DecoderTypeOK /\ HistTypeOK
  <2>1. NoInsn.op = "other"
    BY DEF NoInsn
  <2>2. DecoderTypeOK
    BY <1>5, <2>1 DEF Init, DecoderTypeOK
  <2>3. HistTypeOK
    BY <1>5 DEF Init, HistTypeOK
  <2> QED BY <2>2, <2>3
<1> QED BY <1>1, <1>2, <1>3, <1>4, <1>6, TypeParts

LEMMA TypeStep == TypeOK /\ [Next]_vars => TypeOK'
<1>1. ASSUME TypeOK, Next PROVE TypeOK'
  <2>1. PICK i \in Inputs : Clock(i) \/ Reset(i)
    BY <1>1 DEF Next
  <2>2. InputOK(i)
    BY <1>1, InputsOK DEF TypeOK
  <2> QED BY <1>1, <2>1, <2>2, ClockTypes, ResetTypes
<1>2. ASSUME TypeOK, UNCHANGED vars PROVE TypeOK'
  BY <1>2 DEF vars, coreVars, memVars, histVars, doVars, pcVars, latchedVars, decVars, aluVars,
     pcpiVars, irqVars, TypeOK, MemTypeOK, RequestTypeOK, StateTypeOK, DecoderTypeOK, IrqTypeOK, HistTypeOK
<1> QED BY <1>1, <1>2

\* In every configuration of the core every register keeps to its width, the
\* decoder to the classes of instructions, and the bus machine to its four
\* states, whatever the memory, the interrupts and the co-processor do.
THEOREM TypeCorrect == Spec => []TypeOK
<1>1. Init => TypeOK
  BY InitTypes
<1>2. TypeOK /\ [Next]_vars => TypeOK'
  BY TypeStep
<1> QED BY <1>1, <1>2, PTL DEF Spec

-----------------------------------------------------------------------------
(* Requests and interrupt entry                                            *)
(*                                                                         *)
(* RequestsExclusive and InterruptEntryAlone are not inductive: which      *)
(* requests may be up depends on the state of the main state machine, on   *)
(* whether it has an instruction to launch, and on the phase of interrupt  *)
(* entry.                                                                  *)

LoadingOperands == cpu_state \in {"ld_rs1", "ld_rs2"}

\* A data request belongs to the state that made it, and comes alone.
DataRequests ==
    /\ mem_do_wdata => cpu_state \in {"stmem", "trap"} /\ ~Fetching /\ ~mem_do_rdata
    /\ mem_do_rdata => cpu_state \in {"ldmem", "trap"} /\ ~Fetching

\* No instruction is asked for while one is there to be launched or loads its
\* operands; the prefetch that started with it lasts into the data states.
FetchRequests ==
    /\ decoder_trigger => ~Fetching /\ ~LoadingOperands
    /\ LoadingOperands => ~mem_do_rinst /\ (dec.op \notin {"jalr", "retirq"} => mem_do_prefetch)
    /\ cpu_state \in {"stmem", "ldmem"} /\ mem_do_rinst => mem_do_prefetch

EntryRequests ==
    /\ irq_state # 0 => ENABLE_IRQ /\ cpu_state = "fetch" /\ ~latched_store /\ ~latched_branch
    /\ irq_state = 1 => ~mem_do_rinst

ReqInv == DataRequests /\ FetchRequests /\ EntryRequests

\* A transfer completes only what was asked for.
LEMMA DoneIsRequested ==
    ASSUME NEW i, mem_done(i)
    PROVE  mem_do_rinst \/ mem_do_rdata \/ mem_do_wdata
BY DEF mem_done

\* What Finish makes of the values a branch hands to it.
LEMMA FinishValues ==
    ASSUME TypeOK, NEW i, InputOK(i), NEW r \in Result, Finish(i, r)
    PROVE  /\ cpu_state' = "trap" \/ cpu_state' = r.cpu_state
           /\ ~Misaligned => cpu_state' = r.cpu_state
           /\ mem_do_prefetch' <=> r.prefetch /\ ~mem_done(i)
           /\ mem_do_rinst' <=> r.set = "rinst" \/ (r.rinst /\ ~mem_done(i))
           /\ mem_do_rdata' <=> r.set = "rdata" \/ (mem_do_rdata /\ ~mem_done(i))
           /\ mem_do_wdata' <=> r.set = "wdata" \/ (mem_do_wdata /\ ~mem_done(i))
           /\ decoder_trigger' <=> r.trigger
           /\ decoder_pseudo_trigger' = r.pseudo /\ pcpi_valid' = r.pcpi
           /\ latched_store' = r.store /\ latched_branch' = r.branch
           /\ ~(mem_do_rinst /\ mem_done(i)) => dec' = dec
<1>1. RequestTypeOK' /\ CommonOK' /\ DecoderTypeOK'
  BY FinishTypes
<1>2. cpu_state' = "trap" \/ cpu_state' = r.cpu_state
  BY DEF Finish
<1>3. ~Misaligned => cpu_state' = r.cpu_state
  BY DEF Finish
<1>4. /\ mem_do_prefetch' <=> r.prefetch /\ ~mem_done(i)
      /\ mem_do_rinst' <=> r.set = "rinst" \/ (r.rinst /\ ~mem_done(i))
      /\ mem_do_rdata' <=> r.set = "rdata" \/ (mem_do_rdata /\ ~mem_done(i))
      /\ mem_do_wdata' <=> r.set = "wdata" \/ (mem_do_wdata /\ ~mem_done(i))
  BY <1>1 DEF Finish, Requests, RequestTypeOK
<1>5. /\ decoder_trigger' <=> r.trigger
      /\ decoder_pseudo_trigger' = r.pseudo /\ pcpi_valid' = r.pcpi
  BY DEF Finish
<1>6. latched_store' = r.store /\ latched_branch' = r.branch
  BY DEF Finish
<1>7. ~(mem_do_rinst /\ mem_done(i)) => dec' = dec
  BY DEF Finish, Decode
<1> QED BY <1>2, <1>3, <1>4, <1>5, <1>6, <1>7

\* The fields of Default and Fetched that decide about requests.
LEMMA DefaultFields ==
    ASSUME TypeOK, NEW i, InputOK(i)
    PROVE  /\ Default(i).cpu_state = cpu_state
           /\ Default(i).prefetch = mem_do_prefetch /\ Default(i).rinst = mem_do_rinst
           /\ Default(i).set = "none" /\ Default(i).pcpi = pcpi_valid
           /\ Default(i).trigger <=> mem_do_rinst /\ mem_done(i)
           /\ Default(i).store = latched_store /\ Default(i).branch = latched_branch
           /\ ~Default(i).pseudo /\ Default(i).pending = irq_pending \cap LATCHED_IRQ
<1>1. /\ Default(i).cpu_state = cpu_state
      /\ Default(i).prefetch = mem_do_prefetch /\ Default(i).rinst = mem_do_rinst
      /\ Default(i).set = "none" /\ Default(i).pcpi = pcpi_valid
      /\ Default(i).store = latched_store /\ Default(i).branch = latched_branch
      /\ ~Default(i).pseudo /\ Default(i).pending = irq_pending \cap LATCHED_IRQ
  BY DEF Default
<1>2. Default(i).trigger <=> mem_do_rinst /\ mem_done(i)
  BY DEF Default
<1> QED BY <1>1, <1>2

LEMMA FetchRequestsStep ==
    ASSUME TypeOK, ReqInv, NEW i, InputOK(i), FetchStep(i)
    PROVE  ReqInv'
<1> DEFINE f == Fetched(i)
<1>1. Default(i) \in Result /\ f \in Result
  BY DefaultResult
<1>2. /\ cpu_state = "fetch" /\ ~mem_do_rdata /\ ~mem_do_wdata
      /\ mem_done(i) => mem_do_rinst
  BY DoneIsRequested DEF ReqInv, DataRequests, FetchStep, FetchInterrupt, FetchSaveReturn, FetchSaveMask,
     FetchWaitirq, LaunchJal, Launch, FetchIdle, FetchTail, FetchHead
<1>3. /\ f.cpu_state = "fetch" /\ f.prefetch = mem_do_prefetch /\ f.set = "none"
      /\ f.rinst <=> ~decoder_trigger /\ ~do_waitirq
      /\ f.trigger <=> mem_do_rinst /\ mem_done(i)
      /\ ~f.store /\ ~f.branch
  BY <1>1, <1>2, DefaultFields, ZenonT(30) DEF Fetched, Result
<1>4. decoder_trigger => ~mem_do_prefetch /\ ~mem_do_rinst
  BY DEF ReqInv, FetchRequests, Fetching
<1> HIDE DEF f
<1>5. CASE FetchInterrupt(i)
  <2>1. decoder_trigger /\ ENABLE_IRQ /\ irq_state' = 1 /\ Finish(i, f)
    BY <1>5 DEF FetchInterrupt, InterruptTaken, f
  <2>2. ~Misaligned
    BY <1>2, <1>4, <2>1 DEF Misaligned
  <2> QED BY <1>1, <1>2, <1>3, <1>4, <2>1, <2>2, FinishValues
          DEF ReqInv, DataRequests, FetchRequests, EntryRequests, Fetching, LoadingOperands
<1>6. CASE FetchSaveReturn(i)
  <2>1. /\ irq_state = 1 /\ irq_state' = 2 /\ ENABLE_IRQ /\ ~mem_do_rinst
        /\ Finish(i, [f EXCEPT !.rinst = TRUE])
    BY <1>6 DEF FetchSaveReturn, ReqInv, EntryRequests, f
  <2>2. ~Misaligned
    BY <1>2, <2>1 DEF Misaligned
  <2>3. [f EXCEPT !.rinst = TRUE] \in Result
    BY <1>1 DEF Result
  <2>4. /\ [f EXCEPT !.rinst = TRUE].cpu_state = "fetch" /\ [f EXCEPT !.rinst = TRUE].set = "none"
        /\ [f EXCEPT !.rinst = TRUE].trigger = f.trigger
        /\ [f EXCEPT !.rinst = TRUE].store = f.store /\ [f EXCEPT !.rinst = TRUE].branch = f.branch
    BY <1>1, <1>3 DEF Result
  <2>5. PICK r \in Result : /\ Finish(i, r) /\ r.cpu_state = "fetch" /\ r.set = "none"
                            /\ r.trigger = f.trigger /\ r.store = f.store /\ r.branch = f.branch
    BY <2>1, <2>3, <2>4
  <2> QED BY <1>2, <1>3, <2>1, <2>2, <2>5, FinishValues
          DEF ReqInv, DataRequests, FetchRequests, EntryRequests, Fetching, LoadingOperands
<1>7. CASE FetchSaveMask(i)
  <2>1. PICK p \in SUBSET IRQ : irq_state' = 0 /\ Finish(i, [f EXCEPT !.pending = p])
    <3>1. irq_state' = 0 /\ Finish(i, [f EXCEPT !.pending = @ \cap irq_mask])
      BY <1>7 DEF FetchSaveMask, ReqInv, EntryRequests, f
    <3>2. f.pending \cap irq_mask \in SUBSET IRQ
      BY <1>1 DEF Result
    <3> QED BY <3>1, <3>2
  <2>2. [f EXCEPT !.pending = p] \in Result
    BY <1>1 DEF Result
  <2>3. /\ [f EXCEPT !.pending = p].cpu_state = "fetch" /\ [f EXCEPT !.pending = p].set = "none"
        /\ [f EXCEPT !.pending = p].trigger = f.trigger
    BY <1>1, <1>3 DEF Result
  <2>4. PICK r \in Result : /\ Finish(i, r) /\ r.cpu_state = "fetch" /\ r.set = "none"
                            /\ r.trigger = f.trigger
    BY <2>1, <2>2, <2>3
  <2> QED BY <1>2, <1>3, <2>1, <2>4, FinishValues
          DEF ReqInv, DataRequests, FetchRequests, EntryRequests, Fetching, LoadingOperands
<1>8. CASE FetchTail /\ (FetchWaitirq(i) \/ LaunchJal(i) \/ Launch(i) \/ FetchIdle(i))
  <2>1. irq_state' = 0
    BY <1>8 DEF FetchTail, InterruptTaken, ReqInv, EntryRequests
  <2> DEFINE w == [f EXCEPT !.store = TRUE, !.reg_out = Value, !.rinst = TRUE]
             v == [f EXCEPT !.waitirq = TRUE]
             j == [f EXCEPT !.branch = TRUE, !.rinst = TRUE]
             l == [f EXCEPT !.cpu_state = "ld_rs1", !.rinst = FALSE,
                            !.prefetch = dec.op \notin {"jalr", "retirq"}]
  <2>2. w \in Result /\ v \in Result /\ j \in Result /\ l \in Result
    <3>1. w \in Result
      BY <1>1 DEF Result, States, Values
    <3>2. v \in Result
      BY <1>1 DEF Result, States, Values
    <3>3. j \in Result
      BY <1>1 DEF Result, States, Values
    <3>4. l \in Result
      BY <1>1, ZenonT(30) DEF Result, States, Values
    <3> QED
      BY <3>1, <3>2, <3>3, <3>4
  <2>3. /\ w.cpu_state = "fetch" /\ w.set = "none" /\ w.trigger = f.trigger
        /\ v.cpu_state = "fetch" /\ v.set = "none" /\ v.trigger = f.trigger
        /\ j.cpu_state = "fetch" /\ j.set = "none" /\ j.trigger = f.trigger
        /\ l.cpu_state = "ld_rs1" /\ l.set = "none" /\ l.trigger = f.trigger
        /\ ~l.rinst /\ (l.prefetch <=> dec.op \notin {"jalr", "retirq"})
    BY <1>1, <1>3 DEF Result
  <2>4. CASE Launch(i)
    <3>1. decoder_trigger /\ Finish(i, l)
      BY <2>4 DEF Launch, f
    <3> HIDE DEF l
    <3>2. PICK r \in Result : /\ Finish(i, r) /\ r.cpu_state = "ld_rs1" /\ r.set = "none"
                              /\ r.trigger = f.trigger /\ ~r.rinst
                              /\ r.prefetch <=> dec.op \notin {"jalr", "retirq"}
      BY <2>2, <2>3, <3>1
    <3> QED BY <1>2, <1>3, <1>4, <2>1, <3>1, <3>2, FinishValues
            DEF ReqInv, DataRequests, FetchRequests, EntryRequests, Fetching, LoadingOperands
  <2>5. CASE ~Launch(i)
    <3>1. Finish(i, w) \/ Finish(i, v) \/ Finish(i, j) \/ Finish(i, f)
      BY <1>8, <2>5 DEF FetchWaitirq, LaunchJal, FetchIdle, f
    <3> HIDE DEF w, v, j
    <3>2. PICK r \in Result : Finish(i, r) /\ r.cpu_state = "fetch" /\ r.set = "none" /\ r.trigger = f.trigger
      BY <1>1, <1>3, <2>2, <2>3, <3>1
    <3> QED BY <1>2, <1>3, <2>1, <3>2, FinishValues
            DEF ReqInv, DataRequests, FetchRequests, EntryRequests, Fetching, LoadingOperands
  <2> QED BY <2>4, <2>5
<1> QED
  BY <1>5, <1>6, <1>7, <1>8 DEF FetchStep, FetchWaitirq, LaunchJal, Launch, FetchIdle

\* What the branches of ld_rs1 and ld_rs2 hand to Finish: nothing completes
\* there, and only a wait for a co-processor keeps pcpi_valid.
PcpiResult(r) ==
    \/ IsTrap /\ ((r.cpu_state = "ld_rs1" /\ WITH_PCPI) \/ r.cpu_state = "ld_rs2")
    \/ pcpi_valid /\ (~IsTrap \/ dec.op \in Stage1Ops \/ (cpu_state = "ld_rs1" /\ ~WITH_PCPI))
LoadingResult(i, r) ==
    /\ Finish(i, r)
    /\ r.set = "none" /\ ~r.trigger /\ ~r.pseudo /\ r.prefetch = mem_do_prefetch
    /\ r.cpu_state \in {"ld_rs1", "ld_rs2"} => ~r.rinst
    /\ r.cpu_state \in {"stmem", "ldmem"} => r.rinst /\ dec.op \in {"load", "store"}
    /\ irq_pending \cap LATCHED_IRQ \subseteq r.pending
    /\ r.pcpi => PcpiResult(r)
    /\ pcpi_valid /\ r.cpu_state \in {"ld_rs1", "ld_rs2"} => r.pcpi

\* The branches of exec, shift and trap make no data request; a branch that is
\* taken asks for its target and launches nothing.
ComputeResult(i, r) ==
    /\ Finish(i, r)
    /\ r.set \in {"none", "rinst"} /\ (r.set = "rinst" => cpu_state = "exec" /\ ~r.trigger)
    /\ r.trigger => mem_do_rinst /\ mem_done(i)
    /\ ~r.pseudo /\ r.prefetch = mem_do_prefetch
    /\ cpu_state = "trap" => r.rinst = mem_do_rinst /\ r.cpu_state = "trap"
    /\ r.cpu_state \in {"exec", "shift", "fetch", "trap"}
    /\ irq_pending \cap LATCHED_IRQ \subseteq r.pending /\ r.pcpi = pcpi_valid

\* The data states wait for the prefetch, then ask for their access, then end.
DataResult(i, r) ==
    /\ Finish(i, r) /\ r.set \in {"none", "rdata", "wdata"}
    /\ r.prefetch = mem_do_prefetch /\ r.rinst = mem_do_rinst
    /\ cpu_state = "stmem" /\ FetchedNext(i) /\ ~mem_do_wdata <=> r.set = "wdata"
    /\ cpu_state = "ldmem" /\ FetchedNext(i) /\ ~mem_do_rdata <=> r.set = "rdata"
    /\ IF Accessed(i) THEN r.cpu_state = "fetch" /\ r.trigger /\ r.pseudo
       ELSE /\ r.cpu_state = cpu_state /\ ~r.pseudo
            /\ r.trigger <=> mem_do_rinst /\ mem_done(i)
    /\ irq_pending \cap LATCHED_IRQ \subseteq r.pending /\ r.pcpi = pcpi_valid

\* While operands are loaded nothing completes, so only what the branch asks
\* for and the state it goes to matter.
LEMMA OperandRequests ==
    ASSUME TypeOK, ReqInv, NEW i, InputOK(i), LoadingOperands, irq_state' = irq_state,
           NEW r \in Result, LoadingResult(i, r)
    PROVE  ReqInv'
<1> USE DEF LoadingResult
<1>1. ~mem_do_rinst /\ ~mem_do_rdata /\ ~mem_do_wdata /\ ~mem_done(i) /\ irq_state' = 0
  BY DoneIsRequested DEF ReqInv, DataRequests, FetchRequests, EntryRequests, LoadingOperands
<1>2. dec' = dec /\ ~decoder_trigger' /\ ~mem_do_rdata' /\ ~mem_do_wdata'
  BY <1>1, FinishValues
<1>3. /\ mem_do_prefetch' <=> mem_do_prefetch
      /\ mem_do_rinst' <=> r.rinst
      /\ cpu_state' = "trap" \/ cpu_state' = r.cpu_state
  BY <1>1, FinishValues
<1>4. FetchRequests'
  BY <1>2, <1>3 DEF ReqInv, FetchRequests, LoadingOperands
<1> QED BY <1>1, <1>2, <1>4 DEF ReqInv, DataRequests, EntryRequests

LEMMA OperandsResult ==
    ASSUME TypeOK, NEW i, InputOK(i), LoadingOperands, ~mem_do_rinst, ~IsTrap \/ dec.op \in Stage1Ops,
           Operands(i)
    PROVE  \E r \in Result : LoadingResult(i, r)
<1> DEFINE d == Default(i)
           s == [d EXCEPT !.cpu_state = "stmem", !.rinst = TRUE]
           h == [d EXCEPT !.cpu_state = "shift"]
           e == ToExec(i, d, dec.op = "branch")
<1>1. d \in Result /\ e \in Result
  BY DefaultResult, ExecuteResults
<1>2. s \in Result /\ h \in Result
  BY <1>1 DEF Result, States
<1>3. /\ d.set = "none" /\ ~d.trigger /\ ~d.pseudo /\ d.prefetch = mem_do_prefetch
      /\ d.pending = irq_pending \cap LATCHED_IRQ /\ d.pcpi = pcpi_valid
  BY DefaultFields
<1>4. /\ s.set = "none" /\ ~s.trigger /\ ~s.pseudo /\ s.prefetch = mem_do_prefetch
      /\ s.pending = d.pending /\ s.pcpi = pcpi_valid /\ s.cpu_state = "stmem" /\ s.rinst
      /\ h.set = "none" /\ ~h.trigger /\ ~h.pseudo /\ h.prefetch = mem_do_prefetch
      /\ h.pending = d.pending /\ h.pcpi = pcpi_valid /\ h.cpu_state = "shift"
  BY <1>1, <1>3 DEF Result
<1>5. /\ e.set = "none" /\ ~e.trigger /\ ~e.pseudo /\ e.prefetch = mem_do_prefetch
      /\ e.pending = d.pending /\ e.pcpi = pcpi_valid /\ e.cpu_state = "exec"
  BY <1>1, <1>3 DEF Result, ToExec
<1>6. (dec.op = "store" /\ Finish(i, s)) \/ Finish(i, h) \/ Finish(i, e)
  BY DEF Operands
<1> HIDE DEF d, s, h, e
<1>7. dec.op = "store" /\ Finish(i, s) => LoadingResult(i, s)
  BY <1>3, <1>4 DEF LoadingResult, PcpiResult
<1>8. Finish(i, h) => LoadingResult(i, h)
  BY <1>3, <1>4 DEF LoadingResult, PcpiResult
<1>9. Finish(i, e) => LoadingResult(i, e)
  BY <1>3, <1>5 DEF LoadingResult, PcpiResult
<1> QED BY <1>1, <1>2, <1>6, <1>7, <1>8, <1>9

LEMMA PcpiCycleResult ==
    ASSUME TypeOK, NEW i, InputOK(i), LoadingOperands, ~mem_do_rinst, IsTrap,
           WITH_PCPI \/ cpu_state = "ld_rs2", Finish(i, PcpiCycle(i))
    PROVE  LoadingResult(i, PcpiCycle(i))
<1> DEFINE r == PcpiCycle(i)
<1>1. Default(i) \in Result
  BY DefaultResult
<1>2. /\ Default(i).set = "none" /\ ~Default(i).trigger /\ ~Default(i).pseudo
      /\ Default(i).prefetch = mem_do_prefetch /\ ~Default(i).rinst
      /\ Default(i).cpu_state = cpu_state /\ cpu_state \in {"ld_rs1", "ld_rs2"}
      /\ Default(i).pending = irq_pending \cap LATCHED_IRQ
  BY DefaultFields DEF LoadingOperands
<1>3. /\ r.set = "none" /\ ~r.trigger /\ ~r.pseudo /\ r.prefetch = mem_do_prefetch
      /\ r.cpu_state \in {"ld_rs1", "ld_rs2"} => ~r.rinst
      /\ r.cpu_state \notin {"stmem", "ldmem"}
      /\ r.pcpi => r.cpu_state = cpu_state
      /\ r.cpu_state \in {"ld_rs1", "ld_rs2"} => r.pcpi
  BY <1>1, <1>2 DEF PcpiCycle, Raise, Result
<1>4. irq_pending \cap LATCHED_IRQ \subseteq r.pending
  BY <1>1, <1>2 DEF PcpiCycle, Raise, Result
<1> HIDE DEF r
<1> QED BY <1>2, <1>3, <1>4 DEF LoadingResult, PcpiResult, r

LEMMA LoadingOutcome ==
    ASSUME TypeOK, ~mem_do_rinst,
           NEW i, InputOK(i), LdRs1Step(i) \/ LdRs2Trap(i) \/ LdRs2Operands(i)
    PROVE  LoadingOperands /\ irq_state' = irq_state /\ \E r \in Result : LoadingResult(i, r)
<1> DEFINE d == Default(i)
<1>1. d \in Result
  BY DefaultResult
<1>2. LoadingOperands /\ irq_state' = irq_state
  BY DEF LoadingOperands, LdRs1Step, LdRs1Trap, LdRs1Move, LdRs1Retirq, LdRs1Maskirq, LdRs1Timer,
     LdRs1Load, LdRs1ShiftImm, LdRs1Imm, LdRs1Rs2, LdRs1, LdRs2Trap, LdRs2Operands, LdRs2, KeepFetch
<1>3. /\ d.set = "none" /\ ~d.trigger /\ ~d.pseudo /\ d.prefetch = mem_do_prefetch /\ ~d.rinst
      /\ d.pending = irq_pending \cap LATCHED_IRQ /\ d.pcpi = pcpi_valid
  BY DefaultFields
<1> HIDE DEF d
<1>4. SUFFICES \E r \in Result : LoadingResult(i, r)
  BY <1>2
<1>5. CASE LdRs1Trap(i)
  <2> DEFINE u == Raise(i, d)
             t == [d EXCEPT !.cpu_state = "ld_rs2"]
  <2>1. cpu_state = "ld_rs1" /\ IsTrap
    BY <1>5 DEF LdRs1Trap, LdRs1
  <2>2. /\ u \in Result
        /\ u.set = "none" /\ ~u.trigger /\ ~u.pseudo /\ u.prefetch = mem_do_prefetch
        /\ u.cpu_state \in {"fetch", "trap"} /\ d.pending \subseteq u.pending /\ u.pcpi = pcpi_valid
    BY <1>1, <1>3, ExecuteResults DEF Raise, Result
  <2>3. /\ t \in Result
        /\ t.set = "none" /\ ~t.trigger /\ ~t.pseudo /\ t.prefetch = mem_do_prefetch
        /\ t.cpu_state = "ld_rs2" /\ ~t.rinst /\ t.pending = d.pending /\ t.pcpi = pcpi_valid
    BY <1>1, <1>3 DEF Result, States
  <2>4. \/ ~WITH_PCPI /\ Finish(i, u)
        \/ WITH_PCPI /\ Finish(i, PcpiCycle(i))
        \/ Finish(i, t)
    <3>1. CASE ~WITH_PCPI
      BY <1>5, <3>1 DEF LdRs1Trap, d
    <3>2. CASE WITH_PCPI /\ ENABLE_REGS_DUALPORT
      BY <1>5, <3>2 DEF LdRs1Trap
    <3>3. CASE WITH_PCPI /\ ~ENABLE_REGS_DUALPORT
      BY <1>5, <3>3 DEF LdRs1Trap, d
    <3> QED BY <3>1, <3>2, <3>3
  <2> HIDE DEF t, u
  <2>5. ~WITH_PCPI /\ Finish(i, u) => LoadingResult(i, u)
    BY <1>3, <2>1, <2>2 DEF LoadingResult, PcpiResult
  <2>6. Finish(i, t) => LoadingResult(i, t)
    BY <1>3, <2>1, <2>3 DEF LoadingResult, PcpiResult
  <2>7. WITH_PCPI /\ Finish(i, PcpiCycle(i)) => LoadingResult(i, PcpiCycle(i)) /\ PcpiCycle(i) \in Result
    BY <1>2, <2>1, PcpiCycleResult, ExecuteResults
  <2> QED BY <2>2, <2>3, <2>4, <2>5, <2>6, <2>7
<1>6. CASE LdRs1Move(i) \/ LdRs1Retirq(i) \/ LdRs1Maskirq(i) \/ LdRs1Timer(i)
  <2> DEFINE t == [d EXCEPT !.cpu_state = "fetch", !.store = TRUE, !.reg_out = Value]
             u == [d EXCEPT !.cpu_state = "fetch", !.store = TRUE, !.reg_out = Value,
                            !.timer = insn.arg]
             v == [d EXCEPT !.cpu_state = "fetch", !.store = TRUE, !.branch = TRUE,
                            !.reg_out = q0.at]
  <2>1. Value \in Values /\ q0.at \in Values /\ "fetch" \in States
    BY DEF Values, States, TypeOK, IrqTypeOK
  <2>2. LdRs1Timer(i) => insn.arg \in 0 .. MAX_TIMER
    <3>1. LdRs1Timer(i) => insn.arg \in Args("timer")
      BY DEF LdRs1Timer, TypeOK, DecoderTypeOK
    <3>2. Args("timer") = 0 .. MAX_TIMER
      BY DEF Args
    <3> QED BY <3>1, <3>2
  <2>3. ~IsTrap \/ dec.op \in Stage1Ops
    BY <1>6 DEF LdRs1Move, LdRs1Retirq, LdRs1Maskirq, LdRs1Timer, IsTrap, Stage1Ops
  <2>4. /\ t \in Result /\ t.set = "none" /\ ~t.trigger /\ ~t.pseudo /\ t.prefetch = mem_do_prefetch
        /\ t.cpu_state = "fetch" /\ t.pending = d.pending /\ t.pcpi = pcpi_valid
    BY <1>1, <1>3, <2>1 DEF Result
  <2>5. /\ v \in Result /\ v.set = "none" /\ ~v.trigger /\ ~v.pseudo /\ v.prefetch = mem_do_prefetch
        /\ v.cpu_state = "fetch" /\ v.pending = d.pending /\ v.pcpi = pcpi_valid
    BY <1>1, <1>3, <2>1 DEF Result
  <2>6. ASSUME LdRs1Timer(i)
        PROVE  /\ u \in Result /\ u.set = "none" /\ ~u.trigger /\ ~u.pseudo /\ u.prefetch = mem_do_prefetch
               /\ u.cpu_state = "fetch" /\ u.pending = d.pending /\ u.pcpi = pcpi_valid
    BY <1>1, <1>3, <2>1, <2>2, <2>6 DEF Result
  <2>7. Finish(i, t) \/ (LdRs1Timer(i) /\ Finish(i, u)) \/ Finish(i, v)
    BY <1>6 DEF LdRs1Move, LdRs1Retirq, LdRs1Maskirq, LdRs1Timer, d
  <2> HIDE DEF t, u, v
  <2> QED BY <1>3, <2>3, <2>4, <2>5, <2>6, <2>7 DEF LoadingResult, PcpiResult
<1>7. CASE LdRs1Load(i)
  <2> DEFINE t == [d EXCEPT !.cpu_state = "ldmem", !.rinst = TRUE]
  <2>1. /\ t \in Result /\ t.set = "none" /\ ~t.trigger /\ ~t.pseudo /\ t.prefetch = mem_do_prefetch
        /\ t.cpu_state = "ldmem" /\ t.rinst /\ t.pending = d.pending /\ t.pcpi = pcpi_valid
    BY <1>1, <1>3 DEF Result, States
  <2>2. Finish(i, t) /\ dec.op = "load"
    BY <1>7 DEF LdRs1Load, d
  <2> HIDE DEF t
  <2> QED BY <1>3, <2>1, <2>2 DEF LoadingResult, PcpiResult, Stage1Ops
<1>8. CASE LdRs1ShiftImm(i)
  <2> DEFINE t == [d EXCEPT !.cpu_state = "shift"]
  <2>1. /\ t \in Result /\ t.set = "none" /\ ~t.trigger /\ ~t.pseudo /\ t.prefetch = mem_do_prefetch
        /\ t.cpu_state = "shift" /\ t.pending = d.pending /\ t.pcpi = pcpi_valid
    BY <1>1, <1>3 DEF Result, States
  <2>2. Finish(i, t) /\ ~IsTrap
    BY <1>8 DEF LdRs1ShiftImm, IsTrap, d
  <2> HIDE DEF t
  <2> QED BY <1>3, <2>1, <2>2 DEF LoadingResult, PcpiResult
<1>9. CASE LdRs1Imm(i)
  <2> DEFINE t == ToExec(i, d, FALSE)
  <2>1. t \in Result
    BY ExecuteResults DEF d
  <2>2. /\ t.set = "none" /\ ~t.trigger /\ ~t.pseudo /\ t.prefetch = mem_do_prefetch
        /\ t.cpu_state = "exec" /\ t.pending = d.pending /\ t.pcpi = pcpi_valid
    BY <1>1, <1>3 DEF Result, ToExec
  <2>3. Finish(i, t) /\ (~IsTrap \/ dec.op \in Stage1Ops)
    BY <1>9 DEF LdRs1Imm, IsTrap, Stage1Ops, d
  <2> HIDE DEF t
  <2> QED BY <1>3, <2>1, <2>2, <2>3 DEF LoadingResult, PcpiResult
<1>10. CASE LdRs1Rs2(i)
  <2> DEFINE t == [d EXCEPT !.cpu_state = "ld_rs2"]
  <2>1. /\ t \in Result /\ t.set = "none" /\ ~t.trigger /\ ~t.pseudo /\ t.prefetch = mem_do_prefetch
        /\ t.cpu_state = "ld_rs2" /\ ~t.rinst /\ t.pending = d.pending /\ t.pcpi = pcpi_valid
    BY <1>1, <1>3 DEF Result, States
  <2>2. /\ Operands(i) \/ Finish(i, t)
        /\ ~IsTrap \/ dec.op \in Stage1Ops
    BY <1>10 DEF LdRs1Rs2, NeedsRs2, IsTrap, Stage1Ops, d
  <2> HIDE DEF t
  <2>3. Finish(i, t) => LoadingResult(i, t)
    BY <1>3, <2>1, <2>2 DEF LoadingResult, PcpiResult
  <2> QED BY <1>2, <2>1, <2>2, <2>3, OperandsResult
<1>11. CASE LdRs2Trap(i)
  <2>1. cpu_state = "ld_rs2" /\ IsTrap /\ Finish(i, PcpiCycle(i))
    BY <1>11 DEF LdRs2Trap, LdRs2
  <2> QED BY <1>2, <2>1, PcpiCycleResult, ExecuteResults
<1>12. CASE LdRs2Operands(i)
  BY <1>2, <1>12, OperandsResult DEF LdRs2Operands
<1> QED BY <1>5, <1>6, <1>7, <1>8, <1>9, <1>10, <1>11, <1>12 DEF LdRs1Step

LEMMA LoadingStep ==
    ASSUME TypeOK, ReqInv, NEW i, InputOK(i), LdRs1Step(i) \/ LdRs2Trap(i) \/ LdRs2Operands(i)
    PROVE  ReqInv'
<1>1. cpu_state \in {"ld_rs1", "ld_rs2"}
  BY DEF LdRs1Step, LdRs1Trap, LdRs1Move, LdRs1Retirq, LdRs1Maskirq, LdRs1Timer,
     LdRs1Load, LdRs1ShiftImm, LdRs1Imm, LdRs1Rs2, LdRs1, LdRs2Trap, LdRs2Operands, LdRs2
<1>2. ~mem_do_rinst
  BY <1>1 DEF ReqInv, FetchRequests, LoadingOperands
<1> QED BY <1>2, LoadingOutcome, OperandRequests

LEMMA OutsideFetch ==
    ASSUME ReqInv, KeepFetch, cpu_state # "fetch"
    PROVE  irq_state' = 0 /\ EntryRequests'
BY DEF KeepFetch, ReqInv, EntryRequests

LEMMA ComputeOutcome ==
    ASSUME TypeOK, NEW i, InputOK(i),
           ExecWait(i) \/ ExecBranch(i) \/ ExecAlu(i) \/ Shift(i) \/ Trapped(i)
    PROVE  /\ KeepFetch /\ cpu_state \in {"exec", "shift", "trap"}
           /\ \E r \in Result : ComputeResult(i, r)
<1> DEFINE d == Default(i)
<1>1. d \in Result
  BY DefaultResult
<1>2. /\ d.set = "none" /\ (d.trigger <=> mem_do_rinst /\ mem_done(i)) /\ ~d.pseudo
      /\ d.prefetch = mem_do_prefetch /\ d.rinst = mem_do_rinst /\ d.cpu_state = cpu_state
      /\ d.pending = irq_pending \cap LATCHED_IRQ /\ d.pcpi = pcpi_valid
  BY DefaultFields
<1>3. KeepFetch /\ cpu_state \in {"exec", "shift", "trap"}
  BY DEF ExecWait, ExecBranch, ExecAlu, Exec, Shift, Trapped
<1> HIDE DEF d
<1>4. SUFFICES \E r \in Result : ComputeResult(i, r)
  BY <1>3
<1>5. Value \in Values /\ PcPlusImm \in Values /\ {"fetch", "exec"} \subseteq States
  BY PcTypes DEF Values, States
<1>6. CASE ExecWait(i)
  <2> DEFINE t == [d EXCEPT !.rinst = mem_do_prefetch /\ ~alu_wait_2,
                            !.wait = alu_wait_2, !.reg_out = PcPlusImm]
  <2>1. t \in Result
    BY <1>1, <1>5 DEF Result, TypeOK, StateTypeOK
  <2>2. /\ t.set = "none" /\ t.trigger = d.trigger /\ ~t.pseudo /\ t.prefetch = mem_do_prefetch
        /\ t.cpu_state = "exec" /\ cpu_state = "exec" /\ t.pending = d.pending /\ t.pcpi = pcpi_valid
    BY <1>1, <1>2, <1>6 DEF Result, ExecWait, Exec
  <2>3. Finish(i, t)
    BY <1>6 DEF ExecWait, d
  <2> HIDE DEF t
  <2> QED BY <1>2, <2>1, <2>2, <2>3 DEF ComputeResult
<1>7. CASE ExecBranch(i)
  <2>1. PICK taken \in BOOLEAN : Finish(i, [d EXCEPT
             !.store = taken, !.branch = taken, !.reg_out = PcPlusImm,
             !.cpu_state = IF mem_done(i) THEN "fetch" ELSE "exec",
             !.trigger = @ /\ ~taken,
             !.set = IF taken THEN "rinst" ELSE "none"])
    BY <1>7 DEF ExecBranch, d
  <2> DEFINE t == [d EXCEPT
             !.store = taken, !.branch = taken, !.reg_out = PcPlusImm,
             !.cpu_state = IF mem_done(i) THEN "fetch" ELSE "exec",
             !.trigger = @ /\ ~taken,
             !.set = IF taken THEN "rinst" ELSE "none"]
  <2>2. t \in Result
    BY <1>1, <1>5, ZenonT(30) DEF Result
  <2>3. /\ t.set = IF taken THEN "rinst" ELSE "none"
        /\ t.trigger <=> d.trigger /\ ~taken
        /\ ~t.pseudo /\ t.prefetch = mem_do_prefetch
        /\ t.cpu_state \in {"fetch", "exec"} /\ t.pending = d.pending /\ t.pcpi = pcpi_valid
    BY <1>1, <1>2 DEF Result
  <2>4. cpu_state = "exec"
    BY <1>7 DEF ExecBranch, Exec
  <2>5. Finish(i, t)
    BY <2>1
  <2> HIDE DEF t
  <2> QED BY <1>2, <2>2, <2>3, <2>4, <2>5 DEF ComputeResult
<1>8. CASE ExecAlu(i)
  <2> DEFINE t == [d EXCEPT !.cpu_state = "fetch", !.store = TRUE, !.stalu = TRUE,
                            !.branch = (dec.op = "jalr"), !.reg_out = PcPlusImm]
  <2>1. t \in Result
    BY <1>1, <1>5 DEF Result
  <2>2. /\ t.set = "none" /\ t.trigger = d.trigger /\ ~t.pseudo /\ t.prefetch = mem_do_prefetch
        /\ t.cpu_state = "fetch" /\ cpu_state = "exec" /\ t.pending = d.pending /\ t.pcpi = pcpi_valid
    BY <1>1, <1>2, <1>8 DEF Result, ExecAlu, Exec
  <2>3. Finish(i, t)
    BY <1>8 DEF ExecAlu, d
  <2> HIDE DEF t
  <2> QED BY <1>2, <2>1, <2>2, <2>3 DEF ComputeResult
<1>9. CASE Shift(i)
  <2> DEFINE t == [d EXCEPT !.store = TRUE, !.reg_out = Value, !.cpu_state = "fetch",
                            !.rinst = mem_do_prefetch]
             u == [d EXCEPT !.store = TRUE]
  <2>1. t \in Result /\ u \in Result
    BY <1>1, <1>5 DEF Result, TypeOK, RequestTypeOK
  <2>2. cpu_state = "shift"
    BY <1>9 DEF Shift
  <2>3. /\ t.set = "none" /\ t.trigger = d.trigger /\ ~t.pseudo /\ t.prefetch = mem_do_prefetch
        /\ t.cpu_state = "fetch" /\ t.pending = d.pending /\ t.pcpi = pcpi_valid
        /\ u.set = "none" /\ u.trigger = d.trigger /\ ~u.pseudo /\ u.prefetch = mem_do_prefetch
        /\ u.cpu_state = "shift" /\ u.pending = d.pending /\ u.pcpi = pcpi_valid
    BY <1>1, <1>2, <2>2 DEF Result
  <2>4. Finish(i, t) \/ Finish(i, u)
    BY <1>9 DEF Shift, d
  <2> HIDE DEF t, u
  <2> QED BY <1>2, <2>1, <2>2, <2>3, <2>4 DEF ComputeResult
<1>10. CASE Trapped(i)
  <2>1. Finish(i, d) /\ cpu_state = "trap"
    BY <1>10 DEF Trapped, d
  <2> QED BY <1>1, <1>2, <2>1 DEF ComputeResult
<1> QED BY <1>6, <1>7, <1>8, <1>9, <1>10

LEMMA ComputeStep ==
    ASSUME TypeOK, ReqInv, NEW i, InputOK(i),
           ExecWait(i) \/ ExecBranch(i) \/ ExecAlu(i) \/ Shift(i) \/ Trapped(i)
    PROVE  ReqInv'
<1>1. PICK r \in Result : ComputeResult(i, r)
  BY ComputeOutcome
<1> USE DEF ComputeResult
<1>2. KeepFetch /\ cpu_state \in {"exec", "shift", "trap"}
  BY ComputeOutcome
<1>3. EntryRequests'
  BY <1>2, OutsideFetch
<1>4. cpu_state' \in {"exec", "shift", "fetch", "trap"}
  BY <1>1, FinishValues
<1>5. /\ mem_do_prefetch' <=> r.prefetch /\ ~mem_done(i)
      /\ mem_do_rinst' <=> r.set = "rinst" \/ (r.rinst /\ ~mem_done(i))
      /\ mem_do_rdata' <=> mem_do_rdata /\ ~mem_done(i)
      /\ mem_do_wdata' <=> mem_do_wdata /\ ~mem_done(i)
      /\ decoder_trigger' <=> r.trigger
  BY <1>1, FinishValues
<1>6. FetchRequests'
  BY <1>1, <1>4, <1>5 DEF FetchRequests, Fetching, LoadingOperands
<1>7. DataRequests'
  <2>1. CASE cpu_state = "trap"
    <3>1. cpu_state' = "trap" /\ r.set = "none"
      BY <1>1, <2>1, FinishValues
    <3>2. (mem_do_rdata' => mem_do_rdata) /\ (mem_do_wdata' => mem_do_wdata)
      BY <1>5
    <3>3. (mem_do_prefetch' => mem_do_prefetch) /\ (mem_do_rinst' => mem_do_rinst)
      BY <1>1, <1>5, <2>1, <3>1
    <3> QED BY <3>1, <3>2, <3>3 DEF ReqInv, DataRequests, Fetching
  <2>2. CASE cpu_state # "trap"
    BY <1>2, <1>5, <2>2 DEF ReqInv, DataRequests
  <2> QED BY <2>1, <2>2
<1> QED BY <1>3, <1>6, <1>7 DEF ReqInv

LEMMA DataOutcome ==
    ASSUME TypeOK, NEW i, InputOK(i), StMem(i) \/ LdMem(i)
    PROVE  /\ KeepFetch /\ cpu_state \in {"stmem", "ldmem"}
           /\ \E r \in Result : DataResult(i, r)
<1> DEFINE d == Default(i)
<1>1. d \in Result
  BY DefaultResult
<1>2. /\ d.set = "none" /\ (d.trigger <=> mem_do_rinst /\ mem_done(i)) /\ ~d.pseudo
      /\ d.prefetch = mem_do_prefetch /\ d.rinst = mem_do_rinst /\ d.cpu_state = cpu_state
      /\ d.pending = irq_pending \cap LATCHED_IRQ /\ d.pcpi = pcpi_valid
  BY DefaultFields
<1> HIDE DEF d
<1>3. KeepFetch /\ cpu_state \in {"stmem", "ldmem"}
  BY DEF StMem, LdMem, DataState
<1>4. ASSUME NEW r \in Result, r.set \in {"none", "rdata", "wdata"},
             r.prefetch = mem_do_prefetch, r.rinst = mem_do_rinst, ~r.pseudo,
             r.cpu_state = cpu_state, r.trigger = d.trigger,
             r.pending = d.pending, r.pcpi = pcpi_valid,
             cpu_state = "stmem" /\ FetchedNext(i) /\ ~mem_do_wdata <=> r.set = "wdata",
             cpu_state = "ldmem" /\ FetchedNext(i) /\ ~mem_do_rdata <=> r.set = "rdata",
             Finish(i, DataDone(i, r))
      PROVE  DataDone(i, r) \in Result /\ DataResult(i, DataDone(i, r))
  <2> DEFINE q == [r EXCEPT !.cpu_state = "fetch", !.trigger = TRUE, !.pseudo = TRUE]
  <2>1. q \in Result
    BY DEF Result, States
  <2>2. /\ q.set = r.set /\ q.prefetch = mem_do_prefetch /\ q.rinst = mem_do_rinst
        /\ q.cpu_state = "fetch" /\ q.trigger /\ q.pseudo
        /\ q.pending = d.pending /\ q.pcpi = pcpi_valid
    BY <1>4 DEF Result
  <2>3. DataDone(i, r) = IF Accessed(i) THEN q ELSE r
    BY DEF DataDone
  <2> HIDE DEF q
  <2>4. CASE Accessed(i)
    BY <1>2, <1>4, <2>1, <2>2, <2>3, <2>4 DEF DataResult
  <2>5. CASE ~Accessed(i)
    BY <1>2, <1>4, <2>3, <2>5 DEF DataResult
  <2> QED BY <2>4, <2>5
<1> DEFINE w == [d EXCEPT !.set = "wdata"]
           l == [d EXCEPT !.store = TRUE, !.set = "rdata"]
           m == [d EXCEPT !.store = TRUE,
                 !.reg_out = IF Accessed(i) /\ latched_is # NoAddr THEN Value ELSE NoAddr]
<1>5. NoAddr \in Values /\ Value \in Values
  BY DEF Values
<1>6. w \in Result /\ l \in Result /\ m \in Result
  BY <1>1, <1>5 DEF Result
<1>7. /\ w.set = "wdata" /\ w.prefetch = mem_do_prefetch /\ w.rinst = mem_do_rinst /\ ~w.pseudo
      /\ w.cpu_state = cpu_state /\ w.trigger = d.trigger /\ w.pending = d.pending /\ w.pcpi = pcpi_valid
      /\ l.set = "rdata" /\ l.prefetch = mem_do_prefetch /\ l.rinst = mem_do_rinst /\ ~l.pseudo
      /\ l.cpu_state = cpu_state /\ l.trigger = d.trigger /\ l.pending = d.pending /\ l.pcpi = pcpi_valid
      /\ m.set = "none" /\ m.prefetch = mem_do_prefetch /\ m.rinst = mem_do_rinst /\ ~m.pseudo
      /\ m.cpu_state = cpu_state /\ m.trigger = d.trigger /\ m.pending = d.pending /\ m.pcpi = pcpi_valid
  BY <1>1, <1>2 DEF Result
<1>8. CASE StMem(i)
  <2>1. /\ cpu_state = "stmem"
        /\ IF FetchedNext(i) /\ ~mem_do_wdata THEN Finish(i, DataDone(i, w)) ELSE Finish(i, DataDone(i, d))
    BY <1>8 DEF StMem, DataState, d
  <2> HIDE DEF w
  <2>2. CASE FetchedNext(i) /\ ~mem_do_wdata
    <3>1. Finish(i, DataDone(i, w))
      BY <2>1, <2>2
    <3>2. DataDone(i, w) \in Result /\ DataResult(i, DataDone(i, w))
      BY <1>4, <1>6, <1>7, <2>1, <2>2, <3>1
    <3> QED BY <1>3, <3>2
  <2>3. CASE ~(FetchedNext(i) /\ ~mem_do_wdata)
    <3>1. Finish(i, DataDone(i, d))
      BY <2>1, <2>3
    <3>2. DataDone(i, d) \in Result /\ DataResult(i, DataDone(i, d))
      BY <1>1, <1>2, <1>4, <2>1, <2>3, <3>1
    <3> QED BY <1>3, <3>2
  <2> QED BY <1>3, <2>2, <2>3
<1>9. CASE LdMem(i)
  <2>1. /\ cpu_state = "ldmem"
        /\ IF FetchedNext(i) /\ ~mem_do_rdata THEN Finish(i, DataDone(i, l)) ELSE Finish(i, DataDone(i, m))
    BY <1>9 DEF LdMem, DataState, d
  <2> HIDE DEF l, m
  <2>2. CASE FetchedNext(i) /\ ~mem_do_rdata
    <3>1. Finish(i, DataDone(i, l))
      BY <2>1, <2>2
    <3>2. DataDone(i, l) \in Result /\ DataResult(i, DataDone(i, l))
      BY <1>4, <1>6, <1>7, <2>1, <2>2, <3>1
    <3> QED BY <1>3, <3>2
  <2>3. CASE ~(FetchedNext(i) /\ ~mem_do_rdata)
    <3>1. Finish(i, DataDone(i, m))
      BY <2>1, <2>3
    <3>2. DataDone(i, m) \in Result /\ DataResult(i, DataDone(i, m))
      BY <1>4, <1>6, <1>7, <2>1, <2>3, <3>1
    <3> QED BY <1>3, <3>2
  <2> QED BY <1>3, <2>2, <2>3
<1> QED BY <1>8, <1>9

LEMMA DataStep ==
    ASSUME TypeOK, ReqInv, NEW i, InputOK(i), StMem(i) \/ LdMem(i)
    PROVE  ReqInv'
<1>1. PICK r \in Result : DataResult(i, r)
  BY DataOutcome
<1>2. KeepFetch /\ cpu_state \in {"stmem", "ldmem"}
  BY DataOutcome
<1>3. EntryRequests'
  BY <1>2, OutsideFetch
<1>4. mem_done(i) => mem_do_rinst \/ mem_do_rdata \/ mem_do_wdata
  BY DoneIsRequested
<1>5. /\ mem_do_prefetch' <=> r.prefetch /\ ~mem_done(i)
      /\ mem_do_rinst' <=> r.set = "rinst" \/ (r.rinst /\ ~mem_done(i))
      /\ mem_do_rdata' <=> r.set = "rdata" \/ (mem_do_rdata /\ ~mem_done(i))
      /\ mem_do_wdata' <=> r.set = "wdata" \/ (mem_do_wdata /\ ~mem_done(i))
      /\ decoder_trigger' <=> r.trigger
      /\ cpu_state' = "trap" \/ cpu_state' = r.cpu_state
  BY <1>1, FinishValues DEF DataResult
<1>6. DataRequests'
  BY <1>1, <1>2, <1>4, <1>5 DEF ReqInv, DataRequests, FetchRequests, Fetching, FetchedNext, Accessed, DataResult
<1>7. FetchRequests'
  BY <1>1, <1>2, <1>4, <1>5 DEF ReqInv, DataRequests, FetchRequests, Fetching, LoadingOperands,
     FetchedNext, Accessed, DataResult
<1> QED BY <1>3, <1>6, <1>7 DEF ReqInv

LEMMA ReqStep == TypeOK /\ ReqInv /\ [Next]_vars => ReqInv'
<1>1. ASSUME TypeOK, ReqInv, Next PROVE ReqInv'
  <2>1. PICK i \in Inputs : Clock(i) \/ Reset(i)
    BY <1>1 DEF Next
  <2>2. InputOK(i)
    BY <1>1, InputsOK DEF TypeOK
  <2>3. CASE Clock(i)
    BY <1>1, <2>2, <2>3, FetchRequestsStep, LoadingStep, ComputeStep, DataStep DEF Clock, ExecuteStep
  <2>4. CASE Reset(i)
    BY <2>4 DEF Reset, ResetState, ReqInv, DataRequests, FetchRequests, EntryRequests, LoadingOperands
  <2> QED BY <2>1, <2>3, <2>4
<1>2. ASSUME ReqInv, UNCHANGED vars PROVE ReqInv'
  BY <1>2 DEF vars, coreVars, doVars, latchedVars, decVars, irqVars, ReqInv, DataRequests,
     FetchRequests, EntryRequests, LoadingOperands, Fetching
<1> QED BY <1>1, <1>2

LEMMA ReqInvariant == Spec => []ReqInv
<1>1. Init => ReqInv
  BY DEF Init, ReqInv, DataRequests, FetchRequests, EntryRequests, LoadingOperands
<1>2. TypeOK /\ ReqInv /\ [Next]_vars => ReqInv'
  BY ReqStep
<1> QED BY <1>1, <1>2, TypeCorrect, PTL DEF Spec

\* In every configuration the main state machine asks the memory interface for
\* one kind of transfer at a time, so its assertions never fail.
THEOREM OneRequestAtATime == Spec => []RequestsExclusive
<1>1. ReqInv => RequestsExclusive
  BY DEF ReqInv, DataRequests, RequestsExclusive
<1> QED BY <1>1, ReqInvariant, PTL

\* Interrupt entry never meets the write-back of an instruction, and is never
\* left half way: the (* parallel_case *) of cpu_state_fetch is justified.
THEOREM EntryIsAlone == Spec => []InterruptEntryAlone
<1>1. ReqInv => InterruptEntryAlone
  BY DEF ReqInv, EntryRequests, InterruptEntryAlone
<1> QED BY <1>1, ReqInvariant, PTL

-----------------------------------------------------------------------------
(* Pending interrupts                                                      *)

\* What irq_pending never holds: masked interrupts (MASKED_IRQ), and anything
\* on a core without interrupts.
PendingInv == irq_pending \cap MASKED_IRQ = {} /\ (~ENABLE_IRQ => irq_pending = {})

LEMMA PendingStep == PendingInv /\ [Next]_vars => PendingInv'
<1>1. ASSUME NEW i, NEW r, Finish(i, r) PROVE PendingInv'
  BY <1>1 DEF Finish, PendingInv
<1>2. ASSUME NEW i, Clock(i) PROVE PendingInv'
  BY <1>1, <1>2 DEF Clock, FetchStep, FetchInterrupt, FetchSaveReturn, FetchSaveMask, FetchWaitirq,
     LaunchJal, Launch, FetchIdle, ExecuteStep, LdRs1Step, LdRs1Trap, LdRs1Move, LdRs1Retirq,
     LdRs1Maskirq, LdRs1Timer, LdRs1Load, LdRs1ShiftImm, LdRs1Imm, LdRs1Rs2, Operands, LdRs2Trap,
     LdRs2Operands, ExecWait, ExecBranch, ExecAlu, Shift, StMem, LdMem, Trapped
<1>3. ASSUME NEW i, Reset(i) PROVE PendingInv'
  BY <1>3 DEF Reset, PendingInv
<1>4. ASSUME PendingInv, UNCHANGED vars PROVE PendingInv'
  BY <1>4 DEF vars, coreVars, irqVars, PendingInv
<1> QED BY <1>2, <1>3, <1>4 DEF Next

-----------------------------------------------------------------------------
(* The decoder registers and the instruction that is executed              *)

\* What the branches of fetch hand to Finish.
FetchResult(i, r) ==
    /\ Finish(i, r)
    /\ r.set = "none" /\ ~r.pseudo /\ r.pcpi = pcpi_valid
    /\ r.cpu_state \in {"fetch", "ld_rs1"} /\ (r.cpu_state = "ld_rs1" => decoder_trigger)
    /\ FetchSaveMask(i) \/ irq_pending \cap LATCHED_IRQ \subseteq r.pending

LEMMA FetchOutcome ==
    ASSUME TypeOK, NEW i, InputOK(i), FetchStep(i)
    PROVE  cpu_state = "fetch" /\ \E r \in Result : FetchResult(i, r)
<1> DEFINE f == Fetched(i)
           s == [f EXCEPT !.rinst = TRUE]
           m == [f EXCEPT !.pending = @ \cap irq_mask]
           w == [f EXCEPT !.store = TRUE, !.reg_out = Value, !.rinst = TRUE]
           v == [f EXCEPT !.waitirq = TRUE]
           j == [f EXCEPT !.branch = TRUE, !.rinst = TRUE]
           l == [f EXCEPT !.cpu_state = "ld_rs1", !.rinst = FALSE,
                          !.prefetch = dec.op \notin {"jalr", "retirq"}]
<1>1. cpu_state = "fetch"
  BY DEF FetchStep, FetchInterrupt, FetchSaveReturn, FetchSaveMask, FetchWaitirq, LaunchJal, Launch,
     FetchIdle, FetchTail, FetchHead
<1>2. /\ f \in Result /\ f.pending = irq_pending \cap LATCHED_IRQ
      /\ f.set = "none" /\ ~f.pseudo /\ f.pcpi = pcpi_valid /\ f.cpu_state = "fetch"
  BY <1>1, DefaultResult DEF Fetched, Default
<1> HIDE DEF f
<1>3. s \in Result /\ m \in Result /\ w \in Result /\ v \in Result /\ j \in Result /\ l \in Result
  BY <1>2 DEF Result, States, Values
<1>4. /\ s.set = "none" /\ ~s.pseudo /\ s.pcpi = pcpi_valid /\ s.cpu_state = "fetch" /\ s.pending = f.pending
      /\ m.set = "none" /\ ~m.pseudo /\ m.pcpi = pcpi_valid /\ m.cpu_state = "fetch"
      /\ w.set = "none" /\ ~w.pseudo /\ w.pcpi = pcpi_valid /\ w.cpu_state = "fetch" /\ w.pending = f.pending
      /\ v.set = "none" /\ ~v.pseudo /\ v.pcpi = pcpi_valid /\ v.cpu_state = "fetch" /\ v.pending = f.pending
      /\ j.set = "none" /\ ~j.pseudo /\ j.pcpi = pcpi_valid /\ j.cpu_state = "fetch" /\ j.pending = f.pending
      /\ l.set = "none" /\ ~l.pseudo /\ l.pcpi = pcpi_valid /\ l.cpu_state = "ld_rs1" /\ l.pending = f.pending
  BY <1>2 DEF Result
<1>5. \/ Finish(i, f) \/ Finish(i, s) \/ Finish(i, w) \/ Finish(i, v) \/ Finish(i, j)
      \/ Finish(i, m) /\ FetchSaveMask(i)
      \/ Finish(i, l) /\ decoder_trigger
  BY DEF FetchStep, FetchInterrupt, FetchSaveReturn, FetchSaveMask, FetchWaitirq, LaunchJal, Launch,
     FetchIdle, f
<1> HIDE DEF s, m, w, v, j, l
<1> QED BY <1>1, <1>2, <1>3, <1>4, <1>5 DEF FetchResult

\* The second-stage registers hold an instruction the first stage found.
Matches == IF dec.op = "other" THEN insn.op \in Stage2Ops ELSE insn.op = dec.op

\* While operands are loaded both stages describe one instruction; a data
\* access is asked for when its successor is fetched, and by the time it
\* triggers that one, without another decode, both stages describe it.
Decoded ==
    /\ LoadingOperands => Matches
    /\ mem_do_wdata /\ cpu_state = "stmem" => Matches \/ (decoder_trigger /\ ~decoder_pseudo_trigger)
    /\ mem_do_rdata /\ cpu_state = "ldmem" => Matches \/ (decoder_trigger /\ ~decoder_pseudo_trigger)
    /\ cpu_state = "fetch" /\ decoder_trigger /\ decoder_pseudo_trigger => Matches
    /\ decoder_pseudo_trigger => cpu_state \in {"fetch", "trap"}
    /\ cpu_state = "stmem" => mem_do_wdata \/ (mem_do_prefetch /\ mem_do_rinst)
    /\ cpu_state = "ldmem" => mem_do_rdata \/ (mem_do_prefetch /\ mem_do_rinst)

LEMMA DecodeMatches ==
    ASSUME TypeOK, NEW i, Decode(i), ~(mem_do_rinst /\ mem_done(i)),
           Matches \/ (decoder_trigger /\ ~decoder_pseudo_trigger)
    PROVE  Matches'
<1>1. dec' = dec
  BY DEF Decode
<1>2. CASE decoder_trigger /\ ~decoder_pseudo_trigger
  BY <1>1, <1>2 DEF Decode, Stage2, Matches
<1>3. CASE ~(decoder_trigger /\ ~decoder_pseudo_trigger)
  BY <1>1, <1>3 DEF Decode, Matches
<1> QED BY <1>2, <1>3

LEMMA DecodedStep ==
    ASSUME TypeOK, ReqInv, Decoded, NEW i, InputOK(i), FetchStep(i) \/ ExecuteStep(i)
    PROVE  Decoded'
<1>1. mem_done(i) => mem_do_rinst \/ mem_do_rdata \/ mem_do_wdata
  BY DoneIsRequested
<1>2. ASSUME NEW r \in Result, Finish(i, r)
      PROVE  /\ cpu_state' = "trap" \/ cpu_state' = r.cpu_state
             /\ decoder_trigger' = r.trigger /\ decoder_pseudo_trigger' = r.pseudo
             /\ Decode(i)
             /\ mem_do_prefetch' <=> r.prefetch /\ ~mem_done(i)
             /\ mem_do_rinst' <=> r.set = "rinst" \/ (r.rinst /\ ~mem_done(i))
             /\ mem_do_rdata' <=> r.set = "rdata" \/ (mem_do_rdata /\ ~mem_done(i))
             /\ mem_do_wdata' <=> r.set = "wdata" \/ (mem_do_wdata /\ ~mem_done(i))
  BY <1>2, FinishValues DEF Finish
<1>3. CASE FetchStep(i)
  <2>1. PICK r \in Result : FetchResult(i, r)
    BY <1>3, FetchOutcome
  <2>2. cpu_state = "fetch" /\ Finish(i, r) /\ ~r.pseudo
    BY <1>3, <2>1, FetchOutcome DEF FetchResult
  <2>3. cpu_state' \in {"fetch", "ld_rs1", "trap"} /\ (cpu_state' = "ld_rs1" => decoder_trigger)
    BY <1>2, <2>1, <2>2 DEF FetchResult
  <2>4. LoadingOperands' => Matches'
    BY <1>2, <2>2, <2>3, DecodeMatches DEF LoadingOperands, Decoded, ReqInv, FetchRequests, Fetching
  <2>5. ~decoder_pseudo_trigger'
    BY <1>2, <2>2
  <2> QED BY <2>3, <2>4, <2>5 DEF Decoded
<1>4. CASE LdRs1Step(i) \/ LdRs2Trap(i) \/ LdRs2Operands(i)
  <2>1. cpu_state \in {"ld_rs1", "ld_rs2"}
    BY <1>4 DEF LdRs1Step, LdRs1Trap, LdRs1Move, LdRs1Retirq, LdRs1Maskirq, LdRs1Timer,
       LdRs1Load, LdRs1ShiftImm, LdRs1Imm, LdRs1Rs2, LdRs1, LdRs2Trap, LdRs2Operands, LdRs2
  <2>2. ~mem_do_rinst /\ ~mem_do_wdata /\ ~mem_do_rdata /\ Matches
    BY <2>1 DEF ReqInv, DataRequests, FetchRequests, LoadingOperands, Decoded
  <2>3. PICK r \in Result : LoadingResult(i, r)
    BY <1>4, <2>2, LoadingOutcome
  <2>4. Finish(i, r) /\ ~r.pseudo /\ r.prefetch = mem_do_prefetch /\ r.set = "none"
    BY <2>3 DEF LoadingResult
  <2>5. Matches'
    BY <1>2, <2>2, <2>4, DecodeMatches
  <2>6. cpu_state' \in {"stmem", "ldmem"} => mem_do_prefetch' /\ mem_do_rinst'
    <3>1. cpu_state' \in {"stmem", "ldmem"} => r.rinst /\ dec.op \in {"load", "store"}
      BY <1>2, <2>3, <2>4 DEF LoadingResult
    <3>2. dec.op \in {"load", "store"} => mem_do_prefetch
      BY <2>1 DEF ReqInv, FetchRequests, LoadingOperands
    <3> QED BY <1>1, <1>2, <2>2, <2>4, <3>1, <3>2
  <2> QED BY <1>2, <2>4, <2>5, <2>6 DEF Decoded
<1>5. CASE ExecWait(i) \/ ExecBranch(i) \/ ExecAlu(i) \/ Shift(i) \/ Trapped(i)
  <2>1. PICK r \in Result : ComputeResult(i, r)
    BY <1>5, ComputeOutcome
  <2>2. Finish(i, r) /\ ~r.pseudo /\ r.cpu_state \in {"exec", "shift", "fetch", "trap"}
    BY <2>1 DEF ComputeResult
  <2>3. ~decoder_pseudo_trigger' /\ cpu_state' \in {"exec", "shift", "fetch", "trap"}
    BY <1>2, <2>2
  <2> QED BY <2>3 DEF Decoded, LoadingOperands
<1>6. CASE StMem(i) \/ LdMem(i)
  <2>1. PICK r \in Result : DataResult(i, r)
    BY <1>6, DataOutcome
  <2>2. cpu_state \in {"stmem", "ldmem"} /\ ~decoder_pseudo_trigger
    BY <1>6, DataOutcome DEF Decoded
  <2>3. Finish(i, r)
    BY <2>1 DEF DataResult
  <2>4. CASE Accessed(i)
    <3>1. cpu_state' \in {"fetch", "trap"}
      BY <1>2, <2>1, <2>3, <2>4 DEF DataResult
    <3>2. ~(mem_do_rinst /\ mem_done(i)) /\ (Matches \/ decoder_trigger)
      BY <1>1, <2>2, <2>4 DEF Accessed, Decoded, ReqInv, FetchRequests
    <3>3. Matches'
      BY <1>2, <2>2, <2>3, <3>2, DecodeMatches
    <3> QED BY <3>1, <3>3 DEF Decoded, LoadingOperands
  <2>5. CASE ~Accessed(i)
    <3>1. /\ cpu_state' \in {"trap", cpu_state} /\ ~decoder_pseudo_trigger'
          /\ decoder_trigger' <=> mem_do_rinst /\ mem_done(i)
      BY <1>2, <2>1, <2>3, <2>5 DEF DataResult
    <3>2. mem_done(i) => mem_do_rinst /\ mem_do_prefetch /\ ~mem_do_wdata /\ ~mem_do_rdata
      BY <1>1, <2>5 DEF Accessed, ReqInv, DataRequests, Fetching
    <3>3. CASE mem_done(i)
      <4>1. decoder_trigger'
        BY <3>1, <3>2, <3>3
      <4>2. /\ cpu_state = "stmem" => mem_do_wdata'
            /\ cpu_state = "ldmem" => mem_do_rdata'
        BY <1>2, <2>1, <2>3, <3>2, <3>3 DEF DataResult, FetchedNext
      <4> QED BY <2>2, <3>1, <4>1, <4>2 DEF Decoded, LoadingOperands
    <3>4. CASE ~mem_done(i)
      <4>1. /\ cpu_state = "stmem" => mem_do_wdata' \/ (mem_do_prefetch' /\ mem_do_rinst')
            /\ cpu_state = "ldmem" => mem_do_rdata' \/ (mem_do_prefetch' /\ mem_do_rinst')
        BY <1>2, <2>1, <2>3, <3>4 DEF DataResult, Decoded
      <4>2. ASSUME mem_do_wdata' \/ mem_do_rdata' PROVE mem_do_wdata \/ mem_do_rdata
        BY <1>2, <2>1, <2>2, <2>3, <3>4, <4>2 DEF DataResult, Decoded, FetchedNext
      <4>3. mem_do_wdata \/ mem_do_rdata => Matches \/ (decoder_trigger /\ ~decoder_pseudo_trigger)
        BY <2>2 DEF ReqInv, DataRequests, Decoded
      <4>4. mem_do_wdata' \/ mem_do_rdata' => Matches'
        BY <1>2, <2>3, <3>4, <4>2, <4>3, DecodeMatches
      <4> QED BY <2>2, <3>1, <4>1, <4>4 DEF Decoded, LoadingOperands
    <3> QED BY <3>3, <3>4
  <2> QED BY <2>4, <2>5
<1> QED BY <1>3, <1>4, <1>5, <1>6 DEF ExecuteStep

LEMMA DecodedInvariant == Spec => []Decoded
<1>1. Init => Decoded
  BY DEF Init, Decoded, LoadingOperands
<1>2. TypeOK /\ ReqInv /\ Decoded /\ [Next]_vars => Decoded'
  <2>1. ASSUME TypeOK, ReqInv, Decoded, Next PROVE Decoded'
    <3>1. PICK i \in Inputs : Clock(i) \/ Reset(i)
      BY <2>1 DEF Next
    <3>2. InputOK(i)
      BY <2>1, InputsOK DEF TypeOK
    <3>3. CASE Clock(i)
      BY <2>1, <3>2, <3>3, DecodedStep DEF Clock
    <3>4. CASE Reset(i)
      BY <3>4 DEF Reset, ResetState, Decoded, LoadingOperands
    <3> QED BY <3>1, <3>3, <3>4
  <2>2. ASSUME Decoded, UNCHANGED vars PROVE Decoded'
    BY <2>2 DEF vars, coreVars, doVars, decVars, Decoded, LoadingOperands, Matches
  <2> QED BY <2>1, <2>2
<1> QED BY <1>1, <1>2, TypeCorrect, ReqInvariant, PTL DEF Spec

-----------------------------------------------------------------------------
(* The co-processor timeout                                                *)

\* pcpi_valid belongs to one instruction that waits for its operands' unit;
\* by the time the next instruction triggers, the counter is full again.
PcpiInv ==
    /\ pcpi_valid => LoadingOperands /\ IsTrap /\ (WITH_PCPI \/ cpu_state = "ld_rs2")
    /\ decoder_trigger => pcpi_timeout_counter = PCPI_TIMEOUT
    /\ LoadingOperands /\ ~pcpi_valid => pcpi_timeout_counter = PCPI_TIMEOUT /\ ~pcpi_timeout
    /\ ~WITH_PCPI => pcpi_timeout_counter = PCPI_TIMEOUT /\ ~pcpi_timeout

\* Without a request the counter fills up, and a full counter is no timeout.
LEMMA TimeoutFills ==
    ASSUME PcpiInv, NEW i, Timeout(i)
    PROVE  /\ ~pcpi_valid => pcpi_timeout_counter' = PCPI_TIMEOUT
           /\ pcpi_timeout_counter = PCPI_TIMEOUT => ~pcpi_timeout'
           /\ ~WITH_PCPI => pcpi_timeout_counter' = PCPI_TIMEOUT /\ ~pcpi_timeout'
<1>1. PCPI_TIMEOUT # 0
  BY ParamAssumption
<1>2. CASE WITH_PCPI
  BY <1>1, <1>2 DEF Timeout
<1>3. CASE ~WITH_PCPI
  BY <1>3 DEF Timeout, PcpiInv
<1> QED BY <1>2, <1>3

LEMMA PcpiStep ==
    ASSUME TypeOK, ReqInv, Decoded, PcpiInv, NEW i, InputOK(i), FetchStep(i) \/ ExecuteStep(i)
    PROVE  PcpiInv'
<1>1. ASSUME NEW r \in Result, Finish(i, r)
      PROVE  /\ cpu_state' = "trap" \/ cpu_state' = r.cpu_state
             /\ ~Misaligned => cpu_state' = r.cpu_state
             /\ decoder_trigger' = r.trigger /\ pcpi_valid' = r.pcpi
             /\ Timeout(i) /\ Decode(i)
  BY <1>1, FinishValues DEF Finish
<1>2. ASSUME ~LoadingOperands, ~pcpi_valid', Timeout(i), LoadingOperands' => decoder_trigger
      PROVE  PcpiInv'
  BY <1>2, TimeoutFills DEF PcpiInv
<1>3. CASE FetchStep(i)
  <2>1. PICK r \in Result : FetchResult(i, r)
    BY <1>3, FetchOutcome
  <2>2. cpu_state = "fetch" /\ Finish(i, r)
    BY <1>3, <2>1, FetchOutcome DEF FetchResult
  <2>3. LoadingOperands' => decoder_trigger
    BY <1>1, <2>1, <2>2 DEF FetchResult, LoadingOperands
  <2>4. ~LoadingOperands /\ ~pcpi_valid'
    BY <1>1, <2>1, <2>2 DEF FetchResult, PcpiInv, LoadingOperands
  <2> QED BY <1>1, <1>2, <2>2, <2>3, <2>4
<1>4. CASE LdRs1Step(i) \/ LdRs2Trap(i) \/ LdRs2Operands(i)
  <2>1. LoadingOperands
    BY <1>4 DEF LdRs1Step, LdRs1Trap, LdRs1Move, LdRs1Retirq, LdRs1Maskirq, LdRs1Timer,
       LdRs1Load, LdRs1ShiftImm, LdRs1Imm, LdRs1Rs2, LdRs1, LdRs2Trap, LdRs2Operands, LdRs2, LoadingOperands
  <2>2. /\ ~mem_do_rinst /\ ~mem_do_wdata /\ ~mem_do_rdata /\ ~decoder_trigger /\ Matches
        /\ cpu_state \in {"ld_rs1", "ld_rs2"}
    BY <2>1 DEF ReqInv, DataRequests, FetchRequests, LoadingOperands, Decoded
  <2>3. PICK r \in Result : LoadingResult(i, r)
    BY <1>4, <2>2, LoadingOutcome
  <2>4. /\ Finish(i, r) /\ ~r.trigger
        /\ r.pcpi => PcpiResult(r)
        /\ pcpi_valid /\ r.cpu_state \in {"ld_rs1", "ld_rs2"} => r.pcpi
    BY <2>3 DEF LoadingResult
  <2>5. ~Misaligned
    BY <2>2 DEF Misaligned
  <2>6. cpu_state' = r.cpu_state /\ insn' = insn /\ ~decoder_trigger' /\ pcpi_valid' = r.pcpi /\ Timeout(i)
    BY <1>1, <2>2, <2>4, <2>5 DEF Decode
  <2>7. pcpi_valid => IsTrap /\ dec.op \notin Stage1Ops /\ (WITH_PCPI \/ cpu_state = "ld_rs2")
    BY <2>2 DEF PcpiInv, Matches, IsTrap, Stage1Ops
  <2>8. pcpi_valid' => LoadingOperands' /\ IsTrap' /\ (WITH_PCPI \/ cpu_state' = "ld_rs2")
    BY <2>4, <2>6, <2>7 DEF PcpiResult, LoadingOperands, IsTrap
  <2>9. LoadingOperands' /\ ~pcpi_valid' => ~pcpi_valid
    BY <2>4, <2>6 DEF LoadingOperands
  <2>10. ~pcpi_valid => pcpi_timeout_counter = PCPI_TIMEOUT
    BY <2>1 DEF PcpiInv
  <2> QED BY <2>6, <2>8, <2>9, <2>10, TimeoutFills DEF PcpiInv
<1>5. CASE ExecWait(i) \/ ExecBranch(i) \/ ExecAlu(i) \/ Shift(i) \/ Trapped(i)
  <2>1. PICK r \in Result : ComputeResult(i, r)
    BY <1>5, ComputeOutcome
  <2>2. cpu_state \in {"exec", "shift", "trap"}
    BY <1>5, ComputeOutcome
  <2>3. Finish(i, r) /\ r.cpu_state \in {"exec", "shift", "fetch", "trap"} /\ r.pcpi = pcpi_valid
    BY <2>1 DEF ComputeResult
  <2>4. ~LoadingOperands /\ ~LoadingOperands' /\ ~pcpi_valid'
    BY <1>1, <2>2, <2>3 DEF LoadingOperands, PcpiInv
  <2> QED BY <1>1, <1>2, <2>3, <2>4
<1>6. CASE StMem(i) \/ LdMem(i)
  <2>1. PICK r \in Result : DataResult(i, r)
    BY <1>6, DataOutcome
  <2>2. cpu_state \in {"stmem", "ldmem"}
    BY <1>6, DataOutcome
  <2>3. Finish(i, r) /\ r.cpu_state \in {"stmem", "ldmem", "fetch"} /\ r.pcpi = pcpi_valid
    BY <2>1, <2>2 DEF DataResult
  <2>4. ~LoadingOperands /\ ~LoadingOperands' /\ ~pcpi_valid'
    BY <1>1, <2>2, <2>3 DEF LoadingOperands, PcpiInv
  <2> QED BY <1>1, <1>2, <2>3, <2>4
<1> QED BY <1>3, <1>4, <1>5, <1>6 DEF ExecuteStep

LEMMA PcpiInvariant == Spec => []PcpiInv
<1>1. Init => PcpiInv
  BY DEF Init, PcpiInv, LoadingOperands
<1>2. TypeOK /\ ReqInv /\ Decoded /\ PcpiInv /\ [Next]_vars => PcpiInv'
  <2>1. ASSUME TypeOK, ReqInv, Decoded, PcpiInv, Next PROVE PcpiInv'
    <3>1. PICK i \in Inputs : Clock(i) \/ Reset(i)
      BY <2>1 DEF Next
    <3>2. InputOK(i)
      BY <2>1, InputsOK DEF TypeOK
    <3>3. CASE Clock(i)
      BY <2>1, <3>2, <3>3, PcpiStep DEF Clock
    <3>4. CASE Reset(i)
      BY <3>4 DEF Reset, ResetState, PcpiInv, LoadingOperands
    <3> QED BY <3>1, <3>3, <3>4
  <2>2. ASSUME PcpiInv, UNCHANGED vars PROVE PcpiInv'
    BY <2>2 DEF vars, coreVars, decVars, pcpiVars, PcpiInv, LoadingOperands, IsTrap
  <2> QED BY <2>1, <2>2
<1> QED BY <1>1, <1>2, TypeCorrect, ReqInvariant, DecodedInvariant, PTL DEF Spec

\* However the co-processors answered before, wait or keep silent, the next
\* instruction that asks them starts with the whole timeout, for any length.
THEOREM TimeoutIsFresh == Spec => []FreshTimeout
<1>1. PcpiInv => FreshTimeout
  BY DEF PcpiInv, FreshTimeout, LoadingOperands
<1> QED BY <1>1, PcpiInvariant, PTL

-----------------------------------------------------------------------------
(* Latched interrupts                                                      *)

LEMMA PendingKeptByFinish ==
    ASSUME PendingInv, NEW i, NEW r \in Result, Finish(i, r), irq_pending \cap LATCHED_IRQ \subseteq r.pending
    PROVE  irq_pending \cap LATCHED_IRQ \subseteq irq_pending'
<1>1. CASE ENABLE_IRQ
  BY <1>1 DEF Finish, NextPending, PendingInv
<1>2. CASE ~ENABLE_IRQ
  BY <1>2 DEF PendingInv
<1> QED BY <1>1, <1>2

\* A latched interrupt is never lost: in every cycle it stays pending or is
\* reported by eoi, unless the core is reset.
THEOREM NoLatchedIrqLost == Spec => LatchedIrqKept
<1> DEFINE Kept == \/ ResetState
                   \/ \A n \in irq_pending \cap LATCHED_IRQ : n \in irq_pending' \/ n \in eoi'
<1>1. Init => PendingInv
  BY DEF Init, PendingInv
<1>2. PendingInv /\ [Next]_vars => PendingInv'
  BY PendingStep
<1>3. TypeOK /\ ReqInv /\ PendingInv /\ [Next]_vars => [Kept]_vars
  <2>1. ASSUME TypeOK, ReqInv, PendingInv, Next PROVE Kept
    <3>1. PICK i \in Inputs : Clock(i) \/ Reset(i)
      BY <2>1 DEF Next
    <3>2. InputOK(i)
      BY <2>1, InputsOK DEF TypeOK
    <3>3. CASE Reset(i)
      BY <3>3 DEF Reset
    <3>4. CASE FetchSaveMask(i)
      <4>1. eoi' = irq_pending \ irq_mask /\ Finish(i, [Fetched(i) EXCEPT !.pending = @ \cap irq_mask])
        BY <2>1, <3>4 DEF FetchSaveMask, ReqInv, EntryRequests
      <4> DEFINE r == [Fetched(i) EXCEPT !.pending = @ \cap irq_mask]
      <4>2. Fetched(i) \in Result /\ Fetched(i).pending = irq_pending \cap LATCHED_IRQ
        BY <2>1, <3>2, DefaultResult DEF Fetched, Default
      <4>3. r \in Result /\ r.pending = irq_pending \cap LATCHED_IRQ \cap irq_mask
        BY <4>2 DEF Result
      <4>4. irq_pending \cap LATCHED_IRQ \cap irq_mask \subseteq irq_pending'
        <5>1. Finish(i, r)
          BY <4>1
        <5> HIDE DEF r
        <5>2. CASE ENABLE_IRQ
          BY <2>1, <4>3, <5>1, <5>2 DEF Finish, NextPending, PendingInv
        <5>3. CASE ~ENABLE_IRQ
          BY <2>1, <5>3 DEF PendingInv
        <5> QED BY <5>2, <5>3
      <4> QED BY <4>1, <4>4
    <3>5. CASE Clock(i) /\ ~FetchSaveMask(i)
      <4>1. \E r \in Result : Finish(i, r) /\ irq_pending \cap LATCHED_IRQ \subseteq r.pending
        <5>1. CASE FetchStep(i)
          BY <2>1, <3>2, <3>5, <5>1, FetchOutcome DEF FetchResult
        <5>2. CASE LdRs1Step(i) \/ LdRs2Trap(i) \/ LdRs2Operands(i)
          <6>1. cpu_state \in {"ld_rs1", "ld_rs2"}
            BY <5>2 DEF LdRs1Step, LdRs1Trap, LdRs1Move, LdRs1Retirq, LdRs1Maskirq, LdRs1Timer,
               LdRs1Load, LdRs1ShiftImm, LdRs1Imm, LdRs1Rs2, LdRs1, LdRs2Trap, LdRs2Operands, LdRs2
          <6>2. ~mem_do_rinst
            BY <2>1, <6>1 DEF ReqInv, FetchRequests, LoadingOperands
          <6> QED BY <2>1, <3>2, <5>2, <6>2, LoadingOutcome DEF LoadingResult
        <5>3. CASE ExecWait(i) \/ ExecBranch(i) \/ ExecAlu(i) \/ Shift(i) \/ Trapped(i)
          BY <2>1, <3>2, <5>3, ComputeOutcome DEF ComputeResult
        <5>4. CASE StMem(i) \/ LdMem(i)
          BY <2>1, <3>2, <5>4, DataOutcome DEF DataResult
        <5> QED BY <3>5, <5>1, <5>2, <5>3, <5>4 DEF Clock, ExecuteStep
      <4> QED BY <2>1, <4>1, PendingKeptByFinish
    <3> QED BY <3>1, <3>3, <3>4, <3>5
  <2>2. ASSUME UNCHANGED vars PROVE [Kept]_vars
    BY <2>2
  <2> QED BY <2>1, <2>2
<1> QED BY <1>1, <1>2, <1>3, TypeCorrect, ReqInvariant, PTL DEF Spec, LatchedIrqKept

-----------------------------------------------------------------------------
(* The memory interface: a transfer under way is what was asked for, and a *)
(* request on the bus stays as it is until it is answered.                 *)

-----------------------------------------------------------------------------
(* The main state machine, as far as the memory interface depends on it    *)

\* A branch that was found taken and waits for the fetch it will throw away.
Taken == cpu_state = "exec" /\ latched_branch

TrapState == trap => cpu_state = "trap"

\* When next_pc may be a jump target, and that an instruction is there to be
\* launched only when it is not.
BranchPhase ==
    /\ latched_stalu => cpu_state = "fetch"
    /\ latched_branch => cpu_state \in {"fetch", "exec"}
    /\ Taken => /\ dec.op = "branch" /\ latched_store /\ ~alu_wait /\ ~alu_wait_2
                /\ insn.arg # NotTaken /\ reg_out = PcPlusImm
    /\ latched_branch /\ latched_store /\ latched_stalu => ~Fetching
    /\ decoder_trigger => cpu_state \in {"fetch", "stmem", "ldmem"} /\ ~latched_branch /\ irq_state = 0

\* When an instruction is prefetched, and when it is asked for.
FetchPhase ==
    /\ cpu_state \in {"ld_rs1", "ld_rs2", "exec", "shift"} /\ dec.op \in {"jalr", "retirq"} => ~Fetching
    /\ cpu_state \in {"ld_rs1", "ld_rs2", "shift"} => ~mem_do_rinst
    /\ cpu_state = "exec" => /\ AluWaits => ~mem_do_rinst
                             /\ ~AluWaits /\ mem_do_prefetch => mem_do_rinst
                             /\ dec.op = "branch" => mem_do_prefetch
    /\ do_waitirq \/ irq_state = 1 => ~Fetching

\* A branch waits until the comparison is that of its operands.
ComparePhase ==
    cpu_state = "exec" /\ dec.op = "branch" =>
        /\ AluValid \/ (alu_wait /\ (TWO_CYCLE_COMPARE => alu_wait_2))
        /\ CompareValid \/ alu_wait \/ alu_wait_2

Control == TrapState /\ (cpu_state # "trap" => BranchPhase /\ FetchPhase /\ ComparePhase)

\* What one clock edge may do to the requests and to next_pc.
Moves(i) ==
    /\ ~trap'
    /\ mem_do_prefetch /\ ~mem_done(i) => mem_do_prefetch'
    /\ mem_do_rinst /\ ~mem_done(i) => mem_do_rinst'
    /\ mem_do_rdata /\ ~mem_done(i) => mem_do_rdata' /\ ~Fetching'
    /\ mem_do_wdata /\ ~mem_done(i) => mem_do_wdata'
    /\ mem_do_rdata \/ mem_do_wdata => ~latched_branch' /\ irq_state' = 0
    /\ mem_done(i) /\ ~latched_branch' => ~Fetching'
    /\ Fetching /\ irq_state = 0 => irq_state' = 0
    /\ irq_state' # 0 => ~Fetching
    /\ Fetching /\ ~latched_branch' => next_pc' = next_pc
    /\ Fetching /\ latched_branch' =>
          /\ cpu_state = "exec" /\ mem_do_rinst
          /\ latched_branch => next_pc' = next_pc
          /\ cpu_state' = "fetch" => mem_done(i)
    /\ Taken => latched_branch'
    /\ cpu_state' = "fetch" /\ mem_do_prefetch' => mem_do_rinst' \/ (LoadingOperands /\ mem_do_prefetch)
    /\ cpu_state' \notin {"fetch", "trap"} /\ Fetching' /\ ~latched_branch' =>
          (Fetching /\ cpu_state # "fetch") \/ Launch(i)
    /\ cpu_state' \in {"ld_rs2", "exec", "shift"} =>
          cpu_state \in {"ld_rs1", "ld_rs2", "exec", "shift"}
    /\ decoder_trigger' \/ (cpu_state' \in {"stmem", "ldmem"} /\ ~mem_do_prefetch') =>
          \/ mem_do_rinst /\ mem_done(i) /\ ~latched_branch'
             /\ dec'.long = mem_rdata_latched(i).long
          \/ cpu_state \in {"stmem", "ldmem"} /\ ~mem_do_prefetch /\ dec' = dec
             /\ reg_next_pc' = reg_next_pc /\ ~latched_branch

\* An instruction that completes its fetch is decoded as what was read.
LEMMA Stage1Length ==
    ASSUME NEW p, NEW d \in Stage1(p)
    PROVE  d.long = p.long
  BY DEF Stage1

\* In the fetch state.
LEMMA FetchFacts ==
    ASSUME TypeOK, ReqInv, Control, NEW i, InputOK(i), FetchStep(i)
    PROVE  /\ cpu_state = "fetch" /\ cpu_state' \in {"fetch", "ld_rs1", "trap"}
           /\ ~trap' /\ ~latched_stalu'
           /\ latched_branch' => decoder_trigger /\ ~latched_store' /\ cpu_state' # "ld_rs1"
           /\ decoder_trigger' <=> mem_do_rinst /\ mem_done(i)
           /\ irq_state' # 0 => decoder_trigger \/ irq_state = 1
           /\ irq_state' = 1 => decoder_trigger /\ ~mem_do_rinst'
           /\ do_waitirq' => (decoder_trigger \/ do_waitirq) /\ ~mem_do_rinst'
           /\ ~Launch(i) => (mem_do_prefetch' <=> mem_do_prefetch /\ ~mem_done(i))
                            /\ cpu_state' # "ld_rs1"
           /\ Launch(i) => /\ decoder_trigger /\ ~mem_do_rinst' /\ ~do_waitirq' /\ irq_state' = 0
                           /\ cpu_state' # "fetch"
                           /\ mem_do_prefetch' <=> dec.op \notin {"jalr", "retirq"} /\ ~mem_done(i)
           /\ Fetching => /\ reg_next_pc' = current_pc /\ ~decoder_trigger /\ ~do_waitirq
                          /\ mem_do_rinst' <=> ~mem_done(i)
           /\ ~mem_do_rdata /\ ~mem_do_wdata /\ Decode(i)
<1>1. /\ cpu_state = "fetch" /\ ~mem_do_rdata /\ ~mem_do_wdata
      /\ decoder_trigger => ~Fetching
      /\ do_waitirq \/ irq_state = 1 => ~Fetching
      /\ mem_done(i) => mem_do_rinst
      /\ irq_state # 0 => ENABLE_IRQ /\ ~latched_store /\ ~latched_branch
  BY DoneIsRequested DEF ReqInv, DataRequests, FetchRequests, EntryRequests, FetchStep, FetchInterrupt, FetchSaveReturn, FetchSaveMask,
     FetchWaitirq, LaunchJal, Launch, FetchIdle, FetchTail, FetchHead, Control, FetchPhase
<1>2. mem_do_rinst \in BOOLEAN /\ mem_do_prefetch \in BOOLEAN /\ decoder_trigger \in BOOLEAN
      /\ irq_state \in 0 .. 2
  BY DEF TypeOK, RequestTypeOK, DecoderTypeOK, IrqTypeOK
<1> USE DEF FetchHead, FetchTail, InterruptTaken, Fetched, Default, Finish, Requests, Fetching
<1>3. CASE FetchInterrupt(i)
  BY <1>1, <1>2, <1>3 DEF FetchInterrupt, Launch
<1>4. CASE FetchSaveReturn(i)
  <2> HIDE DEF Fetched, Default, Finish, Requests
  <2>1. /\ FetchHead /\ irq_state = 1 /\ irq_state' = 2 /\ reg_next_pc' = current_pc /\ ~Launch(i)
        /\ Finish(i, [Fetched(i) EXCEPT !.rinst = TRUE])
    BY <1>1, <1>4 DEF FetchSaveReturn, Launch
  <2> QED BY <1>1, <1>2, <2>1 DEF Fetched, Default, Finish, Requests
<1>5. CASE FetchSaveMask(i)
  <2> HIDE DEF Fetched, Default, Finish, Requests
  <2>1. /\ FetchHead /\ irq_state = 2 /\ irq_state' = 0 /\ reg_next_pc' = current_pc /\ ~Launch(i)
        /\ Finish(i, [Fetched(i) EXCEPT !.pending = @ \cap irq_mask])
    BY <1>1, <1>5 DEF FetchSaveMask, Launch
  <2> QED BY <1>1, <1>2, <2>1 DEF Fetched, Default, Finish, Requests
<1>6. CASE FetchWaitirq(i)
  <2>1. decoder_trigger \/ do_waitirq
    BY <1>6 DEF FetchWaitirq, Waiting
  <2>2. CASE irq_pending # {}
    BY <1>1, <1>2, <1>6, <2>1, <2>2 DEF FetchWaitirq, Launch
  <2>3. CASE irq_pending = {}
    BY <1>1, <1>2, <1>6, <2>1, <2>3 DEF FetchWaitirq, Launch
  <2> QED BY <2>2, <2>3
<1>7. CASE LaunchJal(i)
  BY <1>1, <1>2, <1>7 DEF LaunchJal, Launch
<1>8. CASE Launch(i)
  BY <1>1, <1>2, <1>8 DEF Launch
<1>9. CASE FetchIdle(i)
  BY <1>1, <1>2, <1>9 DEF FetchIdle, Launch
<1> QED BY <1>3, <1>4, <1>5, <1>6, <1>7, <1>8, <1>9 DEF FetchStep

LEMMA DecodedLength ==
    ASSUME NEW i, Decode(i)
    PROVE  IF mem_do_rinst /\ mem_done(i) THEN dec'.long = mem_rdata_latched(i).long ELSE dec' = dec
  BY Stage1Length DEF Decode

LEMMA FetchMoves ==
    ASSUME TypeOK, ReqInv, Control, NEW i, InputOK(i), FetchStep(i)
    PROVE  Control' /\ Moves(i)
<1>1. /\ BranchPhase /\ FetchPhase
      /\ decoder_trigger => ~Fetching
      /\ mem_done(i) => mem_do_rinst
      /\ irq_state # 0 => ~latched_branch
  BY FetchFacts, DoneIsRequested DEF Control, ReqInv, FetchRequests, EntryRequests
<1>2. Control'
  <2>1. TrapState'
    BY FetchFacts DEF TrapState
  <2>2. BranchPhase' \/ cpu_state' = "trap"
    BY <1>1, FetchFacts DEF BranchPhase, FetchPhase, Taken, Fetching
  <2>3. FetchPhase' \/ cpu_state' = "trap"
    <3>1. cpu_state' = "ld_rs1" => dec' = dec
      BY <1>1, FetchFacts, DecodedLength DEF Fetching
    <3> QED BY <1>1, <3>1, FetchFacts DEF FetchPhase, Fetching
  <2>4. ComparePhase' \/ cpu_state' = "trap"
    BY FetchFacts DEF ComparePhase
  <2> QED BY <2>1, <2>2, <2>3, <2>4 DEF Control
<1>3. Moves(i)
  <2>1. next_pc' = reg_next_pc'
    BY FetchFacts DEF next_pc
  <2>2. Fetching => reg_next_pc' = next_pc
    BY <1>1, FetchFacts DEF BranchPhase, FetchPhase, current_pc, next_pc
  <2>3. mem_do_rinst /\ mem_done(i) => dec'.long = mem_rdata_latched(i).long
    BY FetchFacts, DecodedLength
  <2> QED BY <1>1, <2>1, <2>2, <2>3, FetchFacts DEF Moves, BranchPhase, FetchPhase, Fetching, Taken
<1> QED BY <1>2, <1>3

\* While operands are loaded nothing is fetched but what is prefetched.
LEMMA LoadFacts ==
    ASSUME TypeOK, ReqInv, Decoded, Control, NEW i, InputOK(i),
           LdRs1Step(i) \/ LdRs2Trap(i) \/ LdRs2Operands(i)
    PROVE  /\ LoadingOperands /\ ~mem_do_rinst /\ ~mem_do_rdata /\ ~mem_do_wdata /\ ~mem_done(i)
           /\ KeepFetch /\ ~latched_branch
           /\ ~trap' /\ latched_stalu' = latched_stalu /\ ~do_waitirq' /\ ~decoder_trigger'
           /\ dec' = dec /\ (mem_do_prefetch' <=> mem_do_prefetch)
           /\ latched_branch' => dec.op = "retirq" /\ cpu_state' \in {"fetch", "trap"}
           /\ cpu_state' \in {"ld_rs1", "ld_rs2", "shift"} => ~mem_do_rinst'
           /\ mem_do_rinst' => mem_do_prefetch \/ cpu_state' \in {"fetch", "trap"}
           /\ cpu_state' \in {"stmem", "ldmem"} => mem_do_prefetch
           /\ cpu_state' = "exec" =>
                 /\ alu_wait' = (TWO_CYCLE_ALU \/ (TWO_CYCLE_COMPARE /\ dec.op = "branch"))
                 /\ alu_wait_2' = (TWO_CYCLE_ALU /\ TWO_CYCLE_COMPARE /\ dec.op = "branch")
                 /\ mem_do_rinst' <=> mem_do_prefetch /\ ~alu_wait'
           /\ ~alu_add_sub'
<1>1. /\ LoadingOperands /\ ~mem_do_rinst /\ ~mem_do_rdata /\ ~mem_do_wdata /\ ~mem_done(i)
      /\ ~latched_branch /\ Matches
      /\ dec.op \notin {"jalr", "retirq"} => mem_do_prefetch
  BY DoneIsRequested DEF LdRs1Step, LdRs1Trap, LdRs1Move, LdRs1Retirq, LdRs1Maskirq, LdRs1Timer,
     LdRs1Load, LdRs1ShiftImm, LdRs1Imm, LdRs1Rs2, LdRs1, LdRs2Trap, LdRs2Operands, LdRs2,
     ReqInv, DataRequests, FetchRequests, LoadingOperands, Decoded, Control, BranchPhase
<1>2. /\ KeepFetch /\ dec' = dec /\ ~trap' /\ ~alu_add_sub'
  BY <1>1 DEF LdRs1Step, LdRs1Trap, LdRs1Move, LdRs1Retirq, LdRs1Maskirq, LdRs1Timer,
     LdRs1Load, LdRs1ShiftImm, LdRs1Imm, LdRs1Rs2, LdRs1, LdRs2Trap, LdRs2Operands, LdRs2,
     Operands, Finish, Alu, Decode, LoadingOperands
<1>3. mem_do_prefetch \in BOOLEAN /\ latched_branch \in BOOLEAN
  BY DEF TypeOK, RequestTypeOK, StateTypeOK
<1> DEFINE Facts ==
           /\ latched_stalu' = latched_stalu /\ ~do_waitirq' /\ ~decoder_trigger'
           /\ mem_do_prefetch' <=> mem_do_prefetch
           /\ latched_branch' => dec.op = "retirq" /\ cpu_state' \in {"fetch", "trap"}
           /\ cpu_state' \in {"ld_rs1", "ld_rs2", "shift"} => ~mem_do_rinst'
           /\ mem_do_rinst' => mem_do_prefetch \/ cpu_state' \in {"fetch", "trap"}
           /\ cpu_state' \in {"stmem", "ldmem"} => mem_do_prefetch
           /\ cpu_state' = "exec" =>
                 /\ alu_wait' = (TWO_CYCLE_ALU \/ (TWO_CYCLE_COMPARE /\ dec.op = "branch"))
                 /\ alu_wait_2' = (TWO_CYCLE_ALU /\ TWO_CYCLE_COMPARE /\ dec.op = "branch")
                 /\ mem_do_rinst' <=> mem_do_prefetch /\ ~alu_wait'
<1>4. SUFFICES Facts
  BY <1>1, <1>2
<1> USE DEF Default, Finish, Requests, LdRs1, LdRs2
<1>5. ASSUME Operands(i) PROVE Facts
  <2>1. CASE dec.op = "store"
    BY <1>1, <1>3, <1>5, <2>1 DEF Operands, LoadingOperands
  <2>2. CASE dec.op # "store" /\ insn.op = "sll" /\ ~BARREL_SHIFTER
    BY <1>1, <1>3, <1>5, <2>2 DEF Operands, LoadingOperands
  <2>3. CASE dec.op # "store" /\ ~(insn.op = "sll" /\ ~BARREL_SHIFTER)
    BY <1>1, <1>3, <1>5, <2>3, ParamAssumption DEF Operands, ToExec, LoadingOperands
  <2> QED BY <2>1, <2>2, <2>3
<1>6. ASSUME Finish(i, PcpiCycle(i)) PROVE Facts
  BY <1>1, <1>3, <1>6 DEF PcpiCycle, Raise, LoadingOperands
<1>7. CASE LdRs1Trap(i)
  <2>1. CASE ~WITH_PCPI
    BY <1>1, <1>3, <1>7, <2>1 DEF LdRs1Trap, Raise, LoadingOperands
  <2>2. CASE WITH_PCPI /\ ENABLE_REGS_DUALPORT
    <3> HIDE DEF Finish, Facts
    <3> QED BY <1>6, <1>7, <2>2 DEF LdRs1Trap
  <2>3. CASE WITH_PCPI /\ ~ENABLE_REGS_DUALPORT
    BY <1>1, <1>3, <1>7, <2>3 DEF LdRs1Trap, LoadingOperands
  <2> QED BY <2>1, <2>2, <2>3
<1>8. CASE LdRs1Move(i)
  BY <1>1, <1>3, <1>8 DEF LdRs1Move, LoadingOperands
<1>9. CASE LdRs1Retirq(i)
  BY <1>1, <1>3, <1>9 DEF LdRs1Retirq, LoadingOperands
<1>10. CASE LdRs1Maskirq(i)
  BY <1>1, <1>3, <1>10 DEF LdRs1Maskirq, LoadingOperands
<1>11. CASE LdRs1Timer(i)
  BY <1>1, <1>3, <1>11 DEF LdRs1Timer, LoadingOperands
<1>12. CASE LdRs1Load(i)
  BY <1>1, <1>3, <1>12 DEF LdRs1Load, LoadingOperands
<1>13. CASE LdRs1ShiftImm(i)
  BY <1>1, <1>3, <1>13 DEF LdRs1ShiftImm, LoadingOperands
<1>14. CASE LdRs1Imm(i)
  <2>1. dec.op # "branch"
    BY <1>1, <1>14 DEF LdRs1Imm, Matches
  <2> QED BY <1>1, <1>3, <1>14, <2>1, ParamAssumption DEF LdRs1Imm, ToExec, LoadingOperands
<1>15. CASE LdRs1Rs2(i)
  <2>1. CASE ENABLE_REGS_DUALPORT
    <3> HIDE DEF Finish, Facts
    <3> QED BY <1>5, <1>15, <2>1 DEF LdRs1Rs2
  <2>2. CASE ~ENABLE_REGS_DUALPORT
    BY <1>1, <1>3, <1>15, <2>2 DEF LdRs1Rs2, LoadingOperands
  <2> QED BY <2>1, <2>2
<1>16. CASE LdRs2Trap(i)
  <2> HIDE DEF Finish, Facts
  <2> QED BY <1>6, <1>16 DEF LdRs2Trap
<1>17. CASE LdRs2Operands(i)
  <2> HIDE DEF Finish, Facts
  <2> QED BY <1>5, <1>17 DEF LdRs2Operands
<1> QED BY <1>7, <1>8, <1>9, <1>10, <1>11, <1>12, <1>13, <1>14, <1>15, <1>16, <1>17 DEF LdRs1Step

LEMMA LoadMoves ==
    ASSUME TypeOK, ReqInv, Decoded, Control, NEW i, InputOK(i),
           LdRs1Step(i) \/ LdRs2Trap(i) \/ LdRs2Operands(i)
    PROVE  Control' /\ Moves(i)
<1>1. /\ BranchPhase /\ FetchPhase /\ irq_state = 0 /\ LoadingOperands /\ ~latched_stalu
      /\ dec.op \in {"jalr", "retirq"} => ~mem_do_prefetch
      /\ dec.op = "branch" => mem_do_prefetch
  BY LoadFacts DEF Control, BranchPhase, FetchPhase, LoadingOperands, ReqInv, EntryRequests, FetchRequests, Fetching
<1>2. irq_state' = 0 /\ reg_next_pc' = reg_next_pc
  BY <1>1, LoadFacts DEF KeepFetch
<1>3. Control'
  <2>1. TrapState'
    BY LoadFacts DEF TrapState
  <2>2. BranchPhase' \/ cpu_state' = "trap"
    BY <1>1, <1>2, LoadFacts DEF BranchPhase, Taken, Fetching
  <2>3. FetchPhase' \/ cpu_state' = "trap"
    BY <1>1, <1>2, LoadFacts, ParamAssumption DEF FetchPhase, Fetching, AluWaits
  <2>4. ComparePhase' \/ cpu_state' = "trap"
    BY <1>1, LoadFacts, ParamAssumption DEF ComparePhase, AluValid, CompareValid
  <2> QED BY <2>1, <2>2, <2>3, <2>4 DEF Control
<1>4. Moves(i)
  <2>1. next_pc = reg_next_pc /\ (~latched_branch' => next_pc' = reg_next_pc)
    BY <1>2, LoadFacts DEF next_pc
  <2> QED BY <1>1, <1>2, <2>1, LoadFacts DEF Moves, Fetching, Taken, LoadingOperands, Launch, FetchTail, FetchHead
<1> QED BY <1>3, <1>4

\* Instructions are executed while their successor is fetched: what the four
\* branches of exec and shift have in common.
LEMMA ComputeFacts ==
    ASSUME TypeOK, ReqInv, Control, NEW i, InputOK(i),
           ExecWait(i) \/ ExecBranch(i) \/ ExecAlu(i) \/ Shift(i)
    PROVE  /\ cpu_state \in {"exec", "shift"} /\ BranchPhase /\ FetchPhase /\ ComparePhase
           /\ ~mem_do_rdata /\ ~mem_do_wdata /\ (mem_done(i) => mem_do_rinst)
           /\ ~decoder_trigger /\ ~latched_stalu /\ irq_state = 0
           /\ KeepFetch /\ irq_state' = 0 /\ ~trap' /\ ~do_waitirq'
           /\ mem_do_prefetch' <=> mem_do_prefetch /\ ~mem_done(i)
           /\ ~mem_do_rdata' /\ ~mem_do_wdata' /\ insn' = insn
           /\ alu_add_sub' = (cpu_state = "exec") /\ alu_out_0_q' = AluValid
           /\ ~mem_done(i) => dec' = dec
           /\ mem_done(i) => dec'.long = mem_rdata_latched(i).long
<1>1. /\ cpu_state \in {"exec", "shift"} /\ KeepFetch
      /\ \E r : Finish(i, r) /\ r.prefetch = mem_do_prefetch /\ r.waitirq = FALSE
                /\ r.set \in {"none", "rinst"}
  <2>1. CASE ExecBranch(i)
    <3>1. PICK taken : Finish(i, [Default(i) EXCEPT
             !.store = taken, !.branch = taken, !.reg_out = PcPlusImm,
             !.cpu_state = IF mem_done(i) THEN "fetch" ELSE "exec",
             !.trigger = @ /\ ~taken,
             !.set = IF taken THEN "rinst" ELSE "none"])
      BY <2>1 DEF ExecBranch
    <3> DEFINE r == [Default(i) EXCEPT
             !.store = taken, !.branch = taken, !.reg_out = PcPlusImm,
             !.cpu_state = IF mem_done(i) THEN "fetch" ELSE "exec",
             !.trigger = @ /\ ~taken,
             !.set = IF taken THEN "rinst" ELSE "none"]
    <3>2. r.prefetch = mem_do_prefetch /\ r.waitirq = FALSE /\ r.set \in {"none", "rinst"}
      BY DEF Default
    <3>3. Finish(i, r)
      BY <3>1
    <3> HIDE DEF r
    <3> QED BY <2>1, <3>2, <3>3 DEF ExecBranch, Exec
  <2>2. CASE ExecWait(i)
    <3> DEFINE r == [Default(i) EXCEPT !.rinst = mem_do_prefetch /\ ~alu_wait_2,
                                       !.wait = alu_wait_2, !.reg_out = PcPlusImm]
    <3>1. r.prefetch = mem_do_prefetch /\ r.waitirq = FALSE /\ r.set = "none"
      BY DEF Default
    <3>2. Finish(i, r)
      BY <2>2 DEF ExecWait
    <3> HIDE DEF r
    <3> QED BY <2>2, <3>1, <3>2 DEF ExecWait, Exec
  <2>3. CASE ExecAlu(i)
    <3> DEFINE r == [Default(i) EXCEPT !.cpu_state = "fetch", !.store = TRUE, !.stalu = TRUE,
                                       !.branch = (dec.op = "jalr"), !.reg_out = PcPlusImm]
    <3>1. r.prefetch = mem_do_prefetch /\ r.waitirq = FALSE /\ r.set = "none"
      BY DEF Default
    <3>2. Finish(i, r)
      BY <2>3 DEF ExecAlu
    <3> HIDE DEF r
    <3> QED BY <2>3, <3>1, <3>2 DEF ExecAlu, Exec
  <2>4. CASE Shift(i)
    <3> DEFINE r == IF reg_sh = 0
                    THEN [Default(i) EXCEPT !.store = TRUE, !.reg_out = Value, !.cpu_state = "fetch",
                                            !.rinst = mem_do_prefetch]
                    ELSE [Default(i) EXCEPT !.store = TRUE]
    <3>1. r.prefetch = mem_do_prefetch /\ r.waitirq = FALSE /\ r.set = "none"
      BY DEF Default
    <3>2. Finish(i, r)
      BY <2>4 DEF Shift
    <3> HIDE DEF r
    <3> QED BY <2>4, <3>1, <3>2 DEF Shift
  <2> QED BY <2>1, <2>2, <2>3, <2>4
<1>2. PICK r : Finish(i, r) /\ r.prefetch = mem_do_prefetch /\ r.waitirq = FALSE
               /\ r.set \in {"none", "rinst"}
  BY <1>1
<1>3. /\ BranchPhase /\ FetchPhase /\ ComparePhase
      /\ ~mem_do_rdata /\ ~mem_do_wdata /\ irq_state = 0 /\ irq_state' = 0
      /\ ~decoder_trigger /\ ~latched_stalu
  BY <1>1 DEF Control, ReqInv, DataRequests, EntryRequests, KeepFetch, BranchPhase
<1>4. mem_done(i) => mem_do_rinst
  BY <1>3, DoneIsRequested
<1>5. /\ mem_do_prefetch' = (mem_do_prefetch /\ ~mem_done(i))
      /\ ~mem_do_rdata' /\ ~mem_do_wdata' /\ Decode(i) /\ ~trap' /\ ~do_waitirq'
      /\ alu_add_sub' = (cpu_state = "exec") /\ alu_out_0_q' = AluValid
  BY <1>1, <1>2, <1>3 DEF Finish, Requests, Alu
<1>6. insn' = insn
  BY <1>3, <1>5 DEF Decode
<1> QED BY <1>1, <1>3, <1>4, <1>5, <1>6, DecodedLength

\* While the registered ALU is waited for nothing is asked for.
LEMMA ExecWaitMoves ==
    ASSUME TypeOK, ReqInv, Control, NEW i, InputOK(i), ExecWait(i)
    PROVE  Control' /\ Moves(i)
<1>1. /\ cpu_state = "exec" /\ AluWaits /\ ~mem_do_rinst /\ ~mem_done(i) /\ ~latched_branch
      /\ alu_wait_2 \in BOOLEAN
  BY ComputeFacts DEF ExecWait, Exec, FetchPhase, BranchPhase, Taken, AluWaits, TypeOK, StateTypeOK
<1>2. /\ cpu_state' \in {"exec", "trap"} /\ ~decoder_trigger' /\ ~latched_branch' /\ ~latched_stalu'
      /\ mem_do_rinst' = (mem_do_prefetch /\ ~alu_wait_2)
      /\ alu_wait' = alu_wait_2 /\ alu_wait_2' = FALSE
  <2>1. /\ cpu_state' \in {"exec", "trap"} /\ mem_do_rinst' = (mem_do_prefetch /\ ~alu_wait_2 /\ ~mem_done(i))
        /\ decoder_trigger' = (mem_do_rinst /\ mem_done(i)) /\ latched_branch' = latched_branch
        /\ latched_stalu' = latched_stalu /\ alu_wait' = alu_wait_2 /\ alu_wait_2' = FALSE
    BY <1>1 DEF ExecWait, Default, Finish, Requests
  <2> QED BY <1>1, <2>1, ComputeFacts
<1>3. next_pc' = next_pc
  BY <1>1, <1>2, ComputeFacts DEF next_pc, KeepFetch
<1>4. Control'
  <2>1. TrapState' /\ (BranchPhase' \/ cpu_state' = "trap")
    BY <1>1, <1>2, ComputeFacts DEF TrapState, BranchPhase, Taken
  <2>2. FetchPhase' \/ cpu_state' = "trap"
    BY <1>1, <1>2, ComputeFacts DEF FetchPhase, Fetching, AluWaits
  <2>3. ComparePhase' \/ cpu_state' = "trap"
    BY <1>1, <1>2, ComputeFacts, ParamAssumption DEF ComparePhase, AluValid, CompareValid, AluWaits
  <2> QED BY <2>1, <2>2, <2>3 DEF Control
<1>5. Moves(i)
  BY <1>1, <1>2, <1>3, ComputeFacts DEF Moves, Fetching, Taken
<1> QED BY <1>4, <1>5

\* A branch that was found taken stays taken, at the same target, until the
\* fetch behind it is done.
LEMMA ExecBranchMoves ==
    ASSUME TypeOK, ReqInv, Control, NEW i, InputOK(i), ExecBranch(i)
    PROVE  Control' /\ Moves(i)
<1> DEFINE taken == insn.arg # NotTaken
<1>1. /\ cpu_state = "exec" /\ ~AluWaits /\ dec.op = "branch" /\ mem_do_prefetch /\ mem_do_rinst
      /\ CompareValid
  BY ComputeFacts, ParamAssumption DEF ExecBranch, Exec, FetchPhase, ComparePhase, AluWaits, AluValid, CompareValid
<1>2. /\ cpu_state' \in {IF mem_done(i) THEN "fetch" ELSE "exec", "trap"}
      /\ decoder_trigger' = (mem_do_rinst /\ mem_done(i) /\ ~taken)
      /\ latched_branch' = taken /\ latched_store' = taken /\ latched_stalu' = latched_stalu
      /\ mem_do_rinst' = (taken \/ (mem_do_rinst /\ ~mem_done(i)))
      /\ reg_out' = PcPlusImm /\ alu_wait' = FALSE /\ alu_wait_2' = FALSE
  <2>1. Finish(i, [Default(i) EXCEPT
             !.store = taken, !.branch = taken, !.reg_out = PcPlusImm,
             !.cpu_state = IF mem_done(i) THEN "fetch" ELSE "exec",
             !.trigger = @ /\ ~taken,
             !.set = IF taken THEN "rinst" ELSE "none"])
    BY <1>1 DEF ExecBranch
  <2> HIDE DEF taken
  <2> QED BY <2>1 DEF Default, Finish, Requests
<1>3. /\ AluValid' \/ cpu_state' # "exec"
      /\ CompareValid' \/ cpu_state' # "exec"
  BY <1>1, ComputeFacts, ParamAssumption DEF AluValid, CompareValid, ComparePhase, AluWaits
<1>4. /\ ~latched_stalu' /\ PcPlusImm' = PcPlusImm /\ reg_next_pc' = reg_next_pc
      /\ cpu_state' = "exec" => ~mem_done(i) /\ dec' = dec
      /\ cpu_state' = "fetch" => mem_done(i)
      /\ latched_branch => taken /\ reg_out = PcPlusImm /\ latched_store
  BY <1>1, <1>2, ComputeFacts DEF KeepFetch, PcPlusImm, FetchAddr, BranchPhase, Taken
<1>5. Control'
  <2>1. TrapState'
    BY <1>1, ComputeFacts DEF TrapState
  <2>2. BranchPhase' \/ cpu_state' = "trap"
    BY <1>1, <1>2, <1>4, ComputeFacts DEF BranchPhase, Taken, PcPlusImm, FetchAddr
  <2>3. FetchPhase' \/ cpu_state' = "trap"
    BY <1>1, <1>2, <1>4, ComputeFacts DEF FetchPhase, Fetching, AluWaits
  <2>4. ComparePhase' \/ cpu_state' = "trap"
    BY <1>3 DEF ComparePhase
  <2> QED BY <2>1, <2>2, <2>3, <2>4 DEF Control
<1>6. Moves(i)
  <2>1. next_pc' = next_pc \/ (latched_branch' /\ ~latched_branch)
    BY <1>2, <1>4, ComputeFacts DEF next_pc
  <2>2. Taken => latched_branch'
    BY <1>2, <1>4 DEF Taken
  <2> QED BY <1>1, <1>2, <1>4, <2>1, <2>2, ComputeFacts DEF Moves, Fetching
<1> QED BY <1>5, <1>6

\* Any other instruction ends and leaves the fetch of its successor to fetch.
LEMMA ExecAluMoves ==
    ASSUME TypeOK, ReqInv, Control, NEW i, InputOK(i), ExecAlu(i)
    PROVE  Control' /\ Moves(i)
<1>1. /\ cpu_state = "exec" /\ ~AluWaits /\ dec.op # "branch" /\ ~latched_branch
      /\ mem_do_prefetch => mem_do_rinst
      /\ dec.op = "jalr" => ~mem_do_prefetch /\ ~mem_do_rinst
  BY ComputeFacts DEF ExecAlu, Exec, FetchPhase, BranchPhase, Taken, Fetching
<1>2. /\ cpu_state' \in {"fetch", "trap"}
      /\ decoder_trigger' = (mem_do_rinst /\ mem_done(i))
      /\ latched_branch' = (dec.op = "jalr")
      /\ mem_do_rinst' = (mem_do_rinst /\ ~mem_done(i))
  BY DEF ExecAlu, Default, Finish, Requests
<1>3. latched_branch' \/ next_pc' = next_pc
  BY <1>1, <1>2, ComputeFacts DEF next_pc, KeepFetch
<1>4. Control'
  <2>1. TrapState' /\ (BranchPhase' \/ cpu_state' = "trap")
    BY <1>1, <1>2, ComputeFacts DEF TrapState, BranchPhase, Taken, Fetching
  <2>2. FetchPhase' \/ cpu_state' = "trap"
    BY <1>1, <1>2, ComputeFacts DEF FetchPhase, Fetching
  <2>3. ComparePhase' \/ cpu_state' = "trap"
    BY <1>2 DEF ComparePhase
  <2> QED BY <2>1, <2>2, <2>3 DEF Control
<1>5. Moves(i)
  BY <1>1, <1>2, <1>3, ComputeFacts DEF Moves, Fetching, Taken
<1> QED BY <1>4, <1>5

LEMMA ShiftMoves ==
    ASSUME TypeOK, ReqInv, Control, NEW i, InputOK(i), Shift(i)
    PROVE  Control' /\ Moves(i)
<1>1. /\ cpu_state = "shift" /\ ~latched_branch /\ ~mem_do_rinst /\ ~mem_done(i)
  BY ComputeFacts DEF Shift, FetchPhase, BranchPhase
<1>2. /\ cpu_state' \in {"fetch", "shift", "trap"} /\ ~decoder_trigger'
      /\ latched_branch' = latched_branch /\ latched_stalu' = latched_stalu
      /\ mem_do_rinst' = (mem_do_prefetch /\ reg_sh = 0)
      /\ cpu_state' = "shift" => reg_sh # 0
      /\ cpu_state' = "fetch" => reg_sh = 0
  <2>1. CASE reg_sh = 0
    BY <1>1, <2>1 DEF Shift, Default, Finish, Requests
  <2>2. CASE reg_sh # 0
    BY <1>1, <2>2 DEF Shift, Default, Finish, Requests
  <2> QED BY <2>1, <2>2
<1>3. next_pc' = next_pc
  BY <1>1, <1>2, ComputeFacts DEF next_pc, KeepFetch
<1>4. Control'
  <2>1. TrapState' /\ (BranchPhase' \/ cpu_state' = "trap")
    BY <1>1, <1>2, ComputeFacts DEF TrapState, BranchPhase, Taken, Fetching
  <2>2. FetchPhase' \/ cpu_state' = "trap"
    BY <1>1, <1>2, ComputeFacts DEF FetchPhase, Fetching
  <2>3. ComparePhase' \/ cpu_state' = "trap"
    BY <1>2 DEF ComparePhase
  <2> QED BY <2>1, <2>2, <2>3 DEF Control
<1>5. Moves(i)
  BY <1>1, <1>2, <1>3, ComputeFacts DEF Moves, Fetching, Taken
<1> QED BY <1>4, <1>5

\* A store or load keeps the prefetched instruction until its access is made.
LEMMA DataMoves ==
    ASSUME TypeOK, ReqInv, Control, NEW i, InputOK(i), StMem(i) \/ LdMem(i)
    PROVE  Control' /\ Moves(i)
<1>1. /\ cpu_state \in {"stmem", "ldmem"} /\ KeepFetch /\ irq_state = 0 /\ irq_state' = 0
      /\ BranchPhase /\ FetchPhase /\ ~latched_branch /\ ~latched_stalu
      /\ mem_do_rinst => mem_do_prefetch
      /\ mem_do_wdata \/ mem_do_rdata => ~Fetching
      /\ mem_do_prefetch /\ mem_done(i) => mem_do_rinst
      /\ mem_do_wdata => cpu_state = "stmem"
      /\ mem_do_rdata => cpu_state = "ldmem"
  BY DoneIsRequested DEF StMem, LdMem, DataState, KeepFetch, Control, BranchPhase, ReqInv,
     EntryRequests, FetchRequests, DataRequests, Fetching
<1> DEFINE Facts ==
      /\ cpu_state' \in {cpu_state, "fetch", "trap"} /\ (cpu_state' = "fetch" => Accessed(i))
      /\ latched_branch' = latched_branch /\ latched_stalu' = latched_stalu
      /\ ~do_waitirq' /\ ~trap' /\ Decode(i)
      /\ mem_do_prefetch' = (mem_do_prefetch /\ ~mem_done(i))
      /\ mem_do_rinst' = (mem_do_rinst /\ ~mem_done(i))
      /\ mem_do_wdata /\ ~mem_done(i) => mem_do_wdata'
      /\ mem_do_rdata /\ ~mem_done(i) => mem_do_rdata'
      /\ decoder_trigger' => (mem_do_rinst /\ mem_done(i)) \/ Accessed(i)
<1>2. Facts
  <2>1. ASSUME NEW r, Finish(i, DataDone(i, r)),
               /\ r.cpu_state = cpu_state /\ r.branch = latched_branch /\ r.stalu = latched_stalu
               /\ r.waitirq = FALSE /\ r.prefetch = mem_do_prefetch /\ r.rinst = mem_do_rinst
               /\ r.trigger = (mem_do_rinst /\ mem_done(i)) /\ r.set \in {"none", "rdata", "wdata"}
               /\ r \in Result
        PROVE  Facts
    <3> DEFINE s == DataDone(i, r)
    <3>1. /\ s.branch = latched_branch /\ s.stalu = latched_stalu
          /\ s.waitirq = FALSE /\ s.prefetch = mem_do_prefetch /\ s.rinst = mem_do_rinst
          /\ s.set # "rinst"
          /\ s.cpu_state = cpu_state \/ (s.cpu_state = "fetch" /\ Accessed(i))
          /\ s.trigger => (mem_do_rinst /\ mem_done(i)) \/ Accessed(i)
      BY <2>1 DEF DataDone, Result
    <3>2. Finish(i, s)
      BY <2>1
    <3> HIDE DEF s
    <3> QED BY <1>1, <3>1, <3>2 DEF Finish, Requests
  <2>2. /\ Default(i) \in Result
        /\ Default(i).cpu_state = cpu_state /\ Default(i).branch = latched_branch
        /\ Default(i).stalu = latched_stalu /\ Default(i).waitirq = FALSE
        /\ Default(i).prefetch = mem_do_prefetch /\ Default(i).rinst = mem_do_rinst
        /\ Default(i).trigger = (mem_do_rinst /\ mem_done(i)) /\ Default(i).set = "none"
    BY DefaultResult DEF Default
  <2>3. \E r \in {Default(i), [Default(i) EXCEPT !.set = "wdata"],
                  [Default(i) EXCEPT !.store = TRUE, !.set = "rdata"],
                  [Default(i) EXCEPT !.store = TRUE, !.reg_out = Value],
                  [Default(i) EXCEPT !.store = TRUE, !.reg_out = NoAddr]} : Finish(i, DataDone(i, r))
    BY DEF StMem, LdMem
  <2>4. Value \in Values /\ NoAddr \in Values
    BY DEF Values
  <2> DEFINE d == Default(i)
  <2> HIDE DEF Facts, d
  <2>5. PICK r \in {d, [d EXCEPT !.set = "wdata"],
                  [d EXCEPT !.store = TRUE, !.set = "rdata"],
                  [d EXCEPT !.store = TRUE, !.reg_out = Value],
                  [d EXCEPT !.store = TRUE, !.reg_out = NoAddr]} : Finish(i, DataDone(i, r))
    BY <2>3 DEF d
  <2>6. /\ r.cpu_state = cpu_state /\ r.branch = latched_branch /\ r.stalu = latched_stalu
        /\ r.waitirq = FALSE /\ r.prefetch = mem_do_prefetch /\ r.rinst = mem_do_rinst
        /\ r.trigger = (mem_do_rinst /\ mem_done(i)) /\ r.set \in {"none", "rdata", "wdata"}
        /\ r \in Result
    <3> DEFINE Good(x) ==
            /\ x.cpu_state = cpu_state /\ x.branch = latched_branch /\ x.stalu = latched_stalu
            /\ x.waitirq = FALSE /\ x.prefetch = mem_do_prefetch /\ x.rinst = mem_do_rinst
            /\ x.trigger = (mem_do_rinst /\ mem_done(i)) /\ x.set \in {"none", "rdata", "wdata"}
            /\ x \in Result
    <3>1. Good(d)
      BY <2>2 DEF d
    <3>2. /\ Good([d EXCEPT !.set = "wdata"]) /\ Good([d EXCEPT !.store = TRUE, !.set = "rdata"])
          /\ Good([d EXCEPT !.store = TRUE, !.reg_out = Value])
          /\ Good([d EXCEPT !.store = TRUE, !.reg_out = NoAddr])
      BY <2>4, <3>1 DEF Result
    <3>3. Good(r)
      <4> HIDE DEF Good
      <4> QED BY <3>1, <3>2
    <3> QED BY <3>3
  <2> QED BY <2>1, <2>5, <2>6
<1>3. next_pc' = next_pc /\ reg_next_pc' = reg_next_pc
  BY <1>1, <1>2 DEF next_pc, KeepFetch
<1>4. /\ ~(mem_do_rinst /\ mem_done(i)) => dec' = dec
      /\ mem_do_rinst /\ mem_done(i) => dec'.long = mem_rdata_latched(i).long
  BY <1>2, DecodedLength
<1>5. Control'
  <2>1. TrapState' /\ (BranchPhase' \/ cpu_state' = "trap")
    BY <1>1, <1>2 DEF TrapState, BranchPhase, Taken, Fetching
  <2>2. FetchPhase' \/ cpu_state' = "trap"
    BY <1>1, <1>2 DEF FetchPhase, Fetching
  <2>3. ComparePhase' \/ cpu_state' = "trap"
    BY <1>1, <1>2 DEF ComparePhase
  <2> QED BY <2>1, <2>2, <2>3 DEF Control
<1>6. Moves(i)
  <2>1. mem_do_prefetch \in BOOLEAN /\ mem_do_rinst \in BOOLEAN
    BY DEF TypeOK, RequestTypeOK
  <2>2. ~Launch(i)
    BY <1>1 DEF Launch, FetchTail, FetchHead
  <2>3. decoder_trigger' \/ (cpu_state' \in {"stmem", "ldmem"} /\ ~mem_do_prefetch') =>
          \/ mem_do_rinst /\ mem_done(i)
          \/ ~mem_do_prefetch /\ ~(mem_do_rinst /\ mem_done(i))
    BY <1>1, <1>2, <2>1 DEF Accessed
  <2> QED BY <1>1, <1>2, <1>3, <1>4, <2>1, <2>2, <2>3 DEF Moves, Fetching, Taken, Accessed
<1> QED BY <1>5, <1>6

\* Every cycle of a core that has not trapped.
LEMMA ClockMoves ==
    ASSUME TypeOK, ReqInv, Decoded, Control, NEW i, InputOK(i), FetchStep(i) \/ ExecuteStep(i)
    PROVE  /\ Control'
           /\ cpu_state # "trap" => Moves(i)
           /\ cpu_state = "trap" => cpu_state' = "trap"
<1>1. CASE Trapped(i)
  <2>1. cpu_state = "trap" /\ cpu_state' = "trap"
    BY <1>1 DEF Trapped, Finish, Default
  <2> QED BY <2>1 DEF Control, TrapState
<1>2. CASE ~Trapped(i)
  <2>1. Control' /\ Moves(i)
    BY <1>2, FetchMoves, LoadMoves, ExecWaitMoves, ExecBranchMoves, ExecAluMoves, ShiftMoves, DataMoves
       DEF ExecuteStep
  <2>2. cpu_state # "trap"
    <3>1. FetchStep(i) => cpu_state # "trap"
      BY FetchOutcome
    <3>2. LdRs1Step(i) \/ LdRs2Trap(i) \/ LdRs2Operands(i) => cpu_state # "trap"
      BY LoadFacts DEF LoadingOperands
    <3>3. ExecWait(i) \/ ExecBranch(i) \/ ExecAlu(i) \/ Shift(i) \/ StMem(i) \/ LdMem(i) => cpu_state # "trap"
      BY DEF ExecWait, ExecBranch, ExecAlu, Exec, Shift, StMem, LdMem, DataState
    <3> QED BY <1>2, <3>1, <3>2, <3>3 DEF ExecuteStep
  <2> QED BY <2>1, <2>2
<1> QED BY <1>1, <1>2

LEMMA ControlInvariant == Spec => []Control
<1>1. Init => Control
  BY ParamAssumption DEF Init, Control, TrapState, BranchPhase, FetchPhase, ComparePhase, Taken, Fetching
<1>2. TypeOK /\ ReqInv /\ Decoded /\ Control /\ [Next]_vars => Control'
  <2>1. ASSUME TypeOK, ReqInv, Decoded, Control, Next PROVE Control'
    <3>1. PICK i \in Inputs : Clock(i) \/ Reset(i)
      BY <2>1 DEF Next
    <3>2. InputOK(i)
      BY <2>1, InputsOK DEF TypeOK
    <3>3. CASE Clock(i)
      BY <2>1, <3>2, <3>3, ClockMoves DEF Clock
    <3>4. CASE Reset(i)
      BY <3>4 DEF Reset, ResetState, Control, TrapState, BranchPhase, FetchPhase, ComparePhase, Taken, Fetching
    <3> QED BY <3>1, <3>3, <3>4
  <2>2. ASSUME Control, UNCHANGED vars PROVE Control'
    BY <2>2 DEF vars, coreVars, doVars, pcVars, latchedVars, decVars, aluVars, irqVars, Control, TrapState,
       BranchPhase, FetchPhase, ComparePhase, Taken, Fetching, AluWaits, AluValid, CompareValid,
       PcPlusImm, FetchAddr
  <2> QED BY <2>1, <2>2
<1> QED BY <1>1, <1>2, TypeCorrect, ReqInvariant, DecodedInvariant, PTL DEF Spec

-----------------------------------------------------------------------------
(* The memory interface: TransferMatchesRequest is not inductive.  Whether *)
(* a read is served from the buffer (mem_la_use_prefetched_high_word) is a *)
(* wire that follows next_pc, the buffer and the branch, and must not      *)
(* change while the read is under way.                                     *)

TransferInv ==
    ~trap => /\ TransferMatchesRequest
             /\ mem_state \in {0, 3} => ~mem_valid
             /\ mem_la_secondword => COMPRESSED_ISA /\ mem_state = 1 /\ mem_valid
             /\ last_mem_valid => mem_valid
             /\ prefetched_high_word => ~clear_prefetched_high_word_q

\* A branch or an interrupt finds the interface idle; operands are loaded only
\* once the prefetch has been started.
StartInv ==
    /\ cpu_state = "fetch" /\ latched_branch => mem_state = 0
    /\ irq_state # 0 => mem_state = 0
    /\ cpu_state \in {"ld_rs2", "exec", "shift"} /\ Fetching /\ ~latched_branch => mem_state # 0

\* When the instruction behind the one to be launched starts in the upper half
\* of a word, that half is kept.
HasNext == Odd(Plus(reg_next_pc, IF dec.long THEN 2 ELSE 1)) => prefetched_high_word

\* A prefetch from an odd address is served from the buffer, or has got so far
\* that it reads the second word; one that is held was from an even address.
BufferInv ==
    COMPRESSED_ISA =>
        /\ mem_state = 1 /\ last_mem_valid /\ ~mem_la_secondword /\ mem_la_firstword_reg => mem_la_firstword
        /\ mem_la_secondword => mem_do_rinst
        /\ cpu_state # "fetch" /\ ~latched_branch /\ Fetching /\ Odd(next_pc) =>
              mem_la_use_prefetched_high_word \/ mem_la_secondword
        /\ cpu_state = "fetch" /\ mem_do_prefetch /\ ~mem_do_rinst /\ Odd(next_pc) =>
              mem_la_use_prefetched_high_word
        /\ mem_state = 3 => ~latched_branch /\ ~Odd(next_pc) /\ (~mem_rdata_q.long => prefetched_high_word)
        /\ decoder_trigger \/ (cpu_state \in {"stmem", "ldmem"} /\ ~mem_do_prefetch) => HasNext

MemInv == TransferInv /\ (cpu_state # "trap" => StartInv /\ BufferInv)

LEMMA Parity ==
    ASSUME NEW a
    PROVE  /\ Odd(a) => ~Odd(Plus(a, 1))
           /\ ~Odd(a) => ~Odd(Plus(a, 2))
<1>1. CASE a \in HalfAddr
  <2>1. a \in Nat /\ WORDS \in Nat \ {0} /\ a < 2*WORDS
    BY <1>1, WordsAssumption DEF HalfAddr
  <2>2. Plus(a, 1) = IF a + 1 = 2*WORDS THEN 0 ELSE a + 1
    BY <1>1, <2>1 DEF Plus
  <2>3. ~Odd(a) => Plus(a, 2) = IF a + 2 = 2*WORDS THEN 0 ELSE a + 2
    BY <1>1, <2>1 DEF Plus, Odd
  <2> QED BY <1>1, <2>1, <2>2, <2>3 DEF Odd
<1>2. CASE a \notin HalfAddr
  BY <1>2, WordsAssumption DEF Odd, Plus, NoAddr, HalfAddr
<1> QED BY <1>1, <1>2

\* An instruction that is launched follows the one before it.
LEMMA LaunchMoves ==
    ASSUME TypeOK, ReqInv, Control, NEW i, InputOK(i), Launch(i), cpu_state' # "trap"
    PROVE  /\ decoder_trigger /\ ~Fetching /\ ~latched_branch /\ ~latched_branch' /\ irq_state = 0 /\ irq_state' = 0
           /\ ~mem_do_rdata /\ ~mem_do_wdata
           /\ reg_next_pc' = Plus(reg_next_pc, IF dec.long THEN 2 ELSE 1)
<1>1. decoder_trigger /\ cpu_state = "fetch" /\ cpu_state' = "ld_rs1" /\ irq_state' = 0 /\ ~latched_branch'
      /\ ~mem_do_rdata /\ ~mem_do_wdata
  BY FetchFacts DEF FetchStep, Launch
<1>2. BranchPhase /\ ~Fetching
  BY <1>1 DEF Control, ReqInv, FetchRequests
<1>3. irq_state = 0 /\ ~latched_branch
  BY <1>1, <1>2 DEF BranchPhase
<1>4. reg_next_pc' = PcAfter(dec) /\ current_pc = reg_next_pc
  BY <1>3 DEF Launch, current_pc
<1> QED BY <1>1, <1>2, <1>3, <1>4 DEF PcAfter

\* A cycle of a core that has not trapped, with what is known before it.
Running(i) ==
    /\ cpu_state # "trap" /\ TypeOK /\ ReqInv /\ Decoded /\ Control /\ MemInv
    /\ InputOK(i) /\ Moves(i) /\ MemStep(i)
    /\ Launch(i) /\ cpu_state' # "trap" =>
          /\ decoder_trigger /\ ~Fetching /\ ~latched_branch /\ ~latched_branch' /\ irq_state = 0 /\ irq_state' = 0
          /\ ~mem_do_rdata /\ ~mem_do_wdata
          /\ reg_next_pc' = Plus(reg_next_pc, IF dec.long THEN 2 ELSE 1)

\* The kinds of cycle of the memory interface.
LEMMA Cycles ==
    ASSUME NEW i, Running(i)
    PROVE  /\ ~trap /\ MemRegs(i) /\ MemRequest(i)
           /\ \/ MemIdle(i) \/ MemStartRead(i) \/ MemStartWrite(i) \/ MemWait(i)
              \/ MemSecondWord(i) \/ MemReadDone(i) \/ MemWriteDone(i) \/ MemHeld
BY DEF Running, Control, TrapState, MemStep, MemTrapped

\* What is asked for while the interface is in each of its states.
LEMMA StateRequests ==
    ASSUME NEW i, Running(i)
    PROVE  /\ mem_state \in {0, 1, 2, 3}
           /\ mem_state = 1 => /\ ~mem_wstrb /\ ~mem_do_wdata
                               /\ (Fetching /\ ~mem_do_rdata) \/ (mem_do_rdata /\ ~Fetching)
                               /\ mem_valid = ~mem_la_use_prefetched_high_word
                               /\ mem_instr = Fetching
           /\ mem_state = 2 => mem_wstrb /\ mem_valid /\ mem_do_wdata /\ ~mem_do_rdata /\ ~Fetching
           /\ mem_state = 3 => ~mem_wstrb /\ mem_do_prefetch /\ ~mem_do_rdata /\ ~mem_do_wdata
           /\ mem_state \in {0, 3} => ~mem_valid
           /\ mem_la_secondword => COMPRESSED_ISA /\ mem_state = 1 /\ mem_valid
           /\ last_mem_valid => mem_valid
           /\ mem_do_rdata => ~Fetching /\ ~mem_do_wdata
           /\ mem_do_wdata => ~Fetching /\ ~mem_do_rdata
BY Cycles DEF Running, MemInv, TransferInv, TransferMatchesRequest, ReqInv, DataRequests, TypeOK, MemTypeOK, Fetching

\* A transfer that ends a request is a read or write that is answered, or the
\* instruction that is held.
LEMMA WhenDone ==
    ASSUME NEW i, Running(i)
    PROVE  /\ mem_state = 0 \/ (mem_state \in {1, 2} /\ ~mem_xfer(i)) => ~mem_done(i)
           /\ ~mem_do_rinst /\ ~mem_do_rdata /\ ~mem_do_wdata => ~mem_done(i)
           /\ ~mem_do_rinst /\ ~mem_valid => ~mem_xfer(i)
           /\ mem_la_use_prefetched_high_word => mem_la_firstword /\ Fetching /\ ~mem_do_rdata
           /\ mem_la_firstword <=> COMPRESSED_ISA /\ Fetching /\ Odd(next_pc) /\ ~mem_la_secondword
           /\ mem_state = 1 /\ mem_xfer(i) /\ mem_do_rinst /\ ~mem_la_firstword => mem_done(i)
           /\ mem_state = 3 /\ mem_do_rinst /\ ~mem_la_firstword => mem_done(i)
<1>1. mem_la_use_prefetched_high_word => mem_la_firstword /\ Fetching /\ ~mem_do_rdata
  BY StateRequests DEF mem_la_use_prefetched_high_word, mem_la_firstword
<1>2. mem_la_firstword <=> COMPRESSED_ISA /\ Fetching /\ Odd(next_pc) /\ ~mem_la_secondword
  BY CompressedAssumption DEF mem_la_firstword
<1>3. ~mem_do_rinst /\ ~mem_valid => ~mem_xfer(i)
  BY DEF mem_xfer
<1> QED BY <1>1, <1>2, <1>3 DEF mem_done

\* When the buffer is dropped, no fetch relies on it.
LEMMA NotCleared ==
    ASSUME NEW i, Running(i)
    PROVE  /\ mem_state # 0 /\ clear_prefetched_high_word => Taken
           /\ clear_prefetched_high_word /\ irq_state = 0 => latched_branch
           /\ LoadingOperands \/ cpu_state \in {"stmem", "ldmem", "shift"} => ~latched_branch /\ irq_state = 0
           /\ prefetched_high_word' => prefetched_high_word \/ MemReadDone(i)
           /\ prefetched_high_word' => ~clear_prefetched_high_word
           /\ clear_prefetched_high_word_q' = clear_prefetched_high_word
           /\ ~MemReadDone(i) /\ prefetched_high_word /\ ~clear_prefetched_high_word => prefetched_high_word'
<1>1. /\ BranchPhase /\ StartInv
      /\ irq_state # 0 => cpu_state = "fetch"
      /\ prefetched_high_word => ~clear_prefetched_high_word_q
  BY Cycles DEF Running, Control, MemInv, TransferInv, ReqInv, EntryRequests
<1>2. clear_prefetched_high_word => latched_branch \/ irq_state # 0
  BY <1>1 DEF clear_prefetched_high_word
<1>3. /\ prefetched_high_word' => prefetched_high_word \/ MemReadDone(i)
      /\ prefetched_high_word' => ~clear_prefetched_high_word
      /\ ~MemReadDone(i) /\ prefetched_high_word /\ ~clear_prefetched_high_word => prefetched_high_word'
  BY Cycles DEF MemIdle, MemStartRead, MemStartWrite, MemWait, MemSecondWord, MemReadDone, MemWriteDone,
     MemHeld, Prefetched
<1>4. clear_prefetched_high_word_q' = clear_prefetched_high_word
  BY Cycles DEF MemRegs
<1> QED BY <1>1, <1>2, <1>3, <1>4 DEF BranchPhase, StartInv, Taken, LoadingOperands

\* A fetch from an odd address that starts no transfer of its own comes from
\* the buffer: only behind a branch, and in fetch, memory is read for it.
LEMMA OddServed ==
    ASSUME NEW i, Running(i), mem_la_firstword, ~mem_do_rinst \/ (cpu_state # "fetch" /\ ~Taken)
    PROVE  mem_la_use_prefetched_high_word
<1>1. COMPRESSED_ISA /\ Fetching /\ Odd(next_pc) /\ ~mem_la_secondword
  BY WhenDone
<1>2. BufferInv /\ BranchPhase /\ FetchPhase
  BY DEF Running, MemInv, Control
<1>3. Taken => mem_do_rinst
  BY <1>1, <1>2 DEF BranchPhase, FetchPhase, Taken, AluWaits, Fetching
<1>4. CASE cpu_state = "fetch"
  BY <1>1, <1>2, <1>4 DEF BufferInv, Fetching
<1>5. CASE cpu_state # "fetch"
  <2>1. ~latched_branch
    BY <1>2, <1>3, <1>5 DEF BranchPhase, Taken
  <2> QED BY <1>1, <1>2, <1>5, <2>1 DEF BufferInv
<1> QED BY <1>4, <1>5

\* The second word is read for an instruction that was asked for, and the
\* request lasts until it arrives.
LEMMA SecondWordIsAskedFor ==
    ASSUME NEW i, Running(i), MemSecondWord(i)
    PROVE  /\ COMPRESSED_ISA /\ mem_la_firstword /\ mem_state = 1 /\ mem_xfer(i)
           /\ mem_do_rinst /\ Fetching /\ ~mem_done(i)
<1>1. /\ COMPRESSED_ISA /\ mem_state = 1 /\ mem_xfer(i)
      /\ mem_la_firstword_xfer(i) /\ ~mem_la_secondword /\ mem_rdata_latched(i).long
  BY DEF MemSecondWord, mem_la_read
<1>2. mem_la_firstword
  BY <1>1 DEF mem_la_firstword_xfer, Running, MemInv, BufferInv
<1>3. ~mem_done(i)
  BY <1>1, <1>2 DEF mem_done
<1>4. mem_do_rinst
  <2>1. ASSUME ~mem_do_rinst PROVE FALSE
    <3>1. mem_la_use_prefetched_high_word
      BY <1>2, <2>1, OddServed
    <3>2. ~mem_valid
      BY <1>1, <3>1, StateRequests
    <3> QED BY <1>1, <2>1, <3>2, WhenDone
  <2> QED BY <2>1
<1> QED BY <1>1, <1>2, <1>3, <1>4, WhenDone

\* A read that ends ends the fetch that was asked for, unless the branch in
\* exec was found taken.
LEMMA ReadEnds ==
    ASSUME NEW i, Running(i), MemReadDone(i), mem_do_rinst, cpu_state # "fetch", ~Taken
    PROVE  mem_done(i)
<1>1. mem_state = 1 /\ mem_xfer(i) /\ ~(COMPRESSED_ISA /\ mem_la_read(i))
  BY DEF MemReadDone
<1>2. CASE ~mem_la_firstword
  BY <1>1, <1>2, WhenDone
<1>3. CASE mem_la_firstword
  <2>1. mem_la_use_prefetched_high_word
    BY <1>3, OddServed
  <2>2. ~mem_valid /\ ~last_mem_valid
    BY <1>1, <2>1, StateRequests
  <2>3. COMPRESSED_ISA /\ ~mem_la_secondword
    BY <1>3, WhenDone
  <2>4. ~mem_rdata_latched(i).long
    BY <1>1, <1>3, <2>2, <2>3 DEF mem_la_read, mem_la_firstword_xfer
  <2> QED BY <1>1, <1>3, <2>4 DEF mem_done
<1> QED BY <1>2, <1>3

\* next_pc moves only under a branch.
LEMMA FetchPersists ==
    ASSUME NEW i, Running(i), Fetching, ~mem_done(i)
    PROVE  /\ Fetching' /\ ~mem_do_rdata /\ ~mem_do_wdata
           /\ ~latched_branch' => next_pc' = next_pc
BY StateRequests DEF Running, Moves, Fetching

\* Whether the buffer serves a read does not change while the read starts or
\* waits.
LEMMA UseIsStable ==
    ASSUME NEW i, Running(i), MemStartRead(i) \/ (MemWait(i) /\ mem_state = 1)
    PROVE  mem_la_use_prefetched_high_word' <=> mem_la_use_prefetched_high_word
<1>1. /\ ~mem_done(i) /\ mem_la_secondword' = mem_la_secondword
      /\ prefetched_high_word' = (prefetched_high_word /\ ~clear_prefetched_high_word)
      /\ mem_state \in {0, 1} /\ (Fetching \/ mem_do_rdata)
      /\ MemStartRead(i) => mem_state = 0
      /\ MemWait(i) => ~mem_xfer(i)
  BY WhenDone, StateRequests DEF MemStartRead, MemWait, Prefetched
<1>2. CASE mem_do_rdata
  <2>1. ~Fetching /\ ~Fetching'
    BY <1>1, <1>2, StateRequests DEF Running, Moves
  <2> QED BY <2>1 DEF mem_la_use_prefetched_high_word, mem_la_firstword
<1>3. CASE Fetching
  <2>1. /\ Fetching' /\ (~latched_branch' => next_pc' = next_pc)
    BY <1>1, <1>3, FetchPersists
  <2>2. ASSUME mem_la_use_prefetched_high_word PROVE mem_la_use_prefetched_high_word'
    <3>1. /\ prefetched_high_word /\ ~clear_prefetched_high_word /\ mem_la_firstword /\ COMPRESSED_ISA
          /\ ~latched_branch /\ irq_state = 0
      BY <2>2 DEF mem_la_use_prefetched_high_word, mem_la_firstword, clear_prefetched_high_word
    <3>2. ~latched_branch'
      <4>1. ASSUME latched_branch' PROVE FALSE
        <5>1. cpu_state = "exec" /\ mem_do_rinst
          BY <1>3, <4>1 DEF Running, Moves
        <5>2. mem_state # 0
          BY <1>3, <3>1, <5>1 DEF Running, MemInv, StartInv
        <5>3. mem_xfer(i)
          BY <2>2, <5>1 DEF mem_xfer
        <5> QED BY <1>1, <5>2, <5>3
      <4> QED BY <4>1
    <3>3. irq_state' = 0
      BY <1>3, <3>1 DEF Running, Moves
    <3>4. clear_prefetched_high_word_q' = FALSE
      BY <3>1, NotCleared, CompressedAssumption DEF clear_prefetched_high_word
    <3> QED
      BY <1>1, <2>1, <3>1, <3>2, <3>3, <3>4
         DEF mem_la_use_prefetched_high_word, mem_la_firstword, clear_prefetched_high_word
  <2>3. ASSUME mem_la_use_prefetched_high_word' PROVE mem_la_use_prefetched_high_word
    <3>1. /\ prefetched_high_word' /\ ~latched_branch' /\ COMPRESSED_ISA /\ Odd(next_pc') /\ ~mem_la_secondword'
      BY <2>3 DEF mem_la_use_prefetched_high_word, mem_la_firstword, clear_prefetched_high_word
    <3> QED BY <1>1, <1>3, <2>1, <3>1 DEF mem_la_use_prefetched_high_word, mem_la_firstword
  <2> QED BY <2>2, <2>3
<1> QED BY <1>1, <1>2, <1>3

\* What a cycle makes of the state of the interface.
LEMMA NextBus ==
    ASSUME NEW i, Running(i)
    PROVE  TransferInv'
<1>1. ~trap' /\ MemRegs(i) /\ MemRequest(i)
  BY Cycles DEF Running, Moves
<1>2. prefetched_high_word' => ~clear_prefetched_high_word_q'
  BY NotCleared
<1>3. CASE MemIdle(i)
  <2>1. /\ mem_state' = 0 /\ ~mem_valid' /\ ~mem_la_secondword' /\ ~last_mem_valid'
    BY <1>1, <1>3, StateRequests DEF MemIdle, MemRegs
  <2> QED BY <1>2, <2>1 DEF TransferInv, TransferMatchesRequest
<1>4. CASE MemStartRead(i)
  <2>1. /\ mem_state = 0 /\ mem_state' = 1 /\ mem_valid' = ~mem_la_use_prefetched_high_word
        /\ mem_instr' = Fetching /\ ~mem_la_secondword' /\ ~last_mem_valid' /\ ~mem_done(i)
        /\ Fetching \/ mem_do_rdata
    BY <1>1, <1>4, StateRequests, WhenDone DEF MemStartRead, MemRegs
  <2>2. ~mem_wstrb'
    BY <1>1, <1>4, <2>1, WhenDone DEF MemRequest, MemStartRead, mem_la_read, mem_la_write
  <2>3. (Fetching' \/ mem_do_rdata') /\ (Fetching' <=> Fetching)
    BY <2>1, StateRequests, FetchPersists DEF Running, Moves
  <2>4. mem_valid' = ~mem_la_use_prefetched_high_word'
    BY <1>4, <2>1, UseIsStable DEF mem_la_use_prefetched_high_word, mem_la_firstword
  <2>5. mem_instr' = Fetching'
    BY <2>1, <2>3 DEF Fetching
  <2> QED BY <1>2, <2>1, <2>2, <2>3, <2>4, <2>5 DEF TransferInv, TransferMatchesRequest
<1>5. CASE MemStartWrite(i)
  <2>1. /\ mem_state' = 2 /\ mem_valid' /\ ~mem_la_secondword' /\ mem_wstrb' /\ ~mem_done(i) /\ mem_do_wdata
    BY <1>1, <1>5, StateRequests, WhenDone DEF MemStartWrite, MemRequest, mem_la_write
  <2>2. mem_do_wdata'
    BY <2>1 DEF Running, Moves
  <2> QED BY <1>2, <2>1, <2>2 DEF TransferInv, TransferMatchesRequest
<1>6. CASE MemWait(i)
  <2>1. /\ mem_state \in {1, 2} /\ mem_state' = mem_state /\ mem_valid' = mem_valid /\ mem_instr' = mem_instr
        /\ mem_la_secondword' = mem_la_secondword /\ ~mem_done(i) /\ ~mem_xfer(i)
        /\ last_mem_valid' => mem_valid
    BY <1>1, <1>6, WhenDone DEF MemWait, MemRegs
  <2>2. mem_wstrb' <=> mem_wstrb
    <3>1. ~mem_la_read(i)
      BY <2>1 DEF mem_la_read, mem_la_firstword_xfer
    <3>2. ~mem_la_write
      BY <2>1 DEF mem_la_write
    <3> QED BY <1>1, <2>1, <3>1, <3>2 DEF MemRequest
  <2>3. CASE mem_state = 1
    <3>1. (Fetching' \/ mem_do_rdata') /\ (Fetching' <=> Fetching)
      BY <2>1, <2>3, StateRequests, FetchPersists DEF Running, Moves
    <3>2. mem_valid' = ~mem_la_use_prefetched_high_word'
      BY <1>6, <2>1, <2>3, StateRequests, UseIsStable DEF mem_la_use_prefetched_high_word, mem_la_firstword
    <3>3. mem_instr' = Fetching'
      BY <2>1, <2>3, <3>1, StateRequests DEF Fetching
    <3> QED BY <1>2, <2>1, <2>2, <2>3, <3>1, <3>2, <3>3, StateRequests DEF TransferInv, TransferMatchesRequest
  <2>4. CASE mem_state = 2
    <3>1. mem_do_wdata'
      BY <2>1, <2>4, StateRequests DEF Running, Moves
    <3> QED BY <1>2, <2>1, <2>2, <2>4, <3>1, StateRequests DEF TransferInv, TransferMatchesRequest
  <2> QED BY <2>1, <2>3, <2>4
<1>7. CASE MemSecondWord(i)
  <2>1. /\ mem_state' = 1 /\ mem_valid' /\ mem_la_secondword' /\ mem_instr' = mem_instr /\ mem_instr = Fetching
        /\ Fetching /\ ~mem_done(i) /\ COMPRESSED_ISA
    BY <1>7, SecondWordIsAskedFor, StateRequests DEF MemSecondWord
  <2>2. ~mem_wstrb'
    BY <1>1, <1>7, SecondWordIsAskedFor DEF MemSecondWord, MemRequest, mem_la_write
  <2>3. Fetching'
    BY <2>1, FetchPersists
  <2>4. ~mem_la_use_prefetched_high_word'
    BY <2>1 DEF mem_la_use_prefetched_high_word, mem_la_firstword
  <2>5. mem_instr' = Fetching'
    BY <2>1, <2>3 DEF Fetching
  <2>6. mem_valid' = ~mem_la_use_prefetched_high_word'
    <3>1. mem_valid' = TRUE
      BY <1>7 DEF MemSecondWord
    <3>2. (~mem_la_use_prefetched_high_word') = TRUE
      BY <2>4
    <3> QED BY <3>1, <3>2, Zenon
  <2>7. TransferMatchesRequest'
    <3>1. mem_state' # 2 /\ mem_state' # 3
      BY <2>1
    <3> QED BY <2>2, <2>3, <2>5, <2>6, <3>1, Zenon DEF TransferMatchesRequest
  <2> QED BY <1>2, <2>1, <2>7 DEF TransferInv
<1>8. CASE MemReadDone(i)
  <2>1. /\ mem_state = 1 /\ ~mem_valid' /\ ~mem_la_secondword'
        /\ mem_state' = IF mem_do_rinst \/ mem_do_rdata THEN 0 ELSE 3
    BY <1>8 DEF MemReadDone
  <2>2. ~mem_wstrb'
    BY <1>1, <2>1, StateRequests DEF MemRequest, mem_la_write
  <2>3. mem_state' = 3 => mem_do_prefetch'
    BY <2>1, StateRequests, WhenDone DEF Running, Moves, Fetching
  <2>4. ~last_mem_valid'
    <3>1. mem_xfer(i)
      BY <1>8 DEF MemReadDone
    <3>2. mem_valid => i.mem_ready
      BY <2>1, <3>1, StateRequests DEF mem_xfer
    <3> QED BY <1>1, <3>2 DEF MemRegs
  <2> QED BY <1>2, <2>1, <2>2, <2>3, <2>4 DEF TransferInv, TransferMatchesRequest
<1>9. CASE MemWriteDone(i)
  <2>1. /\ mem_state = 2 /\ mem_state' = 0 /\ ~mem_valid' /\ ~mem_la_secondword' /\ mem_xfer(i)
    BY <1>9, StateRequests DEF MemWriteDone
  <2>2. ~last_mem_valid'
    BY <1>1, <2>1, StateRequests, WhenDone DEF MemRegs, mem_xfer
  <2> QED BY <1>2, <2>1, <2>2 DEF TransferInv, TransferMatchesRequest
<1>10. CASE MemHeld
  <2>1. /\ mem_state = 3 /\ ~mem_valid' /\ ~mem_la_secondword' /\ ~last_mem_valid'
        /\ mem_state' = IF mem_do_rinst THEN 0 ELSE 3
    BY <1>1, <1>10, StateRequests DEF MemHeld, MemRegs
  <2>2. ~mem_wstrb'
    BY <1>1, <2>1, StateRequests DEF MemRequest, mem_la_write
  <2>3. mem_state' = 3 => mem_do_prefetch'
    BY <2>1, StateRequests, WhenDone DEF Running, Moves
  <2> QED BY <1>2, <2>1, <2>2, <2>3 DEF TransferInv, TransferMatchesRequest
<1> QED BY <1>3, <1>4, <1>5, <1>6, <1>7, <1>8, <1>9, <1>10, Cycles

\* A request that ends leaves the interface idle.
LEMMA DoneIsIdle ==
    ASSUME NEW i, Running(i)
    PROVE  /\ mem_done(i) => mem_state' = 0
           /\ ~Fetching /\ ~mem_do_rdata /\ ~mem_do_wdata => mem_state = 0 /\ mem_state' = 0
<1>1. mem_done(i) => mem_state' = 0
  BY Cycles, SecondWordIsAskedFor, StateRequests, WhenDone
     DEF MemIdle, MemStartRead, MemStartWrite, MemWait, MemReadDone, MemWriteDone, MemHeld, Fetching
<1>2. ~Fetching /\ ~mem_do_rdata /\ ~mem_do_wdata => mem_state = 0
  BY StateRequests DEF Fetching
<1>3. mem_state = 0 /\ ~Fetching /\ ~mem_do_rdata /\ ~mem_do_wdata => mem_state' = 0
  BY Cycles DEF MemIdle, MemStartRead, MemStartWrite, MemWait, MemSecondWord, MemReadDone, MemWriteDone, MemHeld
<1> QED BY <1>1, <1>2, <1>3

LEMMA NextStart ==
    ASSUME NEW i, Running(i), ReqInv', Control', cpu_state' # "trap"
    PROVE  StartInv'
<1>1. ASSUME cpu_state' = "fetch", latched_branch' PROVE mem_state' = 0
  <2>1. mem_do_rdata \/ mem_do_wdata \/ (Fetching => mem_done(i))
    BY <1>1 DEF Running, Moves
  <2>2. ~mem_do_rdata /\ ~mem_do_wdata
    BY <1>1 DEF Running, Moves
  <2> QED BY <2>1, <2>2, DoneIsIdle
<1>2. ASSUME irq_state' # 0 PROVE mem_state' = 0
  <2>1. ~Fetching /\ ~mem_do_rdata /\ ~mem_do_wdata
    BY <1>2 DEF Running, Moves
  <2> QED BY <2>1, DoneIsIdle
<1>3. ASSUME cpu_state' \in {"ld_rs2", "exec", "shift"}, Fetching', ~latched_branch' PROVE mem_state' # 0
  <2>1. /\ cpu_state \in {"ld_rs1", "ld_rs2", "exec", "shift"} /\ Fetching /\ ~Taken
    BY <1>3 DEF Running, Moves, Launch, FetchTail, FetchHead
  <2>2. ~mem_done(i)
    BY <1>3 DEF Running, Moves
  <2>3. ~mem_do_rdata /\ ~mem_do_wdata
    BY <2>1, StateRequests
  <2>4. ~(MemReadDone(i) /\ mem_do_rinst)
    BY <2>1, <2>2, ReadEnds
  <2>5. mem_state # 3 \/ ~mem_do_rinst
    <3>1. mem_state = 3 => ~mem_la_firstword
      BY CompressedAssumption, WhenDone DEF Running, MemInv, BufferInv
    <3> QED BY <2>2, <3>1, WhenDone
  <2>6. MemReadDone(i) => mem_state' = 3
    BY <2>3, <2>4 DEF MemReadDone
  <2>7. ~MemIdle(i) /\ ~MemStartWrite(i) /\ ~MemWriteDone(i)
    BY <2>1, <2>3, StateRequests DEF MemIdle, MemStartWrite, MemWriteDone
  <2>8. MemStartRead(i) \/ MemWait(i) \/ MemSecondWord(i) \/ MemHeld => mem_state' # 0
    BY <2>5 DEF MemStartRead, MemWait, MemSecondWord, MemHeld
  <2> QED BY <2>6, <2>7, <2>8, Cycles
<1> QED BY <1>1, <1>2, <1>3 DEF StartInv

\* The parts of BufferInv, in its order.
LEMMA NextFirstWord ==
    ASSUME NEW i, Running(i), COMPRESSED_ISA, mem_state' = 1, last_mem_valid', ~mem_la_secondword',
           mem_la_firstword_reg'
    PROVE  mem_la_firstword'
<1>1. mem_valid /\ ~i.mem_ready /\ mem_la_firstword_reg' = IF last_mem_valid THEN mem_la_firstword_reg ELSE mem_la_firstword
  BY Cycles DEF MemRegs
<1>2. ~(mem_la_use_prefetched_high_word /\ mem_state = 1)
  BY <1>1, StateRequests
<1>3. mem_state \in {1, 2} /\ ~mem_xfer(i)
  <2>1. mem_state \in {1, 2}
    BY <1>1, StateRequests
  <2>2. ~mem_la_use_prefetched_high_word
    BY <1>2, <2>1, StateRequests, WhenDone
  <2> QED BY <1>1, <2>1, <2>2 DEF mem_xfer
<1>4. MemWait(i)
  <2>1. ~MemIdle(i) /\ ~MemStartRead(i) /\ ~MemStartWrite(i) /\ ~MemHeld
    BY <1>3 DEF MemIdle, MemStartRead, MemStartWrite, MemHeld
  <2>2. ~MemSecondWord(i) /\ ~MemReadDone(i) /\ ~MemWriteDone(i)
    BY <1>3 DEF MemSecondWord, MemReadDone, MemWriteDone
  <2> QED BY <2>1, <2>2, Cycles
<1>5. mem_state = 1 /\ ~mem_la_secondword /\ ~mem_done(i)
  BY <1>3, <1>4, WhenDone DEF MemWait
<1>6. mem_la_firstword
  BY <1>1, <1>5 DEF Running, MemInv, BufferInv
<1>7. Fetching /\ Odd(next_pc) /\ Fetching'
  BY <1>5, <1>6, WhenDone, FetchPersists
<1>8. next_pc' = next_pc
  <2>1. ASSUME latched_branch', ~latched_branch PROVE FALSE
    <3>1. cpu_state = "exec"
      BY <1>7, <2>1 DEF Running, Moves
    <3>2. mem_la_use_prefetched_high_word
      BY <1>6, <2>1, <3>1, OddServed DEF Taken
    <3> QED BY <1>2, <1>5, <3>2
  <2> QED BY <1>7, <2>1 DEF Running, Moves
<1> QED BY <1>7, <1>8 DEF mem_la_firstword

LEMMA NextSecondWord ==
    ASSUME NEW i, Running(i), mem_la_secondword'
    PROVE  mem_do_rinst'
<1>1. ~mem_done(i) /\ mem_do_rinst
  <2>1. CASE MemSecondWord(i)
    BY <2>1, SecondWordIsAskedFor
  <2>2. CASE ~MemSecondWord(i)
    <3>1. mem_la_secondword /\ mem_state = 1
      BY <2>2, Cycles, StateRequests
         DEF MemIdle, MemStartRead, MemStartWrite, MemWait, MemReadDone, MemWriteDone, MemHeld
    <3>2. MemWait(i)
      BY <2>2, <3>1, Cycles DEF MemIdle, MemStartRead, MemStartWrite, MemReadDone, MemWriteDone, MemHeld
    <3> QED BY <3>1, <3>2, WhenDone, StateRequests DEF MemWait, Running, MemInv, BufferInv
  <2> QED BY <2>1, <2>2
<1> QED BY <1>1 DEF Running, Moves

\* An instruction that is launched finds its successor's first half kept.
LEMMA NextLaunched ==
    ASSUME NEW i, Running(i), COMPRESSED_ISA, Launch(i), cpu_state' # "trap", Fetching', Odd(next_pc')
    PROVE  mem_la_use_prefetched_high_word'
<1>1. /\ decoder_trigger /\ ~Fetching /\ ~latched_branch /\ ~latched_branch' /\ irq_state = 0 /\ irq_state' = 0
      /\ ~mem_do_rdata /\ ~mem_do_wdata
      /\ reg_next_pc' = Plus(reg_next_pc, IF dec.long THEN 2 ELSE 1)
  BY DEF Running
<1>2. mem_state = 0
  BY <1>1, DoneIsIdle
<1>3. next_pc' = Plus(reg_next_pc, IF dec.long THEN 2 ELSE 1)
  BY <1>1 DEF next_pc
<1>4. prefetched_high_word
  BY <1>1, <1>3 DEF Running, MemInv, BufferInv, HasNext
<1>5. ~clear_prefetched_high_word
  BY <1>1, NotCleared
<1>6. prefetched_high_word' /\ ~mem_la_secondword'
  BY <1>2, <1>4, <1>5, NotCleared, Cycles, StateRequests
     DEF MemIdle, MemStartRead, MemStartWrite, MemWait, MemSecondWord, MemReadDone, MemWriteDone, MemHeld
<1>7. ~clear_prefetched_high_word'
  BY <1>1, <1>5, NotCleared DEF clear_prefetched_high_word
<1> QED BY <1>6, <1>7 DEF mem_la_use_prefetched_high_word, mem_la_firstword

LEMMA NextOdd ==
    ASSUME NEW i, Running(i), COMPRESSED_ISA,
           cpu_state' \notin {"fetch", "trap"}, ~latched_branch', Fetching', Odd(next_pc')
    PROVE  mem_la_use_prefetched_high_word' \/ mem_la_secondword'
<1>1. CASE Launch(i)
  BY <1>1, NextLaunched
<1>2. CASE ~Launch(i)
  <2>1. Fetching /\ cpu_state # "fetch" /\ ~mem_done(i) /\ ~Taken
    BY <1>2 DEF Running, Moves
  <2>2. ~latched_branch /\ Odd(next_pc) /\ ~mem_do_rdata /\ ~mem_do_wdata
    BY <2>1, FetchPersists DEF Running, Control, BranchPhase, Taken
  <2>3. mem_la_use_prefetched_high_word \/ mem_la_secondword
    BY <2>1, <2>2 DEF Running, MemInv, BufferInv
  <2>4. CASE MemStartRead(i) \/ MemWait(i)
    <3>1. mem_state # 2 /\ mem_la_secondword' = mem_la_secondword
      BY <2>2, <2>4, StateRequests DEF MemStartRead, MemWait
    <3> QED BY <2>3, <2>4, <3>1, UseIsStable DEF MemWait
  <2>5. CASE MemSecondWord(i)
    BY <2>5 DEF MemSecondWord
  <2>6. ~MemReadDone(i)
    <3>1. ASSUME MemReadDone(i) PROVE FALSE
      <4>1. ~mem_do_rinst
        BY <2>1, <3>1, ReadEnds
      <4>2. mem_la_use_prefetched_high_word /\ mem_state = 1 /\ mem_xfer(i)
        BY <2>3, <3>1, <4>1 DEF MemReadDone, Running, MemInv, BufferInv
      <4> QED BY <4>1, <4>2, StateRequests, WhenDone
    <3> QED BY <3>1
  <2>7. ~MemHeld
    BY <2>2 DEF MemHeld, Running, MemInv, BufferInv
  <2>8. ~MemIdle(i) /\ ~MemStartWrite(i) /\ ~MemWriteDone(i)
    BY <2>1, <2>2, StateRequests DEF MemIdle, MemStartWrite, MemWriteDone
  <2> QED BY <2>4, <2>5, <2>6, <2>7, <2>8, Cycles
<1> QED BY <1>1, <1>2

LEMMA NextOddInFetch ==
    ASSUME NEW i, Running(i), COMPRESSED_ISA,
           cpu_state' = "fetch", mem_do_prefetch', ~mem_do_rinst', Odd(next_pc')
    PROVE  mem_la_use_prefetched_high_word'
<1>1. LoadingOperands /\ mem_do_prefetch
  BY DEF Running, Moves
<1>2. Fetching /\ ~mem_do_rinst /\ ~latched_branch /\ ~mem_do_rdata /\ ~mem_do_wdata
  BY <1>1, NotCleared, StateRequests DEF Running, ReqInv, FetchRequests, Fetching
<1>3. ~mem_done(i)
  BY <1>2, WhenDone
<1>4. Odd(next_pc)
  BY <1>1, <1>2, <1>3, FetchPersists DEF Running, Moves, LoadingOperands
<1>5. mem_la_use_prefetched_high_word
  BY <1>1, <1>2, <1>4 DEF Running, MemInv, BufferInv, LoadingOperands
<1>6. MemStartRead(i) \/ (MemWait(i) /\ mem_state = 1)
  <2>1. mem_state \in {0, 1}
    BY <1>2, <1>4, StateRequests DEF Running, MemInv, BufferInv
  <2>2. mem_state = 1 => ~mem_xfer(i)
    BY <1>2, <1>5, StateRequests, WhenDone
  <2>3. ~MemIdle(i) /\ ~MemStartWrite(i) /\ ~MemHeld
    BY <1>2, <2>1 DEF MemIdle, MemStartWrite, MemHeld
  <2>4. ~MemSecondWord(i) /\ ~MemReadDone(i) /\ ~MemWriteDone(i)
    BY <2>1, <2>2 DEF MemSecondWord, MemReadDone, MemWriteDone
  <2>5. MemWait(i) => mem_state = 1
    BY <2>1 DEF MemWait
  <2> QED BY <2>3, <2>4, <2>5, Cycles
<1> QED BY <1>5, <1>6, UseIsStable

LEMMA NextHeld ==
    ASSUME NEW i, Running(i), COMPRESSED_ISA, mem_state' = 3
    PROVE  ~latched_branch' /\ ~Odd(next_pc') /\ (~mem_rdata_q'.long => prefetched_high_word')
<1>1. (MemReadDone(i) \/ MemHeld) /\ ~mem_do_rinst /\ ~mem_do_rdata
  <2>1. ~MemIdle(i) /\ ~MemStartRead(i) /\ ~MemStartWrite(i) /\ ~MemWait(i) /\ ~MemSecondWord(i) /\ ~MemWriteDone(i)
    BY DEF MemIdle, MemStartRead, MemStartWrite, MemWait, MemSecondWord, MemWriteDone
  <2>2. MemReadDone(i) => ~mem_do_rinst /\ ~mem_do_rdata
    BY DEF MemReadDone
  <2>3. MemHeld => ~mem_do_rinst /\ ~mem_do_rdata
    BY StateRequests DEF MemHeld
  <2> QED BY <2>1, <2>2, <2>3, Cycles
<1>2. mem_state \in {1, 3} /\ Fetching /\ ~mem_do_wdata /\ ~mem_done(i)
  BY <1>1, StateRequests, WhenDone DEF MemReadDone, MemHeld, Fetching
<1>3. ~latched_branch' /\ next_pc' = next_pc
  BY <1>1, <1>2, FetchPersists DEF Running, Moves
<1>4. ~clear_prefetched_high_word
  <2>1. Taken => mem_do_rinst
    BY <1>1, <1>2 DEF Running, Control, BranchPhase, FetchPhase, Taken, AluWaits, Fetching
  <2> QED BY <1>1, <1>2, <2>1, NotCleared
<1>5. CASE MemReadDone(i)
  <2>1. mem_state = 1 /\ mem_xfer(i) /\ ~mem_la_secondword
    BY <1>1, <1>5 DEF MemReadDone, Running, MemInv, BufferInv
  <2>2. ~mem_la_use_prefetched_high_word
    BY <1>1, <2>1, StateRequests, WhenDone
  <2>3. ~mem_la_firstword
    BY <1>1, <2>2, OddServed
  <2>4. ~Odd(next_pc)
    BY <1>2, <2>1, <2>3, WhenDone
  <2>5. mem_rdata_q' = Join(i.lo, i.hi)
    BY <2>1, <2>2, <2>3, Cycles DEF MemRegs, mem_rdata_latched
  <2>6. mem_rdata_q'.long = i.lo.long
    BY <2>5 DEF Join
  <2>7. ~i.lo.long => prefetched_high_word'
    BY <1>1, <1>4, <1>5 DEF MemReadDone, Prefetched
  <2> QED BY <1>3, <2>4, <2>6, <2>7
<1>6. CASE MemHeld
  <2>1. mem_state = 3 /\ ~mem_xfer(i)
    BY <1>1, <1>6, StateRequests, WhenDone DEF MemHeld
  <2>2. ~Odd(next_pc) /\ (~mem_rdata_q.long => prefetched_high_word)
    BY <2>1 DEF Running, MemInv, BufferInv
  <2>3. mem_rdata_q' = mem_rdata_q
    BY <2>1, Cycles DEF MemRegs
  <2>4. prefetched_high_word => prefetched_high_word'
    BY <1>4, <1>6 DEF MemHeld, Prefetched
  <2> QED BY <1>3, <2>2, <2>3, <2>4
<1> QED BY <1>1, <1>5, <1>6

LEMMA NextDecoded ==
    ASSUME NEW i, Running(i), COMPRESSED_ISA,
           decoder_trigger' \/ (cpu_state' \in {"stmem", "ldmem"} /\ ~mem_do_prefetch')
    PROVE  HasNext'
<1>1. CASE mem_do_rinst /\ mem_done(i) /\ ~latched_branch' /\ dec'.long = mem_rdata_latched(i).long
  <2>1. /\ Fetching /\ ~mem_do_rdata /\ ~mem_do_wdata /\ mem_state \in {1, 3} /\ ~Taken
    BY <1>1, StateRequests, WhenDone DEF Fetching, Running, Moves
  <2>2. reg_next_pc' = next_pc
    BY <1>1, <2>1 DEF Running, Moves, next_pc
  <2>3. ~clear_prefetched_high_word
    BY <2>1, NotCleared
  <2>4. mem_la_firstword => ~mem_rdata_latched(i).long
    BY <1>1 DEF mem_done
  <2> DEFINE after == Plus(next_pc, IF mem_rdata_latched(i).long THEN 2 ELSE 1)
  <2>5. SUFFICES Odd(after) => prefetched_high_word'
    BY <1>1, <2>2 DEF HasNext
  <2>6. CASE Odd(next_pc) /\ ~mem_la_secondword
    <3>1. ~mem_rdata_latched(i).long
      BY <2>1, <2>4, <2>6, WhenDone
    <3> QED BY <2>6, <3>1, Parity
  <2>7. CASE mem_la_secondword
    <3>1. mem_state = 1
      BY <2>7, StateRequests
    <3>2. MemReadDone(i)
      <4>1. ~MemIdle(i) /\ ~MemStartRead(i) /\ ~MemStartWrite(i) /\ ~MemHeld /\ ~MemWriteDone(i)
        BY <3>1 DEF MemIdle, MemStartRead, MemStartWrite, MemHeld, MemWriteDone
      <4>2. ~MemWait(i) /\ ~MemSecondWord(i)
        BY <1>1, SecondWordIsAskedFor, WhenDone DEF MemWait
      <4> QED BY <4>1, <4>2, Cycles
    <3> QED BY <2>1, <2>3, <2>7, <3>2 DEF MemReadDone, Prefetched
  <2>8. CASE ~Odd(next_pc) /\ ~mem_la_secondword
    <3>1. ~mem_la_firstword /\ ~mem_la_use_prefetched_high_word
      BY <2>8, WhenDone
    <3>2. CASE mem_rdata_latched(i).long
      BY <2>8, <3>2, Parity
    <3>3. CASE mem_state = 1 /\ ~mem_rdata_latched(i).long
      <4>1. ~MemIdle(i) /\ ~MemStartRead(i) /\ ~MemStartWrite(i) /\ ~MemHeld /\ ~MemWriteDone(i)
        BY <3>3 DEF MemIdle, MemStartRead, MemStartWrite, MemHeld, MemWriteDone
      <4>2. ~MemWait(i) /\ ~MemSecondWord(i)
        BY <1>1, SecondWordIsAskedFor, WhenDone DEF MemWait
      <4>3. MemReadDone(i) /\ mem_xfer(i)
        BY <4>1, <4>2, Cycles DEF MemReadDone
      <4>4. mem_rdata_latched(i) = Join(i.lo, i.hi)
        BY <2>8, <3>1, <4>3 DEF mem_rdata_latched
      <4>5. ~i.lo.long
        BY <3>3, <4>4 DEF Join
      <4> QED BY <2>1, <2>3, <4>3, <4>5 DEF MemReadDone, Prefetched
    <3>4. CASE mem_state = 3 /\ ~mem_rdata_latched(i).long
      <4>1. ~mem_xfer(i)
        BY <3>1, <3>4, StateRequests DEF mem_xfer
      <4>2. mem_rdata_latched(i) = mem_rdata_q
        BY <2>8, <3>1, <4>1 DEF mem_rdata_latched
      <4>3. prefetched_high_word /\ ~MemReadDone(i)
        BY <3>4, <4>2 DEF MemReadDone, Running, MemInv, BufferInv
      <4> QED BY <2>3, <4>3, NotCleared
    <3> QED BY <2>1, <3>2, <3>3, <3>4
  <2> QED BY <2>6, <2>7, <2>8
<1>2. CASE /\ cpu_state \in {"stmem", "ldmem"} /\ ~mem_do_prefetch /\ dec' = dec
           /\ reg_next_pc' = reg_next_pc /\ ~latched_branch
  <2>1. ~clear_prefetched_high_word
    BY <1>2, NotCleared
  <2>2. ~Fetching
    BY <1>2 DEF Fetching, Running, ReqInv, FetchRequests
  <2>3. prefetched_high_word => prefetched_high_word'
    <3>1. ASSUME MemReadDone(i), prefetched_high_word PROVE prefetched_high_word'
      <4>1. mem_do_rdata
        BY <2>2, <3>1, StateRequests DEF MemReadDone
      <4> QED BY <2>1, <3>1, <4>1 DEF MemReadDone, Prefetched
    <3> QED BY <2>1, <3>1, NotCleared
  <2>4. HasNext
    BY <1>2 DEF Running, MemInv, BufferInv
  <2> QED BY <1>2, <2>3, <2>4 DEF HasNext
<1> QED BY <1>1, <1>2 DEF Running, Moves

LEMMA NextBuffer ==
    ASSUME NEW i, Running(i), cpu_state' # "trap"
    PROVE  BufferInv'
BY NextFirstWord, NextSecondWord, NextOdd, NextOddInFetch, NextHeld, NextDecoded DEF BufferInv

LEMMA MemInvariant == Spec => []MemInv
<1>1. Init => MemInv
  BY CompressedAssumption DEF Init, MemInv, TransferInv, TransferMatchesRequest, StartInv, BufferInv, Fetching
<1>2. TypeOK /\ ReqInv /\ Decoded /\ Control /\ MemInv /\ [Next]_vars /\ ReqInv' /\ Control' => MemInv'
  <2>1. ASSUME TypeOK, ReqInv, Decoded, Control, MemInv, Next, ReqInv', Control' PROVE MemInv'
    <3>1. PICK i \in Inputs : Clock(i) \/ Reset(i)
      BY <2>1 DEF Next
    <3>2. InputOK(i)
      BY <2>1, InputsOK DEF TypeOK
    <3>3. CASE Clock(i)
      <4>1. CASE cpu_state # "trap"
        <5>1. Running(i)
          BY <2>1, <3>2, <3>3, <4>1, ClockMoves, LaunchMoves DEF Running, Clock
        <5> QED BY <2>1, <5>1, NextBus, NextStart, NextBuffer DEF MemInv
      <4>2. CASE cpu_state = "trap"
        <5>1. trap' /\ cpu_state' = "trap"
          <6>1. Trapped(i)
            BY <2>1, <3>2, <3>3, <4>2, FetchOutcome, LoadFacts DEF Clock, ExecuteStep, LoadingOperands,
               ExecWait, ExecBranch, ExecAlu, Exec, Shift, StMem, LdMem, DataState
          <6> QED BY <6>1 DEF Trapped, Finish, Default
        <5> QED BY <5>1 DEF MemInv, TransferInv
      <4> QED BY <4>1, <4>2
    <3>4. CASE Reset(i)
      BY <3>4, CompressedAssumption DEF Reset, ResetState, MemReset, MemInv, TransferInv, TransferMatchesRequest, StartInv, BufferInv, Fetching
    <3> QED BY <3>1, <3>3, <3>4
  <2>2. ASSUME MemInv, UNCHANGED vars PROVE MemInv'
    <3>1. /\ UNCHANGED <<cpu_state, trap, reg_out, doVars, pcVars, latchedVars, decVars, irq_state>>
          /\ UNCHANGED memVars
      BY <2>2 DEF vars, coreVars, irqVars
    <3>2. UNCHANGED <<next_pc, Fetching>>
      BY <3>1 DEF doVars, pcVars, latchedVars, next_pc, Fetching
    <3>3. UNCHANGED mem_la_firstword
      BY <3>1, <3>2 DEF memVars, mem_la_firstword
    <3>4. UNCHANGED mem_la_use_prefetched_high_word
      BY <3>1, <3>3 DEF memVars, latchedVars, mem_la_use_prefetched_high_word, clear_prefetched_high_word
    <3>5. TransferInv'
      BY <2>2, <3>1, <3>2, <3>4 DEF MemInv, TransferInv, TransferMatchesRequest, memVars, doVars
    <3>6. StartInv' \/ cpu_state' = "trap"
      BY <2>2, <3>1, <3>2 DEF MemInv, StartInv, memVars, latchedVars
    <3>7. BufferInv' \/ cpu_state' = "trap"
      BY <2>2, <3>1, <3>2, <3>3, <3>4 DEF MemInv, BufferInv, HasNext, memVars, doVars, pcVars, latchedVars, decVars
    <3> QED BY <3>5, <3>6, <3>7 DEF MemInv
  <2> QED BY <2>1, <2>2
<1> QED BY <1>1, <1>2, TypeCorrect, ReqInvariant, DecodedInvariant, ControlInvariant, PTL DEF Spec

\* In every configuration the transfer under way is what the main state machine
\* asked for: neither a branch, an interrupt nor the buffer of the compressed
\* ISA withdraws or changes a request once it is on the bus.
THEOREM TransferIsRequested == Spec => []TransferMatchesRequest
<1>1. TypeOK /\ MemInv => TransferMatchesRequest
  BY DEF MemInv, TransferInv, TransferMatchesRequest
<1> QED BY <1>1, TypeCorrect, MemInvariant, PTL

\* A request the bus has not answered is there in the next cycle, at the same
\* address and in the same direction, in every configuration: whatever is
\* branched to, interrupted or trapped meanwhile.
THEOREM RequestsAreStable == Spec => RequestStable
<1> DEFINE Stable == last_mem_valid' => mem_valid' /\ UNCHANGED <<mem_addr, mem_instr, mem_wstrb>>
<1>1. TypeOK /\ TypeOK' /\ ReqInv /\ Decoded /\ Control /\ MemInv /\ [Next]_vars => [Stable]_vars
  <2>1. ASSUME TypeOK, TypeOK', ReqInv, Decoded, Control, MemInv, Next, last_mem_valid'
        PROVE  mem_valid' /\ UNCHANGED <<mem_addr, mem_instr, mem_wstrb>>
    <3>1. PICK i \in Inputs : Clock(i) \/ Reset(i)
      BY <2>1 DEF Next
    <3>2. InputOK(i)
      BY <2>1, InputsOK DEF TypeOK
    <3>3. Clock(i)
      BY <2>1, <3>1 DEF Reset, MemReset
    <3>4. mem_valid /\ ~i.mem_ready
      BY <2>1, <3>3 DEF Clock, MemStep, MemRegs
    <3>5. CASE MemTrapped(i)
      BY <3>4, <3>5 DEF MemTrapped
    <3>6. CASE ~MemTrapped(i)
      <4>1. ~trap /\ MemRequest(i)
        BY <3>3, <3>6 DEF Clock, MemStep
      <4>2. TransferMatchesRequest /\ mem_state \in {1, 2}
        BY <2>1, <4>1, <3>4 DEF MemInv, TransferInv, TypeOK, MemTypeOK
      <4>3. ~mem_la_use_prefetched_high_word
        <5>1. mem_state = 2 => ~Fetching
          BY <2>1, <4>1, <4>2 DEF TransferMatchesRequest, ReqInv, DataRequests
        <5> QED BY <3>4, <4>1, <4>2, <5>1 DEF TransferMatchesRequest, mem_la_use_prefetched_high_word, mem_la_firstword
      <4>4. ~mem_xfer(i)
        BY <3>4, <4>3 DEF mem_xfer
      <4>5. ~mem_la_read(i) /\ ~mem_la_write
        BY <4>2, <4>4 DEF mem_la_read, mem_la_write, mem_la_firstword_xfer
      <4>6. mem_addr' = mem_addr /\ (mem_wstrb' <=> mem_wstrb)
        BY <4>1, <4>2, <4>5 DEF MemRequest
      <4>7. mem_valid' /\ mem_instr' = mem_instr
        <5>1. ~MemIdle(i) /\ ~MemStartRead(i) /\ ~MemStartWrite(i) /\ ~MemHeld
          BY <4>2 DEF MemIdle, MemStartRead, MemStartWrite, MemHeld
        <5>2. ~MemSecondWord(i) /\ ~MemReadDone(i) /\ ~MemWriteDone(i)
          BY <4>4 DEF MemSecondWord, MemReadDone, MemWriteDone
        <5>3. MemWait(i)
          BY <3>3, <3>6, <5>1, <5>2 DEF Clock, MemStep
        <5> QED BY <3>4, <5>3 DEF MemWait
      <4>8. mem_wstrb' = mem_wstrb
        BY <2>1, <4>6 DEF TypeOK, MemTypeOK
      <4> QED BY <4>6, <4>7, <4>8
    <3> QED BY <3>5, <3>6
  <2>2. ASSUME UNCHANGED vars PROVE [Stable]_vars
    BY <2>2
  <2> QED BY <2>1, <2>2
<1> QED BY <1>1, TypeCorrect, ReqInvariant, DecodedInvariant, ControlInvariant, MemInvariant, PTL
        DEF Spec, RequestStable
=============================================================================

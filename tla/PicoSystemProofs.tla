-------------------------- MODULE PicoSystemProofs --------------------------
(***************************************************************************)
(* Proofs about the core alone and joined with its co-processors, on top   *)
(* of PicoCoreProofs, for every value of the constants.                    *)
(***************************************************************************)
EXTENDS PicoPcpi, PicoCoreProofs

-----------------------------------------------------------------------------
(* Part one, the path of an instruction through the core: the invariant.   *)

\* The program counters are addresses; so is where fetch goes next.
PcInv ==
    /\ reg_pc \in HalfAddr /\ reg_next_pc \in HalfAddr /\ q0.at \in HalfAddr
    /\ ~trap /\ Fetching => next_pc \in HalfAddr
    /\ cpu_state = "fetch" => current_pc \in HalfAddr

\* A registered ALU result is waited for; a write-back or a branch is left to
\* fetch by the instruction it belongs to; waitirq waits in fetch.
HandOverInv ==
    /\ cpu_state = "exec" /\ TWO_CYCLE_ALU => alu_wait \/ alu_add_sub
    /\ cpu_state \in {"ld_rs1", "ld_rs2", "stmem"} => ~latched_store
    /\ cpu_state = "exec" /\ latched_store => latched_branch
    /\ do_waitirq => cpu_state = "fetch" /\ ~latched_branch /\ irq_state = 0 /\ ENABLE_IRQ /\ dec.op = "waitirq"
    /\ cpu_state = "shift" \/ (cpu_state \in {"ld_rs2", "exec"} /\ dec.op # "jalr") => mem_do_prefetch

\* The instruction after the one that is executed is in the decoder: in fetch, or
\* behind a load or store that makes its access.  In its first cycle there only
\* the first stage has it.
Behind       == cpu_state \in {"stmem", "ldmem"} /\ ~mem_do_prefetch
HasSuccessor == decoder_trigger \/ do_waitirq \/ Behind
Fresh        == decoder_trigger /\ ~decoder_pseudo_trigger
Same         == insn.at = dec.at /\ insn.long = dec.long /\ Matches
SuccessorInv ==
    /\ HasSuccessor => dec.at = FetchAddr(reg_next_pc)
    /\ Fresh => mem_rdata_q.at = dec.at
    /\ HasSuccessor /\ ~Fresh => Same

\* The second decoder stage holds the instruction that was launched, as long as
\* anything is taken from it, and so does the first until a successor arrives.
InsnInv ==
    /\ cpu_state \in {"ld_rs1", "ld_rs2", "exec", "shift"} => insn = cur /\ Same
    /\ cpu_state \in {"stmem", "ldmem"} /\ mem_do_prefetch => insn = cur
    /\ Operating => /\ cur.at = FetchAddr(reg_pc) /\ latched_compr = ~cur.long
                    /\ latched_rd = cur.at \/ (cpu_state = "exec" /\ dec.op = "branch")
    /\ cpu_state = "ldmem" /\ mem_do_rdata => latched_is # NoAddr

\* A read of instructions is addressed by next_pc, and what it has brought so far
\* is what memory holds there.
ReadInv ==
    /\ Fetching /\ ~latched_branch /\ mem_state = 1 /\ mem_valid =>
          mem_addr = IF mem_la_secondword THEN NextWord(WordOf(next_pc)) ELSE WordOf(next_pc)
    /\ mem_la_secondword /\ ~latched_branch =>
          Odd(next_pc) /\ mem_16bit_buffer = [at |-> next_pc, long |-> TRUE]
    /\ mem_state = 3 => /\ ~latched_branch /\ mem_rdata_q.at = FetchAddr(next_pc)
                        /\ COMPRESSED_ISA /\ ~mem_rdata_q.long => mem_16bit_buffer.at = Plus(next_pc, 1)

\* The kept upper half is the parcel the next fetch starts with, or, while an
\* instruction is in the decoder, the one behind that; else it is to be dropped.
PcBehind == Plus(reg_next_pc, IF dec.long THEN 2 ELSE 1)
KeptInv ==
    /\ mem_la_use_prefetched_high_word => mem_16bit_buffer.at = next_pc
    /\ COMPRESSED_ISA /\ HasSuccessor /\ prefetched_high_word /\ Odd(PcBehind) =>
          mem_16bit_buffer.at = PcBehind
    /\ COMPRESSED_ISA /\ cpu_state = "fetch" /\ ~Fetching /\ ~decoder_trigger /\ ~do_waitirq =>
          ~prefetched_high_word \/ clear_prefetched_high_word

\* A trapped core leaves a prefetch from the buffer as it is.
TrapInv ==
    cpu_state = "trap" /\ COMPRESSED_ISA /\ Fetching =>
        /\ ~mem_do_rinst /\ ~latched_branch /\ irq_state = 0
        /\ Odd(next_pc) => /\ ~mem_valid /\ ~mem_la_secondword /\ mem_16bit_buffer.at = next_pc
                           /\ trap \/ mem_la_use_prefetched_high_word

PathInv ==
    /\ PcInv /\ TrapInv
    /\ cpu_state # "trap" => /\ HandOverInv /\ SuccessorInv /\ InsnInv
                             /\ ReadInv /\ KeptInv /\ WritesOwnResult

-----------------------------------------------------------------------------
(* Addresses                                                               *)

LEMMA Parcels ==
    ASSUME NEW a \in HalfAddr
    PROVE  /\ WordOf(a) \in 0 .. WORDS - 1
           /\ LoAddr(WordOf(a)) = 2 * (a \div 2) /\ HiAddr(WordOf(a)) = Plus(LoAddr(WordOf(a)), 1)
           /\ FetchAddr(a) = IF COMPRESSED_ISA THEN a ELSE LoAddr(WordOf(a))
           /\ FetchAddr(a) \in HalfAddr /\ NoAddr \notin HalfAddr
           /\ Odd(a) => /\ HiAddr(WordOf(a)) = a
                        /\ LoAddr(NextWord(WordOf(a))) = Plus(a, 1)
                        /\ HiAddr(NextWord(WordOf(a))) = Plus(a, 2)
           /\ ~Odd(a) => LoAddr(WordOf(a)) = a /\ HiAddr(WordOf(a)) = Plus(a, 1)
<1>1. a \in Nat /\ WORDS \in Nat \ {0} /\ a < 2*WORDS
  BY WordsAssumption DEF HalfAddr
<1> DEFINE w == a \div 2
<1>2. w \in Nat /\ w < WORDS /\ (a = 2*w \/ a = 2*w + 1) /\ (Odd(a) <=> a = 2*w + 1)
  BY <1>1 DEF Odd
<1>3. WordOf(a) = w
  BY DEF WordOf
<1> HIDE DEF w
<1>4. LoAddr(w) = 2*w /\ HiAddr(w) = 2*w + 1
  BY <1>1, <1>2 DEF LoAddr, HiAddr
<1>5. Plus(2*w, 1) = 2*w + 1
  BY <1>1, <1>2 DEF Plus, HalfAddr
<1>6. FetchAddr(a) = IF COMPRESSED_ISA THEN a ELSE 2*w
  BY <1>3 DEF FetchAddr
<1>7. a = 2*w + 1 => /\ LoAddr(NextWord(w)) = Plus(a, 1) /\ HiAddr(NextWord(w)) = Plus(a, 2)
  <2>1. NextWord(w) = IF w + 1 = WORDS THEN 0 ELSE w + 1
    BY <1>1, <1>2 DEF NextWord
  <2>2. Plus(a, 1) = IF a + 1 = 2*WORDS THEN 0 ELSE a + 1
    BY <1>1 DEF Plus
  <2>3. a = 2*w + 1 => Plus(a, 2) = IF a + 1 = 2*WORDS THEN 1 ELSE a + 2
    <3>1. CASE a + 1 = 2*WORDS
      <4>1. a + 2 = 2*WORDS + 1 /\ 1 < 2*WORDS
        BY <1>1, <3>1
      <4>2. (a + 2) % (2*WORDS) = 1
        BY <1>1, <4>1
      <4> QED BY <3>1, <4>2 DEF Plus
    <3>2. CASE a + 1 # 2*WORDS
      BY <1>1, <1>2, <3>2 DEF Plus
    <3> QED BY <3>1, <3>2
  <2> QED BY <1>1, <1>2, <2>1, <2>2, <2>3 DEF LoAddr, HiAddr
<1>8. NoAddr \notin HalfAddr /\ FetchAddr(a) \in HalfAddr
  BY <1>1, <1>2, <1>6 DEF NoAddr, HalfAddr
<1> QED BY <1>1, <1>2, <1>3, <1>4, <1>5, <1>6, <1>7, <1>8 DEF w

LEMMA PlusType ==
    ASSUME NEW a \in HalfAddr, NEW n \in Nat
    PROVE  Plus(a, n) \in HalfAddr
BY WordsAssumption, AddressTypes DEF Plus, HalfAddr

-----------------------------------------------------------------------------
(* One cycle of a core that runs                                           *)

Walking(i) ==
    /\ Running(i) /\ i \in Inputs /\ PathInv
    /\ (FetchStep(i) \/ ExecuteStep(i)) /\ History

\* What a read that is answered brings comes from the word it addressed.
LEMMA ReadIsAddressed ==
    ASSUME NEW i \in Inputs, i.mem_ready, mem_instr
    PROVE  /\ i.lo.at = LoAddr(mem_addr) /\ i.hi.at = HiAddr(mem_addr)
           /\ ~COMPRESSED_ISA => i.lo.long
<1>1. PICK r \in Ready : \E d \in ReadData(r), q \in SUBSET EXT_IRQ, p \in PcpiInputs :
            i = [mem_ready |-> r, lo |-> d.lo, hi |-> d.hi, irq |-> q, pcpi |-> p]
  BY DEF Inputs
<1>2. PICK d \in ReadData(r), q \in SUBSET EXT_IRQ, p \in PcpiInputs :
            i = [mem_ready |-> r, lo |-> d.lo, hi |-> d.hi, irq |-> q, pcpi |-> p]
  BY <1>1
<1>3. d \in Words(mem_addr)
  BY <1>2 DEF ReadData
<1> QED BY <1>2, <1>3 DEF Words, Longs

\* The part of the invariant that a running core keeps.
LEMMA WalkingFacts ==
    ASSUME NEW i, Walking(i)
    PROVE  /\ Running(i) /\ i \in Inputs /\ cpu_state # "trap" /\ ~trap
           /\ PcInv /\ HandOverInv /\ SuccessorInv /\ InsnInv /\ ReadInv /\ KeptInv /\ WritesOwnResult
           /\ Fetching => next_pc \in HalfAddr
           /\ TypeOK /\ ReqInv /\ Decoded /\ Control /\ MemInv /\ BranchPhase /\ FetchPhase /\ InputOK(i)
BY Cycles DEF Walking, Running, PathInv, Control, PcInv

\* A fetch that completes, and is not thrown away by a branch, brings the
\* instruction at next_pc, however it was put together.
LEMMA FetchedIsAtPc ==
    ASSUME NEW i, Walking(i), mem_do_rinst, mem_done(i), ~latched_branch
    PROVE  mem_rdata_latched(i).at = FetchAddr(next_pc) /\ mem_rdata_q' = mem_rdata_latched(i)
<1> DEFINE a == next_pc
<1>1. a \in HalfAddr /\ Fetching /\ mem_state \in {1, 3} /\ ~mem_do_rdata /\ ~mem_do_wdata
  BY WalkingFacts, StateRequests, WhenDone DEF Fetching
<1>2. MemRegs(i)
  BY WalkingFacts, Cycles
<1>3. CASE mem_state = 3
  <2>1. ~mem_la_firstword /\ ~mem_la_secondword /\ ~mem_la_use_prefetched_high_word
    BY <1>3, WalkingFacts, StateRequests, WhenDone DEF MemInv, BufferInv
  <2>2. ~mem_xfer(i)
    BY <1>3, <2>1, WalkingFacts, StateRequests DEF mem_xfer
  <2> QED BY <1>2, <1>3, <2>1, <2>2, WalkingFacts DEF MemRegs, mem_rdata_latched, ReadInv
<1>4. CASE mem_state = 1
  <2>1. mem_xfer(i) /\ mem_rdata_q' = mem_rdata_latched(i)
    BY <1>2, <1>4, WalkingFacts, WhenDone DEF MemRegs
  <2>2. mem_la_firstword => ~mem_rdata_latched(i).long
    BY DEF mem_done
  <2>3. CASE mem_la_use_prefetched_high_word
    <3>1. mem_la_firstword /\ COMPRESSED_ISA
      BY <2>3, WalkingFacts, WhenDone
    <3>2. mem_rdata_latched(i) = Alone(mem_16bit_buffer) /\ mem_16bit_buffer.at = a
      BY <2>3, WalkingFacts DEF mem_rdata_latched, KeptInv
    <3> QED BY <1>1, <2>1, <2>2, <3>1, <3>2, Parcels DEF Alone
  <2>4. CASE ~mem_la_use_prefetched_high_word
    <3>1. mem_valid /\ i.mem_ready /\ mem_instr
      BY <1>1, <1>4, <2>1, <2>4, WalkingFacts, StateRequests DEF mem_xfer
    <3>2. i.lo.at = LoAddr(mem_addr) /\ i.hi.at = HiAddr(mem_addr)
      BY <3>1, WalkingFacts, ReadIsAddressed
    <3>3. mem_addr = IF mem_la_secondword THEN NextWord(WordOf(a)) ELSE WordOf(a)
      BY <1>1, <1>4, <3>1, WalkingFacts DEF ReadInv
    <3>4. CASE mem_la_secondword
      <4>1. COMPRESSED_ISA /\ Odd(a) /\ mem_16bit_buffer = [at |-> a, long |-> TRUE]
        BY <3>4, WalkingFacts, StateRequests DEF ReadInv
      <4>2. mem_rdata_latched(i) = Join(mem_16bit_buffer, i.lo)
        BY <2>1, <2>4, <3>4, <4>1 DEF mem_rdata_latched
      <4>3. i.lo.at = Plus(a, 1) /\ FetchAddr(a) = a
        BY <1>1, <3>2, <3>3, <3>4, <4>1, Parcels
      <4> QED BY <2>1, <4>1, <4>2, <4>3 DEF Join
    <3>5. CASE mem_la_firstword /\ ~mem_la_secondword
      <4>1. COMPRESSED_ISA /\ Odd(a) /\ mem_rdata_latched(i) = Alone(i.hi)
        BY <2>1, <2>4, <3>5, WalkingFacts, WhenDone DEF mem_rdata_latched
      <4>2. i.hi.at = a /\ FetchAddr(a) = a
        BY <1>1, <3>2, <3>3, <3>5, <4>1, Parcels
      <4> QED BY <2>1, <2>2, <3>5, <4>1, <4>2 DEF Alone
    <3>6. CASE ~mem_la_firstword /\ ~mem_la_secondword
      <4>1. mem_rdata_latched(i) = Join(i.lo, i.hi) /\ ~(COMPRESSED_ISA /\ Odd(a))
        BY <1>1, <2>1, <2>4, <3>6, WalkingFacts, WhenDone DEF mem_rdata_latched
      <4>2. i.lo.at = LoAddr(WordOf(a)) /\ i.hi.at = Plus(i.lo.at, 1) /\ FetchAddr(a) = LoAddr(WordOf(a))
        BY <1>1, <3>2, <3>3, <3>6, <4>1, Parcels
      <4> QED BY <2>1, <4>1, <4>2 DEF Join
    <3> QED BY <3>4, <3>5, <3>6
  <2> QED BY <2>3, <2>4
<1> QED BY <1>1, <1>3, <1>4

\* A branch finds the interface idle in fetch, and one that was found taken
\* stays; so what is fetched for next_pc is fetched for it to the end.
LEMMA SteadyFetch ==
    ASSUME NEW i, Walking(i), mem_state # 0, ~latched_branch'
    PROVE  /\ ~latched_branch
           /\ Fetching /\ ~mem_done(i) => next_pc' = next_pc /\ Fetching'
<1>1. ~latched_branch
  <2>1. latched_branch => Taken
    BY WalkingFacts DEF BranchPhase, MemInv, StartInv, Taken
  <2> QED BY <2>1, WalkingFacts DEF Running, Moves
<1>2. Fetching /\ ~mem_done(i) => next_pc' = next_pc /\ Fetching'
  BY WalkingFacts, FetchPersists
<1> QED BY <1>1, <1>2

LEMMA NextAddressed ==
    ASSUME NEW i, Walking(i), Fetching', ~latched_branch', mem_state' = 1, mem_valid'
    PROVE  mem_addr' = IF mem_la_secondword' THEN NextWord(WordOf(next_pc')) ELSE WordOf(next_pc')
<1>1. MemRequest(i)
  BY WalkingFacts, Cycles
<1>2. CASE MemStartRead(i)
  <2>1. mem_state = 0 /\ ~mem_done(i) /\ ~mem_la_use_prefetched_high_word /\ ~mem_do_wdata
    BY <1>2, WalkingFacts, WhenDone DEF MemStartRead
  <2>2. ~mem_do_rdata
    BY <2>1, WalkingFacts DEF Running, Moves
  <2>3. Fetching /\ next_pc' = next_pc
    BY <1>2, <2>1, <2>2, WalkingFacts, FetchPersists DEF MemStartRead
  <2>4. ~mem_xfer(i) /\ ~mem_la_secondword /\ ~mem_la_secondword'
    BY <1>2, <2>1, WalkingFacts, StateRequests DEF mem_xfer, MemStartRead
  <2>5. mem_la_read(i) /\ mem_la_addr(i) = WordOf(next_pc)
    BY <2>1, <2>3, <2>4 DEF mem_la_read, mem_la_addr, mem_la_firstword_xfer
  <2> QED BY <1>1, <2>3, <2>4, <2>5 DEF MemRequest
<1>3. CASE MemWait(i)
  <2>1. mem_state = 1 /\ mem_valid /\ ~mem_xfer(i) /\ (mem_la_secondword' <=> mem_la_secondword)
    BY <1>3 DEF MemWait
  <2>2. ~mem_done(i) /\ ~mem_do_wdata /\ ~latched_branch
    BY <2>1, WalkingFacts, WhenDone, StateRequests, SteadyFetch
  <2>3. ~mem_do_rdata
    BY <2>2, WalkingFacts DEF Running, Moves
  <2>4. Fetching /\ next_pc' = next_pc
    BY <2>1, <2>2, <2>3, WalkingFacts, StateRequests, SteadyFetch
  <2>5. ~mem_la_read(i) /\ ~mem_la_write
    BY <2>1 DEF mem_la_read, mem_la_write, mem_la_firstword_xfer
  <2> QED BY <1>1, <2>1, <2>2, <2>4, <2>5, WalkingFacts DEF MemRequest, ReadInv
<1>4. CASE MemSecondWord(i)
  <2>1. /\ mem_state = 1 /\ Fetching /\ ~mem_done(i) /\ mem_la_secondword' /\ mem_la_read(i)
    BY <1>4, WalkingFacts, SecondWordIsAskedFor DEF MemSecondWord
  <2>2. next_pc' = next_pc
    BY <2>1, SteadyFetch
  <2>3. mem_la_addr(i) = NextWord(WordOf(next_pc))
    BY <2>1 DEF mem_la_read, mem_la_addr
  <2> QED BY <1>1, <2>1, <2>2, <2>3 DEF MemRequest
<1>5. ~MemStartWrite(i) /\ ~MemWriteDone(i)
  BY DEF MemStartWrite, MemWriteDone
<1>6. MemIdle(i) => mem_state' = 0
  BY DEF MemIdle
<1>7. ~MemReadDone(i) /\ ~MemHeld
  <2>1. MemReadDone(i) \/ MemHeld => mem_state' \in {0, 3}
    BY DEF MemReadDone, MemHeld
  <2> QED BY <2>1
<1> QED BY <1>2, <1>3, <1>4, <1>5, <1>6, <1>7, WalkingFacts, Cycles

LEMMA NextFirstHalf ==
    ASSUME NEW i, Walking(i), mem_la_secondword', ~latched_branch'
    PROVE  Odd(next_pc') /\ mem_16bit_buffer' = [at |-> next_pc', long |-> TRUE]
<1>1. CASE MemSecondWord(i)
  <2>1. /\ COMPRESSED_ISA /\ mem_la_firstword /\ mem_state = 1 /\ mem_xfer(i) /\ mem_do_rinst /\ Fetching
        /\ ~mem_done(i) /\ mem_la_read(i)
    BY <1>1, WalkingFacts, SecondWordIsAskedFor DEF MemSecondWord
  <2>2. next_pc' = next_pc /\ ~latched_branch /\ Odd(next_pc) /\ ~mem_la_secondword
    BY <2>1, SteadyFetch, WalkingFacts, WhenDone
  <2>3. mem_rdata_latched(i).long
    BY <2>1 DEF mem_la_read
  <2>4. CASE mem_la_use_prefetched_high_word
    <3>1. mem_16bit_buffer' = mem_16bit_buffer /\ mem_16bit_buffer.at = next_pc
      BY <1>1, <2>4, WalkingFacts DEF MemSecondWord, KeptInv
    <3>2. mem_16bit_buffer.long = TRUE
      BY <2>3, <2>4, WalkingFacts DEF mem_rdata_latched, Alone, TypeOK, MemTypeOK, Parcel
    <3> QED BY <2>2, <3>1, <3>2, WalkingFacts DEF TypeOK, MemTypeOK, Parcel
  <2>5. CASE ~mem_la_use_prefetched_high_word
    <3>1. mem_valid /\ i.mem_ready /\ mem_instr /\ mem_addr = WordOf(next_pc)
      BY <2>1, <2>2, <2>5, WalkingFacts, StateRequests DEF mem_xfer, ReadInv
    <3>2. i.hi.at = next_pc
      BY <2>1, <2>2, <3>1, WalkingFacts, ReadIsAddressed, Parcels
    <3>3. i.hi \in Parcel /\ i.hi.long
      BY <2>1, <2>2, <2>3, <2>5, WalkingFacts DEF mem_rdata_latched, Alone, InputOK
    <3> QED BY <1>1, <2>2, <2>5, <3>2, <3>3 DEF MemSecondWord, Parcel
  <2> QED BY <2>4, <2>5
<1>2. CASE MemWait(i)
  <2>1. mem_la_secondword /\ mem_16bit_buffer' = mem_16bit_buffer /\ ~mem_xfer(i)
    BY <1>2 DEF MemWait
  <2>2. mem_state = 1 /\ mem_do_rinst /\ Fetching
    BY <2>1, WalkingFacts, StateRequests DEF MemInv, BufferInv, Fetching
  <2>3. ~latched_branch /\ next_pc' = next_pc
    BY <2>1, <2>2, SteadyFetch, WalkingFacts, WhenDone
  <2> QED BY <2>1, <2>3, WalkingFacts DEF ReadInv
<1>3. ~MemIdle(i) /\ ~MemStartWrite(i) /\ ~MemStartRead(i) /\ ~MemReadDone(i) /\ ~MemWriteDone(i) /\ ~MemHeld
  BY WalkingFacts, StateRequests DEF MemIdle, MemStartWrite, MemStartRead, MemReadDone, MemWriteDone, MemHeld
<1> QED BY <1>1, <1>2, <1>3, WalkingFacts, Cycles

LEMMA NextHeldAtPc ==
    ASSUME NEW i, Walking(i), mem_state' = 3
    PROVE  /\ ~latched_branch' /\ mem_rdata_q'.at = FetchAddr(next_pc')
           /\ COMPRESSED_ISA /\ ~mem_rdata_q'.long => mem_16bit_buffer'.at = Plus(next_pc', 1)
<1>1. (MemReadDone(i) \/ MemHeld) /\ ~mem_do_rinst /\ ~mem_do_rdata
  <2>1. ~MemIdle(i) /\ ~MemStartRead(i) /\ ~MemStartWrite(i) /\ ~MemWait(i) /\ ~MemSecondWord(i) /\ ~MemWriteDone(i)
    BY DEF MemIdle, MemStartRead, MemStartWrite, MemWait, MemSecondWord, MemWriteDone
  <2>2. MemReadDone(i) => ~mem_do_rinst /\ ~mem_do_rdata
    BY DEF MemReadDone
  <2>3. MemHeld => ~mem_do_rinst /\ ~mem_do_rdata
    BY WalkingFacts, StateRequests DEF MemHeld
  <2> QED BY <2>1, <2>2, <2>3, WalkingFacts, Cycles
<1>2. mem_state \in {1, 3} /\ Fetching /\ ~mem_do_wdata /\ ~mem_done(i) /\ MemRegs(i)
  BY <1>1, WalkingFacts, StateRequests, WhenDone, Cycles DEF MemReadDone, MemHeld, Fetching
<1>3. ~latched_branch' /\ ~latched_branch /\ next_pc' = next_pc /\ next_pc \in HalfAddr
  <2>1. ~latched_branch'
    BY <1>1, <1>2, WalkingFacts DEF Running, Moves
  <2> QED BY <1>2, <2>1, SteadyFetch, WalkingFacts
<1>4. CASE MemReadDone(i)
  <2>1. mem_state = 1 /\ mem_xfer(i) /\ ~mem_la_secondword
    BY <1>1, <1>4, WalkingFacts, StateRequests DEF MemReadDone, MemInv, BufferInv
  <2>2. ~mem_la_use_prefetched_high_word /\ mem_valid /\ i.mem_ready /\ mem_instr
    BY <1>1, <1>2, <2>1, WalkingFacts, StateRequests DEF mem_xfer
  <2>3. ~mem_la_firstword /\ (COMPRESSED_ISA => ~Odd(next_pc))
    BY <1>1, <1>2, <2>1, <2>2, WalkingFacts, OddServed, WhenDone
  <2>4. mem_rdata_q' = Join(i.lo, i.hi)
    BY <1>2, <2>1, <2>2, <2>3 DEF MemRegs, mem_rdata_latched
  <2>5. mem_addr = WordOf(next_pc)
    BY <1>2, <1>3, <2>1, <2>2, WalkingFacts DEF ReadInv
  <2>6. /\ i.lo.at = FetchAddr(next_pc) /\ i.hi.at = Plus(i.lo.at, 1)
        /\ COMPRESSED_ISA => i.lo.at = next_pc
    <3>1. i.lo.at = LoAddr(WordOf(next_pc)) /\ i.hi.at = HiAddr(WordOf(next_pc))
      BY <2>2, <2>5, WalkingFacts, ReadIsAddressed
    <3>2. FetchAddr(next_pc) = IF COMPRESSED_ISA THEN next_pc ELSE LoAddr(WordOf(next_pc))
      BY <1>3, Parcels
    <3>3. ~Odd(next_pc) => LoAddr(WordOf(next_pc)) = next_pc
      BY <1>3, Parcels
    <3>4. HiAddr(WordOf(next_pc)) = Plus(LoAddr(WordOf(next_pc)), 1)
      BY <1>3, Parcels
    <3> QED BY <2>3, <3>1, <3>2, <3>3, <3>4
  <2>7. mem_rdata_q'.at = FetchAddr(next_pc) /\ mem_rdata_q'.long = i.lo.long
    BY <2>4, <2>6 DEF Join
  <2>8. COMPRESSED_ISA /\ ~i.lo.long => mem_16bit_buffer' = i.hi
    BY <1>1, <1>4 DEF MemReadDone
  <2> QED BY <1>3, <2>6, <2>7, <2>8
<1>5. CASE MemHeld
  <2>1. mem_state = 3 /\ ~mem_xfer(i) /\ mem_16bit_buffer' = mem_16bit_buffer
    BY <1>1, <1>5, WalkingFacts, StateRequests, WhenDone DEF MemHeld
  <2>2. mem_rdata_q' = mem_rdata_q
    BY <1>2, <2>1 DEF MemRegs
  <2> QED BY <1>3, <2>1, <2>2, WalkingFacts DEF ReadInv
<1> QED BY <1>1, <1>4, <1>5

LEMMA NextRead ==
    ASSUME NEW i, Walking(i)
    PROVE  ReadInv'
BY NextAddressed, NextFirstHalf, NextHeldAtPc DEF ReadInv

-----------------------------------------------------------------------------
(* What each state of the main state machine hands on                      *)

\* In fetch an instruction that is there is launched, alone; a jump, waitirq and
\* the entry into an interrupt never meet it.
FetchHands(i) ==
    /\ cpu_state = "fetch" /\ Decode(i) /\ reg_pc' = current_pc
    /\ cpu_state' \in {"fetch", "ld_rs1", "trap"} /\ (COMPRESSED_ISA => cpu_state' # "trap")
    /\ ~latched_stalu' /\ ~decoder_pseudo_trigger'
    /\ decoder_trigger' <=> mem_do_rinst /\ mem_done(i)
    /\ IF Launches
       THEN /\ decoder_trigger \/ do_waitirq
            /\ latched_rd' = dec.at /\ latched_compr' = ~dec.long /\ cur' = insn' /\ ~do_waitirq'
            /\ \/ reg_next_pc' = PcAfter(dec) /\ ~latched_branch'
               \/ decoder_trigger /\ dec.op = "jal" /\ reg_next_pc' = JumpTarget(dec) /\ latched_branch'
            /\ latched_store' => reg_out' = Value /\ ~latched_branch' /\ cpu_state' # "ld_rs1"
       ELSE /\ reg_next_pc' = current_pc /\ ~latched_store' /\ ~latched_branch' /\ cpu_state' # "ld_rs1"
    /\ do_waitirq' => (decoder_trigger \/ do_waitirq) /\ irq_state' = 0 /\ ENABLE_IRQ /\ dec.op = "waitirq"
    /\ Fetching' /\ ~Fetching /\ ~Launches => irq_state # 0 \/ (~decoder_trigger /\ ~do_waitirq)
    /\ cpu_state' = "fetch" /\ ~Fetching' /\ ~decoder_trigger' /\ ~do_waitirq' =>
          irq_state # 0 \/ irq_state' # 0 \/ latched_branch'
    /\ q0' = q0 \/ q0'.at = reg_next_pc
    /\ ~mem_do_rdata'

LEMMA FetchHandsOn ==
    ASSUME NEW i, Walking(i), FetchStep(i)
    PROVE  FetchHands(i)
<1>1. /\ cpu_state = "fetch" /\ ~mem_do_rdata /\ ~mem_do_wdata
      /\ decoder_trigger => ~Fetching /\ irq_state = 0
      /\ do_waitirq => ~Fetching /\ irq_state = 0 /\ ENABLE_IRQ /\ dec.op = "waitirq"
      /\ irq_state = 1 => ~Fetching
      /\ mem_done(i) => mem_do_rinst
      /\ irq_state # 0 => ENABLE_IRQ /\ ~latched_store /\ ~latched_branch
  BY WalkingFacts, FetchFacts, DoneIsRequested DEF ReqInv, FetchRequests, EntryRequests, BranchPhase, FetchPhase, HandOverInv
<1>2. /\ mem_do_rinst \in BOOLEAN /\ mem_do_prefetch \in BOOLEAN /\ decoder_trigger \in BOOLEAN
      /\ irq_state \in 0 .. 2 /\ History
  BY WalkingFacts DEF TypeOK, RequestTypeOK, DecoderTypeOK, IrqTypeOK, Walking
<1> USE DEF FetchHands, FetchHead, FetchTail, Launches, History, Fetching, Fetched, Default, Finish, Requests, Misaligned
<1>3. CASE FetchInterrupt(i)
  BY <1>1, <1>2, <1>3 DEF FetchInterrupt
<1>4. CASE FetchSaveReturn(i)
  <2> HIDE DEF FetchHands, Fetched, Default, Finish, Requests, Misaligned
  <2>1. /\ FetchHead /\ irq_state = 1 /\ irq_state' = 2 /\ reg_next_pc' = current_pc /\ InterruptTaken
        /\ q0' = q0 \/ q0'.at = reg_next_pc
        /\ Finish(i, [Fetched(i) EXCEPT !.rinst = TRUE])
    BY <1>1, <1>4 DEF FetchSaveReturn, InterruptTaken
  <2> QED BY <1>1, <1>2, <2>1 DEF FetchHands, Fetched, Default, Finish, Requests, Misaligned
<1>5. CASE FetchSaveMask(i)
  <2> HIDE DEF FetchHands, Fetched, Default, Finish, Requests, Misaligned
  <2>1. /\ FetchHead /\ irq_state = 2 /\ irq_state' = 0 /\ reg_next_pc' = current_pc /\ InterruptTaken
        /\ q0' = q0
        /\ Finish(i, [Fetched(i) EXCEPT !.pending = @ \cap irq_mask])
    BY <1>1, <1>5 DEF FetchSaveMask, InterruptTaken
  <2> QED BY <1>1, <1>2, <2>1 DEF FetchHands, Fetched, Default, Finish, Requests, Misaligned
<1>6. CASE FetchWaitirq(i)
  <2>1. /\ decoder_trigger \/ do_waitirq
        /\ ~InterruptTaken /\ Waiting /\ ENABLE_IRQ /\ dec.op = "waitirq"
    BY <1>6 DEF FetchWaitirq, Waiting
  <2>2. CASE irq_pending # {}
    BY <1>1, <1>2, <1>6, <2>1, <2>2, ZenonT(30) DEF FetchWaitirq
  <2>3. CASE irq_pending = {}
    BY <1>1, <1>2, <1>6, <2>1, <2>3 DEF FetchWaitirq
  <2> QED BY <2>2, <2>3
<1>7. CASE LaunchJal(i)
  BY <1>1, <1>2, <1>7 DEF LaunchJal
<1>8. CASE Launch(i)
  BY <1>1, <1>2, <1>8 DEF Launch
<1>9. CASE FetchIdle(i)
  <2>1. ~decoder_trigger /\ ~do_waitirq
    BY <1>1, <1>9 DEF FetchIdle, Waiting
  <2> QED BY <1>1, <1>2, <1>9, <2>1 DEF FetchIdle
<1> QED BY <1>3, <1>4, <1>5, <1>6, <1>7, <1>8, <1>9 DEF FetchStep

\* While operands are loaded nothing changes but what the result of the
\* instruction is; it ends with one, with the jump of retirq, or with none.
LoadHands(i) ==
    /\ LoadingOperands /\ KeepFetch /\ KeepRd /\ cur' = cur /\ insn' = insn /\ dec' = dec
    /\ ~decoder_trigger' /\ ~decoder_pseudo_trigger' /\ ~do_waitirq' /\ ~mem_do_rdata'
    /\ mem_do_prefetch' <=> mem_do_prefetch
    /\ latched_branch' => latched_store' /\ reg_out' = q0.at
    /\ latched_store' => cpu_state' \in {"fetch", "trap"} /\ (latched_branch' \/ reg_out' = Value)
    /\ cpu_state' \in {"fetch", "shift"} => latched_branch' \/ mem_do_prefetch
    /\ cpu_state' \in {"ld_rs2", "exec"} => dec.op = "jalr" \/ mem_do_prefetch
    /\ cpu_state' = "exec" /\ TWO_CYCLE_ALU => alu_wait'
    /\ COMPRESSED_ISA /\ cpu_state' = "trap" => ~mem_do_rinst' /\ ~latched_branch'

LEMMA LoadHandsOn ==
    ASSUME NEW i, Walking(i), LdRs1Step(i) \/ LdRs2Trap(i) \/ LdRs2Operands(i)
    PROVE  LoadHands(i) /\ ~latched_stalu'
<1>1. /\ LoadingOperands /\ ~mem_do_rinst /\ ~mem_do_rdata /\ ~mem_do_wdata /\ ~mem_done(i) /\ Matches
      /\ KeepFetch /\ ~trap' /\ latched_stalu' = latched_stalu /\ ~do_waitirq' /\ ~decoder_trigger'
      /\ dec' = dec /\ (mem_do_prefetch' <=> mem_do_prefetch)
      /\ dec.op \notin {"jalr", "retirq"} => mem_do_prefetch
      /\ ~latched_store /\ ~latched_branch /\ ~latched_stalu /\ ~decoder_trigger
      /\ cpu_state' = "exec" /\ TWO_CYCLE_ALU => alu_wait'
  BY WalkingFacts, LoadFacts DEF Decoded, HandOverInv, BranchPhase, LoadingOperands, ReqInv, FetchRequests
<1>2. KeepRd /\ cur' = cur /\ insn' = insn
  <2>1. KeepRd /\ Decode(i)
    BY DEF LdRs1Step, LdRs1Trap, LdRs1Move, LdRs1Retirq, LdRs1Maskirq, LdRs1Timer,
       LdRs1Load, LdRs1ShiftImm, LdRs1Imm, LdRs1Rs2, LdRs1, LdRs2Trap, LdRs2Operands, LdRs2, Operands, Finish
  <2> QED BY <1>1, <2>1 DEF Decode, Walking, History, Launches, LoadingOperands
<1>3. COMPRESSED_ISA => ~Misaligned
  BY <1>1 DEF Misaligned
<1> DEFINE Rest ==
      /\ ~decoder_pseudo_trigger' /\ ~mem_do_rdata'
      /\ latched_branch' => latched_store' /\ reg_out' = q0.at
      /\ latched_store' => cpu_state' \in {"fetch", "trap"} /\ (latched_branch' \/ reg_out' = Value)
      /\ cpu_state' \in {"fetch", "shift"} => latched_branch' \/ mem_do_prefetch
      /\ cpu_state' \in {"ld_rs2", "exec"} => dec.op = "jalr" \/ mem_do_prefetch
      /\ ~Misaligned /\ cpu_state' = "trap" => ~mem_do_rinst' /\ ~latched_branch'
<1>4. SUFFICES Rest
  BY <1>1, <1>2, <1>3 DEF LoadHands
<1> USE DEF Default, Finish, Requests, LdRs1, LdRs2
<1>5. ASSUME Operands(i), dec.op = "jalr" \/ mem_do_prefetch PROVE Rest
  <2>1. CASE dec.op = "store"
    BY <1>1, <1>5, <2>1 DEF Operands, LoadingOperands
  <2>2. CASE dec.op # "store" /\ insn.op = "sll" /\ ~BARREL_SHIFTER
    BY <1>1, <1>5, <2>2 DEF Operands, LoadingOperands, Matches
  <2>3. CASE dec.op # "store" /\ ~(insn.op = "sll" /\ ~BARREL_SHIFTER)
    BY <1>1, <1>5, <2>3 DEF Operands, ToExec, LoadingOperands
  <2> QED BY <2>1, <2>2, <2>3
<1>6. ASSUME Finish(i, PcpiCycle(i)), IsTrap PROVE Rest
  <2>1. mem_do_prefetch
    BY <1>1, <1>6 DEF Matches, IsTrap
  <2> QED BY <1>1, <1>6, <2>1 DEF PcpiCycle, Raise, LoadingOperands
<1>7. CASE LdRs1Trap(i)
  <2>0. mem_do_prefetch
    BY <1>1, <1>7 DEF LdRs1Trap, Matches, IsTrap
  <2>1. CASE ~WITH_PCPI
    BY <1>1, <1>7, <2>0, <2>1 DEF LdRs1Trap, Raise, LoadingOperands
  <2>2. CASE WITH_PCPI /\ ENABLE_REGS_DUALPORT
    <3> HIDE DEF Finish, Rest
    <3> QED BY <1>6, <1>7, <2>2 DEF LdRs1Trap
  <2>3. CASE WITH_PCPI /\ ~ENABLE_REGS_DUALPORT
    BY <1>1, <1>7, <2>0, <2>3 DEF LdRs1Trap, LoadingOperands
  <2> QED BY <2>1, <2>2, <2>3
<1>8. CASE LdRs1Move(i)
  <2>1. mem_do_prefetch
    BY <1>1, <1>8 DEF LdRs1Move, Matches
  <2> QED BY <1>1, <1>8, <2>1 DEF LdRs1Move, LoadingOperands
<1>9. CASE LdRs1Retirq(i)
  BY <1>1, <1>9 DEF LdRs1Retirq, LoadingOperands
<1>10. CASE LdRs1Maskirq(i)
  <2>1. mem_do_prefetch
    BY <1>1, <1>10 DEF LdRs1Maskirq, Matches
  <2> QED BY <1>1, <1>10, <2>1 DEF LdRs1Maskirq, LoadingOperands
<1>11. CASE LdRs1Timer(i)
  <2>1. mem_do_prefetch
    BY <1>1, <1>11 DEF LdRs1Timer, Matches
  <2> QED BY <1>1, <1>11, <2>1 DEF LdRs1Timer, LoadingOperands
<1>12. CASE LdRs1Load(i)
  BY <1>1, <1>12 DEF LdRs1Load, LoadingOperands
<1>13. CASE LdRs1ShiftImm(i)
  <2>1. mem_do_prefetch
    BY <1>1, <1>13 DEF LdRs1ShiftImm, Matches
  <2> QED BY <1>1, <1>13, <2>1 DEF LdRs1ShiftImm, LoadingOperands
<1>14. CASE LdRs1Imm(i)
  <2>1. dec.op = "jalr" \/ mem_do_prefetch
    BY <1>1, <1>14 DEF LdRs1Imm, Matches
  <2> QED BY <1>1, <1>14, <2>1 DEF LdRs1Imm, ToExec, LoadingOperands
<1>15. CASE LdRs1Rs2(i)
  <2>0. mem_do_prefetch
    BY <1>1, <1>15 DEF LdRs1Rs2, NeedsRs2, Matches
  <2>1. CASE ENABLE_REGS_DUALPORT
    <3> HIDE DEF Finish, Rest
    <3> QED BY <1>5, <1>15, <2>0, <2>1 DEF LdRs1Rs2
  <2>2. CASE ~ENABLE_REGS_DUALPORT
    BY <1>1, <1>15, <2>0, <2>2 DEF LdRs1Rs2, LoadingOperands
  <2> QED BY <2>1, <2>2
<1>16. CASE LdRs2Trap(i)
  <2> HIDE DEF Finish, Rest
  <2> QED BY <1>6, <1>16 DEF LdRs2Trap
<1>17. CASE LdRs2Operands(i)
  <2>1. dec.op = "jalr" \/ mem_do_prefetch
    BY <1>17, WalkingFacts DEF LdRs2Operands, HandOverInv
  <2> HIDE DEF Finish, Rest
  <2> QED BY <1>5, <1>17, <2>1 DEF LdRs2Operands
<1> QED BY <1>7, <1>8, <1>9, <1>10, <1>11, <1>12, <1>13, <1>14, <1>15, <1>16, <1>17 DEF LdRs1Step

\* In exec and shift the instruction is finished while its successor is fetched;
\* only a branch that is taken and jalr leave a target, which has been computed.
ComputeHands(i) ==
    /\ cpu_state \in {"exec", "shift"} /\ KeepFetch /\ cur' = cur /\ insn' = insn
    /\ ~decoder_pseudo_trigger' /\ ~do_waitirq' /\ ~mem_do_rdata' /\ (mem_do_prefetch /\ ~mem_done(i) => mem_do_prefetch')
    /\ alu_add_sub' <=> cpu_state = "exec"
    /\ cpu_state' \in {"exec", "shift", "fetch", "trap"} /\ (COMPRESSED_ISA => cpu_state' # "trap")
    /\ cpu_state' \in {"exec", "shift"} =>
          /\ cpu_state' = cpu_state /\ ~mem_done(i) /\ dec' = dec
          /\ cpu_state = "exec" /\ latched_store' => latched_branch'
    /\ latched_rd' = latched_rd \/ (cpu_state = "exec" /\ dec.op = "branch")
    /\ latched_branch' => /\ latched_store'
                          /\ IF latched_stalu' THEN ~Fetching' /\ alu_out_q' \in HalfAddr ELSE reg_out' \in HalfAddr
    /\ cpu_state' = "fetch" /\ latched_store' /\ ~latched_branch' =>
          /\ latched_rd' = latched_rd /\ ~(cpu_state = "exec" /\ dec.op = "branch")
          /\ (IF latched_stalu' THEN alu_out_q' ELSE reg_out') # NoAddr
    /\ decoder_trigger' <=> mem_do_rinst /\ mem_done(i) /\ ~latched_branch'
    /\ Fetching' /\ ~latched_branch' => Fetching
    /\ cpu_state' = "fetch" /\ ~Fetching' /\ ~decoder_trigger' => latched_branch'

LEMMA ComputeKnown ==
    ASSUME NEW i, Walking(i), ExecWait(i) \/ ExecBranch(i) \/ ExecAlu(i) \/ Shift(i)
    PROVE  /\ cpu_state \in {"exec", "shift"} /\ KeepFetch /\ cur' = cur /\ insn' = insn
           /\ ~do_waitirq' /\ ~mem_do_rdata' /\ (mem_done(i) => mem_do_rinst) /\ (~mem_done(i) => dec' = dec)
           /\ alu_add_sub' = (cpu_state = "exec")
           /\ mem_do_prefetch' <=> mem_do_prefetch /\ ~mem_done(i)
           /\ COMPRESSED_ISA => ~Misaligned
           /\ ~latched_stalu /\ insn = cur /\ Same /\ cur.at = FetchAddr(reg_pc)
           /\ dec.op # "jalr" \/ cpu_state = "shift" => mem_do_prefetch
           /\ NoAddr \notin HalfAddr /\ Value # NoAddr /\ Targets \subseteq HalfAddr
<1>1. cur' = cur
  BY WalkingFacts, ComputeFacts DEF Walking, History, Launches
<1>2. COMPRESSED_ISA => ~Misaligned
  BY WalkingFacts, ComputeFacts DEF Misaligned
<1>3. insn = cur /\ Same /\ cur.at = FetchAddr(reg_pc) /\ (dec.op # "jalr" \/ cpu_state = "shift" => mem_do_prefetch)
  BY WalkingFacts, ComputeFacts DEF InsnInv, HandOverInv, Operating
<1>4. NoAddr \notin HalfAddr /\ Value # NoAddr /\ Targets \subseteq HalfAddr
  BY WordsAssumption, ParamAssumption DEF NoAddr, HalfAddr, Value
<1> QED BY <1>1, <1>2, <1>3, <1>4, WalkingFacts, ComputeFacts

LEMMA ExecWaitHandsOn ==
    ASSUME NEW i, Walking(i), ExecWait(i)
    PROVE  ComputeHands(i)
<1>1. /\ cpu_state = "exec" /\ AluWaits /\ ~mem_do_rinst /\ ~mem_done(i) /\ ~latched_branch /\ ~latched_store
  BY WalkingFacts, ComputeKnown DEF ExecWait, Exec, FetchPhase, BranchPhase, Taken, AluWaits, HandOverInv
<1> USE DEF Default, Finish, Requests
<1>2. /\ cpu_state' \in {"exec", "trap"} /\ (~Misaligned => cpu_state' = "exec")
      /\ ~decoder_trigger' /\ ~decoder_pseudo_trigger' /\ latched_rd' = latched_rd
      /\ ~latched_branch' /\ ~latched_store' /\ (mem_do_rinst' => mem_do_prefetch)
  BY <1>1 DEF ExecWait, KeepRd
<1> QED BY <1>1, <1>2, ComputeKnown DEF ComputeHands, Fetching

LEMMA ExecBranchHandsOn ==
    ASSUME NEW i, Walking(i), ExecBranch(i)
    PROVE  ComputeHands(i)
<1> DEFINE taken == insn.arg # NotTaken
<1>1. /\ cpu_state = "exec" /\ ~AluWaits /\ dec.op = "branch" /\ mem_do_prefetch /\ mem_do_rinst
      /\ CompareValid
  BY WalkingFacts, ComputeFacts, ParamAssumption
     DEF ExecBranch, Exec, FetchPhase, ComparePhase, AluWaits, AluValid, CompareValid
<1>2. taken => PcPlusImm \in HalfAddr
  <2>1. insn.op = "branch" /\ insn.at = FetchAddr(reg_pc)
    BY <1>1, ComputeKnown DEF Same, Matches
  <2>2. insn.arg \in Targets \cup {NotTaken}
    BY <2>1, WalkingFacts DEF TypeOK, DecoderTypeOK, Args
  <2> QED BY <2>1, <2>2, ComputeKnown DEF PcPlusImm
<1>3. /\ cpu_state' = IF Misaligned /\ ~CanRaise(irq_buserror) THEN "trap" ELSE IF mem_done(i) THEN "fetch" ELSE "exec"
      /\ decoder_trigger' <=> mem_do_rinst /\ mem_done(i) /\ ~taken
      /\ ~decoder_pseudo_trigger' /\ reg_out' = PcPlusImm
      /\ latched_branch' = taken /\ latched_store' = taken /\ latched_stalu' = latched_stalu
      /\ mem_do_rinst' <=> taken \/ (mem_do_rinst /\ ~mem_done(i))
  <2>1. Finish(i, [Default(i) EXCEPT
             !.store = taken, !.branch = taken, !.reg_out = PcPlusImm,
             !.cpu_state = IF mem_done(i) THEN "fetch" ELSE "exec",
             !.trigger = @ /\ ~taken,
             !.set = IF taken THEN "rinst" ELSE "none"])
    BY <1>1 DEF ExecBranch
  <2> HIDE DEF taken
  <2> QED BY <2>1 DEF Default, Finish, Requests
<1>4. cpu_state' = "fetch" => mem_done(i)
  BY <1>3
<1> HIDE DEF taken
<1> QED BY <1>1, <1>2, <1>3, <1>4, ComputeKnown DEF ComputeHands, Fetching

LEMMA ExecAluHandsOn ==
    ASSUME NEW i, Walking(i), ExecAlu(i)
    PROVE  ComputeHands(i)
<1>1. /\ cpu_state = "exec" /\ ~AluWaits /\ dec.op # "branch" /\ ~latched_branch
      /\ mem_do_prefetch => mem_do_rinst
      /\ dec.op = "jalr" => ~mem_do_prefetch /\ ~mem_do_rinst
  BY WalkingFacts, ComputeFacts DEF ExecAlu, Exec, FetchPhase, BranchPhase, Taken, Fetching
<1>2. /\ cpu_state' \in {"fetch", "trap"} /\ (~Misaligned => cpu_state' = "fetch")
      /\ decoder_trigger' <=> mem_do_rinst /\ mem_done(i)
      /\ ~decoder_pseudo_trigger' /\ latched_rd' = latched_rd
      /\ latched_branch' = (dec.op = "jalr") /\ latched_store' = TRUE /\ latched_stalu' = TRUE
      /\ mem_do_rinst' <=> mem_do_rinst /\ ~mem_done(i)
  BY <1>1 DEF ExecAlu, Default, Finish, Requests, KeepRd
<1>3. alu_out_q' = IF insn.op = "jalr" THEN insn.arg ELSE Value
  <2>1. AluValid
    BY <1>1, WalkingFacts DEF AluValid, AluWaits, HandOverInv
  <2> QED BY <2>1 DEF ExecAlu, Finish, Alu
<1>4. insn.op = "jalr" => insn.arg \in HalfAddr
  BY WalkingFacts, ComputeKnown DEF TypeOK, DecoderTypeOK, Args
<1>5. dec.op = "jalr" => insn.op = "jalr"
  BY ComputeKnown DEF Same, Matches
<1> QED BY <1>1, <1>2, <1>3, <1>4, <1>5, ComputeKnown DEF ComputeHands, Fetching

LEMMA ShiftHandsOn ==
    ASSUME NEW i, Walking(i), Shift(i)
    PROVE  ComputeHands(i)
<1>1. /\ cpu_state = "shift" /\ ~latched_branch /\ ~mem_do_rinst /\ ~mem_done(i) /\ mem_do_prefetch
  BY WalkingFacts, ComputeKnown DEF Shift, FetchPhase, BranchPhase
<1>2. /\ cpu_state' = "trap" \/ cpu_state' = IF reg_sh = 0 THEN "fetch" ELSE "shift"
      /\ ~Misaligned => cpu_state' # "trap"
      /\ ~decoder_trigger' /\ ~decoder_pseudo_trigger' /\ latched_rd' = latched_rd
      /\ ~latched_branch' /\ latched_stalu' = latched_stalu
      /\ reg_sh = 0 => mem_do_rinst' /\ reg_out' = Value
      /\ reg_sh # 0 => ~mem_do_rinst'
  <2>1. CASE reg_sh = 0
    BY <1>1, <2>1 DEF Shift, Default, Finish, Requests, KeepRd
  <2>2. CASE reg_sh # 0
    BY <1>1, <2>2 DEF Shift, Default, Finish, Requests, KeepRd
  <2> QED BY <2>1, <2>2
<1> QED BY <1>1, <1>2, ComputeKnown DEF ComputeHands, Fetching

\* A load or store ends in fetch, when its access is made, and launches the
\* instruction that was fetched behind it.
DataHands(i) ==
    /\ cpu_state \in {"stmem", "ldmem"} /\ KeepFetch /\ KeepRd /\ cur' = cur /\ Decode(i)
    /\ ~do_waitirq' /\ ~latched_branch' /\ ~latched_stalu' /\ ~latched_branch
    /\ cpu_state' \in {cpu_state, "fetch", "trap"} /\ (COMPRESSED_ISA /\ cpu_state' = "trap" => ~Fetching')
    /\ cpu_state' = "fetch" => decoder_trigger'
    /\ decoder_trigger' /\ ~decoder_pseudo_trigger' => mem_do_rinst /\ mem_done(i)
    /\ mem_do_rinst /\ mem_done(i) => decoder_trigger' /\ ~decoder_pseudo_trigger'
    /\ mem_do_prefetch' => mem_do_prefetch
    /\ Fetching' => Fetching
    /\ cpu_state = "stmem" => ~latched_store'
    /\ cpu_state = "ldmem" /\ cpu_state' = "fetch" => reg_out' = Value
    /\ cpu_state' = "ldmem" /\ mem_do_rdata' => latched_is' # NoAddr

LEMMA DataKnown ==
    ASSUME NEW i, Walking(i), StMem(i) \/ LdMem(i)
    PROVE  /\ cpu_state \in {"stmem", "ldmem"} /\ KeepFetch /\ KeepRd /\ cur' = cur /\ Decode(i)
           /\ ~latched_branch /\ ~latched_stalu
           /\ cpu_state = "stmem" => ~latched_store /\ ~mem_do_rdata /\ (mem_do_wdata \/ (mem_do_prefetch /\ mem_do_rinst))
           /\ cpu_state = "ldmem" => ~mem_do_wdata /\ (mem_do_rdata \/ (mem_do_prefetch /\ mem_do_rinst))
           /\ mem_do_rdata \/ mem_do_wdata => ~Fetching
           /\ mem_do_rinst => mem_do_prefetch
           /\ mem_do_prefetch => insn.at # NoAddr
           /\ cpu_state = "ldmem" /\ mem_do_rdata => latched_is # NoAddr
<1>1. /\ cpu_state \in {"stmem", "ldmem"} /\ KeepFetch /\ KeepRd /\ Decode(i)
  BY DEF StMem, LdMem, DataState, Finish
<1>2. cur' = cur
  BY <1>1 DEF Walking, History, Launches
<1>3. mem_do_prefetch => insn.at # NoAddr
  <2>1. mem_do_prefetch => insn = cur /\ cur.at = FetchAddr(reg_pc) /\ reg_pc \in HalfAddr
    BY <1>1, WalkingFacts DEF InsnInv, Operating, PcInv
  <2> QED BY <2>1, Parcels
<1> QED BY <1>1, <1>2, <1>3, WalkingFacts
        DEF BranchPhase, HandOverInv, Decoded, ReqInv, DataRequests, FetchRequests, InsnInv

LEMMA StMemHandsOn ==
    ASSUME NEW i, Walking(i), StMem(i)
    PROVE  DataHands(i)
<1> USE DEF Default, Finish, Requests
<1>1. cpu_state = "stmem" /\ ~mem_do_rdata /\ ~latched_store /\ ~latched_branch /\ ~latched_stalu
  BY DataKnown DEF StMem, DataState
<1>2. mem_do_rinst /\ mem_done(i) => ~Accessed(i)
  BY DataKnown DEF Accessed
<1>3. Misaligned => ~Fetching \/ ~COMPRESSED_ISA
  BY <1>1, DataKnown DEF Misaligned
<1>4. CASE Accessed(i)
  <2>1. mem_do_wdata /\ ~mem_do_prefetch /\ mem_done(i) /\ ~mem_do_rinst
    BY <1>1, <1>4, DataKnown DEF Accessed
  <2>2. Finish(i, [Default(i) EXCEPT !.cpu_state = "fetch", !.trigger = TRUE, !.pseudo = TRUE])
    BY <1>4, <2>1 DEF StMem, DataDone
  <2> QED BY <1>1, <1>2, <2>1, <2>2, DataKnown DEF DataHands, Fetching
<1>5. CASE ~Accessed(i) /\ FetchedNext(i) /\ ~mem_do_wdata
  <2>1. Finish(i, [Default(i) EXCEPT !.set = "wdata"])
    BY <1>5, ZenonT(30) DEF StMem, DataDone
  <2> QED BY <1>1, <1>3, <1>5, <2>1, DataKnown DEF DataHands, Fetching
<1>6. CASE ~Accessed(i) /\ ~(FetchedNext(i) /\ ~mem_do_wdata)
  <2>1. Finish(i, Default(i))
    BY <1>6, ZenonT(30) DEF StMem, DataDone
  <2> QED BY <1>1, <1>3, <1>6, <2>1, DataKnown DEF DataHands, Fetching
<1> QED BY <1>4, <1>5, <1>6

LEMMA LdMemHandsOn ==
    ASSUME NEW i, Walking(i), LdMem(i)
    PROVE  DataHands(i)
<1> USE DEF Default, Finish, Requests
<1>1. cpu_state = "ldmem" /\ ~mem_do_wdata /\ ~latched_branch /\ ~latched_stalu
  BY DataKnown DEF LdMem, DataState
<1>2. mem_do_rinst /\ mem_done(i) => ~Accessed(i)
  BY DataKnown DEF Accessed
<1>3. Misaligned => ~Fetching \/ ~COMPRESSED_ISA
  BY <1>1, DataKnown DEF Misaligned
<1>4. CASE Accessed(i)
  <2>1. mem_do_rdata /\ ~mem_do_prefetch /\ mem_done(i) /\ ~mem_do_rinst /\ latched_is # NoAddr
    BY <1>1, <1>4, DataKnown DEF Accessed
  <2> DEFINE m == [Default(i) EXCEPT !.store = TRUE, !.reg_out = Value]
  <2>2. Finish(i, [m EXCEPT !.cpu_state = "fetch", !.trigger = TRUE, !.pseudo = TRUE])
    <3> HIDE DEF Finish, Default
    <3>1. ~(FetchedNext(i) /\ ~mem_do_rdata)
      BY <2>1
    <3>2. Finish(i, DataDone(i, [Default(i) EXCEPT !.store = TRUE,
                   !.reg_out = IF Accessed(i) /\ latched_is # NoAddr THEN Value ELSE NoAddr]))
      BY <3>1 DEF LdMem
    <3>3. Finish(i, DataDone(i, m))
      BY <1>4, <2>1, <3>2
    <3> QED BY <1>4, <3>3 DEF DataDone
  <2> QED BY <1>1, <1>2, <2>1, <2>2, DataKnown DEF DataHands, Fetching
<1>5. CASE ~Accessed(i) /\ FetchedNext(i) /\ ~mem_do_rdata
  <2>1. Finish(i, [Default(i) EXCEPT !.store = TRUE, !.set = "rdata"]) /\ latched_is' = insn.at
    BY <1>5 DEF LdMem, DataDone
  <2>2. insn.at # NoAddr
    BY <1>1, <1>5, DataKnown
  <2> QED BY <1>1, <1>3, <1>5, <2>1, <2>2, DataKnown DEF DataHands, Fetching
<1>6. CASE ~Accessed(i) /\ ~(FetchedNext(i) /\ ~mem_do_rdata)
  <2>1. Finish(i, [Default(i) EXCEPT !.store = TRUE, !.reg_out = NoAddr]) /\ latched_is' = latched_is
    <3> HIDE DEF Finish, Default
    <3>1. /\ Finish(i, DataDone(i, [Default(i) EXCEPT !.store = TRUE,
                   !.reg_out = IF Accessed(i) /\ latched_is # NoAddr THEN Value ELSE NoAddr]))
          /\ latched_is' = latched_is
      BY <1>6 DEF LdMem
    <3> QED BY <1>6, <3>1 DEF DataDone
  <2> QED BY <1>1, <1>3, <1>6, <2>1, DataKnown DEF DataHands, Fetching
<1> QED BY <1>4, <1>5, <1>6

LEMMA HandsOn ==
    ASSUME NEW i, Walking(i)
    PROVE  FetchHands(i) \/ (LoadHands(i) /\ ~latched_stalu') \/ ComputeHands(i) \/ DataHands(i)
<1>1. ~Trapped(i)
  BY WalkingFacts DEF Trapped
<1> QED BY <1>1, FetchHandsOn, LoadHandsOn, ExecWaitHandsOn, ExecBranchHandsOn, ExecAluHandsOn, ShiftHandsOn,
           StMemHandsOn, LdMemHandsOn DEF Walking, ExecuteStep

-----------------------------------------------------------------------------
(* The parts of the invariant after a cycle                                *)

\* An instruction that is launched follows the one before it.
LEMMA AtLaunch ==
    ASSUME NEW i, Walking(i), cpu_state = "fetch", decoder_trigger \/ do_waitirq
    PROVE  /\ current_pc = reg_next_pc /\ ~Fetching /\ ~latched_branch /\ irq_state = 0 /\ HasSuccessor
           /\ dec.at = FetchAddr(reg_next_pc) /\ reg_next_pc \in HalfAddr
           /\ PcAfter(dec) = PcBehind /\ PcBehind \in HalfAddr /\ JumpTarget(dec) = dec.arg
<1>1. /\ ~Fetching /\ ~latched_branch /\ irq_state = 0 /\ HasSuccessor
      /\ dec.at = FetchAddr(reg_next_pc) /\ reg_next_pc \in HalfAddr
  BY WalkingFacts DEF HandOverInv, BranchPhase, FetchPhase, ReqInv, FetchRequests, HasSuccessor, SuccessorInv, PcInv, Fetching
<1>2. current_pc = reg_next_pc
  BY <1>1 DEF current_pc
<1> QED BY <1>1, <1>2, PlusType DEF PcAfter, PcBehind, JumpTarget

\* The second stage catches up with the first, unless a new instruction arrives.
LEMMA CatchesUp ==
    ASSUME NEW i, Walking(i), Decode(i), HasSuccessor, ~(mem_do_rinst /\ mem_done(i))
    PROVE  dec' = dec /\ insn'.at = dec.at /\ insn'.long = dec.long /\ Same'
<1>1. dec' = dec
  BY DEF Decode
<1>2. CASE Fresh
  <2>1. insn' \in Stage2(dec) /\ mem_rdata_q.at = dec.at
    BY <1>2, WalkingFacts DEF Decode, Fresh, SuccessorInv
  <2>2. insn'.at = dec.at /\ insn'.long = dec.long
    BY <2>1 DEF Stage2
  <2>3. Matches'
    BY <1>2, WalkingFacts, DecodeMatches DEF Fresh
  <2> QED BY <1>1, <2>2, <2>3 DEF Same
<1>3. CASE ~Fresh
  <2>1. insn' = insn /\ Same
    BY <1>3, WalkingFacts DEF Decode, Fresh, SuccessorInv
  <2> QED BY <1>1, <2>1 DEF Same, Matches
<1> QED BY <1>2, <1>3

LEMMA NextPc ==
    ASSUME NEW i, Walking(i)
    PROVE  PcInv'
<1>1. CASE FetchHands(i)
  <2>1. current_pc \in HalfAddr /\ reg_next_pc \in HalfAddr /\ q0.at \in HalfAddr /\ PROGADDR_IRQ \in HalfAddr
    BY <1>1, WalkingFacts, ParamAssumption DEF FetchHands, PcInv
  <2>2. reg_next_pc' \in HalfAddr
    <3>1. CASE Launches
      <4>1. dec.op = "jal" => dec.arg \in HalfAddr
        BY WalkingFacts, ParamAssumption DEF TypeOK, DecoderTypeOK
      <4> QED BY <1>1, <3>1, <4>1, AtLaunch DEF FetchHands
    <3>2. CASE ~Launches
      BY <1>1, <2>1, <3>2 DEF FetchHands
    <3> QED BY <3>1, <3>2
  <2>3. ~(latched_store' /\ latched_branch')
    BY <1>1 DEF FetchHands
  <2>4. reg_pc' = current_pc /\ q0'.at \in HalfAddr
    BY <1>1, <2>1 DEF FetchHands
  <2>5. next_pc' \in HalfAddr /\ current_pc' \in HalfAddr
    BY <2>1, <2>2, <2>3 DEF next_pc, current_pc
  <2> QED BY <2>1, <2>2, <2>4, <2>5 DEF PcInv
<1>2. CASE ~FetchHands(i)
  <2>1. KeepFetch /\ PROGADDR_IRQ \in HalfAddr
    BY <1>2, HandsOn, ParamAssumption DEF LoadHands, ComputeHands, DataHands
  <2>2. reg_pc' \in HalfAddr /\ reg_next_pc' \in HalfAddr /\ q0'.at \in HalfAddr
    BY <2>1, WalkingFacts DEF KeepFetch, PcInv
  <2>3. latched_branch' => latched_store' /\ IF latched_stalu' THEN ~Fetching' /\ alu_out_q' \in HalfAddr
                                             ELSE reg_out' \in HalfAddr
    BY <1>2, <2>1, <2>2, HandsOn DEF LoadHands, ComputeHands, DataHands, KeepFetch
  <2>4. Fetching' => next_pc' \in HalfAddr
    BY <2>2, <2>3 DEF next_pc
  <2>5. current_pc' \in HalfAddr
    BY <2>1, <2>2, <2>3 DEF current_pc
  <2> QED BY <2>2, <2>4, <2>5 DEF PcInv
<1> QED BY <1>1, <1>2

LEMMA NextHandOver ==
    ASSUME NEW i, Walking(i), cpu_state' # "trap"
    PROVE  HandOverInv'
<1>1. CASE FetchHands(i)
  <2>1. cpu_state' \in {"fetch", "ld_rs1"}
    BY <1>1 DEF FetchHands
  <2>2. cpu_state' = "ld_rs1" => ~latched_store'
    BY <1>1, <2>1 DEF FetchHands
  <2>3. do_waitirq' => ~Launches /\ ~latched_branch' /\ cpu_state' = "fetch" /\ irq_state' = 0 /\ ENABLE_IRQ
    BY <1>1, <2>1 DEF FetchHands
  <2>4. do_waitirq' => dec'.op = "waitirq"
    <3>1. do_waitirq' => HasSuccessor /\ ~(mem_do_rinst /\ mem_done(i)) /\ dec.op = "waitirq" /\ Decode(i)
      BY <1>1, AtLaunch DEF FetchHands, Fetching
    <3> QED BY <3>1, CatchesUp
  <2> QED BY <2>1, <2>2, <2>3, <2>4 DEF HandOverInv
<1>2. CASE LoadHands(i)
  BY <1>2, WalkingFacts DEF LoadHands, HandOverInv
<1>3. CASE ComputeHands(i)
  BY <1>3, WalkingFacts DEF ComputeHands, HandOverInv
<1>4. CASE DataHands(i)
  BY <1>4 DEF DataHands, HandOverInv
<1> QED BY <1>1, <1>2, <1>3, <1>4, HandsOn

\* An instruction that arrives in the decoder is the one at next_pc; until it is
\* launched it stays there, behind an access or in waitirq.
LEMMA Arrives ==
    ASSUME NEW i, Walking(i), mem_do_rinst, mem_done(i), ~latched_branch'
    PROVE  /\ decoder_trigger' /\ ~decoder_pseudo_trigger' /\ ~latched_branch /\ next_pc \in HalfAddr
           /\ reg_next_pc' = next_pc /\ dec'.at = FetchAddr(next_pc) /\ mem_rdata_q'.at = dec'.at
           /\ dec'.long = mem_rdata_latched(i).long
<1>1. mem_state # 0 /\ Fetching /\ Decode(i)
  BY WalkingFacts, WhenDone, StateRequests DEF Fetching, Walking, ExecuteStep, Finish, FetchStep, FetchInterrupt, FetchSaveReturn, FetchSaveMask,
       FetchWaitirq, LaunchJal, Launch, FetchIdle, LdRs1Step, LdRs1Trap, LdRs1Move, LdRs1Retirq, LdRs1Maskirq,
       LdRs1Timer, LdRs1Load, LdRs1ShiftImm, LdRs1Imm, LdRs1Rs2, LdRs2Trap, LdRs2Operands, Operands, ExecWait,
       ExecBranch, ExecAlu, Shift, StMem, LdMem, Trapped
<1>2. ~latched_branch
  BY <1>1, SteadyFetch
<1>3. reg_next_pc' = next_pc
  BY <1>1, WalkingFacts DEF Running, Moves, next_pc
<1>4. dec' \in Stage1(mem_rdata_latched(i))
  BY <1>1 DEF Decode
<1>5. dec'.at = mem_rdata_latched(i).at /\ dec'.long = mem_rdata_latched(i).long
  BY <1>4 DEF Stage1
<1>6. decoder_trigger' /\ ~decoder_pseudo_trigger'
  BY <1>1, HandsOn, WalkingFacts DEF FetchHands, LoadHands, ComputeHands, DataHands, ReqInv, FetchRequests
<1> QED BY <1>1, <1>2, <1>3, <1>5, <1>6, WalkingFacts, FetchedIsAtPc

LEMMA Stays ==
    ASSUME NEW i, Walking(i), cpu_state' # "trap", HasSuccessor', ~(mem_do_rinst /\ mem_done(i) /\ ~latched_branch')
    PROVE  /\ HasSuccessor /\ ~Fetching /\ reg_next_pc' = reg_next_pc /\ ~latched_branch /\ irq_state = 0
           /\ dec' = dec /\ Same' /\ ~Fresh'
           /\ cpu_state \in {"stmem", "ldmem"} \/ (cpu_state = "fetch" /\ do_waitirq')
<1>1. CASE cpu_state \in {"stmem", "ldmem"}
  <2>1. DataHands(i) /\ ~latched_branch /\ irq_state = 0
    BY <1>1, HandsOn, WalkingFacts, NotCleared DEF FetchHands, LoadHands, ComputeHands, LoadingOperands
  <2>2. ~mem_do_prefetch
    BY <2>1, WalkingFacts DEF DataHands, HasSuccessor, Behind, Running, Moves, ReqInv, FetchRequests
  <2>3. ~Fetching /\ ~(mem_do_rinst /\ mem_done(i)) /\ HasSuccessor /\ ~Fresh'
    BY <1>1, <2>1, <2>2, WalkingFacts DEF DataHands, Fetching, HasSuccessor, Behind, Fresh, ReqInv, FetchRequests
  <2> QED BY <1>1, <2>1, <2>3, CatchesUp DEF DataHands, KeepFetch
<1>2. CASE cpu_state \notin {"stmem", "ldmem"}
  <2>1. FetchHands(i) /\ do_waitirq' /\ cpu_state = "fetch"
    BY <1>2, HandsOn, WalkingFacts DEF HasSuccessor, Behind, FetchHands, LoadHands, ComputeHands, DataHands, Running, Moves
  <2>2. (decoder_trigger \/ do_waitirq) /\ Decode(i) /\ reg_next_pc' = current_pc
    BY <2>1 DEF FetchHands
  <2>3. ~Fetching /\ ~mem_do_rinst /\ HasSuccessor /\ ~latched_branch /\ irq_state = 0
    BY <2>1, <2>2, AtLaunch DEF Fetching
  <2>4. ~Fresh'
    BY <2>1, <2>3 DEF FetchHands, Fresh
  <2> QED BY <2>1, <2>2, <2>3, <2>4, AtLaunch, CatchesUp
<1> QED BY <1>1, <1>2

LEMMA NextSuccessor ==
    ASSUME NEW i, Walking(i), cpu_state' # "trap"
    PROVE  SuccessorInv'
<1>1. CASE mem_do_rinst /\ mem_done(i) /\ ~latched_branch'
  BY <1>1, Arrives DEF SuccessorInv, Fresh, HasSuccessor
<1>2. CASE ~(mem_do_rinst /\ mem_done(i) /\ ~latched_branch')
  <2>1. Fresh' => HasSuccessor'
    BY DEF Fresh, HasSuccessor
  <2>2. HasSuccessor' => dec'.at = FetchAddr(reg_next_pc')
    BY <1>2, Stays, WalkingFacts DEF SuccessorInv
  <2> QED BY <1>2, <2>1, <2>2, Stays DEF SuccessorInv
<1> QED BY <1>1, <1>2

LEMMA NextInsn ==
    ASSUME NEW i, Walking(i), cpu_state' # "trap"
    PROVE  InsnInv'
<1>1. CASE FetchHands(i)
  <2>1. SUFFICES ASSUME cpu_state' = "ld_rs1"
                 PROVE  /\ insn' = cur' /\ Same' /\ cur'.at = FetchAddr(reg_pc')
                        /\ latched_compr' = ~cur'.long /\ latched_rd' = cur'.at
    BY <1>1 DEF FetchHands, InsnInv, Operating
  <2>2. Launches /\ (decoder_trigger \/ do_waitirq) /\ Decode(i) /\ cpu_state = "fetch"
        /\ reg_pc' = current_pc /\ latched_rd' = dec.at /\ latched_compr' = ~dec.long /\ cur' = insn'
    BY <1>1, <2>1 DEF FetchHands
  <2>3. insn'.at = dec.at /\ insn'.long = dec.long /\ Same'
    BY <2>2, AtLaunch, CatchesUp DEF Fetching
  <2> QED BY <2>2, <2>3, AtLaunch
<1>2. CASE LoadHands(i)
  <2>1. insn' = insn /\ dec' = dec /\ cur' = cur /\ insn = cur /\ Same
    BY <1>2, WalkingFacts DEF LoadHands, LoadingOperands, InsnInv
  <2>2. Same'
    BY <2>1 DEF Same, Matches
  <2>3. /\ reg_pc' = reg_pc /\ latched_compr' = latched_compr /\ latched_rd' = latched_rd
        /\ cur.at = FetchAddr(reg_pc) /\ latched_compr = ~cur.long /\ latched_rd = cur.at
    BY <1>2, WalkingFacts DEF LoadHands, LoadingOperands, InsnInv, Operating, KeepFetch, KeepRd
  <2> QED BY <1>2, <2>1, <2>2, <2>3 DEF LoadHands, InsnInv
<1>3. CASE ComputeHands(i)
  <2>1. SUFFICES ASSUME cpu_state' = cpu_state, dec' = dec
                 PROVE  InsnInv'
    BY <1>3 DEF ComputeHands, InsnInv, Operating
  <2>2. insn' = insn /\ cur' = cur /\ insn = cur /\ Same
    BY <1>3, WalkingFacts DEF ComputeHands, InsnInv
  <2>3. Same'
    BY <2>1, <2>2 DEF Same, Matches
  <2>4. reg_pc' = reg_pc /\ latched_compr' = latched_compr
    BY <1>3 DEF ComputeHands, KeepFetch
  <2>5. /\ cur.at = FetchAddr(reg_pc) /\ latched_compr = ~cur.long
        /\ latched_rd = cur.at \/ (cpu_state = "exec" /\ dec.op = "branch")
    BY <1>3, WalkingFacts DEF ComputeHands, InsnInv, Operating
  <2> QED BY <1>3, <2>1, <2>2, <2>3, <2>4, <2>5 DEF ComputeHands, InsnInv
<1>4. CASE DataHands(i)
  <2>1. SUFFICES ASSUME cpu_state' = cpu_state
                 PROVE  InsnInv'
    BY <1>4 DEF DataHands, InsnInv, Operating
  <2>2. mem_do_prefetch' => insn' = insn /\ insn = cur
    <3>1. mem_do_prefetch => ~decoder_trigger /\ insn = cur
      BY <1>4, WalkingFacts DEF DataHands, InsnInv, ReqInv, FetchRequests, Fetching
    <3> QED BY <1>4, <3>1 DEF DataHands, Decode
  <2>3. reg_pc' = reg_pc /\ latched_compr' = latched_compr /\ latched_rd' = latched_rd /\ cur' = cur
    BY <1>4 DEF DataHands, KeepFetch, KeepRd
  <2>4. cur.at = FetchAddr(reg_pc) /\ latched_compr = ~cur.long /\ latched_rd = cur.at
    BY <1>4, WalkingFacts DEF DataHands, InsnInv, Operating
  <2> QED BY <1>4, <2>1, <2>2, <2>3, <2>4 DEF DataHands, InsnInv
<1> QED BY <1>1, <1>2, <1>3, <1>4, HandsOn

\* When a fetch starts, in fetch, it goes on behind the instruction launched, or
\* the kept half was dropped.
LEMMA FetchStarts ==
    ASSUME NEW i, Walking(i), COMPRESSED_ISA, ~Fetching, Fetching', ~latched_branch', prefetched_high_word'
    PROVE  /\ cpu_state = "fetch" /\ next_pc' = PcBehind /\ HasSuccessor /\ prefetched_high_word
           /\ mem_16bit_buffer' = mem_16bit_buffer
<1>1. FetchHands(i)
  <2>1. LoadingOperands => ~Fetching' \/ latched_branch'
    <3>1. LoadingOperands => LoadHands(i)
      BY HandsOn DEF LoadingOperands, FetchHands, ComputeHands, DataHands
    <3>2. LoadHands(i) => LdRs1Step(i) \/ LdRs2Trap(i) \/ LdRs2Operands(i)
      BY DEF LoadHands, LoadingOperands, Walking, FetchStep, ExecuteStep, FetchInterrupt, FetchSaveReturn,
         FetchSaveMask, FetchWaitirq, LaunchJal, Launch, FetchIdle, FetchTail, FetchHead, ExecWait, ExecBranch,
         ExecAlu, Exec, Shift, StMem, LdMem, DataState, Trapped
    <3>3. LoadHands(i) => (mem_do_rinst' => mem_do_prefetch \/ cpu_state' \in {"fetch", "trap"})
      BY <3>2, WalkingFacts, LoadFacts
    <3> QED BY <3>1, <3>3, WalkingFacts DEF LoadHands, Fetching
  <2> QED BY <2>1, HandsOn DEF LoadHands, ComputeHands, DataHands
<1>2. cpu_state = "fetch" /\ ~mem_do_rdata /\ ~mem_do_wdata /\ ~mem_do_prefetch /\ ~mem_do_rinst
  BY <1>1, WalkingFacts DEF FetchHands, ReqInv, DataRequests, Fetching
<1>3. mem_state = 0 /\ MemIdle(i)
  <2>1. mem_state = 0
    BY <1>2, WalkingFacts, DoneIsIdle DEF Fetching
  <2>2. ~MemStartRead(i) /\ ~MemStartWrite(i)
    BY <1>2 DEF MemStartRead, MemStartWrite, Fetching
  <2>3. ~MemWait(i) /\ ~MemSecondWord(i) /\ ~MemReadDone(i) /\ ~MemWriteDone(i) /\ ~MemHeld
    BY <2>1 DEF MemWait, MemSecondWord, MemReadDone, MemWriteDone, MemHeld
  <2> QED BY <2>1, <2>2, <2>3, WalkingFacts, Cycles
<1>4. mem_16bit_buffer' = mem_16bit_buffer /\ prefetched_high_word /\ ~clear_prefetched_high_word
  BY <1>3 DEF MemIdle, Prefetched
<1>5. Launches
  <2>1. irq_state = 0
    BY <1>4 DEF clear_prefetched_high_word
  <2>2. decoder_trigger \/ do_waitirq
    BY <1>2, <1>4, WalkingFacts DEF KeptInv, Fetching
  <2> QED BY <1>1, <2>1, <2>2 DEF FetchHands
<1>6. decoder_trigger \/ do_waitirq
  BY <1>1, <1>5 DEF FetchHands
<1>7. reg_next_pc' = PcBehind /\ HasSuccessor
  BY <1>1, <1>2, <1>5, <1>6, AtLaunch DEF FetchHands
<1>8. next_pc' = reg_next_pc'
  BY DEF next_pc
<1> QED BY <1>2, <1>4, <1>7, <1>8

LEMMA NextUsed ==
    ASSUME NEW i, Walking(i), mem_la_use_prefetched_high_word'
    PROVE  mem_16bit_buffer'.at = next_pc'
<1>1. /\ COMPRESSED_ISA /\ Fetching' /\ Odd(next_pc') /\ ~mem_la_secondword'
      /\ prefetched_high_word' /\ ~latched_branch'
  BY DEF mem_la_use_prefetched_high_word, mem_la_firstword, clear_prefetched_high_word
<1>2. ~mem_done(i)
  BY <1>1, WalkingFacts DEF Running, Moves
<1>3. CASE ~Fetching
  BY <1>1, <1>3, FetchStarts, WalkingFacts DEF KeptInv
<1>4. CASE Fetching
  <2>1. next_pc' = next_pc /\ ~mem_do_rdata /\ ~mem_do_wdata
    BY <1>1, <1>2, <1>4, WalkingFacts, FetchPersists
  <2>2. ~MemIdle(i) /\ ~MemStartWrite(i) /\ ~MemWriteDone(i) /\ ~MemSecondWord(i)
    BY <1>1, <1>4, <2>1, WalkingFacts, StateRequests DEF MemIdle, MemStartWrite, MemWriteDone, MemSecondWord
  <2>3. CASE MemStartRead(i) \/ MemWait(i)
    <3>1. mem_state # 2 /\ mem_16bit_buffer' = mem_16bit_buffer
      BY <2>1, <2>3, WalkingFacts, StateRequests DEF MemStartRead, MemWait
    <3>2. mem_la_use_prefetched_high_word
      BY <2>3, <3>1, WalkingFacts, UseIsStable DEF MemWait
    <3> QED BY <2>1, <3>1, <3>2, WalkingFacts DEF KeptInv
  <2>4. CASE MemReadDone(i)
    <3>1. mem_do_rinst
      <4>1. mem_state' = 3 => ~Odd(next_pc')
        BY <1>1, WalkingFacts, NextHeld
      <4> QED BY <1>1, <2>1, <2>4, <4>1 DEF MemReadDone
    <3>2. mem_state = 1 /\ mem_xfer(i) /\ ~(COMPRESSED_ISA /\ mem_la_read(i)) /\ ~latched_branch
      BY <1>1, <2>4, SteadyFetch DEF MemReadDone
    <3>3. mem_la_firstword /\ ~mem_la_secondword
      BY <1>2, <3>1, <3>2, WalkingFacts, WhenDone
    <3>4. mem_rdata_latched(i).long
      BY <1>2, <3>1, <3>2 DEF mem_done
    <3>5. ~mem_la_use_prefetched_high_word
      BY <1>1, <3>2, <3>3, <3>4, WalkingFacts, StateRequests DEF mem_la_read, mem_la_firstword_xfer
    <3>6. mem_valid /\ i.mem_ready /\ mem_instr
      BY <1>4, <2>1, <3>2, <3>5, WalkingFacts, StateRequests DEF mem_xfer
    <3>7. mem_addr = WordOf(next_pc)
      BY <1>4, <3>2, <3>3, <3>6, WalkingFacts DEF ReadInv
    <3>8. i.hi.at = next_pc
      BY <1>1, <1>4, <2>1, <3>6, <3>7, WalkingFacts, ReadIsAddressed, Parcels
    <3>9. mem_16bit_buffer' = i.hi
      BY <1>1, <2>1, <2>4 DEF MemReadDone, Prefetched
    <3> QED BY <2>1, <3>8, <3>9
  <2>5. ~MemHeld
    BY <1>1, <2>1, WalkingFacts DEF MemHeld, MemInv, BufferInv
  <2> QED BY <2>2, <2>3, <2>4, <2>5, WalkingFacts, Cycles
<1> QED BY <1>3, <1>4

LEMMA NextBehind ==
    ASSUME NEW i, Walking(i), COMPRESSED_ISA, cpu_state' # "trap", HasSuccessor', prefetched_high_word', Odd(PcBehind')
    PROVE  mem_16bit_buffer'.at = PcBehind'
<1>1. CASE mem_do_rinst /\ mem_done(i) /\ ~latched_branch'
  <2>1. /\ ~latched_branch /\ next_pc \in HalfAddr /\ Fetching /\ mem_state \in {1, 3} /\ ~mem_do_rdata
        /\ PcBehind' = Plus(next_pc, IF mem_rdata_latched(i).long THEN 2 ELSE 1)
    BY <1>1, Arrives, WalkingFacts, StateRequests, WhenDone DEF PcBehind, Fetching
  <2>2. mem_la_firstword => ~mem_rdata_latched(i).long
    BY <1>1 DEF mem_done
  <2>3. mem_state = 1 => MemReadDone(i) /\ mem_xfer(i)
    <3>1. SUFFICES ASSUME mem_state = 1 PROVE MemReadDone(i) /\ mem_xfer(i)
      OBVIOUS
    <3>2. ~MemIdle(i) /\ ~MemStartRead(i) /\ ~MemStartWrite(i) /\ ~MemHeld /\ ~MemWriteDone(i)
      BY <3>1 DEF MemIdle, MemStartRead, MemStartWrite, MemHeld, MemWriteDone
    <3>3. ~MemWait(i) /\ ~MemSecondWord(i)
      BY <1>1, WalkingFacts, SecondWordIsAskedFor, WhenDone DEF MemWait
    <3> QED BY <3>2, <3>3, WalkingFacts, Cycles DEF MemReadDone
  <2>4. mem_la_secondword => mem_state = 1
    BY WalkingFacts, StateRequests
  <2>5. ~Odd(next_pc) \/ mem_la_secondword
    <3>1. Odd(next_pc) /\ ~mem_la_secondword => ~mem_rdata_latched(i).long
      BY <2>1, <2>2, WalkingFacts, WhenDone
    <3> QED BY <2>1, <3>1, Parity
  <2>6. ~mem_la_firstword /\ ~mem_la_use_prefetched_high_word
    BY <2>5, WalkingFacts, WhenDone
  <2>7. mem_state = 1 => mem_valid /\ i.mem_ready /\ mem_instr
    BY <2>1, <2>3, <2>6, WalkingFacts, StateRequests DEF mem_xfer
  <2>8. CASE mem_la_secondword
    <3>1. Odd(next_pc) /\ mem_16bit_buffer = [at |-> next_pc, long |-> TRUE]
      BY <2>1, <2>8, WalkingFacts DEF ReadInv
    <3>2. mem_rdata_latched(i) = Join(mem_16bit_buffer, i.lo)
      BY <2>3, <2>4, <2>6, <2>8 DEF mem_rdata_latched
    <3>3. mem_rdata_latched(i).long
      BY <3>1, <3>2 DEF Join
    <3>4. mem_addr = NextWord(WordOf(next_pc))
      BY <2>1, <2>4, <2>7, <2>8, WalkingFacts DEF ReadInv
    <3>5. i.hi.at = Plus(next_pc, 2)
      BY <2>1, <2>4, <2>7, <2>8, <3>1, <3>4, WalkingFacts, ReadIsAddressed, Parcels
    <3>6. mem_16bit_buffer' = i.hi
      BY <2>1, <2>3, <2>4, <2>8 DEF MemReadDone
    <3> QED BY <2>1, <3>3, <3>5, <3>6
  <2>9. CASE ~mem_la_secondword
    <3>1. ~Odd(next_pc) /\ ~mem_rdata_latched(i).long /\ PcBehind' = Plus(next_pc, 1)
      BY <2>1, <2>5, <2>9, Parity
    <3>2. CASE mem_state = 1
      <4>1. mem_rdata_latched(i) = Join(i.lo, i.hi)
        BY <2>3, <2>6, <2>9, <3>2 DEF mem_rdata_latched
      <4>2. ~i.lo.long
        BY <3>1, <4>1 DEF Join
      <4>3. mem_addr = WordOf(next_pc)
        BY <2>1, <2>7, <2>9, <3>2, WalkingFacts DEF ReadInv
      <4>4. i.hi.at = Plus(next_pc, 1)
        BY <2>1, <2>7, <3>1, <3>2, <4>3, WalkingFacts, ReadIsAddressed, Parcels
      <4>5. mem_16bit_buffer' = i.hi
        BY <2>1, <2>3, <3>2, <4>2 DEF MemReadDone
      <4> QED BY <3>1, <4>4, <4>5
    <3>3. CASE mem_state = 3
      <4>1. ~mem_xfer(i)
        BY <2>6, <3>3, WalkingFacts, StateRequests DEF mem_xfer
      <4>2. mem_rdata_latched(i) = mem_rdata_q
        BY <2>6, <2>9, <4>1 DEF mem_rdata_latched
      <4>3. MemHeld
        BY <3>3, WalkingFacts, Cycles DEF MemIdle, MemStartRead, MemStartWrite, MemWait, MemSecondWord, MemReadDone, MemWriteDone
      <4> QED BY <3>1, <3>3, <4>2, <4>3, WalkingFacts DEF MemHeld, ReadInv
    <3> QED BY <2>1, <3>2, <3>3
  <2> QED BY <2>8, <2>9
<1>2. CASE ~(mem_do_rinst /\ mem_done(i) /\ ~latched_branch')
  <2>1. HasSuccessor /\ ~Fetching /\ PcBehind' = PcBehind
    BY <1>2, Stays DEF PcBehind
  <2>2. ~MemSecondWord(i)
    BY <2>1, WalkingFacts, SecondWordIsAskedFor
  <2>3. MemReadDone(i) => mem_do_rdata
    BY <2>1, WalkingFacts, StateRequests DEF MemReadDone
  <2>4. mem_16bit_buffer' = mem_16bit_buffer /\ prefetched_high_word
    BY <2>2, <2>3, WalkingFacts, Cycles DEF MemIdle, MemStartRead, MemStartWrite, MemWait, MemReadDone,
       MemWriteDone, MemHeld, Prefetched
  <2> QED BY <2>1, <2>4, WalkingFacts DEF KeptInv
<1> QED BY <1>1, <1>2

LEMMA NextKept ==
    ASSUME NEW i, Walking(i), cpu_state' # "trap"
    PROVE  KeptInv'
<1>1. ASSUME COMPRESSED_ISA, cpu_state' = "fetch", ~Fetching', ~decoder_trigger', ~do_waitirq'
      PROVE  ~prefetched_high_word' \/ clear_prefetched_high_word'
  <2>1. irq_state # 0 \/ irq_state' # 0 \/ latched_branch'
    BY <1>1, HandsOn DEF FetchHands, LoadHands, ComputeHands, DataHands, Fetching
  <2>2. irq_state # 0 => clear_prefetched_high_word
    BY <1>1 DEF clear_prefetched_high_word
  <2>3. irq_state' # 0 \/ latched_branch' => clear_prefetched_high_word'
    BY <1>1 DEF clear_prefetched_high_word
  <2> QED BY <2>1, <2>2, <2>3, WalkingFacts, NotCleared
<1> QED BY <1>1, NextUsed, NextBehind DEF KeptInv

LEMMA NextTrap ==
    ASSUME NEW i, Walking(i)
    PROVE  TrapInv'
<1>1. SUFFICES ASSUME cpu_state' = "trap", COMPRESSED_ISA, Fetching'
               PROVE  /\ ~mem_do_rinst' /\ ~latched_branch' /\ irq_state' = 0
                      /\ Odd(next_pc') => /\ ~mem_valid' /\ ~mem_la_secondword' /\ mem_16bit_buffer'.at = next_pc'
                                          /\ trap' \/ mem_la_use_prefetched_high_word'
  BY DEF TrapInv
<1>2. LoadHands(i)
  BY <1>1, HandsOn DEF FetchHands, ComputeHands, DataHands
<1>3. /\ LoadingOperands /\ ~mem_do_rinst /\ ~mem_do_rdata /\ ~mem_do_wdata /\ Fetching
      /\ ~latched_branch /\ irq_state = 0 /\ ~mem_do_rinst' /\ ~latched_branch' /\ irq_state' = 0
  BY <1>1, <1>2, WalkingFacts, StateRequests, NotCleared DEF LoadHands, KeepFetch, ReqInv, FetchRequests, Fetching
<1>4. ~mem_done(i) /\ next_pc' = next_pc
  BY <1>3, WalkingFacts, WhenDone, FetchPersists
<1>5. SUFFICES ASSUME Odd(next_pc)
               PROVE  /\ ~mem_valid' /\ ~mem_la_secondword' /\ mem_16bit_buffer'.at = next_pc
                      /\ mem_la_use_prefetched_high_word'
  BY <1>3, <1>4
<1>6. mem_la_use_prefetched_high_word /\ ~mem_la_secondword
  BY <1>1, <1>3, <1>5, WalkingFacts DEF MemInv, BufferInv, LoadingOperands
<1>7. MemStartRead(i) \/ (MemWait(i) /\ mem_state = 1)
  <2>1. mem_state \in {0, 1}
    BY <1>1, <1>3, <1>5, WalkingFacts, StateRequests DEF MemInv, BufferInv
  <2>2. mem_state = 1 => ~mem_xfer(i)
    BY <1>3, <1>6, WalkingFacts, StateRequests, WhenDone
  <2>3. ~MemIdle(i) /\ ~MemStartWrite(i) /\ ~MemHeld
    BY <1>3, <2>1 DEF MemIdle, MemStartWrite, MemHeld
  <2>4. ~MemSecondWord(i) /\ ~MemReadDone(i) /\ ~MemWriteDone(i)
    BY <2>1, <2>2 DEF MemSecondWord, MemReadDone, MemWriteDone
  <2>5. MemWait(i) => mem_state = 1
    BY <2>1 DEF MemWait
  <2> QED BY <2>3, <2>4, <2>5, WalkingFacts, Cycles
<1>8. ~mem_valid' /\ ~mem_la_secondword' /\ mem_16bit_buffer' = mem_16bit_buffer
  <2>1. CASE MemStartRead(i)
    BY <1>6, <2>1 DEF MemStartRead
  <2>2. CASE MemWait(i) /\ mem_state = 1
    <3>1. ~mem_valid
      BY <1>6, <2>2, WalkingFacts, StateRequests
    <3> QED BY <1>6, <2>2, <3>1 DEF MemWait
  <2> QED BY <1>7, <2>1, <2>2
<1> QED BY <1>6, <1>7, <1>8, WalkingFacts, UseIsStable DEF KeptInv

LEMMA TrappedStands ==
    ASSUME TypeOK, ReqInv, TrapInv, NEW i, Trapped(i), MemStep(i)
    PROVE  TrapInv' /\ cpu_state' = "trap" /\ trap'
<1>1. /\ cpu_state = "trap" /\ cpu_state' = "trap" /\ trap' = TRUE
      /\ Fetching' => Fetching
      /\ mem_do_rinst' => mem_do_rinst
      /\ latched_branch' = latched_branch /\ irq_state' = irq_state /\ reg_next_pc' = reg_next_pc
  BY DEF Trapped, Finish, Default, Requests, KeepFetch, Fetching
<1>2. SUFFICES ASSUME COMPRESSED_ISA, Fetching
               PROVE  Odd(next_pc') => ~mem_valid' /\ ~mem_la_secondword' /\ mem_16bit_buffer'.at = next_pc'
  BY <1>1 DEF TrapInv
<1>3. ~mem_do_rinst /\ ~latched_branch /\ next_pc' = next_pc /\ ~mem_do_wdata
  BY <1>1, <1>2 DEF TrapInv, next_pc, ReqInv, DataRequests
<1>4. SUFFICES ASSUME Odd(next_pc)
               PROVE  ~mem_valid' /\ ~mem_la_secondword' /\ mem_16bit_buffer' = mem_16bit_buffer
  BY <1>1, <1>2, <1>3 DEF TrapInv
<1>5. ~mem_valid /\ ~mem_la_secondword /\ (trap \/ mem_la_use_prefetched_high_word)
  BY <1>1, <1>2, <1>4 DEF TrapInv
<1>6. CASE MemTrapped(i)
  BY <1>5, <1>6 DEF MemTrapped
<1>7. CASE ~MemTrapped(i)
  <2>1. ~mem_xfer(i) /\ mem_la_use_prefetched_high_word
    BY <1>3, <1>5, <1>7 DEF MemStep, mem_xfer
  <2>2. ~MemIdle(i) /\ ~MemStartWrite(i) /\ ~MemSecondWord(i) /\ ~MemReadDone(i) /\ ~MemWriteDone(i)
    BY <1>2, <1>3, <2>1 DEF MemIdle, MemStartWrite, MemSecondWord, MemReadDone, MemWriteDone
  <2>3. MemStartRead(i) \/ MemWait(i) \/ MemHeld
    BY <1>7, <2>2 DEF MemStep
  <2>4. MemStartRead(i) => /\ mem_valid' = ~mem_la_use_prefetched_high_word
                           /\ UNCHANGED <<mem_la_secondword, mem_16bit_buffer>>
    BY DEF MemStartRead
  <2>5. MemWait(i) \/ MemHeld => UNCHANGED <<mem_valid, mem_la_secondword, mem_16bit_buffer>>
    BY DEF MemWait, MemHeld
  <2>6. UNCHANGED <<mem_la_secondword, mem_16bit_buffer>>
    BY <2>3, <2>4, <2>5
  <2>7. ~mem_valid'
    <3>1. MemStartRead(i) => ~mem_valid'
      BY <2>1, <2>4
    <3>2. ~MemStartRead(i) => mem_valid' = mem_valid
      BY <2>3, <2>5
    <3> QED BY <1>5, <3>1, <3>2
  <2> QED BY <1>5, <2>6, <2>7
<1> QED BY <1>6, <1>7

LEMMA NextOwnResult ==
    ASSUME NEW i, Walking(i), cpu_state' # "trap"
    PROVE  WritesOwnResult'
<1>0. Value # NoAddr
  BY WordsAssumption DEF Value, NoAddr
<1>1. CASE FetchHands(i)
  <2>1. Launches => /\ insn'.at = dec.at /\ insn'.long = dec.long /\ dec.at = FetchAddr(reg_next_pc)
                    /\ current_pc = reg_next_pc
    BY <1>1, AtLaunch, CatchesUp DEF FetchHands, Fetching
  <2>2. Launches => /\ cur'.at = FetchAddr(reg_pc') /\ latched_rd' = cur'.at /\ latched_compr' = ~cur'.long
    BY <1>1, <2>1 DEF FetchHands
  <2>3. latched_store' \/ latched_branch' => Launches
    BY <1>1 DEF FetchHands
  <2>4. ~latched_stalu' /\ (latched_store' => reg_out' = Value)
    BY <1>1, <2>3 DEF FetchHands
  <2> QED BY <1>0, <2>2, <2>3, <2>4 DEF WritesOwnResult
<1>2. CASE LoadHands(i)
  <2>1. ~latched_stalu'
    BY <1>2, HandsOn DEF FetchHands, ComputeHands, DataHands, LoadHands, LoadingOperands
  <2>2. /\ reg_pc' = reg_pc /\ latched_compr' = latched_compr /\ latched_rd' = latched_rd /\ cur' = cur
        /\ cur.at = FetchAddr(reg_pc) /\ latched_compr = ~cur.long /\ latched_rd = cur.at
    BY <1>2, WalkingFacts DEF LoadHands, LoadingOperands, InsnInv, Operating, KeepFetch, KeepRd
  <2>3. latched_store' /\ ~latched_branch' => reg_out' = Value
    BY <1>2 DEF LoadHands
  <2> QED BY <1>0, <2>1, <2>2, <2>3 DEF WritesOwnResult
<1>3. CASE ComputeHands(i)
  <2>1. reg_pc' = reg_pc /\ latched_compr' = latched_compr /\ cur' = cur
    BY <1>3 DEF ComputeHands, KeepFetch
  <2>2. /\ cur.at = FetchAddr(reg_pc) /\ latched_compr = ~cur.long
        /\ latched_rd = cur.at \/ (cpu_state = "exec" /\ dec.op = "branch")
    BY <1>3, WalkingFacts DEF ComputeHands, InsnInv, Operating
  <2>3. cpu_state' = "fetch" /\ latched_store' /\ ~latched_branch' =>
          /\ latched_rd' = cur'.at
          /\ (IF latched_stalu' THEN alu_out_q' ELSE reg_out') # NoAddr
    BY <1>3, <2>1, <2>2 DEF ComputeHands
  <2> QED BY <2>1, <2>2, <2>3 DEF WritesOwnResult
<1>4. CASE DataHands(i)
  <2>1. /\ latched_rd' = latched_rd /\ cur' = cur /\ latched_rd = cur.at
    BY <1>4, WalkingFacts DEF DataHands, InsnInv, Operating, KeepRd
  <2>2. ~latched_branch' /\ ~latched_stalu' /\ (cpu_state' = "fetch" /\ latched_store' => reg_out' = Value)
    BY <1>4 DEF DataHands
  <2> QED BY <1>0, <2>1, <2>2 DEF WritesOwnResult
<1> QED BY <1>1, <1>2, <1>3, <1>4, HandsOn

-----------------------------------------------------------------------------
(* The invariant and what follows from it                                  *)

LEMMA InitPath == Init => PathInv
<1> SUFFICES ASSUME Init PROVE PathInv
  OBVIOUS
<1>1. /\ cpu_state = "fetch" /\ ~decoder_trigger /\ ~do_waitirq /\ ~Fetching /\ ~latched_branch /\ irq_state = 0
      /\ reg_pc = PROGADDR_RESET /\ reg_next_pc = PROGADDR_RESET /\ q0.at = PROGADDR_RESET
      /\ latched_store = SET_STACKADDR /\ (latched_store => latched_rd = rd_sp)
      /\ mem_state = 0 /\ ~mem_la_secondword /\ ~prefetched_high_word
  BY DEF Init, Fetching
<1>2. current_pc = reg_next_pc
  BY <1>1 DEF current_pc
<1>3. PcInv /\ TrapInv
  BY <1>1, <1>2, ParamAssumption DEF PcInv, TrapInv
<1>4. HandOverInv /\ InsnInv /\ ReadInv /\ WritesOwnResult
  BY <1>1 DEF HandOverInv, InsnInv, Operating, ReadInv, WritesOwnResult
<1>5. SuccessorInv /\ KeptInv
  BY <1>1 DEF SuccessorInv, HasSuccessor, Behind, Fresh, KeptInv, mem_la_use_prefetched_high_word
<1> QED BY <1>3, <1>4, <1>5 DEF PathInv

LEMMA ResetPath ==
    ASSUME TypeOK, PathInv, NEW i, Reset(i)
    PROVE  PathInv'
<1>1. /\ cpu_state' = "fetch" /\ ~decoder_trigger' /\ ~do_waitirq' /\ ~Fetching' /\ ~latched_branch' /\ irq_state' = 0
      /\ reg_pc' = PROGADDR_RESET /\ reg_next_pc' = PROGADDR_RESET /\ q0' = q0
      /\ latched_store' = SET_STACKADDR /\ (latched_store' => latched_rd' = rd_sp)
      /\ mem_state' = 0 /\ ~mem_la_secondword' /\ ~prefetched_high_word'
  BY DEF Reset, ResetState, MemReset, Fetching
<1>2. current_pc' = reg_next_pc'
  BY <1>1 DEF current_pc
<1>3. PcInv' /\ TrapInv'
  BY <1>1, <1>2, ParamAssumption DEF PathInv, PcInv, TrapInv
<1>4. HandOverInv' /\ InsnInv' /\ ReadInv' /\ WritesOwnResult'
  BY <1>1 DEF HandOverInv, InsnInv, Operating, ReadInv, WritesOwnResult
<1>5. SuccessorInv' /\ KeptInv'
  BY <1>1 DEF SuccessorInv, HasSuccessor, Behind, Fresh, KeptInv, mem_la_use_prefetched_high_word
<1> QED BY <1>3, <1>4, <1>5 DEF PathInv

LEMMA ClockPath ==
    ASSUME TypeOK, ReqInv, Decoded, Control, MemInv, PathInv, NEW i \in Inputs, Clock(i)
    PROVE  PathInv'
<1>1. InputOK(i)
  BY InputsOK DEF TypeOK
<1>2. CASE cpu_state # "trap"
  <2>1. Walking(i)
    BY <1>1, <1>2, ClockMoves, LaunchMoves DEF Walking, Running, Clock
  <2> QED BY <2>1, NextPc, NextTrap, NextHandOver, NextSuccessor, NextInsn, NextRead, NextKept, NextOwnResult
          DEF PathInv
<1>3. CASE cpu_state = "trap"
  <2>1. Trapped(i)
    BY <1>1, <1>3, FetchOutcome, LoadFacts DEF Clock, ExecuteStep, LoadingOperands,
       ExecWait, ExecBranch, ExecAlu, Exec, Shift, StMem, LdMem, DataState
  <2>2. TrapInv' /\ cpu_state' = "trap" /\ trap'
    BY <2>1, TrappedStands DEF Clock, PathInv
  <2>3. reg_pc' = reg_pc /\ reg_next_pc' = reg_next_pc /\ q0' = q0
    BY <2>1 DEF Trapped, KeepFetch
  <2>4. PcInv'
    BY <2>2, <2>3 DEF PathInv, PcInv
  <2> QED BY <2>2, <2>4 DEF PathInv
<1> QED BY <1>2, <1>3

LEMMA StutterPath ==
    ASSUME PathInv, UNCHANGED vars
    PROVE  PathInv'
<1>1. /\ UNCHANGED <<cpu_state, reg_out, trap, doVars, pcVars, latchedVars, decVars, irq_state, do_waitirq, q0>>
      /\ UNCHANGED <<alu_wait, alu_add_sub, alu_out_q, cur>> /\ UNCHANGED memVars
  BY DEF vars, coreVars, irqVars, aluVars, histVars
<1>2. /\ UNCHANGED <<latched_store, latched_branch, latched_stalu, latched_rd, latched_is, latched_compr>>
      /\ UNCHANGED <<mem_do_prefetch, mem_do_rinst, mem_do_rdata, reg_pc, reg_next_pc>>
      /\ UNCHANGED <<dec, insn, decoder_trigger, decoder_pseudo_trigger>>
      /\ UNCHANGED <<mem_valid, mem_state, mem_addr, mem_la_secondword, prefetched_high_word,
                     clear_prefetched_high_word_q, mem_16bit_buffer, mem_rdata_q>>
  BY <1>1 DEF doVars, pcVars, latchedVars, decVars, memVars
<1>3. UNCHANGED <<next_pc, Fetching, current_pc, PcBehind>>
  BY <1>1, <1>2 DEF next_pc, Fetching, current_pc, PcBehind
<1>4. UNCHANGED <<mem_la_firstword, clear_prefetched_high_word>>
  BY <1>1, <1>2, <1>3 DEF mem_la_firstword, clear_prefetched_high_word
<1>5. UNCHANGED mem_la_use_prefetched_high_word
  BY <1>2, <1>4 DEF mem_la_use_prefetched_high_word
<1>6. UNCHANGED <<Behind, HasSuccessor, Fresh, Same>>
  BY <1>1, <1>2 DEF Behind, HasSuccessor, Fresh, Same, Matches
<1>7. PcInv' /\ TrapInv'
  BY <1>1, <1>2, <1>3, <1>5 DEF PathInv, PcInv, TrapInv
<1>8. cpu_state # "trap" => HandOverInv' /\ SuccessorInv'
  BY <1>1, <1>2, <1>3, <1>6 DEF PathInv, HandOverInv, SuccessorInv
<1>9. cpu_state # "trap" => InsnInv' /\ ReadInv'
  BY <1>1, <1>2, <1>3, <1>6 DEF PathInv, InsnInv, ReadInv, Operating
<1>10. cpu_state # "trap" => KeptInv' /\ WritesOwnResult'
  BY <1>1, <1>2, <1>3, <1>4, <1>5, <1>6 DEF PathInv, KeptInv, WritesOwnResult
<1> QED BY <1>1, <1>7, <1>8, <1>9, <1>10 DEF PathInv

LEMMA PathInvariant == Spec => []PathInv
<1>1. TypeOK /\ ReqInv /\ Decoded /\ Control /\ MemInv /\ PathInv /\ [Next]_vars => PathInv'
  BY ClockPath, ResetPath, StutterPath DEF Next
<1> QED BY <1>1, InitPath, TypeCorrect, ReqInvariant, DecodedInvariant, ControlInvariant, MemInvariant, PTL DEF Spec

\* In every configuration, with or without the compressed ISA, interrupts and
\* resets, the core fetches only from addresses it has computed, uses the kept
\* upper half only as the parcel at next_pc, and executes at every pc the
\* instruction memory holds there.
THEOREM RightInstruction == Spec => []RunsWhatIsAtPc
<1>1. Control /\ PathInv => RunsWhatIsAtPc
  <2> SUFFICES ASSUME Control, PathInv PROVE RunsWhatIsAtPc
    OBVIOUS
  <2>1. FetchAddressKnown
    BY DEF FetchAddressKnown, PathInv, PcInv
  <2>2. BufferIsNextParcel
    BY DEF BufferIsNextParcel, PathInv, KeptInv, TrapInv, mem_la_use_prefetched_high_word, mem_la_firstword
  <2>3. cpu_state = "fetch" /\ decoder_trigger => dec.at = FetchAddr(current_pc)
    BY DEF Control, BranchPhase, PathInv, SuccessorInv, HasSuccessor, current_pc
  <2>4. DecodedAtPc
    BY <2>3 DEF DecodedAtPc, PathInv, InsnInv, Same, Operating
  <2> QED BY <2>1, <2>2, <2>4 DEF RunsWhatIsAtPc
<1> QED BY <1>1, ControlInvariant, PathInvariant, PTL

\* In every configuration the value that is written back is a defined one and goes
\* to the destination of the instruction that computed it, although the decoder may
\* already hold the next one; a jump links to the instruction behind it.
THEOREM OwnResult == Spec => []WritesOwnResult
<1>1. PathInv => WritesOwnResult
  BY DEF PathInv, WritesOwnResult
<1> QED BY <1>1, PathInvariant, PTL

-----------------------------------------------------------------------------
(* Part two, the abstract machine: the invariant.                          *)

\* The instruction behind the one that is executed is the next one, unless it
\* jumps; retirq is the only one that runs within the delay it ends.
OrderInv ==
    Operating => /\ reg_next_pc = Plus(reg_pc, IF cur.long THEN 2 ELSE 1)
                 /\ irq_delay <=> irq_active

\* Which instructions get into which state.
ClassInv ==
    /\ cpu_state = "ld_rs2" => cur.op \in {"branch", "store", "alur", "sll", "ebreak", "pcpi"}
    /\ cpu_state = "stmem" => cur.op = "store"
    /\ cpu_state = "ldmem" => cur.op = "load"
    /\ cpu_state = "exec"  => cur.op \notin {"load", "store", "retirq", "ebreak"}
    /\ cpu_state = "shift" => cur.op \in {"slli", "sll"}

\* The access of an instruction starts once, in the cycle its request is seen.
DataAsked == mem_do_rdata \/ mem_do_wdata
AccessInv ==
    /\ Operating => accesses = IF DataAsked /\ mem_state # 0 THEN 1 ELSE 0
    /\ DataAsked /\ misaligned => cur.arg = 1

\* An interrupt is entered with the return register selected, outside a handler.
EntryInv == irq_state = 1 => latched_rd = rd_q0 /\ ~irq_delay /\ ~irq_active

\* Without compressed instructions every instruction is long, and one at an
\* odd address is executed only if interrupt 2 could be raised for it.
Unaligned(a) == ~COMPRESSED_ISA /\ Odd(a)
LongInv ==
    ~COMPRESSED_ISA =>
        /\ Operating => cur.long
        /\ HasSuccessor => dec.long
        /\ mem_state = 3 => mem_rdata_q.long
OddInv ==
    /\ InFetch /\ ~latched_branch /\ irq_state # 1 => (Unaligned(reg_pc) <=> Unaligned(reg_next_pc))
    /\ InFetch /\ latched_branch /\ Unaligned(reg_pc) => CanRaise(irq_buserror)
    /\ Operating /\ Unaligned(reg_pc) => CanRaise(irq_buserror)
    /\ HasSuccessor /\ Unaligned(reg_next_pc) => CanRaise(irq_buserror)

IsaInv ==
    /\ dec.op = "waitirq" => ENABLE_IRQ
    /\ cpu_state # "trap" => OrderInv /\ ClassInv /\ AccessInv /\ EntryInv /\ LongInv /\ OddInv

Stepping(i) == Walking(i) /\ IsaInv

-----------------------------------------------------------------------------
(* What an instruction hands to the next                                   *)

LEMMA SteppingFacts ==
    ASSUME NEW i, Stepping(i)
    PROVE  /\ Walking(i) /\ OrderInv /\ ClassInv /\ AccessInv /\ EntryInv /\ LongInv /\ OddInv
           /\ cpu_state # "trap" /\ ~trap /\ irq_state \in 0 .. 2 /\ (dec.op = "waitirq" => ENABLE_IRQ)
           /\ cpu_state # "fetch" => irq_state = 0
BY WalkingFacts DEF Stepping, IsaInv, ReqInv, EntryRequests, TypeOK, IrqTypeOK

\* From the operands a jump of retirq, a result or a fault leaves for fetch; the
\* other classes go where they belong.  Only retirq ends a handler, and only
\* maskirq changes the mask.
LoadEnds(i) ==
    /\ cpu_state' = "fetch" => insn.op \notin {"jalr", "branch", "load", "store"}
    /\ latched_branch' <=> insn.op = "retirq"
    /\ cpu_state' = "trap"  => IsTrap
    /\ cpu_state' = "stmem" => insn.op = "store"
    /\ cpu_state' = "ldmem" => insn.op = "load"
    /\ cpu_state' = "ld_rs2" => insn.op \in {"branch", "store", "alur", "sll", "ebreak", "pcpi"}
    /\ cpu_state' = "exec"  => insn.op \notin {"load", "store", "retirq", "ebreak"}
    /\ cpu_state' = "shift" => insn.op \in {"slli", "sll"}
    /\ ~mem_do_wdata' /\ misaligned' = misaligned
    /\ irq_mask' = irq_mask \/ (insn.op = "maskirq" /\ cpu_state' = "fetch")
    /\ irq_active' = (irq_active /\ insn.op # "retirq")
    /\ insn.op = "retirq" => cpu_state' = "fetch"

LEMMA LoadingEnds ==
    ASSUME NEW i, Stepping(i), LdRs1Step(i) \/ LdRs2Trap(i) \/ LdRs2Operands(i)
    PROVE  LoadEnds(i)
<1>1. /\ LoadingOperands /\ ~Misaligned /\ ~mem_do_wdata /\ ~latched_branch /\ Matches /\ irq_active \in BOOLEAN
      /\ cpu_state = "ld_rs2" => insn.op \in {"branch", "store", "alur", "sll", "ebreak", "pcpi"}
  <2>1. cpu_state = "ld_rs2" => insn = cur
    BY SteppingFacts, WalkingFacts DEF InsnInv
  <2> QED BY <2>1, SteppingFacts, WalkingFacts, LoadFacts DEF Decoded, Misaligned, TypeOK, IrqTypeOK, ClassInv
<1> USE DEF Default, Finish, Requests, LdRs1, LdRs2, KeepData, KeepIrq, LoadEnds, IsTrap
<1>2. ASSUME Operands(i), KeepData, ~IsTrap, insn.op \in {"branch", "store", "alur", "sll"} PROVE LoadEnds(i)
  <2>1. CASE dec.op = "store"
    BY <1>1, <1>2, <2>1 DEF Operands, LoadingOperands, Matches
  <2>2. CASE dec.op # "store" /\ insn.op = "sll" /\ ~BARREL_SHIFTER
    BY <1>1, <1>2, <2>2 DEF Operands, LoadingOperands, Matches
  <2>3. CASE dec.op # "store" /\ ~(insn.op = "sll" /\ ~BARREL_SHIFTER)
    <3>1. insn.op # "store"
      BY <1>1, <2>3 DEF Matches, Stage2Ops
    <3> QED BY <1>1, <1>2, <2>3, <3>1 DEF Operands, ToExec, LoadingOperands
  <2> QED BY <2>1, <2>2, <2>3
<1>3. ASSUME Finish(i, PcpiCycle(i)), IsTrap, KeepData, KeepIrq PROVE LoadEnds(i)
  BY <1>1, <1>3 DEF PcpiCycle, Raise, LoadingOperands
<1>4. CASE LdRs1Trap(i)
  <2>1. CASE ~WITH_PCPI
    BY <1>1, <1>4, <2>1 DEF LdRs1Trap, Raise, LoadingOperands
  <2>2. CASE WITH_PCPI /\ ENABLE_REGS_DUALPORT
    <3> HIDE DEF Finish, LoadEnds, KeepData, KeepIrq
    <3> QED BY <1>3, <1>4, <2>2 DEF LdRs1Trap
  <2>3. CASE WITH_PCPI /\ ~ENABLE_REGS_DUALPORT
    BY <1>1, <1>4, <2>3 DEF LdRs1Trap, LoadingOperands
  <2> QED BY <2>1, <2>2, <2>3
<1>5. CASE LdRs1Move(i)
  BY <1>1, <1>5 DEF LdRs1Move, LoadingOperands
<1>6. CASE LdRs1Retirq(i)
  BY <1>1, <1>6 DEF LdRs1Retirq, LoadingOperands, Matches
<1>7. CASE LdRs1Maskirq(i)
  BY <1>1, <1>7 DEF LdRs1Maskirq, LoadingOperands
<1>8. CASE LdRs1Timer(i)
  BY <1>1, <1>8 DEF LdRs1Timer, LoadingOperands
<1>9. CASE LdRs1Load(i)
  BY <1>1, <1>9 DEF LdRs1Load, LoadingOperands, Matches
<1>10. CASE LdRs1ShiftImm(i)
  BY <1>1, <1>10 DEF LdRs1ShiftImm, LoadingOperands
<1>11. CASE LdRs1Imm(i)
  <2>1. insn.op \in {"lui", "alui", "jalr", "slli"}
    BY <1>1, <1>11 DEF LdRs1Imm, Matches
  <2> QED BY <1>1, <1>11, <2>1 DEF LdRs1Imm, ToExec, LoadingOperands
<1>12. CASE LdRs1Rs2(i)
  <2>1. insn.op \in {"branch", "store", "alur", "sll"}
    BY <1>1, <1>12 DEF LdRs1Rs2, NeedsRs2, Matches
  <2>2. CASE ENABLE_REGS_DUALPORT
    <3> HIDE DEF Finish, LoadEnds, KeepData
    <3> QED BY <1>2, <1>12, <2>1, <2>2 DEF LdRs1Rs2
  <2>3. CASE ~ENABLE_REGS_DUALPORT
    BY <1>1, <1>12, <2>1, <2>3 DEF LdRs1Rs2, LoadingOperands
  <2> QED BY <2>2, <2>3
<1>13. CASE LdRs2Trap(i)
  <2> HIDE DEF Finish, LoadEnds, KeepData, KeepIrq
  <2> QED BY <1>3, <1>13 DEF LdRs2Trap
<1>14. CASE LdRs2Operands(i)
  <2>1. insn.op \in {"branch", "store", "alur", "sll"}
    BY <1>1, <1>14 DEF LdRs2Operands
  <2> HIDE DEF Finish, LoadEnds, KeepData
  <2> QED BY <1>2, <1>14, <2>1 DEF LdRs2Operands
<1> QED BY <1>4, <1>5, <1>6, <1>7, <1>8, <1>9, <1>10, <1>11, <1>12, <1>13, <1>14 DEF LdRs1Step

LEMMA FinishOfStep ==
    ASSUME NEW i, Stepping(i)
    PROVE  \E r : Finish(i, r)
BY DEF Stepping, Walking, ExecuteStep, FetchStep, FetchInterrupt, FetchSaveReturn, FetchSaveMask,
       FetchWaitirq, LaunchJal, Launch, FetchIdle, LdRs1Step, LdRs1Trap, LdRs1Move, LdRs1Retirq, LdRs1Maskirq,
       LdRs1Timer, LdRs1Load, LdRs1ShiftImm, LdRs1Imm, LdRs1Rs2, LdRs2Trap, LdRs2Operands, Operands, ExecWait,
       ExecBranch, ExecAlu, Shift, StMem, LdMem, Trapped

LEMMA FinishedOrMisaligned ==
    ASSUME NEW i, Stepping(i)
    PROVE  Misaligned /\ cpu_state' # "trap" => CanRaise(irq_buserror)
BY FinishOfStep DEF Finish

\* Outside the states that load operands only the entry into a handler changes
\* what interrupts are taken.
LEMMA IrqKept ==
    ASSUME NEW i, Stepping(i), ~LoadingOperands, irq_state # 1
    PROVE  irq_active' = irq_active /\ irq_mask' = irq_mask
BY DEF Stepping, Walking, ExecuteStep, FetchStep, FetchInterrupt, FetchSaveReturn, FetchSaveMask,
       FetchHead, FetchTail, FetchWaitirq, LaunchJal, Launch, FetchIdle,
       LdRs1Step, LdRs1Trap, LdRs1Move, LdRs1Retirq, LdRs1Maskirq, LdRs1Timer, LdRs1Load,
       LdRs1ShiftImm, LdRs1Imm, LdRs1Rs2, LdRs1, LdRs2Trap, LdRs2Operands, LdRs2,
       ExecWait, ExecBranch, ExecAlu, Exec, Shift, StMem, LdMem, DataState, Trapped, KeepIrq, LoadingOperands

\* A fetch that goes on while an instruction is executed does not trap it.
LEMMA RaisesInside ==
    ASSUME NEW i, Stepping(i), Operating, ~DataAsked
    PROVE  Misaligned => CanRaise(irq_buserror)
BY SteppingFacts DEF Misaligned, DataAsked, OddInv, Unaligned

\* A jump is left to fetch by jalr and by a branch that is taken, with its target.
ComputeEnds(i) ==
    /\ cpu_state' # "trap" /\ misaligned' = misaligned
    /\ cpu_state' = "fetch" =>
          /\ latched_branch' <=> insn.op = "jalr" \/ (insn.op = "branch" /\ insn.arg # NotTaken)
          /\ latched_branch' => latched_store' /\ (IF latched_stalu' THEN alu_out_q' ELSE reg_out') = insn.arg

LEMMA ComputingEnds ==
    ASSUME NEW i, Stepping(i), ExecWait(i) \/ ExecBranch(i) \/ ExecAlu(i) \/ Shift(i)
    PROVE  ComputeEnds(i)
<1>1. /\ Walking(i) /\ Same /\ insn = cur /\ cur.at = FetchAddr(reg_pc) /\ ~latched_stalu /\ KeepFetch
      /\ cpu_state \in {"exec", "shift"} /\ (mem_done(i) => mem_do_rinst)
  BY SteppingFacts, ComputeKnown
<1>2. Misaligned => CanRaise(irq_buserror)
  BY <1>1, RaisesInside, WalkingFacts DEF Operating, DataAsked, ReqInv, DataRequests
<1>3. insn.op = "jalr" <=> dec.op = "jalr"
  BY <1>1 DEF Same, Matches, Stage2Ops
<1>4. insn.op = "branch" <=> dec.op = "branch"
  BY <1>1 DEF Same, Matches, Stage2Ops
<1>5. cpu_state = "shift" => insn.op \in {"slli", "sll"}
  BY <1>1, SteppingFacts DEF ClassInv
<1> USE DEF ComputeEnds, Default, Finish, Requests
<1>6. CASE ExecWait(i)
  BY <1>1, <1>2, <1>6 DEF ExecWait, Exec, KeepData
<1>7. CASE ExecBranch(i)
  <2> DEFINE taken == insn.arg # NotTaken
  <2>1. CompareValid /\ PcPlusImm = insn.arg /\ misaligned' = misaligned
    BY <1>1, <1>3, <1>4, <1>7, WalkingFacts, ComputeFacts, ParamAssumption
       DEF ExecBranch, Exec, KeepData, FetchPhase, ComparePhase, AluWaits, AluValid, CompareValid, PcPlusImm
  <2>2. Finish(i, [Default(i) EXCEPT
             !.store = taken, !.branch = taken, !.reg_out = PcPlusImm,
             !.cpu_state = IF mem_done(i) THEN "fetch" ELSE "exec",
             !.trigger = @ /\ ~taken,
             !.set = IF taken THEN "rinst" ELSE "none"])
    <3> HIDE DEF Finish, Default
    <3> QED BY <1>7, <2>1 DEF ExecBranch
  <2>3. /\ latched_branch' = taken /\ latched_store' = taken /\ ~latched_stalu'
        /\ reg_out' = insn.arg /\ cpu_state' # "trap"
    <3> HIDE DEF taken
    <3> QED BY <1>1, <1>2, <2>1, <2>2
  <2> QED BY <1>4, <1>7, <2>1, <2>3 DEF ExecBranch
<1>8. CASE ExecAlu(i)
  <2>1. /\ latched_branch' = (dec.op = "jalr") /\ latched_store' = TRUE /\ latched_stalu' = TRUE
        /\ misaligned' = misaligned /\ cpu_state' # "trap"
    BY <1>1, <1>2, <1>8 DEF ExecAlu, Exec, KeepData
  <2>2. AluValid
    BY <1>8, SteppingFacts, WalkingFacts DEF ExecAlu, Exec, AluValid, AluWaits, HandOverInv
  <2>3. alu_out_q' = IF insn.op = "jalr" THEN insn.arg ELSE Value
    BY <1>8, <2>2 DEF ExecAlu, Alu
  <2> QED BY <1>3, <1>4, <1>8, <2>1, <2>3 DEF ExecAlu
<1>9. CASE Shift(i)
  <2>1. ~latched_branch
    BY <1>9, SteppingFacts, WalkingFacts DEF Shift, BranchPhase
  <2>2. CASE reg_sh = 0
    BY <1>1, <1>2, <1>5, <1>9, <2>1, <2>2 DEF Shift, KeepData
  <2>3. CASE reg_sh # 0
    BY <1>1, <1>2, <1>5, <1>9, <2>1, <2>3 DEF Shift, KeepData
  <2> QED BY <2>2, <2>3
<1> QED BY <1>6, <1>7, <1>8, <1>9

\* A load or store asks for its access when its successor is there, and ends when
\* the access is made; it traps only for a misaligned address.
DataEnds(i) ==
    /\ cpu_state' # "trap" /\ DataAsked => (cpu_state' = "fetch" <=> mem_done(i)) /\ misaligned' = misaligned
    /\ cpu_state' # "trap" /\ ~DataAsked => cpu_state' = cpu_state
    /\ cpu_state' = "trap" => DataAsked /\ misaligned
    /\ ~DataAsked /\ DataAsked' => mem_done(i) /\ insn = cur /\ misaligned' = (insn.arg = 1)

LEMMA DataKinds ==
    ASSUME NEW i, Stepping(i), StMem(i) \/ LdMem(i)
    PROVE  /\ Accessed(i) <=> DataAsked /\ mem_done(i)
           /\ ~DataAsked => mem_do_prefetch /\ insn = cur
           /\ Misaligned /\ ~CanRaise(irq_buserror) => DataAsked /\ misaligned
           /\ DataAsked <=> IF cpu_state = "stmem" THEN mem_do_wdata ELSE mem_do_rdata
           /\ cpu_state \in {"stmem", "ldmem"}
<1>1. Walking(i)
  BY SteppingFacts
<1>2. /\ cpu_state \in {"stmem", "ldmem"}
      /\ cpu_state = "stmem" => ~mem_do_rdata /\ (mem_do_wdata \/ (mem_do_prefetch /\ mem_do_rinst))
      /\ cpu_state = "ldmem" => ~mem_do_wdata /\ (mem_do_rdata \/ (mem_do_prefetch /\ mem_do_rinst))
      /\ DataAsked => ~Fetching
      /\ mem_do_rinst => mem_do_prefetch
  BY <1>1, DataKnown DEF DataAsked
<1>3. ~mem_do_prefetch => DataAsked
  BY <1>2 DEF DataAsked
<1>4. Misaligned /\ ~CanRaise(irq_buserror) => DataAsked /\ misaligned
  <2>1. ~DataAsked => (Misaligned => CanRaise(irq_buserror))
    BY <1>2, RaisesInside DEF Operating
  <2> QED BY <1>2, <2>1 DEF Misaligned, DataAsked, Fetching
<1>5. ~DataAsked => mem_do_prefetch /\ insn = cur
  BY <1>2, <1>3, WalkingFacts, <1>1 DEF InsnInv
<1> QED BY <1>2, <1>3, <1>4, <1>5 DEF Accessed, DataAsked, Fetching

LEMMA DataEndsWhenMade ==
    ASSUME NEW i, Stepping(i), StMem(i) \/ LdMem(i)
    PROVE  DataEnds(i)
<1> DEFINE next == IF Misaligned /\ ~CanRaise(irq_buserror) THEN "trap"
                   ELSE IF Accessed(i) THEN "fetch" ELSE cpu_state
<1> DEFINE starts == FetchedNext(i) /\ ~DataAsked
<1>1. /\ cpu_state' = next
      /\ misaligned' = IF starts THEN insn.arg = 1 ELSE misaligned
      /\ ~DataAsked /\ DataAsked' => starts
  <2>1. CASE StMem(i)
    <3>1. /\ cpu_state = "stmem" /\ ~mem_do_rdata /\ (DataAsked <=> mem_do_wdata)
          /\ Accessed(i) => DataAsked
      BY <2>1, SteppingFacts, DataKnown, DataKinds DEF StMem, DataState
    <3>2. CASE starts
      <4>1. Finish(i, [Default(i) EXCEPT !.set = "wdata"]) /\ misaligned' = (insn.arg = 1)
        BY <2>1, <3>1, <3>2 DEF StMem, DataDone
      <4> QED BY <3>1, <3>2, <4>1 DEF Finish, Default
    <3>3. CASE ~starts /\ Accessed(i)
      <4>1. /\ Finish(i, [Default(i) EXCEPT !.cpu_state = "fetch", !.trigger = TRUE, !.pseudo = TRUE])
            /\ misaligned' = misaligned
        BY <2>1, <3>1, <3>3 DEF StMem, DataDone
      <4> QED BY <3>1, <3>3, <4>1 DEF Finish, Default
    <3>4. CASE ~starts /\ ~Accessed(i)
      <4>1. Finish(i, Default(i)) /\ misaligned' = misaligned
        BY <2>1, <3>1, <3>4 DEF StMem, DataDone
      <4> QED BY <3>1, <3>4, <4>1 DEF Finish, Default, Requests, DataAsked
    <3> QED BY <3>2, <3>3, <3>4
  <2>2. CASE LdMem(i)
    <3>1. /\ cpu_state = "ldmem" /\ ~mem_do_wdata /\ (DataAsked <=> mem_do_rdata)
          /\ Accessed(i) => DataAsked
      BY <2>2, SteppingFacts, DataKnown, DataKinds DEF LdMem, DataState
    <3>2. CASE starts
      <4>1. Finish(i, [Default(i) EXCEPT !.store = TRUE, !.set = "rdata"]) /\ misaligned' = (insn.arg = 1)
        BY <2>2, <3>1, <3>2 DEF LdMem, DataDone
      <4> QED BY <3>1, <3>2, <4>1 DEF Finish, Default
    <3> DEFINE out == IF Accessed(i) /\ latched_is # NoAddr THEN Value ELSE NoAddr
    <3>3. CASE ~starts /\ Accessed(i)
      <4>1. /\ Finish(i, [[Default(i) EXCEPT !.store = TRUE, !.reg_out = out] EXCEPT
                             !.cpu_state = "fetch", !.trigger = TRUE, !.pseudo = TRUE])
            /\ misaligned' = misaligned
        <5> HIDE DEF Finish, Default
        <5> QED BY <2>2, <3>1, <3>3 DEF LdMem, DataDone
      <4> HIDE DEF out
      <4> QED BY <3>1, <3>3, <4>1 DEF Finish, Default
    <3>4. CASE ~starts /\ ~Accessed(i)
      <4>1. Finish(i, [Default(i) EXCEPT !.store = TRUE, !.reg_out = out]) /\ misaligned' = misaligned
        BY <2>2, <3>1, <3>4 DEF LdMem, DataDone
      <4> HIDE DEF out
      <4> QED BY <3>1, <3>4, <4>1 DEF Finish, Default, Requests, DataAsked
    <3> QED BY <3>2, <3>3, <3>4
  <2> QED BY <2>1, <2>2
<1>2. cpu_state \in {"stmem", "ldmem"} /\ (~DataAsked => mem_do_prefetch /\ insn = cur)
  BY DataKinds
<1>3. FetchedNext(i) /\ mem_do_prefetch => mem_done(i)
  BY DEF FetchedNext
<1> QED BY <1>1, <1>2, <1>3, DataKinds DEF DataEnds

-----------------------------------------------------------------------------
(* The parts of the invariant after a cycle                                *)

\* The kinds of cycle, with what each hands on.
LEMMA SteppingKinds ==
    ASSUME NEW i, Stepping(i)
    PROVE  \/ FetchStep(i) /\ FetchHands(i) /\ cpu_state = "fetch"
           \/ LoadHands(i) /\ LoadEnds(i) /\ LoadingOperands /\ insn = cur
           \/ ComputeHands(i) /\ ComputeEnds(i) /\ cpu_state \in {"exec", "shift"} /\ insn = cur
           \/ DataHands(i) /\ DataEnds(i) /\ cpu_state \in {"stmem", "ldmem"}
<1>1. Walking(i) /\ cpu_state # "trap"
  BY SteppingFacts
<1>2. CASE FetchStep(i)
  BY <1>1, <1>2, FetchHandsOn DEF FetchHands
<1>3. CASE LdRs1Step(i) \/ LdRs2Trap(i) \/ LdRs2Operands(i)
  <2>1. LoadHands(i) /\ LoadEnds(i) /\ LoadingOperands
    BY <1>1, <1>3, LoadHandsOn, LoadingEnds DEF LoadHands
  <2> QED BY <1>1, <2>1, WalkingFacts DEF InsnInv, LoadingOperands
<1>4. CASE ExecWait(i) \/ ExecBranch(i) \/ ExecAlu(i) \/ Shift(i)
  BY <1>1, <1>4, ComputingEnds, ComputeKnown, ExecWaitHandsOn, ExecBranchHandsOn, ExecAluHandsOn, ShiftHandsOn
<1>5. CASE StMem(i) \/ LdMem(i)
  BY <1>1, <1>5, DataEndsWhenMade, StMemHandsOn, LdMemHandsOn DEF DataHands
<1>6. ~Trapped(i)
  BY <1>1 DEF Trapped
<1> QED BY <1>1, <1>2, <1>3, <1>4, <1>5, <1>6 DEF Walking, ExecuteStep

\* An instruction gets into its first state only by Launch.
LEMMA LaunchedBy ==
    ASSUME NEW i, Stepping(i), cpu_state = "fetch", cpu_state' \notin {"fetch", "trap"}
    PROVE  Launch(i) /\ Launches /\ cpu_state' = "ld_rs1" /\ FetchHands(i)
<1>1. FetchStep(i) /\ FetchHands(i) /\ cpu_state' = "ld_rs1"
  BY SteppingKinds DEF LoadingOperands, FetchHands
<1>2. Launch(i)
  BY <1>1, SteppingFacts, WalkingFacts, FetchFacts
<1> QED BY <1>1, <1>2 DEF FetchHands

\* The instruction at pc, which its successor's address follows from, is the one launched.
LEMMA LaunchedIs ==
    ASSUME NEW i, Stepping(i), cpu_state = "fetch", decoder_trigger \/ do_waitirq
    PROVE  /\ dec' = dec /\ insn'.at = dec.at /\ insn'.long = dec.long /\ Same'
           /\ HasSuccessor /\ current_pc = reg_next_pc /\ dec.at = FetchAddr(reg_next_pc) /\ reg_next_pc \in HalfAddr
           /\ irq_state = 0 /\ ~latched_branch /\ ~Fetching
BY SteppingFacts, SteppingKinds, AtLaunch, CatchesUp DEF FetchHands, LoadingOperands, Fetching

LEMMA NextOrder ==
    ASSUME NEW i, Stepping(i), cpu_state' # "trap"
    PROVE  OrderInv'
<1>1. SUFFICES ASSUME Operating'
               PROVE  /\ reg_next_pc' = Plus(reg_pc', IF cur'.long THEN 2 ELSE 1)
                      /\ irq_delay' <=> irq_active'
  BY DEF OrderInv
<1>2. CASE cpu_state = "fetch"
  <2>1. Launch(i) /\ Launches /\ FetchHands(i)
    BY <1>1, <1>2, LaunchedBy DEF Operating
  <2>2. /\ reg_next_pc' = PcAfter(dec) /\ reg_pc' = current_pc /\ cur' = insn' /\ decoder_trigger
        /\ irq_delay' = irq_active /\ irq_active' = irq_active
    BY <2>1 DEF Launch, FetchHands, FetchTail
  <2>3. cur'.long = dec.long
    BY <1>2, <2>2, LaunchedIs
  <2> QED BY <2>2, <2>3 DEF PcAfter
<1>3. CASE cpu_state # "fetch"
  <2>1. KeepFetch /\ cur' = cur /\ Operating /\ OrderInv
    BY <1>3, SteppingKinds, SteppingFacts DEF LoadHands, ComputeHands, DataHands, Operating, LoadingOperands
  <2>2. irq_active' <=> irq_active
    <3>1. CASE LoadingOperands
      BY <1>1, <3>1, SteppingKinds DEF LoadEnds, FetchHands, ComputeHands, DataHands, LoadingOperands, Operating
    <3>2. CASE ~LoadingOperands
      BY <1>3, <3>2, IrqKept, SteppingFacts
    <3> QED BY <3>1, <3>2
  <2> QED BY <2>1, <2>2 DEF KeepFetch, OrderInv
<1> QED BY <1>2, <1>3

LEMMA NextClass ==
    ASSUME NEW i, Stepping(i), cpu_state' # "trap"
    PROVE  ClassInv'
<1>1. CASE cpu_state = "fetch"
  <2>1. cpu_state' \in {"fetch", "ld_rs1"}
    BY <1>1, LaunchedBy
  <2> QED BY <2>1 DEF ClassInv
<1>2. CASE LoadHands(i) /\ LoadEnds(i) /\ insn = cur
  BY <1>2 DEF LoadHands, LoadEnds, ClassInv
<1>3. CASE ComputeHands(i)
  BY <1>3, SteppingFacts DEF ComputeHands, ClassInv
<1>4. CASE DataHands(i)
  BY <1>4, SteppingFacts DEF DataHands, ClassInv
<1> QED BY <1>1, <1>2, <1>3, <1>4, SteppingKinds

\* The access is under way from the cycle after its request is seen, until it is made.
LEMMA AccessGoesOn ==
    ASSUME NEW i, Stepping(i), DataAsked, ~mem_done(i)
    PROVE  DataAsked' /\ mem_state' # 0
<1>1. Walking(i) /\ Running(i) /\ ~Fetching
  BY SteppingFacts, WalkingFacts, StateRequests DEF DataAsked
<1>2. DataAsked'
  BY <1>1 DEF Running, Moves, DataAsked
<1>3. mem_state # 0 => ~mem_xfer(i) /\ mem_state \in {1, 2}
  BY <1>1, StateRequests DEF mem_done, DataAsked, mem_la_firstword, Fetching
<1>4. CASE mem_state = 0
  <2>1. MemStartRead(i) \/ MemStartWrite(i)
    BY <1>1, <1>4, Cycles DEF MemIdle, MemWait, MemSecondWord, MemReadDone, MemWriteDone, MemHeld, DataAsked
  <2> QED BY <1>2, <2>1 DEF MemStartRead, MemStartWrite
<1>5. CASE mem_state # 0
  <2>1. ~MemIdle(i) /\ ~MemStartRead(i) /\ ~MemStartWrite(i)
    BY <1>5 DEF MemIdle, MemStartRead, MemStartWrite
  <2>2. ~MemSecondWord(i) /\ ~MemReadDone(i) /\ ~MemWriteDone(i) /\ ~MemHeld
    BY <1>3, <1>5 DEF MemSecondWord, MemReadDone, MemWriteDone, MemHeld
  <2>3. MemWait(i)
    BY <1>1, <2>1, <2>2, Cycles
  <2> QED BY <1>2, <1>5, <2>3 DEF MemWait
<1> QED BY <1>4, <1>5

LEMMA NextAccess ==
    ASSUME NEW i, Stepping(i), ReqInv', cpu_state' # "trap"
    PROVE  AccessInv'
<1>1. Walking(i) /\ Running(i) /\ ~trap /\ AccessInv /\ History
  BY SteppingFacts, WalkingFacts DEF Walking
<1>2. CASE cpu_state = "fetch"
  <2>1. ~DataAsked'
    <3>1. cpu_state' \in {"fetch", "ld_rs1"}
      BY <1>2, LaunchedBy
    <3> QED BY <3>1 DEF ReqInv, DataRequests, DataAsked
  <2>2. Operating' => accesses' = 0
    BY <1>1, <1>2, LaunchedBy DEF Operating, History
  <2> QED BY <2>1, <2>2 DEF AccessInv
<1>3. CASE cpu_state \in {"stmem", "ldmem"}
  <2>1. DataHands(i) /\ DataEnds(i) /\ cur' = cur /\ ~Launches /\ accesses \in {0, 1}
    BY <1>1, <1>3, SteppingKinds DEF LoadingOperands, DataHands, Launches, AccessInv, Operating
  <2>2. accesses' = IF StartsAccess THEN accesses + 1 ELSE accesses
    BY <1>1, <2>1 DEF History
  <2>3. CASE ~DataAsked
    <3>1. accesses = 0 /\ accesses' = 0
      BY <1>1, <1>3, <2>2, <2>3 DEF AccessInv, Operating, StartsAccess, DataAsked
    <3>2. DataAsked' => mem_state' = 0 /\ insn = cur /\ misaligned' = (insn.arg = 1)
      BY <1>1, <2>1, <2>3, DoneIsIdle DEF DataEnds
    <3> QED BY <2>1, <3>1, <3>2 DEF AccessInv
  <2>4. CASE DataAsked /\ mem_done(i)
    <3>1. cpu_state' = "fetch"
      BY <2>1, <2>4 DEF DataEnds
    <3> QED BY <3>1 DEF AccessInv, Operating, ReqInv, DataRequests, DataAsked
  <2>5. CASE DataAsked /\ ~mem_done(i)
    <3>1. DataAsked' /\ mem_state' # 0
      BY <2>5, AccessGoesOn
    <3>2. accesses' = 1
      BY <1>1, <1>3, <2>2, <2>5 DEF AccessInv, Operating, StartsAccess, DataAsked
    <3> QED BY <1>1, <2>1, <2>5, <3>1, <3>2 DEF DataEnds, AccessInv
  <2> QED BY <2>3, <2>4, <2>5
<1>4. CASE cpu_state \in {"ld_rs1", "ld_rs2", "exec", "shift"}
  <2>1. (LoadHands(i) /\ LoadEnds(i)) \/ ComputeHands(i)
    BY <1>4, SteppingKinds
  <2>2. cur' = cur /\ ~DataAsked /\ ~Launches /\ accesses = 0
    BY <1>1, <1>4, <2>1, WalkingFacts
       DEF LoadHands, ComputeHands, Launches, AccessInv, Operating, ReqInv, DataRequests, DataAsked
  <2>3. accesses' = 0
    BY <1>1, <2>2 DEF History, StartsAccess, DataAsked
  <2>4. ~mem_do_rdata' /\ ~mem_do_wdata'
    BY <2>1 DEF LoadHands, LoadEnds, ComputeHands, ReqInv, DataRequests
  <2> QED BY <2>3, <2>4 DEF AccessInv, DataAsked
<1> QED BY <1>1, <1>2, <1>3, <1>4, SteppingKinds DEF LoadingOperands

LEMMA WaitirqDecoded ==
    ASSUME NEW i, Decode(i), dec.op = "waitirq" => ENABLE_IRQ
    PROVE  dec'.op = "waitirq" => ENABLE_IRQ
<1>1. CASE dec' = dec
  BY <1>1
<1>2. CASE dec' \in Stage1(mem_rdata_latched(i))
  <2>1. PICK o \in Ops : dec' \in [at : {mem_rdata_latched(i).at}, long : {mem_rdata_latched(i).long},
                                   op : {IF o \in Stage1Ops THEN o ELSE "other"},
                                   arg : IF o = "jal" THEN Args(o) ELSE {0}]
    BY <1>2 DEF Stage1
  <2>2. dec'.op = "waitirq" => o \in IrqOps
    BY <2>1 DEF IrqOps
  <2> QED BY <2>2, OpsAssumption
<1> QED BY <1>1, <1>2 DEF Decode

LEMMA NextEntry ==
    ASSUME NEW i, Stepping(i)
    PROVE  EntryInv' /\ (dec'.op = "waitirq" => ENABLE_IRQ)
<1>1. Walking(i) /\ EntryInv /\ (dec.op = "waitirq" => ENABLE_IRQ)
  BY SteppingFacts
<1>2. EntryInv'
  <2>1. SUFFICES ASSUME irq_state' = 1 PROVE latched_rd' = rd_q0 /\ ~irq_delay' /\ ~irq_active'
    BY DEF EntryInv
  <2>2. FetchStep(i)
    <3>1. KeepFetch /\ cpu_state # "fetch" => irq_state' = 0
      BY SteppingFacts DEF KeepFetch
    <3> QED BY <2>1, <3>1, SteppingKinds DEF LoadHands, ComputeHands, DataHands, LoadingOperands
  <2>3. irq_state = 1 => InterruptTaken
    BY <1>1, WalkingFacts DEF ReqInv, EntryRequests, InterruptTaken
  <2>4. FetchInterrupt(i)
    BY <2>1, <2>2, <2>3 DEF FetchStep, FetchSaveReturn, FetchSaveMask, FetchWaitirq, LaunchJal, Launch, FetchIdle,
                            FetchTail
  <2> QED BY <2>4, SteppingFacts, WalkingFacts DEF FetchInterrupt, InterruptTaken, TypeOK, IrqTypeOK
<1>3. dec'.op = "waitirq" => ENABLE_IRQ
  BY <1>1, FinishOfStep, WaitirqDecoded DEF Finish
<1> QED BY <1>2, <1>3

LEMMA LongRead ==
    ASSUME NEW i, Stepping(i), ~COMPRESSED_ISA, mem_do_rinst, mem_done(i)
    PROVE  mem_rdata_latched(i).long
<1>1. /\ Walking(i) /\ Running(i) /\ i \in Inputs /\ Fetching /\ ~mem_do_rdata /\ ~mem_do_wdata
      /\ mem_state \in {1, 3} /\ LongInv
  BY SteppingFacts, WalkingFacts, StateRequests, WhenDone DEF Fetching
<1>2. ~mem_la_firstword /\ ~mem_la_use_prefetched_high_word /\ ~mem_la_secondword
  BY <1>1, StateRequests DEF mem_la_firstword, mem_la_use_prefetched_high_word
<1>3. CASE mem_state = 3
  <2>1. ~mem_xfer(i)
    BY <1>1, <1>2, <1>3, StateRequests DEF mem_xfer
  <2> QED BY <1>1, <1>2, <1>3, <2>1 DEF mem_rdata_latched, LongInv
<1>4. CASE mem_state = 1
  <2>1. mem_xfer(i) /\ mem_valid /\ i.mem_ready /\ mem_instr
    BY <1>1, <1>2, <1>4, StateRequests, WhenDone DEF mem_xfer
  <2>2. i.lo.long
    BY <1>1, <2>1, ReadIsAddressed
  <2> QED BY <1>2, <2>1, <2>2 DEF mem_rdata_latched, Join
<1> QED BY <1>1, <1>3, <1>4

LEMMA LongHeld ==
    ASSUME NEW i, Stepping(i), ~COMPRESSED_ISA, mem_state' = 3
    PROVE  mem_rdata_q'.long
<1>1. Walking(i) /\ Running(i) /\ i \in Inputs /\ LongInv /\ MemRegs(i)
  BY SteppingFacts, WalkingFacts, Cycles
<1>2. ~mem_la_firstword /\ ~mem_la_use_prefetched_high_word /\ ~mem_la_secondword
  BY <1>1, StateRequests DEF mem_la_firstword, mem_la_use_prefetched_high_word
<1>3. (MemReadDone(i) \/ MemHeld) /\ ~mem_do_rinst
  <2>1. ~MemIdle(i) /\ ~MemStartRead(i) /\ ~MemStartWrite(i) /\ ~MemWait(i) /\ ~MemSecondWord(i) /\ ~MemWriteDone(i)
    BY DEF MemIdle, MemStartRead, MemStartWrite, MemWait, MemSecondWord, MemWriteDone
  <2>2. MemReadDone(i) => ~mem_do_rinst
    BY DEF MemReadDone
  <2>3. MemHeld => ~mem_do_rinst
    BY DEF MemHeld
  <2> QED BY <1>1, <2>1, <2>2, <2>3, Cycles
<1>4. CASE MemReadDone(i)
  <2>1. mem_state = 1 /\ mem_xfer(i) /\ ~mem_do_rdata
    BY <1>4 DEF MemReadDone
  <2>2. mem_valid /\ i.mem_ready /\ mem_instr
    BY <1>1, <1>2, <2>1, StateRequests DEF mem_xfer
  <2>3. i.lo.long
    BY <1>1, <2>2, ReadIsAddressed
  <2>4. mem_rdata_q' = Join(i.lo, i.hi)
    BY <1>1, <1>2, <2>1 DEF MemRegs, mem_rdata_latched
  <2> QED BY <2>3, <2>4 DEF Join
<1>5. CASE MemHeld
  <2>1. mem_state = 3 /\ ~mem_xfer(i)
    BY <1>1, <1>3, <1>5, StateRequests, WhenDone DEF MemHeld
  <2> QED BY <1>1, <2>1 DEF MemRegs, LongInv
<1> QED BY <1>3, <1>4, <1>5

LEMMA NextLong ==
    ASSUME NEW i, Stepping(i), cpu_state' # "trap"
    PROVE  LongInv'
<1>1. SUFFICES ASSUME ~COMPRESSED_ISA
               PROVE  (Operating' => cur'.long) /\ (HasSuccessor' => dec'.long)
  BY LongHeld DEF LongInv
<1>2. LongInv /\ Walking(i)
  BY SteppingFacts
<1>3. Operating' => cur'.long
  <2>1. CASE cpu_state = "fetch"
    <3>1. Operating' => decoder_trigger /\ cur' = insn'
      BY <2>1, LaunchedBy DEF Operating, Launch, FetchHands
    <3> QED BY <1>1, <1>2, <2>1, <3>1, LaunchedIs DEF LongInv
  <2>2. CASE cpu_state # "fetch"
    BY <1>1, <1>2, <2>2, SteppingKinds DEF LoadHands, ComputeHands, DataHands, LongInv, Operating, LoadingOperands
  <2> QED BY <2>1, <2>2
<1>4. HasSuccessor' => dec'.long
  <2>1. CASE mem_do_rinst /\ mem_done(i) /\ ~latched_branch'
    BY <1>1, <1>2, <2>1, Arrives, LongRead
  <2>2. CASE ~(mem_do_rinst /\ mem_done(i) /\ ~latched_branch')
    BY <1>1, <1>2, <2>2, Stays DEF LongInv
  <2> QED BY <2>1, <2>2
<1> QED BY <1>3, <1>4

\* The low bit of the address outlasts a step over a long instruction.
LEMMA OddBehind ==
    ASSUME NEW a \in HalfAddr
    PROVE  Unaligned(Plus(a, 2)) <=> Unaligned(a)
<1>1. a \in Nat /\ WORDS \in Nat \ {0} /\ a < 2*WORDS
  BY WordsAssumption DEF HalfAddr
<1>2. CASE WORDS = 1
  <2>1. Plus(a, 2) = a
    BY <1>1, <1>2 DEF Plus
  <2> QED BY <2>1
<1>3. CASE WORDS # 1
  <2>1. Plus(a, 2) = IF a + 2 >= 2*WORDS THEN a + 2 - 2*WORDS ELSE a + 2
    BY <1>1, <1>3 DEF Plus
  <2>2. PICK w \in Nat : a = 2*w \/ a = 2*w + 1
    <3>1. a \div 2 \in Nat /\ (a = 2 * (a \div 2) \/ a = 2 * (a \div 2) + 1)
      BY <1>1
    <3> QED BY <3>1
  <2>3. (a + 2) % 2 = a % 2
    BY <1>1
  <2>4. a + 2 >= 2*WORDS => (a + 2 - 2*WORDS) % 2 = a % 2
    BY <1>1, <2>2
  <2>5. Plus(a, 2) \in HalfAddr
    BY PlusType
  <2> QED BY <2>1, <2>3, <2>4, <2>5 DEF Unaligned, Odd
<1> QED BY <1>2, <1>3

LEMMA NextOddInv ==
    ASSUME NEW i, Stepping(i), LongInv', cpu_state' # "trap"
    PROVE  OddInv'
<1>1. SUFFICES ASSUME ~COMPRESSED_ISA
               PROVE  OddInv'
  BY DEF OddInv, Unaligned
<1> DEFINE raises == CanRaise(irq_buserror)
<1>2. /\ Walking(i) /\ OddInv /\ LongInv /\ OrderInv /\ irq_state \in 0 .. 2
      /\ reg_pc \in HalfAddr /\ reg_next_pc \in HalfAddr /\ (cpu_state = "fetch" => current_pc \in HalfAddr)
      /\ irq_state = 1 => ~mem_do_rinst
  BY SteppingFacts, WalkingFacts DEF PcInv, ReqInv, EntryRequests
\* Whether the interrupt can be raised changes only in a handler's entry, in retirq
\* and in maskirq.
<1>3. ~LoadingOperands /\ irq_state # 1 => (raises' <=> raises)
  BY IrqKept DEF CanRaise
<1>4. LoadHands(i) /\ LoadEnds(i) /\ raises => raises' \/ (cpu_state' = "fetch" /\ ~latched_branch')
  <2>1. irq_active \in BOOLEAN
    BY SteppingFacts, WalkingFacts DEF TypeOK, IrqTypeOK
  <2> QED BY <2>1 DEF LoadEnds, CanRaise
<1>5. Operating => (Unaligned(reg_next_pc) <=> Unaligned(reg_pc))
  BY <1>1, <1>2, OddBehind DEF OrderInv, LongInv
\* Fetch.
<1>6. InFetch' /\ ~latched_branch' /\ irq_state' # 1 => (Unaligned(reg_pc') <=> Unaligned(reg_next_pc'))
  <2>1. CASE cpu_state = "fetch" /\ FetchHands(i)
    <3>1. CASE Launches /\ ~latched_branch'
      <4>1. reg_pc' = current_pc /\ reg_next_pc' = PcAfter(dec) /\ (decoder_trigger \/ do_waitirq)
        BY <2>1, <3>1 DEF FetchHands
      <4>2. dec.long /\ current_pc \in HalfAddr
        BY <1>1, <1>2, <2>1, <4>1, LaunchedIs DEF LongInv
      <4> QED BY <4>1, <4>2, OddBehind DEF PcAfter
    <3>2. CASE ~Launches
      BY <2>1, <3>2 DEF FetchHands
    <3> QED BY <3>1, <3>2
  <2>2. CASE cpu_state # "fetch"
    <3>1. KeepFetch /\ Operating
      BY <2>2, SteppingKinds DEF LoadHands, ComputeHands, DataHands, Operating, LoadingOperands
    <3> QED BY <1>5, <3>1 DEF KeepFetch
  <2> QED BY <2>1, <2>2, SteppingKinds DEF LoadingOperands
<1>7. InFetch' /\ latched_branch' /\ Unaligned(reg_pc') => raises'
  <2>1. SUFFICES ASSUME InFetch', latched_branch', Unaligned(reg_pc') PROVE raises'
    OBVIOUS
  <2>2. CASE cpu_state = "fetch" /\ FetchHands(i)
    <3>1. Launches /\ (decoder_trigger \/ do_waitirq) /\ reg_pc' = current_pc
      BY <2>1, <2>2 DEF FetchHands
    <3> QED BY <1>2, <1>3, <2>1, <2>2, <3>1, LaunchedIs DEF OddInv, LoadingOperands
  <2>3. CASE cpu_state # "fetch"
    <3>1. KeepFetch /\ Operating /\ (LoadingOperands => LoadHands(i) /\ LoadEnds(i)) /\ irq_state = 0
      BY <2>3, SteppingKinds, SteppingFacts DEF LoadHands, ComputeHands, DataHands, Operating, LoadingOperands
    <3>2. raises
      BY <1>2, <2>1, <3>1 DEF KeepFetch, OddInv
    <3> QED BY <1>3, <1>4, <2>1, <3>1, <3>2
  <2> QED BY <2>2, <2>3, SteppingKinds DEF LoadingOperands
\* Execution.
<1>8. Operating' /\ Unaligned(reg_pc') => raises'
  <2>1. SUFFICES ASSUME Operating', Unaligned(reg_pc') PROVE raises'
    OBVIOUS
  <2>2. CASE cpu_state = "fetch"
    <3>1. decoder_trigger /\ reg_pc' = current_pc
      BY <2>1, <2>2, LaunchedBy DEF Operating, Launch, FetchHands
    <3> QED BY <1>2, <1>3, <2>1, <2>2, <3>1, LaunchedIs DEF OddInv, LoadingOperands
  <2>3. CASE cpu_state # "fetch"
    <3>1. KeepFetch /\ Operating /\ (LoadingOperands => LoadHands(i) /\ LoadEnds(i)) /\ irq_state = 0
      BY <2>3, SteppingKinds, SteppingFacts DEF LoadHands, ComputeHands, DataHands, Operating, LoadingOperands
    <3>2. raises
      BY <1>2, <2>1, <3>1 DEF KeepFetch, OddInv
    <3> QED BY <1>3, <1>4, <2>1, <3>1, <3>2 DEF Operating
  <2> QED BY <2>2, <2>3
\* The successor.
<1>9. HasSuccessor' /\ Unaligned(reg_next_pc') => raises'
  <2>1. SUFFICES ASSUME HasSuccessor', Unaligned(reg_next_pc') PROVE raises'
    OBVIOUS
  <2>2. CASE mem_do_rinst /\ mem_done(i) /\ ~latched_branch'
    <3>1. ~latched_branch /\ reg_next_pc' = reg_next_pc /\ irq_state # 1 /\ ~LoadingOperands
      BY <1>2, <2>2, Arrives, WalkingFacts DEF next_pc, FetchPhase, LoadingOperands
    <3>2. Unaligned(reg_pc)
      BY <1>2, <1>5, <2>1, <3>1, SteppingFacts, SteppingKinds DEF OddInv, Operating, InFetch, LoadingOperands
    <3>3. raises
      BY <1>1, <2>2, <3>2, FinishedOrMisaligned DEF Misaligned, Unaligned
    <3> QED BY <1>3, <3>1, <3>3
  <2>3. CASE ~(mem_do_rinst /\ mem_done(i) /\ ~latched_branch')
    <3>1. HasSuccessor /\ reg_next_pc' = reg_next_pc /\ irq_state = 0 /\ ~LoadingOperands
      BY <1>2, <2>1, <2>3, Stays DEF LoadingOperands
    <3> QED BY <1>2, <1>3, <2>1, <3>1 DEF OddInv
  <2> QED BY <2>2, <2>3
<1> QED BY <1>6, <1>7, <1>8, <1>9 DEF OddInv

-----------------------------------------------------------------------------
(* The invariant                                                           *)

LEMMA InitIsa == Init => IsaInv
<1> SUFFICES ASSUME Init PROVE IsaInv
  OBVIOUS
<1>1. /\ cpu_state = "fetch" /\ ~decoder_trigger /\ ~do_waitirq /\ ~latched_branch /\ irq_state = 0 /\ mem_state = 0
      /\ reg_pc = reg_next_pc /\ ~DataAsked /\ dec.op = "other"
  BY DEF Init, DataAsked, NoInsn
<1>2. OrderInv /\ ClassInv /\ AccessInv /\ EntryInv
  BY <1>1 DEF OrderInv, ClassInv, AccessInv, EntryInv, Operating
<1>3. LongInv /\ OddInv
  BY <1>1 DEF LongInv, OddInv, Operating, HasSuccessor, Behind
<1> QED BY <1>1, <1>2, <1>3 DEF IsaInv

LEMMA ResetIsa ==
    ASSUME IsaInv, NEW i, Reset(i)
    PROVE  IsaInv'
<1>1. /\ cpu_state' = "fetch" /\ ~decoder_trigger' /\ ~do_waitirq' /\ ~latched_branch' /\ irq_state' = 0
      /\ mem_state' = 0 /\ reg_pc' = reg_next_pc' /\ ~DataAsked' /\ dec' = dec
  BY DEF Reset, ResetState, MemReset, DataAsked
<1>2. OrderInv' /\ ClassInv' /\ AccessInv' /\ EntryInv'
  BY <1>1 DEF OrderInv, ClassInv, AccessInv, EntryInv, Operating
<1>3. LongInv' /\ OddInv'
  BY <1>1 DEF LongInv, OddInv, Operating, HasSuccessor, Behind, InFetch
<1> QED BY <1>1, <1>2, <1>3 DEF IsaInv

\* What every reachable state satisfies besides IsaInv.
Reached == TypeOK /\ ReqInv /\ Decoded /\ Control /\ MemInv /\ PathInv

LEMMA ReachedInvariant == Spec => []Reached
BY TypeCorrect, ReqInvariant, DecodedInvariant, ControlInvariant, MemInvariant, PathInvariant, PTL DEF Reached

LEMMA ClockSteps ==
    ASSUME Reached, IsaInv, NEW i \in Inputs, Clock(i), cpu_state # "trap"
    PROVE  Stepping(i)
<1>1. InputOK(i)
  BY InputsOK DEF Reached, TypeOK
<1> QED BY <1>1, ClockMoves, LaunchMoves DEF Stepping, Walking, Running, Clock, Reached

LEMMA TrappedOnly ==
    ASSUME Reached, NEW i \in Inputs, Clock(i), cpu_state = "trap"
    PROVE  Trapped(i) /\ cpu_state' = "trap"
<1>1. InputOK(i)
  BY InputsOK DEF Reached, TypeOK
<1>2. Trapped(i)
  BY <1>1, FetchOutcome, LoadFacts DEF Reached, Clock, ExecuteStep, LoadingOperands,
     ExecWait, ExecBranch, ExecAlu, Exec, Shift, StMem, LdMem, DataState
<1> QED BY <1>2 DEF Trapped, Finish, Default

LEMMA ClockIsa ==
    ASSUME Reached, Reached', IsaInv, NEW i \in Inputs, Clock(i)
    PROVE  IsaInv'
<1>1. CASE cpu_state # "trap"
  <2>1. Stepping(i) /\ ReqInv'
    BY <1>1, ClockSteps DEF Reached
  <2> QED BY <2>1, NextOrder, NextClass, NextAccess, NextEntry, NextLong, NextOddInv DEF IsaInv
<1>2. CASE cpu_state = "trap"
  <2>1. Trapped(i) /\ cpu_state' = "trap"
    BY <1>2, TrappedOnly
  <2>2. dec'.op = "waitirq" => ENABLE_IRQ
    BY <2>1, WaitirqDecoded DEF IsaInv, Trapped, Finish
  <2> QED BY <2>1, <2>2 DEF IsaInv
<1> QED BY <1>1, <1>2

LEMMA StutterIsa ==
    ASSUME IsaInv, UNCHANGED vars
    PROVE  IsaInv'
<1>1. /\ UNCHANGED <<cpu_state, doVars, pcVars, latchedVars, decVars, misaligned, irqVars, histVars>>
      /\ UNCHANGED memVars
  BY DEF vars, coreVars
<1>2. /\ UNCHANGED <<mem_do_prefetch, mem_do_rdata, mem_do_wdata, reg_pc, reg_next_pc, latched_branch, latched_rd>>
      /\ UNCHANGED <<dec, decoder_trigger, irq_mask, irq_active, irq_delay, irq_state, do_waitirq>>
      /\ UNCHANGED <<cur, accesses, mem_state, mem_rdata_q>>
  BY <1>1 DEF doVars, pcVars, latchedVars, decVars, irqVars, histVars, memVars
<1>3. UNCHANGED <<Operating, DataAsked, InFetch, Behind, CanRaise(irq_buserror)>>
  BY <1>1, <1>2 DEF Operating, DataAsked, InFetch, Behind, CanRaise
<1>4. UNCHANGED HasSuccessor
  BY <1>2, <1>3 DEF HasSuccessor
<1>5. cpu_state # "trap" => OrderInv' /\ ClassInv' /\ AccessInv' /\ EntryInv'
  BY <1>1, <1>2, <1>3 DEF IsaInv, OrderInv, ClassInv, AccessInv, EntryInv
<1>6. cpu_state # "trap" => LongInv' /\ OddInv'
  BY <1>1, <1>2, <1>3, <1>4 DEF IsaInv, LongInv, OddInv
<1> QED BY <1>1, <1>2, <1>5, <1>6 DEF IsaInv

LEMMA IsaInvariant == Spec => []IsaInv
<1>1. Reached /\ Reached' /\ IsaInv /\ [Next]_vars => IsaInv'
  BY ClockIsa, ResetIsa, StutterIsa DEF Next
<1> QED BY <1>1, InitIsa, ReachedInvariant, PTL DEF Spec

-----------------------------------------------------------------------------
(* The steps of the abstract machine                                       *)

\* Both machines number the parcels alike, and fetch from the same ones.
LEMMA SameAddresses ==
    ASSUME NEW a \in HalfAddr, NEW n \in Nat
    PROVE  /\ ISA!Addr = HalfAddr /\ ISA!NoPc = NoAddr /\ ISA!InsnAddr(a) = FetchAddr(a)
           /\ Plus(a, n) = (a + n) % (2*WORDS) /\ (Unaligned(a) => ISA!InsnAddr(a) # a)
<1>1. ISA!Addr = HalfAddr /\ ISA!NoPc = NoAddr
  BY DEF ISA!Addr, ISA!NoPc, HalfAddr, NoAddr
<1>2. ISA!InsnAddr(a) = FetchAddr(a)
  BY DEF ISA!InsnAddr, FetchAddr, WordOf
<1>3. Unaligned(a) => ISA!InsnAddr(a) # a
  <2>1. a \in Nat
    BY WordsAssumption DEF HalfAddr
  <2>2. a % 2 = 1 => 2 * (a \div 2) # a
    BY <2>1
  <2> QED BY <2>2 DEF Unaligned, Odd, ISA!InsnAddr
<1> QED BY <1>1, <1>2, <1>3 DEF Plus

\* The entry into a handler begins where an instruction would.
LEMMA InterruptStep ==
    ASSUME NEW i, Stepping(i), FetchInterrupt(i)
    PROVE  ISA!Interrupt
<1>1. /\ cpu_state = "fetch" /\ irq_state = 0 /\ irq_state' = 1 /\ ENABLE_IRQ /\ decoder_trigger
      /\ ~irq_active /\ ~irq_delay /\ reg_next_pc' = current_pc
      /\ irq_active' = irq_active /\ irq_delay' = irq_delay
  BY DEF FetchInterrupt, FetchHead, InterruptTaken
<1>2. ~mem_do_rinst /\ ~mem_do_rdata /\ ~mem_do_wdata
  BY <1>1, SteppingFacts, WalkingFacts DEF ReqInv, FetchRequests, DataRequests, Fetching
<1>3. cpu_state' = "fetch" /\ ~latched_branch' /\ ~latched_store'
  BY <1>1, <1>2 DEF FetchInterrupt, Finish, Fetched, Default, Misaligned
<1>4. current_pc' = PROGADDR_IRQ
  BY <1>1, <1>3 DEF current_pc
<1> QED BY <1>1, <1>3, <1>4 DEF ISA!Interrupt, InFetch, Halted

\* The rest of the entry, and waiting for an instruction or for an interrupt, is
\* not seen.
LEMMA UnseenFetch ==
    ASSUME NEW i, Stepping(i), cpu_state' # "trap",
           FetchSaveReturn(i) \/ FetchSaveMask(i) \/ FetchIdle(i) \/ (FetchWaitirq(i) /\ ~Launches)
    PROVE  UNCHANGED ISA!vars
<1>1. /\ FetchStep(i) /\ FetchHands(i) /\ cpu_state = "fetch" /\ ~Launches /\ EntryInv
      /\ irq_state \in 0 .. 2 /\ irq_active \in BOOLEAN /\ irq_delay \in BOOLEAN
      /\ irq_state # 0 => ENABLE_IRQ /\ ~latched_store /\ ~latched_branch
  <2>1. FetchStep(i)
    BY DEF FetchStep
  <2>2. FetchHands(i)
    BY <2>1, SteppingFacts, FetchHandsOn
  <2>3. ~Launches
    <3>1. irq_state # 0 => InterruptTaken
      BY SteppingFacts, WalkingFacts DEF ReqInv, EntryRequests, InterruptTaken
    <3> QED BY <3>1 DEF Launches, FetchSaveReturn, FetchSaveMask, FetchIdle, Waiting
  <2> QED BY <2>1, <2>2, <2>3, SteppingFacts, WalkingFacts DEF FetchHands, ReqInv, EntryRequests, TypeOK, IrqTypeOK
<1>2. /\ cpu_state' = "fetch" /\ reg_next_pc' = current_pc /\ ~latched_store' /\ ~latched_branch'
      /\ irq_state' # 1 /\ irq_delay' = irq_delay
  <2>1. irq_state' # 1 /\ irq_delay' = irq_delay
    BY <1>1 DEF FetchSaveReturn, FetchSaveMask, FetchIdle, FetchWaitirq, FetchTail, InterruptTaken
  <2> QED BY <1>1, <2>1 DEF FetchHands
<1>3. current_pc' = current_pc
  BY <1>2 DEF current_pc
<1>4. CASE irq_state = 1
  <2>1. FetchSaveReturn(i) /\ ~irq_active /\ latched_rd = rd_q0
    BY <1>1, <1>4 DEF FetchSaveMask, FetchIdle, FetchWaitirq, FetchTail, InterruptTaken, EntryInv
  <2>2. irq_active' = TRUE /\ q0'.at = reg_next_pc /\ ~irq_delay
    BY <1>1, <1>4, <2>1 DEF FetchSaveReturn, EntryInv
  <2> QED BY <1>1, <1>2, <1>3, <1>4, <2>1, <2>2 DEF ISA!vars, InFetch, Halted
<1>5. CASE irq_state # 1
  <2>1. irq_active' = irq_active /\ q0' = q0
    BY <1>1, <1>5 DEF FetchSaveReturn, FetchSaveMask, FetchIdle, FetchWaitirq, FetchTail
  <2> QED BY <1>1, <1>2, <1>3, <1>5, <2>1 DEF ISA!vars, InFetch, Halted
<1> QED BY <1>4, <1>5

\* jal and waitirq jump without leaving fetch.
LEMMA JumpStep ==
    ASSUME NEW i, Stepping(i), LaunchJal(i) \/ (FetchWaitirq(i) /\ Launches)
    PROVE  ISA!Jump
<1>1. /\ cpu_state = "fetch" /\ (decoder_trigger \/ do_waitirq) /\ ~InterruptTaken
      /\ irq_active' = irq_active /\ irq_state' = irq_state /\ q0' = q0
  BY DEF LaunchJal, FetchWaitirq, Waiting, FetchTail, FetchHead
<1>2. ~mem_do_rinst /\ ~mem_do_rdata /\ ~mem_do_wdata /\ irq_state = 0
      /\ dec.at = FetchAddr(current_pc) /\ current_pc \in HalfAddr /\ irq_delay \in BOOLEAN
  <2>1. Walking(i)
    BY SteppingFacts
  <2> QED BY <1>1, <2>1, AtLaunch, WalkingFacts DEF ReqInv, DataRequests, Fetching, TypeOK, IrqTypeOK
<1>3. CASE LaunchJal(i)
  <2>1. /\ cpu_state' = "fetch" /\ latched_branch' /\ ~latched_store' /\ reg_next_pc' = JumpTarget(dec)
        /\ irq_delay' = irq_active /\ dec.op = "jal"
    BY <1>1, <1>2, <1>3 DEF LaunchJal, Finish, Fetched, Default, Misaligned
  <2>2. current_pc' = dec.arg /\ dec.arg \in HalfAddr
    BY <1>2, <2>1, SteppingFacts, WalkingFacts, ParamAssumption DEF current_pc, JumpTarget, TypeOK, DecoderTypeOK
  <2> QED BY <1>1, <1>2, <2>1, <2>2, SameAddresses DEF ISA!Jump, InFetch, Halted
<1>4. CASE FetchWaitirq(i) /\ Launches
  <2>1. irq_pending # {}
    BY <1>1, <1>4 DEF Launches, FetchWaitirq
  <2>2. /\ cpu_state' = "fetch" /\ ~latched_branch' /\ latched_store' /\ reg_next_pc' = PcAfter(dec)
        /\ irq_delay' = irq_delay
    BY <1>1, <1>2, <1>4, <2>1 DEF FetchWaitirq, Finish, Fetched, Default, Misaligned
  <2>3. current_pc' = (current_pc + IF dec.long THEN 2 ELSE 1) % (2*WORDS)
    BY <1>2, <2>2, SameAddresses DEF current_pc, PcAfter
  <2> QED BY <1>1, <1>2, <2>2, <2>3 DEF ISA!Jump, ISA!Behind, InFetch, Halted
<1> QED BY <1>3, <1>4

LEMMA BeginStep ==
    ASSUME NEW i, Stepping(i), TypeOK', Launch(i), cpu_state' # "trap"
    PROVE  ISA!Begin
<1>1. /\ cpu_state = "fetch" /\ decoder_trigger /\ ~InterruptTaken /\ ~Waiting /\ dec.op # "jal"
      /\ irq_active' = irq_active /\ irq_state' = irq_state /\ q0' = q0 /\ irq_delay' = irq_active
  BY DEF Launch, FetchTail, FetchHead
<1>2. FetchHands(i) /\ Launches /\ cpu_state' = "ld_rs1"
  <2>1. FetchStep(i)
    BY DEF FetchStep
  <2>2. FetchHands(i) /\ cpu_state' # "fetch"
    BY <2>1, SteppingFacts, FetchHandsOn, WalkingFacts, FetchFacts
  <2> QED BY <1>1, <2>2 DEF FetchHands, Launches
<1>3. cur' = insn' /\ reg_pc' = current_pc /\ accesses' = 0 /\ History
  BY <1>2, SteppingFacts DEF FetchHands, Walking, History
<1>4. /\ insn'.at = FetchAddr(current_pc) /\ current_pc \in HalfAddr /\ dec' = dec /\ Matches' /\ irq_state = 0
  BY <1>1, LaunchedIs DEF Same
<1>5. insn'.op \notin {"jal", "waitirq"}
  <2>1. dec.op # "waitirq"
    BY <1>1, SteppingFacts DEF Waiting
  <2> QED BY <1>1, <1>4, <2>1 DEF Matches, Stage2Ops
<1>6. cur' \in Insn
  BY DEF TypeOK, HistTypeOK
<1> QED BY <1>1, <1>2, <1>3, <1>4, <1>5, <1>6, SameAddresses, SteppingFacts, WalkingFacts
        DEF ISA!Begin, InFetch, Halted, TypeOK, IrqTypeOK

\* A fetch traps only at a misaligned address.
LEMMA FetchTrapStep ==
    ASSUME NEW i, Stepping(i), FetchStep(i), cpu_state' = "trap"
    PROVE  ISA!Trap
<1>1. /\ cpu_state = "fetch" /\ ~mem_do_rdata /\ ~mem_do_wdata /\ OddInv
      /\ irq_active \in BOOLEAN /\ irq_state \in 0 .. 2 /\ reg_next_pc \in HalfAddr
  BY SteppingFacts, WalkingFacts, FetchFacts DEF TypeOK, IrqTypeOK, PcInv
<1>2. Misaligned /\ ~CanRaise(irq_buserror)
  BY <1>1 DEF FetchStep, FetchInterrupt, FetchSaveReturn, FetchSaveMask, FetchWaitirq, LaunchJal, Launch, FetchIdle,
              Finish, Fetched, Default
<1>3. mem_do_rinst /\ Unaligned(reg_pc)
  BY <1>1, <1>2 DEF Misaligned, Unaligned
<1>4. ~decoder_trigger /\ ~do_waitirq /\ irq_state # 1 /\ (irq_state # 0 => ENABLE_IRQ)
  BY <1>3, SteppingFacts, WalkingFacts DEF ReqInv, FetchRequests, EntryRequests, FetchPhase, Fetching
<1>5. FetchSaveMask(i) \/ FetchIdle(i)
  BY <1>4 DEF FetchStep, FetchInterrupt, FetchSaveReturn, FetchWaitirq, LaunchJal, Launch, Waiting, InterruptTaken
<1>6. irq_active' = irq_active /\ irq_delay' = irq_delay /\ q0' = q0 /\ irq_state' = 0
  BY <1>1, <1>4, <1>5 DEF FetchSaveMask, FetchIdle, FetchTail, InterruptTaken
<1>7. Unaligned(current_pc) /\ current_pc = reg_next_pc
  BY <1>1, <1>2, <1>3, <1>4 DEF OddInv, InFetch, current_pc
<1> QED BY <1>1, <1>4, <1>6, <1>7, SameAddresses DEF ISA!Trap, InFetch, Halted

\* What is common to the cycles outside fetch.
LEMMA ExecuteFacts ==
    ASSUME NEW i, Stepping(i), TypeOK', Operating
    PROVE  /\ reg_pc' = reg_pc /\ reg_next_pc' = reg_next_pc /\ q0' = q0 /\ irq_delay' = irq_delay /\ cur' = cur
           /\ irq_state = 0 /\ irq_state' = 0 /\ (irq_delay <=> irq_active) /\ ~Launches
           /\ reg_next_pc = (reg_pc + IF cur.long THEN 2 ELSE 1) % (2*WORDS)
           /\ irq_active \in BOOLEAN /\ irq_active' \in BOOLEAN
           /\ ~InFetch /\ ~Halted /\ (Operating' <=> ~InFetch' /\ ~Halted')
           /\ irq_active' # irq_active => cur.op = "retirq" /\ InFetch'
           /\ \/ LoadHands(i) /\ ~latched_stalu' /\ LoadEnds(i) /\ LoadingOperands /\ insn = cur
              \/ ComputeHands(i) /\ ComputeEnds(i) /\ cpu_state \in {"exec", "shift"} /\ insn = cur
              \/ DataHands(i) /\ DataEnds(i) /\ cpu_state \in {"stmem", "ldmem"}
<1>1. /\ \/ LoadHands(i) /\ ~latched_stalu' /\ LoadEnds(i) /\ LoadingOperands /\ insn = cur
         \/ ComputeHands(i) /\ ComputeEnds(i) /\ cpu_state \in {"exec", "shift"} /\ insn = cur
         \/ DataHands(i) /\ DataEnds(i) /\ cpu_state \in {"stmem", "ldmem"}
      /\ cpu_state # "fetch" /\ cpu_state # "trap"
  BY SteppingKinds, SteppingFacts, HandsOn DEF Operating, LoadingOperands, FetchHands, ComputeHands, DataHands
<1>2. KeepFetch /\ cur' = cur /\ ~Launches
  BY <1>1 DEF LoadHands, ComputeHands, DataHands, Launches
<1>3. irq_state = 0 /\ (irq_delay <=> irq_active) /\ reg_next_pc = (reg_pc + IF cur.long THEN 2 ELSE 1) % (2*WORDS)
  BY <1>1, SteppingFacts, WalkingFacts, SameAddresses DEF OrderInv, PcInv
<1>4. irq_active \in BOOLEAN /\ irq_active' \in BOOLEAN /\ cpu_state' \in States
  BY SteppingFacts, WalkingFacts DEF TypeOK, IrqTypeOK, StateTypeOK
<1>5. irq_active' # irq_active => cur.op = "retirq" /\ InFetch'
  <2>1. CASE LoadingOperands
    BY <1>1, <1>4, <2>1 DEF LoadEnds, LoadingOperands, InFetch
  <2>2. CASE ~LoadingOperands
    BY <1>3, <2>2, IrqKept
  <2> QED BY <2>1, <2>2
<1> QED BY <1>1, <1>2, <1>3, <1>4, <1>5 DEF KeepFetch, States, Operating, InFetch, Halted

\* An access is counted when it starts, and only a load or store starts one.
LEMMA WorkStep ==
    ASSUME NEW i, Stepping(i), TypeOK', Operating, ~InFetch', ~Halted'
    PROVE  ISA!Access \/ UNCHANGED ISA!vars
<1>1. /\ reg_pc' = reg_pc /\ cur' = cur /\ irq_state = 0 /\ irq_state' = 0 /\ q0' = q0 /\ ~Launches
      /\ irq_active' = irq_active /\ irq_delay' = irq_delay /\ ~InFetch /\ ~Halted
  BY ExecuteFacts
<1>2. ClassInv /\ AccessInv /\ History /\ ReqInv
  BY SteppingFacts, WalkingFacts DEF Walking
<1>3. CASE StartsAccess
  <2>1. accesses = 0 /\ accesses' = 1
    BY <1>1, <1>2, <1>3 DEF History, StartsAccess, AccessInv
  <2>2. cur.op \in {"load", "store"}
    BY <1>1, <1>2, <1>3 DEF StartsAccess, ReqInv, DataRequests, ClassInv, Halted
  <2> QED BY <1>1, <2>1, <2>2 DEF ISA!Access, ISA!IsAccess
<1>4. CASE ~StartsAccess
  BY <1>1, <1>2, <1>4 DEF History, ISA!vars
<1> QED BY <1>3, <1>4

\* An instruction leaves for fetch with its successor's address, or its target, and
\* with its access made.
LEMMA RetireStep ==
    ASSUME NEW i, Stepping(i), TypeOK', Operating, InFetch'
    PROVE  ISA!Retire
<1>1. /\ reg_pc' = reg_pc /\ reg_next_pc' = reg_next_pc /\ q0' = q0 /\ irq_delay' = irq_delay
      /\ irq_state = 0 /\ irq_state' = 0 /\ (irq_delay <=> irq_active)
      /\ reg_next_pc = (reg_pc + IF cur.long THEN 2 ELSE 1) % (2*WORDS)
      /\ irq_active \in BOOLEAN /\ irq_active' \in BOOLEAN /\ ~InFetch /\ ~Halted /\ ~Halted'
  BY ExecuteFacts DEF InFetch, Halted
<1>2. ClassInv /\ AccessInv
  BY SteppingFacts
<1> DEFINE behind == (reg_pc + IF cur.long THEN 2 ELSE 1) % (2*WORDS)
           target == CASE cur.op = "jalr"                            -> cur.arg
                       [] cur.op = "branch" /\ cur.arg \in HalfAddr  -> cur.arg
                       [] cur.op = "retirq"                          -> q0.at
                       [] OTHER                                      -> behind
<1>3. CASE LoadHands(i) /\ ~latched_stalu' /\ LoadEnds(i) /\ insn = cur
  <2>1. current_pc' = target
    BY <1>1, <1>3 DEF LoadHands, LoadEnds, InFetch, current_pc
  <2>2. (irq_active' <=> irq_active /\ cur.op # "retirq") /\ cur.op \notin {"load", "store"}
    BY <1>3 DEF LoadEnds, InFetch
  <2> QED BY <1>1, <2>1, <2>2
        DEF ISA!Retire, ISA!NextPc, ISA!Behind, ISA!IsAccess, ISA!Addr, HalfAddr
<1>4. CASE ComputeHands(i) /\ ComputeEnds(i) /\ cpu_state \in {"exec", "shift"} /\ insn = cur
  <2>1. cur.op \notin {"load", "store", "retirq"}
    BY <1>2, <1>4 DEF ClassInv
  <2>2. cur.op = "branch" => (cur.arg # NotTaken <=> cur.arg \in HalfAddr)
    <3>1. Targets \subseteq HalfAddr /\ NotTaken \notin HalfAddr
      BY ParamAssumption, WordsAssumption DEF NotTaken, NoAddr, HalfAddr
    <3>2. cur.op = "branch" => cur.arg \in Targets \cup {NotTaken}
      BY <1>4, SteppingFacts, WalkingFacts DEF TypeOK, DecoderTypeOK, Args
    <3> QED BY <3>1, <3>2
  <2>3. current_pc' = target
    BY <1>1, <1>4, <2>1, <2>2 DEF ComputeEnds, InFetch, current_pc
  <2>4. irq_active' = irq_active
    BY <2>1, ExecuteFacts
  <2> QED BY <1>1, <2>1, <2>3, <2>4 DEF ISA!Retire, ISA!NextPc, ISA!Behind, ISA!IsAccess, ISA!Addr, HalfAddr
<1>5. CASE DataHands(i) /\ DataEnds(i) /\ cpu_state \in {"stmem", "ldmem"}
  <2>1. cur.op \in {"load", "store"}
    BY <1>2, <1>5 DEF ClassInv
  <2>2. DataAsked /\ mem_done(i)
    BY <1>1, <1>5 DEF DataEnds, InFetch
  <2>3. accesses = 1
    BY <1>2, <2>2, SteppingFacts, WalkingFacts, WhenDone DEF AccessInv
  <2>4. current_pc' = target
    BY <1>1, <1>5, <2>1 DEF DataHands, current_pc
  <2>5. irq_active' = irq_active
    BY <2>1, ExecuteFacts
  <2> QED BY <1>1, <2>1, <2>3, <2>4, <2>5 DEF ISA!Retire, ISA!NextPc, ISA!Behind, ISA!IsAccess, ISA!Addr, HalfAddr
<1> QED BY <1>3, <1>4, <1>5, ExecuteFacts

\* An instruction traps only for a fault of its own.
LEMMA ExecuteTrapStep ==
    ASSUME NEW i, Stepping(i), TypeOK', Operating, Halted'
    PROVE  ISA!Trap
<1>1. /\ q0' = q0 /\ irq_delay' = irq_delay /\ irq_state = 0 /\ irq_state' = 0 /\ irq_active' = irq_active
      /\ ~InFetch /\ ~Halted /\ ~InFetch'
  BY ExecuteFacts DEF InFetch, Halted
<1>2. cur.op \in {"ebreak", "pcpi"} \/ (cur.op \in {"load", "store"} /\ cur.arg = 1)
  BY ExecuteFacts, SteppingFacts DEF LoadEnds, ComputeEnds, DataEnds, IsTrap, ClassInv, AccessInv, Halted
<1>3. ISA!NoPc = NoAddr
  BY DEF ISA!NoPc, NoAddr
<1> QED BY <1>1, <1>2, <1>3 DEF ISA!Trap, ISA!Faulty, ISA!IsAccess

LEMMA ResetStep ==
    ASSUME Reached, NEW i, Reset(i)
    PROVE  ISA!Reset
<1>1. /\ cpu_state' = "fetch" /\ ~latched_branch' /\ irq_state' = 0 /\ reg_next_pc' = PROGADDR_RESET
      /\ ~irq_active' /\ ~irq_delay' /\ q0' = q0
  BY DEF Reset, ResetState
<1>2. current_pc' = PROGADDR_RESET
  BY <1>1 DEF current_pc
<1>3. q0.at \in ISA!Addr
  BY DEF Reached, PathInv, PcInv, ISA!Addr, HalfAddr
<1> QED BY <1>1, <1>2, <1>3 DEF ISA!Reset, InFetch, Halted

LEMMA ClockStep ==
    ASSUME Reached, Reached', IsaInv, NEW i \in Inputs, Clock(i)
    PROVE  ISA!Next \/ UNCHANGED ISA!vars
<1> USE DEF ISA!Next
<1>1. TypeOK'
  BY DEF Reached
<1>2. CASE cpu_state = "fetch"
  <2>1. Stepping(i) /\ FetchStep(i)
    <3>1. Stepping(i)
      BY <1>2, ClockSteps
    <3> QED BY <1>2, <3>1, SteppingKinds DEF LoadingOperands
  <2>2. CASE cpu_state' = "trap"
    BY <2>1, <2>2, FetchTrapStep
  <2>3. CASE cpu_state' # "trap"
    BY <1>1, <2>1, <2>3, InterruptStep, UnseenFetch, JumpStep, BeginStep DEF FetchStep
  <2> QED BY <2>2, <2>3
<1>3. CASE Operating
  <2>1. Stepping(i)
    BY <1>3, ClockSteps DEF Operating
  <2> QED BY <1>1, <1>3, <2>1, WorkStep, RetireStep, ExecuteTrapStep
<1>4. CASE cpu_state = "trap"
  <2>1. cpu_state' = "trap" /\ Trapped(i)
    BY <1>4, TrappedOnly
  <2>2. /\ irq_active' = irq_active /\ irq_delay' = irq_delay /\ irq_state' = irq_state
        /\ q0' = q0 /\ reg_next_pc' = reg_next_pc
    BY <2>1 DEF Trapped, KeepFetch, KeepIrq
  <2> QED BY <1>4, <2>1, <2>2 DEF ISA!vars, InFetch, Halted
<1>5. cpu_state \in States
  BY DEF Reached, TypeOK, StateTypeOK
<1> QED BY <1>2, <1>3, <1>4, <1>5 DEF States, Operating

\* Nothing that is seen is outside the state of the core.
LEMMA StutterStep ==
    ASSUME UNCHANGED vars
    PROVE  UNCHANGED ISA!vars
<1>1. UNCHANGED <<cpu_state, reg_out, pcVars, latchedVars, aluVars, irqVars, histVars>>
  BY DEF vars, coreVars
<1>2. /\ UNCHANGED <<reg_pc, reg_next_pc, latched_store, latched_stalu, latched_branch, alu_out_q>>
      /\ UNCHANGED <<irq_active, irq_delay, irq_state, q0, cur, accesses>>
  BY <1>1 DEF pcVars, latchedVars, aluVars, irqVars, histVars
<1>3. UNCHANGED <<current_pc, InFetch, Halted>>
  BY <1>1, <1>2 DEF current_pc, InFetch, Halted
<1> QED BY <1>2, <1>3 DEF ISA!vars

LEMMA InitStep == Init => ISA!Init
<1> SUFFICES ASSUME Init PROVE ISA!Init
  OBVIOUS
<1>1. current_pc = PROGADDR_RESET
  BY DEF Init, current_pc
<1>2. PROGADDR_RESET \in ISA!Addr
  BY ParamAssumption DEF ISA!Addr, HalfAddr
<1> QED BY <1>1, <1>2 DEF Init, ISA!Init, InFetch, Halted

\* The core implements the abstract machine in every configuration: prefetching,
\* the compressed ISA, the split decoder, multi-cycle ALUs, co-processors, faults
\* and interrupts at any cycle show as whole instructions one after the other.
THEOREM ImplementsIsa == Spec => ISASpec
<1>1. Reached /\ Reached' /\ IsaInv /\ [Next]_vars => [ISA!Next]_(ISA!vars)
  <2>1. ASSUME Reached, Reached', IsaInv, Next PROVE ISA!Next \/ UNCHANGED ISA!vars
    <3>1. PICK i \in Inputs : Clock(i) \/ Reset(i)
      BY <2>1 DEF Next
    <3>2. CASE Clock(i)
      BY <2>1, <3>2, ClockStep
    <3>3. CASE Reset(i)
      BY <2>1, <3>3, ResetStep DEF ISA!Next
    <3> QED BY <3>1, <3>2, <3>3
  <2> QED BY <2>1, StutterStep
<1> QED BY <1>1, InitStep, ReachedInvariant, IsaInvariant, PTL DEF Spec, ISASpec, ISA!Spec

-----------------------------------------------------------------------------
(* Part three: an instruction that raises interrupt 1 is served by the next*)
(* handler, and the handler finds what was executed before it.             *)

\* Software without compressed instructions jumps to whole words only; the return
\* register then does not hold half of one either.
AlignedJumps == \A a \in Targets \cup {PROGADDR_RESET, PROGADDR_IRQ} : ~Unaligned(a)

EvenInv ==
    /\ ~Unaligned(reg_pc) /\ ~Unaligned(reg_next_pc) /\ ~Unaligned(q0.at)
    /\ InFetch => ~Unaligned(current_pc)

\* The interrupt of ecall and ebreak waits in fetch until it is taken.
ServedInv ==
    /\ MASKED_IRQ \subseteq irq_mask
    /\ irq_state = 2 => irq_active
    /\ LoadingOperands /\ pcpi_valid => insn.op # "ebreak"
    /\ InFetch /\ cur.op = "ebreak" /\ irq_state = 0 /\ ~irq_active =>
          /\ ENABLE_IRQ /\ irq_ebreak \in irq_pending \ irq_mask
          /\ ~irq_delay /\ ~do_waitirq

\* While one that may fault is the last that was executed, the return address is the
\* one behind it and the length still its own.
MayFault == cur.op \in {"ebreak", "load", "store"}
BehindFault ==
    /\ cur.at \in HalfAddr /\ ~latched_branch
    /\ reg_next_pc = Plus(cur.at, IF cur.long THEN 2 ELSE 1) /\ latched_compr = ~cur.long
FoundInv ==
    /\ do_waitirq => ~decoder_trigger
    /\ InFetch /\ irq_state # 2 /\ ~irq_active /\ ~do_waitirq /\ MayFault =>
          /\ BehindFault
          /\ decoder_trigger \/ irq_state = 1 \/ (cur.op = "ebreak" /\ dec.long = cur.long)
    /\ FaultIsFound

FaultInv == EvenInv /\ ServedInv /\ FoundInv

\* One address in front of another is told by the distance.
LEMMA BehindOnce ==
    ASSUME NEW a \in HalfAddr, NEW b \in HalfAddr, NEW n \in {1, 2}, Plus(a, n) = Plus(b, n)
    PROVE  a = b
<1>1. a \in Nat /\ b \in Nat /\ WORDS \in Nat \ {0} /\ a < 2*WORDS /\ b < 2*WORDS
  BY WordsAssumption DEF HalfAddr
<1>2. (a + n) % (2*WORDS) = (b + n) % (2*WORDS)
  BY DEF Plus
<1>3. CASE WORDS = 1
  <2>1. (a = 0 \/ a = 1) /\ (b = 0 \/ b = 1)
    BY <1>1, <1>3
  <2>2. (a + n) % 2 = (b + n) % 2
    BY <1>2, <1>3
  <2> QED BY <2>1, <2>2
<1>4. CASE WORDS # 1
  <2>1. ASSUME NEW c \in Nat, c < 2*WORDS
        PROVE  (c + n) % (2*WORDS) = IF c + n >= 2*WORDS THEN c + n - 2*WORDS ELSE c + n
    <3> DEFINE size == 2*WORDS
    <3>1. c + n \in Nat /\ c + n < 2*size /\ size \in Nat \ {0}
      BY <1>1, <1>4, <2>1
    <3> HIDE DEF size
    <3>2. (c + n) % size = IF c + n >= size THEN c + n - size ELSE c + n
      BY <3>1
    <3> QED BY <3>2 DEF size
  <2> QED BY <1>1, <1>2, <2>1
<1> QED BY <1>3, <1>4

LEMMA HandlerFinds ==
    ASSUME NEW a \in HalfAddr, NEW q, q.at = Plus(a, IF q.lsb THEN 1 ELSE 2)
    PROVE  handler_pc(q) = a
<1>1. \A b \in HalfAddr : Plus(b, IF q.lsb THEN 1 ELSE 2) = q.at => b = a
  BY BehindOnce
<1> QED BY <1>1 DEF handler_pc

LEMMA NextEven ==
    ASSUME AlignedJumps, EvenInv, NEW i, Stepping(i)
    PROVE  EvenInv'
<1>1. CASE cpu_state = "fetch"
  <2>1. FetchHands(i) /\ ~Unaligned(current_pc) /\ ~Unaligned(PROGADDR_IRQ)
    BY <1>1, SteppingKinds DEF LoadingOperands, EvenInv, InFetch, AlignedJumps
  <2>2. ~Unaligned(reg_next_pc')
    <3>1. CASE Launches
      <4>1. decoder_trigger \/ do_waitirq
        BY <2>1, <3>1 DEF FetchHands
      <4>2. CASE reg_next_pc' = PcAfter(dec)
        <5>1. ~COMPRESSED_ISA => reg_next_pc' = Plus(reg_next_pc, 2)
          BY <1>1, <4>1, <4>2, LaunchedIs, SteppingFacts DEF PcAfter, LongInv
        <5> QED BY <1>1, <4>1, <5>1, LaunchedIs, OddBehind DEF EvenInv, Unaligned
      <4>3. CASE dec.op = "jal" /\ reg_next_pc' = JumpTarget(dec)
        <5>1. JumpTarget(dec) = dec.arg /\ dec.arg \in Targets
          BY <1>1, <4>1, <4>3, AtLaunch, SteppingFacts, WalkingFacts DEF TypeOK, DecoderTypeOK
        <5> QED BY <4>3, <5>1 DEF AlignedJumps
      <4> QED BY <2>1, <3>1, <4>2, <4>3 DEF FetchHands
    <3>2. CASE ~Launches
      BY <2>1, <3>2 DEF FetchHands
    <3> QED BY <3>1, <3>2
  <2>3. ~Unaligned(reg_pc') /\ ~Unaligned(q0'.at) /\ ~(latched_branch' /\ latched_store')
    BY <2>1 DEF FetchHands, EvenInv
  <2>4. ~Unaligned(current_pc')
    BY <2>1, <2>2, <2>3 DEF current_pc
  <2> QED BY <2>2, <2>3, <2>4 DEF EvenInv
<1>2. CASE cpu_state # "fetch"
  <2>1. \/ LoadHands(i) /\ ~latched_stalu' /\ LoadEnds(i)
        \/ ComputeHands(i) /\ ComputeEnds(i) /\ insn = cur
        \/ DataHands(i)
    BY <1>2, SteppingKinds, HandsOn, SteppingFacts
       DEF FetchHands, LoadHands, ComputeHands, DataHands, LoadingOperands
  <2>2. reg_pc' = reg_pc /\ reg_next_pc' = reg_next_pc /\ q0' = q0 /\ irq_state' = 0
    BY <1>2, <2>1, SteppingFacts DEF LoadHands, ComputeHands, DataHands, KeepFetch
  <2>3. ASSUME InFetch' PROVE ~Unaligned(current_pc')
    <3>1. CASE LoadHands(i) /\ ~latched_stalu'
      <4>1. current_pc' \in {q0.at, reg_next_pc}
        BY <2>2, <3>1 DEF LoadHands, current_pc
      <4> QED BY <4>1 DEF EvenInv
    <3>2. CASE ComputeHands(i) /\ ComputeEnds(i) /\ latched_branch'
      <4>1. insn.op = "jalr" \/ (insn.op = "branch" /\ insn.arg # NotTaken)
        BY <2>3, <3>2 DEF ComputeEnds, InFetch
      <4>2. insn.arg \in Targets
        BY <4>1, SteppingFacts, WalkingFacts DEF TypeOK, DecoderTypeOK, Args
      <4>3. current_pc' = insn.arg
        BY <2>3, <3>2 DEF ComputeEnds, InFetch, current_pc
      <4> QED BY <4>2, <4>3 DEF AlignedJumps
    <3>3. CASE ~latched_branch'
      BY <2>2, <3>3 DEF current_pc, EvenInv
    <3> QED BY <2>1, <3>1, <3>2, <3>3 DEF DataHands
  <2> QED BY <2>2, <2>3 DEF EvenInv
<1> QED BY <1>1, <1>2

\* Software cannot unmask what is masked for good.
LEMMA MaskKept ==
    ASSUME ServedInv, NEW i, Stepping(i)
    PROVE  MASKED_IRQ \subseteq irq_mask'
<1>1. CASE ~LoadingOperands /\ irq_state # 1
  BY <1>1, IrqKept DEF ServedInv
<1>2. CASE irq_state = 1
  <2>1. FetchStep(i)
    BY <1>2, SteppingKinds, SteppingFacts, WalkingFacts DEF LoadingOperands, ReqInv, EntryRequests
  <2>2. irq_mask' = irq_mask
    BY <2>1 DEF FetchStep, FetchInterrupt, FetchSaveReturn, FetchSaveMask, FetchHead, FetchTail,
                FetchWaitirq, LaunchJal, Launch, FetchIdle
  <2> QED BY <2>2 DEF ServedInv
<1>3. CASE LoadingOperands
  <2>1. LdRs1Step(i) \/ LdRs2Trap(i) \/ LdRs2Operands(i)
    BY <1>3, SteppingFacts, WalkingFacts, FetchFacts DEF Stepping, Walking, ExecuteStep, LoadingOperands,
       ExecWait, ExecBranch, ExecAlu, Exec, Shift, StMem, LdMem, DataState, Trapped
  <2>2. irq_mask' = irq_mask \/ irq_mask' \in {m \cup MASKED_IRQ : m \in IRQ_MASKS}
    BY <2>1 DEF LdRs1Step, LdRs1Trap, LdRs1Move, LdRs1Retirq, LdRs1Maskirq, LdRs1Timer, LdRs1Load,
       LdRs1ShiftImm, LdRs1Imm, LdRs1Rs2, LdRs2Trap, LdRs2Operands, Operands, KeepIrq
  <2> QED BY <2>2 DEF ServedInv
<1> QED BY <1>1, <1>2, <1>3

\* Only a jump or waitirq is launched without leaving fetch.
LEMMA LaunchedInFetch ==
    ASSUME NEW i, Stepping(i), cpu_state = "fetch", Launches, cpu_state' = "fetch"
    PROVE  cur' = insn' /\ cur'.op \in {"jal", "waitirq"}
<1>1. FetchStep(i) /\ FetchHands(i) /\ cur' = insn' /\ (decoder_trigger \/ do_waitirq)
  BY SteppingKinds DEF LoadingOperands, FetchHands
<1>2. LaunchJal(i) \/ FetchWaitirq(i)
  <2>1. ~Launch(i)
    BY <1>1, SteppingFacts, WalkingFacts, FetchFacts
  <2>2. ~FetchInterrupt(i) /\ ~FetchIdle(i)
    BY DEF Launches, FetchInterrupt, FetchIdle
  <2>3. ~FetchSaveReturn(i) /\ ~FetchSaveMask(i)
    BY <1>1, LaunchedIs DEF FetchSaveReturn, FetchSaveMask
  <2> QED BY <1>1, <2>1, <2>2, <2>3 DEF FetchStep
<1>3. dec.op \in {"jal", "waitirq"}
  BY <1>2 DEF LaunchJal, FetchWaitirq, Waiting
<1>4. dec' = dec /\ Matches'
  BY <1>1, LaunchedIs DEF Same
<1> QED BY <1>1, <1>3, <1>4 DEF Matches

\* ecall and ebreak go on to the second operand at most, with nothing offered to the
\* co-processors, and end with their interrupt or the trap.
EbreakEnds(i) ==
    /\ cpu_state' # "trap" => \/ cpu_state' = "ld_rs2"
                              \/ cpu_state' = "fetch" /\ CanRaise(irq_ebreak) /\ irq_ebreak \in irq_pending'
    /\ cpu_state' = "ld_rs2" => ~pcpi_valid'

LEMMA EbreakEnding ==
    ASSUME ServedInv, NEW i, Stepping(i), LoadingOperands, insn.op = "ebreak"
    PROVE  EbreakEnds(i)
<1>1. /\ LdRs1Step(i) \/ LdRs2Trap(i) \/ LdRs2Operands(i)
      /\ ~pcpi_valid /\ MASKED_IRQ \subseteq irq_mask
  BY SteppingFacts, WalkingFacts, FetchFacts DEF Stepping, Walking, ExecuteStep, LoadingOperands, ServedInv,
     ExecWait, ExecBranch, ExecAlu, Exec, Shift, StMem, LdMem, DataState, Trapped
<1>2. ~Misaligned /\ Matches /\ i \in Inputs
  BY <1>1, SteppingFacts, WalkingFacts, LoadFacts DEF Decoded, Misaligned
<1>3. ~i.pcpi.ready
  BY <1>1, <1>2 DEF Inputs, PcpiInputs
<1>4. LdRs1Trap(i) \/ LdRs2Trap(i)
  BY <1>1, <1>2 DEF LdRs1Step, LdRs1Move, LdRs1Retirq, LdRs1Maskirq, LdRs1Timer, LdRs1Load, LdRs1ShiftImm,
     LdRs1Imm, LdRs1Rs2, NeedsRs2, LdRs2Operands, IsTrap, Matches
<1> USE DEF EbreakEnds, Finish, NextPending, Default, Raise
<1>5. CASE Finish(i, Raise(i, Default(i)))
  BY <1>1, <1>2, <1>5 DEF CanRaise
<1>6. CASE Finish(i, PcpiCycle(i))
  <2>1. Finish(i, Raise(i, [Default(i) EXCEPT !.pcpi = FALSE]))
    <3> HIDE DEF Finish, Raise, Default
    <3> QED BY <1>3, <1>6 DEF PcpiCycle
  <2> QED BY <1>1, <1>2, <2>1 DEF CanRaise
<1>7. CASE Finish(i, [Default(i) EXCEPT !.cpu_state = "ld_rs2"])
  BY <1>1, <1>2, <1>7
<1>8. \/ Finish(i, Raise(i, Default(i))) \/ Finish(i, PcpiCycle(i))
      \/ Finish(i, [Default(i) EXCEPT !.cpu_state = "ld_rs2"])
  <2> HIDE DEF Finish, Raise, Default
  <2>1. CASE LdRs1Trap(i) /\ ~WITH_PCPI
    BY <2>1 DEF LdRs1Trap
  <2>2. CASE LdRs1Trap(i) /\ WITH_PCPI /\ ENABLE_REGS_DUALPORT
    BY <2>2 DEF LdRs1Trap
  <2>3. CASE LdRs1Trap(i) /\ WITH_PCPI /\ ~ENABLE_REGS_DUALPORT
    BY <2>3 DEF LdRs1Trap
  <2>4. CASE LdRs2Trap(i)
    BY <2>4 DEF LdRs2Trap
  <2> QED BY <1>4, <2>1, <2>2, <2>3, <2>4
<1> HIDE DEF Finish, Default, Raise, EbreakEnds
<1> QED BY <1>5, <1>6, <1>7, <1>8

\* What fetch does while no handler is entered and nothing is launched: it waits,
\* in waitirq or not, or the entry begins.
LEMMA FetchQuiet ==
    ASSUME ServedInv, FoundInv, NEW i, Stepping(i), cpu_state = "fetch", ~Launches, ~irq_active'
    PROVE  /\ ~irq_active /\ irq_state = 0 /\ cur' = cur /\ irq_mask' = irq_mask /\ irq_delay' = irq_delay
           /\ \/ FetchInterrupt(i) /\ irq_state' = 1 /\ latched_compr' = latched_compr
                 /\ decoder_trigger /\ ~do_waitirq
              \/ FetchWaitirq(i) /\ irq_state' = 0 /\ do_waitirq'
              \/ FetchIdle(i) /\ irq_state' = 0 /\ latched_compr' = ~dec.long
                 /\ ~decoder_trigger /\ ~do_waitirq /\ ~do_waitirq'
<1>1. /\ FetchStep(i) /\ FetchHands(i) /\ irq_active \in BOOLEAN /\ irq_state \in 0 .. 2
      /\ irq_state # 0 => ENABLE_IRQ /\ ~latched_store /\ ~latched_branch
      /\ cur' = cur
  BY SteppingKinds, SteppingFacts, WalkingFacts DEF LoadingOperands, ReqInv, EntryRequests, TypeOK, IrqTypeOK,
     Walking, History
<1>2. ~FetchSaveReturn(i)
  BY <1>1 DEF FetchSaveReturn
<1>3. ~FetchSaveMask(i)
  BY <1>1 DEF FetchSaveMask, ServedInv
<1>4. ~LaunchJal(i) /\ ~Launch(i)
  BY DEF LaunchJal, Launch, Launches, FetchTail, FetchHead
<1>5. CASE FetchInterrupt(i)
  BY <1>1, <1>5 DEF FetchInterrupt, FetchHead, InterruptTaken, FoundInv
<1>6. CASE FetchWaitirq(i)
  <2>1. irq_pending = {}
    BY <1>6 DEF FetchWaitirq, FetchTail, FetchHead, Launches
  <2> QED BY <1>1, <1>6, <2>1 DEF FetchWaitirq, FetchHead, FetchTail, InterruptTaken, Finish, Fetched, Default
<1>7. CASE FetchIdle(i)
  <2>1. ~do_waitirq
    BY <1>7, SteppingFacts, WalkingFacts DEF FetchIdle, HandOverInv, Waiting
  <2> QED BY <1>1, <1>7, <2>1 DEF FetchIdle, FetchHead, FetchTail, InterruptTaken, Finish, Fetched, Default
<1> QED BY <1>1, <1>2, <1>3, <1>4, <1>5, <1>6, <1>7 DEF FetchStep

LEMMA NextServed ==
    ASSUME irq_ebreak \in LATCHED_IRQ, ServedInv, FoundInv, PcpiInv, NEW i, Stepping(i)
    PROVE  ServedInv'
<1>1. irq_state' = 2 => irq_active'
  <2>1. CASE cpu_state = "fetch" /\ ~FetchSaveReturn(i)
    <3>1. FetchStep(i) /\ (irq_state # 0 => ENABLE_IRQ)
      BY <2>1, SteppingKinds, SteppingFacts, WalkingFacts DEF LoadingOperands, ReqInv, EntryRequests
    <3> QED BY <2>1, <3>1 DEF FetchStep, FetchInterrupt, FetchSaveMask, FetchTail, FetchWaitirq, LaunchJal, Launch,
                              FetchIdle, InterruptTaken
  <2>2. CASE FetchSaveReturn(i)
    BY <2>2, SteppingFacts, WalkingFacts DEF FetchSaveReturn, ReqInv, EntryRequests
  <2>3. CASE cpu_state # "fetch"
    <3>1. KeepFetch /\ irq_state = 0
      BY <2>3, SteppingKinds, SteppingFacts DEF LoadHands, ComputeHands, DataHands
    <3> QED BY <3>1 DEF KeepFetch
  <2> QED BY <2>1, <2>2, <2>3
<1>2. LoadingOperands' /\ pcpi_valid' => insn'.op # "ebreak"
  <2>1. CASE cpu_state = "fetch"
    <3>1. ~pcpi_valid
      BY <2>1 DEF PcpiInv, LoadingOperands
    <3>2. LoadingOperands' => Launch(i)
      BY <2>1, LaunchedBy DEF LoadingOperands
    <3> QED BY <3>1, <3>2 DEF Launch, Finish, Fetched, Default
  <2>2. CASE LoadingOperands
    <3>1. LoadingOperands' /\ insn.op = "ebreak" => ~pcpi_valid'
      BY <2>2, EbreakEnding DEF EbreakEnds, LoadingOperands
    <3>2. insn' = insn
      BY <2>2, SteppingKinds DEF LoadHands, LoadingOperands
    <3> QED BY <3>1, <3>2
  <2>3. CASE cpu_state # "fetch" /\ ~LoadingOperands
    BY <2>3, SteppingKinds DEF ComputeHands, DataHands, LoadingOperands
  <2> QED BY <2>1, <2>2, <2>3
<1>3. ASSUME InFetch', cur'.op = "ebreak", irq_state' = 0, ~irq_active'
      PROVE  /\ ENABLE_IRQ /\ irq_ebreak \in irq_pending' \ irq_mask'
             /\ ~irq_delay' /\ ~do_waitirq'
  <2>1. CASE cpu_state = "fetch"
    <3>1. ~Launches
      BY <1>3, <2>1, LaunchedInFetch DEF InFetch
    <3>2. /\ ~irq_active /\ irq_state = 0 /\ cur' = cur /\ irq_mask' = irq_mask /\ irq_delay' = irq_delay
          /\ (FetchWaitirq(i) /\ do_waitirq') \/ (FetchIdle(i) /\ ~do_waitirq')
      BY <1>3, <2>1, <3>1, FetchQuiet
    <3>3. /\ ENABLE_IRQ /\ irq_ebreak \in irq_pending \ irq_mask /\ ~irq_delay /\ ~do_waitirq
          /\ irq_ebreak \notin MASKED_IRQ
      BY <1>3, <2>1, <3>2 DEF ServedInv, InFetch
    <3>4. ~FetchWaitirq(i)
      BY <3>2, <3>3 DEF FetchWaitirq, Waiting, FetchTail, InterruptTaken
    <3>5. irq_ebreak \in irq_pending'
      BY <3>2, <3>3, <3>4 DEF FetchIdle, Finish, NextPending, Fetched, Default
    <3> QED BY <3>2, <3>3, <3>4, <3>5
  <2>2. CASE LoadingOperands
    <3>1. LoadHands(i) /\ LoadEnds(i) /\ insn.op = "ebreak" /\ cur' = cur
      BY <1>3, <2>2, SteppingKinds DEF LoadHands, LoadingOperands
    <3>2. CanRaise(irq_ebreak) /\ irq_ebreak \in irq_pending'
      BY <1>3, <2>2, <3>1, EbreakEnding DEF EbreakEnds, InFetch
    <3>3. irq_mask' = irq_mask /\ ~do_waitirq' /\ irq_delay' = irq_delay /\ (irq_delay <=> irq_active)
      BY <2>2, <3>1, SteppingFacts DEF LoadEnds, LoadHands, KeepFetch, OrderInv, Operating, LoadingOperands
    <3> QED BY <3>2, <3>3 DEF CanRaise
  <2>3. CASE cpu_state # "fetch" /\ ~LoadingOperands
    <3>1. cur' = cur /\ ClassInv /\ cpu_state \in {"exec", "shift", "stmem", "ldmem"}
      BY <2>3, SteppingKinds, SteppingFacts DEF ComputeHands, DataHands
    <3> QED BY <1>3, <3>1 DEF ClassInv
  <2> QED BY <2>1, <2>2, <2>3
<1> QED BY <1>1, <1>2, <1>3, MaskKept DEF ServedInv

\* What the last instruction left in fetch is there until the handler is entered.
LEMMA NextBehindFault ==
    ASSUME EvenInv, ServedInv, FoundInv, NEW i, Stepping(i),
           InFetch', irq_state' # 2, ~irq_active', ~do_waitirq', MayFault'
    PROVE  /\ BehindFault'
           /\ decoder_trigger' \/ irq_state' = 1 \/ (cur'.op = "ebreak" /\ dec'.long = cur'.long)
<1>1. CASE cpu_state = "fetch"
  <2>1. FetchHands(i) /\ ~Launches
    BY <1>1, SteppingKinds, LaunchedInFetch DEF LoadingOperands, InFetch, MayFault
  <2>2. /\ ~irq_active /\ irq_state = 0 /\ cur' = cur
        /\ \/ irq_state' = 1 /\ latched_compr' = latched_compr /\ ~do_waitirq
           \/ ~decoder_trigger /\ ~do_waitirq /\ latched_compr' = ~dec.long
    BY <1>1, <2>1, FetchQuiet
  <2>3. /\ BehindFault
        /\ decoder_trigger \/ (cur.op = "ebreak" /\ dec.long = cur.long)
    BY <1>1, <2>2 DEF FoundInv, InFetch, MayFault
  <2>4. reg_next_pc' = reg_next_pc /\ ~latched_branch'
    BY <2>1, <2>2, <2>3 DEF FetchHands, current_pc, BehindFault
  <2>5. decoder_trigger' \/ dec' = dec
    BY <2>1 DEF FetchHands, Decode
  <2> QED BY <2>2, <2>3, <2>4, <2>5 DEF BehindFault
<1>2. CASE cpu_state # "fetch"
  <2>1. KeepFetch /\ cur' = cur /\ Operating
    BY <1>2, SteppingKinds DEF LoadHands, ComputeHands, DataHands, Operating, LoadingOperands
  <2>2. /\ reg_next_pc = Plus(reg_pc, IF cur.long THEN 2 ELSE 1)
        /\ cur.at = FetchAddr(reg_pc) /\ latched_compr = ~cur.long /\ reg_pc \in HalfAddr
    BY <2>1, SteppingFacts, WalkingFacts DEF OrderInv, InsnInv, PcInv
  <2>3. FetchAddr(reg_pc) = reg_pc
    BY <2>2, Parcels DEF EvenInv, Unaligned
  <2>4. \/ LoadHands(i) /\ LoadEnds(i) /\ insn = cur
        \/ DataHands(i)
    <3>1. ClassInv
      BY SteppingFacts
    <3> QED BY <1>2, <2>1, <3>1, SteppingKinds DEF ClassInv, MayFault
  <2>5. CASE LoadHands(i) /\ LoadEnds(i) /\ insn = cur
    <3>1. cur.op = "ebreak" /\ ~latched_branch' /\ dec' = dec
      BY <2>1, <2>5 DEF LoadHands, LoadEnds, InFetch, MayFault
    <3>2. dec.long = cur.long
      BY <2>5, SteppingFacts, WalkingFacts DEF LoadHands, LoadingOperands, InsnInv, Same
    <3> QED BY <2>1, <2>2, <2>3, <3>1, <3>2 DEF BehindFault, KeepFetch
  <2>6. CASE DataHands(i)
    BY <2>1, <2>2, <2>3, <2>6 DEF DataHands, BehindFault, KeepFetch, InFetch
  <2> QED BY <2>4, <2>5, <2>6
<1> QED BY <1>1, <1>2

LEMMA NextFound ==
    ASSUME EvenInv, ServedInv, FoundInv, NEW i, Stepping(i)
    PROVE  FoundInv'
<1>1. do_waitirq' => ~decoder_trigger'
  <2>1. CASE cpu_state = "fetch"
    <3>1. FetchHands(i)
      BY <2>1, SteppingKinds DEF LoadingOperands
    <3> QED BY <2>1, <3>1, AtLaunch, SteppingFacts DEF FetchHands, Fetching
  <2>2. CASE cpu_state # "fetch"
    BY <2>2, SteppingKinds DEF LoadHands, ComputeHands, DataHands
  <2> QED BY <2>1, <2>2
<1>2. FaultIsFound'
  <2>1. SUFFICES ASSUME irq_state' = 2, MayFault'
                 PROVE  q0'.lsb = ~cur'.long /\ handler_pc(q0') = cur'.at
    BY DEF FaultIsFound, MayFault, handler_pc
  <2>2. FetchSaveReturn(i) /\ irq_state = 1 /\ cpu_state = "fetch"
    <3>1. CASE cpu_state = "fetch"
      <4>1. FetchStep(i) /\ (irq_state # 0 => ENABLE_IRQ)
        BY <3>1, SteppingKinds, SteppingFacts, WalkingFacts DEF LoadingOperands, ReqInv, EntryRequests
      <4> QED BY <2>1, <3>1, <4>1 DEF FetchStep, FetchInterrupt, FetchSaveReturn, FetchSaveMask, FetchTail,
                 FetchWaitirq, LaunchJal, Launch, FetchIdle, InterruptTaken
    <3>2. CASE cpu_state # "fetch"
      <4>1. KeepFetch /\ irq_state = 0
        BY <3>2, SteppingKinds, SteppingFacts DEF LoadHands, ComputeHands, DataHands
      <4> QED BY <2>1, <4>1 DEF KeepFetch
    <3> QED BY <3>1, <3>2
  <2>3. /\ latched_rd = rd_q0 /\ ~irq_active /\ ~do_waitirq /\ ENABLE_IRQ
        /\ ~latched_branch /\ ~latched_store /\ cur' = cur
    <3>1. ~Launches
      BY <2>2, SteppingFacts, WalkingFacts DEF Launches, InterruptTaken, ReqInv, EntryRequests
    <3> QED BY <2>2, <3>1, SteppingFacts, WalkingFacts
          DEF ReqInv, EntryRequests, EntryInv, HandOverInv, Walking, History
  <2>4. q0' = [at |-> reg_next_pc, lsb |-> latched_compr]
    BY <2>2, <2>3 DEF FetchSaveReturn
  <2>5. BehindFault
    BY <2>1, <2>2, <2>3 DEF FoundInv, InFetch, MayFault
  <2>6. q0'.at = Plus(cur.at, IF q0'.lsb THEN 1 ELSE 2) /\ q0'.lsb = ~cur.long /\ cur.at \in HalfAddr
    BY <2>4, <2>5, SteppingFacts, WalkingFacts DEF BehindFault, TypeOK, HistTypeOK, Insn
  <2> QED BY <2>3, <2>6, HandlerFinds
<1> QED BY <1>1, <1>2, NextBehindFault DEF FoundInv

LEMMA InitFault == AlignedJumps /\ Init => FaultInv
<1> SUFFICES ASSUME AlignedJumps, Init PROVE FaultInv
  OBVIOUS
<1>1. /\ cpu_state = "fetch" /\ ~latched_branch /\ irq_state = 0 /\ cur.op = "other" /\ ~do_waitirq
      /\ reg_pc = PROGADDR_RESET /\ reg_next_pc = PROGADDR_RESET /\ q0.at = PROGADDR_RESET /\ irq_mask = IRQ
  BY DEF Init, NoInsn
<1>2. EvenInv
  BY <1>1 DEF EvenInv, AlignedJumps, current_pc
<1>3. ServedInv /\ FoundInv
  BY <1>1, IrqAssumption DEF ServedInv, FoundInv, LoadingOperands, MayFault, FaultIsFound
<1> QED BY <1>2, <1>3 DEF FaultInv

LEMMA ResetFault ==
    ASSUME AlignedJumps, FaultInv, NEW i, Reset(i)
    PROVE  FaultInv'
<1>1. /\ cpu_state' = "fetch" /\ ~latched_branch' /\ irq_state' = 0 /\ cur'.op = "other" /\ ~do_waitirq'
      /\ reg_pc' = PROGADDR_RESET /\ reg_next_pc' = PROGADDR_RESET /\ q0' = q0 /\ irq_mask' = IRQ
  BY DEF Reset, ResetState, NoInsn
<1>2. EvenInv'
  BY <1>1 DEF FaultInv, EvenInv, AlignedJumps, current_pc
<1>3. ServedInv' /\ FoundInv'
  BY <1>1, IrqAssumption DEF ServedInv, FoundInv, LoadingOperands, MayFault, FaultIsFound
<1> QED BY <1>2, <1>3 DEF FaultInv

LEMMA ClockFault ==
    ASSUME AlignedJumps, irq_ebreak \in LATCHED_IRQ, Reached, IsaInv, PcpiInv, FaultInv,
           NEW i \in Inputs, Clock(i)
    PROVE  FaultInv'
<1>1. CASE cpu_state # "trap"
  BY <1>1, ClockSteps, NextEven, NextServed, NextFound DEF FaultInv
<1>2. CASE cpu_state = "trap"
  <2>1. Trapped(i) /\ cpu_state' = "trap"
    BY <1>2, TrappedOnly
  <2>2. irq_state = 0
    BY <1>2 DEF Reached, ReqInv, EntryRequests
  <2>3. /\ UNCHANGED <<reg_pc, reg_next_pc, q0, irq_state, irq_mask>> /\ ~do_waitirq'
    BY <2>1 DEF Trapped, KeepFetch, KeepIrq, Finish, Default
  <2> QED BY <2>1, <2>2, <2>3 DEF FaultInv, EvenInv, ServedInv, FoundInv, FaultIsFound, InFetch, LoadingOperands
<1> QED BY <1>1, <1>2

LEMMA StutterFault ==
    ASSUME FaultInv, UNCHANGED vars
    PROVE  FaultInv'
<1>1. /\ UNCHANGED <<cpu_state, reg_out, pcVars, latchedVars, decVars, aluVars, pcpiVars, irqVars, histVars>>
  BY DEF vars, coreVars
<1>2. /\ UNCHANGED <<reg_pc, reg_next_pc, latched_branch, latched_store, latched_stalu, latched_compr, alu_out_q>>
      /\ UNCHANGED <<dec, insn, decoder_trigger, pcpi_valid, cur>>
      /\ UNCHANGED <<irq_pending, irq_mask, irq_active, irq_delay, irq_state, do_waitirq, q0>>
  BY <1>1 DEF pcVars, latchedVars, decVars, aluVars, pcpiVars, irqVars, histVars
<1>3. UNCHANGED <<current_pc, InFetch, LoadingOperands>>
  BY <1>1, <1>2 DEF current_pc, InFetch, LoadingOperands
<1>4. EvenInv' /\ ServedInv'
  BY <1>2, <1>3 DEF FaultInv, EvenInv, ServedInv
<1>5. FaultIsFound'
  BY <1>2 DEF FaultInv, FoundInv, FaultIsFound
<1>6. FoundInv'
  BY <1>2, <1>3, <1>5 DEF FaultInv, FoundInv, BehindFault, MayFault
<1> QED BY <1>4, <1>6 DEF FaultInv

\* As long as interrupt 1 is latched, as it is by default, and jumps go to where an
\* instruction can start: after an ecall or ebreak that raises its interrupt the handler
\* comes next, and it finds an ecall, ebreak, load or store that came last in front of
\* its return address, whatever was prefetched, decoded or waited for in between.
THEOREM FaultsAreReported ==
    AlignedJumps /\ irq_ebreak \in LATCHED_IRQ => (Spec => []FaultIsReported)
<1> SUFFICES ASSUME AlignedJumps /\ irq_ebreak \in LATCHED_IRQ
             PROVE  Spec => []FaultIsReported
  OBVIOUS
<1>1. Init => FaultInv
  BY InitFault
<1>2. Reached /\ IsaInv /\ PcpiInv /\ FaultInv /\ [Next]_vars => FaultInv'
  BY ClockFault, ResetFault, StutterFault DEF Next
<1>3. FaultInv => FaultIsReported
  BY DEF FaultInv, ServedInv, FoundInv, FaultIsReported, FaultIsServed, InFetch
<1> QED BY <1>1, <1>2, <1>3, ReachedInvariant, IsaInvariant, PcpiInvariant, PTL DEF Spec

-----------------------------------------------------------------------------
(* Part four, the core with its co-processors: their handshake for operand *)
(* values, lengths of multiplication and division, timeouts and resets of  *)
(* any size.                                                               *)

\* What the handshake is built for: a reset of two cycles clears the pipelines
\* that no reset reaches directly, the timeout (15 in the code) outlasts the way
\* to pcpi_wait, and the fast multiplier has the registers its stages count on.
\* Its default parameters satisfy the last two conditions.
Supported ==
    /\ RESET_CYCLES >= 2 /\ PCPI_TIMEOUT >= 3
    /\ ~EXTRA_INSN_FFS /\ (MUL_CLKGATE => EXTRA_MUL_FFS)

-----------------------------------------------------------------------------
(* The inductive invariant: the core's side.                               *)

AskingState == IF ENABLE_REGS_DUALPORT THEN "ld_rs1" ELSE "ld_rs2"

\* The core does not load operands; FarAway, neither will it in the next cycle.
\* So between two offers there is time for what is left of the first.
Away    == ~pcpi_valid /\ ~LoadingOperands
FarAway == Away /\ ~decoder_trigger

OfferInv ==
    /\ pcpi_valid => WITH_PCPI /\ cpu_state = AskingState /\ insn.op = "pcpi"
    /\ cpu_state = "ld_rs2" => ~ENABLE_REGS_DUALPORT /\ (IsTrap => WITH_PCPI)
CoreInv  == TypeOK /\ ReqInv /\ Decoded /\ PcpiInv /\ OfferInv

BusInv ==
    /\ pcpi_insn \in PcpiInsns /\ pcpi_rs \in RS_VALUES
    /\ held \in 0 .. RESET_CYCLES

\* The timeout has not got further than n cycles.
TimeoutWithin(n) == pcpi_timeout_counter >= PCPI_TIMEOUT - n

-----------------------------------------------------------------------------
(* The units' side: what each register holds while an instruction is       *)
(* offered, and how long it outlives the offer.                            *)

Offered(insns) == pcpi_valid /\ pcpi_insn \in insns
Own == Op(pcpi_insn, pcpi_rs)

MacInv ==
    /\ mac_stage1_valid /\ pcpi_valid => pcpi_insn = "mac4" /\ mac_prod = Own
    /\ mac_ready /\ pcpi_valid => pcpi_insn = "mac4" /\ mac_rd = Own
    /\ mac_stage1_valid => pcpi_valid \/ FarAway
    /\ mac_ready => pcpi_valid \/ Away
    /\ mac_wait <=> mac_stage1_valid
    /\ Offered({"mac4"}) /\ ENABLE_MAC =>
         /\ TimeoutWithin(IF mac_stage1_valid THEN 1 ELSE 0)
         /\ ~pcpi_timeout
    /\ ~ENABLE_MAC => ~mac_stage1_valid /\ ~mac_ready

Settling == 0 < held /\ held < RESET_CYCLES
MulBusy  == pcpi_valid /\ mul_instr = pcpi_insn /\ mul_wait /\ mul_wait_q
MulInv ==
    /\ mul_instr # "none" =>
         /\ pcpi_valid \/ FarAway
         /\ pcpi_valid => mul_instr = pcpi_insn /\ pcpi_insn \in MulInsns
         /\ ~pcpi_valid => mul_wait
    /\ mul_wait =>
         /\ (pcpi_valid /\ mul_instr # "none") \/ Away
         /\ ~pcpi_valid /\ ~Settling => mul_wait_q
    /\ mul_wait_q /\ pcpi_valid => mul_wait
    /\ ~mul_waiting => MulBusy /\ ~mul_finish /\ ~mul_ready /\ mul_op = Own
    /\ mul_finish => MulBusy /\ mul_waiting /\ ~mul_ready /\ mul_op = Own
    /\ mul_ready => MulBusy /\ mul_waiting /\ ~mul_finish /\ mul_rd = Own
    /\ held > 0 => mul_instr = "none"
    /\ held > 1 => ~mul_wait
    /\ Offered(MulInsns) /\ SerialMul =>
         /\ TimeoutWithin(IF mul_wait THEN 2 ELSE IF mul_instr # "none" THEN 1 ELSE 0)
         /\ ~pcpi_timeout
    /\ ~SerialMul => /\ mul_instr = "none" /\ ~mul_wait /\ ~mul_wait_q
                     /\ mul_waiting /\ ~mul_finish /\ ~mul_ready

Last == IF EXTRA_MUL_FFS THEN 3 ELSE 1
FastData(s) == CASE s = 0 -> fast_rs
                 [] s = 1 -> IF EXTRA_MUL_FFS THEN fast_rs_q ELSE fast_rd
                 [] s = 2 -> fast_rd
                 [] s = 3 -> fast_rd_q
FastInv ==
    /\ \A s \in 0 .. Last : fast_active[s] =>
         /\ pcpi_valid /\ pcpi_insn \in MulInsns /\ FastData(s) = Own
         /\ fast_shift_out = (pcpi_insn = "mulh")
         /\ \A t \in 0 .. Last : fast_active[t] => t = s
         /\ TimeoutWithin(s + 1)
    /\ Offered(MulInsns) /\ ENABLE_FAST_MUL =>
         /\ (\A s \in 0 .. Last : ~fast_active[s]) => TimeoutWithin(0)
         /\ ~pcpi_timeout \/ fast_ready
    /\ ~ENABLE_FAST_MUL => \A s \in 0 .. Last : ~fast_active[s]

DivBusy == pcpi_valid /\ div_instr = pcpi_insn /\ div_wait /\ div_wait_q
DivInv ==
    /\ div_instr # "none" => pcpi_valid /\ div_instr = pcpi_insn /\ pcpi_insn \in DivInsns
    /\ div_wait =>
         /\ (pcpi_valid /\ div_instr # "none") \/ FarAway
         /\ ~pcpi_valid => div_wait_q
    /\ div_wait_q => (pcpi_valid /\ div_wait) \/ Away
    /\ div_running => DivBusy /\ ~div_ready /\ div_op = Own
    /\ div_ready => DivBusy /\ ~div_running /\ div_rd = Own
    /\ Offered(DivInsns) /\ ENABLE_DIV =>
         /\ TimeoutWithin(IF div_wait THEN 2 ELSE IF div_instr # "none" THEN 1 ELSE 0)
         /\ ~pcpi_timeout
    /\ ~ENABLE_DIV => div_instr = "none" /\ ~div_wait /\ ~div_wait_q /\ ~div_running /\ ~div_ready

SysInv == CoreInv /\ BusInv /\ MacInv /\ MulInv /\ FastInv /\ DivInv

-----------------------------------------------------------------------------
(* How an offer moves on.                                                  *)

\* An offer lasts, with its operands, until an answer or the timeout; after it
\* no other comes for two cycles, and a new one has the whole timeout before it.
Unanswered == ~pcpi_int_ready /\ ~pcpi_timeout
OfferMoves ==
    /\ pcpi_valid /\ ~Unanswered => FarAway'
    /\ pcpi_valid /\ Unanswered  =>
         /\ pcpi_valid' /\ UNCHANGED <<pcpi_insn, pcpi_rs>>
         /\ pcpi_timeout' = (pcpi_timeout_counter = 0)
         /\ pcpi_timeout_counter' = IF pcpi_int_wait THEN PCPI_TIMEOUT
                                    ELSE IF pcpi_timeout_counter = 0 THEN 0
                                    ELSE pcpi_timeout_counter - 1
    /\ ~pcpi_valid /\ pcpi_valid' =>
         ~Away /\ pcpi_timeout_counter' = PCPI_TIMEOUT /\ ~pcpi_timeout'
    /\ FarAway => Away'

\* The inputs of a cycle are the bus's and the units' answer.
LEMMA SysInputsOK ==
    ASSUME MemTypeOK, NEW i \in SysInputs
    PROVE  InputOK(i) /\ i.pcpi = Answer
<1>1. PICK j \in Inputs : i = [j EXCEPT !.pcpi = Answer]
  BY DEF SysInputs
<1>2. InputOK(j)
  BY InputsOK
<1>3. PICK r, lo, hi, q, p : j = [mem_ready |-> r, lo |-> lo, hi |-> hi, irq |-> q, pcpi |-> p]
  BY DEF Inputs
<1>4. i = [mem_ready |-> r, lo |-> lo, hi |-> hi, irq |-> q, pcpi |-> Answer]
  BY <1>1, <1>3
<1>5. Answer.ready \in BOOLEAN /\ Answer.wait \in BOOLEAN /\ Answer.wr \in BOOLEAN
  BY DEF Answer, pcpi_int_ready, pcpi_int_wait, pcpi_int_wr
<1>6. i.pcpi = Answer
  BY <1>4
<1>7. i.mem_ready = j.mem_ready /\ i.lo = j.lo /\ i.hi = j.hi /\ i.irq = j.irq
  BY <1>3, <1>4
<1> QED BY <1>2, <1>5, <1>6, <1>7 DEF InputOK

\* A co-processor instruction, once both decoder stages hold it, is executed by
\* no branch but its own.
LEMMA TrapBranch ==
    ASSUME TypeOK, Decoded, NEW i, LdRs1Step(i) \/ LdRs2Trap(i) \/ LdRs2Operands(i), IsTrap
    PROVE  LdRs1Trap(i) \/ LdRs2Trap(i)
<1>1. LoadingOperands
  BY DEF LoadingOperands, LdRs1Step, LdRs1Trap, LdRs1Move, LdRs1Retirq, LdRs1Maskirq, LdRs1Timer,
     LdRs1Load, LdRs1ShiftImm, LdRs1Imm, LdRs1Rs2, LdRs1, LdRs2Trap, LdRs2Operands, LdRs2
<1>2. insn.op \in {"ebreak", "pcpi"} /\ dec.op \notin Stage1Ops
  BY <1>1 DEF Decoded, Matches, IsTrap, Stage1Ops
<1> QED BY <1>2 DEF Stage1Ops, LdRs1Step, LdRs1Move, LdRs1Retirq, LdRs1Maskirq, LdRs1Timer,
     LdRs1Load, LdRs1ShiftImm, LdRs1Imm, LdRs1Rs2, NeedsRs2, LdRs2Operands, IsTrap

\* With two read ports every operand is loaded in ld_rs1.
LEMMA SecondPort ==
    ASSUME TypeOK, NEW i, InputOK(i), LdRs1Step(i), ENABLE_REGS_DUALPORT, ~IsTrap
    PROVE  cpu_state' # "ld_rs2"
<1> DEFINE d == Default(i)
<1>1. d \in Result
  BY DefaultResult
<1>2. ASSUME NEW r, Finish(i, r), r.cpu_state # "ld_rs2" PROVE cpu_state' # "ld_rs2"
  BY <1>2 DEF Finish
<1>3. ASSUME NEW b PROVE ToExec(i, d, b).cpu_state = "exec"
  BY <1>1 DEF ToExec, Result
<1>4. CASE LdRs1Move(i) \/ LdRs1Maskirq(i) \/ LdRs1Timer(i) \/ LdRs1Retirq(i)
  <2> DEFINE m == [d EXCEPT !.cpu_state = "fetch", !.store = TRUE, !.reg_out = Value]
             q == [d EXCEPT !.cpu_state = "fetch", !.store = TRUE, !.branch = TRUE, !.reg_out = q0.at]
             t == [d EXCEPT !.cpu_state = "fetch", !.store = TRUE, !.reg_out = Value, !.timer = insn.arg]
  <2>1. m.cpu_state = "fetch" /\ q.cpu_state = "fetch" /\ t.cpu_state = "fetch"
    BY <1>1 DEF Result
  <2>2. Finish(i, m) \/ Finish(i, q) \/ Finish(i, t)
    BY <1>4 DEF LdRs1Move, LdRs1Maskirq, LdRs1Timer, LdRs1Retirq
  <2> HIDE DEF m, q, t
  <2> QED BY <1>2, <2>1, <2>2
<1>5. CASE LdRs1Load(i) \/ LdRs1ShiftImm(i)
  <2> DEFINE l == [d EXCEPT !.cpu_state = "ldmem", !.rinst = TRUE]
             h == [d EXCEPT !.cpu_state = "shift"]
  <2>1. l.cpu_state = "ldmem" /\ h.cpu_state = "shift"
    BY <1>1 DEF Result
  <2>2. Finish(i, l) \/ Finish(i, h)
    BY <1>5 DEF LdRs1Load, LdRs1ShiftImm
  <2> HIDE DEF l, h
  <2> QED BY <1>2, <2>1, <2>2
<1>6. CASE LdRs1Imm(i)
  BY <1>2, <1>3, <1>6 DEF LdRs1Imm
<1>7. CASE LdRs1Rs2(i)
  <2> DEFINE s == [d EXCEPT !.cpu_state = "stmem", !.rinst = TRUE]
             h == [d EXCEPT !.cpu_state = "shift"]
             e == ToExec(i, d, dec.op = "branch")
  <2>1. s.cpu_state = "stmem" /\ h.cpu_state = "shift" /\ e.cpu_state = "exec"
    BY <1>1, <1>3 DEF Result
  <2>2. Finish(i, s) \/ Finish(i, h) \/ Finish(i, e)
    BY <1>7 DEF LdRs1Rs2, Operands
  <2> HIDE DEF s, h, e
  <2> QED BY <1>2, <2>1, <2>2
<1> QED BY <1>4, <1>5, <1>6, <1>7 DEF LdRs1Step, LdRs1Trap

\* What a clock edge does to the offer.
LEMMA OfferStep ==
    ASSUME CoreInv, NEW i, InputOK(i), Clock(i), i.pcpi = Answer
    PROVE  /\ OfferInv'
           /\ pcpi_valid /\ ~Unanswered => FarAway'
           /\ pcpi_valid /\ Unanswered  => pcpi_valid'
           /\ ~pcpi_valid /\ pcpi_valid' => ~Away
           /\ FarAway => Away'
<1> USE DEF CoreInv
<1>1. ASSUME NEW r \in Result, Finish(i, r)
      PROVE  /\ cpu_state' = "trap" \/ cpu_state' = r.cpu_state
             /\ ~Misaligned => cpu_state' = r.cpu_state
             /\ decoder_trigger' <=> r.trigger
             /\ pcpi_valid' = r.pcpi /\ Decode(i)
  BY <1>1, FinishValues DEF Finish
<1>2. CASE FetchStep(i)
  <2>1. PICK r \in Result : FetchResult(i, r)
    BY <1>2, FetchOutcome
  <2>2. cpu_state = "fetch" /\ Finish(i, r) /\ r.pcpi = pcpi_valid
    BY <1>2, <2>1, FetchOutcome DEF FetchResult
  <2>3. ~pcpi_valid /\ ~pcpi_valid'
    BY <1>1, <2>2 DEF OfferInv, AskingState
  <2>4. cpu_state' \in {"fetch", "ld_rs1", "trap"} /\ (cpu_state' = "ld_rs1" => decoder_trigger)
    BY <1>1, <2>1, <2>2 DEF FetchResult
  <2> QED BY <2>2, <2>3, <2>4 DEF OfferInv, Away, FarAway, LoadingOperands
<1>3. CASE LdRs1Step(i) \/ LdRs2Trap(i) \/ LdRs2Operands(i)
  <2>1. LoadingOperands
    BY <1>3 DEF LoadingOperands, LdRs1Step, LdRs1Trap, LdRs1Move, LdRs1Retirq, LdRs1Maskirq,
       LdRs1Timer, LdRs1Load, LdRs1ShiftImm, LdRs1Imm, LdRs1Rs2, LdRs1, LdRs2Trap, LdRs2Operands, LdRs2
  <2>2. ~mem_do_rinst /\ ~mem_do_wdata /\ ~mem_do_rdata /\ ~decoder_trigger
    BY <2>1 DEF ReqInv, DataRequests, FetchRequests, LoadingOperands
  <2>3. ~Misaligned
    BY <2>2 DEF Misaligned
  <2>4. CASE ~IsTrap
    <3>1. PICK r \in Result : LoadingResult(i, r)
      BY <1>3, <2>2, LoadingOutcome
    <3>2. ~pcpi_valid
      BY <2>4 DEF OfferInv, IsTrap
    <3>3. ~r.pcpi /\ Finish(i, r)
      BY <2>4, <3>1, <3>2 DEF LoadingResult, PcpiResult
    <3>4. ~pcpi_valid'
      BY <1>1, <3>3
    <3>5. ~IsTrap'
      BY <1>1, <2>2, <2>4, <3>3 DEF Decode, IsTrap
    <3>6. cpu_state' = "ld_rs2" => ~ENABLE_REGS_DUALPORT
      BY <1>3, <2>4, SecondPort DEF OfferInv, LdRs2Trap, LdRs2Operands, LdRs2
    <3> QED BY <2>1, <3>2, <3>4, <3>5, <3>6 DEF OfferInv, Away, FarAway
  <2>5. CASE IsTrap
    <3> DEFINE d == Default(i)
               w == [d EXCEPT !.pcpi = TRUE]
    <3>1. d \in Result /\ ~d.trigger /\ d.pcpi = pcpi_valid /\ d.cpu_state = cpu_state
      BY <2>2, DefaultResult, DefaultFields
    <3> HIDE DEF d
    <3>2. CASE Finish(i, PcpiCycle(i)) /\ WITH_PCPI /\ cpu_state = AskingState
      <4>1. LoadingResult(i, PcpiCycle(i)) /\ PcpiCycle(i) \in Result
        BY <2>1, <2>2, <2>5, <3>2, PcpiCycleResult, ExecuteResults
      <4>2. CASE i.pcpi.ready \/ pcpi_timeout \/ insn.op = "ebreak"
        <5>1. ~PcpiCycle(i).pcpi /\ PcpiCycle(i).cpu_state \in {"fetch", "trap"} /\ ~PcpiCycle(i).trigger
          BY <3>1, <4>2 DEF PcpiCycle, Raise, Result, d
        <5>2. ~pcpi_valid' /\ cpu_state' \in {"fetch", "trap"} /\ ~decoder_trigger'
          BY <1>1, <3>2, <4>1, <5>1
        <5>3. pcpi_valid => ~Unanswered
          BY <4>2 DEF OfferInv, Unanswered, Answer
        <5> QED BY <2>1, <5>2, <5>3 DEF OfferInv, Away, FarAway, LoadingOperands
      <4>3. CASE ~(i.pcpi.ready \/ pcpi_timeout \/ insn.op = "ebreak")
        <5>1. PcpiCycle(i) = w
          BY <4>3 DEF PcpiCycle, d
        <5>2. w.pcpi /\ w.cpu_state = cpu_state
          BY <3>1 DEF Result
        <5>3. pcpi_valid' /\ cpu_state' = cpu_state /\ insn' = insn
          BY <1>1, <2>2, <2>3, <3>2, <4>1, <5>1, <5>2 DEF Decode
        <5>4. insn.op = "pcpi" /\ Unanswered
          BY <2>5, <4>3 DEF IsTrap, Unanswered, Answer
        <5> QED BY <2>1, <3>2, <5>3, <5>4 DEF OfferInv, Away, FarAway, IsTrap
      <4> QED BY <4>2, <4>3
    <3>3. CASE Finish(i, Raise(i, d)) /\ ~WITH_PCPI
      <4>1. Raise(i, d) \in Result /\ Raise(i, d).pcpi = pcpi_valid /\ Raise(i, d).cpu_state \in {"fetch", "trap"}
        BY <3>1, ExecuteResults DEF Raise, Result, d
      <4>2. ~pcpi_valid /\ ~pcpi_valid' /\ cpu_state' # "ld_rs2"
        BY <1>1, <3>3, <4>1 DEF OfferInv
      <4> QED BY <2>1, <4>2 DEF OfferInv, Away, FarAway
    <3>4. CASE /\ Finish(i, [d EXCEPT !.cpu_state = "ld_rs2"])
               /\ cpu_state = "ld_rs1" /\ ~ENABLE_REGS_DUALPORT /\ WITH_PCPI
      <4> DEFINE s == [d EXCEPT !.cpu_state = "ld_rs2"]
      <4>1. s \in Result /\ s.pcpi = pcpi_valid
        BY <3>1 DEF Result, States
      <4> HIDE DEF s
      <4>2. ~pcpi_valid /\ ~pcpi_valid'
        BY <1>1, <3>4, <4>1 DEF OfferInv, AskingState, s
      <4> QED BY <2>1, <3>4, <4>2 DEF OfferInv, Away, FarAway
    <3>5. ASSUME LdRs1Trap(i), ~WITH_PCPI PROVE Finish(i, Raise(i, d))
      BY <3>5, Zenon DEF LdRs1Trap, d
    <3>6. ASSUME LdRs1Trap(i), WITH_PCPI, ENABLE_REGS_DUALPORT PROVE Finish(i, PcpiCycle(i))
      BY <3>6, Zenon DEF LdRs1Trap
    <3>7. ASSUME LdRs1Trap(i), WITH_PCPI, ~ENABLE_REGS_DUALPORT
          PROVE  Finish(i, [d EXCEPT !.cpu_state = "ld_rs2"])
      BY <3>7, Zenon DEF LdRs1Trap, d
    <3>8. LdRs1Trap(i) => cpu_state = "ld_rs1"
      BY DEF LdRs1Trap, LdRs1
    <3>9. LdRs2Trap(i) => cpu_state = "ld_rs2" /\ Finish(i, PcpiCycle(i))
      BY DEF LdRs2Trap, LdRs2
    <3>10. LdRs1Trap(i) \/ LdRs2Trap(i)
      BY <1>3, <2>5, TrapBranch
    <3>11. CASE LdRs1Trap(i)
      BY <3>2, <3>3, <3>4, <3>5, <3>6, <3>7, <3>8, <3>11 DEF AskingState
    <3>12. CASE LdRs2Trap(i)
      BY <2>5, <3>2, <3>9, <3>12 DEF AskingState, OfferInv
    <3> QED BY <3>10, <3>11, <3>12
  <2> QED BY <2>4, <2>5
<1>4. CASE ExecWait(i) \/ ExecBranch(i) \/ ExecAlu(i) \/ Shift(i) \/ Trapped(i) \/ StMem(i) \/ LdMem(i)
  <2>1. \E r \in Result : /\ Finish(i, r) /\ r.cpu_state \notin {"ld_rs1", "ld_rs2"}
                          /\ r.pcpi = pcpi_valid /\ ~LoadingOperands
    BY <1>4, ComputeOutcome, DataOutcome DEF ComputeResult, DataResult, LoadingOperands
  <2>2. ~LoadingOperands' /\ ~LoadingOperands /\ pcpi_valid' = pcpi_valid
    BY <1>1, <2>1 DEF LoadingOperands
  <2> QED BY <2>2 DEF OfferInv, Away, FarAway, AskingState, LoadingOperands
<1> QED BY <1>2, <1>3, <1>4 DEF Clock, ExecuteStep

\* Every branch of the main state machine ends in Finish, which counts the timeout.
LEMMA TimeoutCounts ==
    ASSUME NEW i, FetchStep(i) \/ ExecuteStep(i)
    PROVE  Timeout(i)
<1>1. ASSUME NEW r, Finish(i, r) PROVE Timeout(i)
  BY <1>1 DEF Finish
<1> QED
  BY <1>1 DEF FetchStep, FetchInterrupt, FetchSaveReturn, FetchSaveMask, FetchWaitirq,
     LaunchJal, Launch, FetchIdle, ExecuteStep, LdRs1Step, LdRs1Trap, LdRs1Move, LdRs1Retirq,
     LdRs1Maskirq, LdRs1Timer, LdRs1Load, LdRs1ShiftImm, LdRs1Imm, LdRs1Rs2, Operands, LdRs2Trap,
     LdRs2Operands, ExecWait, ExecBranch, ExecAlu, Shift, StMem, LdMem, Trapped

LEMMA TickMoves ==
    ASSUME CoreInv, BusInv, NEW i, InputOK(i), i.pcpi = Answer, Tick(i)
    PROVE  OfferInv' /\ OfferMoves
<1>1. Clock(i) /\ LoadInsn /\ LoadOperands
  BY DEF Tick
<1>2. /\ OfferInv'
      /\ pcpi_valid /\ ~Unanswered => FarAway'
      /\ pcpi_valid /\ Unanswered  => pcpi_valid'
      /\ ~pcpi_valid /\ pcpi_valid' => ~Away
      /\ FarAway => Away'
  BY <1>1, OfferStep
<1>3. Timeout(i)
  BY <1>1, TimeoutCounts DEF Clock
<1>4. i.pcpi.wait = pcpi_int_wait
  BY DEF Answer
<1>5. ASSUME pcpi_valid, Unanswered
      PROVE  /\ UNCHANGED <<pcpi_insn, pcpi_rs>>
             /\ pcpi_timeout' = (pcpi_timeout_counter = 0)
             /\ pcpi_timeout_counter' = IF pcpi_int_wait THEN PCPI_TIMEOUT
                                        ELSE IF pcpi_timeout_counter = 0 THEN 0
                                        ELSE pcpi_timeout_counter - 1
  <2>1. ~decoder_trigger /\ WITH_PCPI
    BY <1>5 DEF CoreInv, OfferInv, PcpiInv, ReqInv, FetchRequests
  <2>2. UNCHANGED pcpi_insn /\ UNCHANGED pcpi_rs
    BY <1>1, <1>5, <2>1 DEF LoadInsn, LoadOperands
  <2> QED BY <1>3, <1>4, <1>5, <2>1, <2>2 DEF Timeout
<1>6. ASSUME ~pcpi_valid, pcpi_valid'
      PROVE  pcpi_timeout_counter' = PCPI_TIMEOUT /\ ~pcpi_timeout'
  <2>1. LoadingOperands
    BY <1>2, <1>6 DEF Away
  <2>2. pcpi_timeout_counter = PCPI_TIMEOUT
    BY <1>6, <2>1 DEF CoreInv, PcpiInv
  <2> QED BY <1>3, <1>6, <2>2, TimeoutFills DEF CoreInv
<1> QED BY <1>2, <1>5, <1>6 DEF OfferMoves

-----------------------------------------------------------------------------
(* The units keep to the offer.                                            *)

LEMMA TimeoutMoves ==
    ASSUME Supported, TypeOK, OfferMoves, NEW m \in 0 .. 3, NEW n \in 0 .. 4,
           pcpi_valid, TimeoutWithin(m), ~pcpi_int_wait => m < n
    PROVE  Unanswered => TimeoutWithin(n)' /\ (m < 3 => ~pcpi_timeout')
<1>1. pcpi_timeout_counter \in 0 .. PCPI_TIMEOUT /\ PCPI_TIMEOUT \in Nat
  BY ParamAssumption DEF TypeOK, StateTypeOK
<1>2. PCPI_TIMEOUT >= 3 /\ pcpi_timeout_counter >= PCPI_TIMEOUT - m
  BY DEF Supported, TimeoutWithin
<1>3. ASSUME Unanswered
      PROVE  /\ pcpi_timeout' = (pcpi_timeout_counter = 0)
             /\ pcpi_timeout_counter' = IF pcpi_int_wait THEN PCPI_TIMEOUT
                                        ELSE IF pcpi_timeout_counter = 0 THEN 0
                                        ELSE pcpi_timeout_counter - 1
  BY <1>3 DEF OfferMoves
<1>4. ASSUME Unanswered PROVE pcpi_timeout_counter' >= PCPI_TIMEOUT - n
  BY <1>1, <1>2, <1>3, <1>4
<1>5. ASSUME Unanswered, m < 3 PROVE ~pcpi_timeout'
  <2>1. pcpi_timeout_counter # 0
    BY <1>1, <1>2, <1>5
  <2> QED BY <1>3, <1>5, <2>1
<1> QED BY <1>4, <1>5 DEF TimeoutWithin

LEMMA RequestFields ==
    Request.valid = pcpi_valid /\ Request.insn = pcpi_insn /\ Request.rs = pcpi_rs
BY DEF Request

LEMMA MacTick ==
    ASSUME Supported, SysInv, OfferMoves, TypeOK', UnitsStep(Request, TRUE), LoadInsn
    PROVE  MacInv'
<1> USE DEF SysInv, MacInv
<1>1. CASE ~ENABLE_MAC
  <2>1. UNCHANGED macVars
    BY <1>1 DEF UnitsStep
  <2> QED BY <1>1, <2>1 DEF macVars
<1>2. CASE ENABLE_MAC
  <2>1. MacStep(Request, TRUE)
    BY <1>2 DEF UnitsStep
  <2>2. /\ mac_stage1_valid' <=> pcpi_valid /\ pcpi_insn = "mac4"
        /\ mac_wait' <=> pcpi_valid /\ pcpi_insn = "mac4"
        /\ mac_ready' <=> mac_stage1_valid
        /\ pcpi_valid /\ pcpi_insn = "mac4" => mac_prod' = Own
        /\ mac_stage1_valid => mac_rd' = mac_prod
    BY <2>1, RequestFields DEF MacStep, instr_mac4, Own
  <2>3. mac_stage1_valid' => (pcpi_valid' /\ pcpi_insn' = "mac4" /\ mac_prod' = Own') \/ FarAway'
    BY <2>2 DEF OfferMoves, Own
  <2>4. mac_ready' => (pcpi_valid' /\ pcpi_insn' = "mac4" /\ mac_rd' = Own') \/ Away'
    BY <2>2 DEF OfferMoves, Own, FarAway
  <2>5. ASSUME Offered({"mac4"})'
        PROVE  TimeoutWithin(IF mac_stage1_valid THEN 1 ELSE 0)' /\ ~pcpi_timeout'
    <3>1. CASE pcpi_valid
      <4>1. Unanswered /\ pcpi_insn = "mac4"
        BY <2>5, <3>1 DEF OfferMoves, Offered, FarAway, Away
      <4>2. mac_stage1_valid' /\ TimeoutWithin(IF mac_stage1_valid THEN 1 ELSE 0)
        BY <1>2, <2>2, <3>1, <4>1 DEF Offered
      <4>3. mac_stage1_valid => pcpi_int_wait
        BY <1>2 DEF pcpi_int_wait
      <4>4. CASE mac_stage1_valid
        BY <3>1, <4>1, <4>2, <4>3, <4>4, TimeoutMoves DEF CoreInv
      <4>5. CASE ~mac_stage1_valid
        BY <3>1, <4>1, <4>2, <4>5, TimeoutMoves DEF CoreInv
      <4> QED BY <4>4, <4>5
    <3>2. CASE ~pcpi_valid
      <4>1. pcpi_timeout_counter' = PCPI_TIMEOUT /\ ~pcpi_timeout' /\ ~mac_stage1_valid'
        BY <2>2, <2>5, <3>2 DEF OfferMoves, Offered
      <4> QED BY <4>1, ParamAssumption DEF TimeoutWithin
    <3> QED BY <3>1, <3>2
  <2> QED BY <1>2, <2>2, <2>3, <2>4, <2>5 DEF FarAway, Away
<1> QED BY <1>1, <1>2

\* Each unit answers its own instructions only.
LEMMA OwnAnswers ==
    ASSUME SysInv
    PROVE  /\ mac_ready /\ pcpi_valid => pcpi_insn = "mac4"
           /\ mul_ready => Offered(MulInsns) /\ SerialMul
           /\ fast_ready => Offered(MulInsns) /\ ENABLE_FAST_MUL
           /\ div_ready => Offered(DivInsns) /\ ENABLE_DIV
<1>1. mul_ready => Offered(MulInsns) /\ SerialMul
  BY DEF SysInv, MulInv, MulBusy, Offered, Away
<1>2. fast_ready => Offered(MulInsns) /\ ENABLE_FAST_MUL
  <2>1. Last \in 0 .. Last /\ fast_ready = fast_active[Last]
    BY DEF Last, fast_ready
  <2> QED BY <2>1 DEF SysInv, FastInv, Offered
<1>3. div_ready => Offered(DivInsns) /\ ENABLE_DIV
  BY DEF SysInv, DivInv, DivBusy, Offered, FarAway, Away
<1> QED BY <1>1, <1>2, <1>3 DEF SysInv, MacInv

\* While an instruction is offered, only its own unit can end the offer.
LEMMA MulWaits ==
    ASSUME SysInv, Offered(MulInsns), SerialMul, ~mul_ready
    PROVE  Unanswered
<1>1. pcpi_insn # "mac4" /\ pcpi_insn \notin DivInsns
  BY DEF Offered, MulInsns, DivInsns
<1>2. ~pcpi_timeout
  BY DEF SysInv, MulInv
<1> QED BY <1>1, <1>2, OwnAnswers DEF Offered, Unanswered, pcpi_int_ready, pcpi_mac_ready, pcpi_mul_ready,
           pcpi_div_ready, SerialMul

LEMMA MulTick ==
    ASSUME Supported, SysInv, OfferMoves, TypeOK', BusInv', ~Settling, held' = 0,
           UnitsStep(Request, TRUE)
    PROVE  MulInv'
<1> USE DEF SysInv
<1>1. CASE ~SerialMul
  <2>1. UNCHANGED mulVars /\ UNCHANGED ENABLE_FAST_MUL
    BY <1>1 DEF UnitsStep
  <2>2. /\ mul_instr' = "none" /\ ~mul_wait' /\ ~mul_wait_q'
        /\ mul_waiting' /\ ~mul_finish' /\ ~mul_ready'
    BY <1>1, <2>1 DEF mulVars, MulInv
  <2> QED BY <1>1, <2>1, <2>2 DEF MulInv, SerialMul
<1>2. CASE SerialMul
  <2>1. MulDecode(Request, TRUE) /\ MulAnswer(TRUE) /\ (MulLoad(Request) \/ MulIterate)
    BY <1>2 DEF UnitsStep, MulStep
  <2>2. SerialMul'
    BY <1>2 DEF UnitsStep, SerialMul
  <2>3. pcpi_insn # "none" /\ "none" \notin MulInsns
    BY DEF BusInv, PcpiInsns, MulInsns, DivInsns
  <2>4. /\ mul_instr' = IF Offered(MulInsns) THEN pcpi_insn ELSE "none"
        /\ mul_wait' <=> mul_instr # "none"
        /\ mul_wait_q' <=> mul_wait
        /\ mul_ready' <=> mul_finish
        /\ mul_finish /\ mul_op.insn = mul_instr => mul_rd' = mul_op
    BY <2>1, RequestFields DEF MulDecode, MulAnswer, Instr, Offered
  <2>5. \/ /\ mul_waiting /\ mul_op' = Op(mul_instr, pcpi_rs)
           /\ mul_waiting' <=> ~(mul_wait /\ ~mul_wait_q)
           /\ ~mul_finish'
        \/ /\ ~mul_waiting /\ mul_op' = mul_op
           /\ mul_finish' <=> mul_counter = 0
           /\ mul_waiting' <=> mul_counter = 0
    BY <2>1, RequestFields DEF MulLoad, MulIterate, mul_start
  \* An answer comes when the start is over, so the edge is never seen again.
  <2>6. Offered(MulInsns) /\ ~Unanswered => mul_wait /\ mul_wait_q /\ mul_instr = pcpi_insn
    BY <1>2, MulWaits DEF MulInv, MulBusy
  <2>7. /\ mul_instr' # "none" =>
             /\ pcpi_valid' \/ FarAway'
             /\ pcpi_valid' => mul_instr' = pcpi_insn' /\ pcpi_insn' \in MulInsns
             /\ ~pcpi_valid' => mul_wait'
    BY <2>3, <2>4, <2>6 DEF OfferMoves, Offered, FarAway, Away
  <2>8. mul_wait' =>
             /\ (pcpi_valid' /\ mul_instr' # "none") \/ Away'
             /\ ~pcpi_valid' => mul_wait_q'
    <3>1. CASE pcpi_valid
      BY <2>3, <2>4, <2>6, <3>1 DEF OfferMoves, Offered, FarAway, MulInv
    <3>2. CASE ~pcpi_valid
      BY <2>4, <3>2 DEF OfferMoves, FarAway, MulInv
    <3> QED BY <3>1, <3>2
  <2>9. mul_wait_q' /\ pcpi_valid' => mul_wait'
    BY <2>4 DEF OfferMoves, MulInv, FarAway, Away
  \* Once it runs, the offer lasts.
  <2>10. ASSUME MulBusy, ~mul_ready
         PROVE  MulBusy' /\ Own' = Own
    <3>1. Offered(MulInsns) /\ mul_instr = pcpi_insn /\ mul_instr # "none"
      BY <2>3, <2>10 DEF MulBusy, MulInv, Away, Offered
    <3>2. Unanswered
      BY <1>2, <2>10, <3>1, MulWaits
    <3> QED BY <2>4, <2>10, <3>1, <3>2 DEF MulBusy, OfferMoves, Offered, Own
  <2>11. ASSUME ~mul_waiting'
         PROVE  MulBusy' /\ ~mul_finish' /\ ~mul_ready' /\ mul_op' = Own'
    <3>1. CASE mul_waiting
      <4>1. mul_wait /\ ~mul_wait_q /\ mul_op' = Op(mul_instr, pcpi_rs) /\ ~mul_finish'
        BY <2>5, <2>11, <3>1
      <4>2. pcpi_valid /\ mul_instr # "none" /\ mul_instr = pcpi_insn /\ pcpi_insn \in MulInsns
        BY <4>1 DEF MulInv, Away
      <4>3. ~mul_finish /\ ~mul_ready
        BY <4>1 DEF MulInv, MulBusy
      <4>4. Unanswered
        BY <1>2, <4>2, <4>3, MulWaits DEF Offered
      <4>5. pcpi_valid' /\ UNCHANGED <<pcpi_insn, pcpi_rs>>
        BY <4>2, <4>4 DEF OfferMoves
      <4> QED BY <2>4, <4>1, <4>2, <4>3, <4>5 DEF MulBusy, Own, Offered
    <3>2. CASE ~mul_waiting
      <4>1. MulBusy /\ ~mul_finish /\ ~mul_ready /\ mul_op = Own
        BY <3>2 DEF MulInv
      <4>2. mul_op' = mul_op /\ ~mul_finish'
        BY <2>5, <2>11, <3>2
      <4> QED BY <2>4, <2>10, <4>1, <4>2
    <3> QED BY <3>1, <3>2
  <2>12. ASSUME mul_finish'
         PROVE  MulBusy' /\ mul_waiting' /\ ~mul_ready' /\ mul_op' = Own'
    <3>1. ~mul_waiting /\ mul_waiting' /\ mul_op' = mul_op
      BY <2>5, <2>12
    <3>2. MulBusy /\ ~mul_finish /\ ~mul_ready /\ mul_op = Own
      BY <3>1 DEF MulInv
    <3> QED BY <2>4, <2>10, <3>1, <3>2
  <2>13. ASSUME mul_ready'
         PROVE  MulBusy' /\ mul_waiting' /\ ~mul_finish' /\ mul_rd' = Own'
    <3>1. MulBusy /\ mul_waiting /\ ~mul_ready /\ mul_op = Own /\ mul_finish
      BY <2>4, <2>13 DEF MulInv
    <3>2. mul_waiting' /\ ~mul_finish'
      BY <2>5, <3>1 DEF MulBusy
    <3>3. mul_op.insn = mul_instr
      BY <2>3, <3>1 DEF MulBusy, Own, Op
    <3> QED BY <2>4, <2>10, <3>1, <3>2, <3>3
  <2>14. ASSUME Offered(MulInsns)'
         PROVE  /\ TimeoutWithin(IF mul_wait THEN 2 ELSE IF mul_instr # "none" THEN 1 ELSE 0)'
                /\ ~pcpi_timeout'
    <3>1. CASE pcpi_valid
      <4>1. Unanswered /\ pcpi_insn \in MulInsns
        BY <2>14, <3>1 DEF OfferMoves, Offered, FarAway, Away
      <4>2. mul_instr' # "none"
        BY <2>3, <2>4, <3>1, <4>1 DEF Offered
      <4>3. TimeoutWithin(IF mul_wait THEN 2 ELSE IF mul_instr # "none" THEN 1 ELSE 0)
        BY <1>2, <3>1, <4>1 DEF MulInv, Offered
      <4>4. mul_wait => pcpi_int_wait /\ mul_instr # "none"
        BY <1>2, <3>1 DEF pcpi_int_wait, MulInv, Away
      <4>5. CASE mul_wait
        <5>1. TimeoutWithin(2)' /\ ~pcpi_timeout'
          BY <3>1, <4>1, <4>3, <4>4, <4>5, TimeoutMoves DEF CoreInv
        <5> QED BY <2>4, <4>4, <4>5, <5>1
      <4>6. CASE ~mul_wait /\ mul_instr # "none"
        <5>1. TimeoutWithin(2)' /\ ~pcpi_timeout'
          BY <3>1, <4>1, <4>3, <4>6, TimeoutMoves DEF CoreInv
        <5> QED BY <2>4, <4>6, <5>1
      <4>7. CASE ~mul_wait /\ mul_instr = "none"
        <5>1. TimeoutWithin(1)' /\ ~pcpi_timeout'
          BY <3>1, <4>1, <4>3, <4>7, TimeoutMoves DEF CoreInv
        <5> QED BY <2>4, <4>2, <4>7, <5>1
      <4> QED BY <4>5, <4>6, <4>7
    <3>2. CASE ~pcpi_valid
      <4>1. pcpi_timeout_counter' = PCPI_TIMEOUT /\ ~pcpi_timeout' /\ ~Away
        BY <2>14, <3>2 DEF OfferMoves, Offered
      <4>2. mul_instr' = "none" /\ ~mul_wait'
        BY <2>4, <3>2, <4>1 DEF Offered, MulInv, FarAway
      <4> QED BY <4>1, <4>2, ParamAssumption DEF TimeoutWithin
    <3> QED BY <3>1, <3>2
  <2> QED BY <2>2, <2>7, <2>8, <2>9, <2>11, <2>12, <2>13, <2>14 DEF MulInv
<1> QED BY <1>1, <1>2

-----------------------------------------------------------------------------
(* The fast multiplier                                                     *)

LEMMA FastTick ==
    ASSUME Supported, SysInv, OfferMoves, TypeOK', BusInv', UnitsStep(Request, TRUE)
    PROVE  FastInv'
<1> USE DEF SysInv
<1>1. CASE ~ENABLE_FAST_MUL
  <2>1. UNCHANGED <<fast_active, ENABLE_FAST_MUL>>
    BY <1>1 DEF UnitsStep, fastVars
  <2> QED BY <1>1, <2>1 DEF FastInv
<1>2. CASE ENABLE_FAST_MUL
  <2>1. FastStep(Request, TRUE) /\ ENABLE_FAST_MUL'
    BY <1>2 DEF UnitsStep
  <2> DEFINE decoded == IF Offered(MulInsns) THEN pcpi_insn ELSE "none"
             starts  == Offered(MulInsns) /\ \A s \in 0 .. Last : ~fast_active[s]
  <2>2. fast_instr(Request, TRUE) = decoded
    BY RequestFields DEF fast_instr, Supported, Offered
  <2>3. FastBusy <=> \E s \in 0 .. Last : fast_active[s]
    BY DEF FastBusy, Last
  <2>4. pcpi_insn # "none" /\ "none" \notin MulInsns
    BY DEF BusInv, PcpiInsns, MulInsns, DivInsns
  <2>5. FastStarts(Request, TRUE) <=> starts
    BY <2>2, <2>3, <2>4 DEF FastStarts, Offered
  <2>6. /\ \A s \in 0 .. 3 : fast_active'[s] <=> IF s = 0 THEN starts ELSE fast_active[s - 1]
        /\ fast_rs' = IF starts THEN Own ELSE fast_rs
        /\ fast_rs_q' = IF ~MUL_CLKGATE \/ fast_active[0] THEN fast_rs ELSE fast_rs_q
        /\ fast_rd' = IF ~MUL_CLKGATE \/ fast_active[1]
                      THEN IF EXTRA_MUL_FFS THEN fast_rs_q ELSE fast_rs
                      ELSE fast_rd
        /\ fast_rd_q' = IF ~MUL_CLKGATE \/ fast_active[2] THEN fast_rd ELSE fast_rd_q
        /\ fast_shift_out' = (decoded = "mulh")
    BY <2>1, <2>2, <2>5, RequestFields DEF FastStep, Own
  <2>7. fast_ready <=> fast_active[Last]
    BY DEF fast_ready, Last
  <2>8. 0 .. Last \subseteq 0 .. 3 /\ Last \in 0 .. Last /\ Last \in {1, 3}
    BY DEF Last
  <2> HIDE DEF decoded, starts
  \* What is in the pipeline below the last stage belongs to an offer that lasts.
  <2>9. ASSUME Offered(MulInsns), ~fast_ready
        PROVE  Unanswered
    <3>1. ~pcpi_timeout
      BY <1>2, <2>9 DEF FastInv
    <3>2. pcpi_insn # "mac4" /\ pcpi_insn \notin DivInsns
      BY <2>9 DEF Offered, MulInsns, DivInsns
    <3>3. ~SerialMul
      BY <1>2 DEF SerialMul
    <3> QED BY <2>9, <3>1, <3>2, <3>3, OwnAnswers DEF Offered, Unanswered, pcpi_int_ready, pcpi_mac_ready,
               pcpi_mul_ready, pcpi_div_ready
  <2>10. ASSUME NEW s \in 0 .. Last, fast_active'[s]
         PROVE  /\ Offered(MulInsns) /\ ~fast_ready
                /\ s = 0 => starts
                /\ s # 0 => s - 1 \in 0 .. Last /\ fast_active[s - 1]
    <3>1. CASE s = 0
      <4>1. starts
        BY <2>6, <2>10, <3>1
      <4> QED BY <2>7, <2>8, <3>1, <4>1 DEF starts
    <3>2. CASE s # 0
      <4>1. s - 1 \in 0 .. Last /\ s - 1 # Last /\ fast_active[s - 1]
        BY <2>6, <2>8, <2>10, <3>2
      <4>2. ~fast_active[Last]
        BY <2>8, <4>1 DEF FastInv
      <4> QED BY <2>7, <3>2, <4>1, <4>2 DEF FastInv, Offered
    <3> QED BY <3>1, <3>2
  <2>11. ASSUME NEW s \in 0 .. Last, fast_active'[s]
         PROVE  /\ pcpi_valid' /\ pcpi_insn' \in MulInsns /\ Own' = Own
                /\ pcpi_insn' = pcpi_insn /\ Unanswered
    BY <2>9, <2>10, <2>11 DEF OfferMoves, Offered, Own
  <2>12. ASSUME NEW s \in 0 .. Last, fast_active'[s]
         PROVE  FastData(s)' = Own'
    <3>1. CASE s = 0
      BY <2>6, <2>10, <2>11, <2>12, <3>1 DEF FastData
    <3>2. CASE s = 1
      <4>1. fast_active[0] /\ 0 \in 0 .. Last
        BY <2>10, <2>12, <3>2
      <4>2. fast_rs = Own
        BY <4>1 DEF FastInv, FastData
      <4>3. EXTRA_MUL_FFS => fast_rs_q' = Own
        BY <2>6, <4>1, <4>2
      <4>4. ~EXTRA_MUL_FFS => fast_rd' = Own
        BY <2>6, <4>2 DEF Supported
      <4> QED BY <2>11, <2>12, <3>2, <4>3, <4>4 DEF FastData
    <3>3. CASE s = 2
      <4>1. fast_active[1] /\ 1 \in 0 .. Last /\ EXTRA_MUL_FFS
        BY <2>10, <2>12, <3>3 DEF Last
      <4>2. fast_rs_q = Own
        BY <4>1 DEF FastInv, FastData
      <4>3. fast_rd' = Own
        BY <2>6, <4>1, <4>2
      <4> QED BY <2>11, <2>12, <3>3, <4>3 DEF FastData
    <3>4. CASE s = 3
      <4>1. fast_active[2] /\ 2 \in 0 .. Last
        BY <2>10, <2>12, <3>4
      <4>2. fast_rd = Own
        BY <4>1 DEF FastInv, FastData
      <4>3. fast_rd_q' = Own
        BY <2>6, <4>1, <4>2
      <4> QED BY <2>11, <2>12, <3>4, <4>3 DEF FastData
    <3> QED BY <2>8, <2>12, <3>1, <3>2, <3>3, <3>4
  <2>13. ASSUME NEW s \in 0 .. Last, fast_active'[s]
         PROVE  fast_shift_out' = (pcpi_insn' = "mulh")
    <3>1. fast_shift_out' = (pcpi_insn = "mulh")
      BY <2>6, <2>10, <2>13 DEF decoded
    <3> QED BY <2>11, <2>13, <3>1
  <2>14. ASSUME NEW s \in 0 .. Last, fast_active'[s], NEW t \in 0 .. Last, fast_active'[t]
         PROVE  t = s
    <3>1. CASE s = 0 /\ t # 0
      <4>1. starts /\ t - 1 \in 0 .. Last /\ fast_active[t - 1]
        BY <2>10, <2>14, <3>1
      <4> QED BY <4>1 DEF starts
    <3>2. CASE s # 0 /\ t = 0
      <4>1. starts /\ s - 1 \in 0 .. Last /\ fast_active[s - 1]
        BY <2>10, <2>14, <3>2
      <4> QED BY <4>1 DEF starts
    <3>3. CASE s # 0 /\ t # 0
      <4>1. /\ s - 1 \in 0 .. Last /\ fast_active[s - 1]
            /\ t - 1 \in 0 .. Last /\ fast_active[t - 1]
        BY <2>10, <2>14, <3>3
      <4>2. t - 1 = s - 1
        BY <4>1 DEF FastInv
      <4> QED BY <2>8, <4>2
    <3> QED BY <3>1, <3>2, <3>3
  <2>15. ASSUME NEW s \in 0 .. Last, fast_active'[s]
         PROVE  TimeoutWithin(s + 1)' /\ (s # 3 => ~pcpi_timeout')
    <3>1. Offered(MulInsns) /\ Unanswered
      BY <2>10, <2>11, <2>15
    <3>2. TimeoutWithin(s)
      <4>1. CASE s = 0
        BY <1>2, <2>10, <2>15, <3>1, <4>1 DEF starts, FastInv
      <4>2. CASE s # 0
        <5>1. s - 1 \in 0 .. Last /\ fast_active[s - 1] /\ (s - 1) + 1 = s
          BY <2>8, <2>10, <2>15, <4>2
        <5> QED BY <5>1 DEF FastInv
      <4> QED BY <4>1, <4>2
    <3>3. s \in 0 .. 3 /\ s + 1 \in 0 .. 4 /\ s < s + 1 /\ (s # 3 => s < 3)
      BY <2>8
    <3> QED BY <3>1, <3>2, <3>3, TimeoutMoves DEF Offered, CoreInv
  <2>16. ASSUME Offered(MulInsns)'
         PROVE  /\ (\A s \in 0 .. Last : ~fast_active'[s]) => TimeoutWithin(0)'
                /\ ~pcpi_timeout' \/ fast_active'[Last]
    <3>1. CASE pcpi_valid
      <4>1. Unanswered /\ Offered(MulInsns)
        BY <2>16, <3>1 DEF OfferMoves, Offered, FarAway, Away
      <4>2. \E s \in 0 .. Last : fast_active'[s]
        <5>1. CASE starts
          BY <2>6, <2>8, <5>1
        <5>2. CASE ~starts
          <6>1. PICK s \in 0 .. Last : fast_active[s]
            BY <4>1, <5>2 DEF starts
          <6>2. s # Last
            BY <1>2, <2>7, <4>1, <6>1 DEF Unanswered, pcpi_int_ready, pcpi_mul_ready
          <6>3. s + 1 \in 0 .. Last /\ s + 1 \in 0 .. 3 /\ s + 1 # 0 /\ (s + 1) - 1 = s
            BY <2>8, <6>1, <6>2
          <6>4. fast_active'[s + 1]
            BY <2>6, <6>1, <6>3
          <6> QED BY <6>3, <6>4
        <5> QED BY <5>1, <5>2
      <4>3. PICK s \in 0 .. Last : fast_active'[s]
        BY <4>2
      <4>4. s = 3 => s = Last
        BY <2>8
      <4> QED BY <2>15, <4>3, <4>4
    <3>2. CASE ~pcpi_valid
      <4>1. pcpi_timeout_counter' = PCPI_TIMEOUT /\ ~pcpi_timeout'
        BY <2>16, <3>2 DEF OfferMoves, Offered
      <4> QED BY <4>1, ParamAssumption DEF TimeoutWithin
    <3> QED BY <3>1, <3>2
  <2>17. fast_ready' = fast_active'[Last]
    BY DEF fast_ready, Last
  <2> QED BY <2>1, <2>11, <2>12, <2>13, <2>14, <2>15, <2>16, <2>17 DEF FastInv
<1> QED BY <1>1, <1>2

-----------------------------------------------------------------------------
(* The divider                                                             *)

LEMMA DivWaits ==
    ASSUME SysInv, Offered(DivInsns), ENABLE_DIV, ~div_ready
    PROVE  Unanswered
<1>1. pcpi_insn # "mac4" /\ pcpi_insn \notin MulInsns
  BY DEF Offered, MulInsns, DivInsns
<1>2. ~pcpi_timeout
  BY DEF SysInv, DivInv
<1> QED BY <1>1, <1>2, OwnAnswers DEF Offered, Unanswered, pcpi_int_ready, pcpi_mac_ready, pcpi_mul_ready,
           pcpi_div_ready, SerialMul

LEMMA DivTick ==
    ASSUME Supported, SysInv, OfferMoves, TypeOK', BusInv', UnitsStep(Request, TRUE)
    PROVE  DivInv'
<1> USE DEF SysInv
<1>1. CASE ~ENABLE_DIV
  <2>1. UNCHANGED divVars
    BY <1>1 DEF UnitsStep
  <2>2. div_instr' = "none" /\ ~div_wait' /\ ~div_wait_q' /\ ~div_running' /\ ~div_ready'
    BY <1>1, <2>1 DEF divVars, DivInv
  <2> QED BY <1>1, <2>2 DEF DivInv
<1>2. CASE ENABLE_DIV
  <2>1. DivDecode(Request, TRUE) /\ (DivStart(Request) \/ DivAnswer \/ DivIterate)
    BY <1>2 DEF UnitsStep, DivStep
  <2>2. pcpi_insn # "none" /\ "none" \notin DivInsns
    BY DEF BusInv, PcpiInsns, MulInsns, DivInsns
  <2>3. /\ div_instr' = IF ~div_ready /\ Offered(DivInsns) THEN pcpi_insn ELSE "none"
        /\ div_wait' <=> div_instr # "none"
        /\ div_wait_q' <=> div_wait
    BY <2>1, RequestFields DEF DivDecode, Instr, Offered
  <2>4. \/ /\ div_wait /\ ~div_wait_q
           /\ div_running' /\ div_op' = Op(div_instr, pcpi_rs) /\ ~div_ready'
        \/ /\ div_running /\ ~div_running' /\ div_ready'
           /\ div_op.insn = div_instr => div_rd' = div_op
        \/ /\ (div_running' <=> div_running) /\ div_op' = div_op /\ ~div_ready'
    BY <2>1, RequestFields DEF DivStart, DivAnswer, DivIterate, div_start
  <2>5. div_wait /\ ~div_wait_q => Offered(DivInsns) /\ div_instr = pcpi_insn
    BY <2>2 DEF DivInv, Offered, FarAway, Away
  <2>6. ASSUME Offered(DivInsns), ~div_ready
        PROVE  pcpi_valid' /\ pcpi_insn' = pcpi_insn /\ Own' = Own
    BY <1>2, <2>6, DivWaits DEF OfferMoves, Offered, Own
  <2>7. div_instr' # "none" => pcpi_valid' /\ div_instr' = pcpi_insn' /\ pcpi_insn' \in DivInsns
    BY <2>2, <2>3, <2>6 DEF Offered
  <2>8. div_wait' =>
          /\ (pcpi_valid' /\ div_instr' # "none") \/ FarAway'
          /\ ~pcpi_valid' => div_wait_q'
    <3>1. SUFFICES ASSUME div_instr # "none"
                   PROVE  /\ (pcpi_valid' /\ div_instr' # "none") \/ FarAway'
                          /\ ~pcpi_valid' => div_wait_q'
      BY <2>3
    <3>2. Offered(DivInsns)
      BY <3>1 DEF DivInv, Offered
    <3>3. CASE div_ready
      BY <2>3, <3>2, <3>3 DEF DivInv, DivBusy, OfferMoves, Offered, Unanswered, pcpi_int_ready,
         pcpi_div_ready
    <3>4. CASE ~div_ready
      BY <2>2, <2>3, <2>6, <3>2, <3>4
    <3> QED BY <3>3, <3>4
  <2>9. div_wait_q' => (pcpi_valid' /\ div_wait') \/ Away'
    <3>1. SUFFICES ASSUME div_wait PROVE (pcpi_valid' /\ div_wait') \/ Away'
      BY <2>3
    <3>2. CASE pcpi_valid
      BY <2>3, <3>1, <3>2 DEF DivInv, OfferMoves, FarAway, Away
    <3>3. CASE ~pcpi_valid
      BY <3>1, <3>3 DEF DivInv, OfferMoves
    <3> QED BY <3>2, <3>3
  <2>10. ASSUME DivBusy, ~div_ready
         PROVE  DivBusy' /\ Own' = Own
    <3>1. Offered(DivInsns) /\ div_instr # "none"
      BY <2>2, <2>10 DEF DivInv, DivBusy, Offered, FarAway, Away
    <3> QED BY <2>3, <2>6, <2>10, <3>1 DEF DivBusy
  <2>11. ASSUME div_running'
         PROVE  DivBusy' /\ ~div_ready' /\ div_op' = Own'
    <3>1. CASE div_wait /\ ~div_wait_q /\ div_op' = Op(div_instr, pcpi_rs) /\ ~div_ready'
      <4>1. Offered(DivInsns) /\ div_instr = pcpi_insn /\ ~div_ready /\ div_op' = Own
        BY <2>5, <3>1 DEF DivInv, DivBusy, Own
      <4>2. div_instr # "none"
        BY <2>2, <4>1 DEF Offered
      <4> QED BY <2>3, <2>6, <3>1, <4>1, <4>2 DEF DivBusy
    <3>2. CASE div_running /\ div_op' = div_op /\ ~div_ready'
      <4>1. DivBusy /\ ~div_ready /\ div_op = Own
        BY <3>2 DEF DivInv
      <4> QED BY <2>10, <3>2, <4>1
    <3> QED BY <2>4, <2>11, <3>1, <3>2
  <2>12. ASSUME div_ready'
         PROVE  DivBusy' /\ ~div_running' /\ div_rd' = Own'
    <3>1. div_running /\ ~div_running' /\ (div_op.insn = div_instr => div_rd' = div_op)
      BY <2>4, <2>12
    <3>2. DivBusy /\ ~div_ready /\ div_op = Own
      BY <3>1 DEF DivInv
    <3>3. div_op.insn = div_instr
      BY <2>2, <3>2 DEF DivBusy, Own, Op
    <3> QED BY <2>10, <3>1, <3>2, <3>3
  <2>13. ASSUME Offered(DivInsns)'
         PROVE  /\ TimeoutWithin(IF div_wait THEN 2 ELSE IF div_instr # "none" THEN 1 ELSE 0)'
                /\ ~pcpi_timeout'
    <3>1. CASE pcpi_valid
      <4>1. Unanswered /\ Offered(DivInsns)
        BY <2>13, <3>1 DEF OfferMoves, Offered, FarAway, Away
      <4>2. ~div_ready
        BY <1>2, <4>1 DEF Unanswered, pcpi_int_ready, pcpi_div_ready
      <4>3. div_instr' # "none"
        BY <2>2, <2>3, <4>1, <4>2 DEF Offered
      <4>4. TimeoutWithin(IF div_wait THEN 2 ELSE IF div_instr # "none" THEN 1 ELSE 0)
        BY <1>2, <4>1 DEF DivInv
      <4>5. div_wait => pcpi_int_wait /\ div_instr # "none"
        BY <1>2, <3>1 DEF pcpi_int_wait, DivInv, FarAway, Away
      <4>6. CASE div_wait
        <5>1. TimeoutWithin(2)' /\ ~pcpi_timeout'
          BY <3>1, <4>1, <4>4, <4>5, <4>6, TimeoutMoves DEF CoreInv
        <5> QED BY <2>3, <4>5, <4>6, <5>1
      <4>7. CASE ~div_wait /\ div_instr # "none"
        <5>1. TimeoutWithin(2)' /\ ~pcpi_timeout'
          BY <3>1, <4>1, <4>4, <4>7, TimeoutMoves DEF CoreInv
        <5> QED BY <2>3, <4>7, <5>1
      <4>8. CASE ~div_wait /\ div_instr = "none"
        <5>1. TimeoutWithin(1)' /\ ~pcpi_timeout'
          BY <3>1, <4>1, <4>4, <4>8, TimeoutMoves DEF CoreInv
        <5> QED BY <2>3, <4>3, <4>8, <5>1
      <4> QED BY <4>6, <4>7, <4>8
    <3>2. CASE ~pcpi_valid
      <4>1. pcpi_timeout_counter' = PCPI_TIMEOUT /\ ~pcpi_timeout'
        BY <2>13, <3>2 DEF OfferMoves, Offered
      <4>2. div_instr' = "none" /\ ~div_wait'
        BY <2>3, <3>2 DEF Offered, DivInv
      <4> QED BY <4>1, <4>2, ParamAssumption DEF TimeoutWithin
    <3> QED BY <3>1, <3>2
  <2> QED BY <1>2, <2>7, <2>8, <2>9, <2>11, <2>12, <2>13 DEF DivInv
<1> QED BY <1>1, <1>2

-----------------------------------------------------------------------------
(* Reset                                                                   *)

\* In reset the core offers nothing, and the second cycle of it clears what the
\* first left of the serial multiplier.
LEMMA ResetUnits ==
    ASSUME Supported, SysInv, TypeOK', NEW i, SysReset(i)
    PROVE  MacInv' /\ MulInv' /\ FastInv' /\ DivInv'
<1> USE DEF SysInv
<1>1. UnitsStep(Request, FALSE) /\ held' = IF held < RESET_CYCLES THEN held + 1 ELSE held
  BY DEF SysReset
<1>2. ~pcpi_valid' /\ FarAway'
  BY DEF SysReset, Reset, ResetState, FarAway, Away, LoadingOperands
<1>3. ENABLE_FAST_MUL' = ENABLE_FAST_MUL
  BY <1>1 DEF UnitsStep
<1>4. MacInv'
  <2>1. ~mac_stage1_valid' /\ ~mac_ready' /\ ~mac_wait'
    BY <1>1 DEF UnitsStep, MacStep, macVars, MacInv
  <2> QED BY <1>2, <2>1 DEF MacInv, Offered
<1>5. MulInv'
  <2>1. mul_instr' = "none" /\ mul_waiting' /\ ~mul_finish' /\ ~mul_ready'
    BY <1>1 DEF UnitsStep, MulStep, MulDecode, MulAnswer, mulVars, MulInv
  <2>2. SerialMul => (mul_wait' <=> mul_instr # "none")
    BY <1>1 DEF UnitsStep, MulStep, MulDecode
  <2>3. ~SerialMul => ~mul_wait' /\ ~mul_wait_q'
    BY <1>1 DEF UnitsStep, mulVars, MulInv
  <2>4. held > 0 => ~mul_wait'
    BY <2>2, <2>3 DEF MulInv
  <2>5. held \in 0 .. RESET_CYCLES /\ RESET_CYCLES \in Nat /\ RESET_CYCLES >= 2
    BY ResetAssumption DEF BusInv, Supported
  <2>6. held' > 1 => ~mul_wait'
    BY <1>1, <2>4, <2>5
  <2>7. ~Settling' => ~mul_wait'
    BY <1>1, <2>4, <2>5 DEF Settling
  <2>8. SerialMul' = SerialMul
    BY <1>3 DEF SerialMul
  <2> QED BY <1>2, <2>1, <2>3, <2>6, <2>7, <2>8 DEF MulInv, Offered, FarAway
<1>6. FastInv'
  <2>1. \A s \in 0 .. Last : ~fast_active'[s]
    <3>1. CASE ENABLE_FAST_MUL
      <4>1. 0 .. Last \subseteq 0 .. 3
        BY DEF Last
      <4> QED BY <1>1, <3>1, <4>1 DEF UnitsStep, FastStep
    <3>2. CASE ~ENABLE_FAST_MUL
      BY <1>1, <3>2 DEF UnitsStep, fastVars, FastInv
    <3> QED BY <3>1, <3>2
  <2> QED BY <1>2, <2>1 DEF FastInv, Offered
<1>7. DivInv'
  <2>1. ~div_running' /\ ~div_ready' /\ div_instr' = "none" /\ ~div_wait' /\ ~div_wait_q'
    BY <1>1 DEF UnitsStep, DivStep, DivDecode, divVars, DivInv
  <2> QED BY <1>2, <2>1 DEF DivInv, Offered
<1> QED BY <1>4, <1>5, <1>6, <1>7

-----------------------------------------------------------------------------
(* The system                                                              *)

LEMMA CoreTick ==
    ASSUME CoreInv, NEW i, InputOK(i), Clock(i)
    PROVE  TypeOK' /\ ReqInv' /\ Decoded' /\ PcpiInv'
<1> USE DEF CoreInv
<1>1. TypeOK'
  BY ClockTypes
<1>2. ReqInv'
  BY FetchRequestsStep, LoadingStep, ComputeStep, DataStep DEF Clock, ExecuteStep
<1>3. Decoded' /\ PcpiInv'
  BY DecodedStep, PcpiStep DEF Clock
<1> QED BY <1>1, <1>2, <1>3

LEMMA CoreReset ==
    ASSUME CoreInv, NEW i, InputOK(i), Reset(i)
    PROVE  CoreInv'
<1>1. TypeOK'
  BY ResetTypes DEF CoreInv
<1>2. ReqInv'
  BY DEF Reset, ResetState, ReqInv, DataRequests, FetchRequests, EntryRequests, LoadingOperands
<1>3. Decoded' /\ PcpiInv' /\ OfferInv'
  BY DEF Reset, ResetState, Decoded, PcpiInv, LoadingOperands, OfferInv
<1> QED BY <1>1, <1>2, <1>3 DEF CoreInv

LEMMA SysStart == Supported /\ SysInit => SysInv
<1> SUFFICES ASSUME Supported, SysInit PROVE SysInv
  OBVIOUS
<1>1. Init /\ UnitsInit /\ BusInv
  BY ResetAssumption DEF SysInit, BusInv, PcpiInsns
<1>2. TypeOK
  BY <1>1, InitTypes
<1>3. ReqInv /\ Decoded /\ PcpiInv /\ OfferInv
  BY <1>1 DEF Init, ReqInv, DataRequests, FetchRequests, EntryRequests, Decoded, PcpiInv, OfferInv,
     LoadingOperands
<1>4. ~pcpi_valid
  BY <1>1 DEF Init
<1>5. MacInv /\ MulInv /\ DivInv
  BY <1>1, <1>4 DEF UnitsInit, MacInv, MulInv, DivInv, Offered
<1>6. FastInv
  <2>1. 0 .. Last \subseteq 0 .. 3
    BY DEF Last
  <2>2. \A s \in 0 .. Last : ~fast_active[s]
    BY <1>1, <2>1 DEF UnitsInit
  <2> QED BY <1>4, <2>2 DEF FastInv, Offered
<1> QED BY <1>1, <1>2, <1>3, <1>5, <1>6 DEF SysInv, CoreInv

LEMMA SysStep == Supported /\ SysInv /\ [SysNext]_sysVars => SysInv'
<1> SUFFICES ASSUME Supported, SysInv, [SysNext]_sysVars PROVE SysInv'
  OBVIOUS
<1>1. CASE SysNext
  <2>1. PICK i \in SysInputs : Tick(i) \/ SysReset(i)
    BY <1>1 DEF SysNext
  <2>2. InputOK(i) /\ i.pcpi = Answer
    BY SysInputsOK DEF SysInv, CoreInv, TypeOK
  <2>3. LoadInsn => pcpi_insn' \in PcpiInsns
    BY DEF LoadInsn, SysInv, BusInv, PcpiInsns
  <2>4. CASE Tick(i)
    <3>1. TypeOK' /\ ReqInv' /\ Decoded' /\ PcpiInv'
      BY <2>2, <2>4, CoreTick DEF SysInv, Tick
    <3>2. OfferInv' /\ OfferMoves
      BY <2>2, <2>4, TickMoves DEF SysInv
    <3>3. BusInv' /\ held' = 0 /\ ~Settling
      BY <2>3, <2>4, ResetAssumption DEF Tick, LoadOperands, SysInv, BusInv, Settling
    <3>4. UnitsStep(Request, TRUE) /\ LoadInsn
      BY <2>4 DEF Tick
    <3> QED BY <3>1, <3>2, <3>3, <3>4, MacTick, MulTick, FastTick, DivTick DEF SysInv, CoreInv
  <2>5. CASE SysReset(i)
    <3>1. CoreInv'
      BY <2>2, <2>5, CoreReset DEF SysInv, SysReset
    <3>2. BusInv'
      BY <2>3, <2>5, ResetAssumption DEF SysReset, SysInv, BusInv
    <3> QED BY <2>5, <3>1, <3>2, ResetUnits DEF SysInv, CoreInv
  <2> QED BY <2>1, <2>4, <2>5
<1>2. CASE UNCHANGED sysVars
  <2>1. UNCHANGED vars /\ UNCHANGED unitVars /\ UNCHANGED pcpiBusVars
    BY <1>2 DEF sysVars
  <2>2. CoreInv'
    BY <2>1, TypeStep, ReqStep DEF vars, coreVars, doVars, decVars, pcpiVars, CoreInv, SysInv, Decoded,
       PcpiInv, OfferInv, LoadingOperands, Matches, IsTrap
  <2>3. UNCHANGED <<pcpi_valid, cpu_state, decoder_trigger, pcpi_timeout, pcpi_timeout_counter>>
    BY <2>1 DEF vars, coreVars, decVars, pcpiVars
  <2>4. BusInv' /\ UNCHANGED <<pcpi_insn, pcpi_rs, held>>
    BY <2>1 DEF SysInv, pcpiBusVars, BusInv
  <2>5. UNCHANGED ENABLE_FAST_MUL /\ UNCHANGED macVars /\ UNCHANGED mulVars
        /\ UNCHANGED fastVars /\ UNCHANGED divVars
    BY <2>1 DEF unitVars
  <2> USE DEF Offered, TimeoutWithin, Own, Away, FarAway, LoadingOperands
  <2>6. MacInv'
    BY <2>3, <2>4, <2>5 DEF SysInv, MacInv, macVars
  <2>7. MulInv'
    BY <2>3, <2>4, <2>5 DEF SysInv, MulInv, mulVars, MulBusy, Settling, SerialMul
  <2>8. FastInv'
    BY <2>3, <2>4, <2>5 DEF SysInv, FastInv, fastVars, FastData, fast_ready
  <2>9. DivInv'
    BY <2>3, <2>4, <2>5 DEF SysInv, DivInv, divVars, DivBusy
  <2> QED BY <2>2, <2>4, <2>6, <2>7, <2>8, <2>9 DEF SysInv
<1> QED BY <1>1, <1>2

LEMMA SysInvariant == Supported => (SysSpec => []SysInv)
<1> SUFFICES ASSUME Supported PROVE SysSpec => []SysInv
  OBVIOUS
<1>1. SysInit => SysInv
  BY SysStart
<1>2. SysInv /\ [SysNext]_sysVars => SysInv'
  BY SysStep
<1> QED BY <1>1, <1>2, PTL DEF SysSpec

\* The result the core takes is that of the instruction it offers, on its own
\* operands, and the units never answer together: for any operands, any length
\* of multiplication and division, and resets that come at any time, if they
\* last two cycles.
THEOREM OwnResultTaken == Supported => (SysSpec => []TakesOwnResult)
<1> SUFFICES ASSUME Supported PROVE SysSpec => []TakesOwnResult
  OBVIOUS
<1>1. SysInv => TakesOwnResult
  <2> SUFFICES ASSUME SysInv PROVE TakesOwnResult
    OBVIOUS
  <2>1. Asking => LoadingOperands
    BY DEF Asking, LoadingOperands
  <2>2. Last \in 0 .. Last /\ fast_ready = fast_active[Last]
    BY DEF Last, fast_ready
  <2>3. pcpi_mul_ready \/ pcpi_div_ready => pcpi_valid /\ pcpi_insn # "mac4"
    BY OwnAnswers DEF pcpi_mul_ready, pcpi_div_ready, Offered, MulInsns, DivInsns
  <2>4. ~(pcpi_mul_ready /\ pcpi_div_ready)
    BY OwnAnswers DEF pcpi_mul_ready, pcpi_div_ready, Offered, MulInsns, DivInsns
  <2>5. ~(pcpi_mac_ready /\ (pcpi_mul_ready \/ pcpi_div_ready))
    BY <2>3, OwnAnswers DEF pcpi_mac_ready
  <2>6. ASSUME Asking, pcpi_mac_ready
        PROVE  pcpi_valid /\ pcpi_insn = "mac4" /\ pcpi_insn \in Known /\ pcpi_int_rd = Own
    <3>1. pcpi_valid /\ ENABLE_MAC /\ mac_rd = Own /\ pcpi_insn = "mac4"
      BY <2>1, <2>6 DEF SysInv, MacInv, Away, pcpi_mac_ready
    <3> QED BY <2>6, <3>1 DEF Known, pcpi_int_rd
  <2>7. ASSUME pcpi_mul_ready, ~pcpi_mac_ready
        PROVE  pcpi_valid /\ pcpi_insn \in Known /\ pcpi_int_rd = Own
    <3>1. CASE ENABLE_FAST_MUL
      <4>1. fast_ready
        BY <2>7, <3>1 DEF pcpi_mul_ready, SerialMul
      <4>2. /\ pcpi_valid /\ pcpi_insn \in MulInsns /\ FastData(Last) = Own
            /\ fast_shift_out = (pcpi_insn = "mulh")
        BY <2>2, <4>1 DEF SysInv, FastInv
      <4>3. FastData(Last) = IF EXTRA_MUL_FFS THEN fast_rd_q ELSE fast_rd
        BY DEF FastData, Last
      <4>4. pcpi_insn # "none" /\ Own.insn = pcpi_insn
        BY DEF SysInv, BusInv, PcpiInsns, MulInsns, DivInsns, Own, Op
      <4>5. fast_result = Own
        BY <4>2, <4>3, <4>4 DEF fast_result
      <4> QED BY <2>7, <3>1, <4>2, <4>5 DEF Known, pcpi_int_rd
    <3>2. CASE ~ENABLE_FAST_MUL
      <4>1. mul_ready /\ ENABLE_MUL
        BY <2>7, <3>2 DEF pcpi_mul_ready, SerialMul
      <4>2. mul_rd = Own /\ Offered(MulInsns)
        BY <4>1, OwnAnswers DEF SysInv, MulInv
      <4> QED BY <2>7, <3>2, <4>1, <4>2 DEF Known, pcpi_int_rd, Offered
    <3> QED BY <3>1, <3>2
  <2>8. ASSUME pcpi_div_ready, ~pcpi_mac_ready, ~pcpi_mul_ready
        PROVE  pcpi_valid /\ pcpi_insn \in Known /\ pcpi_int_rd = Own
    <3>1. div_ready /\ ENABLE_DIV
      BY <2>8 DEF pcpi_div_ready
    <3>2. div_rd = Own /\ Offered(DivInsns)
      BY <3>1, OwnAnswers DEF SysInv, DivInv
    <3> QED BY <2>8, <3>1, <3>2 DEF Known, pcpi_int_rd, Offered
  <2> QED BY <2>4, <2>5, <2>6, <2>7, <2>8 DEF TakesOwnResult, pcpi_int_ready, Own
<1> QED BY <1>1, SysInvariant, PTL

\* pcpi_wait comes early enough: an instruction some unit executes is never
\* given up as illegal, and the fast multiplier, which does not wait, answers
\* before the timeout.
THEOREM KnownIsAnswered == Supported => (SysSpec => []KnownNeverTimesOut)
<1> SUFFICES ASSUME Supported PROVE SysSpec => []KnownNeverTimesOut
  OBVIOUS
<1>1. SysInv => KnownNeverTimesOut
  <2> SUFFICES ASSUME SysInv, Asking, pcpi_timeout, ~pcpi_int_ready, pcpi_insn \in Known PROVE FALSE
    BY DEF KnownNeverTimesOut
  <2>1. pcpi_valid
    BY DEF Asking, SysInv, CoreInv, PcpiInv, LoadingOperands
  <2>2. pcpi_insn \notin MulInsns \/ ~(SerialMul \/ ENABLE_FAST_MUL)
    BY <2>1 DEF SysInv, MulInv, FastInv, Offered, pcpi_int_ready, pcpi_mul_ready
  <2>3. pcpi_insn \notin DivInsns \/ ~ENABLE_DIV
    BY <2>1 DEF SysInv, DivInv, Offered
  <2>4. pcpi_insn # "mac4" \/ ~ENABLE_MAC
    BY <2>1 DEF SysInv, MacInv, Offered
  <2> QED BY <2>2, <2>3, <2>4 DEF Known, SerialMul
<1> QED BY <1>1, SysInvariant, PTL

-----------------------------------------------------------------------------
(* The system is a core whose co-processors answer as PicoCore allows.     *)

\* An answer nobody asked for changes nothing: with pcpi_valid low the core does
\* what it would do without it.
LEMMA AnswerIgnored ==
    ASSUME ~pcpi_valid, OfferInv, ~(Asking /\ pcpi_int_ready),
           NEW j, ~j.pcpi.ready, ~j.pcpi.wait, NEW i, i.pcpi = Answer,
           i.mem_ready = j.mem_ready, i.lo = j.lo, i.hi = j.hi, i.irq = j.irq
    PROVE  /\ Clock(i) => Clock(j)
           /\ Reset(i) => Reset(j)
<1>1. mem_xfer(i) = mem_xfer(j)
  BY DEF mem_xfer
<1>2. mem_rdata_latched(i) = mem_rdata_latched(j)
  BY <1>1 DEF mem_rdata_latched
<1>3. mem_done(i) = mem_done(j)
  BY <1>1, <1>2 DEF mem_done
<1>4. mem_la_firstword_xfer(i) = mem_la_firstword_xfer(j)
  BY <1>1 DEF mem_la_firstword_xfer
<1>5. mem_la_read(i) = mem_la_read(j) /\ mem_la_addr(i) = mem_la_addr(j)
  BY <1>2, <1>4 DEF mem_la_read, mem_la_addr
<1>6. MemStep(i) => MemStep(j)
  BY <1>1, <1>2, <1>5 DEF MemStep, MemRegs, MemRequest, MemIdle, MemStartRead, MemStartWrite, MemWait,
     MemSecondWord, MemReadDone, MemWriteDone, MemTrapped
<1>7. MemReset(i) => MemReset(j)
  BY <1>1, <1>2 DEF MemReset
<1>8. Default(i) = Default(j) /\ Fetched(i) = Fetched(j)
  BY <1>3 DEF Default, Fetched
<1>9. Asking /\ WITH_PCPI => PcpiCycle(i) = PcpiCycle(j)
  BY <1>8 DEF PcpiCycle, Raise, Answer
<1>10. ASSUME NEW r PROVE Finish(i, r) => Finish(j, r)
  <2>1. Requests(i, r) => Requests(j, r)
    BY <1>3 DEF Requests
  <2>2. Timeout(i) => Timeout(j)
    BY DEF Timeout
  <2>3. NextPending(i, r) = NextPending(j, r)
    BY DEF NextPending
  <2>4. Decode(i) => Decode(j)
    BY <1>2, <1>3 DEF Decode
  <2> QED BY <2>1, <2>2, <2>3, <2>4 DEF Finish
<1>11. FetchStep(i) => FetchStep(j)
  <2>1. FetchInterrupt(i) => FetchInterrupt(j)
    BY <1>8, <1>10 DEF FetchInterrupt
  <2>2. FetchSaveReturn(i) => FetchSaveReturn(j)
    BY <1>8, <1>10 DEF FetchSaveReturn
  <2>3. FetchSaveMask(i) => FetchSaveMask(j)
    BY <1>8, <1>10 DEF FetchSaveMask
  <2>4. FetchWaitirq(i) => FetchWaitirq(j)
    BY <1>8, <1>10 DEF FetchWaitirq
  <2>5. LaunchJal(i) => LaunchJal(j)
    BY <1>8, <1>10 DEF LaunchJal
  <2>6. Launch(i) => Launch(j)
    BY <1>8, <1>10 DEF Launch
  <2>7. FetchIdle(i) => FetchIdle(j)
    BY <1>8, <1>10 DEF FetchIdle
  <2> QED BY <2>1, <2>2, <2>3, <2>4, <2>5, <2>6, <2>7 DEF FetchStep
<1>12. Operands(i) => Operands(j)
  BY <1>8, <1>10 DEF Operands, ToExec
<1>13. LdRs1Trap(i) => LdRs1Trap(j)
  <2>1. \A r : Raise(i, r) = Raise(j, r)
    BY DEF Raise
  <2>2. LdRs1Trap(i) /\ WITH_PCPI /\ ENABLE_REGS_DUALPORT => Asking
    BY DEF LdRs1Trap, LdRs1, Asking
  <2>3. CASE ~WITH_PCPI
    BY <1>8, <1>10, <2>1, <2>3 DEF LdRs1Trap
  <2>4. CASE WITH_PCPI /\ ENABLE_REGS_DUALPORT
    BY <1>9, <1>10, <2>2, <2>4 DEF LdRs1Trap
  <2>5. CASE WITH_PCPI /\ ~ENABLE_REGS_DUALPORT
    BY <1>8, <1>10, <2>5 DEF LdRs1Trap
  <2> QED BY <2>3, <2>4, <2>5
<1>14. LdRs2Trap(i) => LdRs2Trap(j)
  <2>1. LdRs2Trap(i) => Asking /\ WITH_PCPI
    BY DEF LdRs2Trap, LdRs2, Asking, OfferInv
  <2> QED BY <1>9, <1>10, <2>1 DEF LdRs2Trap
<1>15. LdRs1Step(i) => LdRs1Step(j)
  <2>1. LdRs1Move(i) => LdRs1Move(j)
    BY <1>8, <1>10 DEF LdRs1Move
  <2>2. LdRs1Retirq(i) => LdRs1Retirq(j)
    BY <1>8, <1>10 DEF LdRs1Retirq
  <2>3. LdRs1Maskirq(i) => LdRs1Maskirq(j)
    BY <1>8, <1>10 DEF LdRs1Maskirq
  <2>4. LdRs1Timer(i) => LdRs1Timer(j)
    BY <1>8, <1>10 DEF LdRs1Timer
  <2>5. LdRs1Load(i) => LdRs1Load(j)
    BY <1>8, <1>10 DEF LdRs1Load
  <2>6. LdRs1ShiftImm(i) => LdRs1ShiftImm(j)
    BY <1>8, <1>10 DEF LdRs1ShiftImm
  <2>7. LdRs1Imm(i) => LdRs1Imm(j)
    BY <1>8, <1>10 DEF LdRs1Imm, ToExec
  <2>8. LdRs1Rs2(i) => LdRs1Rs2(j)
    BY <1>8, <1>10, <1>12 DEF LdRs1Rs2
  <2> QED BY <1>13, <2>1, <2>2, <2>3, <2>4, <2>5, <2>6, <2>7, <2>8 DEF LdRs1Step
<1>16. ExecWait(i) => ExecWait(j)
  BY <1>8, <1>10 DEF ExecWait
<1>17. ExecBranch(i) => ExecBranch(j)
  BY <1>3, <1>8, <1>10 DEF ExecBranch
<1>18. ExecAlu(i) => ExecAlu(j)
  BY <1>8, <1>10 DEF ExecAlu
<1>19. Shift(i) => Shift(j)
  BY <1>8, <1>10 DEF Shift
<1>20. StMem(i) => StMem(j)
  BY <1>3, <1>8, <1>10 DEF StMem, FetchedNext, Accessed, DataDone
<1>21. LdMem(i) => LdMem(j)
  BY <1>3, <1>8, <1>10 DEF LdMem, FetchedNext, Accessed, DataDone
<1>22. Trapped(i) => Trapped(j)
  BY <1>8, <1>10 DEF Trapped
<1>23. ExecuteStep(i) => ExecuteStep(j)
  <2>1. LdRs2Operands(i) => LdRs2Operands(j)
    BY <1>12 DEF LdRs2Operands
  <2> QED BY <1>14, <1>15, <1>16, <1>17, <1>18, <1>19, <1>20, <1>21, <1>22, <2>1 DEF ExecuteStep
<1>24. Clock(i) => Clock(j)
  BY <1>6, <1>11, <1>23 DEF Clock
<1>25. Reset(i) => Reset(j)
  BY <1>7 DEF Reset
<1> QED BY <1>24, <1>25

\* The core with its co-processors implements PicoCore, where the co-processors
\* are an environment: what is proved about every run of the core alone holds of
\* the system.
THEOREM SystemIsCore == Supported /\ PCPI_WAITS => (SysSpec => Spec)
<1> SUFFICES ASSUME Supported, PCPI_WAITS PROVE SysSpec => Spec
  OBVIOUS
<1>1. SysInit => Init
  BY DEF SysInit
<1>2. SysInv /\ [SysNext]_sysVars => [Next]_vars
  <2>1. ASSUME SysInv, SysNext PROVE Next
    <3>1. PICK i \in SysInputs : Tick(i) \/ SysReset(i)
      BY <2>1 DEF SysNext
    <3>2. Clock(i) \/ Reset(i)
      BY <3>1 DEF Tick, SysReset
    <3>3. PICK k \in Inputs : i = [k EXCEPT !.pcpi = Answer]
      BY DEF SysInputs
    <3>4. PICK r \in Ready : \E d \in ReadData(r), q \in SUBSET EXT_IRQ, p \in PcpiInputs :
              k = [mem_ready |-> r, lo |-> d.lo, hi |-> d.hi, irq |-> q, pcpi |-> p]
      BY DEF Inputs
    <3>5. PICK d \in ReadData(r), q \in SUBSET EXT_IRQ, p \in PcpiInputs :
              k = [mem_ready |-> r, lo |-> d.lo, hi |-> d.hi, irq |-> q, pcpi |-> p]
      BY <3>4
    <3>6. i = [mem_ready |-> r, lo |-> d.lo, hi |-> d.hi, irq |-> q, pcpi |-> Answer]
      BY <3>3, <3>5
    <3>7. CASE pcpi_valid
      <4>1. Answer.ready \in BOOLEAN /\ Answer.wait \in BOOLEAN /\ Answer.wr \in BOOLEAN
        BY DEF Answer, pcpi_int_ready, pcpi_int_wait, pcpi_int_wr
      <4>1a. PCPI_WAITS \in BOOLEAN
        BY ParamAssumption
      <4>1b. Answer.wait \in {FALSE, PCPI_WAITS}
        BY <4>1, <4>1a
      <4>1c. Answer = [ready |-> Answer.ready, wait |-> Answer.wait, wr |-> Answer.wr]
        BY DEF Answer
      <4>2. Answer \in [ready : BOOLEAN, wait : {FALSE, PCPI_WAITS}, wr : BOOLEAN]
        BY <4>1, <4>1b, <4>1c
      <4>3. Answer \in PcpiInputs
        BY <3>7, <4>2 DEF PcpiInputs
      <4>4. i \in Inputs
        <5> DEFINE With(s) == {[mem_ready |-> s, lo |-> d1.lo, hi |-> d1.hi, irq |-> q1, pcpi |-> p1] :
                d1 \in ReadData(s), q1 \in SUBSET EXT_IRQ, p1 \in PcpiInputs}
        <5>1. i \in With(r)
          BY <3>6, <4>3
        <5>2. Inputs = UNION {With(s) : s \in Ready}
          BY DEF Inputs
        <5> HIDE DEF With
        <5> QED BY <5>1, <5>2
      <4> QED BY <3>2, <4>4 DEF Next
    <3>8. CASE ~pcpi_valid
      <4>1. p = [ready |-> FALSE, wait |-> FALSE, wr |-> FALSE]
        <5>1. p \in {[ready |-> FALSE, wait |-> FALSE, wr |-> FALSE]}
          BY <3>8, Zenon DEF PcpiInputs
        <5> QED BY <5>1
      <4>2. ~k.pcpi.ready /\ ~k.pcpi.wait
        BY <3>5, <4>1
      <4>3. /\ i.pcpi = Answer /\ i.mem_ready = k.mem_ready /\ i.lo = k.lo /\ i.hi = k.hi
            /\ i.irq = k.irq
        BY <3>5, <3>6
      <4>4. ~(Asking /\ pcpi_int_ready) /\ OfferInv
        <5>1. Asking => LoadingOperands
          BY DEF Asking, LoadingOperands
        <5>2. ~mul_ready /\ ~fast_ready /\ ~div_ready
          BY <2>1, <3>8, OwnAnswers DEF Offered
        <5>3. mac_ready => ~LoadingOperands
          BY <2>1, <3>8 DEF SysInv, MacInv, Away
        <5> QED BY <2>1, <5>1, <5>2, <5>3 DEF pcpi_int_ready, pcpi_mac_ready, pcpi_mul_ready,
                   pcpi_div_ready, SysInv, CoreInv
      <4>5. Clock(k) \/ Reset(k)
        BY <3>2, <3>8, <4>2, <4>3, <4>4, AnswerIgnored
      <4> QED BY <4>5 DEF Next
    <3> QED BY <3>7, <3>8
  <2>2. ASSUME UNCHANGED sysVars PROVE UNCHANGED vars
    BY <2>2 DEF sysVars
  <2> QED BY <2>1, <2>2
<1> QED BY <1>1, <1>2, SysInvariant, PTL DEF SysSpec, Spec

\* So the core with the units of the repository executes programs as the abstract
\* machine does, whatever the units take to answer: each instruction is the one
\* memory holds at the program counter, and its result goes to its own register.
THEOREM SystemImplementsIsa ==
    Supported /\ PCPI_WAITS => (SysSpec => ISASpec /\ []RunsWhatIsAtPc /\ []WritesOwnResult)
BY SystemIsCore, ImplementsIsa, RightInstruction, OwnResult
=============================================================================

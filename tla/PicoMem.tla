------------------------------ MODULE PicoMem ------------------------------
(***************************************************************************)
(* The memory interface of picorv32 (picorv32.v, "Memory Interface"): the  *)
(* four-state machine that turns the main state machine's requests         *)
(* mem_do_prefetch / rinst / rdata / wdata into native bus transfers, the  *)
(* buffer that keeps the upper half of the last instruction word when      *)
(* COMPRESSED_ISA is on, and the look-ahead outputs.                       *)
(*                                                                         *)
(* Addresses are halfword numbers 0 .. 2*WORDS-1 that wrap around.  What   *)
(* memory holds is not modelled; every halfword ("parcel") read carries    *)
(* the address it was read from and whether its low bits are 11, that is,  *)
(* whether it would start a 32-bit instruction.                            *)
(*                                                                         *)
(* One step is one rising edge of clk.  The operators with the names of    *)
(* wires take the inputs of the cycle, a record i, where the wire depends  *)
(* on them.                                                                *)
(***************************************************************************)
EXTENDS Naturals

CONSTANTS
    WORDS,            \* words of the instruction address space
    COMPRESSED_ISA

ASSUME WordsAssumption      == WORDS \in Nat \ {0}
ASSUME CompressedAssumption == COMPRESSED_ISA \in BOOLEAN

HalfAddr == 0 .. 2*WORDS - 1
NoAddr   == 2*WORDS        \* 'x, or the address of something that is no instruction
NoWord   == WORDS          \* the word of NoAddr
DataWord == WORDS + 1      \* the word a load or store addresses
WordAddr == 0 .. WORDS + 1

Odd(a)      == a \in HalfAddr /\ a % 2 = 1
WordOf(a)   == IF a \in HalfAddr THEN a \div 2 ELSE NoWord
NextWord(w) == IF w < WORDS THEN (w + 1) % WORDS ELSE NoWord
Plus(a, n)  == IF a \in HalfAddr THEN (a + n) % (2*WORDS) ELSE NoAddr

\* A parcel, and also an instruction: where it starts and how long it is.
Parcel  == [at : HalfAddr \cup {NoAddr}, long : BOOLEAN]
Unknown == [at |-> NoAddr, long |-> FALSE]

\* The instruction that starts with parcel lo and, if long, goes on with hi.
Join(lo, hi) ==
    [at   |-> IF lo.long /\ hi.at # Plus(lo.at, 1) THEN NoAddr ELSE lo.at,
     long |-> lo.long]

\* The instruction that starts with parcel lo when the rest is still missing.
Alone(lo) == [at |-> IF lo.long THEN NoAddr ELSE lo.at, long |-> lo.long]

VARIABLES
    mem_do_prefetch, mem_do_rinst, mem_do_rdata, mem_do_wdata,  \* requests
    latched_store, latched_branch, reg_out, reg_next_pc,        \* next_pc
    irq_state, trap

VARIABLES
    mem_valid, mem_instr, mem_addr,   \* the bus
    mem_wstrb,                        \* mem_wstrb # 0
    mem_state, mem_la_secondword, mem_la_firstword_reg, last_mem_valid,
    prefetched_high_word, clear_prefetched_high_word_q,
    mem_16bit_buffer, mem_rdata_q,
    last_mem_la_read, last_mem_la_write   \* registers of the FORMAL section

memVars == <<mem_valid, mem_instr, mem_addr, mem_wstrb, mem_state,
             mem_la_secondword, mem_la_firstword_reg, last_mem_valid,
             prefetched_high_word, clear_prefetched_high_word_q,
             mem_16bit_buffer, mem_rdata_q, last_mem_la_read, last_mem_la_write>>

-----------------------------------------------------------------------------
(* Wires                                                                   *)

next_pc == IF latched_store /\ latched_branch THEN reg_out ELSE reg_next_pc

Fetching == mem_do_prefetch \/ mem_do_rinst

mem_la_firstword ==
    COMPRESSED_ISA /\ Fetching /\ Odd(next_pc) /\ ~mem_la_secondword

MutKeepBufferOnBranch ==
    COMPRESSED_ISA /\ (irq_state # 0 \/ (clear_prefetched_high_word_q /\ prefetched_high_word))
clear_prefetched_high_word ==
    COMPRESSED_ISA /\ \/ latched_branch
                      \/ irq_state # 0
                      \/ clear_prefetched_high_word_q /\ prefetched_high_word

mem_la_use_prefetched_high_word ==
    mem_la_firstword /\ prefetched_high_word /\ ~clear_prefetched_high_word

mem_xfer(i) ==
    \/ mem_valid /\ i.mem_ready
    \/ mem_la_use_prefetched_high_word /\ mem_do_rinst

\* Whether the transfer under way began as the first of two: next_pc may have
\* moved to a branch target since, so an older request uses the registered bit.
mem_la_firstword_xfer(i) ==
    COMPRESSED_ISA /\ mem_xfer(i)
                   /\ IF last_mem_valid THEN mem_la_firstword_reg ELSE mem_la_firstword

mem_rdata_latched(i) ==
    IF mem_la_use_prefetched_high_word THEN Alone(mem_16bit_buffer)
    ELSE IF mem_xfer(i)
    THEN IF COMPRESSED_ISA /\ mem_la_secondword THEN Join(mem_16bit_buffer, i.lo)
         ELSE IF mem_la_firstword THEN Alone(i.hi) ELSE Join(i.lo, i.hi)
    ELSE IF mem_la_firstword \/ mem_la_secondword THEN Unknown ELSE mem_rdata_q

mem_done(i) ==
    /\ \/ mem_xfer(i) /\ mem_state # 0 /\ (mem_do_rinst \/ mem_do_rdata \/ mem_do_wdata)
       \/ mem_state = 3 /\ mem_do_rinst
    /\ mem_la_firstword => mem_xfer(i) /\ ~mem_rdata_latched(i).long

mem_la_write == mem_state = 0 /\ mem_do_wdata

\* A second word is read when the first transfer of two brings a long parcel.
mem_la_read(i) ==
    \/ /\ ~mem_la_use_prefetched_high_word /\ mem_state = 0
       /\ Fetching \/ mem_do_rdata
    \/ /\ mem_la_firstword_xfer(i) /\ ~mem_la_secondword
       /\ mem_rdata_latched(i).long

mem_la_addr(i) ==
    IF ~Fetching THEN DataWord
    ELSE IF mem_la_firstword_xfer(i) THEN NextWord(WordOf(next_pc)) ELSE WordOf(next_pc)

-----------------------------------------------------------------------------
(* What the bus may answer.  mem_rdata means something only when a read is *)
(* answered; otherwise its bits are arbitrary, and the core looks at them  *)
(* when it serves an instruction from the buffer without a transfer.       *)

Longs == IF COMPRESSED_ISA THEN BOOLEAN ELSE {TRUE}

LoAddr(w) == IF w < WORDS THEN 2*w ELSE NoAddr
HiAddr(w) == IF w < WORDS THEN 2*w + 1 ELSE NoAddr
Words(w)  == [lo : [at : {LoAddr(w)}, long : Longs], hi : [at : {HiAddr(w)}, long : Longs]]

Junk == [at |-> NoAddr, long |-> TRUE]

ReadData(ready) ==
    IF ready /\ mem_instr THEN Words(mem_addr)
    ELSE IF mem_la_use_prefetched_high_word /\ mem_do_rinst THEN Words(NoWord)
    ELSE {[lo |-> Junk, hi |-> Junk]}

Ready == IF mem_valid THEN BOOLEAN ELSE {FALSE}

-----------------------------------------------------------------------------
(* The registers that every cycle updates, whatever mem_state is.          *)

MemRegs(i) ==
    /\ mem_la_firstword_reg' = IF last_mem_valid THEN mem_la_firstword_reg ELSE mem_la_firstword
    /\ last_mem_valid' = (mem_valid /\ ~i.mem_ready)
    /\ mem_rdata_q' = IF mem_xfer(i) THEN mem_rdata_latched(i) ELSE mem_rdata_q
    /\ clear_prefetched_high_word_q' = clear_prefetched_high_word
    /\ last_mem_la_read' = mem_la_read(i)
    /\ last_mem_la_write' = mem_la_write

\* Address and direction follow the look-ahead outputs; a read that starts
\* from the buffer drives no look-ahead pulse but clears mem_wstrb too.
MutAddrFollowsPc(i) ==
    /\ mem_addr' = mem_la_addr(i)
    /\ mem_wstrb' = IF mem_la_write THEN TRUE
                    ELSE IF mem_la_read(i) \/ (mem_state = 0 /\ Fetching) THEN FALSE
                    ELSE mem_wstrb
MemRequest(i) ==
    /\ mem_addr' = IF mem_la_read(i) \/ mem_la_write THEN mem_la_addr(i) ELSE mem_addr
    /\ mem_wstrb' = IF mem_la_write THEN TRUE
                    ELSE IF mem_la_read(i) \/ (mem_state = 0 /\ Fetching) THEN FALSE
                    ELSE mem_wstrb

\* prefetched_high_word <= v, then cleared if the buffer is to be dropped.
Prefetched(v) == prefetched_high_word' = (v /\ ~clear_prefetched_high_word)

MemIdle(i) ==
    /\ mem_state = 0 /\ ~(Fetching \/ mem_do_rdata \/ mem_do_wdata)
    /\ Prefetched(prefetched_high_word)
    /\ UNCHANGED <<mem_valid, mem_instr, mem_state, mem_la_secondword, mem_16bit_buffer>>

MemStartRead(i) ==
    /\ mem_state = 0 /\ (Fetching \/ mem_do_rdata) /\ ~mem_do_wdata
    /\ mem_valid' = ~mem_la_use_prefetched_high_word
    /\ mem_instr' = Fetching
    /\ mem_state' = 1
    /\ Prefetched(prefetched_high_word)
    /\ UNCHANGED <<mem_la_secondword, mem_16bit_buffer>>

MemStartWrite(i) ==
    /\ mem_state = 0 /\ mem_do_wdata
    /\ mem_valid' = TRUE /\ mem_instr' = FALSE /\ mem_state' = 2
    /\ Prefetched(prefetched_high_word)
    /\ UNCHANGED <<mem_la_secondword, mem_16bit_buffer>>

MemWait(i) ==
    /\ mem_state \in {1, 2} /\ ~mem_xfer(i)
    /\ Prefetched(prefetched_high_word)
    /\ UNCHANGED <<mem_valid, mem_instr, mem_state, mem_la_secondword, mem_16bit_buffer>>

\* The first of two words arrived, or came from the buffer: read the second.
MemSecondWord(i) ==
    /\ mem_state = 1 /\ mem_xfer(i) /\ COMPRESSED_ISA /\ mem_la_read(i)
    /\ mem_valid' = TRUE /\ mem_la_secondword' = TRUE
    /\ mem_16bit_buffer' =
         IF mem_la_use_prefetched_high_word THEN mem_16bit_buffer ELSE i.hi
    /\ Prefetched(prefetched_high_word)
    /\ UNCHANGED <<mem_instr, mem_state>>

\* The read is complete.  The upper half is kept when the lower half did not
\* start an instruction that runs on into it.
MutReadAlwaysHeld(i) ==
    /\ mem_state = 1 /\ mem_xfer(i) /\ ~(COMPRESSED_ISA /\ mem_la_read(i))
    /\ mem_valid' = FALSE /\ mem_la_secondword' = FALSE
    /\ mem_state' = IF mem_do_rinst THEN 0 ELSE 3
    /\ Prefetched(COMPRESSED_ISA /\ (~i.lo.long \/ mem_la_secondword))
    /\ mem_16bit_buffer' = IF COMPRESSED_ISA THEN i.hi ELSE mem_16bit_buffer
    /\ UNCHANGED mem_instr
MemReadDone(i) ==
    /\ mem_state = 1 /\ mem_xfer(i) /\ ~(COMPRESSED_ISA /\ mem_la_read(i))
    /\ mem_valid' = FALSE /\ mem_la_secondword' = FALSE
    /\ mem_state' = IF mem_do_rinst \/ mem_do_rdata THEN 0 ELSE 3
    /\ IF COMPRESSED_ISA /\ ~mem_do_rdata
       THEN LET keep == ~i.lo.long \/ mem_la_secondword IN
            /\ Prefetched(keep)
            /\ mem_16bit_buffer' = IF keep THEN i.hi ELSE mem_16bit_buffer
       ELSE /\ Prefetched(prefetched_high_word)
            /\ UNCHANGED mem_16bit_buffer
    /\ UNCHANGED mem_instr

MemWriteDone(i) ==
    /\ mem_state = 2 /\ mem_xfer(i)
    /\ mem_valid' = FALSE /\ mem_state' = 0
    /\ Prefetched(prefetched_high_word)
    /\ UNCHANGED <<mem_instr, mem_la_secondword, mem_16bit_buffer>>

\* A prefetched instruction waits for the main state machine to ask for it.
MutHeldForEver ==
    /\ mem_state = 3
    /\ mem_state' = 3
    /\ Prefetched(prefetched_high_word)
    /\ UNCHANGED <<mem_valid, mem_instr, mem_la_secondword, mem_16bit_buffer>>
MemHeld ==
    /\ mem_state = 3
    /\ mem_state' = IF mem_do_rinst THEN 0 ELSE 3
    /\ Prefetched(prefetched_high_word)
    /\ UNCHANGED <<mem_valid, mem_instr, mem_la_secondword, mem_16bit_buffer>>

\* After a trap the machine stands still; a request on the bus is completed.
MemTrapped(i) ==
    /\ trap
    /\ mem_valid' = (mem_valid /\ ~i.mem_ready)
    /\ mem_la_secondword' = FALSE /\ prefetched_high_word' = FALSE
    /\ UNCHANGED <<mem_instr, mem_addr, mem_wstrb, mem_state, mem_16bit_buffer>>

MemStep(i) ==
    /\ MemRegs(i)
    /\ \/ /\ ~trap /\ MemRequest(i)
          /\ \/ MemIdle(i) \/ MemStartRead(i) \/ MemStartWrite(i) \/ MemWait(i)
             \/ MemSecondWord(i) \/ MemReadDone(i) \/ MemWriteDone(i) \/ MemHeld
       \/ MemTrapped(i)

MemReset(i) ==
    /\ mem_rdata_q' = IF mem_xfer(i) THEN mem_rdata_latched(i) ELSE mem_rdata_q
    /\ mem_valid' = FALSE /\ mem_state' = 0
    /\ mem_la_secondword' = FALSE /\ prefetched_high_word' = FALSE
    /\ mem_la_firstword_reg' = FALSE /\ last_mem_valid' = FALSE
    /\ clear_prefetched_high_word_q' = COMPRESSED_ISA
    /\ last_mem_la_read' = FALSE /\ last_mem_la_write' = FALSE
    /\ UNCHANGED <<mem_instr, mem_addr, mem_wstrb, mem_16bit_buffer>>
=============================================================================

---------------------------- MODULE NativeMaster ----------------------------
(***************************************************************************)
(* The core as a master of its native memory interface, and the memory     *)
(* behind whatever bus answers it.                                         *)
(*                                                                         *)
(* Its actions are rising edges of clk.  The core raises mem_valid, keeps  *)
(* the request stable until the edge that samples mem_ready, and lowers    *)
(* mem_valid at that edge.  A module that EXTENDS this one adds the bus:   *)
(* it drives mem_ready and mem_rdata, and writes the memory.               *)
(***************************************************************************)
EXTENDS Naturals, FiniteSets

CONSTANTS
    Words,      \* words of memory
    Lanes,      \* byte lanes of a word
    Byte,       \* values of a byte lane
    RESET_GAP   \* cycles mem_valid stays low after the last reset edge, less 1

ASSUME ByteAssumption == Byte # {}
ASSUME GapAssumption  == RESET_GAP \in Nat \ {0}

Data   == [Lanes -> Byte]
Strobe == SUBSET Lanes

VARIABLES
    mem_valid, mem_addr, mem_wdata, mem_wstrb,     \* driven by the core
    hold,                                          \* cycles before mem_valid may rise
    mem_ready, mem_rdata,                          \* driven by the bus
    memory,                                        \* the words
    stored    \* history: the contents the completed stores ask for

coreVars == <<mem_valid, mem_addr, mem_wdata, mem_wstrb, hold>>

mem_addr_is_ram == mem_addr \in Words
Writing         == mem_wstrb # {}

\* A byte-enabled write: lanes in `strobe' come from `data'.
Merge(old, data, strobe) ==
    [l \in Lanes |-> IF l \in strobe THEN data[l] ELSE old[l]]

\* Requests are for addresses in A; the last reset edge has just passed.
CoreInit(A) ==
    /\ mem_valid = FALSE /\ hold = RESET_GAP
    /\ mem_addr \in A /\ mem_wdata \in Data /\ mem_wstrb \in Strobe
    /\ memory \in [Words -> Data] /\ stored = memory

-----------------------------------------------------------------------------
(* The core's side of the edge: one of Reset, Raise, Wait, Accept, Idle.   *)

CoreReset ==
    /\ mem_valid' = FALSE /\ hold' = RESET_GAP
    /\ UNCHANGED <<mem_addr, mem_wdata, mem_wstrb>>

CoreRaise(A) ==
    /\ ~mem_valid /\ hold = 0
    /\ mem_valid' = TRUE
    /\ mem_addr' \in A /\ mem_wdata' \in Data /\ mem_wstrb' \in Strobe
    /\ UNCHANGED hold

CoreIdle ==
    /\ ~mem_valid
    /\ hold' = IF hold = 0 THEN 0 ELSE hold - 1
    /\ UNCHANGED <<mem_valid, mem_addr, mem_wdata, mem_wstrb>>

CoreWait ==
    /\ mem_valid /\ ~mem_ready
    /\ UNCHANGED coreVars

CoreAccept ==
    /\ mem_valid /\ mem_ready
    /\ mem_valid' = FALSE
    /\ UNCHANGED <<mem_addr, mem_wdata, mem_wstrb, hold>>

CoreStep(A) == CoreRaise(A) \/ CoreIdle \/ CoreWait \/ CoreAccept

-----------------------------------------------------------------------------
\* A store counts when the core sees it accepted.
RememberStore ==
    stored' = IF mem_valid /\ mem_ready /\ mem_addr_is_ram
              THEN [stored EXCEPT ![mem_addr] = Merge(@, mem_wdata, mem_wstrb)]
              ELSE stored

\* A store cut off by a reset may have reached the memory or not.
RememberCutOff ==
    stored' = IF mem_valid /\ mem_addr_is_ram
              THEN [stored EXCEPT ![mem_addr] = memory'[mem_addr]]
              ELSE stored

-----------------------------------------------------------------------------
\* What every bus promises: a load from memory that completes returns what the
\* last accepted store left there.  No bus hands over the word of an earlier
\* request, not even after a reset that cut one off, or writes a store late.
LoadReturnsStored ==
    mem_valid /\ mem_ready /\ mem_addr_is_ram /\ ~Writing
        => mem_rdata = stored[mem_addr]
=============================================================================

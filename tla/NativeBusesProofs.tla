------------------------- MODULE NativeBusesProofs -------------------------
(***************************************************************************)
(* Machine-checked proofs about the three buses the native memory master   *)
(* drives, each for memories, words and reset gaps of any size: the DE2    *)
(* bus controller, the AXI4-Lite adapter with its memory, whatever its     *)
(* handlers are delayed, and the Wishbone bridge with its RAM.             *)
(***************************************************************************)
EXTENDS De2Bus, AxiBus, WbBus, TLAPS

-----------------------------------------------------------------------------
(* The native memory master, which every bus has in common                 *)

\* A byte-enabled write yields a word.
LEMMA MergeType ==
    ASSUME NEW old \in Data, NEW data \in Data, NEW strobe \in Strobe
    PROVE  Merge(old, data, strobe) \in Data
BY DEF Merge, Data

\* A store without lanes, that is a load, changes nothing.
LEMMA MergeNone ==
    ASSUME NEW old \in Data, NEW data
    PROVE  Merge(old, data, {}) = old
BY DEF Merge, Data

\* Writing the same lanes twice is the same as writing them once.
LEMMA MergeIdempotent ==
    ASSUME NEW old \in Data, NEW data \in Data, NEW strobe \in Strobe
    PROVE  Merge(Merge(old, data, strobe), data, strobe) = Merge(old, data, strobe)
BY DEF Merge, Data

\* The registers the core drives keep their types.
LEMMA CoreTypes ==
    ASSUME NEW A, CoreStep(A) \/ CoreReset,
           mem_valid \in BOOLEAN, hold \in 0 .. RESET_GAP,
           mem_addr \in A, mem_wdata \in Data, mem_wstrb \in Strobe
    PROVE  /\ mem_valid' \in BOOLEAN /\ hold' \in 0 .. RESET_GAP
           /\ mem_addr' \in A /\ mem_wdata' \in Data /\ mem_wstrb' \in Strobe
<1>1. hold' \in {hold, RESET_GAP} \/ (hold # 0 /\ hold' = hold - 1)
  BY DEF CoreStep, CoreReset, CoreRaise, CoreIdle, CoreWait, CoreAccept, coreVars
<1>2. hold' \in 0 .. RESET_GAP
  BY <1>1, GapAssumption
<1> QED
  BY <1>2 DEF CoreStep, CoreReset, CoreRaise, CoreIdle, CoreWait, CoreAccept, coreVars

\* So does the history of the stores.
LEMMA StoredType ==
    ASSUME RememberStore \/ RememberCutOff, stored \in [Words -> Data],
           memory' \in [Words -> Data], mem_wdata \in Data, mem_wstrb \in Strobe
    PROVE  stored' \in [Words -> Data]
<1>1. mem_addr \in Words => Merge(stored[mem_addr], mem_wdata, mem_wstrb) \in Data
  BY MergeType
<1> QED
  BY <1>1 DEF RememberStore, RememberCutOff, mem_addr_is_ram

\* What the bus sees of an edge of the core that is not a reset.
LEMMA CoreCases ==
    ASSUME NEW A, CoreStep(A), mem_valid \in BOOLEAN, mem_ready \in BOOLEAN
    PROVE  \/ ~mem_valid /\ hold = 0 /\ CoreRaise(A)
           \/ ~mem_valid /\ CoreIdle
           \/ mem_valid /\ ~mem_ready /\ CoreWait
           \/ mem_valid /\ mem_ready /\ CoreAccept
BY DEF CoreStep, CoreRaise, CoreIdle, CoreWait, CoreAccept

\* When the memory was written for the request at its last edge, or not at all,
\* accepting the request brings the history up to date.
LEMMA AcceptedStore ==
    ASSUME RememberStore, mem_valid, mem_ready, mem_addr \in Words,
           memory = [stored EXCEPT ![mem_addr] = Merge(@, mem_wdata, mem_wstrb)]
    PROVE  stored' = memory
BY DEF RememberStore, mem_addr_is_ram

\* So does cutting it off.
LEMMA CutOffStore ==
    ASSUME RememberCutOff, mem_addr \in Words, stored \in [Words -> Data],
           memory' \in [Words -> Data],
           mem_valid \/ memory' = stored,
           \A a \in Words \ {mem_addr} : memory'[a] = stored[a]
    PROVE  stored' = memory'
<1>1. CASE mem_valid
  <2>1. stored' = [stored EXCEPT ![mem_addr] = memory'[mem_addr]]
    BY <1>1 DEF RememberCutOff, mem_addr_is_ram
  <2>2. /\ stored' \in [Words -> Data]
        /\ \A a \in Words : stored'[a] = memory'[a]
    BY <2>1
  <2> QED BY <2>2
<1>2. CASE ~mem_valid
  BY <1>2 DEF RememberCutOff
<1> QED BY <1>1, <1>2

-----------------------------------------------------------------------------
(* The DE2 bus controller.  A step is the core's side of the edge joined   *)
(* with the RAM port and one branch of the controller; each part of IInv   *)
(* is shown to survive such a step in a lemma of its own.                  *)

\* The registers may hold anything when the core is first held in reset.
LEMMA InitIInv == Init => IInv
<1> SUFFICES ASSUME Init PROVE IInv
  OBVIOUS
<1> USE DEF Init, CoreInit
<1>1. TypeOK
  <2>1. hold \in 0 .. RESET_GAP
    BY GapAssumption
  <2> QED
    BY <2>1 DEF TypeOK
<1>2. PipeInv
  BY GapAssumption DEF PipeInv, RamReading
<1>3. DataInv /\ StoreInv /\ OnlyMappedAnswered
  BY DEF DataInv, StoreInv, RamReading, OnlyMappedAnswered
<1> QED
  BY <1>1, <1>2, <1>3 DEF IInv

-----------------------------------------------------------------------------
\* Every register keeps its type, whichever branch the controller takes.
LEMMA TypeStep ==
    ASSUME TypeOK, NEW sw \in Data, Tick(sw) \/ Reset(sw)
    PROVE  TypeOK'
<1> USE DEF TypeOK
<1>1. mem_valid' \in BOOLEAN /\ hold' \in 0 .. RESET_GAP
  <2>1. hold' \in {hold, RESET_GAP} \/ (hold # 0 /\ hold' = hold - 1)
    BY DEF Tick, Reset, CoreStep, CoreReset, CoreRaise, CoreIdle, CoreWait, CoreAccept, coreVars
  <2>2. hold' \in 0 .. RESET_GAP
    BY <2>1, GapAssumption
  <2>3. mem_valid' \in BOOLEAN
    BY DEF Tick, Reset, CoreStep, CoreReset, CoreRaise, CoreIdle, CoreWait, CoreAccept, coreVars
  <2> QED
    BY <2>2, <2>3
<1>2. mem_addr' \in Addrs /\ mem_wdata' \in Data /\ mem_wstrb' \in Strobe
  BY DEF Tick, Reset, CoreStep, CoreReset, CoreRaise, CoreIdle, CoreWait, CoreAccept, coreVars
<1>3. mem_rdata' \in Data
  BY DEF Tick, Reset, BusStep
<1>4. RamPort /\ BusStep(sw) /\ RememberSwitches(sw) /\ (RememberStore \/ RememberCutOff)
  BY DEF Tick, Reset
<1>5. memory' \in [Words -> Data] /\ ram_rdata' \in Data
  <2>1. ASSUME mem_addr \in Words
        PROVE  Merge(memory[mem_addr], mem_wdata, mem_wstrb) \in Data
    BY <2>1, MergeType
  <2> QED
    BY <1>4, <2>1 DEF RamPort, mem_addr_is_ram
<1>6. stored' \in [Words -> Data]
  <2>1. ASSUME mem_addr \in Words
        PROVE  Merge(stored[mem_addr], mem_wdata, mem_wstrb) \in Data
    BY <2>1, MergeType
  <2> QED
    BY <1>4, <1>5, <2>1 DEF RememberStore, RememberCutOff, mem_addr_is_ram
<1>7. sampled' \subseteq Data
  BY <1>4 DEF RememberSwitches
<1>8. mem_ready' \in BOOLEAN /\ m_read_en' \in BOOLEAN /\ ram_read_pending' \in BOOLEAN
      /\ out_byte_en' \in BOOLEAN
  BY <1>4 DEF BusStep, Capture, RamRead, PlainWrite, OutByteWrite, Seg7Write,
              LedWrite, SwitchRead, Quiet, DefaultReady
<1>9. m_read_data' \in Data /\ out_byte' \in Byte /\ seg7_reg' \in Data /\ led_conf_reg' \in Data
  <2>1. mem_wdata[LaneZero] \in Byte
    BY LaneAssumption DEF Data
  <2> QED
    BY <1>4, <2>1 DEF BusStep, Capture, RamRead, PlainWrite, OutByteWrite, Seg7Write,
              LedWrite, SwitchRead, Quiet, KeepRegs
<1> QED
  BY <1>1, <1>2, <1>3, <1>5, <1>6, <1>7, <1>8, <1>9

-----------------------------------------------------------------------------
\* What an edge does to the ready pipeline: the branch taken is summarised by
\* what it does to the three control registers.
LEMMA PipeEffect ==
    ASSUME TypeOK, NEW sw \in Data, BusStep(sw)
    PROVE  /\ ram_read_pending' => Requested /\ mem_addr_is_ram /\ ~Writing
           /\ m_read_en' => \/ ram_read_pending
                            \/ Requested /\ mem_addr = "sw_key" /\ ~Writing
           /\ ram_read_pending => m_read_en'
           /\ ~(ram_read_pending' /\ m_read_en')
           /\ mem_ready' => \/ DefaultReady
                            \/ Requested /\ Writing /\ Mapped(mem_addr, mem_wstrb)
           /\ Requested /\ Writing /\ mem_addr_is_ram => mem_ready'
BY AddrAssumption
   DEF TypeOK, BusStep, Capture, RamRead, PlainWrite, OutByteWrite, Seg7Write, LedWrite,
       SwitchRead, Quiet, Requested, Mapped, mem_addr_is_ram, Writing, Addrs, IoAddrs

\* The pipeline is empty whenever a request may start.
LEMMA PipeStep ==
    ASSUME TypeOK, PipeInv, NEW sw \in Data, Tick(sw) \/ Reset(sw)
    PROVE  PipeInv'
<1>1. BusStep(sw)
  BY DEF Tick, Reset
<1> USE PipeEffect, <1>1 DEF PipeInv, RamReading
<1>2. CASE Tick(sw)
  <2>1. CoreStep(Addrs)
    BY <1>2 DEF Tick
  <2>2. CASE CoreRaise(Addrs)
    BY <2>2 DEF CoreRaise, DefaultReady, Requested
  <2>3. CASE CoreIdle
    BY <2>3 DEF CoreIdle, DefaultReady, Requested, TypeOK
  <2>4. CASE CoreWait
    BY <2>4 DEF CoreWait, coreVars, DefaultReady, Requested, Writing, mem_addr_is_ram
  <2>5. CASE CoreAccept
    BY <2>5 DEF CoreAccept, DefaultReady, Requested
  <2> QED
    BY <2>1, <2>2, <2>3, <2>4, <2>5 DEF CoreStep
<1>3. CASE Reset(sw)
  BY <1>3, GapAssumption DEF Reset, CoreReset
<1> QED
  BY <1>2, <1>3

\* The RAM differs from the accepted stores by the store being answered only.
LEMMA StoreStep ==
    ASSUME IInv, NEW sw \in Data, Tick(sw) \/ Reset(sw)
    PROVE  StoreInv'
<1> USE DEF IInv, PipeInv, StoreInv
<1>1. BusStep(sw) /\ RamPort /\ TypeOK
  BY DEF Tick, Reset
<1>2. ASSUME Tick(sw), mem_valid, mem_addr_is_ram, Writing, mem_ready
      PROVE  stored' = memory'
  <2>1. memory' = [memory EXCEPT ![mem_addr] = Merge(@, mem_wdata, mem_wstrb)]
    BY <1>1, <1>2 DEF RamPort
  <2>2. stored' = [stored EXCEPT ![mem_addr] = Merge(@, mem_wdata, mem_wstrb)]
    BY <1>2 DEF Tick, RememberStore
  <2>3. CASE memory = stored
    BY <2>1, <2>2, <2>3
  <2>4. CASE memory = [stored EXCEPT ![mem_addr] = Merge(@, mem_wdata, mem_wstrb)]
    <3>1. stored \in [Words -> Data] /\ mem_addr \in Words /\ stored[mem_addr] \in Data
      BY <1>1, <1>2 DEF TypeOK, mem_addr_is_ram
    <3>2. Merge(Merge(stored[mem_addr], mem_wdata, mem_wstrb), mem_wdata, mem_wstrb)
             = Merge(stored[mem_addr], mem_wdata, mem_wstrb)
      BY <3>1, <1>1, MergeIdempotent DEF TypeOK
    <3> QED
      BY <2>1, <2>2, <2>4, <3>1, <3>2
  <2> QED
    BY <2>3, <2>4
<1>3. ASSUME Tick(sw), mem_valid, mem_addr_is_ram, Writing, ~mem_ready
      PROVE  StoreInv'
  <2>1. memory = stored /\ ~ram_read_pending
    BY <1>3 DEF RamReading
  <2>2. mem_ready'
    BY <1>1, <1>3, <2>1, PipeEffect DEF Requested
  <2>3. UNCHANGED coreVars
    BY <1>3 DEF Tick, CoreStep, CoreRaise, CoreIdle, CoreWait, CoreAccept
  <2>4. memory' = [memory EXCEPT ![mem_addr] = Merge(@, mem_wdata, mem_wstrb)]
    BY <1>1, <1>3 DEF RamPort
  <2>5. stored' = stored
    BY <1>3 DEF Tick, RememberStore
  <2> QED
    BY <1>3, <2>1, <2>2, <2>3, <2>4, <2>5 DEF coreVars, mem_addr_is_ram, Writing
<1>4. ASSUME Tick(sw), ~(mem_valid /\ mem_addr_is_ram /\ Writing)
      PROVE  StoreInv'
  <2>1. memory' = memory /\ memory = stored
    BY <1>1, <1>4 DEF RamPort
  <2>2. stored' = stored
    <3>1. CASE ~(mem_valid /\ mem_ready /\ mem_addr_is_ram)
      BY <1>4, <3>1 DEF Tick, RememberStore
    <3>2. CASE mem_valid /\ mem_ready /\ mem_addr_is_ram
      <4>1. mem_wstrb = {} /\ stored \in [Words -> Data] /\ mem_addr \in Words
        BY <1>1, <1>4, <3>2 DEF Writing, TypeOK, mem_addr_is_ram
      <4>2. stored[mem_addr] \in [Lanes -> Byte]
        BY <4>1 DEF Data
      <4>3. Merge(stored[mem_addr], mem_wdata, mem_wstrb) = stored[mem_addr]
        BY <4>1, <4>2 DEF Merge
      <4>4. stored' = [stored EXCEPT ![mem_addr] = Merge(@, mem_wdata, mem_wstrb)]
        BY <1>4, <3>2 DEF Tick, RememberStore
      <4> QED
        BY <4>1, <4>3, <4>4
    <3> QED
      BY <3>1, <3>2
  <2> QED
    BY <2>1, <2>2
<1>5. ASSUME Reset(sw) PROVE stored' = memory'
  <2>1. RememberCutOff /\ memory' \in [Words -> Data] /\ stored' \in [Words -> Data]
    BY <1>1, <1>5, TypeStep DEF Reset, TypeOK
  <2>2. CASE mem_valid /\ mem_addr_is_ram
    <3>1. stored' = [stored EXCEPT ![mem_addr] = memory'[mem_addr]] /\ mem_addr \in Words
      BY <2>1, <2>2 DEF RememberCutOff, mem_addr_is_ram
    <3>2. \A w \in Words \ {mem_addr} : memory'[w] = stored[w]
      BY <1>1, <2>2 DEF RamPort, TypeOK, mem_addr_is_ram
    <3> QED
      BY <1>1, <2>1, <3>1, <3>2 DEF TypeOK
  <2>3. CASE ~(mem_valid /\ mem_addr_is_ram)
    BY <1>1, <2>1, <2>3 DEF RememberCutOff, RamPort
  <2> QED
    BY <2>2, <2>3
<1> QED
  BY <1>2, <1>3, <1>4, <1>5

\* Every stage of the read pipeline holds the word of the request it serves.
LEMMA DataStep ==
    ASSUME IInv, NEW sw \in Data, Tick(sw) \/ Reset(sw)
    PROVE  DataInv'
<1> USE DEF IInv
<1>1. BusStep(sw) /\ RamPort /\ RememberSwitches(sw) /\ TypeOK
  BY DEF Tick, Reset
<1>2. CASE ~mem_valid'
  BY <1>2 DEF DataInv, RamReading
<1>3. CASE mem_valid' /\ ~mem_valid
  <2>1. ~ram_read_pending' /\ ~m_read_en' /\ ~mem_ready'
    <3>1. hold = 0
      BY <1>3 DEF Tick, Reset, CoreReset, CoreStep, CoreRaise, CoreIdle, CoreWait, CoreAccept, coreVars
    <3> QED
      BY <1>1, <1>3, <3>1, PipeEffect DEF PipeInv, Requested, DefaultReady
  <2> QED
    BY <2>1 DEF DataInv
<1>4. CASE mem_valid' /\ mem_valid
  <2>1. ~mem_ready /\ UNCHANGED coreVars
    BY <1>4 DEF Tick, Reset, CoreReset, CoreStep, CoreRaise, CoreIdle, CoreWait, CoreAccept
  <2>2. sampled' = sampled \cup {sw}
    BY <1>1, <1>4 DEF RememberSwitches
  <2>3. ASSUME RamReading
        PROVE  DataInv'
    <3>1. mem_addr \in Words /\ ram_rdata' = memory[mem_addr] /\ memory' = memory
      BY <1>1, <2>3, AddrAssumption DEF RamPort, RamReading, mem_addr_is_ram, IoAddrs
    <3>2. ram_rdata' = memory'[mem_addr] /\ mem_addr # "sw_key"
      BY <1>1, <2>3, AddrAssumption DEF RamPort, RamReading, mem_addr_is_ram, IoAddrs
    <3>3. m_read_en' => m_read_data' = memory[mem_addr]
      <4>1. SUFFICES ASSUME m_read_en' PROVE m_read_data' = memory[mem_addr]
        OBVIOUS
      <4>2. ram_read_pending
        BY <1>1, <3>2, <4>1, PipeEffect
      <4>3. m_read_data' = ram_rdata
        BY <1>1, <4>2 DEF BusStep, Capture, RamRead, PlainWrite, OutByteWrite, Seg7Write,
           LedWrite, SwitchRead, Quiet, Requested
      <4> QED
        BY <2>3, <4>2, <4>3 DEF DataInv
    <3>4. mem_ready' => mem_rdata' = memory[mem_addr]
      <4>1. SUFFICES ASSUME mem_ready' PROVE mem_rdata' = memory[mem_addr]
        OBVIOUS
      <4>2. m_read_en
        BY <1>1, <2>3, <4>1, PipeEffect DEF DefaultReady, RamReading
      <4> QED
        BY <1>1, <2>1, <2>3, <4>2 DEF BusStep, DataInv
    <3> QED
      BY <2>1, <3>1, <3>2, <3>3, <3>4 DEF DataInv, coreVars
  <2>4. ASSUME ~RamReading
        PROVE  DataInv'
    <3>1. ~RamReading'
      BY <1>4, <2>1, <2>4 DEF RamReading, coreVars, mem_addr_is_ram, Writing
    <3>2. mem_addr = "sw_key" /\ m_read_en' => m_read_data' \in sampled'
      BY <1>1, <1>4, <2>1, <2>2, <2>4 DEF PipeInv, BusStep, Capture, RamRead, PlainWrite,
         OutByteWrite, Seg7Write, LedWrite, SwitchRead, Quiet
    <3>3. mem_addr = "sw_key" /\ mem_ready' => mem_rdata' \in sampled'
      <4>1. SUFFICES ASSUME mem_addr = "sw_key", mem_ready' PROVE mem_rdata' \in sampled'
        OBVIOUS
      <4>2. m_read_en
        BY <1>1, <4>1, PipeEffect, AddrAssumption DEF DefaultReady, Mapped, Writing, IoAddrs
      <4> QED
        BY <1>1, <1>4, <2>1, <2>2, <4>1, <4>2 DEF BusStep, DataInv
    <3> QED
      BY <2>1, <3>1, <3>2, <3>3 DEF DataInv, coreVars
  <2> QED
    BY <2>3, <2>4
<1> QED
  BY <1>2, <1>3, <1>4

\* The decoder answers only what it maps.
LEMMA MappedStep ==
    ASSUME IInv, NEW sw \in Data, Tick(sw) \/ Reset(sw)
    PROVE  OnlyMappedAnswered'
<1> SUFFICES ASSUME mem_valid', mem_ready' PROVE Mapped(mem_addr, mem_wstrb)'
  BY DEF OnlyMappedAnswered
<1> USE DEF IInv
<1>1. BusStep(sw) /\ TypeOK
  BY DEF Tick, Reset
<1>2. mem_valid
  BY <1>1, PipeEffect DEF DefaultReady, Requested
<1>3. UNCHANGED coreVars
  BY <1>2 DEF Tick, Reset, CoreReset, CoreStep, CoreRaise, CoreIdle, CoreWait, CoreAccept
<1>4. m_read_en \/ Mapped(mem_addr, mem_wstrb)
  BY <1>1, PipeEffect DEF DefaultReady
<1>5. Mapped(mem_addr, mem_wstrb)
  BY <1>2, <1>4 DEF PipeInv, RamReading, mem_addr_is_ram, Writing, Mapped
<1> QED
  BY <1>3, <1>5 DEF coreVars, Mapped
-----------------------------------------------------------------------------
\* Every part of IInv survives every clock edge.
LEMMA IInvStep == IInv /\ [Next]_vars => IInv'
<1> SUFFICES ASSUME IInv, [Next]_vars PROVE IInv'
  OBVIOUS
<1>1. CASE Next
  <2>1. PICK sw \in Data : Tick(sw) \/ Reset(sw)
    BY <1>1 DEF Next
  <2>2. TypeOK' /\ PipeInv'
    BY <2>1, TypeStep, PipeStep DEF IInv
  <2>3. DataInv' /\ StoreInv' /\ OnlyMappedAnswered'
    BY <2>1, DataStep, StoreStep, MappedStep
  <2> QED
    BY <2>2, <2>3 DEF IInv
<1>2. CASE UNCHANGED vars
  BY <1>2 DEF IInv, TypeOK, PipeInv, DataInv, StoreInv, OnlyMappedAnswered, RamReading,
              mem_addr_is_ram, Writing, Mapped, Merge,
              vars, coreVars, ramVars, busVars, histVars
<1> QED
  BY <1>1, <1>2

\* The inductive invariant: the registers are typed, each pipeline stage holds
\* the word of the request it serves, and the RAM follows the stores.
THEOREM InductiveInvariant == Spec => []IInv
<1>1. Init => IInv
  BY InitIInv
<1>2. IInv /\ [Next]_vars => IInv'
  BY IInvStep
<1> QED
  BY <1>1, <1>2, PTL DEF Spec

\* Every register of the controller always holds a value of its type.
THEOREM TypeCorrect == Spec => []TypeOK
<1>1. IInv => TypeOK
  BY DEF IInv
<1> QED
  BY <1>1, InductiveInvariant, PTL

\* A completed load from RAM returns what the accepted stores left there, for
\* every RAM size and word, across resets that cut transfers off.
THEOREM LoadsAreFresh == Spec => []LoadReturnsStored
<1>1. IInv => LoadReturnsStored
  BY DEF IInv, DataInv, StoreInv, RamReading, LoadReturnsStored
<1> QED
  BY <1>1, InductiveInvariant, PTL

\* A completed load of the switches returns a value they had during it.
THEOREM SwitchesAreFresh == Spec => []LoadReturnsSampled
<1>1. IInv => LoadReturnsSampled
  BY DEF IInv, DataInv, LoadReturnsSampled
<1> QED
  BY <1>1, InductiveInvariant, PTL

\* Nothing but a mapped request is answered.
THEOREM AnswersAreMapped == Spec => []OnlyMappedAnswered
<1>1. IInv => OnlyMappedAnswered
  BY DEF IInv
<1> QED
  BY <1>1, InductiveInvariant, PTL

-----------------------------------------------------------------------------
\* What an edge does to the console register: its branch, or nothing.
LEMMA ConsoleEffect ==
    ASSUME TypeOK, NEW sw \in Data, BusStep(sw)
    PROVE  /\ out_byte_en' => /\ Requested /\ mem_addr = "out_byte" /\ mem_ready'
                              /\ out_byte' = mem_wdata[LaneZero]
           /\ mem_ready' /\ mem_addr = "out_byte" => DefaultReady \/ out_byte_en'
BY AddrAssumption
   DEF TypeOK, BusStep, Capture, RamRead, PlainWrite, OutByteWrite, Seg7Write, LedWrite,
       SwitchRead, Quiet, KeepRegs, Requested, mem_addr_is_ram, IoAddrs

\* The console strobe survives every edge: only a held request can raise it.
LEMMA ConsoleStep ==
    ASSUME IInv, OutByteOncePerStore, NEW sw \in Data, Tick(sw) \/ Reset(sw)
    PROVE  OutByteOncePerStore'
<1>1. BusStep(sw) /\ TypeOK /\ PipeInv
  BY DEF Tick, Reset, IInv
<1>2. DefaultReady => mem_addr # "out_byte"
  BY <1>1, AddrAssumption
     DEF DefaultReady, PipeInv, RamReading, mem_addr_is_ram, IoAddrs
<1> USE ConsoleEffect, <1>1 DEF OutByteOncePerStore
<1>3. CASE Tick(sw)
  <2>1. CoreStep(Addrs)
    BY <1>3 DEF Tick
  <2>2. CASE CoreRaise(Addrs)
    BY <2>2, PipeEffect DEF CoreRaise, DefaultReady, Requested
  <2>3. CASE CoreIdle
    BY <2>3 DEF CoreIdle, Requested
  <2>4. CASE CoreWait
    BY <1>2, <2>4 DEF CoreWait, coreVars
  <2>5. CASE CoreAccept
    BY <2>5 DEF CoreAccept, Requested
  <2> QED
    BY <2>1, <2>2, <2>3, <2>4, <2>5 DEF CoreStep
<1>4. CASE Reset(sw)
  BY <1>4 DEF Reset, CoreReset
<1> QED
  BY <1>3, <1>4

\* One console byte per completed store (out_byte_en of the bus controller).
THEOREM ConsoleByteOncePerStore == Spec => []OutByteOncePerStore
<1>1. Init => OutByteOncePerStore
  BY DEF Init, CoreInit, OutByteOncePerStore
<1>2. IInv /\ OutByteOncePerStore /\ [Next]_vars => OutByteOncePerStore'
  <2>1. CASE UNCHANGED vars
    BY <2>1 DEF vars, coreVars, busVars, OutByteOncePerStore
  <2> QED
    BY <2>1, ConsoleStep DEF Next
<1> QED
  BY <1>1, <1>2, InductiveInvariant, PTL DEF Spec

-----------------------------------------------------------------------------
(* The AXI4-Lite adapter and its memory                                    *)

\* After a reset edge; xfer_done and two acknowledgements may hold anything.
LEMMA AxiInitInv == AxiInit => AxiInv
<1> SUFFICES ASSUME AxiInit PROVE AxiInv
  OBVIOUS
<1> USE DEF AxiInit, CoreInit
<1>1. AxiTypeOK
  <2>1. hold \in 0 .. RESET_GAP
    BY GapAssumption
  <2> QED BY <2>1 DEF AxiTypeOK
<1>2. AxiPhase
  BY DEF AxiPhase
<1>3. AxiData
  BY DEF AxiData
<1> QED BY <1>1, <1>2, <1>3 DEF AxiInv

-----------------------------------------------------------------------------
(* The handlers                                                            *)

\* Their registers keep their types, at either edge.
LEMMA HandleTypes ==
    ASSUME AxiTypeOK, NEW go \in SUBSET Handlers, Handle(go)
    PROVE  /\ memory' \in [Words -> Data] /\ mem_rdata' \in Data
           /\ latched_raddr' \in Words /\ latched_waddr' \in Words
           /\ latched_wdata' \in Data /\ latched_wstrb' \in Strobe
           /\ latched_en' \in SUBSET {"aw", "w", "ar"}
           /\ Taken(go) \in SUBSET {"aw", "w", "ar"}
           /\ Reads(go) \in BOOLEAN /\ Writes(go) \in BOOLEAN
<1> USE DEF AxiTypeOK
<1>1. Taken(go) \in SUBSET {"aw", "w", "ar"}
  BY DEF Taken, AxiValid
<1>2. /\ latched_raddr' \in Words /\ latched_waddr' \in Words
      /\ latched_wdata' \in Data /\ latched_wstrb' \in Strobe
  BY DEF Handle
<1>3. memory' \in [Words -> Data] /\ mem_rdata' \in Data
  <2>1. Merge(memory[latched_waddr'], latched_wdata', latched_wstrb') \in Data
    BY <1>2, MergeType
  <2> QED BY <1>2, <2>1 DEF Handle
<1>4. latched_en' \in SUBSET {"aw", "w", "ar"}
  BY <1>1 DEF Handle, Held
<1> QED BY <1>1, <1>2, <1>3, <1>4 DEF Reads, Writes

\* Nothing is taken or answered while there is no request.
LEMMA HandleNothing ==
    ASSUME AxiInv, ~mem_valid, NEW go \in SUBSET Handlers, Handle(go)
    PROVE  /\ Taken(go) = {} /\ ~Reads(go) /\ ~Writes(go)
           /\ latched_en' = {} /\ memory' = memory /\ mem_rdata' = mem_rdata
<1>1. Taken(go) = {} /\ Held(go) = {}
  BY DEF AxiInv, AxiPhase, Taken, AxiValid, Held
<1> QED BY <1>1 DEF Handle, Reads, Writes

\* A channel is taken once in a request, with what the request carries; the
\* answer is that of the request, and comes once.
LEMMA HandleRequest ==
    ASSUME AxiInv, mem_valid, NEW go \in SUBSET Handlers, Handle(go)
    PROVE  /\ Taken(go) \subseteq Channels /\ Taken(go) \cap Served = {}
           /\ latched_en' \subseteq Served \cup Taken(go)
           /\ "ar" \in latched_en' => latched_raddr' = mem_addr
           /\ "aw" \in latched_en' => latched_waddr' = mem_addr
           /\ "w" \in latched_en' => latched_wdata' = mem_wdata /\ latched_wstrb' = mem_wstrb
           /\ rvalid => ~Reads(go) /\ "ar" \notin latched_en' /\ ~Writes(go)
           /\ bvalid => ~Writes(go) /\ latched_en' = {} /\ ~Reads(go) /\ Taken(go) = {}
           /\ Reads(go) => /\ ~Writing /\ "ar" \in Served \cup Taken(go) /\ "ar" \notin latched_en'
                           /\ mem_rdata' = memory[mem_addr]
           /\ Writes(go) => /\ Writing /\ {"aw", "w"} \subseteq Served \cup Taken(go) /\ latched_en' = {}
                            /\ memory' = [memory EXCEPT ![mem_addr] = Merge(@, mem_wdata, mem_wstrb)]
           /\ ~Reads(go) => mem_rdata' = mem_rdata
           /\ ~Writes(go) => memory' = memory
<1> USE DEF AxiInv, AxiTypeOK, AxiPhase, AxiData
<1>1. Taken(go) \subseteq Channels /\ Taken(go) \cap Served = {}
  BY DEF Taken, AxiValid, Channels, Served
<1>2. Held(go) \subseteq Channels /\ Held(go) \subseteq Served \cup Taken(go)
  BY <1>1 DEF Held
<1>3. /\ "ar" \in Held(go) => latched_raddr' = mem_addr
      /\ "aw" \in Held(go) => latched_waddr' = mem_addr
      /\ "w" \in Held(go) => latched_wdata' = mem_wdata /\ latched_wstrb' = mem_wstrb
  BY DEF Handle, Held
<1>4. latched_en' \subseteq Held(go)
  BY DEF Handle
<1>5. rvalid => "ar" \notin Held(go)
  BY <1>1 DEF Held
<1>6. bvalid => Held(go) = {} /\ Taken(go) = {}
  BY <1>1 DEF Held, Channels
<1>7. Reads(go) => ~Writing /\ "ar" \in Held(go) /\ "ar" \notin latched_en'
  BY <1>2 DEF Reads, Channels, Handle
<1>8. Writes(go) => Writing /\ {"aw", "w"} \subseteq Held(go) /\ latched_en' = {}
  BY <1>2 DEF Writes, Channels, Handle
<1>9. /\ Reads(go) => mem_rdata' = memory[mem_addr]
      /\ Writes(go) => memory' = [memory EXCEPT ![mem_addr] = Merge(@, mem_wdata, mem_wstrb)]
      /\ ~Reads(go) => mem_rdata' = mem_rdata
      /\ ~Writes(go) => memory' = memory
  BY <1>3, <1>7, <1>8 DEF Handle
<1>10. /\ rvalid => ~Reads(go) /\ "ar" \notin latched_en' /\ ~Writes(go)
       /\ bvalid => ~Writes(go) /\ latched_en' = {} /\ ~Reads(go)
  BY <1>4, <1>5, <1>6, <1>8 DEF Reads, Writes
<1> QED BY <1>1, <1>2, <1>3, <1>4, <1>6, <1>7, <1>8, <1>9, <1>10

-----------------------------------------------------------------------------
(* The edges                                                               *)

\* Every register keeps its type.
LEMMA AxiTypeStep == AxiInv /\ [AxiNext]_axiBusVars => AxiTypeOK'
<1> SUFFICES ASSUME AxiInv, [AxiNext]_axiBusVars PROVE AxiTypeOK'
  OBVIOUS
<1> USE DEF AxiInv
<1>1. CASE UNCHANGED axiBusVars
  BY <1>1 DEF AxiTypeOK, axiBusVars, coreVars, axiVars
<1>2. CASE AxiReset
  <2>1. /\ mem_valid' \in BOOLEAN /\ hold' \in 0 .. RESET_GAP
        /\ mem_addr' \in Words /\ mem_wdata' \in Data /\ mem_wstrb' \in Strobe
    BY <1>2, CoreTypes DEF AxiTypeOK, AxiReset
  <2>2. stored' \in [Words -> Data]
    BY <1>2, StoredType DEF AxiTypeOK, AxiReset, SlaveReset
  <2> QED BY <1>2, <2>1, <2>2 DEF AxiTypeOK, AxiReset, AdapterReset, SlaveReset, AxiReady
<1>3. ASSUME NEW go \in SUBSET Handlers, AxiRising(go) PROVE AxiTypeOK'
  <2>1. /\ mem_valid' \in BOOLEAN /\ hold' \in 0 .. RESET_GAP
        /\ mem_addr' \in Words /\ mem_wdata' \in Data /\ mem_wstrb' \in Strobe
    BY <1>3, CoreTypes DEF AxiTypeOK, AxiRising
  <2>2. Handle(go)
    BY <1>3 DEF AxiRising, AtRising
  <2>3. stored' \in [Words -> Data]
    BY <1>3, <2>2, HandleTypes, StoredType DEF AxiTypeOK, AxiRising
  <2>4. ack' \in SUBSET {"aw", "w", "ar"} /\ xfer_done' \in BOOLEAN
    BY <1>3 DEF AxiTypeOK, AxiRising, Adapter, AxiValid
  <2> QED BY <1>3, <2>1, <2>2, <2>3, <2>4, HandleTypes DEF AxiTypeOK, AxiRising, AtRising, AxiReady
<1>4. ASSUME NEW go \in SUBSET Handlers, AxiFalling(go) PROVE AxiTypeOK'
  <2>1. Handle(go)
    BY <1>4 DEF AxiFalling, AtFalling
  <2> QED BY <1>4, <2>1, HandleTypes DEF AxiTypeOK, AxiFalling, AtFalling, AxiReady, coreVars
<1> QED BY <1>1, <1>2, <1>3, <1>4 DEF AxiNext

\* A reset idles the memory and withdraws the request, whatever it cuts off.
LEMMA ResetKeeps ==
    ASSUME AxiInv, AxiReset, AxiTypeOK'
    PROVE  AxiPhase' /\ AxiData'
<1>1. AxiPhase'
  BY DEF AxiReset, CoreReset, SlaveReset, AxiReady, AxiPhase
<1>2. memory' = memory /\ (~mem_valid => memory' = stored)
  BY DEF AxiReset, SlaveReset, AxiInv, AxiPhase, AxiData
<1>3. \A a \in Words \ {mem_addr} : memory'[a] = stored[a]
  BY <1>2 DEF AxiInv, AxiTypeOK, AxiData
<1>4. stored' = memory'
  BY <1>2, <1>3, CutOffStore DEF AxiReset, AxiInv, AxiTypeOK
<1> QED BY <1>1, <1>4 DEF AxiReset, SlaveReset, AxiData

\* No request: the adapter forgets what it had acknowledged, even what a reset
\* left it with, before the memory can see the next request.
LEMMA IdleKeeps ==
    ASSUME AxiInv, NEW go \in SUBSET Handlers, AxiRising(go), ~mem_valid
    PROVE  AxiPhase' /\ AxiData'
<1>1. Handle(go)
  BY DEF AxiRising, AtRising
<1>2. /\ fast' = {} /\ latched_en' = {} /\ ~rvalid' /\ ~bvalid'
      /\ memory' = memory /\ stored' = stored
  BY <1>1, HandleNothing DEF AxiRising, AtRising, RememberStore, AxiInv, AxiPhase
<1>3. ack' = {} /\ ~xfer_done'
  BY DEF AxiRising, Adapter
<1>4. mem_valid' => hold' = 0
  BY DEF AxiRising, CoreStep, CoreRaise, CoreIdle, CoreWait, CoreAccept
<1>5. AxiPhase'
  BY <1>2, <1>3, <1>4 DEF AxiPhase, AxiRising, AxiReady, Served
<1> QED BY <1>2, <1>5 DEF AxiData, AxiInv, AxiPhase

\* The request waits: what was taken since the last edge is acknowledged.
LEMMA WaitKeeps ==
    ASSUME AxiInv, NEW go \in SUBSET Handlers, AxiRising(go), mem_valid, ~mem_ready
    PROVE  AxiPhase' /\ AxiData'
<1> USE DEF AxiInv, AxiTypeOK, AxiPhase
<1>1. Handle(go) /\ CoreWait
  BY CoreCases DEF AxiRising, AtRising
<1>2. ~rvalid /\ ~bvalid
  OBVIOUS
<1>3. ack' = Served
  BY DEF AxiRising, Adapter, AxiValid, Served, Channels
<1>4. fast' = Taken(go) /\ rvalid' = Reads(go) /\ bvalid' = Writes(go) /\ ~xfer_done'
  BY <1>2, HandleTypes, <1>1 DEF AxiRising, AtRising, Adapter
<1>5. stored' = stored /\ memory = stored
  BY <1>2 DEF AxiRising, RememberStore, AxiData
<1>6. Served' = Served \cup Taken(go) /\ Channels' = Channels /\ (Writing' <=> Writing)
  BY <1>1, <1>3, <1>4 DEF Served, Channels, Writing, CoreWait, coreVars
<1>7. UNCHANGED coreVars
  BY <1>1 DEF CoreWait
<1>8. AxiPhase'
  BY <1>1, <1>3, <1>4, <1>6, <1>7, HandleRequest DEF coreVars, AxiRising, AxiReady
<1>9. AxiData'
  <2>1. CASE Writes(go)
    BY <1>1, <1>4, <1>5, <1>7, <2>1, HandleRequest DEF AxiData, coreVars, Reads
  <2>2. CASE ~Writes(go)
    BY <1>1, <1>4, <1>5, <1>7, <2>2, HandleRequest DEF AxiData, coreVars
  <2> QED BY <2>1, <2>2
<1> QED BY <1>8, <1>9

\* The answer is accepted: nothing of the request is left in the memory, so that
\* it is not taken a second time.
LEMMA AcceptKeeps ==
    ASSUME AxiInv, NEW go \in SUBSET Handlers, AxiRising(go), mem_valid, mem_ready
    PROVE  AxiPhase' /\ AxiData'
<1> USE DEF AxiInv, AxiTypeOK, AxiPhase
<1>1. Handle(go) /\ CoreAccept
  BY CoreCases DEF AxiRising, AtRising
<1>2. rvalid \/ bvalid
  OBVIOUS
<1>3. /\ Taken(go) = {} /\ latched_en' = {} /\ ~Reads(go) /\ ~Writes(go) /\ memory' = memory
  BY <1>1, <1>2, HandleRequest DEF Channels, Served
<1>4. fast' = {} /\ ~rvalid' /\ ~bvalid'
  BY <1>3 DEF AxiRising, AtRising, rready, bready
<1>5. stored' = memory
  <2>1. CASE bvalid
    BY <2>1, AcceptedStore DEF AxiRising, AxiData
  <2>2. CASE ~bvalid
    <3>1. memory = stored /\ mem_wstrb = {}
      BY <1>2, <2>2 DEF AxiData, Writing
    <3>2. [stored EXCEPT ![mem_addr] = Merge(@, mem_wdata, mem_wstrb)] = stored
      BY <3>1, MergeNone
    <3> QED BY <3>1, <3>2, AcceptedStore DEF AxiRising
  <2> QED BY <2>1, <2>2
<1>6. AxiPhase'
  BY <1>1, <1>3, <1>4 DEF CoreAccept, AxiRising, AxiReady
<1> QED BY <1>3, <1>4, <1>5, <1>6 DEF AxiData

\* The falling edge takes and answers, and changes nothing else.
LEMMA FallingKeeps ==
    ASSUME AxiInv, NEW go \in SUBSET Handlers, AxiFalling(go)
    PROVE  AxiPhase' /\ AxiData'
<1> USE DEF AxiInv, AxiTypeOK, AxiPhase
<1>1. Handle(go) /\ UNCHANGED <<coreVars, ack, xfer_done, stored>>
  BY DEF AxiFalling, AtFalling
<1>2. /\ fast' = fast \cup Taken(go)
      /\ (rvalid' <=> Reads(go) \/ rvalid) /\ (bvalid' <=> Writes(go) \/ bvalid)
      /\ mem_ready' = (bvalid' \/ rvalid')
  BY DEF AxiFalling, AtFalling, AxiReady
<1>3. Served' = Served \cup Taken(go) /\ Channels' = Channels /\ (Writing' <=> Writing)
  BY <1>1, <1>2 DEF Served, Channels, Writing, coreVars
<1>4. CASE ~mem_valid
  BY <1>1, <1>2, <1>4, HandleNothing DEF coreVars, AxiData
<1>5. CASE mem_valid
  <2>1. AxiPhase'
    BY <1>1, <1>2, <1>3, <1>5, HandleRequest DEF coreVars, Served
  <2>2. AxiData'
    <3>1. CASE Writes(go)
      BY <1>1, <1>2, <1>5, <3>1, HandleRequest DEF AxiData, coreVars
    <3>2. CASE ~Writes(go)
      BY <1>1, <1>2, <1>5, <3>2, HandleRequest DEF AxiData, coreVars
    <3> QED BY <3>1, <3>2
  <2> QED BY <2>1, <2>2
<1> QED BY <1>4, <1>5

-----------------------------------------------------------------------------
\* The inductive invariant: what the adapter and the memory have taken belongs
\* to the request, each channel once, and between requests nothing is left.
THEOREM AxiInvariant == AxiSpec => []AxiInv
<1>1. AxiInv /\ [AxiNext]_axiBusVars => AxiInv'
  <2> SUFFICES ASSUME AxiInv, [AxiNext]_axiBusVars PROVE AxiInv'
    OBVIOUS
  <2>1. AxiTypeOK'
    BY AxiTypeStep
  <2>2. CASE UNCHANGED axiBusVars
    <3>1. UNCHANGED <<mem_valid, mem_addr, mem_wdata, mem_wstrb, hold, mem_ready, mem_rdata, memory,
                      stored, clk, ack, xfer_done, fast, latched_en, latched_raddr, latched_waddr,
                      latched_wdata, latched_wstrb, rvalid, bvalid>>
      BY <2>2 DEF axiBusVars, coreVars, axiVars
    <3>2. AxiPhase'
      BY <3>1 DEF AxiInv, AxiPhase, Served, Channels, Writing
    <3>3. AxiData'
      BY <3>1 DEF AxiInv, AxiData
    <3> QED BY <2>1, <3>2, <3>3 DEF AxiInv
  <2>3. CASE AxiReset
    BY <2>1, <2>3, ResetKeeps DEF AxiInv
  <2>4. ASSUME NEW go \in SUBSET Handlers, AxiRising(go) PROVE AxiInv'
    <3>1. mem_valid \in BOOLEAN /\ mem_ready \in BOOLEAN
      BY DEF AxiInv, AxiTypeOK
    <3> QED BY <2>1, <2>4, <3>1, IdleKeeps, WaitKeeps, AcceptKeeps DEF AxiInv
  <2>5. ASSUME NEW go \in SUBSET Handlers, AxiFalling(go) PROVE AxiInv'
    BY <2>1, <2>5, FallingKeeps DEF AxiInv
  <2> QED BY <2>2, <2>3, <2>4, <2>5 DEF AxiNext
<1> QED BY <1>1, AxiInitInv, PTL DEF AxiSpec

\* Over AXI a load returns what the accepted stores left in the memory, however
\* the channels are delayed against each other and whatever the partial reset of
\* the adapter leaves behind.
THEOREM AxiLoadsAreFresh == AxiSpec => []LoadReturnsStored
<1>1. AxiInv => LoadReturnsStored
  BY DEF AxiInv, AxiTypeOK, AxiPhase, AxiData, LoadReturnsStored
<1> QED BY <1>1, AxiInvariant, PTL

-----------------------------------------------------------------------------
(* The Wishbone bridge and its RAM                                         *)

\* After a reset edge; mem_ready and mem_rdata may hold anything.
LEMMA WbInitInv == WbInit => WbInv
<1> SUFFICES ASSUME WbInit PROVE WbInv
  OBVIOUS
<1> USE DEF WbInit, CoreInit
<1>1. WbTypeOK
  <2>1. hold \in 0 .. RESET_GAP
    BY GapAssumption
  <2> QED BY <2>1 DEF WbTypeOK, Strobe
<1>2. WbPhase
  BY GapAssumption DEF WbPhase
<1>3. WbData
  BY DEF WbData
<1> QED BY <1>1, <1>2, <1>3 DEF WbInv

\* Every register keeps its type.
LEMMA WbTypeStep == WbTypeOK /\ [WbNext]_wbBusVars => WbTypeOK'
<1> SUFFICES ASSUME WbTypeOK, [WbNext]_wbBusVars PROVE WbTypeOK'
  OBVIOUS
<1>1. CASE UNCHANGED wbBusVars
  BY <1>1 DEF WbTypeOK, wbBusVars, coreVars, wbVars, masterVars, ramRegs
<1>2. CASE WbNext
  <2>1. /\ mem_valid' \in BOOLEAN /\ hold' \in 0 .. RESET_GAP
        /\ mem_addr' \in Words /\ mem_wdata' \in Data /\ mem_wstrb' \in Strobe
    BY <1>2, CoreTypes DEF WbTypeOK, WbNext, WbTick, WbReset
  <2>2. /\ mem_ready' \in BOOLEAN /\ mem_rdata' \in Data
        /\ state' \in {"IDLE", "WBSTART", "WBEND"}
        /\ wbm_stb_o' \in BOOLEAN /\ wbm_we_o' \in BOOLEAN
        /\ wbm_adr_o' \in Words /\ wbm_dat_o' \in Data /\ wbm_sel_o' \in Strobe
    BY <1>2 DEF WbTypeOK, WbNext, WbTick, WbReset, MasterStep, MasterIdle, MasterStart, MasterWait,
         MasterAnswered, MasterEnd, MasterReset, masterVars, Writing, Strobe
  <2>3. /\ wb_ack_o' \in BOOLEAN /\ wb_dat_o' \in Data /\ adr_r' \in Words
        /\ memory' \in [Words -> Data]
    <3>1. PICK k \in BOOLEAN, a \in Words : Ram(k, a)
      BY <1>2 DEF WbTypeOK, WbNext, WbTick, WbReset
    <3>2. Merge(memory[adr_r], wbm_dat_o, wbm_sel_o) \in Data
      BY MergeType DEF WbTypeOK
    <3> QED BY <3>1, <3>2 DEF WbTypeOK, Ram
  <2>4. stored' \in [Words -> Data]
    BY <1>2, <2>3, StoredType DEF WbTypeOK, WbNext, WbTick, WbReset
  <2> QED BY <2>1, <2>2, <2>3, <2>4 DEF WbTypeOK
<1> QED BY <1>1, <1>2

\* Which branch the master takes follows from the core's side of the edge.
LEMMA WbTickCases ==
    ASSUME WbInv, WbTick
    PROVE  \/ ~mem_valid /\ hold = 0 /\ CoreRaise(Words) /\ MasterIdle
           \/ ~mem_valid /\ CoreIdle /\ MasterIdle
           \/ mem_valid /\ ~mem_ready /\ CoreWait /\ (MasterStart \/ MasterWait \/ MasterAnswered)
           \/ mem_valid /\ mem_ready /\ CoreAccept /\ MasterEnd
<1> USE DEF WbInv, WbTypeOK, WbPhase
<1>1. MasterStep /\ CoreStep(Words)
  BY DEF WbTick
<1>2. ~mem_valid => MasterIdle
  BY <1>1 DEF MasterStep, MasterStart, MasterWait, MasterAnswered, MasterEnd
<1>3. mem_valid /\ mem_ready => MasterEnd
  BY <1>1 DEF MasterStep, MasterIdle, MasterStart, MasterWait, MasterAnswered
<1>4. mem_valid /\ ~mem_ready => MasterStart \/ MasterWait \/ MasterAnswered
  BY <1>1 DEF MasterStep, MasterIdle, MasterEnd
<1> QED BY <1>1, <1>2, <1>3, <1>4, CoreCases

\* A bus cycle stays that of the request.
LEMMA WbPhaseStep == WbInv /\ [WbNext]_wbBusVars => WbPhase'
<1> SUFFICES ASSUME WbInv, [WbNext]_wbBusVars PROVE WbPhase'
  OBVIOUS
<1> USE DEF WbInv, WbTypeOK, WbPhase
<1>1. CASE UNCHANGED wbBusVars
  BY <1>1 DEF wbBusVars, coreVars, wbVars, masterVars, ramRegs, Writing
<1>2. CASE WbReset
  BY <1>2, GapAssumption DEF WbReset, CoreReset, MasterReset, Ram, Writing
<1>3. CASE WbTick
  <2>1. Ram(wbm_stb_o /\ ~wb_ack_o, wbm_adr_o)
    BY <1>3 DEF WbTick
  <2>2. CASE ~mem_valid /\ hold = 0 /\ CoreRaise(Words) /\ MasterIdle
    BY <2>1, <2>2 DEF CoreRaise, MasterIdle, Ram, Writing
  <2>3. CASE ~mem_valid /\ CoreIdle /\ MasterIdle
    BY <2>1, <2>3 DEF CoreIdle, MasterIdle, Ram, Writing
  <2>4. CASE mem_valid /\ ~mem_ready /\ CoreWait /\ MasterStart
    BY <2>1, <2>4 DEF CoreWait, coreVars, MasterStart, Ram, Writing
  <2>5. CASE mem_valid /\ ~mem_ready /\ CoreWait /\ MasterWait
    BY <2>1, <2>5 DEF CoreWait, coreVars, MasterWait, masterVars, Ram, Writing
  <2>6. CASE mem_valid /\ ~mem_ready /\ CoreWait /\ MasterAnswered
    BY <2>1, <2>6 DEF CoreWait, coreVars, MasterAnswered, Ram, Writing
  <2>7. CASE mem_valid /\ mem_ready /\ CoreAccept /\ MasterEnd
    BY <2>1, <2>7 DEF CoreAccept, MasterEnd, Ram, Writing
  <2> QED BY <1>3, <2>2, <2>3, <2>4, <2>5, <2>6, <2>7, WbTickCases
<1> QED BY <1>1, <1>2, <1>3 DEF WbNext

\* What is read, and what the memory is ahead of the history by.
LEMMA WbDataStep == WbInv /\ [WbNext]_wbBusVars => WbData'
<1> SUFFICES ASSUME WbInv, [WbNext]_wbBusVars PROVE WbData'
  OBVIOUS
<1> USE DEF WbInv, WbTypeOK, WbPhase, WbData
<1>0. WbTypeOK'
  BY WbTypeStep
<1>1. CASE UNCHANGED wbBusVars
  BY <1>1 DEF wbBusVars, coreVars, wbVars, masterVars, ramRegs, Writing
<1>2. CASE WbReset
  <2>1. PICK a \in Words : Ram(FALSE, a)
    BY <1>2 DEF WbReset
  <2>2. \A x \in Words \ {mem_addr} : memory'[x] = stored[x]
    BY <2>1 DEF Ram
  <2>3. ~mem_valid => memory' = stored
    BY <2>1 DEF Ram
  <2>4. stored' = memory'
    BY <1>0, <1>2, <2>2, <2>3, CutOffStore DEF WbReset
  <2> QED BY <1>2, <2>1, <2>4 DEF WbReset, MasterReset, Ram
<1>3. CASE WbTick
  <2>1. Ram(wbm_stb_o /\ ~wb_ack_o, wbm_adr_o) /\ RememberStore
    BY <1>3 DEF WbTick
  <2>2. CASE ~mem_valid
    BY <1>3, <2>1, <2>2, WbTickCases DEF MasterIdle, Ram, RememberStore
  <2>3. CASE mem_valid /\ ~mem_ready /\ CoreWait /\ (MasterStart \/ MasterWait)
    BY <2>1, <2>3 DEF CoreWait, coreVars, MasterStart, MasterWait, masterVars, Ram, RememberStore, Writing
  <2>4. CASE mem_valid /\ ~mem_ready /\ CoreWait /\ MasterAnswered
    <3>1. stored' = stored /\ memory = stored
      BY <2>1, <2>4 DEF RememberStore, MasterAnswered
    <3>2. CASE Writing
      BY <2>1, <2>4, <3>1, <3>2 DEF CoreWait, coreVars, MasterAnswered, Ram, Writing
    <3>3. CASE ~Writing
      <4>1. memory' = memory
        BY <2>1, <3>3 DEF Ram
      <4>2. Merge(stored[mem_addr], mem_wdata, mem_wstrb) = stored[mem_addr]
        BY <3>3, MergeNone DEF Writing
      <4>3. [stored EXCEPT ![mem_addr] = Merge(@, mem_wdata, mem_wstrb)] = stored
        BY <4>2
      <4> QED BY <2>1, <2>4, <3>1, <3>3, <4>1, <4>3 DEF CoreWait, coreVars, MasterAnswered, Ram, Writing
    <3> QED BY <3>2, <3>3
  <2>5. CASE mem_valid /\ mem_ready /\ CoreAccept /\ MasterEnd
    <3>1. stored' = memory /\ memory' = memory
      BY <2>1, <2>5, AcceptedStore DEF Ram, MasterEnd
    <3> QED BY <2>1, <2>5, <3>1 DEF CoreAccept, MasterEnd, Ram, Writing
  <2> QED BY <1>3, <2>2, <2>3, <2>4, <2>5, WbTickCases
<1> QED BY <1>1, <1>2, <1>3 DEF WbNext

-----------------------------------------------------------------------------
\* The inductive invariant: a bus cycle is that of the request, and the memory
\* and the history agree but for the request being answered.
THEOREM WbInvariant == WbSpec => []WbInv
<1>1. WbInv /\ [WbNext]_wbBusVars => WbInv'
  BY WbTypeStep, WbPhaseStep, WbDataStep DEF WbInv
<1> QED BY <1>1, WbInitInv, PTL DEF WbSpec

\* Over the Wishbone bridge a load returns what the accepted stores left in the
\* RAM, across resets that leave mem_ready up or cut a bus cycle off.
THEOREM WbLoadsAreFresh == WbSpec => []LoadReturnsStored
<1>1. WbInv => LoadReturnsStored
  <2> SUFFICES ASSUME WbInv, mem_valid, mem_ready, ~Writing PROVE mem_rdata = stored[mem_addr]
    BY DEF LoadReturnsStored
  <2>1. state = "WBEND" /\ mem_rdata = memory[mem_addr]
    BY DEF WbInv, WbPhase, WbData
  <2>2. memory[mem_addr] = Merge(stored[mem_addr], mem_wdata, mem_wstrb)
    BY <2>1 DEF WbInv, WbTypeOK, WbData
  <2> QED BY <2>1, <2>2, MergeNone DEF WbInv, WbTypeOK, Writing
<1> QED BY <1>1, WbInvariant, PTL

=============================================================================

------------------------------- MODULE AxiBus -------------------------------
(***************************************************************************)
(* picorv32_axi_adapter (picorv32.v) between the core and the AXI4-Lite    *)
(* memory of the test bench (testbench.v), which handles its five channels *)
(* at both edges of the clock, each handler when a random bit allows it.   *)
(*                                                                         *)
(* A channel is "aw", "w" or "ar"; "b" and "r" stand for the answers.  The *)
(* memory sets the ready strobe of a channel and its fast_ flag together   *)
(* and clears them together, so one set stands for both, and the branches  *)
(* that look for a strobe without its flag are never taken.                *)
(***************************************************************************)
EXTENDS NativeMaster

VARIABLES
    clk,                        \* the next edge
    ack, xfer_done,             \* adapter: channels acknowledged, transfer accepted
    fast,                       \* memory: channels with their ready strobe up
    latched_en,                 \* memory: channels latched and not yet handled
    latched_raddr, latched_waddr, latched_wdata, latched_wstrb,
    rvalid, bvalid              \* answers on offer

axiVars == <<clk, ack, xfer_done, fast, latched_en, latched_raddr, latched_waddr,
             latched_wdata, latched_wstrb, rvalid, bvalid>>

Handlers == {"ar", "aw", "w", "r", "b"}

\* The adapter has been in reset for an edge: only ack_awvalid is known.
AxiInit ==
    /\ CoreInit(Words)
    /\ clk = "falling" /\ ack \in SUBSET {"ar", "w"} /\ xfer_done \in BOOLEAN
    /\ fast = {} /\ latched_en = {} /\ rvalid = FALSE /\ bvalid = FALSE
    /\ latched_raddr \in Words /\ latched_waddr = latched_raddr
    /\ latched_wdata = mem_wdata /\ latched_wstrb = mem_wstrb
    /\ mem_ready = FALSE /\ mem_rdata \in Data

-----------------------------------------------------------------------------
(* The adapter                                                             *)

\* mem_axi_awvalid, mem_axi_wvalid, mem_axi_arvalid.
AxiValid ==
    IF ~mem_valid THEN {} ELSE (IF Writing THEN {"aw", "w"} ELSE {"ar"}) \ ack
rready == mem_valid /\ ~Writing
bready == mem_valid /\ Writing

MutAckKeptByReset ==
    /\ xfer_done' = (mem_valid /\ mem_ready)
    /\ ack' = IF xfer_done THEN {} ELSE ack \cup (AxiValid \cap fast)
Adapter ==
    /\ xfer_done' = (mem_valid /\ mem_ready)
    /\ ack' = IF xfer_done \/ ~mem_valid THEN {} ELSE ack \cup (AxiValid \cap fast)

AdapterReset == ack' = ack \ {"aw"} /\ UNCHANGED xfer_done

-----------------------------------------------------------------------------
(* The memory.  Each edge runs the handlers in the order of the code, so   *)
(* that a channel may be latched and handled at once; `go' are those its   *)
(* random bits allow.                                                      *)

Taken(go)  == (AxiValid \cap go) \ (latched_en \cup fast)
Held(go)   == latched_en \cup Taken(go)
Reads(go)  == "r" \in go /\ "ar" \in Held(go) /\ ~rvalid
Writes(go) == "b" \in go /\ {"aw", "w"} \subseteq Held(go) /\ ~bvalid

Handle(go) ==
    /\ latched_raddr' = IF "ar" \in Taken(go) THEN mem_addr ELSE latched_raddr
    /\ latched_waddr' = IF "aw" \in Taken(go) THEN mem_addr ELSE latched_waddr
    /\ latched_wdata' = IF "w" \in Taken(go) THEN mem_wdata ELSE latched_wdata
    /\ latched_wstrb' = IF "w" \in Taken(go) THEN mem_wstrb ELSE latched_wstrb
    /\ mem_rdata' = IF Reads(go) THEN memory[latched_raddr'] ELSE mem_rdata
    /\ memory' = IF Writes(go)
                 THEN [memory EXCEPT ![latched_waddr'] = Merge(@, latched_wdata', latched_wstrb')]
                 ELSE memory
    /\ latched_en' = Held(go) \ ((IF Reads(go) THEN {"ar"} ELSE {})
                                 \cup (IF Writes(go) THEN {"aw", "w"} ELSE {}))

\* The rising edge drops the strobes and the answers that were accepted.
AtRising(go) ==
    /\ Handle(go) /\ fast' = Taken(go)
    /\ rvalid' = (Reads(go) \/ (rvalid /\ ~rready))
    /\ bvalid' = (Writes(go) \/ (bvalid /\ ~bready))

AtFalling(go) ==
    /\ Handle(go) /\ fast' = fast \cup Taken(go)
    /\ rvalid' = (Reads(go) \/ rvalid)
    /\ bvalid' = (Writes(go) \/ bvalid)

\* The memory of the test bench has no reset; an AXI slave has that of its master.
SlaveReset ==
    /\ fast' = {} /\ latched_en' = {} /\ rvalid' = FALSE /\ bvalid' = FALSE
    /\ UNCHANGED <<memory, mem_rdata, latched_raddr, latched_waddr, latched_wdata, latched_wstrb>>

-----------------------------------------------------------------------------
AxiReady == mem_ready' = (bvalid' \/ rvalid')

AxiRising(go) ==
    /\ clk = "rising" /\ clk' = "falling"
    /\ CoreStep(Words) /\ Adapter /\ AtRising(go) /\ AxiReady /\ RememberStore

AxiFalling(go) ==
    /\ clk = "falling" /\ clk' = "rising"
    /\ UNCHANGED <<coreVars, ack, xfer_done, stored>>
    /\ AtFalling(go) /\ AxiReady

AxiReset ==
    /\ clk = "rising" /\ clk' = "falling"
    /\ CoreReset /\ AdapterReset /\ SlaveReset /\ AxiReady /\ RememberCutOff

AxiNext == AxiReset \/ \E go \in SUBSET Handlers : AxiRising(go) \/ AxiFalling(go)

axiBusVars == <<coreVars, mem_ready, mem_rdata, memory, stored, axiVars>>
AxiSpec == AxiInit /\ [][AxiNext]_axiBusVars

-----------------------------------------------------------------------------
AxiTypeOK ==
    /\ mem_valid \in BOOLEAN /\ hold \in 0 .. RESET_GAP
    /\ mem_addr \in Words /\ mem_wdata \in Data /\ mem_wstrb \in Strobe
    /\ mem_ready \in BOOLEAN /\ mem_rdata \in Data
    /\ memory \in [Words -> Data] /\ stored \in [Words -> Data]
    /\ clk \in {"rising", "falling"} /\ xfer_done \in BOOLEAN
    /\ ack \in SUBSET {"aw", "w", "ar"}
    /\ fast \in SUBSET {"aw", "w", "ar"} /\ latched_en \in SUBSET {"aw", "w", "ar"}
    /\ latched_raddr \in Words /\ latched_waddr \in Words
    /\ latched_wdata \in Data /\ latched_wstrb \in Strobe
    /\ rvalid \in BOOLEAN /\ bvalid \in BOOLEAN

\* The channels of the request, and those the memory has taken for it.
Channels == IF Writing THEN {"aw", "w"} ELSE {"ar"}
Served   == ack \cup fast

\* Between two requests the memory is idle, whatever the adapter still holds;
\* within one, a channel is taken once and belongs to the request.
AxiPhase ==
    /\ mem_ready = (bvalid \/ rvalid)
    /\ ~mem_valid => fast = {} /\ latched_en = {} /\ ~rvalid /\ ~bvalid
    /\ mem_valid => /\ hold = 0 /\ ~xfer_done
                    /\ Served \subseteq Channels /\ ack \cap fast = {}
                    /\ latched_en \subseteq Served
    /\ rvalid => ~Writing /\ "ar" \in Served /\ "ar" \notin latched_en
    /\ bvalid => Writing /\ {"aw", "w"} \subseteq Served /\ latched_en = {}

AxiData ==
    /\ "ar" \in latched_en => latched_raddr = mem_addr
    /\ "aw" \in latched_en => latched_waddr = mem_addr
    /\ "w" \in latched_en => latched_wdata = mem_wdata /\ latched_wstrb = mem_wstrb
    /\ rvalid => mem_rdata = memory[mem_addr]
    /\ memory = IF bvalid
                THEN [stored EXCEPT ![mem_addr] = Merge(@, mem_wdata, mem_wstrb)]
                ELSE stored

AxiInv == AxiTypeOK /\ AxiPhase /\ AxiData
=============================================================================

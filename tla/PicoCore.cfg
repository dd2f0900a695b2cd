CONSTANTS
    WORDS = 3
    COMPRESSED_ISA = TRUE
    ENABLE_IRQ = FALSE
    ENABLE_REGS_DUALPORT = FALSE
    BARREL_SHIFTER = FALSE
    TWO_STAGE_SHIFT = TRUE
    TWO_CYCLE_ALU = TRUE
    TWO_CYCLE_COMPARE = TRUE
    WITH_PCPI = TRUE
    SET_STACKADDR = TRUE
    PROGADDR_RESET = 0
    PROGADDR_IRQ = 2
    MASKED_IRQ = {}
    LATCHED_IRQ = {0, 1, 2}
    EXT_IRQ = {}
    IRQ_MASKS = {}
    Ops = {"jal", "jalr", "branch", "load", "store", "lui", "alui", "alur", "slli", "sll", "move", "ebreak", "pcpi"}
    Targets = {1, 2}
    MAX_SHIFT = 5
    MAX_TIMER = 0
    PCPI_TIMEOUT = 2
    PCPI_WAITS = TRUE
    RESETS = TRUE
SPECIFICATION Spec
INVARIANTS
    RequestsExclusive
    TransferMatchesRequest
    RunsWhatIsAtPc
    WritesOwnResult
    FreshTimeout
PROPERTIES
    RequestStable
    ISASpec

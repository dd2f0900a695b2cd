CONSTANTS
    WORDS = 2
    COMPRESSED_ISA = TRUE
    ENABLE_IRQ = TRUE
    ENABLE_REGS_DUALPORT = TRUE
    BARREL_SHIFTER = FALSE
    TWO_STAGE_SHIFT = TRUE
    TWO_CYCLE_ALU = FALSE
    TWO_CYCLE_COMPARE = FALSE
    WITH_PCPI = FALSE
    SET_STACKADDR = TRUE
    PROGADDR_RESET = 0
    PROGADDR_IRQ = 2
    MASKED_IRQ = {}
    LATCHED_IRQ = {0, 1, 2}
    EXT_IRQ = {3}
    IRQ_MASKS = {{}}
    Ops = {"alui", "waitirq"}
    Targets = {}
    MAX_SHIFT = 0
    MAX_TIMER = 0
    PCPI_TIMEOUT = 2
    PCPI_WAITS = FALSE
    RESETS = FALSE
SPECIFICATION Spec
INVARIANTS
    LookAheadAnnounces

CONSTANTS
    WORDS = 2
    COMPRESSED_ISA = FALSE
    ENABLE_IRQ = FALSE
    ENABLE_REGS_DUALPORT = TRUE
    BARREL_SHIFTER = TRUE
    TWO_STAGE_SHIFT = TRUE
    TWO_CYCLE_ALU = FALSE
    TWO_CYCLE_COMPARE = FALSE
    WITH_PCPI = TRUE
    SET_STACKADDR = TRUE
    PROGADDR_RESET = 0
    PROGADDR_IRQ = 2
    MASKED_IRQ = {}
    LATCHED_IRQ = {0, 1, 2}
    EXT_IRQ = {}
    IRQ_MASKS = {}
    Ops = {"pcpi", "alui"}
    Targets = {}
    MAX_SHIFT = 0
    MAX_TIMER = 0
    PCPI_TIMEOUT = 3
    PCPI_WAITS = TRUE
    RESETS = TRUE
    ENABLE_MAC = TRUE
    ENABLE_MUL = TRUE
    FAST_MUL = {FALSE}
    ENABLE_DIV = FALSE
    EXTRA_MUL_FFS = FALSE
    EXTRA_INSN_FFS = FALSE
    MUL_CLKGATE = FALSE
    MUL_STEPS = 3
    DIV_STEPS = 4
    RS_VALUES = {"rs_a", "rs_b"}
    RESET_CYCLES = 1
SPECIFICATION SysSpec
INVARIANTS
    TakesOwnResult

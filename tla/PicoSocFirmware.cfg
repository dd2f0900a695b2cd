SPECIFICATION FairSpec
CONSTANTS
    BOARDS = {"HX8KDEMO", "ICEBREAKER"}
    KEYS <- Keys
    TYPED = 4
    REPS = 2
    LATENCIES = 2
    CYCLES = 2
    MEM_TOTAL <- Memory
    STRIDE = 16
    TEST_BYTES = 4
    LINES = {1, 2, 4}
    DATA = 3
INVARIANTS
    FlashMatches
    ReportsTrue
    MemtestVerdict
    PackedInOrder
PROPERTIES
    KeyIsRead
CHECK_DEADLOCK FALSE

SPECIFICATION FairSpec
CONSTANTS
    LATENCY = 8
    BASE = 1048576
    BITS = 2
    DEFAULT_DIV = 1
    DUMMY = 5
    TRAFFIC = {"flash", "local", "serial"}
    FLASH_WORDS = {0, 1}
    SRAM_WORDS = {0, 1}
    VALUES = {0, 1}
    MODES <- BenchmarkModes
    DIV = 2
    SENDS <- Sends
    TYPES <- Types
    WRITES = 2
INVARIANTS
    LoadsReadRight
    SentArrives
    TypedIsTaken
PROPERTIES
    Answered

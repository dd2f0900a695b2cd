CONSTANTS
    W = 4
    STEPS_AT_ONCE = 1
    CARRY_CHAIN = 2
    BITMAP_SIZE = 64
    PAIRS = 2
    COUNTS <- MCCounts
    BYTE_BITS = 2
    CALLS <- MCCalls
    VALUES <- MCValues
SPECIFICATION TestsSpec
INVARIANTS
    PartialResults
    TestsPass
    DecimalsReadBack
    StringsAreRight
CHECK_DEADLOCK FALSE

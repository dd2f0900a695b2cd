SPECIFICATION BusesSpec
CONSTANTS
    Words = {w0, w1}
    Lanes = {l0}
    Byte = {0, 1}
    LaneZero = l0
    RESET_GAP = 1
INVARIANTS
    LoadReturnsStored
    LoadReturnsSampled
    OutByteOncePerStore
PROPERTIES
    MappedIsAnswered

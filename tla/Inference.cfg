SPECIFICATION FairSpec
CONSTANTS
    POOL = 2
    FILTERS = 2
    CLASSES = 3
    M1_NUM = 169
    M1_SHIFT = 15
    PROGRAMS = {"baseline", "mac4", "demo", "led_test"}
    WORLDS <- MCWorlds
    IMAGES = 2
    SWITCHES <- MCSwitches
    RESETS = 2
INVARIANTS
    ScoresAreBaseline
    SumsFit
    BestIsFirstMaximum
    ConfidenceIsShare
    DisplayShowsSelected
    AccuracyCounted
PROPERTIES
    DisplaySettles
CHECK_DEADLOCK FALSE

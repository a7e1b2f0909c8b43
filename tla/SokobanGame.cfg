SPECIFICATION Spec
CONSTANTS
    soko_nlevels = 2
    TICKS_PER_PRINT = 2
    NUM_HIGHSCORES = 1
    UINT32_MAX = 99
    MaxTicks = 4
    MaxMoves = 1
INVARIANTS
    TypeOK
    ClockRunsOnTheBoard
    EveryTickCountsOnce
    TimeTextIsMains
    ReturnsToTheBoard
    ScreenMatchesState
    SummaryIsFinal

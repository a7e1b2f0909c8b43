SPECIFICATION Spec
CONSTANTS
    NUM_HIGHSCORES = 3
    UINT32_MAX = 2
    MaxGames = 4
INVARIANTS
    Sorted
    HoldsTheBest
CHECK_DEADLOCK FALSE

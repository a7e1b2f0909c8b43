SPECIFICATION Spec
CONSTANTS
    LONG_BITS = 8
    PRINTF_BUFMAX = 5
    INSERTION = 4
    NINTHER = 7
    HALF_BITS = 2
    N = 5
    M = 3
    WORD_BITS = 8
    MATRIX_A = 153
    DEFAULT_SEED = 57
    TEMPERING <- MCTempering
    SU_BOX_SIZE = 2
    SEMI_ITERATIONS = 3
    Grids <- MCGrids
    Fillings <- MCFillings
    Calls <- MCCalls
INVARIANTS
    
    ReadsBackWhatItPrints
    ComputesTheReference
    SolverIsSound
\* A call that has returned is the end of a behaviour.
CHECK_DEADLOCK FALSE

SPECIFICATION Spec
CONSTANTS
    TICK_MOD = 4
    MaxDepth = 1
INVARIANTS
    PeriodIs10ms

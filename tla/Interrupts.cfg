SPECIFICATION FairSpec
CONSTANTS
    TICK_MOD = 4
    MaxDepth = 3
INVARIANTS
    TypeOK
    NotReentered
    PicAgreesWithStack
    HandlersAreInstalled
    ScancodeReadOnce
PROPERTIES
    TicksInOrder
    KeyIsTaken
    MainRunsAgain

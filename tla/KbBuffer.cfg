SPECIFICATION FairSpec
CONSTANTS
    CIRCULAR_BUFFER_SIZE = 4
    a = a
    b = b
    Scancode <- MCScancode
    NoScancode = NoScancode
INVARIANTS
    TypeOK
    ReaderOwnsItsSlot
    HoldsAtMostOne
PROPERTIES
    ImplementsQueueOfOne
    StoredScancodesAreRead

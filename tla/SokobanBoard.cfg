SPECIFICATION Spec
CONSTANTS
    CONSOLE_HEIGHT = 6
    CONSOLE_WIDTH = 7
    Levels <- MCLevels
INVARIANTS
    TypeOK
    PlayerIsWhereItShows
    FixedSquaresStay
    BoxesAreCounted
PROPERTIES
    PlaysByTheRules

SPECIFICATION Spec
CONSTANTS
    CONSOLE_HEIGHT = 3
    CONSOLE_WIDTH = 2
    Char <- MCChar
    ASCII_SPACE = " "
    NUL = "NUL"
    Color = {"white", "grey"}
    Ink = {"white"}
    BadColor = {"bad"}
    Strings <- MCStrings
INVARIANTS
    TypeOK
    HardwareFollows
PROPERTIES
    IsATerminal

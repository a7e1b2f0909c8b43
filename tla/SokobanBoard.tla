---------------------------- MODULE SokobanBoard ----------------------------
(***************************************************************************)
(* The board of kern/sokoban_game.c.  The console memory is the only       *)
(* record of it: a level is drawn once, and try_move reads the squares     *)
(* back from the screen with get_char and redraws up to three of them.     *)
(* What the screen cannot show, a goal under the player, is the flag       *)
(* on_goal; how many boxes are not on a goal is the counter boxes_left.    *)
(*                                                                         *)
(* The text around the board (moves, time, help) is SokobanGame's: on the  *)
(* 25 x 80 console it does not touch the squares of any level.             *)
(***************************************************************************)
EXTENDS Integers, FiniteSets

CONSTANTS
    CONSOLE_HEIGHT, CONSOLE_WIDTH,
    Levels    \* records [height, width, map], map[r][c] a SOK_ character

ASSUME ConsoleAssumption ==
    /\ CONSOLE_HEIGHT \in Nat \ {0}
    /\ CONSOLE_WIDTH \in Nat \ {0}

\* Maps smaller than the console; larger ones are clipped and never shipped.
ASSUME LevelsAssumption ==
    \A lv \in Levels :
        /\ lv.height \in 1 .. CONSOLE_HEIGHT - 1
        /\ lv.width \in 1 .. CONSOLE_WIDTH - 1
        /\ lv.map \in [1 .. lv.height -> [1 .. lv.width -> {"X", "o", "b", "g", " "}]]

VARIABLES
    level,        \* current_game.level
    screen,       \* the characters on the console, by square
    square,       \* <<current_game.curr_row, current_game.curr_col>>
    on_goal,      \* current_game.on_goal
    boxes_left,   \* current_game.boxes_left
    phase         \* which of the game's screens is up

vars == <<level, screen, square, on_goal, boxes_left, phase>>

Square == (0 .. CONSOLE_HEIGHT - 1) \X (0 .. CONSOLE_WIDTH - 1)
Dir == {"UP", "DOWN", "LEFT", "RIGHT"}

\* The symbols of sokoban.h and those of the screen.
SOK_WALL == "X"
SOK_PUSH == "o"
SOK_ROCK == "b"
SOK_GOAL == "g"
MY_SOK_WALL == "#"
MY_SOK_PLAYER == "@"
MY_SOK_BOX == "o"
MY_SOK_GOAL == "x"
MY_SOK_BOX_ON_GOAL == "O"
ASCII_SPACE == " "
Symbol == {MY_SOK_WALL, MY_SOK_PLAYER, MY_SOK_BOX, MY_SOK_GOAL,
           MY_SOK_BOX_ON_GOAL, ASCII_SPACE}

-----------------------------------------------------------------------------
(* Drawing a level.                                                        *)

\* align_row and align_col with CENTER at ALIGNMENT_HALF; -1 is the error.
Centered(console, size) ==
    IF size < 0 \/ size >= console THEN -1 ELSE ((console - size) * 50) \div 100

clear_console == [sq \in Square |-> ASCII_SPACE]

Drawn(ch) ==
    CASE ch = SOK_WALL -> MY_SOK_WALL
      [] ch = SOK_PUSH -> MY_SOK_PLAYER
      [] ch = SOK_ROCK -> MY_SOK_BOX
      [] ch = SOK_GOAL -> MY_SOK_GOAL
      [] OTHER         -> ASCII_SPACE

\* The map's squares and where each lands on the console.
MapSquare(lv) == (1 .. lv.height) \X (1 .. lv.width)
On(lv, m) == <<Centered(CONSOLE_HEIGHT, lv.height) + m[1] - 1,
               Centered(CONSOLE_WIDTH, lv.width) + m[2] - 1>>
With(lv, ch) == {m \in MapSquare(lv) : lv.map[m[1]][m[2]] = ch}

\* draw_char ignores squares outside the console.
LevelScreen(lv) ==
    [sq \in Square |->
        LET here == {m \in MapSquare(lv) : On(lv, m) = sq}
        IN  IF here = {} THEN ASCII_SPACE
            ELSE LET m == CHOOSE m \in here : TRUE IN Drawn(lv.map[m[1]][m[2]])]

\* What draw_sokoban_level returns.
Valid(lv) == Cardinality(With(lv, SOK_PUSH)) = 1 /\ With(lv, SOK_ROCK) # {}

StartSquare(lv) == On(lv, CHOOSE m \in With(lv, SOK_PUSH) : TRUE)

\* Mutant: the flag of the last attempt survives a restart.
restart_keeping_flag(lv) ==
    IF Valid(lv)
    THEN /\ screen' = LevelScreen(lv)
         /\ square' = StartSquare(lv)
         /\ boxes_left' = Cardinality(With(lv, SOK_ROCK))
         /\ phase' = "running"
         /\ UNCHANGED on_goal
    ELSE /\ screen' = clear_console
         /\ phase' = "introduction"
         /\ UNCHANGED <<square, boxes_left, on_goal>>
restart_current_level(lv) ==
    /\ on_goal' = FALSE
    /\ IF Valid(lv)
       THEN /\ screen' = LevelScreen(lv)
            /\ square' = StartSquare(lv)
            /\ boxes_left' = Cardinality(With(lv, SOK_ROCK))
            /\ phase' = "running"
       ELSE /\ screen' = clear_console
            /\ phase' = "introduction"
            /\ UNCHANGED <<square, boxes_left>>

\* start_sokoban_level, from the introduction or from the last level's summary.
Start(lv) ==
    /\ phase \in {"introduction", "summary"}
    /\ level' = lv
    /\ restart_current_level(lv)

Restart ==
    /\ phase = "running"
    /\ restart_current_level(level)
    /\ UNCHANGED level

\* quit_game, or the introduction after the last level's summary.
display_introduction ==
    /\ phase \in {"running", "summary"}
    /\ phase' = "introduction"
    /\ screen' = clear_console
    /\ UNCHANGED <<level, square, on_goal, boxes_left>>

-----------------------------------------------------------------------------
(* Moving.                                                                 *)

Ahead(dir, sq) ==
    CASE dir = "UP"    -> <<sq[1] - 1, sq[2]>>
      [] dir = "DOWN"  -> <<sq[1] + 1, sq[2]>>
      [] dir = "LEFT"  -> <<sq[1], sq[2] - 1>>
      [] dir = "RIGHT" -> <<sq[1], sq[2] + 1>>

valid_next_square(dir, sq) ==
    CASE dir = "UP"    -> sq[1] - 1 >= 0
      [] dir = "DOWN"  -> sq[1] + 1 < CONSOLE_HEIGHT
      [] dir = "LEFT"  -> sq[2] - 1 >= 0
      [] dir = "RIGHT" -> sq[2] + 1 < CONSOLE_WIDTH - 1

\* Mutant: a box on a goal counts as floor.
MovableOntoBoxes(ch) == ch \in {ASCII_SPACE, MY_SOK_GOAL, MY_SOK_BOX_ON_GOAL}
Movable(ch) == ch \in {ASCII_SPACE, MY_SOK_GOAL}
Pushable(ch) == ch \in {MY_SOK_BOX, MY_SOK_BOX_ON_GOAL}

\* What the player leaves behind.
\* Mutant: the map's symbol of a goal instead of the screen's.
LeftAsInMap == IF on_goal THEN SOK_GOAL ELSE ASCII_SPACE
Left == IF on_goal THEN MY_SOK_GOAL ELSE ASCII_SPACE

\* The test at the end of try_move; complete_level clears the screen.
EndOfMove(drawn) ==
    IF boxes_left' = 0
    THEN screen' = clear_console /\ phase' = "summary"
    ELSE screen' = drawn /\ phase' = phase

\* Mutant: the player is not erased.
Walk_leaving(dir) ==
    LET next == Ahead(dir, square) IN
    /\ phase = "running"
    /\ valid_next_square(dir, square)
    /\ Movable(screen[next])
    /\ on_goal' = (screen[next] = MY_SOK_GOAL)
    /\ square' = next
    /\ UNCHANGED <<level, boxes_left>>
    /\ EndOfMove([screen EXCEPT ![next] = MY_SOK_PLAYER])
Walk(dir) ==
    LET next == Ahead(dir, square) IN
    /\ phase = "running"
    /\ valid_next_square(dir, square)
    /\ Movable(screen[next])
    /\ on_goal' = (screen[next] = MY_SOK_GOAL)
    /\ square' = next
    /\ UNCHANGED <<level, boxes_left>>
    /\ EndOfMove([screen EXCEPT ![square] = Left, ![next] = MY_SOK_PLAYER])

\* Mutant: taking a box off a goal is not counted.
CountPushForgetting(box, target) ==
    boxes_left' = IF box = MY_SOK_BOX /\ target = MY_SOK_GOAL
                  THEN boxes_left - 1 ELSE boxes_left
CountPush(box, target) ==
    boxes_left' = CASE box = MY_SOK_BOX /\ target = MY_SOK_GOAL -> boxes_left - 1
                    [] box = MY_SOK_BOX_ON_GOAL /\ target = ASCII_SPACE -> boxes_left + 1
                    [] OTHER -> boxes_left

\* Mutant: a box leaves its old symbol behind when it is pushed on.
BoxAt(target) == MY_SOK_BOX
Box(target) == IF target = MY_SOK_GOAL THEN MY_SOK_BOX_ON_GOAL ELSE MY_SOK_BOX

Push(dir) ==
    LET next == Ahead(dir, square)
        next_next == Ahead(dir, next)
    IN
    /\ phase = "running"
    /\ valid_next_square(dir, square)
    /\ Pushable(screen[next])
    /\ valid_next_square(dir, next)
    /\ Movable(screen[next_next])
    /\ on_goal' = (screen[next] = MY_SOK_BOX_ON_GOAL)
    /\ square' = next
    /\ CountPush(screen[next], screen[next_next])
    /\ UNCHANGED level
    /\ EndOfMove([screen EXCEPT ![square] = Left,
                                ![next] = MY_SOK_PLAYER,
                                ![next_next] = Box(screen[next_next])])

\* Every other case only prints the moves again or returns.
try_move(dir) == Walk(dir) \/ Push(dir)

Init ==
    /\ level \in Levels
    /\ screen = clear_console
    /\ square = <<0, 0>>
    /\ on_goal = FALSE
    /\ boxes_left = 0
    /\ phase = "introduction"

Next ==
    \/ \E dir \in Dir : try_move(dir)
    \/ \E lv \in Levels : Start(lv)
    \/ Restart
    \/ display_introduction

Spec == Init /\ [][Next]_vars

-----------------------------------------------------------------------------
Showing(symbols) == {sq \in Square : screen[sq] \in symbols}
Placed(lv, ch) == {On(lv, m) : m \in With(lv, ch)}

(* The types of the variables; the player never leaves the console.        *)
TypeOK ==
    /\ level \in Levels
    /\ screen \in [Square -> Symbol]
    /\ square \in Square
    /\ on_goal \in BOOLEAN
    /\ boxes_left \in Nat
    /\ phase \in {"running", "summary", "introduction"}

(* The screen shows one player, and where the game believes it is.         *)
PlayerIsWhereItShows ==
    phase = "running" => Showing({MY_SOK_PLAYER}) = {square}

(* No target location and no wall is ever lost or made up, although walking*)
(* over a target and pushing boxes over it erase its symbol and on_goal is *)
(* all that remembers it.                                                  *)
Goals == Showing({MY_SOK_GOAL, MY_SOK_BOX_ON_GOAL}) \cup (IF on_goal THEN {square} ELSE {})

FixedSquaresStay ==
    phase = "running" => /\ Goals = Placed(level, SOK_GOAL)
                         /\ Showing({MY_SOK_WALL}) = Placed(level, SOK_WALL)

(* Boxes are neither lost nor made up, and the counter that decides when   *)
(* the level is complete agrees with the boxes on the screen.              *)
BoxesAreCounted ==
    phase = "running" =>
        /\ boxes_left = Cardinality(Showing({MY_SOK_BOX}))
        /\ boxes_left > 0
        /\ Cardinality(Showing({MY_SOK_BOX, MY_SOK_BOX_ON_GOAL})) =
               Cardinality(With(level, SOK_ROCK))

(* Read as sets of squares, the screen moves as the rules say: among other *)
(* things, a box goes one square at a time, away from the player, and the  *)
(* level ends with the push that leaves no box off a target.               *)
Layout(lv) == [walls  |-> Placed(lv, SOK_WALL),
               goals  |-> Placed(lv, SOK_GOAL),
               boxes  |-> Placed(lv, SOK_ROCK),
               player |-> StartSquare(lv)]

Rules == INSTANCE SokobanRules WITH
            Layouts <- {Layout(lv) : lv \in {l \in Levels : Valid(l)}},
            walls  <- Showing({MY_SOK_WALL}),
            goals  <- Goals,
            boxes  <- Showing({MY_SOK_BOX, MY_SOK_BOX_ON_GOAL}),
            player <- square

PlaysByTheRules == Rules!RSpec
=============================================================================

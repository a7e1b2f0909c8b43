------------------------------ MODULE Terminal ------------------------------
(***************************************************************************)
(* What the console driver promises (p1kern.h, console.c): a grid of       *)
(* coloured characters, on which text is typed at a cursor, and a caret    *)
(* that the screen shows at the cursor when a call returns, or not at all. *)
(***************************************************************************)
EXTENDS Integers, Sequences

CONSTANTS
    HEIGHT, WIDTH,
    Char, Color,   \* what a square can hold
    Ink,           \* the colours squares are given
    Space,
    Texts          \* the texts that are typed

VARIABLES
    grid,          \* grid[row][col] = [ch, color]
    at,            \* the cursor, <<row, col>>
    ink,           \* the colour text is typed in
    shown,         \* whether the cursor is to be seen
    caret,         \* where it is seen, <<>> if nowhere
    typing, text   \* a call is typing, and what it has left to type

tvars == <<grid, at, ink, shown, caret, typing, text>>

Rows == 0 .. HEIGHT - 1
Cols == 0 .. WIDTH - 1

TInit ==
    /\ grid \in [Rows -> [Cols -> [ch : {Space}, color : Color]]]
    /\ at = <<0, 0>>
    /\ ink \in Ink
    /\ shown = TRUE
    /\ caret = <<0, 0>>
    /\ typing = FALSE
    /\ text = <<>>

-----------------------------------------------------------------------------
\* The rows move up; the last one goes blank and keeps its colours.
Scrolled(g) ==
    [row \in Rows |->
        IF row < HEIGHT - 1
        THEN g[row + 1]
        ELSE [col \in Cols |-> [g[row][col] EXCEPT !.ch = Space]]]

Put(sq, ch) == [grid EXCEPT ![sq[1]][sq[2]] = [ch |-> ch, color |-> ink]]

\* The cursor moves to the start of the next row, which the last one makes.
NewLine(g) ==
    IF at[1] = HEIGHT - 1
    THEN grid' = Scrolled(g) /\ at' = <<at[1], 0>>
    ELSE grid' = g /\ at' = <<at[1] + 1, 0>>

Before == IF at[2] > 0 THEN <<at[1], at[2] - 1>> ELSE <<at[1] - 1, WIDTH - 1>>

Carriage == at' = <<at[1], 0>> /\ UNCHANGED grid
Backspace ==
    IF at = <<0, 0>>
    THEN UNCHANGED <<grid, at>>
    ELSE grid' = Put(Before, Space) /\ at' = Before
Letter(ch) ==
    IF at[2] = WIDTH - 1
    THEN NewLine(Put(at, ch))
    ELSE grid' = Put(at, ch) /\ at' = <<at[1], at[2] + 1>>

Type ==
    /\ typing
    /\ text # <<>>
    /\ CASE Head(text) = "CR" -> Carriage
         [] Head(text) = "LF" -> NewLine(grid)
         [] Head(text) = "BS" -> Backspace
         [] OTHER             -> Letter(Head(text))
    /\ text' = Tail(text)
    /\ UNCHANGED <<ink, shown, caret, typing>>

Begin(s) ==
    /\ ~typing
    /\ typing' = TRUE
    /\ text' = s
    /\ UNCHANGED <<grid, at, ink, shown, caret>>

\* Only now does the caret follow the cursor.
Show == caret' = IF shown' THEN at' ELSE <<>>

End ==
    /\ typing
    /\ text = <<>>
    /\ typing' = FALSE
    /\ Show
    /\ UNCHANGED <<grid, at, ink, shown, text>>

-----------------------------------------------------------------------------
Call == ~typing /\ UNCHANGED <<typing, text>>

MoveTo(row, col) ==
    Call /\ at' = <<row, col>> /\ Show /\ UNCHANGED <<grid, ink, shown>>

Visible(yes) == Call /\ shown' = yes /\ Show /\ UNCHANGED <<grid, at, ink>>

\* Clearing leaves the colours as they are.
Clear ==
    /\ Call
    /\ grid' = [row \in Rows |-> [col \in Cols |-> [grid[row][col] EXCEPT !.ch = Space]]]
    /\ at' = <<0, 0>>
    /\ Show
    /\ UNCHANGED <<ink, shown>>

Draw(row, col, ch, color) ==
    /\ Call
    /\ grid' = [grid EXCEPT ![row][col] = [ch |-> ch, color |-> color]]
    /\ UNCHANGED <<at, ink, shown, caret>>

SetInk(color) == Call /\ ink' = color /\ UNCHANGED <<grid, at, shown, caret>>

TNext ==
    \/ \E s \in Texts : Begin(s)
    \/ Type
    \/ End
    \/ Clear
    \/ \E yes \in BOOLEAN : Visible(yes)
    \/ \E row \in Rows, col \in Cols :
          \/ MoveTo(row, col)
          \/ \E ch \in Char, color \in Ink : Draw(row, col, ch, color)
    \/ \E color \in Ink : SetInk(color)

TSpec == TInit /\ [][TNext]_tvars
=============================================================================

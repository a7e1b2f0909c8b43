---------------------------- MODULE Semisolver ----------------------------
(***************************************************************************)
(* The solver of "most sudokus", 410kern/misc/semisolver.c.  A sudoku is a *)
(* function from cells <<row, col>> to numbers, 0 for a blank; needed is   *)
(* the set of the <<cell, num>> that are still possible, num from 1.       *)
(* A step is what solve_known's loops do with one number at one cell.      *)
(***************************************************************************)
EXTENDS Integers

CONSTANTS
    SU_BOX_SIZE,           \* 3 in the code
    SEMI_ITERATIONS,       \* 100 in the code
    Grids,                 \* the sudokus to be solved
    Fillings               \* the complete grids that may be their solutions

SU_GRID_SIZE == SU_BOX_SIZE * SU_BOX_SIZE
Index == 0 .. SU_GRID_SIZE - 1
Cell == Index \X Index
Num == 1 .. SU_GRID_SIZE

ASSUME BoxSizeAssumption == SU_BOX_SIZE \in Nat \ {0}
ASSUME IterationsAssumption == SEMI_ITERATIONS \in Nat \ {0}
ASSUME GridsAssumption == /\ Grids \subseteq [Cell -> {0} \cup Num]
                          /\ Fillings \subseteq [Cell -> Num]

VARIABLES
    given,                 \* the sudoku semisolve was called with
    sudoku, needed,
    done,                  \* solve_known's done
    cell, num,             \* where solve_known's loops are
    rounds                 \* how often semisolve has called it

ssVars == <<given, sudoku, needed, done, cell, num, rounds>>

\* coord_to_square: the box of a cell.
Square(c) == <<c[1] \div SU_BOX_SIZE, c[2] \div SU_BOX_SIZE>>

RowOf(c) == {d \in Cell : d[1] = c[1]}
ColOf(c) == {d \in Cell : d[2] = c[2]}
SquareOf(c) == {d \in Cell : Square(d) = Square(c)}
Units(c) == {RowOf(c), ColOf(c), SquareOf(c)}

\* The cells of a unit that may still hold n.
Possible(possible, unit, n) == {c \in unit : <<c, n>> \in possible}

\* Mutant: the places of the number inside the square are not looked at.
can_place_loose(possible, c, n) ==
    \/ \A k \in Num : <<c, k>> \in possible => k = n
    \/ \E unit \in Units(c) : Possible(possible, unit \ SquareOf(c), n) \subseteq {c}
\* No other number for the cell, or no other cell of a unit for the number.
can_place(possible, c, n) ==
    \/ \A k \in Num : <<c, k>> \in possible => k = n
    \/ \E unit \in Units(c) : Possible(possible, unit, n) \subseteq {c}

\* What is no longer possible once n is at the cell c.
Settled(c, n) == ({c} \X Num) \cup ((UNION Units(c)) \X {n})

\* If the places of one unit are all in another one, the rest of that is out.
Outside(possible, unit, other, n) ==
    IF Possible(possible, unit, n) \subseteq other THEN other \ unit ELSE {}

eliminate(possible, c, n) ==
    LET out == UNION {Outside(possible, unit, SquareOf(c), n)
                      \cup Outside(possible, SquareOf(c), unit, n)
                      : unit \in {RowOf(c), ColOf(c)}}
    IN  possible \ (out \X {n})

\* needed when the loops have come to the cell.
Narrowed == IF <<cell, num>> \in needed THEN eliminate(needed, cell, num) ELSE needed
Places == sudoku[cell] = 0 /\ <<cell, num>> \in Narrowed /\ can_place(Narrowed, cell, num)

LastCell == cell = <<SU_GRID_SIZE - 1, SU_GRID_SIZE - 1>>
NextCell == IF cell[2] < SU_GRID_SIZE - 1 THEN <<cell[1], cell[2] + 1>>
            ELSE <<(cell[1] + 1) % SU_GRID_SIZE, 0>>

\* semisolve returns, with done: 1 if solve_known has met no blank.
Returns == cell = <<0, 0>> /\ num = 1 /\ rounds > 0 /\ (done \/ rounds = SEMI_ITERATIONS)

solve_known ==
    /\ ~Returns
    /\ sudoku' = IF Places THEN [sudoku EXCEPT ![cell] = num] ELSE sudoku
    /\ needed' = IF Places THEN Narrowed \ Settled(cell, num) ELSE Narrowed
    /\ done' = /\ done \/ (cell = <<0, 0>> /\ num = 1)
               /\ sudoku'[cell] # 0
    /\ cell' = NextCell
    /\ num' = IF ~LastCell THEN num ELSE IF num < SU_GRID_SIZE THEN num + 1 ELSE 1
    /\ rounds' = IF LastCell /\ num = SU_GRID_SIZE THEN rounds + 1 ELSE rounds
    /\ UNCHANGED given

\* semisolve's first loops.
semisolve ==
    /\ given \in Grids
    /\ sudoku = given
    /\ needed = (Cell \X Num) \ UNION {Settled(c, given[c]) : c \in {d \in Cell : given[d] # 0}}
    /\ done = FALSE
    /\ cell = <<0, 0>>
    /\ num = 1
    /\ rounds = 0

ssSpec == semisolve /\ [][solve_known]_ssVars

-----------------------------------------------------------------------------
Completes(f, grid) == \A c \in Cell : grid[c] = 0 \/ f[c] = grid[c]

\* Every number once in every row, column and box.
IsProper(f) ==
    \A c \in Cell : \A unit \in Units(c) :
        /\ \A n \in Num : \E d \in unit : f[d] = n
        /\ \A d \in unit : f[d] = f[c] => d = c

Solves(f, grid) == Completes(f, grid) /\ IsProper(f)

\* A sudoku that breaks no rule yet: no number twice in a row, column or box.
NoRepeats(grid) ==
    \A c \in Cell : \A unit \in Units(c) :
        \A d \in unit : grid[c] # 0 /\ grid[d] = grid[c] => d = c

(* The solver only places numbers "it knows should be placed with 100%     *)
(* certainty" (semisolver.c:24): whatever it has eliminated and placed, in *)
(* whatever order, every solution of the given grid completes the grid.    *)
KeepsEverySolution ==
    \A f \in Fillings : Solves(f, given) => Completes(f, sudoku)

(* When 1 is returned the grid is full and has the clues, and is the only  *)
(* solution the given grid may have.  If that broke no rule, neither does  *)
(* what is returned: so a sudoku that breaks none, but has no solution or  *)
(* more than one, is never returned as solved.  One that breaks a rule can *)
(* be: a number given twice is not looked for, in spite of "@return 1 if   *)
(* the sudoku has been solved" (semisolver.c:224).                         *)
ReturnsTheSolution ==
    Returns /\ done =>
        /\ sudoku \in [Cell -> Num]
        /\ Completes(sudoku, given)
        /\ NoRepeats(given) => NoRepeats(sudoku)
        /\ \A f \in Fillings : Solves(f, given) => f = sudoku

(* Both: nothing of a solution is lost, and nothing is called solved that  *)
(* is not, but of what broke a rule from the beginning.                    *)
SolverIsSound == KeepsEverySolution /\ ReturnsTheSolution
=============================================================================

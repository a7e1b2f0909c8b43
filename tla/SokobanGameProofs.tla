------------------------- MODULE SokobanGameProofs -------------------------
(***************************************************************************)
(* Proofs about SokobanGame, for any number of levels, any tick and move,  *)
(* and any of the levels invalid.                                          *)
(*                                                                         *)
(* main's program counter is todo.  Every value it takes is named below,   *)
(* after what main is doing and the number of statements left; the         *)
(* inductive invariant says what holds at each of them, as the annotations *)
(* of a program would, and a timer tick must not disturb any.              *)
(***************************************************************************)
EXTENDS SokobanGame, SequenceTheorems, TLAPS

-----------------------------------------------------------------------------
(* What is left of main's statements.                                      *)

snprintf(time_of) == [do |-> "snprintf", time_of |-> time_of]

Put1 == <<stmt("putstring")>>
Highscore2 == <<snprintf("highscore"), stmt("putstring")>>
Intro1 == <<show("intro")>>
Intro2 == <<stmt("clear_console"), show("intro")>>
Intro3 == <<set("state", "INTRODUCTION"), stmt("clear_console"), show("intro")>>
Timed3 == <<show("intro"), snprintf("highscore"), stmt("putstring")>>
Timed4 == <<stmt("clear_console"), show("intro"), snprintf("highscore"), stmt("putstring")>>
Timed5 == <<set("state", "INTRODUCTION"), stmt("clear_console"), show("intro"),
            snprintf("highscore"), stmt("putstring")>>

Instr1 == <<show("instructions")>>
Instr2 == <<stmt("clear_console"), show("instructions")>>
Instr3 == <<set("state", "INSTRUCTIONS"), stmt("clear_console"), show("instructions")>>
Instr4 == <<stmt("previous_state"), set("state", "INSTRUCTIONS"), stmt("clear_console"),
            show("instructions")>>
Instr5 == <<stmt("save"), stmt("previous_state"), set("state", "INSTRUCTIONS"),
            stmt("clear_console"), show("instructions")>>

Pause1 == <<show("pause")>>
Pause2 == <<stmt("clear_console"), show("pause")>>
Pause3 == <<set("game_state", "PAUSED"), stmt("clear_console"), show("pause")>>
Pause4 == <<stmt("save"), set("game_state", "PAUSED"), stmt("clear_console"), show("pause")>>

Restart1 == <<stmt("draw_sokoban_level")>>
Restart2 == <<stmt("clear_moves"), stmt("draw_sokoban_level")>>
Restart3 == <<set("game_state", "PAUSED"), stmt("clear_moves"), stmt("draw_sokoban_level")>>
Start4(n) == <<set("level", n), set("game_state", "PAUSED"), stmt("clear_moves"),
               stmt("draw_sokoban_level")>>
Start5(n) == <<set("state", "GAME_RUNNING"), set("level", n), set("game_state", "PAUSED"),
               stmt("clear_moves"), stmt("draw_sokoban_level")>>
Start6(n) == <<set("game_state", "PAUSED"), set("state", "GAME_RUNNING"), set("level", n),
               set("game_state", "PAUSED"), stmt("clear_moves"), stmt("draw_sokoban_level")>>
Start7 == <<stmt("clear_totals"), set("game_state", "PAUSED"), set("state", "GAME_RUNNING"),
            set("level", 1), set("game_state", "PAUSED"), stmt("clear_moves"),
            stmt("draw_sokoban_level")>>

Run1 == <<set("game_state", "RUNNING")>>
Draw2 == <<stmt("putstring"), set("game_state", "RUNNING")>>
Draw3 == <<snprintf("level"), stmt("putstring"), set("game_state", "RUNNING")>>
Draw4 == <<stmt("printf"), snprintf("level"), stmt("putstring"), set("game_state", "RUNNING")>>
Draw5 == <<stmt("set_cursor"), stmt("printf"), snprintf("level"), stmt("putstring"),
           set("game_state", "RUNNING")>>

Resume2 == <<stmt("restore"), set("game_state", "RUNNING")>>
Return2 == <<set("state", "GAME_RUNNING"), set("game_state", "RUNNING")>>
Return3 == <<stmt("restore"), set("state", "GAME_RUNNING"), set("game_state", "RUNNING")>>

Try1 == <<stmt("try_move")>>
Moves1 == <<stmt("printf")>>
Moves2 == <<stmt("set_cursor"), stmt("printf")>>

Complete2 == <<snprintf("summary"), stmt("putstring")>>
Complete3 == <<stmt("highscores"), snprintf("summary"), stmt("putstring")>>
Complete4 == <<show("summary"), stmt("highscores"), snprintf("summary"), stmt("putstring")>>
Complete5 == <<stmt("clear_console"), show("summary"), stmt("highscores"), snprintf("summary"),
               stmt("putstring")>>
Complete6 == <<stmt("add_totals"), stmt("clear_console"), show("summary"),
               stmt("highscores"), snprintf("summary"), stmt("putstring")>>
Complete7 == <<set("game_state", "IN_LEVEL_SUMMARY"), stmt("add_totals"),
               stmt("clear_console"), show("summary"), stmt("highscores"),
               snprintf("summary"), stmt("putstring")>>
Complete8 == <<stmt("printf"), set("game_state", "IN_LEVEL_SUMMARY"), stmt("add_totals"),
               stmt("clear_console"), show("summary"), stmt("highscores"),
               snprintf("summary"), stmt("putstring")>>
Complete9 == <<stmt("set_cursor"), stmt("printf"), set("game_state", "IN_LEVEL_SUMMARY"),
               stmt("add_totals"), stmt("clear_console"), show("summary"),
               stmt("highscores"), snprintf("summary"), stmt("putstring")>>

-----------------------------------------------------------------------------
(* The inductive invariant.                                                *)

InIntroduction == state = "INTRODUCTION"
InGame(gs) == state = "GAME_RUNNING" /\ game_state = gs

\* The clock's ticks are in the totals, or still the level's, too.
Settled == elapsed = total_ticks
Balanced == elapsed = total_ticks + level_ticks

Playing == InGame("RUNNING") /\ Balanced
Paused == InGame("PAUSED") /\ Balanced
\* The game that the instructions lead back to, if they do.
Suspended ==
    previous_state = "GAME_RUNNING" =>
        game_state = "RUNNING" /\ IsTheBoard(saved_screen) /\ Balanced
States == {"INTRODUCTION", "INSTRUCTIONS", "GAME_RUNNING"}
GameStates == {"RUNNING", "PAUSED", "IN_LEVEL_SUMMARY"}
\* For the instructions, to come back.
MayLeave == InIntroduction \/ (Playing /\ IsTheBoard(saved_screen))
SummaryTime == screen.time = Text("time", InTenths(TicksOf("summary")))

Waiting ==
    /\ todo = <<>>
    /\ \/ InIntroduction /\ screen.kind = "intro"
       \/ state = "INSTRUCTIONS" /\ screen.kind = "instructions" /\ Suspended
       \/ Playing
       \/ Paused /\ screen.kind = "pause" /\ IsTheBoard(saved_screen)
       \/ InGame("IN_LEVEL_SUMMARY") /\ Settled /\ screen.kind = "summary" /\ SummaryTime

Introducing ==
    \/ todo \in {Intro3, Timed5}
    \/ todo \in {Intro2, Intro1, Timed4, Timed3} /\ InIntroduction
    \/ todo \in {Highscore2, Put1} /\ InIntroduction /\ screen.kind = "intro"

Instructing ==
    \/ todo = Instr5 /\ Playing
    \/ todo = Instr4 /\ MayLeave
    \/ todo = Instr3 /\ MayLeave /\ previous_state = state
    \/ todo \in {Instr2, Instr1} /\ state = "INSTRUCTIONS" /\ Suspended

Pausing ==
    \/ todo = Pause4 /\ Playing
    \/ todo = Pause3 /\ Playing /\ IsTheBoard(saved_screen)
    \/ todo \in {Pause2, Pause1} /\ Paused /\ IsTheBoard(saved_screen)

Starting ==
    \/ todo = Start7 /\ InIntroduction
    \/ \E n \in 1 .. soko_nlevels :
        /\ Settled
        /\ \/ todo = Start6(n) /\ (InIntroduction \/ InGame("IN_LEVEL_SUMMARY"))
           \/ todo = Start5(n) /\ game_state = "PAUSED" /\ state \in {"INTRODUCTION", "GAME_RUNNING"}
           \/ todo = Start4(n) /\ InGame("PAUSED")
    \/ todo = Restart3 /\ (Playing \/ Paused)
    \/ todo = Restart2 /\ Paused
    \/ todo = Restart1 /\ Paused /\ level_moves = 0

Drawing == todo \in {Draw5, Draw4, Draw3, Draw2} /\ Paused /\ IsTheBoard(screen)

Resuming ==
    \/ todo = Resume2 /\ Paused /\ IsTheBoard(saved_screen)
    \/ todo = Return3 /\ state = "INSTRUCTIONS" /\ game_state = "RUNNING"
        /\ IsTheBoard(saved_screen) /\ Balanced
    \/ todo = Return2 /\ state = "INSTRUCTIONS" /\ game_state = "RUNNING"
        /\ IsTheBoard(screen) /\ Balanced
    \/ todo = Run1 /\ (Playing \/ Paused) /\ IsTheBoard(screen)

Moving == todo \in {Try1, Moves2, Moves1, Complete9, Complete8, Complete7} /\ Playing

Completing ==
    /\ InGame("IN_LEVEL_SUMMARY")
    /\ \/ todo = Complete6 /\ Balanced
       \/ todo \in {Complete5, Complete4} /\ Settled
       \/ todo \in {Complete3, Complete2} /\ Settled /\ screen.kind = "summary"
       \/ todo = Put1 /\ Settled /\ screen.kind = "summary" /\ buf = InTenths(TicksOf("summary"))

Control ==
    \/ Waiting \/ Introducing \/ Instructing \/ Pausing \/ Starting
    \/ Drawing \/ Resuming \/ Moving \/ Completing

IInv == TypeOK /\ ClockRunsOnTheBoard /\ Control

-----------------------------------------------------------------------------
\* The first of the statements that are left, and the others.
Follows(left, first, rest) == left # <<>> /\ Head(left) = first /\ Tail(left) = rest

\* What each value of todo above begins with, and leaves when it is done.
LEMMA Statements ==
    /\ Follows(Put1, stmt("putstring"), <<>>)
    /\ Follows(Highscore2, snprintf("highscore"), Put1)
    /\ Follows(Intro1, show("intro"), <<>>)
    /\ Follows(Intro2, stmt("clear_console"), Intro1)
    /\ Follows(Intro3, set("state", "INTRODUCTION"), Intro2)
    /\ Follows(Timed3, show("intro"), Highscore2)
    /\ Follows(Timed4, stmt("clear_console"), Timed3)
    /\ Follows(Timed5, set("state", "INTRODUCTION"), Timed4)
    /\ Follows(Instr1, show("instructions"), <<>>)
    /\ Follows(Instr2, stmt("clear_console"), Instr1)
    /\ Follows(Instr3, set("state", "INSTRUCTIONS"), Instr2)
    /\ Follows(Instr4, stmt("previous_state"), Instr3)
    /\ Follows(Instr5, stmt("save"), Instr4)
    /\ Follows(Pause1, show("pause"), <<>>)
    /\ Follows(Pause2, stmt("clear_console"), Pause1)
    /\ Follows(Pause3, set("game_state", "PAUSED"), Pause2)
    /\ Follows(Pause4, stmt("save"), Pause3)
    /\ Follows(Restart1, stmt("draw_sokoban_level"), <<>>)
    /\ Follows(Restart2, stmt("clear_moves"), Restart1)
    /\ Follows(Restart3, set("game_state", "PAUSED"), Restart2)
    /\ \A n : Follows(Start4(n), set("level", n), Restart3)
    /\ \A n : Follows(Start5(n), set("state", "GAME_RUNNING"), Start4(n))
    /\ \A n : Follows(Start6(n), set("game_state", "PAUSED"), Start5(n))
    /\ Follows(Start7, stmt("clear_totals"), Start6(1))
    /\ Follows(Run1, set("game_state", "RUNNING"), <<>>)
    /\ Follows(Draw2, stmt("putstring"), Run1)
    /\ Follows(Draw3, snprintf("level"), Draw2)
    /\ Follows(Draw4, stmt("printf"), Draw3)
    /\ Follows(Draw5, stmt("set_cursor"), Draw4)
    /\ Follows(Resume2, stmt("restore"), Run1)
    /\ Follows(Return2, set("state", "GAME_RUNNING"), Run1)
    /\ Follows(Return3, stmt("restore"), Return2)
    /\ Follows(Try1, stmt("try_move"), <<>>)
    /\ Follows(Moves1, stmt("printf"), <<>>)
    /\ Follows(Moves2, stmt("set_cursor"), Moves1)
    /\ Follows(Complete2, snprintf("summary"), Put1)
    /\ Follows(Complete3, stmt("highscores"), Complete2)
    /\ Follows(Complete4, show("summary"), Complete3)
    /\ Follows(Complete5, stmt("clear_console"), Complete4)
    /\ Follows(Complete6, stmt("add_totals"), Complete5)
    /\ Follows(Complete7, set("game_state", "IN_LEVEL_SUMMARY"), Complete6)
    /\ Follows(Complete8, stmt("printf"), Complete7)
    /\ Follows(Complete9, stmt("set_cursor"), Complete8)
  BY DEF Follows, Put1, Highscore2, Intro1, Intro2, Intro3, Timed3, Timed4, Timed5,
         Instr1, Instr2, Instr3, Instr4, Instr5, Pause1, Pause2, Pause3, Pause4,
         Restart1, Restart2, Restart3, Start4, Start5, Start6, Start7,
         Run1, Draw2, Draw3, Draw4, Draw5, Resume2, Return2, Return3,
         Try1, Moves1, Moves2, Complete2, Complete3, Complete4, Complete5,
         Complete6, Complete7, Complete8, Complete9

-----------------------------------------------------------------------------
(* What a step of main does is decided by the first statement that is left.*)

LEMMA OneAction ==
    ASSUME NEW first, NEW rest, Follows(todo, first, rest), Main
    PROVE  /\ Tail(todo) = rest
           /\ \A v : first = set("state", v) => SetState /\ Head(todo).value = v
           /\ \A v : first = set("game_state", v) => SetGameState /\ Head(todo).value = v
           /\ \A n : first = set("level", n) => SetLevel /\ Head(todo).value = n
           /\ first = stmt("previous_state") => SetPrevious
           /\ first = stmt("clear_totals") => ClearTotals
           /\ first = stmt("clear_moves") => ClearMoves
           /\ first = stmt("add_totals") => AddTotals
           /\ first = stmt("highscores") => EnterHighscore
           /\ first = stmt("save") => SaveScreen
           /\ first = stmt("restore") => RestoreScreen
           /\ first = stmt("clear_console") => ClearConsole
           /\ \A kind : first = show(kind) => Show /\ Head(todo).kind = kind
           /\ first = stmt("draw_sokoban_level") => DrawLevel
           /\ first = stmt("set_cursor") => SetCursor
           /\ first = stmt("printf") => PrintMoves
           /\ \A whose : first = snprintf(whose) => FormatTime /\ Head(todo).time_of = whose
           /\ first = stmt("putstring") => PutTime
           /\ first = stmt("try_move") => Returns \/ Blocked \/ Moves
  <1>1. todo # <<>> /\ Head(todo) = first /\ Tail(todo) = rest
    BY DEF Follows
  <1>2. /\ first.do = "set" /\ first.var = "state" => SetState
        /\ first.do = "set" /\ first.var = "game_state" => SetGameState
        /\ first.do = "set" /\ first.var = "level" => SetLevel
        /\ first.do = "previous_state" => SetPrevious
        /\ first.do = "clear_totals" => ClearTotals
        /\ first.do = "clear_moves" => ClearMoves
        /\ first.do = "add_totals" => AddTotals
        /\ first.do = "highscores" => EnterHighscore
        /\ first.do = "save" => SaveScreen
        /\ first.do = "restore" => RestoreScreen
        /\ first.do = "clear_console" => ClearConsole
        /\ first.do = "show" => Show
        /\ first.do = "draw_sokoban_level" => DrawLevel
        /\ first.do = "set_cursor" => SetCursor
        /\ first.do = "printf" => PrintMoves
        /\ first.do = "snprintf" => FormatTime
        /\ first.do = "putstring" => PutTime
        /\ first.do = "try_move" => Returns \/ Blocked \/ Moves
    BY <1>1 DEF Main, At, SetState, SetGameState, SetLevel, SetPrevious, ClearTotals,
                ClearMoves, AddTotals, EnterHighscore, SaveScreen, RestoreScreen, ClearConsole,
                Show, DrawLevel, SetCursor, PrintMoves, FormatTime, PutTime, Returns,
                    Blocked, Moves
  <1>3. QED
    BY <1>1, <1>2 DEF set, stmt, show, snprintf

\* What is drawn stays, whatever happens to the two number fields.
SamePicture ==
    screen'.kind = screen.kind /\ screen'.level = screen.level /\ screen'.moved = screen.moved

LEMMA BlankIsAScreen == Blank \in Screens
  BY LevelsAssumption DEF Blank, Screens, Kinds, Texts, NoText, Text

LEMMA SetStateRuns ==
    ASSUME TypeOK, NEW v \in States, NEW rest, Follows(todo, set("state", v), rest), Main
    PROVE  SetState /\ todo' = rest /\ TypeOK' /\ Head(todo).value = v
  <1>1. SetState /\ Tail(todo) = rest /\ Head(todo).value = v
    BY OneAction
  <1>2. QED
    BY <1>1 DEF SetState, Done, TypeOK, States, levelVars, clockVars, viewVars, metaVars

LEMMA SetGameStateRuns ==
    ASSUME TypeOK, NEW v \in GameStates, NEW rest, Follows(todo, set("game_state", v), rest),
           Main
    PROVE  SetGameState /\ todo' = rest /\ TypeOK' /\ Head(todo).value = v
  <1>1. SetGameState /\ Tail(todo) = rest /\ Head(todo).value = v
    BY OneAction
  <1>2. QED
    BY <1>1 DEF SetGameState, Done, TypeOK, GameStates, levelVars, clockVars, viewVars,
           metaVars

LEMMA SetLevelRuns ==
    ASSUME TypeOK, NEW n \in 1 .. soko_nlevels, NEW rest, Follows(todo, set("level", n),
           rest), Main
    PROVE  SetLevel /\ todo' = rest /\ TypeOK' /\ Head(todo).value = n
  <1>1. SetLevel /\ Tail(todo) = rest /\ Head(todo).value = n
    BY OneAction
  <1>2. QED
    BY <1>1 DEF SetLevel, Done, TypeOK, levelVars, clockVars, viewVars, metaVars

LEMMA SetPreviousRuns ==
    ASSUME TypeOK, state # "INSTRUCTIONS", NEW rest, Follows(todo, stmt("previous_state"),
           rest), Main
    PROVE  SetPrevious /\ todo' = rest /\ TypeOK'
  <1>1. SetPrevious /\ Tail(todo) = rest
    BY OneAction
  <1>2. QED
    BY <1>1 DEF SetPrevious, Done, TypeOK, levelVars, clockVars, viewVars, metaVars

LEMMA ClearTotalsRuns ==
    ASSUME TypeOK, NEW rest, Follows(todo, stmt("clear_totals"), rest), Main
    PROVE  ClearTotals /\ todo' = rest /\ TypeOK'
  <1>1. ClearTotals /\ Tail(todo) = rest
    BY OneAction
  <1>2. QED
    BY <1>1 DEF ClearTotals, Done, TypeOK, levelVars, clockVars, viewVars, metaVars

LEMMA ClearMovesRuns ==
    ASSUME TypeOK, NEW rest, Follows(todo, stmt("clear_moves"), rest), Main
    PROVE  ClearMoves /\ todo' = rest /\ TypeOK'
  <1>1. ClearMoves /\ Tail(todo) = rest
    BY OneAction
  <1>2. QED
    BY <1>1 DEF ClearMoves, Done, TypeOK, levelVars, clockVars, viewVars, metaVars

LEMMA AddTotalsRuns ==
    ASSUME TypeOK, NEW rest, Follows(todo, stmt("add_totals"), rest), Main
    PROVE  AddTotals /\ todo' = rest /\ TypeOK'
  <1>1. AddTotals /\ Tail(todo) = rest
    BY OneAction
  <1>2. QED
    BY <1>1 DEF AddTotals, Done, TypeOK, levelVars, clockVars, viewVars, metaVars

LEMMA SaveRuns ==
    ASSUME TypeOK, NEW rest, Follows(todo, stmt("save"), rest), Main
    PROVE  SaveScreen /\ todo' = rest /\ TypeOK'
  <1>1. SaveScreen /\ Tail(todo) = rest
    BY OneAction
  <1>2. QED
    BY <1>1 DEF SaveScreen, Done, TypeOK, levelVars, clockVars, viewVars, metaVars

LEMMA RestoreRuns ==
    ASSUME TypeOK, NEW rest, Follows(todo, stmt("restore"), rest), Main
    PROVE  RestoreScreen /\ todo' = rest /\ TypeOK'
  <1>1. RestoreScreen /\ Tail(todo) = rest
    BY OneAction
  <1>2. QED
    BY <1>1 DEF RestoreScreen, Done, TypeOK, levelVars, clockVars, viewVars, metaVars

LEMMA ClearConsoleRuns ==
    ASSUME TypeOK, NEW rest, Follows(todo, stmt("clear_console"), rest), Main
    PROVE  ClearConsole /\ todo' = rest /\ TypeOK'
  <1>1. ClearConsole /\ Tail(todo) = rest
    BY OneAction
  <1>2. QED
    BY <1>1, BlankIsAScreen DEF ClearConsole, Done, TypeOK, levelVars, clockVars, viewVars,
           metaVars

LEMMA ShowRuns ==
    ASSUME TypeOK, NEW kind \in Kinds, NEW rest, Follows(todo, show(kind), rest), Main
    PROVE  Show /\ todo' = rest /\ TypeOK' /\ screen'.kind = kind
  <1>1. Show /\ Tail(todo) = rest /\ Head(todo).kind = kind
    BY OneAction
  <1>2. QED
    BY <1>1 DEF Show, Done, TypeOK, Screens, levelVars, clockVars, viewVars, metaVars

LEMMA SetCursorRuns ==
    ASSUME TypeOK, NEW rest, Follows(todo, stmt("set_cursor"), rest), Main
    PROVE  SetCursor /\ todo' = rest /\ TypeOK'
  <1>1. SetCursor /\ Tail(todo) = rest
    BY OneAction
  <1>2. QED
    BY <1>1 DEF SetCursor, Done, TypeOK, levelVars, clockVars, viewVars, metaVars

LEMMA PrintMovesRuns ==
    ASSUME TypeOK, NEW rest, Follows(todo, stmt("printf"), rest), Main
    PROVE  PrintMoves /\ todo' = rest /\ TypeOK' /\ SamePicture
  <1>1. PrintMoves /\ Tail(todo) = rest
    BY OneAction
  <1>2. QED
    BY <1>1, ZenonT(60) DEF PrintMoves, Done, TypeOK, Screens, Texts, Text, SamePicture, levelVars,
           clockVars, viewVars, metaVars

LEMMA PutTimeRuns ==
    ASSUME TypeOK, NEW rest, Follows(todo, stmt("putstring"), rest), Main
    PROVE  /\ PutTime /\ todo' = rest /\ TypeOK'
           /\ SamePicture /\ screen'.time = Text("time", buf)
  <1>1. PutTime /\ Tail(todo) = rest
    BY OneAction
  <1>2. QED
    BY <1>1, ZenonT(60) DEF PutTime, Done, TypeOK, Screens, Texts, Text, SamePicture, levelVars,
           clockVars, viewVars, metaVars

LEMMA EnteredIsTyped ==
    ASSUME NEW table \in [1 .. NUM_HIGHSCORES -> [num_moves : Nat, num_ticks : Nat]],
           NEW score \in [num_moves : Nat, num_ticks : Nat]
    PROVE  Table!Entered(table, score) \in [1 .. NUM_HIGHSCORES -> [num_moves : Nat, num_ticks : Nat]]
  <1>1. ASSUME NEW i \in 1 .. NUM_HIGHSCORES,
               \E k \in 1 .. i - 1 : Table!Better(score, table[k])
        PROVE  i - 1 \in 1 .. NUM_HIGHSCORES
    BY <1>1, TableAssumption
  <1>2. ASSUME NEW i \in 1 .. NUM_HIGHSCORES
        PROVE  (CASE \E k \in 1 .. i - 1 : Table!Better(score, table[k]) -> table[i - 1]
                  [] Table!Better(score, table[i])
                       /\ \A k \in 1 .. i - 1 : ~Table!Better(score, table[k]) -> score
                  [] OTHER -> table[i])
               \in [num_moves : Nat, num_ticks : Nat]
    <2>1. CASE \E k \in 1 .. i - 1 : Table!Better(score, table[k])
      BY <1>1, <2>1
    <2>2. CASE ~ \E k \in 1 .. i - 1 : Table!Better(score, table[k])
      BY <2>2
    <2>3. QED
      BY <2>1, <2>2
  <1>3. QED
    BY <1>2 DEF Table!Entered, Table!Entry

LEMMA EnterHighscoreRuns ==
    ASSUME TypeOK, NEW rest, Follows(todo, stmt("highscores"), rest), Main
    PROVE  EnterHighscore /\ todo' = rest /\ TypeOK'
  <1>1. EnterHighscore /\ Tail(todo) = rest
    BY OneAction
  <1>2. highscores' \in [1 .. NUM_HIGHSCORES -> [num_moves : Nat, num_ticks : Nat]]
    BY <1>1, EnteredIsTyped DEF EnterHighscore, TypeOK
  <1>3. QED
    BY <1>1, <1>2 DEF EnterHighscore, Done, TypeOK, levelVars, clockVars, viewVars

LEMMA TenthsAreNatural == \A n \in Nat : InTenths(n) \in Nat
  BY BoundsAssumption DEF InTenths

LEMMA FormatTimeRuns ==
    ASSUME TypeOK, NEW whose \in {"level", "summary", "highscore"}, NEW rest,
           Follows(todo, snprintf(whose), rest), Main
    PROVE  FormatTime /\ Head(todo).time_of = whose /\ todo' = rest /\ TypeOK'
  <1>1. FormatTime /\ Head(todo).time_of = whose /\ Tail(todo) = rest
    BY OneAction
  <1>2. TicksOf(whose) \in Nat
    BY TableAssumption DEF TicksOf, TypeOK
  <1>3. buf' \in Nat
    BY <1>1, <1>2, TenthsAreNatural DEF FormatTime
  <1>4. QED
    BY <1>1, <1>3 DEF FormatTime, Done, TypeOK, levelVars, clockVars, metaVars

LEMMA DrawLevelRuns ==
    ASSUME TypeOK, NEW rest, Follows(todo, stmt("draw_sokoban_level"), rest), Main
    PROVE  DrawLevel /\ TypeOK'
  <1>1. DrawLevel
    BY OneAction
  <1>2. /\ [Blank EXCEPT !.kind = "invalid"] \in Screens
        /\ [Blank EXCEPT !.kind = "board", !.level = level_number] \in Screens
    BY BlankIsAScreen DEF Screens, Kinds, TypeOK
  <1>3. QED
    BY <1>1, <1>2 DEF DrawLevel, TypeOK, levelVars, clockVars, metaVars

LEMMA TryMoveRuns ==
    ASSUME TypeOK, NEW rest, Follows(todo, stmt("try_move"), rest), Main
    PROVE  ((Returns /\ todo' = rest) \/ Blocked \/ Moves) /\ TypeOK'
  <1>1. Tail(todo) = rest /\ (Returns \/ Blocked \/ Moves)
    BY OneAction
  <1>2. CASE Returns
    BY <1>1, <1>2 DEF Returns, Done, TypeOK, levelVars, clockVars, viewVars, metaVars
  <1>3. CASE Blocked
    BY <1>3 DEF Blocked, TypeOK, levelVars, clockVars, viewVars, metaVars
  <1>4. CASE Moves
    <2>1. level_moves' = level_moves + 1 /\ screen' = [screen EXCEPT !.moved = @ + 1]
      BY <1>4 DEF Moves
    <2>2. level_moves \in Nat /\ screen \in Screens
      BY DEF TypeOK
    <2>3. level_moves' \in Nat
      BY <2>1, <2>2
    <2>4. screen' \in Screens
      BY <2>1, <2>2 DEF Screens
    <2>5. QED
      BY <1>4, <2>3, <2>4 DEF Moves, TypeOK, clockVars, metaVars
  <1>5. QED
    BY <1>1, <1>2, <1>3, <1>4

-----------------------------------------------------------------------------
(* The statements that main is given to do, written out.                   *)

Concatenates(z, x, y, S) ==
    /\ x \in Seq(S) /\ y \in Seq(S) /\ z \in Seq(S)
    /\ Len(z) = Len(x) + Len(y)
    /\ \A i \in 1 .. Len(z) : z[i] = IF i <= Len(x) THEN x[i] ELSE y[i - Len(x)]

LEMMA ConcatIs ==
    ASSUME NEW S, NEW x, NEW y, NEW z, Concatenates(z, x, y, S)
    PROVE  x \o y = z
  BY ConcatProperties, SeqEqual DEF Concatenates

LEMMA Concat32 ==
    ASSUME NEW a, NEW b, NEW c, NEW d, NEW e
    PROVE  <<a, b, c>> \o <<d, e>> = <<a, b, c, d, e>>
  <1>1. Concatenates(<<a, b, c, d, e>>, <<a, b, c>>, <<d, e>>, {a, b, c, d, e})
    BY DEF Concatenates
  <1>2. QED
    BY <1>1, ConcatIs

LEMMA Concat13 ==
    ASSUME NEW a, NEW b, NEW c, NEW d
    PROVE  <<a>> \o <<b, c, d>> = <<a, b, c, d>>
  <1>1. Concatenates(<<a, b, c, d>>, <<a>>, <<b, c, d>>, {a, b, c, d})
    BY DEF Concatenates
  <1>2. QED
    BY <1>1, ConcatIs

LEMMA Concat14 ==
    ASSUME NEW a, NEW b, NEW c, NEW d, NEW e
    PROVE  <<a>> \o <<b, c, d, e>> = <<a, b, c, d, e>>
  <1>1. Concatenates(<<a, b, c, d, e>>, <<a>>, <<b, c, d, e>>, {a, b, c, d, e})
    BY DEF Concatenates
  <1>2. QED
    BY <1>1, ConcatIs

LEMMA Concat33 ==
    ASSUME NEW a, NEW b, NEW c, NEW d, NEW e, NEW f
    PROVE  <<a, b, c>> \o <<d, e, f>> = <<a, b, c, d, e, f>>
  <1>1. Concatenates(<<a, b, c, d, e, f>>, <<a, b, c>>, <<d, e, f>>, {a, b, c, d, e, f})
    BY DEF Concatenates
  <1>2. QED
    BY <1>1, ConcatIs

LEMMA Concat16 ==
    ASSUME NEW a, NEW b, NEW c, NEW d, NEW e, NEW f, NEW g
    PROVE  <<a>> \o <<b, c, d, e, f, g>> = <<a, b, c, d, e, f, g>>
  <1>1. Concatenates(<<a, b, c, d, e, f, g>>, <<a>>, <<b, c, d, e, f, g>>, {a, b, c, d, e, f,
      g})
    BY DEF Concatenates
  <1>2. QED
    BY <1>1, ConcatIs

LEMMA Concat52 ==
    ASSUME NEW a, NEW b, NEW c, NEW d, NEW e, NEW f, NEW g
    PROVE  <<a, b, c, d, e>> \o <<f, g>> = <<a, b, c, d, e, f, g>>
  <1>1. Concatenates(<<a, b, c, d, e, f, g>>, <<a, b, c, d, e>>, <<f, g>>, {a, b, c, d, e, f,
      g})
    BY DEF Concatenates
  <1>2. QED
    BY <1>1, ConcatIs

LEMMA Concat22 ==
    ASSUME NEW a, NEW b, NEW c, NEW d
    PROVE  <<a, b>> \o <<c, d>> = <<a, b, c, d>>
  <1>1. Concatenates(<<a, b, c, d>>, <<a, b>>, <<c, d>>, {a, b, c, d})
    BY DEF Concatenates
  <1>2. QED
    BY <1>1, ConcatIs

LEMMA Concat41 ==
    ASSUME NEW a, NEW b, NEW c, NEW d, NEW e
    PROVE  <<a, b, c, d>> \o <<e>> = <<a, b, c, d, e>>
  <1>1. Concatenates(<<a, b, c, d, e>>, <<a, b, c, d>>, <<e>>, {a, b, c, d, e})
    BY DEF Concatenates
  <1>2. QED
    BY <1>1, ConcatIs

LEMMA Concat27 ==
    ASSUME NEW a, NEW b, NEW c, NEW d, NEW e, NEW f, NEW g, NEW h, NEW i
    PROVE  <<a, b>> \o <<c, d, e, f, g, h, i>> = <<a, b, c, d, e, f, g, h, i>>
  <1>1. Concatenates(<<a, b, c, d, e, f, g, h, i>>, <<a, b>>, <<c, d, e, f, g, h, i>>, {a, b,
      c, d, e, f, g, h, i})
    BY DEF Concatenates
  <1>2. QED
    BY <1>1, ConcatIs

LEMMA Concat20 ==
    ASSUME NEW a, NEW b
    PROVE  <<a, b>> \o <<>> = <<a, b>>
  <1>1. Concatenates(<<a, b>>, <<a, b>>, <<>>, {a, b})
    BY DEF Concatenates
  <1>2. QED
    BY <1>1, ConcatIs

LEMMA Concat30 ==
    ASSUME NEW a, NEW b, NEW c
    PROVE  <<a, b, c>> \o <<>> = <<a, b, c>>
  <1>1. Concatenates(<<a, b, c>>, <<a, b, c>>, <<>>, {a, b, c})
    BY DEF Concatenates
  <1>2. QED
    BY <1>1, ConcatIs

LEMMA Programs ==
    /\ display_introduction \in {Intro3, Timed5}
    /\ display_instructions = Instr4
    /\ <<stmt("save")>> \o display_instructions = Instr5
    /\ <<stmt("save")>> \o pause_game = Pause4
    /\ resume = Resume2
    /\ restart_current_level = Restart3
    /\ \A n : start_sokoban_level(n) = Start6(n)
    /\ start_game = Start7
    /\ print_current_game_moves = Moves2
    /\ print_current_game_moves \o print_current_game_time
         \o <<set("game_state", "RUNNING")>> = Draw5
    /\ print_current_game_moves \o complete_level = Complete9
    /\ print_current_game_moves \o <<>> = Moves2
  <1>1. display_introduction \in {Intro3, Timed5}
    BY Concat30, Concat32, ZenonT(60)
       DEF display_introduction, put_time_at_loc, Intro3, Timed5, snprintf
  <1>2. /\ display_instructions = Instr4
        /\ <<stmt("save")>> \o display_instructions = Instr5
    BY Concat14 DEF display_instructions, Instr4, Instr5
  <1>3. <<stmt("save")>> \o pause_game = Pause4
    BY Concat13 DEF pause_game, Pause4
  <1>4. restart_current_level = Restart3
    BY DEF restart_current_level, Restart3
  <1>5. \A n : start_sokoban_level(n) = Start6(n)
    BY Concat33 DEF start_sokoban_level, restart_current_level, Start6
  <1>6. start_game = Start7
    <2>1. start_game = <<stmt("clear_totals")>> \o Start6(1)
      BY <1>5 DEF start_game
    <2>2. QED
      BY <2>1, Concat16 DEF Start6, Start7
  <1>7. print_current_game_moves = Moves2 /\ print_current_game_moves \o <<>> = Moves2
    BY Concat20 DEF print_current_game_moves, Moves2
  <1>8. print_current_game_moves \o print_current_game_time
          \o <<set("game_state", "RUNNING")>> = Draw5
    <2>1. print_current_game_moves \o print_current_game_time
             = <<stmt("set_cursor"), stmt("printf"), snprintf("level"), stmt("putstring")>>
      BY Concat22 DEF print_current_game_moves, print_current_game_time, put_time_at_loc,
             snprintf
    <2>2. QED
      BY <2>1, Concat41 DEF Draw5
  <1>9. print_current_game_moves \o complete_level = Complete9
    <2>1. complete_level = Complete7
      BY Concat52 DEF complete_level, put_time_at_loc, snprintf, Complete7
    <2>2. QED
      BY <2>1, Concat27 DEF print_current_game_moves, Complete7, Complete9
  <1>10. resume = Resume2
    BY DEF resume, Resume2
  <1>11. QED
    BY <1>1, <1>2, <1>3, <1>4, <1>5, <1>6, <1>7, <1>8, <1>9, <1>10

-----------------------------------------------------------------------------
(* The statements of each of main's programs keep the annotations.         *)

LEMMA IntroducingStep ==
    ASSUME IInv, Introducing, Main
    PROVE  IInv'
  <1> USE DEF IInv, ClockRunsOnTheBoard, ClockRuns, Control, InIntroduction
  <1>1. TypeOK
    OBVIOUS
  <1>2. ASSUME todo \in {Intro3, Timed5}
        PROVE  IInv'
    <2>1. SetState /\ Head(todo).value = "INTRODUCTION" /\ todo' \in {Intro2,
        Timed4} /\ TypeOK'
      BY <1>1, <1>2, Statements, SetStateRuns DEF States
    <2>2. QED
      BY <2>1 DEF SetState, Introducing
  <1>3. ASSUME todo \in {Intro2, Timed4}, InIntroduction
        PROVE  IInv'
    <2>1. ClearConsole /\ todo' \in {Intro1, Timed3} /\ TypeOK'
      BY <1>1, <1>3, Statements, ClearConsoleRuns
    <2>2. QED
      BY <1>3, <2>1 DEF ClearConsole, metaVars, Introducing
  <1>4. ASSUME todo \in {Intro1, Timed3}, InIntroduction
        PROVE  IInv'
    <2>1. Show /\ screen'.kind = "intro" /\ todo' \in {<<>>, Highscore2} /\ TypeOK'
      BY <1>1, <1>4, Statements, ShowRuns DEF Kinds
    <2>2. QED
      BY <1>4, <2>1 DEF Show, metaVars, Introducing, Waiting
  <1>5. ASSUME todo = Highscore2, InIntroduction, screen.kind = "intro"
        PROVE  IInv'
    <2>1. FormatTime /\ todo' = Put1 /\ TypeOK'
      BY <1>1, <1>5, Statements, FormatTimeRuns
    <2>2. QED
      BY <1>5, <2>1 DEF FormatTime, metaVars, Introducing
  <1>6. ASSUME todo = Put1, InIntroduction, screen.kind = "intro"
        PROVE  IInv'
    <2>1. PutTime /\ todo' = <<>> /\ TypeOK' /\ SamePicture
      BY <1>1, <1>6, Statements, PutTimeRuns
    <2>2. QED
      BY <1>6, <2>1 DEF PutTime, metaVars, SamePicture, Waiting
  <1>7. QED
    BY <1>2, <1>3, <1>4, <1>5, <1>6 DEF Introducing

LEMMA InstructingStep ==
    ASSUME IInv, Instructing, Main
    PROVE  IInv'
  <1> USE DEF IInv, ClockRunsOnTheBoard, ClockRuns, Control, IsTheBoard, Balanced,
              InIntroduction, Playing, InGame, MayLeave
  <1>1. TypeOK
    OBVIOUS
  <1>2. ASSUME todo = Instr5, Playing
        PROVE  IInv'
    <2>1. SaveScreen /\ todo' = Instr4 /\ TypeOK'
      BY <1>1, <1>2, Statements, SaveRuns
    <2>2. QED
      BY <1>2, <2>1 DEF SaveScreen, metaVars, levelVars, clockVars, Instructing
  <1>3. ASSUME todo = Instr4, MayLeave
        PROVE  IInv'
    <2>1. SetPrevious /\ todo' = Instr3 /\ TypeOK'
      BY <1>1, <1>3, Statements, SetPreviousRuns
    <2>2. QED
      BY <1>3, <2>1 DEF SetPrevious, levelVars, clockVars, viewVars, Instructing
  <1>4. ASSUME todo = Instr3, MayLeave, previous_state = state
        PROVE  IInv'
    <2>1. SetState /\ Head(todo).value = "INSTRUCTIONS" /\ todo' = Instr2 /\ TypeOK'
      BY <1>1, <1>4, Statements, SetStateRuns DEF States
    <2>2. QED
      BY <1>4, <2>1 DEF SetState, levelVars, clockVars, viewVars, Instructing, Suspended
  <1>5. ASSUME todo = Instr2, state = "INSTRUCTIONS", Suspended
        PROVE  IInv'
    <2>1. ClearConsole /\ todo' = Instr1 /\ TypeOK'
      BY <1>1, <1>5, Statements, ClearConsoleRuns
    <2>2. QED
      BY <1>5, <2>1 DEF ClearConsole, metaVars, levelVars, clockVars, Instructing, Suspended
  <1>6. ASSUME todo = Instr1, state = "INSTRUCTIONS", Suspended
        PROVE  IInv'
    <2>1. Show /\ todo' = <<>> /\ TypeOK' /\ screen'.kind = "instructions"
      BY <1>1, <1>6, Statements, ShowRuns DEF Kinds
    <2>2. QED
      BY <1>6, <2>1 DEF Show, metaVars, levelVars, clockVars, Waiting, Suspended
  <1>7. QED
    BY <1>2, <1>3, <1>4, <1>5, <1>6 DEF Instructing

LEMMA PausingStep ==
    ASSUME IInv, Pausing, Main
    PROVE  IInv'
  <1> USE DEF IInv, ClockRunsOnTheBoard, ClockRuns, Control, IsTheBoard, Balanced,
              Playing, Paused, InGame
  <1>1. TypeOK
    OBVIOUS
  <1>2. ASSUME todo = Pause4, Playing
        PROVE  IInv'
    <2>1. SaveScreen /\ todo' = Pause3 /\ TypeOK'
      BY <1>1, <1>2, Statements, SaveRuns
    <2>2. QED
      BY <1>2, <2>1 DEF SaveScreen, metaVars, levelVars, clockVars, Pausing
  <1>3. ASSUME todo = Pause3, Playing, IsTheBoard(saved_screen)
        PROVE  IInv'
    <2>1. SetGameState /\ Head(todo).value = "PAUSED" /\ todo' = Pause2 /\ TypeOK'
      BY <1>1, <1>3, Statements, SetGameStateRuns DEF GameStates
    <2>2. QED
      BY <1>3, <2>1 DEF SetGameState, metaVars, levelVars, clockVars, viewVars, Pausing
  <1>4. ASSUME todo = Pause2, Paused, IsTheBoard(saved_screen)
        PROVE  IInv'
    <2>1. ClearConsole /\ todo' = Pause1 /\ TypeOK'
      BY <1>1, <1>4, Statements, ClearConsoleRuns
    <2>2. QED
      BY <1>4, <2>1 DEF ClearConsole, metaVars, levelVars, clockVars, Pausing
  <1>5. ASSUME todo = Pause1, Paused, IsTheBoard(saved_screen)
        PROVE  IInv'
    <2>1. Show /\ todo' = <<>> /\ TypeOK' /\ screen'.kind = "pause"
      BY <1>1, <1>5, Statements, ShowRuns DEF Kinds
    <2>2. QED
      BY <1>5, <2>1 DEF Show, metaVars, levelVars, clockVars, Waiting
  <1>6. QED
    BY <1>2, <1>3, <1>4, <1>5 DEF Pausing

LEMMA StartingStep ==
    ASSUME IInv, Starting, Main
    PROVE  IInv'
  <1> USE DEF IInv, ClockRunsOnTheBoard, ClockRuns, Control, Balanced, Settled,
              InIntroduction, Playing, Paused, InGame
  <1>1. TypeOK
    OBVIOUS
  <1>2. ASSUME todo = Start7, InIntroduction
        PROVE  IInv'
    <2>1. ClearTotals /\ todo' = Start6(1) /\ TypeOK'
      BY <1>1, <1>2, Statements, ClearTotalsRuns
    <2>2. 1 \in 1 .. soko_nlevels
      BY LevelsAssumption
    <2>3. QED
      BY <1>2, <2>1, <2>2 DEF ClearTotals, metaVars, Starting
  <1>3. ASSUME NEW n \in 1 .. soko_nlevels, todo = Start6(n), Settled,
               InIntroduction \/ InGame("IN_LEVEL_SUMMARY")
        PROVE  IInv'
    <2>1. SetGameState /\ Head(todo).value = "PAUSED" /\ todo' = Start5(n) /\ TypeOK'
      BY <1>1, <1>3, Statements, SetGameStateRuns DEF GameStates
    <2>2. QED
      BY <1>3, <2>1 DEF SetGameState, metaVars, levelVars, clockVars, Starting
  <1>4. ASSUME NEW n \in 1 .. soko_nlevels, todo = Start5(n), Settled, game_state = "PAUSED",
               state \in {"INTRODUCTION", "GAME_RUNNING"}
        PROVE  IInv'
    <2>1. SetState /\ Head(todo).value = "GAME_RUNNING" /\ todo' = Start4(n) /\ TypeOK'
      BY <1>1, <1>4, Statements, SetStateRuns DEF States
    <2>2. QED
      BY <1>4, <2>1 DEF SetState, levelVars, clockVars, Starting
  <1>5. ASSUME NEW n \in 1 .. soko_nlevels, todo = Start4(n), Settled, InGame("PAUSED")
        PROVE  IInv'
    <2>1. SetLevel /\ todo' = Restart3 /\ TypeOK'
      BY <1>1, <1>5, Statements, SetLevelRuns
    <2>2. Balanced'
      BY <1>1, <1>5, <2>1 DEF SetLevel, TypeOK
    <2>3. QED
      BY <1>5, <2>1, <2>2 DEF SetLevel, metaVars, Starting
  <1>6. ASSUME todo = Restart3, Playing \/ Paused
        PROVE  IInv'
    <2>1. SetGameState /\ Head(todo).value = "PAUSED" /\ todo' = Restart2 /\ TypeOK'
      BY <1>1, <1>6, Statements, SetGameStateRuns DEF GameStates
    <2>2. QED
      BY <1>6, <2>1 DEF SetGameState, metaVars, levelVars, clockVars, Starting
  <1>7. ASSUME todo = Restart2, Paused
        PROVE  IInv'
    <2>1. ClearMoves /\ todo' = Restart1 /\ TypeOK'
      BY <1>1, <1>7, Statements, ClearMovesRuns
    <2>2. QED
      BY <1>7, <2>1 DEF ClearMoves, metaVars, clockVars, Starting
  <1>8. ASSUME todo = Restart1, Paused, level_moves = 0
        PROVE  IInv'
    <2>1. DrawLevel /\ TypeOK'
      BY <1>1, <1>8, Statements, DrawLevelRuns
    <2>2. UNCHANGED <<state, game_state, level_number, level_moves, level_ticks, total_ticks,
        elapsed>>
      BY <2>1 DEF DrawLevel, metaVars, levelVars, clockVars
    <2>3. CASE level_number \in invalid_levels
      BY <1>8, <2>1, <2>2, <2>3, Programs DEF DrawLevel, Introducing
    <2>4. CASE level_number \notin invalid_levels
      <3>1. todo' = Draw5 /\ screen' = [Blank EXCEPT !.kind = "board", !.level = level_number]
        BY <2>1, <2>4, Programs DEF DrawLevel
      <3>2. IsTheBoard(screen)'
        BY <1>8, <2>2, <3>1 DEF IsTheBoard, Blank
      <3>3. QED
        BY <1>8, <2>1, <2>2, <3>1, <3>2 DEF Drawing
    <2>5. QED
      BY <2>3, <2>4
  <1>9. QED
    BY <1>2, <1>3, <1>4, <1>5, <1>6, <1>7, <1>8 DEF Starting

LEMMA DrawingStep ==
    ASSUME IInv, Drawing, Main
    PROVE  IInv'
  <1> USE DEF IInv, ClockRunsOnTheBoard, ClockRuns, Control, Balanced, Paused, InGame,
      IsTheBoard
  <1>1. TypeOK /\ Paused /\ IsTheBoard(screen)
    BY DEF Drawing
  <1>2. CASE todo = Draw5
    <2>1. SetCursor /\ todo' = Draw4 /\ TypeOK'
      BY <1>1, <1>2, Statements, SetCursorRuns
    <2>2. QED
      BY <1>1, <2>1 DEF SetCursor, metaVars, levelVars, clockVars, Drawing
  <1>3. CASE todo = Draw4
    <2>1. PrintMoves /\ todo' = Draw3 /\ TypeOK' /\ SamePicture
      BY <1>1, <1>3, Statements, PrintMovesRuns
    <2>2. QED
      BY <1>1, <2>1 DEF PrintMoves, SamePicture, metaVars, levelVars, clockVars, Drawing
  <1>4. CASE todo = Draw3
    <2>1. FormatTime /\ todo' = Draw2 /\ TypeOK'
      BY <1>1, <1>4, Statements, FormatTimeRuns
    <2>2. QED
      BY <1>1, <2>1 DEF FormatTime, metaVars, levelVars, clockVars, Drawing
  <1>5. CASE todo = Draw2
    <2>1. PutTime /\ todo' = Run1 /\ TypeOK' /\ SamePicture
      BY <1>1, <1>5, Statements, PutTimeRuns
    <2>2. QED
      BY <1>1, <2>1 DEF PutTime, SamePicture, metaVars, levelVars, clockVars, Resuming
  <1>6. QED
    BY <1>2, <1>3, <1>4, <1>5 DEF Drawing

LEMMA ResumingStep ==
    ASSUME IInv, Resuming, Main
    PROVE  IInv'
  <1> USE DEF IInv, ClockRunsOnTheBoard, ClockRuns, Control, Balanced, Playing, Paused, InGame,
              IsTheBoard
  <1>1. TypeOK
    OBVIOUS
  <1>2. ASSUME todo = Resume2, Paused, IsTheBoard(saved_screen)
        PROVE  IInv'
    <2>1. RestoreScreen /\ todo' = Run1 /\ TypeOK'
      BY <1>1, <1>2, Statements, RestoreRuns
    <2>2. QED
      BY <1>2, <2>1 DEF RestoreScreen, metaVars, levelVars, clockVars, Resuming
  <1>3. ASSUME todo = Return3, state = "INSTRUCTIONS", game_state = "RUNNING", Balanced,
               IsTheBoard(saved_screen)
        PROVE  IInv'
    <2>1. RestoreScreen /\ todo' = Return2 /\ TypeOK'
      BY <1>1, <1>3, Statements, RestoreRuns
    <2>2. QED
      BY <1>3, <2>1 DEF RestoreScreen, metaVars, levelVars, clockVars, Resuming
  <1>4. ASSUME todo = Return2, state = "INSTRUCTIONS", game_state = "RUNNING", Balanced,
               IsTheBoard(screen)
        PROVE  IInv'
    <2>1. SetState /\ Head(todo).value = "GAME_RUNNING" /\ todo' = Run1 /\ TypeOK'
      BY <1>1, <1>4, Statements, SetStateRuns DEF States
    <2>2. QED
      BY <1>4, <2>1 DEF SetState, levelVars, clockVars, viewVars, Resuming
  <1>5. ASSUME todo = Run1, Playing \/ Paused, IsTheBoard(screen)
        PROVE  IInv'
    <2>1. SetGameState /\ Head(todo).value = "RUNNING" /\ todo' = <<>> /\ TypeOK'
      BY <1>1, <1>5, Statements, SetGameStateRuns DEF GameStates
    <2>2. QED
      BY <1>5, <2>1 DEF SetGameState, metaVars, levelVars, clockVars, viewVars, Waiting
  <1>6. QED
    BY <1>2, <1>3, <1>4, <1>5 DEF Resuming

LEMMA MovingStep ==
    ASSUME IInv, Moving, Main
    PROVE  IInv'
  <1> USE DEF IInv, ClockRunsOnTheBoard, ClockRuns, Control, Balanced, Playing, InGame,
      IsTheBoard
  <1>1. TypeOK /\ Playing /\ IsTheBoard(screen)
    BY DEF Moving
  <1>2. CASE todo = Try1
    <2>1. TypeOK' /\ ((Returns /\ todo' = <<>>) \/ Blocked \/ Moves)
      BY <1>1, <1>2, Statements, TryMoveRuns
    <2>2. CASE Returns /\ todo' = <<>>
      BY <1>1, <2>1, <2>2 DEF Returns, metaVars, levelVars, clockVars, viewVars, Waiting
    <2>3. CASE Blocked
      BY <1>1, <2>1, <2>3, Programs DEF Blocked, metaVars, levelVars, clockVars, viewVars,
             Moving
    <2>4. CASE Moves
      <3>1. todo' \in {Moves2, Complete9}
        BY <2>4, Programs DEF Moves
      <3>2. IsTheBoard(screen)'
        BY <1>1, <2>4 DEF Moves, TypeOK, Screens
      <3>3. UNCHANGED <<state, game_state, level_ticks, total_ticks, elapsed>>
        BY <2>4 DEF Moves, metaVars, clockVars
      <3>4. QED
        BY <1>1, <2>1, <3>1, <3>2, <3>3 DEF Moving
    <2>5. QED
      BY <2>1, <2>2, <2>3, <2>4
  <1>3. CASE todo \in {Moves2, Complete9}
    <2>1. SetCursor /\ todo' \in {Moves1, Complete8} /\ TypeOK'
      BY <1>1, <1>3, Statements, SetCursorRuns
    <2>2. QED
      BY <1>1, <2>1 DEF SetCursor, metaVars, levelVars, clockVars, Moving
  <1>4. CASE todo \in {Moves1, Complete8}
    <2>1. PrintMoves /\ todo' \in {<<>>, Complete7} /\ TypeOK' /\ SamePicture
      BY <1>1, <1>4, Statements, PrintMovesRuns
    <2>2. QED
      BY <1>1, <2>1 DEF PrintMoves, SamePicture, metaVars, levelVars, clockVars, Moving,
             Waiting
  <1>5. CASE todo = Complete7
    <2>1. /\ SetGameState /\ Head(todo).value = "IN_LEVEL_SUMMARY" /\ todo' = Complete6
          /\ TypeOK'
      BY <1>1, <1>5, Statements, SetGameStateRuns DEF GameStates
    <2>2. QED
      BY <1>1, <2>1 DEF SetGameState, metaVars, levelVars, clockVars, viewVars, Completing
  <1>6. QED
    BY <1>2, <1>3, <1>4, <1>5 DEF Moving

LEMMA CompletingStep ==
    ASSUME IInv, Completing, Main
    PROVE  IInv'
  <1> USE DEF IInv, ClockRunsOnTheBoard, ClockRuns, Control, Balanced, Settled, InGame
  <1>1. TypeOK /\ InGame("IN_LEVEL_SUMMARY")
    BY DEF Completing
  <1>2. ASSUME todo = Complete6, Balanced
        PROVE  IInv'
    <2>1. AddTotals /\ todo' = Complete5 /\ TypeOK'
      BY <1>1, <1>2, Statements, AddTotalsRuns
    <2>2. QED
      BY <1>1, <1>2, <2>1 DEF AddTotals, metaVars, clockVars, Completing
  <1>3. ASSUME todo = Complete5, Settled
        PROVE  IInv'
    <2>1. ClearConsole /\ todo' = Complete4 /\ TypeOK'
      BY <1>1, <1>3, Statements, ClearConsoleRuns
    <2>2. QED
      BY <1>1, <1>3, <2>1 DEF ClearConsole, metaVars, levelVars, clockVars, Completing
  <1>4. ASSUME todo = Complete4, Settled
        PROVE  IInv'
    <2>1. Show /\ todo' = Complete3 /\ TypeOK' /\ screen'.kind = "summary"
      BY <1>1, <1>4, Statements, ShowRuns DEF Kinds
    <2>2. QED
      BY <1>1, <1>4, <2>1 DEF Show, metaVars, levelVars, clockVars, Completing
  <1>5. ASSUME todo = Complete3, Settled, screen.kind = "summary"
        PROVE  IInv'
    <2>1. EnterHighscore /\ todo' = Complete2 /\ TypeOK'
      BY <1>1, <1>5, Statements, EnterHighscoreRuns
    <2>2. QED
      BY <1>1, <1>5, <2>1 DEF EnterHighscore, levelVars, clockVars, viewVars, Completing
  <1>6. ASSUME todo = Complete2, Settled, screen.kind = "summary"
        PROVE  IInv'
    <2>1. FormatTime /\ Head(todo).time_of = "summary" /\ todo' = Put1 /\ TypeOK'
      BY <1>1, <1>6, Statements, FormatTimeRuns
    <2>2. (buf = InTenths(TicksOf("summary")))'
      BY <2>1 DEF FormatTime, TicksOf, InTenths, levelVars, clockVars
    <2>3. QED
      BY <1>1, <1>6, <2>1, <2>2 DEF FormatTime, metaVars, levelVars, clockVars, Completing
  <1>7. ASSUME todo = Put1, Settled, screen.kind = "summary",
      buf = InTenths(TicksOf("summary"))
        PROVE  IInv'
    <2>1. /\ PutTime /\ todo' = <<>> /\ TypeOK'
          /\ SamePicture /\ screen'.time = Text("time", buf)
      BY <1>1, <1>7, Statements, PutTimeRuns
    <2>2. SummaryTime'
      BY <1>7, <2>1 DEF PutTime, SummaryTime, TicksOf, InTenths, Text, levelVars, clockVars
    <2>3. QED
      BY <1>1, <1>7, <2>1, <2>2 DEF PutTime, SamePicture, metaVars, levelVars, clockVars,
             Waiting
  <1>8. QED
    BY <1>2, <1>3, <1>4, <1>5, <1>6, <1>7 DEF Completing

LEMMA MainStep ==
    ASSUME IInv, Main
    PROVE  IInv'
  <1>1. ~Waiting
    BY DEF Waiting, Main, At, SetState, SetGameState, SetLevel, SetPrevious, ClearTotals,
           ClearMoves, AddTotals, EnterHighscore, SaveScreen, RestoreScreen, ClearConsole,
           Show, DrawLevel, SetCursor, PrintMoves, FormatTime, PutTime, Returns, Blocked, Moves
  <1>2. QED
    BY <1>1, IntroducingStep, InstructingStep, PausingStep, StartingStep, DrawingStep,
       ResumingStep, MovingStep, CompletingStep DEF IInv, Control

-----------------------------------------------------------------------------
(* The other steps: a key, while main waits, and the timer's tick.         *)

LEMMA HandleInputStep ==
    ASSUME IInv, NEW ch \in Key, handle_input(ch)
    PROVE  IInv'
  <1> USE DEF ClockRunsOnTheBoard, ClockRuns, Balanced, Settled, InIntroduction, Playing,
      Paused,
              InGame, IsTheBoard
  <1>1. /\ todo' = OnKey(ch)
        /\ UNCHANGED <<invalid_levels, state, previous_state, highscores, level_number,
            level_moves,
                       total_moves, total_ticks, game_state, level_ticks, elapsed,
                       screen, saved_screen, cursor, buf>>
    BY DEF handle_input, metaVars, levelVars, clockVars, viewVars
  <1>2. TypeOK' /\ ClockRunsOnTheBoard'
    BY <1>1 DEF IInv, TypeOK
  <1>3. Waiting
    BY Statements DEF handle_input, IInv, Control, Introducing, Instructing, Pausing, Starting,
                      Drawing, Resuming, Moving, Completing, Follows
  <1>4. CASE state = "INTRODUCTION"
    <2>1. OnKey(ch) \in {Instr4, Start7, <<>>}
      BY <1>4, Programs DEF OnKey, Key
    <2>2. QED
      BY <1>1, <1>2, <1>3, <1>4, <2>1
         DEF IInv, Control, Waiting, Instructing, MayLeave, Starting
  <1>5. CASE state = "INSTRUCTIONS"
    <2>1. \/ OnKey(ch) = <<>>
          \/ OnKey(ch) \in {Intro3, Timed5}
          \/ OnKey(ch) = Return3 /\ previous_state = "GAME_RUNNING"
      BY <1>5, Programs DEF OnKey, Key, Return3
    <2>2. QED
      BY <1>1, <1>2, <1>3, <1>5, <2>1
         DEF IInv, Control, Waiting, Suspended, Introducing, Resuming
  <1>6. CASE InGame("IN_LEVEL_SUMMARY")
    <2>1. OnKey(ch) = level_up
      BY <1>6 DEF OnKey, Key
    <2>2. OnKey(ch) \in {Intro3,
        Timed5} \/ (\E n \in 1 .. soko_nlevels : OnKey(ch) = Start6(n))
      BY <2>1, Programs, LevelsAssumption DEF level_up, IInv, TypeOK
    <2>3. QED
      BY <1>1, <1>2, <1>3, <1>6, <2>2 DEF IInv, Control, Waiting, Introducing, Starting
  <1>7. CASE InGame("PAUSED")
    <2>1. OnKey(ch) \in {Resume2, <<>>}
      BY <1>7, Programs DEF OnKey, Key
    <2>2. QED
      BY <1>1, <1>2, <1>3, <1>7, <2>1 DEF IInv, Control, Waiting, Resuming
  <1>8. CASE InGame("RUNNING")
    <2>1. OnKey(ch) \in {Instr5, Pause4, Intro3, Timed5, Restart3, Try1, <<>>}
      BY <1>8, Programs DEF OnKey, Key, Try1
    <2>2. QED
      BY <1>1, <1>2, <1>3, <1>8, <2>1
         DEF IInv, Control, Waiting, Instructing, Pausing, Introducing, Starting, Moving
  <1>9. QED
    BY <1>4, <1>5, <1>6, <1>7, <1>8 DEF IInv, TypeOK

\* A tick may come anywhere; where the annotations depend on the clock's variables, it
\* does not run, or runs for the level that is being played.
LEMMA TickStep ==
    ASSUME IInv, sokoban_tickback
    PROVE  IInv'
  <1> USE DEF ClockRuns, Balanced, Settled, InIntroduction, Playing, Paused, InGame, IsTheBoard
  <1>1. /\ InGame("RUNNING") /\ todo' = todo
        /\ UNCHANGED <<invalid_levels, state, previous_state, highscores, level_number,
            level_moves,
                       total_moves, total_ticks, game_state, saved_screen>>
        /\ elapsed' = elapsed + 1 /\ level_ticks' = level_ticks + 1
    BY DEF sokoban_tickback, metaVars, levelVars
  <1>2. TypeOK /\ IsTheBoard(screen)
    BY <1>1 DEF IInv, ClockRunsOnTheBoard
  <1>3. level_ticks' \in Nat /\ elapsed' \in Nat /\ total_ticks \in Nat
    BY <1>1, <1>2 DEF TypeOK
  <1>4. /\ screen' \in Screens /\ SamePicture
        /\ cursor' \in {"elsewhere", "moves", "time"} /\ buf' \in Nat
    <2>1. CASE level_ticks' % TICKS_PER_PRINT = 0
      BY <1>2, <1>3, <2>1, TenthsAreNatural, SMTT(30)
         DEF sokoban_tickback, TypeOK, Screens, Texts, Text, SamePicture
    <2>2. CASE level_ticks' % TICKS_PER_PRINT # 0
      BY <1>2, <2>2 DEF sokoban_tickback, TypeOK, SamePicture
    <2>3. QED
      BY <2>1, <2>2
  <1>5. TypeOK'
    BY <1>1, <1>2, <1>3, <1>4 DEF TypeOK
  <1>6. IsTheBoard(screen)' /\ (Balanced => Balanced')
    BY <1>1, <1>2, <1>3, <1>4 DEF SamePicture, TypeOK
  <1>7. \/ todo = <<>> /\ Playing
        \/ todo \in {Intro3, Timed5}
        \/ todo = Instr5 /\ Playing
        \/ todo = Instr4 /\ Playing /\ IsTheBoard(saved_screen)
        \/ todo = Instr3 /\ Playing /\ IsTheBoard(saved_screen) /\ previous_state = state
        \/ todo = Pause4 /\ Playing
        \/ todo = Pause3 /\ Playing /\ IsTheBoard(saved_screen)
        \/ todo = Restart3 /\ Playing
        \/ todo = Run1 /\ Playing
        \/ todo \in {Try1, Moves2, Moves1, Complete9, Complete8, Complete7} /\ Playing
    BY <1>1 DEF IInv, Control, Waiting, Introducing, Instructing, MayLeave, Pausing, Starting,
                Drawing, Resuming, Moving, Completing
  <1>8. Control'
    BY <1>1, <1>6, <1>7 DEF Control, Waiting, Introducing, Instructing, MayLeave, Pausing,
                            Starting, Resuming, Moving
  <1>9. QED
    BY <1>5, <1>6, <1>8 DEF IInv, ClockRunsOnTheBoard

LEMMA InitIInv == Init => IInv
  <1> SUFFICES ASSUME Init PROVE IInv
    OBVIOUS
  <1>1. highscores \in [1 .. NUM_HIGHSCORES -> [num_moves : Nat, num_ticks : Nat]]
    BY TableAssumption DEF Init, Table!Default
  <1>2. TypeOK
    BY <1>1, BlankIsAScreen, LevelsAssumption DEF Init, TypeOK
  <1>3. QED
    BY <1>2, Programs DEF Init, IInv, ClockRunsOnTheBoard, ClockRuns, Control, Introducing

LEMMA NextIInv == IInv /\ [Next]_vars => IInv'
  <1>1. ASSUME IInv, UNCHANGED vars
        PROVE  IInv'
    <2>1. UNCHANGED <<invalid_levels, state, previous_state, highscores, level_number,
        level_moves,
                      total_moves, total_ticks, game_state, level_ticks, elapsed,
                      screen, saved_screen, cursor, buf, todo>>
      BY <1>1 DEF vars, metaVars, levelVars, clockVars, viewVars
    <2>2. TypeOK' /\ ClockRunsOnTheBoard'
      BY <1>1, <2>1 DEF IInv, TypeOK, ClockRunsOnTheBoard, ClockRuns, IsTheBoard
    <2>3. Control'
      BY <1>1, <2>1 DEF IInv, Control, Waiting, Introducing, Instructing, MayLeave, Pausing,
             Starting,
                        Drawing, Resuming, Moving, Completing, Suspended, SummaryTime, TicksOf,
                        InTenths, Text, Balanced, Settled, InIntroduction, Playing, Paused,
                            InGame,
                        IsTheBoard
    <2>4. QED
      BY <2>2, <2>3 DEF IInv
  <1>2. QED
    BY <1>1, MainStep, HandleInputStep, TickStep DEF Next

-----------------------------------------------------------------------------
(* The theorems.  None of them depends on the bounds of the counters.      *)

(* The variables have their types; the level number, which indexes the     *)
(* array of levels, is at most their number.                               *)
THEOREM TypeCorrect == Spec => []TypeOK
  <1>1. IInv => TypeOK
    BY DEF IInv
  <1>2. QED
    BY <1>1, InitIInv, NextIInv, PTL DEF Spec

(* Between any two statements of main at which a tick may come, the clock  *)
(* runs only if the current level's board is on the screen.                *)
THEOREM ClockOnTheBoard == Spec => []ClockRunsOnTheBoard
  <1>1. IInv => ClockRunsOnTheBoard
    BY DEF IInv
  <1>2. QED
    BY <1>1, InitIInv, NextIInv, PTL DEF Spec

\* Where main waits, the invariant is its first case.
LEMMA IdleIsWaiting == IInv /\ Idle => TypeOK /\ ClockRunsOnTheBoard /\ Waiting
  <1> SUFFICES ASSUME IInv, todo = <<>> PROVE TypeOK /\ ClockRunsOnTheBoard /\ Waiting
    BY DEF Idle
  <1>1. Control /\ TypeOK /\ ClockRunsOnTheBoard
    BY DEF IInv
  <1>2. QED
    BY <1>1, Statements DEF Control, Introducing, Instructing, Pausing, Starting,
                            Drawing, Resuming, Moving, Completing, Follows

(* No tick is lost between the clock of a level and the totals of a game,  *)
(* and none is counted twice, however often a level is paused, restarted   *)
(* or left for the instructions.                                           *)
THEOREM TicksCountOnce == Spec => []EveryTickCountsOnce
  <1>1. IInv => EveryTickCountsOnce
    BY IdleIsWaiting DEF EveryTickCountsOnce, Waiting, Suspended, Playing, Paused, InGame,
                         InIntroduction, Balanced, Settled, TypeOK
  <1>2. QED
    BY <1>1, InitIInv, NextIInv, PTL DEF Spec

(* While main has a time in timer_print_buf, the tick does not write there.*)
THEOREM TimeTextIsSafe == Spec => []TimeTextIsMains
  <1>1. IInv => TimeTextIsMains
    <2> SUFFICES ASSUME IInv, At("putstring") PROVE ~ClockRuns
      BY DEF TimeTextIsMains
    <2>1. ClockRuns =>
             \/ todo = <<>>
             \/ todo \in {Intro3, Timed5, Instr5, Instr4, Instr3, Pause4, Pause3, Restart3, Run1,
                          Try1, Moves2, Moves1, Complete9, Complete8, Complete7}
      BY DEF IInv, Control, Waiting, Introducing, Instructing, MayLeave, Pausing, Starting,
             Drawing, Resuming, Moving, Completing, ClockRuns, InIntroduction, Playing,
                 Paused, InGame
    <2>2. todo # <<>> /\ Head(todo).do = "putstring"
      BY DEF At
    <2>3. /\ \A a, v : set(a, v).do # "putstring"
          /\ \A n : stmt(n).do = n
      BY DEF set, stmt
    <2>4. \A first, rest : Follows(todo, first, rest) => first.do = "putstring"
      BY <2>2 DEF Follows
    <2>5. todo \notin {Intro3, Timed5, Instr3, Pause3, Restart3, Run1, Complete7}
      BY <2>3, <2>4, Statements
    <2>6. todo \notin {Instr5, Instr4, Pause4, Try1}
      BY <2>3, <2>4, Statements
    <2>7. todo \notin {Moves2, Moves1, Complete9, Complete8}
      BY <2>3, <2>4, Statements
    <2>8. QED
      BY <2>1, <2>2, <2>5, <2>6, <2>7
  <1>2. QED
    BY <1>1, InitIInv, NextIInv, PTL DEF Spec

(* A pause and the instructions have saved a board of the level played,    *)
(* with the moves played: what they bring back is that screen by its kind, *)
(* its level and its moves.  (A time drawn after the copy is not in it.)   *)
THEOREM BoardIsKept == Spec => []ReturnsToTheBoard
  <1>1. IInv => ReturnsToTheBoard
    BY IdleIsWaiting DEF ReturnsToTheBoard, Waiting, Suspended, Playing, Paused, InGame,
                         InIntroduction
  <1>2. QED
    BY <1>1, InitIInv, NextIInv, PTL DEF Spec

(* Whatever interleaving drew it, the screen is the one of the state.      *)
THEOREM ScreenFollowsState == Spec => []ScreenMatchesState
  <1>1. IInv => ScreenMatchesState
    <2> SUFFICES ASSUME IInv, Idle PROVE ScreenMatchesState
      BY DEF ScreenMatchesState
    <2>1. ClockRunsOnTheBoard /\ Waiting
      BY IdleIsWaiting
    <2>2. CASE state = "INTRODUCTION"
      <3>1. screen.kind = "intro"
        BY <2>1, <2>2 DEF Waiting, Playing, Paused, InGame, InIntroduction
      <3>2. QED
        BY <2>2, <3>1 DEF ScreenMatchesState
    <2>3. CASE state = "INSTRUCTIONS"
      <3>1. screen.kind = "instructions"
        BY <2>1, <2>3 DEF Waiting, Playing, Paused, InGame, InIntroduction
      <3>2. QED
        BY <2>3, <3>1 DEF ScreenMatchesState
    <2>4. CASE state = "GAME_RUNNING"
      BY <2>1, <2>4 DEF Waiting, Playing, Paused, InGame, InIntroduction, ScreenMatchesState,
                        ClockRunsOnTheBoard, ClockRuns, IsTheBoard
    <2>5. QED
      BY <2>1, <2>2, <2>3, <2>4 DEF Waiting, Playing, Paused, InGame, InIntroduction
  <1>2. QED
    BY <1>1, InitIInv, NextIInv, PTL DEF Spec

(* The summary's time is that of the totals, and stays.                    *)
THEOREM SummaryStays == Spec => []SummaryIsFinal
  <1>1. IInv => SummaryIsFinal
    BY IdleIsWaiting DEF SummaryIsFinal, Waiting, SummaryTime, Playing, Paused, InGame,
                         InIntroduction
  <1>2. QED
    BY <1>1, InitIInv, NextIInv, PTL DEF Spec
=============================================================================

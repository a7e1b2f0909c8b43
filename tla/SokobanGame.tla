---------------------------- MODULE SokobanGame ----------------------------
(***************************************************************************)
(* The game of kern/sokoban_game.c as two contexts share it:               *)
(*                                                                         *)
(*   - main polls for a key, and handle_input carries it out: a sequence   *)
(*     of statements, `todo' holds the ones still to come;                 *)
(*   - the timer's sokoban_tickback runs between any two of them, to the   *)
(*     end, since main does not run while a handler is active.             *)
(*                                                                         *)
(* They share current_game and sokoban, the console with its cursor, and   *)
(* timer_print_buf.  Nothing disables interrupts: the game relies on       *)
(* sokoban.state and game_state being changed at the right moment.         *)
(*                                                                         *)
(* The board is SokobanBoard's: here a move changes it, may complete the   *)
(* level, or does nothing, and a board is told from another by its level   *)
(* and the number of moves made on it.                                     *)
(***************************************************************************)
EXTENDS Integers, Sequences

CONSTANTS
    soko_nlevels,       \* 6 in the code
    TICKS_PER_PRINT,    \* 10 in the code: the time is shown to 0.1 second
    NUM_HIGHSCORES,     \* 3 in the code
    UINT32_MAX,         \* DEFAULT_SCORE
    MaxTicks,           \* bound on the ticks counted in one game
    MaxMoves            \* bound on the moves made in one attempt at a level

ASSUME LevelsAssumption == soko_nlevels \in Nat \ {0}
ASSUME BoundsAssumption ==
    /\ TICKS_PER_PRINT \in Nat \ {0}
    /\ MaxTicks \in Nat /\ MaxMoves \in Nat
ASSUME TableAssumption == NUM_HIGHSCORES \in Nat \ {0} /\ UINT32_MAX \in Nat

VARIABLES
    invalid_levels,             \* those of soko_levels with a map that is rejected
    state, previous_state,      \* sokoban.state, sokoban.previous_state
    highscores,                 \* sokoban.highscores
    game_state,                 \* current_game.game_state
    level_number,               \* current_game.level_number and .level
    level_ticks, total_ticks,
    level_moves, total_moves,
    screen, saved_screen,       \* what is on the console; what was saved of it
    cursor,                     \* the row of the console's cursor
    buf,                        \* timer_print_buf
    todo,                       \* main's statements still to be executed
    elapsed                     \* ticks the level's clock counted since "enter"

metaVars  == <<invalid_levels, state, previous_state, highscores>>
levelVars == <<level_number, level_moves, total_moves, total_ticks>>
clockVars == <<level_ticks, elapsed>>
viewVars  == <<screen, saved_screen, cursor, buf>>
vars == <<metaVars, levelVars, game_state, clockVars, viewVars, todo>>

Table == INSTANCE Highscores WITH MaxGames <- 0, finished <- <<>>

-----------------------------------------------------------------------------
(* The screen: what is drawn on it, and what its two number fields read.   *)

Text(of, n) == [of |-> of, n |-> n]
NoText == Text("nothing", 0)
Blank == [kind |-> "blank", level |-> 0, moved |-> 0, moves |-> NoText, time |-> NoText]

InTenths(ticks) == ticks \div TICKS_PER_PRINT

-----------------------------------------------------------------------------
(* What main does, statement by statement.  The names are the code's.      *)

set(var, value) == [do |-> "set", var |-> var, value |-> value]
show(kind) == [do |-> "show", kind |-> kind]
stmt(name) == [do |-> name]

\* time_of: whose ticks put_time_at_loc is given.
put_time_at_loc(time_of) ==
    <<[do |-> "snprintf", time_of |-> time_of], stmt("putstring")>>

print_current_game_moves == <<stmt("set_cursor"), stmt("printf")>>
print_current_game_time == put_time_at_loc("level")

\* Mutant: the introduction is drawn but the state stays.
display_introduction_only ==
    <<stmt("clear_console"), show("intro")>>
\* One time stands for the three that may be shown.
display_introduction ==
    <<set("state", "INTRODUCTION"), stmt("clear_console"), show("intro")>>
    \o (IF highscores[1].num_ticks # UINT32_MAX THEN put_time_at_loc("highscore") ELSE <<>>)

display_instructions ==
    <<stmt("previous_state"), set("state", "INSTRUCTIONS"),
      stmt("clear_console"), show("instructions")>>

\* Mutant: the pause screen is drawn before the clock is stopped.
pause_game_late ==
    <<stmt("clear_console"), set("game_state", "PAUSED"), show("pause")>>
pause_game ==
    <<set("game_state", "PAUSED"), stmt("clear_console"), show("pause")>>

\* Mutant: the level is drawn while the clock still runs.
restart_running == <<stmt("clear_moves"), stmt("draw_sokoban_level")>>
restart_current_level ==
    <<set("game_state", "PAUSED"), stmt("clear_moves"), stmt("draw_sokoban_level")>>

start_sokoban_level(n) ==
    <<set("game_state", "PAUSED"), set("state", "GAME_RUNNING"), set("level", n)>>
    \o restart_current_level

start_game == <<stmt("clear_totals")>> \o start_sokoban_level(1)

\* Mutant: the last level is looked for one level late.
level_up_past ==
    IF level_number > soko_nlevels
    THEN display_introduction
    ELSE start_sokoban_level(level_number + 1)
level_up ==
    IF level_number = soko_nlevels
    THEN display_introduction
    ELSE start_sokoban_level(level_number + 1)

\* Mutant: the totals are taken before the clock is stopped.
complete_level_late ==
    <<stmt("add_totals"), set("game_state", "IN_LEVEL_SUMMARY"),
      stmt("clear_console"), show("summary"), stmt("highscores")>>
    \o put_time_at_loc("summary")
complete_level ==
    <<set("game_state", "IN_LEVEL_SUMMARY"), stmt("add_totals"),
      stmt("clear_console"), show("summary"), stmt("highscores")>>
    \o put_time_at_loc("summary")

resume == <<stmt("restore"), set("game_state", "RUNNING")>>

\* What handle_input does with a key, by the state the game is in.
OnKey(ch) ==
    CASE state = "INTRODUCTION" /\ ch = "i" -> display_instructions
      [] state = "INTRODUCTION" /\ ch = "enter" -> start_game
      [] state = "INSTRUCTIONS" /\ ch = "i" /\ previous_state = "INTRODUCTION" ->
             display_introduction
      [] state = "INSTRUCTIONS" /\ ch = "i" /\ previous_state = "GAME_RUNNING" ->
             <<stmt("restore"), set("state", "GAME_RUNNING"), set("game_state", "RUNNING")>>
      [] state = "GAME_RUNNING" /\ game_state = "IN_LEVEL_SUMMARY" -> level_up
      [] state = "GAME_RUNNING" /\ game_state = "PAUSED" /\ ch = "p" -> resume
      [] state = "GAME_RUNNING" /\ game_state = "RUNNING" /\ ch = "i" ->
             <<stmt("save")>> \o display_instructions
      [] state = "GAME_RUNNING" /\ game_state = "RUNNING" /\ ch = "p" ->
             <<stmt("save")>> \o pause_game
      [] state = "GAME_RUNNING" /\ game_state = "RUNNING" /\ ch = "q" -> display_introduction
      [] state = "GAME_RUNNING" /\ game_state = "RUNNING" /\ ch = "r" -> restart_current_level
      [] state = "GAME_RUNNING" /\ game_state = "RUNNING" /\ ch = "move" -> <<stmt("try_move")>>
      [] OTHER -> <<>>

Key == {"i", "p", "q", "r", "enter", "move", "other"}

Init ==
    /\ invalid_levels \in SUBSET (1 .. soko_nlevels)
    /\ state = "INTRODUCTION"
    /\ previous_state = "INTRODUCTION"
    /\ highscores = [i \in 1 .. NUM_HIGHSCORES |-> Table!Default]
    \* current_game is a global that nothing has written yet
    /\ game_state = "RUNNING"
    /\ level_number = 0
    /\ level_ticks = 0 /\ total_ticks = 0
    /\ level_moves = 0 /\ total_moves = 0
    /\ screen = Blank
    /\ saved_screen = Blank
    /\ cursor = "elsewhere"
    /\ buf = 0
    /\ todo = display_introduction
    /\ elapsed = 0

\* The loop of sokoban_initialize_and_run: readchar() has a key.
handle_input(ch) ==
    /\ todo = <<>>
    /\ todo' = OnKey(ch)
    /\ UNCHANGED <<metaVars, levelVars, game_state, clockVars, viewVars>>

-----------------------------------------------------------------------------
(* One statement of main.                                                  *)

At(do) == todo # <<>> /\ Head(todo).do = do
Done == todo' = Tail(todo)

\* sokoban.state = ..., current_game.game_state = ..., and the level's data.
SetState ==
    /\ At("set") /\ Head(todo).var = "state"
    /\ state' = Head(todo).value
    /\ Done
    /\ UNCHANGED <<invalid_levels, previous_state, highscores, levelVars, game_state, clockVars, viewVars>>

SetGameState ==
    /\ At("set") /\ Head(todo).var = "game_state"
    /\ game_state' = Head(todo).value
    /\ Done
    /\ UNCHANGED <<metaVars, levelVars, clockVars, viewVars>>

SetLevel ==
    /\ At("set") /\ Head(todo).var = "level"
    /\ level_ticks' = 0
    /\ level_number' = Head(todo).value
    /\ Done
    /\ UNCHANGED <<metaVars, level_moves, total_moves, total_ticks, game_state, elapsed, viewVars>>

SetPrevious ==
    /\ At("previous_state")
    /\ previous_state' = state
    /\ Done
    /\ UNCHANGED <<invalid_levels, state, highscores, levelVars, game_state, clockVars, viewVars>>

ClearTotals ==
    /\ At("clear_totals")
    /\ total_ticks' = 0 /\ total_moves' = 0
    /\ elapsed' = 0
    /\ Done
    /\ UNCHANGED <<metaVars, level_number, level_moves, level_ticks, game_state, viewVars>>

ClearMoves ==
    /\ At("clear_moves")
    /\ level_moves' = 0
    /\ Done
    /\ UNCHANGED <<metaVars, level_number, total_moves, total_ticks, game_state,
                   clockVars, viewVars>>

AddTotals ==
    /\ At("add_totals")
    /\ total_ticks' = total_ticks + level_ticks
    /\ total_moves' = total_moves + level_moves
    /\ Done
    /\ UNCHANGED <<metaVars, level_number, level_moves, game_state, clockVars, viewVars>>

EnterHighscore ==
    /\ At("highscores")
    /\ highscores' = IF level_number = soko_nlevels
                     THEN Table!Entered(highscores, [num_moves |-> total_moves,
                                                     num_ticks |-> total_ticks])
                     ELSE highscores
    /\ Done
    /\ UNCHANGED <<invalid_levels, state, previous_state, levelVars, game_state, clockVars, viewVars>>

\* Mutant: the level is saved as it was when it was drawn.
SaveAsDrawn ==
    /\ At("save")
    /\ saved_screen' = [screen EXCEPT !.moved = 0]
    /\ Done
    /\ UNCHANGED <<metaVars, levelVars, game_state, clockVars, screen, cursor, buf>>
\* memcpy to and from saved_screen: the console's memory, not its cursor.
SaveScreen ==
    /\ At("save")
    /\ saved_screen' = screen
    /\ Done
    /\ UNCHANGED <<metaVars, levelVars, game_state, clockVars, screen, cursor, buf>>

RestoreScreen ==
    /\ At("restore")
    /\ screen' = saved_screen
    /\ Done
    /\ UNCHANGED <<metaVars, levelVars, game_state, clockVars, saved_screen, cursor, buf>>

ClearConsole ==
    /\ At("clear_console")
    /\ screen' = Blank
    /\ cursor' = "elsewhere"
    /\ Done
    /\ UNCHANGED <<metaVars, levelVars, game_state, clockVars, saved_screen, buf>>

Show ==
    /\ At("show")
    /\ screen' = [screen EXCEPT !.kind = Head(todo).kind]
    /\ cursor' = "elsewhere"
    /\ Done
    /\ UNCHANGED <<metaVars, levelVars, game_state, clockVars, saved_screen, buf>>

\* An invalid level is left half drawn, and the introduction replaces it.
DrawLevel ==
    /\ At("draw_sokoban_level")
    /\ cursor' = "elsewhere"
    /\ IF level_number \in invalid_levels
       THEN /\ screen' = [Blank EXCEPT !.kind = "invalid"]
            /\ todo' = display_introduction
       ELSE /\ screen' = [Blank EXCEPT !.kind = "board", !.level = level_number]
            /\ todo' = print_current_game_moves \o print_current_game_time
                       \o <<set("game_state", "RUNNING")>>
    /\ UNCHANGED <<metaVars, levelVars, game_state, clockVars, saved_screen, buf>>

SetCursor ==
    /\ At("set_cursor")
    /\ cursor' = "moves"
    /\ Done
    /\ UNCHANGED <<metaVars, levelVars, game_state, clockVars, screen, saved_screen, buf>>

\* printf("Moves: %d") writes wherever the cursor is.
PrintMoves ==
    /\ At("printf")
    /\ screen' = CASE cursor = "moves" -> [screen EXCEPT !.moves = Text("moves", level_moves)]
                   [] cursor = "time"  -> [screen EXCEPT !.time = Text("moves", level_moves)]
                   [] OTHER            -> screen
    /\ Done
    /\ UNCHANGED <<metaVars, levelVars, game_state, clockVars, saved_screen, cursor, buf>>

\* put_time_at_loc: the text is made in timer_print_buf, then written.
TicksOf(whose) ==
    CASE whose = "level" -> level_ticks
      [] whose = "summary" -> IF level_number = soko_nlevels THEN total_ticks ELSE level_ticks
      [] whose = "highscore" -> highscores[1].num_ticks

FormatTime ==
    /\ At("snprintf")
    /\ buf' = InTenths(TicksOf(Head(todo).time_of))
    /\ Done
    /\ UNCHANGED <<metaVars, levelVars, game_state, clockVars, screen, saved_screen, cursor>>

PutTime ==
    /\ At("putstring")
    /\ screen' = [screen EXCEPT !.time = Text("time", buf)]
    /\ cursor' = "time"
    /\ Done
    /\ UNCHANGED <<metaVars, levelVars, game_state, clockVars, saved_screen, buf>>

\* try_move: off the console it returns at once; otherwise it prints the
\* moves, whether or not anything moved, and looks whether boxes are left.
Returns ==
    /\ At("try_move")
    /\ Done
    /\ UNCHANGED <<metaVars, levelVars, game_state, clockVars, viewVars>>

Blocked ==
    /\ At("try_move")
    /\ todo' = print_current_game_moves
    /\ UNCHANGED <<metaVars, levelVars, game_state, clockVars, viewVars>>

Moves ==
    /\ At("try_move")
    /\ level_moves < MaxMoves
    /\ level_moves' = level_moves + 1
    /\ screen' = [screen EXCEPT !.moved = @ + 1]
    /\ \E solved \in BOOLEAN :
           todo' = print_current_game_moves \o (IF solved THEN complete_level ELSE <<>>)
    /\ UNCHANGED <<metaVars, level_number, total_moves, total_ticks, game_state,
                   clockVars, saved_screen, cursor, buf>>

Main ==
    \/ SetState \/ SetGameState \/ SetLevel \/ SetPrevious
    \/ ClearTotals \/ ClearMoves \/ AddTotals \/ EnterHighscore
    \/ SaveScreen \/ RestoreScreen \/ ClearConsole \/ Show \/ DrawLevel
    \/ SetCursor \/ PrintMoves \/ FormatTime \/ PutTime
    \/ Returns \/ Blocked \/ Moves

-----------------------------------------------------------------------------
(* The timer interrupt.                                                    *)

\* Mutant: game_state is not looked at.
ClockRunsWheneverPlaying == state = "GAME_RUNNING"
ClockRuns == state = "GAME_RUNNING" /\ game_state = "RUNNING"

sokoban_tickback ==
    /\ ClockRuns
    /\ elapsed < MaxTicks
    /\ elapsed' = elapsed + 1
    /\ level_ticks' = level_ticks + 1
    /\ IF level_ticks' % TICKS_PER_PRINT = 0
       THEN /\ buf' = InTenths(level_ticks')
            /\ screen' = [screen EXCEPT !.time = Text("time", buf')]
            /\ cursor' = "time"
       ELSE UNCHANGED <<screen, cursor, buf>>
    /\ UNCHANGED <<metaVars, levelVars, game_state, saved_screen, todo>>

Next ==
    \/ \E ch \in Key : handle_input(ch)
    \/ Main
    \/ sokoban_tickback

Spec == Init /\ [][Next]_vars

-----------------------------------------------------------------------------
Kinds == {"blank", "intro", "instructions", "pause", "summary", "invalid", "board"}
Texts == [of : {"nothing", "moves", "time"}, n : Nat]
Screens == [kind : Kinds, level : 0 .. soko_nlevels, moved : Nat, moves : Texts, time : Texts]

(* The types of the variables; the level number stays within soko_levels   *)
(* and end_level_messages.                                                 *)
TypeOK ==
    /\ invalid_levels \in SUBSET (1 .. soko_nlevels)
    /\ state \in {"INTRODUCTION", "INSTRUCTIONS", "GAME_RUNNING"}
    /\ previous_state \in {"INTRODUCTION", "GAME_RUNNING"}
    /\ highscores \in [1 .. NUM_HIGHSCORES -> [num_moves : Nat, num_ticks : Nat]]
    /\ game_state \in {"RUNNING", "PAUSED", "IN_LEVEL_SUMMARY"}
    /\ level_number \in 0 .. soko_nlevels
    /\ level_ticks \in Nat /\ total_ticks \in Nat
    /\ level_moves \in Nat /\ total_moves \in Nat
    /\ screen \in Screens /\ saved_screen \in Screens
    /\ cursor \in {"elsewhere", "moves", "time"}
    /\ buf \in Nat
    /\ elapsed \in Nat

Idle == todo = <<>>

\* The current level's board as it is after level_moves moves.
IsTheBoard(scr) == scr.kind = "board" /\ scr.level = level_number /\ scr.moved = level_moves

(* The level's clock counts, and writes on the screen, only while the      *)
(* level's board is what the screen shows: not while it is being redrawn,  *)
(* not over the pause, instructions, summary or introduction screen.       *)
ClockRunsOnTheBoard == ClockRuns => IsTheBoard(screen)

(* Each tick the clock counted belongs to one level: when main waits for a *)
(* key during a game, the total of the completed levels and the clock of   *)
(* the current one are all the ticks since the game was started.           *)
EveryTickCountsOnce ==
    Idle /\ (state = "GAME_RUNNING" \/ (state = "INSTRUCTIONS" /\ previous_state = "GAME_RUNNING"))
    => elapsed = total_ticks + (IF game_state = "IN_LEVEL_SUMMARY" THEN 0 ELSE level_ticks)

(* timer_print_buf has two users, and neither main's put_time_at_loc nor   *)
(* the tick's ever writes the other's text: what main formatted is still   *)
(* there when it is written to the console.                                *)
TimeTextIsMains == At("putstring") => ~ClockRuns

(* Whenever the game has saved a screen to return to, it is the board of   *)
(* the level being played, after as many moves; and the instructions       *)
(* always lead back to where they were called.                             *)
ReturnsToTheBoard ==
    Idle =>
        /\ state = "GAME_RUNNING" /\ game_state = "PAUSED" => IsTheBoard(saved_screen)
        /\ state = "INSTRUCTIONS" /\ previous_state = "GAME_RUNNING" =>
               game_state = "RUNNING" /\ IsTheBoard(saved_screen)

(* A screen shown while main waits is the one the game's state calls for.  *)
ScreenMatchesState ==
    Idle =>
        /\ state = "INTRODUCTION" => screen.kind = "intro"
        /\ state = "INSTRUCTIONS" => screen.kind = "instructions"
        /\ state = "GAME_RUNNING" =>
               screen.kind = CASE game_state = "RUNNING" -> "board"
                               [] game_state = "PAUSED" -> "pause"
                               [] game_state = "IN_LEVEL_SUMMARY" -> "summary"

(* The summary shows the time of the level, or of the game after its last  *)
(* level, and that time does not change while the summary is up.           *)
SummaryIsFinal ==
    Idle /\ state = "GAME_RUNNING" /\ game_state = "IN_LEVEL_SUMMARY" =>
        screen.time = Text("time", InTenths(TicksOf("summary")))

(* README.dox:27: "After making a valid move, the number of moves is       *)
(* redrawn to be updated."                                                 *)
MovesAreRedrawn ==
    Idle /\ state = "GAME_RUNNING" /\ game_state = "RUNNING" =>
        screen.moves = Text("moves", level_moves)
=============================================================================

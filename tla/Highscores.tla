----------------------------- MODULE Highscores -----------------------------
(***************************************************************************)
(* The table of highscores (sokoban_game.c:892-909, 1087-1095): a finished *)
(* game is entered before the first entry it beats, and the last entry     *)
(* falls off.  Fewer moves win, and the time decides between equal moves.  *)
(***************************************************************************)
EXTENDS Integers, Sequences, FiniteSets

CONSTANTS
    NUM_HIGHSCORES,   \* 3 in the code
    UINT32_MAX,       \* 2^32 - 1 in the code: the DEFAULT_SCORE
    MaxGames          \* bound on the games played

ASSUME NumHighscoresAssumption == NUM_HIGHSCORES \in Nat \ {0}
ASSUME UintAssumption == UINT32_MAX \in Nat

VARIABLES
    highscores,       \* sokoban.highscores, the best first
    finished          \* the scores of all games finished, in that order

vars == <<highscores, finished>>

Entry == 1 .. NUM_HIGHSCORES
Score == [num_moves : 0 .. UINT32_MAX, num_ticks : 0 .. UINT32_MAX]
Default == [num_moves |-> UINT32_MAX, num_ticks |-> UINT32_MAX]

\* Mutant: the time is compared even if the moves differ.
BetterInEither(s, t) ==
    \/ s.num_moves < t.num_moves
    \/ s.num_ticks < t.num_ticks
Better(s, t) ==
    \/ s.num_moves < t.num_moves
    \/ s.num_moves = t.num_moves /\ s.num_ticks < t.num_ticks

\* Mutant: the entries behind the new one are not moved.
EnteredOverwriting(table, score) ==
    [i \in Entry |->
        IF Better(score, table[i]) /\ \A k \in 1 .. i - 1 : ~Better(score, table[k])
        THEN score
        ELSE table[i]]
\* The loops: entries before the first one beaten stay, the others move down.
Entered(table, score) ==
    [i \in Entry |->
        CASE \E k \in 1 .. i - 1 : Better(score, table[k]) -> table[i - 1]
          [] Better(score, table[i]) /\ \A k \in 1 .. i - 1 : ~Better(score, table[k]) -> score
          [] OTHER -> table[i]]

sokoban_initialize == highscores = [i \in Entry |-> Default]

Init == sokoban_initialize /\ finished = <<>>

\* complete_level on the last level.
FinishGame(score) ==
    /\ Len(finished) < MaxGames
    /\ highscores' = Entered(highscores, score)
    /\ finished' = Append(finished, score)

Next == \E score \in Score : FinishGame(score)

Spec == Init /\ [][Next]_vars

-----------------------------------------------------------------------------
(* The types of the variables.                                             *)
TypeOK ==
    /\ highscores \in [Entry -> Score]
    /\ finished \in Seq(Score)

(* No entry is beaten by a later one.                                      *)
Sorted == \A i, j \in Entry : i < j => ~Better(highscores[j], highscores[i])

(* The table holds the best games ever finished, equal ones each time they *)
(* occurred: fewer than i games beat entry i, and at least i are as good.  *)
(* An entry without a game is the default.                                 *)
HoldsTheBest ==
    \A i \in Entry :
        IF i > Len(finished)
        THEN highscores[i] = Default
        ELSE /\ Cardinality({g \in 1 .. Len(finished) :
                                 Better(finished[g], highscores[i])}) < i
             /\ Cardinality({g \in 1 .. Len(finished) :
                                 ~Better(highscores[i], finished[g])}) >= i
             /\ \E g \in 1 .. Len(finished) : finished[g] = highscores[i]
=============================================================================

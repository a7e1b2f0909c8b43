---------------------------- MODULE SokobanRules ----------------------------
(***************************************************************************)
(* Sokoban as the game's instructions describe it (sokoban_game.c:399-408):*)
(* walk onto an empty square or push one box; boxes are not pulled, nor    *)
(* pushed into boxes or walls; the level is over when every box is on a    *)
(* target location.  Sets of squares, no screen.                           *)
(***************************************************************************)
EXTENDS Integers

CONSTANT Layouts      \* how levels start: records [walls, goals, boxes, player]

VARIABLES
    walls, goals,     \* fixed while a level is played
    boxes, player,    \* where the boxes and the player are
    phase             \* "running", "summary" or "introduction"

rvars == <<walls, goals, boxes, player, phase>>

Ahead(dir, sq) ==
    CASE dir = "UP"    -> <<sq[1] - 1, sq[2]>>
      [] dir = "DOWN"  -> <<sq[1] + 1, sq[2]>>
      [] dir = "LEFT"  -> <<sq[1], sq[2] - 1>>
      [] dir = "RIGHT" -> <<sq[1], sq[2] + 1>>

RInit == phase = "introduction"

Walk(dir) ==
    /\ phase = "running"
    /\ Ahead(dir, player) \notin walls \cup boxes
    /\ player' = Ahead(dir, player)
    /\ UNCHANGED <<walls, goals, boxes, phase>>

Pushed(dir) == (boxes \ {Ahead(dir, player)}) \cup {Ahead(dir, Ahead(dir, player))}

CanPush(dir) ==
    /\ phase = "running"
    /\ Ahead(dir, player) \in boxes
    /\ Ahead(dir, Ahead(dir, player)) \notin walls \cup boxes

Push(dir) ==
    /\ CanPush(dir)
    /\ ~(Pushed(dir) \subseteq goals)
    /\ boxes' = Pushed(dir)
    /\ player' = Ahead(dir, player)
    /\ UNCHANGED <<walls, goals, phase>>

\* The push that puts the last box on a target ends the level.
Finish(dir) ==
    /\ CanPush(dir)
    /\ Pushed(dir) \subseteq goals
    /\ phase' = "summary"

\* A level is set up, for the first time or again.
SetUp(layout) ==
    /\ phase' = "running"
    /\ walls' = layout.walls
    /\ goals' = layout.goals
    /\ boxes' = layout.boxes
    /\ player' = layout.player

\* The board is gone, and with it the walls, goals and boxes.
GiveUp == phase' = "introduction"

RNext ==
    \/ \E dir \in {"UP", "DOWN", "LEFT", "RIGHT"} : Walk(dir) \/ Push(dir) \/ Finish(dir)
    \/ \E layout \in Layouts : SetUp(layout)
    \/ GiveUp

RSpec == RInit /\ [][RNext]_rvars
=============================================================================

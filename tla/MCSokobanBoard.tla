--------------------------- MODULE MCSokobanBoard ---------------------------
(***************************************************************************)
(* Maps for TLC.  Room has two boxes and two targets, one of them next to  *)
(* a wall, so that boxes get stuck, leave targets again and block each     *)
(* other.  Open has no walls: the console's own edge stops the player.     *)
(* More targets than boxes in Spare.  The last two are invalid.            *)
(***************************************************************************)
EXTENDS SokobanBoard

Room ==
    [height |-> 5, width |-> 6,
     map |-> <<<<"X", "X", "X", "X", "X", "X">>,
               <<"X", "g", " ", " ", " ", "X">>,
               <<"X", " ", "b", "o", " ", "X">>,
               <<"X", " ", "g", "b", " ", "X">>,
               <<"X", "X", "X", "X", "X", "X">>>>]

Open ==
    [height |-> 2, width |-> 5,
     map |-> <<<<" ", "o", "b", " ", " ">>,
               <<" ", "b", " ", "g", " ">>>>]

Spare ==
    [height |-> 1, width |-> 6,
     map |-> <<<<"X", "o", "b", "g", "g", "X">>>>]

TwoPlayers ==
    [height |-> 1, width |-> 4, map |-> <<<<"o", "b", "g", "o">>>>]

NoBox ==
    [height |-> 1, width |-> 3, map |-> <<<<"o", " ", "g">>>>]

MCLevels == {Room, Open, Spare, TwoPlayers, NoBox}
=============================================================================

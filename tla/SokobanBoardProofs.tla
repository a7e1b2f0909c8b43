------------------------- MODULE SokobanBoardProofs -------------------------
(***************************************************************************)
(* Proofs about SokobanBoard, for every size of the console and every set  *)
(* of maps that fit on it.  The screen is the only record of the board, so *)
(* the argument is about what is shown where: Shown is Showing for the     *)
(* screens of which a move is made.                                        *)
(***************************************************************************)
EXTENDS SokobanBoard, FiniteSetTheorems, FunctionTheorems, TLAPS

Shown(scr, symbols) == {sq \in Square : scr[sq] \in symbols}

BOXES == {MY_SOK_BOX, MY_SOK_BOX_ON_GOAL}
GOALS == {MY_SOK_GOAL, MY_SOK_BOX_ON_GOAL}

-----------------------------------------------------------------------------
\* Any part of the console is finite.
LEMMA SquaresAreFinite ==
    ASSUME NEW S, S \subseteq Square
    PROVE  IsFiniteSet(S)
  <1>1. IsFiniteSet(0 .. CONSOLE_HEIGHT - 1) /\ IsFiniteSet(0 .. CONSOLE_WIDTH - 1)
    BY ConsoleAssumption, FS_Interval
  <1>2. IsFiniteSet(Square)
    BY <1>1, FS_Product DEF Square
  <1>3. QED
    BY <1>2, FS_Subset

\* Any part of a map is finite.
LEMMA WithIsFinite ==
    ASSUME NEW lv \in Levels, NEW ch
    PROVE  IsFiniteSet(With(lv, ch))
  <1>1. lv.height \in Int /\ lv.width \in Int
    <2>1. lv.height \in 1 .. CONSOLE_HEIGHT - 1 /\ lv.width \in 1 .. CONSOLE_WIDTH - 1
      BY LevelsAssumption
    <2>2. QED
      BY <2>1, ConsoleAssumption
  <1>2. IsFiniteSet(1 .. lv.height) /\ IsFiniteSet(1 .. lv.width)
    BY <1>1, FS_Interval
  <1>3. IsFiniteSet(MapSquare(lv))
    BY <1>2, FS_Product DEF MapSquare
  <1>4. With(lv, ch) \subseteq MapSquare(lv)
    BY DEF With
  <1>5. QED
    BY <1>3, <1>4, FS_Subset

\* Something smaller than the console is put inside it.
LEMMA CenteredFits ==
    ASSUME NEW console \in Nat, NEW size \in 1 .. console - 1
    PROVE  /\ Centered(console, size) \in Nat
           /\ Centered(console, size) + size <= console
  <1>1. console - size \in Nat
    OBVIOUS
  <1>2. Centered(console, size) = ((console - size) * 50) \div 100
    BY DEF Centered
  <1>3. \A d \in Nat : (d * 50) \div 100 \in Nat /\ (d * 50) \div 100 <= d
    OBVIOUS
  <1>4. QED
    BY <1>1, <1>2, <1>3

\* Squares of a map land on squares of the console, and no two on the same.
LEMMA MapFits ==
    ASSUME NEW lv \in Levels
    PROVE  /\ \A m \in MapSquare(lv) : On(lv, m) \in Square
           /\ \A m, k \in MapSquare(lv) : On(lv, m) = On(lv, k) => m = k
  <1> DEFINE top == Centered(CONSOLE_HEIGHT, lv.height)
             left == Centered(CONSOLE_WIDTH, lv.width)
  <1>1. lv.height \in 1 .. CONSOLE_HEIGHT - 1 /\ lv.width \in 1 .. CONSOLE_WIDTH - 1
    BY LevelsAssumption
  <1>2. /\ top \in Nat /\ top + lv.height <= CONSOLE_HEIGHT
        /\ left \in Nat /\ left + lv.width <= CONSOLE_WIDTH
    BY <1>1, ConsoleAssumption, CenteredFits
  <1> HIDE DEF top, left
  <1>3. \A m \in MapSquare(lv) : /\ m = <<m[1], m[2]>>
                                 /\ m[1] \in 1 .. lv.height
                                 /\ m[2] \in 1 .. lv.width
    BY DEF MapSquare
  <1>4. \A m : On(lv, m) = <<top + m[1] - 1, left + m[2] - 1>>
    BY DEF On, top, left
  <1>5. ASSUME NEW m \in MapSquare(lv)
        PROVE  On(lv, m) \in Square
    BY <1>1, <1>2, <1>3, <1>4, ConsoleAssumption DEF Square
  <1>6. ASSUME NEW m \in MapSquare(lv), NEW k \in MapSquare(lv), On(lv, m) = On(lv, k)
        PROVE  m = k
    <2>1. top + m[1] - 1 = top + k[1] - 1 /\ left + m[2] - 1 = left + k[2] - 1
      BY <1>4, <1>6
    <2>2. m[1] = k[1] /\ m[2] = k[2]
      BY <1>1, <1>2, <1>3, <2>1
    <2>3. QED
      BY <1>3, <2>2
  <1>7. QED
    BY <1>5, <1>6

\* What a level just drawn shows: the map's walls, boxes, goals and player,
\* and no box on a goal.
LEMMA LevelShows ==
    ASSUME NEW lv \in Levels
    PROVE  LET scr == LevelScreen(lv) IN
           /\ scr \in [Square -> Symbol]
           /\ Shown(scr, {MY_SOK_WALL}) = Placed(lv, SOK_WALL)
           /\ Shown(scr, {MY_SOK_PLAYER}) = Placed(lv, SOK_PUSH)
           /\ Shown(scr, {MY_SOK_BOX}) = Placed(lv, SOK_ROCK)
           /\ Shown(scr, {MY_SOK_GOAL}) = Placed(lv, SOK_GOAL)
           /\ Shown(scr, {MY_SOK_BOX_ON_GOAL}) = {}
  <1> DEFINE scr == LevelScreen(lv)
             Here(sq) == {m \in MapSquare(lv) : On(lv, m) = sq}
  <1> USE DEF SOK_WALL, SOK_PUSH, SOK_ROCK, SOK_GOAL, MY_SOK_WALL, MY_SOK_PLAYER,
              MY_SOK_BOX, MY_SOK_GOAL, MY_SOK_BOX_ON_GOAL, ASCII_SPACE
  <1>1. ASSUME NEW sq \in Square, Here(sq) = {}
        PROVE  scr[sq] = ASCII_SPACE
    BY <1>1 DEF LevelScreen
  <1>2. ASSUME NEW m \in MapSquare(lv)
        PROVE  scr[On(lv, m)] = Drawn(lv.map[m[1]][m[2]])
    <2>1. On(lv, m) \in Square /\ Here(On(lv, m)) = {m}
      BY MapFits
    <2>2. (CHOOSE k \in Here(On(lv, m)) : TRUE) = m
      BY <2>1
    <2>3. QED
      BY <2>1, <2>2 DEF LevelScreen
  <1>3. \A ch : Drawn(ch) \in Symbol
    BY DEF Drawn, Symbol
  <1>4. scr \in [Square -> Symbol]
    <2>1. \A sq \in Square : scr[sq] \in Symbol
      <3> TAKE sq \in Square
      <3>1. CASE Here(sq) = {}
        BY <1>1, <3>1 DEF Symbol
      <3>2. CASE Here(sq) # {}
        BY <1>2, <1>3, <3>2
      <3>3. QED
        BY <3>1, <3>2
    <2>2. QED
      BY <2>1 DEF LevelScreen
  <1>5. ASSUME NEW ch, NEW symbol, symbol # ASCII_SPACE,
               \A c : Drawn(c) = symbol <=> c = ch
        PROVE  Shown(scr, {symbol}) = Placed(lv, ch)
    <2>1. ASSUME NEW sq \in Shown(scr, {symbol})
          PROVE  sq \in Placed(lv, ch)
      <3>1. sq \in Square /\ scr[sq] = symbol
        BY DEF Shown
      <3>2. PICK m \in MapSquare(lv) : On(lv, m) = sq
        BY <1>1, <1>5, <3>1
      <3>3. m \in With(lv, ch)
        BY <1>2, <1>5, <3>1, <3>2 DEF With
      <3>4. QED
        BY <3>2, <3>3 DEF Placed
    <2>2. ASSUME NEW m \in With(lv, ch)
          PROVE  On(lv, m) \in Shown(scr, {symbol})
      BY <1>2, <1>5, MapFits DEF Shown, With
    <2>3. QED
      BY <2>1, <2>2 DEF Placed
  <1>6. \A c : /\ Drawn(c) = MY_SOK_WALL <=> c = SOK_WALL
               /\ Drawn(c) = MY_SOK_PLAYER <=> c = SOK_PUSH
               /\ Drawn(c) = MY_SOK_BOX <=> c = SOK_ROCK
               /\ Drawn(c) = MY_SOK_GOAL <=> c = SOK_GOAL
               /\ Drawn(c) # MY_SOK_BOX_ON_GOAL
    BY DEF Drawn
  <1>7. Shown(scr, {MY_SOK_BOX_ON_GOAL}) = {}
    <2>1. \A sq \in Square : scr[sq] # MY_SOK_BOX_ON_GOAL
      <3> TAKE sq \in Square
      <3>1. CASE Here(sq) = {}
        BY <1>1, <3>1
      <3>2. CASE Here(sq) # {}
        BY <1>2, <1>6, <3>2
      <3>3. QED
        BY <3>1, <3>2
    <2>2. QED
      BY <2>1 DEF Shown
  <1> HIDE DEF scr
  <1>8. /\ Shown(scr, {MY_SOK_WALL}) = Placed(lv, SOK_WALL)
        /\ Shown(scr, {MY_SOK_PLAYER}) = Placed(lv, SOK_PUSH)
        /\ Shown(scr, {MY_SOK_BOX}) = Placed(lv, SOK_ROCK)
        /\ Shown(scr, {MY_SOK_GOAL}) = Placed(lv, SOK_GOAL)
    BY <1>5, <1>6
  <1>9. QED
    BY <1>4, <1>7, <1>8 DEF scr

\* A valid level has one player, on its first square, and a box.
LEMMA ValidLevel ==
    ASSUME NEW lv \in Levels, Valid(lv)
    PROVE  /\ Placed(lv, SOK_PUSH) = {StartSquare(lv)}
           /\ StartSquare(lv) \in Square
           /\ Cardinality(With(lv, SOK_ROCK)) \in Nat \ {0}
           /\ Cardinality(Placed(lv, SOK_ROCK)) = Cardinality(With(lv, SOK_ROCK))
  <1>1. PICK m : With(lv, SOK_PUSH) = {m}
    BY WithIsFinite, FS_Singleton DEF Valid
  <1>2. StartSquare(lv) = On(lv, m) /\ m \in MapSquare(lv)
    BY <1>1 DEF StartSquare, With
  <1>3. Placed(lv, SOK_PUSH) = {StartSquare(lv)} /\ StartSquare(lv) \in Square
    BY <1>1, <1>2, MapFits DEF Placed
  <1> DEFINE rocks == With(lv, SOK_ROCK)
             f == [m2 \in rocks |-> On(lv, m2)]
  <1>4. IsFiniteSet(rocks)
    BY WithIsFinite
  <1>5. Cardinality(rocks) \in Nat \ {0}
    BY <1>4, FS_CardinalityType, FS_EmptySet DEF Valid
  <1>6. f \in Bijection(rocks, Placed(lv, SOK_ROCK))
    <2>1. f \in [rocks -> Placed(lv, SOK_ROCK)]
      BY DEF Placed
    <2>2. \A a, b \in rocks : f[a] = f[b] => a = b
      BY MapFits DEF With
    <2>3. \A t \in Placed(lv, SOK_ROCK) : \E s \in rocks : f[s] = t
      BY DEF Placed
    <2> HIDE DEF f, rocks
    <2>4. QED
      BY <2>1, <2>2, <2>3, Fun_IsBij
  <1>7. Cardinality(Placed(lv, SOK_ROCK)) = Cardinality(rocks)
    BY <1>4, <1>6, FS_Bijection DEF ExistsBijection
  <1>8. QED
    BY <1>3, <1>5, <1>7

-----------------------------------------------------------------------------
\* The square ahead is on the console, and going on does not lead back.
LEMMA AheadIsASquare ==
    ASSUME NEW sq \in Square, NEW dir \in Dir, valid_next_square(dir, sq)
    PROVE  Ahead(dir, sq) \in Square
  <1>1. PICK r \in 0 .. CONSOLE_HEIGHT - 1, c \in 0 .. CONSOLE_WIDTH - 1 : sq = <<r, c>>
    BY DEF Square
  <1>2. CASE dir = "UP"
    BY <1>1, <1>2, ConsoleAssumption DEF Square, valid_next_square, Ahead
  <1>3. CASE dir = "DOWN"
    BY <1>1, <1>3, ConsoleAssumption DEF Square, valid_next_square, Ahead
  <1>4. CASE dir = "LEFT"
    BY <1>1, <1>4, ConsoleAssumption DEF Square, valid_next_square, Ahead
  <1>5. CASE dir = "RIGHT"
    BY <1>1, <1>5, ConsoleAssumption DEF Square, valid_next_square, Ahead
  <1>6. QED
    BY <1>2, <1>3, <1>4, <1>5 DEF Dir

LEMMA AheadLeadsAway ==
    ASSUME NEW sq \in Square, NEW dir \in Dir
    PROVE  /\ Ahead(dir, sq) # sq
           /\ Ahead(dir, Ahead(dir, sq)) # sq
           /\ Ahead(dir, Ahead(dir, sq)) # Ahead(dir, sq)
  BY ConsoleAssumption DEF Square, Dir, Ahead

\* The properties hold together: the place of a goal under the player is
\* known only as long as the player is where the screen shows one, and the
\* count of boxes goes down only if there is one.
IInv == TypeOK /\ PlayerIsWhereItShows /\ FixedSquaresStay /\ BoxesAreCounted

LEMMA InitIInv == Init => IInv
  <1>1. <<0, 0>> \in Square
    BY ConsoleAssumption DEF Square
  <1>2. clear_console \in [Square -> Symbol]
    BY DEF clear_console, Symbol
  <1>3. Init => TypeOK
    <2> SUFFICES ASSUME Init PROVE TypeOK
      OBVIOUS
    <2>1. level \in Levels /\ screen \in [Square -> Symbol] /\ square \in Square
      BY <1>1, <1>2 DEF Init
    <2>2. on_goal \in BOOLEAN /\ boxes_left \in Nat /\ phase = "introduction"
      BY DEF Init
    <2>3. QED
      BY <2>1, <2>2 DEF TypeOK
  <1>4. QED
    BY <1>3 DEF IInv, Init, PlayerIsWhereItShows, FixedSquaresStay, BoxesAreCounted

\* Drawing a level establishes the invariant, whatever the level before left
\* behind; so does finding it invalid.
LEMMA RestartIInv ==
    ASSUME IInv, NEW lv \in Levels, level' = lv, restart_current_level(lv)
    PROVE  IInv'
  <1> USE DEF restart_current_level
  <1>1. CASE ~Valid(lv)
    <2>1. TypeOK'
      BY <1>1 DEF IInv, TypeOK, clear_console, Symbol
    <2>2. phase' = "introduction"
      BY <1>1
    <2>3. QED
      BY <2>1, <2>2 DEF IInv, PlayerIsWhereItShows, FixedSquaresStay, BoxesAreCounted
  <1>2. CASE Valid(lv)
    <2>1. /\ screen' = LevelScreen(lv)
          /\ square' = StartSquare(lv)
          /\ on_goal' = FALSE
          /\ boxes_left' = Cardinality(With(lv, SOK_ROCK))
          /\ phase' = "running"
      BY <1>2
    <2>2. TypeOK'
      BY <1>2, <2>1, LevelShows, ValidLevel DEF TypeOK
    <2>3. PlayerIsWhereItShows'
      BY <1>2, <2>1, LevelShows, ValidLevel DEF PlayerIsWhereItShows, Showing, Shown
    <2>4. Showing({MY_SOK_WALL})' = Placed(lv, SOK_WALL)
      BY <2>1, LevelShows DEF Showing, Shown
    <2>5. Goals' = Placed(lv, SOK_GOAL)
      BY <2>1, LevelShows DEF Goals, Showing, Shown
    <2>6. /\ Showing({MY_SOK_BOX})' = Placed(lv, SOK_ROCK)
          /\ Showing(BOXES)' = Placed(lv, SOK_ROCK)
      BY <2>1, LevelShows DEF Showing, Shown, BOXES
    <2>7. FixedSquaresStay'
      BY <2>4, <2>5 DEF FixedSquaresStay
    <2>8. BoxesAreCounted'
      BY <1>2, <2>1, <2>6, ValidLevel DEF BoxesAreCounted, BOXES
    <2>9. QED
      BY <2>2, <2>3, <2>7, <2>8 DEF IInv
  <1>3. QED
    BY <1>1, <1>2

\* Walking: only the player's two squares change, and a goal under either of
\* them is a goal still.
LEMMA WalkDraws ==
    ASSUME IInv, NEW dir \in Dir, Walk(dir)
    PROVE  LET next == Ahead(dir, square) IN
           /\ next \in Square
           /\ next \notin Showing({MY_SOK_WALL}) \cup Showing(BOXES)
           /\ screen' \in [Square -> Symbol]
           /\ square' = next
           /\ phase' = "running"
           /\ on_goal' \in BOOLEAN
           /\ Showing({MY_SOK_PLAYER})' = {next}
           /\ Showing({MY_SOK_WALL})' = Showing({MY_SOK_WALL})
           /\ Showing({MY_SOK_BOX})' = Showing({MY_SOK_BOX})
           /\ Showing(BOXES)' = Showing(BOXES)
           /\ Goals' = Goals
  <1> DEFINE next == Ahead(dir, square)
  <1> USE DEF MY_SOK_WALL, MY_SOK_PLAYER, MY_SOK_BOX, MY_SOK_GOAL,
              MY_SOK_BOX_ON_GOAL, ASCII_SPACE, BOXES, GOALS
  <1>1. /\ phase = "running" /\ square \in Square /\ screen \in [Square -> Symbol]
        /\ on_goal \in BOOLEAN /\ boxes_left > 0
        /\ Showing({MY_SOK_PLAYER}) = {square}
    BY DEF IInv, TypeOK, PlayerIsWhereItShows, BoxesAreCounted, Walk
  <1>2. next \in Square
    BY <1>1, AheadIsASquare DEF Walk
  <1>3. next # square
    BY <1>1, AheadLeadsAway
  <1>4. screen[next] \in {ASCII_SPACE, MY_SOK_GOAL}
    BY DEF Walk, Movable
  <1>5. screen' = [screen EXCEPT ![square] = Left, ![next] = MY_SOK_PLAYER] /\ phase' = phase
    BY <1>1 DEF Walk, EndOfMove
  <1>6. on_goal' = (screen[next] = MY_SOK_GOAL) /\ square' = next
    BY DEF Walk
  <1> HIDE DEF next
  <1>7. \A sq \in Square : screen'[sq] = IF sq = next THEN MY_SOK_PLAYER
                                         ELSE IF sq = square THEN Left ELSE screen[sq]
    BY <1>1, <1>2, <1>3, <1>5
  <1>8. screen' \in [Square -> Symbol]
    BY <1>1, <1>5 DEF Left, Symbol
  <1>9. next \notin Showing({MY_SOK_WALL}) \cup Showing(BOXES)
    BY <1>4 DEF Showing
  <1>10. \A sq \in Square : screen[sq] = MY_SOK_PLAYER <=> sq = square
    BY <1>1 DEF Showing
  <1>11. Left \in {MY_SOK_GOAL, ASCII_SPACE}
    BY DEF Left
  <1>12. Showing({MY_SOK_PLAYER})' = {next}
    BY <1>2, <1>7, <1>10, <1>11 DEF Showing
  <1>13. /\ Showing({MY_SOK_WALL})' = Showing({MY_SOK_WALL})
         /\ Showing({MY_SOK_BOX})' = Showing({MY_SOK_BOX})
         /\ Showing(BOXES)' = Showing(BOXES)
    BY <1>1, <1>4, <1>7, <1>10, <1>11 DEF Showing
  <1>14. Goals' = Goals
    <2>1. CASE on_goal
      BY <1>1, <1>2, <1>3, <1>4, <1>6, <1>7, <1>10, <2>1 DEF Goals, Showing, Left
    <2>2. CASE ~on_goal
      BY <1>1, <1>2, <1>3, <1>4, <1>6, <1>7, <1>10, <2>2 DEF Goals, Showing, Left
    <2>3. QED
      BY <2>1, <2>2
  <1>15. QED
    BY <1>1, <1>2, <1>5, <1>6, <1>8, <1>9, <1>12, <1>13, <1>14 DEF next

LEMMA WalkIInv ==
    ASSUME IInv, NEW dir \in Dir, Walk(dir)
    PROVE  IInv'
  <1>1. UNCHANGED <<level, boxes_left>> /\ phase = "running"
    BY DEF Walk
  <1>2. TypeOK'
    BY <1>1, WalkDraws DEF IInv, TypeOK
  <1>3. PlayerIsWhereItShows'
    BY WalkDraws DEF PlayerIsWhereItShows
  <1>4. FixedSquaresStay'
    <2>1. Placed(level, SOK_GOAL)' = Placed(level, SOK_GOAL)
          /\ Placed(level, SOK_WALL)' = Placed(level, SOK_WALL)
      BY <1>1
    <2>2. QED
      BY <1>1, <2>1, WalkDraws DEF IInv, FixedSquaresStay
  <1>5. BoxesAreCounted'
    BY <1>1, WalkDraws DEF IInv, BoxesAreCounted, BOXES
  <1>6. QED
    BY <1>2, <1>3, <1>4, <1>5 DEF IInv

-----------------------------------------------------------------------------
\* The screen that a push draws, before the test for the end of the level.
PushDrawn(dir) ==
    LET next == Ahead(dir, square)
        next_next == Ahead(dir, next)
    IN  [screen EXCEPT ![square] = Left,
                       ![next] = MY_SOK_PLAYER,
                       ![next_next] = Box(screen[next_next])]

\* Pushing: one box goes one square on, and goals under the player's old and
\* new square and under the box's new one are goals still.
LEMMA PushDraws ==
    ASSUME IInv, NEW dir \in Dir, Push(dir)
    PROVE  LET next == Ahead(dir, square)
               next_next == Ahead(dir, next)
               drawn == PushDrawn(dir)
           IN
           /\ next \in Showing(BOXES)
           /\ next_next \in Square
           /\ next_next \notin Showing({MY_SOK_WALL}) \cup Showing(BOXES)
           /\ drawn \in [Square -> Symbol]
           /\ Shown(drawn, {MY_SOK_PLAYER}) = {next}
           /\ Shown(drawn, {MY_SOK_WALL}) = Showing({MY_SOK_WALL})
           /\ Shown(drawn, BOXES) = (Showing(BOXES) \ {next}) \cup {next_next}
           /\ Shown(drawn, {MY_SOK_BOX}) =
                  (Showing({MY_SOK_BOX}) \ {next}) \cup
                      (IF screen[next_next] = MY_SOK_GOAL THEN {} ELSE {next_next})
           /\ Shown(drawn, GOALS) \cup (IF screen[next] = MY_SOK_BOX_ON_GOAL THEN {next} ELSE {})
                  = Goals
  <1> DEFINE next == Ahead(dir, square)
             next_next == Ahead(dir, next)
             drawn == PushDrawn(dir)
  <1> USE DEF MY_SOK_WALL, MY_SOK_PLAYER, MY_SOK_BOX, MY_SOK_GOAL,
              MY_SOK_BOX_ON_GOAL, ASCII_SPACE, BOXES, GOALS
  <1>1. /\ phase = "running" /\ square \in Square /\ screen \in [Square -> Symbol]
        /\ on_goal \in BOOLEAN
        /\ Showing({MY_SOK_PLAYER}) = {square}
    BY DEF IInv, TypeOK, PlayerIsWhereItShows, Push
  <1>2. next \in Square /\ next_next \in Square
    <2>1. next \in Square
      BY <1>1, AheadIsASquare DEF Push
    <2>2. QED
      BY <2>1, AheadIsASquare DEF Push
  <1>3. next # square /\ next_next # square /\ next_next # next
    BY <1>1, AheadLeadsAway
  <1>4. screen[next] \in {MY_SOK_BOX, MY_SOK_BOX_ON_GOAL}
    BY DEF Push, Pushable
  <1>5. screen[next_next] \in {ASCII_SPACE, MY_SOK_GOAL}
    BY DEF Push, Movable
  <1>6. drawn = [screen EXCEPT ![square] = Left,
                               ![next] = MY_SOK_PLAYER,
                               ![next_next] = Box(screen[next_next])]
    BY DEF PushDrawn
  <1> HIDE DEF next, next_next, drawn
  <1>7. \A sq \in Square : drawn[sq] = IF sq = next_next THEN Box(screen[next_next])
                                       ELSE IF sq = next THEN MY_SOK_PLAYER
                                       ELSE IF sq = square THEN Left ELSE screen[sq]
    BY <1>1, <1>2, <1>3, <1>6
  <1>8. Left \in {MY_SOK_GOAL, ASCII_SPACE}
    BY DEF Left
  <1>9. Box(screen[next_next]) = IF screen[next_next] = MY_SOK_GOAL
                                 THEN MY_SOK_BOX_ON_GOAL ELSE MY_SOK_BOX
    BY DEF Box
  <1>10. drawn \in [Square -> Symbol]
    BY <1>1, <1>6, <1>8, <1>9 DEF Symbol
  <1>11. \A sq \in Square : screen[sq] = MY_SOK_PLAYER <=> sq = square
    BY <1>1 DEF Showing
  <1>12. next \in Showing(BOXES)
    BY <1>2, <1>4 DEF Showing
  <1>13. next_next \notin Showing({MY_SOK_WALL}) \cup Showing(BOXES)
    BY <1>5 DEF Showing
  <1>14. Shown(drawn, {MY_SOK_PLAYER}) = {next}
    BY <1>2, <1>3, <1>7, <1>8, <1>9, <1>11 DEF Shown
  <1>15. Shown(drawn, {MY_SOK_WALL}) = Showing({MY_SOK_WALL})
    BY <1>2, <1>3, <1>4, <1>5, <1>7, <1>8, <1>9, <1>11 DEF Shown, Showing
  <1>16. Shown(drawn, BOXES) = (Showing(BOXES) \ {next}) \cup {next_next}
    BY <1>2, <1>3, <1>4, <1>5, <1>7, <1>8, <1>9, <1>11 DEF Shown, Showing
  <1>17. Shown(drawn, {MY_SOK_BOX}) =
             (Showing({MY_SOK_BOX}) \ {next}) \cup
                 (IF screen[next_next] = MY_SOK_GOAL THEN {} ELSE {next_next})
    BY <1>2, <1>3, <1>4, <1>5, <1>7, <1>8, <1>9, <1>11 DEF Shown, Showing
  <1>18. Shown(drawn, GOALS) \cup (IF screen[next] = MY_SOK_BOX_ON_GOAL THEN {next} ELSE {})
             = Goals
    <2>1. CASE on_goal
      BY <1>1, <1>2, <1>3, <1>4, <1>5, <1>7, <1>9, <1>11, <2>1 DEF Shown, Showing, Goals, Left
    <2>2. CASE ~on_goal
      BY <1>1, <1>2, <1>3, <1>4, <1>5, <1>7, <1>9, <1>11, <2>2 DEF Shown, Showing, Goals, Left
    <2>3. QED
      BY <1>1, <2>1, <2>2
  <1>19. QED
    BY <1>2, <1>10, <1>12, <1>13, <1>14, <1>15, <1>16, <1>17, <1>18 DEF next, next_next, drawn

\* The counter goes with the boxes that the push leaves off the goals, and
\* their number stays.
LEMMA PushCounts ==
    ASSUME IInv, NEW dir \in Dir, Push(dir)
    PROVE  /\ boxes_left' \in Nat
           /\ boxes_left' = Cardinality(Shown(PushDrawn(dir), {MY_SOK_BOX}))
           /\ Cardinality(Shown(PushDrawn(dir), BOXES)) = Cardinality(Showing(BOXES))
  <1> DEFINE next == Ahead(dir, square)
             next_next == Ahead(dir, next)
             off == Showing({MY_SOK_BOX})
             all == Showing(BOXES)
             drawnOff == Shown(PushDrawn(dir), {MY_SOK_BOX})
             drawnAll == Shown(PushDrawn(dir), BOXES)
  <1>1. /\ next \in all /\ next_next \notin all
        /\ drawnAll = (all \ {next}) \cup {next_next}
        /\ drawnOff = (off \ {next}) \cup
               (IF screen[next_next] = MY_SOK_GOAL THEN {} ELSE {next_next})
    BY PushDraws
  <1>2. off \subseteq all
    BY DEF Showing, BOXES
  <1>3. /\ IsFiniteSet(all) /\ IsFiniteSet(off)
        /\ IsFiniteSet(all \ {next}) /\ IsFiniteSet(off \ {next})
    BY SquaresAreFinite DEF Showing
  <1>4. Cardinality(all) \in Nat /\ Cardinality(off) \in Nat
    BY <1>3, FS_CardinalityType
  <1>5. boxes_left = Cardinality(off)
    BY DEF IInv, BoxesAreCounted, Push
  <1>6. /\ screen[next] \in {MY_SOK_BOX, MY_SOK_BOX_ON_GOAL}
        /\ screen[next_next] \in {ASCII_SPACE, MY_SOK_GOAL}
        /\ CountPush(screen[next], screen[next_next])
    BY DEF Push, Pushable, Movable
  <1>7. next \in off <=> screen[next] = MY_SOK_BOX
    BY <1>1 DEF Showing
  <1> HIDE DEF next, next_next, off, all, drawnOff, drawnAll
  <1>8. /\ Cardinality(all \ {next}) = Cardinality(all) - 1
        /\ Cardinality(off \ {next}) =
               IF next \in off THEN Cardinality(off) - 1 ELSE Cardinality(off)
    BY <1>1, <1>3, FS_RemoveElement
  <1>9. Cardinality(drawnAll) = Cardinality(all)
    <2>1. next_next \notin all \ {next}
      BY <1>1
    <2>2. Cardinality(drawnAll) = Cardinality(all \ {next}) + 1
      BY <1>1, <1>3, <2>1, FS_AddElement
    <2>3. QED
      BY <1>4, <1>8, <2>2
  <1>10. Cardinality(drawnOff) =
             IF screen[next_next] = MY_SOK_GOAL THEN Cardinality(off \ {next})
             ELSE Cardinality(off \ {next}) + 1
    <2>1. CASE screen[next_next] = MY_SOK_GOAL
      <3>1. drawnOff = off \ {next}
        BY <1>1, <2>1
      <3>2. QED
        BY <2>1, <3>1
    <2>2. CASE screen[next_next] # MY_SOK_GOAL
      <3>1. drawnOff = (off \ {next}) \cup {next_next} /\ next_next \notin off \ {next}
        BY <1>1, <1>2, <2>2
      <3>2. QED
        BY <1>3, <2>2, <3>1, FS_AddElement
    <2>3. QED
      BY <2>1, <2>2
  <1>11. boxes_left' = Cardinality(drawnOff)
    <2>1. MY_SOK_BOX # MY_SOK_BOX_ON_GOAL /\ MY_SOK_GOAL # ASCII_SPACE
      BY DEF MY_SOK_BOX, MY_SOK_BOX_ON_GOAL, MY_SOK_GOAL, ASCII_SPACE
    <2>2. CASE screen[next] = MY_SOK_BOX
      BY <1>4, <1>5, <1>6, <1>7, <1>8, <1>10, <2>1, <2>2 DEF CountPush
    <2>3. CASE screen[next] = MY_SOK_BOX_ON_GOAL
      BY <1>4, <1>5, <1>6, <1>7, <1>8, <1>10, <2>1, <2>3 DEF CountPush
    <2>4. QED
      BY <1>6, <2>2, <2>3
  <1>12. Cardinality(drawnOff) \in Nat
    <2>1. IsFiniteSet(drawnOff)
      BY SquaresAreFinite DEF drawnOff, Shown
    <2>2. QED
      BY <2>1, FS_CardinalityType
  <1>13. QED
    BY <1>9, <1>11, <1>12 DEF drawnOff, drawnAll, all

LEMMA PushIInv ==
    ASSUME IInv, NEW dir \in Dir, Push(dir)
    PROVE  IInv'
  <1> DEFINE next == Ahead(dir, square)
             drawn == PushDrawn(dir)
  <1>1. /\ phase = "running" /\ level' = level /\ square' = next
        /\ on_goal' = (screen[next] = MY_SOK_BOX_ON_GOAL)
        /\ EndOfMove(drawn)
    BY DEF Push, PushDrawn
  <1>2. next \in Square /\ drawn \in [Square -> Symbol]
    BY PushDraws DEF Showing
  <1>3. CASE boxes_left' = 0
    <2>1. screen' = clear_console /\ phase' = "summary"
      BY <1>1, <1>3 DEF EndOfMove
    <2>2. TypeOK'
      BY <1>1, <1>2, <1>3, <2>1 DEF IInv, TypeOK, clear_console, Symbol
    <2>3. QED
      BY <2>1, <2>2 DEF IInv, PlayerIsWhereItShows, FixedSquaresStay, BoxesAreCounted
  <1>4. CASE boxes_left' # 0
    <2>1. screen' = drawn /\ phase' = "running"
      BY <1>1, <1>4 DEF EndOfMove
    <2>2. \A symbols : Showing(symbols)' = Shown(drawn, symbols)
      BY <2>1 DEF Showing, Shown
    <2>3. TypeOK'
      BY <1>1, <1>2, <2>1, PushCounts DEF IInv, TypeOK
    <2>4. PlayerIsWhereItShows'
      BY <1>1, <2>2, PushDraws DEF PlayerIsWhereItShows
    <2>5. Goals' = Goals
      BY <1>1, <2>2, PushDraws DEF Goals, GOALS
    <2>6. Showing({MY_SOK_WALL})' = Showing({MY_SOK_WALL})
      BY <2>2, PushDraws
    <2>7. FixedSquaresStay'
      <3>1. Placed(level, SOK_GOAL)' = Placed(level, SOK_GOAL)
            /\ Placed(level, SOK_WALL)' = Placed(level, SOK_WALL)
        BY <1>1
      <3>2. QED
        BY <1>1, <2>5, <2>6, <3>1 DEF IInv, FixedSquaresStay
    <2>8. BoxesAreCounted'
      <3>1. Cardinality(With(level, SOK_ROCK))' = Cardinality(With(level, SOK_ROCK))
        BY <1>1
      <3>2. QED
        BY <1>1, <1>4, <2>2, <3>1, PushCounts DEF IInv, BoxesAreCounted, BOXES
    <2>9. QED
      BY <2>3, <2>4, <2>7, <2>8 DEF IInv
  <1>5. QED
    BY <1>3, <1>4

LEMMA NextIInv == IInv /\ [Next]_vars => IInv'
  <1> SUFFICES ASSUME IInv, [Next]_vars PROVE IInv'
    OBVIOUS
  <1>1. ASSUME NEW dir \in Dir, try_move(dir) PROVE IInv'
    BY <1>1, WalkIInv, PushIInv DEF try_move
  <1>2. ASSUME NEW lv \in Levels, Start(lv) PROVE IInv'
    BY <1>2, RestartIInv DEF Start
  <1>3. ASSUME Restart PROVE IInv'
    <2>1. level \in Levels
      BY DEF IInv, TypeOK
    <2>2. QED
      BY <1>3, <2>1, RestartIInv DEF Restart
  <1>4. ASSUME display_introduction PROVE IInv'
    <2>1. TypeOK' /\ phase' = "introduction"
      BY <1>4 DEF display_introduction, IInv, TypeOK, clear_console, Symbol
    <2>2. QED
      BY <2>1 DEF IInv, PlayerIsWhereItShows, FixedSquaresStay, BoxesAreCounted
  <1>5. ASSUME UNCHANGED vars PROVE IInv'
    BY <1>5 DEF vars, IInv, TypeOK, PlayerIsWhereItShows, FixedSquaresStay, BoxesAreCounted,
                Goals, Showing
  <1>6. QED
    BY <1>1, <1>2, <1>3, <1>4, <1>5 DEF Next

-----------------------------------------------------------------------------
(* The player stays on the console and the count of boxes a number.        *)
THEOREM TypeCorrect == Spec => []TypeOK
  <1>1. IInv => TypeOK
    BY DEF IInv
  <1>2. QED
    BY <1>1, InitIInv, NextIInv, PTL DEF Spec

(* The screen shows one player, where try_move believes it to be, on every *)
(* map.                                                                    *)
THEOREM OnePlayer == Spec => []PlayerIsWhereItShows
  <1>1. IInv => PlayerIsWhereItShows
    BY DEF IInv
  <1>2. QED
    BY <1>1, InitIInv, NextIInv, PTL DEF Spec

(* No goal and no wall of the map is lost or made up by any play, although *)
(* walking and pushing over a goal erase its symbol.                       *)
THEOREM NothingFixedMoves == Spec => []FixedSquaresStay
  <1>1. IInv => FixedSquaresStay
    BY DEF IInv
  <1>2. QED
    BY <1>1, InitIInv, NextIInv, PTL DEF Spec

(* The counter that ends the level is the number of boxes off the goals.   *)
THEOREM CountIsRight == Spec => []BoxesAreCounted
  <1>1. IInv => BoxesAreCounted
    BY DEF IInv
  <1>2. QED
    BY <1>1, InitIInv, NextIInv, PTL DEF Spec

-----------------------------------------------------------------------------
\* A walk is the rules' walk.
LEMMA WalkRefines ==
    ASSUME IInv, NEW dir \in Dir, Walk(dir)
    PROVE  Rules!Walk(dir)
  <1>1. Rules!Ahead(dir, square) = Ahead(dir, square)
    BY DEF Rules!Ahead, Ahead
  <1>2. phase = "running"
    BY DEF Walk
  <1>3. QED
    BY <1>1, <1>2, WalkDraws DEF Rules!Walk, BOXES

\* A push is the rules' push; it is the finishing one exactly if it leaves no
\* box off the goals, which is what the counter tells.
LEMMA PushRefines ==
    ASSUME IInv, NEW dir \in Dir, Push(dir)
    PROVE  Rules!Push(dir) \/ Rules!Finish(dir)
  <1> DEFINE next == Ahead(dir, square)
             next_next == Ahead(dir, next)
             drawn == PushDrawn(dir)
             pushed == (Showing(BOXES) \ {next}) \cup {next_next}
  <1>1. Rules!Ahead(dir, square) = next /\ Rules!Ahead(dir, next) = next_next
    BY DEF Rules!Ahead, Ahead
  <1>2. Rules!Pushed(dir) = pushed
    BY <1>1 DEF Rules!Pushed, BOXES
  <1>3. phase = "running" /\ square' = next /\ EndOfMove(drawn)
        /\ on_goal' = (screen[next] = MY_SOK_BOX_ON_GOAL)
    BY DEF Push, PushDrawn
  <1>4. Rules!CanPush(dir)
    BY <1>1, <1>3, PushDraws DEF Rules!CanPush, BOXES
  <1>5. pushed \subseteq Goals <=> boxes_left' = 0
    <2>1. IsFiniteSet(Shown(drawn, {MY_SOK_BOX}))
      BY SquaresAreFinite DEF Shown
    <2>2. boxes_left' = 0 <=> Shown(drawn, {MY_SOK_BOX}) = {}
      BY <2>1, PushCounts, FS_EmptySet
    <2>3. /\ pushed = Shown(drawn, BOXES)
          /\ Goals = Shown(drawn, GOALS) \cup
                         (IF screen[next] = MY_SOK_BOX_ON_GOAL THEN {next} ELSE {})
          /\ Shown(drawn, {MY_SOK_PLAYER}) = {next}
      BY PushDraws
    <2> HIDE DEF drawn, pushed, next
    <2>4. drawn[next] = MY_SOK_PLAYER
      BY <2>3 DEF Shown
    <2>5. \A sq \in Shown(drawn, BOXES) : sq \in Goals <=> drawn[sq] = MY_SOK_BOX_ON_GOAL
      BY <2>3, <2>4 DEF Shown, BOXES, GOALS, MY_SOK_BOX, MY_SOK_BOX_ON_GOAL,
                        MY_SOK_GOAL, MY_SOK_PLAYER
    <2>6. Shown(drawn, BOXES) \subseteq Goals <=> Shown(drawn, {MY_SOK_BOX}) = {}
      BY <2>5 DEF Shown, BOXES, MY_SOK_BOX, MY_SOK_BOX_ON_GOAL
    <2>7. QED
      BY <2>2, <2>3, <2>6
  <1>6. CASE boxes_left' = 0
    <2>1. phase' = "summary"
      BY <1>3, <1>6 DEF EndOfMove
    <2>2. Rules!Finish(dir)
      BY <1>2, <1>4, <1>5, <1>6, <2>1 DEF Rules!Finish
    <2>3. QED
      BY <2>2
  <1>7. CASE boxes_left' # 0
    <2>1. screen' = drawn /\ phase' = phase
      BY <1>3, <1>7 DEF EndOfMove
    <2>2. \A symbols : Showing(symbols)' = Shown(drawn, symbols)
      BY <2>1 DEF Showing, Shown
    <2>3. /\ Showing({MY_SOK_WALL})' = Showing({MY_SOK_WALL})
          /\ Showing(BOXES)' = pushed
          /\ Goals' = Goals
      BY <1>3, <2>2, PushDraws DEF Goals, GOALS
    <2>4. Rules!Push(dir)
      BY <1>1, <1>2, <1>3, <1>4, <1>5, <1>7, <2>1, <2>3 DEF Rules!Push, BOXES
    <2>5. QED
      BY <2>4
  <1>8. QED
    BY <1>6, <1>7

\* Drawing a level is setting up its layout, or giving up if it is invalid.
LEMMA RestartRefines ==
    ASSUME NEW lv \in Levels, restart_current_level(lv)
    PROVE  Rules!RNext
  <1>1. CASE ~Valid(lv)
    <2>1. Rules!GiveUp
      BY <1>1 DEF restart_current_level, Rules!GiveUp
    <2>2. QED
      BY <2>1 DEF Rules!RNext
  <1>2. CASE Valid(lv)
    <2>1. /\ screen' = LevelScreen(lv)
          /\ square' = StartSquare(lv)
          /\ on_goal' = FALSE
          /\ phase' = "running"
      BY <1>2 DEF restart_current_level
    <2>2. /\ Showing({MY_SOK_WALL})' = Placed(lv, SOK_WALL)
          /\ Showing(BOXES)' = Placed(lv, SOK_ROCK)
          /\ Goals' = Placed(lv, SOK_GOAL)
      BY <2>1, LevelShows DEF Showing, Shown, Goals, BOXES
    <2>3. Rules!SetUp(Layout(lv))
      BY <2>1, <2>2 DEF Rules!SetUp, Layout, BOXES
    <2>4. QED
      BY <1>2, <2>3 DEF Rules!RNext
  <1>3. QED
    BY <1>1, <1>2

\* Every step of the board is a step of the rules or changes nothing in them.
LEMMA StepRefines ==
    ASSUME IInv, [Next]_vars
    PROVE  [Rules!RNext]_(Rules!rvars)
  <1>1. ASSUME NEW dir \in Dir, try_move(dir) PROVE Rules!RNext
    <2>1. Rules!Walk(dir) \/ Rules!Push(dir) \/ Rules!Finish(dir)
      BY <1>1, WalkRefines, PushRefines DEF try_move
    <2>2. QED
      BY <2>1 DEF Rules!RNext, Dir
  <1>2. ASSUME NEW lv \in Levels, Start(lv) PROVE Rules!RNext
    BY <1>2, RestartRefines DEF Start
  <1>3. ASSUME Restart PROVE Rules!RNext
    <2>1. level \in Levels
      BY DEF IInv, TypeOK
    <2>2. QED
      BY <1>3, <2>1, RestartRefines DEF Restart
  <1>4. ASSUME display_introduction PROVE Rules!RNext
    BY <1>4 DEF display_introduction, Rules!RNext, Rules!GiveUp
  <1>5. ASSUME UNCHANGED vars PROVE UNCHANGED Rules!rvars
    BY <1>5 DEF vars, Rules!rvars, Goals, Showing
  <1>6. QED
    BY <1>1, <1>2, <1>3, <1>4, <1>5 DEF Next

(* Read as sets of squares, the screen plays by the rules of sokoban, on   *)
(* every map and every console.                                            *)
THEOREM Refinement == Spec => PlaysByTheRules
  <1>1. Init => Rules!RInit
    BY DEF Init, Rules!RInit
  <1>2. QED
    BY <1>1, InitIInv, NextIInv, StepRefines, PTL DEF Spec, PlaysByTheRules, Rules!RSpec
=============================================================================

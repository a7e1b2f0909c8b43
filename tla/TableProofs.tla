---------------------------- MODULE TableProofs ----------------------------
(***************************************************************************)
(* Proofs about two tables.  That of the highscores (Highscores), of any   *)
(* size, with scores of any width, after any number of games.  And that of *)
(* the numbers a sudoku's cells may still have (Semisolver), for every     *)
(* size of the boxes, every number of iterations, every set of grids and   *)
(* every set of fillings: no solution is lost because of two facts kept    *)
(* together, that the number a solution has in a blank cell is still       *)
(* possible there (Alive), and that the number of a cell that is not blank *)
(* is possible nowhere in its units (Clean).                               *)
(***************************************************************************)
EXTENDS Highscores, Semisolver, FiniteSetTheorems, TLAPS

-----------------------------------------------------------------------------
(* The highscores.                                                         *)

\* Better orders scores, with ties; every score but the default beats the
\* default.
LEMMA BetterIsAnOrder ==
    ASSUME NEW s \in Score, NEW t \in Score, NEW u \in Score
    PROVE  /\ ~Better(s, s)
           /\ Better(s, t) => ~Better(t, s)
           /\ Better(s, t) /\ ~Better(u, t) => Better(s, u)
           /\ ~Better(t, s) /\ Better(t, u) => Better(s, u)
  BY UintAssumption DEF Better, Score

LEMMA DefaultIsTheWorst ==
    /\ Default \in Score
    /\ \A s \in Score : ~Better(Default, s) /\ (Better(s, Default) \/ s = Default)
  BY UintAssumption DEF Better, Score, Default

-----------------------------------------------------------------------------
\* Where a new score can come to be entered, and what is below and above it.
LEMMA EntryCases ==
    ASSUME NEW table \in [Entry -> Score], NEW score \in Score, NEW i \in Entry,
           \A j, k \in Entry : j < k => ~Better(table[k], table[j])
    PROVE  \/ /\ ~Better(score, table[i])
              /\ Entered(table, score)[i] = table[i]
           \/ /\ Better(score, table[i])
              /\ i # 1 => i - 1 \in Entry /\ ~Better(score, table[i - 1])
              /\ Entered(table, score)[i] = score
           \/ /\ Better(score, table[i])
              /\ i - 1 \in Entry /\ Better(score, table[i - 1])
              /\ Entered(table, score)[i] = table[i - 1]
  <1> DEFINE Beaten == \E k \in 1 .. i - 1 : Better(score, table[k])
  <1>1. i \in Nat /\ 1 <= i /\ i <= NUM_HIGHSCORES /\ NUM_HIGHSCORES \in Nat
    BY NumHighscoresAssumption DEF Entry
  <1>2. \A k \in 1 .. i - 1 : k \in Entry /\ k < i
    BY <1>1 DEF Entry
  <1>3. i # 1 => i - 1 \in Entry /\ i - 1 \in 1 .. i - 1
    BY <1>1 DEF Entry
  <1>4. ASSUME NEW j \in Entry, NEW k \in Entry, j < k, Better(score, table[j])
        PROVE  Better(score, table[k])
    BY <1>4, BetterIsAnOrder
  <1>5. Entered(table, score)[i] =
            CASE Beaten -> table[i - 1]
              [] Better(score, table[i]) /\ ~Beaten -> score
              [] OTHER -> table[i]
    BY DEF Entered
  <1>6. CASE Beaten
    <2>1. PICK k \in 1 .. i - 1 : Better(score, table[k])
      BY <1>6
    <2>2. k \in Entry /\ i # 1 /\ i - 1 \in Entry /\ (k < i - 1 \/ k = i - 1)
      BY <1>1, <1>2, <1>3
    <2>3. Better(score, table[i - 1]) /\ Better(score, table[i])
      BY <1>2, <1>4, <2>1, <2>2
    <2>4. QED
      BY <1>5, <1>6, <2>2, <2>3
  <1>7. CASE ~Beaten /\ Better(score, table[i])
    BY <1>3, <1>5, <1>7
  <1>8. CASE ~Beaten /\ ~Better(score, table[i])
    BY <1>5, <1>8
  <1>9. QED
    BY <1>6, <1>7, <1>8

\* Entering a score leaves the table in order.
LEMMA EnteredIsSorted ==
    ASSUME NEW table \in [Entry -> Score], NEW score \in Score,
           \A j, k \in Entry : j < k => ~Better(table[k], table[j])
    PROVE  /\ Entered(table, score) \in [Entry -> Score]
           /\ \A j, k \in Entry : j < k =>
                  ~Better(Entered(table, score)[k], Entered(table, score)[j])
  <1> DEFINE new == Entered(table, score)
  <1>1. \A i \in Entry : new[i] \in Score
    BY EntryCases
  <1>2. new \in [Entry -> Score]
    BY <1>1 DEF Entered
  <1>3. ASSUME NEW j \in Entry, NEW k \in Entry, j < k
        PROVE  ~Better(new[k], new[j])
    <2>1. j \in Int /\ k \in Int
      BY NumHighscoresAssumption DEF Entry
    <2>2. ~Better(table[k], table[j])
      BY <1>3
    <2>3. k - 1 \in Entry => j < k - 1 \/ j = k - 1
      BY <1>3, <2>1
    <2>4. k - 1 \in Entry => ~Better(table[k - 1], table[j])
      BY <2>3, BetterIsAnOrder
    <2>5. j - 1 \in Entry => ~Better(table[k], table[j - 1]) /\ j - 1 < k
      BY <1>3, <2>1
    <2>6. j - 1 \in Entry /\ k - 1 \in Entry => ~Better(table[k - 1], table[j - 1])
      BY <1>3, <2>1
    <2>7. k # 1
      BY <1>3, NumHighscoresAssumption DEF Entry
    <2> HIDE DEF new
    <2>8. \/ ~Better(score, table[j]) /\ new[j] = table[j]
          \/ Better(score, table[j]) /\ new[j] = score
          \/ j - 1 \in Entry /\ Better(score, table[j - 1]) /\ new[j] = table[j - 1]
                             /\ Better(score, table[j])
      BY EntryCases DEF new
    <2>9. \/ ~Better(score, table[k]) /\ new[k] = table[k]
          \/ /\ Better(score, table[k]) /\ new[k] = score
             /\ k - 1 \in Entry /\ ~Better(score, table[k - 1])
          \/ k - 1 \in Entry /\ Better(score, table[k - 1]) /\ new[k] = table[k - 1]
      BY <2>7, EntryCases DEF new
    <2>10. CASE new[k] = table[k] /\ ~Better(score, table[k])
      BY <2>2, <2>5, <2>8, <2>10, BetterIsAnOrder
    <2>11. CASE new[k] = score /\ k - 1 \in Entry /\ ~Better(score, table[k - 1])
      <3>1. ~Better(score, table[j])
        BY <2>3, <2>4, <2>11, BetterIsAnOrder
      <3>2. QED
        BY <2>8, <2>11, <3>1
    <2>12. CASE k - 1 \in Entry /\ Better(score, table[k - 1]) /\ new[k] = table[k - 1]
      BY <2>4, <2>6, <2>8, <2>12, BetterIsAnOrder
    <2>13. QED
      BY <2>9, <2>10, <2>11, <2>12
  <1>4. QED
    BY <1>2, <1>3

-----------------------------------------------------------------------------
\* The games that beat a score, and those it does not beat.
Beats(games, s) == {g \in 1 .. Len(games) : Better(games[g], s)}
NotBeaten(games, s) == {g \in 1 .. Len(games) : ~Better(s, games[g])}

\* What one more game does to them.
LEMMA OneMoreGame ==
    ASSUME NEW games \in Seq(Score), NEW score \in Score, NEW s \in Score
    PROVE  LET n == Len(games)
               more == Append(games, score)
           IN /\ n \in Nat /\ Len(more) = n + 1
              /\ \A g \in 1 .. n : more[g] = games[g]
              /\ more[n + 1] = score
              /\ IsFiniteSet(Beats(games, s)) /\ IsFiniteSet(NotBeaten(games, s))
              /\ Cardinality(Beats(games, s)) \in 0 .. n
              /\ Cardinality(NotBeaten(games, s)) \in Nat
              /\ Cardinality(Beats(more, s)) =
                     Cardinality(Beats(games, s)) + (IF Better(score, s) THEN 1 ELSE 0)
              /\ Cardinality(NotBeaten(more, s)) =
                     Cardinality(NotBeaten(games, s)) + (IF Better(s, score) THEN 0 ELSE 1)
  <1> DEFINE n == Len(games)
             more == Append(games, score)
  <1>1. /\ n \in Nat /\ Len(more) = n + 1
        /\ \A g \in 1 .. n : more[g] = games[g]
        /\ more[n + 1] = score
    OBVIOUS
  <1> HIDE DEF more, n
  <1>2. IsFiniteSet(1 .. n) /\ Cardinality(1 .. n) = n
    BY <1>1, FS_Interval
  <1>3. ASSUME NEW A, A \subseteq 1 .. n
        PROVE  /\ IsFiniteSet(A) /\ Cardinality(A) \in Nat /\ Cardinality(A) <= n
               /\ Cardinality(A \cup {n + 1}) = Cardinality(A) + 1
    <2>1. IsFiniteSet(A) /\ Cardinality(A) <= n
      BY <1>2, <1>3, FS_Subset
    <2>2. n + 1 \notin A
      BY <1>1, <1>3
    <2>3. QED
      BY <2>1, <2>2, FS_CardinalityType, FS_AddElement
  <1>4. Beats(games, s) \subseteq 1 .. n /\ NotBeaten(games, s) \subseteq 1 .. n
    BY DEF Beats, NotBeaten, n
  <1>5. \A g : g \in 1 .. n + 1 <=> g \in 1 .. n \/ g = n + 1
    BY <1>1
  <1>6. Beats(more, s) = Beats(games, s) \cup (IF Better(score, s) THEN {n + 1} ELSE {})
    <2>1. \A g : g \in Beats(more, s) <=> g \in 1 .. n + 1 /\ Better(more[g], s)
      BY <1>1 DEF Beats
    <2>2. \A g : g \in Beats(games, s) <=> g \in 1 .. n /\ Better(more[g], s)
      BY <1>1 DEF Beats, n
    <2>3. QED
      BY <1>1, <1>5, <2>1, <2>2
  <1>7. NotBeaten(more, s) = NotBeaten(games, s) \cup (IF Better(s, score) THEN {} ELSE {n + 1})
    <2>1. \A g : g \in NotBeaten(more, s) <=> g \in 1 .. n + 1 /\ ~Better(s, more[g])
      BY <1>1 DEF NotBeaten
    <2>2. \A g : g \in NotBeaten(games, s) <=> g \in 1 .. n /\ ~Better(s, more[g])
      BY <1>1 DEF NotBeaten, n
    <2>3. QED
      BY <1>1, <1>5, <2>1, <2>2
  <1>8. /\ IsFiniteSet(Beats(games, s)) /\ IsFiniteSet(NotBeaten(games, s))
        /\ Cardinality(Beats(games, s)) \in 0 .. n
        /\ Cardinality(NotBeaten(games, s)) \in Nat
    <2>1. /\ IsFiniteSet(Beats(games, s)) /\ Cardinality(Beats(games, s)) \in Nat
          /\ Cardinality(Beats(games, s)) <= n
      BY <1>3, <1>4
    <2>2. IsFiniteSet(NotBeaten(games, s)) /\ Cardinality(NotBeaten(games, s)) \in Nat
      BY <1>3, <1>4
    <2>3. QED
      BY <1>1, <2>1, <2>2
  <1>9. Cardinality(Beats(more, s)) =
            Cardinality(Beats(games, s)) + (IF Better(score, s) THEN 1 ELSE 0)
    <2>1. CASE Better(score, s)
      BY <1>3, <1>4, <1>6, <2>1
    <2>2. CASE ~Better(score, s)
      <3>1. Beats(more, s) = Beats(games, s)
        BY <1>6, <2>2
      <3>2. QED
        BY <1>8, <2>2, <3>1
    <2>3. QED
      BY <2>1, <2>2
  <1>10. Cardinality(NotBeaten(more, s)) =
             Cardinality(NotBeaten(games, s)) + (IF Better(s, score) THEN 0 ELSE 1)
    <2>1. CASE ~Better(s, score)
      BY <1>3, <1>4, <1>7, <2>1
    <2>2. CASE Better(s, score)
      <3>1. NotBeaten(more, s) = NotBeaten(games, s)
        BY <1>7, <2>2
      <3>2. QED
        BY <1>8, <2>2, <3>1
    <2>3. QED
      BY <2>1, <2>2
  <1>11. QED
    BY <1>1, <1>8, <1>9, <1>10 DEF more, n

\* What entry i has to be after the games.
IsTheBest(i, entry, games) ==
    IF i > Len(games)
    THEN entry = Default
    ELSE /\ Cardinality(Beats(games, entry)) < i
         /\ Cardinality(NotBeaten(games, entry)) >= i
         /\ \E g \in 1 .. Len(games) : games[g] = entry

IInv == TypeOK /\ Sorted /\ \A i \in Entry : IsTheBest(i, highscores[i], finished)

LEMMA InitIInv == Init => IInv
  <1> SUFFICES ASSUME Init PROVE IInv
    OBVIOUS
  <1>1. highscores = [i \in Entry |-> Default] /\ finished = <<>>
    BY DEF Init, sokoban_initialize
  <1>2. TypeOK
    BY <1>1, DefaultIsTheWorst DEF TypeOK
  <1>3. Sorted
    BY <1>1, DefaultIsTheWorst DEF Sorted
  <1>4. \A i \in Entry : IsTheBest(i, highscores[i], finished)
    BY <1>1, NumHighscoresAssumption DEF IsTheBest, Entry
  <1>5. QED
    BY <1>2, <1>3, <1>4 DEF IInv

\* A game that ends keeps the invariant: above the new entry nothing changes,
\* the new entry has been beaten by fewer games than the one it replaces, and
\* each entry below has one more game before it.
LEMMA FinishIInv ==
    ASSUME IInv, NEW score \in Score, FinishGame(score)
    PROVE  IInv'
  <1> DEFINE n == Len(finished)
             more == Append(finished, score)
  <1>1. /\ highscores \in [Entry -> Score] /\ finished \in Seq(Score)
        /\ \A j, k \in Entry : j < k => ~Better(highscores[k], highscores[j])
        /\ \A i \in Entry : IsTheBest(i, highscores[i], finished)
    BY DEF IInv, TypeOK, Sorted
  <1>2. highscores' = Entered(highscores, score) /\ finished' = more
    BY DEF FinishGame
  <1>3. TypeOK'
    BY <1>1, <1>2, EnteredIsSorted DEF TypeOK
  <1>4. Sorted'
    BY <1>1, <1>2, EnteredIsSorted DEF Sorted
  <1>5. ASSUME NEW i \in Entry
        PROVE  IsTheBest(i, highscores'[i], more)
    <2> HIDE DEF more, n
    <2>1. /\ n \in Nat /\ Len(more) = n + 1
          /\ \A g \in 1 .. n : more[g] = finished[g]
          /\ more[n + 1] = score
      BY <1>1, OneMoreGame DEF more, n
    <2>2. i \in Nat /\ 1 <= i
      BY NumHighscoresAssumption DEF Entry
    <2>3. \A g \in 1 .. n : g \in 1 .. n + 1
      BY <2>1
    <2>4. ASSUME NEW s \in Score
          PROVE  /\ IsFiniteSet(Beats(finished, s)) /\ IsFiniteSet(NotBeaten(finished, s))
                 /\ Cardinality(Beats(finished, s)) \in 0 .. n
                 /\ Cardinality(NotBeaten(finished, s)) \in Nat
                 /\ Cardinality(Beats(more, s)) =
                        Cardinality(Beats(finished, s)) + (IF Better(score, s) THEN 1 ELSE 0)
                 /\ Cardinality(NotBeaten(more, s)) =
                        Cardinality(NotBeaten(finished, s)) + (IF Better(s, score) THEN 0 ELSE 1)
      BY <1>1, OneMoreGame DEF more, n
    <2>5. ASSUME NEW j \in Entry
          PROVE  IF j > n THEN highscores[j] = Default
                 ELSE /\ Cardinality(Beats(finished, highscores[j])) < j
                      /\ Cardinality(NotBeaten(finished, highscores[j])) >= j
                      /\ \E g \in 1 .. n : finished[g] = highscores[j]
      BY <1>1 DEF IsTheBest, n
    <2>6. CASE ~Better(score, highscores[i]) /\ highscores'[i] = highscores[i]
      <3>1. CASE i > n + 1
        BY <2>1, <2>2, <2>5, <2>6, <3>1 DEF IsTheBest
      <3>2. CASE i = n + 1
        <4>1. highscores[i] = Default /\ score = Default
          BY <1>1, <2>1, <2>5, <2>6, <3>2, DefaultIsTheWorst
        <4>2. NotBeaten(more, Default) = 1 .. n + 1
          <5>1. \A g \in 1 .. n + 1 : more[g] \in Score
            BY <1>1, <2>1 DEF more
          <5>2. QED
            BY <2>1, <5>1, DefaultIsTheWorst DEF NotBeaten
        <4>3. Cardinality(1 .. n + 1) = n + 1
          BY <2>1, FS_Interval
        <4>4. Cardinality(Beats(more, Default)) < i
          BY <2>1, <2>4, <3>2, <4>1, DefaultIsTheWorst
        <4>5. \E g \in 1 .. n + 1 : more[g] = Default
          BY <2>1, <4>1
        <4>6. QED
          BY <2>1, <2>6, <3>2, <4>1, <4>2, <4>3, <4>4, <4>5 DEF IsTheBest
      <3>3. CASE i <= n
        <4>1. /\ Cardinality(Beats(finished, highscores[i])) < i
              /\ Cardinality(NotBeaten(finished, highscores[i])) >= i
              /\ \E g \in 1 .. n + 1 : more[g] = highscores[i]
          BY <2>1, <2>2, <2>3, <2>5, <3>3
        <4>2. /\ Cardinality(Beats(more, highscores[i])) < i
              /\ Cardinality(NotBeaten(more, highscores[i])) >= i
          <5>1. highscores[i] \in Score
            BY <1>1
          <5>2. /\ Cardinality(Beats(finished, highscores[i])) \in Nat
                /\ Cardinality(NotBeaten(finished, highscores[i])) \in Nat
            BY <2>1, <2>4, <5>1
          <5>3. Cardinality(Beats(more, highscores[i])) =
                    Cardinality(Beats(finished, highscores[i]))
            BY <2>1, <2>4, <2>6, <5>1, <5>2
          <5>4. \/ Cardinality(NotBeaten(more, highscores[i])) =
                       Cardinality(NotBeaten(finished, highscores[i])) + 0
                \/ Cardinality(NotBeaten(more, highscores[i])) =
                       Cardinality(NotBeaten(finished, highscores[i])) + 1
            BY <2>4, <5>1
          <5>5. QED
            BY <2>2, <4>1, <5>2, <5>3, <5>4
        <4>3. QED
          BY <2>1, <2>2, <2>6, <3>3, <4>1, <4>2 DEF IsTheBest
      <3>4. QED
        BY <2>1, <2>2, <3>1, <3>2, <3>3
    <2>7. CASE /\ Better(score, highscores[i])
               /\ i # 1 => i - 1 \in Entry /\ ~Better(score, highscores[i - 1])
               /\ highscores'[i] = score
      <3>1. i <= n + 1
        <4>1. SUFFICES ASSUME i > n + 1 PROVE FALSE
          BY <2>1, <2>2
        <4>2. i # 1 /\ i - 1 \in Entry /\ i - 1 > n /\ i > n
          BY <2>1, <2>2, <2>7, <4>1
        <4>3. highscores[i] = Default /\ highscores[i - 1] = Default
          BY <2>5, <4>2
        <4>4. QED
          BY <2>2, <2>7, <4>2, <4>3
      <3>2. Cardinality(Beats(more, score)) < i
        <4>1. Cardinality(Beats(more, score)) = Cardinality(Beats(finished, score))
          BY <2>4, BetterIsAnOrder
        <4>2. CASE i = n + 1
          BY <2>1, <2>4, <4>1, <4>2
        <4>3. CASE i <= n
          <5>1. Beats(finished, score) \subseteq Beats(finished, highscores[i])
            BY <1>1, <2>7, BetterIsAnOrder DEF Beats
          <5>2. IsFiniteSet(Beats(finished, highscores[i]))
            BY <1>1, <2>4
          <5>3. Cardinality(Beats(finished, score)) <= Cardinality(Beats(finished, highscores[i]))
            BY <5>1, <5>2, FS_Subset
          <5>4. Cardinality(Beats(finished, highscores[i])) < i
            BY <2>1, <2>2, <2>5, <4>3
          <5>5. QED
            BY <1>1, <2>1, <2>2, <2>4, <4>1, <5>3, <5>4
        <4>4. QED
          BY <2>1, <2>2, <3>1, <4>2, <4>3
      <3>3. Cardinality(NotBeaten(more, score)) >= i
        <4>1. Cardinality(NotBeaten(more, score)) = Cardinality(NotBeaten(finished, score)) + 1
          BY <2>4, BetterIsAnOrder
        <4>2. CASE i = 1
          BY <2>4, <4>1, <4>2
        <4>3. CASE i # 1
          <5>1. i - 1 \in Entry /\ ~Better(score, highscores[i - 1]) /\ ~(i - 1 > n)
            BY <2>1, <2>2, <2>7, <3>1, <4>3
          <5>2. NotBeaten(finished, highscores[i - 1]) \subseteq NotBeaten(finished, score)
            BY <1>1, <5>1, BetterIsAnOrder DEF NotBeaten
          <5>3. IsFiniteSet(NotBeaten(finished, score))
            BY <2>4
          <5>4. Cardinality(NotBeaten(finished, highscores[i - 1]))
                    <= Cardinality(NotBeaten(finished, score))
            BY <5>2, <5>3, FS_Subset
          <5>5. Cardinality(NotBeaten(finished, highscores[i - 1])) >= i - 1
            BY <2>5, <5>1
          <5>6. QED
            BY <1>1, <2>2, <2>4, <4>1, <5>1, <5>4, <5>5
        <4>4. QED
          BY <4>2, <4>3
      <3>4. \E g \in 1 .. n + 1 : more[g] = score
        BY <2>1
      <3>5. QED
        BY <2>1, <2>2, <2>7, <3>1, <3>2, <3>3, <3>4 DEF IsTheBest
    <2>8. CASE /\ Better(score, highscores[i])
               /\ i - 1 \in Entry /\ Better(score, highscores[i - 1])
               /\ highscores'[i] = highscores[i - 1]
      <3>1. ~Better(highscores[i - 1], score)
        BY <1>1, <2>8, BetterIsAnOrder
      <3>2. CASE i > n + 1
        <4>1. i - 1 > n
          BY <2>1, <2>2, <3>2
        <4>2. QED
          BY <2>1, <2>5, <2>8, <3>2, <4>1 DEF IsTheBest
      <3>3. CASE i <= n + 1
        <4>1. ~(i - 1 > n)
          BY <2>1, <2>2, <3>3
        <4>2. /\ Cardinality(Beats(finished, highscores[i - 1])) < i - 1
              /\ Cardinality(NotBeaten(finished, highscores[i - 1])) >= i - 1
              /\ \E g \in 1 .. n + 1 : more[g] = highscores[i - 1]
          BY <2>1, <2>3, <2>5, <2>8, <4>1
        <4>3. /\ Cardinality(Beats(more, highscores[i - 1])) < i
              /\ Cardinality(NotBeaten(more, highscores[i - 1])) >= i
          BY <1>1, <2>1, <2>2, <2>4, <2>8, <3>1, <4>2
        <4>4. QED
          BY <2>1, <2>2, <2>8, <3>3, <4>2, <4>3 DEF IsTheBest
      <3>4. QED
        BY <2>1, <2>2, <3>2, <3>3
    <2>9. QED
      BY <1>1, <1>2, <2>6, <2>7, <2>8, EntryCases
  <1>6. QED
    BY <1>2, <1>3, <1>4, <1>5 DEF IInv

LEMMA NextIInv == IInv /\ [Next]_vars => IInv'
  <1>1. ASSUME IInv, NEW score \in Score, FinishGame(score) PROVE IInv'
    BY <1>1, FinishIInv
  <1>2. ASSUME IInv, UNCHANGED vars PROVE IInv'
    BY <1>2 DEF vars, IInv, TypeOK, Sorted
  <1>3. QED
    BY <1>1, <1>2 DEF Next

-----------------------------------------------------------------------------
(* The entries stay scores.                                                *)
THEOREM TypeCorrect == Spec => []TypeOK
  <1>1. IInv => TypeOK
    BY DEF IInv
  <1>2. QED
    BY <1>1, InitIInv, NextIInv, PTL DEF Spec

(* No entry of the table is beaten by a later one, for tables of any size. *)
THEOREM TableIsSorted == Spec => []Sorted
  <1>1. IInv => Sorted
    BY DEF IInv
  <1>2. QED
    BY <1>1, InitIInv, NextIInv, PTL DEF Spec

(* The table holds the best games of all that were ever finished.          *)
THEOREM TheBestAreHeld == Spec => []HoldsTheBest
  <1>1. IInv => HoldsTheBest
    BY DEF IInv, IsTheBest, Beats, NotBeaten, HoldsTheBest
  <1>2. QED
    BY <1>1, InitIInv, NextIInv, PTL DEF Spec

-----------------------------------------------------------------------------
(* The sudoku solver.                                                      *)

\* What is needed of the three units of a cell: each is a set of cells with
\* the cell in it, and is a unit of every other cell in it.
LEMMA UnitsOfACell ==
    ASSUME NEW c \in Cell, NEW unit \in Units(c)
    PROVE  /\ c \in unit
           /\ unit \subseteq Cell
           /\ \A d \in unit : unit \in Units(d)
  <1>1. CASE unit = RowOf(c)
    BY <1>1 DEF Units, RowOf
  <1>2. CASE unit = ColOf(c)
    BY <1>2 DEF Units, ColOf
  <1>3. CASE unit = SquareOf(c)
    BY <1>3 DEF Units, SquareOf
  <1>4. QED
    BY <1>1, <1>2, <1>3 DEF Units

-----------------------------------------------------------------------------
\* The solution f agrees with the grid s, and is possible in its blanks.
Alive(f, s, p) ==
    \A c \in Cell : IF s[c] = 0 THEN <<c, f[c]>> \in p ELSE f[c] = s[c]

\* The numbers of the grid s are possible in no other place of their units.
Clean(s, p) == \A c \in Cell : s[c] # 0 => Settled(c, s[c]) \cap p = {}

\* A number that is still possible somewhere in a unit is possible where the
\* solution has it.
LEMMA Home ==
    ASSUME NEW f, IsProper(f), NEW s, NEW p, Alive(f, s, p), Clean(s, p),
           NEW c \in Cell, NEW n \in Num, NEW unit \in Units(c),
           NEW e \in unit, <<e, n>> \in p
    PROVE  \E d \in unit : f[d] = n /\ <<d, n>> \in p
  <1>1. PICK d \in unit : f[d] = n
    BY DEF IsProper
  <1>2. d \in Cell /\ unit \in Units(d)
    BY UnitsOfACell
  <1>3. CASE s[d] = 0
    BY <1>1, <1>2, <1>3 DEF Alive
  <1>4. CASE s[d] # 0
    <2>1. s[d] = n
      BY <1>1, <1>2, <1>4 DEF Alive
    <2>2. <<e, n>> \in Settled(d, n)
      BY <1>2 DEF Settled
    <2>3. QED
      BY <1>2, <1>4, <2>1, <2>2 DEF Clean
  <1>5. QED
    BY <1>3, <1>4

\* What is ruled out outside one unit but inside another one is not where
\* the solution has the number.
LEMMA OutsideIsWrong ==
    ASSUME NEW f, IsProper(f), NEW s, NEW p, Alive(f, s, p), Clean(s, p),
           NEW c \in Cell, NEW n \in Num, <<c, n>> \in p,
           NEW unit \in Units(c), NEW other \in Units(c),
           NEW e \in Outside(p, unit, other, n)
    PROVE  f[e] # n
  <1>1. Possible(p, unit, n) \subseteq other /\ e \in other /\ e \notin unit
    BY DEF Outside
  <1>2. c \in unit
    BY UnitsOfACell
  <1>3. PICK d \in unit : f[d] = n /\ <<d, n>> \in p
    BY <1>2, Home
  <1>4. d \in other
    BY <1>1, <1>3 DEF Possible
  <1>5. e \in Cell /\ other \in Units(e)
    BY <1>1, UnitsOfACell
  <1>6. f[d] = f[e] => d = e
    BY <1>4, <1>5 DEF IsProper
  <1>7. QED
    BY <1>1, <1>3, <1>6

\* eliminate leaves the solution possible, and brings nothing back.
LEMMA EliminateKeeps ==
    ASSUME NEW f, IsProper(f), NEW s, NEW p, Alive(f, s, p), Clean(s, p),
           NEW c \in Cell, NEW n \in Num, <<c, n>> \in p
    PROVE  Alive(f, s, eliminate(p, c, n))
  <1>1. SUFFICES ASSUME NEW e \in Cell, s[e] = 0
                 PROVE  <<e, f[e]>> \in eliminate(p, c, n)
    BY DEF Alive
  <1>2. <<e, f[e]>> \in p
    BY <1>1 DEF Alive
  <1>3. ASSUME NEW unit \in {RowOf(c), ColOf(c)},
               e \in Outside(p, unit, SquareOf(c), n) \cup Outside(p, SquareOf(c), unit, n)
        PROVE  f[e] # n
    <2>1. unit \in Units(c) /\ SquareOf(c) \in Units(c)
      BY DEF Units
    <2>2. QED
      BY <1>3, <2>1, OutsideIsWrong
  <1>4. QED
    BY <1>2, <1>3 DEF eliminate

\* A number can_place allows at a blank is the solution's.
LEMMA PlacesTheSolution ==
    ASSUME NEW f, IsProper(f), NEW s, NEW p, Alive(f, s, p), Clean(s, p),
           NEW c \in Cell, f[c] \in Num, NEW n \in Num, <<c, n>> \in p, s[c] = 0,
           can_place(p, c, n)
    PROVE  f[c] = n
  <1>1. CASE \A k \in Num : <<c, k>> \in p => k = n
    BY <1>1 DEF Alive
  <1>2. ASSUME NEW unit \in Units(c), Possible(p, unit, n) \subseteq {c}
        PROVE  f[c] = n
    <2>1. c \in unit
      BY UnitsOfACell
    <2>2. PICK d \in unit : f[d] = n /\ <<d, n>> \in p
      BY <2>1, Home
    <2>3. QED
      BY <1>2, <2>2 DEF Possible
  <1>3. QED
    BY <1>1, <1>2 DEF can_place

\* Placing it leaves the solution alive.
LEMMA SettlingKeepsAlive ==
    ASSUME NEW f, IsProper(f), NEW s \in [Cell -> {0} \cup Num], NEW p, Alive(f, s, p),
           NEW c \in Cell, NEW n \in Num, f[c] = n
    PROVE  Alive(f, [s EXCEPT ![c] = n], p \ Settled(c, n))
  <1>1. n # 0
    BY BoxSizeAssumption DEF Num
  <1>2. SUFFICES ASSUME NEW e \in Cell, e # c, s[e] = 0
                 PROVE  <<e, f[e]>> \notin Settled(c, n)
    BY <1>1 DEF Alive
  <1>3. ASSUME NEW unit \in Units(c), e \in unit, f[e] = n
        PROVE  FALSE
    BY <1>2, <1>3 DEF IsProper
  <1>4. QED
    BY <1>2, <1>3 DEF Settled

\* And the new number is possible nowhere else in its units.
LEMMA SettlingKeepsClean ==
    ASSUME NEW s \in [Cell -> {0} \cup Num], NEW p, Clean(s, p), NEW c \in Cell, NEW n \in Num
    PROVE  Clean([s EXCEPT ![c] = n], p \ Settled(c, n))
  BY DEF Clean

-----------------------------------------------------------------------------
\* The order in which solve_known's loops come to the cells.
Before(c, d) == c[1] < d[1] \/ (c[1] = d[1] /\ c[2] < d[2])

LEMMA GridSize == SU_GRID_SIZE \in Nat \ {0}
  BY BoxSizeAssumption DEF SU_GRID_SIZE

\* The loops stay in the grid, come to every cell, and start again only
\* after the last one.
LEMMA NextCellFollows ==
    ASSUME cell \in Cell
    PROVE  /\ NextCell \in Cell
           /\ LastCell => \A c \in Cell : c = cell \/ Before(c, cell)
           /\ ~LastCell => /\ NextCell # <<0, 0>>
                           /\ \A c \in Cell : Before(c, NextCell) => c = cell \/ Before(c, cell)
  <1>1. PICK i \in Index, j \in Index : cell = <<i, j>>
    BY DEF Cell
  <1>2. \A c \in Cell : c[1] \in Index /\ c[2] \in Index /\ c = <<c[1], c[2]>>
    BY DEF Cell
  <1>3. CASE j < SU_GRID_SIZE - 1
    <2>1. NextCell = <<i, j + 1>> /\ ~LastCell
      BY <1>1, <1>3, GridSize DEF NextCell, LastCell, Index
    <2>2. NextCell \in Cell
      BY <1>3, <2>1, GridSize DEF Cell, Index
    <2>3. ASSUME NEW c \in Cell, Before(c, NextCell)
          PROVE  c = cell \/ Before(c, cell)
      BY <1>1, <1>2, <2>1, <2>3 DEF Before, Index
    <2>4. QED
      BY <2>1, <2>2, <2>3 DEF Index
  <1>4. CASE j = SU_GRID_SIZE - 1 /\ i < SU_GRID_SIZE - 1
    <2>1. (i + 1) % SU_GRID_SIZE = i + 1
      BY <1>4, GridSize DEF Index
    <2>2. NextCell = <<i + 1, 0>> /\ ~LastCell
      BY <1>1, <1>4, <2>1, GridSize DEF NextCell, LastCell, Index
    <2>3. NextCell \in Cell
      BY <1>4, <2>2, GridSize DEF Cell, Index
    <2>4. ASSUME NEW c \in Cell, Before(c, NextCell)
          PROVE  c = cell \/ Before(c, cell)
      BY <1>1, <1>2, <1>4, <2>2, <2>4, GridSize DEF Before, Index
    <2>5. QED
      BY <2>2, <2>3, <2>4 DEF Index
  <1>5. CASE j = SU_GRID_SIZE - 1 /\ i = SU_GRID_SIZE - 1
    <2>1. (i + 1) % SU_GRID_SIZE = 0
      BY <1>5, GridSize
    <2>2. NextCell = <<0, 0>> /\ LastCell
      BY <1>1, <1>5, <2>1, GridSize DEF NextCell, LastCell, Index
    <2>3. NextCell \in Cell
      BY <2>2, GridSize DEF Cell, Index
    <2>4. ASSUME NEW c \in Cell
          PROVE  c = cell \/ Before(c, cell)
      BY <1>1, <1>2, <1>5, GridSize DEF Before, Index
    <2>5. QED
      BY <2>2, <2>3, <2>4
  <1>6. QED
    BY <1>3, <1>4, <1>5, GridSize DEF Index

-----------------------------------------------------------------------------
\* The types of the variables.
TypeInv ==
    /\ given \in [Cell -> {0} \cup Num]
    /\ sudoku \in [Cell -> {0} \cup Num]
    /\ needed \subseteq Cell \X Num
    /\ cell \in Cell
    /\ num \in Num
    /\ done \in BOOLEAN
    /\ rounds \in Nat

NothingLost ==
    /\ Clean(sudoku, needed)
    /\ \A f \in Fillings : Solves(f, given) => Alive(f, sudoku, needed)

\* While done is still set, no cell the loops have come to in this round of
\* them is blank.
NoBlankMet ==
    done => \A c \in Cell : num > 1 \/ cell = <<0, 0>> \/ Before(c, cell) => sudoku[c] # 0

\* What was given stays, and the solver itself breaks no rule.
NothingBroken == Completes(sudoku, given) /\ (NoRepeats(given) => NoRepeats(sudoku))

ssInv == TypeInv /\ NothingLost /\ NoBlankMet /\ NothingBroken

-----------------------------------------------------------------------------
\* semisolve's first loops establish the invariant: a solution's number in a
\* blank cell is not one that a clue has in a unit of the cell.
LEMMA ssInvInit == semisolve => ssInv
  <1> SUFFICES ASSUME semisolve PROVE ssInv
    OBVIOUS
  <1> DEFINE Clues == {d \in Cell : given[d] # 0}
  <1>1. given \in [Cell -> {0} \cup Num] /\ sudoku = given
    BY GridsAssumption DEF semisolve
  <1>2. needed = (Cell \X Num) \ UNION {Settled(c, given[c]) : c \in Clues}
    BY DEF semisolve
  <1>3. TypeInv
    <2>1. <<0, 0>> \in Cell /\ 1 \in Num
      BY GridSize DEF Cell, Index, Num
    <2>2. QED
      BY <1>1, <1>2, <2>1 DEF TypeInv, semisolve
  <1>4. Clean(sudoku, needed)
    BY <1>1, <1>2 DEF Clean
  <1>5. ASSUME NEW f \in Fillings, Solves(f, given), NEW e \in Cell, given[e] = 0
        PROVE  <<e, f[e]>> \in needed
    <2>1. f[e] \in Num
      BY GridsAssumption
    <2>2. ASSUME NEW d \in Cell, given[d] # 0, <<e, f[e]>> \in Settled(d, given[d])
          PROVE  FALSE
      <3>1. f[d] = given[d] /\ d # e
        BY <1>5, <2>2 DEF Solves, Completes
      <3>2. PICK unit \in Units(d) : e \in unit /\ f[e] = f[d]
        BY <2>2, <3>1 DEF Settled
      <3>3. QED
        BY <1>5, <3>1, <3>2 DEF Solves, IsProper
    <2>3. QED
      BY <1>2, <2>1, <2>2
  <1>6. NothingLost
    BY <1>1, <1>4, <1>5 DEF NothingLost, Alive, Solves, Completes
  <1>7. NoBlankMet
    BY DEF NoBlankMet, semisolve
  <1>8. NothingBroken
    BY <1>1 DEF NothingBroken, Completes
  <1>9. QED
    BY <1>3, <1>6, <1>7, <1>8 DEF ssInv

\* A step of the loops keeps the types.
LEMMA StepTypeInv ==
    ASSUME TypeInv, solve_known
    PROVE  TypeInv'
  <1> USE DEF TypeInv
  <1>1. Narrowed \subseteq Cell \X Num
    BY DEF Narrowed, eliminate
  <1>2. needed' \subseteq Cell \X Num
    BY <1>1 DEF solve_known
  <1>3. sudoku' \in [Cell -> {0} \cup Num]
    BY DEF solve_known
  <1>4. cell' \in Cell
    BY NextCellFollows DEF solve_known
  <1>5. num' \in Num
    BY GridSize DEF solve_known, Num
  <1>6. rounds' \in Nat /\ done' \in BOOLEAN /\ given' = given
    BY DEF solve_known
  <1>7. QED
    BY <1>2, <1>3, <1>4, <1>5, <1>6

\* A step loses no solution: neither the elimination that comes first nor
\* the number that may be placed after it.
LEMMA StepNothingLost ==
    ASSUME TypeInv, NothingLost, solve_known
    PROVE  NothingLost'
  <1> USE DEF TypeInv
  <1>1. given' = given
    BY DEF solve_known
  <1>2. Clean(sudoku, Narrowed)
    <2>1. Narrowed \subseteq needed
      BY DEF Narrowed, eliminate
    <2>2. QED
      BY <2>1 DEF NothingLost, Clean
  <1>3. ASSUME NEW f \in Fillings, Solves(f, given)
        PROVE  Alive(f, sudoku, Narrowed)
    <2>1. IsProper(f) /\ Alive(f, sudoku, needed) /\ Clean(sudoku, needed)
      BY <1>3 DEF NothingLost, Solves
    <2>2. CASE <<cell, num>> \in needed
      BY <2>1, <2>2, EliminateKeeps DEF Narrowed
    <2>3. CASE <<cell, num>> \notin needed
      BY <2>1, <2>3 DEF Narrowed
    <2>4. QED
      BY <2>2, <2>3
  <1>4. CASE ~Places
    BY <1>1, <1>2, <1>3, <1>4 DEF NothingLost, solve_known
  <1>5. CASE Places
    <2>1. /\ sudoku' = [sudoku EXCEPT ![cell] = num]
          /\ needed' = Narrowed \ Settled(cell, num)
      BY <1>5 DEF solve_known
    <2>2. Clean(sudoku', needed')
      BY <1>2, <2>1, SettlingKeepsClean
    <2>3. ASSUME NEW f \in Fillings, Solves(f, given)
          PROVE  Alive(f, sudoku', needed')
      <3>1. IsProper(f) /\ Alive(f, sudoku, Narrowed)
        BY <1>3, <2>3 DEF Solves
      <3>2. f[cell] \in Num
        BY GridsAssumption
      <3>3. f[cell] = num
        BY <1>2, <1>5, <3>1, <3>2, PlacesTheSolution DEF Places
      <3>4. QED
        BY <2>1, <3>1, <3>3, SettlingKeepsAlive
    <2>4. QED
      BY <1>1, <2>2, <2>3 DEF NothingLost
  <1>6. QED
    BY <1>4, <1>5

\* A step that leaves done set has met no blank: a number placed is never
\* taken away, and a round starts with done set and nothing met.
LEMMA StepNoBlankMet ==
    ASSUME TypeInv, NoBlankMet, solve_known
    PROVE  NoBlankMet'
  <1> USE DEF TypeInv
  <1> SUFFICES ASSUME done', NEW c \in Cell,
                      num' > 1 \/ cell' = <<0, 0>> \/ Before(c, cell')
               PROVE  sudoku'[c] # 0
    BY DEF NoBlankMet
  <1>1. sudoku'[cell] # 0
    BY DEF solve_known
  <1>2. sudoku[c] # 0 => sudoku'[c] # 0
    <2>1. num # 0
      BY DEF Num
    <2>2. QED
      BY <2>1 DEF solve_known
  <1>3. done \/ (cell = <<0, 0>> /\ num = 1)
    BY DEF solve_known
  <1>4. CASE c = cell \/ Before(c, cell)
    <2>1. ~Before(c, <<0, 0>>)
      BY DEF Before, Cell, Index
    <2>2. QED
      BY <1>1, <1>2, <1>3, <1>4, <2>1 DEF NoBlankMet
  <1>5. CASE ~(c = cell \/ Before(c, cell))
    <2>1. ~LastCell /\ cell' = NextCell /\ num' = num
      BY <1>5, NextCellFollows DEF solve_known
    <2>2. ~Before(c, NextCell) /\ NextCell # <<0, 0>>
      BY <1>5, <2>1, NextCellFollows
    <2>3. num > 1
      BY <2>1, <2>2
    <2>4. done
      BY <1>3, <2>3
    <2>5. QED
      BY <1>2, <2>3, <2>4 DEF NoBlankMet
  <1>6. QED
    BY <1>4, <1>5

\* A number that is still possible at a blank is in none of its units yet.
LEMMA PlacingBreaksNothing ==
    ASSUME NEW s \in [Cell -> {0} \cup Num], NEW p, Clean(s, p), NoRepeats(s),
           NEW c \in Cell, NEW n \in Num, <<c, n>> \in p
    PROVE  NoRepeats([s EXCEPT ![c] = n])
  <1> DEFINE t == [s EXCEPT ![c] = n]
  <1>1. n # 0
    BY DEF Num
  <1>2. ASSUME NEW d \in Cell, NEW unit \in Units(d), c \in unit, s[d] = n
        PROVE  FALSE
    <2>1. <<c, n>> \in Settled(d, s[d])
      BY <1>2 DEF Settled
    <2>2. QED
      BY <1>1, <1>2, <2>1 DEF Clean
  <1>3. SUFFICES ASSUME NEW d \in Cell, NEW unit \in Units(d), NEW e \in unit,
                        t[d] # 0, t[e] = t[d], e # d
                 PROVE  FALSE
    BY DEF NoRepeats
  <1>4. e \in Cell /\ d \in unit /\ unit \in Units(e)
    BY UnitsOfACell
  <1>5. CASE d = c
    BY <1>2, <1>3, <1>4, <1>5
  <1>6. CASE e = c
    BY <1>2, <1>3, <1>4, <1>6
  <1>7. CASE d # c /\ e # c
    BY <1>3, <1>4, <1>7 DEF NoRepeats
  <1>8. QED
    BY <1>5, <1>6, <1>7

\* So a step breaks no rule that was kept, and takes no clue away.
LEMMA StepNothingBroken ==
    ASSUME TypeInv, NothingLost, NothingBroken, solve_known
    PROVE  NothingBroken'
  <1> USE DEF TypeInv
  <1>1. given' = given
    BY DEF solve_known
  <1>2. CASE ~Places
    BY <1>1, <1>2 DEF NothingBroken, solve_known
  <1>3. CASE Places
    <2>1. sudoku' = [sudoku EXCEPT ![cell] = num]
      BY <1>3 DEF solve_known
    <2>2. sudoku[cell] = 0 /\ <<cell, num>> \in needed
      BY <1>3 DEF Places, Narrowed, eliminate
    <2>3. Completes(sudoku', given)
      BY <2>1, <2>2 DEF NothingBroken, Completes
    <2>4. NoRepeats(sudoku) => NoRepeats(sudoku')
      BY <2>1, <2>2, PlacingBreaksNothing DEF NothingLost
    <2>5. QED
      BY <1>1, <2>3, <2>4 DEF NothingBroken
  <1>4. QED
    BY <1>2, <1>3

\* So the invariant is inductive.
LEMMA ssInvNext == ssInv /\ [solve_known]_ssVars => ssInv'
  <1>1. ASSUME ssInv, solve_known PROVE ssInv'
    BY <1>1, StepTypeInv, StepNothingLost, StepNoBlankMet, StepNothingBroken DEF ssInv
  <1>2. ASSUME ssInv, UNCHANGED ssVars PROVE ssInv'
    <2>1. TypeInv'
      BY <1>2 DEF ssInv, TypeInv, ssVars
    <2>2. NothingLost'
      BY <1>2 DEF ssInv, NothingLost, ssVars
    <2>3. NoBlankMet'
      BY <1>2 DEF ssInv, NoBlankMet, ssVars
    <2>4. NothingBroken'
      BY <1>2 DEF ssInv, NothingBroken, ssVars
    <2>5. QED
      BY <2>1, <2>2, <2>3, <2>4 DEF ssInv
  <1>3. QED
    BY <1>1, <1>2

-----------------------------------------------------------------------------
(* The solver never places a number some solution does not have: this is   *)
(* semisolver.c's "100% certainty", of grids with any number of solutions. *)
THEOREM EverySolutionIsKept == ssSpec => []KeepsEverySolution
  <1>1. ssInv => KeepsEverySolution
    BY DEF ssInv, NothingLost, KeepsEverySolution, Alive, Completes
  <1>2. QED
    BY <1>1, ssInvInit, ssInvNext, PTL DEF ssSpec

(* When semisolve returns with 1, the grid it leaves is full, has the      *)
(* clues and is every solution there is; and if the given one broke no     *)
(* rule it breaks none, so that it is a solution.                          *)
THEOREM TheSolutionIsReturned == ssSpec => []ReturnsTheSolution
  <1>1. ssInv => ReturnsTheSolution
    <2> SUFFICES ASSUME ssInv, Returns, done
                 PROVE  /\ sudoku \in [Cell -> Num]
                        /\ Completes(sudoku, given)
                        /\ NoRepeats(given) => NoRepeats(sudoku)
                        /\ \A f \in Fillings : Solves(f, given) => f = sudoku
      BY DEF ReturnsTheSolution
    <2>1. \A c \in Cell : sudoku[c] # 0
      BY DEF ssInv, NoBlankMet, Returns
    <2>2. sudoku \in [Cell -> Num]
      BY <2>1 DEF ssInv, TypeInv
    <2>3. ASSUME NEW f \in Fillings, Solves(f, given) PROVE f = sudoku
      <3>1. \A c \in Cell : f[c] = sudoku[c]
        BY <2>1, <2>3 DEF ssInv, NothingLost, Alive
      <3>2. f \in [Cell -> Num]
        BY GridsAssumption
      <3>3. QED
        BY <2>2, <3>1, <3>2
    <2>4. Completes(sudoku, given) /\ (NoRepeats(given) => NoRepeats(sudoku))
      BY DEF ssInv, NothingBroken
    <2>5. QED
      BY <2>2, <2>3, <2>4
  <1>2. QED
    BY <1>1, ssInvInit, ssInvNext, PTL DEF ssSpec

(* Both halves, for boxes of every size and every grid.  Of one that broke *)
(* a rule, which has no solution to keep, they leave only that its blanks  *)
(* are filled and its clues kept.                                          *)
THEOREM SemisolveIsSound == ssSpec => []SolverIsSound
  BY EverySolutionIsKept, TheSolutionIsReturned, PTL DEF SolverIsSound
=============================================================================

--------------------------- MODULE MersenneTwister ---------------------------
(***************************************************************************)
(* The random number generator of 410kern/RNG/mt19937int.c: N words, which *)
(* are regenerated in place every N calls.  A generator is a record of mt, *)
(* a function on 0 .. N - 1, and mti.                                      *)
(***************************************************************************)
EXTENDS Integers, Sequences, SequencesExt, Bitwise

CONSTANTS
    N, M,                  \* 624 and 397 in the code
    WORD_BITS,             \* 32 in the code
    MATRIX_A,              \* the last row of the twist
    DEFAULT_SEED,          \* 4357
    TEMPERING              \* the shifts u, s, t, l and the masks b, c

Word(n) == n % 2 ^ WORD_BITS
UPPER_MASK(n) == n - (n % 2 ^ (WORD_BITS - 1))
LOWER_MASK(n) == n % 2 ^ (WORD_BITS - 1)

sgenrand(seed) ==
    LET mt[i \in 0 .. N - 1] == IF i = 0 THEN Word(seed) ELSE Word(69069 * mt[i - 1])
    IN  [mt |-> mt, mti |-> N]

\* Before the first call.
Unseeded == [mt |-> [i \in 0 .. N - 1 |-> 0], mti |-> N + 1]

\* The word that follows from the upper bit of one, the rest of the next one
\* and the one M places on.
Twist(upper, lower, ahead) ==
    LET y == UPPER_MASK(upper) + LOWER_MASK(lower)
    IN  (ahead ^^ (y \div 2)) ^^ (IF y % 2 = 1 THEN MATRIX_A ELSE 0)

\* Mutant: each word is made from those of the last period.
Regenerate_apart(mt) ==
    [k \in 0 .. N - 1 |-> Twist(mt[k], mt[(k + 1) % N], mt[(k + M) % N])]
\* One word after the other, in place: the last ones are made from new ones.
Regenerate(mt) ==
    FoldLeft(LAMBDA w, k : [w EXCEPT ![k] = Twist(w[k], w[(k + 1) % N], w[(k + M) % N])],
             mt, [i \in 1 .. N |-> i - 1])

\* y ^= TEMPERING_SHIFT_U(y) and so on.
Tempered(word) ==
    LET y1 == word ^^ (word \div 2 ^ TEMPERING.u)
        y2 == y1 ^^ (Word(y1 * 2 ^ TEMPERING.s) & TEMPERING.b)
        y3 == y2 ^^ (Word(y2 * 2 ^ TEMPERING.t) & TEMPERING.c)
    IN  y3 ^^ (y3 \div 2 ^ TEMPERING.l)

\* The number and the generator that is left.
genrand(g) ==
    LET seeded == IF g.mti = N + 1 THEN sgenrand(DEFAULT_SEED) ELSE g
        ready == IF g.mti >= N THEN [mt |-> Regenerate(seeded.mt), mti |-> 0] ELSE g
    IN  [y |-> Tempered(ready.mt[ready.mti]), g |-> [ready EXCEPT !.mti = @ + 1]]
=============================================================================

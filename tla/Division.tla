----------------------------- MODULE Division -----------------------------
(***************************************************************************)
(* Division of numbers of four digits by numbers of four digits, with      *)
(* arithmetic of two: __qdivrem of 410kern/misc/gccisms.c, Knuth's         *)
(* Algorithm D, and the functions the compiler calls it by.                *)
(***************************************************************************)
EXTENDS Integers, Sequences, SequencesExt

CONSTANT HALF_BITS        \* the bits of a digit: 16 in the code

B == 2 ^ HALF_BITS
Quad == B ^ 4

\* u_int is two digits wide.
u_int(x) == x % (B * B)
HHALF(x) == u_int(x) \div B
LHALF(x) == x % B
COMBINE(a, b) == u_int(a * B) + b

\* The digits of a quad, from the most significant one.
Digits(x) == <<x \div B ^ 3, (x \div B ^ 2) % B, (x \div B) % B, x % B>>
FromDigits(d) == FoldLeft(LAMBDA x, digit : x * B + digit, 0, d)

\* A digit array that starts at index 0, and its last index.
At0(s) == [i \in 0 .. Len(s) - 1 |-> s[i + 1]]
Up(lo, hi) == [i \in 1 .. hi - lo + 1 |-> lo + i - 1]
Down(hi, lo) == [i \in 1 .. hi - lo + 1 |-> hi - i + 1]

\* p[0] .. p[len], shifted to the left.
shl(p, len, sh) ==
    [i \in DOMAIN p |-> IF i < len THEN LHALF(p[i] * 2 ^ sh) + p[i + 1] \div 2 ^ (HALF_BITS - sh)
                        ELSE IF i = len THEN LHALF(p[i] * 2 ^ sh) ELSE p[i]]

\* The divisor t is one digit: digit by digit, unrolled in the code.
ShortDivision(u, t) ==
    LET Next(qr, digit) ==
            LET rbj == COMBINE(qr.r, digit)
            IN  [q |-> Append(qr.q, rbj \div t), r |-> rbj % t]
        qr == FoldLeft(Next, [q |-> <<>>, r |-> 0], u)
    IN  [q |-> FromDigits(qr.q), r |-> qr.r]

\* D3. g is the guess [qhat, rhat]; big: it is known to be too big.
RECURSIVE Guess(_, _, _, _, _)
Guess(g, big, v1, v2, uj2) ==
    LET less == [qhat |-> u_int(g.qhat - 1), rhat |-> g.rhat + v1]
    IN  IF ~big /\ u_int(v2 * g.qhat) <= COMBINE(g.rhat, uj2) THEN g
        ELSE IF less.rhat >= B THEN less
        ELSE Guess(less, FALSE, v1, v2, uj2)

FirstGuess(uj0, uj1, uj2, v1, v2) ==
    IF uj0 = v1 THEN Guess([qhat |-> B, rhat |-> uj1], TRUE, v1, v2, uj2)
    ELSE LET nn == COMBINE(uj0, uj1)
         IN  Guess([qhat |-> nn \div v1, rhat |-> nn % v1], FALSE, v1, v2, uj2)

\* D4: u[j] .. u[j + n] less qhat times v; the borrow is in t.
MultiplyAndSubtract(u, v, j, n, qhat) ==
    LET Sub(s, i) ==
            LET t == u_int(s.u[i + j] - v[i] * qhat - s.t)
            IN  [u |-> [s.u EXCEPT ![i + j] = LHALF(t)], t |-> LHALF(B - HHALF(t))]
        s == FoldLeft(Sub, [u |-> u, t |-> 0], Down(n, 1))
        t == u_int(s.u[j] - s.t)
    IN  [u |-> [s.u EXCEPT ![j] = LHALF(t)], t |-> t]

\* Mutant: the carry out of the digits is not added.
AddBack_carryless(u, v, j, n) ==
    LET Add(s, i) ==
            LET t == s.t + s.u[i + j] + v[i]
            IN  [u |-> [s.u EXCEPT ![i + j] = LHALF(t)], t |-> 0]
    IN  FoldLeft(Add, [u |-> u, t |-> 0], Down(n, 1)).u
\* D6
AddBack(u, v, j, n) ==
    LET Add(s, i) ==
            LET t == s.t + s.u[i + j] + v[i]
            IN  [u |-> [s.u EXCEPT ![i + j] = LHALF(t)], t |-> HHALF(t)]
        s == FoldLeft(Add, [u |-> u, t |-> 0], Down(n, 1))
    IN  [s.u EXCEPT ![j] = LHALF(@ + s.t)]

\* D3 to D6 for one digit j of the quotient.
NextDigit(s, v, n, j) ==
    LET g == FirstGuess(s.u[j], s.u[j + 1], s.u[j + 2], v[1], v[2])
        sub == MultiplyAndSubtract(s.u, v, j, n, g.qhat)
    IN  IF HHALF(sub.t) # 0
        THEN [u |-> AddBack(sub.u, v, j, n), q |-> Append(s.q, LHALF(g.qhat - 1))]
        ELSE [u |-> sub.u, q |-> Append(s.q, LHALF(g.qhat))]

\* u has m + n digits and v n > 1, none of them with leading zeros.
LongDivision(us, vs) ==
    LET n == Len(vs)
        m == Len(us) - n
        d == CHOOSE k \in 0 .. HALF_BITS : vs[1] * 2 ^ k < B /\ vs[1] * 2 ^ k >= B \div 2
        u == IF d > 0 THEN shl(At0(<<0>> \o us), m + n, d) ELSE At0(<<0>> \o us)
        v == IF d > 0 THEN shl(At0(<<0>> \o vs), n, d) ELSE At0(<<0>> \o vs)
        s == FoldLeft(LAMBDA x, j : NextDigit(x, v, n, j), [u |-> u, q |-> <<>>], Up(0, m))
        Unshifted(i) ==
            s.u[i] \div 2 ^ d + LHALF(s.u[i - 1] * 2 ^ (HALF_BITS - d))
        Rem(i) == IF d = 0 \/ i < m THEN s.u[i] ELSE IF i = m THEN 0 ELSE Unshifted(i)
    IN  [q |-> FromDigits(s.q),
         r |-> FromDigits([i \in 1 .. m + n + 1 |-> Rem(i - 1)]) % Quad]

\* The digits without leading zeros.
Significant(d) == SubSeq(d, SelectInSeq(d, LAMBDA x : x # 0), Len(d))

\* The divisor is not 0: the code divides by it to raise the exception.
__qdivrem(uq, vq) ==
    LET v == Significant(Digits(vq))
    IN  IF uq < vq THEN [q |-> 0, r |-> uq]
        ELSE IF Len(v) = 1 THEN ShortDivision(Digits(uq), v[1])
        ELSE LongDivision(Significant(Digits(uq)), v)

__umoddi3(a, b) == __qdivrem(a, b).r
__udivdi3(a, b) == __qdivrem(a, b).q

\* The signed quad with the same bits.
quad_t(x) == IF x % Quad >= Quad \div 2 THEN (x % Quad) - Quad ELSE x % Quad
\* A signed quad is negated as an unsigned one.
Magnitude(a) == IF a < 0 THEN (-a) % Quad ELSE a
__divdi3(a, b) ==
    LET uq == __udivdi3(Magnitude(a), Magnitude(b))
    IN  quad_t(IF (a < 0) # (b < 0) THEN -uq ELSE uq)
=============================================================================

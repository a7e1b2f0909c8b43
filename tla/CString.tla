------------------------------ MODULE CString ------------------------------
(***************************************************************************)
(* The string library, 410kern/string and bcopy.S and bzero.S of           *)
(* 410kern/x86.  Memory is a sequence of bytes, an address an index of it; *)
(* NULL is 0.  A function that writes returns the memory it leaves, one    *)
(* that only looks returns its answer.                                     *)
(***************************************************************************)
EXTENDS Integers, Sequences, SequencesExt

LOCAL NULL == 0
NUL == 0

\* A char is signed; memcmp's unsigned int is one that has been extended.
SignedChar(b) == IF b >= 128 THEN b - 256 ELSE b
Sign(n) == IF n > 0 THEN 1 ELSE IF n < 0 THEN -1 ELSE 0

\* The bytes from an address on, and the first address of one in a set.
From(m, s) == SubSeq(m, s, Len(m))
FirstOf(m, s, bytes) == s - 1 + SelectInSeq(From(m, s), LAMBDA b : b \in bytes)

strlen(m, s) == FirstOf(m, s, {NUL}) - s
StringAt(m, s) == SubSeq(m, s, s + strlen(m, s) - 1)
Bytes(m, s) == ToSet(StringAt(m, s))

-----------------------------------------------------------------------------
(* Moving bytes.                                                           *)

\* n bytes are read, then written.
Moved(m, from, to, n) ==
    [a \in DOMAIN m |-> IF a \in to .. to + n - 1 THEN m[from + (a - to)] ELSE m[a]]

\* rep movsl, then rep movsb for the rest.
Forwards(m, from, to, n) ==
    LET words == n \div 4
        Long(mem, i) == Moved(mem, from + 4 * i, to + 4 * i, 4)
        Byte(mem, i) == Moved(mem, from + i, to + i, 1)
    IN  FoldLeft(Byte,
                 FoldLeft(Long, m, [i \in 1 .. words |-> i - 1]),
                 [i \in 1 .. n % 4 |-> 4 * words + i - 1])

\* std; rep movsb
Backwards(m, from, to, n) ==
    FoldLeft(LAMBDA mem, i : Moved(mem, from + i, to + i, 1), m, [i \in 1 .. n |-> n - i])

\* Mutant: the direction is that of the addresses, the wrong way round.
bcopy_swapped(m, from, to, n) ==
    CASE from + n <= to \/ to + n <= from \/ to > from -> Forwards(m, from, to, n)
      [] OTHER -> Backwards(m, from, to, n)
bcopy(m, from, to, n) ==
    CASE from + n <= to \/ to + n <= from \/ to < from -> Forwards(m, from, to, n)
      [] to = from                                     -> m
      [] from < to /\ to < from + n                    -> Backwards(m, from, to, n)

memmove(m, to, from, n) == bcopy(m, from, to, n)

memset(m, to, c, n) == [a \in DOMAIN m |-> IF a \in to .. to + n - 1 THEN c ELSE m[a]]
bzero(m, to, n) == memset(m, to, 0, n)

strcpy(m, to, from) == Moved(m, from, to, strlen(m, from) + 1)
strcat(m, s, add) == strcpy(m, s + strlen(m, s), add)

\* The byte loop copies the NUL if count allows; then count is what is left.
strncpy(m, to, from, count) ==
    LET copied == Min({count, strlen(m, from) + 1})
    IN  memset(Moved(m, from, to, copied), to + copied, NUL, count - copied)

\* At most n bytes, and a NUL in any case.
strncat(m, dst, src, n) ==
    LET end == dst + strlen(m, dst)
        copied == Min({n, strlen(m, src)})
    IN  IF n = 0 THEN m
        ELSE [Moved(m, src, end, copied) EXCEPT ![end + copied] = NUL]

-----------------------------------------------------------------------------
(* Looking at bytes.                                                       *)

\* The first of n places where two areas differ; n if there is none.
Differ(m, s1, s2, n) ==
    LET i == SelectInSeq([k \in 1 .. n |-> m[s1 + k - 1] # m[s2 + k - 1]], LAMBDA d : d)
    IN  IF i = 0 THEN n ELSE i - 1

\* Up to a difference or the end of either.
strcmp(m, s1, s2) ==
    LET n == Min({strlen(m, s1), strlen(m, s2)})
        i == Differ(m, s1, s2, n)
    IN  Sign(m[s1 + i] - m[s2 + i])

strncmp(m, s1, s2, n) ==
    LET i == Differ(m, s1, s2, Min({n, strlen(m, s1), strlen(m, s2)}))
    IN  IF i = n THEN 0 ELSE Sign(SignedChar(m[s1 + i]) - SignedChar(m[s2 + i]))

memcmp(m, s1, s2, n) ==
    LET i == Differ(m, s1, s2, n)
    IN  IF i = n THEN 0 ELSE Sign(SignedChar(m[s1 + i]) - SignedChar(m[s2 + i]))

strchr(m, s, c) ==
    LET a == FirstOf(m, s, {c % 256, NUL})
    IN  IF SignedChar(m[a]) = c THEN a ELSE NULL

\* The addresses of c in the string; rindex finds the NUL, strrchr does not.
LastOf(m, s, c, end) ==
    LET found == {a \in s .. end : SignedChar(m[a]) = c}
    IN  IF found = {} THEN NULL ELSE Max(found)
strrchr(m, s, c) == LastOf(m, s, c, s + strlen(m, s) - 1)
rindex(m, s, c) == LastOf(m, s, c, s + strlen(m, s))

\* Mutant: the haystack's last place is not tried.
strstr_short(m, haystack, needle) ==
    LET nlen == strlen(m, needle)
        tries == [i \in 1 .. strlen(m, haystack) - nlen |-> haystack + i - 1]
        k == SelectInSeq(tries, LAMBDA a : memcmp(m, a, needle, nlen) = 0)
    IN  IF k = 0 THEN NULL ELSE tries[k]
\* As long as as much of the haystack is left as the needle is long.
strstr(m, haystack, needle) ==
    LET nlen == strlen(m, needle)
        tries == [i \in 1 .. strlen(m, haystack) - nlen + 1 |-> haystack + i - 1]
        k == SelectInSeq(tries, LAMBDA a : memcmp(m, a, needle, nlen) = 0)
    IN  IF k = 0 THEN NULL ELSE tries[k]

strspn(m, s1, s2) == FirstOf(m, s1, (0 .. 255) \ Bytes(m, s2)) - s1
strcspn(m, s1, s2) == FirstOf(m, s1, Bytes(m, s2) \cup {NUL}) - s1
strpbrk(m, s1, s2) ==
    LET a == s1 + strcspn(m, s1, s2)
    IN  IF m[a] = NUL THEN NULL ELSE a

\* The static variable last is part of the result.  The token's end is
\* overwritten with a NUL, unless it is the string's.
strtok(m, last, s0, delim) ==
    LET s == IF s0 = NULL THEN last ELSE s0
        tok == s + strspn(m, s, delim)
        end == tok + strcspn(m, tok, delim)
    IN  CASE s = NULL -> [tok |-> NULL, last |-> last, m |-> m]
          [] s # NULL /\ m[tok] = NUL -> [tok |-> NULL, last |-> NULL, m |-> m]
          [] s # NULL /\ m[tok] # NUL ->
                IF m[end] = NUL THEN [tok |-> tok, last |-> NULL, m |-> m]
                ELSE [tok |-> tok, last |-> end + 1, m |-> [m EXCEPT ![end] = NUL]]
=============================================================================

------------------------------- MODULE Chars -------------------------------
(***************************************************************************)
(* Characters, as strings of one; their classes (410kern/stdlib/ctype.c)   *)
(* and the digits of numbers.  A text is a sequence of them, without the   *)
(* NUL that ends it in memory.                                             *)
(***************************************************************************)
EXTENDS Integers, Sequences, SequencesExt

CONSTANT LONG_BITS              \* the width of a long: 32 in the code

ASSUME LongAssumption == LONG_BITS \in Nat \ {0}

NUL == ""
Peek(text) == IF text = <<>> THEN NUL ELSE Head(text)
Rest(text) == SubSeq(text, 2, Len(text))

\* How many characters of the text, from the first on, are in the class.
Run(text, class) ==
    LET i == SelectInSeq(text, LAMBDA c : c \notin class)
    IN  IF i = 0 THEN Len(text) ELSE i - 1
After(text, n) == SubSeq(text, n + 1, Len(text))
Skip(text, class) == After(text, Run(text, class))

digs == <<"0", "1", "2", "3", "4", "5", "6", "7", "8", "9", "a", "b", "c", "d", "e", "f">>
DIGS == <<"0", "1", "2", "3", "4", "5", "6", "7", "8", "9", "A", "B", "C", "D", "E", "F">>

\* The digits of either case, and what they stand for; no base is above 16 here.
DigitsOf(base) == {digs[i] : i \in 1 .. base} \cup {DIGS[i] : i \in 1 .. base}
DigitValue(c) == CHOOSE v \in 0 .. 15 : c \in {digs[v + 1], DIGS[v + 1]}

isdigit == DigitsOf(10)
VT == "VT"                     \* '\v', for which TLA+ has no escape
isspace == {" ", "\f", "\n", "\r", "\t", VT}

unsigned_long(n) == n % 2 ^ LONG_BITS
long(n) ==
    LET u == unsigned_long(n)
    IN  IF u >= 2 ^ (LONG_BITS - 1) THEN u - 2 ^ LONG_BITS ELSE u

\* n = n * base + digit, for each of the digits.
Value(digits, base) == FoldLeft(LAMBDA n, c : long(n * base + DigitValue(c)), 0, digits)
UnsignedValue(digits, base) == unsigned_long(Value(digits, base))
=============================================================================

-------------------------------- MODULE Scan --------------------------------
(***************************************************************************)
(* Reading numbers and texts: _doscan and sscanf of 410kern/stdio, strtol, *)
(* strtoul and atol of 410kern/stdlib.                                     *)
(***************************************************************************)
EXTENDS Chars

atol(str) == Value(SubSeq(str, 1, Run(str, isdigit)), 10)

HasHexPrefix(p, base) == base \in {0, 16} /\ Len(p) > 1 /\ p[1] = "0" /\ p[2] \in {"x", "X"}

\* The number and its end, from where the digits may start, behind any prefix.
Converted(p, base, is_neg) ==
    LET q == IF HasHexPrefix(p, base) THEN After(p, 2) ELSE p
        radix == CASE HasHexPrefix(p, base)                         -> 16
                   [] ~HasHexPrefix(p, base) /\ base = 0 /\ Peek(p) = "0"  -> 8
                   [] ~HasHexPrefix(p, base) /\ base = 0 /\ Peek(p) # "0"  -> 10
                   [] OTHER                                         -> base
        n == Run(q, DigitsOf(radix))
        v == Value(SubSeq(q, 1, n), radix)
    IN  [value |-> long(IF is_neg THEN -v ELSE v), end |-> After(q, n)]

\* A plus sign is recognised but not skipped.
strtol(str, base) ==
    LET p == Skip(str, isspace)
    IN  IF Peek(p) = "-" THEN Converted(Rest(p), base, TRUE) ELSE Converted(p, base, FALSE)

strtoul(str, base) ==
    LET r == Converted(Skip(str, isspace), base, FALSE)
    IN  [r EXCEPT !.value = unsigned_long(@)]

-----------------------------------------------------------------------------
(* _doscan, with the format and the input still to be read, what has been  *)
(* stored, and vals, how many of it was valid.                             *)

\* A number in c and the input after it: the sign, the digits.
ScanNumber(in, base) ==
    LET neg == Peek(in) = "-"
        p == IF neg THEN Rest(in) ELSE in
        n == Run(p, DigitsOf(base))
        v == Value(SubSeq(p, 1, n), base)
    IN  [value |-> long(IF neg THEN -v ELSE v), rest |-> After(p, n), invalid |-> n = 0]

ScanText(in) ==
    LET n == SelectInSeq(in, LAMBDA c : c \in isspace)
        len == IF n = 0 THEN Len(in) ELSE n - 1
    IN  [value |-> SubSeq(in, 1, len), rest |-> After(in, len), invalid |-> len = 0]

\* Mutant: the character that ends a conversion is not put back.
ScanField_greedy(conv, in) ==
    LET r == CASE conv = "d" -> ScanNumber(in, 10)
               [] conv = "x" -> ScanNumber(in, 16)
               [] conv = "s" -> ScanText(in)
               [] OTHER      -> [value |-> NUL, rest |-> Rest(in), invalid |-> TRUE]
    IN  [r EXCEPT !.rest = Rest(r.rest)]
\* A conversion; an unknown one has taken its character and is not valid.
ScanField(conv, in) ==
    CASE conv = "d" -> ScanNumber(in, 10)
      [] conv = "x" -> ScanNumber(in, 16)
      [] conv = "s" -> ScanText(in)
      [] OTHER      -> [value |-> NUL, rest |-> Rest(in), invalid |-> TRUE]

RECURSIVE _doscan(_, _, _, _)

\* From more_fmt on: a "*" discards the field, and the character read for it.
RECURSIVE MoreFmt(_, _, _, _, _)
MoreFmt(fmt, in, stored, vals, discard) ==
    LET field == ScanField(Peek(fmt), in)
        kept == IF discard \/ Peek(fmt) \notin {"d", "x", "s"} THEN stored
                ELSE Append(stored, field.value)
    IN  IF in = <<>> THEN [stored |-> stored, vals |-> vals]
        ELSE IF Peek(fmt) = "*" THEN MoreFmt(Rest(fmt), Rest(in), stored, vals, TRUE)
        ELSE IF field.invalid THEN [stored |-> kept, vals |-> vals]
        ELSE _doscan(Rest(fmt), field.rest, kept, IF discard THEN vals ELSE vals + 1)

\* White space matches any amount of it, but the end of the input ends it all.
_doscan(fmt, in, stored, vals) ==
    LET c == Peek(fmt)
        spaced == Skip(in, isspace)
        goes == IF c \in isspace THEN spaced # <<>> ELSE Peek(in) = c
    IN  IF fmt # <<>> /\ c = "%" THEN MoreFmt(Rest(fmt), in, stored, vals, FALSE)
        ELSE IF fmt # <<>> /\ goes
        THEN _doscan(Rest(fmt), IF c \in isspace THEN spaced ELSE Rest(in), stored, vals)
        ELSE [stored |-> stored, vals |-> vals]

sscanf(s, fmt) == _doscan(fmt, s, <<>>, 0)
=============================================================================

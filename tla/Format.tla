------------------------------- MODULE Format -------------------------------
(***************************************************************************)
(* Printing: _doprnt, printf, sprintf, puts and hexdump of 410kern/stdio.  *)
(* The arguments are a sequence: numbers, texts, and for %t and %b records.*)
(***************************************************************************)
EXTENDS Chars

CONSTANT PRINTF_BUFMAX         \* 128 in the code

Repeat(c, n) == [i \in 1 .. Max({0, n}) |-> c]

\* printnum
RECURSIVE printnum(_, _)
printnum(u, base) ==
    IF u < base THEN <<digs[u + 1]>>
    ELSE Append(printnum(u \div base, base), digs[(u % base) + 1])

\* printnum_16: all of eight digits.
printnum_16(u) == [i \in 1 .. 8 |-> digs[((u \div 16 ^ (8 - i)) % 16) + 1]]

-----------------------------------------------------------------------------
(* A directive d: what of the format is left to be parsed, the arguments   *)
(* that are left, and what has been parsed.                                *)

Flags(fmt, args) ==
    LET n == Run(fmt, {"#", "-", "+", " "})
        flags == ToSet(SubSeq(fmt, 1, n))
    IN  [fmt |-> After(fmt, n), args |-> args,
         altfmt |-> "#" \in flags,
         ladjust |-> "-" \in flags,
         plus_sign |-> IF "+" \in flags THEN <<"+">> ELSE IF " " \in flags THEN <<" ">> ELSE <<>>,
         padc |-> " ", length |-> 0, prec |-> -1, longopt |-> 0]

Padding(d) == IF Peek(d.fmt) = "0" THEN [d EXCEPT !.padc = "0", !.fmt = Rest(@)] ELSE d

\* A number that is written in the format; length is 0 before.
Written(fmt) == Value(SubSeq(fmt, 1, Run(fmt, isdigit)), 10)

Width(d) ==
    IF Peek(d.fmt) # "*" THEN [d EXCEPT !.length = Written(d.fmt), !.fmt = Skip(@, isdigit)]
    ELSE LET length == Head(d.args)
         IN  [d EXCEPT !.fmt = Rest(@), !.args = Rest(@),
                       !.length = IF length < 0 THEN -length ELSE length,
                       !.ladjust = IF length < 0 THEN ~@ ELSE @]

Precision(d) ==
    LET f == Rest(d.fmt)
    IN  CASE Peek(d.fmt) # "."                      -> d
          [] Peek(d.fmt) = "." /\ Peek(f) = "*"     ->
                [d EXCEPT !.prec = Head(d.args), !.fmt = Rest(f), !.args = Rest(@)]
          [] Peek(d.fmt) = "." /\ Peek(f) \in isdigit ->
                [d EXCEPT !.prec = Written(f), !.fmt = Skip(f, isdigit)]
          [] OTHER                                  -> [d EXCEPT !.fmt = f]

Length(d) ==
    LET n == Run(d.fmt, {"l"})
    IN  [d EXCEPT !.longopt = n, !.fmt = After(@, n)]

Directive(fmt, args) == Length(Precision(Width(Padding(Flags(fmt, args)))))

-----------------------------------------------------------------------------
(* The conversions.                                                        *)

\* Mutant: zeros do not use up the length.
Padded_twice(d, sign, prefix, digits) ==
    LET pad == d.length - Len(sign \o prefix \o digits)
    IN  (IF d.padc = " " /\ ~d.ladjust THEN Repeat(" ", pad) ELSE <<>>)
        \o sign \o prefix
        \o (IF d.padc = "0" THEN Repeat("0", pad) ELSE <<>>)
        \o digits
        \o (IF d.ladjust THEN Repeat(" ", pad) ELSE <<>>)
\* Blanks in front of the sign, zeros behind it, or blanks at the end: the
\* first loop uses up the length.
Padded(d, sign, prefix, digits) ==
    LET pad == d.length - Len(sign \o prefix \o digits)
    IN  (IF d.padc = " " /\ ~d.ladjust THEN Repeat(" ", pad) ELSE <<>>)
        \o sign \o prefix
        \o (IF d.padc = "0" THEN Repeat("0", pad) ELSE <<>>)
        \o digits
        \o (IF d.padc # "0" /\ d.ladjust THEN Repeat(" ", pad) ELSE <<>>)

PrintNum(d, u, base, sign) ==
    LET prefix == CASE u # 0 /\ d.altfmt /\ base = 8  -> <<"0">>
                    [] u # 0 /\ d.altfmt /\ base = 16 -> <<"0", "x">>
                    [] OTHER                          -> <<>>
    IN  Padded(d, sign, prefix, printnum(u, base))

PrintSigned(d, base) ==
    LET n == Head(d.args)
    IN  IF n >= 0 THEN PrintNum(d, n, base, d.plus_sign) ELSE PrintNum(d, -n, base, <<"-">>)

\* A long long is twice as wide as a long.
PrintUnsigned(d, base) ==
    PrintNum(d, Head(d.args) % 2 ^ (IF d.longopt > 1 THEN 2 * LONG_BITS ELSE LONG_BITS),
             base, <<>>)

PrintPointer(d) ==
    <<"0", "x">> \o PrintUnsigned([d EXCEPT !.padc = "0", !.length = 8], 16)

\* The loop that stops at the precision has counted one character more, so
\* the blanks that follow a text that is cut off are one too few.
PrintText(d) ==
    LET p == Head(d.args)
        cut == d.prec # -1 /\ Len(p) > Max({0, d.prec})
        shown == IF cut THEN SubSeq(p, 1, d.prec) ELSE p
        n == IF cut THEN Len(shown) + 1 ELSE Len(shown)
    IN  IF d.ladjust THEN shown \o Repeat(" ", d.length - n)
        ELSE Repeat(" ", d.length - Len(shown)) \o shown

\* %b: the names of the bits that are set and the values of the fields.
PrintBits(d) ==
    LET u == unsigned_long(d.args[1])
        base == d.args[2].base
        Named(f) == f.low # 0 \/ (u \div 2 ^ (f.bit - 1)) % 2 = 1
        Text(f) == IF f.low = 0 THEN f.name
                   ELSE f.name \o printnum((u \div 2 ^ (f.low - 1)) % 2 ^ (f.bit - f.low + 1), base)
        named == SelectSeq(d.args[2].fields, Named)
        list == FoldLeft(LAMBDA t, f : (IF t = <<>> THEN <<"<">> ELSE Append(t, ",")) \o Text(f),
                         <<>>, named)
    IN  printnum(u, base) \o (IF u # 0 /\ named # <<>> THEN Append(list, ">") ELSE <<>>)

\* %t: a thread identifier.
PrintThread(d) ==
    LET tid == Head(d.args)
        Bracket(c) == IF d.altfmt THEN <<c>> ELSE <<>>
        wide == IF d.altfmt THEN 19 ELSE 17
        Fill(n) == IF d.length > 0 THEN Repeat(" ", d.length - n) ELSE <<>>
        task == printnum(tid.task, 16)
        lthread == printnum(tid.lthread, 16)
        \* n and m of the code: the width in front of and behind the point
        n == Len(task) + (IF d.altfmt THEN 3 ELSE 1)
        m == Len(lthread)
        front == IF d.length > 0 /\ ~d.ladjust THEN Max({0, d.length - n - 2}) ELSE 0
    IN  IF d.longopt > 0
        THEN (IF d.ladjust THEN <<>> ELSE Fill(wide)) \o Bracket("[") \o printnum_16(tid.high)
             \o <<":">> \o printnum_16(tid.low) \o Bracket("]")
             \o (IF d.ladjust THEN Fill(wide) ELSE <<>>)
        ELSE (IF d.padc = " " THEN Repeat(" ", front) ELSE <<>>) \o Bracket("[")
             \o (IF d.padc = "0" THEN Repeat("0", front) ELSE <<>>) \o task \o <<".">>
             \o (IF d.length > 0 /\ ~d.ladjust
                 THEN Repeat(d.padc, d.length - (n + front + m)) ELSE <<>>)
             \o lthread \o Bracket("]")
             \o (IF d.ladjust THEN Repeat(" ", d.length - (n + m)) ELSE <<>>)

\* %r and %n take the radix, for which all callers pass 0: nobody can use them.
Conversion(c, d, radix) ==
    CASE c \in {"b", "B"}           -> PrintBits(d)
      [] c = "c"                    -> <<Head(d.args)>>
      [] c = "t"                    -> PrintThread(d)
      [] c = "s"                    -> PrintText(d)
      [] c \in {"o", "O"}           -> PrintUnsigned(d, 8)
      [] c \in {"d", "D"}           -> PrintSigned(d, 10)
      [] c \in {"u", "U"}           -> PrintUnsigned(d, 10)
      [] c = "p"                    -> PrintPointer(d)
      [] c \in {"x", "X"}           -> PrintUnsigned(d, 16)
      [] c \in {"z", "Z"}           -> PrintSigned(d, 16)
      [] c \in {"r", "R"}           -> PrintSigned(d, radix)
      [] c \in {"n", "N"}           -> PrintUnsigned(d, radix)
      [] OTHER                      -> <<c>>

Arguments(c) ==
    CASE c \in {"b", "B"} -> 2
      [] c \in {"c", "t", "s", "o", "O", "d", "D", "u", "U", "p", "x", "X", "z", "Z", "r", "R",
                "n", "N"} -> 1
      [] OTHER -> 0

\* The characters given to putc.
RECURSIVE _doprnt(_, _, _)
_doprnt(fmt, args, radix) ==
    IF fmt = <<>> THEN <<>>
    ELSE IF Head(fmt) # "%" THEN <<Head(fmt)>> \o _doprnt(Rest(fmt), args, radix)
    ELSE LET d == Directive(Rest(fmt), args)
             c == Peek(d.fmt)
         IN  IF c = NUL THEN <<>>
             ELSE Conversion(c, d, radix)
                  \o _doprnt(Rest(d.fmt), After(d.args, Arguments(c)), radix)

-----------------------------------------------------------------------------
(* printf collects lines; st has the buffer and what the console has got.  *)

puts(st, s) == [st EXCEPT !.console = @ \o s \o <<"\n">>]

flush(st) == [st EXCEPT !.console = @ \o st.buf, !.buf = <<>>]

\* Mutant: a character that comes when the buffer is full is not printed.
printf_char_full(st, c) ==
    CASE c = "\n" -> [puts(st, st.buf) EXCEPT !.buf = <<>>]
      [] c # "\n" /\ (c = NUL \/ Len(st.buf) >= PRINTF_BUFMAX) -> flush(st)
      [] OTHER -> [st EXCEPT !.buf = Append(@, c)]
\* With a full buffer, the NUL for puts falls on the low byte of the index
\* that follows it in the state, which is then assigned 0.
printf_char(st, c) ==
    CASE c = "\n" -> [puts(st, st.buf) EXCEPT !.buf = <<>>]
      [] c # "\n" /\ (c = NUL \/ Len(st.buf) >= PRINTF_BUFMAX) ->
            [flush(st) EXCEPT !.console = Append(@, c)]
      [] OTHER -> [st EXCEPT !.buf = Append(@, c)]

\* What the console gets, character by character.
vprintf(fmt, args) ==
    flush(FoldLeft(printf_char, [buf |-> <<>>, console |-> <<>>], _doprnt(fmt, args, 0))).console

\* A limit of -1 is none.
savechar(st, c, max) ==
    IF max # -1 /\ Len(st) = max THEN st ELSE Append(st, c)

\* The text that is left in s, and so the length that is returned.
vsnprintf(size, fmt, args) ==
    FoldLeft(LAMBDA st, c : savechar(st, c, size), <<>>, _doprnt(fmt, args, 0))
vsprintf(fmt, args) == vsnprintf(-1, fmt, args)

\* A byte that is not isgraph is shown as a point; the others as themselves.
hexdump(bytes, isgraph) ==
    LET Fmt(f, args) == vprintf(f, args)
        frame == Repeat("-", 77)
        Hex(j) == (IF j % 4 = 0 THEN <<" ">> ELSE <<>>)
                  \o (IF j >= Len(bytes) THEN <<" ", " ">>
                      ELSE Fmt(<<"%", "0", "2", "x">>, <<bytes[j + 1]>>))
        Shown(j) == IF j >= Len(bytes) THEN " "
                    ELSE IF bytes[j + 1] \in DOMAIN isgraph THEN isgraph[bytes[j + 1]] ELSE "."
        Row(i) == <<"|", " ">> \o Fmt(<<"%", "0", "8", "x">>, <<i>>) \o Repeat(" ", 6)
                  \o FlattenSeq([k \in 1 .. 16 |-> Hex(i + k - 1)]) \o Repeat(" ", 7)
                  \o [k \in 1 .. 16 |-> Shown(i + k - 1)] \o <<" ", "|">>
        rows == (Len(bytes) + 15) \div 16
    IN  <<frame>> \o [r \in 1 .. rows |-> Row(16 * (r - 1))] \o <<frame>>
=============================================================================

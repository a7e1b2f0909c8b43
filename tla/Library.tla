------------------------------ MODULE Library ------------------------------
(***************************************************************************)
(* The library that a kernel is linked with, 410kern: a behaviour is one   *)
(* call of it, or one series of calls that share a static variable, with   *)
(* arguments that Calls lists.  The functions themselves are in Format,    *)
(* Scan, CString, Sorting, Division and MersenneTwister; the solver, whose *)
(* call takes many steps, is in Semisolver.                                *)
(***************************************************************************)
EXTENDS Semisolver, Format, Scan

CONSTANTS
    Calls,                                 \* a sequence of sets of calls
    INSERTION, NINTHER,                    \* of Sorting
    HALF_BITS,                             \* of Division
    N, M, WORD_BITS, MATRIX_A, DEFAULT_SEED, TEMPERING  \* of MersenneTwister

ASSUME HalfBitsAssumption == HALF_BITS \in Nat \ {0}
ASSUME PeriodAssumption == N \in Nat /\ M \in 1 .. N - 1

Str == INSTANCE CString
Sort == INSTANCE Sorting
Quad == INSTANCE Division
RNG == INSTANCE MersenneTwister

VARIABLES
    call,              \* a record; call.fn is the function's name
    answer,            \* what it has returned, or what it has done so far
    returned           \* it has returned for the last time

vars == <<call, answer, returned, ssVars>>

-----------------------------------------------------------------------------
(* A format is spelled from fields, with the arguments that belong to it.  *)

Spelled(f) ==
    <<"%">> \o f.flags
    \o (IF f.star THEN <<"*">> ELSE IF f.width = 0 THEN <<>> ELSE printnum(f.width, 10))
    \o (IF f.prec = -1 THEN <<>> ELSE <<".">> \o printnum(f.prec, 10))
    \o f.long \o <<f.conv>>
FormatOf(fields) == FlattenSeq([i \in DOMAIN fields |-> Spelled(fields[i])])
ArgumentsOf(fields) ==
    FlattenSeq([i \in DOMAIN fields |-> (IF fields[i].star THEN <<fields[i].width>> ELSE <<>>)
                                        \o (CASE fields[i].conv = "%" -> <<>>
                                              [] fields[i].conv = "b" ->
                                                    <<fields[i].arg.u, fields[i].arg.reg>>
                                              [] OTHER -> <<fields[i].arg>>)])
Printed(c) == _doprnt(FormatOf(c.fields), ArgumentsOf(c.fields), 0)

\* What sscanf is given: numbers and texts that were printed, with something
\* between them, and cut off somewhere; and the format for it.
Plain(conv, arg) == [flags |-> <<>>, star |-> FALSE, width |-> 0, prec |-> -1,
                     long |-> <<>>, conv |-> conv, arg |-> arg]
Between(c, i) == IF i < Len(c.convs) THEN c.sep ELSE <<>>
ScanFormat(c) ==
    FlattenSeq([i \in DOMAIN c.convs |-> <<"%", c.convs[i]>> \o Between(c, i)])
WholeInput(c) ==
    FlattenSeq([i \in DOMAIN c.convs |->
        vsprintf(Spelled(Plain(c.convs[i], c.values[i])), <<c.values[i]>>) \o Between(c, i)])

-----------------------------------------------------------------------------
Idle == CHOOSE f \in Fillings : TRUE

Init ==
    /\ \E i \in DOMAIN Calls : call \in Calls[i]
    /\ answer = CASE call.fn = "strtok"  -> [m |-> call.m, last |-> 0, s |-> call.s,
                                             tokens |-> <<>>]
                  [] call.fn = "genrand" ->
                        [g |-> IF call.seed = 0 THEN RNG!Unseeded ELSE RNG!sgenrand(call.seed),
                         ys |-> <<>>]
                  [] OTHER               -> <<>>
    /\ returned = FALSE
    /\ IF call.fn = "semisolve" THEN semisolve
       ELSE /\ given = Idle /\ sudoku = Idle /\ needed = {} /\ done = FALSE
            /\ cell = <<0, 0>> /\ num = 1 /\ rounds = 0

Answers(fn, value) ==
    /\ call.fn = fn
    /\ ~returned
    /\ answer' = value
    /\ returned' = TRUE
    /\ UNCHANGED <<call, ssVars>>

printf == Answers("printf", vprintf(FormatOf(call.fields), ArgumentsOf(call.fields)))
snprintf == Answers("snprintf",
                    vsnprintf(call.size, FormatOf(call.fields), ArgumentsOf(call.fields)))
dump == Answers("hexdump", hexdump(call.bytes, call.isgraph))

scan == Answers("sscanf", sscanf(SubSeq(WholeInput(call), 1, call.cut), ScanFormat(call)))
convert ==
    LET text == Printed(call)
    IN  Answers("strtol", [l |-> strtol(text, call.base), ul |-> strtoul(text, call.base),
                           a |-> atol(text)])

move == Answers("bcopy", [bcopy |-> Str!bcopy(call.m, call.from, call.to, call.n),
                          memmove |-> Str!memmove(call.m, call.to, call.from, call.n)])

\* The string at call.s is the target, the one at call.t the source.
write == Answers("strcpy", [strcpy  |-> Str!strcpy(call.m, call.s, call.t),
                            strcat  |-> Str!strcat(call.m, call.s, call.t),
                            strncpy |-> Str!strncpy(call.m, call.s, call.t, call.n),
                            strncat |-> Str!strncat(call.m, call.s, call.t, call.n)])

look == Answers("strcmp", [strcmp  |-> Str!strcmp(call.m, call.s, call.t),
                           strncmp |-> Str!strncmp(call.m, call.s, call.t, call.n),
                           memcmp  |-> Str!memcmp(call.m, call.s, call.t, call.n),
                           strstr  |-> Str!strstr(call.m, call.s, call.t),
                           strspn  |-> Str!strspn(call.m, call.s, call.t),
                           strpbrk |-> Str!strpbrk(call.m, call.s, call.t),
                           strchr  |-> Str!strchr(call.m, call.s, call.n),
                           strrchr |-> Str!strrchr(call.m, call.s, call.n),
                           rindex  |-> Str!rindex(call.m, call.s, call.n)])

\* Once with the string, then with NULL until there is no token.
tokenize ==
    LET r == Str!strtok(answer.m, answer.last, answer.s, call.delim)
    IN  /\ call.fn = "strtok"
        /\ ~returned
        /\ answer' = [m |-> r.m, last |-> r.last, s |-> 0,
                      tokens |-> IF r.tok = 0 THEN answer.tokens
                                 ELSE Append(answer.tokens, Str!StringAt(r.m, r.tok))]
        /\ returned' = (r.tok = 0)
        /\ UNCHANGED <<call, ssVars>>

sort == Answers("qsort", Sort!qsort(call.array))

divide == Answers("division", [q |-> Quad!__udivdi3(call.u, call.v),
                               r |-> Quad!__umoddi3(call.u, call.v),
                               sq |-> Quad!__divdi3(Quad!quad_t(call.u), Quad!quad_t(call.v))])

genrand ==
    LET r == RNG!genrand(answer.g)
    IN  /\ call.fn = "genrand"
        /\ ~returned
        /\ answer' = [g |-> r.g, ys |-> Append(answer.ys, r.y)]
        /\ returned' = (Len(answer'.ys) = call.count)
        /\ UNCHANGED <<call, ssVars>>

semisolves ==
    /\ call.fn = "semisolve"
    /\ solve_known
    /\ UNCHANGED <<call, answer, returned>>

Next ==
    \/ printf \/ snprintf \/ dump
    \/ scan \/ convert
    \/ move \/ write \/ look \/ tokenize
    \/ sort \/ divide \/ genrand
    \/ semisolves

Spec == Init /\ [][Next]_vars

-----------------------------------------------------------------------------
Returned(fn) == returned /\ call.fn = fn

(* What a directive is documented to print (doprnt.c:54-120), by the text  *)
(* of the number, the width of the field and where the filling stands.     *)

Numeral(u, base) ==
    LET len == CHOOSE k \in 1 .. 2 * LONG_BITS :
                   base ^ k > u /\ (k = 1 \/ base ^ (k - 1) <= u)
    IN  [i \in 1 .. len |-> digs[((u \div base ^ (len - i)) % base) + 1]]

Has(f, flag) == flag \in ToSet(f.flags)
IsSigned(f) == f.conv \in {"d", "D", "z", "Z"}
BaseOf(f) ==
    CASE f.conv \in {"o", "O"} -> 8
      [] f.conv \in {"x", "z", "Z"} -> 16
      [] OTHER -> 10
Asked(f) ==
    IF IsSigned(f) THEN (IF f.arg < 0 THEN -f.arg ELSE f.arg)
    ELSE f.arg % 2 ^ (IF Len(f.long) > 1 THEN 2 * LONG_BITS ELSE LONG_BITS)

\* What stands in front of the digits, the zeros that are filled in after it.
Lead(f) ==
    (CASE ~IsSigned(f) -> <<>>
       [] IsSigned(f) /\ f.arg < 0 -> <<"-">>
       [] IsSigned(f) /\ f.arg >= 0 ->
             IF Has(f, "+") THEN <<"+">> ELSE IF Has(f, " ") THEN <<" ">> ELSE <<>>)
    \o (CASE Asked(f) = 0 \/ ~Has(f, "#") \/ BaseOf(f) = 10 -> <<>>
          [] OTHER -> IF BaseOf(f) = 8 THEN <<"0">> ELSE <<"0", "x">>)

IsLeft(f) == Has(f, "-") # (f.width < 0)
WidthOf(f) == Max({f.width, -f.width})

IsOnly(t, c) == ToSet(t) \subseteq {c}
Before(t, n) == SubSeq(t, 1, Min({n, Len(t)}))
Behind(t, n) == SubSeq(t, n + 1, Len(t))

\* t is text, filled up to a width on one side with blanks.
IsFilled(t, text, width, left) ==
    LET fill == IF left THEN Behind(t, Len(text)) ELSE Before(t, Len(t) - Len(text))
    IN  /\ Len(t) = Max({width, Len(text)})
        /\ IsOnly(fill, " ")
        /\ t = IF left THEN text \o fill ELSE fill \o text

\* t is the digits, filled up to a width with zeros in front.
IsZeroFilled(t, digits, width) ==
    /\ Len(t) = Max({width, Len(digits)})
    /\ IsSuffix(digits, t)
    /\ IsOnly(Before(t, Len(t) - Len(digits)), "0")

\* %s: what the precision leaves of the text.
Shown(f) == IF f.prec = -1 THEN f.arg ELSE Before(f.arg, f.prec)
IsCutOff(f) == f.conv = "s" /\ Shown(f) # f.arg

\* %b: the number, and in angle brackets the names of the bits that are set
\* and the values of the fields of bits, after their names.
IsSet(u, k) == (u \div 2 ^ (k - 1)) % 2 = 1
BitField(u, low, high) == SumSet({2 ^ (k - low) : k \in {i \in low .. high : IsSet(u, i)}})
Listing(u, reg) ==
    LET listed == SelectSeq(reg.fields, LAMBDA x : x.low # 0 \/ IsSet(u, x.bit))
        Entry(x) == IF x.low = 0 THEN x.name
                    ELSE x.name \o Numeral(BitField(u, x.low, x.bit), reg.base)
    IN  IF listed = <<>> THEN <<>>
        ELSE <<"<">> \o Behind(FlattenSeq([i \in DOMAIN listed |-> <<",">> \o Entry(listed[i])]), 1)
             \o <<">">>

\* %t: task.thread, or the two words in full, in brackets if # is given.  Of
\* the filling the first characters, up to a width of 2, stand before the
\* thread and the others before the task: blanks outside the bracket, or
\* zeros inside.
IsThread(t, f) ==
    LET Open == IF Has(f, "#") THEN <<"[">> ELSE <<>>
        Close == IF Has(f, "#") THEN <<"]">> ELSE <<>>
        task == Numeral(f.arg.task, 16)
        thread == Numeral(f.arg.lthread, 16)
        plain == Open \o task \o <<".">> \o thread \o Close
        missing == Max({0, WidthOf(f) - Len(plain)})
        byThread == Min({missing, 2 - Len(thread)})
        Fill(n) == [i \in 1 .. n |-> IF Has(f, "0") THEN "0" ELSE " "]
        filled == Fill(missing - byThread)
        rest == <<".">> \o Fill(byThread) \o thread \o Close
    IN  CASE IsLeft(f)   -> IsFilled(t, plain, WidthOf(f), TRUE)
          [] ~IsLeft(f) -> t = (IF Has(f, "0") THEN Open \o filled ELSE filled \o Open) \o task \o rest
IsLongThread(t, f) ==
    LET brackets == IF Has(f, "#") THEN 1 ELSE 0
        wide == 17 + 2 * brackets
        text == IF IsLeft(f) THEN Before(t, wide) ELSE Behind(t, Len(t) - wide)
        inner == SubSeq(text, 1 + brackets, wide - brackets)
    IN  /\ Len(t) >= wide
        /\ IsFilled(t, text, WidthOf(f), IsLeft(f))
        /\ brackets = 1 => text[1] = "[" /\ text[wide] = "]"
        /\ IsZeroFilled(Before(inner, 8), Numeral(f.arg.high, 16), 8)
        /\ inner[9] = ":"
        /\ IsZeroFilled(Behind(inner, 9), Numeral(f.arg.low, 16), 8)

IsNumber(t, f) ==
    LET u == Numeral(Asked(f), BaseOf(f))
        front == Len(Lead(f))
    IN  IF ~Has(f, "0") THEN IsFilled(t, Lead(f) \o u, WidthOf(f), IsLeft(f))
        ELSE /\ IsPrefix(Lead(f), t)
             /\ IsZeroFilled(Behind(t, front), u, WidthOf(f) - front)

IsPrinted(t, f) ==
    CASE f.conv = "%" -> t = <<"%">>
      [] f.conv = "c" -> t = <<f.arg>>
      [] f.conv = "s" -> IsFilled(t, Shown(f), WidthOf(f), IsLeft(f))
      [] f.conv = "b" -> t = Numeral(f.arg.u, f.arg.reg.base)
                             \o (IF f.arg.u = 0 THEN <<>> ELSE Listing(f.arg.u, f.arg.reg))
      [] f.conv = "t" -> IF f.long = <<>> THEN IsThread(t, f) ELSE IsLongThread(t, f)
      [] f.conv = "p" -> /\ Before(t, 2) = <<"0", "x">>
                         /\ IsZeroFilled(Behind(t, 2), Numeral(Asked(f), 16), 8)
      [] OTHER        -> IsNumber(t, f)

\* A text that is cut off and adjusted to the left does not fill its field in
\* the code, whose loop has counted the character it stops at (doprnt.c:483):
\* against the documented width, one blank may be missing.
IsPrintedButForABlank(t, f) ==
    \/ IsPrinted(t, f)
    \/ IsCutOff(f) /\ IsLeft(f) /\ IsFilled(t, Shown(f), WidthOf(f) - 1, TRUE)

\* The text is one that the fields print, one after the other.
RECURSIVE ArePrinted(_, _)
ArePrinted(t, fields) ==
    IF fields = <<>> THEN t = <<>>
    ELSE \E n \in 0 .. Len(t) : /\ IsPrintedButForABlank(Before(t, n), Head(fields))
                                /\ ArePrinted(Behind(t, n), Tail(fields))

\* The two digits of byte k of a row of 16.
DigitsInRow(row, k) == LET col == 16 + 2 * k + k \div 4 + 1 IN SubSeq(row, col + 1, col + 2)
IsDump(rows, bytes) ==
    /\ \A i \in DOMAIN rows : Len(rows[i]) = 77
    /\ Len(rows) = 2 + (Len(bytes) + 15) \div 16
    /\ \A b \in 0 .. 16 * (Len(rows) - 2) - 1 :
          LET digits == DigitsInRow(rows[2 + b \div 16], b % 16)
          IN  IF b < Len(bytes) THEN UnsignedValue(digits, 16) = bytes[b + 1]
              ELSE digits = <<" ", " ">>


-----------------------------------------------------------------------------
(* What the library prints it reads back, the most negative number and a   *)
(* number at the very end included: sscanf all that a format printed, and  *)
(* of an input that is cut off somewhere everything but the last field;    *)
(* strtol and strtoul a number of any base by its prefix, up to its end.   *)
ReadsBackWhatItPrints ==
    /\ Returned("sscanf") =>
          /\ answer.vals <= Len(call.convs)
          /\ \A i \in 1 .. answer.vals - 1 : answer.stored[i] = call.values[i]
          /\ call.cut = Len(WholeInput(call)) => answer = [stored |-> call.values,
                                                           vals   |-> Len(call.convs)]
    /\ Returned("strtol") =>
          LET v == call.fields[1].arg
          IN  /\ answer.l = [value |-> long(v), end |-> <<>>]
              /\ v >= 0 => answer.ul = [value |-> unsigned_long(v), end |-> <<>>]
              /\ v >= 0 /\ call.base = 10 => answer.a = v

-----------------------------------------------------------------------------
\* The sequence of the maximal runs of bytes that are not in delim.
Tokens(s, delim) ==
    LET starts == {i \in DOMAIN s : s[i] \notin delim /\ (i = 1 \/ s[i - 1] \in delim)}
        End(i) == Max({j \in i .. Len(s) : \A k \in i .. j : s[k] \notin delim})
        order == SetToSortSeq(starts, <)
    IN  [k \in DOMAIN order |-> SubSeq(s, order[k], End(order[k]))]

\* By the first byte that differs, which is a signed one or is not.
LexicalSign(a, b, Signed(_)) ==
    LET d == {i \in DOMAIN a \cap DOMAIN b : a[i] # b[i]}
    IN  IF d = {} THEN 0 ELSE Str!Sign(Signed(a[Min(d)]) - Signed(b[Min(d)]))

Zeros(n) == [i \in 1 .. Max({0, n}) |-> 0]
Prefix(s, n) == SubSeq(s, 1, Min({n, Len(s)}))

\* new is old with these bytes at address a.
IsOverwritten(new, old, a, bytes) ==
    new = [k \in DOMAIN old |-> IF k \in a .. a + Len(bytes) - 1 THEN bytes[k - a + 1] ELSE old[k]]

StringsAreRight ==
    /\ Returned("bcopy") =>
          LET area == SubSeq(call.m, call.from, call.from + call.n - 1)
          IN  /\ IsOverwritten(answer.bcopy, call.m, call.to, area)
              /\ answer.memmove = answer.bcopy
    /\ Returned("strcpy") =>
          LET s == Str!StringAt(call.m, call.s)
              t == Str!StringAt(call.m, call.t)
              first == Prefix(t, call.n)
          IN  /\ IsOverwritten(answer.strcpy, call.m, call.s, t \o <<0>>)
              /\ IsOverwritten(answer.strcat, call.m, call.s, s \o t \o <<0>>)
              /\ IsOverwritten(answer.strncpy, call.m, call.s, first \o Zeros(call.n - Len(first)))
              /\ IsOverwritten(answer.strncat, call.m, call.s,
                               IF call.n = 0 THEN s \o <<0>> ELSE s \o first \o <<0>>)
    /\ Returned("strcmp") =>
          LET s == Str!StringAt(call.m, call.s)
              t == Str!StringAt(call.m, call.t)
              At(i) == SubSeq(s, i, Len(s))
              Least(places) == IF places = {} THEN 0 ELSE call.s + Min(places) - 1
              hits == {i \in DOMAIN s : s[i] = call.n}
          IN  /\ answer.strcmp = LexicalSign(s \o <<0>>, t \o <<0>>, LAMBDA b : b)
              /\ answer.strncmp = LexicalSign(Prefix(s \o <<0>>, call.n), Prefix(t \o <<0>>, call.n),
                                             Str!SignedChar)
              /\ answer.memcmp = 0 <=> SubSeq(call.m, call.s, call.s + call.n - 1)
                                       = SubSeq(call.m, call.t, call.t + call.n - 1)
              /\ answer.strstr = Least({i \in 1 .. Len(s) + 1 : IsPrefix(t, At(i))})
              /\ answer.strspn = Max({i \in 0 .. Len(s) : ToSet(Prefix(s, i)) \subseteq ToSet(t)})
              /\ answer.strpbrk = Least({i \in DOMAIN s : s[i] \in ToSet(t)})
              /\ answer.strchr = Least(hits)
              /\ answer.strrchr = IF hits = {} THEN 0 ELSE call.s + Max(hits) - 1
              /\ answer.rindex = answer.strrchr
    /\ Returned("strtok") =>
          answer.tokens = Tokens(Str!StringAt(call.m, call.s), Str!Bytes(call.m, call.delim))

Count(s, x) == Cardinality({i \in DOMAIN s : s[i] = x})
Truncated(u, v) == Str!Sign(u) * Str!Sign(v) * ((IF u < 0 THEN -u ELSE u) \div (IF v < 0 THEN -v ELSE v))

\* The words by their recurrence, each from those N, N - 1 and N - M before.
RandomWords(seed, count) ==
    LET x[i \in 0 .. N + count - 1] ==
            IF i < N THEN RNG!sgenrand(seed).mt[i]
            ELSE RNG!Twist(x[i - N], x[i - N + 1], x[i - N + M])
    IN  [i \in 1 .. count |-> x[N + i - 1]]

NumbersAreRight ==
    /\ Returned("qsort") =>
          /\ Len(answer) = Len(call.array)
          /\ \A i \in 1 .. Len(answer) - 1 : answer[i] <= answer[i + 1]
          /\ \A x \in ToSet(call.array) : Count(answer, x) = Count(call.array, x)
    /\ Returned("division") =>
          /\ answer.q = call.u \div call.v
          /\ answer.r = call.u % call.v
          /\ answer.sq = Quad!quad_t(Truncated(Quad!quad_t(call.u), Quad!quad_t(call.v)))
    /\ Returned("genrand") =>
          LET words == RandomWords(IF call.seed = 0 THEN DEFAULT_SEED ELSE call.seed, call.count)
          IN  answer.ys = [i \in DOMAIN words |-> RNG!Tempered(words[i])]

(* The library's tricks change no result: bcopy copies in either direction *)
(* and word by word, and overlapping areas arrive as they were; strtok's   *)
(* static variable, over a series of calls, gives the maximal runs between *)
(* delimiters; qsort's pivots, swapped ends and switch to insertion sort a *)
(* permutation; division by guessed digits gives quotient and remainder,   *)
(* and words regenerated in place every N calls follow their recurrence.   *)
ComputesTheReference == StringsAreRight /\ NumbersAreRight
=============================================================================

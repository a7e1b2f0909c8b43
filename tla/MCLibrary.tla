----------------------------- MODULE MCLibrary -----------------------------
(***************************************************************************)
(* The calls that are checked, on longs of 8 bits and digits of 2 bits.    *)
(***************************************************************************)
EXTENDS Library

Text(s) == [i \in 1 .. Len(s) |-> SubSeq(s, i, i)]

Field(flags, star, width, prec, opt, conv, arg) ==
    [flags |-> Text(flags), star |-> star, width |-> width, prec |-> prec,
     long |-> Text(opt), conv |-> conv, arg |-> arg]

-----------------------------------------------------------------------------
Flaggings == {"", "-", "+", " ", "#", "0", "#-", "+0", "#0", "-0", "-+#"}
Widths == {<<FALSE, 0>>, <<FALSE, 4>>, <<FALSE, 9>>, <<TRUE, 6>>, <<TRUE, -6>>}

NumberFields ==
    {Field(flags, w[1], w[2], -1, opt, conv, n) :
        flags \in Flaggings, w \in Widths, opt \in {"", "ll"},
        conv \in {"d", "u", "o", "x", "z"}, n \in {-128, -1, 0, 9, 100}}
TextFields ==
    {Field(flags, w[1], w[2], prec, "", "s", Text(t)) :
        flags \in {"", "-"}, w \in Widths, prec \in {-1, 0, 2, 3, 7},
        t \in {"", "abc", "abcde"}}
Others == {<<Field("", FALSE, 0, -1, "", "%", 0), Field("", FALSE, 3, -1, "", "c", "z")>>}

\* The same conversions by their other letters, and pointers.
CapitalFields ==
    {Field(flags, FALSE, width, -1, "", conv, n) :
        flags \in {"", "-", "#0"}, width \in {0, 9}, conv \in {"D", "U", "O", "Z"},
        n \in {-1, 100}}
PointerFields == {Field("", FALSE, 0, -1, "", "p", n) : n \in {-1, 0, 100}}

\* Two names of single bits around a field of three.
Register == [base |-> 16, fields |-> <<[bit |-> 8, low |-> 0, name |-> Text("TOP")],
                                       [bit |-> 6, low |-> 4, name |-> Text("F=")],
                                       [bit |-> 1, low |-> 0, name |-> Text("B1")]>>]
Flagbits == [base |-> 8, fields |-> SelectSeq(Register.fields, LAMBDA x : x.low = 0)]
BitFields ==
    {Field("", FALSE, 0, -1, "", "b", [u |-> u, reg |-> reg]) :
        u \in 0 .. 255, reg \in {Register, Flagbits}}

ThreadFields ==
    LET Ids == {[task |-> t, lthread |-> l, high |-> t * l, low |-> 1048576 + t] :
                   t \in {0, 16, 256, 2047}, l \in {0, 15, 16, 127}}
    IN  {Field(flags, FALSE, width, -1, "", "t", id) :
            flags \in {"", "#", "-", "0", "#-", "#0"}, width \in {0, 5, 6, 7, 9, 12}, id \in Ids}
        \cup {Field(flags, FALSE, width, -1, "l", "t", id) :
            flags \in {"", "#", "-", "#-"}, width \in {0, 17, 18, 20, 22}, id \in Ids}

\* A newline when the buffer is not yet, just and again full, and more text.
NewlineFields ==
    {<<Field("", FALSE, 0, -1, "", "s", Text(before)), Field("", FALSE, 0, -1, "", "c", "\n"),
       Field("", FALSE, 0, -1, "", "s", Text(after)), Field("", FALSE, 0, -1, "", "c", last)>> :
        before \in {"", "abcd", "abcde", "abcdef", "abcdefghijk"},
        after \in {"", "uvwx", "uvwxy", "uvwxyz"}, last \in {"\n", "z"}}

PrintCalls ==
    <<{[fn |-> "printf", fields |-> <<f>>] : f \in NumberFields},
      {[fn |-> "printf", fields |-> <<f, g>>] : f, g \in
          {h \in NumberFields : h.arg \in {-1, 100} /\ h.long = <<>> /\ ~h.star
                                /\ h.conv \in {"d", "x"} /\ Len(h.flags) < 2}},
      {[fn |-> "printf", fields |-> <<f>>] : f \in TextFields},
      {[fn |-> "printf", fields |-> <<f, g>>] : f \in {h \in TextFields : ~h.star}, g \in
          {h \in TextFields : h.prec = 2}},
      {[fn |-> "printf", fields |-> fs] : fs \in Others},
      {[fn |-> "printf", fields |-> <<f>>] : f \in CapitalFields},
      {[fn |-> "printf", fields |-> <<f>>] : f \in PointerFields},
      {[fn |-> "printf", fields |-> <<f>>] : f \in BitFields},
      {[fn |-> "printf", fields |-> <<f>>] : f \in ThreadFields},
      {[fn |-> "printf", fields |-> fs] : fs \in NewlineFields},
      {[fn |-> "snprintf", size |-> size, fields |-> <<f>>] :
          size \in {-1, 0, 1, 3, 4, 5}, f \in TextFields},
      {[fn |-> "hexdump", isgraph |-> (33 :> "!" @@ 65 :> "A"), bytes |-> b] :
          b \in {[i \in 1 .. n |-> (start + 37 * i) % 256] : n \in {0, 1, 15, 16, 17, 33},
                                                       start \in {28, 200}}}>>

-----------------------------------------------------------------------------
Numbers == {-128, -9, 0, 15, 127}
ScanCalls ==
    LET Whole(convs, values, sep) == [fn |-> "sscanf", convs |-> convs, values |-> values,
                                      sep |-> sep, cut |-> 0]
        Cuts(set) == {[c EXCEPT !.cut = n] : c \in set, n \in 0 .. 14}
        InReach(set) == {c \in Cuts(set) : c.cut <= Len(WholeInput(c))}
    IN  <<InReach({Whole(<<c1, c2, "d">>, <<v, w, 7>>, sep) :
                      c1, c2 \in {"d", "x"}, v, w \in Numbers, sep \in {<<",">>, <<" ">>, <<":", " ">>}}),
          InReach({Whole(<<"s", c, "s">>, <<Text("ab"), v, Text("-f")>>, <<" ">>) :
                      c \in {"d", "x"}, v \in Numbers})>>

ConvertCalls ==
    {[fn |-> "strtol", fields |-> <<f>>, base |-> b] :
        b \in {0, 10}, f \in {Field("", FALSE, 0, -1, "l", "d", n) : n \in -128 .. 127}}
    \cup {[fn |-> "strtol", fields |-> <<f>>, base |-> b] :
        b \in {0, 16}, f \in {Field("#", FALSE, 0, -1, "l", "x", n) : n \in 0 .. 127}}
    \cup {[fn |-> "strtol", fields |-> <<f>>, base |-> b] :
        b \in {0, 8}, f \in {Field("#", FALSE, 0, -1, "l", "o", n) : n \in 0 .. 127}}

-----------------------------------------------------------------------------
MoveCalls ==
    {[fn |-> "bcopy", m |-> [i \in 1 .. 14 |-> i], from |-> from, to |-> to, n |-> n] :
        from, to \in 1 .. 6, n \in 0 .. 9}

\* Two strings of at most three bytes, the first with room behind it.
Strings == UNION {[1 .. n -> {1, 200}] : n \in 0 .. 3}
TwoStrings(fn, n) ==
    {[fn |-> fn, m |-> s \o [i \in 1 .. 9 - Len(s) |-> IF i = 1 THEN 0 ELSE 9] \o t \o <<0, 9, 9, 9>>,
      s |-> 1, t |-> 10, n |-> n] : s, t \in Strings}
StringCalls ==
    UNION {TwoStrings("strcpy", n) : n \in 0 .. 5}
    \cup UNION {TwoStrings("strcmp", n) : n \in 1 .. 3}

TokenCalls ==
    {[fn |-> "strtok", m |-> s \o <<0>> \o d \o <<0>>, s |-> 1, delim |-> Len(s) + 2] :
        s \in UNION {[1 .. n -> {1, 2, 3}] : n \in 0 .. 6}, d \in {<<>>, <<1>>, <<2, 1>>}}

-----------------------------------------------------------------------------
SortCalls ==
    {[fn |-> "qsort", array |-> a] :
        a \in UNION {[1 .. n -> 1 .. 4] : n \in 0 .. 5} \cup [1 .. 8 -> 1 .. 3]}

DivisionCalls ==
    {[fn |-> "division", u |-> u, v |-> v] : u \in 0 .. 255, v \in {1, 3, 4, 5, 7, 11, 16, 17, 23, 31, 47,
                                                                  60, 64, 65, 67, 80, 127, 128, 129, 171, 255}}

RandomCalls == {[fn |-> "genrand", seed |-> seed, count |-> 12] : seed \in {0, 1, 5, 200}}

-----------------------------------------------------------------------------
(* Sudokus of 2 x 2 boxes: four clues of a grid, among seven of its cells. *)
SolvedGrid == <<1, 2, 3, 4, 3, 4, 1, 2, 2, 1, 4, 3, 4, 3, 2, 1>>
Clues == {<<0, 0>>, <<0, 1>>, <<1, 2>>, <<1, 3>>, <<2, 0>>, <<2, 3>>, <<3, 1>>}
OfOneGrid ==
    {[c \in Cell |-> IF c \in clues THEN SolvedGrid[4 * c[1] + c[2] + 1] ELSE 0] :
        clues \in kSubset(4, Clues)}

\* Any numbers that break no rule in five cells: some have no solution.
Clued(values) == [c \in Cell |-> IF c \in DOMAIN values THEN values[c] ELSE 0]
OfAnyNumbers ==
    {g \in {Clued((<<0, 0>> :> 1) @@ (<<0, 1>> :> 2) @@ (<<0, 2>> :> x) @@ (<<1, 3>> :> y)
                   @@ (<<2, 3>> :> z)) : x, y, z \in Num} : NoRepeats(g)}
\* Some that break a rule: a number twice in a box, in a full grid and in
\* one that has a blank.
Broken ==
    {[c \in Cell |-> CASE c = <<0, 0>>   -> 2
                      [] c \in blanks    -> 0
                      [] OTHER           -> SolvedGrid[4 * c[1] + c[2] + 1]] :
        blanks \in {{}, {<<3, 3>>}, {<<0, 1>>, <<2, 2>>}}}

MCGrids == OfOneGrid \cup OfAnyNumbers \cup Broken

\* All the proper grids: rows two by two, then the two halves.
Rows == {r \in [0 .. 3 -> Num] : \A i, j \in 0 .. 3 : i # j => r[i] # r[j]}
Halves ==
    {h \in Rows \X Rows : /\ \A i \in 0 .. 3 : h[1][i] # h[2][i]
                          /\ \A k \in {0, 2} : {h[1][k], h[1][k + 1]} \cap {h[2][k], h[2][k + 1]} = {}}
AllGrids ==
    {[c \in Cell |-> q[1 + (c[1] \div 2)][1 + (c[1] % 2)][c[2]]] :
        q \in {p \in Halves \X Halves :
                  \A i \in 0 .. 3 : {p[1][1][i], p[1][2][i]} \cap {p[2][1][i], p[2][2][i]} = {}}}
MCFillings == AllGrids

SolverCalls == {[fn |-> "semisolve"]}

MCTempering == [u |-> 3, s |-> 2, b |-> 164, t |-> 4, c |-> 224, l |-> 5]

MCCalls ==
    PrintCalls \o ScanCalls
    \o <<ConvertCalls, MoveCalls, StringCalls, TokenCalls, SortCalls, DivisionCalls,
         RandomCalls, SolverCalls>>
=============================================================================

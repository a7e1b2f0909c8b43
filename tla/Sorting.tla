------------------------------ MODULE Sorting ------------------------------
(***************************************************************************)
(* qsort, 410kern/stdlib/qsort.c: Bentley and McIlroy's.  The array is a   *)
(* sequence of elements; pointers are indices and es is 1.                 *)
(***************************************************************************)
EXTENDS Integers, Sequences, SequencesExt

CONSTANTS
    INSERTION,         \* 7 in the code: shorter arrays are sorted by insertion
    NINTHER            \* 40 in the code: longer ones have a pivot of nine

LOCAL swap(a, i, j) == [a EXCEPT ![i] = a[j], ![j] = a[i]]

\* vecswap: n elements, one after the other.
vecswap(a, i, j, n) ==
    FoldLeft(LAMBDA b, k : swap(b, i + k, j + k), a, [k \in 1 .. n |-> k - 1])

med3(a, i, j, k) ==
    IF a[i] < a[j] THEN IF a[j] < a[k] THEN j ELSE IF a[i] < a[k] THEN k ELSE i
    ELSE IF a[j] > a[k] THEN j ELSE IF a[i] < a[k] THEN i ELSE k

\* pl goes down from pm while its element is less than the one before it.
RECURSIVE Sink(_, _, _)
Sink(a, lo, pl) ==
    IF pl > lo /\ a[pl - 1] > a[pl] THEN Sink(swap(a, pl, pl - 1), lo, pl - 1) ELSE a

InsertionSort(a, lo, n) ==
    FoldLeft(LAMBDA b, pm : Sink(b, lo, pm), a, [i \in 1 .. n - 1 |-> lo + i])

\* Where the pivot is taken from.
Pivot(a, lo, n) ==
    LET pm == lo + n \div 2
        pn == lo + n - 1
        d == n \div 8
    IN  IF n <= INSERTION THEN pm
        ELSE IF n <= NINTHER THEN med3(a, lo, pm, pn)
        ELSE med3(a, med3(a, lo, lo + d, lo + 2 * d),
                     med3(a, pm - d, pm, pm + d),
                     med3(a, pn - 2 * d, pn - d, pn))

\* p holds the array a, the pointers pa, pb, pc, pd, and swapped, swap_cnt.
\* Elements equal to the pivot, at lo, are collected at both ends.
RECURSIVE ScanUp(_, _)
ScanUp(p, lo) ==
    IF p.pb > p.pc \/ p.a[p.pb] > p.a[lo] THEN p
    ELSE IF p.a[p.pb] = p.a[lo]
    THEN ScanUp([p EXCEPT !.a = swap(@, p.pa, p.pb), !.pa = @ + 1, !.pb = @ + 1,
                          !.swapped = TRUE], lo)
    ELSE ScanUp([p EXCEPT !.pb = @ + 1], lo)

RECURSIVE ScanDown(_, _)
ScanDown(p, lo) ==
    IF p.pb > p.pc \/ p.a[p.pc] < p.a[lo] THEN p
    ELSE IF p.a[p.pc] = p.a[lo]
    THEN ScanDown([p EXCEPT !.a = swap(@, p.pc, p.pd), !.pd = @ - 1, !.pc = @ - 1,
                            !.swapped = TRUE], lo)
    ELSE ScanDown([p EXCEPT !.pc = @ - 1], lo)

RECURSIVE Partition(_, _)
Partition(p0, lo) ==
    LET p == ScanDown(ScanUp(p0, lo), lo)
    IN  IF p.pb > p.pc THEN p
        ELSE Partition([p EXCEPT !.a = swap(@, p.pb, p.pc), !.pb = @ + 1, !.pc = @ - 1,
                                 !.swapped = TRUE], lo)

\* Mutant: the equal elements at the upper end are not moved to the middle.
Gather_lower(p, lo, n) ==
    LET low == Min({p.pa - lo, p.pb - p.pa})
    IN  vecswap(p.a, lo, p.pb - low, low)
\* The equal elements are moved to the middle.
Gather(p, lo, n) ==
    LET pn == lo + n
        low == Min({p.pa - lo, p.pb - p.pa})
        high == Min({p.pd - p.pc, pn - p.pd - 1})
    IN  vecswap(vecswap(p.a, lo, p.pb - low, low), p.pb, pn - high, high)

\* The n elements from lo on; the iteration on the upper part is a call, too.
RECURSIVE SortFrom(_, _, _)
SortFrom(a, lo, n) ==
    LET start == swap(a, lo, Pivot(a, lo, n))
        p == Partition([a |-> start, pa |-> lo + 1, pb |-> lo + 1, pc |-> lo + n - 1,
                        pd |-> lo + n - 1, swapped |-> FALSE], lo)
        lower == p.pb - p.pa
        upper == p.pd - p.pc
        gathered == Gather(p, lo, n)
        lowerDone == IF lower > 1 THEN SortFrom(gathered, lo, lower) ELSE gathered
    IN  CASE n < INSERTION -> InsertionSort(a, lo, n)
          [] n >= INSERTION /\ ~p.swapped -> InsertionSort(p.a, lo, n)
          [] n >= INSERTION /\ p.swapped ->
                IF upper > 1 THEN SortFrom(lowerDone, lo + n - upper, upper) ELSE lowerDone

qsort(a) == SortFrom(a, 1, Len(a))
=============================================================================

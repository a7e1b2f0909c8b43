---------------------------- MODULE MemoryProofs ----------------------------
(***************************************************************************)
(* Proofs about Memory and Lmm, for every size of units, words and pages,  *)
(* every place of the regions, every set of the boot loader's answers, of  *)
(* sizes a size_t can hold and of alignments, and any number of blocks.    *)
(* A request whose size wraps and that is granted ends what is proved of   *)
(* the lists and the blocks.                                               *)
(*                                                                         *)
(* What carries them is a view of the lists as sets: an operation on a     *)
(* well-formed list leaves a well-formed list whose bytes are the old ones *)
(* with, or without, one stretch of whole units.  The inductive invariant  *)
(* relates these bytes to the blocks in use.  The folds in the code's      *)
(* loops are reasoned about through their traces, the values index by      *)
(* index.                                                                  *)
(***************************************************************************)
EXTENDS Memory, FiniteSetTheorems, SequenceTheorems, WellFoundedInduction, TLAPS

-----------------------------------------------------------------------------
-----------------------------------------------------------------------------
(* Units.                                                                  *)

\* What the remainder and the quotient of a division are.
LEMMA Division ==
    ASSUME NEW n \in Nat \ {0}, NEW a \in Int
    PROVE  /\ a % n \in 0 .. n - 1
           /\ a \div n \in Int
           /\ a = (a \div n) * n + (a % n)
  OBVIOUS

Aligned(a) == a % ALIGN_SIZE = 0

\* The aligned addresses are the multiples of the unit.
LEMMA AlignedIsMultiple ==
    ASSUME NEW a \in Int
    PROVE  Aligned(a) <=> \E k \in Int : a = k * ALIGN_SIZE
  <1>1. ASSUME NEW n \in Nat \ {0}, NEW k \in Int
        PROVE  (k * n) % n = 0
    OBVIOUS
  <1>2. ASSUME Aligned(a)
        PROVE  \E k \in Int : a = k * ALIGN_SIZE
    BY <1>2, Division, AlignAssumption DEF Aligned
  <1>3. QED
    BY <1>1, <1>2, AlignAssumption DEF Aligned

\* Sums and differences of aligned numbers are aligned.
LEMMA AlignedSum ==
    ASSUME NEW a \in Int, NEW b \in Int, Aligned(b)
    PROVE  /\ Aligned(a) <=> Aligned(a + b)
           /\ Aligned(a) <=> Aligned(a - b)
  <1>1. ASSUME NEW n \in Int, NEW k \in Int, NEW l \in Int
        PROVE  k * n + l * n = (k + l) * n /\ k * n - l * n = (k - l) * n
    OBVIOUS
  <1>2. PICK l \in Int : b = l * ALIGN_SIZE
    BY AlignedIsMultiple
  <1>3. ASSUME NEW c \in Int, Aligned(c)
        PROVE  Aligned(c + b) /\ Aligned(c - b)
    <2>1. PICK k \in Int : c = k * ALIGN_SIZE
      BY <1>3, AlignedIsMultiple
    <2>2. c + b = (k + l) * ALIGN_SIZE /\ c - b = (k - l) * ALIGN_SIZE
      BY <1>1, <1>2, <2>1, AlignAssumption
    <2>3. c + b \in Int /\ c - b \in Int /\ k + l \in Int /\ k - l \in Int
      OBVIOUS
    <2>4. QED
      BY <2>2, <2>3, AlignedIsMultiple
  <1>4. (a + b) - b = a /\ (a - b) + b = a /\ a + b \in Int /\ a - b \in Int
    OBVIOUS
  <1>5. QED
    BY <1>3, <1>4

\* Aligned numbers are a unit apart.
LEMMA AlignedApart ==
    ASSUME NEW a \in Int, NEW b \in Int, Aligned(a), Aligned(b), a < b
    PROVE  a + ALIGN_SIZE <= b
  <1>1. PICK k \in Int, l \in Int : a = k * ALIGN_SIZE /\ b = l * ALIGN_SIZE
    BY AlignedIsMultiple
  <1>2. ASSUME NEW n \in Nat \ {0}, k * n < l * n
        PROVE  k * n + n <= l * n
    <2>1. k < l
      <3>1. SUFFICES ASSUME l <= k PROVE l * n <= k * n
        BY <1>2
      <3>2. QED
        BY <3>1
    <2>2. k * n + n = (k + 1) * n
      OBVIOUS
    <2>3. \A i, j \in Int : i <= j => i * n <= j * n
      OBVIOUS
    <2>4. QED
      BY <2>1, <2>2, <2>3
  <1>3. QED
    BY <1>1, <1>2, AlignAssumption

\* AlignDown and AlignUp give the next aligned number.
LEMMA Alignment ==
    ASSUME NEW a \in Int
    PROVE  /\ AlignDown(a) \in Int /\ AlignUp(a) \in Int
           /\ Aligned(AlignDown(a)) /\ Aligned(AlignUp(a))
           /\ AlignDown(a) <= a /\ a < AlignDown(a) + ALIGN_SIZE
           /\ a <= AlignUp(a) /\ AlignUp(a) < a + ALIGN_SIZE
           /\ ALIGN_SIZE \in Nat /\ ALIGN_SIZE > 0 /\ Aligned(ALIGN_SIZE) /\ Aligned(0)
  <1>0. ALIGN_SIZE \in Nat /\ ALIGN_SIZE > 0
    BY AlignAssumption
  <1>1. ASSUME NEW b \in Int
        PROVE  /\ AlignDown(b) \in Int /\ Aligned(AlignDown(b))
               /\ AlignDown(b) <= b /\ b < AlignDown(b) + ALIGN_SIZE
    <2>1. b % ALIGN_SIZE \in 0 .. ALIGN_SIZE - 1 /\ b \div ALIGN_SIZE \in Int
      BY Division, AlignAssumption
    <2>2. b - (b % ALIGN_SIZE) = (b \div ALIGN_SIZE) * ALIGN_SIZE
      BY Division, AlignAssumption
    <2>3. QED
      BY <1>0, <2>1, <2>2, AlignedIsMultiple DEF AlignDown
  <1>2. a + ALIGN_SIZE - 1 \in Int
    BY <1>0
  <1>3. Aligned(ALIGN_SIZE) /\ Aligned(0)
    BY AlignAssumption DEF Aligned
  <1>4. QED
    BY <1>0, <1>1, <1>2, <1>3 DEF AlignUp

\* AlignDown gives the greatest aligned address up to a, AlignUp the least one from a on.
LEMMA AlignDownIsGreatest ==
    ASSUME NEW a \in Int, NEW b \in Int, Aligned(b)
    PROVE  /\ b <= a <=> b <= AlignDown(a)
           /\ a <= b <=> AlignUp(a) <= b
  <1> DEFINE d == AlignDown(a)
             u == AlignUp(a)
  <1>1. /\ d \in Int /\ Aligned(d) /\ d <= a /\ a < d + ALIGN_SIZE
        /\ u \in Int /\ Aligned(u) /\ a <= u /\ u < a + ALIGN_SIZE
        /\ ALIGN_SIZE \in Nat
    BY Alignment
  <1> HIDE DEF d, u
  <1>2. b > d => d + ALIGN_SIZE <= b
    BY <1>1, AlignedApart
  <1>3. b < u => b + ALIGN_SIZE <= u
    BY <1>1, AlignedApart
  <1>4. (b <= a <=> b <= d) /\ (a <= b <=> u <= b)
    BY <1>1, <1>2, <1>3
  <1>5. QED
    BY <1>4 DEF d, u

\* Aligning commutes with a shift by whole units.
LEMMA AlignShifted ==
    ASSUME NEW a \in Int, NEW b \in Int, Aligned(b)
    PROVE  /\ AlignDown(a + b) = AlignDown(a) + b
           /\ AlignUp(a + b) = AlignUp(a) + b
  <1>1. ASSUME NEW c \in Int, NEW d \in Int, NEW e \in Int, Aligned(d), Aligned(e),
               d <= c, c < d + ALIGN_SIZE, e <= c, c < e + ALIGN_SIZE
        PROVE  d = e
    BY <1>1, AlignedApart, AlignAssumption
  <1>2. Aligned(AlignDown(a) + b) /\ Aligned(AlignUp(a) + b)
    BY Alignment, AlignedSum
  <1>3. AlignDown(a + b) = AlignDown(a) + b
    <2>1. a + b \in Int
      OBVIOUS
    <2>2. /\ AlignDown(a + b) \in Int /\ Aligned(AlignDown(a + b))
          /\ AlignDown(a + b) <= a + b /\ a + b < AlignDown(a + b) + ALIGN_SIZE
      BY <2>1, Alignment
    <2>3. /\ AlignDown(a) + b \in Int
          /\ AlignDown(a) + b <= a + b /\ a + b < AlignDown(a) + b + ALIGN_SIZE
      BY Alignment
    <2>4. QED
      BY <1>1, <1>2, <2>1, <2>2, <2>3
  <1>4. AlignUp(a + b) = AlignUp(a) + b
    <2> DEFINE u == AlignUp(a)
               v == AlignUp(a + b)
    <2>1. a + b \in Int
      OBVIOUS
    <2>2. u \in Int /\ v \in Int /\ Aligned(v) /\ Aligned(u + b) /\ a <= u /\ a + b <= v
      BY <1>2, <2>1, Alignment
    <2>3. v <= u + b
      BY <2>1, <2>2, AlignDownIsGreatest
    <2>4. Aligned(v - b)
      BY <2>2, AlignedSum
    <2>5. u <= v - b
      <3>1. v - b \in Int /\ a <= v - b
        BY <2>2
      <3>2. QED
        BY <2>4, <3>1, AlignDownIsGreatest
    <2>6. QED
      BY <2>2, <2>3, <2>5
  <1>5. QED
    BY <1>3, <1>4

\* What is aligned stays as it is.
LEMMA AlignedIsKept ==
    ASSUME NEW a \in Int, Aligned(a)
    PROVE  AlignDown(a) = a /\ AlignUp(a) = a
  <1>1. AlignDown(a) \in Int /\ AlignDown(a) <= a /\ AlignUp(a) \in Int /\ a <= AlignUp(a)
    BY Alignment
  <1>2. a <= AlignDown(a) /\ AlignUp(a) <= a
    BY AlignDownIsGreatest
  <1>3. QED
    BY <1>1, <1>2

\* The units a block of memory touches, and how lmm_free computes them.
End(pos, size) == AlignUp(pos + size)

\* The whole units a block touches, as lmm_free and lmm_alloc_gen compute them.
LEMMA UnitsOfABlock ==
    ASSUME NEW pos \in Int, NEW size \in Nat \ {0}
    PROVE  /\ AlignDown(pos) \in Int /\ End(pos, size) \in Int
           /\ Aligned(AlignDown(pos)) /\ Aligned(End(pos, size))
           /\ AlignDown(pos) <= pos /\ pos + size <= End(pos, size)
           /\ AlignDown(pos) < End(pos, size)
           /\ AlignUp((pos % ALIGN_SIZE) + size) = End(pos, size) - AlignDown(pos)
  <1>1. pos + size \in Int /\ (pos % ALIGN_SIZE) + size \in Int
    BY Division, AlignAssumption
  <1>2. pos + size = ((pos % ALIGN_SIZE) + size) + AlignDown(pos)
    <2>1. PICK r \in Int : r = pos % ALIGN_SIZE
      BY Division, AlignAssumption
    <2>2. pos + size = (r + size) + (pos - r)
      OBVIOUS
    <2>3. QED
      BY <2>1, <2>2 DEF AlignDown
  <1>3. AlignUp(pos + size) = AlignUp((pos % ALIGN_SIZE) + size) + AlignDown(pos)
    BY <1>1, <1>2, Alignment, AlignShifted
  <1>4. QED
    BY <1>1, <1>3, Alignment DEF End

-----------------------------------------------------------------------------
(* Least elements, and induction over indices.                             *)

\* A set of naturals that is not empty has a least element.
LEMMA LeastOf ==
    ASSUME NEW T \in SUBSET Nat, T # {}
    PROVE  \E i \in T : \A j \in T : i <= j
  <1> DEFINE upTo == {1 .. i : i \in T}
             smaller == StrictSubsetOrdering(Nat)
  <1>1. upTo \subseteq FiniteSubsetsOf(Nat) /\ upTo # {}
    <2>1. ASSUME NEW i \in T
          PROVE  1 .. i \in FiniteSubsetsOf(Nat)
      <3>1. IsFiniteSet(1 .. i) /\ 1 .. i \subseteq Nat
        BY FS_Interval
      <3>2. QED
        BY <3>1 DEF FiniteSubsetsOf
    <2>2. QED
      BY <2>1
  <1>2. PICK few \in upTo : \A other \in upTo : <<other, few>> \notin smaller
    <2> HIDE DEF upTo, smaller
    <2>1. QED
      BY <1>1, FS_StrictSubsetOrderingWellFounded, WFMin DEF smaller
  <1>3. PICK i \in T : few = 1 .. i
    OBVIOUS
  <1>4. ASSUME NEW j \in T, j < i
        PROVE  FALSE
    <2>1. 1 .. j \subseteq 1 .. i /\ 1 .. j # 1 .. i
      <3>1. i \in 1 .. i /\ i \notin 1 .. j
        BY <1>4
      <3>2. QED
        BY <1>4, <3>1
    <2>2. 1 .. j \in SUBSET Nat /\ 1 .. i \in SUBSET Nat
      OBVIOUS
    <2>3. <<1 .. j, 1 .. i>> \in smaller
      BY <2>1, <2>2 DEF StrictSubsetOrdering
    <2>4. QED
      BY <1>2, <1>3, <2>3
  <1>5. QED
    BY <1>4

\* It is what Min picks.
LEMMA MinIsLeast ==
    ASSUME NEW T \in SUBSET Nat, T # {}
    PROVE  Min(T) \in T /\ \A j \in T : Min(T) <= j
  <1>1. \E i \in T : \A j \in T : i <= j
    BY LeastOf
  <1>2. QED
    BY <1>1 DEF Min

\* The index SelectInSeq gives, of the set of those that pass its test.
LEMMA FirstIndex ==
    ASSUME NEW n \in Nat, NEW T \in SUBSET (1 .. n), NEW k,
           k = IF T # {} THEN Min(T) ELSE 0
    PROVE  /\ k \in 0 .. n
           /\ k = 0 <=> T = {}
           /\ k # 0 => k \in T /\ k \in 1 .. n
           /\ \A j \in 1 .. n : (k = 0 \/ j < k) => j \notin T
  <1>1. CASE T = {}
    BY <1>1
  <1>2. CASE T # {}
    <2>1. T \in SUBSET Nat
      OBVIOUS
    <2>2. Min(T) \in T /\ \A j \in T : Min(T) <= j
      BY <1>2, <2>1, MinIsLeast
    <2>3. k \in T /\ \A j \in T : k <= j
      BY <1>2, <2>2
    <2>4. k \in 1 .. n
      BY <2>3
    <2>5. \A j \in 1 .. n : j < k => j \notin T
      BY <2>3, <2>4
    <2>6. QED
      BY <1>2, <2>3, <2>4, <2>5
  <1>3. QED
    BY <1>1, <1>2

\* A set with 0 in it and with the successor of each of its members below n.
LEMMA IndexInduction ==
    ASSUME NEW n \in Nat, NEW T, 0 \in T,
           \A k \in 1 .. n : k - 1 \in T => k \in T
    PROVE  0 .. n \subseteq T
  <1> DEFINE missing == {k \in 0 .. n : k \notin T}
  <1>1. SUFFICES ASSUME missing # {}
                 PROVE  FALSE
    OBVIOUS
  <1>2. missing \in SUBSET Nat
    OBVIOUS
  <1>3. PICK k \in missing : \A j \in missing : k <= j
    BY <1>1, <1>2, LeastOf
  <1>4. k \in 1 .. n
    <2>1. k # 0
      OBVIOUS
    <2>2. QED
      BY <2>1
  <1>5. k - 1 \in T
    <2>1. k - 1 \in 0 .. n /\ k - 1 < k
      BY <1>4
    <2>2. k - 1 \notin missing
      BY <1>3, <1>4, <2>1
    <2>3. QED
      BY <2>1, <2>2
  <1>6. QED
    BY <1>4, <1>5

\* Max picks the greatest of a set of indices.
LEMMA GreatestOf ==
    ASSUME NEW n \in Nat, NEW T \in SUBSET (1 .. n), T # {}
    PROVE  Max(T) \in T /\ \A j \in T : j <= Max(T)
  <1> DEFINE left == {n - i : i \in T}
  <1>1. left \in SUBSET Nat /\ left # {}
    <2>1. \A i \in T : n - i \in Nat
      OBVIOUS
    <2>2. PICK i \in T : TRUE
      OBVIOUS
    <2>3. n - i \in left
      OBVIOUS
    <2>4. QED
      BY <2>1, <2>3
  <1>2. PICK l \in left : \A j \in left : l <= j
    BY <1>1, LeastOf
  <1>3. PICK i \in T : l = n - i
    OBVIOUS
  <1>4. \A j \in T : j <= i
    <2>1. SUFFICES ASSUME NEW j \in T PROVE j <= i
      OBVIOUS
    <2>2. n - j \in left
      OBVIOUS
    <2>3. n - i <= n - j
      BY <1>2, <1>3, <2>2
    <2>4. QED
      BY <2>3
  <1>5. \E m \in T : \A j \in T : m >= j
    BY <1>4
  <1>6. Max(T) \in T /\ \A j \in T : Max(T) >= j
    BY <1>5 DEF Max
  <1>7. QED
    <2>1. \A j \in T : j \in Int
      OBVIOUS
    <2>2. Max(T) \in Int
      BY <1>6, <2>1
    <2>3. QED
      BY <1>6, <2>1, <2>2

-----------------------------------------------------------------------------
(* Folds.  A fold over the indices 1 .. n whose step at k is G[k].         *)

IsFold(f, n, base, G) ==
    \A s \in SUBSET (1 .. n) : f[s] = IF s = {} THEN base ELSE G[Max(s)][f[s \ {Max(s)}]]

\* The values of a fold, index by index.
IsTrace(t, n, base, G) ==
    /\ t[0] = base
    /\ \A k \in 1 .. n : t[k] = G[k][t[k - 1]]

\* A fold over the first n indices has a function of the subsets that is its value.
LEMMA FoldExists ==
    ASSUME NEW n \in Nat, NEW V, NEW base \in V, NEW G \in [1 .. n -> [V -> V]]
    PROVE  \E f \in [SUBSET (1 .. n) -> V] : IsFold(f, n, base, G)
  <1> DEFINE Is(f, k) == \A s \in SUBSET (1 .. k) :
                 f[s] = IF s = {} THEN base ELSE G[Max(s)][f[s \ {Max(s)}]]
             T == {k \in 0 .. n : \E f \in [SUBSET (1 .. k) -> V] : Is(f, k)}
  <1>1. 0 \in T
    <2>1. [s \in SUBSET (1 .. 0) |-> base] \in [SUBSET (1 .. 0) -> V]
      OBVIOUS
    <2>2. 1 .. 0 = {}
      OBVIOUS
    <2>3. Is([s \in SUBSET (1 .. 0) |-> base], 0)
      BY <2>2
    <2>4. 0 \in 0 .. n
      OBVIOUS
    <2> HIDE DEF Is
    <2>5. QED
      BY <2>1, <2>3, <2>4
  <1>2. ASSUME NEW k \in 1 .. n, k - 1 \in T
        PROVE  k \in T
    <2>1. PICK f \in [SUBSET (1 .. k - 1) -> V] : Is(f, k - 1)
      BY <1>2
    <2> DEFINE g == [s \in SUBSET (1 .. k) |->
                        IF k \in s THEN G[k][f[s \ {k}]] ELSE f[s]]
    <2>2. ASSUME NEW s \in SUBSET (1 .. k), k \in s
          PROVE  s \ {k} \in SUBSET (1 .. k - 1) /\ Max(s) = k
      <3>1. \A j \in s : j \in 1 .. n /\ j <= k
        OBVIOUS
      <3>2. \A j \in s \ {k} : j \in 1 .. k - 1
        BY <3>1
      <3>3. s \in SUBSET (1 .. n) /\ s # {}
        BY <2>2, <3>1
      <3>4. Max(s) \in s /\ k <= Max(s)
        BY <2>2, <3>3, GreatestOf
      <3>5. Max(s) = k
        <4>1. Max(s) \in 1 .. n /\ Max(s) <= k
          BY <3>1, <3>4
        <4>2. QED
          BY <3>4, <4>1
      <3>6. QED
        BY <3>2, <3>5
    <2>3. ASSUME NEW s \in SUBSET (1 .. k), k \notin s
          PROVE  s \in SUBSET (1 .. k - 1)
      BY <2>3
    <2>4. g \in [SUBSET (1 .. k) -> V]
      <3>1. SUFFICES ASSUME NEW s \in SUBSET (1 .. k)
                     PROVE  (IF k \in s THEN G[k][f[s \ {k}]] ELSE f[s]) \in V
        OBVIOUS
      <3>2. CASE k \in s
        BY <2>2, <3>2
      <3>3. CASE k \notin s
        BY <2>3, <3>3
      <3>4. QED
        BY <3>2, <3>3
    <2>5. Is(g, k)
      <3>1. SUFFICES ASSUME NEW s \in SUBSET (1 .. k)
                     PROVE  g[s] = IF s = {} THEN base ELSE G[Max(s)][g[s \ {Max(s)}]]
        OBVIOUS
      <3>2. CASE k \in s
        <4>1. Max(s) = k /\ s \ {k} \in SUBSET (1 .. k - 1)
          BY <2>2, <3>2
        <4>2. g[s \ {k}] = f[s \ {k}] /\ g[s] = G[k][f[s \ {k}]]
          BY <3>2, <4>1
        <4> HIDE DEF g
        <4>3. QED
          BY <3>2, <4>1, <4>2
      <3>3. CASE k \notin s
        <4>1. s \in SUBSET (1 .. k - 1)
          BY <2>3, <3>3
        <4>2. f[s] = IF s = {} THEN base ELSE G[Max(s)][f[s \ {Max(s)}]]
          BY <2>1, <4>1
        <4>3. g[s] = f[s]
          BY <3>3
        <4>4. g[s \ {Max(s)}] = f[s \ {Max(s)}]
          BY <3>3, <4>1
        <4> HIDE DEF g
        <4>5. QED
          BY <4>2, <4>3, <4>4
      <3>4. QED
        BY <3>2, <3>3
    <2>6. QED
      <3> HIDE DEF g, Is
      <3>1. QED
        BY <2>4, <2>5
  <1>3. n \in T
    <2> HIDE DEF T
    <2>1. 0 .. n \subseteq T
      BY <1>1, <1>2, IndexInduction
    <2>2. QED
      BY <2>1
  <1>4. QED
    BY <1>3 DEF IsFold

StepsWhereTyped(it, n, base, G, V) ==
    /\ it[{}] = base
    /\ \A s \in SUBSET (1 .. n) :
          s # {} /\ it[s \ {Max(s)}] \in V => it[s] = G[Max(s)][it[s \ {Max(s)}]]

\* Any function that steps as the fold does where its values are typed is
\* traced index by index.
LEMMA FoldTrace ==
    ASSUME NEW n \in Nat, NEW V, NEW base \in V, NEW G \in [1 .. n -> [V -> V]],
           NEW it, StepsWhereTyped(it, n, base, G, V)
    PROVE  \E t \in [0 .. n -> V] : IsTrace(t, n, base, G) /\ it[1 .. n] = t[n]
  <1>0. /\ it[{}] = base
        /\ \A s \in SUBSET (1 .. n) :
              s # {} /\ it[s \ {Max(s)}] \in V => it[s] = G[Max(s)][it[s \ {Max(s)}]]
    BY DEF StepsWhereTyped
  <1> DEFINE t == [k \in 0 .. n |-> it[1 .. k]]
             T == {k \in 0 .. n : t[k] \in V}
  <1>1. t[0] = base
    <2>1. 1 .. 0 = {}
      OBVIOUS
    <2>2. QED
      BY <1>0, <2>1
  <1>2. ASSUME NEW k \in 1 .. n, t[k - 1] \in V
        PROVE  t[k] = G[k][t[k - 1]] /\ t[k] \in V
    <2> DEFINE s == 1 .. k
    <2>1. s \in SUBSET (1 .. n) /\ s # {} /\ k \in s
      <3>1. k \in s
        OBVIOUS
      <3>2. \A j \in s : j \in 1 .. n
        OBVIOUS
      <3>3. QED
        BY <3>1, <3>2
    <2>2. Max(s) = k
      <3>1. \A j \in s : j \in Int /\ j <= k
        OBVIOUS
      <3> HIDE DEF s
      <3>2. Max(s) \in s /\ k <= Max(s)
        BY <2>1, GreatestOf
      <3>3. Max(s) \in Int /\ Max(s) <= k /\ k \in Int
        BY <3>1, <3>2
      <3>4. QED
        BY <3>2, <3>3
    <2>3. s \ {k} = 1 .. k - 1
      OBVIOUS
    <2>4. it[1 .. k - 1] = t[k - 1] /\ it[s] = t[k]
      OBVIOUS
    <2>5. t[k] = G[k][t[k - 1]]
      <3> HIDE DEF s, t
      <3>1. QED
        BY <1>0, <1>2, <2>1, <2>2, <2>3, <2>4
    <2>6. QED
      <3> HIDE DEF t
      <3>1. QED
        BY <1>2, <2>5
  <1>3. \A k \in 0 .. n : t[k] \in V
    <2>1. 0 \in T
      BY <1>1
    <2>2. \A k \in 1 .. n : k - 1 \in T => k \in T
      <3> HIDE DEF t
      <3>1. QED
        BY <1>2
    <2> HIDE DEF T
    <2>3. 0 .. n \subseteq T
      BY <2>1, <2>2, IndexInduction
    <2>4. QED
      BY <2>3 DEF T
  <1>4. t \in [0 .. n -> V]
    BY <1>3
  <1>5. \A k \in 1 .. n : t[k] = G[k][t[k - 1]]
    <2>1. \A k \in 1 .. n : k - 1 \in 0 .. n
      OBVIOUS
    <2> HIDE DEF t
    <2>2. QED
      BY <1>2, <1>3, <2>1
  <1>6. it[1 .. n] = t[n]
    OBVIOUS
  <1>7. QED
    <2> HIDE DEF t
    <2>1. QED
      BY <1>1, <1>4, <1>5, <1>6 DEF IsTrace

-----------------------------------------------------------------------------
(* Free lists.                                                             *)

FreeNode == [at : Int, size : Int]

IsFreeList(nodes, lo, hi) ==
    /\ nodes \in Seq(FreeNode)
    /\ \A j \in 1 .. Len(nodes) :
          /\ Aligned(nodes[j].at) /\ Aligned(nodes[j].size) /\ 0 < nodes[j].size
          /\ lo <= nodes[j].at /\ nodes[j].at + nodes[j].size <= hi
    /\ \A j, k \in 1 .. Len(nodes) :
          j < k => nodes[j].at + nodes[j].size < nodes[k].at

ListBytes(nodes) == UNION {n.at .. n.at + n.size - 1 : n \in ToSet(nodes)}

\* The types of the fields of a list's nodes.
LEMMA NodeTypes ==
    ASSUME NEW nodes \in Seq(FreeNode)
    PROVE  /\ Len(nodes) \in Nat
           /\ \A j \in 1 .. Len(nodes) : /\ nodes[j] \in FreeNode
                                        /\ nodes[j].at \in Int /\ nodes[j].size \in Int
  <1>1. Len(nodes) \in Nat /\ \A j \in 1 .. Len(nodes) : nodes[j] \in FreeNode
    BY LenProperties, ElementOfSeq
  <1>2. \A node \in FreeNode : node.at \in Int /\ node.size \in Int
    BY DEF FreeNode
  <1>3. QED
    BY <1>1, <1>2

\* A byte is free in a list if one of its nodes covers it.
LEMMA InListBytes ==
    ASSUME NEW nodes \in Seq(FreeNode), NEW a
    PROVE  a \in ListBytes(nodes) <=>
              /\ a \in Int
              /\ \E j \in 1 .. Len(nodes) :
                    nodes[j].at <= a /\ a < nodes[j].at + nodes[j].size
  <1>1. DOMAIN nodes = 1 .. Len(nodes)
    BY LenProperties
  <1>2. \A j \in 1 .. Len(nodes) : nodes[j].at \in Int /\ nodes[j].size \in Int
    BY NodeTypes
  <1>3. a \in ListBytes(nodes) <=>
           \E j \in 1 .. Len(nodes) : a \in nodes[j].at .. nodes[j].at + nodes[j].size - 1
    BY <1>1 DEF ListBytes, ToSet
  <1>4. \A j \in 1 .. Len(nodes) :
           a \in nodes[j].at .. nodes[j].at + nodes[j].size - 1 <=>
              a \in Int /\ nodes[j].at <= a /\ a < nodes[j].at + nodes[j].size
    BY <1>2
  <1>5. QED
    BY <1>3, <1>4

\* The nodes from i + 1 to j - 1 replaced by others.
Spliced(nodes, i, others, j) == SubSeq(nodes, 1, i) \o others \o SubSeq(nodes, j, Len(nodes))

IsSpliced(r, S, s, i, t, j) ==
    /\ r \in Seq(S)
    /\ Len(r) = i + Len(t) + (Len(s) - j + 1)
    /\ \A x \in 1 .. i : r[x] = s[x]
    /\ \A x \in 1 .. Len(t) : r[i + x] = t[x]
    /\ \A x \in j .. Len(s) : r[i + Len(t) + (x - j + 1)] = s[x]

\* The elements of a list with others put in between, place by place.
LEMMA SplicedElements ==
    ASSUME NEW S, NEW s \in Seq(S), NEW t \in Seq(S), NEW i \in 0 .. Len(s),
           NEW j \in 1 .. Len(s) + 1
    PROVE  IsSpliced(Spliced(s, i, t, j), S, s, i, t, j)
  <1> DEFINE r == Spliced(s, i, t, j)
  <1> DEFINE a == SubSeq(s, 1, i)
             b == SubSeq(s, j, Len(s))
  <1>1. Len(s) \in Nat /\ Len(t) \in Nat
    BY LenProperties
  <1>2. a \in Seq(S) /\ Len(a) = i /\ \A x \in 1 .. i : a[x] = s[x]
    <2>1. \A x \in 1 .. i : s[x] \in S
      BY <1>1, ElementOfSeq
    <2>2. 1 \in Int /\ i \in Int /\ (IF 1 <= i THEN i - 1 + 1 ELSE 0) = i
      BY <1>1
    <2>3. /\ a \in Seq(S) /\ Len(a) = IF 1 <= i THEN i - 1 + 1 ELSE 0
          /\ \A x \in 1 .. i - 1 + 1 : a[x] = s[1 + x - 1]
      BY <2>1, <2>2, SubSeqProperties
    <2>4. QED
      <3> HIDE DEF a
      <3>1. \A x \in 1 .. i : x \in 1 .. i - 1 + 1 /\ 1 + x - 1 = x
        BY <1>1
      <3>2. QED
        BY <2>2, <2>3, <3>1
  <1>3. /\ b \in Seq(S) /\ Len(b) = Len(s) - j + 1
        /\ \A x \in j .. Len(s) : b[x - j + 1] = s[x]
    <2>1. \A x \in j .. Len(s) : s[x] \in S
      BY <1>1, ElementOfSeq
    <2>2. j \in Int /\ Len(s) \in Int
          /\ (IF j <= Len(s) THEN Len(s) - j + 1 ELSE 0) = Len(s) - j + 1
      BY <1>1
    <2>3. /\ b \in Seq(S) /\ Len(b) = IF j <= Len(s) THEN Len(s) - j + 1 ELSE 0
          /\ \A x \in 1 .. Len(s) - j + 1 : b[x] = s[j + x - 1]
      BY <2>1, <2>2, SubSeqProperties
    <2>4. QED
      <3> HIDE DEF b
      <3>1. \A x \in j .. Len(s) : x - j + 1 \in 1 .. Len(s) - j + 1 /\ j + (x - j + 1) - 1 = x
        BY <1>1
      <3>2. QED
        BY <2>2, <2>3, <3>1
  <1> HIDE DEF a, b
  <1>4. /\ a \o t \in Seq(S) /\ Len(a \o t) = i + Len(t)
        /\ \A x \in 1 .. i + Len(t) : (a \o t)[x] = IF x <= i THEN a[x] ELSE t[x - i]
    BY <1>2, ConcatProperties
  <1>5. /\ (a \o t) \o b \in Seq(S)
        /\ Len((a \o t) \o b) = i + Len(t) + (Len(s) - j + 1)
        /\ \A x \in 1 .. i + Len(t) + (Len(s) - j + 1) :
              ((a \o t) \o b)[x] = IF x <= i + Len(t) THEN (a \o t)[x] ELSE b[x - (i + Len(t))]
    <2>1. PICK c : c = a \o t
      OBVIOUS
    <2>2. PICK d : d = b
      OBVIOUS
    <2>3. c \in Seq(S) /\ d \in Seq(S) /\ Len(c) = i + Len(t) /\ Len(d) = Len(s) - j + 1
      BY <1>3, <1>4, <2>1, <2>2
    <2>4. c \o d \in Seq(S) /\ Len(c \o d) = Len(c) + Len(d)
      BY <2>3, ConcatProperties
    <2>5. \A x \in 1 .. Len(c) + Len(d) :
                (c \o d)[x] = IF x <= Len(c) THEN c[x] ELSE d[x - Len(c)]
      <3>1. c \in Seq(S) /\ d \in Seq(S)
        BY <2>3
      <3>2. QED
        BY <3>1, ConcatProperties
    <2>6. QED
      BY <2>1, <2>2, <2>3, <2>4, <2>5
  <1>6. Spliced(s, i, t, j) = (a \o t) \o b
    BY DEF Spliced, a, b
  <1>c. r = (a \o t) \o b
    BY <1>6
  <1>7. \A x \in 1 .. i : r[x] = s[x]
    <2>1. SUFFICES ASSUME NEW x \in 1 .. i PROVE r[x] = s[x]
      OBVIOUS
    <2>2. x \in 1 .. i + Len(t) + (Len(s) - j + 1) /\ x <= i + Len(t) /\ x \in 1 .. i + Len(t)
          /\ x <= i
      BY <1>1
    <2>3. QED
      BY <1>2, <1>4, <1>5, <1>c, <2>2
  <1>8. \A x \in 1 .. Len(t) : r[i + x] = t[x]
    <2>1. SUFFICES ASSUME NEW x \in 1 .. Len(t) PROVE r[i + x] = t[x]
      OBVIOUS
    <2>2. i + x \in 1 .. i + Len(t) + (Len(s) - j + 1) /\ i + x <= i + Len(t)
          /\ i + x \in 1 .. i + Len(t) /\ ~(i + x <= i) /\ (i + x) - i = x
      BY <1>1
    <2>3. QED
      BY <1>4, <1>5, <1>c, <2>2
  <1>9. \A x \in j .. Len(s) : r[i + Len(t) + (x - j + 1)] = s[x]
    <2>1. SUFFICES ASSUME NEW x \in j .. Len(s)
                   PROVE  r[i + Len(t) + (x - j + 1)] = s[x]
      OBVIOUS
    <2> DEFINE y == i + Len(t) + (x - j + 1)
    <2>2. y \in 1 .. i + Len(t) + (Len(s) - j + 1) /\ ~(y <= i + Len(t))
          /\ y - (i + Len(t)) = x - j + 1
      BY <1>1
    <2> HIDE DEF y
    <2>3. r[y] = s[x]
      BY <1>3, <1>5, <1>c, <2>2
    <2>4. QED
      BY <2>3 DEF y
  <1>10. QED
    <2> HIDE DEF r
    <2>1. r \in Seq(S) /\ Len(r) = i + Len(t) + (Len(s) - j + 1)
      BY <1>5, <1>c
    <2>2. IsSpliced(r, S, s, i, t, j)
      BY <1>7, <1>8, <1>9, <2>1 DEF IsSpliced
    <2>3. QED
      BY <2>2 DEF r

\* Each place of the spliced list is one of these.
LEMMA SplicedPlaces ==
    ASSUME NEW i \in Nat, NEW m \in Nat, NEW j \in Nat, NEW n \in Nat,
           i <= n, 1 <= j, j <= n + 1, NEW y \in 1 .. i + m + (n - j + 1)
    PROVE  \/ y \in 1 .. i
           \/ \E x \in 1 .. m : y = i + x
           \/ \E x \in j .. n : y = i + m + (x - j + 1)
  <1>1. CASE y <= i
    BY <1>1
  <1>2. CASE i < y /\ y <= i + m
    <2>1. y - i \in 1 .. m /\ y = i + (y - i)
      BY <1>2
    <2>2. QED
      BY <2>1
  <1>3. CASE i + m < y
    <2>1. y - i - m + j - 1 \in j .. n /\ y = i + m + ((y - i - m + j - 1) - j + 1)
      BY <1>3
    <2>2. QED
      BY <2>1
  <1>4. QED
    BY <1>1, <1>2, <1>3

\* The list r is free, of the bytes of others and of the nodes around them.
IsSplicedList(r, nodes, i, others, j, lo, hi) ==
    /\ IsFreeList(r, lo, hi)
    /\ \A a \in Int : a \in ListBytes(r) <=>
          \/ a \in ListBytes(others)
          \/ \E x \in (1 .. i) \cup (j .. Len(nodes)) :
                nodes[x].at <= a /\ a < nodes[x].at + nodes[x].size

\* Splicing nodes in between leaves a free list.
LEMMA SplicedList ==
    ASSUME NEW lo \in Int, NEW hi \in Int, NEW nodes, IsFreeList(nodes, lo, hi),
           NEW i \in 0 .. Len(nodes), NEW j \in i + 1 .. Len(nodes) + 1,
           NEW from \in Int, NEW to \in Int, lo <= from, to <= hi,
           NEW others, IsFreeList(others, from, to),
           \A x \in 1 .. i : nodes[x].at + nodes[x].size < from,
           \A x \in j .. Len(nodes) : to < nodes[x].at,
           from <= to
    PROVE  IsSplicedList(Spliced(nodes, i, others, j), nodes, i, others, j, lo, hi)
  <1> DEFINE r == Spliced(nodes, i, others, j)
             n == Len(nodes)
             m == Len(others)
  <1>0. nodes \in Seq(FreeNode) /\ others \in Seq(FreeNode)
    BY DEF IsFreeList
  <1>1. /\ r \in Seq(FreeNode) /\ n \in Nat /\ m \in Nat
        /\ Len(r) = i + m + (n - j + 1)
        /\ \A x \in 1 .. i : r[x] = nodes[x]
        /\ \A x \in 1 .. m : r[i + x] = others[x]
        /\ \A x \in j .. n : r[i + m + (x - j + 1)] = nodes[x]
    <2>1. Len(nodes) \in Nat /\ Len(others) \in Nat
      BY <1>0, LenProperties
    <2>2. j \in 1 .. Len(nodes) + 1
      BY <2>1
    <2>3. IsSpliced(r, FreeNode, nodes, i, others, j)
      BY <1>0, <2>2, SplicedElements
    <2>4. QED
      <3> HIDE DEF r
      <3>1. QED
        BY <2>1, <2>3 DEF IsSpliced
  <1>r. n \in Nat /\ m \in Nat /\ i \in 0 .. n /\ j \in i + 1 .. n + 1
        /\ Len(r) = i + m + (n - j + 1)
    BY <1>1
  <1>2. /\ \A x \in 1 .. n : nodes[x].at \in Int /\ nodes[x].size \in Int
        /\ \A x \in 1 .. m : others[x].at \in Int /\ others[x].size \in Int
    BY <1>0, NodeTypes
  <1>3. ASSUME NEW y \in 1 .. Len(r)
        PROVE  \/ y \in 1 .. i /\ r[y] = nodes[y]
               \/ \E x \in 1 .. m : y = i + x /\ r[y] = others[x]
               \/ \E x \in j .. n : y = i + m + (x - j + 1) /\ r[y] = nodes[x]
    <2> HIDE DEF r, n, m
    <2>1. i \in Nat /\ j \in Nat /\ i <= n /\ 1 <= j /\ j <= n + 1
          /\ y \in 1 .. i + m + (n - j + 1)
      BY <1>r
    <2>2. \/ y \in 1 .. i
          \/ \E x \in 1 .. m : y = i + x
          \/ \E x \in j .. n : y = i + m + (x - j + 1)
      BY <1>r, <2>1, SplicedPlaces
    <2>3. QED
      BY <1>1, <2>2
  <1>4. /\ \A x \in 1 .. i : x \in 1 .. n
        /\ \A x \in j .. n : x \in 1 .. n
    BY <1>r
  <1>5. /\ \A x \in 1 .. n :
              /\ Aligned(nodes[x].at) /\ Aligned(nodes[x].size) /\ 0 < nodes[x].size
              /\ lo <= nodes[x].at /\ nodes[x].at + nodes[x].size <= hi
        /\ \A x \in 1 .. m :
              /\ Aligned(others[x].at) /\ Aligned(others[x].size) /\ 0 < others[x].size
              /\ from <= others[x].at /\ others[x].at + others[x].size <= to
        /\ \A x, y \in 1 .. n : x < y => nodes[x].at + nodes[x].size < nodes[y].at
        /\ \A x, y \in 1 .. m : x < y => others[x].at + others[x].size < others[y].at
    BY DEF IsFreeList
  <1> HIDE DEF r, n, m
  <1>6. ASSUME NEW y \in 1 .. Len(r)
        PROVE  /\ Aligned(r[y].at) /\ Aligned(r[y].size) /\ 0 < r[y].size
               /\ lo <= r[y].at /\ r[y].at + r[y].size <= hi
    <2>1. ASSUME NEW x \in 1 .. n, r[y] = nodes[x]
          PROVE  <1>6!2
      BY <1>5, <2>1
    <2>2. ASSUME NEW x \in 1 .. m, r[y] = others[x]
          PROVE  <1>6!2
      <3>1. PICK p \in Int, s \in Int : others[x].at = p /\ others[x].size = s
        BY <1>2
      <3>2. /\ Aligned(p) /\ Aligned(s) /\ 0 < s
            /\ from <= p /\ p + s <= to
        BY <1>5, <3>1, Zenon
      <3>3. lo <= p /\ p + s <= hi
        BY <3>2
      <3>4. QED
        BY <2>2, <3>1, <3>2, <3>3, Zenon
    <2>3. QED
      BY <1>3, <1>4, <2>1, <2>2
  <1>7. ASSUME NEW y \in 1 .. Len(r), NEW z \in 1 .. Len(r), y < z
        PROVE  r[y].at + r[y].size < r[z].at
    <2>0. y \in Int /\ z \in Int
      BY <1>1
    <2>1. ASSUME NEW x \in 1 .. n, r[y] = nodes[x], NEW w \in 1 .. n, r[z] = nodes[w], x < w
          PROVE  r[y].at + r[y].size < r[z].at
      BY <1>5, <2>1
    <2>2. ASSUME NEW x \in 1 .. i, r[y] = nodes[x], NEW w \in 1 .. m, r[z] = others[w]
          PROVE  r[y].at + r[y].size < r[z].at
      <3>1. x \in 1 .. n
        BY <1>4
      <3>2. PICK p \in Int, s \in Int, q \in Int :
               nodes[x].at = p /\ nodes[x].size = s /\ others[w].at = q
        BY <1>2, <3>1
      <3>3. nodes[x].at + nodes[x].size < from /\ from <= others[w].at
        BY <1>5
      <3>4. p + s < from /\ from <= q
        BY <3>2, <3>3, Zenon
      <3>5. p + s < q
        BY <3>4
      <3>6. QED
        BY <2>2, <3>2, <3>5, Zenon
    <2>3. ASSUME NEW x \in 1 .. m, r[y] = others[x], NEW w \in 1 .. m, r[z] = others[w], x < w
          PROVE  r[y].at + r[y].size < r[z].at
      BY <1>5, <2>3
    <2>4. ASSUME NEW x \in 1 .. m, r[y] = others[x], NEW w \in j .. n, r[z] = nodes[w]
          PROVE  r[y].at + r[y].size < r[z].at
      <3>1. others[x].at + others[x].size <= to /\ to < nodes[w].at /\ w \in 1 .. n
        BY <1>4, <1>5 DEF n
      <3>2. PICK p \in Int, s \in Int, q \in Int :
               others[x].at = p /\ others[x].size = s /\ nodes[w].at = q
        BY <1>2, <3>1
      <3>3. p + s <= to /\ to < q
        BY <3>1, <3>2, Zenon
      <3>4. p + s < q
        BY <3>3
      <3>5. QED
        BY <2>4, <3>2, <3>4, Zenon
    <2>5. CASE y \in 1 .. i /\ r[y] = nodes[y]
      <3>1. CASE z \in 1 .. i /\ r[z] = nodes[z]
        BY <1>4, <1>7, <2>1, <2>5, <3>1
      <3>2. ASSUME NEW x \in 1 .. m, r[z] = others[x]
            PROVE  r[y].at + r[y].size < r[z].at
        BY <2>2, <2>5, <3>2
      <3>3. ASSUME NEW x \in j .. n, r[z] = nodes[x]
            PROVE  r[y].at + r[y].size < r[z].at
        <4>1. y < x
          BY <1>r, <2>5
        <4>2. QED
          BY <1>4, <2>1, <2>5, <3>3, <4>1
      <3>4. QED
        BY <1>3, <3>1, <3>2, <3>3
    <2>6. ASSUME NEW x \in 1 .. m, y = i + x, r[y] = others[x]
          PROVE  r[y].at + r[y].size < r[z].at
      <3>1. z \notin 1 .. i
        <4>1. i \in Int /\ x \in Int /\ 1 <= x
          BY <1>r
        <4>2. y = i + x /\ y < z
          BY <1>7, <2>6
        <4>3. QED
          BY <2>0, <4>1, <4>2
      <3>2. ASSUME NEW w \in 1 .. m, z = i + w, r[z] = others[w]
            PROVE  r[y].at + r[y].size < r[z].at
        <4>1. x < w
          BY <1>r, <1>7, <2>6, <3>2
        <4>2. QED
          BY <2>3, <2>6, <3>2, <4>1
      <3>3. ASSUME NEW w \in j .. n, r[z] = nodes[w]
            PROVE  r[y].at + r[y].size < r[z].at
        BY <2>4, <2>6, <3>3
      <3>4. QED
        BY <1>3, <3>1, <3>2, <3>3
    <2>7. ASSUME NEW x \in j .. n, y = i + m + (x - j + 1), r[y] = nodes[x]
          PROVE  r[y].at + r[y].size < r[z].at
      <3>1. z \notin 1 .. i /\ \A w \in 1 .. m : z # i + w
        BY <1>r, <1>7, <2>7
      <3>2. PICK w \in j .. n : z = i + m + (w - j + 1) /\ r[z] = nodes[w]
        BY <1>3, <3>1
      <3>3. x < w
        BY <1>r, <1>7, <2>7, <3>2
      <3>4. QED
        BY <1>4, <2>1, <2>7, <3>2, <3>3
    <2>8. QED
      BY <1>3, <2>5, <2>6, <2>7
  <1>8. IsFreeList(r, lo, hi)
    BY <1>1, <1>6, <1>7 DEF IsFreeList
  <1>9. ASSUME NEW a \in Int
        PROVE  a \in ListBytes(r) <=>
                 \/ a \in ListBytes(others)
                 \/ \E x \in (1 .. i) \cup (j .. n) :
                       nodes[x].at <= a /\ a < nodes[x].at + nodes[x].size
    <2>1. ASSUME NEW y \in 1 .. Len(r), r[y].at <= a, a < r[y].at + r[y].size
          PROVE  \/ \E x \in 1 .. m : others[x].at <= a /\ a < others[x].at + others[x].size
                 \/ \E x \in (1 .. i) \cup (j .. n) :
                       nodes[x].at <= a /\ a < nodes[x].at + nodes[x].size
      BY <1>1, <1>3, <2>1
    <2>2. ASSUME NEW x \in 1 .. m, others[x].at <= a, a < others[x].at + others[x].size
          PROVE  \E y \in 1 .. Len(r) : r[y].at <= a /\ a < r[y].at + r[y].size
      <3>1. i + x \in 1 .. Len(r)
        BY <1>r
      <3>2. r[i + x] = others[x]
        BY <1>1
      <3>3. QED
        BY <2>2, <3>1, <3>2
    <2>3. ASSUME NEW x \in (1 .. i) \cup (j .. n),
                 nodes[x].at <= a, a < nodes[x].at + nodes[x].size
          PROVE  \E y \in 1 .. Len(r) : r[y].at <= a /\ a < r[y].at + r[y].size
      <3>1. CASE x \in 1 .. i
        <4>1. x \in 1 .. Len(r)
          BY <1>r, <3>1
        <4>2. r[x] = nodes[x]
          BY <1>1, <3>1
        <4>3. QED
          BY <2>3, <4>1, <4>2
      <3>2. CASE x \in j .. n
        <4>1. i + m + (x - j + 1) \in 1 .. Len(r)
          BY <1>r, <3>2
        <4>2. r[i + m + (x - j + 1)] = nodes[x]
          BY <1>1, <3>2
        <4>3. QED
          BY <2>3, <4>1, <4>2
      <3>3. QED
        BY <3>1, <3>2
    <2>4. a \in ListBytes(r) <=>
             \E y \in 1 .. Len(r) : r[y].at <= a /\ a < r[y].at + r[y].size
      BY <1>1, InListBytes
    <2>5. a \in ListBytes(others) <=>
             \E x \in 1 .. m : others[x].at <= a /\ a < others[x].at + others[x].size
      BY <1>0, InListBytes DEF m
    <2>6. QED
      BY <2>1, <2>2, <2>3, <2>4, <2>5
  <1>10. QED
    <2>1. IsSplicedList(r, nodes, i, others, j, lo, hi)
      BY <1>8, <1>9 DEF IsSplicedList, n
    <2>2. QED
      BY <2>1 DEF r

\* A single node is a free list of its own bytes.
LEMMA OneNode ==
    ASSUME NEW node \in FreeNode, Aligned(node.at), Aligned(node.size), 0 < node.size
    PROVE  /\ IsFreeList(<<node>>, node.at, node.at + node.size)
           /\ \A a : a \in ListBytes(<<node>>) <=>
                        a \in Int /\ node.at <= a /\ a < node.at + node.size
  <1>1. node.at \in Int /\ node.size \in Int
    BY DEF FreeNode
  <1>2. PICK s : s = <<node>>
    OBVIOUS
  <1>3. s \in Seq(FreeNode) /\ Len(s) = 1 /\ s[1] = node
    BY <1>2
  <1>4. \A j \in 1 .. 1 : j = 1
    OBVIOUS
  <1>5. IsFreeList(s, node.at, node.at + node.size)
    BY <1>1, <1>3, <1>4 DEF IsFreeList
  <1>6. \A a : a \in ListBytes(s) <=>
                  a \in Int /\ node.at <= a /\ a < node.at + node.size
    <2>1. SUFFICES ASSUME NEW a
                   PROVE  a \in ListBytes(s) <=>
                             a \in Int /\ node.at <= a /\ a < node.at + node.size
      OBVIOUS
    <2>2. a \in ListBytes(s) <=>
             a \in Int /\ \E j \in 1 .. Len(s) : s[j].at <= a /\ a < s[j].at + s[j].size
      BY <1>3, InListBytes
    <2>3. 1 \in 1 .. 1
      OBVIOUS
    <2>4. QED
      BY <1>3, <1>4, <2>2, <2>3
  <1>7. QED
    BY <1>2, <1>5, <1>6

\* The list is nodes with the bytes from from to to - 1 more.
IsGrown(list, nodes, from, to, lo, hi) ==
    /\ IsFreeList(list, lo, hi)
    /\ \A a \in Int : a \in ListBytes(list) <=>
          a \in ListBytes(nodes) \/ (from <= a /\ a < to)

\* Where the place p of a node in a list is found.
IsPlace(p, nodes, node) ==
    /\ p \in 0 .. Len(nodes)
    /\ \A x \in 1 .. p : nodes[x].at + nodes[x].size <= node.at
    /\ \A x \in p + 1 .. Len(nodes) : node.at + node.size <= nodes[x].at

\* A node that joins the neighbours it touches, and one in its place.
JoinsPrev(nodes, node, p) == p > 0 /\ nodes[p].at + nodes[p].size >= node.at
JoinsNext(nodes, node, p) == p < Len(nodes) /\ node.at + node.size >= nodes[p + 1].at
Joined(nodes, node, p) ==
    Node(IF JoinsPrev(nodes, node, p) THEN nodes[p].at ELSE node.at,
         (IF JoinsPrev(nodes, node, p) THEN nodes[p].size ELSE 0) + node.size
         + (IF JoinsNext(nodes, node, p) THEN nodes[p + 1].size ELSE 0))

\* A node that is joined to its neighbours covers just theirs and its own bytes.
LEMMA FreedAt ==
    ASSUME NEW lo \in Int, NEW hi \in Int, NEW nodes, IsFreeList(nodes, lo, hi),
           NEW node \in FreeNode, NEW p, IsPlace(p, nodes, node)
    PROVE  LET joined == Joined(nodes, node, p)
               prev == JoinsPrev(nodes, node, p)
               next == JoinsNext(nodes, node, p)
           IN  /\ prev => p \in 1 .. Len(nodes) /\ nodes[p].at + nodes[p].size = node.at
               /\ next => p + 1 \in 1 .. Len(nodes) /\ node.at + node.size = nodes[p + 1].at
               /\ joined.at \in Int /\ joined.size \in Int
               /\ joined.at = IF prev THEN nodes[p].at ELSE node.at
               /\ joined.at + joined.size =
                     IF next THEN nodes[p + 1].at + nodes[p + 1].size ELSE node.at + node.size
  <1> DEFINE joined == Joined(nodes, node, p)
             prev == JoinsPrev(nodes, node, p)
             next == JoinsNext(nodes, node, p)
  <1>1. nodes \in Seq(FreeNode) /\ Len(nodes) \in Nat /\ p \in 0 .. Len(nodes)
    BY NodeTypes DEF IsFreeList, IsPlace
  <1>2. \A x \in 1 .. Len(nodes) : nodes[x].at \in Int /\ nodes[x].size \in Int
    BY <1>1, NodeTypes
  <1>3. node.at \in Int /\ node.size \in Int
    BY DEF FreeNode
  <1>4. prev => p \in 1 .. Len(nodes) /\ nodes[p].at + nodes[p].size = node.at
    <2>1. SUFFICES ASSUME prev
                   PROVE  p \in 1 .. Len(nodes) /\ nodes[p].at + nodes[p].size = node.at
      OBVIOUS
    <2>2. p \in 1 .. Len(nodes) /\ p \in 1 .. p
      BY <1>1, <2>1 DEF JoinsPrev
    <2>3. nodes[p].at + nodes[p].size <= node.at
      BY <2>2 DEF IsPlace
    <2>4. QED
      BY <1>2, <1>3, <2>1, <2>2, <2>3 DEF JoinsPrev
  <1>5. next => p + 1 \in 1 .. Len(nodes) /\ node.at + node.size = nodes[p + 1].at
    <2>1. SUFFICES ASSUME next
                   PROVE  p + 1 \in 1 .. Len(nodes) /\ node.at + node.size = nodes[p + 1].at
      OBVIOUS
    <2>2. p + 1 \in 1 .. Len(nodes) /\ p + 1 \in p + 1 .. Len(nodes)
      BY <1>1, <2>1 DEF JoinsNext
    <2>3. node.at + node.size <= nodes[p + 1].at
      BY <2>2 DEF IsPlace
    <2>4. QED
      BY <1>2, <1>3, <2>1, <2>2, <2>3 DEF JoinsNext
  <1>6. /\ joined.at = IF prev THEN nodes[p].at ELSE node.at
        /\ joined.size = (IF prev THEN nodes[p].size ELSE 0) + node.size
                         + (IF next THEN nodes[p + 1].size ELSE 0)
    BY DEF Joined, Node
  <1> HIDE DEF joined, prev, next
  <1>7. joined.at \in Int /\ joined.size \in Int
    <2>1. joined.at \in Int
      BY <1>2, <1>3, <1>4, <1>6
    <2>2. prev => nodes[p].size \in Int
      BY <1>2, <1>4
    <2>3. next => nodes[p + 1].size \in Int
      BY <1>2, <1>5
    <2>4. PICK x \in Int : x = IF prev THEN nodes[p].size ELSE 0
      BY <2>2
    <2>5. PICK y \in Int : y = IF next THEN nodes[p + 1].size ELSE 0
      BY <2>3
    <2>6. joined.size = x + node.size + y
      BY <1>6, <2>4, <2>5
    <2>7. QED
      BY <1>3, <2>1, <2>6
  <1>8. joined.at + joined.size =
           IF next THEN nodes[p + 1].at + nodes[p + 1].size ELSE node.at + node.size
    <2>1. joined.at + (IF prev THEN nodes[p].size ELSE 0) = node.at
      BY <1>2, <1>3, <1>4, <1>6
    <2>2. CASE next
      <3>1. joined.size = (IF prev THEN nodes[p].size ELSE 0) + node.size + nodes[p + 1].size
        BY <1>6, <2>2
      <3>2. p + 1 \in 1 .. Len(nodes) /\ node.at + node.size = nodes[p + 1].at
        BY <1>5, <2>2
      <3>3. nodes[p + 1].at \in Int /\ nodes[p + 1].size \in Int
        BY <1>2, <3>2
      <3>4. (IF prev THEN nodes[p].size ELSE 0) \in Int
        BY <1>2, <1>4
      <3>5. PICK a \in Int, s \in Int, b \in Int, c \in Int, x \in Int, y \in Int, u \in Int :
               /\ a = node.at /\ s = node.size /\ b = joined.at /\ c = joined.size
               /\ x = nodes[p + 1].at /\ y = nodes[p + 1].size
               /\ u = IF prev THEN nodes[p].size ELSE 0
        BY <1>3, <1>7, <3>3, <3>4
      <3>6. b + u = a /\ c = u + s + y /\ a + s = x
        BY <2>1, <3>1, <3>2, <3>5
      <3>7. b + c = x + y
        BY <3>6
      <3>8. QED
        BY <2>2, <3>5, <3>7
    <2>3. CASE ~next
      <3>1. joined.size = (IF prev THEN nodes[p].size ELSE 0) + node.size + 0
        BY <1>6, <2>3
      <3>4. (IF prev THEN nodes[p].size ELSE 0) \in Int
        BY <1>2, <1>4
      <3>5. PICK a \in Int, s \in Int, b \in Int, c \in Int, u \in Int :
               /\ a = node.at /\ s = node.size /\ b = joined.at /\ c = joined.size
               /\ u = IF prev THEN nodes[p].size ELSE 0
        BY <1>3, <1>7, <3>4
      <3>6. b + u = a /\ c = u + s + 0
        BY <2>1, <3>1, <3>5
      <3>7. b + c = a + s
        BY <3>6
      <3>8. QED
        BY <2>3, <3>5, <3>7
    <2>4. QED
      BY <2>2, <2>3
  <1>9. QED
    BY <1>4, <1>5, <1>6, <1>7, <1>8 DEF joined, prev, next

\* A list with a node put in its place and joined to its neighbours is a free list
\* grown by the bytes of that node, and the header that is written is free memory.
LEMMA FreedList ==
    ASSUME NEW lo \in Int, NEW hi \in Int, NEW nodes, IsFreeList(nodes, lo, hi),
           NEW node \in FreeNode, Aligned(node.at), Aligned(node.size), 0 < node.size,
           lo <= node.at, node.at + node.size <= hi, NEW p, IsPlace(p, nodes, node)
    PROVE  /\ IsGrown(Spliced(nodes, IF JoinsPrev(nodes, node, p) THEN p - 1 ELSE p,
                              <<Joined(nodes, node, p)>>,
                              IF JoinsNext(nodes, node, p) THEN p + 2 ELSE p + 1),
                      nodes, node.at, node.at + node.size, lo, hi)
           /\ Joined(nodes, node, p).at \in Int
           /\ \E b \in Int : /\ Joined(nodes, node, p).at + ALIGN_SIZE <= b
                             /\ \A a \in Int : Joined(nodes, node, p).at <= a /\ a < b =>
                                   a \in ListBytes(nodes) \/ (node.at <= a /\ a < node.at + node.size)
  <1> DEFINE joined == Joined(nodes, node, p)
             prev == JoinsPrev(nodes, node, p)
             next == JoinsNext(nodes, node, p)
             i == IF prev THEN p - 1 ELSE p
             j == IF next THEN p + 2 ELSE p + 1
             from == joined.at
             to == joined.at + joined.size
             n == Len(nodes)
  <1>1. nodes \in Seq(FreeNode) /\ n \in Nat /\ p \in 0 .. n
    BY NodeTypes DEF IsFreeList, IsPlace
  <1>2. \A x \in 1 .. n : nodes[x].at \in Int /\ nodes[x].size \in Int
    BY <1>1, NodeTypes
  <1>3. node.at \in Int /\ node.size \in Int
    BY DEF FreeNode
  <1>4. /\ prev => p \in 1 .. n /\ nodes[p].at + nodes[p].size = node.at
        /\ next => p + 1 \in 1 .. n /\ node.at + node.size = nodes[p + 1].at
        /\ joined.at \in Int /\ joined.size \in Int
        /\ joined.at = IF prev THEN nodes[p].at ELSE node.at
        /\ joined.at + joined.size =
              IF next THEN nodes[p + 1].at + nodes[p + 1].size ELSE node.at + node.size
    BY FreedAt
  <1>5. /\ \A x \in 1 .. n :
              /\ Aligned(nodes[x].at) /\ Aligned(nodes[x].size) /\ 0 < nodes[x].size
              /\ lo <= nodes[x].at /\ nodes[x].at + nodes[x].size <= hi
        /\ \A x, y \in 1 .. n : x < y => nodes[x].at + nodes[x].size < nodes[y].at
    BY DEF IsFreeList
  <1>6. /\ \A x \in 1 .. p : nodes[x].at + nodes[x].size <= node.at
        /\ \A x \in p + 1 .. n : node.at + node.size <= nodes[x].at
    BY DEF IsPlace
  <1>7. joined \in FreeNode
    BY <1>4 DEF Joined, Node, FreeNode
  <1>8. ~prev => p = 0 \/ nodes[p].at + nodes[p].size < node.at
    BY <1>1, <1>2, <1>3 DEF JoinsPrev
  <1>9. ~next => p = n \/ node.at + node.size < nodes[p + 1].at
    BY <1>1, <1>2, <1>3 DEF JoinsNext
  <1> HIDE DEF joined, prev, next, n
  <1>10. i \in 0 .. n /\ j \in i + 1 .. n + 1 /\ i <= p /\ p < j
    BY <1>1, <1>4
  <1>11. from \in Int /\ to \in Int /\ lo <= from /\ to <= hi /\ from <= node.at
         /\ node.at + node.size <= to /\ from < to
    BY <1>2, <1>3, <1>4, <1>5
  <1>12. Aligned(joined.at)
    BY <1>4, <1>5
  <1>13. Aligned(joined.size)
    <2>1. Aligned(joined.at + joined.size)
      <3>1. CASE next
        <4>1. p + 1 \in 1 .. n /\ joined.at + joined.size = nodes[p + 1].at + nodes[p + 1].size
          BY <1>4, <3>1
        <4>2. PICK x \in Int, y \in Int : nodes[p + 1].at = x /\ nodes[p + 1].size = y
          BY <1>2, <4>1
        <4>3. Aligned(x) /\ Aligned(y)
          BY <1>5, <4>1, <4>2
        <4>4. QED
          BY <4>1, <4>2, <4>3, AlignedSum
      <3>2. CASE ~next
        BY <1>3, <1>4, <3>2, AlignedSum
      <3>3. QED
        BY <3>1, <3>2
    <2>2. joined.size + joined.at = joined.at + joined.size
      BY <1>4
    <2>3. QED
      BY <1>4, <1>12, <2>1, <2>2, AlignedSum
  <1>14. /\ IsFreeList(<<joined>>, from, to)
         /\ \A a : a \in ListBytes(<<joined>>) <=> a \in Int /\ from <= a /\ a < to
    BY <1>4, <1>7, <1>11, <1>12, <1>13, OneNode
  <1>15. ASSUME NEW x \in 1 .. i
         PROVE  nodes[x].at + nodes[x].size < from
    <2>1. x \in 1 .. n /\ x \in 1 .. p /\ (p > 0 => p \in 1 .. n)
      BY <1>1, <1>10
    <2>2. CASE prev
      <3>1. x < p /\ p \in 1 .. n
        BY <1>1, <1>4, <2>2
      <3>2. nodes[x].at + nodes[x].size < nodes[p].at
        BY <1>5, <2>1, <3>1
      <3>3. QED
        BY <1>4, <2>2, <3>2
    <2>3. CASE ~prev
      <3>1. p \in 1 .. n /\ nodes[p].at + nodes[p].size < node.at /\ from = node.at
        BY <1>1, <1>4, <1>8, <2>1, <2>3
      <3>2. CASE x = p
        BY <3>1, <3>2
      <3>3. CASE x # p
        <4>1. x < p
          BY <2>1, <3>1, <3>3
        <4>2. nodes[x].at + nodes[x].size < nodes[p].at /\ 0 < nodes[p].size
          BY <1>5, <2>1, <3>1, <4>1
        <4>3. nodes[x].at + nodes[x].size \in Int /\ nodes[p].at \in Int /\ nodes[p].size \in Int
          BY <1>2, <2>1, <3>1
        <4>4. QED
          BY <1>3, <3>1, <4>2, <4>3
      <3>4. QED
        BY <3>2, <3>3
    <2>4. QED
      BY <2>2, <2>3
  <1>16. ASSUME NEW x \in j .. n
         PROVE  to < nodes[x].at
    <2>1. x \in 1 .. n /\ x \in p + 1 .. n /\ p + 1 \in 1 .. n
      BY <1>1, <1>10
    <2>2. CASE next
      <3>1. p + 1 < x
        BY <1>1, <2>2
      <3>2. nodes[p + 1].at + nodes[p + 1].size < nodes[x].at
        BY <1>5, <2>1, <3>1
      <3>3. QED
        BY <1>4, <2>2, <3>2
    <2>3. CASE ~next
      <3>1. node.at + node.size < nodes[p + 1].at /\ to = node.at + node.size
        BY <1>1, <1>4, <1>9, <2>1, <2>3
      <3>2. CASE x = p + 1
        BY <3>1, <3>2
      <3>3. CASE x # p + 1
        <4>1. p + 1 < x
          BY <1>1, <2>1, <3>3
        <4>2. nodes[p + 1].at + nodes[p + 1].size < nodes[x].at /\ 0 < nodes[p + 1].size
          BY <1>5, <2>1, <4>1
        <4>3. nodes[x].at \in Int /\ nodes[p + 1].at \in Int /\ nodes[p + 1].size \in Int
          BY <1>2, <2>1
        <4>4. QED
          BY <1>3, <3>1, <4>2, <4>3
      <3>4. QED
        BY <3>2, <3>3
    <2>4. QED
      BY <2>2, <2>3
  <1> DEFINE r == Spliced(nodes, i, <<joined>>, j)
  <1>17. /\ IsFreeList(r, lo, hi)
         /\ \A a \in Int : a \in ListBytes(r) <=>
                 \/ a \in ListBytes(<<joined>>)
                 \/ \E x \in (1 .. i) \cup (j .. n) :
                       nodes[x].at <= a /\ a < nodes[x].at + nodes[x].size
    <2>1. i \in 0 .. Len(nodes) /\ j \in i + 1 .. Len(nodes) + 1 /\ from <= to
      BY <1>10, <1>11 DEF n
    <2>2. \A x \in j .. Len(nodes) : to < nodes[x].at
      BY <1>16 DEF n
    <2> HIDE DEF i, j, from, to
    <2>3. IsSplicedList(r, nodes, i, <<joined>>, j, lo, hi)
      BY <1>11, <1>14, <1>15, <2>1, <2>2, SplicedList
    <2> HIDE DEF r
    <2>4. QED
      BY <2>3 DEF IsSplicedList, n
  <1>18. ASSUME NEW a \in Int
         PROVE  a \in ListBytes(r) <=>
                   a \in ListBytes(nodes) \/ (node.at <= a /\ a < node.at + node.size)
    <2>0. a \in ListBytes(nodes) <=>
             \E x \in 1 .. n : nodes[x].at <= a /\ a < nodes[x].at + nodes[x].size
      BY <1>1, InListBytes DEF n
    <2>1. a \in ListBytes(r) <=>
             \/ from <= a /\ a < to
             \/ \E x \in (1 .. i) \cup (j .. n) :
                   nodes[x].at <= a /\ a < nodes[x].at + nodes[x].size
      BY <1>14, <1>17
    <2>2. \A x \in (1 .. i) \cup (j .. n) : x \in 1 .. n
      BY <1>1, <1>10
    <2>3. ASSUME from <= a, a < to, ~(node.at <= a /\ a < node.at + node.size)
          PROVE  \E x \in 1 .. n : nodes[x].at <= a /\ a < nodes[x].at + nodes[x].size
      <3>1. CASE a < node.at
        <4>1. prev /\ p \in 1 .. n /\ nodes[p].at + nodes[p].size = node.at /\ from = nodes[p].at
          BY <1>3, <1>4, <2>3, <3>1
        <4>2. QED
          BY <2>3, <3>1, <4>1
      <3>2. CASE node.at + node.size <= a
        <4>1. next /\ p + 1 \in 1 .. n /\ node.at + node.size = nodes[p + 1].at
              /\ to = nodes[p + 1].at + nodes[p + 1].size
          BY <1>3, <1>4, <2>3, <3>2
        <4>2. QED
          BY <2>3, <3>2, <4>1
      <3>3. QED
        BY <1>3, <2>3, <3>1, <3>2
    <2>4. node.at <= a /\ a < node.at + node.size => from <= a /\ a < to
      BY <1>3, <1>11
    <2>5. ASSUME NEW x \in 1 .. n, nodes[x].at <= a, a < nodes[x].at + nodes[x].size,
                 x \notin (1 .. i) \cup (j .. n)
          PROVE  from <= a /\ a < to
      <3>1. (prev /\ x = p) \/ (next /\ x = p + 1)
        BY <1>1, <1>10, <2>5
      <3>2. CASE prev /\ x = p
        BY <1>2, <1>3, <1>4, <1>11, <2>5, <3>2
      <3>3. CASE next /\ x = p + 1
        BY <1>2, <1>3, <1>4, <1>11, <2>5, <3>3
      <3>4. QED
        BY <3>1, <3>2, <3>3
    <2>6. QED
      <3> HIDE DEF i, j, from, to, r
      <3>1. QED
        BY <2>0, <2>1, <2>2, <2>3, <2>4, <2>5
  <1>19. from + ALIGN_SIZE <= to
    <2>1. Aligned(from) /\ Aligned(to)
      <3>1. Aligned(to)
        BY <1>4, <1>12, <1>13, AlignedSum
      <3>2. QED
        BY <1>12, <3>1
    <2> HIDE DEF from, to
    <2>2. QED
      BY <1>11, <2>1, AlignedApart
  <1>20. \A a \in Int : from <= a /\ a < to =>
             a \in ListBytes(nodes) \/ (node.at <= a /\ a < node.at + node.size)
    <2>1. \A a \in Int : from <= a /\ a < to => a \in ListBytes(r)
      BY <1>14, <1>17
    <2> HIDE DEF from, to, r
    <2>2. QED
      BY <1>18, <2>1
  <1>21. IsGrown(r, nodes, node.at, node.at + node.size, lo, hi)
    <2> HIDE DEF r
    <2>1. QED
      BY <1>17, <1>18 DEF IsGrown
  <1>22. QED
    BY <1>11, <1>19, <1>20, <1>21 DEF joined, prev, next

\* The two parts of a list at a place.
LEMMA FirstPart ==
    ASSUME NEW S, NEW s \in Seq(S), NEW p \in 0 .. Len(s), NEW b, b = SubSeq(s, 1, p)
    PROVE  /\ b # <<>> <=> p > 0
           /\ p > 0 => Last(b) = s[p] /\ Front(b) = SubSeq(s, 1, p - 1)
  <1>1. Len(s) \in Nat /\ p \in Int /\ 1 \in Int
    BY LenProperties
  <1>2. CASE p = 0
    <2>1. b = <<>>
      BY <1>1, <1>2, SubSeqEmpty
    <2>2. QED
      BY <1>2, <2>1
  <1>3. CASE p > 0
    <2>1. \A x \in 1 .. p : s[x] \in S
      BY <1>1, ElementOfSeq
    <2>2. (IF 1 <= p THEN p - 1 + 1 ELSE 0) = p /\ p - 1 + 1 = p
      BY <1>1, <1>3
    <2>3. /\ b \in Seq(S) /\ Len(b) = p
          /\ \A x \in 1 .. p : b[x] = s[1 + x - 1]
      <3>1. /\ b \in Seq(S) /\ Len(b) = IF 1 <= p THEN p - 1 + 1 ELSE 0
            /\ \A x \in 1 .. p - 1 + 1 : b[x] = s[1 + x - 1]
        BY <1>1, <2>1, SubSeqProperties
      <3>2. QED
        BY <2>2, <3>1
    <2>4. b # <<>>
      <3>1. Len(<<>>) = 0
        OBVIOUS
      <3>2. QED
        BY <1>3, <2>3, <3>1
    <2>5. Last(b) = s[p]
      <3>1. 1 + p - 1 = p /\ p \in 1 .. p
        BY <1>1, <1>3
      <3>2. QED
        BY <2>3, <3>1 DEF Last
    <2>6. Front(b) = SubSeq(s, 1, p - 1)
      <3>1. Front(b) = SubSeq(SubSeq(s, 1, p), 1, p - 1)
        BY <2>3 DEF Front
      <3>2. CASE p = 1
        <4>1. SubSeq(SubSeq(s, 1, p), 1, p - 1) = <<>> /\ SubSeq(s, 1, p - 1) = <<>>
          BY <3>2, SubSeqEmpty
        <4>2. QED
          BY <3>1, <4>1
      <3>3. CASE p > 1
        <4>1. /\ 1 \in 1 .. Len(s) /\ p \in 1 .. Len(s) /\ 1 \in 1 .. p - 1 + 1
              /\ p - 1 \in 1 .. p - 1 + 1 /\ 1 + 1 - 1 = 1 /\ 1 + (p - 1) - 1 = p - 1
          BY <1>1, <3>3
        <4>2. SubSeq(SubSeq(s, 1, p), 1, p - 1) = SubSeq(s, 1 + 1 - 1, 1 + (p - 1) - 1)
          BY <4>1, SubSeqOfSubSeq
        <4>3. QED
          BY <3>1, <4>1, <4>2
      <3>4. QED
        BY <1>1, <1>3, <3>2, <3>3
    <2>7. QED
      BY <1>3, <2>4, <2>5, <2>6
  <1>4. QED
    BY <1>1, <1>2, <1>3

LEMMA LastPart ==
    ASSUME NEW S, NEW s \in Seq(S), NEW p \in 0 .. Len(s), NEW b, b = SubSeq(s, p + 1, Len(s))
    PROVE  /\ b # <<>> <=> p < Len(s)
           /\ p < Len(s) => Head(b) = s[p + 1] /\ Tail(b) = SubSeq(s, p + 2, Len(s))
  <1>1. Len(s) \in Nat /\ p \in Int /\ p + 1 \in Int
    BY LenProperties
  <1>2. CASE p = Len(s)
    <2>1. Len(s) < p + 1
      BY <1>1, <1>2
    <2>2. b = <<>>
      BY <1>1, <2>1, SubSeqEmpty
    <2>3. QED
      BY <1>1, <1>2, <2>2
  <1>3. CASE p < Len(s)
    <2>1. p + 1 \in 1 .. Len(s) /\ Len(s) \in p + 1 .. Len(s) /\ (p + 1) + 1 = p + 2
      BY <1>1, <1>3
    <2>2. Head(b) = s[p + 1] /\ Tail(b) = SubSeq(s, p + 2, Len(s))
      BY <2>1, HeadTailOfSubSeq
    <2>3. b # <<>>
      <3>1. \A x \in p + 1 .. Len(s) : s[x] \in S
        BY <1>1, ElementOfSeq
      <3>2. Len(b) = IF p + 1 <= Len(s) THEN Len(s) - (p + 1) + 1 ELSE 0
        BY <1>1, <3>1, SubSeqProperties
      <3>3. Len(b) # 0
        BY <1>1, <1>3, <3>2
      <3>4. Len(<<>>) = 0
        OBVIOUS
      <3>5. QED
        BY <3>3, <3>4
    <2>4. QED
      BY <1>3, <2>2, <2>3
  <1>4. QED
    BY <1>1, <1>2, <1>3

\* Freed is the splice at the place where the node belongs.
LEMMA FreedIsSpliced ==
    ASSUME NEW lo \in Int, NEW hi \in Int, NEW nodes, IsFreeList(nodes, lo, hi),
           NEW node \in FreeNode, 0 < node.size,
           \A a \in Int : node.at <= a /\ a < node.at + node.size => a \notin ListBytes(nodes)
    PROVE  \E p : /\ IsPlace(p, nodes, node)
                  /\ Freed(nodes, node).at = Joined(nodes, node, p).at
                  /\ Freed(nodes, node).nodes =
                        Spliced(nodes, IF JoinsPrev(nodes, node, p) THEN p - 1 ELSE p,
                                <<Joined(nodes, node, p)>>,
                                IF JoinsNext(nodes, node, p) THEN p + 2 ELSE p + 1)
  <1> DEFINE n == Len(nodes)
             k == SelectInSeq(nodes, LAMBDA m : m.at >= node.at)
             p == IF k = 0 THEN n ELSE k - 1
             before == IF k = 0 THEN nodes ELSE SubSeq(nodes, 1, k - 1)
             after == IF k = 0 THEN <<>> ELSE SubSeq(nodes, k, Len(nodes))
  <1>1. nodes \in Seq(FreeNode) /\ n \in Nat
    BY NodeTypes DEF IsFreeList
  <1>2. \A x \in 1 .. n : nodes[x].at \in Int /\ nodes[x].size \in Int
    BY <1>1, NodeTypes
  <1>3. node.at \in Int /\ node.size \in Int
    BY DEF FreeNode
  <1>4. /\ k \in 0 .. n
        /\ k # 0 => k \in 1 .. n /\ nodes[k].at >= node.at
        /\ \A j \in 1 .. n : (k = 0 \/ j < k) => ~(nodes[j].at >= node.at)
    <2> DEFINE T == {j \in 1 .. n : nodes[j].at >= node.at}
    <2>1. k = IF T # {} THEN Min(T) ELSE 0
      BY DEF SelectInSeq
    <2>2. T \in SUBSET (1 .. n)
      OBVIOUS
    <2> HIDE DEF k
    <2>3. /\ k \in 0 .. n
          /\ k # 0 => k \in T /\ k \in 1 .. n
          /\ \A j \in 1 .. n : (k = 0 \/ j < k) => j \notin T
      <3> HIDE DEF T, n
      <3>1. QED
        BY <1>1, <2>1, <2>2, FirstIndex
    <2>4. QED
      BY <2>3
  <1>5. /\ \A x \in 1 .. n : 0 < nodes[x].size
        /\ \A x, y \in 1 .. n : x < y => nodes[x].at + nodes[x].size < nodes[y].at
    BY DEF IsFreeList
  <1>6. before = SubSeq(nodes, 1, p) /\ after = SubSeq(nodes, p + 1, n)
    <2> HIDE DEF k
    <2>1. CASE k = 0
      <3>1. SubSeq(nodes, 1, n) = nodes
        BY <1>1, SubSeqFull
      <3>2. SubSeq(nodes, n + 1, n) = <<>>
        BY <1>1, SubSeqEmpty
      <3>3. QED
        BY <2>1, <3>1, <3>2
    <2>2. CASE k # 0
      <3>1. (k - 1) + 1 = k
        BY <1>4
      <3>2. QED
        BY <2>2, <3>1
    <2>3. QED
      BY <2>1, <2>2
  <1> HIDE DEF k
  <1>7. p \in 0 .. n
    BY <1>1, <1>4
  <1>8. ASSUME NEW x \in 1 .. p
        PROVE  nodes[x].at + nodes[x].size <= node.at
    <2>1. x \in 1 .. n /\ ~(nodes[x].at >= node.at)
      BY <1>1, <1>4
    <2>2. ASSUME nodes[x].at + nodes[x].size > node.at
          PROVE  FALSE
      <3>1. node.at \in ListBytes(nodes)
        <4>1. nodes[x].at <= node.at /\ node.at < nodes[x].at + nodes[x].size
          BY <1>2, <1>3, <2>1, <2>2
        <4>2. QED
          BY <1>1, <1>3, <2>1, <4>1, InListBytes
      <3>2. node.at <= node.at /\ node.at < node.at + node.size
        BY <1>3
      <3>3. QED
        BY <1>3, <3>1, <3>2
    <2>3. QED
      BY <1>2, <1>3, <2>1, <2>2
  <1>9. ASSUME NEW x \in p + 1 .. n
        PROVE  node.at + node.size <= nodes[x].at
    <2>1. k # 0 /\ k \in 1 .. n /\ nodes[k].at >= node.at /\ x \in 1 .. n /\ (k = x \/ k < x)
      BY <1>1, <1>4
    <2>2. nodes[x].at >= node.at
      <3>1. CASE k = x
        BY <2>1, <3>1
      <3>2. CASE k < x
        <4>1. nodes[k].at + nodes[k].size < nodes[x].at /\ 0 < nodes[k].size
          BY <1>5, <2>1, <3>2
        <4>2. nodes[k].at \in Int /\ nodes[k].size \in Int /\ nodes[x].at \in Int
          BY <1>2, <2>1
        <4>3. QED
          BY <1>3, <2>1, <4>1, <4>2
      <3>3. QED
        BY <2>1, <3>1, <3>2
    <2>3. ASSUME node.at + node.size > nodes[x].at
          PROVE  FALSE
      <3>0. nodes[x].at \in Int /\ nodes[x].size \in Int /\ 0 < nodes[x].size
        BY <1>2, <1>5, <2>1
      <3>1. nodes[x].at \in ListBytes(nodes)
        <4>1. nodes[x].at <= nodes[x].at /\ nodes[x].at < nodes[x].at + nodes[x].size
          BY <3>0
        <4>2. QED
          BY <1>1, <2>1, <3>0, <4>1, InListBytes
      <3>2. node.at <= nodes[x].at /\ nodes[x].at < node.at + node.size
        BY <1>3, <2>2, <2>3, <3>0
      <3>3. QED
        BY <3>0, <3>1, <3>2
    <2>4. QED
      BY <1>2, <1>3, <2>1, <2>3
  <1>10. IsPlace(p, nodes, node)
    <2>1. p \in 0 .. Len(nodes)
      BY <1>7
    <2>2. QED
      <3> HIDE DEF p
      <3>1. QED
        BY <1>8, <1>9, <2>1 DEF IsPlace
  <1> HIDE DEF p, before, after
  <1>11. /\ before # <<>> <=> p > 0
         /\ p > 0 => Last(before) = nodes[p] /\ Front(before) = SubSeq(nodes, 1, p - 1)
    BY <1>1, <1>6, <1>7, FirstPart
  <1>12. /\ after # <<>> <=> p < Len(nodes)
         /\ p < Len(nodes) => Head(after) = nodes[p + 1] /\ Tail(after) = SubSeq(nodes, p + 2, Len(nodes))
    BY <1>1, <1>6, <1>7, LastPart
  <1> DEFINE joinsPrev == before # <<>> /\ Last(before).at + Last(before).size >= node.at
             joinsNext == after # <<>> /\ node.at + node.size >= Head(after).at
             joined == Node(IF joinsPrev THEN Last(before).at ELSE node.at,
                            (IF joinsPrev THEN Last(before).size ELSE 0) + node.size
                            + (IF joinsNext THEN Head(after).size ELSE 0))
  <1>13. joinsPrev = JoinsPrev(nodes, node, p) /\ joinsNext = JoinsNext(nodes, node, p)
    BY <1>11, <1>12 DEF JoinsPrev, JoinsNext
  <1>14. joined = Joined(nodes, node, p)
    <2>1. /\ (IF joinsPrev THEN Last(before).at ELSE node.at) =
                IF JoinsPrev(nodes, node, p) THEN nodes[p].at ELSE node.at
          /\ (IF joinsPrev THEN Last(before).size ELSE 0) =
                IF JoinsPrev(nodes, node, p) THEN nodes[p].size ELSE 0
      BY <1>11, <1>13 DEF JoinsPrev
    <2>2. (IF joinsNext THEN Head(after).size ELSE 0) =
                IF JoinsNext(nodes, node, p) THEN nodes[p + 1].size ELSE 0
      BY <1>12, <1>13 DEF JoinsNext
    <2>3. QED
      BY <2>1, <2>2 DEF Joined
  <1>15. /\ Freed(nodes, node).at = joined.at
         /\ Freed(nodes, node).nodes = (IF joinsPrev THEN Front(before) ELSE before) \o <<joined>>
                   \o (IF joinsNext THEN Tail(after) ELSE after)
    BY DEF Freed, before, after, k
  <1>16. (IF joinsPrev THEN Front(before) ELSE before) =
            SubSeq(nodes, 1, IF JoinsPrev(nodes, node, p) THEN p - 1 ELSE p)
    BY <1>6, <1>11, <1>13
  <1>17. (IF joinsNext THEN Tail(after) ELSE after) =
            SubSeq(nodes, IF JoinsNext(nodes, node, p) THEN p + 2 ELSE p + 1, Len(nodes))
    BY <1>6, <1>12, <1>13
  <1>18. QED
    <2> HIDE DEF joinsPrev, joinsNext, joined
    <2>1. Freed(nodes, node).nodes =
            Spliced(nodes, IF JoinsPrev(nodes, node, p) THEN p - 1 ELSE p,
                    <<Joined(nodes, node, p)>>,
                    IF JoinsNext(nodes, node, p) THEN p + 2 ELSE p + 1)
      BY <1>14, <1>15, <1>16, <1>17 DEF Spliced
    <2>2. QED
      BY <1>10, <1>14, <1>15, <2>1

\* lmm_free's way to put a node into a list grows it by that node's bytes and writes
\* in free memory only.
LEMMA FreedIsGrown ==
    ASSUME NEW lo \in Int, NEW hi \in Int, NEW nodes, IsFreeList(nodes, lo, hi),
           NEW node \in FreeNode, Aligned(node.at), Aligned(node.size), 0 < node.size,
           lo <= node.at, node.at + node.size <= hi,
           \A a \in Int : node.at <= a /\ a < node.at + node.size => a \notin ListBytes(nodes)
    PROVE  /\ IsGrown(Freed(nodes, node).nodes, nodes, node.at, node.at + node.size, lo, hi)
           /\ Header(Freed(nodes, node).at) \subseteq ListBytes(Freed(nodes, node).nodes)
  <1>1. PICK p : /\ IsPlace(p, nodes, node)
                 /\ Freed(nodes, node).at = Joined(nodes, node, p).at
                 /\ Freed(nodes, node).nodes =
                        Spliced(nodes, IF JoinsPrev(nodes, node, p) THEN p - 1 ELSE p,
                                <<Joined(nodes, node, p)>>,
                                IF JoinsNext(nodes, node, p) THEN p + 2 ELSE p + 1)
    BY FreedIsSpliced
  <1> DEFINE list == Freed(nodes, node).nodes
             pos == Freed(nodes, node).at
  <1>2. /\ IsGrown(list, nodes, node.at, node.at + node.size, lo, hi)
        /\ pos \in Int
        /\ \E b \in Int : /\ pos + ALIGN_SIZE <= b
                          /\ \A a \in Int : pos <= a /\ a < b =>
                                 a \in ListBytes(nodes) \/ (node.at <= a /\ a < node.at + node.size)
    BY <1>1, FreedList
  <1> HIDE DEF list, pos
  <1>3. Header(pos) \subseteq ListBytes(list)
    <2>1. SUFFICES ASSUME NEW a \in Header(pos)
                   PROVE  a \in ListBytes(list)
      OBVIOUS
    <2>2. ALIGN_SIZE \in Nat
      BY AlignAssumption
    <2>3. a \in Int /\ pos <= a /\ a < pos + ALIGN_SIZE
      BY <1>2, <2>2 DEF Header
    <2>4. a \in ListBytes(nodes) \/ (node.at <= a /\ a < node.at + node.size)
      BY <1>2, <2>2, <2>3
    <2>5. QED
      BY <1>2, <2>3, <2>4 DEF IsGrown
  <1>4. QED
    BY <1>2, <1>3 DEF list, pos

\* The list is nodes without the bytes from from to to - 1.
IsShrunk(list, nodes, from, to, lo, hi) ==
    /\ IsFreeList(list, lo, hi)
    /\ \A a \in Int : a \in ListBytes(list) <=>
          a \in ListBytes(nodes) /\ ~(from <= a /\ a < to)

\* What is left of a node.
CutFront(n, from) == IF from > n.at THEN <<Node(n.at, from - n.at)>> ELSE <<>>
CutRest(n, to) == IF to < n.at + n.size THEN <<Node(to, (n.at + n.size) - to)>> ELSE <<>>
Cut(n, from, to) == CutFront(n, from) \o CutRest(n, to)

\* The empty list is a free list without bytes.
LEMMA NoNodes ==
    ASSUME NEW lo, NEW hi
    PROVE  /\ IsFreeList(<<>>, lo, hi)
           /\ ListBytes(<<>>) = {}
           /\ <<>> \in Seq(FreeNode)
  <1>1. PICK s : s = <<>>
    OBVIOUS
  <1>2. s \in Seq(FreeNode) /\ Len(s) = 0
    BY <1>1
  <1>3. 1 .. Len(s) = {}
    BY <1>2
  <1>4. ListBytes(s) = {}
    BY <1>2, <1>3, InListBytes
  <1>5. IsFreeList(s, lo, hi)
    BY <1>2, <1>3 DEF IsFreeList
  <1>6. QED
    BY <1>1, <1>2, <1>4, <1>5

\* Two free lists with a gap between them make one.
LEMMA TwoNodes ==
    ASSUME NEW lo \in Int, NEW hi \in Int, NEW s, NEW t,
           NEW u \in Int, NEW v \in Int, u < v, lo <= u, v <= hi,
           IsFreeList(s, lo, u), IsFreeList(t, v, hi)
    PROVE  /\ IsFreeList(s \o t, lo, hi)
           /\ \A a \in Int : a \in ListBytes(s \o t) <=> a \in ListBytes(s) \/ a \in ListBytes(t)
  <1> DEFINE r == s \o t
             m == Len(s)
             n == Len(t)
  <1>1. s \in Seq(FreeNode) /\ t \in Seq(FreeNode) /\ m \in Nat /\ n \in Nat
    BY LenProperties DEF IsFreeList
  <1>2. r \in Seq(FreeNode) /\ Len(r) = m + n
    BY <1>1, ConcatProperties
  <1>3. \A x \in 1 .. m + n : r[x] = IF x <= m THEN s[x] ELSE t[x - m]
    BY <1>1, ConcatProperties
  <1>4. /\ \A x \in 1 .. m : s[x].at \in Int /\ s[x].size \in Int
        /\ \A x \in 1 .. n : t[x].at \in Int /\ t[x].size \in Int
    BY <1>1, NodeTypes
  <1>5. /\ \A x \in 1 .. m :
              /\ Aligned(s[x].at) /\ Aligned(s[x].size) /\ 0 < s[x].size
              /\ lo <= s[x].at /\ s[x].at + s[x].size <= u
        /\ \A x \in 1 .. n :
              /\ Aligned(t[x].at) /\ Aligned(t[x].size) /\ 0 < t[x].size
              /\ v <= t[x].at /\ t[x].at + t[x].size <= hi
        /\ \A x, y \in 1 .. m : x < y => s[x].at + s[x].size < s[y].at
        /\ \A x, y \in 1 .. n : x < y => t[x].at + t[x].size < t[y].at
    BY DEF IsFreeList
  <1> HIDE DEF r, m, n
  <1>6. ASSUME NEW x \in 1 .. m + n
        PROVE  \/ x \in 1 .. m /\ r[x] = s[x]
               \/ x > m /\ x - m \in 1 .. n /\ r[x] = t[x - m]
    <2>1. x <= m \/ (x > m /\ x - m \in 1 .. n)
      BY <1>1
    <2>2. QED
      BY <1>1, <1>3, <2>1
  <1>7. ASSUME NEW x \in 1 .. m + n
        PROVE  /\ Aligned(r[x].at) /\ Aligned(r[x].size) /\ 0 < r[x].size
               /\ lo <= r[x].at /\ r[x].at + r[x].size <= hi
    <2>1. CASE x \in 1 .. m /\ r[x] = s[x]
      <3>1. s[x].at + s[x].size \in Int /\ s[x].at + s[x].size <= u
        BY <1>4, <1>5, <2>1
      <3>2. s[x].at + s[x].size <= hi
        BY <3>1
      <3>3. QED
        BY <1>5, <2>1, <3>2
    <2>2. CASE x - m \in 1 .. n /\ r[x] = t[x - m]
      <3>1. t[x - m].at \in Int /\ v <= t[x - m].at
        BY <1>4, <1>5, <2>2
      <3>2. lo <= t[x - m].at
        BY <3>1
      <3>3. QED
        BY <1>5, <2>2, <3>2
    <2>3. QED
      BY <1>6, <2>1, <2>2
  <1>8. ASSUME NEW x \in 1 .. m + n, NEW y \in 1 .. m + n, x < y
        PROVE  r[x].at + r[x].size < r[y].at
    <2>1. CASE x \in 1 .. m /\ r[x] = s[x]
      <3>1. CASE y \in 1 .. m /\ r[y] = s[y]
        BY <1>5, <1>8, <2>1, <3>1
      <3>2. CASE y - m \in 1 .. n /\ r[y] = t[y - m]
        <4>1. s[x].at + s[x].size \in Int /\ s[x].at + s[x].size <= u
          BY <1>4, <1>5, <2>1
        <4>2. t[y - m].at \in Int /\ v <= t[y - m].at
          BY <1>4, <1>5, <3>2
        <4>3. s[x].at + s[x].size < t[y - m].at
          BY <4>1, <4>2
        <4>4. QED
          BY <2>1, <3>2, <4>3
      <3>3. QED
        BY <1>6, <3>1, <3>2
    <2>2. CASE x > m /\ x - m \in 1 .. n /\ r[x] = t[x - m]
      <3>1. y > m
        BY <1>1, <1>8, <2>2
      <3>2. y - m \in 1 .. n /\ r[y] = t[y - m]
        BY <1>1, <1>6, <3>1
      <3>3. x - m < y - m
        BY <1>1, <1>8
      <3>4. QED
        BY <1>5, <2>2, <3>2, <3>3
    <2>3. QED
      BY <1>6, <2>1, <2>2
  <1>9. IsFreeList(r, lo, hi)
    BY <1>2, <1>7, <1>8 DEF IsFreeList
  <1>10. ASSUME NEW a \in Int
         PROVE  a \in ListBytes(r) <=> a \in ListBytes(s) \/ a \in ListBytes(t)
    <2>1. a \in ListBytes(r) <=> \E x \in 1 .. m + n : r[x].at <= a /\ a < r[x].at + r[x].size
      BY <1>2, InListBytes
    <2>2. a \in ListBytes(s) <=> \E x \in 1 .. m : s[x].at <= a /\ a < s[x].at + s[x].size
      BY <1>1, InListBytes DEF m
    <2>3. a \in ListBytes(t) <=> \E x \in 1 .. n : t[x].at <= a /\ a < t[x].at + t[x].size
      BY <1>1, InListBytes DEF n
    <2>4. ASSUME NEW x \in 1 .. m
          PROVE  x \in 1 .. m + n /\ r[x] = s[x]
      BY <1>1, <1>3
    <2>5. ASSUME NEW x \in 1 .. n
          PROVE  m + x \in 1 .. m + n /\ r[m + x] = t[x]
      <3>1. m + x \in 1 .. m + n /\ ~(m + x <= m) /\ (m + x) - m = x
        BY <1>1
      <3>2. QED
        BY <1>3, <3>1
    <2>6. QED
      BY <1>6, <2>1, <2>2, <2>3, <2>4, <2>5
  <1>11. QED
    BY <1>9, <1>10 DEF r

\* A node that has lost a stretch of whole units is a free list of the rest.
LEMMA CutNode ==
    ASSUME NEW n \in FreeNode, Aligned(n.at), Aligned(n.size),
           NEW from \in Int, NEW to \in Int, Aligned(from), Aligned(to),
           n.at <= from, from < to, to <= n.at + n.size
    PROVE  /\ CutFront(n, from) \in Seq(FreeNode) /\ CutRest(n, to) \in Seq(FreeNode)
           /\ IsFreeList(Cut(n, from, to), n.at, n.at + n.size)
           /\ \A a \in Int : a \in ListBytes(Cut(n, from, to)) <=>
                 \/ n.at <= a /\ a < from
                 \/ to <= a /\ a < n.at + n.size
  <1> DEFINE end == n.at + n.size
             s == CutFront(n, from)
             t == CutRest(n, to)
  <1>1. n.at \in Int /\ n.size \in Int /\ end \in Int
    BY DEF FreeNode
  <1>2. Aligned(end)
    BY <1>1, AlignedSum
  <1>3. /\ IsFreeList(s, n.at, from)
        /\ \A a \in Int : a \in ListBytes(s) <=> n.at <= a /\ a < from
    <2>1. CASE from > n.at
      <3>1. PICK m : m = Node(n.at, from - n.at)
        OBVIOUS
      <3>2. m \in FreeNode /\ m.at = n.at /\ m.size = from - n.at
        BY <1>1, <3>1 DEF Node, FreeNode
      <3>3. Aligned(m.at) /\ Aligned(m.size) /\ 0 < m.size /\ m.at + m.size = from
        <4>1. Aligned(from - n.at)
          BY <1>1, AlignedSum
        <4>2. 0 < from - n.at /\ n.at + (from - n.at) = from
          BY <1>1, <2>1
        <4>3. QED
          BY <3>2, <4>1, <4>2
      <3>4. s = <<m>>
        BY <2>1, <3>1 DEF CutFront
      <3>5. QED
        BY <3>2, <3>3, <3>4, OneNode
    <2>2. CASE ~(from > n.at)
      <3>1. s = <<>>
        BY <2>2 DEF CutFront
      <3>2. \A a \in Int : ~(n.at <= a /\ a < from)
        BY <1>1, <2>2
      <3>3. QED
        BY <3>1, <3>2, NoNodes
    <2>3. QED
      BY <2>1, <2>2
  <1>4. /\ IsFreeList(t, to, end)
        /\ \A a \in Int : a \in ListBytes(t) <=> to <= a /\ a < end
    <2>1. CASE to < end
      <3>1. PICK m : m = Node(to, end - to)
        OBVIOUS
      <3>2. m \in FreeNode /\ m.at = to /\ m.size = end - to
        BY <1>1, <3>1 DEF Node, FreeNode
      <3>3. Aligned(m.at) /\ Aligned(m.size) /\ 0 < m.size /\ m.at + m.size = end
        <4>1. Aligned(end - to)
          BY <1>1, <1>2, AlignedSum
        <4>2. 0 < end - to /\ to + (end - to) = end
          BY <1>1, <2>1
        <4>3. QED
          BY <3>2, <4>1, <4>2
      <3>4. t = <<m>>
        <4>1. t = <<Node(to, end - to)>>
          BY <2>1 DEF CutRest
        <4>2. QED
          BY <3>1, <4>1
      <3>5. QED
        BY <3>2, <3>3, <3>4, OneNode
    <2>2. CASE ~(to < end)
      <3>1. t = <<>>
        BY <2>2 DEF CutRest
      <3>2. \A a \in Int : ~(to <= a /\ a < end)
        BY <1>1, <2>2
      <3>3. QED
        BY <3>1, <3>2, NoNodes
    <2>3. QED
      BY <2>1, <2>2
  <1>5. s \in Seq(FreeNode) /\ t \in Seq(FreeNode)
    BY <1>3, <1>4 DEF IsFreeList
  <1> HIDE DEF s, t, end
  <1>6. /\ IsFreeList(s \o t, n.at, end)
        /\ \A a \in Int : a \in ListBytes(s \o t) <=> a \in ListBytes(s) \/ a \in ListBytes(t)
    <2>1. to <= end
      BY DEF end
    <2>2. QED
      BY <1>1, <1>3, <1>4, <2>1, TwoNodes
  <1>7. Cut(n, from, to) = s \o t
    BY DEF Cut, s, t
  <1>8. QED
    BY <1>3, <1>4, <1>5, <1>6, <1>7 DEF s, t, end

\* The headers of a list's nodes are in their bytes.
LEMMA HeadersAreFree ==
    ASSUME NEW lo, NEW hi, NEW nodes, IsFreeList(nodes, lo, hi)
    PROVE  /\ \A j \in 1 .. Len(nodes) : Header(nodes[j].at) \subseteq ListBytes(nodes)
           /\ UNION {Header(n.at) : n \in ToSet(nodes)} \subseteq ListBytes(nodes)
  <1>1. nodes \in Seq(FreeNode) /\ DOMAIN nodes = 1 .. Len(nodes)
    BY LenProperties DEF IsFreeList
  <1>2. ASSUME NEW j \in 1 .. Len(nodes)
        PROVE  Header(nodes[j].at) \subseteq ListBytes(nodes)
    <2>1. nodes[j].at \in Int /\ nodes[j].size \in Int
      BY <1>1, NodeTypes
    <2>2. Aligned(nodes[j].size) /\ 0 < nodes[j].size
      BY DEF IsFreeList
    <2>3. ALIGN_SIZE <= nodes[j].size
      <3>1. Aligned(0) /\ ALIGN_SIZE \in Nat
        BY Alignment
      <3>2. 0 + ALIGN_SIZE <= nodes[j].size
        BY <2>1, <2>2, <3>1, AlignedApart
      <3>3. QED
        BY <3>1, <3>2
    <2>4. \A a \in Header(nodes[j].at) :
             a \in Int /\ nodes[j].at <= a /\ a < nodes[j].at + nodes[j].size
      BY <2>1, <2>3, AlignAssumption DEF Header
    <2>5. QED
      BY <1>1, <2>4, InListBytes
  <1>3. \A n \in ToSet(nodes) : \E j \in 1 .. Len(nodes) : n = nodes[j]
    BY <1>1 DEF ToSet
  <1>4. QED
    BY <1>2, <1>3

\* So has the list it is in, and the headers of what is left lie in what was free.
LEMMA CutList ==
    ASSUME NEW lo \in Int, NEW hi \in Int, NEW nodes, IsFreeList(nodes, lo, hi),
           NEW j \in 1 .. Len(nodes), NEW from \in Int, NEW to \in Int,
           Aligned(from), Aligned(to), nodes[j].at <= from, from < to,
           to <= nodes[j].at + nodes[j].size
    PROVE  /\ IsShrunk(Spliced(nodes, j - 1, Cut(nodes[j], from, to), j + 1),
                       nodes, from, to, lo, hi)
           /\ UNION {Header(n.at) : n \in ToSet(Cut(nodes[j], from, to))} \subseteq ListBytes(nodes)
           /\ Header(from) \subseteq ListBytes(nodes)
           /\ lo <= from /\ to <= hi
           /\ \A a \in Int : from <= a /\ a < to => a \in ListBytes(nodes)
  <1> DEFINE n == nodes[j]
             end == n.at + n.size
             cut == Cut(n, from, to)
             r == Spliced(nodes, j - 1, cut, j + 1)
             l == Len(nodes)
  <1>1. nodes \in Seq(FreeNode) /\ l \in Nat
    BY NodeTypes DEF IsFreeList
  <1>2. n \in FreeNode /\ n.at \in Int /\ n.size \in Int /\ end \in Int
    BY <1>1, NodeTypes
  <1>3. /\ Aligned(n.at) /\ Aligned(n.size) /\ lo <= n.at /\ end <= hi
        /\ \A x, y \in 1 .. l : x < y => nodes[x].at + nodes[x].size < nodes[y].at
        /\ \A x \in 1 .. l : 0 < nodes[x].size
    BY DEF IsFreeList
  <1>4. \A x \in 1 .. l : nodes[x].at \in Int /\ nodes[x].size \in Int
    BY <1>1, NodeTypes
  <1>5. /\ IsFreeList(cut, n.at, end)
        /\ \A a \in Int : a \in ListBytes(cut) <=>
                 \/ n.at <= a /\ a < from
                 \/ to <= a /\ a < end
    BY <1>2, <1>3, CutNode
  <1>6. \A a : a \in ListBytes(nodes) <=>
           a \in Int /\ \E x \in 1 .. l : nodes[x].at <= a /\ a < nodes[x].at + nodes[x].size
    BY <1>1, InListBytes
  <1>7. j \in 1 .. l
    OBVIOUS
  <1>8. /\ IsFreeList(r, lo, hi)
        /\ \A a \in Int : a \in ListBytes(r) <=>
                 \/ a \in ListBytes(cut)
                 \/ \E x \in (1 .. j - 1) \cup (j + 1 .. Len(nodes)) :
                       nodes[x].at <= a /\ a < nodes[x].at + nodes[x].size
    <2>1. j - 1 \in 0 .. Len(nodes) /\ j + 1 \in (j - 1) + 1 .. Len(nodes) + 1
      BY <1>1
    <2>2. n.at <= end
      BY <1>2
    <2>3. \A x \in 1 .. j - 1 : nodes[x].at + nodes[x].size < n.at
      BY <1>1, <1>3
    <2>4. \A x \in j + 1 .. Len(nodes) : end < nodes[x].at
      <3>1. \A x \in j + 1 .. Len(nodes) : x \in 1 .. l /\ j < x
        BY <1>1
      <3>2. QED
        BY <1>3, <1>7, <3>1
    <2> HIDE DEF n, end, cut
    <2> DEFINE i == j - 1
               k == j + 1
    <2>5. i \in 0 .. Len(nodes) /\ k \in i + 1 .. Len(nodes) + 1
          /\ (\A x \in 1 .. i : nodes[x].at + nodes[x].size < n.at)
          /\ (\A x \in k .. Len(nodes) : end < nodes[x].at)
      BY <2>1, <2>3, <2>4
    <2>6. r = Spliced(nodes, i, cut, k)
      OBVIOUS
    <2> HIDE DEF i, k, r
    <2>7. lo <= n.at /\ end <= hi /\ IsFreeList(cut, n.at, end)
      BY <1>3, <1>5
    <2>8. IsSplicedList(Spliced(nodes, i, cut, k), nodes, i, cut, k, lo, hi)
      BY <1>2, <2>2, <2>5, <2>7, SplicedList
    <2>9. IsSplicedList(r, nodes, i, cut, k, lo, hi)
      BY <2>6, <2>8
    <2>10. QED
      BY <2>9 DEF IsSplicedList, i, k
  <1>9. ASSUME NEW a \in Int
        PROVE  a \in ListBytes(r) <=> a \in ListBytes(nodes) /\ ~(from <= a /\ a < to)
    <2>1. ASSUME NEW x \in 1 .. l, x # j, nodes[x].at <= a, a < nodes[x].at + nodes[x].size
          PROVE  ~(n.at <= a /\ a < end)
      <3>1. nodes[x].at \in Int /\ nodes[x].size \in Int /\ 0 < nodes[x].size
        BY <1>3, <1>4
      <3>2. CASE x < j
        <4>1. nodes[x].at + nodes[x].size < n.at
          BY <1>3, <1>7, <3>2
        <4>2. PICK p \in Int, s \in Int, q \in Int :
                 nodes[x].at = p /\ nodes[x].size = s /\ n.at = q
          BY <1>2, <3>1
        <4>3. a < p + s /\ p + s < q
          BY <2>1, <4>1, <4>2
        <4>4. ~(q <= a)
          BY <4>3
        <4>5. QED
          BY <4>2, <4>4
      <3>3. CASE j < x
        <4>1. end < nodes[x].at
          BY <1>3, <1>7, <3>3
        <4>2. QED
          BY <1>2, <2>1, <3>1, <4>1
      <3>4. QED
        BY <1>1, <2>1, <3>2, <3>3
    <2>2. (1 .. j - 1) \cup (j + 1 .. Len(nodes)) = {x \in 1 .. l : x # j}
      BY <1>1
    <2>3. a \in ListBytes(r) <=>
                 \/ n.at <= a /\ a < from
                 \/ to <= a /\ a < end
                 \/ \E x \in {y \in 1 .. l : y # j} :
                       nodes[x].at <= a /\ a < nodes[x].at + nodes[x].size
      BY <1>5, <1>8, <2>2
    <2>4. a \in ListBytes(nodes) <=>
                 \/ n.at <= a /\ a < end
                 \/ \E x \in {y \in 1 .. l : y # j} :
                       nodes[x].at <= a /\ a < nodes[x].at + nodes[x].size
      <3> HIDE DEF r, l
      <3>1. QED
        BY <1>6, <1>7
    <2>5. n.at <= from /\ from < to /\ to <= end
      OBVIOUS
    <2> DEFINE elsewhere == \E x \in {y \in 1 .. l : y # j} :
                       nodes[x].at <= a /\ a < nodes[x].at + nodes[x].size
    <2>6. elsewhere => ~(n.at <= a /\ a < end)
      BY <2>1
    <2> HIDE DEF n, end, r, elsewhere
    <2>7. QED
      BY <1>2, <2>3, <2>4, <2>5, <2>6 DEF elsewhere
  <1>10. \A a \in Int : n.at <= a /\ a < end => a \in ListBytes(nodes)
    <2> HIDE DEF l
    <2>1. QED
      BY <1>6, <1>7
  <1>11. ASSUME NEW a \in ListBytes(cut)
         PROVE  a \in ListBytes(nodes)
    <2>1. a \in Int
      BY <1>5, InListBytes DEF IsFreeList
    <2>2. n.at <= a /\ a < end
      <3>1. n.at <= from /\ from < to /\ to <= end
        OBVIOUS
      <3> HIDE DEF n, end, cut
      <3>2. QED
        BY <1>2, <1>5, <1>11, <2>1, <3>1
    <2>3. QED
      BY <1>10, <2>1, <2>2
  <1>12. UNION {Header(m.at) : m \in ToSet(cut)} \subseteq ListBytes(nodes)
    <2>1. UNION {Header(m.at) : m \in ToSet(cut)} \subseteq ListBytes(cut)
      BY <1>5, HeadersAreFree
    <2> HIDE DEF cut
    <2>2. QED
      BY <1>11, <2>1
  <1>13. Header(from) \subseteq ListBytes(nodes)
    <2>1. from + ALIGN_SIZE <= to /\ ALIGN_SIZE \in Nat
      BY AlignedApart, AlignAssumption
    <2>2. \A a \in Header(from) : a \in Int /\ n.at <= a /\ a < end
      <3>1. n.at <= from /\ to <= end
        OBVIOUS
      <3> HIDE DEF n, end
      <3>2. QED
        BY <1>2, <2>1, <3>1 DEF Header
    <2>3. QED
      BY <1>10, <2>2
  <1>14. lo <= from /\ to <= hi
    BY <1>2, <1>3
  <1>15. \A a \in Int : from <= a /\ a < to => a \in ListBytes(nodes)
    <2>1. n.at <= from /\ to <= end
      OBVIOUS
    <2>2. \A a \in Int : from <= a /\ a < to => n.at <= a /\ a < end
      <3> HIDE DEF n, end
      <3>1. QED
        BY <1>2, <2>1
    <2> HIDE DEF n, end
    <2>3. QED
      BY <1>10, <2>2
  <1>16. IsShrunk(r, nodes, from, to, lo, hi)
    <2> HIDE DEF r
    <2>1. QED
      BY <1>8, <1>9 DEF IsShrunk
  <1>17. QED
    BY <1>12, <1>13, <1>14, <1>15, <1>16

-----------------------------------------------------------------------------
(* Regions.                                                                *)

RegionType == [min : Int, max : Int, flags : SUBSET {"1MB", "16MB"}, pri : Int,
               free : Int, nodes : Seq(FreeNode)]

IsRegion(r) ==
    /\ r \in RegionType
    /\ Aligned(r.min) /\ Aligned(r.max) /\ 0 <= r.min /\ r.min < r.max /\ r.max <= INF
    /\ IsFreeList(r.nodes, r.min, r.max)
    /\ r.free = Cardinality(ListBytes(r.nodes))

IsLmm(lmm) ==
    /\ lmm \in Seq(RegionType)
    /\ \A i \in 1 .. Len(lmm) : IsRegion(lmm[i])
    /\ \A i, k \in 1 .. Len(lmm) :
          i # k => lmm[i].max <= lmm[k].min \/ lmm[k].max <= lmm[i].min

Bytes(lmm) == UNION {ListBytes(r.nodes) : r \in ToSet(lmm)}

SameRegions(lmm, other) ==
    /\ Len(lmm) = Len(other)
    /\ \A i \in 1 .. Len(lmm) : /\ other[i].min = lmm[i].min
                                /\ other[i].max = lmm[i].max
                                /\ other[i].flags = lmm[i].flags

InARegion(lmm, from, to) ==
    \E i \in 1 .. Len(lmm) : lmm[i].min <= from /\ to <= lmm[i].max

\* The bytes of a free list are finitely many, all of them within its bounds.
LEMMA ListIsFinite ==
    ASSUME NEW lo \in Int, NEW hi \in Int, NEW nodes, IsFreeList(nodes, lo, hi)
    PROVE  /\ IsFiniteSet(ListBytes(nodes))
           /\ Cardinality(ListBytes(nodes)) \in Nat
           /\ \A a \in ListBytes(nodes) : a \in Int /\ lo <= a /\ a < hi
  <1>1. nodes \in Seq(FreeNode)
    BY DEF IsFreeList
  <1>2. ASSUME NEW a \in ListBytes(nodes)
        PROVE  a \in Int /\ lo <= a /\ a < hi
    <2>1. PICK j \in 1 .. Len(nodes) : /\ a \in Int
                                       /\ nodes[j].at <= a /\ a < nodes[j].at + nodes[j].size
      BY <1>1, InListBytes
    <2>2. nodes[j].at \in Int /\ nodes[j].size \in Int
      BY <1>1, NodeTypes
    <2>3. lo <= nodes[j].at /\ nodes[j].at + nodes[j].size <= hi
      BY DEF IsFreeList
    <2>4. QED
      BY <2>1, <2>2, <2>3
  <1>3. ListBytes(nodes) \subseteq lo .. hi
    <2>1. \A a \in ListBytes(nodes) : a \in lo .. hi
      BY <1>2
    <2>2. QED
      BY <2>1
  <1>4. IsFiniteSet(lo .. hi)
    BY FS_Interval
  <1>5. IsFiniteSet(ListBytes(nodes))
    BY <1>3, <1>4, FS_Subset
  <1>6. QED
    BY <1>2, <1>5, FS_CardinalityType

\* The sizes of the lists of Freed and of Cut.
LEMMA GrownSize ==
    ASSUME NEW lo \in Int, NEW hi \in Int, NEW nodes, NEW list, NEW from \in Int, NEW to \in Int,
           from < to, IsGrown(list, nodes, from, to, lo, hi), IsFreeList(nodes, lo, hi),
           \A a \in Int : from <= a /\ a < to => a \notin ListBytes(nodes)
    PROVE  /\ ListBytes(list) = ListBytes(nodes) \cup (from .. to - 1)
           /\ Cardinality(ListBytes(list)) = Cardinality(ListBytes(nodes)) + (to - from)
  <1> DEFINE S == ListBytes(nodes)
             T == from .. to - 1
  <1>1. /\ IsFiniteSet(S) /\ Cardinality(S) \in Nat
        /\ \A a \in S : a \in Int
    BY ListIsFinite
  <1>2. IsFreeList(list, lo, hi)
    BY DEF IsGrown
  <1>3. \A a \in ListBytes(list) : a \in Int
    BY <1>2, ListIsFinite
  <1>4. \A a \in Int : a \in ListBytes(list) <=> a \in S \/ a \in T
    BY DEF IsGrown
  <1>5. ListBytes(list) = S \cup T
    <2>1. \A a \in T : a \in Int
      OBVIOUS
    <2> HIDE DEF S, T
    <2>2. QED
      BY <1>1, <1>3, <1>4, <2>1
  <1>6. IsFiniteSet(T) /\ Cardinality(T) = to - from
    <2>1. to - 1 \in Int
      OBVIOUS
    <2>2. IsFiniteSet(T) /\ Cardinality(T) = IF from > to - 1 THEN 0 ELSE (to - 1) - from + 1
      BY <2>1, FS_Interval
    <2>3. QED
      BY <2>2
  <1>7. S \cap T = {}
    OBVIOUS
  <1> HIDE DEF S, T
  <1>8. Cardinality(S \cup T) = Cardinality(S) + Cardinality(T) - Cardinality({})
    BY <1>1, <1>6, <1>7, FS_Union
  <1>9. Cardinality({}) = 0
    BY FS_EmptySet
  <1>10. QED
    BY <1>1, <1>5, <1>6, <1>8, <1>9 DEF S, T

LEMMA ShrunkSize ==
    ASSUME NEW lo \in Int, NEW hi \in Int, NEW nodes, NEW list, NEW from \in Int, NEW to \in Int,
           from < to, IsShrunk(list, nodes, from, to, lo, hi), IsFreeList(nodes, lo, hi),
           \A a \in Int : from <= a /\ a < to => a \in ListBytes(nodes)
    PROVE  /\ ListBytes(list) = ListBytes(nodes) \ (from .. to - 1)
           /\ Cardinality(ListBytes(list)) = Cardinality(ListBytes(nodes)) - (to - from)
  <1>1. IsFreeList(list, lo, hi)
    BY DEF IsShrunk
  <1>2. IsGrown(nodes, list, from, to, lo, hi)
    BY DEF IsShrunk, IsGrown
  <1>3. \A a \in Int : from <= a /\ a < to => a \notin ListBytes(list)
    BY DEF IsShrunk
  <1>4. /\ ListBytes(nodes) = ListBytes(list) \cup (from .. to - 1)
        /\ Cardinality(ListBytes(nodes)) = Cardinality(ListBytes(list)) + (to - from)
    BY <1>1, <1>2, <1>3, GrownSize
  <1>5. Cardinality(ListBytes(list)) \in Nat
    BY <1>1, ListIsFinite
  <1>6. (from .. to - 1) \cap ListBytes(list) = {}
    BY <1>3
  <1>7. ListBytes(list) = ListBytes(nodes) \ (from .. to - 1)
    BY <1>4, <1>6
  <1>8. QED
    BY <1>4, <1>5, <1>7

\* What an lmm's being one says of its regions.
LEMMA RegionFacts ==
    ASSUME NEW lmm, IsLmm(lmm)
    PROVE  /\ Len(lmm) \in Nat /\ DOMAIN lmm = 1 .. Len(lmm)
           /\ \A i \in 1 .. Len(lmm) :
                 /\ lmm[i] \in RegionType
                 /\ lmm[i].min \in Int /\ lmm[i].max \in Int /\ lmm[i].free \in Int
                 /\ Aligned(lmm[i].min) /\ Aligned(lmm[i].max)
                 /\ 0 <= lmm[i].min /\ lmm[i].min < lmm[i].max /\ lmm[i].max <= INF
                 /\ lmm[i].nodes \in Seq(FreeNode)
                 /\ IsFreeList(lmm[i].nodes, lmm[i].min, lmm[i].max)
                 /\ lmm[i].free = Cardinality(ListBytes(lmm[i].nodes))
  <1>1. Len(lmm) \in Nat /\ DOMAIN lmm = 1 .. Len(lmm)
    BY LenProperties DEF IsLmm
  <1>2. ASSUME NEW i \in 1 .. Len(lmm)
        PROVE  /\ lmm[i] \in RegionType
               /\ Aligned(lmm[i].min) /\ Aligned(lmm[i].max)
               /\ 0 <= lmm[i].min /\ lmm[i].min < lmm[i].max /\ lmm[i].max <= INF
               /\ IsFreeList(lmm[i].nodes, lmm[i].min, lmm[i].max)
               /\ lmm[i].free = Cardinality(ListBytes(lmm[i].nodes))
    <2>1. IsRegion(lmm[i])
      BY DEF IsLmm
    <2>2. QED
      BY <2>1 DEF IsRegion
  <1>3. \A r \in RegionType : /\ r.min \in Int /\ r.max \in Int /\ r.free \in Int
                              /\ r.nodes \in Seq(FreeNode)
    BY DEF RegionType
  <1>4. QED
    BY <1>1, <1>2, <1>3

\* A free byte is in the list of the one region it is in.
LEMMA RegionBytes ==
    ASSUME NEW lmm, IsLmm(lmm)
    PROVE  /\ \A a : a \in Bytes(lmm) <=> \E i \in 1 .. Len(lmm) : a \in ListBytes(lmm[i].nodes)
           /\ \A a \in Bytes(lmm) : a \in Int /\ 0 <= a /\ a < INF
           /\ \A i \in 1 .. Len(lmm) : \A a \in ListBytes(lmm[i].nodes) :
                 a \in Int /\ lmm[i].min <= a /\ a < lmm[i].max
           /\ \A i \in 1 .. Len(lmm) : \A a \in Bytes(lmm) :
                 lmm[i].min <= a /\ a < lmm[i].max => a \in ListBytes(lmm[i].nodes)
  <1>1. DOMAIN lmm = 1 .. Len(lmm) /\ Len(lmm) \in Nat
    BY RegionFacts
  <1>2. \A a : a \in Bytes(lmm) <=> \E i \in 1 .. Len(lmm) : a \in ListBytes(lmm[i].nodes)
    BY <1>1 DEF Bytes, ToSet
  <1>3. ASSUME NEW i \in 1 .. Len(lmm), NEW a \in ListBytes(lmm[i].nodes)
        PROVE  a \in Int /\ lmm[i].min <= a /\ a < lmm[i].max
    <2>1. /\ lmm[i].min \in Int /\ lmm[i].max \in Int
          /\ IsFreeList(lmm[i].nodes, lmm[i].min, lmm[i].max)
      BY RegionFacts
    <2>2. QED
      BY <2>1, ListIsFinite
  <1>4. ASSUME NEW a \in Bytes(lmm)
        PROVE  a \in Int /\ 0 <= a /\ a < INF
    <2>1. PICK i \in 1 .. Len(lmm) : a \in ListBytes(lmm[i].nodes)
      BY <1>2
    <2>2. a \in Int /\ lmm[i].min <= a /\ a < lmm[i].max
      BY <1>3, <2>1
    <2>3. lmm[i].min \in Int /\ lmm[i].max \in Int /\ 0 <= lmm[i].min /\ lmm[i].max <= INF
      BY RegionFacts
    <2>4. INF \in Int
      BY SizesAssumption
    <2>5. QED
      BY <2>2, <2>3, <2>4
  <1>5. ASSUME NEW i \in 1 .. Len(lmm), NEW a \in Bytes(lmm), lmm[i].min <= a, a < lmm[i].max
        PROVE  a \in ListBytes(lmm[i].nodes)
    <2>1. PICK k \in 1 .. Len(lmm) : a \in ListBytes(lmm[k].nodes)
      BY <1>2
    <2>2. a \in Int /\ lmm[k].min <= a /\ a < lmm[k].max
      BY <1>3, <2>1
    <2>3. /\ lmm[i].min \in Int /\ lmm[i].max \in Int
          /\ lmm[k].min \in Int /\ lmm[k].max \in Int
      BY RegionFacts
    <2>4. i # k => lmm[i].max <= lmm[k].min \/ lmm[k].max <= lmm[i].min
      BY DEF IsLmm
    <2>5. i = k
      BY <1>5, <2>2, <2>3, <2>4
    <2>6. QED
      BY <2>1, <2>5
  <1>6. QED
    BY <1>2, <1>3, <1>4, <1>5

\* The lmm with another list in one of its regions.
WithList(lmm, i, list, free) == [lmm EXCEPT ![i].nodes = list, ![i].free = free]

\* A region that gets another free list of its own bytes leaves an lmm.
LEMMA ReplacedList ==
    ASSUME NEW lmm, IsLmm(lmm), NEW i \in 1 .. Len(lmm), NEW list, NEW free,
           IsFreeList(list, lmm[i].min, lmm[i].max), free = Cardinality(ListBytes(list))
    PROVE  /\ IsLmm(WithList(lmm, i, list, free))
           /\ SameRegions(lmm, WithList(lmm, i, list, free))
           /\ \A a : a \in Bytes(WithList(lmm, i, list, free)) <=>
                 \/ a \in ListBytes(list)
                 \/ a \in Bytes(lmm) /\ ~(lmm[i].min <= a /\ a < lmm[i].max)
  <1> DEFINE l == WithList(lmm, i, list, free)
             n == Len(lmm)
  <1>1. /\ n \in Nat /\ DOMAIN lmm = 1 .. n
        /\ \A k \in 1 .. n : lmm[k] \in RegionType
        /\ lmm \in Seq(RegionType)
    BY RegionFacts DEF IsLmm
  <1>2. free \in Int /\ list \in Seq(FreeNode)
    <2>1. lmm[i].min \in Int /\ lmm[i].max \in Int
      BY RegionFacts
    <2>2. Cardinality(ListBytes(list)) \in Nat
      BY <2>1, ListIsFinite
    <2>3. QED
      BY <2>2 DEF IsFreeList
  <1>4. /\ DOMAIN l = 1 .. n
        /\ \A k \in 1 .. n : k # i => l[k] = lmm[k]
        /\ l[i] = [lmm[i] EXCEPT !.nodes = list, !.free = free]
    BY <1>1 DEF WithList
  <1>5. /\ l[i].min = lmm[i].min /\ l[i].max = lmm[i].max /\ l[i].flags = lmm[i].flags
        /\ l[i].nodes = list /\ l[i].free = free
        /\ l[i] \in RegionType
    <2> HIDE DEF l
    <2>1. ASSUME NEW r \in RegionType, NEW q, q = [r EXCEPT !.nodes = list, !.free = free]
          PROVE  /\ q.min = r.min /\ q.max = r.max /\ q.flags = r.flags
                 /\ q.nodes = list /\ q.free = free
                 /\ q \in RegionType
      BY <1>2, <2>1 DEF RegionType
    <2>2. lmm[i] \in RegionType
      BY <1>1
    <2>3. QED
      BY <1>4, <2>1, <2>2
  <1> HIDE DEF l
  <1>6. l \in Seq(RegionType) /\ Len(l) = n
    <2>1. \A k \in 1 .. n : l[k] \in RegionType
      BY <1>1, <1>4, <1>5
    <2>2. l \in [1 .. n -> RegionType]
      <3>1. l = [k \in 1 .. n |-> l[k]]
        <4>1. l = [lmm EXCEPT ![i] = l[i]]
          BY <1>1, <1>4 DEF l, WithList
        <4>2. QED
          BY <1>1, <1>4, <4>1
      <3>2. QED
        BY <2>1, <3>1
    <2>3. QED
      BY <1>1, <2>2
  <1>7. \A k \in 1 .. n : l[k].min = lmm[k].min /\ l[k].max = lmm[k].max /\ l[k].flags = lmm[k].flags
    BY <1>4, <1>5
  <1>8. IsLmm(l)
    <2>1. ASSUME NEW k \in 1 .. n
          PROVE  IsRegion(l[k])
      <3>1. IsRegion(lmm[k])
        BY DEF IsLmm
      <3>2. CASE k # i
        BY <1>4, <3>1, <3>2
      <3>3. CASE k = i
        BY <1>5, <3>1, <3>3 DEF IsRegion
      <3>4. QED
        BY <3>2, <3>3
    <2>2. \A k, m \in 1 .. n : k # m => l[k].max <= l[m].min \/ l[m].max <= l[k].min
      BY <1>7 DEF IsLmm
    <2>3. QED
      BY <1>6, <2>1, <2>2 DEF IsLmm
  <1>9. SameRegions(lmm, l)
    BY <1>6, <1>7 DEF SameRegions
  <1>10. ASSUME NEW a
         PROVE  a \in Bytes(l) <=> \/ a \in ListBytes(list)
                                   \/ a \in Bytes(lmm) /\ ~(lmm[i].min <= a /\ a < lmm[i].max)
    <2>1. a \in Bytes(l) <=> \E k \in 1 .. n : a \in ListBytes(l[k].nodes)
      BY <1>6, <1>8, RegionBytes
    <2>2. a \in Bytes(lmm) <=> \E k \in 1 .. n : a \in ListBytes(lmm[k].nodes)
      BY RegionBytes
    <2>3. ASSUME NEW k \in 1 .. n, k # i, a \in ListBytes(lmm[k].nodes)
          PROVE  ~(lmm[i].min <= a /\ a < lmm[i].max)
      <3>1. a \in Int /\ lmm[k].min <= a /\ a < lmm[k].max
        BY <2>3, RegionBytes
      <3>2. /\ lmm[i].min \in Int /\ lmm[i].max \in Int
            /\ lmm[k].min \in Int /\ lmm[k].max \in Int
        BY RegionFacts
      <3>3. lmm[i].max <= lmm[k].min \/ lmm[k].max <= lmm[i].min
        BY <2>3 DEF IsLmm
      <3>4. QED
        BY <3>1, <3>2, <3>3
    <2>4. a \in Bytes(l) <=>
             a \in ListBytes(list) \/ \E k \in 1 .. n : k # i /\ a \in ListBytes(lmm[k].nodes)
      BY <1>4, <1>5, <2>1
    <2>5. a \in ListBytes(lmm[i].nodes) => lmm[i].min <= a /\ a < lmm[i].max
      BY RegionBytes
    <2>6. QED
      BY <2>2, <2>3, <2>4, <2>5
  <1>11. QED
    BY <1>8, <1>9, <1>10 DEF l

\* The lmm l has the bytes from from to to - 1 more than lmm, or less.
Grown(l, lmm, from, to) ==
    /\ IsLmm(l) /\ SameRegions(lmm, l)
    /\ Bytes(l) = Bytes(lmm) \cup (from .. to - 1)

Shrunk(l, lmm, from, to) ==
    /\ IsLmm(l) /\ SameRegions(lmm, l)
    /\ Bytes(l) = Bytes(lmm) \ (from .. to - 1)

\* An lmm grows with the list of a region.
LEMMA GrownLmm ==
    ASSUME NEW lmm, IsLmm(lmm), NEW i \in 1 .. Len(lmm), NEW list,
           NEW from \in Int, NEW to \in Int, from < to, lmm[i].min <= from, to <= lmm[i].max,
           IsGrown(list, lmm[i].nodes, from, to, lmm[i].min, lmm[i].max),
           \A a \in from .. to - 1 : a \notin ListBytes(lmm[i].nodes)
    PROVE  Grown(WithList(lmm, i, list, lmm[i].free + (to - from)), lmm, from, to)
  <1> DEFINE l == WithList(lmm, i, list, lmm[i].free + (to - from))
             lo == lmm[i].min
             hi == lmm[i].max
             nodes == lmm[i].nodes
  <1>1. /\ lo \in Int /\ hi \in Int /\ IsFreeList(nodes, lo, hi)
        /\ lmm[i].free = Cardinality(ListBytes(nodes))
    BY RegionFacts
  <1>2. \A a \in Int : from <= a /\ a < to => a \notin ListBytes(nodes)
    <2>1. \A a \in Int : from <= a /\ a < to => a \in from .. to - 1
      OBVIOUS
    <2>2. QED
      BY <2>1
  <1>3. /\ ListBytes(list) = ListBytes(nodes) \cup (from .. to - 1)
        /\ Cardinality(ListBytes(list)) = Cardinality(ListBytes(nodes)) + (to - from)
    <2> HIDE DEF lo, hi, nodes
    <2>1. IsGrown(list, nodes, from, to, lo, hi)
      BY DEF lo, hi, nodes
    <2>2. QED
      BY <1>1, <1>2, <2>1, GrownSize
  <1>4. IsFreeList(list, lo, hi)
    BY DEF IsGrown
  <1>5. /\ IsLmm(l) /\ SameRegions(lmm, l)
        /\ \A a : a \in Bytes(l) <=>
                 \/ a \in ListBytes(list)
                 \/ a \in Bytes(lmm) /\ ~(lmm[i].min <= a /\ a < lmm[i].max)
    BY <1>1, <1>3, <1>4, ReplacedList
  <1>6. Bytes(l) = Bytes(lmm) \cup (from .. to - 1)
    <2>1. /\ \A a \in ListBytes(nodes) : a \in Bytes(lmm)
          /\ \A a \in Bytes(lmm) : lo <= a /\ a < hi => a \in ListBytes(nodes)
      BY RegionBytes
    <2> HIDE DEF l, nodes, lo, hi
    <2>2. QED
      BY <1>3, <1>5, <2>1 DEF lo, hi
  <1>7. QED
    <2> HIDE DEF l
    <2>1. Grown(l, lmm, from, to)
      BY <1>5, <1>6 DEF Grown
    <2>2. QED
      BY <2>1 DEF l

\* And shrinks with it.
LEMMA ShrunkLmm ==
    ASSUME NEW lmm, IsLmm(lmm), NEW i \in 1 .. Len(lmm), NEW list,
           NEW from \in Int, NEW to \in Int, from < to, lmm[i].min <= from, to <= lmm[i].max,
           IsShrunk(list, lmm[i].nodes, from, to, lmm[i].min, lmm[i].max),
           \A a \in Int : from <= a /\ a < to => a \in ListBytes(lmm[i].nodes)
    PROVE  Shrunk(WithList(lmm, i, list, lmm[i].free - (to - from)), lmm, from, to)
  <1> DEFINE l == WithList(lmm, i, list, lmm[i].free - (to - from))
             lo == lmm[i].min
             hi == lmm[i].max
             nodes == lmm[i].nodes
  <1>1. /\ lo \in Int /\ hi \in Int /\ IsFreeList(nodes, lo, hi)
        /\ lmm[i].free = Cardinality(ListBytes(nodes))
    BY RegionFacts
  <1>3. /\ ListBytes(list) = ListBytes(nodes) \ (from .. to - 1)
        /\ Cardinality(ListBytes(list)) = Cardinality(ListBytes(nodes)) - (to - from)
    <2> HIDE DEF lo, hi, nodes
    <2>1. /\ IsShrunk(list, nodes, from, to, lo, hi)
          /\ \A a \in Int : from <= a /\ a < to => a \in ListBytes(nodes)
      BY DEF lo, hi, nodes
    <2>2. QED
      BY <1>1, <2>1, ShrunkSize
  <1>4. IsFreeList(list, lo, hi)
    BY DEF IsShrunk
  <1>5. /\ IsLmm(l) /\ SameRegions(lmm, l)
        /\ \A a : a \in Bytes(l) <=>
                 \/ a \in ListBytes(list)
                 \/ a \in Bytes(lmm) /\ ~(lmm[i].min <= a /\ a < lmm[i].max)
    BY <1>1, <1>3, <1>4, ReplacedList
  <1>6. Bytes(l) = Bytes(lmm) \ (from .. to - 1)
    <2>1. /\ \A a \in ListBytes(nodes) : a \in Bytes(lmm)
          /\ \A a \in Bytes(lmm) : lo <= a /\ a < hi => a \in ListBytes(nodes)
      BY RegionBytes
    <2>2. \A a \in from .. to - 1 : lo <= a /\ a < hi
      BY <1>1
    <2> HIDE DEF l, nodes, lo, hi
    <2>3. QED
      BY <1>3, <1>5, <2>1, <2>2 DEF lo, hi
  <1>7. QED
    <2> HIDE DEF l
    <2>1. Shrunk(l, lmm, from, to)
      BY <1>5, <1>6 DEF Shrunk
    <2>2. QED
      BY <2>1 DEF l

-----------------------------------------------------------------------------
(* The operations on an lmm.                                               *)

\* The maximum of two.
LEMMA MaxOfTwo ==
    ASSUME NEW a \in Int, NEW b \in Int
    PROVE  Max({a, b}) = IF a >= b THEN a ELSE b
  <1>1. \E x \in {a, b} : \A y \in {a, b} : x >= y
    OBVIOUS
  <1>2. Max({a, b}) \in {a, b} /\ \A y \in {a, b} : Max({a, b}) >= y
    BY <1>1 DEF Max
  <1>3. QED
    BY <1>2

\* The minimum of two.
LEMMA MinOfTwo ==
    ASSUME NEW a \in Int, NEW b \in Int
    PROVE  Min({a, b}) = IF a <= b THEN a ELSE b
  <1>1. \E x \in {a, b} : \A y \in {a, b} : x <= y
    OBVIOUS
  <1>2. Min({a, b}) \in {a, b} /\ \A y \in {a, b} : Min({a, b}) <= y
    BY <1>1 DEF Min
  <1>3. QED
    BY <1>2

\* lmm_free of a block whose units are in a region and not free makes just them free,
\* and writes its node into free memory only.
LEMMA lmm_free_grows ==
    ASSUME NEW lmm, IsLmm(lmm), NEW block \in Int, NEW size \in Nat \ {0},
           InARegion(lmm, AlignDown(block), End(block, size)),
           \A a \in AlignDown(block) .. End(block, size) - 1 : a \notin Bytes(lmm)
    PROVE  /\ Grown(lmm_free(lmm, block, size).lmm, lmm, AlignDown(block), End(block, size))
           /\ lmm_free(lmm, block, size).wrote \subseteq Bytes(lmm_free(lmm, block, size).lmm)
  <1> DEFINE from == AlignDown(block)
             to == End(block, size)
             node == Node(AlignDown(block), AlignUp((block % ALIGN_SIZE) + size))
             i == SelectInSeq(lmm, LAMBDA r : r.min <= node.at /\ node.at < r.max)
             freed == Freed(lmm[i].nodes, node)
             l == lmm_free(lmm, block, size).lmm
  <1>1. /\ from \in Int /\ to \in Int /\ Aligned(from) /\ Aligned(to) /\ from < to
        /\ AlignUp((block % ALIGN_SIZE) + size) = to - from
    BY UnitsOfABlock
  <1>2. node.at = from /\ node.size = to - from /\ node \in FreeNode
    BY <1>1 DEF Node, FreeNode
  <1>3. /\ Len(lmm) \in Nat
        /\ \A k \in 1 .. Len(lmm) : lmm[k].min \in Int /\ lmm[k].max \in Int
    BY RegionFacts
  <1>4. /\ i \in 1 .. Len(lmm)
        /\ lmm[i].min <= from /\ to <= lmm[i].max
    <2> DEFINE T == {k \in 1 .. Len(lmm) : lmm[k].min <= node.at /\ node.at < lmm[k].max}
    <2>1. i = IF T # {} THEN Min(T) ELSE 0
      BY DEF SelectInSeq
    <2>2. PICK k \in 1 .. Len(lmm) : lmm[k].min <= from /\ to <= lmm[k].max
      BY DEF InARegion
    <2>3. k \in T
      <3>1. lmm[k].min <= from /\ from < lmm[k].max
        <4> HIDE DEF from, to
        <4>1. QED
          BY <1>1, <1>3, <2>2
      <3>2. QED
        BY <1>2, <2>2, <3>1
    <2>4. T \in SUBSET (1 .. Len(lmm))
      OBVIOUS
    <2> HIDE DEF i, T
    <2>5. i \in T /\ i \in 1 .. Len(lmm)
      BY <1>3, <2>1, <2>3, <2>4, FirstIndex
    <2>6. lmm[i].min <= from /\ from < lmm[i].max
      BY <1>2, <2>5 DEF T
    <2>7. i # k => lmm[i].max <= lmm[k].min \/ lmm[k].max <= lmm[i].min
      BY <2>5 DEF IsLmm
    <2>8. i = k
      <3> HIDE DEF from, to
      <3>1. PICK a \in Int, b \in Int, c \in Int, d \in Int :
               lmm[i].min = a /\ lmm[i].max = b /\ lmm[k].min = c /\ lmm[k].max = d
        BY <1>3, <2>5
      <3>2. a <= from /\ from < b /\ c <= from /\ from < d
        <4>1. from < to /\ c <= from /\ to <= d
          BY <1>1, <2>2, <3>1
        <4>2. QED
          BY <1>1, <2>6, <3>1, <4>1
      <3>3. ~(b <= c) /\ ~(d <= a)
        BY <1>1, <3>2
      <3>4. QED
        BY <2>7, <3>1, <3>3
    <2>9. QED
      BY <2>2, <2>5, <2>8
  <1>5. /\ l = [lmm EXCEPT ![i].nodes = freed.nodes, ![i].free = @ + node.size]
        /\ lmm_free(lmm, block, size).wrote = Header(freed.at)
    BY DEF lmm_free
  <1> HIDE DEF i, node, from, to
  <1>6. /\ lmm[i].min \in Int /\ lmm[i].max \in Int
        /\ IsFreeList(lmm[i].nodes, lmm[i].min, lmm[i].max)
    BY <1>4, RegionFacts
  <1>7. /\ Aligned(node.size) /\ 0 < node.size /\ node.at + node.size = to
    <2>1. Aligned(to - from)
      BY <1>1, AlignedSum
    <2>2. QED
      BY <1>1, <1>2, <2>1
  <1>8. \A a \in Int : from <= a /\ a < to => a \notin ListBytes(lmm[i].nodes)
    <2>1. \A a \in Int : from <= a /\ a < to => a \notin Bytes(lmm)
      <3>1. \A a \in Int : from <= a /\ a < to => a \in from .. to - 1
        BY <1>1
      <3>2. QED
        BY <3>1 DEF from, to
    <2>2. QED
      BY <1>4, <2>1, RegionBytes
  <1>9. /\ IsGrown(freed.nodes, lmm[i].nodes, from, to, lmm[i].min, lmm[i].max)
        /\ Header(freed.at) \subseteq ListBytes(freed.nodes)
    <2>1. /\ IsGrown(freed.nodes, lmm[i].nodes, node.at, node.at + node.size,
                     lmm[i].min, lmm[i].max)
          /\ Header(freed.at) \subseteq ListBytes(freed.nodes)
      BY <1>1, <1>2, <1>4, <1>6, <1>7, <1>8, FreedIsGrown
    <2>2. QED
      BY <1>2, <1>7, <2>1
  <1> HIDE DEF freed
  <1>10. l = WithList(lmm, i, freed.nodes, lmm[i].free + (to - from))
    <2>2. node.size = to - from
      BY <1>2
    <2> HIDE DEF l
    <2>3. QED
      BY <1>5, <2>2 DEF WithList
  <1>11. Grown(l, lmm, from, to)
    <2>1. \A a \in from .. to - 1 : a \notin ListBytes(lmm[i].nodes)
      BY <1>1, <1>8
    <2> HIDE DEF l
    <2>2. QED
      BY <1>1, <1>4, <1>9, <1>10, <2>1, GrownLmm
  <1>12. ListBytes(freed.nodes) \subseteq Bytes(l)
    <2>1. /\ IsFreeList(freed.nodes, lmm[i].min, lmm[i].max)
          /\ \A a \in Int : a \in ListBytes(freed.nodes) <=>
                a \in ListBytes(lmm[i].nodes) \/ (from <= a /\ a < to)
      BY <1>9 DEF IsGrown
    <2>2. \A a \in ListBytes(freed.nodes) : a \in Int
      BY <1>6, <2>1, ListIsFinite
    <2>3. \A a \in ListBytes(lmm[i].nodes) : a \in Bytes(lmm)
      BY <1>4, RegionBytes
    <2>4. Bytes(l) = Bytes(lmm) \cup (from .. to - 1)
      BY <1>11 DEF Grown
    <2>5. \A a \in Int : from <= a /\ a < to => a \in from .. to - 1
      BY <1>1
    <2> HIDE DEF l
    <2>6. QED
      BY <2>1, <2>2, <2>3, <2>4, <2>5
  <1>13. QED
    BY <1>5, <1>9, <1>11, <1>12 DEF from, to

\* What has been allocated.
Took(res, lmm, size) ==
    /\ res.at \in Int
    /\ Shrunk(res.lmm, lmm, AlignDown(res.at), End(res.at, size))
    /\ AlignDown(res.at) .. End(res.at, size) - 1 \subseteq Bytes(lmm)
    /\ InARegion(lmm, AlignDown(res.at), End(res.at, size))
    /\ res.wrote \subseteq Bytes(lmm)

\* A block cut out of the node j of region i.
LEMMA CutIsTaken ==
    ASSUME NEW lmm, IsLmm(lmm), NEW i \in 1 .. Len(lmm), NEW j \in 1 .. Len(lmm[i].nodes),
           NEW pos \in Int, NEW size \in Nat \ {0}, NEW wrote,
           lmm[i].nodes[j].at <= pos, pos + size <= lmm[i].nodes[j].at + lmm[i].nodes[j].size,
           wrote \subseteq (UNION {Header(n.at) : n \in ToSet(Cut(lmm[i].nodes[j], AlignDown(pos), End(pos, size)))})
                           \cup Header(AlignDown(pos))
    PROVE  Took([lmm |-> [lmm EXCEPT
                    ![i].nodes = Spliced(lmm[i].nodes, j - 1,
                                         Cut(lmm[i].nodes[j], AlignDown(pos), End(pos, size)), j + 1),
                    ![i].free = @ - (End(pos, size) - AlignDown(pos))],
                 at |-> pos, wrote |-> wrote], lmm, size)
  <1> DEFINE from == AlignDown(pos)
             to == End(pos, size)
             nodes == lmm[i].nodes
             n == nodes[j]
             cut == Cut(n, from, to)
             list == Spliced(nodes, j - 1, cut, j + 1)
             l == [lmm EXCEPT ![i].nodes = list, ![i].free = @ - (to - from)]
  <1>1. /\ from \in Int /\ to \in Int /\ Aligned(from) /\ Aligned(to) /\ from < to
    BY UnitsOfABlock
  <1>2. /\ lmm[i].min \in Int /\ lmm[i].max \in Int
        /\ IsFreeList(nodes, lmm[i].min, lmm[i].max) /\ nodes \in Seq(FreeNode)
    BY RegionFacts
  <1>3. n.at \in Int /\ n.size \in Int
    BY <1>2, NodeTypes
  <1>4. Aligned(n.at) /\ Aligned(n.size)
    BY <1>2 DEF IsFreeList
  <1>5. n.at <= from /\ to <= n.at + n.size
    <2>2. n.at <= pos /\ pos + size <= n.at + n.size /\ pos + size \in Int
      OBVIOUS
    <2> HIDE DEF n
    <2>1. Aligned(n.at + n.size) /\ n.at + n.size \in Int
      <3>1. Aligned(n.at) <=> Aligned(n.at + n.size)
        BY <1>3, <1>4, AlignedSum
      <3>2. QED
        BY <1>3, <1>4, <3>1
    <2>3. n.at <= AlignDown(pos)
      BY <1>3, <1>4, <2>2, AlignDownIsGreatest
    <2>4. AlignUp(pos + size) <= n.at + n.size
      BY <2>1, <2>2, AlignDownIsGreatest
    <2>5. QED
      BY <2>3, <2>4 DEF End
  <1> HIDE DEF from, to
  <1>6. /\ IsShrunk(list, nodes, from, to, lmm[i].min, lmm[i].max)
        /\ UNION {Header(m.at) : m \in ToSet(cut)} \subseteq ListBytes(nodes)
        /\ Header(from) \subseteq ListBytes(nodes)
        /\ lmm[i].min <= from /\ to <= lmm[i].max
        /\ \A a \in Int : from <= a /\ a < to => a \in ListBytes(nodes)
    BY <1>1, <1>2, <1>5, CutList
  <1> HIDE DEF list, cut, n
  <1>7. l = WithList(lmm, i, list, lmm[i].free - (to - from))
    <2>2. QED
      BY DEF WithList
  <1>8. Shrunk(l, lmm, from, to)
    <2> HIDE DEF l
    <2>1. QED
      BY <1>1, <1>6, <1>7, ShrunkLmm
  <1>9. \A a \in ListBytes(nodes) : a \in Bytes(lmm)
    BY RegionBytes
  <1>10. from .. to - 1 \subseteq Bytes(lmm)
    <2>1. \A a \in from .. to - 1 : a \in Int /\ from <= a /\ a < to
      BY <1>1
    <2> HIDE DEF nodes
    <2>2. QED
      BY <1>6, <1>9, <2>1
  <1>11. InARegion(lmm, from, to)
    BY <1>6 DEF InARegion
  <1>12. wrote \subseteq Bytes(lmm)
    <2>0. PICK heads : heads = UNION {Header(m.at) : m \in ToSet(cut)}
      OBVIOUS
    <2>1. wrote \subseteq heads \cup Header(from)
      BY <2>0 DEF cut, n, from, to
    <2>2. heads \subseteq ListBytes(nodes) /\ Header(from) \subseteq ListBytes(nodes)
      BY <1>6, <2>0
    <2> HIDE DEF nodes
    <2>3. QED
      BY <1>9, <2>1, <2>2
  <1>13. PICK res : res = [lmm |-> l, at |-> pos, wrote |-> wrote]
    OBVIOUS
  <1>14. res.lmm = l /\ res.at = pos /\ res.wrote = wrote
    BY <1>13
  <1> HIDE DEF l
  <1>15. Took(res, lmm, size)
    BY <1>8, <1>10, <1>11, <1>12, <1>14 DEF Took, from, to
  <1>16. QED
    BY <1>13, <1>15 DEF l, list, cut, n, nodes, from, to

\* A node has room for size bytes from an address on.
HasRoomAt(lmm, pos, size) ==
    \E i \in 1 .. Len(lmm) : \E j \in 1 .. Len(lmm[i].nodes) :
        /\ lmm[i].nodes[j].at <= pos
        /\ pos + size <= lmm[i].nodes[j].at + lmm[i].nodes[j].size

\* A size that is in range once it is rounded up does not wrap.
LEMMA SizeInRange ==
    ASSUME NEW size \in Nat, AlignUp(size) < SIZE_RANGE
    PROVE  SizeT(size) = size /\ AllocSize(size) = AlignUp(size)
  <1>1. ASSUME NEW n \in Nat \ {0}, NEW a \in Nat, a < n
        PROVE  a % n = a
    BY <1>1
  <1>2. PICK up \in Int : up = AlignUp(size) /\ size <= up /\ up < SIZE_RANGE
    BY Alignment
  <1>3. QED
    BY <1>1, <1>2, RangeAssumption DEF SizeT, AllocSize

\* lmm_alloc fails and changes nothing, or takes whole units of one region that were free
\* and writes its nodes into memory that was free.
LEMMA lmm_alloc_takes ==
    ASSUME NEW lmm, IsLmm(lmm), NEW size0 \in Nat \ {0}, NEW flags,
           AlignUp(size0) < SIZE_RANGE
    PROVE  \/ /\ lmm_alloc(lmm, size0, flags) = Failed(lmm)
              /\ flags = {} => \A a \in Int : ~HasRoomAt(lmm, a, AlignUp(size0))
           \/ Took(lmm_alloc(lmm, size0, flags), lmm, size0)
  <1> DEFINE size == AllocSize(size0)
             Fits(n) == n.size >= size
             i == SelectInSeq(lmm, LAMBDA r : flags \subseteq r.flags
                                              /\ SelectInSeq(r.nodes, Fits) # 0)
             nodes == lmm[i].nodes
             j == SelectInSeq(nodes, Fits)
             rest == Node(nodes[j].at + size, nodes[j].size - size)
             n == nodes[j]
             others == IF rest.size > 0 THEN <<rest>> ELSE <<>>
             wrote == IF rest.size > 0 THEN Header(rest.at) ELSE {}
  <1>a. size = AlignUp(size0)
    BY SizeInRange
  <1>1. lmm_alloc(lmm, size0, flags) =
           IF i = 0 THEN Failed(lmm)
           ELSE [lmm |-> [lmm EXCEPT
                    ![i].nodes = SubSeq(nodes, 1, j - 1) \o others \o SubSeq(nodes, j + 1, Len(nodes)),
                    ![i].free = @ - size],
                 at |-> n.at,
                 wrote |-> wrote]
    BY DEF lmm_alloc
  <1>3. Len(lmm) \in Nat
    BY RegionFacts
  <1>0. ASSUME i = 0, flags = {}, NEW a \in Int, HasRoomAt(lmm, a, size)
         PROVE  FALSE
    <2> DEFINE T == {x \in 1 .. Len(lmm) : flags \subseteq lmm[x].flags
                                           /\ SelectInSeq(lmm[x].nodes, Fits) # 0}
    <2>1. i = IF T # {} THEN Min(T) ELSE 0
      BY DEF SelectInSeq
    <2>2. T \in SUBSET (1 .. Len(lmm))
      OBVIOUS
    <2>3. T = {}
      <3> HIDE DEF i, T
      <3>1. QED
        BY <1>3, <1>0, <2>1, <2>2, FirstIndex
    <2>4. PICK x \in 1 .. Len(lmm) : \E y \in 1 .. Len(lmm[x].nodes) :
             /\ lmm[x].nodes[y].at <= a
             /\ a + size <= lmm[x].nodes[y].at + lmm[x].nodes[y].size
      <3> HIDE DEF size
      <3>1. QED
        BY <1>0 DEF HasRoomAt
    <2>5. PICK s : s = lmm[x].nodes
      OBVIOUS
    <2>6. s \in Seq(FreeNode) /\ Len(s) \in Nat
      BY <2>5, RegionFacts, LenProperties
    <2>7. PICK y \in 1 .. Len(s) : s[y].at <= a /\ a + size <= s[y].at + s[y].size
      <3> HIDE DEF size
      <3>1. QED
        BY <2>4, <2>5
    <2>8. s[y].size >= size
      <3>1. s[y].at \in Int /\ s[y].size \in Int /\ size \in Int
        <4>1. size0 \in Int
          OBVIOUS
        <4>2. QED
          BY <1>a, <2>6, <2>7, <4>1, NodeTypes, Alignment
      <3> HIDE DEF size
      <3>2. PICK at0 \in Int, size1 \in Int : at0 = s[y].at /\ size1 = s[y].size
        BY <3>1
      <3>3. QED
        BY <2>7, <3>1, <3>2
    <2>9. SelectInSeq(s, Fits) # 0
      <3> DEFINE k == SelectInSeq(s, Fits)
                 U == {z \in 1 .. Len(s) : s[z].size >= size}
      <3>1. k = IF U # {} THEN Min(U) ELSE 0
        BY DEF SelectInSeq
      <3>2. U \in SUBSET (1 .. Len(s)) /\ y \in U
        BY <2>7, <2>8
      <3> HIDE DEF k, U
      <3>3. k # 0
        BY <2>6, <3>1, <3>2, FirstIndex
      <3>4. QED
        BY <3>3 DEF k
    <2>10. x \in T
      <3> HIDE DEF size
      <3>1. QED
        BY <1>0, <2>4, <2>5, <2>9
    <2>11. QED
      BY <2>3, <2>10
  <1>2. SUFFICES ASSUME i # 0
                 PROVE  Took(lmm_alloc(lmm, size0, flags), lmm, size0)
    <2> HIDE DEF i, size
    <2>1. QED
      BY <1>1, <1>0, <1>a
  <1>4. i \in 1 .. Len(lmm) /\ j # 0
    <2> DEFINE T == {x \in 1 .. Len(lmm) : flags \subseteq lmm[x].flags
                                           /\ SelectInSeq(lmm[x].nodes, Fits) # 0}
    <2>1. i = IF T # {} THEN Min(T) ELSE 0
      BY DEF SelectInSeq
    <2>2. T \in SUBSET (1 .. Len(lmm))
      OBVIOUS
    <2>3. i \in T /\ i \in 1 .. Len(lmm)
      <3> HIDE DEF i, T
      <3>1. QED
        BY <1>2, <1>3, <2>1, <2>2, FirstIndex
    <2>4. SelectInSeq(lmm[i].nodes, Fits) # 0
      <3> HIDE DEF i
      <3>1. QED
        BY <2>3
    <2>5. QED
      BY <2>3, <2>4
  <1> HIDE DEF i
  <1>5. /\ nodes \in Seq(FreeNode) /\ Len(nodes) \in Nat
        /\ IsFreeList(nodes, lmm[i].min, lmm[i].max)
    BY <1>4, RegionFacts, LenProperties
  <1>6. j \in 1 .. Len(nodes) /\ n.size >= size
    <2> DEFINE T == {x \in 1 .. Len(nodes) : nodes[x].size >= size}
    <2>1. j = IF T # {} THEN Min(T) ELSE 0
      BY DEF SelectInSeq
    <2>2. T \in SUBSET (1 .. Len(nodes))
      OBVIOUS
    <2>3. j \in T /\ j \in 1 .. Len(nodes)
      <3> HIDE DEF j, T, nodes
      <3>1. QED
        BY <1>4, <1>5, <2>1, <2>2, FirstIndex
    <2>4. QED
      <3> HIDE DEF j
      <3>1. QED
        BY <2>3
  <1> HIDE DEF j
  <1>7. n.at \in Int /\ n.size \in Int /\ Aligned(n.at)
    BY <1>5, <1>6, NodeTypes DEF IsFreeList
  <1> DEFINE pos == n.at
             from == AlignDown(pos)
             to == End(pos, size0)
  <1>8. /\ size0 <= size /\ size \in Int
        /\ from = pos /\ to = pos + size
    <2> HIDE DEF n
    <2>1. size0 \in Int
      OBVIOUS
    <2>2. size0 <= size /\ size \in Int
      BY <1>a, <2>1, Alignment
    <2>3. from = pos
      BY <1>7, AlignedIsKept
    <2>4. AlignUp(size0 + pos) = AlignUp(size0) + pos
      BY <1>7, <2>1, AlignShifted
    <2>5. to = pos + size
      BY <1>a, <1>7, <2>1, <2>2, <2>4 DEF End
    <2>6. QED
      BY <2>2, <2>3, <2>5
  <1> HIDE DEF size
  <1>9. others = Cut(n, from, to) /\ CutFront(n, from) = <<>>
    <2>1. CutFront(n, from) = <<>>
      BY <1>7, <1>8 DEF CutFront
    <2>2. CutRest(n, to) = others
      <3>1. rest.size > 0 <=> to < n.at + n.size
        BY <1>7, <1>8 DEF Node
      <3>2. rest = Node(to, (n.at + n.size) - to)
        BY <1>7, <1>8
      <3> HIDE DEF rest, n, to
      <3>3. QED
        BY <3>1, <3>2 DEF CutRest
    <2>3. others \in Seq(FreeNode)
      <3>1. rest \in FreeNode
        BY <1>7, <1>8 DEF Node, FreeNode
      <3> HIDE DEF rest
      <3>2. CASE rest.size > 0
        BY <3>1, <3>2
      <3>3. CASE ~(rest.size > 0)
        BY <3>3, NoNodes
      <3>4. QED
        BY <3>2, <3>3
    <2>4. <<>> \o others = others
      BY <2>3, ConcatEmptySeq
    <2> HIDE DEF others, n, from, to
    <2>5. QED
      BY <2>1, <2>2, <2>4 DEF Cut
  <1>10. wrote \subseteq (UNION {Header(m.at) : m \in ToSet(Cut(n, from, to))}) \cup Header(from)
    <2>1. CASE rest.size > 0
      <3>1. rest \in ToSet(Cut(n, from, to))
        <4>1. Cut(n, from, to) = <<rest>>
          BY <1>9, <2>1
        <4>2. PICK r : r = rest
          OBVIOUS
        <4>3. r \in ToSet(<<r>>)
          <5>1. 1 \in DOMAIN <<r>> /\ <<r>>[1] = r
            OBVIOUS
          <5>2. QED
            BY <5>1 DEF ToSet
        <4> HIDE DEF rest, n, from, to
        <4>4. QED
          BY <4>1, <4>2, <4>3
      <3>2. wrote = Header(rest.at)
        BY <2>1
      <3> HIDE DEF rest, wrote, n, from, to
      <3>3. QED
        BY <3>1, <3>2
    <2>2. CASE ~(rest.size > 0)
      <3>1. wrote = {}
        BY <2>2
      <3> HIDE DEF wrote
      <3>2. QED
        BY <3>1
    <2>3. QED
      BY <2>1, <2>2
  <1>11. Took([lmm |-> [lmm EXCEPT
                    ![i].nodes = Spliced(nodes, j - 1, Cut(n, from, to), j + 1),
                    ![i].free = @ - (to - from)],
               at |-> pos, wrote |-> wrote], lmm, size0)
    <2>1. n.at <= pos /\ pos + size0 <= n.at + n.size /\ pos \in Int
      <3> HIDE DEF n
      <3>1. QED
        BY <1>6, <1>7, <1>8
    <2> HIDE DEF pos, wrote
    <2>2. QED
      BY <1>4, <1>6, <1>10, <2>1, CutIsTaken
  <1>12. lmm_alloc(lmm, size0, flags) =
            [lmm |-> [lmm EXCEPT
                    ![i].nodes = Spliced(nodes, j - 1, Cut(n, from, to), j + 1),
                    ![i].free = @ - (to - from)],
               at |-> pos, wrote |-> wrote]
    <2>1. to - from = size
      BY <1>7, <1>8
    <2>2. SubSeq(nodes, 1, j - 1) \o others \o SubSeq(nodes, j + 1, Len(nodes)) =
             Spliced(nodes, j - 1, Cut(n, from, to), j + 1)
      <3> HIDE DEF others, n, from, to
      <3>1. QED
        BY <1>9 DEF Spliced
    <2> HIDE DEF others, wrote, from, to, n
    <2>3. QED
      BY <1>1, <1>2, <2>1, <2>2
  <1>13. QED
    BY <1>11, <1>12

\* The adjusted address is not below the address.
LEMMA AdjustedIsAbove ==
    ASSUME NEW addr \in Int, NEW align_bits, 2 ^ align_bits \in Nat \ {0}, NEW align_ofs \in Int
    PROVE  /\ Adjusted(addr, align_bits, align_ofs) \in Int
           /\ addr <= Adjusted(addr, align_bits, align_ofs)
  <1>1. align_ofs - addr \in Int
    OBVIOUS
  <1>2. (align_ofs - addr) % (2 ^ align_bits) \in 0 .. (2 ^ align_bits) - 1
    BY <1>1, Division
  <1>3. QED
    BY <1>2 DEF Adjusted

\* Two numbers have the same remainder if they are a multiple apart.
LEMMA SameRemainder ==
    ASSUME NEW n \in Nat \ {0}, NEW a \in Int, NEW b \in Int
    PROVE  a % n = b % n <=> \E k \in Int : a = b + k * n
  <1>1. PICK q \in Int, r \in 0 .. n - 1 : a % n = r /\ a = q * n + r
    BY Division
  <1>2. PICK p \in Int, s \in 0 .. n - 1 : b % n = s /\ b = p * n + s
    BY Division
  <1>3. ASSUME NEW x \in Int, NEW y \in Int
        PROVE  (x - y) * n = x * n - y * n /\ (x + y) * n = x * n + y * n
    OBVIOUS
  <1>4. ASSUME r = s
        PROVE  \E k \in Int : a = b + k * n
    <2>1. a = b + (q - p) * n
      BY <1>1, <1>2, <1>3, <1>4
    <2>2. QED
      BY <2>1
  <1>5. ASSUME NEW k \in Int, a = b + k * n
        PROVE  r = s
    <2>1. PICK d \in Int : d = q - (p + k)
      OBVIOUS
    <2>2. d * n = s - r
      BY <1>1, <1>2, <1>3, <1>5, <2>1
    <2>3. d >= 1 => d * n >= n
      OBVIOUS
    <2>4. d <= -1 => d * n <= -n
      OBVIOUS
    <2>5. ~(d >= 1) /\ ~(d <= -1)
      BY <1>1, <1>2, <2>2, <2>3, <2>4
    <2>6. d = 0
      BY <2>5
    <2>7. QED
      BY <1>1, <1>2, <2>2, <2>6
  <1>6. QED
    BY <1>1, <1>2, <1>4, <1>5

\* The adjusted address is the first one from addr on that is align_ofs above a multiple.
LEMMA AdjustedIsLeast ==
    ASSUME NEW addr \in Int, NEW align_bits, 2 ^ align_bits \in Nat \ {0}, NEW align_ofs \in Int
    PROVE  /\ Adjusted(addr, align_bits, align_ofs) % (2 ^ align_bits)
                 = align_ofs % (2 ^ align_bits)
           /\ \A a \in Int : addr <= a /\ a % (2 ^ align_bits) = align_ofs % (2 ^ align_bits)
                             => Adjusted(addr, align_bits, align_ofs) <= a
  <1>1. PICK n \in Nat \ {0} : n = 2 ^ align_bits
    OBVIOUS
  <1>2. PICK ofs \in Int : ofs = align_ofs
    OBVIOUS
  <1>3. PICK q \in Int, r \in 0 .. n - 1 : (ofs - addr) % n = r /\ ofs - addr = q * n + r
    <2>1. ofs - addr \in Int
      OBVIOUS
    <2>2. QED
      BY <2>1, Division
  <1>4. Adjusted(addr, align_bits, align_ofs) = addr + r
    BY <1>1, <1>2, <1>3 DEF Adjusted
  <1>5. (addr + r) % n = ofs % n
    <2>1. (-q) * n = -(q * n) /\ -q \in Int
      OBVIOUS
    <2>2. addr + r = ofs + (-q) * n
      BY <1>3, <2>1
    <2>3. PICK a \in Int, k \in Int : a = addr + r /\ k = -q
      BY <1>3
    <2>4. a = ofs + k * n
      BY <2>2, <2>3
    <2>5. a % n = ofs % n
      BY <2>4, SameRemainder
    <2>6. QED
      BY <2>3, <2>5
  <1>6. ASSUME NEW a \in Int, addr <= a, a % n = ofs % n
        PROVE  addr + r <= a
    <2>1. PICK k \in Int : a = ofs + k * n
      BY <1>6, SameRemainder
    <2>2. PICK d \in Int : d = q + k
      OBVIOUS
    <2>3. d * n = q * n + k * n
      BY <2>2
    <2>4. a - addr = d * n + r
      BY <1>3, <2>1, <2>3
    <2>5. d <= -1 => d * n <= -n
      OBVIOUS
    <2>6. d >= 0
      BY <1>3, <1>6, <2>4, <2>5
    <2>7. d * n >= 0
      BY <2>6
    <2>8. QED
      BY <1>3, <2>4, <2>7
  <1>7. QED
    BY <1>1, <1>2, <1>4, <1>5, <1>6

\* Neither the flags nor the limits exclude a region.
AllWillDo(lmm, flags, in_min, in_max) ==
    /\ flags = {} /\ in_min = 0 /\ in_max \in Int
    /\ \A i \in 1 .. Len(lmm) : lmm[i].max <= in_max

\* lmm_alloc_gen does, too, and what it takes lies in the range asked for.
LEMMA lmm_alloc_gen_takes ==
    ASSUME NEW lmm, IsLmm(lmm), NEW size0 \in Nat \ {0}, NEW flags,
           NEW align_bits, 2 ^ align_bits \in Nat \ {0}, NEW align_ofs \in Int,
           NEW in_min \in Int, NEW in_max
    PROVE  LET res == lmm_alloc_gen(lmm, size0, flags, align_bits, align_ofs, in_min, in_max)
           IN  \/ /\ res = Failed(lmm)
                  /\ AllWillDo(lmm, flags, in_min, in_max) =>
                        \A a \in Int : a % (2 ^ align_bits) = align_ofs % (2 ^ align_bits)
                                        => ~HasRoomAt(lmm, a, size0)
               \/ /\ Took(res, lmm, size0)
                  /\ in_min <= res.at /\ res.at + size0 <= in_max
                  /\ res.at % (2 ^ align_bits) = align_ofs % (2 ^ align_bits)
  <1> DEFINE res == lmm_alloc_gen(lmm, size0, flags, align_bits, align_ofs, in_min, in_max)
             Addr(n) == Adjusted(Max({n.at, in_min}), align_bits, align_ofs)
             HasRoom(n) == n.size >= size0 /\ Addr(n) - n.at + size0 <= n.size
             Usable(r) ==
                /\ flags \subseteq r.flags
                /\ r.min < in_max
                /\ r.max > in_min
                /\ LET k == SelectInSeq(r.nodes, HasRoom)
                   IN  k # 0 /\ Addr(r.nodes[k]) + size0 <= in_max
             i == SelectInSeq(lmm, Usable)
             nodes == lmm[i].nodes
             j == SelectInSeq(nodes, HasRoom)
             n == nodes[j]
             addr == Addr(n)
             anode == AlignDown(addr)
             size == AlignUp((addr % ALIGN_SIZE) + size0)
             end == n.at + n.size
             front == SplitFront(n, anode)
             rest == IF anode + size < end
                     THEN <<Node(anode + size, end - (anode + size))>> ELSE <<>>
             wrote == (UNION {Header(m.at) : m \in ToSet(front \o rest)})
                        \cup (IF front # <<>> THEN Header(anode) ELSE {})
  <1>1. res = IF i = 0 THEN Failed(lmm)
              ELSE [lmm |-> [lmm EXCEPT
                       ![i].nodes = SubSeq(nodes, 1, j - 1) \o front \o rest
                                    \o SubSeq(nodes, j + 1, Len(nodes)),
                       ![i].free = @ - size],
                    at |-> addr,
                    wrote |-> wrote]
    BY DEF lmm_alloc_gen
  <1> HIDE DEF res
  <1>3. Len(lmm) \in Nat
    BY RegionFacts
  <1>0. ASSUME i = 0, AllWillDo(lmm, flags, in_min, in_max), NEW a \in Int,
               a % (2 ^ align_bits) = align_ofs % (2 ^ align_bits), HasRoomAt(lmm, a, size0)
        PROVE  FALSE
    <2>1. /\ flags = {} /\ in_min = 0 /\ in_max \in Int
          /\ \A x \in 1 .. Len(lmm) : lmm[x].max <= in_max
      BY <1>0 DEF AllWillDo
    <2>2. \A x \in 1 .. Len(lmm) : ~Usable(lmm[x])
      <3> DEFINE T == {x \in 1 .. Len(lmm) : Usable(lmm[x])}
      <3>1. i = IF T # {} THEN Min(T) ELSE 0
        BY SMTT(30) DEF SelectInSeq
      <3>2. T \in SUBSET (1 .. Len(lmm))
        OBVIOUS
      <3>3. T = {}
        <4> HIDE DEF i, T
        <4>1. QED
          BY <1>3, <1>0, <3>1, <3>2, FirstIndex
      <3> HIDE DEF Usable
      <3>4. QED
        BY <3>3
    <2>3. PICK x \in 1 .. Len(lmm) : \E y \in 1 .. Len(lmm[x].nodes) :
             /\ lmm[x].nodes[y].at <= a
             /\ a + size0 <= lmm[x].nodes[y].at + lmm[x].nodes[y].size
      BY <1>0 DEF HasRoomAt
    <2>4. PICK s, lo, hi : s = lmm[x].nodes /\ lo = lmm[x].min /\ hi = lmm[x].max
      OBVIOUS
    <2>5. /\ s \in Seq(FreeNode) /\ Len(s) \in Nat /\ IsFreeList(s, lo, hi)
          /\ lo \in Int /\ hi \in Int /\ 0 <= lo /\ lo < hi
      BY <2>4, RegionFacts, LenProperties
    <2>6. PICK y \in 1 .. Len(s) : s[y].at <= a /\ a + size0 <= s[y].at + s[y].size
      BY <2>3, <2>4
    <2>7. \A z \in 1 .. Len(s) : /\ s[z].at \in Int /\ s[z].size \in Int /\ 0 <= s[z].at
                                 /\ s[z].at + s[z].size <= hi
      BY <2>5, NodeTypes DEF IsFreeList
    <2>8. \A z \in 1 .. Len(s) : Addr(s[z]) = Adjusted(s[z].at, align_bits, align_ofs)
      <3>1. \A u \in Int : 0 <= u => Max({u, 0}) = u
        BY MaxOfTwo
      <3>2. QED
        BY <2>1, <2>7, <3>1
    <2>9. HasRoom(s[y])
      <3>1. PICK u \in Int, v \in Int : u = s[y].at /\ v = s[y].size
        BY <2>7
      <3>2. PICK w : w = Addr(s[y])
        OBVIOUS
      <3>3. w = Adjusted(u, align_bits, align_ofs)
        BY <2>8, <3>1, <3>2
      <3>4. w \in Int /\ u <= w /\ w <= a
        BY <1>0, <2>6, <3>1, <3>3, AdjustedIsAbove, AdjustedIsLeast
      <3>5. v >= size0 /\ w - u + size0 <= v
        <4>1. a + size0 <= u + v
          BY <2>6, <3>1
        <4>2. size0 \in Int
          OBVIOUS
        <4>3. QED
          BY <3>4, <4>1, <4>2
      <3> HIDE DEF Addr
      <3>6. QED
        BY <3>1, <3>2, <3>5
    <2>10. PICK j1 \in 1 .. Len(s) : j1 = SelectInSeq(s, HasRoom) /\ HasRoom(s[j1])
      <3> DEFINE k == SelectInSeq(s, HasRoom)
                 U == {z \in 1 .. Len(s) : HasRoom(s[z])}
      <3>1. k = IF U # {} THEN Min(U) ELSE 0
        BY DEF SelectInSeq
      <3> HIDE DEF HasRoom
      <3>2. U \in SUBSET (1 .. Len(s)) /\ y \in U
        BY <2>9
      <3> HIDE DEF k, U
      <3>3. k # 0 /\ k \in 1 .. Len(s) /\ k \in U
        BY <2>5, <3>1, <3>2, FirstIndex
      <3>4. k = SelectInSeq(s, HasRoom)
        BY DEF k
      <3>5. HasRoom(s[k])
        BY <3>3 DEF U
      <3>6. QED
        BY <3>3, <3>4, <3>5
    <2>11. Addr(s[j1]) + size0 <= in_max
      <3>1. PICK u \in Int, v \in Int : u = s[j1].at /\ v = s[j1].size /\ u + v <= hi
        BY <2>7
      <3>2. PICK w : w = Addr(s[j1])
        OBVIOUS
      <3>3. w \in Int
        BY <2>8, <3>1, <3>2, AdjustedIsAbove
      <3> HIDE DEF Addr
      <3>4. w - u + size0 <= v
        BY <2>10, <3>1, <3>2
      <3>5. hi <= in_max
        BY <2>1, <2>4
      <3>6. size0 \in Int /\ in_max \in Int /\ hi \in Int
        BY <2>1, <2>5
      <3>7. w + size0 <= in_max
        <4>1. u + v <= hi
          BY <3>1
        <4>2. QED
          BY <3>3, <3>4, <3>5, <3>6, <4>1
      <3>8. QED
        BY <3>2, <3>7
    <2>12. Usable(lmm[x])
      <3>1. j1 # 0 /\ flags \subseteq lmm[x].flags
        BY <2>1, <2>10, <2>5
      <3>2. lmm[x].min < in_max /\ lmm[x].max > in_min
        <4>1. hi <= in_max
          BY <2>1, <2>4
        <4>2. lo < in_max /\ hi > in_min
          BY <2>1, <2>5, <4>1
        <4>3. QED
          BY <2>4, <4>2
      <3> HIDE DEF Addr, HasRoom
      <3>3. QED
        BY <2>4, <2>10, <2>11, <3>1, <3>2
    <2> HIDE DEF Usable
    <2>13. QED
      BY <2>2, <2>12
  <1>2. SUFFICES ASSUME i # 0
                 PROVE  /\ Took(res, lmm, size0)
                        /\ in_min <= res.at /\ res.at + size0 <= in_max
                        /\ res.at % (2 ^ align_bits) = align_ofs % (2 ^ align_bits)
    <2> HIDE DEF i
    <2>1. QED
      BY <1>0, <1>1 DEF res
  <1>4. i \in 1 .. Len(lmm) /\ Usable(lmm[i])
    <2> DEFINE T == {x \in 1 .. Len(lmm) : Usable(lmm[x])}
    <2>1. i = IF T # {} THEN Min(T) ELSE 0
      BY SMTT(30) DEF SelectInSeq
    <2>2. T \in SUBSET (1 .. Len(lmm))
      OBVIOUS
    <2>3. i \in T /\ i \in 1 .. Len(lmm)
      <3> HIDE DEF i, T
      <3>1. QED
        BY <1>2, <1>3, <2>1, <2>2, FirstIndex
    <2> HIDE DEF i, Usable
    <2>4. QED
      BY <2>3
  <1> HIDE DEF i
  <1>5. /\ nodes \in Seq(FreeNode) /\ Len(nodes) \in Nat
        /\ IsFreeList(nodes, lmm[i].min, lmm[i].max)
    BY <1>4, RegionFacts, LenProperties
  <1>6. j \in 1 .. Len(nodes) /\ HasRoom(n) /\ addr + size0 <= in_max
    <2> DEFINE T == {x \in 1 .. Len(nodes) : HasRoom(nodes[x])}
    <2>1. j = IF T # {} THEN Min(T) ELSE 0
      BY DEF SelectInSeq
    <2>2. T \in SUBSET (1 .. Len(nodes))
      OBVIOUS
    <2>3. j # 0 /\ addr + size0 <= in_max
      <3> HIDE DEF HasRoom, Addr
      <3>1. QED
        BY <1>4
    <2>4. j \in T /\ j \in 1 .. Len(nodes)
      <3> HIDE DEF j, T, nodes
      <3>1. QED
        BY <1>5, <2>1, <2>2, <2>3, FirstIndex
    <2> HIDE DEF j, HasRoom
    <2>5. QED
      BY <2>3, <2>4
  <1> HIDE DEF j
  <1>7. n.at \in Int /\ n.size \in Int /\ Aligned(n.at)
    BY <1>5, <1>6, NodeTypes DEF IsFreeList
  <1>8. /\ addr \in Int /\ n.at <= addr /\ in_min <= addr /\ addr + size0 <= n.at + n.size
        /\ addr % (2 ^ align_bits) = align_ofs % (2 ^ align_bits)
    <2> HIDE DEF n
    <2>1. /\ Max({n.at, in_min}) \in Int /\ n.at <= Max({n.at, in_min})
          /\ in_min <= Max({n.at, in_min})
      BY <1>7, MaxOfTwo
    <2>2. PICK m : m = Max({n.at, in_min})
      OBVIOUS
    <2>3. /\ Adjusted(m, align_bits, align_ofs) \in Int /\ m <= Adjusted(m, align_bits, align_ofs)
          /\ Adjusted(m, align_bits, align_ofs) % (2 ^ align_bits) = align_ofs % (2 ^ align_bits)
      BY <2>1, <2>2, AdjustedIsAbove, AdjustedIsLeast
    <2>4. addr = Adjusted(m, align_bits, align_ofs)
      BY <2>2
    <2>5. addr \in Int /\ m <= addr /\ addr % (2 ^ align_bits) = align_ofs % (2 ^ align_bits)
      BY <2>3, <2>4
    <2>6. addr - n.at + size0 <= n.size
      BY <1>6
    <2> HIDE DEF addr
    <2>7. QED
      BY <1>7, <2>1, <2>2, <2>5, <2>6
  <1> HIDE DEF addr, Addr, HasRoom, Usable
  <1> DEFINE from == AlignDown(addr)
             to == End(addr, size0)
  <1>9. /\ from \in Int /\ to \in Int /\ anode = from /\ size = to - from /\ anode + size = to
        /\ from < to
    <2>1. /\ from \in Int /\ to \in Int /\ size = to - from /\ from < to
      BY <1>8, UnitsOfABlock
    <2>2. anode = from
      OBVIOUS
    <2> HIDE DEF from, to, anode, size
    <2>3. QED
      BY <2>1, <2>2
  <1> HIDE DEF anode, size
  <1>10. front = CutFront(n, from) /\ rest = CutRest(n, to)
    <2>1. front = CutFront(n, from)
      BY <1>9 DEF CutFront, SplitFront
    <2>2. rest = CutRest(n, to)
      <3> HIDE DEF n, from, to
      <3>1. QED
        BY <1>7, <1>9 DEF CutRest
    <2>3. QED
      BY <2>1, <2>2
  <1>11. Cut(n, from, to) = front \o rest
    BY <1>10 DEF Cut
  <1>12. front \in Seq(FreeNode) /\ rest \in Seq(FreeNode)
    <2> HIDE DEF n, from, to, front, rest
    <2>1. \A pos \in Int, size1 \in Int : Node(pos, size1) \in FreeNode
      BY DEF Node, FreeNode
    <2>2. \A m \in FreeNode : <<m>> \in Seq(FreeNode)
      OBVIOUS
    <2>3. from - n.at \in Int /\ (n.at + n.size) - to \in Int
      BY <1>7, <1>9
    <2>4. CutFront(n, from) \in Seq(FreeNode)
      BY <1>7, <2>1, <2>2, <2>3, NoNodes DEF CutFront
    <2>5. CutRest(n, to) \in Seq(FreeNode)
      BY <1>9, <2>1, <2>2, <2>3, NoNodes DEF CutRest
    <2>6. QED
      BY <1>10, <2>4, <2>5
  <1>13. wrote \subseteq (UNION {Header(m.at) : m \in ToSet(Cut(n, from, to))}) \cup Header(from)
    <2>1. PICK heads : heads = UNION {Header(m.at) : m \in ToSet(front \o rest)}
      OBVIOUS
    <2>2. wrote = heads \cup (IF front # <<>> THEN Header(anode) ELSE {})
      BY <2>1
    <2> HIDE DEF wrote, front, rest, from, to, n
    <2>3. wrote \subseteq heads \cup Header(from)
      BY <1>9, <2>2
    <2>4. heads = UNION {Header(m.at) : m \in ToSet(Cut(n, from, to))}
      BY <1>11, <2>1
    <2>5. QED
      BY <2>3, <2>4
  <1>14. Took([lmm |-> [lmm EXCEPT
                    ![i].nodes = Spliced(nodes, j - 1, Cut(n, from, to), j + 1),
                    ![i].free = @ - (to - from)],
               at |-> addr, wrote |-> wrote], lmm, size0)
    <2> HIDE DEF wrote
    <2>1. QED
      BY <1>4, <1>6, <1>8, <1>13, CutIsTaken
  <1>15. SubSeq(nodes, 1, j - 1) \o front \o rest \o SubSeq(nodes, j + 1, Len(nodes)) =
            Spliced(nodes, j - 1, Cut(n, from, to), j + 1)
    <2>1. PICK s : s = SubSeq(nodes, 1, j - 1)
      OBVIOUS
    <2>2. s \in Seq(FreeNode)
      <3>1. \A x \in 1 .. j - 1 : nodes[x] \in FreeNode
        <4>1. \A x \in 1 .. j - 1 : x \in 1 .. Len(nodes)
          BY <1>5, <1>6
        <4>2. QED
          BY <1>5, <4>1, ElementOfSeq
      <3>2. 1 \in Int /\ j - 1 \in Int
        BY <1>6
      <3>3. QED
        BY <2>1, <3>1, <3>2, SubSeqProperties
    <2> HIDE DEF front, rest, n, from, to, nodes
    <2>3. (s \o front) \o rest = s \o (front \o rest)
      BY <1>12, <2>2, ConcatAssociative, SMTT(30)
    <2>4. QED
      BY <1>11, <2>1, <2>3 DEF Spliced
  <1>16. res = [lmm |-> [lmm EXCEPT
                    ![i].nodes = Spliced(nodes, j - 1, Cut(n, from, to), j + 1),
                    ![i].free = @ - (to - from)],
               at |-> addr, wrote |-> wrote]
    <2> HIDE DEF front, rest, wrote, n, from, to, nodes
    <2>1. QED
      BY <1>1, <1>2, <1>9, <1>15
  <1>17. res.at = addr
    BY <1>16
  <1>18. QED
    BY <1>6, <1>8, <1>14, <1>16, <1>17

\* lmm_free gives a list of nodes whatever it is called with.
LEMMA FreedIsTyped ==
    ASSUME NEW nodes \in Seq(FreeNode), NEW node \in FreeNode
    PROVE  Freed(nodes, node).nodes \in Seq(FreeNode)
  <1> DEFINE n == Len(nodes)
             k == SelectInSeq(nodes, LAMBDA m : m.at >= node.at)
             p == IF k = 0 THEN n ELSE k - 1
             before == IF k = 0 THEN nodes ELSE SubSeq(nodes, 1, k - 1)
             after == IF k = 0 THEN <<>> ELSE SubSeq(nodes, k, Len(nodes))
             joinsPrev == before # <<>> /\ Last(before).at + Last(before).size >= node.at
             joinsNext == after # <<>> /\ node.at + node.size >= Head(after).at
             joined == Node(IF joinsPrev THEN Last(before).at ELSE node.at,
                            (IF joinsPrev THEN Last(before).size ELSE 0) + node.size
                            + (IF joinsNext THEN Head(after).size ELSE 0))
  <1>1. n \in Nat
    BY LenProperties
  <1>2. k \in 0 .. n
    <2> DEFINE T == {j \in 1 .. n : nodes[j].at >= node.at}
    <2>1. k = IF T # {} THEN Min(T) ELSE 0
      BY DEF SelectInSeq
    <2>2. T \in SUBSET (1 .. n)
      OBVIOUS
    <2> HIDE DEF k, T, n
    <2>3. QED
      BY <1>1, <2>1, <2>2, FirstIndex
  <1>3. before = SubSeq(nodes, 1, p) /\ after = SubSeq(nodes, p + 1, n) /\ p \in 0 .. n
    <2> HIDE DEF k
    <2>1. CASE k = 0
      <3>1. SubSeq(nodes, 1, n) = nodes
        BY SubSeqFull
      <3>2. SubSeq(nodes, n + 1, n) = <<>>
        BY <1>1, SubSeqEmpty
      <3>3. QED
        BY <1>1, <2>1, <3>1, <3>2
    <2>2. CASE k # 0
      <3>1. (k - 1) + 1 = k /\ k - 1 \in 0 .. n
        BY <1>1, <1>2, <2>2
      <3>2. QED
        BY <2>2, <3>1
    <2>3. QED
      BY <2>1, <2>2
  <1>4. Freed(nodes, node).nodes =
           ((IF joinsPrev THEN Front(before) ELSE before) \o <<joined>>)
              \o (IF joinsNext THEN Tail(after) ELSE after)
    BY DEF Freed
  <1> HIDE DEF k, p, before, after
  <1>5. /\ before # <<>> <=> p > 0
        /\ p > 0 => Last(before) = nodes[p] /\ Front(before) = SubSeq(nodes, 1, p - 1)
    BY <1>3, FirstPart
  <1>6. /\ after # <<>> <=> p < Len(nodes)
        /\ p < Len(nodes) => Head(after) = nodes[p + 1] /\ Tail(after) = SubSeq(nodes, p + 2, Len(nodes))
    BY <1>3, LastPart
  <1>7. ASSUME NEW x \in Int, NEW y \in Int, 1 <= x, y <= n
        PROVE  SubSeq(nodes, x, y) \in Seq(FreeNode)
    <2>1. \A z \in x .. y : z \in 1 .. Len(nodes)
      BY <1>1, <1>7
    <2>2. \A z \in x .. y : nodes[z] \in FreeNode
      BY <2>1, ElementOfSeq
    <2>3. QED
      BY <2>2, SubSeqProperties
  <1>8. (IF joinsPrev THEN Front(before) ELSE before) \in Seq(FreeNode)
    <2>1. SubSeq(nodes, 1, p) \in Seq(FreeNode) /\ SubSeq(nodes, 1, p - 1) \in Seq(FreeNode)
      <3>1. p \in Int /\ p - 1 \in Int /\ p <= n /\ p - 1 <= n
        BY <1>1, <1>3
      <3>2. QED
        BY <1>7, <3>1
    <2>2. QED
      BY <1>3, <1>5, <2>1
  <1>9. (IF joinsNext THEN Tail(after) ELSE after) \in Seq(FreeNode)
    <2>1. SubSeq(nodes, p + 1, n) \in Seq(FreeNode) /\ SubSeq(nodes, p + 2, n) \in Seq(FreeNode)
      <3>1. p + 1 \in Int /\ p + 2 \in Int /\ 1 <= p + 1 /\ 1 <= p + 2 /\ n \in Int /\ n <= n
        BY <1>1, <1>3
      <3>2. QED
        BY <1>7, <3>1
    <2>2. QED
      BY <1>3, <1>6, <2>1
  <1>10. joined \in FreeNode
    <2>1. \A x \in 1 .. n : nodes[x].at \in Int /\ nodes[x].size \in Int
      BY NodeTypes
    <2>2. node.at \in Int /\ node.size \in Int
      BY DEF FreeNode
    <2>3. joinsPrev => Last(before).at \in Int /\ Last(before).size \in Int
      <3>1. p > 0 => p \in 1 .. n
        BY <1>1, <1>3
      <3>2. QED
        BY <1>5, <2>1, <3>1
    <2>4. joinsNext => Head(after).size \in Int
      <3>1. p < n => p + 1 \in 1 .. n
        BY <1>1, <1>3
      <3>2. QED
        BY <1>6, <2>1, <3>1
    <2> HIDE DEF joinsPrev, joinsNext
    <2>5. QED
      BY <2>2, <2>3, <2>4 DEF Node, FreeNode
  <1> HIDE DEF joined, joinsPrev, joinsNext
  <1>11. PICK s, t : /\ s = (IF joinsPrev THEN Front(before) ELSE before)
                     /\ t = (IF joinsNext THEN Tail(after) ELSE after)
    OBVIOUS
  <1>12. s \in Seq(FreeNode) /\ t \in Seq(FreeNode) /\ <<joined>> \in Seq(FreeNode)
    BY <1>8, <1>9, <1>10, <1>11
  <1>13. s \o <<joined>> \in Seq(FreeNode)
    BY <1>12, ConcatProperties
  <1>14. (s \o <<joined>>) \o t \in Seq(FreeNode)
    BY <1>12, <1>13, ConcatProperties
  <1>15. QED
    BY <1>4, <1>11, <1>14

\* A region that gets a list of nodes leaves a sequence of the same regions.
LEMMA WithListIsTyped ==
    ASSUME NEW lmm \in Seq(RegionType), NEW i \in 0 .. Len(lmm), NEW list, NEW free,
           i # 0 => list \in Seq(FreeNode) /\ free \in Int
    PROVE  /\ WithList(lmm, i, list, free) \in Seq(RegionType)
           /\ SameRegions(lmm, WithList(lmm, i, list, free))
  <1> DEFINE l == WithList(lmm, i, list, free)
             n == Len(lmm)
  <1>1. n \in Nat /\ DOMAIN lmm = 1 .. n /\ \A k \in 1 .. n : lmm[k] \in RegionType
    BY LenProperties, ElementOfSeq
  <1>2. CASE i = 0
    <2>1. l = lmm
      <3>1. i \notin DOMAIN lmm
        BY <1>1, <1>2
      <3>2. \A k \in DOMAIN lmm : k # i
        BY <3>1
      <3>3. lmm = [k \in DOMAIN lmm |-> lmm[k]]
        BY <1>1, LenProperties
      <3>4. QED
        BY <3>1, <3>2, <3>3 DEF WithList
    <2> HIDE DEF l
    <2>2. QED
      BY <2>1 DEF SameRegions, l
  <1>3. CASE i # 0
    <2>1. i \in 1 .. n /\ list \in Seq(FreeNode) /\ free \in Int
      BY <1>1, <1>3
    <2>2. /\ DOMAIN l = 1 .. n
          /\ \A k \in 1 .. n : k # i => l[k] = lmm[k]
          /\ l[i] = [lmm[i] EXCEPT !.nodes = list, !.free = free]
      BY <1>1, <2>1 DEF WithList
    <2>3. l = [lmm EXCEPT ![i] = l[i]]
      BY <1>1, <2>1, <2>2 DEF l, WithList
    <2> HIDE DEF l
    <2>4. ASSUME NEW r \in RegionType, NEW q, q = [r EXCEPT !.nodes = list, !.free = free]
          PROVE  /\ q.min = r.min /\ q.max = r.max /\ q.flags = r.flags
                 /\ q \in RegionType
      BY <2>1, <2>4 DEF RegionType
    <2>5. /\ l[i].min = lmm[i].min /\ l[i].max = lmm[i].max /\ l[i].flags = lmm[i].flags
          /\ l[i] \in RegionType
      BY <1>1, <2>1, <2>2, <2>4
    <2>6. l \in Seq(RegionType) /\ Len(l) = n
      <3>1. \A k \in 1 .. n : l[k] \in RegionType
        BY <1>1, <2>2, <2>5
      <3>2. l = [k \in 1 .. n |-> l[k]]
        BY <1>1, <2>1, <2>2, <2>3
      <3>3. l \in [1 .. n -> RegionType]
        BY <3>1, <3>2
      <3>4. QED
        BY <1>1, <3>3
    <2>7. SameRegions(lmm, l)
      BY <2>2, <2>5, <2>6 DEF SameRegions
    <2>8. QED
      BY <2>6, <2>7 DEF l
  <1>4. QED
    BY <1>2, <1>3

\* lmm_free gives a sequence of the same regions, whatever it is called with.
LEMMA lmm_free_is_typed ==
    ASSUME NEW lmm \in Seq(RegionType), NEW block \in Int, NEW size \in Int
    PROVE  /\ lmm_free(lmm, block, size).lmm \in Seq(RegionType)
           /\ SameRegions(lmm, lmm_free(lmm, block, size).lmm)
  <1> DEFINE node == Node(AlignDown(block), AlignUp((block % ALIGN_SIZE) + size))
             i == SelectInSeq(lmm, LAMBDA r : r.min <= node.at /\ node.at < r.max)
             freed == Freed(lmm[i].nodes, node)
             l == lmm_free(lmm, block, size).lmm
  <1>1. node \in FreeNode /\ node.size \in Int
    <2>1. (block % ALIGN_SIZE) + size \in Int
      BY Division, AlignAssumption
    <2>2. AlignDown(block) \in Int /\ AlignUp((block % ALIGN_SIZE) + size) \in Int
      BY <2>1, Alignment
    <2>3. QED
      BY <2>2 DEF Node, FreeNode
  <1>2. Len(lmm) \in Nat
    BY LenProperties
  <1>3. i \in 0 .. Len(lmm)
    <2> DEFINE T == {k \in 1 .. Len(lmm) : lmm[k].min <= node.at /\ node.at < lmm[k].max}
    <2>1. i = IF T # {} THEN Min(T) ELSE 0
      BY DEF SelectInSeq
    <2>2. T \in SUBSET (1 .. Len(lmm))
      OBVIOUS
    <2> HIDE DEF i, T
    <2>3. QED
      BY <1>2, <2>1, <2>2, FirstIndex
  <1>4. l = WithList(lmm, i, freed.nodes, lmm[i].free + node.size)
    BY DEF lmm_free, WithList
  <1> HIDE DEF l, i, node
  <1>5. i # 0 => freed.nodes \in Seq(FreeNode) /\ lmm[i].free + node.size \in Int
    <2>1. SUFFICES ASSUME i # 0
                   PROVE  freed.nodes \in Seq(FreeNode) /\ lmm[i].free + node.size \in Int
      OBVIOUS
    <2>2. i \in 1 .. Len(lmm)
      BY <1>2, <1>3, <2>1
    <2>3. lmm[i] \in RegionType
      BY <2>2, ElementOfSeq
    <2>4. lmm[i].nodes \in Seq(FreeNode) /\ lmm[i].free \in Int
      BY <2>3 DEF RegionType
    <2>5. freed.nodes \in Seq(FreeNode)
      BY <1>1, <2>4, FreedIsTyped
    <2>6. QED
      BY <1>1, <2>4, <2>5
  <1> HIDE DEF freed
  <1>6. /\ l \in Seq(RegionType)
        /\ SameRegions(lmm, l)
    BY <1>3, <1>4, <1>5, WithListIsTyped
  <1>7. QED
    BY <1>6 DEF l

\* lmm_add_free's part of the block from from to to - 1 in region i.
AddPart(from, to, l, i) ==
    LET lo == Max({from, l[i].min})
        hi == Min({to, l[i].max})
    IN  IF to > l[i].min /\ from < l[i].max
        THEN lmm_free(l, lo, hi - lo).lmm
        ELSE l

\* So does lmm_add_free's part for a region.
LEMMA AddPartIsTyped ==
    ASSUME NEW l \in Seq(RegionType), NEW i \in 1 .. Len(l), NEW from \in Int, NEW to \in Int
    PROVE  AddPart(from, to, l, i) \in Seq(RegionType) /\ SameRegions(l, AddPart(from, to, l, i))
  <1>1. l[i] \in RegionType
    BY ElementOfSeq
  <1>2. l[i].min \in Int /\ l[i].max \in Int
    BY <1>1 DEF RegionType
  <1> DEFINE lo == Max({from, l[i].min})
             hi == Min({to, l[i].max})
  <1>3. lo \in Int /\ hi \in Int
    BY <1>2, MaxOfTwo, MinOfTwo
  <1>4. AddPart(from, to, l, i) = l \/ AddPart(from, to, l, i) = lmm_free(l, lo, hi - lo).lmm
    BY DEF AddPart
  <1> HIDE DEF lo, hi
  <1>5. hi - lo \in Int
    BY <1>3
  <1>6. /\ lmm_free(l, lo, hi - lo).lmm \in Seq(RegionType)
        /\ SameRegions(l, lmm_free(l, lo, hi - lo).lmm)
    BY <1>3, <1>5, lmm_free_is_typed
  <1>7. SameRegions(l, l)
    BY DEF SameRegions
  <1>8. QED
    BY <1>4, <1>6, <1>7

\* lmm_add_free, region by region.
LEMMA AddFreeTrace ==
    ASSUME NEW lmm \in Seq(RegionType), NEW block \in Int, NEW size \in Int,
           AlignDown(block + size) # AlignUp(block)
    PROVE  \E t \in [0 .. Len(lmm) -> {l \in Seq(RegionType) : SameRegions(lmm, l)}] :
              /\ t[0] = lmm
              /\ \A k \in 1 .. Len(lmm) :
                    t[k] = AddPart(AlignUp(block), AlignDown(block + size), t[k - 1], k)
              /\ lmm_add_free(lmm, block, size) = t[Len(lmm)]
  <1> DEFINE n == Len(lmm)
             from == AlignUp(block)
             to == AlignDown(block + size)
             V == {l \in Seq(RegionType) : SameRegions(lmm, l)}
             G == [k \in 1 .. n |-> [v \in V |-> AddPart(from, to, v, k)]]
             Part(l, i) ==
                LET lo == Max({from, l[i].min})
                    hi == Min({to, l[i].max})
                IN  IF to > l[i].min /\ from < l[i].max
                    THEN lmm_free(l, lo, hi - lo).lmm
                    ELSE l
             indices == [i \in 1 .. n |-> i]
  <1>1. n \in Nat /\ from \in Int /\ to \in Int
    <2>1. block + size \in Int
      OBVIOUS
    <2>2. QED
      BY <2>1, LenProperties, Alignment
  <1>2. lmm_add_free(lmm, block, size) = FoldLeft(Part, lmm, indices)
    BY DEF lmm_add_free
  <1>a. \A l, i : Part(l, i) = AddPart(from, to, l, i)
    BY DEF AddPart
  <1> HIDE DEF from, to
  <1>3. ASSUME NEW v \in V, NEW k \in 1 .. n
        PROVE  AddPart(from, to, v, k) \in V
    <2>1. v \in Seq(RegionType) /\ SameRegions(lmm, v) /\ k \in 1 .. Len(v)
      BY DEF SameRegions
    <2>2. AddPart(from, to, v, k) \in Seq(RegionType) /\ SameRegions(v, AddPart(from, to, v, k))
      BY <1>1, <2>1, AddPartIsTyped
    <2>3. SameRegions(lmm, AddPart(from, to, v, k))
      BY <2>1, <2>2 DEF SameRegions
    <2>4. QED
      BY <2>2, <2>3
  <1>4. lmm \in V
    BY DEF SameRegions
  <1> HIDE DEF V, n
  <1>5. G \in [1 .. n -> [V -> V]]
    BY <1>1, <1>3
  <1>6. PICK f \in [SUBSET (1 .. n) -> V] : IsFold(f, n, lmm, G)
    <2> HIDE DEF G
    <2>1. QED
      BY <1>1, <1>4, <1>5, FoldExists
  <1>7. ASSUME NEW s \in SUBSET (1 .. n), s # {}
        PROVE  Max(s) \in 1 .. n /\ indices[Max(s)] = Max(s) /\ s \ {Max(s)} \in SUBSET (1 .. n)
    <2>1. Max(s) \in s
      BY <1>1, <1>7, GreatestOf
    <2>2. QED
      BY <2>1
  <1> DEFINE Step(g) == [s \in SUBSET (1 .. n) |->
                            IF s = {} THEN lmm ELSE Part(g[s \ {Max(s)}], indices[Max(s)])]
             iter == CHOOSE g : g = Step(g)
  <1>8. DOMAIN indices = 1 .. n
    OBVIOUS
  <1>9. FoldLeft(Part, lmm, indices) = iter[1 .. n]
    <2> HIDE DEF indices, Part
    <2>1. QED
      BY <1>8 DEF FoldLeft, MapThenFoldSet
  <1> HIDE DEF indices, Part
  <1>10. f = Step(f)
    <2>1. \A s \in SUBSET (1 .. n) : s # {} =>
             G[Max(s)][f[s \ {Max(s)}]] = Part(f[s \ {Max(s)}], indices[Max(s)])
      BY <1>7, <1>a
    <2>2. \A s \in SUBSET (1 .. n) :
             f[s] = IF s = {} THEN lmm ELSE Part(f[s \ {Max(s)}], indices[Max(s)])
      <3> HIDE DEF G
      <3>1. QED
        BY <1>6, <2>1 DEF IsFold
    <2>3. QED
      BY <2>2
  <1>11. iter = Step(iter)
    <2> HIDE DEF Step
    <2>1. QED
      BY <1>10
  <1> HIDE DEF iter
  <1>12. StepsWhereTyped(iter, n, lmm, G, V)
    <2>1. \A s \in SUBSET (1 .. n) :
              iter[s] = IF s = {} THEN lmm ELSE Part(iter[s \ {Max(s)}], indices[Max(s)])
      BY <1>11
    <2>2. \A s \in SUBSET (1 .. n) : s # {} /\ iter[s \ {Max(s)}] \in V =>
             G[Max(s)][iter[s \ {Max(s)}]] = Part(iter[s \ {Max(s)}], indices[Max(s)])
      BY <1>7, <1>a
    <2> HIDE DEF G
    <2>3. QED
      BY <2>1, <2>2 DEF StepsWhereTyped
  <1>13. PICK t \in [0 .. n -> V] : IsTrace(t, n, lmm, G) /\ iter[1 .. n] = t[n]
    <2> HIDE DEF G
    <2>1. QED
      BY <1>1, <1>4, <1>5, <1>12, FoldTrace
  <1>14. \A k \in 1 .. n : t[k] = AddPart(from, to, t[k - 1], k)
    <2>1. \A k \in 1 .. n : k - 1 \in 0 .. n
      BY <1>1
    <2>2. \A k \in 1 .. n : t[k - 1] \in V
      BY <2>1
    <2>3. \A k \in 1 .. n : G[k][t[k - 1]] = AddPart(from, to, t[k - 1], k)
      BY <2>2
    <2> HIDE DEF G
    <2>4. QED
      BY <1>13, <2>3 DEF IsTrace
  <1>15. t[0] = lmm
    BY <1>13 DEF IsTrace
  <1>16. QED
    BY <1>2, <1>9, <1>13, <1>14, <1>15 DEF n, V, from, to

InSomeRegion(lmm, a) == \E i \in 1 .. Len(lmm) : lmm[i].min <= a /\ a < lmm[i].max

\* lmm_add_free of memory nothing of which is free makes the whole units of it free that
\* are in a region.
LEMMA lmm_add_free_grows ==
    ASSUME NEW lmm, IsLmm(lmm), NEW block \in Int, NEW size \in Int,
           AddFreeAssertion(block, size),
           \A a \in Bytes(lmm) : ~(AlignUp(block) <= a /\ a < AlignDown(block + size))
    PROVE  /\ IsLmm(lmm_add_free(lmm, block, size))
           /\ SameRegions(lmm, lmm_add_free(lmm, block, size))
           /\ \A a \in Int : a \in Bytes(lmm_add_free(lmm, block, size)) <=>
                 \/ a \in Bytes(lmm)
                 \/ /\ AlignUp(block) <= a /\ a < AlignDown(block + size)
                    /\ InSomeRegion(lmm, a)
  <1> DEFINE from == AlignUp(block)
             to == AlignDown(block + size)
             n == Len(lmm)
             last == lmm_add_free(lmm, block, size)
  <1>1. /\ from \in Int /\ to \in Int /\ Aligned(from) /\ Aligned(to) /\ n \in Nat
    <2>1. block + size \in Int
      OBVIOUS
    <2>2. QED
      BY <2>1, RegionFacts, Alignment
  <1>2. from <= to
    BY <1>1 DEF AddFreeAssertion
  <1>3. CASE from = to
    <2>1. last = lmm
      BY <1>3 DEF lmm_add_free
    <2>2. SameRegions(lmm, lmm)
      BY DEF SameRegions
    <2>3. \A a \in Int : ~(from <= a /\ a < to)
      <3> HIDE DEF from, to
      <3>1. QED
        BY <1>1, <1>3
    <2> HIDE DEF last, from, to
    <2>4. QED
      BY <2>1, <2>2, <2>3 DEF last, from, to
  <1>4. CASE from # to
    <2> DEFINE Added(l, k) ==
                  /\ IsLmm(l) /\ SameRegions(lmm, l)
                  /\ \A a \in Int : a \in Bytes(l) <=>
                        \/ a \in Bytes(lmm)
                        \/ /\ from <= a /\ a < to
                           /\ \E i \in 1 .. k : lmm[i].min <= a /\ a < lmm[i].max
    <2>1. lmm \in Seq(RegionType)
      BY DEF IsLmm
    <2>2. PICK t \in [0 .. Len(lmm) -> {l \in Seq(RegionType) : SameRegions(lmm, l)}] :
              /\ t[0] = lmm
              /\ \A k \in 1 .. Len(lmm) :
                    t[k] = AddPart(AlignUp(block), AlignDown(block + size), t[k - 1], k)
              /\ lmm_add_free(lmm, block, size) = t[Len(lmm)]
      BY <1>4, <2>1, AddFreeTrace
    <2>3. Added(t[0], 0)
      <3>1. SameRegions(lmm, lmm) /\ 1 .. 0 = {}
        BY DEF SameRegions
      <3>2. QED
        BY <2>2, <3>1
    <2> HIDE DEF from, to
    <2>4. ASSUME NEW k \in 1 .. n, Added(t[k - 1], k - 1)
          PROVE  Added(t[k], k)
      <3> DEFINE l == t[k - 1]
                 lo == Max({from, l[k].min})
                 hi == Min({to, l[k].max})
      <3>1. t[k] = AddPart(from, to, l, k)
        BY <2>2 DEF from, to
      <3> HIDE DEF l
      <3>2. IsLmm(l) /\ SameRegions(lmm, l)
        BY <2>4 DEF l
      <3>3. k \in 1 .. Len(l) /\ k \in 1 .. Len(lmm)
            /\ l[k].min = lmm[k].min /\ l[k].max = lmm[k].max
        BY <3>2 DEF SameRegions
      <3>4. /\ lmm[k].min \in Int /\ lmm[k].max \in Int /\ lmm[k].min < lmm[k].max
            /\ Aligned(lmm[k].min) /\ Aligned(lmm[k].max)
        BY <3>3, RegionFacts
      <3>5. \A a \in Int : a \in Bytes(l) <=>
                        \/ a \in Bytes(lmm)
                        \/ /\ from <= a /\ a < to
                           /\ \E i \in 1 .. k - 1 : lmm[i].min <= a /\ a < lmm[i].max
        BY <2>4 DEF l
      <3>6. \A a \in Int : (\E i \in 1 .. k : lmm[i].min <= a /\ a < lmm[i].max) <=>
               \/ \E i \in 1 .. k - 1 : lmm[i].min <= a /\ a < lmm[i].max
               \/ lmm[k].min <= a /\ a < lmm[k].max
        <4>1. \A i : i \in 1 .. k <=> i \in 1 .. k - 1 \/ i = k
          BY <1>1
        <4>2. QED
          BY <4>1
      <3>7. CASE to > l[k].min /\ from < l[k].max
        <4>1. /\ lo \in Int /\ hi \in Int /\ lo < hi
              /\ lo = IF from >= lmm[k].min THEN from ELSE lmm[k].min
              /\ hi = IF to <= lmm[k].max THEN to ELSE lmm[k].max
          <5>1. /\ lo = IF from >= lmm[k].min THEN from ELSE lmm[k].min
                /\ hi = IF to <= lmm[k].max THEN to ELSE lmm[k].max
            BY <1>1, <3>3, <3>4, MaxOfTwo, MinOfTwo
          <5> HIDE DEF lo, hi
          <5>2. QED
            BY <1>1, <1>2, <1>4, <3>3, <3>4, <3>7, <5>1
        <4>2. t[k] = lmm_free(l, lo, hi - lo).lmm
          BY <3>1, <3>7 DEF AddPart
        <4> HIDE DEF lo, hi
        <4>3. Aligned(lo) /\ Aligned(hi) /\ hi - lo \in Nat \ {0} /\ lo + (hi - lo) = hi
          <5>1. Aligned(lo) /\ Aligned(hi)
            BY <1>1, <3>4, <4>1
          <5>2. hi - lo \in Nat \ {0} /\ lo + (hi - lo) = hi
            <6>1. lo \in Int /\ hi \in Int /\ lo < hi
              BY <4>1
            <6>2. QED
              BY <6>1
          <5>3. QED
            BY <5>1, <5>2
        <4>4. AlignDown(lo) = lo /\ End(lo, hi - lo) = hi
          BY <4>1, <4>3, AlignedIsKept DEF End
        <4>5. InARegion(l, lo, hi)
          <5>1. l[k].min <= lo /\ hi <= l[k].max
            BY <1>1, <3>3, <3>4, <4>1
          <5>2. QED
            BY <3>3, <5>1 DEF InARegion
        <4>6. \A a \in Int : lo <= a /\ a < hi <=>
                 from <= a /\ a < to /\ lmm[k].min <= a /\ a < lmm[k].max
          BY <1>1, <3>4, <4>1
        <4>7. ASSUME NEW a \in lo .. hi - 1
              PROVE  a \notin Bytes(l)
          <5>1. a \in Int /\ lo <= a /\ a < hi
            BY <4>1
          <5>2. from <= a /\ a < to /\ lmm[k].min <= a /\ a < lmm[k].max
            BY <4>6, <5>1
          <5>3. a \notin Bytes(lmm)
            BY <5>2 DEF from, to
          <5>4. ASSUME NEW i \in 1 .. k - 1
                PROVE  ~(lmm[i].min <= a /\ a < lmm[i].max)
            <6>1. i \in 1 .. Len(lmm) /\ i # k
              BY <1>1
            <6>2. lmm[i].max <= lmm[k].min \/ lmm[k].max <= lmm[i].min
              BY <3>3, <6>1 DEF IsLmm
            <6>3. lmm[i].min \in Int /\ lmm[i].max \in Int
              BY <6>1, RegionFacts
            <6>4. QED
              BY <3>4, <5>1, <5>2, <6>2, <6>3
          <5>5. QED
            BY <3>5, <5>1, <5>3, <5>4
        <4>8. Grown(t[k], l, lo, hi)
          <5>1. PICK size1 \in Nat \ {0} : size1 = hi - lo
            BY <4>3
          <5>2. /\ InARegion(l, AlignDown(lo), End(lo, size1))
                /\ \A a \in AlignDown(lo) .. End(lo, size1) - 1 : a \notin Bytes(l)
            BY <4>4, <4>5, <4>7, <5>1
          <5>3. Grown(lmm_free(l, lo, size1).lmm, l, AlignDown(lo), End(lo, size1))
            BY <3>2, <4>1, <5>2, lmm_free_grows
          <5>4. QED
            BY <4>2, <4>4, <5>1, <5>3
        <4>9. IsLmm(t[k]) /\ SameRegions(l, t[k])
              /\ Bytes(t[k]) = Bytes(l) \cup (lo .. hi - 1)
          BY <4>8 DEF Grown
        <4>10. SameRegions(lmm, t[k])
          BY <3>2, <4>9 DEF SameRegions
        <4>11. ASSUME NEW a \in Int
               PROVE  a \in Bytes(t[k]) <=>
                        \/ a \in Bytes(lmm)
                        \/ /\ from <= a /\ a < to
                           /\ \E i \in 1 .. k : lmm[i].min <= a /\ a < lmm[i].max
          <5>1. a \in lo .. hi - 1 <=> lo <= a /\ a < hi
            BY <4>1
          <5>2. QED
            BY <3>5, <3>6, <4>6, <4>9, <5>1
        <4>12. QED
          BY <4>9, <4>10, <4>11
      <3>8. CASE ~(to > l[k].min /\ from < l[k].max)
        <4>1. t[k] = l
          BY <3>1, <3>8 DEF AddPart
        <4>2. \A a \in Int : ~(from <= a /\ a < to /\ lmm[k].min <= a /\ a < lmm[k].max)
          BY <1>1, <3>3, <3>4, <3>8
        <4>3. QED
          BY <3>2, <3>5, <3>6, <4>1, <4>2
      <3>9. QED
        BY <3>7, <3>8
    <2>5. Added(t[n], n)
      <3> DEFINE T == {k \in 0 .. n : Added(t[k], k)}
      <3> HIDE DEF Added, n
      <3>1. 0 \in T
        BY <1>1, <2>3
      <3>2. \A k \in 1 .. n : k - 1 \in T => k \in T
        BY <2>4
      <3> HIDE DEF T
      <3>3. 0 .. n \subseteq T
        BY <1>1, <3>1, <3>2, IndexInduction
      <3>4. n \in T
        BY <1>1, <3>3
      <3>5. QED
        BY <3>4 DEF T
    <2>6. last = t[n]
      BY <2>2
    <2> HIDE DEF last
    <2>7. QED
      BY <2>5, <2>6 DEF InSomeRegion, from, to, last
  <1>5. QED
    BY <1>3, <1>4

\* Regions without free memory, all of them below top.
RegionsBelow(lmm, top) ==
    /\ IsLmm(lmm)
    /\ \A i \in 1 .. Len(lmm) : lmm[i].nodes = <<>> /\ lmm[i].max <= top

\* A region from min to max is put somewhere into the list, or nothing is.
IsInserted(new, lmm, reg) ==
    /\ \A i \in 1 .. Len(new) : new[i] = reg \/ \E k \in 1 .. Len(lmm) : new[i] = lmm[k]
    /\ \A k \in 1 .. Len(lmm) : \E i \in 1 .. Len(new) : new[i] = lmm[k]
    /\ \E i \in 1 .. Len(new) : new[i] = reg

\* A region above all the others, put anywhere into the list, leaves fresh regions.
LEMMA InsertedRegion ==
    ASSUME NEW lmm, NEW top \in Int, RegionsBelow(lmm, top), NEW reg, IsRegion(reg),
           reg.nodes = <<>>, top <= reg.min, NEW p \in 0 .. Len(lmm)
    PROVE  /\ RegionsBelow(Spliced(lmm, p, <<reg>>, p + 1), reg.max)
           /\ IsInserted(Spliced(lmm, p, <<reg>>, p + 1), lmm, reg)
  <1> DEFINE new == Spliced(lmm, p, <<reg>>, p + 1)
             n == Len(lmm)
  <1>1. IsLmm(lmm) /\ lmm \in Seq(RegionType) /\ n \in Nat
    BY LenProperties DEF RegionsBelow, IsLmm
  <1>2. \A i \in 1 .. n : /\ IsRegion(lmm[i]) /\ lmm[i].nodes = <<>> /\ lmm[i].max <= top
                          /\ lmm[i].min \in Int /\ lmm[i].max \in Int
    BY <1>1, RegionFacts DEF RegionsBelow, IsLmm
  <1>3. reg \in RegionType /\ reg.min \in Int /\ reg.max \in Int /\ reg.min < reg.max
    BY DEF IsRegion, RegionType
  <1>4. <<reg>> \in Seq(RegionType) /\ Len(<<reg>>) = 1 /\ <<reg>>[1] = reg
    BY <1>3
  <1>5. p + 1 \in 1 .. n + 1 /\ p \in Nat
    BY <1>1
  <1>6. IsSpliced(new, RegionType, lmm, p, <<reg>>, p + 1)
    BY <1>1, <1>4, <1>5, SplicedElements
  <1> HIDE DEF new
  <1>7. /\ new \in Seq(RegionType)
        /\ Len(new) = n + 1
        /\ \A x \in 1 .. p : new[x] = lmm[x]
        /\ new[p + 1] = reg
        /\ \A x \in p + 1 .. n : new[x + 1] = lmm[x]
    <2>1. Len(new) = p + 1 + (n - (p + 1) + 1)
      BY <1>4, <1>6 DEF IsSpliced
    <2>2. \A x \in p + 1 .. n : new[p + 1 + (x - (p + 1) + 1)] = lmm[x]
      BY <1>4, <1>6 DEF IsSpliced
    <2>3. \A x \in p + 1 .. n : p + 1 + (x - (p + 1) + 1) = x + 1
      BY <1>5
    <2>4. n + 1 = p + 1 + (n - (p + 1) + 1)
      BY <1>1, <1>5
    <2>5. 1 \in 1 .. 1
      OBVIOUS
    <2>6. new[p + 1] = reg
      BY <1>4, <1>6, <2>5 DEF IsSpliced
    <2>7. new \in Seq(RegionType) /\ \A x \in 1 .. p : new[x] = lmm[x]
      BY <1>6 DEF IsSpliced
    <2>8. \A x \in p + 1 .. n : new[x + 1] = lmm[x]
      BY <2>2, <2>3
    <2>9. QED
      BY <2>1, <2>4, <2>6, <2>7, <2>8
  <1> DEFINE From(i) == IF i <= p THEN i ELSE i - 1
  <1>8. \A i \in 1 .. n + 1 : i = p + 1 \/ (From(i) \in 1 .. n /\ new[i] = lmm[From(i)])
    <2> TAKE i \in 1 .. n + 1
    <2>1. CASE i <= p
      BY <1>1, <1>5, <1>7, <2>1
    <2>2. CASE i > p + 1
      <3>1. i - 1 \in p + 1 .. n /\ (i - 1) + 1 = i /\ i - 1 \in 1 .. n
        BY <1>1, <1>5, <2>2
      <3>2. new[i] = lmm[i - 1]
        BY <1>7, <3>1
      <3>3. QED
        BY <1>5, <2>2, <3>1, <3>2
    <2>3. QED
      BY <1>5, <2>1, <2>2
  <1>9. \A i, k \in 1 .. n + 1 : i # k /\ i # p + 1 /\ k # p + 1 => From(i) # From(k)
    BY <1>1, <1>5
  <1>10. \A x \in 1 .. n : \E i \in 1 .. n + 1 : new[i] = lmm[x]
    <2> TAKE x \in 1 .. n
    <2>1. x \in 1 .. p \/ x \in p + 1 .. n
      BY <1>1, <1>5
    <2>2. x \in 1 .. n + 1 /\ x + 1 \in 1 .. n + 1
      BY <1>1
    <2>3. QED
      BY <1>7, <2>1, <2>2
  <1> HIDE DEF From
  <1>11. \A i \in 1 .. n + 1 : IsRegion(new[i]) /\ new[i].nodes = <<>> /\ new[i].max <= reg.max
    <2>1. \A i \in 1 .. n : lmm[i].max <= reg.max
      BY <1>2, <1>3
    <2>2. TAKE i \in 1 .. n + 1
    <2>3. CASE i = p + 1
      BY <1>3, <1>7, <2>3
    <2>4. CASE i # p + 1
      <3>1. From(i) \in 1 .. n /\ new[i] = lmm[From(i)]
        BY <1>8, <2>4
      <3>2. QED
        BY <1>2, <2>1, <3>1
    <2>5. QED
      BY <2>3, <2>4
  <1>12. ASSUME NEW i \in 1 .. n + 1, NEW k \in 1 .. n + 1, i # k
         PROVE  new[i].max <= new[k].min \/ new[k].max <= new[i].min
    <2>1. \A x \in 1 .. n : lmm[x].max <= reg.min
      BY <1>2, <1>3
    <2>2. CASE i # p + 1 /\ k # p + 1
      <3>1. /\ From(i) \in 1 .. n /\ new[i] = lmm[From(i)]
            /\ From(k) \in 1 .. n /\ new[k] = lmm[From(k)] /\ From(i) # From(k)
        BY <1>8, <1>9, <1>12, <2>2
      <3>2. QED
        BY <1>1, <3>1 DEF IsLmm
    <2>3. CASE i = p + 1
      BY <1>7, <1>8, <1>12, <2>1, <2>3
    <2>4. CASE k = p + 1
      BY <1>7, <1>8, <1>12, <2>1, <2>4
    <2>5. QED
      BY <2>2, <2>3, <2>4
  <1>13. IsLmm(new)
    BY <1>7, <1>11, <1>12 DEF IsLmm
  <1>14. p + 1 \in 1 .. n + 1
    BY <1>5
  <1>15. IsInserted(new, lmm, reg)
    BY <1>7, <1>8, <1>10, <1>14 DEF IsInserted
  <1>16. QED
    BY <1>7, <1>11, <1>13, <1>15 DEF RegionsBelow, new

\* A list without nodes has no bytes.
LEMMA NoBytes == ListBytes(<<>>) = {}
  <1>1. ToSet(<<>>) = {}
    BY DEF ToSet
  <1>2. QED
    BY <1>1 DEF ListBytes

\* Fresh regions have no free memory.
LEMMA NothingIsFree ==
    ASSUME NEW lmm, NEW top \in Int, RegionsBelow(lmm, top)
    PROVE  Bytes(lmm) = {}
  <1>1. IsLmm(lmm) /\ \A i \in 1 .. Len(lmm) : ListBytes(lmm[i].nodes) = {}
    BY NoBytes DEF RegionsBelow
  <1>2. QED
    BY <1>1, RegionBytes

\* Each region of new is one of lmm or the one from from to to.
HasAdded(new, lmm, from, to) ==
    \A k \in 1 .. Len(new) : \/ new[k].min = from /\ new[k].max = to
                             \/ \E m \in 1 .. Len(lmm) : new[k] = lmm[m]

\* lmm_add_region adds the whole units of its range to what is in a region.
LEMMA lmm_add_region_adds ==
    ASSUME NEW addr \in Nat, NEW size \in Nat, addr + size <= INF,
           NEW lmm, RegionsBelow(lmm, addr),
           NEW flags \in SUBSET {"1MB", "16MB"}, NEW pri \in Int
    PROVE  /\ RegionsBelow(lmm_add_region(lmm, addr, size, flags, pri), addr + size)
           /\ \A a \in Int : InSomeRegion(lmm_add_region(lmm, addr, size, flags, pri), a) <=>
                 \/ InSomeRegion(lmm, a)
                 \/ AlignUp(addr) <= a /\ a < AlignDown(addr + size)
           /\ HasAdded(lmm_add_region(lmm, addr, size, flags, pri), lmm,
                       AlignUp(addr), AlignDown(addr + size))
  <1> DEFINE min0 == AlignUp(addr)
             max0 == AlignDown(addr + size)
             reg == [min |-> min0, max |-> max0, flags |-> flags, pri |-> pri % PRI_RANGE,
                     free |-> 0, nodes |-> <<>>]
             After(r) == ~(\/ r.pri > reg.pri
                           \/ r.pri = reg.pri /\ r.max - r.min > reg.max - reg.min)
             n == Len(lmm)
             i == SelectInSeq(lmm, After)
             new == lmm_add_region(lmm, addr, size, flags, pri)
  <1>1. /\ min0 \in Int /\ max0 \in Int /\ Aligned(min0) /\ Aligned(max0)
        /\ addr <= min0 /\ max0 <= addr + size
        /\ addr \in Int /\ addr + size \in Int /\ INF \in Int /\ 0 <= addr
    <2>1. addr \in Int /\ addr + size \in Int /\ INF \in Int
      BY SizesAssumption
    <2>2. QED
      BY <2>1, Alignment
  <1>2. IsLmm(lmm) /\ n \in Nat
    BY LenProperties DEF RegionsBelow, IsLmm
  <1>3. ASSUME NEW t \in Int, addr <= t
        PROVE  RegionsBelow(lmm, t)
    <2>1. \A k \in 1 .. n : lmm[k].max \in Int /\ lmm[k].max <= addr
      BY <1>2, RegionFacts DEF RegionsBelow
    <2>2. \A k \in 1 .. n : lmm[k].max <= t
      BY <1>1, <1>3, <2>1
    <2>3. QED
      BY <2>2 DEF RegionsBelow
  <1>4. CASE max0 <= min0
    <2>1. new = lmm
      BY <1>4 DEF lmm_add_region
    <2>2. \A a \in Int : ~(min0 <= a /\ a < max0)
      BY <1>1, <1>4
    <2>3. RegionsBelow(lmm, addr + size)
      <3>1. addr <= addr + size
        OBVIOUS
      <3>2. QED
        BY <1>1, <1>3, <3>1
    <2>4. HasAdded(new, lmm, min0, max0)
      BY <2>1 DEF HasAdded
    <2>5. QED
      BY <2>1, <2>2, <2>3, <2>4
  <1>5. CASE ~(max0 <= min0)
    <2> DEFINE place == IF i = 0 THEN Len(lmm) + 1 ELSE i
               p == place - 1
    <2>1. new = InsertAt(lmm, place, reg)
      BY <1>5 DEF lmm_add_region
    <2>2. i \in 0 .. n
      <3> DEFINE T == {j \in 1 .. n : After(lmm[j])}
      <3>1. i = IF T # {} THEN Min(T) ELSE 0
        BY DEF SelectInSeq
      <3>2. T \in SUBSET (1 .. n)
        OBVIOUS
      <3> HIDE DEF i, T, n
      <3>3. QED
        BY <1>2, <3>1, <3>2, FirstIndex
    <2> HIDE DEF i
    <2>3. p \in 0 .. n /\ place = p + 1
      BY <1>2, <2>2
    <2> HIDE DEF place, p, reg, new
    <2>4. new = Spliced(lmm, p, <<reg>>, p + 1)
      BY <2>1, <2>3 DEF InsertAt, Spliced, p
    <2>5. /\ reg.min = min0 /\ reg.max = max0 /\ reg.nodes = <<>> /\ reg.free = 0
          /\ reg \in RegionType
      <3>1. pri % PRI_RANGE \in Int
        BY PriAssumption
      <3>2. <<>> \in Seq(FreeNode)
        OBVIOUS
      <3> HIDE DEF min0, max0
      <3>3. QED
        BY <1>1, <3>1, <3>2 DEF reg, RegionType
    <2>6. IsRegion(reg)
      <3>1. IsFreeList(<<>>, min0, max0)
        BY DEF IsFreeList
      <3>2. Cardinality({}) = 0
        BY FS_EmptySet
      <3>3. 0 <= min0 /\ min0 < max0 /\ max0 <= INF
        BY <1>1, <1>5
      <3> HIDE DEF min0, max0
      <3>4. QED
        BY <1>1, <2>5, <3>1, <3>2, <3>3, NoBytes DEF IsRegion
    <2>7. RegionsBelow(new, reg.max) /\ IsInserted(new, lmm, reg)
      BY <1>1, <2>3, <2>4, <2>5, <2>6, InsertedRegion
    <2>8. RegionsBelow(new, addr + size)
      <3>1. IsLmm(new) /\ \A k \in 1 .. Len(new) : new[k].nodes = <<>> /\ new[k].max <= max0
        BY <2>5, <2>7 DEF RegionsBelow
      <3>2. \A k \in 1 .. Len(new) : new[k].max \in Int
        BY <3>1, RegionFacts
      <3>3. \A k \in 1 .. Len(new) : new[k].max <= addr + size
        BY <1>1, <3>1, <3>2
      <3>4. QED
        BY <3>1, <3>3 DEF RegionsBelow
    <2>9. ASSUME NEW a \in Int
          PROVE  InSomeRegion(new, a) <=> InSomeRegion(lmm, a) \/ (min0 <= a /\ a < max0)
      <3>1. \A k \in 1 .. Len(new) : new[k] = reg \/ \E m \in 1 .. n : new[k] = lmm[m]
        BY <2>7 DEF IsInserted
      <3>2. \A m \in 1 .. n : \E k \in 1 .. Len(new) : new[k] = lmm[m]
        BY <2>7 DEF IsInserted
      <3>3. \E k \in 1 .. Len(new) : new[k] = reg
        BY <2>7 DEF IsInserted
      <3> HIDE DEF n, min0, max0
      <3>4. QED
        BY <2>5, <3>1, <3>2, <3>3 DEF InSomeRegion, n
    <2>10. HasAdded(new, lmm, min0, max0)
      <3>1. \A k \in 1 .. Len(new) : new[k] = reg \/ \E m \in 1 .. n : new[k] = lmm[m]
        BY <2>7 DEF IsInserted
      <3> HIDE DEF n, min0, max0
      <3>2. QED
        BY <2>5, <3>1 DEF HasAdded, n
    <2>11. QED
      BY <2>8, <2>9, <2>10 DEF new
  <1>6. QED
    BY <1>4, <1>5

\* A region is below LOW, all of the memory between LOW and MID, or above MID.
IsSideOrMiddle(r) ==
    \/ r.max <= LOW
    \/ r.min = AlignUp(LOW) /\ r.max = MID
    \/ MID <= r.min
HasBorders(lmm) ==
    /\ \A k \in 1 .. Len(lmm) : IsSideOrMiddle(lmm[k])
    /\ \A a \in Int : AlignUp(LOW) <= a /\ a < MID => InSomeRegion(lmm, a)

\* The regions as mb_util_lmm's caller has made them: nothing is free yet, and one
\* of them is all of malloc's memory.
LEMMA RegionsAreFresh == RegionsBelow(Regions, INF) /\ HasBorders(Regions)
  <1> DEFINE low == lmm_add_region(lmm_init, 0, LOW, {"1MB", "16MB"}, LMM_PRI_1MB)
             mid == lmm_add_region(low, LOW, MID - LOW, {"16MB"}, LMM_PRI_16MB)
             all == lmm_add_region(mid, MID, INF - MID, {}, LMM_PRI_HIGH)
  <1>1. LOW \in Nat /\ MID \in Nat /\ INF \in Nat /\ LOW < MID /\ MID < INF
    BY SizesAssumption
  <1>2. /\ MID - LOW \in Nat /\ INF - MID \in Nat /\ 0 + LOW = LOW
        /\ LOW + (MID - LOW) = MID /\ MID + (INF - MID) = INF
        /\ LOW <= INF /\ MID <= INF
    BY <1>1
  <1>3. LMM_PRI_1MB \in Int /\ LMM_PRI_16MB \in Int /\ LMM_PRI_HIGH \in Int
    BY DEF LMM_PRI_1MB, LMM_PRI_16MB, LMM_PRI_HIGH
  <1>4. RegionsBelow(lmm_init, 0) /\ Len(lmm_init) = 0
    BY DEF RegionsBelow, IsLmm, lmm_init
  <1>5. RegionsBelow(low, 0 + LOW) /\ HasAdded(low, lmm_init, AlignUp(0), AlignDown(0 + LOW))
    <2>1. {"1MB", "16MB"} \in SUBSET {"1MB", "16MB"} /\ 0 \in Nat
      OBVIOUS
    <2>2. 0 + LOW <= INF
      BY <1>2
    <2>3. QED
      BY <1>1, <1>3, <1>4, <2>1, <2>2, lmm_add_region_adds
  <1> HIDE DEF low
  <1>6. /\ RegionsBelow(mid, LOW + (MID - LOW))
        /\ \A a \in Int : InSomeRegion(mid, a) <=>
              \/ InSomeRegion(low, a)
              \/ AlignUp(LOW) <= a /\ a < AlignDown(LOW + (MID - LOW))
        /\ HasAdded(mid, low, AlignUp(LOW), AlignDown(LOW + (MID - LOW)))
    <2>1. {"16MB"} \in SUBSET {"1MB", "16MB"}
      OBVIOUS
    <2>2. LOW + (MID - LOW) <= INF /\ RegionsBelow(low, LOW)
      BY <1>2, <1>5
    <2>3. QED
      BY <1>1, <1>2, <1>3, <2>1, <2>2, lmm_add_region_adds
  <1> HIDE DEF mid
  <1>7. /\ RegionsBelow(all, MID + (INF - MID))
        /\ \A a \in Int : InSomeRegion(all, a) <=>
              \/ InSomeRegion(mid, a)
              \/ AlignUp(MID) <= a /\ a < AlignDown(MID + (INF - MID))
        /\ HasAdded(all, mid, AlignUp(MID), AlignDown(MID + (INF - MID)))
    <2>1. {} \in SUBSET {"1MB", "16MB"}
      OBVIOUS
    <2>2. MID + (INF - MID) <= INF /\ RegionsBelow(mid, MID)
      BY <1>1, <1>2, <1>6
    <2>3. QED
      BY <1>1, <1>2, <1>3, <2>1, <2>2, lmm_add_region_adds
  <1> HIDE DEF all
  <1>8. /\ AlignDown(MID) = MID /\ MID <= AlignUp(MID)
        /\ AlignDown(LOW) <= LOW
    <2>1. Aligned(MID) /\ MID \in Int /\ LOW \in Int
      BY <1>1, MidAssumption DEF Aligned
    <2>2. QED
      BY <2>1, AlignedIsKept, Alignment
  <1>9. \A k \in 1 .. Len(low) : IsSideOrMiddle(low[k])
    <2>1. \A k \in 1 .. Len(low) : low[k].max = AlignDown(LOW)
      BY <1>2, <1>4, <1>5 DEF HasAdded
    <2>2. QED
      BY <1>8, <2>1 DEF IsSideOrMiddle
  <1>10. \A k \in 1 .. Len(mid) : IsSideOrMiddle(mid[k])
    BY <1>2, <1>6, <1>8, <1>9 DEF HasAdded, IsSideOrMiddle
  <1>11. \A k \in 1 .. Len(all) : IsSideOrMiddle(all[k])
    BY <1>7, <1>8, <1>10 DEF HasAdded, IsSideOrMiddle
  <1>12. \A a \in Int : AlignUp(LOW) <= a /\ a < MID => InSomeRegion(all, a)
    BY <1>2, <1>6, <1>7, <1>8
  <1>13. QED
    BY <1>2, <1>7, <1>11, <1>12 DEF Regions, HasBorders, low, mid, all

\* Max picks the greatest of a set of integers that has a bound.
LEMMA GreatestBelow ==
    ASSUME NEW bound \in Int, NEW S \in SUBSET Int, S # {}, \A x \in S : x <= bound
    PROVE  Max(S) \in S /\ \A x \in S : x <= Max(S)
  <1> DEFINE T == {d \in Nat : bound - d \in S}
  <1>1. \A x \in S : bound - x \in T
    OBVIOUS
  <1>2. T \in SUBSET Nat /\ T # {}
    BY <1>1
  <1>3. PICK d \in T : \A e \in T : d <= e
    BY <1>2, LeastOf
  <1>4. bound - d \in S /\ d \in Nat
    OBVIOUS
  <1>5. \A x \in S : x <= bound - d
    <2> TAKE x \in S
    <2>1. d <= bound - x
      BY <1>1, <1>3
    <2>2. QED
      BY <1>4, <2>1
  <1>6. \E m \in S : \A x \in S : m >= x
    BY <1>4, <1>5
  <1>7. Max(S) \in S /\ \A x \in S : Max(S) >= x
    <2> HIDE DEF T
    <2>1. QED
      BY <1>6 DEF Max
  <1>8. QED
    BY <1>7

\* The model's stand-in for no limit is above all regions.
LEMMA NoLimitIsAbove ==
    ASSUME NEW lmm, IsLmm(lmm)
    PROVE  /\ NoLimit(lmm) \in Int /\ 0 < NoLimit(lmm)
           /\ \A i \in 1 .. Len(lmm) : lmm[i].max < NoLimit(lmm)
  <1> DEFINE S == {r.max : r \in ToSet(lmm)} \cup {0}
             n == Len(lmm)
  <1>1. /\ n \in Nat
        /\ \A i \in 1 .. n : lmm[i].max \in Int /\ lmm[i].max <= INF
        /\ ToSet(lmm) = {lmm[i] : i \in 1 .. n}
    BY RegionFacts DEF ToSet
  <1>2. \A x \in S : x = 0 \/ \E i \in 1 .. n : x = lmm[i].max
    BY <1>1
  <1>3. 0 \in S /\ \A i \in 1 .. n : lmm[i].max \in S
    BY <1>1
  <1>4. INF \in Int /\ 0 <= INF
    BY SizesAssumption
  <1> HIDE DEF S
  <1>5. S \in SUBSET Int /\ S # {} /\ \A x \in S : x <= INF
    BY <1>1, <1>2, <1>3, <1>4
  <1>6. Max(S) \in S /\ \A x \in S : x <= Max(S)
    BY <1>4, <1>5, GreatestBelow
  <1>7. NoLimit(lmm) = Max(S) + 1
    BY DEF NoLimit, S
  <1>8. PICK m : m = Max(S)
    OBVIOUS
  <1>9. m \in Int /\ 0 <= m /\ \A i \in 1 .. n : lmm[i].max <= m
    BY <1>3, <1>5, <1>6, <1>8
  <1>10. NoLimit(lmm) = m + 1
    BY <1>7, <1>8
  <1>11. QED
    BY <1>1, <1>9, <1>10

FoundType == [at : Int, size : Int, flags : SUBSET {"1MB", "16MB"}]

\* lmm_find_free's step for a region.
LowerFree(start, found, r) ==
    LET j == SelectInSeq(r.nodes, LAMBDA n : \/ n.at >= found.at
                                             \/ n.at + n.size > start)
        n == r.nodes[j]
        lowest == Max({n.at, start})
    IN  IF r.max <= start \/ r.min > found.at \/ j = 0 \/ n.at >= found.at
        THEN found
        ELSE [at |-> lowest, size |-> n.size - (lowest - n.at), flags |-> r.flags]

\* What the step does, by the first node that is not in front of start.
IsLowered(new, start, found, r) ==
    \/ /\ new = found
       /\ \/ r.max <= start \/ r.min > found.at
          \/ \A j \in 1 .. Len(r.nodes) : r.nodes[j].at + r.nodes[j].size <= start
          \/ \E j \in 1 .. Len(r.nodes) :
                /\ r.nodes[j].at >= found.at
                /\ \A k \in 1 .. j - 1 : r.nodes[k].at + r.nodes[k].size <= start
    \/ \E j \in 1 .. Len(r.nodes) :
          /\ r.nodes[j].at < found.at /\ start < r.nodes[j].at + r.nodes[j].size
          /\ r.max > start
          /\ \A k \in 1 .. j - 1 : r.nodes[k].at + r.nodes[k].size <= start
          /\ new.at = IF r.nodes[j].at >= start THEN r.nodes[j].at ELSE start
          /\ new.at + new.size = r.nodes[j].at + r.nodes[j].size
          /\ new.flags = r.flags

\* lmm_find_free's loop body finds the first node of a region with memory from start on.
LEMMA LowerFreeLowers ==
    ASSUME NEW r \in RegionType, NEW found \in FoundType, NEW start \in Int
    PROVE  /\ LowerFree(start, found, r) \in FoundType
           /\ IsLowered(LowerFree(start, found, r), start, found, r)
  <1> DEFINE nodes == r.nodes
             m == Len(nodes)
             P(n) == \/ n.at >= found.at
                     \/ n.at + n.size > start
             T == {i \in 1 .. m : P(nodes[i])}
             j == SelectInSeq(r.nodes, LAMBDA n : \/ n.at >= found.at
                                                  \/ n.at + n.size > start)
             lowest == Max({nodes[j].at, start})
             new == LowerFree(start, found, r)
  <1>1. /\ r.nodes \in Seq(FreeNode) /\ r.min \in Int /\ r.max \in Int
        /\ r.flags \in SUBSET {"1MB", "16MB"}
    BY DEF RegionType
  <1>2. m \in Nat /\ \A i \in 1 .. m : nodes[i].at \in Int /\ nodes[i].size \in Int
    BY <1>1, NodeTypes
  <1>3. found.at \in Int
    BY DEF FoundType
  <1>4. /\ j \in 0 .. m
        /\ j # 0 => j \in 1 .. m /\ P(nodes[j])
        /\ \A i \in 1 .. m : (j = 0 \/ i < j) => ~P(nodes[i])
    <2>1. j = IF T # {} THEN Min(T) ELSE 0
      BY DEF SelectInSeq
    <2>2. T \in SUBSET (1 .. m)
      OBVIOUS
    <2>3. \A i \in 1 .. m : i \in T <=> P(nodes[i])
      OBVIOUS
    <2> HIDE DEF j, T, P, m
    <2>4. /\ j \in 0 .. m
          /\ j = 0 <=> T = {}
          /\ j # 0 => j \in T /\ j \in 1 .. m
          /\ \A i \in 1 .. m : (j = 0 \/ i < j) => i \notin T
      BY <1>2, <2>1, <2>2, FirstIndex
    <2>5. QED
      BY <2>3, <2>4
  <1>5. new = IF r.max <= start \/ r.min > found.at \/ j = 0 \/ nodes[j].at >= found.at
              THEN found
              ELSE [at |-> lowest, size |-> nodes[j].size - (lowest - nodes[j].at),
                    flags |-> r.flags]
    BY DEF LowerFree
  <1> HIDE DEF j, new
  <1>6. \A k \in 1 .. m : (j = 0 \/ k < j) => nodes[k].at + nodes[k].size <= start
    BY <1>2, <1>3, <1>4
  <1>7. \A k \in 1 .. j - 1 : j # 0 => nodes[k].at + nodes[k].size <= start
    <2>1. \A k \in 1 .. j - 1 : j # 0 => k \in 1 .. m /\ k < j
      BY <1>2, <1>4
    <2>2. QED
      BY <1>6, <2>1
  <1>8. CASE r.max <= start \/ r.min > found.at \/ j = 0 \/ nodes[j].at >= found.at
    <2>1. new = found
      BY <1>5, <1>8
    <2>2. j = 0 => \A k \in 1 .. m : nodes[k].at + nodes[k].size <= start
      BY <1>6
    <2>3. j # 0 /\ nodes[j].at >= found.at =>
             \E k \in 1 .. m :
                /\ nodes[k].at >= found.at
                /\ \A x \in 1 .. k - 1 : nodes[x].at + nodes[x].size <= start
      BY <1>4, <1>7
    <2>4. IsLowered(new, start, found, r)
      BY <1>8, <2>1, <2>2, <2>3 DEF IsLowered
    <2>5. QED
      BY <2>1, <2>4 DEF new
  <1>9. CASE ~(r.max <= start \/ r.min > found.at \/ j = 0 \/ nodes[j].at >= found.at)
    <2>1. new = [at |-> lowest, size |-> nodes[j].size - (lowest - nodes[j].at),
                 flags |-> r.flags]
      BY <1>5, <1>9
    <2>2. j \in 1 .. m /\ nodes[j].at < found.at /\ r.max > start
      BY <1>1, <1>2, <1>3, <1>4, <1>9
    <2>3. nodes[j].at \in Int /\ nodes[j].size \in Int
      BY <1>2, <2>2
    <2>4. start < nodes[j].at + nodes[j].size
      BY <1>3, <1>4, <2>2, <2>3
    <2>5. lowest = IF nodes[j].at >= start THEN nodes[j].at ELSE start
      BY <2>3, MaxOfTwo
    <2>6. lowest \in Int
      BY <2>3, <2>5
    <2> HIDE DEF lowest
    <2>7. lowest + (nodes[j].size - (lowest - nodes[j].at)) = nodes[j].at + nodes[j].size
      BY <2>3, <2>6
    <2>8. new.at = lowest /\ new.size = nodes[j].size - (lowest - nodes[j].at)
          /\ new.flags = r.flags
      BY <2>1
    <2>9. IsLowered(new, start, found, r)
      BY <1>7, <2>2, <2>4, <2>5, <2>7, <2>8 DEF IsLowered
    <2>10. nodes[j].size - (lowest - nodes[j].at) \in Int
      BY <2>3, <2>6
    <2>11. new \in FoundType
      BY <1>1, <2>1, <2>6, <2>10 DEF FoundType
    <2>12. QED
      BY <2>9, <2>11 DEF new
  <1>10. QED
    BY <1>8, <1>9

\* lmm_find_free, region by region.
LEMMA FoundTrace ==
    ASSUME NEW lmm, IsLmm(lmm), NEW addr \in Int
    PROVE  \E t \in [0 .. Len(lmm) -> FoundType] :
              /\ t[0] = [at |-> NoLimit(lmm), size |-> 0, flags |-> {}]
              /\ \A k \in 1 .. Len(lmm) :
                    t[k] = LowerFree(AlignUp(addr), t[k - 1], lmm[k])
              /\ lmm_find_free(lmm, addr) = t[Len(lmm)]
  <1> DEFINE n == Len(lmm)
             start == AlignUp(addr)
             V == FoundType
             base == [at |-> NoLimit(lmm), size |-> 0, flags |-> {}]
             G == [k \in 1 .. n |-> [v \in V |-> LowerFree(start, v, lmm[k])]]
             Lower(found, r) ==
                LET j == SelectInSeq(r.nodes, LAMBDA m : \/ m.at >= found.at
                                                         \/ m.at + m.size > start)
                    node == r.nodes[j]
                    lowest == Max({node.at, start})
                IN  IF r.max <= start \/ r.min > found.at \/ j = 0 \/ node.at >= found.at
                    THEN found
                    ELSE [at |-> lowest, size |-> node.size - (lowest - node.at),
                          flags |-> r.flags]
  <1>1. n \in Nat /\ DOMAIN lmm = 1 .. n /\ \A k \in 1 .. n : lmm[k] \in RegionType
    BY RegionFacts
  <1>2. lmm_find_free(lmm, addr) = FoldLeft(Lower, base, lmm)
    BY DEF lmm_find_free
  <1>3. \A v, r : Lower(v, r) = LowerFree(start, v, r)
    BY DEF LowerFree
  <1>4. start \in Int
    BY Alignment
  <1>5. base \in V
    <2>1. NoLimit(lmm) \in Int
      BY NoLimitIsAbove
    <2>2. QED
      BY <2>1 DEF FoundType
  <1> HIDE DEF start, base
  <1>6. \A v \in V : \A k \in 1 .. n : LowerFree(start, v, lmm[k]) \in V
    BY <1>1, <1>4, LowerFreeLowers
  <1> HIDE DEF V, n
  <1>7. G \in [1 .. n -> [V -> V]]
    BY <1>6
  <1>8. PICK f \in [SUBSET (1 .. n) -> V] : IsFold(f, n, base, G)
    <2> HIDE DEF G
    <2>1. QED
      BY <1>1, <1>5, <1>7, FoldExists
  <1>9. ASSUME NEW s \in SUBSET (1 .. n), s # {}
        PROVE  Max(s) \in 1 .. n /\ s \ {Max(s)} \in SUBSET (1 .. n)
    BY <1>1, <1>9, GreatestOf
  <1> DEFINE Step(g) == [s \in SUBSET (1 .. n) |->
                            IF s = {} THEN base ELSE Lower(g[s \ {Max(s)}], lmm[Max(s)])]
             iter == CHOOSE g : g = Step(g)
  <1>10. FoldLeft(Lower, base, lmm) = iter[1 .. n]
    <2> HIDE DEF Lower
    <2>1. QED
      BY <1>1 DEF FoldLeft, MapThenFoldSet
  <1> HIDE DEF Lower
  <1>11. f = Step(f)
    <2>1. \A s \in SUBSET (1 .. n) : s # {} =>
             G[Max(s)][f[s \ {Max(s)}]] = Lower(f[s \ {Max(s)}], lmm[Max(s)])
      BY <1>3, <1>9
    <2>2. \A s \in SUBSET (1 .. n) :
             f[s] = IF s = {} THEN base ELSE Lower(f[s \ {Max(s)}], lmm[Max(s)])
      <3> HIDE DEF G
      <3>1. QED
        BY <1>8, <2>1 DEF IsFold
    <2>3. QED
      BY <2>2
  <1>12. iter = Step(iter)
    <2> HIDE DEF Step
    <2>1. QED
      BY <1>11
  <1> HIDE DEF iter
  <1>13. StepsWhereTyped(iter, n, base, G, V)
    <2>1. \A s \in SUBSET (1 .. n) :
              iter[s] = IF s = {} THEN base ELSE Lower(iter[s \ {Max(s)}], lmm[Max(s)])
      BY <1>12
    <2>2. \A s \in SUBSET (1 .. n) : s # {} /\ iter[s \ {Max(s)}] \in V =>
             G[Max(s)][iter[s \ {Max(s)}]] = Lower(iter[s \ {Max(s)}], lmm[Max(s)])
      BY <1>3, <1>9
    <2> HIDE DEF G
    <2>3. QED
      BY <2>1, <2>2 DEF StepsWhereTyped
  <1>14. PICK t \in [0 .. n -> V] : IsTrace(t, n, base, G) /\ iter[1 .. n] = t[n]
    <2> HIDE DEF G
    <2>1. QED
      BY <1>1, <1>5, <1>7, <1>13, FoldTrace, SMTT(30)
  <1>15. \A k \in 1 .. n : t[k] = LowerFree(start, t[k - 1], lmm[k])
    <2>1. \A k \in 1 .. n : k - 1 \in 0 .. n
      BY <1>1
    <2>2. \A k \in 1 .. n : t[k - 1] \in V
      BY <2>1
    <2>3. \A k \in 1 .. n : G[k][t[k - 1]] = LowerFree(start, t[k - 1], lmm[k])
      BY <2>2
    <2> HIDE DEF G
    <2>4. QED
      BY <1>14, <2>3 DEF IsTrace
  <1>16. t[0] = base
    BY <1>14 DEF IsTrace
  <1>17. QED
    BY <1>2, <1>10, <1>14, <1>15, <1>16 DEF n, V, base, start

\* Memory that lmm_find_free has found is in a region's list, with its flags.
InList(lmm, found, start) ==
    /\ found.size \in Nat \ {0}
    /\ start <= found.at
    /\ \E i \in 1 .. Len(lmm) : \E j \in 1 .. Len(lmm[i].nodes) :
          /\ found.flags = lmm[i].flags
          /\ lmm[i].nodes[j].at <= found.at
          /\ found.at + found.size = lmm[i].nodes[j].at + lmm[i].nodes[j].size

\* The lowest of the first k regions.
IsLowest(lmm, found, start, k) ==
    /\ \/ found.size = 0 /\ found.at = NoLimit(lmm)
       \/ InList(lmm, found, start)
    /\ \A i \in 1 .. k : \A a \in ListBytes(lmm[i].nodes) : start <= a => found.at <= a

\* What has been found so far stays the lowest as a region is added.
LEMMA LowerIsLowest ==
    ASSUME NEW lmm, IsLmm(lmm), NEW start \in Int, NEW found \in FoundType,
           NEW k \in 1 .. Len(lmm), IsLowest(lmm, found, start, k - 1),
           NEW new \in FoundType, IsLowered(new, start, found, lmm[k])
    PROVE  IsLowest(lmm, new, start, k)
  <1> DEFINE r == lmm[k]
             nodes == r.nodes
             m == Len(nodes)
  <1>1. /\ r.min \in Int /\ r.max \in Int /\ nodes \in Seq(FreeNode)
        /\ IsFreeList(nodes, r.min, r.max)
    BY RegionFacts
  <1>2. m \in Nat /\ \A j \in 1 .. m : /\ nodes[j].at \in Int /\ nodes[j].size \in Int
                                       /\ 0 < nodes[j].size
                                       /\ r.min <= nodes[j].at /\ nodes[j].at + nodes[j].size <= r.max
    BY <1>1, NodeTypes DEF IsFreeList
  <1>3. \A i, j \in 1 .. m : i < j => nodes[i].at + nodes[i].size < nodes[j].at
    BY <1>1 DEF IsFreeList
  <1>4. \A a \in ListBytes(nodes) :
           /\ a \in Int /\ r.min <= a /\ a < r.max
           /\ \E j \in 1 .. m : nodes[j].at <= a /\ a < nodes[j].at + nodes[j].size
    BY <1>1, ListIsFinite, InListBytes
  <1>5. k \in Nat /\ \A i \in 1 .. k : i \in 1 .. k - 1 \/ i = k
    BY RegionFacts
  <1>6. found.at \in Int /\ found.size \in Int /\ new.at \in Int /\ new.size \in Int
    BY DEF FoundType
  <1>7. \A i \in 1 .. k - 1 : i \in 1 .. Len(lmm)
    BY RegionFacts
  <1>8. \A i \in 1 .. k - 1 : \A a \in ListBytes(lmm[i].nodes) :
           a \in Int /\ (start <= a => found.at <= a)
    <2>1. \A i \in 1 .. k - 1 : \A a \in ListBytes(lmm[i].nodes) : a \in Int
      BY <1>7, RegionBytes
    <2>2. QED
      BY <2>1 DEF IsLowest
  <1>9. ASSUME new.at <= found.at,
               \A a \in ListBytes(nodes) : start <= a => new.at <= a
        PROVE  \A i \in 1 .. k : \A a \in ListBytes(lmm[i].nodes) : start <= a => new.at <= a
    <2>1. TAKE i \in 1 .. k
    <2>2. CASE i = k
      BY <1>9, <2>2
    <2>3. CASE i \in 1 .. k - 1
      BY <1>6, <1>8, <1>9, <2>3
    <2>4. QED
      BY <1>5, <2>2, <2>3
  <1>10. ASSUME new = found,
                \/ r.max <= start \/ r.min > found.at
                \/ \A j \in 1 .. Len(r.nodes) : r.nodes[j].at + r.nodes[j].size <= start
                \/ \E j \in 1 .. Len(r.nodes) :
                      /\ r.nodes[j].at >= found.at
                      /\ \A i \in 1 .. j - 1 : r.nodes[i].at + r.nodes[i].size <= start
         PROVE  IsLowest(lmm, new, start, k)
    <2>1. ASSUME NEW a \in ListBytes(nodes), start <= a
          PROVE  found.at <= a
      <3>1. PICK i \in 1 .. m : a \in Int /\ nodes[i].at <= a /\ a < nodes[i].at + nodes[i].size
        BY <1>4
      <3>2. r.min <= a /\ a < r.max
        BY <1>4
      <3>3. CASE r.max <= start \/ r.min > found.at
        BY <1>1, <1>6, <2>1, <3>1, <3>2, <3>3
      <3>4. CASE \A j \in 1 .. Len(r.nodes) : r.nodes[j].at + r.nodes[j].size <= start
        <4>1. nodes[i].at + nodes[i].size <= start
          BY <3>4
        <4>2. nodes[i].at \in Int /\ nodes[i].size \in Int
          BY <1>2
        <4>3. QED
          BY <2>1, <3>1, <4>1, <4>2
      <3>5. ASSUME NEW j \in 1 .. Len(r.nodes), r.nodes[j].at >= found.at,
                   \A x \in 1 .. j - 1 : r.nodes[x].at + r.nodes[x].size <= start
            PROVE  found.at <= a
        <4>1. nodes[i].at \in Int /\ nodes[i].size \in Int /\ nodes[j].at \in Int
              /\ nodes[j].size \in Int /\ 0 < nodes[j].size
          BY <1>2, <3>5
        <4>2. CASE i < j
          <5>1. i \in 1 .. j - 1
            BY <1>2, <4>2
          <5>2. nodes[i].at + nodes[i].size <= start
            BY <3>5, <5>1
          <5>3. ~(start <= a)
            <6>1. PICK upper \in Int : upper = nodes[i].at + nodes[i].size
              BY <4>1
            <6>2. upper <= start /\ a < upper
              BY <3>1, <5>2, <6>1
            <6>3. a \in Int /\ start \in Int
              BY <3>1
            <6>4. QED
              BY <6>2, <6>3
          <5>4. QED
            BY <2>1, <5>3
        <4>3. CASE i = j
          <5>1. nodes[i].at >= found.at /\ nodes[i].at <= a
            BY <3>1, <3>5, <4>3
          <5>2. PICK x \in Int, y \in Int : x = found.at /\ y = nodes[i].at
            BY <1>6, <4>1
          <5>3. y >= x /\ y <= a /\ a \in Int
            BY <3>1, <5>1, <5>2
          <5>4. x <= a
            BY <5>3
          <5>5. QED
            BY <5>2, <5>4
        <4>4. CASE j < i
          <5>1. nodes[j].at + nodes[j].size < nodes[i].at
            BY <1>3, <4>4
          <5>2. PICK x \in Int, y \in Int, z \in Int, w \in Int :
                   x = nodes[j].at /\ y = nodes[j].size /\ z = nodes[i].at /\ w = found.at
            BY <1>6, <4>1
          <5>3. x >= w /\ x + y < z /\ 0 < y /\ z <= a
            BY <3>1, <3>5, <4>1, <5>1, <5>2
          <5>4. a \in Int
            BY <3>1
          <5>5. w <= a
            BY <5>3, <5>4
          <5>6. QED
            BY <5>2, <5>5
        <4>5. QED
          BY <1>2, <4>2, <4>3, <4>4
      <3>6. QED
        BY <1>10, <3>3, <3>4, <3>5
    <2>2. new.at <= found.at
      BY <1>6, <1>10
    <2>3. \A i \in 1 .. k : \A a \in ListBytes(lmm[i].nodes) : start <= a => new.at <= a
      BY <1>9, <1>10, <2>1, <2>2
    <2>4. QED
      BY <1>10, <2>3 DEF IsLowest
  <1>11. ASSUME NEW j \in 1 .. Len(r.nodes),
                r.nodes[j].at < found.at, start < r.nodes[j].at + r.nodes[j].size,
                r.max > start,
                \A i \in 1 .. j - 1 : r.nodes[i].at + r.nodes[i].size <= start,
                new.at = IF r.nodes[j].at >= start THEN r.nodes[j].at ELSE start,
                new.at + new.size = r.nodes[j].at + r.nodes[j].size,
                new.flags = r.flags
         PROVE  IsLowest(lmm, new, start, k)
    <2>1. nodes[j].at \in Int /\ nodes[j].size \in Int /\ 0 < nodes[j].size
      BY <1>2
    <2>2. start <= new.at /\ nodes[j].at <= new.at /\ new.size \in Nat \ {0}
      <3>1. PICK x \in Int, y \in Int, z \in Int, w \in Int :
               x = nodes[j].at /\ y = nodes[j].size /\ z = new.size /\ w = new.at
        BY <1>6, <2>1
      <3>2. start < x + y /\ (w = IF x >= start THEN x ELSE start) /\ w + z = x + y /\ 0 < y
        BY <1>11, <2>1, <3>1
      <3>3. start <= w /\ x <= w
        BY <3>2
      <3>4. z > 0
        BY <3>2
      <3>5. QED
        BY <3>1, <3>3, <3>4
    <2>3. InList(lmm, new, start)
      BY <1>11, <2>2 DEF InList
    <2>4. start <= found.at
      <3>1. CASE found.size = 0 /\ found.at = NoLimit(lmm)
        <4>1. r.max < found.at
          BY <3>1, NoLimitIsAbove
        <4>2. QED
          BY <1>1, <1>6, <1>11, <4>1
      <3>2. CASE InList(lmm, found, start)
        BY <3>2 DEF InList
      <3>3. QED
        BY <3>1, <3>2 DEF IsLowest
    <2>5. new.at <= found.at
      BY <1>6, <1>11, <2>1, <2>4
    <2>6. ASSUME NEW a \in ListBytes(nodes), start <= a
          PROVE  new.at <= a
      <3>1. PICK i \in 1 .. m : a \in Int /\ nodes[i].at <= a /\ a < nodes[i].at + nodes[i].size
        BY <1>4
      <3>2. nodes[i].at \in Int /\ nodes[i].size \in Int
        BY <1>2
      <3>3. CASE i < j
        <4>1. i \in 1 .. j - 1
          BY <1>2, <3>3
        <4>2. nodes[i].at + nodes[i].size <= start
          BY <1>11, <4>1
        <4>3. QED
          BY <2>6, <3>1, <3>2, <4>2
      <3>4. CASE i = j
        <4>1. nodes[j].at <= a
          BY <3>1, <3>4
        <4>2. QED
          BY <1>11, <2>1, <2>6, <3>1, <4>1
      <3>5. CASE j < i
        <4>1. nodes[j].at + nodes[j].size < nodes[i].at
          BY <1>3, <3>5
        <4>2. PICK x \in Int, y \in Int, z \in Int, w \in Int :
                 x = nodes[j].at /\ y = nodes[j].size /\ z = nodes[i].at /\ w = new.at
          BY <1>6, <2>1, <3>2
        <4>3. /\ w = IF x >= start THEN x ELSE start
              /\ x + y < z /\ 0 < y /\ z <= a /\ a \in Int
          BY <1>11, <2>1, <3>1, <4>1, <4>2
        <4>4. w <= a
          BY <2>6, <4>3
        <4>5. QED
          BY <4>2, <4>4
      <3>6. QED
        BY <1>2, <3>3, <3>4, <3>5
    <2>7. \A i \in 1 .. k : \A a \in ListBytes(lmm[i].nodes) : start <= a => new.at <= a
      BY <1>9, <2>5, <2>6
    <2>8. QED
      BY <2>3, <2>7 DEF IsLowest
  <1>12. QED
    BY <1>10, <1>11 DEF IsLowered

\* lmm_find_free finds the lowest free memory from an aligned address on.
LEMMA lmm_find_free_finds ==
    ASSUME NEW lmm, IsLmm(lmm), NEW addr \in Int
    PROVE  /\ lmm_find_free(lmm, addr) \in FoundType
           /\ IsLowest(lmm, lmm_find_free(lmm, addr), AlignUp(addr), Len(lmm))
  <1> DEFINE n == Len(lmm)
             start == AlignUp(addr)
  <1>1. n \in Nat /\ \A k \in 1 .. n : lmm[k] \in RegionType
    BY RegionFacts
  <1>2. start \in Int
    BY Alignment
  <1>3. PICK t \in [0 .. Len(lmm) -> FoundType] :
              /\ t[0] = [at |-> NoLimit(lmm), size |-> 0, flags |-> {}]
              /\ \A k \in 1 .. Len(lmm) :
                    t[k] = LowerFree(AlignUp(addr), t[k - 1], lmm[k])
              /\ lmm_find_free(lmm, addr) = t[Len(lmm)]
    BY FoundTrace
  <1> DEFINE T == {k \in 0 .. n : IsLowest(lmm, t[k], start, k)}
  <1>4. 0 \in T
    BY <1>1, <1>3 DEF IsLowest
  <1>5. \A k \in 1 .. n : k - 1 \in T => k \in T
    <2> SUFFICES ASSUME NEW k \in 1 .. n, k - 1 \in T
                 PROVE  k \in T
      OBVIOUS
    <2>1. k - 1 \in 0 .. n /\ k \in 0 .. n
      BY <1>1
    <2>2. t[k - 1] \in FoundType /\ t[k] = LowerFree(start, t[k - 1], lmm[k])
          /\ IsLowest(lmm, t[k - 1], start, k - 1)
      BY <1>3, <2>1
    <2> HIDE DEF start
    <2>3. t[k] \in FoundType /\ IsLowered(t[k], start, t[k - 1], lmm[k])
      BY <1>1, <1>2, <2>2, LowerFreeLowers
    <2>4. IsLowest(lmm, t[k], start, k)
      BY <1>2, <2>2, <2>3, LowerIsLowest
    <2>5. QED
      BY <2>1, <2>4
  <1>6. 0 .. n \subseteq T
    <2> HIDE DEF T, n
    <2>1. QED
      BY <1>1, <1>4, <1>5, IndexInduction
  <1>7. n \in T /\ n \in 0 .. n
    BY <1>1, <1>6
  <1>8. QED
    BY <1>3, <1>7

\* No bits: no alignment.
LEMMA PowerZero == 2 ^ 0 = 1
  OBVIOUS

\* What lmm_find_free finds is the first byte of a unit.
LEMMA FoundIsAligned ==
    ASSUME NEW lmm, IsLmm(lmm), NEW start \in Int, Aligned(start),
           NEW found \in FoundType, IsLowest(lmm, found, start, Len(lmm))
    PROVE  /\ \A a \in Bytes(lmm) : start <= a => found.at <= a
           /\ found.size # 0 => Aligned(found.at) /\ start <= found.at
           /\ found.size = 0 => \A a \in Bytes(lmm) : ~(start <= a)
  <1>1. PICK f \in Int, s \in Int : f = found.at /\ s = found.size
    BY DEF FoundType
  <1>2. \A a \in Bytes(lmm) : a \in Int /\ (start <= a => f <= a)
    <2>1. TAKE a \in Bytes(lmm)
    <2>2. PICK i \in 1 .. Len(lmm) : a \in ListBytes(lmm[i].nodes)
      BY RegionBytes
    <2>3. QED
      BY <1>1, <2>2, RegionBytes DEF IsLowest
  <1>3. ASSUME s # 0
        PROVE  Aligned(f) /\ start <= f
    <2>1. InList(lmm, found, start)
      BY <1>1, <1>3 DEF IsLowest
    <2>2. PICK i \in 1 .. Len(lmm) : \E j \in 1 .. Len(lmm[i].nodes) :
             /\ lmm[i].nodes[j].at <= found.at
             /\ found.at + found.size = lmm[i].nodes[j].at + lmm[i].nodes[j].size
      BY <2>1 DEF InList
    <2>3. PICK nodes : nodes = lmm[i].nodes
      OBVIOUS
    <2>4. nodes \in Seq(FreeNode) /\ IsFreeList(nodes, lmm[i].min, lmm[i].max)
      BY <2>3, RegionFacts
    <2>5. PICK j \in 1 .. Len(nodes) :
             nodes[j].at <= f /\ f + s = nodes[j].at + nodes[j].size
      BY <1>1, <2>2, <2>3
    <2>6. nodes[j].at \in Int /\ nodes[j].size \in Int /\ Aligned(nodes[j].at)
      BY <2>4, NodeTypes DEF IsFreeList
    <2>7. s > 0 /\ start <= f
      BY <1>1, <2>1 DEF InList
    <2>8. PICK d \in Int : d = AlignDown(f)
      BY Alignment
    <2>9. d <= f /\ Aligned(d) /\ nodes[j].at <= d /\ start <= d
      BY <2>5, <2>6, <2>7, <2>8, Alignment, AlignDownIsGreatest
    <2>10. d < nodes[j].at + nodes[j].size
      <3>1. d < f + s
        BY <2>7, <2>9
      <3>2. QED
        BY <2>5, <3>1
    <2>11. d \in ListBytes(nodes)
      BY <2>4, <2>9, <2>10, InListBytes
    <2>12. d \in Bytes(lmm)
      BY <2>3, <2>11, RegionBytes
    <2>13. f <= d
      BY <1>2, <2>9, <2>12
    <2>14. f = d
      BY <2>9, <2>13
    <2>15. QED
      BY <2>7, <2>9, <2>14
  <1>4. ASSUME s = 0, NEW a \in Bytes(lmm), start <= a
        PROVE  FALSE
    <2>1. f = NoLimit(lmm)
      BY <1>1, <1>4 DEF IsLowest, InList
    <2>2. PICK i \in 1 .. Len(lmm) : a \in ListBytes(lmm[i].nodes)
      BY RegionBytes
    <2>3. PICK x \in Int : x = lmm[i].max
      BY RegionFacts
    <2>4. a \in Int /\ a < x /\ x < f
      BY <2>1, <2>2, <2>3, RegionBytes, NoLimitIsAbove
    <2>5. f <= a
      BY <1>2, <1>4
    <2>6. QED
      BY <2>4, <2>5
  <1>5. QED
    BY <1>1, <1>2, <1>3, <1>4

\* A round of lmm_remove_free's loop: it passes over no free memory, and what it
\* takes away, from where it is, is of a region that starts in front of the end.
IsRound(round, lmm, rstart, rend) ==
    /\ round.done =>
          /\ round.lmm = lmm
          /\ \A a \in Bytes(lmm) : ~(AlignUp(rstart) <= a /\ a < rend)
    /\ ~round.done =>
          /\ Aligned(round.next) /\ AlignUp(rstart) <= round.next
          /\ \A a \in Bytes(lmm) : ~(AlignUp(rstart) <= a /\ a < round.next)
          /\ \A a \in Bytes(lmm) : a \notin Bytes(round.lmm) =>
                /\ round.next <= a
                /\ \E i \in 1 .. Len(lmm) : /\ lmm[i].min < rend
                                             /\ lmm[i].min <= a /\ a < lmm[i].max

\* A round of lmm_remove_free's loop only takes memory away.
LEMMA RemoveRoundTakes ==
    ASSUME NEW lmm, IsLmm(lmm), NEW rstart \in Int, NEW rend \in Int
    PROVE  /\ IsRound(RemoveRound(lmm, rstart, rend), lmm, rstart, rend)
           /\ IsLmm(RemoveRound(lmm, rstart, rend).lmm)
           /\ SameRegions(lmm, RemoveRound(lmm, rstart, rend).lmm)
           /\ Bytes(RemoveRound(lmm, rstart, rend).lmm) \subseteq Bytes(lmm)
           /\ RemoveRound(lmm, rstart, rend).next \in Int
  <1> DEFINE found == lmm_find_free(lmm, rstart)
             size == Min({found.size, rend - found.at})
             done == rstart >= rend \/ found.size = 0 \/ found.at >= rend
             res == lmm_alloc_gen(lmm, size, found.flags, 0, 0, found.at, found.at + size)
             round == RemoveRound(lmm, rstart, rend)
  <1>1. round = IF done THEN [lmm |-> lmm, done |-> TRUE, next |-> rstart]
                ELSE [lmm |-> res.lmm, done |-> FALSE, next |-> found.at]
    BY DEF RemoveRound
  <1>2. found \in FoundType /\ IsLowest(lmm, found, AlignUp(rstart), Len(lmm))
    BY lmm_find_free_finds
  <1>3. found.at \in Int /\ found.size \in Int
    BY <1>2 DEF FoundType
  <1>4. found.size # 0 => found.size \in Nat \ {0}
    BY <1>2 DEF IsLowest, InList
  <1> HIDE DEF found, round
  <1>5. /\ \A a \in Bytes(lmm) : a \in Int /\ (AlignUp(rstart) <= a => found.at <= a)
        /\ found.size # 0 => Aligned(found.at) /\ AlignUp(rstart) <= found.at
        /\ found.size = 0 => \A a \in Bytes(lmm) : ~(AlignUp(rstart) <= a)
    <2>1. AlignUp(rstart) \in Int /\ Aligned(AlignUp(rstart))
      BY Alignment
    <2>2. QED
      BY <1>2, <2>1, FoundIsAligned, RegionBytes
  <1>6. rstart <= AlignUp(rstart) /\ AlignUp(rstart) \in Int
    BY Alignment
  <1>7. CASE done
    <2>1. round.lmm = lmm /\ round.next = rstart /\ round.done
      BY <1>1, <1>7
    <2>2. SameRegions(lmm, lmm)
      BY DEF SameRegions
    <2>3. \A a \in Bytes(lmm) : ~(AlignUp(rstart) <= a /\ a < rend)
      BY <1>3, <1>7, <1>5, <1>6
    <2>4. IsRound(round, lmm, rstart, rend)
      BY <2>1, <2>3 DEF IsRound
    <2>5. QED
      BY <2>1, <2>2, <2>4 DEF round
  <1>8. CASE ~done
    <2>1. round.lmm = res.lmm /\ round.next = found.at /\ ~round.done
      BY <1>1, <1>8
    <2>2. size \in Nat \ {0}
      <3>1. PICK x \in Int, y \in Int : x = found.size /\ y = rend - found.at
        BY <1>3
      <3>2. x > 0 /\ y > 0
        BY <1>3, <1>4, <1>8, <3>1
      <3>3. Min({x, y}) = IF x <= y THEN x ELSE y
        BY MinOfTwo
      <3>4. Min({x, y}) \in Nat \ {0}
        BY <3>2, <3>3
      <3>5. QED
        BY <3>1, <3>4
    <2> HIDE DEF size
    <2>3. \/ res = Failed(lmm)
          \/ Took(res, lmm, size) /\ found.at <= res.at /\ res.at + size <= found.at + size
      <3>1. 2 ^ 0 \in Nat \ {0} /\ 0 \in Int
        BY PowerZero
      <3>2. QED
        BY <1>3, <2>2, <3>1, lmm_alloc_gen_takes
    <2>4. PICK f \in Int : f = found.at
      BY <1>3
    <2>5. /\ Aligned(f) /\ AlignUp(rstart) <= f /\ f < rend
          /\ \A a \in Bytes(lmm) : ~(AlignUp(rstart) <= a /\ a < f)
      BY <1>3, <1>8, <1>5, <2>4
    <2>6. /\ IsLmm(res.lmm) /\ SameRegions(lmm, res.lmm)
          /\ Bytes(res.lmm) \subseteq Bytes(lmm)
          /\ \A a \in Bytes(lmm) : a \notin Bytes(res.lmm) =>
                /\ f <= a
                /\ \E i \in 1 .. Len(lmm) : /\ lmm[i].min < rend
                                             /\ lmm[i].min <= a /\ a < lmm[i].max
      <3>1. CASE res = Failed(lmm)
        <4>1. res.lmm = lmm
          BY <3>1 DEF Failed
        <4>2. SameRegions(lmm, lmm)
          BY DEF SameRegions
        <4> HIDE DEF res
        <4>3. QED
          BY <4>1, <4>2
      <3>2. CASE /\ Took(res, lmm, size)
                 /\ found.at <= res.at /\ res.at + size <= found.at + size
        <4> HIDE DEF res
        <4>1. IsLmm(res.lmm) /\ SameRegions(lmm, res.lmm)
          BY <3>2 DEF Took, Shrunk
        <4>2. res.at = f
          <5>1. PICK x \in Int : x = res.at
            BY <3>2 DEF Took
          <5>2. f <= x /\ x + size <= f + size
            BY <2>4, <3>2, <5>1
          <5>3. QED
            BY <2>2, <5>1, <5>2
        <4>3. AlignDown(f) = f
          BY <2>5, AlignedIsKept
        <4>4. PICK to \in Int : to = End(f, size)
          BY <2>2, UnitsOfABlock
        <4>5. Bytes(res.lmm) = Bytes(lmm) \ (f .. to - 1) /\ InARegion(lmm, f, to)
          BY <3>2, <4>2, <4>3, <4>4 DEF Took, Shrunk
        <4>6. PICK i \in 1 .. Len(lmm) : lmm[i].min <= f /\ to <= lmm[i].max
          BY <4>5 DEF InARegion
        <4>7. PICK lo \in Int, hi \in Int : lo = lmm[i].min /\ hi = lmm[i].max
          BY RegionFacts
        <4>8. \A a \in f .. to - 1 : f <= a /\ lo < rend /\ lo <= a /\ a < hi
          BY <2>5, <4>6, <4>7
        <4>9. \A a \in Bytes(lmm) : a \notin Bytes(res.lmm) => a \in f .. to - 1
          BY <4>5
        <4>10. QED
          BY <4>1, <4>5, <4>7, <4>8, <4>9
      <3>3. QED
        BY <2>3, <3>1, <3>2
    <2> HIDE DEF res
    <2>7. IsRound(round, lmm, rstart, rend)
      BY <2>1, <2>4, <2>5, <2>6 DEF IsRound
    <2>8. QED
      BY <1>3, <2>1, <2>6, <2>7 DEF round
  <1>9. QED
    BY <1>7, <1>8

BlockType == [min : Int, max : Int, retry : BOOLEAN]
HoleType == [min : Int, max : Int]

\* The skips, hole by hole.
LEMMA SkipTrace ==
    ASSUME NEW holes \in Seq(HoleType), NEW block \in BlockType
    PROVE  \E t \in [0 .. Len(holes) -> BlockType] :
              /\ t[0] = block
              /\ \A k \in 1 .. Len(holes) : t[k] = skip(t[k - 1], holes[k])
              /\ FoldLeft(skip, block, holes) = t[Len(holes)]
  <1> DEFINE n == Len(holes)
             V == BlockType
             G == [k \in 1 .. n |-> [v \in V |-> skip(v, holes[k])]]
  <1>1. n \in Nat /\ DOMAIN holes = 1 .. n /\ \A k \in 1 .. n : holes[k] \in HoleType
    BY LenProperties, ElementOfSeq
  <1>2. ASSUME NEW v \in V, NEW h \in HoleType
        PROVE  skip(v, h) \in V
    BY DEF skip, BlockType, HoleType
  <1> HIDE DEF V, n
  <1>3. G \in [1 .. n -> [V -> V]]
    BY <1>1, <1>2
  <1>4. block \in V
    BY DEF V
  <1>5. PICK f \in [SUBSET (1 .. n) -> V] : IsFold(f, n, block, G)
    <2> HIDE DEF G
    <2>1. QED
      BY <1>1, <1>3, <1>4, FoldExists
  <1>6. ASSUME NEW s \in SUBSET (1 .. n), s # {}
        PROVE  Max(s) \in 1 .. n /\ s \ {Max(s)} \in SUBSET (1 .. n)
    BY <1>1, <1>6, GreatestOf
  <1> DEFINE Step(g) == [s \in SUBSET (1 .. n) |->
                            IF s = {} THEN block ELSE skip(g[s \ {Max(s)}], holes[Max(s)])]
             iter == CHOOSE g : g = Step(g)
  <1>7. f = Step(f)
    <2>1. \A s \in SUBSET (1 .. n) : s # {} =>
             G[Max(s)][f[s \ {Max(s)}]] = skip(f[s \ {Max(s)}], holes[Max(s)])
      BY <1>6
    <2>2. \A s \in SUBSET (1 .. n) :
             f[s] = IF s = {} THEN block ELSE skip(f[s \ {Max(s)}], holes[Max(s)])
      <3> HIDE DEF G
      <3>1. QED
        BY <1>5, <2>1 DEF IsFold
    <2>3. QED
      BY <2>2
  <1>8. iter = Step(iter)
    <2> HIDE DEF Step
    <2>1. QED
      BY <1>7
  <1>9. FoldLeft(skip, block, holes) = iter[1 .. n]
    BY <1>1 DEF FoldLeft, MapThenFoldSet
  <1> HIDE DEF iter
  <1>10. StepsWhereTyped(iter, n, block, G, V)
    <2>1. \A s \in SUBSET (1 .. n) :
              iter[s] = IF s = {} THEN block ELSE skip(iter[s \ {Max(s)}], holes[Max(s)])
      BY <1>8
    <2>2. \A s \in SUBSET (1 .. n) : s # {} /\ iter[s \ {Max(s)}] \in V =>
             G[Max(s)][iter[s \ {Max(s)}]] = skip(iter[s \ {Max(s)}], holes[Max(s)])
      BY <1>6
    <2> HIDE DEF G
    <2>3. QED
      BY <2>1, <2>2 DEF StepsWhereTyped
  <1>11. \E t \in [0 .. n -> V] : IsTrace(t, n, block, G) /\ iter[1 .. n] = t[n]
    <2> HIDE DEF G
    <2>1. QED
      BY <1>1, <1>3, <1>4, <1>10, FoldTrace
  <1>12. PICK t \in [0 .. n -> V] : /\ t[0] = block
                                    /\ \A k \in 1 .. n : t[k] = G[k][t[k - 1]]
                                    /\ iter[1 .. n] = t[n]
    BY <1>11 DEF IsTrace
  <1>13. \A k \in 1 .. n : t[k - 1] \in V /\ t[k] = skip(t[k - 1], holes[k])
    <2>1. \A k \in 1 .. n : k - 1 \in 0 .. n
      BY <1>1
    <2>2. \A k \in 1 .. n : t[k - 1] \in V
      BY <2>1
    <2>3. \A k \in 1 .. n : G[k][t[k - 1]] = skip(t[k - 1], holes[k])
      BY <2>2
    <2> HIDE DEF G
    <2>4. QED
      BY <1>12, <2>2, <2>3
  <1>14. QED
    BY <1>9, <1>12, <1>13 DEF n, V

\* A hole that is not empty, but for one at 0.
IsHole(h) == h \in HoleType /\ 0 <= h.min /\ (h.min < h.max \/ (h.min = 0 /\ h.max = 0)) /\ h.max <= INF

\* What mb_util_lmm knows of its block after k holes: the block is free of them,
\* or it starts in one of them.
IsSkipped(b, from, holes, k) ==
    /\ b \in BlockType
    /\ b.retry => \E x \in 1 .. k : /\ holes[x].min <= from /\ from < holes[x].max
                                    /\ b.min = holes[x].max
    /\ ~b.retry => /\ b.min = from /\ from < b.max /\ b.max <= INF
                   /\ \/ b.max = INF
                      \/ \E x \in 1 .. k : b.max = holes[x].min /\ holes[x].min < holes[x].max
                   /\ \A x \in 1 .. k : holes[x].max <= from \/ b.max <= holes[x].min

\* A skip takes one more hole into account.
LEMMA SkipOne ==
    ASSUME NEW holes, NEW k \in Nat \ {0}, NEW from \in Nat, NEW b,
           \A x \in 1 .. k : IsHole(holes[x]),
           IsSkipped(b, from, holes, k - 1)
    PROVE  IsSkipped(skip(b, holes[k]), from, holes, k)
  <1> DEFINE h == holes[k]
  <1>0. IsHole(h)
    OBVIOUS
  <1>1. /\ b \in BlockType /\ b.min \in Int /\ b.max \in Int /\ b.retry \in BOOLEAN
        /\ h.min \in Int /\ h.max \in Int /\ INF \in Int
    BY <1>0, SizesAssumption DEF IsSkipped, BlockType, IsHole, HoleType
  <1>2. \A x \in 1 .. k - 1 : x \in 1 .. k
    OBVIOUS
  <1>3. \A x \in 1 .. k : x \in 1 .. k - 1 \/ x = k
    OBVIOUS
  <1>4. k \in 1 .. k
    OBVIOUS
  <1>5. CASE b.retry
    <2>1. skip(b, h) = b
      <3>1. b.retry \/ b.max <= h.min \/ b.min >= h.max
        BY <1>5
      <3>2. ~(~b.retry /\ b.min < h.min /\ h.min < b.max)
        BY <1>5
      <3>3. QED
        BY <3>1, <3>2 DEF skip
    <2>2. \E x \in 1 .. k : /\ holes[x].min <= from /\ from < holes[x].max
                            /\ b.min = holes[x].max
      BY <1>2, <1>5 DEF IsSkipped
    <2>3. QED
      BY <1>1, <1>5, <2>1, <2>2 DEF IsSkipped
  <1>6. CASE ~b.retry
    <2>1. /\ b.min = from /\ from < b.max /\ b.max <= INF
          /\ \/ b.max = INF
             \/ \E x \in 1 .. k : b.max = holes[x].min /\ holes[x].min < holes[x].max
          /\ \A x \in 1 .. k - 1 : holes[x].max <= from \/ b.max <= holes[x].min
      BY <1>2, <1>6 DEF IsSkipped
    <2>2. CASE b.max <= h.min \/ b.min >= h.max
      <3>1. skip(b, h) = b
        <4>1. ~(b.min < h.min /\ h.min < b.max)
          BY <1>0, <1>1, <2>1, <2>2 DEF IsHole
        <4>2. QED
          BY <1>6, <2>2, <4>1 DEF skip
      <3>2. holes[k].max <= from \/ b.max <= holes[k].min
        BY <1>1, <2>1, <2>2
      <3>3. \A x \in 1 .. k : holes[x].max <= from \/ b.max <= holes[x].min
        BY <1>3, <2>1, <3>2
      <3>4. QED
        BY <1>1, <1>6, <2>1, <3>1, <3>3 DEF IsSkipped
    <2>3. CASE ~(b.max <= h.min \/ b.min >= h.max) /\ b.min < h.min
      <3>1. b.min < h.min /\ h.min < b.max /\ b.min < h.max
        BY <1>1, <2>3
      <3>2. skip(b, h) = [b EXCEPT !.max = h.min]
        BY <1>6, <2>3, <3>1 DEF skip
      <3>3. PICK c : c = skip(b, h)
        OBVIOUS
      <3>4. c \in BlockType /\ c.min = b.min /\ c.max = h.min /\ ~c.retry
        BY <1>1, <1>6, <3>2, <3>3 DEF BlockType
      <3>5. h.min < h.max
        BY <1>0, <1>1, <2>1, <3>1 DEF IsHole
      <3>6. \A x \in 1 .. k - 1 : holes[x].max <= from \/ (b.max <= holes[x].min)
        BY <2>1
      <3>7. \A x \in 1 .. k : holes[x].max <= from \/ c.max <= holes[x].min
        <4> TAKE x \in 1 .. k
        <4>1. CASE x = k
          BY <1>1, <3>4, <4>1
        <4>2. CASE x \in 1 .. k - 1 /\ b.max <= holes[x].min
          <5>1. holes[x].min \in Int
            BY <1>2, <4>2 DEF IsHole, HoleType
          <5>2. QED
            BY <1>1, <3>1, <3>4, <4>2, <5>1
        <4>3. QED
          BY <1>3, <3>6, <4>1, <4>2
      <3>8. c.max <= INF /\ from < c.max
        BY <1>1, <2>1, <3>1, <3>4
      <3>9. \E x \in 1 .. k : c.max = holes[x].min /\ holes[x].min < holes[x].max
        BY <1>4, <3>4, <3>5
      <3>10. IsSkipped(c, from, holes, k)
        BY <2>1, <3>4, <3>7, <3>8, <3>9 DEF IsSkipped
      <3>11. QED
        BY <3>3, <3>10
    <2>4. CASE ~(b.max <= h.min \/ b.min >= h.max) /\ ~(b.min < h.min)
      <3>1. skip(b, h) = [b EXCEPT !.min = h.max, !.retry = TRUE]
        BY <1>1, <1>6, <2>4 DEF skip
      <3>2. PICK c : c = skip(b, h)
        OBVIOUS
      <3>3. c \in BlockType /\ c.min = h.max /\ c.retry
        BY <1>1, <3>1, <3>2 DEF BlockType
      <3>4. h.min <= from /\ from < h.max
        BY <1>1, <2>1, <2>4
      <3>5. IsSkipped(c, from, holes, k)
        BY <1>4, <3>3, <3>4 DEF IsSkipped
      <3>6. QED
        BY <3>2, <3>5
    <2>5. QED
      BY <2>2, <2>3, <2>4
  <1>7. QED
    BY <1>1, <1>5, <1>6

\* The block of mb_util_lmm once all its skips are done.
LEMMA BlockIsSkipped ==
    ASSUME NEW holes \in Seq(HoleType), \A k \in 1 .. Len(holes) : IsHole(holes[k]),
           NEW from \in Nat, from < INF
    PROVE  IsSkipped(FoldLeft(skip, [min |-> from, max |-> INF, retry |-> FALSE], holes),
                     from, holes, Len(holes))
  <1> DEFINE n == Len(holes)
             block == [min |-> from, max |-> INF, retry |-> FALSE]
  <1>1. n \in Nat
    BY LenProperties
  <1>2. INF \in Int /\ from \in Int /\ from < INF
    BY SizesAssumption
  <1>3. block \in BlockType /\ block.min = from /\ block.max = INF /\ block.retry = FALSE
    BY <1>2 DEF BlockType
  <1> HIDE DEF block
  <1>4. PICK t \in [0 .. Len(holes) -> BlockType] :
              /\ t[0] = block
              /\ \A k \in 1 .. Len(holes) : t[k] = skip(t[k - 1], holes[k])
              /\ FoldLeft(skip, block, holes) = t[Len(holes)]
    BY <1>3, SkipTrace
  <1> DEFINE T == {k \in 0 .. n : IsSkipped(t[k], from, holes, k)}
  <1>5. 0 \in T
    <2>1. 1 .. 0 = {}
      OBVIOUS
    <2>2. IsSkipped(block, from, holes, 0)
      BY <1>2, <1>3, <2>1 DEF IsSkipped
    <2>3. QED
      BY <1>1, <1>4, <2>2
  <1>6. ASSUME NEW k \in 1 .. n, k - 1 \in T
        PROVE  k \in T
    <2>1. IsSkipped(t[k - 1], from, holes, k - 1) /\ k \in Nat \ {0} /\ k \in 0 .. n
      BY <1>1, <1>6
    <2>2. IsSkipped(skip(t[k - 1], holes[k]), from, holes, k)
      <3>1. \A x \in 1 .. k : IsHole(holes[x])
        BY <1>1
      <3>2. QED
        BY <2>1, <3>1, SkipOne
    <2>3. QED
      BY <1>4, <2>1, <2>2
  <1>7. 0 .. n \subseteq T
    <2> HIDE DEF T, n
    <2>1. QED
      BY <1>1, <1>5, <1>6, IndexInduction
  <1>8. n \in T
    BY <1>1, <1>7
  <1>9. QED
    BY <1>4, <1>8 DEF block

\* Every hole the boot loader can name is a stretch of the address space.
LEMMA HolesAreHoles ==
    ASSUME mbi \in BootInfos
    PROVE  /\ Holes \in Seq(HoleType) /\ Len(Holes) \in Nat /\ Len(Holes) >= 3
           /\ \A k \in 1 .. Len(Holes) : IsHole(Holes[k])
           /\ Holes[1] = Hole(mbi.mem_lower, LOW) /\ Holes[2] = Hole(LOW + mbi.mem_upper, INF)
  <1> DEFINE three == <<Hole(mbi.mem_lower, LOW), Hole(LOW + mbi.mem_upper, INF), mbi.kernel>>
             H == {h \in HoleType : IsHole(h)}
  <1>1. /\ mbi.mem_lower \in Nat /\ mbi.mem_lower < LOW
        /\ mbi.mem_upper \in Nat /\ MID < LOW + mbi.mem_upper /\ LOW + mbi.mem_upper < INF
        /\ mbi.kernel \in AHole /\ mbi.others \in Seq(AHole)
    BY BootInfosAssumption
  <1>2. LOW \in Nat /\ INF \in Nat /\ LOW < INF
    BY SizesAssumption
  <1>3. AHole \subseteq H
    BY <1>2 DEF AHole, IsHole, HoleType
  <1>4. Hole(mbi.mem_lower, LOW) \in H /\ Hole(LOW + mbi.mem_upper, INF) \in H
    <2>1. \A x \in Nat, y \in Nat : x < y /\ y <= INF => Hole(x, y) \in H
      BY <1>2 DEF Hole, IsHole, HoleType
    <2>2. LOW + mbi.mem_upper \in Nat /\ LOW <= INF /\ INF <= INF
      BY <1>1, <1>2
    <2>3. QED
      BY <1>1, <1>2, <2>1, <2>2
  <1> HIDE DEF H
  <1>5. mbi.kernel \in H /\ mbi.others \in Seq(H)
    BY <1>1, <1>3
  <1>6. three \in Seq(H) /\ Len(three) = 3
        /\ three[1] = Hole(mbi.mem_lower, LOW) /\ three[2] = Hole(LOW + mbi.mem_upper, INF)
    BY <1>4, <1>5
  <1>7. Holes = three \o mbi.others
    BY DEF Holes, HolesOf
  <1> HIDE DEF three
  <1>8. PICK others : others = mbi.others
    OBVIOUS
  <1>9. /\ Holes \in Seq(H) /\ Len(Holes) = 3 + Len(others) /\ Len(others) \in Nat
        /\ \A x \in 1 .. 3 : Holes[x] = three[x]
    <2>1. others \in Seq(H) /\ Len(others) \in Nat /\ Holes = three \o others
      BY <1>5, <1>7, <1>8, LenProperties
    <2>2. /\ three \o others \in Seq(H) /\ Len(three \o others) = Len(three) + Len(others)
          /\ \A x \in 1 .. Len(three) + Len(others) : (three \o others)[x] =
                IF x <= Len(three) THEN three[x] ELSE others[x - Len(three)]
      BY <1>6, <2>1, ConcatProperties
    <2>3. \A x \in 1 .. 3 : x \in 1 .. 3 + Len(others) /\ x <= 3
      BY <2>1
    <2>4. QED
      BY <1>6, <2>1, <2>2, <2>3
  <1>10. \A k \in 1 .. Len(Holes) : Holes[k] \in H
    BY <1>9, ElementOfSeq
  <1>11. H \subseteq HoleType /\ \A h \in H : IsHole(h)
    BY DEF H
  <1>12. Holes \in Seq(HoleType)
    BY <1>9, <1>11
  <1>13. 1 \in 1 .. 3 /\ 2 \in 1 .. 3
    OBVIOUS
  <1>14. QED
    BY <1>6, <1>9, <1>10, <1>11, <1>12, <1>13

\* The blocks in use.
LentType == [at : Int, size : Nat \ {0}, kind : {"word", "sized", "page"}, zero : BOOLEAN]

Start(b) == b.at - HeaderOf(b.kind)
Whole(b) == b.size + HeaderOf(b.kind)
From(b) == AlignDown(Start(b))
To(b) == End(Start(b), Whole(b))

\* Every block has whole units of its own.
BlocksApart(bs, lmm) ==
    /\ \A b \in bs :
          /\ b \in LentType
          /\ b.kind = "page" => b.size = PAGE_SIZE
          /\ InARegion(lmm, From(b), To(b))
          /\ \A a \in From(b) .. To(b) - 1 : a \notin Bytes(lmm)
    /\ \A b, c \in bs : b # c => \A a \in From(b) .. To(b) - 1 : a \notin From(c) .. To(c) - 1

BytesKept(bs, mem) ==
    \A b \in bs :
        /\ \A i \in 0 .. b.size - 1 : mem[b.at + i] = Content(b, i)
        /\ b.kind = "word" => \A a \in b.at - WORD .. b.at - 1 : mem[a] = b.size + WORD

\* The integers that describe a block in use.
LEMMA BlockFacts ==
    ASSUME NEW b \in LentType
    PROVE  /\ b.at \in Int /\ b.size \in Nat \ {0}
           /\ HeaderOf(b.kind) \in Nat
           /\ b.kind = "word" => HeaderOf(b.kind) = WORD
           /\ b.kind # "word" => HeaderOf(b.kind) = 0
           /\ WORD \in Nat \ {0}
           /\ Start(b) \in Int /\ Whole(b) \in Nat \ {0}
           /\ Start(b) = b.at - HeaderOf(b.kind) /\ Start(b) + Whole(b) = b.at + b.size
           /\ From(b) \in Int /\ To(b) \in Int
           /\ From(b) <= Start(b) /\ b.at + b.size <= To(b) /\ From(b) < To(b)
  <1>1. b.at \in Int /\ b.size \in Nat \ {0} /\ b.kind \in {"word", "sized", "page"}
    BY DEF LentType
  <1>2. /\ HeaderOf(b.kind) \in Nat /\ WORD \in Nat \ {0}
        /\ b.kind = "word" => HeaderOf(b.kind) = WORD
        /\ b.kind # "word" => HeaderOf(b.kind) = 0
    BY <1>1, WordAssumption DEF HeaderOf
  <1>3. PICK h \in Nat, x \in Int, y \in Nat \ {0} : h = HeaderOf(b.kind) /\ x = b.at /\ y = b.size
    BY <1>1, <1>2
  <1>4. Start(b) = x - h /\ Whole(b) = y + h
    BY <1>3 DEF Start, Whole
  <1>5. x - h \in Int /\ y + h \in Nat \ {0} /\ (x - h) + (y + h) = x + y
    OBVIOUS
  <1>6. From(b) = AlignDown(x - h) /\ To(b) = End(x - h, y + h)
    BY <1>4 DEF From, To
  <1>7. /\ From(b) \in Int /\ To(b) \in Int
        /\ From(b) <= x - h /\ (x - h) + (y + h) <= To(b) /\ From(b) < To(b)
    BY <1>5, <1>6, UnitsOfABlock
  <1>8. QED
    BY <1>1, <1>2, <1>3, <1>4, <1>5, <1>7

\* Where the bytes of a block are.
LEMMA BytesOfABlock ==
    ASSUME NEW lmm, IsLmm(lmm), NEW bs, BlocksApart(bs, lmm), NEW b \in bs
    PROVE  /\ b \in LentType
           /\ \A a \in Int : Start(b) <= a /\ a < b.at + b.size =>
                 /\ a \in Byte /\ a \notin Bytes(lmm)
                 /\ a \in From(b) .. To(b) - 1
                 /\ \A c \in bs : c # b => a \notin From(c) .. To(c) - 1
           /\ \A i \in 0 .. b.size - 1 :
                 b.at + i \in Int /\ Start(b) <= b.at + i /\ b.at + i < b.at + b.size
           /\ b.kind = "word" => \A a \in b.at - WORD .. b.at - 1 :
                 a \in Int /\ Start(b) <= a /\ a < b.at + b.size
  <1>1. b \in LentType /\ InARegion(lmm, From(b), To(b))
        /\ \A a \in From(b) .. To(b) - 1 : a \notin Bytes(lmm)
    BY DEF BlocksApart
  <1>2. /\ b.at \in Int /\ b.size \in Nat \ {0} /\ HeaderOf(b.kind) \in Nat
        /\ b.kind = "word" => HeaderOf(b.kind) = WORD
        /\ WORD \in Nat \ {0}
        /\ Start(b) \in Int /\ Start(b) = b.at - HeaderOf(b.kind)
        /\ From(b) \in Int /\ To(b) \in Int
        /\ From(b) <= Start(b) /\ b.at + b.size <= To(b)
    BY <1>1, BlockFacts
  <1>3. PICK h \in Nat, x \in Int, y \in Nat \ {0}, f \in Int, t \in Int, s \in Int :
           /\ h = HeaderOf(b.kind) /\ x = b.at /\ y = b.size
           /\ f = From(b) /\ t = To(b) /\ s = Start(b)
    BY <1>2
  <1>4. s = x - h /\ f <= s /\ x + y <= t
    BY <1>2, <1>3
  <1>5. 0 <= f /\ t <= INF
    <2>1. PICK i \in 1 .. Len(lmm) : lmm[i].min <= f /\ t <= lmm[i].max
      BY <1>1, <1>3 DEF InARegion
    <2>2. lmm[i].min \in Int /\ lmm[i].max \in Int /\ 0 <= lmm[i].min /\ lmm[i].max <= INF
      BY RegionFacts
    <2>3. INF \in Int
      BY SizesAssumption
    <2>4. QED
      BY <2>1, <2>2, <2>3
  <1>6. ASSUME NEW a \in Int, s <= a, a < x + y
        PROVE  a \in f .. t - 1 /\ a \in Byte
    <2>1. f <= a /\ a < t
      BY <1>4, <1>6
    <2>2. INF \in Int
      BY SizesAssumption
    <2>3. a \in 0 .. INF
      BY <1>5, <2>1, <2>2
    <2>4. QED
      BY <2>1, <2>3 DEF Byte
  <1>7. \A i \in 0 .. y - 1 : x + i \in Int /\ s <= x + i /\ x + i < x + y
    BY <1>4
  <1>8. h = WORD => \A a \in x - WORD .. x - 1 : a \in Int /\ s <= a /\ a < x + y
    BY <1>4
  <1>9. \A a \in f .. t - 1 : \A c \in bs : c # b => a \notin From(c) .. To(c) - 1
    BY <1>3 DEF BlocksApart
  <1>10. QED
    BY <1>1, <1>2, <1>3, <1>6, <1>7, <1>8, <1>9

\* What is in a region stays in one while the regions are the same.
LEMMA SameRegion ==
    ASSUME NEW lmm, NEW other, SameRegions(lmm, other), NEW from, NEW to
    PROVE  InARegion(lmm, from, to) => InARegion(other, from, to)
  BY DEF SameRegions, InARegion

\* The blocks stay apart from the free memory as that shrinks.
LEMMA BlocksStayApart ==
    ASSUME NEW lmm, NEW other, NEW bs, BlocksApart(bs, lmm),
           SameRegions(lmm, other), Bytes(other) \subseteq Bytes(lmm)
    PROVE  BlocksApart(bs, other)
  <1>1. \A b \in bs : InARegion(other, From(b), To(b))
    BY SameRegion DEF BlocksApart
  <1>2. QED
    BY <1>1 DEF BlocksApart

\* A block that is taken from the free memory is apart from all others.
LEMMA LentApart ==
    ASSUME NEW lmm, IsLmm(lmm), NEW bs, BlocksApart(bs, lmm),
           NEW b \in LentType, b.kind = "page" => b.size = PAGE_SIZE,
           NEW res, Took(res, lmm, Whole(b)), res.at = Start(b)
    PROVE  BlocksApart(bs \cup {b}, res.lmm) /\ b \notin bs
  <1>1. /\ From(b) = AlignDown(res.at) /\ To(b) = End(res.at, Whole(b))
    BY DEF From, To
  <1>2. /\ IsLmm(res.lmm) /\ SameRegions(lmm, res.lmm)
        /\ Bytes(res.lmm) = Bytes(lmm) \ (From(b) .. To(b) - 1)
        /\ From(b) .. To(b) - 1 \subseteq Bytes(lmm)
        /\ InARegion(lmm, From(b), To(b))
    BY <1>1 DEF Took, Shrunk
  <1>3. BlocksApart(bs, res.lmm)
    BY <1>2, BlocksStayApart
  <1>4. InARegion(res.lmm, From(b), To(b))
    BY <1>2, SameRegion
  <1>5. \A a \in From(b) .. To(b) - 1 : a \notin Bytes(res.lmm)
    BY <1>2
  <1>6. \A c \in bs : \A a \in From(c) .. To(c) - 1 : a \notin From(b) .. To(b) - 1
    BY <1>2 DEF BlocksApart
  <1>7. \A c \in bs : \A a \in From(b) .. To(b) - 1 : a \notin From(c) .. To(c) - 1
    BY <1>6
  <1>8. b \notin bs
    <2>1. From(b) \in Int /\ To(b) \in Int /\ From(b) < To(b)
      BY BlockFacts
    <2>2. From(b) \in From(b) .. To(b) - 1
      BY <2>1
    <2>3. QED
      BY <1>7, <2>2
  <1>9. QED
    BY <1>3, <1>4, <1>5, <1>6, <1>7, <1>8 DEF BlocksApart

\* Freeing a block of the lmm's gives back its units and leaves the others alone.
LEMMA FreedApart ==
    ASSUME NEW lmm, IsLmm(lmm), NEW bs, BlocksApart(bs, lmm), NEW b \in bs, NEW res,
           res = lmm_free(lmm, Start(b), Whole(b))
    PROVE  /\ IsLmm(res.lmm) /\ SameRegions(lmm, res.lmm)
           /\ Bytes(res.lmm) = Bytes(lmm) \cup (From(b) .. To(b) - 1)
           /\ BlocksApart(bs \ {b}, res.lmm)
           /\ res.wrote \subseteq Bytes(res.lmm)
  <1>1. b \in LentType /\ InARegion(lmm, From(b), To(b))
        /\ \A a \in From(b) .. To(b) - 1 : a \notin Bytes(lmm)
    BY DEF BlocksApart
  <1>2. Start(b) \in Int /\ Whole(b) \in Nat \ {0}
    BY <1>1, BlockFacts
  <1>3. From(b) = AlignDown(Start(b)) /\ To(b) = End(Start(b), Whole(b))
    BY DEF From, To
  <1>4. Grown(res.lmm, lmm, From(b), To(b)) /\ res.wrote \subseteq Bytes(res.lmm)
    BY <1>1, <1>2, <1>3, lmm_free_grows
  <1>5. /\ IsLmm(res.lmm) /\ SameRegions(lmm, res.lmm)
        /\ Bytes(res.lmm) = Bytes(lmm) \cup (From(b) .. To(b) - 1)
    BY <1>4 DEF Grown
  <1>6. \A c \in bs : InARegion(res.lmm, From(c), To(c))
    BY <1>5, SameRegion DEF BlocksApart
  <1>7. ASSUME NEW c \in bs \ {b}, NEW a \in From(c) .. To(c) - 1
        PROVE  a \notin Bytes(res.lmm)
    <2>1. a \notin Bytes(lmm) /\ a \notin From(b) .. To(b) - 1
      BY DEF BlocksApart
    <2>2. QED
      BY <1>5, <2>1
  <1>8. BlocksApart(bs \ {b}, res.lmm)
    BY <1>6, <1>7 DEF BlocksApart
  <1>9. QED
    BY <1>4, <1>5, <1>8

\* The bytes of the blocks are kept if the memory changes nowhere in them.
LEMMA KeptElsewhere ==
    ASSUME NEW lmm, IsLmm(lmm), NEW bs, BlocksApart(bs, lmm),
           NEW mem, BytesKept(bs, mem), NEW cs \in SUBSET bs, NEW new,
           \A c \in cs : \A a \in Byte : Start(c) <= a /\ a < c.at + c.size => new[a] = mem[a]
    PROVE  BytesKept(cs, new)
  <1> SUFFICES ASSUME NEW c \in cs
               PROVE  /\ \A i \in 0 .. c.size - 1 : new[c.at + i] = Content(c, i)
                      /\ c.kind = "word" =>
                            \A a \in c.at - WORD .. c.at - 1 : new[a] = c.size + WORD
    BY DEF BytesKept
  <1>1. /\ \A a \in Int : Start(c) <= a /\ a < c.at + c.size => a \in Byte
        /\ \A i \in 0 .. c.size - 1 :
              c.at + i \in Int /\ Start(c) <= c.at + i /\ c.at + i < c.at + c.size
        /\ c.kind = "word" => \A a \in c.at - WORD .. c.at - 1 :
              a \in Int /\ Start(c) <= a /\ a < c.at + c.size
    BY BytesOfABlock
  <1>2. \A i \in 0 .. c.size - 1 : new[c.at + i] = mem[c.at + i]
    BY <1>1
  <1>3. c.kind = "word" => \A a \in c.at - WORD .. c.at - 1 : new[a] = mem[a]
    BY <1>1
  <1>4. QED
    BY <1>2, <1>3 DEF BytesKept

\* The bytes of a block that has just been filled.
LEMMA FilledBlock ==
    ASSUME NEW b \in LentType, NEW mem, NEW wrote, InRange(b.size, b.kind),
           \A a \in Int : Start(b) <= a /\ a < b.at + b.size => a \in Byte
    PROVE  BytesKept({b}, Filled(mem, wrote, b))
  <1> DEFINE new == Filled(mem, wrote, b)
  <1>1. /\ b.at \in Int /\ b.size \in Nat \ {0} /\ HeaderOf(b.kind) \in Nat
        /\ b.kind = "word" => HeaderOf(b.kind) = WORD
        /\ WORD \in Nat \ {0} /\ Start(b) = b.at - HeaderOf(b.kind)
    BY BlockFacts
  <1>2. PICK x \in Int, y \in Nat \ {0}, h \in Nat : x = b.at /\ y = b.size /\ h = HeaderOf(b.kind)
    BY <1>1
  <1>3. \A a \in Byte : new[a] =
           CASE a \in Payload(b)                            -> Content(b, a - b.at)
             [] b.kind = "word" /\ a \in b.at - WORD .. b.at - 1 -> Request(b.size, "word")
             [] OTHER -> IF a \in wrote THEN Junk ELSE mem[a]
    BY DEF Filled
  <1> HIDE DEF new
  <1>4. Payload(b) = x .. x + y - 1 /\ Start(b) = x - h
    BY <1>1, <1>2 DEF Payload
  <1>5. ASSUME NEW i \in 0 .. b.size - 1
        PROVE  new[b.at + i] = Content(b, i)
    <2>1. PICK a : a = x + i
      OBVIOUS
    <2>2. i \in Int /\ 0 <= i /\ i < y
      BY <1>2
    <2>3. /\ a \in Int /\ x - h <= a /\ a < x + y /\ a - x = i
          /\ a \in x .. x + y - 1 /\ a \notin x - WORD .. x - 1
      BY <1>1, <2>1, <2>2
    <2>4. a \in Byte
      BY <1>2, <1>4, <2>3
    <2>5. new[a] = Content(b, a - b.at)
      BY <1>2, <1>3, <1>4, <2>3, <2>4
    <2>6. QED
      BY <1>2, <2>1, <2>3, <2>5
  <1>6. ASSUME b.kind = "word", NEW a \in b.at - WORD .. b.at - 1
        PROVE  new[a] = b.size + WORD
    <2>1. h = WORD
      BY <1>1, <1>2, <1>6
    <2>2. a \in x - WORD .. x - 1
      BY <1>2, <1>6
    <2>3. a \in Int /\ x - h <= a /\ a < x + y /\ a \notin x .. x + y - 1
      BY <1>1, <2>1, <2>2
    <2>4. a \in Byte
      BY <1>2, <1>4, <2>3
    <2>5. Request(b.size, "word") = b.size + WORD
      <3>1. y + h \in Nat /\ HeaderOf("word") = WORD
        BY <1>1, <1>2 DEF HeaderOf
      <3>2. SizeT(y + h) = y + h
        BY <1>2, <3>1, SizeInRange DEF InRange
      <3>3. QED
        BY <1>2, <2>1, <3>1, <3>2 DEF Request
    <2>6. QED
      BY <1>2, <1>3, <1>4, <1>6, <2>2, <2>3, <2>4, <2>5
  <1>7. QED
    BY <1>5, <1>6 DEF BytesKept, new

\* A block that is lent and filled leaves the bytes of the others as they are.
LEMMA LentKept ==
    ASSUME NEW lmm, IsLmm(lmm), NEW bs, BlocksApart(bs, lmm), NEW mem, BytesKept(bs, mem),
           NEW b \in LentType, b.kind = "page" => b.size = PAGE_SIZE, InRange(b.size, b.kind),
           NEW res, Took(res, lmm, Whole(b)), res.at = Start(b)
    PROVE  BytesKept(bs \cup {b}, Filled(mem, res.wrote, b))
  <1> DEFINE new == Filled(mem, res.wrote, b)
  <1>1. BlocksApart(bs \cup {b}, res.lmm) /\ b \notin bs /\ IsLmm(res.lmm)
    BY LentApart DEF Took, Shrunk
  <1>2. BytesKept({b}, new)
    <2>1. \A a \in Int : Start(b) <= a /\ a < b.at + b.size => a \in Byte
      BY <1>1, BytesOfABlock
    <2>2. QED
      BY <2>1, FilledBlock
  <1>3. ASSUME NEW c \in bs, NEW a \in Byte, Start(c) <= a, a < c.at + c.size
        PROVE  new[a] = mem[a]
    <2>1. a \in Int
      BY SizesAssumption DEF Byte
    <2>2. a \notin Bytes(lmm) /\ a \in From(c) .. To(c) - 1
      BY <1>3, <2>1, BytesOfABlock
    <2>3. a \notin From(b) .. To(b) - 1
      BY <1>1, <2>2 DEF BlocksApart
    <2>4. a \notin res.wrote
      BY <2>2 DEF Took
    <2>5. a \notin Payload(b) /\ ~(b.kind = "word" /\ a \in b.at - WORD .. b.at - 1)
      <3>1. /\ b.at \in Int /\ b.size \in Nat \ {0} /\ HeaderOf(b.kind) \in Nat
            /\ b.kind = "word" => HeaderOf(b.kind) = WORD
            /\ WORD \in Nat \ {0} /\ Start(b) = b.at - HeaderOf(b.kind) /\ Start(b) \in Int
            /\ From(b) \in Int /\ To(b) \in Int
            /\ From(b) <= Start(b) /\ b.at + b.size <= To(b)
        BY BlockFacts
      <3>2. PICK x \in Int, y \in Nat \ {0}, h \in Nat, f \in Int, t \in Int :
               /\ x = b.at /\ y = b.size /\ h = HeaderOf(b.kind) /\ f = From(b) /\ t = To(b)
        BY <3>1
      <3>3. f <= x - h /\ x + y <= t /\ a \notin f .. t - 1
        BY <2>3, <3>1, <3>2
      <3>4. a \notin x .. x + y - 1
        BY <2>1, <3>3
      <3>5. h = WORD => a \notin x - WORD .. x - 1
        BY <2>1, <3>3
      <3>6. QED
        BY <3>1, <3>2, <3>4, <3>5 DEF Payload
    <2>6. QED
      BY <2>4, <2>5 DEF Filled
  <1>4. BytesKept(bs, new)
    <2>1. bs \in SUBSET bs
      OBVIOUS
    <2> HIDE DEF new
    <2>2. QED
      BY <1>3, <2>1, KeptElsewhere
  <1>5. QED
    BY <1>2, <1>4 DEF BytesKept

\* So does freeing a block.
LEMMA FreedKept ==
    ASSUME NEW lmm, IsLmm(lmm), NEW bs, BlocksApart(bs, lmm), NEW mem, BytesKept(bs, mem),
           NEW b \in bs, NEW res, res = lmm_free(lmm, Start(b), Whole(b))
    PROVE  BytesKept(bs \ {b}, Forgotten(mem, res, bs \ {b}))
  <1> DEFINE cs == bs \ {b}
             new == Forgotten(mem, res, cs)
  <1>1. IsLmm(res.lmm) /\ BlocksApart(cs, res.lmm) /\ res.wrote \subseteq Bytes(res.lmm)
    BY FreedApart
  <1>2. ASSUME NEW c \in cs, NEW a \in Byte, Start(c) <= a, a < c.at + c.size
        PROVE  new[a] = mem[a]
    <2>1. a \in Int
      BY SizesAssumption DEF Byte
    <2>2. a \notin Bytes(res.lmm) /\ c \in LentType
      <3> HIDE DEF cs
      <3>1. QED
        BY <1>1, <1>2, <2>1, BytesOfABlock
    <2>3. a \notin res.wrote
      BY <1>1, <2>2
    <2>4. a \in c.at - HeaderOf(c.kind) .. c.at + c.size - 1
      <3>1. c.at \in Int /\ c.size \in Nat \ {0} /\ HeaderOf(c.kind) \in Nat
            /\ Start(c) = c.at - HeaderOf(c.kind)
        BY <2>2, BlockFacts
      <3>2. PICK x \in Int, y \in Nat \ {0}, h \in Nat :
               x = c.at /\ y = c.size /\ h = HeaderOf(c.kind)
        BY <3>1
      <3>3. a \in x - h .. x + y - 1
        BY <1>2, <2>1, <3>1, <3>2
      <3>4. QED
        BY <3>2, <3>3
    <2> HIDE DEF cs
    <2>5. QED
      BY <2>3, <2>4 DEF Forgotten
  <1>3. cs \in SUBSET bs
    OBVIOUS
  <1> HIDE DEF cs, new
  <1>4. BytesKept(cs, new)
    BY <1>2, <1>3, KeptElsewhere
  <1>5. QED
    BY <1>4 DEF cs, new

\* The size in front of a block is what _free and _realloc read.
LEMMA SizeInFront ==
    ASSUME NEW b \in LentType, b.kind = "word", NEW mem, BytesKept({b}, mem)
    PROVE  Chunk(b) = Start(b) /\ mem[Chunk(b)] = Whole(b)
  <1>1. b.at \in Int /\ HeaderOf(b.kind) = WORD /\ WORD \in Nat \ {0}
    BY BlockFacts
  <1>2. b.at - WORD \in b.at - WORD .. b.at - 1
    <2>1. PICK x \in Int : x = b.at
      BY <1>1
    <2>2. x - WORD \in x - WORD .. x - 1
      BY <1>1
    <2>3. QED
      BY <2>1, <2>2
  <1>3. mem[b.at - WORD] = b.size + WORD
    BY <1>2 DEF BytesKept
  <1>4. QED
    BY <1>1, <1>3 DEF Chunk, Start, Whole

IsMoved(lmm, bs, b, new, got, back) ==
    /\ IsLmm(back.lmm) /\ SameRegions(lmm, back.lmm)
    /\ Bytes(back.lmm) = (Bytes(lmm) \ (From(new) .. To(new) - 1)) \cup (From(b) .. To(b) - 1)
    /\ BlocksApart((bs \ {b}) \cup {new}, back.lmm)
    /\ back.wrote \subseteq Bytes(back.lmm)
    /\ BlocksApart(bs \cup {new}, got.lmm) /\ IsLmm(got.lmm) /\ new \notin bs

\* realloc's new block is apart from the others, the old one's units are free again.
LEMMA MovedApart ==
    ASSUME NEW lmm, IsLmm(lmm), NEW bs, BlocksApart(bs, lmm), NEW b \in bs,
           NEW new \in LentType, new.kind = "word",
           NEW got, Took(got, lmm, Whole(new)), got.at = Start(new),
           NEW back, back = lmm_free(got.lmm, Start(b), Whole(b))
    PROVE  IsMoved(lmm, bs, b, new, got, back)
  <1>1. BlocksApart(bs \cup {new}, got.lmm) /\ new \notin bs
    BY LentApart
  <1>2. /\ IsLmm(got.lmm) /\ SameRegions(lmm, got.lmm)
        /\ Bytes(got.lmm) = Bytes(lmm) \ (From(new) .. To(new) - 1)
    BY DEF Took, Shrunk, From, To
  <1>3. b \in bs \cup {new}
    OBVIOUS
  <1>4. /\ IsLmm(back.lmm) /\ SameRegions(got.lmm, back.lmm)
        /\ Bytes(back.lmm) = Bytes(got.lmm) \cup (From(b) .. To(b) - 1)
        /\ BlocksApart((bs \cup {new}) \ {b}, back.lmm)
        /\ back.wrote \subseteq Bytes(back.lmm)
    <2>1. PICK cs, l : cs = bs \cup {new} /\ l = got.lmm
      OBVIOUS
    <2>2. IsLmm(l) /\ BlocksApart(cs, l) /\ b \in cs /\ back = lmm_free(l, Start(b), Whole(b))
      BY <1>1, <1>2, <2>1
    <2>3. /\ IsLmm(back.lmm) /\ SameRegions(l, back.lmm)
          /\ Bytes(back.lmm) = Bytes(l) \cup (From(b) .. To(b) - 1)
          /\ BlocksApart(cs \ {b}, back.lmm)
          /\ back.wrote \subseteq Bytes(back.lmm)
      BY <2>2, FreedApart
    <2>4. QED
      BY <2>1, <2>3
  <1>5. (bs \cup {new}) \ {b} = (bs \ {b}) \cup {new}
    BY <1>1
  <1>6. SameRegions(lmm, back.lmm)
    BY <1>2, <1>4 DEF SameRegions
  <1>7. QED
    BY <1>1, <1>2, <1>4, <1>5, <1>6 DEF IsMoved

\* realloc copies what the client had in the block, and leaves the others as they are.
LEMMA MovedKept ==
    ASSUME NEW lmm, IsLmm(lmm), NEW bs, BlocksApart(bs, lmm), NEW mem, BytesKept(bs, mem),
           NEW b \in bs, b.kind = "word",
           NEW new \in LentType, new.kind = "word", new.zero = b.zero,
           NEW got, Took(got, lmm, Whole(new)), got.at = Start(new),
           NEW back, back = lmm_free(got.lmm, Start(b), Whole(b))
    PROVE  BytesKept((bs \ {b}) \cup {new},
                     Moved(mem, got, back, mem[Chunk(b)], b, new, (bs \ {b}) \cup {new}))
  <1> DEFINE cs == (bs \ {b}) \cup {new}
             old == mem[Chunk(b)]
             n == Min({old, new.size + WORD})
             kept == [a \in Byte |-> IF a \in got.wrote THEN Junk ELSE mem[a]]
             copied == Copied(kept, Chunk(b), got.at, n)
             filled == [a \in Byte |->
                          CASE a \in Chunk(new) .. new.at - 1 -> new.size + WORD
                            [] a \in Payload(new) /\ a - new.at >= b.size -> Content(new, a - new.at)
                            [] OTHER -> copied[a]]
             last == Moved(mem, got, back, old, b, new, cs)
  <1>1. /\ IsLmm(back.lmm) /\ BlocksApart(cs, back.lmm)
        /\ back.wrote \subseteq Bytes(back.lmm)
        /\ BlocksApart(bs \cup {new}, got.lmm) /\ IsLmm(got.lmm) /\ new \notin bs
    <2>1. IsMoved(lmm, bs, b, new, got, back)
      <3> HIDE DEF old, n, kept, copied, filled, last, cs
      <3>1. QED
        BY MovedApart
    <2>2. QED
      BY <2>1 DEF IsMoved
  <1>2. last = Forgotten(filled, back, cs)
    BY DEF Moved
  <1>3. b \in LentType
    BY DEF BlocksApart
  <1>4. /\ b.at \in Int /\ b.size \in Nat \ {0} /\ WORD \in Nat \ {0}
        /\ new.at \in Int /\ new.size \in Nat \ {0}
        /\ HeaderOf(b.kind) = WORD /\ HeaderOf(new.kind) = WORD
    BY <1>3, BlockFacts
  <1>5. PICK x \in Int, y \in Nat \ {0}, u \in Int, v \in Nat \ {0} :
           x = b.at /\ y = b.size /\ u = new.at /\ v = new.size
    BY <1>4
  <1>6. Start(b) = x - WORD /\ Start(new) = u - WORD /\ got.at = u - WORD
        /\ Chunk(b) = x - WORD /\ Chunk(new) = u - WORD /\ Payload(new) = u .. u + v - 1
    BY <1>4, <1>5 DEF Start, Chunk, Payload
  <1>7. old = y + WORD
    <2>1. BytesKept({b}, mem)
      BY DEF BytesKept
    <2>2. old = Whole(b)
      BY <1>3, <2>1, SizeInFront
    <2>3. QED
      BY <1>4, <1>5, <2>2 DEF Whole
  <1>8. n = IF y <= v THEN y + WORD ELSE v + WORD
    <2>1. Min({y + WORD, v + WORD}) = IF y + WORD <= v + WORD THEN y + WORD ELSE v + WORD
      BY <1>4, MinOfTwo
    <2>2. y + WORD <= v + WORD <=> y <= v
      BY <1>4
    <2>3. QED
      BY <1>5, <1>7, <2>1, <2>2
  <1>9. \A a \in Byte : a \in Int
    BY SizesAssumption DEF Byte
  <1>10. \A a \in Byte : copied[a] = IF a \in u - WORD .. (u - WORD) + n - 1
                                     THEN kept[(a - (u - WORD)) + (x - WORD)] ELSE kept[a]
    <2> HIDE DEF kept, n
    <2>1. QED
      BY <1>6 DEF Copied
  <1>11. \A a \in Byte : kept[a] = IF a \in got.wrote THEN Junk ELSE mem[a]
    OBVIOUS
  <1> HIDE DEF copied, kept
  <1>12. \A a \in Byte : filled[a] =
             CASE a \in u - WORD .. u - 1 -> new.size + WORD
               [] a \in u .. u + v - 1 /\ a - u >= y -> Content(new, a - u)
               [] OTHER -> copied[a]
    BY <1>5, <1>6
  <1> HIDE DEF n, old, last, filled
  <1>13. ASSUME NEW c \in cs, NEW a \in Byte, Start(c) <= a, a < c.at + c.size
         PROVE  last[a] = filled[a] /\ a \in From(c) .. To(c) - 1 /\ a \notin Bytes(back.lmm)
    <2>1. a \in Int
      BY <1>9
    <2>2. a \notin Bytes(back.lmm) /\ c \in LentType /\ a \in From(c) .. To(c) - 1
      <3> HIDE DEF cs
      <3>1. QED
        BY <1>1, <1>13, <2>1, BytesOfABlock
    <2>3. a \notin back.wrote
      BY <1>1, <2>2
    <2>4. a \in c.at - HeaderOf(c.kind) .. c.at + c.size - 1
      <3>1. c.at \in Int /\ c.size \in Nat \ {0} /\ HeaderOf(c.kind) \in Nat
            /\ Start(c) = c.at - HeaderOf(c.kind)
        BY <2>2, BlockFacts
      <3>2. PICK d \in Int, e \in Nat \ {0}, h \in Nat :
               d = c.at /\ e = c.size /\ h = HeaderOf(c.kind)
        BY <3>1
      <3>3. a \in d - h .. d + e - 1
        BY <1>13, <2>1, <3>1, <3>2
      <3>4. QED
        BY <3>2, <3>3
    <2> HIDE DEF cs
    <2>5. QED
      BY <1>2, <2>2, <2>3, <2>4 DEF Forgotten
  <1>14. ASSUME NEW a \in Byte, a \in From(b) .. To(b) - 1
         PROVE  kept[a] = mem[a]
    <2>1. a \notin Bytes(lmm)
      BY <1>14 DEF BlocksApart
    <2>2. a \notin got.wrote
      BY <2>1 DEF Took
    <2>3. QED
      BY <1>11, <2>2
  \* The other blocks.
  <1>15. ASSUME NEW c \in bs \ {b}, NEW a \in Byte, Start(c) <= a, a < c.at + c.size
         PROVE  last[a] = mem[a]
    <2>1. a \in Int /\ c \in cs /\ c # new
      BY <1>1, <1>9
    <2>2. last[a] = filled[a] /\ a \in From(c) .. To(c) - 1
      BY <1>13, <1>15, <2>1
    <2>3. a \notin Bytes(lmm) /\ a \notin From(new) .. To(new) - 1
      <3>1. c \in bs \cup {new} /\ new \in bs \cup {new} /\ c \in bs
        OBVIOUS
      <3>2. a \notin From(new) .. To(new) - 1
        BY <1>1, <2>1, <2>2, <3>1 DEF BlocksApart
      <3>3. a \notin Bytes(lmm)
        BY <2>2, <3>1 DEF BlocksApart
      <3>4. QED
        BY <3>2, <3>3
    <2>4. a \notin u - WORD .. u + v - 1
      <3>1. /\ From(new) \in Int /\ To(new) \in Int
            /\ From(new) <= Start(new) /\ new.at + new.size <= To(new)
        BY BlockFacts
      <3>2. PICK f \in Int, t \in Int : f = From(new) /\ t = To(new)
        BY <3>1
      <3>3. f <= u - WORD /\ u + v <= t /\ a \notin f .. t - 1
        BY <1>5, <1>6, <2>3, <3>1, <3>2
      <3>4. QED
        BY <1>4, <2>1, <3>3
    <2>5. a \notin u - WORD .. u - 1 /\ a \notin u .. u + v - 1
          /\ a \notin u - WORD .. (u - WORD) + n - 1
      <3>1. n \in Int /\ (u - WORD) + n <= u + v
        BY <1>4, <1>8
      <3>2. QED
        BY <1>4, <2>1, <2>4, <3>1
    <2>6. filled[a] = copied[a]
      BY <1>12, <2>5
    <2>7. copied[a] = kept[a]
      BY <1>10, <2>5
    <2>8. a \notin got.wrote
      BY <2>3 DEF Took
    <2>9. kept[a] = mem[a]
      BY <1>11, <2>8
    <2>10. QED
      BY <2>2, <2>6, <2>7, <2>9
  <1>16. BytesKept(bs \ {b}, last)
    <2>1. bs \ {b} \in SUBSET bs
      OBVIOUS
    <2>2. QED
      BY <1>15, <2>1, KeptElsewhere
  \* The block that has been moved.
  <1>17. /\ new \in cs
         /\ \A a \in Int : u - WORD <= a /\ a < u + v => a \in Byte
    <2>1. new \in cs
      OBVIOUS
    <2> HIDE DEF cs
    <2>2. QED
      BY <1>1, <1>5, <1>6, <2>1, BytesOfABlock
  <1>18. \A a \in Int : x - WORD <= a /\ a < x + y => a \in Byte /\ a \in From(b) .. To(b) - 1
    BY <1>5, <1>6, BytesOfABlock
  <1>19. ASSUME NEW i \in 0 .. v - 1
         PROVE  last[u + i] = Content(new, i)
    <2>1. PICK a : a = u + i
      OBVIOUS
    <2>2. /\ a \in Int /\ u - WORD <= a /\ a < u + v /\ a - u = i
          /\ a \in u .. u + v - 1 /\ a \notin u - WORD .. u - 1
      BY <1>4, <2>1
    <2>3. a \in Byte
      BY <1>17, <2>2
    <2>4. last[a] = filled[a]
      BY <1>5, <1>6, <1>13, <1>17, <2>2, <2>3
    <2>5. CASE i >= y
      <3>1. filled[a] = Content(new, a - u)
        BY <1>12, <2>2, <2>3, <2>5
      <3>2. QED
        BY <2>1, <2>2, <2>4, <3>1
    <2>6. CASE i < y
      <3>1. filled[a] = copied[a]
        BY <1>12, <2>2, <2>3, <2>6
      <3>2. a \in u - WORD .. (u - WORD) + n - 1
        <4>1. i + WORD < n /\ n \in Int
          BY <1>4, <1>8, <2>6
        <4>2. QED
          BY <1>4, <2>1, <4>1
      <3>3. (a - (u - WORD)) + (x - WORD) = x + i
        BY <1>4, <2>1
      <3>4. copied[a] = kept[x + i]
        BY <1>10, <2>3, <3>2, <3>3
      <3>5. x + i \in Int /\ x - WORD <= x + i /\ x + i < x + y
        BY <1>4, <2>6
      <3>6. kept[x + i] = mem[x + i]
        BY <1>14, <1>18, <3>5
      <3>7. mem[x + i] = Content(b, i)
        <4>1. i \in 0 .. b.size - 1
          BY <1>5, <2>6
        <4>2. QED
          BY <1>5, <4>1 DEF BytesKept
      <3>8. Content(b, i) = Content(new, i)
        BY DEF Content
      <3>9. QED
        BY <2>1, <2>4, <3>1, <3>4, <3>6, <3>7, <3>8
    <2>7. QED
      BY <2>5, <2>6
  <1>20. ASSUME NEW a \in u - WORD .. u - 1
         PROVE  last[a] = v + WORD
    <2>1. a \in Int /\ u - WORD <= a /\ a < u + v /\ a \notin u .. u + v - 1
      BY <1>4
    <2>2. a \in Byte
      BY <1>17, <2>1
    <2>3. last[a] = filled[a]
      BY <1>5, <1>6, <1>13, <1>17, <2>1, <2>2
    <2>4. filled[a] = new.size + WORD
      BY <1>12, <2>1, <2>2
    <2>5. QED
      BY <1>5, <2>3, <2>4
  <1>21. BytesKept({new}, last)
    BY <1>5, <1>19, <1>20 DEF BytesKept
  <1>22. QED
    BY <1>16, <1>21 DEF BytesKept, cs, old, last

\* The inductive invariant: the lmm is sound, every block has whole units of its
\* own outside the free memory, and mb_util_lmm has freed nothing from min on.
SoundInv ==
    /\ mbi \in BootInfos
    /\ min \in Int
    /\ phase = "util_lmm" => 0 <= min /\ \A a \in Bytes(malloc_lmm) : a < min
    /\ IsLmm(malloc_lmm)
    /\ phase \notin {"run", "asserted"} => blocks = {}
    /\ BlocksApart(blocks, malloc_lmm)
    /\ BytesKept(blocks, memory)

\* It ends with a request that was granted although its size had wrapped.
MemoryInv == phase # "overrun" => SoundInv

\* With no block in use there is nothing to keep.
LEMMA NoBlocks ==
    ASSUME NEW lmm, NEW mem
    PROVE  BlocksApart({}, lmm) /\ BytesKept({}, mem)
  BY DEF BlocksApart, BytesKept

\* The regions start without free memory.
LEMMA MemoryInvInit == Init => SoundInv
  <1> SUFFICES ASSUME Init
               PROVE  SoundInv
    OBVIOUS
  <1>1. /\ phase = "util_lmm" /\ mbi \in BootInfos /\ min = MIN /\ malloc_lmm = Regions
        /\ blocks = {}
    BY DEF Init
  <1>2. MIN \in Nat /\ INF \in Int
    BY SizesAssumption
  <1>3. IsLmm(Regions) /\ Bytes(Regions) = {}
    BY <1>2, RegionsAreFresh, NothingIsFree DEF RegionsBelow
  <1>4. QED
    BY <1>1, <1>2, <1>3, NoBlocks DEF SoundInv

\* mb_util_lmm frees memory from min on only, where nothing is free yet.
LEMMA UtilKeepsInv ==
    ASSUME SoundInv, mb_util_lmm
    PROVE  SoundInv'
  <1> DEFINE block == FoldLeft(skip, [min |-> min, max |-> INF, retry |-> FALSE], Holes)
             added == lmm_add_free(malloc_lmm, block.min, block.max - block.min)
  <1>1. /\ phase = "util_lmm"
        /\ min < INF
        /\ min' = IF block.retry THEN block.min ELSE block.max
        /\ IF block.retry THEN UNCHANGED <<phase, malloc_lmm>>
           ELSE IF AddFreeAssertion(block.min, block.max - block.min)
           THEN malloc_lmm' = added /\ UNCHANGED phase
           ELSE phase' = "panic" /\ UNCHANGED malloc_lmm
        /\ UNCHANGED <<mbi, memory, blocks, call, at>>
    BY DEF mb_util_lmm
  <1>2. /\ mbi \in BootInfos /\ min \in Nat /\ IsLmm(malloc_lmm) /\ blocks = {}
        /\ \A a \in Bytes(malloc_lmm) : a < min
    BY <1>1 DEF SoundInv
  <1>3. IsSkipped(block, min, Holes, Len(Holes))
    BY <1>1, <1>2, HolesAreHoles, BlockIsSkipped
  <1>4. INF \in Int
    BY SizesAssumption
  <1>5. \A a \in Bytes(malloc_lmm) : a \in Int
    BY <1>2, RegionBytes
  <1> HIDE DEF block
  <1>6. block.min \in Int /\ block.max \in Int
    BY <1>3 DEF IsSkipped, BlockType
  <1>7. CASE block.retry
    <2>1. PICK x \in 1 .. Len(Holes) : min < Holes[x].max /\ block.min = Holes[x].max
      BY <1>3, <1>7 DEF IsSkipped
    <2>2. min < block.min
      BY <2>1
    <2>3. min' = block.min /\ phase' = phase /\ malloc_lmm' = malloc_lmm
      BY <1>1, <1>7
    <2>4. min' \in Int /\ 0 <= min' /\ \A a \in Bytes(malloc_lmm) : a < min'
      BY <1>2, <1>5, <1>6, <2>2, <2>3
    <2>5. QED
      BY <1>1, <1>2, <2>3, <2>4, NoBlocks DEF SoundInv
  <1>8. CASE ~block.retry
    <2>1. block.min = min /\ min < block.max
      BY <1>3, <1>8 DEF IsSkipped
    <2>2. min' = block.max /\ min' \in Int /\ 0 <= min'
      BY <1>1, <1>2, <1>6, <1>8, <2>1
    <2>3. CASE AddFreeAssertion(block.min, block.max - block.min)
      <3>1. malloc_lmm' = added /\ phase' = phase
        BY <1>1, <1>8, <2>3
      <3>2. PICK from \in Int, size \in Int :
               from = block.min /\ size = block.max - block.min
        BY <1>6
      <3>3. from + size = block.max
        BY <1>6, <3>2
      <3>4. \A a \in Bytes(malloc_lmm) : ~(AlignUp(from) <= a /\ a < AlignDown(from + size))
        <4>1. AlignUp(from) \in Int /\ from <= AlignUp(from)
          BY Alignment
        <4>2. QED
          BY <1>2, <1>5, <2>1, <3>2, <4>1
      <3>5. /\ IsLmm(lmm_add_free(malloc_lmm, from, size))
            /\ \A a \in Int : a \in Bytes(lmm_add_free(malloc_lmm, from, size)) <=>
                 \/ a \in Bytes(malloc_lmm)
                 \/ /\ AlignUp(from) <= a /\ a < AlignDown(from + size)
                    /\ InSomeRegion(malloc_lmm, a)
        BY <1>2, <2>3, <3>2, <3>4, lmm_add_free_grows
      <3>6. IsLmm(added)
        BY <3>2, <3>5
      <3>7. \A a \in Bytes(added) : a < block.max
        <4>1. AlignDown(block.max) \in Int /\ AlignDown(block.max) <= block.max
          BY <1>6, Alignment
        <4>2. \A a \in Bytes(added) : a \in Int
          BY <3>6, RegionBytes
        <4>3. \A a \in Bytes(malloc_lmm) : a < block.max
          BY <1>2, <1>5, <1>6, <2>1
        <4>4. TAKE a \in Bytes(added)
        <4>5. a \in Int
          BY <4>2
        <4>6. a \in Bytes(malloc_lmm) \/ a < AlignDown(block.max)
          BY <3>2, <3>3, <3>5, <4>5
        <4>7. QED
          BY <1>6, <4>1, <4>3, <4>5, <4>6
      <3> HIDE DEF added
      <3>8. QED
        BY <1>1, <1>2, <2>2, <3>1, <3>6, <3>7, NoBlocks DEF SoundInv
    <2>4. CASE ~AddFreeAssertion(block.min, block.max - block.min)
      <3>1. phase' = "panic" /\ malloc_lmm' = malloc_lmm
        BY <1>1, <1>8, <2>4
      <3>2. QED
        BY <1>1, <1>2, <2>2, <3>1, NoBlocks DEF SoundInv
    <2>5. QED
      BY <2>3, <2>4
  <1>9. QED
    BY <1>7, <1>8

\* lmm_remove_free's loop keeps the invariant.
LEMMA RemoveKeepsInv ==
    ASSUME SoundInv, NEW here \in {"remove_low", "remove_user"}, NEW end \in Int,
           NEW next \in {"remove_user", "run"}, remove_free(here, end, next)
    PROVE  SoundInv'
  <1> DEFINE round == RemoveRound(malloc_lmm, min, end)
  <1>1. /\ phase = here
        /\ malloc_lmm' = round.lmm
        /\ IF round.done THEN phase' = next /\ min' = MID
           ELSE min' = round.next /\ UNCHANGED phase
        /\ UNCHANGED <<mbi, memory, blocks, call, at>>
    BY DEF remove_free
  <1>2. mbi \in BootInfos /\ min \in Int /\ IsLmm(malloc_lmm) /\ blocks = {}
    BY <1>1 DEF SoundInv
  <1>3. IsLmm(round.lmm) /\ round.next \in Int
    BY <1>2, RemoveRoundTakes
  <1> HIDE DEF round
  <1>4. MID \in Int
    BY SizesAssumption
  <1>5. phase' # "util_lmm" /\ min' \in Int
    BY <1>1, <1>3, <1>4
  <1>6. QED
    BY <1>1, <1>2, <1>3, <1>5, NoBlocks DEF SoundInv

\* So does every step of the boot.
LEMMA BootKeepsInv ==
    ASSUME SoundInv, mb_entry
    PROVE  SoundInv'
  <1>1. CASE mb_util_lmm
    BY <1>1, UtilKeepsInv
  <1>2. CASE util_lmm_done
    <2>1. /\ phase' = "remove_low" /\ min' = 0
          /\ UNCHANGED <<mbi, malloc_lmm, memory, blocks>>
          /\ phase = "util_lmm"
      BY <1>2 DEF util_lmm_done
    <2>2. QED
      BY <2>1 DEF SoundInv
  <1>3. LOW \in Int /\ AlignDown(INF) \in Int
    BY SizesAssumption, Alignment
  <1>4. CASE remove_free("remove_low", LOW, "remove_user")
    BY <1>3, <1>4, RemoveKeepsInv
  <1>5. CASE remove_free("remove_user", AlignDown(INF), "run")
    BY <1>3, <1>5, RemoveKeepsInv
  <1>6. QED
    BY <1>1, <1>2, <1>4, <1>5 DEF mb_entry

\* What a request in range asks the lmm for.
LEMMA RequestInRange ==
    ASSUME NEW size \in Nat, NEW kind, InRange(size, kind)
    PROVE  /\ Request(size, kind) = size + HeaderOf(kind)
           /\ AlignUp(size + HeaderOf(kind)) < SIZE_RANGE
  <1>1. size + HeaderOf(kind) \in Nat
    BY WordAssumption DEF HeaderOf
  <1>2. QED
    BY <1>1, SizeInRange DEF InRange, Request

\* A block is lent, with what it has in range.
IsLent(res, b) ==
    /\ InRange(b.size, b.kind)
    /\ res.at # NULL
    /\ phase' = "run"
    /\ at' = res.at
    /\ malloc_lmm' = res.lmm
    /\ memory' = Filled(memory, res.wrote, b)
    /\ blocks' = blocks \cup {b}

\* Nothing is lent and nothing changes, but that the size's assertion may have failed.
NoneIsLent ==
    /\ phase' \in {"run", "asserted"}
    /\ at' = NULL
    /\ UNCHANGED <<malloc_lmm, memory, blocks>>

\* A request is not granted, or what is granted has wrapped, or a block is lent.
LEMMA LendsOutcome ==
    ASSUME NEW res, NEW size, NEW kind, NEW zero, NEW align,
           Lends({res}, size, kind, zero, align)
    PROVE  /\ phase = "run" /\ mbi' = mbi /\ min' = min
           /\ call' = Called(size, kind, align)
           /\ \/ NoneIsLent /\ phase' = "asserted" /\ Request(size, kind) = 0
              \/ NoneIsLent /\ phase' = "run" /\ res.at = NULL
              \/ ~InRange(size, kind) /\ phase' = "overrun"
              \/ IsLent(res, [at |-> res.at + HeaderOf(kind), size |-> size, kind |-> kind,
                              zero |-> zero])
  <1> DEFINE b == [at |-> res.at + HeaderOf(kind), size |-> size, kind |-> kind, zero |-> zero]
  <1>1. /\ phase = "run" /\ mbi' = mbi /\ min' = min
        /\ call' = Called(size, kind, align)
        /\ IF Request(size, kind) = 0 THEN SizeAsserted
           ELSE IF res.at = NULL THEN Refused
           ELSE /\ at' = res.at
                /\ malloc_lmm' = res.lmm
                /\ memory' = Filled(memory, res.wrote, b)
                /\ blocks' = blocks \cup {b}
                /\ phase' = IF InRange(size, kind) THEN phase ELSE "overrun"
    BY DEF Lends
  <1>2. CASE SizeAsserted /\ Request(size, kind) = 0
    BY <1>1, <1>2 DEF SizeAsserted, NoneIsLent
  <1>3. CASE Refused /\ res.at = NULL
    BY <1>1, <1>3 DEF Refused, NoneIsLent
  <1>4. CASE /\ res.at # NULL
             /\ at' = res.at
             /\ malloc_lmm' = res.lmm
             /\ memory' = Filled(memory, res.wrote, b)
             /\ blocks' = blocks \cup {b}
             /\ phase' = IF InRange(size, kind) THEN phase ELSE "overrun"
    <2>1. b.size = size /\ b.kind = kind
      OBVIOUS
    <2> HIDE DEF b
    <2>2. InRange(size, kind) => IsLent(res, b)
      BY <1>1, <1>4, <2>1 DEF IsLent
    <2>3. QED
      BY <1>1, <1>4, <2>2 DEF b
  <1>5. QED
    BY <1>1, <1>2, <1>3, <1>4

\* A call that lends what the lmm takes keeps the invariant.
LEMMA LendsKeepsInv ==
    ASSUME SoundInv, NEW res, NEW size \in Nat \ {0}, NEW kind \in {"word", "sized", "page"},
           NEW zero \in BOOLEAN, NEW align, kind = "page" => size = PAGE_SIZE,
           InRange(size, kind) =>
              res = Failed(malloc_lmm) \/ Took(res, malloc_lmm, size + HeaderOf(kind)),
           Lends({res}, size, kind, zero, align)
    PROVE  MemoryInv'
  <1> DEFINE b == [at |-> res.at + HeaderOf(kind), size |-> size, kind |-> kind, zero |-> zero]
  <1>1. /\ phase = "run" /\ mbi' = mbi /\ min' = min
        /\ NoneIsLent \/ phase' = "overrun" \/ IsLent(res, b)
    BY LendsOutcome
  <1>2. /\ mbi \in BootInfos /\ min \in Int /\ IsLmm(malloc_lmm)
        /\ BlocksApart(blocks, malloc_lmm) /\ BytesKept(blocks, memory)
    BY DEF SoundInv
  <1>3. CASE NoneIsLent
    BY <1>1, <1>2, <1>3 DEF NoneIsLent, SoundInv, MemoryInv
  <1>4. CASE phase' = "overrun"
    BY <1>4 DEF MemoryInv
  <1>5. CASE IsLent(res, b)
    <2>1. b.kind = kind /\ b.size = size /\ b.zero = zero /\ b.at = res.at + HeaderOf(kind)
      OBVIOUS
    <2>2. InRange(size, kind) /\ res.at # NULL
      BY <1>5, <2>1 DEF IsLent
    <2>3. Took(res, malloc_lmm, size + HeaderOf(kind))
      BY <2>2 DEF Failed
    <2>4. PICK h \in Nat : h = HeaderOf(kind)
      BY WordAssumption DEF HeaderOf
    <2>5. res.at \in Int
      BY <2>3 DEF Took
    <2>6. b \in LentType
      <3>1. res.at + HeaderOf(kind) \in Int
        BY <2>4, <2>5
      <3>2. QED
        BY <3>1 DEF LentType
    <2> HIDE DEF b
    <2>7. res.at = Start(b) /\ Whole(b) = size + HeaderOf(kind)
      <3>1. b.at = res.at + h /\ HeaderOf(b.kind) = h
        BY <2>1, <2>4
      <3>2. (res.at + h) - h = res.at
        BY <2>5
      <3>3. QED
        BY <2>1, <2>4, <3>1, <3>2 DEF Start, Whole
    <2>8. Took(res, malloc_lmm, Whole(b)) /\ (b.kind = "page" => b.size = PAGE_SIZE)
      BY <2>1, <2>3, <2>7
    <2>9. IsLmm(res.lmm)
      BY <2>3 DEF Took, Shrunk
    <2>10. BlocksApart(blocks \cup {b}, res.lmm)
      BY <1>2, <2>6, <2>7, <2>8, LentApart
    <2>11. BytesKept(blocks \cup {b}, Filled(memory, res.wrote, b))
      BY <1>2, <2>1, <2>2, <2>6, <2>7, <2>8, LentKept
    <2>12. QED
      BY <1>1, <1>2, <1>5, <2>9, <2>10, <2>11 DEF IsLent, SoundInv, MemoryInv
  <1>6. QED
    BY <1>1, <1>3, <1>4, <1>5

\* A call that frees the block a client has keeps it.
LEMMA TakesBackKeepsInv ==
    ASSUME SoundInv, NEW b \in blocks,
           TakesBack(b, {lmm_free(malloc_lmm, Start(b), Whole(b))})
    PROVE  SoundInv'
  <1> DEFINE res == lmm_free(malloc_lmm, Start(b), Whole(b))
  <1>1. /\ phase = "run"
        /\ malloc_lmm' = res.lmm
        /\ blocks' = blocks \ {b}
        /\ memory' = Forgotten(memory, res, blocks')
        /\ UNCHANGED bootVars
    BY DEF TakesBack
  <1>2. phase' = phase /\ mbi' = mbi /\ min' = min
    BY <1>1 DEF bootVars
  <1>3. /\ mbi \in BootInfos /\ min \in Int /\ IsLmm(malloc_lmm)
        /\ BlocksApart(blocks, malloc_lmm) /\ BytesKept(blocks, memory)
    BY DEF SoundInv
  <1>4. IsLmm(res.lmm) /\ BlocksApart(blocks \ {b}, res.lmm)
    BY <1>3, FreedApart
  <1>5. BytesKept(blocks \ {b}, Forgotten(memory, res, blocks \ {b}))
    BY <1>3, FreedKept
  <1> HIDE DEF res
  <1>6. QED
    BY <1>1, <1>2, <1>3, <1>4, <1>5 DEF SoundInv

\* _realloc keeps it: its new block is taken before the old one is freed.
LEMMA ReallocKeepsInv ==
    ASSUME SoundInv, NEW b \in blocks, NEW size \in Size, _realloc(b, size)
    PROVE  MemoryInv'
  <1> DEFINE got == lmm_alloc(malloc_lmm, Request(size, "word"), {})
             old_size == memory[Chunk(b)]
             back == lmm_free(got.lmm, Chunk(b), old_size)
             new == [b EXCEPT !.at = got.at + WORD, !.size = size]
             cs == (blocks \ {b}) \cup {new}
  <1>1. /\ phase = "run" /\ mbi' = mbi /\ min' = min
        /\ b.kind = "word"
        /\ \/ NoneIsLent
           \/ phase' = "overrun"
           \/ /\ InRange(size, "word") /\ got.at # NULL
              /\ phase' = "run"
              /\ malloc_lmm' = back.lmm
              /\ blocks' = cs
              /\ memory' = Moved(memory, got, back, old_size, b, new, blocks')
    BY DEF _realloc, SizeAsserted, Refused, NoneIsLent
  <1>3. /\ mbi \in BootInfos /\ min \in Int /\ IsLmm(malloc_lmm)
        /\ BlocksApart(blocks, malloc_lmm) /\ BytesKept(blocks, memory)
    BY DEF SoundInv
  <1>4. size \in Nat \ {0} /\ WORD \in Nat \ {0} /\ size + WORD \in Nat \ {0}
    BY SizesAssumption, WordAssumption
  <1>2. CASE NoneIsLent
    BY <1>1, <1>2, <1>3 DEF NoneIsLent, SoundInv, MemoryInv
  <1>5. CASE phase' = "overrun"
    BY <1>5 DEF MemoryInv
  <1>6. CASE /\ InRange(size, "word") /\ got.at # NULL
             /\ phase' = "run"
             /\ malloc_lmm' = back.lmm
             /\ blocks' = cs
             /\ memory' = Moved(memory, got, back, old_size, b, new, blocks')
    <2>0. Request(size, "word") = size + WORD /\ AlignUp(size + WORD) < SIZE_RANGE
      BY <1>4, <1>6, RequestInRange DEF HeaderOf
    <2>1. got = Failed(malloc_lmm) \/ Took(got, malloc_lmm, size + WORD)
      BY <1>3, <1>4, <2>0, lmm_alloc_takes
    <2>2. Took(got, malloc_lmm, size + WORD) /\ got.at \in Int
      BY <1>6, <2>1 DEF Failed, Took
    <2>3. b \in LentType /\ BytesKept({b}, memory)
      BY <1>3 DEF BlocksApart, BytesKept
    <2>4. Chunk(b) = Start(b) /\ old_size = Whole(b)
      BY <1>1, <2>3, SizeInFront
    <2>5. back = lmm_free(got.lmm, Start(b), Whole(b))
      <3> HIDE DEF got, old_size
      <3>1. QED
        BY <2>4
    <2> HIDE DEF got, back
    <2>6. new \in LentType /\ new.kind = "word" /\ new.zero = b.zero
          /\ new.at = got.at + WORD /\ new.size = size
      <3>1. got.at + WORD \in Int
        BY <1>4, <2>2
      <3>2. QED
        BY <1>1, <1>4, <2>3, <3>1 DEF LentType
    <2>7. got.at = Start(new) /\ Whole(new) = size + WORD
      <3>1. HeaderOf(new.kind) = WORD
        BY <2>6 DEF HeaderOf
      <3>2. (got.at + WORD) - WORD = got.at
        BY <1>4, <2>2
      <3>3. QED
        BY <2>6, <3>1, <3>2 DEF Start, Whole
    <2> HIDE DEF new
    <2>8. Took(got, malloc_lmm, Whole(new))
      BY <2>2, <2>7
    <2>9. IsMoved(malloc_lmm, blocks, b, new, got, back)
      BY <1>3, <2>5, <2>6, <2>7, <2>8, MovedApart
    <2>10. BytesKept(cs, Moved(memory, got, back, old_size, b, new, cs))
      <3> HIDE DEF IsMoved
      <3>1. QED
        BY <1>1, <1>3, <2>5, <2>6, <2>7, <2>8, MovedKept
    <2>11. IsLmm(back.lmm) /\ BlocksApart(cs, back.lmm)
      BY <2>9 DEF IsMoved
    <2> HIDE DEF cs, old_size
    <2>12. QED
      BY <1>1, <1>3, <1>6, <2>10, <2>11 DEF SoundInv, MemoryInv
  <1>7. QED
    BY <1>1, <1>2, <1>5, <1>6

\* How many elements calloc is asked for, and how many bytes that is.
LEMMA CountIsPositive == \A nelt \in Count : nelt \in Nat \ {0}
  BY SizesAssumption, RangeAssumption

LEMMA ProductIsPositive ==
    ASSUME NEW m \in Nat \ {0}, NEW n \in Nat \ {0}
    PROVE  m * n \in Nat \ {0}
  OBVIOUS

\* The calls of malloc keep it: each asks the lmm for as much as it lends.
LEMMA CallsKeepInv ==
    ASSUME SoundInv, NEW size \in Size,
           \/ _malloc(size) \/ _smalloc(size)
           \/ \E nelt \in Count : _calloc(nelt, size)
           \/ \E shift \in Shift : _memalign(shift, size) \/ _smemalign(shift, size)
    PROVE  MemoryInv'
  <1>1. IsLmm(malloc_lmm)
    BY DEF SoundInv
  <1>2. size \in Nat \ {0} /\ WORD \in Nat \ {0} /\ size + WORD \in Nat \ {0}
    BY SizesAssumption, WordAssumption
  <1>3. HeaderOf("word") = WORD /\ HeaderOf("sized") = 0 /\ size + 0 = size
    BY <1>2 DEF HeaderOf
  <1>4. TRUE \in BOOLEAN /\ FALSE \in BOOLEAN /\ "word" \in {"word", "sized", "page"}
        /\ "sized" \in {"word", "sized", "page"} /\ "word" # "page" /\ "sized" # "page"
    OBVIOUS
  <1>5. ASSUME NEW total \in Nat \ {0}, NEW res,
               res = lmm_alloc(malloc_lmm, Request(total, "word"), {}), NEW zero \in BOOLEAN,
               Lends({res}, total, "word", zero, 1)
        PROVE  MemoryInv'
    <2>1. ASSUME InRange(total, "word")
          PROVE  res = Failed(malloc_lmm) \/ Took(res, malloc_lmm, total + HeaderOf("word"))
      <3>1. Request(total, "word") = total + WORD /\ AlignUp(total + WORD) < SIZE_RANGE
        BY <1>3, <2>1, RequestInRange
      <3>2. total + WORD \in Nat \ {0}
        BY <1>2
      <3>3. QED
        BY <1>1, <1>3, <1>5, <3>1, <3>2, lmm_alloc_takes
    <2>2. QED
      BY <1>4, <1>5, <2>1, LendsKeepsInv
  <1>6. CASE _malloc(size)
    BY <1>2, <1>4, <1>5, <1>6 DEF _malloc
  <1>7. ASSUME NEW nelt \in Count, _calloc(nelt, size)
        PROVE  MemoryInv'
    <2>1. nelt * size \in Nat \ {0}
      BY <1>2, CountIsPositive, ProductIsPositive
    <2>2. QED
      BY <1>4, <1>5, <1>7, <2>1 DEF _calloc
  <1>8. CASE _smalloc(size)
    <2>1. PICK res : res = lmm_alloc(malloc_lmm, size, {})
      OBVIOUS
    <2>2. ASSUME InRange(size, "sized")
          PROVE  res = Failed(malloc_lmm) \/ Took(res, malloc_lmm, size + HeaderOf("sized"))
      BY <1>1, <1>2, <1>3, <2>1, <2>2, RequestInRange, lmm_alloc_takes
    <2>3. Lends({res}, size, "sized", FALSE, 1)
      BY <1>8, <2>1 DEF _smalloc
    <2>4. QED
      BY <1>2, <1>4, <2>2, <2>3, LendsKeepsInv
  <1>9. ASSUME NEW shift \in Shift, _memalign(shift, size)
        PROVE  MemoryInv'
    <2>1. PICK res : res = lmm_alloc_aligned(malloc_lmm, Request(size, "word"), {}, shift,
                                         2 ^ shift - WORD)
      OBVIOUS
    <2>2. 2 ^ shift \in Nat \ {0} /\ 2 ^ shift - WORD \in Int /\ 0 \in Int
      BY <1>2, SizesAssumption
    <2>3. ASSUME InRange(size, "word")
          PROVE  res = Failed(malloc_lmm) \/ Took(res, malloc_lmm, size + WORD)
      <3>1. Request(size, "word") = size + WORD
        BY <1>2, <1>3, <2>3, RequestInRange
      <3>2. QED
        BY <1>1, <1>2, <2>1, <2>2, <3>1, lmm_alloc_gen_takes DEF lmm_alloc_aligned
    <2>4. Lends({res}, size, "word", FALSE, 2 ^ shift)
      BY <1>9, <2>1 DEF _memalign
    <2>5. QED
      BY <1>2, <1>3, <1>4, <2>3, <2>4, LendsKeepsInv
  <1>10. ASSUME NEW shift \in Shift, _smemalign(shift, size)
         PROVE  MemoryInv'
    <2>1. PICK res : res = lmm_alloc_aligned(malloc_lmm, size, {}, shift, 0)
      OBVIOUS
    <2>2. 2 ^ shift \in Nat \ {0} /\ 0 \in Int
      BY SizesAssumption
    <2>3. res = Failed(malloc_lmm) \/ Took(res, malloc_lmm, size)
      BY <1>1, <1>2, <2>1, <2>2, lmm_alloc_gen_takes DEF lmm_alloc_aligned
    <2>4. Lends({res}, size, "sized", FALSE, 2 ^ shift)
      BY <1>10, <2>1 DEF _smemalign
    <2>5. QED
      BY <1>2, <1>3, <1>4, <2>3, <2>4, LendsKeepsInv
  <1>11. QED
    BY <1>6, <1>7, <1>8, <1>9, <1>10

\* alloc_page keeps it.
LEMMA PageKeepsInv ==
    ASSUME SoundInv, alloc_page
    PROVE  MemoryInv'
  <1>1. IsLmm(malloc_lmm)
    BY DEF SoundInv
  <1>2. PAGE_SIZE \in Nat \ {0} /\ 2 ^ PAGE_SHIFT \in Nat \ {0} /\ 0 \in Int
    BY PageAssumption DEF PAGE_SIZE
  <1>3. PAGE_SIZE + HeaderOf("page") = PAGE_SIZE
    BY <1>2 DEF HeaderOf
  <1>4. PICK res : res = lmm_alloc_page(malloc_lmm, {})
    OBVIOUS
  <1>5. res = Failed(malloc_lmm) \/ Took(res, malloc_lmm, PAGE_SIZE)
    BY <1>1, <1>2, <1>4, lmm_alloc_gen_takes DEF lmm_alloc_page
  <1>6. Lends({res}, PAGE_SIZE, "page", FALSE, PAGE_SIZE)
    BY <1>4 DEF alloc_page
  <1>7. QED
    BY <1>2, <1>3, <1>5, <1>6, LendsKeepsInv

\* _free, _sfree and free_page give back just what was got for the block.
LEMMA FreesTakeBack ==
    ASSUME SoundInv, NEW b \in blocks, _free(b) \/ _sfree(b) \/ free_page(b)
    PROVE  TakesBack(b, {lmm_free(malloc_lmm, Start(b), Whole(b))})
  <1>1. b \in LentType /\ (b.kind = "page" => b.size = PAGE_SIZE) /\ BytesKept({b}, memory)
    BY DEF SoundInv, BlocksApart, BytesKept
  <1>2. b.kind # "word" => Start(b) = b.at /\ Whole(b) = b.size
    <2>1. b.at \in Int /\ b.size \in Nat /\ (b.kind # "word" => HeaderOf(b.kind) = 0)
      BY <1>1, BlockFacts
    <2>2. PICK x \in Int, y \in Nat : x = b.at /\ y = b.size
      BY <2>1
    <2>3. x - 0 = x /\ y + 0 = y
      OBVIOUS
    <2>4. QED
      BY <2>1, <2>2, <2>3 DEF Start, Whole
  <1>3. CASE _free(b)
    <2>1. b.kind = "word"
      BY <1>3 DEF _free
    <2>2. Chunk(b) = Start(b) /\ memory[Chunk(b)] = Whole(b)
      BY <1>1, <2>1, SizeInFront
    <2>3. QED
      BY <1>3, <2>2 DEF _free
  <1>4. CASE _sfree(b)
    BY <1>2, <1>4 DEF _sfree
  <1>5. CASE free_page(b)
    BY <1>1, <1>2, <1>5 DEF free_page, lmm_free_page
  <1>6. QED
    BY <1>3, <1>4, <1>5

\* _free, _sfree and free_page keep it: the size they free is the one that was lent,
\* _free's because the word in front of the block still says so.
LEMMA FreesKeepInv ==
    ASSUME SoundInv, NEW b \in blocks, _free(b) \/ _sfree(b) \/ free_page(b)
    PROVE  SoundInv'
  BY FreesTakeBack, TakesBackKeepsInv

\* No step follows an overrun.
LEMMA NextIsBeforeOverrun == Next => phase # "overrun"
  BY DEF Next, mb_entry, mb_util_lmm, util_lmm_done, remove_free, _malloc, _calloc, _smalloc,
         _memalign, _smemalign, alloc_page, Lends, _free, _sfree, free_page, TakesBack, _realloc

\* Whatever the boot loader says and whatever is called, the lmm's lists are sound, the
\* blocks in use have whole units of their own outside of them, and their bytes are kept:
\* until a request is granted whose size, with header and rounding, has wrapped
\* (malloc.c:30, lmm_alloc.c:33).
THEOREM MemoryIsSound == Spec => []MemoryInv
  <1>1. Init => MemoryInv
    BY MemoryInvInit DEF MemoryInv
  <1>2. MemoryInv /\ [Next]_vars => MemoryInv'
    <2> SUFFICES ASSUME MemoryInv, [Next]_vars
                 PROVE  MemoryInv'
      OBVIOUS
    <2>a. ASSUME Next
          PROVE  SoundInv
      BY <2>a, NextIsBeforeOverrun DEF MemoryInv
    <2>b. ASSUME SoundInv'
          PROVE  MemoryInv'
      BY <2>b DEF MemoryInv
    <2>1. CASE mb_entry
      BY <2>1, <2>a, <2>b, BootKeepsInv DEF Next
    <2>2. ASSUME NEW size \in Size,
                 \/ _malloc(size) \/ _smalloc(size)
                 \/ \E nelt \in Count : _calloc(nelt, size)
                 \/ \E shift \in Shift : _memalign(shift, size) \/ _smemalign(shift, size)
          PROVE  MemoryInv'
      BY <2>2, <2>a, CallsKeepInv DEF Next
    <2>3. CASE alloc_page
      BY <2>3, <2>a, PageKeepsInv DEF Next
    <2>4. ASSUME NEW b \in blocks, _free(b) \/ _sfree(b) \/ free_page(b)
          PROVE  MemoryInv'
      BY <2>4, <2>a, <2>b, FreesKeepInv DEF Next
    <2>5. ASSUME NEW b \in blocks, NEW size \in Size, _realloc(b, size)
          PROVE  MemoryInv'
      BY <2>5, <2>a, ReallocKeepsInv DEF Next
    <2>6. CASE UNCHANGED vars
      BY <2>6 DEF vars, bootVars, SoundInv, MemoryInv
    <2>7. QED
      BY <2>1, <2>2, <2>3, <2>4, <2>5, <2>6 DEF Next
  <1>3. QED
    BY <1>1, <1>2, PTL DEF Spec

\* A block keeps what its client put there and the size in front of it (malloc.c): the
\* lists' nodes and the other clients' bytes never get there, until a request is granted
\* whose size has wrapped and whose client overruns its block.
THEOREM ClientBytesAreKept == Spec => []ClientBytesKept
  <1>1. MemoryInv => ClientBytesKept
    BY DEF MemoryInv, SoundInv, BytesKept, ClientBytesKept
  <1>2. QED
    BY <1>1, MemoryIsSound, PTL

AllOf(S, n) == UNION {S[k] : k \in 1 .. n}

\* The sizes of disjoint sets add up to that of their union.
LEMMA SizesAddUp ==
    ASSUME NEW n \in Nat, NEW S, NEW w \in [1 .. n -> Int], NEW t \in [0 .. n -> Int],
           \A k \in 1 .. n : IsFiniteSet(S[k]) /\ Cardinality(S[k]) = w[k],
           \A i, k \in 1 .. n : i < k => S[i] \cap S[k] = {},
           t[0] = 0,
           \A k \in 1 .. n : t[k] = t[k - 1] + w[k]
    PROVE  t[n] = Cardinality(AllOf(S, n))
  <1> DEFINE U(k) == UNION {S[i] : i \in 1 .. k}
             P(k) == IsFiniteSet(U(k)) /\ t[k] = Cardinality(U(k))
             T == {k \in 0 .. n : P(k)}
  <1>1. P(0)
    <2>1. U(0) = {}
      <3>1. 1 .. 0 = {}
        OBVIOUS
      <3>2. QED
        BY <3>1
    <2>2. IsFiniteSet({}) /\ Cardinality({}) = 0
      BY FS_EmptySet
    <2> HIDE DEF U
    <2>3. QED
      BY <2>1, <2>2
  <1>2. ASSUME NEW k \in 1 .. n, P(k - 1)
        PROVE  P(k)
    <2>2. U(k) = U(k - 1) \cup S[k]
      <3>1. \A i : i \in 1 .. k <=> i \in 1 .. k - 1 \/ i = k
        OBVIOUS
      <3>2. QED
        BY <3>1
    <2>3. U(k - 1) \cap S[k] = {}
      <3>1. ASSUME NEW x \in U(k - 1)
            PROVE  x \notin S[k]
        <4>1. PICK i \in 1 .. k - 1 : x \in S[i]
          OBVIOUS
        <4>2. i \in 1 .. n /\ i < k
          OBVIOUS
        <4>3. S[i] \cap S[k] = {}
          BY <4>2
        <4>4. QED
          BY <4>1, <4>3
      <3> HIDE DEF U
      <3>2. QED
        BY <3>1
    <2>4. IsFiniteSet(U(k - 1)) /\ t[k - 1] = Cardinality(U(k - 1))
      BY <1>2
    <2> HIDE DEF U
    <2>5. IsFiniteSet(S[k]) /\ Cardinality(S[k]) = w[k]
      OBVIOUS
    <2>6. PICK A, B : A = U(k - 1) /\ B = S[k]
      OBVIOUS
    <2>7. IsFiniteSet(A) /\ IsFiniteSet(B) /\ A \cap B = {}
      BY <2>3, <2>4, <2>5, <2>6
    <2>8. /\ IsFiniteSet(A \cup B)
          /\ Cardinality(A \cup B) = Cardinality(A) + Cardinality(B) - Cardinality(A \cap B)
      BY <2>7, FS_Union
    <2>9. Cardinality({}) = 0
      BY FS_EmptySet
    <2>10. Cardinality(A) \in Nat /\ Cardinality(B) \in Nat
      BY <2>7, FS_CardinalityType
    <2>11. Cardinality(A \cup B) = Cardinality(A) + Cardinality(B)
      <3>1. PICK x \in Nat, y \in Nat, z \in Nat : x = Cardinality(A) /\ y = Cardinality(B)
                                                  /\ z = Cardinality(A \cap B)
        <4>1. Cardinality(A \cap B) = 0
          BY <2>7, <2>9
        <4>2. QED
          BY <2>10, <4>1
      <3>2. z = 0
        BY <2>7, <2>9, <3>1
      <3>3. Cardinality(A \cup B) = x + y - z
        BY <2>8, <3>1
      <3>4. x + y - z = x + y
        BY <3>2
      <3>5. QED
        BY <3>1, <3>3, <3>4
    <2>12. t[k] = t[k - 1] + w[k]
      OBVIOUS
    <2>13. QED
      BY <2>2, <2>4, <2>5, <2>6, <2>8, <2>11, <2>12
  <1> HIDE DEF P
  <1>3. 0 \in T
    BY <1>1
  <1>4. \A k \in 1 .. n : k - 1 \in T => k \in T
    BY <1>2
  <1>5. 0 .. n \subseteq T
    <2> HIDE DEF T
    <2>1. QED
      BY <1>3, <1>4, IndexInduction
  <1>6. P(n)
    <2>1. n \in 0 .. n
      OBVIOUS
    <2>2. QED
      BY <1>5, <2>1
  <1>7. QED
    BY <1>6 DEF P, AllOf

Adds(w, n) == [k \in 1 .. n |-> [v \in Int |-> v + w[k]]]

\* The trace of a fold that adds up w.
IsSum(it, w, n) ==
    \E t \in [0 .. n -> Int] :
        /\ t[0] = 0
        /\ \A k \in 1 .. n : t[k] = t[k - 1] + w[k]
        /\ it[1 .. n] = t[n]

\* The fold that adds up w has its partial sums.
LEMMA SumTrace ==
    ASSUME NEW n \in Nat, NEW w \in [1 .. n -> Int], NEW it,
           StepsWhereTyped(it, n, 0, Adds(w, n), Int)
    PROVE  IsSum(it, w, n)
  <1> DEFINE G == Adds(w, n)
  <1>1. G \in [1 .. n -> [Int -> Int]]
    BY DEF Adds
  <1>2. \A k \in 1 .. n : \A v \in Int : G[k][v] = v + w[k]
    BY DEF Adds
  <1>3. PICK V, base, g : V = Int /\ base = 0 /\ g = G
    OBVIOUS
  <1> HIDE DEF G
  <1>4. base \in V /\ g \in [1 .. n -> [V -> V]] /\ StepsWhereTyped(it, n, base, g, V)
    BY <1>1, <1>3 DEF G
  <1>5. \E t \in [0 .. n -> V] : IsTrace(t, n, base, g) /\ it[1 .. n] = t[n]
    BY <1>4, FoldTrace
  <1>6. PICK t \in [0 .. n -> Int] : IsTrace(t, n, 0, G) /\ it[1 .. n] = t[n]
    BY <1>3, <1>5
  <1>7. t[0] = 0 /\ \A k \in 1 .. n : t[k] = t[k - 1] + w[k]
    <2>1. \A k \in 1 .. n : k - 1 \in 0 .. n
      OBVIOUS
    <2>2. \A k \in 1 .. n : t[k - 1] \in Int
      BY <2>1
    <2>3. QED
      BY <1>2, <1>6, <2>2 DEF IsTrace
  <1>8. QED
    BY <1>6, <1>7 DEF IsSum

AreSizes(w, S, n) ==
    /\ \A k \in 1 .. n : IsFiniteSet(S[k]) /\ Cardinality(S[k]) = w[k]
    /\ \A i, k \in 1 .. n : i < k => S[i] \cap S[k] = {}

\* The fold that adds up the sizes of disjoint sets gives the size of their union.
LEMMA SumOfFold ==
    ASSUME NEW n \in Nat, NEW w \in [1 .. n -> Int], NEW it,
           StepsWhereTyped(it, n, 0, Adds(w, n), Int),
           NEW S, AreSizes(w, S, n)
    PROVE  it[1 .. n] = Cardinality(AllOf(S, n))
  <1>0. IsSum(it, w, n)
    BY SumTrace
  <1>1. PICK t \in [0 .. n -> Int] :
              /\ t[0] = 0
              /\ \A k \in 1 .. n : t[k] = t[k - 1] + w[k]
              /\ it[1 .. n] = t[n]
    BY <1>0 DEF IsSum
  <1>2. t[n] = Cardinality(AllOf(S, n))
    BY <1>1, SizesAddUp DEF AreSizes
  <1>3. QED
    BY <1>1, <1>2

\* lmm_dump's sum over the nodes of a free list is the number of its bytes.
LEMMA SumOfSizes ==
    ASSUME NEW lo \in Int, NEW hi \in Int, NEW nodes, IsFreeList(nodes, lo, hi)
    PROVE  FoldLeft(LAMBDA sum, m : sum + m.size, 0, nodes) = Cardinality(ListBytes(nodes))
  <1> DEFINE n == Len(nodes)
             w == [k \in 1 .. n |-> nodes[k].size]
             S == [k \in 1 .. n |-> nodes[k].at .. nodes[k].at + nodes[k].size - 1]
             G == Adds(w, n)
             Add(sum, m) == sum + m.size
  <1>1. /\ nodes \in Seq(FreeNode) /\ n \in Nat /\ DOMAIN nodes = 1 .. n
        /\ \A k \in 1 .. n : nodes[k].at \in Int /\ nodes[k].size \in Int /\ 0 < nodes[k].size
        /\ \A i, k \in 1 .. n : i < k => nodes[i].at + nodes[i].size < nodes[k].at
    BY NodeTypes, LenProperties DEF IsFreeList
  <1>2. FoldLeft(LAMBDA sum, m : sum + m.size, 0, nodes) = FoldLeft(Add, 0, nodes)
    OBVIOUS
  <1> HIDE DEF n
  <1>3. w \in [1 .. n -> Int] /\ G \in [1 .. n -> [Int -> Int]]
    BY <1>1 DEF Adds
  <1>4. PICK f \in [SUBSET (1 .. n) -> Int] : IsFold(f, n, 0, G)
    <2>1. 0 \in Int
      OBVIOUS
    <2> HIDE DEF G
    <2>2. QED
      BY <1>1, <1>3, <2>1, FoldExists
  <1>5. ASSUME NEW s \in SUBSET (1 .. n), s # {}
        PROVE  Max(s) \in 1 .. n /\ s \ {Max(s)} \in SUBSET (1 .. n)
    BY <1>1, <1>5, GreatestOf
  <1>6. \A k \in 1 .. n : \A v \in Int : G[k][v] = Add(v, nodes[k])
    BY DEF Adds
  <1> DEFINE Step(g) == [s \in SUBSET (1 .. n) |->
                            IF s = {} THEN 0 ELSE Add(g[s \ {Max(s)}], nodes[Max(s)])]
             iter == CHOOSE g : g = Step(g)
  <1>7. FoldLeft(Add, 0, nodes) = iter[1 .. n]
    <2> HIDE DEF Add
    <2>1. QED
      BY <1>1 DEF FoldLeft, MapThenFoldSet
  <1> HIDE DEF Add, G
  <1>8. f = Step(f)
    <2>1. \A s \in SUBSET (1 .. n) : s # {} =>
             G[Max(s)][f[s \ {Max(s)}]] = Add(f[s \ {Max(s)}], nodes[Max(s)])
      BY <1>5, <1>6
    <2>2. \A s \in SUBSET (1 .. n) :
             f[s] = IF s = {} THEN 0 ELSE Add(f[s \ {Max(s)}], nodes[Max(s)])
      BY <1>4, <2>1 DEF IsFold
    <2>3. QED
      BY <2>2
  <1>9. iter = Step(iter)
    <2> HIDE DEF Step
    <2>1. QED
      BY <1>8
  <1> HIDE DEF iter
  <1>10. StepsWhereTyped(iter, n, 0, G, Int)
    <2>1. \A s \in SUBSET (1 .. n) :
              iter[s] = IF s = {} THEN 0 ELSE Add(iter[s \ {Max(s)}], nodes[Max(s)])
      BY <1>9
    <2>2. \A s \in SUBSET (1 .. n) : s # {} /\ iter[s \ {Max(s)}] \in Int =>
             G[Max(s)][iter[s \ {Max(s)}]] = Add(iter[s \ {Max(s)}], nodes[Max(s)])
      BY <1>5, <1>6
    <2>3. QED
      BY <2>1, <2>2 DEF StepsWhereTyped
  <1>11. \A k \in 1 .. n : IsFiniteSet(S[k]) /\ Cardinality(S[k]) = w[k]
    <2> TAKE k \in 1 .. n
    <2>1. PICK a \in Int, b \in Int : a = nodes[k].at /\ b = nodes[k].size /\ 0 < b
      BY <1>1
    <2>2. IsFiniteSet(a .. a + b - 1)
          /\ Cardinality(a .. a + b - 1) = IF a > a + b - 1 THEN 0 ELSE (a + b - 1) - a + 1
      BY FS_Interval
    <2>3. Cardinality(a .. a + b - 1) = b
      BY <2>1, <2>2
    <2>4. S[k] = a .. a + b - 1 /\ w[k] = b
      BY <2>1
    <2>5. QED
      BY <2>2, <2>3, <2>4
  <1>12. \A i, k \in 1 .. n : i < k => S[i] \cap S[k] = {}
    <2> SUFFICES ASSUME NEW i \in 1 .. n, NEW k \in 1 .. n, i < k
                 PROVE  S[i] \cap S[k] = {}
      OBVIOUS
    <2>1. PICK a \in Int, b \in Int, c \in Int, d \in Int :
             a = nodes[i].at /\ b = nodes[i].size /\ c = nodes[k].at /\ d = nodes[k].size
      BY <1>1
    <2>2. a + b < c
      BY <1>1, <2>1
    <2>3. (a .. a + b - 1) \cap (c .. c + d - 1) = {}
      BY <2>2
    <2>4. QED
      BY <2>1, <2>3
  <1>13. AllOf(S, n) = ListBytes(nodes)
    <2>1. ToSet(nodes) = {nodes[k] : k \in 1 .. n}
      BY <1>1 DEF ToSet
    <2>2. QED
      BY <2>1 DEF ListBytes, AllOf
  <1> HIDE DEF S, w
  <1>14. iter[1 .. n] = Cardinality(AllOf(S, n))
    <2>1. n \in Nat /\ StepsWhereTyped(iter, n, 0, Adds(w, n), Int)
      BY <1>1, <1>10 DEF G
    <2>2. AreSizes(w, S, n)
      BY <1>11, <1>12 DEF AreSizes
    <2>3. PICK w0, S0, it0 : w0 = w /\ S0 = S /\ it0 = iter
      OBVIOUS
    <2>4. w0 \in [1 .. n -> Int] /\ AreSizes(w0, S0, n) /\ StepsWhereTyped(it0, n, 0, Adds(w0, n), Int)
      BY <1>3, <2>1, <2>2, <2>3
    <2>5. it0[1 .. n] = Cardinality(AllOf(S0, n))
      BY <2>1, <2>4, SumOfFold
    <2>6. QED
      BY <2>3, <2>5
  <1>15. QED
    BY <1>2, <1>7, <1>13, <1>14

\* The lists of the regions are disjoint and of the sizes the regions count.
LEMMA ListsAreApart ==
    ASSUME NEW lmm, IsLmm(lmm), NEW w, NEW S,
           w = [k \in 1 .. Len(lmm) |-> lmm[k].free],
           S = [k \in 1 .. Len(lmm) |-> ListBytes(lmm[k].nodes)]
    PROVE  /\ AreSizes(w, S, Len(lmm))
           /\ AllOf(S, Len(lmm)) = Bytes(lmm)
  <1>1. \A k \in 1 .. Len(lmm) : IsFiniteSet(S[k]) /\ Cardinality(S[k]) = w[k]
    <2> TAKE k \in 1 .. Len(lmm)
    <2>1. /\ IsFreeList(lmm[k].nodes, lmm[k].min, lmm[k].max)
          /\ lmm[k].min \in Int /\ lmm[k].max \in Int
          /\ lmm[k].free = Cardinality(ListBytes(lmm[k].nodes))
      BY RegionFacts
    <2>2. PICK lo \in Int, hi \in Int : lo = lmm[k].min /\ hi = lmm[k].max
      BY <2>1
    <2> DEFINE nodes == lmm[k].nodes
    <2>3. IsFiniteSet(ListBytes(nodes))
      <3>1. PICK list : list = nodes
        OBVIOUS
      <3>2. IsFreeList(list, lo, hi)
        BY <2>1, <2>2, <3>1
      <3>3. QED
        BY <3>1, <3>2, ListIsFinite
    <2>4. QED
      BY <2>1, <2>2, <2>3
  <1>2. \A i, k \in 1 .. Len(lmm) : i < k => S[i] \cap S[k] = {}
    <2> SUFFICES ASSUME NEW i \in 1 .. Len(lmm), NEW k \in 1 .. Len(lmm), i < k,
                        NEW a \in S[i], a \in S[k]
                 PROVE  FALSE
      OBVIOUS
    <2>1. a \in Int /\ lmm[i].min <= a /\ a < lmm[i].max /\ lmm[k].min <= a /\ a < lmm[k].max
      BY RegionBytes
    <2>2. lmm[i].max <= lmm[k].min \/ lmm[k].max <= lmm[i].min
      BY DEF IsLmm
    <2>3. PICK p \in Int, q \in Int, s \in Int, t \in Int :
             p = lmm[i].min /\ q = lmm[i].max /\ s = lmm[k].min /\ t = lmm[k].max
      BY RegionFacts
    <2>4. QED
      BY <2>1, <2>2, <2>3
  <1>3. AllOf(S, Len(lmm)) = Bytes(lmm)
    <2>1. \A a : a \in AllOf(S, Len(lmm)) <=> \E k \in 1 .. Len(lmm) : a \in S[k]
      BY DEF AllOf
    <2>2. \A a : a \in Bytes(lmm) <=> \E k \in 1 .. Len(lmm) : a \in ListBytes(lmm[k].nodes)
      BY RegionBytes
    <2>3. QED
      BY <2>1, <2>2
  <1>4. QED
    BY <1>1, <1>2, <1>3 DEF AreSizes

\* lmm_avail without flags counts the free bytes.
LEMMA AvailCounts ==
    ASSUME NEW lmm, IsLmm(lmm)
    PROVE  lmm_avail(lmm, {}) = Cardinality(Bytes(lmm))
  <1> DEFINE n == Len(lmm)
             w == [k \in 1 .. n |-> lmm[k].free]
             S == [k \in 1 .. n |-> ListBytes(lmm[k].nodes)]
             G == Adds(w, n)
             Add(count, r) == IF {} \subseteq r.flags THEN count + r.free ELSE count
  <1>1. /\ n \in Nat /\ DOMAIN lmm = 1 .. n
        /\ \A k \in 1 .. n : lmm[k].free \in Int
    BY RegionFacts
  <1>2. lmm_avail(lmm, {}) = FoldLeft(Add, 0, lmm)
    BY DEF lmm_avail
  <1>13. AreSizes(w, S, n) /\ AllOf(S, n) = Bytes(lmm)
    <2>1. PICK w0, S0 : w0 = w /\ S0 = S
      OBVIOUS
    <2>2. AreSizes(w0, S0, n) /\ AllOf(S0, n) = Bytes(lmm)
      BY <2>1, ListsAreApart
    <2>3. QED
      BY <2>1, <2>2
  <1> HIDE DEF n
  <1>3. w \in [1 .. n -> Int] /\ G \in [1 .. n -> [Int -> Int]]
    BY <1>1 DEF Adds
  <1>4. PICK f \in [SUBSET (1 .. n) -> Int] : IsFold(f, n, 0, G)
    <2>1. 0 \in Int
      OBVIOUS
    <2> HIDE DEF G
    <2>2. QED
      BY <1>1, <1>3, <2>1, FoldExists
  <1>5. ASSUME NEW s \in SUBSET (1 .. n), s # {}
        PROVE  Max(s) \in 1 .. n /\ s \ {Max(s)} \in SUBSET (1 .. n)
    BY <1>1, <1>5, GreatestOf
  <1>6. \A k \in 1 .. n : \A v \in Int : G[k][v] = Add(v, lmm[k])
    <2>1. \A k \in 1 .. n : \A v : Add(v, lmm[k]) = v + lmm[k].free
      OBVIOUS
    <2> HIDE DEF Add
    <2>2. QED
      BY <2>1 DEF Adds
  <1> DEFINE Step(g) == [s \in SUBSET (1 .. n) |->
                            IF s = {} THEN 0 ELSE Add(g[s \ {Max(s)}], lmm[Max(s)])]
             iter == CHOOSE g : g = Step(g)
  <1>7. FoldLeft(Add, 0, lmm) = iter[1 .. n]
    <2> HIDE DEF Add
    <2>1. QED
      BY <1>1 DEF FoldLeft, MapThenFoldSet
  <1> HIDE DEF Add, G
  <1>8. f = Step(f)
    <2>1. \A s \in SUBSET (1 .. n) : s # {} =>
             G[Max(s)][f[s \ {Max(s)}]] = Add(f[s \ {Max(s)}], lmm[Max(s)])
      BY <1>5, <1>6
    <2>2. \A s \in SUBSET (1 .. n) :
             f[s] = IF s = {} THEN 0 ELSE Add(f[s \ {Max(s)}], lmm[Max(s)])
      BY <1>4, <2>1 DEF IsFold
    <2>3. QED
      BY <2>2
  <1>9. iter = Step(iter)
    <2> HIDE DEF Step
    <2>1. QED
      BY <1>8
  <1> HIDE DEF iter
  <1>10. StepsWhereTyped(iter, n, 0, G, Int)
    <2>1. \A s \in SUBSET (1 .. n) :
              iter[s] = IF s = {} THEN 0 ELSE Add(iter[s \ {Max(s)}], lmm[Max(s)])
      BY <1>9
    <2>2. \A s \in SUBSET (1 .. n) : s # {} /\ iter[s \ {Max(s)}] \in Int =>
             G[Max(s)][iter[s \ {Max(s)}]] = Add(iter[s \ {Max(s)}], lmm[Max(s)])
      BY <1>5, <1>6
    <2>3. QED
      BY <2>1, <2>2 DEF StepsWhereTyped
  <1> HIDE DEF S, w
  <1>14. iter[1 .. n] = Cardinality(AllOf(S, n))
    <2>1. n \in Nat /\ StepsWhereTyped(iter, n, 0, Adds(w, n), Int)
      BY <1>1, <1>10 DEF G
    <2>3. PICK w0, S0, it0 : w0 = w /\ S0 = S /\ it0 = iter
      OBVIOUS
    <2>4. w0 \in [1 .. n -> Int] /\ AreSizes(w0, S0, n) /\ StepsWhereTyped(it0, n, 0, Adds(w0, n), Int)
      BY <1>3, <1>13, <2>1, <2>3
    <2>5. it0[1 .. n] = Cardinality(AllOf(S0, n))
      BY <2>1, <2>4, SumOfFold
    <2>6. QED
      BY <2>3, <2>5
  <1>15. QED
    BY <1>2, <1>7, <1>13, <1>14

\* Everything lmm_dump asserts of a list.
LEMMA DumpOfARegion ==
    ASSUME NEW r, IsRegion(r)
    PROVE  /\ \A j \in 1 .. Len(r.nodes) :
                LET n == r.nodes[j]
                IN  /\ n.at >= r.min /\ n.at < r.max
                    /\ n.at % ALIGN_SIZE = 0
                    /\ n.size % ALIGN_SIZE = 0 /\ n.size >= ALIGN_SIZE
                    /\ j < Len(r.nodes) => r.nodes[j + 1].at > n.at
           /\ r.free <= r.max - r.min
           /\ r.free = FoldLeft(LAMBDA sum, n : sum + n.size, 0, r.nodes)
  <1>0. r.min \in Int /\ r.max \in Int
    BY DEF IsRegion, RegionType
  <1>1. PICK lo \in Int, hi \in Int : lo = r.min /\ hi = r.max
    BY <1>0
  <1>8. PICK nodes : nodes = r.nodes
    OBVIOUS
  <1>2. IsFreeList(nodes, lo, hi) /\ lo < hi /\ r.free = Cardinality(ListBytes(nodes))
    BY <1>1, <1>8 DEF IsRegion
  <1>3. nodes \in Seq(FreeNode) /\ Len(nodes) \in Nat
    BY <1>2, NodeTypes DEF IsFreeList
  <1>4. ASSUME NEW j \in 1 .. Len(nodes)
        PROVE  /\ nodes[j].at >= lo /\ nodes[j].at < hi
               /\ nodes[j].at % ALIGN_SIZE = 0
               /\ nodes[j].size % ALIGN_SIZE = 0 /\ nodes[j].size >= ALIGN_SIZE
               /\ j < Len(nodes) => nodes[j + 1].at > nodes[j].at
    <2>1. PICK a \in Int, s \in Int : a = nodes[j].at /\ s = nodes[j].size
      BY <1>3, NodeTypes
    <2>2. Aligned(a) /\ Aligned(s) /\ 0 < s /\ lo <= a /\ a + s <= hi
      BY <1>2, <2>1 DEF IsFreeList
    <2>3. 0 + ALIGN_SIZE <= s
      <3>1. PICK z \in Int : z = 0
        OBVIOUS
      <3>2. Aligned(z)
        BY <3>1, Alignment
      <3>3. z + ALIGN_SIZE <= s
        BY <2>2, <3>1, <3>2, AlignedApart
      <3>4. QED
        BY <3>1, <3>3
    <2>4. ASSUME j < Len(nodes)
          PROVE  nodes[j + 1].at > a
      <3>1. j + 1 \in 1 .. Len(nodes) /\ j < j + 1
        BY <1>3, <2>4
      <3>2. PICK b \in Int : b = nodes[j + 1].at
        BY <1>3, <3>1, NodeTypes
      <3>3. a + s < b
        BY <1>2, <2>1, <3>1, <3>2 DEF IsFreeList
      <3>4. QED
        BY <2>2, <3>2, <3>3
    <2>5. a < hi /\ s >= ALIGN_SIZE
      BY <2>2, <2>3, AlignAssumption
    <2>6. QED
      BY <2>1, <2>2, <2>4, <2>5 DEF Aligned
  <1>5. Cardinality(ListBytes(nodes)) <= hi - lo
    <2>1. ListBytes(nodes) \subseteq lo .. hi - 1
      BY <1>2, ListIsFinite
    <2>2. hi - 1 \in Int
      OBVIOUS
    <2>3. IsFiniteSet(lo .. hi - 1) /\ Cardinality(lo .. hi - 1) = hi - lo
      BY <1>2, <2>2, FS_Interval
    <2>4. QED
      BY <2>1, <2>3, FS_Subset
  <1>6. FoldLeft(LAMBDA sum, n : sum + n.size, 0, nodes) = Cardinality(ListBytes(nodes))
    BY <1>2, SumOfSizes
  <1>7. QED
    BY <1>1, <1>2, <1>4, <1>5, <1>6, <1>8

\* The invariant is more than what FreeListsAreSound says.
LEMMA SoundLists ==
    ASSUME SoundInv
    PROVE  FreeListsAreSound
  <1>1. IsLmm(malloc_lmm)
    BY DEF SoundInv
  <1>2. \A r \in ToSet(malloc_lmm) : IsRegion(r)
    <2>1. ToSet(malloc_lmm) = {malloc_lmm[i] : i \in 1 .. Len(malloc_lmm)}
      BY <1>1, RegionFacts DEF ToSet
    <2>2. QED
      BY <1>1, <2>1 DEF IsLmm
  <1>3. lmm_dump(malloc_lmm)
    BY <1>2, DumpOfARegion DEF lmm_dump
  <1>4. ASSUME NEW r \in ToSet(malloc_lmm), NEW j \in 1 .. Len(r.nodes) - 1
        PROVE  r.nodes[j].at + r.nodes[j].size < r.nodes[j + 1].at
    <2>1. IsFreeList(r.nodes, r.min, r.max)
      BY <1>2 DEF IsRegion
    <2>2. Len(r.nodes) \in Nat
      BY <2>1, NodeTypes DEF IsFreeList
    <2>3. j \in 1 .. Len(r.nodes) /\ j + 1 \in 1 .. Len(r.nodes) /\ j < j + 1
      BY <2>2
    <2>4. QED
      BY <2>1, <2>3 DEF IsFreeList
  <1>5. FreeBytes = Bytes(malloc_lmm)
    BY DEF FreeBytes, Bytes, ListBytes
  <1>6. lmm_avail(malloc_lmm, {}) = Cardinality(FreeBytes)
    BY <1>1, <1>5, AvailCounts
  <1>7. QED
    BY <1>3, <1>4, <1>6 DEF FreeListsAreSound

\* The lists pass all of lmm_dump's checks (lmm_dump.c), no two blocks of one touch, and
\* lmm_avail counts the free memory to the byte, after any calls before one is granted
\* whose size has wrapped: that one may be of a node that stays in its list.
THEOREM FreeListsStaySound == Spec => []FreeListsAreSound
  <1>1. MemoryInv => FreeListsAreSound
    <2>1. phase = "overrun" => FreeListsAreSound
      BY DEF FreeListsAreSound
    <2>2. QED
      BY <2>1, SoundLists DEF MemoryInv
  <1>2. QED
    BY <1>1, MemoryIsSound, PTL

\* Memory that holes leave, and a stretch of it too short for a unit.
Taken(holes, a) == a < MIN \/ \E i \in 1 .. Len(holes) : holes[i].min <= a /\ a < holes[i].max
IsCramped(holes, lo, hi) ==
    /\ lo \in MIN .. INF - 1 /\ hi \in lo .. lo + ALIGN_SIZE - 3
    /\ \A a \in lo .. hi : ~Taken(holes, a)
    /\ Taken(holes, lo - 1) /\ Taken(holes, hi + 1)
    /\ AlignDown(lo - 1) = AlignDown(hi + 1)
AllHoles(holes) ==
    /\ holes \in Seq(HoleType) /\ Len(holes) \in Nat
    /\ \A k \in 1 .. Len(holes) : IsHole(holes[k])
    /\ \E k \in 1 .. Len(holes) : holes[k].min < INF /\ holes[k].max = INF

\* The constant operators above say what Memory's definitions say of the state's holes.
LEMMA CrampedIsCramped ==
    /\ Cramped <=> \E lo, hi : IsCramped(Holes, lo, hi)
    /\ \A a : InHole(a) <=> Taken(Holes, a)
  <1>1. \A a : InHole(a) <=> Taken(Holes, a)
    BY DEF InHole, IsHeld, Holes, Taken
  <1>2. QED
    BY <1>1 DEF Cramped, IsCramped

\* The last byte below INF is always in a hole.
LEMMA AllHolesAreHoles ==
    ASSUME mbi \in BootInfos
    PROVE  AllHoles(Holes)
  <1>1. /\ mbi.mem_upper \in Nat /\ LOW + mbi.mem_upper < INF
    BY BootInfosAssumption
  <1>2. 2 \in 1 .. Len(Holes) /\ Holes[2].min = LOW + mbi.mem_upper /\ Holes[2].max = INF
    BY HolesAreHoles DEF Hole
  <1>3. QED
    BY <1>1, <1>2, HolesAreHoles DEF AllHoles

\* What the skips make of a round of mb_util_lmm: a block no hole is in, up to
\* one, or the end of the hole it starts in.
IsBlockToAdd(holes, from, to) ==
    /\ from \in Int /\ to \in Int /\ from < to /\ to < INF
    /\ \A a \in from .. to - 1 : ~Taken(holes, a)
    /\ Taken(holes, to)
IsHoleToSkip(holes, from, to) ==
    /\ from \in Int /\ to \in Int /\ from < to /\ to <= INF
    /\ \A a \in from .. to - 1 : Taken(holes, a)

\* A round of mb_util_lmm skips a hole, or has a block up to the next one.
LEMMA RoundOfUtil ==
    ASSUME NEW holes, AllHoles(holes), NEW from \in Nat, MIN <= from, from < INF,
           NEW b, IsSkipped(b, from, holes, Len(holes))
    PROVE  /\ b.retry => IsHoleToSkip(holes, from, b.min)
           /\ ~b.retry => b.min = from /\ IsBlockToAdd(holes, from, b.max)
  <1>1. MIN \in Int /\ INF \in Int
    BY SizesAssumption
  <1>2. b \in BlockType /\ b.min \in Int /\ b.max \in Int
    BY DEF IsSkipped, BlockType
  <1>3. \A k \in 1 .. Len(holes) : /\ holes[k].min \in Int /\ holes[k].max \in Int
                                   /\ 0 <= holes[k].min /\ holes[k].max <= INF
    BY DEF AllHoles, IsHole, HoleType
  <1>4. CASE b.retry
    <2>1. PICK x \in 1 .. Len(holes) : /\ holes[x].min <= from /\ from < holes[x].max
                                       /\ b.min = holes[x].max
      BY <1>4 DEF IsSkipped
    <2>2. PICK p \in Int, q \in Int : p = holes[x].min /\ q = holes[x].max
      BY <1>3
    <2>3. p <= from /\ from < q /\ b.min = q /\ q <= INF
      BY <1>3, <2>1, <2>2
    <2>4. \A a \in from .. q - 1 : p <= a /\ a < q
      BY <2>3
    <2>5. \A a \in from .. q - 1 : Taken(holes, a)
      BY <2>2, <2>4 DEF Taken
    <2>6. QED
      BY <1>4, <2>3, <2>5 DEF IsHoleToSkip
  <1>5. CASE ~b.retry
    <2>1. /\ b.min = from /\ from < b.max /\ b.max <= INF
          /\ \/ b.max = INF
             \/ \E x \in 1 .. Len(holes) : b.max = holes[x].min /\ holes[x].min < holes[x].max
          /\ \A x \in 1 .. Len(holes) : holes[x].max <= from \/ b.max <= holes[x].min
      BY <1>5 DEF IsSkipped
    <2>2. PICK to \in Int : to = b.max
      BY <1>2
    <2>3. ASSUME NEW a \in from .. to - 1
          PROVE  ~Taken(holes, a)
      <3>1. ASSUME NEW x \in 1 .. Len(holes)
            PROVE  ~(holes[x].min <= a /\ a < holes[x].max)
        <4>1. PICK p \in Int, q \in Int : p = holes[x].min /\ q = holes[x].max
          BY <1>3
        <4>2. q <= from \/ to <= p
          BY <2>1, <2>2, <4>1
        <4>3. ~(p <= a /\ a < q)
          BY <4>2
        <4>4. QED
          BY <4>1, <4>3
      <3>2. ~(a < MIN)
        BY <1>1
      <3>3. QED
        BY <3>1, <3>2 DEF Taken
    <2>4. to # INF
      <3>1. PICK k \in 1 .. Len(holes) : holes[k].min < INF /\ holes[k].max = INF
        BY DEF AllHoles
      <3>2. PICK p \in Int : p = holes[k].min /\ p < INF
        BY <1>3, <3>1
      <3>3. INF <= from \/ to <= p
        BY <2>1, <2>2, <3>1, <3>2
      <3>4. QED
        BY <1>1, <3>2, <3>3
    <2>5. PICK x \in 1 .. Len(holes) : to = holes[x].min /\ holes[x].min < holes[x].max
      BY <2>1, <2>2, <2>4
    <2>6. Taken(holes, to)
      BY <2>5 DEF Taken
    <2>7. from < to /\ to < INF
      BY <1>1, <2>1, <2>2, <2>4
    <2>8. QED
      BY <1>5, <2>1, <2>2, <2>3, <2>6, <2>7 DEF IsBlockToAdd
  <1>6. QED
    BY <1>4, <1>5

\* A block between two holes vanishes inside one unit if and only if it is cramped.
LEMMA AddFailsIfCramped ==
    ASSUME NEW holes, NEW from \in Int, MIN <= from, NEW to \in Int,
           IsBlockToAdd(holes, from, to), Taken(holes, from - 1)
    PROVE  AddFreeAssertion(from, to - from) <=> ~IsCramped(holes, from, to - 1)
  <1>1. from + (to - from) = to /\ MIN \in Int /\ INF \in Int /\ from < to /\ to < INF
    BY SizesAssumption DEF IsBlockToAdd
  <1>2. /\ AlignDown(from - 1) \in Int /\ AlignDown(to) \in Int /\ AlignUp(from) \in Int
        /\ Aligned(AlignDown(from - 1)) /\ Aligned(AlignDown(to)) /\ Aligned(AlignUp(from))
        /\ AlignDown(from - 1) <= from - 1 /\ from - 1 < AlignDown(from - 1) + ALIGN_SIZE
        /\ AlignDown(to) <= to /\ to < AlignDown(to) + ALIGN_SIZE
        /\ from <= AlignUp(from) /\ AlignUp(from) < from + ALIGN_SIZE
        /\ ALIGN_SIZE \in Nat /\ ALIGN_SIZE > 0 /\ from - 1 \in Int
    BY Alignment
  <1>3. PICK d \in Int, e \in Int, u \in Int :
           d = AlignDown(from - 1) /\ e = AlignDown(to) /\ u = AlignUp(from)
    BY <1>2
  <1>4. AddFreeAssertion(from, to - from) <=> e >= u
    BY <1>1, <1>3 DEF AddFreeAssertion
  <1>5. u = d + ALIGN_SIZE
    <2>1. d + ALIGN_SIZE <= u
      <3>1. d < u /\ Aligned(d) /\ Aligned(u)
        BY <1>2, <1>3
      <3>2. QED
        BY <3>1, AlignedApart
    <2>2. Aligned(d + ALIGN_SIZE) /\ d + ALIGN_SIZE \in Int
      <3>1. Aligned(d)
        BY <1>2, <1>3
      <3>2. Aligned(ALIGN_SIZE) /\ ALIGN_SIZE \in Int
        BY <3>1, Alignment
      <3>3. Aligned(d + ALIGN_SIZE)
        BY <3>1, <3>2, AlignedSum
      <3>4. QED
        BY <3>2, <3>3
    <2>3. from <= d + ALIGN_SIZE
      BY <1>2, <1>3
    <2>4. PICK t \in Int : t = d + ALIGN_SIZE
      BY <2>2
    <2>5. u <= t
      BY <1>3, <2>2, <2>3, <2>4, AlignDownIsGreatest
    <2>6. QED
      BY <1>2, <2>1, <2>4, <2>5
  <1>6. d <= e
    <2>1. d <= to
      BY <1>1, <1>2, <1>3
    <2>2. QED
      BY <1>2, <1>3, <2>1, AlignDownIsGreatest
  <1>7. e >= u <=> d # e
    <2>1. d # e => d + ALIGN_SIZE <= e
      <3>1. d # e => d < e
        BY <1>6
      <3>2. QED
        BY <1>2, <1>3, <3>1, AlignedApart
    <2>2. QED
      BY <1>2, <1>5, <2>1
  <1>8. d = e => to - 1 \in from .. from + ALIGN_SIZE - 3
    BY <1>1, <1>2, <1>3
  <1>9. to - 1 + 1 = to /\ from \in MIN .. INF - 1
    BY <1>1
  <1>10. IsCramped(holes, from, to - 1) <=> d = e
    <2>1. (\A a \in from .. to - 1 : ~Taken(holes, a)) /\ Taken(holes, to)
      BY DEF IsBlockToAdd
    <2>2. QED
      BY <1>3, <1>8, <1>9, <2>1 DEF IsCramped
  <1>11. QED
    BY <1>4, <1>7, <1>10

\* How far mb_util_lmm has come: to one end of a hole, with no cramped stretch
\* behind it.
IsFarEnough(holes, from) ==
    /\ MIN <= from
    /\ Taken(holes, from - 1) \/ Taken(holes, from)
    /\ \A lo, hi : IsCramped(holes, lo, hi) => from <= lo

\* Skipping a hole passes over no cramped stretch.
LEMMA FarEnoughPastAHole ==
    ASSUME NEW holes, NEW from, NEW to, IsFarEnough(holes, from), IsHoleToSkip(holes, from, to)
    PROVE  IsFarEnough(holes, to)
  <1>1. /\ from \in Int /\ to \in Int /\ from < to /\ to <= INF
        /\ \A a \in from .. to - 1 : Taken(holes, a)
    BY DEF IsHoleToSkip
  <1>2. MIN \in Int /\ MIN <= from /\ INF \in Int
    BY SizesAssumption DEF IsFarEnough
  <1>3. Taken(holes, to - 1)
    BY <1>1
  <1>4. ASSUME NEW lo, NEW hi, IsCramped(holes, lo, hi)
        PROVE  to <= lo
    <2>1. lo \in Int /\ hi \in Int /\ lo <= hi /\ from <= lo
      <3>1. lo \in MIN .. INF - 1 /\ hi \in lo .. lo + ALIGN_SIZE - 3
        BY <1>4 DEF IsCramped
      <3>2. from <= lo
        BY <1>4 DEF IsFarEnough
      <3>3. QED
        BY <1>2, <3>1, <3>2, AlignAssumption
    <2>2. ~Taken(holes, lo)
      BY <1>4, <2>1 DEF IsCramped
    <2>3. QED
      BY <1>1, <2>1, <2>2
  <1>5. QED
    BY <1>1, <1>2, <1>3, <1>4 DEF IsFarEnough

\* Adding a block passes over none either: lmm_add_free's assertion fails at one.
LEMMA FarEnoughPastABlock ==
    ASSUME NEW holes, NEW from, NEW to, IsFarEnough(holes, from), IsBlockToAdd(holes, from, to)
    PROVE  /\ AddFreeAssertion(from, to - from) => IsFarEnough(holes, to)
           /\ ~AddFreeAssertion(from, to - from) => IsCramped(holes, from, to - 1)
  <1>1. /\ from \in Int /\ to \in Int /\ from < to /\ to < INF
        /\ \A a \in from .. to - 1 : ~Taken(holes, a)
        /\ Taken(holes, to)
    BY DEF IsBlockToAdd
  <1>2. MIN \in Int /\ MIN <= from /\ INF \in Int
    BY SizesAssumption DEF IsFarEnough
  <1>3. Taken(holes, from - 1)
    BY <1>1 DEF IsFarEnough
  <1>4. AddFreeAssertion(from, to - from) <=> ~IsCramped(holes, from, to - 1)
    BY <1>1, <1>2, <1>3, AddFailsIfCramped
  <1>5. ASSUME ~IsCramped(holes, from, to - 1), NEW lo, NEW hi, IsCramped(holes, lo, hi), ~(to <= lo)
        PROVE  FALSE
    <2>1. lo \in Int /\ hi \in Int /\ lo <= hi /\ from <= lo
      <3>1. lo \in MIN .. INF - 1 /\ hi \in lo .. lo + ALIGN_SIZE - 3
        BY <1>5 DEF IsCramped
      <3>2. from <= lo
        BY <1>5 DEF IsFarEnough
      <3>3. QED
        BY <1>2, <3>1, <3>2, AlignAssumption
    <2>2. /\ \A a \in lo .. hi : ~Taken(holes, a)
          /\ Taken(holes, lo - 1) /\ Taken(holes, hi + 1)
      BY <1>5 DEF IsCramped
    <2>3. lo = from
      <3>1. lo - 1 \notin from .. to - 1
        BY <1>1, <2>2
      <3>2. QED
        BY <1>1, <1>5, <2>1, <3>1
    <2>4. hi = to - 1
      <3>1. hi + 1 \notin from .. to - 1
        BY <1>1, <2>2
      <3>2. to \notin lo .. hi
        BY <1>1, <2>2
      <3>3. QED
        BY <1>1, <1>5, <2>1, <2>3, <3>1, <3>2
    <2>5. QED
      BY <1>5, <2>3, <2>4
  <1>6. QED
    BY <1>1, <1>2, <1>4, <1>5 DEF IsFarEnough

\* The boot has got so far, and stops where it must.
BootGoes(where, holes, from) ==
    /\ where = "util_lmm" => IsFarEnough(holes, from)
    /\ where = "panic" => \E lo, hi : IsCramped(holes, lo, hi)
    /\ where \notin {"util_lmm", "panic"} => ~ \E lo, hi : IsCramped(holes, lo, hi)
BootInv == BootGoes(phase, Holes, min)

\* All memory below MIN is taken.
LEMMA BootInvInit == Init => BootInv
  <1> SUFFICES ASSUME Init
               PROVE  BootInv
    OBVIOUS
  <1>1. phase = "util_lmm" /\ min = MIN
    BY DEF Init
  <1>2. MIN \in Int
    BY SizesAssumption
  <1>3. Taken(Holes, MIN - 1)
    BY <1>2 DEF Taken
  <1>4. \A lo, hi : IsCramped(Holes, lo, hi) => MIN <= lo
    BY <1>2 DEF IsCramped
  <1>5. QED
    BY <1>1, <1>2, <1>3, <1>4 DEF BootInv, BootGoes, IsFarEnough

\* A round of mb_util_lmm keeps the boot's invariant.
LEMMA UtilKeepsBoot ==
    ASSUME SoundInv, BootInv, mb_util_lmm
    PROVE  BootInv'
  <1> DEFINE block == FoldLeft(skip, [min |-> min, max |-> INF, retry |-> FALSE], Holes)
  <1>1. /\ phase = "util_lmm"
        /\ min < INF
        /\ min' = IF block.retry THEN block.min ELSE block.max
        /\ block.retry => phase' = phase
        /\ ~block.retry => phase' = IF AddFreeAssertion(block.min, block.max - block.min)
                                    THEN phase ELSE "panic"
        /\ mbi' = mbi
    BY DEF mb_util_lmm
  <1>2. mbi \in BootInfos /\ min \in Nat
    BY <1>1 DEF SoundInv
  <1>3. IsSkipped(block, min, Holes, Len(Holes))
    BY <1>1, <1>2, HolesAreHoles, BlockIsSkipped
  <1> HIDE DEF block
  <1>4. IsFarEnough(Holes, min) /\ MIN <= min
    BY <1>1 DEF BootInv, BootGoes, IsFarEnough
  <1>5. PICK holes, b, from : holes = Holes /\ b = block /\ from = min
    OBVIOUS
  <1>6. Holes' = holes
    BY <1>1, <1>5 DEF Holes
  <1>7. AllHoles(holes)
    BY <1>2, <1>5, AllHolesAreHoles
  <1>8. /\ b.retry => IsHoleToSkip(holes, from, b.min)
        /\ ~b.retry => b.min = from /\ IsBlockToAdd(holes, from, b.max)
    BY <1>1, <1>2, <1>3, <1>4, <1>5, <1>7, RoundOfUtil
  <1>9. CASE b.retry
    <2>1. IsFarEnough(holes, b.min)
      BY <1>4, <1>5, <1>8, <1>9, FarEnoughPastAHole
    <2>2. phase' = "util_lmm" /\ min' = b.min
      BY <1>1, <1>5, <1>9
    <2>3. QED
      BY <1>6, <2>1, <2>2 DEF BootInv, BootGoes
  <1>10. CASE ~b.retry
    <2>1. PICK to : to = b.max
      OBVIOUS
    <2>2. b.min = from /\ IsBlockToAdd(holes, from, to)
      BY <1>8, <1>10, <2>1
    <2>3. /\ AddFreeAssertion(from, to - from) => IsFarEnough(holes, to)
          /\ ~AddFreeAssertion(from, to - from) => IsCramped(holes, from, to - 1)
      BY <1>4, <1>5, <2>2, FarEnoughPastABlock
    <2>4. min' = to /\ phase' = IF AddFreeAssertion(from, to - from) THEN "util_lmm" ELSE "panic"
      BY <1>1, <1>5, <1>10, <2>1, <2>2
    <2>5. QED
      BY <1>6, <2>3, <2>4 DEF BootInv, BootGoes
  <1>11. QED
    BY <1>9, <1>10

\* And so does every other step, as the holes stay what they are.
LEMMA StepKeepsBoot ==
    ASSUME MemoryInv, BootInv, [Next]_vars
    PROVE  BootInv'
  <1>0. ASSUME mb_entry
        PROVE  SoundInv
    BY <1>0, NextIsBeforeOverrun DEF MemoryInv, Next
  <1>1. CASE mb_util_lmm
    BY <1>0, <1>1, UtilKeepsBoot DEF mb_entry
  <1>2. CASE util_lmm_done
    <2>1. phase = "util_lmm" /\ min >= INF /\ phase' = "remove_low" /\ mbi' = mbi
      BY <1>2 DEF util_lmm_done
    <2>2. Holes' = Holes
      BY <2>1 DEF Holes
    <2>3. ASSUME NEW lo, NEW hi, IsCramped(Holes, lo, hi)
          PROVE  FALSE
      <3>1. min <= lo
        BY <2>1, <2>3 DEF BootInv, BootGoes, IsFarEnough
      <3>2. lo \in MIN .. INF - 1 /\ MIN \in Int /\ INF \in Int /\ min \in Int
        BY <1>0, <1>2, <2>3, SizesAssumption DEF IsCramped, SoundInv, mb_entry
      <3>3. QED
        BY <2>1, <3>1, <3>2
    <2>4. QED
      BY <2>1, <2>2, <2>3 DEF BootInv, BootGoes
  <1>3. ASSUME phase \notin {"util_lmm", "panic"}, phase' \notin {"util_lmm", "panic"}, mbi' = mbi
        PROVE  BootInv'
    <2>1. Holes' = Holes
      BY <1>3 DEF Holes
    <2>2. QED
      BY <1>3, <2>1 DEF BootInv, BootGoes
  <1>4. ASSUME NEW end, remove_free("remove_low", end, "remove_user")
                        \/ remove_free("remove_user", end, "run")
        PROVE  BootInv'
    BY <1>3, <1>4 DEF remove_free
  <1>5. ASSUME phase = "run", phase' \in {"run", "asserted", "overrun"}, mbi' = mbi
        PROVE  BootInv'
    BY <1>3, <1>5
  <1>6. ASSUME NEW results, NEW size, NEW kind, NEW zero, NEW align,
               Lends(results, size, kind, zero, align)
        PROVE  BootInv'
    BY <1>5, <1>6 DEF Lends, SizeAsserted, Refused
  <1>7. ASSUME NEW b, NEW results, TakesBack(b, results)
        PROVE  BootInv'
    BY <1>5, <1>7 DEF TakesBack, bootVars
  <1>8. ASSUME NEW size, \/ _malloc(size) \/ _smalloc(size)
                         \/ \E nelt \in Count : _calloc(nelt, size)
                         \/ \E shift \in Shift : _memalign(shift, size) \/ _smemalign(shift, size)
        PROVE  BootInv'
    BY <1>6, <1>8 DEF _malloc, _calloc, _smalloc, _memalign, _smemalign
  <1>9. CASE alloc_page
    BY <1>6, <1>9 DEF alloc_page
  <1>10. ASSUME NEW b, _free(b) \/ _sfree(b) \/ free_page(b)
         PROVE  BootInv'
    BY <1>7, <1>10 DEF _free, _sfree, free_page
  <1>11. ASSUME NEW b, NEW size, _realloc(b, size)
         PROVE  BootInv'
    BY <1>5, <1>11 DEF _realloc, SizeAsserted, Refused
  <1>12. CASE UNCHANGED vars
    BY <1>12 DEF vars, bootVars, BootInv, Holes
  <1>13. QED
    BY <1>1, <1>2, <1>4, <1>8, <1>9, <1>10, <1>11, <1>12 DEF Next, mb_entry

\* lmm_add_free's assertion (lmm_add_free.c:39) fails in the boot if and only if the boot
\* loader leaves a few bytes between two holes inside one unit.
THEOREM BootFailsOnlyIfCramped == Spec => []BootFailsIfCramped
  <1>1. Spec => []BootInv
    BY BootInvInit, StepKeepsBoot, MemoryIsSound, PTL DEF Spec
  <1>2. BootInv => BootFailsIfCramped
    BY CrampedIsCramped DEF BootInv, BootGoes, BootFailsIfCramped
  <1>3. QED
    BY <1>1, <1>2, PTL

\* A stretch of free memory in a list lies in one of its nodes: they do not touch.
LEMMA StretchInANode ==
    ASSUME NEW lo \in Int, NEW hi \in Int, NEW nodes, IsFreeList(nodes, lo, hi),
           NEW from \in Int, NEW to \in Int, from < to,
           \A a \in from .. to - 1 : a \in ListBytes(nodes)
    PROVE  \E j \in 1 .. Len(nodes) : nodes[j].at <= from /\ to <= nodes[j].at + nodes[j].size
  <1>1. nodes \in Seq(FreeNode) /\ Len(nodes) \in Nat
    BY LenProperties DEF IsFreeList
  <1>2. \A j \in 1 .. Len(nodes) : nodes[j].at \in Int /\ nodes[j].size \in Int
    BY <1>1, NodeTypes
  <1>3. from \in ListBytes(nodes)
    OBVIOUS
  <1>4. PICK j \in 1 .. Len(nodes) : nodes[j].at <= from /\ from < nodes[j].at + nodes[j].size
    BY <1>1, <1>3, InListBytes
  <1>5. PICK e \in Int : e = nodes[j].at + nodes[j].size
    BY <1>2
  <1>6. ASSUME e < to
        PROVE  FALSE
    <2>1. e \in ListBytes(nodes)
      BY <1>4, <1>5, <1>6
    <2>2. PICK k \in 1 .. Len(nodes) : nodes[k].at <= e /\ e < nodes[k].at + nodes[k].size
      BY <1>1, <2>1, InListBytes
    <2>3. PICK x \in Int, y \in Int, z \in Int :
             x = nodes[j].at /\ y = nodes[k].at /\ z = nodes[k].at + nodes[k].size
      BY <1>2
    <2>4. j # k
      BY <1>5, <2>2, <2>3
    <2>5. j < k \/ k < j
      BY <2>4
    <2>6. j < k => e < y
      BY <1>5, <2>3 DEF IsFreeList
    <2>7. k < j => z < x
      BY <2>3 DEF IsFreeList
    <2>8. QED
      BY <1>4, <1>5, <2>2, <2>3, <2>5, <2>6, <2>7
  <1>7. QED
    BY <1>4, <1>5, <1>6

\* No byte of the unit of a is taken.
UnitFree(holes, a) == \A k \in 0 .. ALIGN_SIZE - 1 : ~Taken(holes, AlignDown(a) + k)

\* A unit is free if none of its bytes is taken.
LEMMA UnitBytes ==
    ASSUME NEW holes, NEW a \in Int
    PROVE  UnitFree(holes, a) <=>
              \A x \in Int : AlignDown(a) <= x /\ x < AlignDown(a) + ALIGN_SIZE => ~Taken(holes, x)
  <1>1. PICK d \in Int : d = AlignDown(a)
    BY Alignment
  <1>2. ALIGN_SIZE \in Nat
    BY AlignAssumption
  <1>3. ASSUME UnitFree(holes, a), NEW x \in Int, d <= x, x < d + ALIGN_SIZE
        PROVE  ~Taken(holes, x)
    <2>1. x - d \in 0 .. ALIGN_SIZE - 1 /\ d + (x - d) = x
      BY <1>2, <1>3
    <2>2. QED
      BY <1>1, <1>3, <2>1 DEF UnitFree
  <1>4. ASSUME \A x \in Int : d <= x /\ x < d + ALIGN_SIZE => ~Taken(holes, x),
               NEW k \in 0 .. ALIGN_SIZE - 1
        PROVE  ~Taken(holes, d + k)
    <2>1. d + k \in Int /\ d <= d + k /\ d + k < d + ALIGN_SIZE
      BY <1>2
    <2>2. QED
      BY <1>4, <2>1
  <1>5. QED
    BY <1>1, <1>3, <1>4 DEF UnitFree

\* Just the whole units of the regions in front of from that no hole is in are free.
IsFreedUpTo(lmm, holes, from) ==
    \A a \in Int : a \in Bytes(lmm) <=>
        /\ InSomeRegion(lmm, a) /\ UnitFree(holes, a)
        /\ AlignDown(a) + ALIGN_SIZE <= from

\* All memory below MIN is taken.
LEMMA NothingFreedYet ==
    ASSUME NEW holes, NEW lmm, Bytes(lmm) = {}
    PROVE  IsFreedUpTo(lmm, holes, MIN)
  <1>1. SUFFICES ASSUME NEW a \in Int, UnitFree(holes, a), AlignDown(a) + ALIGN_SIZE <= MIN
                 PROVE  FALSE
    BY DEF IsFreedUpTo
  <1>2. PICK d \in Int : d = AlignDown(a)
    BY Alignment
  <1>3. ALIGN_SIZE \in Nat /\ ALIGN_SIZE > 0 /\ MIN \in Int
    BY AlignAssumption, SizesAssumption
  <1>4. d < MIN /\ d < d + ALIGN_SIZE
    BY <1>1, <1>2, <1>3
  <1>5. Taken(holes, d)
    BY <1>4 DEF Taken
  <1>6. QED
    BY <1>1, <1>2, <1>4, <1>5, UnitBytes

\* A unit that ends in a hole which is skipped is not free.
LEMMA FreedPastAHole ==
    ASSUME NEW holes, NEW lmm, NEW from, NEW to,
           IsFreedUpTo(lmm, holes, from), IsHoleToSkip(holes, from, to)
    PROVE  IsFreedUpTo(lmm, holes, to)
  <1>1. /\ from \in Int /\ to \in Int /\ from < to
        /\ \A a \in from .. to - 1 : Taken(holes, a)
    BY DEF IsHoleToSkip
  <1>2. ALIGN_SIZE \in Nat /\ ALIGN_SIZE > 0
    BY AlignAssumption
  <1>3. ASSUME NEW a \in Int, UnitFree(holes, a)
        PROVE  AlignDown(a) + ALIGN_SIZE <= to <=> AlignDown(a) + ALIGN_SIZE <= from
    <2>1. PICK d \in Int : d = AlignDown(a)
      BY Alignment
    <2>2. PICK x \in Int : x = (d + ALIGN_SIZE) - 1
      BY <1>2
    <2>3. d <= x /\ x < d + ALIGN_SIZE
      BY <1>2, <2>2
    <2>4. ~Taken(holes, x)
      BY <1>3, <2>1, <2>3, UnitBytes
    <2>5. x \notin from .. to - 1
      BY <1>1, <2>4
    <2>6. d + ALIGN_SIZE <= to <=> d + ALIGN_SIZE <= from
      BY <1>1, <1>2, <2>2, <2>5
    <2>7. QED
      BY <2>1, <2>6
  <1>4. QED
    BY <1>3 DEF IsFreedUpTo

\* lmm_add_free of the memory up to the next hole frees every whole unit in it.
LEMMA FreedPastABlock ==
    ASSUME NEW holes, NEW lmm, NEW new, NEW from, NEW to,
           IsFreedUpTo(lmm, holes, from), IsBlockToAdd(holes, from, to), Taken(holes, from - 1),
           SameRegions(lmm, new),
           \A a \in Int : a \in Bytes(new) <=>
              \/ a \in Bytes(lmm)
              \/ /\ AlignUp(from) <= a /\ a < AlignDown(to)
                 /\ InSomeRegion(lmm, a)
    PROVE  IsFreedUpTo(new, holes, to)
  <1>1. /\ from \in Int /\ to \in Int /\ from < to
        /\ \A a \in from .. to - 1 : ~Taken(holes, a)
    BY DEF IsBlockToAdd
  <1>2. ALIGN_SIZE \in Nat /\ ALIGN_SIZE > 0 /\ Aligned(ALIGN_SIZE)
    BY Alignment, AlignAssumption
  <1>3. ASSUME NEW a \in Int
        PROVE  InSomeRegion(new, a) <=> InSomeRegion(lmm, a)
    BY DEF InSomeRegion, SameRegions
  <1>4. ASSUME NEW a \in Int
        PROVE  AlignUp(from) <= a /\ a < AlignDown(to) <=>
                  from <= AlignDown(a) /\ AlignDown(a) + ALIGN_SIZE <= to
    <2>1. PICK d \in Int, u \in Int, e \in Int :
             d = AlignDown(a) /\ u = AlignUp(from) /\ e = AlignDown(to)
      BY <1>1, Alignment
    <2>2. /\ Aligned(d) /\ Aligned(u) /\ Aligned(e) /\ d <= a /\ a < d + ALIGN_SIZE
          /\ from <= u /\ e <= to
      BY <1>1, <2>1, Alignment
    <2>3. d + ALIGN_SIZE \in Int /\ Aligned(d + ALIGN_SIZE)
      BY <1>2, <2>2, AlignedSum
    <2>4. u <= a <=> u <= d
      BY <2>1, <2>2, AlignDownIsGreatest
    <2>5. u <= d <=> from <= d
      BY <1>1, <2>1, <2>2, AlignDownIsGreatest
    <2>6. d + ALIGN_SIZE <= e <=> d + ALIGN_SIZE <= to
      BY <1>1, <2>1, <2>3, AlignDownIsGreatest
    <2>7. a < e <=> d + ALIGN_SIZE <= e
      <3>1. d < e => d + ALIGN_SIZE <= e
        BY <2>2, AlignedApart
      <3>2. QED
        BY <1>2, <2>2, <3>1
    <2>8. QED
      BY <2>1, <2>4, <2>5, <2>6, <2>7
  <1>5. ASSUME NEW a \in Int, from <= AlignDown(a), AlignDown(a) + ALIGN_SIZE <= to
        PROVE  UnitFree(holes, a)
    <2>1. PICK d \in Int : d = AlignDown(a)
      BY Alignment
    <2>2. \A x \in Int : d <= x /\ x < d + ALIGN_SIZE => x \in from .. to - 1
      BY <1>1, <1>2, <1>5, <2>1
    <2>3. QED
      BY <1>1, <2>1, <2>2, UnitBytes
  <1>6. ASSUME NEW a \in Int, UnitFree(holes, a), ~(AlignDown(a) + ALIGN_SIZE <= from)
        PROVE  from <= AlignDown(a)
    <2>1. PICK d \in Int : d = AlignDown(a)
      BY Alignment
    <2>2. from - 1 \in Int /\ (d <= from - 1 => ~(from - 1 < d + ALIGN_SIZE))
      BY <1>1, <1>6, <2>1, UnitBytes
    <2>3. from <= d
      BY <1>1, <1>2, <1>6, <2>1, <2>2
    <2>4. QED
      BY <2>1, <2>3
  <1>7. ASSUME NEW a \in Int
        PROVE  AlignDown(a) + ALIGN_SIZE <= from => AlignDown(a) + ALIGN_SIZE <= to
    <2>1. PICK d \in Int : d = AlignDown(a)
      BY Alignment
    <2>2. QED
      BY <1>1, <1>2, <2>1
  <1>8. QED
    BY <1>3, <1>4, <1>5, <1>6, <1>7 DEF IsFreedUpTo

\* What malloc is to have: the whole units between LOW and MID that no hole is in.
IsHeap(lmm, holes) ==
    \A a \in Int : LOW <= a /\ a < MID => (a \in Bytes(lmm) <=> UnitFree(holes, a))

\* At the end of mb_util_lmm it has it.
LEMMA AllIsFreed ==
    ASSUME NEW holes, NEW lmm, IsLmm(lmm), HasBorders(lmm), Taken(holes, LOW - 1),
           NEW from \in Int, INF <= from, IsFreedUpTo(lmm, holes, from)
    PROVE  IsHeap(lmm, holes)
  <1>1. SUFFICES ASSUME NEW a \in Int, LOW <= a, a < MID, UnitFree(holes, a)
                 PROVE  InSomeRegion(lmm, a) /\ AlignDown(a) + ALIGN_SIZE <= from
    BY DEF IsHeap, IsFreedUpTo
  <1>2. PICK d \in Int, u \in Int : d = AlignDown(a) /\ u = AlignUp(LOW)
    BY SizesAssumption, Alignment
  <1>3. /\ LOW \in Int /\ MID \in Int /\ INF \in Int /\ MID < INF
        /\ ALIGN_SIZE \in Nat /\ ALIGN_SIZE > 0
    BY SizesAssumption, AlignAssumption
  <1>4. d <= a /\ a < d + ALIGN_SIZE /\ Aligned(d)
    BY <1>2, Alignment
  <1>5. u <= a
    <2>1. LOW - 1 \in Int /\ (d <= LOW - 1 => ~(LOW - 1 < d + ALIGN_SIZE))
      BY <1>1, <1>2, <1>3, UnitBytes
    <2>2. LOW <= d
      BY <1>1, <1>3, <1>4, <2>1
    <2>3. u <= d
      BY <1>2, <1>3, <1>4, <2>2, AlignDownIsGreatest
    <2>4. QED
      BY <1>4, <2>3
  <1>6. InSomeRegion(lmm, a)
    BY <1>1, <1>2, <1>5 DEF HasBorders
  <1>7. d + ALIGN_SIZE <= MID
    <2>1. Aligned(MID)
      BY MidAssumption DEF Aligned
    <2>2. QED
      BY <1>1, <1>3, <1>4, <2>1, AlignedApart
  <1>8. QED
    BY <1>2, <1>3, <1>6, <1>7

NoneIn(lmm, from, to) == \A a \in Bytes(lmm) : ~(from <= a /\ a < to)

\* All that is free or lent lies between LOW and MID.
IsInHeap(lmm, bs) ==
    /\ \A a \in Bytes(lmm) : LOW <= a /\ a < MID
    /\ \A b \in bs : LOW <= From(b) /\ To(b) <= MID

\* What the boot has given to malloc so far, and what it has taken away again.
SpaceGoes(where, holes, from, lmm, bs) ==
    /\ where \notin {"asserted", "overrun"} => HasBorders(lmm)
    /\ where = "util_lmm" => IsFreedUpTo(lmm, holes, from)
    /\ where \in {"remove_low", "remove_user"} => IsHeap(lmm, holes) /\ Aligned(from) /\ 0 <= from
    /\ where = "remove_low" => NoneIn(lmm, 0, from)
    /\ where = "remove_user" => NoneIn(lmm, 0, LOW) /\ MID <= from /\ NoneIn(lmm, MID, from)
    /\ where = "run" => IsInHeap(lmm, bs)
SpaceInv == SpaceGoes(phase, Holes, min, malloc_lmm, blocks)

\* The borders are kept with the regions.
LEMMA BordersKept ==
    ASSUME NEW lmm, NEW new, HasBorders(lmm), SameRegions(lmm, new)
    PROVE  HasBorders(new)
  <1>1. \A k \in 1 .. Len(new) : IsSideOrMiddle(new[k])
    BY DEF HasBorders, SameRegions, IsSideOrMiddle
  <1>2. \A a \in Int : InSomeRegion(lmm, a) => InSomeRegion(new, a)
    BY DEF SameRegions, InSomeRegion
  <1>3. QED
    BY <1>1, <1>2 DEF HasBorders

\* Before mb_util_lmm nothing is free.
LEMMA SpaceInvInit == Init => SpaceInv
  <1> SUFFICES ASSUME Init
               PROVE  SpaceInv
    OBVIOUS
  <1>1. phase = "util_lmm" /\ min = MIN /\ malloc_lmm = Regions
    BY DEF Init
  <1>2. INF \in Int
    BY SizesAssumption
  <1>3. HasBorders(Regions) /\ Bytes(Regions) = {}
    BY <1>2, RegionsAreFresh, NothingIsFree
  <1>4. IsFreedUpTo(Regions, Holes, MIN)
    BY <1>3, NothingFreedYet
  <1>5. QED
    BY <1>1, <1>3, <1>4 DEF SpaceInv, SpaceGoes

\* A round of mb_util_lmm frees every whole unit up to where it comes.
LEMMA UtilKeepsSpace ==
    ASSUME SoundInv, BootInv, SpaceInv, mb_util_lmm
    PROVE  SpaceInv'
  <1> DEFINE block == FoldLeft(skip, [min |-> min, max |-> INF, retry |-> FALSE], Holes)
  <1>1. /\ phase = "util_lmm"
        /\ min < INF
        /\ min' = IF block.retry THEN block.min ELSE block.max
        /\ block.retry => phase' = phase /\ malloc_lmm' = malloc_lmm
        /\ ~block.retry =>
              IF AddFreeAssertion(block.min, block.max - block.min)
              THEN /\ phase' = phase
                   /\ malloc_lmm' = lmm_add_free(malloc_lmm, block.min, block.max - block.min)
              ELSE phase' = "panic" /\ malloc_lmm' = malloc_lmm
        /\ mbi' = mbi
    BY DEF mb_util_lmm
  <1>2. /\ mbi \in BootInfos /\ min \in Nat /\ IsLmm(malloc_lmm)
        /\ \A a \in Bytes(malloc_lmm) : a < min
    BY <1>1 DEF SoundInv
  <1>3. IsSkipped(block, min, Holes, Len(Holes))
    BY <1>1, <1>2, HolesAreHoles, BlockIsSkipped
  <1> HIDE DEF block
  <1>4. IsFarEnough(Holes, min) /\ MIN <= min /\ (Taken(Holes, min - 1) \/ Taken(Holes, min))
    BY <1>1 DEF BootInv, BootGoes, IsFarEnough
  <1>5. IsFreedUpTo(malloc_lmm, Holes, min) /\ HasBorders(malloc_lmm)
    BY <1>1 DEF SpaceInv, SpaceGoes
  <1>6. PICK holes, b, from, lmm : holes = Holes /\ b = block /\ from = min /\ lmm = malloc_lmm
    OBVIOUS
  <1>7. Holes' = holes
    BY <1>1, <1>6 DEF Holes
  <1>8. AllHoles(holes)
    BY <1>2, <1>6, AllHolesAreHoles
  <1>9. /\ b.retry => IsHoleToSkip(holes, from, b.min)
        /\ ~b.retry => b.min = from /\ IsBlockToAdd(holes, from, b.max)
    BY <1>1, <1>2, <1>3, <1>4, <1>6, <1>8, RoundOfUtil
  <1>10. CASE b.retry
    <2>1. IsFreedUpTo(lmm, holes, b.min)
      BY <1>5, <1>6, <1>9, <1>10, FreedPastAHole
    <2>2. phase' = "util_lmm" /\ min' = b.min /\ malloc_lmm' = lmm
      BY <1>1, <1>6, <1>10
    <2>3. QED
      BY <1>5, <1>6, <1>7, <2>1, <2>2 DEF SpaceInv, SpaceGoes
  <1>11. CASE ~b.retry
    <2>1. PICK to : to = b.max
      OBVIOUS
    <2>2. b.min = from /\ IsBlockToAdd(holes, from, to)
      BY <1>9, <1>11, <2>1
    <2>3. /\ from \in Int /\ to \in Int /\ from < to
          /\ ~Taken(holes, from)
      <3>1. /\ from \in Int /\ to \in Int /\ from < to
            /\ \A a \in from .. to - 1 : ~Taken(holes, a)
        BY <2>2 DEF IsBlockToAdd
      <3>2. from \in from .. to - 1
        BY <3>1
      <3>3. QED
        BY <3>1, <3>2
    <2>4. Taken(holes, from - 1)
      BY <1>4, <1>6, <2>3
    <2>5. CASE ~AddFreeAssertion(from, to - from)
      <3>1. phase' = "panic" /\ malloc_lmm' = lmm
        BY <1>1, <1>6, <1>11, <2>1, <2>2, <2>5
      <3>2. QED
        BY <1>5, <1>6, <3>1 DEF SpaceInv, SpaceGoes
    <2>6. CASE AddFreeAssertion(from, to - from)
      <3>1. PICK size, new : size = to - from /\ new = lmm_add_free(lmm, from, size)
        OBVIOUS
      <3>2. size \in Int /\ from + size = to
        BY <2>3, <3>1
      <3>3. \A a \in Bytes(lmm) : ~(AlignUp(from) <= a /\ a < AlignDown(from + size))
        <4>1. AlignUp(from) \in Int /\ from <= AlignUp(from)
          BY <2>3, Alignment
        <4>2. \A a \in Bytes(lmm) : a \in Int /\ a < from
          BY <1>2, <1>6, RegionBytes
        <4>3. QED
          BY <2>3, <4>1, <4>2
      <3>4. /\ SameRegions(lmm, new)
            /\ \A a \in Int : a \in Bytes(new) <=>
                 \/ a \in Bytes(lmm)
                 \/ /\ AlignUp(from) <= a /\ a < AlignDown(from + size)
                    /\ InSomeRegion(lmm, a)
        BY <1>2, <1>6, <2>3, <2>6, <3>1, <3>2, <3>3, lmm_add_free_grows
      <3>5. IsFreedUpTo(new, holes, to)
        BY <1>5, <1>6, <2>2, <2>4, <3>2, <3>4, FreedPastABlock
      <3>6. HasBorders(new)
        BY <1>5, <1>6, <3>4, BordersKept
      <3>7. phase' = "util_lmm" /\ min' = to /\ malloc_lmm' = new
        BY <1>1, <1>6, <1>11, <2>1, <2>2, <2>6, <3>1
      <3>8. QED
        BY <1>7, <3>5, <3>6, <3>7 DEF SpaceInv, SpaceGoes
    <2>7. QED
      BY <2>5, <2>6
  <1>12. QED
    BY <1>10, <1>11

\* After the last one all of malloc's memory is free, and more.
LEMMA UtilDoneKeepsSpace ==
    ASSUME SoundInv, SpaceInv, util_lmm_done
    PROVE  SpaceInv'
  <1>1. /\ phase = "util_lmm" /\ min >= INF /\ phase' = "remove_low" /\ min' = 0
        /\ malloc_lmm' = malloc_lmm /\ mbi' = mbi
    BY DEF util_lmm_done
  <1>2. mbi \in BootInfos /\ IsLmm(malloc_lmm) /\ min \in Int
    BY DEF SoundInv
  <1>3. HasBorders(malloc_lmm) /\ IsFreedUpTo(malloc_lmm, Holes, min)
    BY <1>1 DEF SpaceInv, SpaceGoes
  <1>4. Taken(Holes, LOW - 1)
    <2>1. /\ mbi.mem_lower \in Nat /\ mbi.mem_lower < LOW /\ LOW \in Int
      BY <1>2, BootInfosAssumption, SizesAssumption
    <2>2. 1 \in 1 .. Len(Holes) /\ Holes[1].min = mbi.mem_lower /\ Holes[1].max = LOW
      BY <1>2, HolesAreHoles DEF Hole
    <2>3. mbi.mem_lower <= LOW - 1 /\ LOW - 1 < LOW
      BY <2>1
    <2>4. QED
      BY <2>2, <2>3 DEF Taken
  <1>5. INF <= min
    BY <1>1, <1>2, SizesAssumption
  <1>6. IsHeap(malloc_lmm, Holes)
    BY <1>2, <1>3, <1>4, <1>5, AllIsFreed
  <1>7. NoneIn(malloc_lmm, 0, 0)
    <2>1. \A a \in Bytes(malloc_lmm) : a \in Int
      BY <1>2, RegionBytes
    <2>2. QED
      BY <2>1 DEF NoneIn
  <1>8. Aligned(0) /\ 0 <= 0
    <2>1. 0 \in Int
      OBVIOUS
    <2>2. QED
      BY <2>1, Alignment
  <1>9. Holes' = Holes
    BY <1>1 DEF Holes
  <1>10. QED
    BY <1>1, <1>3, <1>6, <1>7, <1>8, <1>9 DEF SpaceInv, SpaceGoes

\* A region in front of LOW ends there, and one that has memory from LOW on has
\* all of it up to MID, or none.
LEMMA RegionOfAByte ==
    ASSUME NEW lmm, IsLmm(lmm), HasBorders(lmm), NEW i \in 1 .. Len(lmm),
           NEW a \in Int, lmm[i].min <= a, a < lmm[i].max
    PROVE  /\ lmm[i].min < LOW => a < LOW
           /\ LOW <= a /\ a < MID => lmm[i].min = AlignUp(LOW) /\ lmm[i].max = MID
           /\ 0 <= a /\ a < AlignDown(INF)
  <1>1. PICK p \in Int, q \in Int : p = lmm[i].min /\ q = lmm[i].max
    BY RegionFacts
  <1>2. 0 <= p /\ q <= INF /\ Aligned(q)
    BY <1>1, RegionFacts
  <1>3. LOW \in Int /\ MID \in Int /\ INF \in Int /\ LOW < MID
    BY SizesAssumption
  <1>4. PICK u \in Int, e \in Int : u = AlignUp(LOW) /\ e = AlignDown(INF)
    BY <1>3, Alignment
  <1>5. LOW <= u /\ q <= e
    BY <1>1, <1>2, <1>3, <1>4, Alignment, AlignDownIsGreatest
  <1>6. q <= LOW \/ (p = u /\ q = MID) \/ MID <= p
    BY <1>1, <1>4 DEF HasBorders, IsSideOrMiddle
  <1>7. p <= a /\ a < q
    BY <1>1
  <1>8. p < LOW => a < LOW
    BY <1>3, <1>5, <1>6, <1>7
  <1>9. LOW <= a /\ a < MID => p = u /\ q = MID
    BY <1>3, <1>6, <1>7
  <1>10. 0 <= a /\ a < e
    BY <1>2, <1>3, <1>5, <1>7
  <1>11. QED
    BY <1>1, <1>4, <1>8, <1>9, <1>10

\* lmm_remove_free leaves the memory between LOW and MID alone.
LEMMA RoundKeepsHeap ==
    ASSUME NEW lmm, IsLmm(lmm), HasBorders(lmm), NEW holes, IsHeap(lmm, holes),
           NEW new, Bytes(new) \subseteq Bytes(lmm),
           \A a \in Bytes(lmm) : a \notin Bytes(new) => a < LOW \/ MID <= a
    PROVE  IsHeap(new, holes)
  <1>1. LOW \in Int /\ MID \in Int
    BY SizesAssumption
  <1>2. ASSUME NEW a \in Int, LOW <= a, a < MID
        PROVE  a \in Bytes(new) <=> a \in Bytes(lmm)
    BY <1>1, <1>2
  <1>3. QED
    BY <1>2 DEF IsHeap

\* It passes over no free memory.
LEMMA RoundGoesOn ==
    ASSUME NEW lmm, IsLmm(lmm), NEW new, Bytes(new) \subseteq Bytes(lmm),
           NEW from \in Int, NEW here \in Int, NEW next \in Int,
           NoneIn(lmm, from, here), \A a \in Bytes(lmm) : ~(here <= a /\ a < next)
    PROVE  NoneIn(new, from, next)
  <1>1. \A a \in Bytes(lmm) : a \in Int
    BY RegionBytes
  <1>2. \A a \in Bytes(lmm) : ~(from <= a /\ a < next)
    BY <1>1 DEF NoneIn
  <1>3. QED
    BY <1>2 DEF NoneIn

\* What is in front of LOW is taken away again.
LEMMA RemoveLowKeepsSpace ==
    ASSUME SoundInv, SpaceInv, remove_free("remove_low", LOW, "remove_user")
    PROVE  SpaceInv'
  <1> DEFINE r == RemoveRound(malloc_lmm, min, LOW)
  <1>1. /\ phase = "remove_low"
        /\ malloc_lmm' = r.lmm
        /\ IF r.done THEN phase' = "remove_user" /\ min' = MID
           ELSE min' = r.next /\ phase' = phase
        /\ mbi' = mbi
    BY DEF remove_free
  <1>2. min \in Int /\ IsLmm(malloc_lmm)
    BY DEF SoundInv
  <1>3. LOW \in Int /\ MID \in Int /\ LOW < MID
    BY SizesAssumption
  <1>4. /\ HasBorders(malloc_lmm) /\ IsHeap(malloc_lmm, Holes) /\ Aligned(min) /\ 0 <= min
        /\ NoneIn(malloc_lmm, 0, min)
    BY <1>1 DEF SpaceInv, SpaceGoes
  <1>5. PICK lmm, from, round : lmm = malloc_lmm /\ from = min /\ round = r
    OBVIOUS
  <1>. from \in Int
    BY <1>2, <1>5
  <1>6. /\ IsRound(round, lmm, from, LOW) /\ IsLmm(round.lmm) /\ SameRegions(lmm, round.lmm)
        /\ Bytes(round.lmm) \subseteq Bytes(lmm) /\ round.next \in Int
    BY <1>2, <1>3, <1>5, RemoveRoundTakes
  <1> HIDE DEF r
  <1>7. AlignUp(from) = from
    BY <1>4, <1>5, AlignedIsKept
  <1>8. Holes' = Holes
    BY <1>1 DEF Holes
  <1>9. CASE round.done
    <2>1. round.lmm = lmm /\ \A a \in Bytes(lmm) : ~(from <= a /\ a < LOW)
      BY <1>6, <1>7, <1>9 DEF IsRound
    <2>2. NoneIn(lmm, 0, LOW)
      BY <1>2, <1>3, <1>4, <1>5, <2>1, RoundGoesOn
    <2>3. NoneIn(lmm, MID, MID)
      <3>1. \A a \in Bytes(lmm) : a \in Int
        BY <1>2, <1>5, RegionBytes
      <3>2. QED
        BY <1>3, <3>1 DEF NoneIn
    <2>4. Aligned(MID) /\ 0 <= MID /\ MID <= MID
      BY MidAssumption, SizesAssumption DEF Aligned
    <2>5. phase' = "remove_user" /\ min' = MID /\ malloc_lmm' = lmm
      BY <1>1, <1>5, <1>9, <2>1
    <2>6. QED
      BY <1>4, <1>5, <1>8, <2>2, <2>3, <2>4, <2>5 DEF SpaceInv, SpaceGoes
  <1>10. CASE ~round.done
    <2>1. PICK new, next : new = round.lmm /\ next = round.next
      OBVIOUS
    <2>. next \in Int
      BY <1>6, <2>1
    <2>2. /\ Aligned(next) /\ from <= next
          /\ \A a \in Bytes(lmm) : ~(from <= a /\ a < next)
          /\ \A a \in Bytes(lmm) : a \notin Bytes(new) =>
                \E i \in 1 .. Len(lmm) : /\ lmm[i].min < LOW
                                         /\ lmm[i].min <= a /\ a < lmm[i].max
      BY <1>6, <1>7, <1>10, <2>1 DEF IsRound
    <2>3. \A a \in Bytes(lmm) : a \notin Bytes(new) => a < LOW
      <3>1. \A a \in Bytes(lmm) : a \in Int
        BY <1>2, <1>5, RegionBytes
      <3>2. QED
        BY <1>2, <1>4, <1>5, <2>2, <3>1, RegionOfAByte
    <2>4. IsHeap(new, Holes)
      BY <1>2, <1>4, <1>5, <1>6, <2>1, <2>3, RoundKeepsHeap
    <2>5. NoneIn(new, 0, next)
      BY <1>2, <1>4, <1>5, <1>6, <2>1, <2>2, RoundGoesOn
    <2>6. HasBorders(new)
      BY <1>4, <1>5, <1>6, <2>1, BordersKept
    <2>7. 0 <= next
      BY <1>4, <1>5, <2>2
    <2>8. phase' = "remove_low" /\ min' = next /\ malloc_lmm' = new
      BY <1>1, <1>5, <1>10, <2>1
    <2>9. QED
      BY <1>8, <2>2, <2>4, <2>5, <2>6, <2>7, <2>8 DEF SpaceInv, SpaceGoes
  <1>11. QED
    BY <1>9, <1>10

\* What a round of the last lmm_remove_free leaves.
IsLastRound(new, holes) ==
    /\ \A a \in Bytes(new) : LOW <= a /\ a < MID
    /\ IsHeap(new, holes)

\* And what is behind MID; then malloc has its memory and nothing else.
LEMMA RemoveUserKeepsSpace ==
    ASSUME SoundInv, SpaceInv, remove_free("remove_user", AlignDown(INF), "run")
    PROVE  /\ SpaceInv'
           /\ phase' = "run" => IsLastRound(malloc_lmm', Holes)
           /\ phase' \in {"remove_user", "run"}
  <1> DEFINE r == RemoveRound(malloc_lmm, min, AlignDown(INF))
  <1>1. /\ phase = "remove_user"
        /\ malloc_lmm' = r.lmm
        /\ IF r.done THEN phase' = "run" /\ min' = MID
           ELSE min' = r.next /\ phase' = phase
        /\ mbi' = mbi /\ blocks' = blocks
    BY DEF remove_free
  <1>2. min \in Int /\ IsLmm(malloc_lmm) /\ blocks = {}
    BY <1>1 DEF SoundInv
  <1>3. LOW \in Int /\ MID \in Int /\ LOW < MID /\ INF \in Int /\ 0 < LOW
    BY SizesAssumption
  <1>4. /\ HasBorders(malloc_lmm) /\ IsHeap(malloc_lmm, Holes) /\ Aligned(min) /\ 0 <= min
        /\ NoneIn(malloc_lmm, 0, LOW) /\ MID <= min /\ NoneIn(malloc_lmm, MID, min)
    BY <1>1 DEF SpaceInv, SpaceGoes
  <1>5. PICK lmm, from, end, round :
           lmm = malloc_lmm /\ from = min /\ end = AlignDown(INF) /\ round = r
    OBVIOUS
  <1>. from \in Int /\ end \in Int
    BY <1>2, <1>3, <1>5, Alignment
  <1>6. /\ IsRound(round, lmm, from, end) /\ IsLmm(round.lmm) /\ SameRegions(lmm, round.lmm)
        /\ Bytes(round.lmm) \subseteq Bytes(lmm) /\ round.next \in Int
    BY <1>2, <1>5, RemoveRoundTakes
  <1> HIDE DEF r
  <1>7. AlignUp(from) = from
    BY <1>4, <1>5, AlignedIsKept
  <1>8. Holes' = Holes
    BY <1>1 DEF Holes
  <1>9. CASE round.done
    <2>1. round.lmm = lmm /\ \A a \in Bytes(lmm) : ~(from <= a /\ a < end)
      BY <1>6, <1>7, <1>9 DEF IsRound
    <2>2. ASSUME NEW a \in Bytes(lmm)
          PROVE  LOW <= a /\ a < MID
      <3>1. a \in Int /\ 0 <= a
        BY <1>2, <1>5, RegionBytes
      <3>2. a < end
        <4>1. PICK i \in 1 .. Len(lmm) : a \in ListBytes(lmm[i].nodes)
          BY <1>2, <1>5, RegionBytes
        <4>2. lmm[i].min <= a /\ a < lmm[i].max
          BY <1>2, <1>5, <4>1, RegionBytes
        <4>3. QED
          BY <1>2, <1>4, <1>5, <3>1, <4>2, RegionOfAByte
      <3>3. ~(from <= a)
        BY <2>1, <3>2
      <3>4. ~(0 <= a /\ a < LOW) /\ ~(MID <= a /\ a < from)
        BY <1>4, <1>5 DEF NoneIn
      <3>5. QED
        BY <1>3, <3>1, <3>3, <3>4
    <2>3. phase' = "run" /\ malloc_lmm' = lmm /\ blocks' = {}
      BY <1>1, <1>2, <1>5, <1>9, <2>1
    <2>4. IsLastRound(lmm, Holes)
      BY <1>4, <1>5, <2>2 DEF IsLastRound
    <2>5. QED
      BY <1>4, <1>5, <1>8, <2>2, <2>3, <2>4 DEF SpaceInv, SpaceGoes, IsInHeap
  <1>10. CASE ~round.done
    <2>1. PICK new, next : new = round.lmm /\ next = round.next
      OBVIOUS
    <2>. next \in Int
      BY <1>6, <2>1
    <2>2. /\ Aligned(next) /\ from <= next
          /\ \A a \in Bytes(lmm) : ~(from <= a /\ a < next)
          /\ \A a \in Bytes(lmm) : a \notin Bytes(new) => next <= a
      BY <1>6, <1>7, <1>10, <2>1 DEF IsRound
    <2>3. MID <= next /\ 0 <= next
      BY <1>3, <1>4, <1>5, <2>2
    <2>4. \A a \in Bytes(lmm) : a \notin Bytes(new) => MID <= a
      <3>1. \A a \in Bytes(lmm) : a \in Int
        BY <1>2, <1>5, RegionBytes
      <3>2. QED
        BY <1>3, <2>2, <2>3, <3>1
    <2>5. IsHeap(new, Holes)
      BY <1>2, <1>4, <1>5, <1>6, <2>1, <2>4, RoundKeepsHeap
    <2>6. NoneIn(new, MID, next)
      BY <1>2, <1>3, <1>4, <1>5, <1>6, <2>1, <2>2, RoundGoesOn
    <2>7. NoneIn(new, 0, LOW)
      BY <1>4, <1>5, <1>6, <2>1 DEF NoneIn
    <2>8. HasBorders(new)
      BY <1>4, <1>5, <1>6, <2>1, BordersKept
    <2>9. phase' = "remove_user" /\ min' = next /\ malloc_lmm' = new
      BY <1>1, <1>5, <1>10, <2>1
    <2>10. QED
      BY <1>8, <2>2, <2>3, <2>5, <2>6, <2>7, <2>8, <2>9 DEF SpaceInv, SpaceGoes
  <1>11. QED
    BY <1>9, <1>10

\* AlignDown gives a multiple of the unit.
LEMMA DownIsAProduct ==
    ASSUME NEW a \in Int
    PROVE  AlignDown(a) = (a \div ALIGN_SIZE) * ALIGN_SIZE /\ a \div ALIGN_SIZE \in Int
  <1>1. ALIGN_SIZE \in Nat \ {0}
    BY AlignAssumption
  <1>2. /\ a % ALIGN_SIZE \in 0 .. ALIGN_SIZE - 1
        /\ a \div ALIGN_SIZE \in Int
        /\ a = (a \div ALIGN_SIZE) * ALIGN_SIZE + (a % ALIGN_SIZE)
    BY <1>1, Division
  <1>3. PICK m \in Int, r \in Int : m = (a \div ALIGN_SIZE) * ALIGN_SIZE /\ r = a % ALIGN_SIZE
    BY <1>1, <1>2
  <1>4. a - r = m
    BY <1>2, <1>3
  <1>5. QED
    BY <1>2, <1>3, <1>4 DEF AlignDown

\* The order of multiples.
LEMMA ProductsInOrder ==
    ASSUME NEW n \in Nat \ {0}, NEW p \in Int, NEW q \in Int
    PROVE  p <= q <=> p * n <= q * n
  <1>1. ASSUME p <= q
        PROVE  p * n <= q * n
    <2>1. q - p \in Nat /\ (q - p) * n >= 0
      BY <1>1
    <2>2. (q - p) * n = q * n - p * n
      OBVIOUS
    <2>3. QED
      BY <2>1, <2>2
  <1>2. ASSUME ~(p <= q)
        PROVE  ~(p * n <= q * n)
    <2>1. p - q \in Nat \ {0} /\ (p - q) * n > 0
      BY <1>2
    <2>2. (p - q) * n = p * n - q * n
      OBVIOUS
    <2>3. QED
      BY <2>1, <2>2
  <1>3. QED
    BY <1>1, <1>2

\* AddressSpace's units of a block are the ones the lmm lends.
LEMMA ExtentOfABlock ==
    ASSUME NEW pos \in Int, NEW size \in Nat \ {0}
    PROVE  Space!Extent([at |-> pos, size |-> size]) = AlignDown(pos) .. End(pos, size) - 1
  <1>1. ALIGN_SIZE \in Nat \ {0}
    BY AlignAssumption
  <1>2. PICK p \in Int, q \in Int : /\ p = pos \div ALIGN_SIZE /\ p * ALIGN_SIZE = AlignDown(pos)
                                    /\ q = (pos + size - 1) \div ALIGN_SIZE
                                    /\ q * ALIGN_SIZE = AlignDown(pos + size - 1)
    BY DownIsAProduct
  <1>3. End(pos, size) = q * ALIGN_SIZE + ALIGN_SIZE
    <2>1. PICK m \in Int : m = pos + size - 1
      OBVIOUS
    <2>2. pos + size + ALIGN_SIZE - 1 = m + ALIGN_SIZE
      BY <1>1, <2>1
    <2>3. AlignDown(m + ALIGN_SIZE) = AlignDown(m) + ALIGN_SIZE
      <3>1. ALIGN_SIZE \in Int /\ Aligned(ALIGN_SIZE)
        BY <2>1, Alignment
      <3>2. QED
        BY <3>1, AlignShifted
    <2>4. QED
      BY <1>2, <2>1, <2>2, <2>3 DEF End, AlignUp
  <1> DEFINE S == {u * ALIGN_SIZE + k : u \in p .. q, k \in 0 .. ALIGN_SIZE - 1}
  <1>4. Space!Extent([at |-> pos, size |-> size]) = S
    BY <1>2 DEF Space!Extent
  <1>5. PICK x \in Int, y \in Int : x = p * ALIGN_SIZE /\ y = q * ALIGN_SIZE
    BY <1>1
  <1>6. ASSUME NEW u \in p .. q, NEW k \in 0 .. ALIGN_SIZE - 1
        PROVE  u * ALIGN_SIZE + k \in x .. (y + ALIGN_SIZE) - 1
    <2>1. p * ALIGN_SIZE <= u * ALIGN_SIZE /\ u * ALIGN_SIZE <= q * ALIGN_SIZE
      BY <1>1, ProductsInOrder
    <2>2. PICK z \in Int : z = u * ALIGN_SIZE
      BY <1>1
    <2>3. x <= z /\ z <= y
      BY <1>5, <2>1, <2>2
    <2>4. z + k \in x .. (y + ALIGN_SIZE) - 1
      BY <1>1, <2>3
    <2>5. QED
      BY <2>2, <2>4
  <1>7. ASSUME NEW a \in x .. (y + ALIGN_SIZE) - 1
        PROVE  \E u \in p .. q : \E k \in 0 .. ALIGN_SIZE - 1 : a = u * ALIGN_SIZE + k
    <2>1. a \in Int
      OBVIOUS
    <2>2. PICK u \in Int : u = a \div ALIGN_SIZE /\ u * ALIGN_SIZE = AlignDown(a)
      BY <2>1, DownIsAProduct
    <2>3. PICK d \in Int : d = AlignDown(a) /\ d <= a /\ a < d + ALIGN_SIZE /\ Aligned(d)
      BY <2>1, Alignment
    <2>4. Aligned(x) /\ Aligned(y)
      <3>1. pos + size - 1 \in Int
        OBVIOUS
      <3>2. QED
        BY <1>2, <1>5, <3>1, Alignment
    <2>5. x <= d
      BY <2>1, <2>3, <2>4, AlignDownIsGreatest
    <2>6. d <= y
      <3>1. ~(y < d)
        <4>1. y < d => y + ALIGN_SIZE <= d
          BY <2>3, <2>4, AlignedApart
        <4>2. QED
          BY <1>1, <2>3, <4>1
      <3>2. QED
        BY <2>3, <3>1
    <2>7. p <= u /\ u <= q
      <3>1. p * ALIGN_SIZE <= u * ALIGN_SIZE /\ u * ALIGN_SIZE <= q * ALIGN_SIZE
        BY <1>5, <2>2, <2>3, <2>5, <2>6
      <3>2. QED
        BY <1>1, <3>1, ProductsInOrder
    <2>8. a - d \in 0 .. ALIGN_SIZE - 1 /\ a = d + (a - d)
      BY <1>1, <2>1, <2>3
    <2>9. u \in p .. q
      BY <2>7
    <2>10. QED
      BY <2>2, <2>3, <2>8, <2>9
  <1>8. S = x .. (y + ALIGN_SIZE) - 1
    <2>1. \A a : a \in S <=> \E u \in p .. q : \E k \in 0 .. ALIGN_SIZE - 1 : a = u * ALIGN_SIZE + k
      OBVIOUS
    <2> HIDE DEF S
    <2>2. ASSUME NEW a \in S
          PROVE  a \in x .. (y + ALIGN_SIZE) - 1
      <3>1. PICK u \in p .. q, k \in 0 .. ALIGN_SIZE - 1 : a = u * ALIGN_SIZE + k
        BY <2>1, <2>2, Zenon
      <3>2. QED
        BY <1>6, <3>1, Zenon
    <2>3. ASSUME NEW a \in x .. (y + ALIGN_SIZE) - 1
          PROVE  a \in S
      BY <1>7, <2>1, Zenon
    <2>4. QED
      BY <2>2, <2>3, Zenon
  <1> HIDE DEF S
  <1>9. QED
    BY <1>2, <1>3, <1>4, <1>5, <1>8

\* A stretch of free memory of the heap lies in one node of its region's list.
LEMMA RoomInAStretch ==
    ASSUME NEW lmm, IsLmm(lmm), HasBorders(lmm), NEW bs, IsInHeap(lmm, bs),
           NEW from \in Int, NEW to \in Int, from < to, from .. to - 1 \subseteq Bytes(lmm),
           NEW pos \in Int, NEW size \in Int, from <= pos, pos + size <= to
    PROVE  HasRoomAt(lmm, pos, size)
  <1>1. from \in Bytes(lmm)
    <2>1. from \in from .. to - 1
      OBVIOUS
    <2>2. QED
      BY <2>1
  <1>2. PICK i \in 1 .. Len(lmm) : from \in ListBytes(lmm[i].nodes)
    BY <1>1, RegionBytes
  <1>3. PICK nodes, lo, hi : nodes = lmm[i].nodes /\ lo = lmm[i].min /\ hi = lmm[i].max
    OBVIOUS
  <1>4. /\ lo \in Int /\ hi \in Int /\ IsFreeList(nodes, lo, hi) /\ nodes \in Seq(FreeNode)
        /\ LOW \in Int /\ MID \in Int
    BY <1>3, RegionFacts, SizesAssumption
  <1>5. lo <= from /\ from < hi
    BY <1>2, <1>3, RegionBytes
  <1>6. LOW <= from /\ from < MID
    BY <1>1 DEF IsInHeap
  <1>7. hi = MID
    BY <1>3, <1>5, <1>6, RegionOfAByte
  <1>8. \A a \in from .. to - 1 : a \in ListBytes(nodes)
    <2>1. TAKE a \in from .. to - 1
    <2>2. a \in Bytes(lmm) /\ a \in Int /\ from <= a
      BY <2>1
    <2>3. a < MID
      BY <2>2 DEF IsInHeap
    <2>4. lo <= a /\ a < hi
      BY <1>4, <1>5, <1>7, <2>2, <2>3
    <2>5. QED
      BY <1>3, <2>2, <2>4, RegionBytes
  <1>9. PICK j \in 1 .. Len(nodes) : nodes[j].at <= from /\ to <= nodes[j].at + nodes[j].size
    BY <1>4, <1>8, StretchInANode
  <1>10. PICK x \in Int, y \in Int : x = nodes[j].at /\ y = nodes[j].size
    BY <1>4, NodeTypes
  <1>11. x <= pos /\ pos + size <= x + y
    BY <1>9, <1>10
  <1>12. QED
    BY <1>3, <1>10, <1>11 DEF HasRoomAt

\* What the lmm makes of a request is what AddressSpace allows: nothing, if no
\* free stretch would do, or a stretch as aligned as it was asked for.
NoRoom(lmm, size, align, offset) ==
    \A a \in Bytes(lmm) : a % align = offset =>
        ~(AlignDown(a) .. End(a, size) - 1 \subseteq Bytes(lmm))
Answers(res, lmm, size, align, offset) ==
    \/ res = Failed(lmm) /\ NoRoom(lmm, size, align, offset)
    \/ Took(res, lmm, size) /\ res.at % align = offset /\ res.at # NULL

\* NULL is no address in malloc's memory.
LEMMA TakenIsNotNull ==
    ASSUME NEW lmm, NEW bs, IsInHeap(lmm, bs), NEW size \in Nat \ {0}, NEW res,
           Took(res, lmm, size)
    PROVE  res.at # NULL
  <1>1. PICK pos \in Int, d \in Int, e \in Int :
           pos = res.at /\ d = AlignDown(pos) /\ e = End(pos, size) /\ d <= pos /\ d < e
    BY UnitsOfABlock DEF Took
  <1>2. d \in Bytes(lmm)
    <2>1. d .. e - 1 \subseteq Bytes(lmm)
      BY <1>1 DEF Took
    <2>2. d \in d .. e - 1
      BY <1>1
    <2>3. QED
      BY <2>1, <2>2
  <1>3. LOW <= d /\ LOW \in Int /\ 0 < LOW
    BY <1>2, SizesAssumption DEF IsInHeap
  <1>4. 0 < pos
    BY <1>1, <1>3
  <1>5. QED
    BY <1>1, <1>4 DEF NULL

\* lmm_alloc refuses a request only if no stretch of free units would do.
LEMMA lmm_alloc_answers ==
    ASSUME NEW lmm, IsLmm(lmm), HasBorders(lmm), NEW bs, IsInHeap(lmm, bs),
           NEW size \in Nat \ {0}, AlignUp(size) < SIZE_RANGE
    PROVE  Answers(lmm_alloc(lmm, size, {}), lmm, size, 1, 0)
  <1>1. PICK res : res = lmm_alloc(lmm, size, {})
    OBVIOUS
  <1>2. \/ res = Failed(lmm) /\ \A a \in Int : ~HasRoomAt(lmm, a, AlignUp(size))
        \/ Took(res, lmm, size)
    BY <1>1, lmm_alloc_takes
  <1>3. CASE Took(res, lmm, size)
    <2>1. res.at # NULL
      BY <1>3, TakenIsNotNull
    <2>2. PICK pos \in Int : pos = res.at
      BY <1>3 DEF Took
    <2>3. pos % 1 = 0
      OBVIOUS
    <2>4. QED
      BY <1>1, <1>3, <2>1, <2>2, <2>3 DEF Answers
  <1>4. ASSUME \A a \in Int : ~HasRoomAt(lmm, a, AlignUp(size)), NEW a \in Bytes(lmm),
               AlignDown(a) .. End(a, size) - 1 \subseteq Bytes(lmm)
        PROVE  FALSE
    <2>1. a \in Int
      BY RegionBytes
    <2>2. PICK d, e, s : d = AlignDown(a) /\ e = End(a, size) /\ s = AlignUp(size)
      OBVIOUS
    <2>3. /\ d \in Int /\ e \in Int /\ s \in Int /\ Aligned(d) /\ Aligned(e)
          /\ d <= a /\ a + size <= e /\ d < e
      BY <2>1, <2>2, UnitsOfABlock, Alignment
    <2>4. s <= e - d
      <3>1. e - d \in Int /\ Aligned(e - d) /\ size <= e - d
        <4>1. d \in Int /\ e \in Int /\ Aligned(d) /\ Aligned(e)
          BY <2>1, <2>3
        <4>2. Aligned(e - d)
          BY <4>1, AlignedSum
        <4>3. e - d \in Int /\ size <= e - d
          BY <2>1, <2>3
        <4>4. QED
          BY <4>2, <4>3
      <3>2. PICK t \in Int : t = e - d
        BY <3>1
      <3>3. s <= t
        BY <2>2, <3>1, <3>2, AlignDownIsGreatest
      <3>4. QED
        BY <3>2, <3>3
    <2>5. d + s <= e
      BY <2>3, <2>4
    <2>6. HasRoomAt(lmm, d, s)
      BY <1>4, <2>2, <2>3, <2>5, RoomInAStretch
    <2>7. QED
      BY <1>4, <2>2, <2>3, <2>6
  <1>5. QED
    BY <1>1, <1>2, <1>3, <1>4 DEF Answers, NoRoom

\* lmm_alloc_gen refuses one only if no such stretch would do at an address that is
\* aligned as asked, and gives an address that is.
LEMMA lmm_alloc_gen_answers ==
    ASSUME NEW lmm, IsLmm(lmm), HasBorders(lmm), NEW bs, IsInHeap(lmm, bs),
           NEW size \in Nat \ {0}, NEW bits, 2 ^ bits \in Nat \ {0}, NEW ofs \in Int
    PROVE  Answers(lmm_alloc_gen(lmm, size, {}, bits, ofs, 0, NoLimit(lmm)),
                   lmm, size, 2 ^ bits, ofs % (2 ^ bits))
  <1>1. PICK res, top : res = lmm_alloc_gen(lmm, size, {}, bits, ofs, 0, top) /\ top = NoLimit(lmm)
    OBVIOUS
  <1>2. AllWillDo(lmm, {}, 0, top)
    <2>1. top \in Int /\ \A i \in 1 .. Len(lmm) : lmm[i].max < top
      BY <1>1, NoLimitIsAbove
    <2>2. \A i \in 1 .. Len(lmm) : lmm[i].max <= top
      <3>1. \A i \in 1 .. Len(lmm) : lmm[i].max \in Int
        BY RegionFacts
      <3>2. QED
        BY <2>1, <3>1
    <2>3. QED
      BY <2>1, <2>2 DEF AllWillDo
  <1>3. \/ /\ res = Failed(lmm)
           /\ \A a \in Int : a % (2 ^ bits) = ofs % (2 ^ bits) => ~HasRoomAt(lmm, a, size)
        \/ Took(res, lmm, size) /\ res.at % (2 ^ bits) = ofs % (2 ^ bits)
    <2>1. 0 \in Int
      OBVIOUS
    <2>2. QED
      BY <1>1, <1>2, <2>1, lmm_alloc_gen_takes
  <1>4. CASE Took(res, lmm, size) /\ res.at % (2 ^ bits) = ofs % (2 ^ bits)
    <2>1. res.at # NULL
      BY <1>4, TakenIsNotNull
    <2>2. QED
      BY <1>1, <1>4, <2>1 DEF Answers
  <1>5. ASSUME NEW a \in Bytes(lmm), ~HasRoomAt(lmm, a, size),
               AlignDown(a) .. End(a, size) - 1 \subseteq Bytes(lmm)
        PROVE  FALSE
    <2>1. a \in Int
      BY RegionBytes
    <2>2. PICK d, e : d = AlignDown(a) /\ e = End(a, size)
      OBVIOUS
    <2>3. d \in Int /\ e \in Int /\ d <= a /\ a + size <= e /\ d < e
      BY <2>1, <2>2, UnitsOfABlock
    <2>4. HasRoomAt(lmm, a, size)
      BY <1>5, <2>1, <2>2, <2>3, RoomInAStretch
    <2>5. QED
      BY <1>5, <2>4
  <1>6. \A a \in Bytes(lmm) : a \in Int
    BY RegionBytes
  <1>7. QED
    BY <1>1, <1>3, <1>4, <1>5, <1>6 DEF Answers, NoRoom

\* The blocks as AddressSpace has them, and the memory malloc is to have.
Asked(b) == [at |-> b.at - HeaderOf(b.kind), size |-> b.size + HeaderOf(b.kind)]
LentOf(bs) == {Asked(b) : b \in bs}
Owned(holes) == {a \in LOW .. MID - 1 : UnitFree(holes, a)}

\* The bytes of the lists are what FreeBytes says.
LEMMA FreeIsFree == FreeBytes = Bytes(malloc_lmm) /\ FreeBytes' = Bytes(malloc_lmm')
  BY DEF FreeBytes, Bytes, ListBytes

\* A block as AddressSpace has it.
LEMMA AskedIsWhole ==
    ASSUME NEW b
    PROVE  Asked(b) = [at |-> Start(b), size |-> Whole(b)]
  BY DEF Asked, Start, Whole

\* Its units are the ones the block has of its own.
LEMMA ExtentOfAsked ==
    ASSUME NEW b \in LentType
    PROVE  Space!Extent(Asked(b)) = From(b) .. To(b) - 1
  <1>1. PICK pos \in Int, size \in Nat \ {0} : pos = Start(b) /\ size = Whole(b)
    BY BlockFacts
  <1>2. Space!Extent([at |-> pos, size |-> size]) = AlignDown(pos) .. End(pos, size) - 1
    BY ExtentOfABlock
  <1>3. Asked(b) = [at |-> pos, size |-> size]
    BY <1>1, AskedIsWhole
  <1>4. QED
    BY <1>1, <1>2, <1>3 DEF From, To

\* Blocks that are apart are not lent at the same address.
LEMMA LentApartly ==
    ASSUME NEW lmm, NEW bs, BlocksApart(bs, lmm), NEW b \in bs
    PROVE  LentOf(bs \ {b}) = LentOf(bs) \ {Asked(b)}
  <1>1. ASSUME NEW c \in bs, c # b
        PROVE  Asked(c) # Asked(b)
    <2>1. b \in LentType /\ c \in LentType
      BY DEF BlocksApart
    <2>2. SUFFICES ASSUME Asked(c) = Asked(b)
                   PROVE  FALSE
      OBVIOUS
    <2>3. Start(c) = Start(b)
      BY <2>2 DEF Asked, Start
    <2>4. From(c) = From(b)
      BY <2>3 DEF From
    <2>5. PICK f \in Int, t \in Int, u \in Int : f = From(b) /\ t = To(b) /\ u = To(c) /\ f < t /\ f < u
      BY <2>1, <2>4, BlockFacts
    <2>6. f \in f .. t - 1 /\ f \in f .. u - 1
      BY <2>5
    <2>7. QED
      BY <1>1, <2>4, <2>5, <2>6 DEF BlocksApart
  <1> HIDE DEF Asked
  <1>2. \A c \in bs : c # b => Asked(c) # Asked(b)
    BY <1>1
  <1>3. QED
    BY <1>2 DEF LentOf

\* What is lent and what is taken back lies between LOW and MID.
LEMMA LentInHeap ==
    ASSUME NEW lmm, NEW bs, IsInHeap(lmm, bs), NEW b \in LentType, NEW res,
           Took(res, lmm, Whole(b)), res.at = Start(b)
    PROVE  IsInHeap(res.lmm, bs \cup {b})
  <1>1. PICK f \in Int, t \in Int : f = From(b) /\ t = To(b) /\ f < t
    BY BlockFacts
  <1>2. Bytes(res.lmm) \subseteq Bytes(lmm) /\ f .. t - 1 \subseteq Bytes(lmm)
    BY <1>1 DEF Took, Shrunk, From, To
  <1>3. f \in Bytes(lmm) /\ t - 1 \in Bytes(lmm)
    <2>1. f \in f .. t - 1 /\ t - 1 \in f .. t - 1
      BY <1>1
    <2>2. QED
      BY <1>2, <2>1
  <1>4. LOW <= f /\ t - 1 < MID /\ MID \in Int
    BY <1>3, SizesAssumption DEF IsInHeap
  <1>5. t <= MID
    BY <1>4
  <1>6. QED
    BY <1>1, <1>2, <1>4, <1>5 DEF IsInHeap

\* And so do the bytes the lists have after a free.
LEMMA FreedInHeap ==
    ASSUME NEW lmm, NEW bs, IsInHeap(lmm, bs), NEW b \in bs, b \in LentType, NEW new,
           Bytes(new) = Bytes(lmm) \cup (From(b) .. To(b) - 1)
    PROVE  IsInHeap(new, bs \ {b})
  <1>1. PICK f \in Int, t \in Int : f = From(b) /\ t = To(b)
    BY BlockFacts
  <1>2. LOW <= f /\ t <= MID /\ LOW \in Int /\ MID \in Int
    BY <1>1, SizesAssumption DEF IsInHeap
  <1>3. \A a \in f .. t - 1 : LOW <= a /\ a < MID
    BY <1>2
  <1>4. QED
    BY <1>1, <1>3 DEF IsInHeap

\* What AddressSpace's variables are while the kernel runs.
LEMMA StepInSpace ==
    ASSUME mbi' = mbi,
           \/ Space!Booting \/ Space!Boot
           \/ Space!Lend \/ Space!Refuse \/ Space!Reclaim \/ Space!Move \/ Space!Break
    PROVE  Space!ANext
  BY DEF Space!ANext

\* A step that changes no state keeps SpaceInv.
LEMMA StutterInSpace ==
    ASSUME mbi' = mbi, phase' = phase, malloc_lmm' = malloc_lmm, blocks' = blocks,
           call' = call, at' = at
    PROVE  UNCHANGED Space!avars
  BY DEF Space!avars, FreeBytes

RunsOn(lmm, bs) == HasBorders(lmm) /\ IsInHeap(lmm, bs)

\* After the boot only what is free and lent counts.
LEMMA RunKeepsSpace ==
    ASSUME phase' = "run", RunsOn(malloc_lmm', blocks')
    PROVE  SpaceInv'
  BY DEF SpaceInv, SpaceGoes, RunsOn

\* A block got out of free bytes is AddressSpace's Lend.
LEMMA LendIsALend ==
    ASSUME phase = "run", phase' = "run", NEW b \in LentType,
           at' = Start(b), at' # NULL, call'.size = Whole(b),
           at' % call'.align = call'.offset,
           blocks' = blocks \cup {b},
           From(b) .. To(b) - 1 \subseteq Bytes(malloc_lmm),
           Bytes(malloc_lmm') = Bytes(malloc_lmm) \ (From(b) .. To(b) - 1)
    PROVE  Space!Lend
  <1>1. Space!Asked(at') = Asked(b)
    BY AskedIsWhole DEF Space!Asked
  <1>2. Space!Extent(Asked(b)) = From(b) .. To(b) - 1
    BY ExtentOfAsked
  <1>3. LentOf(blocks') = LentOf(blocks) \cup {Asked(b)}
    <2> HIDE DEF Asked
    <2>1. QED
      BY DEF LentOf
  <1>4. Space!Aligned(at')
    BY DEF Space!Aligned
  <1>5. /\ Space!Extent(Space!Asked(at')) \subseteq FreeBytes
        /\ FreeBytes' = FreeBytes \ Space!Extent(Space!Asked(at'))
    BY <1>1, <1>2, FreeIsFree
  <1>6. LentOf(blocks)' = LentOf(blocks) \cup {Space!Asked(at')}
    BY <1>1, <1>3
  <1>7. QED
    BY <1>4, <1>5, <1>6 DEF Space!Lend, LentOf, Asked, NULL

\* A request no stretch would do for is its Refuse.
LEMMA RefuseIsARefuse ==
    ASSUME phase = "run", phase' = "run", at' = NULL, call' # call \/ at' # at,
           blocks' = blocks, malloc_lmm' = malloc_lmm,
           NEW size \in Nat \ {0}, call'.size = size,
           IsLmm(malloc_lmm), NoRoom(malloc_lmm, size, call'.align, call'.offset)
    PROVE  Space!Refuse
  <1>1. ASSUME NEW a \in FreeBytes, Space!Aligned(a), Space!Extent(Space!Asked(a)) \subseteq FreeBytes
        PROVE  FALSE
    <2>1. a \in Bytes(malloc_lmm) /\ a \in Int
      BY FreeIsFree, RegionBytes
    <2>2. a % call'.align = call'.offset
      BY <1>1 DEF Space!Aligned
    <2>3. Space!Asked(a) = [at |-> a, size |-> size]
      BY DEF Space!Asked
    <2>4. Space!Extent([at |-> a, size |-> size]) = AlignDown(a) .. End(a, size) - 1
      BY <2>1, ExtentOfABlock
    <2>5. AlignDown(a) .. End(a, size) - 1 \subseteq Bytes(malloc_lmm)
      BY <1>1, <2>3, <2>4, FreeIsFree
    <2>6. QED
      BY <2>1, <2>2, <2>5 DEF NoRoom
  <1>2. FreeBytes' = FreeBytes
    BY DEF FreeBytes
  <1>3. QED
    BY <1>1, <1>2 DEF Space!Refuse, NULL

\* A block that is freed is its Reclaim.
LEMMA ReclaimIsAReclaim ==
    ASSUME phase = "run", phase' = "run", at' = NULL,
           BlocksApart(blocks, malloc_lmm), NEW b \in blocks, blocks' = blocks \ {b},
           Bytes(malloc_lmm') = Bytes(malloc_lmm) \cup (From(b) .. To(b) - 1)
    PROVE  Space!Reclaim
  <1>1. b \in LentType
    BY DEF BlocksApart
  <1>2. Space!Extent(Asked(b)) = From(b) .. To(b) - 1
    BY <1>1, ExtentOfAsked
  <1>3. LentOf(blocks)' = LentOf(blocks) \ {Asked(b)}
    BY LentApartly
  <1>4. FreeBytes' = FreeBytes \cup Space!Extent(Asked(b))
    BY <1>2, FreeIsFree
  <1>5. Asked(b) \in LentOf(blocks)
    BY DEF LentOf
  <1>6. PICK r : r = Asked(b)
    OBVIOUS
  <1>7. \E c \in LentOf(blocks) : /\ LentOf(blocks)' = LentOf(blocks) \ {c}
                                  /\ FreeBytes' = FreeBytes \cup Space!Extent(c)
    BY <1>3, <1>4, <1>5
  <1>8. QED
    BY <1>7 DEF Space!Reclaim, LentOf, Asked, NULL

\* A block that _realloc copied is its Move.
LEMMA MoveIsAMove ==
    ASSUME phase = "run", phase' = "run",
           BlocksApart(blocks, malloc_lmm), NEW b \in blocks, NEW new \in LentType,
           at' = Start(new), at' # NULL, call'.size = Whole(new),
           blocks' = (blocks \ {b}) \cup {new},
           From(new) .. To(new) - 1 \subseteq Bytes(malloc_lmm),
           Bytes(malloc_lmm') =
              (Bytes(malloc_lmm) \ (From(new) .. To(new) - 1)) \cup (From(b) .. To(b) - 1)
    PROVE  Space!Move
  <1>1. b \in LentType
    BY DEF BlocksApart
  <1>2. /\ Space!Extent(Asked(b)) = From(b) .. To(b) - 1
        /\ Space!Extent(Asked(new)) = From(new) .. To(new) - 1
    BY <1>1, ExtentOfAsked
  <1>3. Space!Asked(at') = Asked(new)
    BY AskedIsWhole DEF Space!Asked
  <1>4. LentOf(blocks)' = (LentOf(blocks) \ {Asked(b)}) \cup {Space!Asked(at')}
    <2>1. LentOf(blocks \ {b}) = LentOf(blocks) \ {Asked(b)}
      BY LentApartly
    <2> HIDE DEF Asked
    <2>2. LentOf(blocks') = LentOf(blocks \ {b}) \cup {Asked(new)}
      BY DEF LentOf
    <2>3. QED
      BY <1>3, <2>1, <2>2
  <1>5. /\ Space!Extent(Space!Asked(at')) \subseteq FreeBytes
        /\ FreeBytes' = (FreeBytes \ Space!Extent(Space!Asked(at'))) \cup Space!Extent(Asked(b))
    BY <1>2, <1>3, FreeIsFree
  <1>6. Asked(b) \in LentOf(blocks)
    BY DEF LentOf
  <1>7. \E c \in LentOf(blocks) :
            /\ LentOf(blocks)' = (LentOf(blocks) \ {c}) \cup {Space!Asked(at')}
            /\ FreeBytes' = (FreeBytes \ Space!Extent(Space!Asked(at'))) \cup Space!Extent(c)
    BY <1>4, <1>5, <1>6
  <1>8. QED
    BY <1>5, <1>7 DEF Space!Move, LentOf, Asked, NULL

\* A step that AddressSpace allows, or does not see, and that keeps what is needed
\* to show it.
IsSpaceStep == (Space!ANext \/ UNCHANGED Space!avars) /\ SpaceInv'

\* The boot is one, until its last round gives malloc just what it is to have.
LEMMA BootingIsAStep ==
    ASSUME phase # "run", phase' # "run", blocks' = blocks, at' = at, mbi' = mbi
    PROVE  Space!ANext
  <1>1. Space!Booting
    BY DEF Space!Booting
  <1>2. QED
    BY <1>1, StepInSpace

\* The last round is its Boot.
LEMMA BootedIsAStep ==
    ASSUME phase # "run", phase' = "run", blocks' = blocks, at' = at, mbi' = mbi,
           mbi \in BootInfos, IsLmm(malloc_lmm'), IsLastRound(malloc_lmm', Holes)
    PROVE  Space!ANext
  <1>1. LOW \in Int /\ MID \in Int
    BY SizesAssumption
  <1>2. Bytes(malloc_lmm') = Owned(Holes)
    <2>1. PICK new, holes : new = malloc_lmm' /\ holes = Holes
      OBVIOUS
    <2>2. ASSUME NEW a \in Bytes(new)
          PROVE  a \in LOW .. MID - 1
      <3>1. LOW <= a /\ a < MID
        BY <2>1 DEF IsLastRound
      <3>2. a \in Int
        BY <2>1, <2>2, RegionBytes
      <3>3. QED
        BY <1>1, <3>1, <3>2
    <2>3. \A a \in LOW .. MID - 1 : a \in Bytes(new) <=> UnitFree(holes, a)
      <3>1. TAKE a \in LOW .. MID - 1
      <3>2. a \in Int /\ LOW <= a /\ a < MID
        BY <1>1
      <3>3. QED
        BY <2>1, <3>2 DEF IsLastRound, IsHeap
    <2>4. QED
      BY <2>1, <2>2, <2>3 DEF Owned
  <1>3. FreeBytes' = HeapOf[mbi]
    <2>1. \A a : IsHeld(mbi, a) <=> Taken(Holes, a)
      BY DEF IsHeld, Holes, Taken
    <2>2. \A a : UnitFree(Holes, a) <=>
                    \A k \in 0 .. ALIGN_SIZE - 1 : ~IsHeld(mbi, AlignDown(a) + k)
      BY <2>1 DEF UnitFree
    <2>3. HeapOf[mbi] = {a \in LOW .. MID - 1 :
                           \A k \in 0 .. ALIGN_SIZE - 1 : ~IsHeld(mbi, AlignDown(a) + k)}
      BY DEF HeapOf
    <2>4. QED
      BY <1>2, <2>2, <2>3, FreeIsFree DEF Owned
  <1>4. Space!Boot
    BY <1>3 DEF Space!Boot
  <1>5. QED
    BY <1>4, StepInSpace

\* So every step of the boot is a step of an address space.
LEMMA BootIsAStep ==
    ASSUME SoundInv, BootInv, SpaceInv, mb_entry
    PROVE  IsSpaceStep
  <1>1. CASE mb_util_lmm
    <2>1. SpaceInv'
      BY <1>1, UtilKeepsSpace
    <2>2. phase = "util_lmm" /\ phase' \in {"util_lmm", "panic"}
          /\ blocks' = blocks /\ at' = at /\ mbi' = mbi
      BY <1>1 DEF mb_util_lmm
    <2>3. QED
      BY <2>1, <2>2, BootingIsAStep DEF IsSpaceStep
  <1>2. CASE util_lmm_done
    <2>1. SpaceInv'
      BY <1>2, UtilDoneKeepsSpace
    <2>2. /\ phase = "util_lmm" /\ phase' = "remove_low"
          /\ blocks' = blocks /\ at' = at /\ mbi' = mbi
      BY <1>2 DEF util_lmm_done
    <2>3. QED
      BY <2>1, <2>2, BootingIsAStep DEF IsSpaceStep
  <1>3. CASE remove_free("remove_low", LOW, "remove_user")
    <2>1. SpaceInv'
      BY <1>3, RemoveLowKeepsSpace
    <2>2. /\ phase = "remove_low" /\ phase' \in {"remove_low", "remove_user"}
          /\ blocks' = blocks /\ at' = at /\ mbi' = mbi
      BY <1>3 DEF remove_free
    <2>3. QED
      BY <2>1, <2>2, BootingIsAStep DEF IsSpaceStep
  <1>4. CASE remove_free("remove_user", AlignDown(INF), "run")
    <2>1. /\ SpaceInv' /\ phase' \in {"remove_user", "run"}
          /\ phase' = "run" => IsLastRound(malloc_lmm', Holes)
      BY <1>4, RemoveUserKeepsSpace
    <2>2. phase = "remove_user" /\ blocks' = blocks /\ at' = at /\ mbi' = mbi
      BY <1>4 DEF remove_free
    <2>3. CASE phase' = "run"
      <3>1. IsLmm(malloc_lmm') /\ mbi \in BootInfos
        BY BootKeepsInv DEF SoundInv
      <3>2. QED
        BY <2>1, <2>2, <2>3, <3>1, BootedIsAStep DEF IsSpaceStep
    <2>4. CASE phase' = "remove_user"
      BY <2>1, <2>2, <2>4, BootingIsAStep DEF IsSpaceStep
    <2>5. QED
      BY <2>1, <2>3, <2>4
  <1>5. QED
    BY <1>1, <1>2, <1>3, <1>4 DEF mb_entry

\* What the invariants say after the boot.
LEMMA RunIsInHeap ==
    ASSUME SoundInv, SpaceInv, phase = "run"
    PROVE  /\ IsLmm(malloc_lmm) /\ HasBorders(malloc_lmm) /\ IsInHeap(malloc_lmm, blocks)
           /\ BlocksApart(blocks, malloc_lmm) /\ BytesKept(blocks, memory)
  BY DEF SoundInv, SpaceInv, SpaceGoes

\* A request that is out of range is for more than AddressSpace's limit.
LEMMA OutOfRange ==
    ASSUME NEW size \in Nat, ~(AlignUp(size) < SIZE_RANGE)
    PROVE  size > SIZE_RANGE - ALIGN_SIZE
  <1>1. PICK up \in Int : up = AlignUp(size) /\ up < size + ALIGN_SIZE /\ ~(up < SIZE_RANGE)
    BY Alignment
  <1>2. QED
    BY <1>1, RangeAssumption, AlignAssumption

\* No stretch of the heap would do for it.
LEMMA OutOfRangeHasNoRoom ==
    ASSUME NEW lmm, IsLmm(lmm), NEW bs, IsInHeap(lmm, bs), NEW size \in Nat \ {0},
           ~(AlignUp(size) < SIZE_RANGE), NEW align, NEW offset
    PROVE  NoRoom(lmm, size, align, offset)
  <1>1. ASSUME NEW a \in Bytes(lmm), AlignDown(a) .. End(a, size) - 1 \subseteq Bytes(lmm)
        PROVE  FALSE
    <2>1. a \in Int
      BY RegionBytes
    <2>2. PICK d \in Int, e \in Int, up \in Int :
             /\ d = AlignDown(a) /\ e = End(a, size) /\ up = AlignUp(size)
             /\ Aligned(d) /\ Aligned(e) /\ d <= a /\ a + size <= e /\ d < e
      <3>1. PICK d, e, up : d = AlignDown(a) /\ e = End(a, size) /\ up = AlignUp(size)
        OBVIOUS
      <3>2. /\ d \in Int /\ e \in Int /\ up \in Int /\ Aligned(d) /\ Aligned(e)
            /\ d <= a /\ a + size <= e /\ d < e
        BY <2>1, <3>1, UnitsOfABlock, Alignment
      <3>3. QED
        BY <3>1, <3>2
    <2>3. d \in Bytes(lmm) /\ e - 1 \in Bytes(lmm)
      <3>1. d \in d .. e - 1 /\ e - 1 \in d .. e - 1
        BY <2>2
      <3>2. QED
        BY <1>1, <2>2, <3>1
    <2>4. LOW <= d /\ e - 1 < MID
      BY <2>3 DEF IsInHeap
    <2>5. up <= e - d
      <3>1. e - d \in Int /\ Aligned(e - d) /\ size <= e - d
        <4>1. d \in Int /\ e \in Int /\ Aligned(d) /\ Aligned(e)
          BY <2>1, <2>2
        <4>2. Aligned(e - d)
          BY <4>1, AlignedSum
        <4>3. e - d \in Int /\ size <= e - d
          BY <2>1, <2>2
        <4>4. QED
          BY <4>2, <4>3
      <3>2. PICK t \in Int : t = e - d
        BY <3>1
      <3>3. up <= t
        BY <2>2, <3>1, <3>2, AlignDownIsGreatest
      <3>4. QED
        BY <3>2, <3>3
    <2>6. /\ LOW \in Nat /\ MID \in Nat /\ INF \in Nat /\ SIZE_RANGE \in Nat
          /\ MID < INF /\ INF < SIZE_RANGE
      BY SizesAssumption, RangeAssumption
    <2>7. up < SIZE_RANGE
      BY <2>2, <2>4, <2>5, <2>6
    <2>8. QED
      BY <2>2, <2>7
  <1>2. QED
    BY <1>1 DEF NoRoom

\* One whose size has wrapped is AddressSpace's Break, if it is granted or asserted.
LEMMA BreakIsAStep ==
    ASSUME phase = "run", phase' \in {"asserted", "overrun"}, mbi' = mbi,
           NEW size \in Nat, size = call'.size, ~(AlignUp(size) < SIZE_RANGE)
    PROVE  IsSpaceStep
  <1>1. call'.size > SIZE_RANGE - ALIGN_SIZE
    BY OutOfRange
  <1>2. Space!Break
    BY <1>1 DEF Space!Break
  <1>3. SpaceInv'
    BY DEF SpaceInv, SpaceGoes
  <1>4. QED
    BY <1>2, <1>3, StepInSpace DEF IsSpaceStep

\* One that is not granted because no stretch would do is its Refuse, or a stutter.
LEMMA NoneIsAStep ==
    ASSUME SoundInv, SpaceInv, NoneIsLent, phase = "run", phase' = "run", mbi' = mbi,
           NEW size \in Nat \ {0}, call'.size = size,
           NoRoom(malloc_lmm, size, call'.align, call'.offset)
    PROVE  IsSpaceStep
  <1>1. at' = NULL /\ malloc_lmm' = malloc_lmm /\ blocks' = blocks
    BY DEF NoneIsLent
  <1>2. IsLmm(malloc_lmm) /\ HasBorders(malloc_lmm) /\ IsInHeap(malloc_lmm, blocks)
    BY RunIsInHeap
  <1>3. SpaceInv'
    BY <1>1, <1>2, RunKeepsSpace DEF RunsOn
  <1>4. CASE call' = call /\ at' = at
    <2>1. UNCHANGED Space!avars
      BY <1>1, <1>4, StutterInSpace
    <2>2. QED
      BY <1>3, <2>1 DEF IsSpaceStep
  <1>5. CASE call' # call \/ at' # at
    <2>1. Space!Refuse
      BY <1>1, <1>2, <1>5, RefuseIsARefuse
    <2>2. QED
      BY <1>3, <2>1, StepInSpace DEF IsSpaceStep
  <1>6. QED
    BY <1>4, <1>5

\* A call that asks for memory is one.
LEMMA LendsIsAStep ==
    ASSUME SoundInv, SpaceInv, NEW res, NEW size \in Nat \ {0},
           NEW kind \in {"word", "sized", "page"}, NEW zero \in BOOLEAN, NEW align,
           InRange(size, kind) =>
              Answers(res, malloc_lmm, size + HeaderOf(kind), align,
                      (align - HeaderOf(kind)) % align),
           Lends({res}, size, kind, zero, align)
    PROVE  IsSpaceStep
  <1> DEFINE b == [at |-> res.at + HeaderOf(kind), size |-> size, kind |-> kind, zero |-> zero]
  <1>1. /\ phase = "run" /\ mbi' = mbi
        /\ call' = Called(size, kind, align)
        /\ \/ NoneIsLent /\ phase' = "asserted" /\ Request(size, kind) = 0
           \/ NoneIsLent /\ phase' = "run" /\ res.at = NULL
           \/ ~InRange(size, kind) /\ phase' = "overrun"
           \/ IsLent(res, b)
    BY LendsOutcome
  <1>3. IsLmm(malloc_lmm) /\ HasBorders(malloc_lmm) /\ IsInHeap(malloc_lmm, blocks)
    BY <1>1, RunIsInHeap
  <1>4. /\ call'.size = size + HeaderOf(kind) /\ call'.align = align
        /\ call'.offset = (align - HeaderOf(kind)) % align
    BY <1>1 DEF Called
  <1>5. PICK h \in Nat : h = HeaderOf(kind)
    BY WordAssumption DEF HeaderOf
  <1>2. PICK s \in Nat \ {0} : s = size + HeaderOf(kind)
    <2>1. size + h \in Nat \ {0}
      OBVIOUS
    <2>2. QED
      BY <1>5, <2>1
  <1>9. InRange(size, kind) <=> AlignUp(s) < SIZE_RANGE
    BY <1>2 DEF InRange
  <1>10. CASE ~InRange(size, kind) /\ phase' \in {"asserted", "overrun"}
    BY <1>1, <1>2, <1>4, <1>9, <1>10, BreakIsAStep
  <1>11. CASE NoneIsLent /\ phase' = "asserted" /\ Request(size, kind) = 0
    <2>1. ~InRange(size, kind)
      BY <1>2, <1>11, RequestInRange
    <2>2. QED
      BY <1>10, <1>11, <2>1
  <1>6. CASE NoneIsLent /\ phase' = "run" /\ res.at = NULL
    <2>1. CASE InRange(size, kind)
      <3>1. NoRoom(malloc_lmm, s, call'.align, call'.offset)
        BY <1>2, <1>4, <1>6, <2>1 DEF Answers
      <3>2. QED
        BY <1>1, <1>2, <1>4, <1>6, <3>1, NoneIsAStep
    <2>2. CASE ~InRange(size, kind)
      <3>1. NoRoom(malloc_lmm, s, call'.align, call'.offset)
        BY <1>3, <1>9, <2>2, OutOfRangeHasNoRoom
      <3>2. QED
        BY <1>1, <1>2, <1>4, <1>6, <3>1, NoneIsAStep
    <2>3. QED
      BY <2>1, <2>2
  <1>7. CASE IsLent(res, b)
    <2>11. InRange(size, kind) /\ at' = res.at /\ at' # NULL /\ phase' = "run"
           /\ malloc_lmm' = res.lmm /\ blocks' = blocks \cup {b}
      BY <1>7 DEF IsLent
    <2>12. /\ Took(res, malloc_lmm, size + HeaderOf(kind))
           /\ res.at % align = (align - HeaderOf(kind)) % align
      BY <2>11 DEF Answers, Failed
    <2>1. res.at \in Int
      BY <2>12 DEF Took
    <2>2. b \in LentType /\ b.kind = kind /\ b.size = size
      <3>1. res.at + HeaderOf(kind) \in Int
        BY <1>5, <2>1
      <3>2. QED
        BY <3>1 DEF LentType
    <2>3. res.at = Start(b) /\ Whole(b) = size + HeaderOf(kind)
      <3>1. b.at = res.at + h /\ HeaderOf(b.kind) = h
        BY <1>5
      <3>2. (res.at + h) - h = res.at
        BY <2>1
      <3>3. QED
        BY <1>5, <3>1, <3>2 DEF Start, Whole
    <2> HIDE DEF b
    <2>5. Took(res, malloc_lmm, Whole(b))
      BY <2>3, <2>12
    <2>6. /\ SameRegions(malloc_lmm, res.lmm)
          /\ From(b) .. To(b) - 1 \subseteq Bytes(malloc_lmm)
          /\ Bytes(res.lmm) = Bytes(malloc_lmm) \ (From(b) .. To(b) - 1)
      BY <2>3, <2>5 DEF Took, Shrunk, From, To
    <2>7. IsInHeap(res.lmm, blocks \cup {b}) /\ HasBorders(res.lmm)
      BY <1>3, <2>2, <2>3, <2>5, <2>6, LentInHeap, BordersKept
    <2>8. SpaceInv'
      BY <2>7, <2>11, RunKeepsSpace DEF RunsOn
    <2>9. Space!Lend
      BY <1>1, <1>4, <2>2, <2>3, <2>6, <2>11, <2>12, LendIsALend
    <2>10. QED
      BY <1>1, <2>8, <2>9, StepInSpace DEF IsSpaceStep
  <1>8. QED
    BY <1>1, <1>6, <1>7, <1>10, <1>11

\* So is one that gives it back.
LEMMA TakesBackIsAStep ==
    ASSUME SoundInv, SpaceInv, NEW b \in blocks,
           TakesBack(b, {lmm_free(malloc_lmm, Start(b), Whole(b))})
    PROVE  IsSpaceStep
  <1> DEFINE res == lmm_free(malloc_lmm, Start(b), Whole(b))
  <1>1. /\ phase = "run"
        /\ malloc_lmm' = res.lmm
        /\ blocks' = blocks \ {b}
        /\ at' = NULL
        /\ UNCHANGED bootVars
    BY DEF TakesBack
  <1>2. phase' = "run" /\ mbi' = mbi
    BY <1>1 DEF bootVars
  <1>3. /\ IsLmm(malloc_lmm) /\ HasBorders(malloc_lmm) /\ IsInHeap(malloc_lmm, blocks)
        /\ BlocksApart(blocks, malloc_lmm) /\ b \in LentType
    BY <1>1, RunIsInHeap DEF BlocksApart
  <1>4. /\ SameRegions(malloc_lmm, res.lmm)
        /\ Bytes(res.lmm) = Bytes(malloc_lmm) \cup (From(b) .. To(b) - 1)
    BY <1>3, FreedApart
  <1> HIDE DEF res
  <1>5. HasBorders(res.lmm) /\ IsInHeap(res.lmm, blocks \ {b})
    BY <1>3, <1>4, BordersKept, FreedInHeap
  <1>6. SpaceInv'
    BY <1>1, <1>2, <1>5, RunKeepsSpace DEF RunsOn
  <1>7. Space!Reclaim
    BY <1>1, <1>2, <1>3, <1>4, ReclaimIsAReclaim
  <1>8. QED
    BY <1>2, <1>6, <1>7, StepInSpace DEF IsSpaceStep

\* n is a multiple of n.
LEMMA MultipleOfItself ==
    ASSUME NEW n \in Nat \ {0}
    PROVE  0 % n = (n - 0) % n
  <1>1. 0 = (n - 0) + (-1) * n /\ n - 0 \in Int /\ -1 \in Int /\ 0 \in Int
    OBVIOUS
  <1>2. QED
    BY <1>1, SameRemainder

\* The calls of malloc's functions are steps of an address space.
LEMMA CallsAreSteps ==
    ASSUME SoundInv, SpaceInv, NEW size \in Size,
           \/ _malloc(size) \/ _smalloc(size)
           \/ \E nelt \in Count : _calloc(nelt, size)
           \/ \E shift \in Shift : _memalign(shift, size) \/ _smemalign(shift, size)
    PROVE  IsSpaceStep
  <1>1. phase = "run"
    BY DEF _malloc, _calloc, _smalloc, _memalign, _smemalign, Lends
  <1>2. IsLmm(malloc_lmm) /\ HasBorders(malloc_lmm) /\ IsInHeap(malloc_lmm, blocks)
    BY <1>1, RunIsInHeap
  <1>3. size \in Nat \ {0} /\ WORD \in Nat \ {0} /\ size + WORD \in Nat \ {0}
    BY SizesAssumption, WordAssumption
  <1>4. HeaderOf("word") = WORD /\ HeaderOf("sized") = 0 /\ size + 0 = size
    BY <1>3 DEF HeaderOf
  <1>5. /\ TRUE \in BOOLEAN /\ FALSE \in BOOLEAN /\ "word" \in {"word", "sized", "page"}
        /\ "sized" \in {"word", "sized", "page"}
    OBVIOUS
  <1>6. (1 - WORD) % 1 = 0 /\ (1 - 0) % 1 = 0
    BY <1>3
  <1>7. ASSUME NEW total \in Nat \ {0}, NEW res,
               res = lmm_alloc(malloc_lmm, Request(total, "word"), {}), NEW zero \in BOOLEAN,
               Lends({res}, total, "word", zero, 1)
        PROVE  IsSpaceStep
    <2>1. ASSUME InRange(total, "word")
          PROVE  Answers(res, malloc_lmm, total + HeaderOf("word"), 1, (1 - HeaderOf("word")) % 1)
      <3>1. PICK s \in Nat \ {0} : s = total + WORD
        BY <1>3
      <3>2. Request(total, "word") = s /\ AlignUp(s) < SIZE_RANGE
        BY <1>4, <2>1, <3>1, RequestInRange
      <3>3. Answers(lmm_alloc(malloc_lmm, s, {}), malloc_lmm, s, 1, 0)
        BY <1>2, <3>2, lmm_alloc_answers
      <3>4. QED
        BY <1>4, <1>6, <1>7, <3>1, <3>2, <3>3
    <2>2. QED
      BY <1>5, <1>7, <2>1, LendsIsAStep
  <1>8. CASE _malloc(size)
    BY <1>3, <1>5, <1>7, <1>8 DEF _malloc
  <1>9. ASSUME NEW nelt \in Count, _calloc(nelt, size)
        PROVE  IsSpaceStep
    <2>1. nelt * size \in Nat \ {0}
      BY <1>3, CountIsPositive, ProductIsPositive
    <2>2. QED
      BY <1>5, <1>7, <1>9, <2>1 DEF _calloc
  <1>10. CASE _smalloc(size)
    <2>1. PICK res : res = lmm_alloc(malloc_lmm, size, {})
      OBVIOUS
    <2>2. ASSUME InRange(size, "sized")
          PROVE  Answers(res, malloc_lmm, size, 1, 0)
      <3>1. AlignUp(size) < SIZE_RANGE
        BY <1>3, <1>4, <2>2, RequestInRange
      <3>2. QED
        BY <1>2, <1>3, <2>1, <3>1, lmm_alloc_answers
    <2>3. InRange(size, "sized") =>
             Answers(res, malloc_lmm, size + HeaderOf("sized"), 1, (1 - HeaderOf("sized")) % 1)
      BY <1>4, <1>6, <2>2
    <2>4. Lends({res}, size, "sized", FALSE, 1)
      BY <1>10, <2>1 DEF _smalloc
    <2>5. QED
      BY <1>3, <1>5, <2>3, <2>4, LendsIsAStep
  <1>11. ASSUME NEW shift \in Shift, _memalign(shift, size)
         PROVE  IsSpaceStep
    <2>1. PICK n, s, ofs : n = 2 ^ shift /\ s = size + WORD /\ ofs = n - WORD
      OBVIOUS
    <2>2. n \in Nat \ {0} /\ s \in Nat \ {0} /\ ofs \in Int
      BY <1>3, <2>1, SizesAssumption
    <2>3. PICK res : res = lmm_alloc_aligned(malloc_lmm, Request(size, "word"), {}, shift,
                                             2 ^ shift - WORD)
      OBVIOUS
    <2>6. ASSUME InRange(size, "word")
          PROVE  Answers(res, malloc_lmm, size + HeaderOf("word"), n, (n - HeaderOf("word")) % n)
      <3>1. Request(size, "word") = s
        BY <1>3, <1>4, <2>1, <2>6, RequestInRange
      <3>2. res = lmm_alloc_gen(malloc_lmm, s, {}, shift, ofs, 0, NoLimit(malloc_lmm))
        BY <2>1, <2>3, <3>1 DEF lmm_alloc_aligned
      <3>3. Answers(res, malloc_lmm, s, n, ofs % n)
        BY <1>2, <2>1, <2>2, <3>2, lmm_alloc_gen_answers
      <3>4. QED
        BY <1>4, <2>1, <3>3
    <2>7. Lends({res}, size, "word", FALSE, n)
      BY <1>11, <2>1, <2>3 DEF _memalign
    <2>8. QED
      BY <1>3, <1>5, <2>6, <2>7, LendsIsAStep
  <1>12. ASSUME NEW shift \in Shift, _smemalign(shift, size)
         PROVE  IsSpaceStep
    <2>1. PICK n : n = 2 ^ shift
      OBVIOUS
    <2>2. n \in Nat \ {0} /\ 0 \in Int
      BY <2>1, SizesAssumption
    <2>3. PICK res : res = lmm_alloc_aligned(malloc_lmm, size, {}, shift, 0)
      OBVIOUS
    <2>4. res = lmm_alloc_gen(malloc_lmm, size, {}, shift, 0, 0, NoLimit(malloc_lmm))
      BY <2>3 DEF lmm_alloc_aligned
    <2>5. Answers(res, malloc_lmm, size, n, 0 % n)
      BY <1>2, <1>3, <2>1, <2>2, <2>4, lmm_alloc_gen_answers
    <2>6. 0 % n = (n - 0) % n
      BY <2>2, MultipleOfItself
    <2>7. Answers(res, malloc_lmm, size + HeaderOf("sized"), n, (n - HeaderOf("sized")) % n)
      BY <1>4, <2>5, <2>6
    <2>8. Lends({res}, size, "sized", FALSE, n)
      BY <1>12, <2>1, <2>3 DEF _smemalign
    <2>9. QED
      BY <1>3, <1>5, <2>7, <2>8, LendsIsAStep
  <1>13. QED
    BY <1>8, <1>9, <1>10, <1>11, <1>12

\* So is alloc_page, whose block is lent at a multiple of a page.
LEMMA PageIsAStep ==
    ASSUME SoundInv, SpaceInv, alloc_page
    PROVE  IsSpaceStep
  <1>1. phase = "run"
    BY DEF alloc_page, Lends
  <1>2. IsLmm(malloc_lmm) /\ HasBorders(malloc_lmm) /\ IsInHeap(malloc_lmm, blocks)
    BY <1>1, RunIsInHeap
  <1>3. PICK n : n = PAGE_SIZE
    OBVIOUS
  <1>4. n \in Nat \ {0} /\ n = 2 ^ PAGE_SHIFT /\ 0 \in Int
    BY <1>3, PageAssumption DEF PAGE_SIZE
  <1>5. HeaderOf("page") = 0 /\ n + 0 = n
    BY <1>4 DEF HeaderOf
  <1>6. PICK res : res = lmm_alloc_page(malloc_lmm, {})
    OBVIOUS
  <1>7. res = lmm_alloc_gen(malloc_lmm, n, {}, PAGE_SHIFT, 0, 0, NoLimit(malloc_lmm))
    BY <1>3, <1>6 DEF lmm_alloc_page
  <1>8. Answers(res, malloc_lmm, n, n, 0 % n)
    BY <1>2, <1>4, <1>7, lmm_alloc_gen_answers
  <1>9. 0 % n = (n - 0) % n
    BY <1>4, MultipleOfItself
  <1>10. Answers(res, malloc_lmm, n + HeaderOf("page"), n, (n - HeaderOf("page")) % n)
    BY <1>5, <1>8, <1>9
  <1>11. Lends({res}, n, "page", FALSE, n)
    BY <1>3, <1>6 DEF alloc_page
  <1>12. FALSE \in BOOLEAN /\ "page" \in {"word", "sized", "page"}
    OBVIOUS
  <1>13. QED
    BY <1>4, <1>10, <1>11, <1>12, LendsIsAStep

\* And so are the functions that free.
LEMMA FreesAreSteps ==
    ASSUME SoundInv, SpaceInv, NEW b \in blocks, _free(b) \/ _sfree(b) \/ free_page(b)
    PROVE  IsSpaceStep
  <1>1. TakesBack(b, {lmm_free(malloc_lmm, Start(b), Whole(b))})
    BY FreesTakeBack
  <1>2. QED
    BY <1>1, TakesBackIsAStep

\* _realloc moves the block, or is refused.
LEMMA ReallocIsAStep ==
    ASSUME SoundInv, SpaceInv, NEW b \in blocks, NEW size \in Size, _realloc(b, size)
    PROVE  IsSpaceStep
  <1> DEFINE got == lmm_alloc(malloc_lmm, Request(size, "word"), {})
             old_size == memory[Chunk(b)]
             back == lmm_free(got.lmm, Chunk(b), old_size)
             new == [b EXCEPT !.at = got.at + WORD, !.size = size]
  <1>1. /\ phase = "run" /\ mbi' = mbi
        /\ b.kind = "word"
        /\ call' = Called(size, "word", 1)
        /\ \/ NoneIsLent /\ phase' = "asserted" /\ Request(size, "word") = 0
           \/ NoneIsLent /\ phase' = "run" /\ got.at = NULL
           \/ ~InRange(size, "word") /\ phase' = "overrun"
           \/ /\ InRange(size, "word") /\ got.at # NULL /\ phase' = "run" /\ at' = got.at
              /\ malloc_lmm' = back.lmm /\ blocks' = (blocks \ {b}) \cup {new}
    BY DEF _realloc, SizeAsserted, Refused, NoneIsLent
  <1>3. /\ IsLmm(malloc_lmm) /\ HasBorders(malloc_lmm) /\ IsInHeap(malloc_lmm, blocks)
        /\ BlocksApart(blocks, malloc_lmm) /\ BytesKept(blocks, memory)
    BY <1>1, RunIsInHeap
  <1>4. size \in Nat \ {0} /\ WORD \in Nat \ {0} /\ size + WORD \in Nat \ {0}
    BY SizesAssumption, WordAssumption
  <1>5. call'.size = size + WORD /\ call'.align = 1 /\ call'.offset = 0
    <2>1. HeaderOf("word") = WORD /\ (1 - WORD) % 1 = 0
      BY <1>4 DEF HeaderOf
    <2>2. QED
      BY <1>1, <2>1 DEF Called
  <1>2. PICK s \in Nat \ {0} : s = size + WORD
    BY <1>4
  <1>10. /\ InRange(size, "word") <=> AlignUp(s) < SIZE_RANGE
         /\ InRange(size, "word") => Request(size, "word") = s
    BY <1>2, <1>4, RequestInRange DEF InRange, HeaderOf
  <1>6. InRange(size, "word") => Answers(got, malloc_lmm, s, 1, 0)
    BY <1>3, <1>10, lmm_alloc_answers
  <1>11. CASE ~InRange(size, "word") /\ phase' \in {"asserted", "overrun"}
    BY <1>1, <1>2, <1>5, <1>10, <1>11, BreakIsAStep
  <1>12. CASE NoneIsLent /\ phase' = "asserted" /\ Request(size, "word") = 0
    <2>1. ~InRange(size, "word")
      BY <1>10, <1>12
    <2>2. QED
      BY <1>11, <1>12, <2>1
  <1>7. CASE NoneIsLent /\ phase' = "run" /\ got.at = NULL
    <2>1. NoRoom(malloc_lmm, s, 1, 0)
      <3>1. CASE InRange(size, "word")
        BY <1>6, <1>7, <3>1 DEF Answers
      <3>2. CASE ~InRange(size, "word")
        BY <1>3, <1>10, <3>2, OutOfRangeHasNoRoom
      <3>3. QED
        BY <3>1, <3>2
    <2> HIDE DEF got, back, new
    <2>2. QED
      BY <1>1, <1>2, <1>5, <1>7, <2>1, NoneIsAStep
  <1>8. CASE /\ InRange(size, "word") /\ got.at # NULL /\ phase' = "run" /\ at' = got.at
             /\ malloc_lmm' = back.lmm /\ blocks' = (blocks \ {b}) \cup {new}
    <2>0. Took(got, malloc_lmm, size + WORD) /\ got.at # NULL
      BY <1>2, <1>6, <1>8 DEF Answers, Failed
    <2>1. got.at \in Int
      BY <2>0 DEF Took
    <2>2. b \in LentType /\ BytesKept({b}, memory)
      BY <1>3 DEF BlocksApart, BytesKept
    <2>3. Chunk(b) = Start(b) /\ old_size = Whole(b)
      BY <1>1, <2>2, SizeInFront
    <2>4. back = lmm_free(got.lmm, Start(b), Whole(b))
      <3> HIDE DEF got, old_size
      <3>1. QED
        BY <2>3
    <2>5. malloc_lmm' = back.lmm /\ blocks' = (blocks \ {b}) \cup {new}
      BY <1>8
    <2> HIDE DEF got, back
    <2>6. new \in LentType /\ new.kind = "word"
          /\ new.at = got.at + WORD /\ new.size = size
      <3>1. got.at + WORD \in Int
        BY <1>4, <2>1
      <3>2. QED
        BY <1>1, <1>4, <2>2, <3>1 DEF LentType
    <2>7. got.at = Start(new) /\ Whole(new) = size + WORD
      <3>1. HeaderOf(new.kind) = WORD
        BY <2>6 DEF HeaderOf
      <3>2. (got.at + WORD) - WORD = got.at
        BY <1>4, <2>1
      <3>3. QED
        BY <2>6, <3>1, <3>2 DEF Start, Whole
    <2> HIDE DEF new
    <2>8. Took(got, malloc_lmm, Whole(new))
      BY <2>0, <2>7
    <2>9. IsMoved(malloc_lmm, blocks, b, new, got, back)
      BY <1>3, <2>4, <2>6, <2>7, <2>8, MovedApart
    <2>10. /\ SameRegions(malloc_lmm, back.lmm)
           /\ Bytes(back.lmm) = (Bytes(malloc_lmm) \ (From(new) .. To(new) - 1))
                                \cup (From(b) .. To(b) - 1)
      BY <2>9 DEF IsMoved
    <2>11. /\ From(new) .. To(new) - 1 \subseteq Bytes(malloc_lmm)
           /\ Bytes(got.lmm) = Bytes(malloc_lmm) \ (From(new) .. To(new) - 1)
      BY <2>7, <2>8 DEF Took, Shrunk, From, To
    <2>12. HasBorders(back.lmm)
      BY <1>3, <2>10, BordersKept
    <2>13. IsInHeap(back.lmm, (blocks \ {b}) \cup {new})
      <3>1. IsInHeap(got.lmm, blocks \cup {new})
        BY <1>3, <2>6, <2>7, <2>8, LentInHeap
      <3>2. b \in blocks \cup {new} /\ new \notin blocks
        BY <2>9 DEF IsMoved
      <3>3. Bytes(back.lmm) = Bytes(got.lmm) \cup (From(b) .. To(b) - 1)
        BY <2>10, <2>11
      <3>4. PICK cs, l : cs = blocks \cup {new} /\ l = back.lmm
        OBVIOUS
      <3>5. IsInHeap(l, cs \ {b})
        BY <2>2, <3>1, <3>2, <3>3, <3>4, FreedInHeap
      <3>6. cs \ {b} = (blocks \ {b}) \cup {new}
        BY <3>2, <3>4
      <3>7. QED
        BY <3>4, <3>5, <3>6
    <2>14. SpaceInv'
      BY <1>8, <2>5, <2>12, <2>13, RunKeepsSpace DEF RunsOn
    <2>15. Space!Move
      BY <1>1, <1>3, <1>5, <1>8, <2>5, <2>6, <2>7, <2>10, <2>11, MoveIsAMove
    <2>16. QED
      BY <1>1, <2>14, <2>15, StepInSpace DEF IsSpaceStep
  <1>9. QED
    BY <1>1, <1>7, <1>8, <1>11, <1>12

\* Every step of Memory is one.
LEMMA StepIsInSpace ==
    ASSUME MemoryInv, BootInv, SpaceInv, [Next]_vars
    PROVE  IsSpaceStep
  <1>0. Next => SoundInv
    BY NextIsBeforeOverrun DEF MemoryInv
  <1>1. CASE mb_entry
    BY <1>0, <1>1, BootIsAStep DEF Next
  <1>2. ASSUME NEW size \in Size,
               \/ _malloc(size) \/ _smalloc(size)
               \/ \E nelt \in Count : _calloc(nelt, size)
               \/ \E shift \in Shift : _memalign(shift, size) \/ _smemalign(shift, size)
        PROVE  IsSpaceStep
    BY <1>0, <1>2, CallsAreSteps DEF Next
  <1>3. CASE alloc_page
    BY <1>0, <1>3, PageIsAStep DEF Next
  <1>4. ASSUME NEW b \in blocks, _free(b) \/ _sfree(b) \/ free_page(b)
        PROVE  IsSpaceStep
    BY <1>0, <1>4, FreesAreSteps DEF Next
  <1>5. ASSUME NEW b \in blocks, NEW size \in Size, _realloc(b, size)
        PROVE  IsSpaceStep
    BY <1>0, <1>5, ReallocIsAStep DEF Next
  <1>6. CASE UNCHANGED vars
    <2>1. UNCHANGED <<phase, mbi, min, malloc_lmm, blocks, call, at>>
      BY <1>6 DEF vars, bootVars
    <2>2. SpaceInv'
      BY <2>1 DEF SpaceInv, Holes
    <2>3. QED
      BY <2>1, <2>2, StutterInSpace DEF IsSpaceStep
  <1>7. QED
    BY <1>1, <1>2, <1>3, <1>4, <1>5, <1>6 DEF Next

\* The boot and malloc implement an allocator (lmm.c, malloc.c): after the boot it has
\* just the whole units between 1 MB and USER_MEM_START that nothing else uses; every
\* byte of them is free or lent once, and a request is refused only if no free stretch
\* would do.  Only a request for more than Limit, the largest size that can be rounded up
\* to whole units, may be the last one.
THEOREM Refinement == Spec => IsAnAllocator
  <1>1. Init => SpaceInv /\ Space!AInit
    <2>1. Init => Space!AInit
      BY DEF Init, Space!AInit, NULL
    <2>2. QED
      BY <2>1, SpaceInvInit
  <1>2. MemoryInv /\ BootInv /\ SpaceInv /\ [Next]_vars => SpaceInv' /\ [Space!ANext]_Space!avars
    BY StepIsInSpace DEF IsSpaceStep
  <1>3. Spec => [](MemoryInv /\ BootInv)
    BY BootInvInit, StepKeepsBoot, MemoryIsSound, PTL DEF Spec
  <1>4. QED
    BY <1>1, <1>2, <1>3, PTL DEF Spec, IsAnAllocator, Space!ASpec
=============================================================================

--------------------------------- MODULE Lmm ---------------------------------
(***************************************************************************)
(* The list memory manager, 410kern/lmm.  An lmm is the sequence of its    *)
(* regions, in the order of the list; a region's nodes are its free blocks *)
(* [at, size], in the order of that list.                                  *)
(*                                                                         *)
(* An operation returns the lmm it leaves behind, the bytes wrote, which   *)
(* are the list's nodes it has put into the free memory itself, and, if it *)
(* allocates, the address at (NULL if it fails).                           *)
(***************************************************************************)
EXTENDS Integers, Sequences, SequencesExt

CONSTANTS
    ALIGN_SIZE,          \* sizeof(struct lmm_node): 8 in the code
    PAGE_SHIFT,          \* 12 in the code
    PRI_RANGE,           \* lmm_pri_t is unsigned: 2^32 priorities
    SIZE_RANGE           \* vm_size_t and size_t are: 2^32 sizes

ASSUME AlignAssumption == ALIGN_SIZE \in Nat \ {0}
ASSUME PageAssumption == PAGE_SHIFT \in Nat /\ 2 ^ PAGE_SHIFT \in Nat \ {0}
ASSUME PriAssumption == PRI_RANGE \in Nat \ {0}
ASSUME RangeAssumption == SIZE_RANGE \in Nat \ {0} /\ SIZE_RANGE % ALIGN_SIZE = 0

NULL == 0
PAGE_SIZE == 2 ^ PAGE_SHIFT

AlignDown(a) == a - (a % ALIGN_SIZE)
AlignUp(a) == AlignDown(a + ALIGN_SIZE - 1)

\* A sum of sizes as the code computes it.
SizeT(n) == n % SIZE_RANGE

Node(at, size) == [at |-> at, size |-> size]
\* The bytes of a node's header, which is in the block itself.
Header(at) == at .. at + ALIGN_SIZE - 1

lmm_init == <<>>

\* In descending order of priority, the largest first.
lmm_add_region(lmm, addr, size, flags, pri) ==
    LET min == AlignUp(addr)
        max == AlignDown(addr + size)
        reg == [min |-> min, max |-> max, flags |-> flags, pri |-> pri % PRI_RANGE,
                free |-> 0, nodes |-> <<>>]
        After(r) == ~(\/ r.pri > reg.pri
                      \/ r.pri = reg.pri /\ r.max - r.min > reg.max - reg.min)
        i == SelectInSeq(lmm, After)
    IN  IF max <= min THEN lmm
        ELSE InsertAt(lmm, IF i = 0 THEN Len(lmm) + 1 ELSE i, reg)

\* Mutant: a block is joined to its predecessor only.
FreedBefore(nodes, node) ==
    LET k == SelectInSeq(nodes, LAMBDA n : n.at >= node.at)
        before == IF k = 0 THEN nodes ELSE SubSeq(nodes, 1, k - 1)
        after == IF k = 0 THEN <<>> ELSE SubSeq(nodes, k, Len(nodes))
        joins == before # <<>> /\ Last(before).at + Last(before).size >= node.at
    IN  [nodes |-> IF joins
                   THEN Front(before) \o <<Node(Last(before).at,
                                                Last(before).size + node.size)>> \o after
                   ELSE before \o <<node>> \o after,
         at |-> IF joins THEN Last(before).at ELSE node.at]
\* The list with the node in its place, joined to its neighbours, and where
\* the node is whose header is written.
Freed(nodes, node) ==
    LET k == SelectInSeq(nodes, LAMBDA n : n.at >= node.at)
        before == IF k = 0 THEN nodes ELSE SubSeq(nodes, 1, k - 1)
        after == IF k = 0 THEN <<>> ELSE SubSeq(nodes, k, Len(nodes))
        joinsPrev == before # <<>> /\ Last(before).at + Last(before).size >= node.at
        joinsNext == after # <<>> /\ node.at + node.size >= Head(after).at
        joined == Node(IF joinsPrev THEN Last(before).at ELSE node.at,
                       (IF joinsPrev THEN Last(before).size ELSE 0) + node.size
                       + (IF joinsNext THEN Head(after).size ELSE 0))
    IN  [nodes |-> (IF joinsPrev THEN Front(before) ELSE before) \o <<joined>>
                   \o (IF joinsNext THEN Tail(after) ELSE after),
         at |-> joined.at]

lmm_free(lmm, block, size) ==
    LET node == Node(AlignDown(block), AlignUp((block % ALIGN_SIZE) + size))
        i == SelectInSeq(lmm, LAMBDA r : r.min <= node.at /\ node.at < r.max)
        freed == Freed(lmm[i].nodes, node)
    IN  [lmm |-> [lmm EXCEPT ![i].nodes = freed.nodes, ![i].free = @ + node.size],
         \* a predecessor that grows is written, too
         wrote |-> Header(freed.at)]

\* lmm_add_free's assertion that its block does not vanish inside one unit.
AddFreeAssertion(block, size) == AlignDown(block + size) >= AlignUp(block)

lmm_add_free(lmm, block, size) ==
    LET min == AlignUp(block)
        max == AlignDown(block + size)
        Part(l, i) ==
            LET lo == Max({min, l[i].min})
                hi == Min({max, l[i].max})
            IN  IF max > l[i].min /\ min < l[i].max
                THEN lmm_free(l, lo, hi - lo).lmm
                ELSE l
    IN  IF max = min THEN lmm
        ELSE FoldLeft(Part, lmm, [i \in 1 .. Len(lmm) |-> i])

Failed(lmm) == [lmm |-> lmm, at |-> NULL, wrote |-> {}]

\* The rounding wraps the largest sizes to zero.  Nowhere else can it: what
\* lmm_alloc_gen rounds it has found room for, and what is freed was lent.
AllocSize(size) == SizeT(AlignUp(size))

\* First fit; the head of the node is given away.  Of size zero it is the node
\* itself, which stays on the list.
lmm_alloc(lmm, size0, flags) ==
    LET size == AllocSize(size0)
        Fits(n) == n.size >= size
        i == SelectInSeq(lmm, LAMBDA r : flags \subseteq r.flags
                                         /\ SelectInSeq(r.nodes, Fits) # 0)
        nodes == lmm[i].nodes
        j == SelectInSeq(nodes, Fits)
        rest == Node(nodes[j].at + size, nodes[j].size - size)
    IN  IF i = 0 THEN Failed(lmm)
        ELSE [lmm |-> [lmm EXCEPT
                          ![i].nodes = SubSeq(nodes, 1, j - 1)
                                       \o (IF rest.size > 0 THEN <<rest>> ELSE <<>>)
                                       \o SubSeq(nodes, j + 1, Len(nodes)),
                          ![i].free = @ - size],
              at |-> nodes[j].at,
              wrote |-> IF rest.size > 0 THEN Header(rest.at) ELSE {}]

\* The loop over the bits: the next address that is align_ofs above a multiple.
Adjusted(addr, align_bits, align_ofs) == addr + ((align_ofs - addr) % (2 ^ align_bits))

\* Mutant: what is in front of the block is not split off.
SplitFrontLost(node, anode) == <<>>
SplitFront(node, anode) ==
    IF anode > node.at THEN <<Node(node.at, anode - node.at)>> ELSE <<>>

\* The first node with room at an adjusted address decides for its region.
lmm_alloc_gen(lmm, size0, flags, align_bits, align_ofs, in_min, in_max) ==
    LET Addr(n) == Adjusted(Max({n.at, in_min}), align_bits, align_ofs)
        HasRoom(n) == n.size >= size0 /\ Addr(n) - n.at + size0 <= n.size
        Usable(r) ==
            /\ flags \subseteq r.flags
            /\ r.min < in_max
            /\ r.max > in_min
            /\ LET j == SelectInSeq(r.nodes, HasRoom)
               IN  j # 0 /\ Addr(r.nodes[j]) + size0 <= in_max
        i == SelectInSeq(lmm, Usable)
        nodes == lmm[i].nodes
        j == SelectInSeq(nodes, HasRoom)
        addr == Addr(nodes[j])
        anode == AlignDown(addr)
        size == AlignUp((addr % ALIGN_SIZE) + size0)
        end == nodes[j].at + nodes[j].size
        front == SplitFront(nodes[j], anode)
        rest == IF anode + size < end
                THEN <<Node(anode + size, end - (anode + size))>> ELSE <<>>
    IN  IF i = 0 THEN Failed(lmm)
        ELSE [lmm |-> [lmm EXCEPT
                          ![i].nodes = SubSeq(nodes, 1, j - 1) \o front \o rest
                                       \o SubSeq(nodes, j + 1, Len(nodes)),
                          ![i].free = @ - size],
              at |-> addr,
              wrote |-> (UNION {Header(n.at) : n \in ToSet(front \o rest)})
                        \cup (IF front # <<>> THEN Header(anode) ELSE {})]

\* (vm_size_t)-1: no limit.
NoLimit(lmm) == Max({r.max : r \in ToSet(lmm)} \cup {0}) + 1

lmm_alloc_aligned(lmm, size, flags, align_bits, align_ofs) ==
    lmm_alloc_gen(lmm, size, flags, align_bits, align_ofs, 0, NoLimit(lmm))

lmm_alloc_page(lmm, flags) ==
    lmm_alloc_gen(lmm, PAGE_SIZE, flags, PAGE_SHIFT, 0, 0, NoLimit(lmm))

lmm_free_page(lmm, page) == lmm_free(lmm, page, PAGE_SIZE)

\* The lowest free memory from addr on: its address, size and region's flags;
\* no size if there is none.
lmm_find_free(lmm, addr) ==
    LET start == AlignUp(addr)
        Lower(found, r) ==
            LET j == SelectInSeq(r.nodes, LAMBDA n : \/ n.at >= found.at
                                                     \/ n.at + n.size > start)
                n == r.nodes[j]
                lowest == Max({n.at, start})
            IN  IF r.max <= start \/ r.min > found.at \/ j = 0 \/ n.at >= found.at
                THEN found
                ELSE [at |-> lowest, size |-> n.size - (lowest - n.at), flags |-> r.flags]
    IN  FoldLeft(Lower, [at |-> NoLimit(lmm), size |-> 0, flags |-> {}], lmm)

\* One round of lmm_remove_free's loop: what is left of the range starts at
\* next, or done.
RemoveRound(lmm, rstart, rend) ==
    LET found == lmm_find_free(lmm, rstart)
        size == Min({found.size, rend - found.at})
    IN  IF rstart >= rend \/ found.size = 0 \/ found.at >= rend
        THEN [lmm |-> lmm, done |-> TRUE, next |-> rstart]
        ELSE [lmm |-> lmm_alloc_gen(lmm, size, found.flags, 0, 0,
                                    found.at, found.at + size).lmm,
              done |-> FALSE,
              next |-> found.at]

lmm_avail(lmm, flags) ==
    FoldLeft(LAMBDA count, r : IF flags \subseteq r.flags THEN count + r.free ELSE count,
             0, lmm)

\* What lmm_dump, "a thorough sanity check", asserts of each region's list.
lmm_dump(lmm) ==
    \A r \in ToSet(lmm) :
        /\ \A j \in 1 .. Len(r.nodes) :
              LET n == r.nodes[j]
              IN  /\ n.at >= r.min /\ n.at < r.max
                  /\ n.at % ALIGN_SIZE = 0
                  /\ n.size % ALIGN_SIZE = 0 /\ n.size >= ALIGN_SIZE
                  /\ j < Len(r.nodes) => r.nodes[j + 1].at > n.at
        /\ r.free <= r.max - r.min
        /\ r.free = FoldLeft(LAMBDA sum, n : sum + n.size, 0, r.nodes)
=============================================================================

------------------------------- MODULE Memory -------------------------------
(***************************************************************************)
(* The kernel's memory from the boot on: mb_util_lmm and mb_entry          *)
(* (410kern/boot/util_lmm.c, 410kern/entry.c) find the free memory, and    *)
(* 410kern/malloc lends it, with the size of each block in the word before *)
(* it.  The clients use the whole of their blocks.                         *)
(*                                                                         *)
(* Memory is a function from addresses to bytes.  A word is modelled as    *)
(* the same value in each of its bytes; what is in free memory is Junk.    *)
(***************************************************************************)
EXTENDS Lmm

CONSTANTS
    WORD,                  \* sizeof(size_t): 4 in the code
    MIN, LOW, MID, INF,    \* 0x500, 1 MB, 16 MB = USER_MEM_START, 0xffffffff
    BootInfos,             \* what the boot loader may say
    Size,                  \* the sizes of the requests, without a header
    Count,                 \* how many elements calloc is asked for
    Shift,                 \* the alignments of the requests, in bits
    MaxBlocks              \* bound on the blocks in use at a time

ASSUME WordAssumption == WORD \in Nat \ {0} /\ ALIGN_SIZE = 2 * WORD
ASSUME SizesAssumption == /\ {MIN, LOW, MID, INF} \subseteq Nat
                          /\ 0 < MIN /\ MIN <= LOW /\ LOW < MID /\ MID < INF
                          /\ INF < SIZE_RANGE
                          /\ Size \subseteq 1 .. SIZE_RANGE - 1
                          /\ Count \subseteq 1 .. SIZE_RANGE - 1
                          /\ \A shift \in Shift : 2 ^ shift \in Nat \ {0}
\* The memory of malloc ends with a whole unit.
ASSUME MidAssumption == MID % ALIGN_SIZE = 0
\* No string or structure of the loader's is empty, but that a command line
\* which is not there is skipped as Hole(0, 0).  The memory between the lower
\* and 1 MB and what is above the upper is not empty either; mb_entry asserts
\* that there is memory above USER_MEM_START.
AHole == {h \in [min : Nat, max : Nat] : (h.min < h.max \/ (h.min = 0 /\ h.max = 0)) /\ h.max <= INF}
ASSUME BootInfosAssumption ==
          \A info \in BootInfos :
             /\ info.mem_lower \in Nat /\ info.mem_lower < LOW
             /\ info.mem_upper \in Nat /\ MID < LOW + info.mem_upper
             /\ LOW + info.mem_upper < INF
             /\ info.kernel \in AHole /\ info.others \in Seq(AHole)

VARIABLES
    phase,                 \* of the boot: what mb_entry does next, or "panic";
                           \* then "run", "asserted" or "overrun"
    mbi,                   \* the multiboot information, as holes in the memory
    min,                   \* mb_util_lmm's min, or where lmm_remove_free is
    malloc_lmm,
    memory,
    blocks,                \* the blocks in use
    call, at               \* the last call and the address it gave

bootVars == <<phase, mbi, min>>
vars == <<bootVars, malloc_lmm, memory, blocks, call, at>>

Byte == 0 .. INF
Junk == -1

-----------------------------------------------------------------------------
(* The boot.                                                               *)

LMM_PRI_1MB == -2
LMM_PRI_16MB == -1
LMM_PRI_HIGH == 0

Regions ==
    LET low == lmm_add_region(lmm_init, 0, LOW, {"1MB", "16MB"}, LMM_PRI_1MB)
        mid == lmm_add_region(low, LOW, MID - LOW, {"16MB"}, LMM_PRI_16MB)
    IN  lmm_add_region(mid, MID, INF - MID, {}, LMM_PRI_HIGH)

Hole(from, to) == [min |-> from, max |-> to]

\* In the order of the skips.
HolesOf(info) ==
    <<Hole(info.mem_lower, LOW), Hole(LOW + info.mem_upper, INF), info.kernel>>
    \o info.others
Holes == HolesOf(mbi)

\* Mutant: a hole that starts in front of the block is not seen.
skip_inner(block, hole) ==
    IF block.retry \/ block.max <= hole.min \/ block.min >= hole.max \/ block.min >= hole.min
    THEN block
    ELSE [block EXCEPT !.max = hole.min]
skip(block, hole) ==
    CASE block.retry \/ block.max <= hole.min \/ block.min >= hole.max -> block
      [] ~block.retry /\ block.min < hole.min /\ hole.min < block.max ->
            [block EXCEPT !.max = hole.min]
      [] OTHER -> [block EXCEPT !.min = hole.max, !.retry = TRUE]

\* One round of the loop: memory up to the next hole, or a hole is skipped.
mb_util_lmm ==
    LET block == FoldLeft(skip, [min |-> min, max |-> INF, retry |-> FALSE], Holes)
    IN  /\ phase = "util_lmm"
        /\ min < INF
        /\ min' = IF block.retry THEN block.min ELSE block.max
        /\ IF block.retry THEN UNCHANGED <<phase, malloc_lmm>>
           ELSE IF AddFreeAssertion(block.min, block.max - block.min)
           THEN /\ malloc_lmm' = lmm_add_free(malloc_lmm, block.min,
                                              block.max - block.min)
                /\ UNCHANGED phase
           ELSE phase' = "panic" /\ UNCHANGED malloc_lmm
        /\ UNCHANGED <<mbi, memory, blocks, call, at>>

util_lmm_done ==
    /\ phase = "util_lmm"
    /\ min >= INF
    /\ phase' = "remove_low"
    /\ min' = 0
    /\ UNCHANGED <<mbi, malloc_lmm, memory, blocks, call, at>>

\* lmm_remove_free(&malloc_lmm, 0, 1 MB), then from USER_MEM_START
\* to the last whole unit.
remove_free(here, end, next) ==
    LET round == RemoveRound(malloc_lmm, min, end)
    IN  /\ phase = here
        /\ malloc_lmm' = round.lmm
        /\ IF round.done THEN phase' = next /\ min' = MID
           ELSE min' = round.next /\ UNCHANGED phase
        /\ UNCHANGED <<mbi, memory, blocks, call, at>>

mb_entry ==
    \/ mb_util_lmm
    \/ util_lmm_done
    \/ remove_free("remove_low", LOW, "remove_user")
    \/ remove_free("remove_user", AlignDown(INF), "run")

-----------------------------------------------------------------------------
(* malloc.  A block of kind "word" has its size in front of it, one of     *)
(* kind "sized" was got with smalloc or smemalign, a "page" from the lmm.  *)

HeaderOf(kind) == IF kind = "word" THEN WORD ELSE 0

\* What the lmm is asked for, which wraps.
Request(size, kind) == SizeT(size + HeaderOf(kind))
\* Neither the header's addition nor the lmm's rounding wraps.
InRange(size, kind) == AlignUp(size + HeaderOf(kind)) < SIZE_RANGE

Payload(b) == b.at .. b.at + b.size - 1

\* What a client keeps at offset i of a block: calloc's zeros or its own data.
Content(b, i) == IF b.zero THEN 0 ELSE i + 1

\* The memory once the lmm has written to wrote and the block b is filled.
Filled(mem, wrote, b) ==
    [a \in Byte |->
        CASE a \in Payload(b)                            -> Content(b, a - b.at)
          [] b.kind = "word" /\ a \in b.at - WORD .. b.at - 1 -> Request(b.size, "word")
          [] OTHER -> IF a \in wrote THEN Junk ELSE mem[a]]

Called(size, kind, align) ==
    [size |-> size + HeaderOf(kind), align |-> align,
     offset |-> (align - HeaderOf(kind)) % align]

NoCall == [size |-> 0, align |-> 1, offset |-> 0]

\* The assertion on the size at the head of lmm_alloc and lmm_alloc_gen.
SizeAsserted ==
    /\ phase' = "asserted"
    /\ at' = NULL
    /\ UNCHANGED <<malloc_lmm, memory, blocks>>

Refused ==
    /\ at' = NULL
    /\ UNCHANGED <<phase, malloc_lmm, memory, blocks>>

\* A call that asks for memory: results holds what the lmm makes of it.  If the
\* size has wrapped, the client has got less than it asked for; it overruns its
\* block, and what follows is undefined.
Lends(results, size, kind, zero, align) ==
    /\ phase = "run"
    /\ Cardinality(blocks) < MaxBlocks
    /\ call' = Called(size, kind, align)
    /\ UNCHANGED <<mbi, min>>
    /\ IF Request(size, kind) = 0 THEN SizeAsserted
       ELSE \E res \in results :
               LET b == [at |-> res.at + HeaderOf(kind), size |-> size, kind |-> kind,
                         zero |-> zero]
               IN  IF res.at = NULL THEN Refused
                   ELSE /\ at' = res.at
                        /\ malloc_lmm' = res.lmm
                        /\ memory' = Filled(memory, res.wrote, b)
                        /\ blocks' = blocks \cup {b}
                        /\ phase' = IF InRange(size, kind) THEN phase ELSE "overrun"

_malloc(size) ==
    Lends({lmm_alloc(malloc_lmm, Request(size, "word"), {})}, size, "word", FALSE, 1)

\* The product wraps, too; the memset is in the filling of the block.
_calloc(nelt, size) ==
    Lends({lmm_alloc(malloc_lmm, Request(nelt * size, "word"), {})},
          nelt * size, "word", TRUE, 1)

\* The block is aligned, so its header is one word in front of that.
_memalign(shift, size) ==
    Lends({lmm_alloc_aligned(malloc_lmm, Request(size, "word"), {}, shift, 2 ^ shift - WORD)},
          size, "word", FALSE, 2 ^ shift)

_smalloc(size) == Lends({lmm_alloc(malloc_lmm, size, {})}, size, "sized", FALSE, 1)

_smemalign(shift, size) ==
    Lends({lmm_alloc_aligned(malloc_lmm, size, {}, shift, 0)}, size, "sized", FALSE, 2 ^ shift)

alloc_page ==
    Lends({lmm_alloc_page(malloc_lmm, {})}, PAGE_SIZE, "page", FALSE, PAGE_SIZE)

\* What is free after a call is Junk again.
Forgotten(mem, res, bs) ==
    [a \in Byte |-> IF a \in res.wrote
                       \/ ~ \E b \in bs : a \in b.at - HeaderOf(b.kind) .. b.at + b.size - 1
                    THEN Junk ELSE mem[a]]

TakesBack(b, results) ==
    \E res \in results :
        /\ phase = "run"
        /\ malloc_lmm' = res.lmm
        /\ blocks' = blocks \ {b}
        /\ memory' = Forgotten(memory, res, blocks')
        /\ at' = NULL
        /\ call' = NoCall
        /\ UNCHANGED bootVars

\* The size of the block is what the word in front of it says.
Chunk(b) == b.at - WORD

_free(b) ==
    /\ b.kind = "word"
    /\ TakesBack(b, {lmm_free(malloc_lmm, Chunk(b), memory[Chunk(b)])})

_sfree(b) ==
    /\ b.kind = "sized"
    /\ TakesBack(b, {lmm_free(malloc_lmm, b.at, b.size)})

free_page(b) ==
    /\ b.kind = "page"
    /\ TakesBack(b, {lmm_free_page(malloc_lmm, b.at)})

\* memcpy of the word and the payload, up to the smaller of the sizes.
Copied(mem, from, to, n) ==
    [a \in Byte |-> IF a \in to .. to + n - 1 THEN mem[a - to + from] ELSE mem[a]]

\* Mutant: the old block is freed before it is copied.
Moved_early(mem, got, back, old_size, b, new, bs) ==
    LET early == [a \in Byte |-> IF a \in got.wrote \cup back.wrote THEN Junk ELSE mem[a]]
        copied == Copied(early, Chunk(b), got.at, Min({old_size, new.size + WORD}))
        filled == [a \in Byte |->
                      CASE a \in Chunk(new) .. new.at - 1 -> new.size + WORD
                        [] a \in Payload(new) /\ a - new.at >= b.size -> Content(new, a - new.at)
                        [] OTHER -> copied[a]]
    IN  Forgotten(filled, [wrote |-> {}], bs)
\* Copied, the old block freed, the size in the new one's word; its client
\* fills what has been added.
Moved(mem, got, back, old_size, b, new, bs) ==
    LET kept == [a \in Byte |-> IF a \in got.wrote THEN Junk ELSE mem[a]]
        copied == Copied(kept, Chunk(b), got.at, Min({old_size, new.size + WORD}))
        filled == [a \in Byte |->
                      CASE a \in Chunk(new) .. new.at - 1 -> new.size + WORD
                        [] a \in Payload(new) /\ a - new.at >= b.size -> Content(new, a - new.at)
                        [] OTHER -> copied[a]]
    IN  Forgotten(filled, back, bs)

\* If the size has wrapped, the copy overruns the new block before the old one
\* is freed, and what follows is undefined.
_realloc(b, size) ==
    /\ phase = "run"
    /\ b.kind = "word"
    /\ call' = Called(size, "word", 1)
    /\ UNCHANGED <<mbi, min>>
    /\ IF Request(size, "word") = 0 THEN SizeAsserted
       ELSE \E got \in {lmm_alloc(malloc_lmm, Request(size, "word"), {})} :
               LET old_size == memory[Chunk(b)]
                   back == lmm_free(got.lmm, Chunk(b), old_size)
                   new == [b EXCEPT !.at = got.at + WORD, !.size = size]
               IN  IF got.at = NULL THEN Refused
                   ELSE /\ at' = got.at
                        /\ IF InRange(size, "word")
                           THEN /\ malloc_lmm' = back.lmm
                                /\ blocks' = (blocks \ {b}) \cup {new}
                                /\ memory' = Moved(memory, got, back, old_size, b, new, blocks')
                                /\ UNCHANGED phase
                           ELSE /\ malloc_lmm' = got.lmm
                                /\ phase' = "overrun"
                                /\ UNCHANGED <<blocks, memory>>

-----------------------------------------------------------------------------
Init ==
    /\ phase = "util_lmm"
    /\ mbi \in BootInfos
    /\ min = MIN
    /\ malloc_lmm = Regions
    /\ memory = [a \in Byte |-> Junk]
    /\ blocks = {}
    /\ call = NoCall
    /\ at = NULL

Next ==
    \/ mb_entry
    \/ \E size \in Size :
          \/ _malloc(size) \/ _smalloc(size)
          \/ \E nelt \in Count : _calloc(nelt, size)
          \/ \E shift \in Shift : _memalign(shift, size) \/ _smemalign(shift, size)
    \/ alloc_page
    \/ \E b \in blocks :
          \/ _free(b) \/ _sfree(b) \/ free_page(b)
          \/ \E size \in Size : _realloc(b, size)

Spec == Init /\ [][Next]_vars

-----------------------------------------------------------------------------
FreeBytes == UNION {UNION {n.at .. n.at + n.size - 1 : n \in ToSet(r.nodes)}
                    : r \in ToSet(malloc_lmm)}

(* After any calls the free list of each region passes lmm_dump's checks:  *)
(* aligned, in the region, in order, and counted to the byte.  Beyond      *)
(* them, the blocks are disjoint and joined: no two of them touch.  Only a *)
(* request whose size has wrapped and been granted ends this.              *)
FreeListsAreSound ==
    phase # "overrun" =>
       /\ lmm_dump(malloc_lmm)
       /\ \A r \in ToSet(malloc_lmm) : \A j \in 1 .. Len(r.nodes) - 1 :
             r.nodes[j].at + r.nodes[j].size < r.nodes[j + 1].at
       /\ lmm_avail(malloc_lmm, {}) = Cardinality(FreeBytes)

(* Whatever is allocated, resized and freed around it, a block keeps what  *)
(* its client put there, calloc's zeros, and the size in front of it: the  *)
(* nodes the lmm writes into memory stay out of the blocks.  Only a request*)
(* whose size has wrapped and been granted ends this, too.                 *)
ClientBytesKept ==
    phase # "overrun" => \A b \in blocks :
        /\ \A i \in 0 .. b.size - 1 : memory[b.at + i] = Content(b, i)
        /\ b.kind = "word" => \A a \in b.at - WORD .. b.at - 1 : memory[a] = b.size + WORD

\* Memory that is not to be used, after the boot and for the loader.
IsHeld(info, a) ==
    \/ a < MIN
    \/ \E i \in 1 .. Len(HolesOf(info)) :
          HolesOf(info)[i].min <= a /\ a < HolesOf(info)[i].max
InHole(a) == IsHeld(mbi, a)
\* A stretch of memory between two holes inside one unit.
Cramped ==
    \E lo \in MIN .. INF - 1 : \E hi \in lo .. lo + ALIGN_SIZE - 3 :
        /\ \A a \in lo .. hi : ~InHole(a)
        /\ InHole(lo - 1) /\ InHole(hi + 1)
        /\ AlignDown(lo - 1) = AlignDown(hi + 1)

(* lmm_add_free.c:39 asserts that a block's end does not come before its   *)
(* start once both are aligned.  The boot fails there if the loader has    *)
(* left a few bytes between two holes inside one unit, and nowhere else.   *)
BootFailsIfCramped ==
    /\ phase = "panic" => Cramped
    /\ phase \notin {"util_lmm", "panic"} => ~Cramped

\* The whole units between 1 MB and USER_MEM_START that nothing else uses.
HeapOf == [info \in BootInfos |->
              {a \in LOW .. MID - 1 :
                 \A k \in 0 .. ALIGN_SIZE - 1 : ~IsHeld(info, AlignDown(a) + k)}]

(* The lists are an allocator of this memory: every byte free or lent once,*)
(* as aligned as it was asked for, and refused only if no free stretch of  *)
(* it would do; until a request comes whose size, rounded up to whole      *)
(* units, is no size_t.                                                    *)
Space == INSTANCE AddressSpace WITH
            Unit   <- ALIGN_SIZE,
            Limit  <- SIZE_RANGE - ALIGN_SIZE,
            owned  <- HeapOf[mbi],
            booted <- phase = "run",
            free   <- FreeBytes,
            lent   <- {[at   |-> b.at - HeaderOf(b.kind),
                        size |-> b.size + HeaderOf(b.kind)] : b \in blocks}

IsAnAllocator == Space!ASpec
=============================================================================

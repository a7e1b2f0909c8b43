---------------------------- MODULE AddressSpace ----------------------------
(***************************************************************************)
(* What an allocator promises: after the boot it owns the memory nobody    *)
(* else uses, and every byte of it is either free or lent to one client.   *)
(* A request is refused only if no stretch of free memory would do.  Of a  *)
(* request for more than Limit it promises nothing.                        *)
(***************************************************************************)
EXTENDS Integers

CONSTANTS
    Unit,          \* memory is lent in whole units of this many bytes
    Limit          \* the largest size it can compute with

VARIABLES
    owned,         \* the bytes the allocator is to have after the boot
    booted,        \* it keeps its promises
    free,          \* the bytes that are free
    lent,          \* what is lent: [at, size] as the client asked for it
    call, at       \* the last call, and the address it returned (0: refused)

avars == <<owned, booted, free, lent, call, at>>

\* The bytes of the units a block touches.
Extent(b) == {u * Unit + k : u \in (b.at \div Unit) .. ((b.at + b.size - 1) \div Unit),
                             k \in 0 .. Unit - 1}

AInit == booted = FALSE /\ lent = {} /\ at = 0

Boot ==
    /\ ~booted /\ booted'
    /\ free' = owned
    /\ UNCHANGED <<lent, at>>

Booting == ~booted /\ ~booted' /\ UNCHANGED <<lent, at>>

Asked(a) == [at |-> a, size |-> call'.size]
Aligned(a) == a % call'.align = call'.offset

Lend ==
    /\ booted
    /\ at' # 0
    /\ Aligned(at')
    /\ Extent(Asked(at')) \subseteq free
    /\ free' = free \ Extent(Asked(at'))
    /\ lent' = lent \cup {Asked(at')}
    /\ UNCHANGED booted

Refuse ==
    /\ booted
    /\ call' # call \/ at' # at
    /\ at' = 0
    /\ ~ \E a \in free : Aligned(a) /\ Extent(Asked(a)) \subseteq free
    /\ UNCHANGED <<booted, free, lent>>

Reclaim ==
    /\ booted
    /\ at' = 0
    /\ \E b \in lent : /\ lent' = lent \ {b}
                       /\ free' = free \cup Extent(b)
    /\ UNCHANGED booted

\* The new block is lent before the old one is taken back.
Move ==
    /\ booted
    /\ at' # 0
    /\ Extent(Asked(at')) \subseteq free
    /\ \E b \in lent : /\ lent' = (lent \ {b}) \cup {Asked(at')}
                       /\ free' = (free \ Extent(Asked(at'))) \cup Extent(b)
    /\ UNCHANGED booted

\* A request for more than Limit may be the last one that is answered.
Break ==
    /\ booted /\ ~booted'
    /\ call'.size > Limit

ANext ==
    /\ Booting \/ Boot \/ Lend \/ Refuse \/ Reclaim \/ Move \/ Break
    /\ UNCHANGED owned

ASpec == AInit /\ [][ANext]_avars
=============================================================================

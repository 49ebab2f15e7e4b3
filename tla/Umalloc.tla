------------------------------- MODULE Umalloc -------------------------------
(***************************************************************************)
(* The allocator of the user programs, user/umalloc.c.                     *)
(*                                                                         *)
(* Memory is a row of units of the size of a Header, and an address is the *)
(* number of a unit.  base is unit 0, in the data of the program and below *)
(* the heap; the heap starts at unit HeapStart and sbrk extends it.  What  *)
(* is left in a unit that is no header any more, and the ptr of a block    *)
(* given out, is never read and is cleared.                                *)
(***************************************************************************)
EXTENDS Integers, FiniteSets

CONSTANTS
    HeaderSize,     \* bytes of a Header
    NALLOC,         \* fewest units that morecore asks for (4096 in the code)
    HeapStart,
    HeapEnd,        \* bound: sbrk fails beyond it
    Requests        \* the byte counts a program asks for

VARIABLES
    mem,            \* [ptr, size: of every unit, freep, brk]
    blocks,         \* the headers of the blocks the program has
    holes           \* units the program took with sbrk itself

vars == <<mem, blocks, holes>>

base  == 0
Units == 0 .. HeapEnd
Null  == -1

Init ==
    /\ mem = [ptr |-> [u \in Units |-> Null], size |-> [u \in Units |-> 0],
              freep |-> Null, brk |-> HeapStart]
    /\ blocks = {} /\ holes = {}
-----------------------------------------------------------------------------
\* Where free stops: the block of the list after which bp belongs.
RECURSIVE Place(_, _, _)
Place(m, bp, p) ==
    LET next == m.ptr[p]
    IN  IF \/ bp > p /\ bp < next
           \/ p >= next /\ (bp > p \/ bp < next)
        THEN p ELSE Place(m, bp, next)

\* The block bp is followed by next, joined with it when they touch.
JoinedNever(m, bp, next) == [m EXCEPT !.ptr[bp] = next]
Joined(m, bp, next) ==
    IF bp + m.size[bp] = next
    THEN [m EXCEPT !.size[bp] = @ + m.size[next], !.ptr[bp] = m.ptr[next],
                   !.size[next] = 0, !.ptr[next] = Null]
    ELSE [m EXCEPT !.ptr[bp] = next]

freeBlock(m, bp) ==
    LET p == Place(m, bp, m.freep)
    IN  [Joined(Joined(m, bp, m.ptr[p]), p, bp) EXCEPT !.freep = p]

\* The units morecore asks sbrk for.
CoreUnits(nu) == IF nu < NALLOC THEN NALLOC ELSE nu
CanGrow(m, nu) == m.brk + nu <= HeapEnd
morecore(m, nu) ==
    freeBlock([m EXCEPT !.size[m.brk] = nu, !.brk = @ + nu], m.brk)

\* A block of exactly n units, or the tail of a larger one.
Taken(m, n, prevp, p) ==
    IF m.size[p] = n
    THEN [mem |-> [m EXCEPT !.ptr[prevp] = m.ptr[p], !.ptr[p] = Null, !.freep = prevp],
          at |-> p]
    ELSE LET q == p + m.size[p] - n
         IN  [mem |-> [m EXCEPT !.size[p] = @ - n, !.size[q] = n, !.freep = prevp], at |-> q]

RECURSIVE Search(_, _, _, _)
Search(m, n, prevp, p) ==
    IF m.size[p] >= n THEN Taken(m, n, prevp, p)
    ELSE IF p # m.freep THEN Search(m, n, p, m.ptr[p])
    ELSE IF ~CanGrow(m, CoreUnits(n)) THEN [mem |-> m, at |-> Null]
    ELSE LET grown == morecore(m, CoreUnits(n))
         IN  Search(grown, n, grown.freep, grown.ptr[grown.freep])

\* The first call makes base a circular list of its own.
Started == IF mem.freep # Null THEN mem
           ELSE [mem EXCEPT !.ptr[base] = base, !.freep = base, !.size[base] = 0]

Nunits(nbytes) == (nbytes + HeaderSize - 1) \div HeaderSize + 1

malloc(nbytes) ==
    LET got == Search(Started, Nunits(nbytes), Started.freep, Started.ptr[Started.freep])
    IN  /\ mem' = got.mem
        /\ blocks' = IF got.at = Null THEN blocks ELSE blocks \cup {got.at}
        /\ UNCHANGED holes

free(bp) ==
    /\ bp \in blocks
    /\ mem' = freeBlock(mem, bp)
    /\ blocks' = blocks \ {bp}
    /\ UNCHANGED holes

\* The program calls sbrk itself.
sbrk ==
    /\ holes = {} /\ CanGrow(mem, 1)
    /\ mem' = [mem EXCEPT !.brk = @ + 1]
    /\ holes' = {mem.brk}
    /\ UNCHANGED blocks

Next == (\E n \in Requests : malloc(n)) \/ (\E b \in blocks : free(b)) \/ sbrk

Spec == Init /\ [][Next]_vars
-----------------------------------------------------------------------------
(* Properties. *)

RECURSIVE ListFrom(_, _)
ListFrom(p, seen) ==
    IF mem.ptr[p] \in seen \cup {base, Null} THEN seen ELSE ListFrom(mem.ptr[p], seen \cup {mem.ptr[p]})
FreeList == IF mem.freep = Null THEN {} ELSE ListFrom(base, {})
Extent(b) == b .. b + mem.size[b] - 1

(* Every unit of the heap is in exactly one place: a block of the program,  *)
(* a free block, or what the program took itself.  malloc and free lose no  *)
(* memory and give none out twice, however blocks are split and joined.     *)
Tiled ==
    LET all == blocks \cup FreeList
    IN  /\ blocks \cap FreeList = {}
        /\ \A b, c \in all : b # c => Extent(b) \cap Extent(c) = {}
        /\ UNION {Extent(b) : b \in all} \cup holes = HeapStart .. mem.brk - 1
        /\ \A b \in all : Extent(b) \cap holes = {}

(* The free list goes up in address order and back to base, and no two of   *)
(* its blocks touch: free joins every pair that could be one block.         *)
OrderedAndJoined ==
    mem.freep # Null =>
        \A p \in FreeList \cup {base} :
            LET next == mem.ptr[p]
            IN  \/ next = base /\ \A q \in FreeList : q <= p
                \/ p + mem.size[p] < next

(* The heap is sound after any sequence of malloc, free and sbrk.           *)
HeapSound == Tiled /\ OrderedAndJoined
=============================================================================

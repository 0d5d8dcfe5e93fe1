-------------------------------- MODULE Heap --------------------------------
(***************************************************************************)
(* The allocator of user programs, xv6/umalloc.c.  An address counts units *)
(* of sizeof(Header); base is at 0, below the heap.                        *)
(***************************************************************************)
EXTENDS Integers, FiniteSets, FiniteSetsExt

CONSTANTS
  START, LIMIT,  \* the heap grows from START; sbrk() fails beyond LIMIT
  MINCORE,       \* the least that morecore() asks for, 4096
  Sizes,         \* numbers of units, the header's included
  MaxCalls

base == 0
null == -1
Addrs == 0..LIMIT

VARIABLES
  heap,     \* h: the headers; freep; brk: the end of the heap
  blocks,   \* the blocks that malloc() has returned: address and size
  asked,    \* the size that the last malloc() did not get, or 0
  calls

vars == <<heap, blocks, asked, calls>>

Init ==
  /\ heap = [h |-> [a \in Addrs |-> [ptr |-> 0, size |-> 0]], freep |-> null, brk |-> START]
  /\ blocks = {}
  /\ asked = 0 /\ calls = 0

\* free()'s loop from p on: the block after which bp goes.
RECURSIVE place(_, _, _)
place(h, p, bp) ==
  LET q == h[p].ptr IN
  IF (bp > p /\ bp < q) \/ (p >= q /\ (bp > p \/ bp < q)) THEN p ELSE place(h, q, bp)

\* Joins bp to the block that follows it.  Mutant: no joining.
join_next_not(h, bp, q) == [h EXCEPT ![bp].ptr = q]

join_next(h, bp, q) ==
  IF bp + h[bp].size = q
    THEN [h EXCEPT ![bp] = [ptr |-> h[q].ptr, size |-> h[bp].size + h[q].size]]
    ELSE [h EXCEPT ![bp].ptr = q]

\* Joins p to bp.  Mutant: bp's size is forgotten.
join_prev_size(h, p, bp) ==
  IF p + h[p].size = bp THEN [h EXCEPT ![p].ptr = h[bp].ptr] ELSE [h EXCEPT ![p].ptr = bp]

join_prev(h, p, bp) ==
  IF p + h[p].size = bp
    THEN [h EXCEPT ![p] = [ptr |-> h[bp].ptr, size |-> h[p].size + h[bp].size]]
    ELSE [h EXCEPT ![p].ptr = bp]

free(s, bp) ==
  LET p == place(s.h, s.freep, bp) IN
  [s EXCEPT !.h = join_prev(join_next(s.h, bp, s.h[p].ptr), p, bp), !.freep = p]

\* morecore(): sbrk() of at least MINCORE, given to free().
core(nu) == Max({nu, MINCORE})
Fits(s, nu) == s.brk + core(nu) <= LIMIT
morecore(s, nu) ==
  free([s EXCEPT !.h[s.brk].size = core(nu), !.brk = @ + core(nu)], s.brk)

\* The block that malloc() returns from p, its predecessor being prevp.
\* Mutant: all of p is returned.
take_head(s, prevp, p, n) ==
  [ret |-> p, s |-> [s EXCEPT !.h[prevp].ptr = s.h[p].ptr, !.freep = prevp]]

take(s, prevp, p, n) ==
  IF s.h[p].size = n
    THEN [ret |-> p, s |-> [s EXCEPT !.h[prevp].ptr = s.h[p].ptr, !.freep = prevp]]
    ELSE LET q == p + s.h[p].size - n IN
         [ret |-> q, s |-> [s EXCEPT !.h[p].size = @ - n, !.h[q].size = n, !.freep = prevp]]

\* malloc()'s loop.  Mutant: it gives up one block early.
around_early(s, p) == s.h[p].ptr = s.freep

around(s, p) == p = s.freep

RECURSIVE search(_, _, _, _)
search(s, prevp, p, n) ==
  IF s.h[p].size >= n THEN take(s, prevp, p, n)
  ELSE IF ~around(s, p) THEN search(s, p, s.h[p].ptr, n)
  ELSE IF ~Fits(s, n) THEN [ret |-> null, s |-> s]
  ELSE LET m == morecore(s, n) IN search(m, m.freep, m.h[m.freep].ptr, n)

\* The first call makes base the only block of the list, of size 0.
Started(s) ==
  IF s.freep # null THEN s
  ELSE [s EXCEPT !.h[base] = [ptr |-> base, size |-> 0], !.freep = base]

Malloc(n) ==
  LET s == Started(heap)  r == search(s, s.freep, s.h[s.freep].ptr, n) IN
  /\ calls < MaxCalls /\ calls' = calls + 1
  /\ heap' = r.s
  /\ blocks' = IF r.ret = null THEN blocks ELSE blocks \cup {<<r.ret, r.s.h[r.ret].size>>}
  /\ asked' = IF r.ret = null THEN n ELSE 0

Free(b) ==
  /\ calls < MaxCalls /\ calls' = calls + 1
  /\ heap' = free(heap, b[1])
  /\ blocks' = blocks \ {b}
  /\ asked' = 0

Done == calls = MaxCalls /\ UNCHANGED vars

Next == (\E n \in Sizes : Malloc(n)) \/ (\E b \in blocks : Free(b)) \/ Done

Spec == Init /\ [][Next]_vars
-----------------------------------------------------------------------------
TypeOK ==
  /\ heap.h \in [Addrs -> [ptr : Addrs, size : 0..LIMIT]]
  /\ heap.freep \in Addrs \cup {null} /\ heap.brk \in START..LIMIT
  /\ \A b \in blocks : b[1] \in START..LIMIT /\ b[2] \in Sizes

\* The addresses of the free list, from p on and back to base.
RECURSIVE Ring(_, _)
Ring(p, seen) == IF p \in seen THEN seen ELSE Ring(heap.h[p].ptr, seen \cup {p})
FreeList == IF heap.freep = null THEN {} ELSE Ring(heap.freep, {})
FreeBlocks == {<<p, heap.h[p].size>> : p \in FreeList \ {base}}

Units(b) == b[1]..(b[1] + b[2] - 1)

\* The heap is tiled: every unit that sbrk() has given belongs to exactly one
\* block, a free one or one in use, after any sequence of malloc() and free().
Tiled ==
  \A a \in START..(LIMIT - 1) :
    Cardinality({b \in FreeBlocks \cup blocks : a \in Units(b)}) = IF a < heap.brk THEN 1 ELSE 0

\* The free list is a ring through base in the order of addresses, and no block
\* of it ends where another starts: free() has joined them.
RingSorted ==
  /\ heap.freep # null => base \in FreeList
  /\ \A p \in FreeList :
       LET q == heap.h[p].ptr IN
       /\ q \in FreeList
       /\ {x \in FreeList : x > p} # {} => q = Min({x \in FreeList : x > p})
       /\ {x \in FreeList : x > p} = {} => q = base
       /\ p # base => p + heap.h[p].size # q

\* malloc() fails only when no free block is large enough and sbrk() fails.
FailsOnlyWhenFull ==
  asked # 0 => ~Fits(heap, asked) /\ \A b \in FreeBlocks : b[2] < asked

\* The heap is whole after any sequence of malloc() and free(): tiled by its
\* blocks, its free blocks sorted and joined, and refused only when full.
Consistent == TypeOK /\ Tiled /\ RingSorted /\ FailsOnlyWhenFull
=============================================================================

------------------------------- MODULE Umalloc -------------------------------
(***************************************************************************)
(* malloc and free of xv6's user programs (user/umalloc.c): a circular list*)
(* of free blocks in the order of their addresses, searched from freep on. *)
(* Addresses are in units of a header; base lies below the heap.           *)
(***************************************************************************)
EXTENDS Integers, FiniteSets, FiniteSetsExt

CONSTANTS
  HEAP,   \* what sbrk can give in all
  CHUNK,  \* the least morecore asks for
  Asked   \* sizes that are asked for, the header included

base == 0
start == 2   \* where the heap begins

VARIABLES
  ptr,    \* the next of each free block, base among them
  units,  \* the sizes in the headers
  freep,
  top,    \* the end of the heap
  own,    \* the units that the program got from sbrk itself
  inuse   \* history: what malloc gave and was not freed, with its size

heapVars == <<ptr, units, freep, top, own, inuse>>

\* The list is made by the first malloc.
HeapInit ==
  /\ ptr = [b \in {base} |-> base] /\ units = [b \in {base} |-> 0] /\ freep = base
  /\ top = start /\ own = {} /\ inuse = {}

FreeBlocks == DOMAIN ptr
List == [ptr |-> ptr, units |-> units, freep |-> freep]
SetList(l) == ptr' = l.ptr /\ units' = l.units /\ freep' = l.freep

\* The function f with y at x, and f without x.
Upd(f, x, y) == [a \in DOMAIN f \cup {x} |-> IF a = x THEN y ELSE f[a]]
Without(f, x) == [a \in DOMAIN f \ {x} |-> f[a]]

\* The k-th block after freep.
Nth(l, k) ==
  LET nth[i \in 0 .. k] == IF i = 0 THEN l.freep ELSE l.ptr[nth[i - 1]] IN nth[k]

------------------------------------------------------------------------------
(* free *)

\* p is the block after which bp belongs.
Before(l, p, bp) ==
  \/ bp > p /\ bp < l.ptr[p]
  \/ p >= l.ptr[p] /\ (bp > p \/ bp < l.ptr[p])

\* bp takes in the block after it, if they touch.
JoinUp(l, p, bp) ==
  LET up == l.ptr[p] IN
  IF bp + l.units[bp] = up
  THEN [l EXCEPT !.units = Without(Upd(@, bp, @[bp] + @[up]), up),
                 !.ptr = Without(Upd(@, bp, @[up]), up)]
  ELSE [l EXCEPT !.ptr = Upd(@, bp, up)]

\* Mutant: the block before keeps its size.
JoinDown_NoSize(l, p, bp) ==
  IF p + l.units[p] = bp
  THEN [l EXCEPT !.units = Without(@, bp), !.ptr = Without(Upd(@, p, @[bp]), bp)]
  ELSE [l EXCEPT !.ptr = Upd(@, p, bp)]

\* The block before takes in bp, if they touch.
JoinDown(l, p, bp) ==
  IF p + l.units[p] = bp
  THEN [l EXCEPT !.units = Without(Upd(@, p, @[p] + @[bp]), bp),
                 !.ptr = Without(Upd(@, p, @[bp]), bp)]
  ELSE [l EXCEPT !.ptr = Upd(@, p, bp)]

\* The list with the block bp, whose header has its size.
FreeBlock(l, bp) ==
  LET n == Cardinality(DOMAIN l.ptr)
      p == Nth(l, Min({ k \in 0 .. n - 1 : Before(l, Nth(l, k), bp) }))
  IN [JoinDown(JoinUp(l, p, bp), p, bp) EXCEPT !.freep = p]

FreeAp ==
  \E b \in inuse :
    /\ SetList(FreeBlock(List, b[1]))
    /\ inuse' = inuse \ {b} /\ UNCHANGED <<top, own>>

------------------------------------------------------------------------------
(* malloc *)

\* The places in the list, counted from freep, of the blocks that are large enough.
Fits(l, n) == { k \in 1 .. Cardinality(DOMAIN l.ptr) : l.units[Nth(l, k)] >= n }

\* Where the n units are in a larger block: at its end.
Cut(l, p, n) == p + l.units[p] - n

\* The first block that is large enough, whole or in part, taken out of the list.
Carve(l, n) ==
  LET prevp == Nth(l, Min(Fits(l, n)) - 1)
      p == l.ptr[prevp]
      at == Cut(l, p, n)
  IN [at |-> at,
      l |-> IF at = p
            THEN [l EXCEPT !.ptr = Without(Upd(@, prevp, @[p]), p), !.freep = prevp]
            ELSE [l EXCEPT !.units = Upd(Upd(@, p, @[p] - n), at, n), !.freep = prevp]]

\* How much morecore asks sbrk for, and the list with it.
Chunk(n) == IF n < CHUNK THEN CHUNK ELSE n
morecore(n) == FreeBlock([List EXCEPT !.units = Upd(@, top, Chunk(n))], top)

\* malloc searches once more after morecore; it fails, and changes nothing, when sbrk
\* does.
Malloc(n) ==
  LET more == Fits(List, n) = {}
      c == Carve(IF more THEN morecore(n) ELSE List, n)
  IN /\ more => top + Chunk(n) <= start + HEAP
     /\ SetList(c.l)
     /\ top' = IF more THEN top + Chunk(n) ELSE top
     /\ inuse' = inuse \cup {<<c.at, n>>}
     /\ UNCHANGED own

\* The program takes memory from sbrk itself, which malloc never gets.
Sbrk ==
  /\ top < start + HEAP
  /\ top' = top + 1 /\ own' = own \cup {top}
  /\ UNCHANGED <<ptr, units, freep, inuse>>

HeapNext == FreeAp \/ Sbrk \/ \E n \in Asked : Malloc(n)

HeapSpec == HeapInit /\ [][HeapNext]_heapVars

------------------------------------------------------------------------------
(* Properties *)

Extent(b, n) == b .. b + n - 1

\* Every unit of the heap is in one free block or in one that is in use, the free list
\* is a ring through all free blocks in the order of their addresses, and no two that
\* touch are left apart (malloc, free, morecore).
HeapExact ==
  LET blocks == { <<b, units[b]>> : b \in FreeBlocks \ {base} } \cup inuse
                  \cup { <<a, 1>> : a \in own }
  IN
  /\ UNION { Extent(b[1], b[2]) : b \in blocks } = start .. top - 1
  /\ \A a, b \in blocks : a # b => Extent(a[1], a[2]) \cap Extent(b[1], b[2]) = {}
  /\ \A b \in inuse : units[b[1]] = b[2]
  /\ \A b \in FreeBlocks :
       LET above == { c \in FreeBlocks : c > b }
       IN /\ ptr[b] = IF above = {} THEN base ELSE Min(above)
          /\ b + units[b] \notin FreeBlocks \ {base} \/ b = base

==============================================================================

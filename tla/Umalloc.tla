------------------------------ MODULE Umalloc -------------------------------
(***************************************************************************)
(* malloc() and free() of user programs (user/umalloc.c).  Addresses count *)
(* Headers; 0 is the static base, and the program's memory begins at 1.    *)
(***************************************************************************)
EXTENDS Naturals, FiniteSets, FiniteSetsExt

CONSTANTS
  MAXBRK,     \* sbrk() fails beyond it
  MINCORE,    \* morecore() asks for no fewer Headers
  MAXREQ      \* the largest request, in Headers

VARIABLES
  ptr, size,  \* the two fields of the Header at each address
  freep,
  brk,        \* the end of the program's memory: what sbrk() returns next
  out,        \* what the program has: [start, bytes]
  own         \* what it took by sbrk() itself

vars == <<ptr, size, freep, brk, out, own>>

base == 0
Addr == 0..MAXBRK
heap == [ptr |-> ptr, size |-> size, freep |-> freep, brk |-> brk]

\* The state after the first call's initialisation.
Init ==
  /\ ptr = [a \in Addr |-> base] /\ size = [a \in Addr |-> 0]
  /\ freep = base
  /\ brk = 1
  /\ out = {} /\ own = {}

-----------------------------------------------------------------------------
\* The i-th block that the loops of free() and malloc() look at, from freep on.
Nth(h, i) ==
  LET nth[j \in 0..i] == IF j = 0 THEN h.freep ELSE h.ptr[nth[j - 1]] IN nth[i]

\* free()'s loop stops at the block after which bp belongs.
Before(h, bp) ==
  LET stops(p) == \/ bp > p /\ bp < h.ptr[p]
                  \/ p >= h.ptr[p] /\ (bp > p \/ bp < h.ptr[p])
  IN Nth(h, Min({i \in Addr : stops(Nth(h, i))}))

JoinsLower(h, p, bp) == p + h.size[p] = bp

\* free(): into the list after p, joined to its neighbours.  The fields of a
\* Header that is no longer one are forgotten, here and in Take.
Free(h, bp) ==
  LET p == Before(h, bp)
      up == h.ptr[p]
      joins == bp + h.size[bp] = up
      sz == h.size[bp] + (IF joins THEN h.size[up] ELSE 0)
      next == IF joins THEN h.ptr[up] ELSE up
      g == IF joins THEN [h EXCEPT !.size[up] = 0, !.ptr[up] = base] ELSE h
  IN IF JoinsLower(h, p, bp)
     THEN [g EXCEPT !.size[p] = @ + sz, !.ptr[p] = next, !.freep = p, !.size[bp] = 0]
     ELSE [g EXCEPT !.size[bp] = sz, !.ptr[bp] = next, !.ptr[p] = bp, !.freep = p]

\* morecore(), when sbrk() succeeds
Units(nu) == Max({nu, MINCORE})
Morecore(h, nu) ==
  Free([h EXCEPT !.size[h.brk] = Units(nu), !.brk = @ + Units(nu)], h.brk)

\* malloc()'s loop looks at every block once before it comes to freep again.
Fits(h, nunits) ==
  {i \in 1..Min({j \in 1..(MAXBRK + 1) : Nth(h, j) = h.freep}) : h.size[Nth(h, i)] >= nunits}

\* Mutant: the block keeps the size it had.
RestAll(h, p, nunits) == h.size[p]

Rest(h, p, nunits) == h.size[p] - nunits

\* The block is unlinked, or its tail is cut off: the heap and the result.
Take(h, nunits) ==
  LET i == Min(Fits(h, nunits))
      prevp == Nth(h, i - 1)
      p == Nth(h, i)
      q == p + h.size[p] - nunits
  IN [at |-> q,
      h |-> IF h.size[p] = nunits
            THEN [h EXCEPT !.ptr[prevp] = h.ptr[p], !.ptr[p] = base, !.freep = prevp]
            ELSE [h EXCEPT !.size[p] = Rest(h, p, nunits), !.size[q] = nunits, !.freep = prevp]]

Becomes(h) == ptr' = h.ptr /\ size' = h.size /\ freep' = h.freep /\ brk' = h.brk

\* malloc(nbytes), for nbytes that fill n Headers
Malloc(n) ==
  LET nunits == n + 1
      grown == IF Fits(heap, nunits) # {} THEN heap ELSE Morecore(heap, nunits)
      r == Take(grown, nunits)
  IN /\ Fits(heap, nunits) # {} \/ brk + Units(nunits) <= MAXBRK
     /\ Becomes(r.h)
     /\ out' = out \cup {[start |-> r.at + 1, bytes |-> (r.at + 1)..(r.at + n)]}
     /\ UNCHANGED own

FreeCall(r) ==
  /\ Becomes(Free(heap, r.start - 1))
  /\ out' = out \ {r}
  /\ UNCHANGED own

\* The program takes memory for itself: the heap has a gap.
Sbrk ==
  /\ brk < MAXBRK
  /\ brk' = brk + 1 /\ own' = own \cup {brk}
  /\ UNCHANGED <<ptr, size, freep, out>>

Next == \/ \E n \in 1..MAXREQ : Malloc(n)
        \/ \E r \in out : FreeCall(r)
        \/ Sbrk

Spec == Init /\ [][Next]_vars

-----------------------------------------------------------------------------
\* A program's pointers are to memory that is theirs alone until it is freed
\* (umalloc.c:24-44 and 63-90).
Memory == INSTANCE Allocator WITH heap <- 1..(MAXBRK - 1)
MallocAllocates == Memory!Spec

\* The list goes through free blocks in the order of addresses, and no two of them
\* touch; with the blocks handed out they are all that sbrk() has given to
\* morecore(): nothing is lost or in two blocks (umalloc.c:33-42).
ListTiles ==
  LET nodes == {Nth(heap, i) : i \in Addr}
      block(p) == p..(p + size[p] - 1)
      freed == {block(p) : p \in nodes \ {base}}
      held == {block(r.start - 1) : r \in out}
  IN /\ base \in nodes
     /\ \A p \in nodes : ptr[p] # base => p + size[p] < ptr[p]
     /\ UNION (freed \cup held) = (1..(brk - 1)) \ own
     /\ freed \cap held = {}
     /\ \A b, c \in freed \cup held : b # c => b \cap c = {}
=============================================================================

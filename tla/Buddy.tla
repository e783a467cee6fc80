------------------------------- MODULE Buddy --------------------------------
(***************************************************************************)
(* The buddy allocator (kernel/buddy.c) over the lists of kernel/list.c.   *)
(* Its lock is held during each call, so a call is a step.                 *)
(*                                                                         *)
(* Addresses count leaves (LEAF_SIZE bytes) from bd_base.  The circular    *)
(* lists are sequences, and the bit vectors sets of block indices.         *)
(***************************************************************************)
EXTENDS Naturals, Sequences, FiniteSets, FiniteSetsExt, SequencesExt

CONSTANTS
  Layouts,   \* [meta, end]: leaves of the allocator's own data, and in all; for
             \* an end that is a power of two, bd_initfree() reads past its bits
  MAXREQ     \* the largest request, in leaves

VARIABLES
  mem,       \* the layout of this heap
  nsizes,
  free, alloc, split,   \* bd_sizes, by size
  out        \* what callers have: [start, bytes]

vars == <<mem, nsizes, free, alloc, split, out>>

BLK_SIZE(k) == 2 ^ k

\* The sizes needed for so many leaves: log2(), and one more if that is too few.
Nsizes(n) == Min({k \in 1..(n + 1) : BLK_SIZE(k - 1) >= n})

MAXSIZE == nsizes - 1
HEAP == BLK_SIZE(MAXSIZE)
Sizes == 0..MAXSIZE

blk_index(k, p) == p \div BLK_SIZE(k)
blk_index_next(k, p) == (p + BLK_SIZE(k) - 1) \div BLK_SIZE(k)
addr(k, bi) == bi * BLK_SIZE(k)
buddy(bi) == IF bi % 2 = 0 THEN bi + 1 ELSE bi - 1

\* kernel/list.c
lst_push(l, p) == <<p>> \o l
lst_pop(l) == Tail(l)
lst_remove(l, p) == SelectSeq(l, LAMBDA q : q # p)

firstk(n) == Min({k \in 0..n : BLK_SIZE(k) >= n})

-----------------------------------------------------------------------------
(* bd_init *)

\* bd_mark() of [0, meta) and of [end, HEAP)
Marked(m, k, top) ==
  (0..(blk_index_next(k, m.meta) - 1))
  \cup (IF m.end < top THEN blk_index(k, m.end)..(blk_index_next(k, top) - 1) ELSE {})

\* bd_initfree_pair()
InitfreePair(k, bi, marked) ==
  IF (bi \in marked) = (buddy(bi) \in marked) THEN <<>>
  ELSE << addr(k, IF bi \in marked THEN buddy(bi) ELSE bi) >>

\* bd_initfree(), for one size
Initfree(m, k, marked) ==
  LET left == blk_index_next(k, m.meta)
      right == blk_index(k, m.end)
  IN (IF right <= left THEN <<>> ELSE InitfreePair(k, right, marked))
     \o InitfreePair(k, left, marked)

\* bd_init() panics unless the free blocks add up to what is left: it does for a
\* small heap whose two borders fall into one pair of buddies.
Init ==
  /\ mem \in Layouts
  /\ nsizes = Nsizes(mem.end)
  /\ alloc = [k \in Sizes |-> Marked(mem, k, HEAP)]
  /\ split = [k \in Sizes |-> IF k = 0 THEN {} ELSE alloc[k]]
  /\ free = [k \in Sizes |-> IF k = MAXSIZE THEN <<>> ELSE Initfree(mem, k, alloc[k])]
  /\ FoldSet(LAMBDA k, n : n + Len(free[k]) * BLK_SIZE(k), 0, Sizes) = mem.end - mem.meta
  /\ out = {}

-----------------------------------------------------------------------------
(* bd_malloc and bd_free *)

\* The smallest size with a free block of at least the size wanted; the halves
\* that are split off on the way down go to the lists below it.
bd_malloc(n) ==
  LET fk == firstk(n)
      fit == {k \in Sizes : k >= fk /\ free[k] # <<>>}
      k == Min(fit)
      p == Head(free[k])
  IN /\ fit # {}
     /\ alloc' = [j \in Sizes |-> IF j \in fk..k THEN alloc[j] \cup {blk_index(j, p)} ELSE alloc[j]]
     /\ split' = [j \in Sizes |-> IF j \in (fk + 1)..k THEN split[j] \cup {blk_index(j, p)} ELSE split[j]]
     /\ free' = [j \in Sizes |-> IF j = k THEN lst_pop(free[j])
                                 ELSE IF j \in fk..(k - 1) THEN lst_push(free[j], p + BLK_SIZE(j))
                                 ELSE free[j]]
     /\ out' = out \cup {[start |-> p, bytes |-> p..(p + n - 1)]}
     /\ UNCHANGED <<mem, nsizes>>

\* size(): it looks one size up, and finds a split block before the sizes end.
size(p) == Min({k \in 0..(MAXSIZE - 1) : blk_index(k + 1, p) \in split[k + 1]})

BuddyBusy(k, p) == buddy(blk_index(k, p)) \in alloc[k]

\* Mutant: the merged block is still marked as split.
UnsplitNot(k, s, top) == FALSE

Unsplit(k, s, top) == k \in (s + 1)..top

\* The loop climbs to the first size at which the buddy is allocated, taking the
\* free buddies it meets off their lists.
bd_free(r) ==
  LET p == r.start
      s == size(p)
      top == Min({k \in s..MAXSIZE : k = MAXSIZE \/ BuddyBusy(k, p)})
  IN /\ alloc' = [k \in Sizes |-> IF k \in s..top /\ k < MAXSIZE THEN alloc[k] \ {blk_index(k, p)} ELSE alloc[k]]
     /\ split' = [k \in Sizes |-> IF Unsplit(k, s, top) THEN split[k] \ {blk_index(k, p)} ELSE split[k]]
     /\ free' = [k \in Sizes |->
                   IF k = top THEN lst_push(free[k], addr(k, blk_index(k, p)))
                   ELSE IF k \in s..(top - 1)
                        THEN lst_remove(free[k], addr(k, buddy(blk_index(k, p))))
                        ELSE free[k]]
     /\ out' = out \ {r}
     /\ UNCHANGED <<mem, nsizes>>

Next == \/ \E n \in 1..MAXREQ : bd_malloc(n)
        \/ \E r \in out : bd_free(r)

Spec == Init /\ [][Next]_vars

-----------------------------------------------------------------------------
\* Callers get memory that is theirs alone, as long as they keep it, and never
\* the allocator's own data or memory that does not exist (buddy.c:335-342).
Memory == INSTANCE Allocator WITH heap <- mem.meta..(mem.end - 1)
BuddyAllocates == Memory!Spec

Block(k, p) == p..(p + BLK_SIZE(k) - 1)
OnList(k) == ToSet(free[k])

\* Free blocks and blocks handed out tile the heap between them; a block is on a
\* list once, and never together with its buddy, so that free memory is in the
\* largest blocks it can form (buddy.c:174-190).
Tiled ==
  LET freed == UNION {{Block(k, p) : p \in OnList(k)} : k \in Sizes}
      held == {Block(size(r.start), r.start) : r \in out}
  IN /\ UNION (freed \cup held) = mem.meta..(mem.end - 1)
     /\ \A b, c \in freed \cup held : b # c => b \cap c = {}
     /\ freed \cap held = {}
     /\ \A k \in Sizes : /\ Len(free[k]) = Cardinality(OnList(k))
                         /\ \A p \in OnList(k) : addr(k, buddy(blk_index(k, p))) \notin OnList(k)
=============================================================================

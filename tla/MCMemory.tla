------------------------------ MODULE MCMemory ------------------------------
(***************************************************************************)
(* Four parts that one thread runs by itself: page tables, the two memory  *)
(* allocators, and the shell's parser, which builds its trees in memory    *)
(* from malloc().  A behaviour is one of one of them, as part says; the    *)
(* others stay in an initial state.                                        *)
(***************************************************************************)
EXTENDS Naturals, Sequences, TLC

CONSTANTS
  Proc, InitProc, NPAGE, PGSIZE, FANOUT, ADDR, UINT, GROW, MAXARG, CALLS,
  MAXLEAVES,
  MAXBRK, MINCORE, MAXREQ,
  Char, MAXARGS, MAXLINE

VARIABLES
  part,
  free, state, tf, pagetable, sz, call, newtable, panicked, abandoned, calls,
  mem, nsizes, lists, alloc, split, lent,
  ptr, size, freep, brk, out, own,
  buf

-----------------------------------------------------------------------------
Seg(v, m, f, r) == [vaddr |-> v, memsz |-> m, filesz |-> f, readable |-> r]
Images == { <<>>, << Seg(0, 2, 1, TRUE) >>, << Seg(0, 0, 0, TRUE) >>,
            << Seg(0, 1, 1, TRUE), Seg(2, 2, 2, FALSE) >>, << Seg(1, 2, 1, TRUE) >> }

Pages == INSTANCE Vm

pages == <<free, state, tf, pagetable, sz, call, newtable, panicked, abandoned, calls>>

Kernel == INSTANCE Buddy WITH
  Layouts <- {[meta |-> 1, end |-> 7], [meta |-> 3, end |-> 6], [meta |-> 2, end |-> 11]},
  MAXREQ <- MAXLEAVES, free <- lists, out <- lent

kernel == <<mem, nsizes, lists, alloc, split, lent>>

User == INSTANCE Umalloc

user == <<ptr, size, freep, brk, out, own>>

Line == INSTANCE Parser

-----------------------------------------------------------------------------
MCInit == /\ Pages!Init /\ Kernel!Init /\ User!Init /\ Line!Init
          /\ part \in {"vm", "buddy", "umalloc", "parser"}
          /\ part # "buddy" => mem.end = 7

VmStep == part = "vm" /\ Pages!Next /\ UNCHANGED <<part, kernel, user, buf>>
BuddyStep == part = "buddy" /\ Kernel!Next /\ UNCHANGED <<part, pages, user, buf>>
UmallocStep == part = "umalloc" /\ User!Next /\ UNCHANGED <<part, pages, kernel, buf>>
ParserStep == part = "parser" /\ Line!Next /\ UNCHANGED <<part, pages, kernel, user>>

\* A line has an end, and so has what sbrk() gives.
Rest == /\ \/ part = "parser" /\ Len(buf) = MAXLINE
           \/ part = "umalloc" /\ brk > MAXBRK - MINCORE /\ out = {}
        /\ UNCHANGED <<part, pages, kernel, user, buf>>

MCNext == VmStep \/ BuddyStep \/ UmallocStep \/ ParserStep \/ Rest

MCSpec == MCInit /\ [][MCNext]_<<part, pages, kernel, user, buf>>

-----------------------------------------------------------------------------
\* A page has one use and none is lost, a process has the pages below its size
\* (proc.c:226-289, exec.c:13-126), and copies stay within them (vm.c:365-453).
PagesAccounted == part = "vm" => Pages!PagesAccounted
AddressSpaceExact == part = "vm" => Pages!AddressSpaceExact
CopiesExactly == part = "vm" => Pages!CopiesExactly

\* In both allocators, free blocks and blocks handed out tile the heap, and the free
\* ones are joined (buddy.c:122-194, umalloc.c:24-90).
BlocksTile == /\ part = "buddy" => Kernel!Tiled
              /\ part = "umalloc" => User!ListTiles

\* Both hand out memory that is the caller's alone until it is freed.
Allocates == /\ [][part = "buddy" => Kernel!Memory!Step]_kernel
             /\ [][part = "umalloc" => User!Memory!Step]_user

\* The parser finds the tree that the grammar gives a line, and ends its words in
\* place without damage (sh.c:266-493).
ParsesLine == part = "parser" => Line!ParsesTheGrammar /\ Line!WordsSurvive
=============================================================================

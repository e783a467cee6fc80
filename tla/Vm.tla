--------------------------------- MODULE Vm ---------------------------------
(***************************************************************************)
(* Pages of physical memory (kernel/kalloc.c), user page tables            *)
(* (kernel/vm.c) and the calls that build and take down address spaces:    *)
(* fork() and its allocproc(), sbrk(), exec(), and the freeproc() of       *)
(* wait(), from kernel/proc.c and kernel/exec.c.                           *)
(*                                                                         *)
(* A loop that allocates takes one step per page, so that processes        *)
(* compete for the last pages; what only frees is done in one step.        *)
(* Addresses are numbers of bytes, in pages of PGSIZE bytes, and a table   *)
(* has FANOUT entries.                                                     *)
(***************************************************************************)
EXTENDS Naturals, Sequences, FiniteSets, FiniteSetsExt

CONSTANTS
  Proc, InitProc,  \* slots of the process table; the one that runs at first
  NPAGE,           \* pages that kinit() frees, numbered from 1; 0 is no page
  PGSIZE, FANOUT,
  ADDR,            \* size of an unsigned 64-bit word
  UINT,            \* size of an unsigned int
  GROW,            \* the largest argument of sbrk
  MAXARG,          \* the most arguments of exec
  CALLS,           \* system calls that are made
  Images           \* programs: sequences of [vaddr, memsz, filesz, readable]

VARIABLES
  free,       \* kmem.freelist; in which order makes no difference
  state,      \* "unused", or what a process is doing
  tf, pagetable, sz,  \* of struct proc
  call,       \* locals of fork(), growproc(), exec() and what they call
  newtable,   \* exec's pagetable
  panicked,
  abandoned,  \* a page table has been freed with size 0
  calls       \* system calls made so far

proc == <<state, tf, pagetable, sz>>
vars == <<free, proc, call, newtable, panicked, abandoned, calls>>

Page == 1..NPAGE
NVA == FANOUT * FANOUT * FANOUT    \* pages below MAXVA
TRAMPOLINE == NVA - 1
TRAPFRAME == NVA - 2
trampoline == NPAGE + 1            \* a page of the kernel's text

\* Page-table pages: the root, and those that walk() meets at the lower levels.
Node == {<<2, 0>>} \cup ({1} \X (0..(FANOUT - 1)))
                   \cup ({0} \X (0..(FANOUT * FANOUT - 1)))

\* A page table: its pages, the page that each PTE maps, the PTEs with PTE_U.
NoTable == [node |-> [k \in Node |-> 0], leaf |-> [v \in 0..(NVA - 1) |-> 0], u |-> {}]
NoCall == [np |-> InitProc, from |-> 0, a |-> 0, goal |-> 0, sz |-> 0, img |-> <<>>, argv |-> {}]

PGROUNDDOWN(a) == a - (a % PGSIZE)
PGROUNDUP(a) == PGROUNDDOWN(a + PGSIZE - 1)
Vpn(a) == a \div PGSIZE

-----------------------------------------------------------------------------
(* Operators on m = [free, pt, panic, ok]: memory and the table at hand *)

\* kalloc(), n times: the pages it returns.
Kalloc(fr, n) == {x \in fr : Cardinality({y \in fr : y < x}) < n}

\* kfree(), of pages that are not free
Kfree(fr, pages) == fr \cup pages

\* The page-table pages that walk() has to allocate, in its order.
Missing(pt, v) ==
  SelectSeq(<< <<1, v \div (FANOUT * FANOUT)>>, <<0, v \div FANOUT>> >>,
            LAMBDA k : pt.node[k] = 0)

\* walk() with alloc: what it allocated stays if the next kalloc() fails.
Walk(m, v) ==
  LET ks == Missing(m.pt, v)
      n == Min({Len(ks), Cardinality(m.free)})
      page(i) == CHOOSE x \in Kalloc(m.free, n) :
                   Cardinality({y \in m.free : y < x}) = i - 1
  IN [m EXCEPT !.free = @ \ Kalloc(@, n),
               !.pt.node = [k \in Node |-> IF \E i \in 1..n : ks[i] = k
                                           THEN page(CHOOSE i \in 1..n : ks[i] = k) ELSE @[k]],
               !.ok = n = Len(ks)]

\* mappages() for one page; PTE_U is set if u.
Mappages(m, v, pa, u) ==
  LET w == Walk(m, v) IN
  IF ~w.ok THEN w
  ELSE IF w.pt.leaf[v] # 0 THEN [w EXCEPT !.panic = TRUE]
  ELSE [w EXCEPT !.pt.leaf[v] = pa, !.pt.u = IF u THEN @ \cup {v} ELSE @]

LastPage(va, size) == Vpn((va + size + ADDR - 1) % ADDR)

\* uvmunmap(): a page that is not mapped, or is beyond MAXVA, is a panic.
Uvmunmap(m, va, size, do_free) ==
  LET vs == Vpn(va)..LastPage(va, size) IN
  IF \E v \in vs : v >= NVA \/ m.pt.leaf[v] = 0 THEN [m EXCEPT !.panic = TRUE]
  ELSE [m EXCEPT !.free = IF do_free THEN Kfree(@, {m.pt.leaf[v] : v \in vs}) ELSE @,
                 !.pt.leaf = [v \in DOMAIN @ |-> IF v \in vs THEN 0 ELSE @[v]],
                 !.pt.u = @ \ vs]

Freewalk(m) ==
  IF \E v \in 0..(NVA - 1) : m.pt.leaf[v] # 0 THEN [m EXCEPT !.panic = TRUE]
  ELSE [m EXCEPT !.free = Kfree(@, {m.pt.node[k] : k \in Node} \ {0}), !.pt = NoTable]

Uvmfree(m, size) == Freewalk(Uvmunmap(m, 0, size, TRUE))

\* proc_freepagetable(): the pages of a table of size 0 are not freed.
ProcFreepagetable(m, size) ==
  LET n == Uvmunmap(Uvmunmap(m, TRAMPOLINE * PGSIZE, PGSIZE, FALSE), TRAPFRAME * PGSIZE, PGSIZE, FALSE)
  IN IF n.panic THEN n
     ELSE IF size > 0 THEN Uvmfree(n, size) ELSE [n EXCEPT !.pt = NoTable]

\* proc_pagetable(): uvmcreate() panics if it gets no page; the results of the
\* two calls of mappages() are ignored.
ProcPagetable(fr, frame) ==
  LET root == Min(fr)
      m == [free |-> fr \ {root}, pt |-> [NoTable EXCEPT !.node[<<2, 0>>] = root],
            panic |-> FALSE, ok |-> TRUE]
  IN IF fr = {} THEN [free |-> fr, pt |-> NoTable, panic |-> TRUE, ok |-> FALSE]
     ELSE Mappages(Mappages(m, TRAMPOLINE, trampoline, FALSE), TRAPFRAME, frame, FALSE)

\* Mutant: the roundings are mixed up.
UvmdeallocDown(m, oldsz, newsz) ==
  IF PGROUNDDOWN(newsz) < PGROUNDUP(oldsz)
  THEN Uvmunmap(m, PGROUNDDOWN(newsz), oldsz - PGROUNDDOWN(newsz), TRUE) ELSE m

\* uvmdealloc(), from a size to a smaller one
Uvmdealloc(m, oldsz, newsz) ==
  IF PGROUNDUP(newsz) < PGROUNDUP(oldsz)
  THEN Uvmunmap(m, PGROUNDUP(newsz), oldsz - PGROUNDUP(newsz), TRUE) ELSE m

\* Mutant: a page that cannot be mapped is forgotten.
NewPageKept(m, a, u) ==
  IF m.free = {} THEN [m EXCEPT !.ok = FALSE]
  ELSE Mappages([m EXCEPT !.free = @ \ {Min(@)}], Vpn(a), Min(m.free), u)

\* A page at address a: kalloc() and mappages(); a page that cannot be mapped is
\* freed again.
NewPage(m, a, u) ==
  IF m.free = {} THEN [m EXCEPT !.ok = FALSE]
  ELSE LET mem == Min(m.free)
           w == Mappages([m EXCEPT !.free = @ \ {mem}], Vpn(a), mem, u)
       IN IF w.ok THEN w ELSE [w EXCEPT !.free = Kfree(@, {mem})]

Mem(pt) == [free |-> free, pt |-> pt, panic |-> FALSE, ok |-> TRUE]

-----------------------------------------------------------------------------
(* copyout(), copyin() and copyinstr(): the bytes they reach *)

\* Mutant: the rest of the first page is not taken into account.
ChunkOf(va, len) == Min({PGSIZE, len})

Chunk(va, len) == Min({PGSIZE - (va - PGROUNDDOWN(va)), len})

\* walkaddr() finds a page that the user may touch.
Walkaddr(pt, va) == Vpn(va) < NVA /\ Vpn(va) \in pt.u

PageTables == {pagetable[p] : p \in Proc}

\* Bytes that are copied before the end, or before a page without PTE_U.
Copied[pt \in PageTables, va \in 0..(PGSIZE * NVA), len \in 0..(2 * PGSIZE)] ==
  IF len = 0 \/ ~Walkaddr(pt, va) THEN {}
  ELSE LET n == Chunk(va, len)
       IN (va..(va + n - 1)) \cup Copied[pt, PGROUNDDOWN(va) + PGSIZE, len - n]

-----------------------------------------------------------------------------
Init ==
  /\ state = [p \in Proc |-> IF p = InitProc THEN "user" ELSE "unused"]
  \* userinit(): a trap frame, a table and one page
  /\ LET m == NewPage(ProcPagetable(Page \ {1}, 1), 0, TRUE) IN
     /\ free = m.free
     /\ pagetable = [p \in Proc |-> IF p = InitProc THEN m.pt ELSE NoTable]
  /\ tf = [p \in Proc |-> IF p = InitProc THEN 1 ELSE 0]
  /\ sz = [p \in Proc |-> IF p = InitProc THEN PGSIZE ELSE 0]
  /\ call = [p \in Proc |-> NoCall]
  /\ newtable = [p \in Proc |-> NoTable]
  /\ panicked = FALSE /\ abandoned = FALSE /\ calls = 0

Goto(p, l) == state' = [state EXCEPT ![p] = l]
Return(p) == Goto(p, "user") /\ call' = [call EXCEPT ![p] = NoCall]
Panics == panicked' = TRUE /\ UNCHANGED <<free, proc, call, newtable, abandoned>>
Live(p, l) == ~panicked /\ state[p] = l

-----------------------------------------------------------------------------
(* fork *)

\* allocproc(), found; if there is no page for the trap frame, fork() returns -1
Fork(p) ==
  /\ Live(p, "user") /\ free # {}
  /\ \E np \in Proc :
       LET m == ProcPagetable(free \ {Min(free)}, Min(free)) IN
       /\ state[np] = "unused"
       /\ IF m.panic THEN Panics
          ELSE /\ free' = m.free
               /\ tf' = [tf EXCEPT ![np] = Min(free)]
               /\ pagetable' = [pagetable EXCEPT ![np] = m.pt]
               /\ state' = [state EXCEPT ![p] = "fork", ![np] = "embryo"]
               /\ call' = [call EXCEPT ![p].np = np]
               /\ UNCHANGED <<sz, newtable, panicked, abandoned>>

\* freeproc(): the process that wait() has found, or that fork() gives up; m is
\* its table and the memory.
Freeproc(np, m) ==
  LET n == ProcFreepagetable(m, sz[np]) IN
  IF n.panic THEN Panics
  ELSE /\ free' = Kfree(n.free, {tf[np]})
       /\ tf' = [tf EXCEPT ![np] = 0]
       /\ pagetable' = [pagetable EXCEPT ![np] = NoTable]
       /\ abandoned' = (abandoned \/ sz[np] = 0)
       /\ sz' = [sz EXCEPT ![np] = 0]
       /\ UNCHANGED <<newtable, panicked>>

\* A turn of uvmcopy()'s loop.  On failure, what was copied is unmapped: if this
\* is nothing, uvmunmap() is called with size 0.
Uvmcopy(p) ==
  LET np == call[p].np
      a == call[p].a
      m == NewPage(Mem(pagetable[np]), a, Vpn(a) \in pagetable[p].u)
      n == Uvmunmap(m, 0, a, TRUE)
  IN /\ Live(p, "fork") /\ a < sz[p]
     /\ IF pagetable[p].leaf[Vpn(a)] = 0 \/ m.panic THEN Panics
        ELSE IF m.ok
        THEN /\ free' = m.free
             /\ pagetable' = [pagetable EXCEPT ![np] = m.pt]
             /\ call' = [call EXCEPT ![p].a = a + PGSIZE]
             /\ UNCHANGED <<state, tf, sz, newtable, panicked, abandoned>>
        ELSE IF n.panic THEN Panics
        ELSE /\ Freeproc(np, n)
             /\ IF panicked' THEN TRUE
                ELSE /\ state' = [state EXCEPT ![p] = "user", ![np] = "unused"]
                     /\ call' = [call EXCEPT ![p] = NoCall]

ForkReturns(p) ==
  /\ Live(p, "fork") /\ call[p].a >= sz[p]
  /\ sz' = [sz EXCEPT ![call[p].np] = sz[p]]
  /\ state' = [state EXCEPT ![p] = "user", ![call[p].np] = "user"]
  /\ call' = [call EXCEPT ![p] = NoCall]
  /\ UNCHANGED <<free, tf, pagetable, newtable, panicked, abandoned>>

\* exit() and the parent's wait()
Reap(p) ==
  /\ Live(p, "user") /\ p # InitProc
  /\ Freeproc(p, Mem(pagetable[p]))
  /\ IF panicked' THEN TRUE ELSE Goto(p, "unused") /\ UNCHANGED call

-----------------------------------------------------------------------------
(* sbrk *)

\* growproc() with n > 0: uvmalloc() begins.  A sum that wraps grows nothing.
Grow(p, n) ==
  LET newsz == (sz[p] + n) % UINT IN
  /\ Live(p, "user") /\ newsz >= sz[p]
  /\ Goto(p, "grow")
  /\ call' = [call EXCEPT ![p].from = PGROUNDUP(sz[p]), ![p].a = PGROUNDUP(sz[p]), ![p].goal = newsz]
  /\ UNCHANGED <<free, tf, pagetable, sz, newtable, panicked, abandoned>>

\* growproc(-n); a difference that wraps shrinks nothing.
Shrink(p, n) ==
  LET newsz == (sz[p] + UINT - n) % UINT
      m == Uvmdealloc(Mem(pagetable[p]), sz[p], newsz)
  IN /\ Live(p, "user") /\ newsz < sz[p]
     /\ IF m.panic THEN Panics
        ELSE /\ free' = m.free
             /\ pagetable' = [pagetable EXCEPT ![p] = m.pt]
             /\ sz' = [sz EXCEPT ![p] = newsz]
             /\ UNCHANGED <<state, tf, call, newtable, panicked, abandoned>>

GrowReturns(p) ==
  /\ Live(p, "grow") /\ call[p].a >= call[p].goal
  /\ sz' = [sz EXCEPT ![p] = call[p].goal]
  /\ Return(p)
  /\ UNCHANGED <<free, tf, pagetable, newtable, panicked, abandoned>>

\* A turn of uvmalloc()'s loop, for growproc() or for exec().  On failure it gives
\* back the pages it has allocated and returns 0, which exec() stores in sz.
Uvmalloc(p) ==
  LET grows == state[p] = "grow"
      c == call[p]
      m == NewPage(Mem(IF grows THEN pagetable[p] ELSE newtable[p]), c.a, TRUE)
      d == IF m.ok THEN m ELSE Uvmdealloc(m, c.a, c.from)
  IN /\ ~panicked /\ state[p] \in {"grow", "seg", "stack"} /\ c.a < c.goal
     /\ IF d.panic THEN Panics
        ELSE /\ free' = d.free
             /\ pagetable' = IF grows THEN [pagetable EXCEPT ![p] = d.pt] ELSE pagetable
             /\ newtable' = IF grows THEN newtable ELSE [newtable EXCEPT ![p] = d.pt]
             /\ IF m.ok THEN call' = [call EXCEPT ![p].a = c.a + PGSIZE] /\ UNCHANGED state
                ELSE IF grows THEN Return(p)
                ELSE Goto(p, "bad") /\ call' = [call EXCEPT ![p].sz = 0]
             /\ UNCHANGED <<tf, sz, panicked, abandoned>>

-----------------------------------------------------------------------------
(* exec *)

\* sys_exec() gets a page for each argument; exec() reads the header and makes a
\* page table.  Before that, it fails without a trace.
Exec(p) ==
  /\ Live(p, "user")
  /\ \E img \in Images, n \in 0..MAXARG :
       LET argv == Kalloc(free, n)
           m == ProcPagetable(free \ argv, tf[p])
       IN IF Cardinality(argv) < n \/ m.panic THEN Panics
          ELSE /\ free' = m.free
               /\ newtable' = [newtable EXCEPT ![p] = m.pt]
               /\ call' = [call EXCEPT ![p].img = img, ![p].argv = argv]
               /\ Goto(p, "load")
               /\ UNCHANGED <<tf, pagetable, sz, panicked, abandoned>>

\* uvmalloc(pagetable, sz, newsz)
CallUvmalloc(p, l, newsz) ==
  LET old == PGROUNDUP(call[p].sz) IN
  /\ Goto(p, l)
  /\ call' = [call EXCEPT ![p].from = old, ![p].a = old, ![p].goal = Max({newsz, call[p].sz})]

LoadSegment(p) ==
  LET s == Head(call[p].img) IN
  /\ Live(p, "load") /\ call[p].img # <<>>
  /\ IF s.memsz < s.filesz \/ (s.vaddr + s.memsz) % ADDR < s.vaddr
     THEN Goto(p, "bad") /\ UNCHANGED call
     ELSE CallUvmalloc(p, "seg", s.vaddr + s.memsz)
  /\ UNCHANGED <<free, tf, pagetable, sz, newtable, panicked, abandoned>>

\* uvmalloc() is done with a segment, and loadseg() fills its pages.
Loadseg(p) ==
  LET c == call[p]
      s == Head(c.img)
      bad == c.goal = 0 \/ s.vaddr % PGSIZE # 0 \/ ~s.readable
  IN /\ Live(p, "seg") /\ c.a >= c.goal
     /\ IF /\ c.goal # 0 /\ s.vaddr % PGSIZE = 0
           /\ \E i \in 0..(s.filesz - 1) : Vpn(s.vaddr + i) \notin newtable[p].u
        THEN Panics
        ELSE /\ Goto(p, IF bad THEN "bad" ELSE "load")
             /\ call' = [call EXCEPT ![p].sz = c.goal, ![p].img = Tail(@)]
             /\ UNCHANGED <<free, tf, pagetable, sz, newtable, panicked, abandoned>>

\* Two more pages: the guard and the stack.
AllocStack(p) ==
  /\ Live(p, "load") /\ call[p].img = <<>>
  /\ CallUvmalloc(p, "stack", PGROUNDUP(call[p].sz) + 2 * PGSIZE)
  /\ UNCHANGED <<free, tf, pagetable, sz, newtable, panicked, abandoned>>

\* uvmclear(), the arguments, which fit on the stack, and the commit to the new
\* image, which frees the old one and sys_exec()'s pages.
ExecCommits(p) ==
  LET c == call[p]
      m == ProcFreepagetable(Mem(pagetable[p]), sz[p])
  IN /\ Live(p, "stack") /\ c.a >= c.goal
     /\ IF m.panic THEN Panics
        ELSE /\ free' = Kfree(m.free, c.argv)
             /\ pagetable' = [pagetable EXCEPT
                  ![p] = [newtable[p] EXCEPT !.u = @ \ {Vpn(c.goal) - 2}]]
             /\ sz' = [sz EXCEPT ![p] = c.goal]
             /\ newtable' = [newtable EXCEPT ![p] = NoTable]
             /\ abandoned' = (abandoned \/ sz[p] = 0)
             /\ Return(p)
             /\ UNCHANGED <<tf, panicked>>

\* The arguments do not fit.
ArgumentsTooBig(p) ==
  /\ Live(p, "stack") /\ call[p].a >= call[p].goal
  /\ Goto(p, "bad")
  /\ call' = [call EXCEPT ![p].sz = call[p].goal]
  /\ newtable' = [newtable EXCEPT ![p].u = @ \ {Vpn(call[p].goal) - 2}]
  /\ UNCHANGED <<free, tf, pagetable, sz, panicked, abandoned>>

\* The label bad
ExecFails(p) ==
  LET m == ProcFreepagetable(Mem(newtable[p]), call[p].sz) IN
  /\ Live(p, "bad")
  /\ IF m.panic THEN Panics
     ELSE /\ free' = Kfree(m.free, call[p].argv)
          /\ newtable' = [newtable EXCEPT ![p] = NoTable]
          /\ abandoned' = (abandoned \/ call[p].sz = 0)
          /\ Return(p)
          /\ UNCHANGED <<tf, pagetable, sz, panicked>>

\* panic() never returns; and no calls are made any more.
Halted ==
  /\ panicked \/ (calls = CALLS /\ \A p \in Proc : state[p] \in {"user", "unused"})
  /\ UNCHANGED vars

-----------------------------------------------------------------------------
Next ==
  \/ Halted
  \/ \E p \in Proc :
       \/ /\ calls < CALLS /\ calls' = calls + 1
          /\ \/ Fork(p) \/ Exec(p) \/ Reap(p)
             \/ \E n \in 1..GROW : Grow(p, n) \/ Shrink(p, n)
       \/ /\ UNCHANGED calls
          /\ \/ Uvmcopy(p) \/ ForkReturns(p)
             \/ Uvmalloc(p) \/ GrowReturns(p)
             \/ LoadSegment(p) \/ Loadseg(p) \/ AllocStack(p)
             \/ ExecCommits(p) \/ ArgumentsTooBig(p) \/ ExecFails(p)

Spec == Init /\ [][Next]_vars

-----------------------------------------------------------------------------
Tables == {<<0, p>> : p \in Proc} \cup {<<1, p>> : p \in Proc}
Table(t) == IF t[1] = 0 THEN pagetable[t[2]] ELSE newtable[t[2]]

\* The uses a page is put to.
Uses(x) ==
  {f \in {"free"} : x \in free}
  \cup {p \in Proc : tf[p] = x}
  \cup {<<"argv", p>> : p \in {q \in Proc : x \in call[q].argv}}
  \cup {u \in Tables \X Node : Table(u[1]).node[u[2]] = x}
  \cup {u \in Tables \X (0..(TRAPFRAME - 1)) : Table(u[1]).leaf[u[2]] = x}

\* Whoever allocates, frees, fails or runs out of memory: a page is put to one
\* use at a time (nobody maps a page that is free or somebody else's), and none is
\* lost, unless a page table has been freed with size 0: proc_freepagetable()
\* (proc.c:182) then leaves it and all its pages where they are.
PagesAccounted ==
  \A x \in Page : /\ Cardinality(Uses(x)) <= 1
                  /\ ~abandoned /\ ~panicked => Uses(x) # {}

\* A process has the pages below its size and no other (proc.c:240, exec.c:111),
\* whatever rounding sbrk() and exec() have done; its trap frame is its own.
AddressSpaceExact ==
  \A p \in Proc : state[p] \notin {"unused", "embryo", "grow"} /\ ~panicked =>
    /\ {v \in 0..(TRAPFRAME - 1) : pagetable[p].leaf[v] # 0} = 0..(Vpn(PGROUNDUP(sz[p])) - 1)
    /\ pagetable[p].leaf[TRAPFRAME] \in {0, tf[p]}

\* copyout(), copyin() and copyinstr() reach the bytes asked for up to the first
\* one that the process may not touch, and no other (vm.c:370-383).
CopiesExactly ==
  \A p \in Proc : \A va \in 0..(PGSIZE * NVA - 1), len \in 0..(2 * PGSIZE) :
    Copied[pagetable[p], va, len] =
      {b \in va..(va + len - 1) : \A c \in va..b : Vpn(c) \in pagetable[p].u}

\* uvmcopy() and fork() return when memory runs out (vm.c:317).
UvmcopyReturns == panicked => \A p \in Proc : state[p] # "fork"
=============================================================================

--------------------------- MODULE SpinlockProofs ---------------------------
(***************************************************************************)
(* Proofs about acquire, release, push_off and pop_off for any number of   *)
(* CPUs, threads and locks: spinlocks exclude, nothing panics, and the     *)
(* outermost release leaves interrupts as the outermost acquire found them. *)
(*                                                                         *)
(* The invariant says where a context is inside a lock, that it then runs  *)
(* with interrupts off and how noff and intena count and remember, and     *)
(* whose lk->locked and lk->cpu are.                                       *)
(***************************************************************************)
EXTENDS Spinlock, TLAPS

\* A leaf that names no prover is for Zenon, within half a minute.
USE ZenonT(30)

\* The places of acquire() and of release(), those at which push_off() has counted
\* a lock that is not held yet or any more, and those at which lk->locked is set and
\* lk->cpu is not.
Acquiring == {"push", "holding", "holding_cpu", "test_and_set", "set_cpu"}
Releasing == {"release_cpu", "clear_cpu"}
Counted == {"holding", "holding_cpu", "test_and_set", "set_cpu", "unlock", "pop"}
Anonymous == {"set_cpu", "unlock"}
Label == {"run"} \cup Acquiring \cup Releasing \cup {"unlock", "pop"}

-----------------------------------------------------------------------------
(* The inductive invariant *)

TypeOK ==
  /\ locked \in [Lock -> BOOLEAN]
  /\ owner \in [Lock -> Cpu \cup {None}]
  /\ intr \in [Cpu -> BOOLEAN]
  /\ noff \in [Cpu -> Nat]
  /\ intena \in [Cpu -> BOOLEAN]
  /\ on \in [Context -> Cpu \cup {None}]
  /\ active \in SUBSET Cpu
  /\ pc \in [Context -> Label]
  /\ lk \in [Context -> Lock]
  /\ old \in [Context -> BOOLEAN]
  /\ held \in [Context -> SUBSET Lock]
  /\ before \in [Context -> BOOLEAN]

\* A handler is at home on its CPU, and a CPU has one thread at most.
Placed ==
  /\ \A c \in Cpu : on[c] = c
  /\ \A t, u \in Thread : on[t] = on[u] /\ on[t] # None => t = u
  /\ \A c \in Cpu \ active : pc[c] = "run" /\ held[c] = {}

\* A context is inside a lock, or about to be.
Inside(x) == held[x] # {} \/ pc[x] \notin {"run", "push"}

\* S has n elements: they can be numbered from 1 to n.
Counts(S, n) ==
  \E f \in [1..n -> S] : /\ \A e \in S : \E i \in 1..n : f[i] = e
                        /\ \A i, j \in 1..n : f[i] = f[j] => i = j

\* n is the number of push_off() calls, not yet undone by pop_off(), of a context that
\* holds the locks S: one for each, and one for the lock it is taking or giving up.
Nests(S, label, n) ==
  \E k \in Nat : Counts(S, k) /\ n = IF label \in Counted THEN k + 1 ELSE k

\* The CPU under a context: interrupts, noff and intena.
CpuOK(x) ==
  /\ Inside(x) => Runs(x) /\ ~intr[on[x]] /\ intena[on[x]] = before[x]
  /\ Runs(x) => Nests(held[x], pc[x], noff[on[x]])
  /\ pc[x] = "push" => /\ Runs(x) => intr[on[x]] = old[x]
                       /\ ~Runs(x) => old[x]
                       /\ held[x] = {} => before[x] = old[x]

\* Nobody runs on the CPU: nothing is counted there.
Idle == \A c \in Cpu : (\A x \in Context : Runs(x) => on[x] # c) => noff[c] = 0

\* Where the argument of acquire() and of release() is.
ArgOK(x) ==
  /\ pc[x] \in Acquiring => lk[x] \notin held[x]
  /\ pc[x] \in Releasing => lk[x] \in held[x]
  /\ pc[x] = "unlock" => lk[x] \notin held[x]

\* lk->locked is set for one context, and lk->cpu is its CPU while the lock is held.
Grabs(x, l) == l \in held[x] \/ (pc[x] \in Anonymous /\ lk[x] = l)
LockOK(l) ==
  /\ locked[l] <=> \E x \in Context : Grabs(x, l)
  /\ \A x, y \in Context : Grabs(x, l) /\ Grabs(y, l) => x = y
  /\ \A x \in Context : l \in held[x] => owner[l] = on[x]
  /\ (\A x \in Context : l \notin held[x]) => owner[l] = None

SpinInv ==
  /\ TypeOK
  /\ Placed
  /\ \A x \in Context : CpuOK(x) /\ ArgOK(x)
  /\ Idle
  /\ \A l \in Lock : LockOK(l)

-----------------------------------------------------------------------------
(* Counting the locks that are held *)

\* No lock is held when noff counts none.
LEMMA CountZero ==
  ASSUME NEW S, NEW n \in Nat, Counts(S, n)
  PROVE  n = 0 <=> S = {}
<1>1. PICK f \in [1..n -> S] : \A e \in S : \E i \in 1..n : f[i] = e
  BY DEF Counts
<1>2. ASSUME S = {}, n # 0
      PROVE  FALSE
  <2>1. 1 \in 1..n
    BY <1>2, SMTT(30)
  <2>2. QED
    BY <1>1, <1>2, <2>1
<1>3. ASSUME S # {}, n = 0
      PROVE  FALSE
  <2>1. 1..0 = {}
    BY SMTT(30)
  <2>2. QED
    BY <1>1, <1>3, <2>1
<1>4. QED
  BY <1>2, <1>3

\* The empty set has no members: a CPU that holds nothing counts zero.
LEMMA CountNone ==
  Counts({}, 0)
<1>1. 1..0 = {}
  BY SMTT(30)
<1>2. [i \in {} |-> i] \in [{} -> {}]
  OBVIOUS
<1>3. QED
  BY <1>1, <1>2 DEF Counts

\* acquire() adds the lock to those that are held.
LEMMA CountAdd ==
  ASSUME NEW S, NEW n \in Nat, Counts(S, n), NEW e, e \notin S
  PROVE  Counts(S \cup {e}, n + 1)
<1>1. PICK f \in [1..n -> S] : /\ \A d \in S : \E i \in 1..n : f[i] = d
                              /\ \A i, j \in 1..n : f[i] = f[j] => i = j
  BY DEF Counts
<1> DEFINE g == [i \in 1..n + 1 |-> IF i = n + 1 THEN e ELSE f[i]]
<1>2. \A i \in 1..n + 1 : i = n + 1 \/ i \in 1..n
  BY SMTT(30)
<1>3. g \in [1..n + 1 -> S \cup {e}]
  BY <1>2
<1>4. ASSUME NEW d \in S \cup {e}
      PROVE  \E i \in 1..n + 1 : g[i] = d
  <2>1. CASE d = e
    <3>1. n + 1 \in 1..n + 1
      BY SMTT(30)
    <3>2. QED
      BY <2>1, <3>1
  <2>2. CASE d \in S
    <3>1. PICK i \in 1..n : f[i] = d
      BY <1>1, <2>2
    <3>2. i \in 1..n + 1 /\ g[i] = d
      BY <3>1, SMTT(30)
    <3>3. QED
      BY <3>2
  <2>3. QED
    BY <2>1, <2>2
<1>5. ASSUME NEW i \in 1..n + 1, NEW j \in 1..n + 1, g[i] = g[j]
      PROVE  i = j
  <2>1. g[n + 1] = e /\ \A m \in 1..n : g[m] = f[m] /\ f[m] # e
    BY SMTT(30)
  <2>2. QED
    BY <1>1, <1>2, <1>5, <2>1
<1> HIDE DEF g
<1>6. QED
  BY <1>3, <1>4, <1>5 DEF Counts

\* release() takes the lock from those that are held.
LEMMA CountRemove ==
  ASSUME NEW S, NEW n \in Nat, Counts(S, n), NEW e \in S
  PROVE  n # 0 /\ Counts(S \ {e}, n - 1)
<1>1. n # 0
  BY CountZero
<1>2. PICK f \in [1..n -> S] : /\ \A d \in S : \E i \in 1..n : f[i] = d
                              /\ \A i, j \in 1..n : f[i] = f[j] => i = j
  BY DEF Counts
<1>3. PICK k \in 1..n : f[k] = e
  BY <1>2
<1> DEFINE g == [i \in 1..n - 1 |-> IF i = k THEN f[n] ELSE f[i]]
<1>4. \A i \in 1..n - 1 : i \in 1..n /\ i # n
  BY <1>1, SMTT(30)
<1>5. g \in [1..n - 1 -> S \ {e}]
  BY <1>1, <1>2, <1>3, <1>4, SMTT(30)
<1>6. ASSUME NEW d \in S \ {e}
      PROVE  \E i \in 1..n - 1 : g[i] = d
  <2>1. PICK i \in 1..n : f[i] = d
    BY <1>2
  <2>2. CASE i = n
    <3>1. k \in 1..n - 1 /\ g[k] = d
      BY <1>3, <2>1, <2>2, SMTT(30)
    <3>2. QED
      BY <3>1
  <2>3. CASE i # n
    <3>1. i \in 1..n - 1 /\ g[i] = d
      BY <1>3, <2>1, <2>3, SMTT(30)
    <3>2. QED
      BY <3>1
  <2>4. QED
    BY <2>2, <2>3
<1>7. ASSUME NEW i \in 1..n - 1, NEW j \in 1..n - 1, g[i] = g[j]
      PROVE  i = j
  <2>1. /\ i # k => g[i] = f[i]
        /\ j # k => g[j] = f[j]
        /\ i = k => g[i] = f[n]
        /\ j = k => g[j] = f[n]
    OBVIOUS
  <2>2. n \in 1..n /\ i \in 1..n /\ i # n /\ j \in 1..n /\ j # n
    BY <1>1, <1>4, SMTT(30)
  <2>3. QED
    BY <1>2, <1>7, <2>1, <2>2
<1> HIDE DEF g
<1>8. QED
  BY <1>1, <1>5, <1>6, <1>7 DEF Counts

-----------------------------------------------------------------------------
(* What the invariant says of two contexts *)

\* mycpu() of a context that executes is a CPU (proc.c mycpu(), spinlock.c:86).
LEMMA RunsOnCpu ==
  ASSUME TypeOK, Placed, NEW x \in Context, Runs(x)
  PROVE  on[x] \in Cpu
BY SMTT(30) DEF TypeOK, Placed, Runs, Context

\* Two contexts that execute are on two CPUs.
LEMMA OneRuns ==
  ASSUME SpinlockAssumption, Placed, NEW x \in Context, NEW y \in Context,
         Runs(x), Runs(y), on[x] = on[y]
  PROVE  x = y
BY SMTT(30) DEF Placed, Runs, Context, SpinlockAssumption

\* What the invariant says of a context.
LEMMA Facts ==
  ASSUME SpinInv, NEW x \in Context
  PROVE  /\ TypeOK /\ Placed /\ Idle /\ CpuOK(x) /\ ArgOK(x)
         /\ pc[x] \in Label /\ lk[x] \in Lock /\ held[x] \in SUBSET Lock
         /\ old[x] \in BOOLEAN /\ before[x] \in BOOLEAN
<1>1. TypeOK /\ Placed /\ Idle /\ CpuOK(x) /\ ArgOK(x)
  BY DEF SpinInv
<1>2. QED
  BY <1>1 DEF TypeOK

\* A step of one context changes no other context and no other CPU: it keeps what
\* the invariant says of them.
LEMMA Others ==
  ASSUME SpinlockAssumption, SpinInv, NEW x \in Context, Runs(x), UNCHANGED place,
         \A y \in Context \ {x} :
           /\ pc'[y] = pc[y] /\ lk'[y] = lk[y] /\ old'[y] = old[y]
           /\ held'[y] = held[y] /\ before'[y] = before[y],
         \A c \in Cpu \ {on[x]} :
           intr'[c] = intr[c] /\ noff'[c] = noff[c] /\ intena'[c] = intena[c]
  PROVE  Placed' /\ Idle' /\ \A y \in Context \ {x} : CpuOK(y)' /\ ArgOK(y)'
<1>1. TypeOK /\ Placed /\ Idle
  BY Facts
<1>2. on' = on /\ active' = active
  BY DEF place
<1>3. \A y \in Context : Runs(y)' <=> Runs(y)
  BY <1>2 DEF Runs
<1>4. Placed'
  BY <1>1, <1>2, SMTT(30) DEF Placed, Runs, Context
<1>5. Idle'
  BY <1>1, <1>2, <1>3 DEF Idle
<1>6. ASSUME NEW y \in Context \ {x}
      PROVE  CpuOK(y)' /\ ArgOK(y)'
  <2>1. Runs(y) => on[y] \in Cpu \ {on[x]}
    BY <1>1, OneRuns, RunsOnCpu
  <2>2. CpuOK(y) /\ ArgOK(y)
    BY Facts
  <2>3. Nests(held[y], pc[y], noff[on[y]])' <=> Nests(held[y], pc[y], noff'[on[y]])
    BY <1>2 DEF Nests
  <2>4. CpuOK(y)'
    BY <1>2, <1>3, <2>1, <2>2, <2>3 DEF CpuOK, Inside
  <2>5. ArgOK(y)'
    BY <2>2 DEF ArgOK
  <2>6. QED
    BY <2>4, <2>5
<1>7. QED
  BY <1>4, <1>5, <1>6

\* A step that neither sets nor clears lk->locked and lk->cpu keeps what the
\* invariant says of the locks.
LEMMA LocksKept ==
  ASSUME SpinInv, UNCHANGED <<locks, held>>,
         \A y \in Context, l \in Lock : l \in held[y] => on'[y] = on[y],
         \A y \in Context, l \in Lock : Grabs(y, l)' <=> Grabs(y, l)
  PROVE  \A l \in Lock : LockOK(l)'
<1>1. \A l \in Lock : LockOK(l)
  BY DEF SpinInv
<1>2. QED
  BY <1>1 DEF LockOK, locks

\* Inside a lock, a step that goes on to another place of acquire() or of release()
\* keeps what the invariant says of the contexts: it has counted the lock or it has not.
LEMMA GoesOn ==
  ASSUME SpinlockAssumption, SpinInv, NEW x \in Context, Runs(x), Inside(x),
         NEW l \in Label \ {"run", "push"}, l \in Counted <=> pc[x] \in Counted,
         pc' = [pc EXCEPT ![x] = l], UNCHANGED <<cpus, place, old, held, before>>,
         locked' \in [Lock -> BOOLEAN], owner' \in [Lock -> Cpu \cup {None}],
         lk' \in [Context -> Lock], \A y \in Context \ {x} : lk'[y] = lk[y]
  PROVE  /\ TypeOK' /\ Placed' /\ Idle'
         /\ \A y \in Context \ {x} : CpuOK(y)' /\ ArgOK(y)'
         /\ CpuOK(x)'
         /\ pc'[x] = l /\ \A y \in Context \ {x} : pc'[y] = pc[y]
<1>1. TypeOK /\ CpuOK(x)
  BY Facts
<1>2. /\ intr' = intr /\ noff' = noff /\ intena' = intena /\ on' = on /\ active' = active
      /\ held' = held /\ old' = old /\ before' = before
  BY DEF cpus, place
<1>3. pc'[x] = l /\ \A y \in Context \ {x} : pc'[y] = pc[y]
  BY <1>1 DEF TypeOK
<1>4. TypeOK'
  BY <1>1, <1>2 DEF TypeOK
<1>5. Placed' /\ Idle' /\ \A y \in Context \ {x} : CpuOK(y)' /\ ArgOK(y)'
  BY <1>2, <1>3, Others
<1>6. CpuOK(x)'
  <2>1. Runs(x)'
    BY <1>2 DEF Runs
  <2>2. Nests(held[x], pc[x], noff[on[x]])
    BY <1>1 DEF CpuOK
  <2>3. Nests(held[x], pc[x], noff[on[x]])'
    BY <1>2, <1>3, <2>2 DEF Nests
  <2>4. QED
    BY <1>1, <1>2, <1>3, <2>1, <2>3 DEF CpuOK, Inside
<1>7. QED
  BY <1>3, <1>4, <1>5, <1>6

-----------------------------------------------------------------------------
(* push_off, pop_off *)

\* acquire() is called and push_off() reads intr_get() (spinlock.c:34, 81).
LEMMA PushGetStep ==
  ASSUME SpinlockAssumption, SpinInv, NEW x \in Context, NEW l \in Lock, PushGet(x, l)
  PROVE  SpinInv'
<1>1. TypeOK /\ Placed /\ CpuOK(x)
  BY Facts
<1>2. Runs(x) /\ on[x] \in Cpu /\ pc[x] = "run" /\ \A k \in held[x] : k < l
  BY <1>1, RunsOnCpu DEF PushGet, At
<1>3. /\ lk' = [lk EXCEPT ![x] = l] /\ pc' = [pc EXCEPT ![x] = "push"]
      /\ old' = [old EXCEPT ![x] = intr[on[x]]]
      /\ before' = [before EXCEPT ![x] = IF held[x] = {} THEN intr[on[x]] ELSE @]
      /\ UNCHANGED <<locks, cpus, place, held>>
  BY DEF PushGet, Goto, mycpu
<1>4. /\ locked' = locked /\ owner' = owner /\ intr' = intr /\ noff' = noff /\ intena' = intena
      /\ on' = on /\ active' = active /\ held' = held
  BY <1>3 DEF locks, cpus, place
<1>5. intr[on[x]] \in BOOLEAN /\ "push" \in Label
  BY <1>1, <1>2 DEF TypeOK, Label, Acquiring
<1>6. TypeOK'
  BY <1>1, <1>3, <1>4, <1>5 DEF TypeOK
<1>7. /\ pc'[x] = "push" /\ lk'[x] = l /\ old'[x] = intr[on[x]]
      /\ before'[x] = IF held[x] = {} THEN intr[on[x]] ELSE before[x]
      /\ \A y \in Context \ {x} : /\ pc'[y] = pc[y] /\ lk'[y] = lk[y]
                                  /\ old'[y] = old[y] /\ before'[y] = before[y]
  BY <1>1, <1>3 DEF TypeOK
<1>8. Placed' /\ Idle' /\ \A y \in Context \ {x} : CpuOK(y)' /\ ArgOK(y)'
  BY <1>2, <1>3, <1>4, <1>7, Others, SMTT(30)
<1>9. CpuOK(x)'
  <2>1. Runs(x)' /\ (Inside(x)' <=> held[x] # {})
    BY <1>2, <1>4, <1>7 DEF Runs, Inside
  <2>2. Nests(held[x], pc[x], noff[on[x]])
    BY <1>1, <1>2 DEF CpuOK
  <2>3. Nests(held[x], pc[x], noff[on[x]])'
    BY <1>2, <1>4, <1>7, <2>2 DEF Nests, Counted
  <2>4. held[x] # {} => ~intr[on[x]] /\ intena[on[x]] = before[x]
    BY <1>1 DEF CpuOK, Inside
  <2>5. QED
    BY <1>4, <1>7, <2>1, <2>3, <2>4 DEF CpuOK
<1>10. ArgOK(x)'
  <2>1. l \notin held[x]
    BY <1>2, SMTT(30) DEF SpinlockAssumption
  <2>2. QED
    BY <1>4, <1>7, <2>1 DEF ArgOK, Releasing
<1>11. \A k \in Lock : LockOK(k)'
  <2>1. \A y \in Context, k \in Lock : Grabs(y, k)' <=> Grabs(y, k)
    BY <1>2, <1>4, <1>7 DEF Grabs, Anonymous
  <2>2. QED
    BY <1>3, <1>4, <2>1, LocksKept
<1>12. QED
  BY <1>6, <1>8, <1>9, <1>10, <1>11 DEF SpinInv

\* push_off() turns interrupts off, saves intena and counts (spinlock.c:83-88).
LEMMA PushOffStep ==
  ASSUME SpinlockAssumption, SpinInv, NEW x \in Context, PushOff(x)
  PROVE  SpinInv'
<1>1. TypeOK /\ Placed /\ CpuOK(x) /\ ArgOK(x) /\ old[x] \in BOOLEAN /\ before[x] \in BOOLEAN
  BY Facts
<1>2. Runs(x) /\ on[x] \in Cpu /\ pc[x] = "push"
  BY <1>1, RunsOnCpu DEF PushOff, At
<1>3. /\ intr' = [intr EXCEPT ![on[x]] = IntrOff(on[x], old[x])]
      /\ intena' = [intena EXCEPT ![on[x]] = SaveIntena(on[x], old[x])]
      /\ noff' = [noff EXCEPT ![on[x]] = @ + 1]
      /\ pc' = [pc EXCEPT ![x] = "holding"]
      /\ UNCHANGED <<locks, place, lk, old, held, before>>
  BY DEF PushOff, Goto, mycpu
<1>4. locked' = locked /\ owner' = owner /\ on' = on /\ active' = active
  BY <1>3 DEF locks, place
<1>5. IntrOff(on[x], old[x]) = FALSE
  BY <1>1, <1>2 DEF CpuOK, IntrOff
<1>6. SaveIntena(on[x], old[x]) \in BOOLEAN
  BY <1>1, <1>2 DEF SaveIntena, TypeOK
<1>7. /\ intr'[on[x]] = FALSE /\ intena'[on[x]] = SaveIntena(on[x], old[x])
      /\ noff'[on[x]] = noff[on[x]] + 1 /\ noff[on[x]] \in Nat
      /\ \A c \in Cpu \ {on[x]} : /\ intr'[c] = intr[c] /\ noff'[c] = noff[c]
                                  /\ intena'[c] = intena[c]
  BY <1>1, <1>2, <1>3, <1>5 DEF TypeOK
<1>8. pc'[x] = "holding" /\ \A y \in Context \ {x} : pc'[y] = pc[y]
  BY <1>1, <1>3 DEF TypeOK
<1>9. TypeOK'
  <2>1. intr' \in [Cpu -> BOOLEAN] /\ intena' \in [Cpu -> BOOLEAN]
    BY <1>1, <1>3, <1>5, <1>6 DEF TypeOK
  <2>2. "holding" \in Label
    BY DEF Label, Acquiring
  <2>3. pc' \in [Context -> Label] /\ noff' \in [Cpu -> Nat]
    BY <1>1, <1>2, <1>3, <2>2, SMTT(30) DEF TypeOK
  <2>4. QED
    BY <1>1, <1>3, <1>4, <2>1, <2>3 DEF TypeOK
<1>10. Placed' /\ Idle' /\ \A y \in Context \ {x} : CpuOK(y)' /\ ArgOK(y)'
  BY <1>2, <1>3, <1>7, <1>8, Others
<1>11. PICK k \in Nat : Counts(held[x], k) /\ noff[on[x]] = k
  BY <1>1, <1>2 DEF CpuOK, Nests, Counted
<1>12. SaveIntena(on[x], old[x]) = before[x]
  <2>1. noff[on[x]] = 0 <=> held[x] = {}
    BY <1>11, CountZero
  <2>2. CASE held[x] = {}
    BY <1>1, <1>2, <2>1, <2>2 DEF SaveIntena, CpuOK
  <2>3. CASE held[x] # {}
    BY <1>1, <2>1, <2>3 DEF SaveIntena, CpuOK, Inside
  <2>4. QED
    BY <2>2, <2>3
<1>13. CpuOK(x)'
  <2>1. Runs(x)'
    BY <1>2, <1>4 DEF Runs
  <2>2. Nests(held[x], pc[x], noff[on[x]])'
    BY <1>3, <1>4, <1>7, <1>8, <1>11 DEF Nests, Counted
  <2>3. QED
    BY <1>3, <1>4, <1>7, <1>8, <1>12, <2>1, <2>2 DEF CpuOK
<1>14. ArgOK(x)'
  BY <1>1, <1>2, <1>3, <1>8 DEF ArgOK, Acquiring, Releasing
<1>15. \A l \in Lock : LockOK(l)'
  <2>1. \A y \in Context, l \in Lock : Grabs(y, l)' <=> Grabs(y, l)
    BY <1>2, <1>3, <1>8 DEF Grabs, Anonymous
  <2>2. QED
    BY <1>3, <1>4, <2>1, LocksKept
<1>16. QED
  BY <1>9, <1>10, <1>13, <1>14, <1>15 DEF SpinInv

\* pop_off() counts down and turns interrupts on for the outermost release.
LEMMA PopOffStep ==
  ASSUME SpinlockAssumption, SpinInv, NEW x \in Context, PopOff(x)
  PROVE  SpinInv'
<1>1. TypeOK /\ Placed /\ CpuOK(x) /\ before[x] \in BOOLEAN
  BY Facts
<1>2. Runs(x) /\ on[x] \in Cpu /\ pc[x] = "pop"
  BY <1>1, RunsOnCpu DEF PopOff, At
<1>3. /\ noff' = [noff EXCEPT ![on[x]] = @ - 1]
      /\ intr' = [intr EXCEPT ![on[x]] = Reenable(on[x])]
      /\ pc' = [pc EXCEPT ![x] = "run"]
      /\ UNCHANGED <<locks, intena, place, lk, old, held, before>>
  BY DEF PopOff, PopNoff, Goto, mycpu
<1>4. locked' = locked /\ owner' = owner /\ on' = on /\ active' = active
  BY <1>3 DEF locks, place
<1>5. PICK k \in Nat : Counts(held[x], k) /\ noff[on[x]] = k + 1
  BY <1>1, <1>2 DEF CpuOK, Nests, Counted
<1>6. Reenable(on[x]) \in BOOLEAN
  BY DEF Reenable
<1>7. /\ intr'[on[x]] = Reenable(on[x]) /\ noff'[on[x]] = k
      /\ \A c \in Cpu \ {on[x]} : intr'[c] = intr[c] /\ noff'[c] = noff[c]
  BY <1>1, <1>2, <1>3, <1>5, SMTT(30) DEF TypeOK
<1>8. pc'[x] = "run" /\ \A y \in Context \ {x} : pc'[y] = pc[y]
  BY <1>1, <1>3 DEF TypeOK
<1>9. TypeOK'
  <2>1. intr' \in [Cpu -> BOOLEAN]
    BY <1>1, <1>3, <1>6 DEF TypeOK
  <2>2. "run" \in Label /\ noff[on[x]] - 1 \in Nat
    BY <1>5, SMTT(30) DEF Label
  <2>3. pc' \in [Context -> Label] /\ noff' \in [Cpu -> Nat]
    BY <1>1, <1>2, <1>3, <2>2 DEF TypeOK
  <2>4. QED
    BY <1>1, <1>3, <1>4, <2>1, <2>3 DEF TypeOK
<1>10. Placed' /\ Idle' /\ \A y \in Context \ {x} : CpuOK(y)' /\ ArgOK(y)'
  BY <1>2, <1>3, <1>7, <1>8, Others
<1>11. CpuOK(x)'
  <2>1. Runs(x)'
    BY <1>2, <1>4 DEF Runs
  <2>2. Nests(held[x], pc[x], noff[on[x]])'
    BY <1>3, <1>4, <1>5, <1>7, <1>8, SMTT(30) DEF Nests, Counted
  <2>3. held[x] # {} => ~intr'[on[x]]
    <3>1. held[x] # {} => noff[on[x]] # 1
      BY <1>5, CountZero, SMTT(30)
    <3>2. QED
      BY <1>7, <3>1 DEF Reenable
  <2>4. intena[on[x]] = before[x]
    BY <1>1, <1>2 DEF CpuOK, Inside
  <2>5. QED
    BY <1>3, <1>4, <1>8, <2>1, <2>2, <2>3, <2>4 DEF CpuOK, Inside
<1>12. ArgOK(x)'
  BY <1>8 DEF ArgOK, Acquiring, Releasing
<1>13. \A l \in Lock : LockOK(l)'
  <2>1. \A y \in Context, l \in Lock : Grabs(y, l)' <=> Grabs(y, l)
    BY <1>2, <1>3, <1>8 DEF Grabs, Anonymous
  <2>2. QED
    BY <1>3, <1>4, <2>1, LocksKept
<1>14. QED
  BY <1>9, <1>10, <1>11, <1>12, <1>13 DEF SpinInv

-----------------------------------------------------------------------------
(* acquire, release *)

\* holding() in acquire() reads lk->locked.
LEMMA AcquireReadLockedStep ==
  ASSUME SpinlockAssumption, SpinInv, NEW x \in Context, AcquireReadLocked(x)
  PROVE  SpinInv'
<1>1. TypeOK /\ ArgOK(x)
  BY Facts
<1>2. Runs(x) /\ pc[x] = "holding" /\ Inside(x)
  BY DEF AcquireReadLocked, At, Inside
<1>3. PICK l \in {"holding_cpu", "test_and_set"} : pc' = [pc EXCEPT ![x] = l]
  BY DEF AcquireReadLocked, Goto
<1>4. UNCHANGED <<locks, cpus, place, lk, old, held, before>> /\ locked' = locked /\ owner' = owner
  BY DEF AcquireReadLocked, locks
<1>5. l \in Label \ {"run", "push"} /\ l \in Counted /\ pc[x] \in Counted
  BY <1>2, <1>3 DEF Label, Acquiring, Counted
<1>6. /\ TypeOK' /\ Placed' /\ Idle'
      /\ \A y \in Context \ {x} : CpuOK(y)' /\ ArgOK(y)'
      /\ CpuOK(x)'
      /\ pc'[x] = l /\ \A y \in Context \ {x} : pc'[y] = pc[y]
  <2>1. /\ locked' \in [Lock -> BOOLEAN] /\ owner' \in [Lock -> Cpu \cup {None}]
        /\ lk' \in [Context -> Lock] /\ \A y \in Context \ {x} : lk'[y] = lk[y]
    BY <1>1, <1>4 DEF TypeOK
  <2>2. (l \in Counted <=> pc[x] \in Counted) /\ UNCHANGED <<cpus, place, old, held, before>>
    BY <1>4, <1>5
  <2>3. QED
    BY <1>2, <1>3, <1>5, <2>1, <2>2, GoesOn
<1>7. ArgOK(x)'
  BY <1>1, <1>2, <1>3, <1>4, <1>6 DEF ArgOK, Acquiring, Releasing
<1>8. \A k \in Lock : LockOK(k)'
  <2>1. \A y \in Context, k \in Lock : Grabs(y, k)' <=> Grabs(y, k)
    BY <1>2, <1>3, <1>4, <1>6 DEF Grabs, Anonymous
  <2>2. QED
    BY <1>4, <2>1, LocksKept DEF place
<1>9. QED
  BY <1>6, <1>7, <1>8 DEF SpinInv

\* holding() in acquire() reads lk->cpu.
LEMMA AcquireReadCpuStep ==
  ASSUME SpinlockAssumption, SpinInv, NEW x \in Context, AcquireReadCpu(x)
  PROVE  SpinInv'
<1>1. TypeOK /\ ArgOK(x)
  BY Facts
<1>2. Runs(x) /\ pc[x] = "holding_cpu" /\ Inside(x)
  BY DEF AcquireReadCpu, At, Inside
<1>3. /\ pc' = [pc EXCEPT ![x] = "test_and_set"]
      /\ UNCHANGED <<locked, owner, cpus, place, lk, old, held, before>>
  BY DEF AcquireReadCpu, Goto, locks
<1>4. /\ "test_and_set" \in Label \ {"run", "push"}
      /\ "test_and_set" \in Counted <=> pc[x] \in Counted
  BY <1>2 DEF Label, Acquiring, Releasing, Counted
<1>5. /\ TypeOK' /\ Placed' /\ Idle'
      /\ \A y \in Context \ {x} : CpuOK(y)' /\ ArgOK(y)'
      /\ CpuOK(x)'
      /\ pc'[x] = "test_and_set" /\ \A y \in Context \ {x} : pc'[y] = pc[y]
  <2>1. /\ locked' \in [Lock -> BOOLEAN] /\ owner' \in [Lock -> Cpu \cup {None}]
        /\ lk' \in [Context -> Lock] /\ \A y \in Context \ {x} : lk'[y] = lk[y]
    BY <1>1, <1>3 DEF TypeOK
  <2>2. UNCHANGED <<cpus, place, old, held, before>>
    BY <1>3
  <2>3. QED
    BY <1>2, <1>3, <1>4, <2>1, <2>2, GoesOn
<1>6. ArgOK(x)'
  BY <1>1, <1>2, <1>3, <1>5 DEF ArgOK, Acquiring, Releasing
<1>7. \A l \in Lock : LockOK(l)'
  <2>1. \A y \in Context, l \in Lock : Grabs(y, l)' <=> Grabs(y, l)
    BY <1>1, <1>2, <1>3, <1>5 DEF Grabs, Anonymous
  <2>2. QED
    BY <1>3, <2>1, LocksKept DEF place, locks
<1>8. QED
  BY <1>5, <1>6, <1>7 DEF SpinInv

\* The atomic swap sets lk->locked for one context.
LEMMA AcquireSwapStep ==
  ASSUME SpinlockAssumption, SpinInv, NEW x \in Context, AcquireSwap(x)
  PROVE  SpinInv'
<1>1. TypeOK /\ ArgOK(x)
  BY Facts
<1>2. Runs(x) /\ pc[x] = "test_and_set" /\ Inside(x) /\ ~locked[lk[x]]
  BY DEF AcquireSwap, At, Inside, TestAndSet
<1>3. /\ pc' = [pc EXCEPT ![x] = "set_cpu"]
      /\ locked' = [locked EXCEPT ![lk[x]] = TRUE]
      /\ UNCHANGED <<owner, cpus, place, lk, old, held, before>>
  BY DEF AcquireSwap, Goto, locks
<1>4. "set_cpu" \in Label \ {"run", "push"} /\ ("set_cpu" \in Counted <=> pc[x] \in Counted)
  BY <1>2 DEF Label, Acquiring, Releasing, Counted
<1>5. /\ TypeOK' /\ Placed' /\ Idle'
      /\ \A y \in Context \ {x} : CpuOK(y)' /\ ArgOK(y)'
      /\ CpuOK(x)'
      /\ pc'[x] = "set_cpu" /\ \A y \in Context \ {x} : pc'[y] = pc[y]
  <2>1. /\ locked' \in [Lock -> BOOLEAN] /\ owner' \in [Lock -> Cpu \cup {None}]
        /\ lk' \in [Context -> Lock] /\ \A y \in Context \ {x} : lk'[y] = lk[y]
    BY <1>1, <1>3 DEF TypeOK
  <2>2. UNCHANGED <<cpus, place, old, held, before>>
    BY <1>3
  <2>3. QED
    BY <1>2, <1>3, <1>4, <2>1, <2>2, GoesOn
<1>6. ArgOK(x)'
  BY <1>1, <1>2, <1>3, <1>5 DEF ArgOK, Acquiring, Releasing
<1>7. ASSUME NEW l \in Lock
      PROVE  LockOK(l)'
  <2>1. LockOK(l)
    BY DEF SpinInv
  <2>2. on' = on
    BY <1>3 DEF place
  <2>3. CASE l # lk[x]
    <3>1. (locked'[l] <=> locked[l]) /\ \A y \in Context : Grabs(y, l)' <=> Grabs(y, l)
      BY <1>1, <1>2, <1>3, <1>5, <2>3 DEF TypeOK, Grabs, Anonymous
    <3>2. QED
      BY <1>3, <2>1, <2>2, <3>1 DEF LockOK
  <2>4. CASE l = lk[x]
    <3>1. locked'[l] /\ \A y \in Context : ~Grabs(y, l)
      BY <1>1, <1>2, <1>3, <2>1, <2>4 DEF TypeOK, LockOK
    <3>2. Grabs(x, l)' /\ \A y \in Context \ {x} : ~Grabs(y, l)'
      BY <1>3, <1>5, <2>4, <3>1 DEF Grabs, Anonymous
    <3>3. QED
      BY <1>3, <2>1, <2>2, <3>1, <3>2 DEF LockOK
  <2>5. QED
    BY <2>3, <2>4
<1>8. QED
  BY <1>5, <1>6, <1>7 DEF SpinInv

\* acquire() sets lk->cpu and returns.
LEMMA AcquireSetCpuStep ==
  ASSUME SpinlockAssumption, SpinInv, NEW x \in Context, AcquireSetCpu(x)
  PROVE  SpinInv'
<1>1. TypeOK /\ Placed /\ CpuOK(x) /\ ArgOK(x) /\ lk[x] \in Lock /\ held[x] \in SUBSET Lock
  BY Facts
<1>2. Runs(x) /\ on[x] \in Cpu /\ pc[x] = "set_cpu" /\ lk[x] \notin held[x]
  BY <1>1, RunsOnCpu DEF AcquireSetCpu, At, ArgOK, Acquiring
<1>3. /\ owner' = [owner EXCEPT ![lk[x]] = on[x]]
      /\ held' = [held EXCEPT ![x] = @ \cup {lk[x]}]
      /\ pc' = [pc EXCEPT ![x] = "run"]
      /\ UNCHANGED <<locked, cpus, place, lk, old, before>>
  BY DEF AcquireSetCpu, Goto, mycpu
<1>4. /\ intr' = intr /\ noff' = noff /\ intena' = intena /\ on' = on /\ active' = active
  BY <1>3 DEF cpus, place
<1>5. /\ pc'[x] = "run" /\ held'[x] = held[x] \cup {lk[x]}
      /\ \A y \in Context \ {x} : pc'[y] = pc[y] /\ held'[y] = held[y]
  BY <1>1, <1>3 DEF TypeOK
<1>6. TypeOK'
  BY <1>1, <1>2, <1>3, <1>4 DEF TypeOK, Label
<1>7. Placed' /\ Idle' /\ \A y \in Context \ {x} : CpuOK(y)' /\ ArgOK(y)'
  BY <1>2, <1>3, <1>4, <1>5, Others
<1>8. CpuOK(x)'
  <2>1. Runs(x)' /\ ~intr[on[x]] /\ intena[on[x]] = before[x]
    BY <1>1, <1>2, <1>4 DEF Runs, CpuOK, Inside
  <2>2. PICK k \in Nat : Counts(held[x], k) /\ noff[on[x]] = k + 1
    BY <1>1, <1>2 DEF CpuOK, Nests, Counted
  <2>3. Counts(held[x] \cup {lk[x]}, k + 1)
    BY <1>2, <2>2, CountAdd
  <2>4. Nests(held[x], pc[x], noff[on[x]])'
    BY <1>4, <1>5, <2>2, <2>3, SMTT(30) DEF Nests, Counted
  <2>5. QED
    BY <1>3, <1>4, <1>5, <2>1, <2>4 DEF CpuOK
<1>9. ArgOK(x)'
  BY <1>5 DEF ArgOK, Acquiring, Releasing
<1>10. ASSUME NEW l \in Lock
       PROVE  LockOK(l)'
  <2>1. LockOK(l)
    BY DEF SpinInv
  <2>2. \A y \in Context : Grabs(y, l)' <=> Grabs(y, l)
    BY <1>2, <1>3, <1>5, SMTT(30) DEF Grabs, Anonymous
  <2>3. CASE l # lk[x]
    <3>1. owner'[l] = owner[l] /\ \A y \in Context : l \in held'[y] <=> l \in held[y]
      BY <1>1, <1>3, <1>5, <2>3 DEF TypeOK
    <3>2. QED
      BY <1>3, <1>4, <2>1, <2>2, <3>1 DEF LockOK
  <2>4. CASE l = lk[x]
    <3>1. owner'[l] = on[x] /\ l \in held'[x] /\ Grabs(x, l)
      BY <1>1, <1>2, <1>3, <1>5, <2>4 DEF TypeOK, Grabs, Anonymous
    <3>2. \A y \in Context : l \in held'[y] => y = x
      BY <1>5, <2>1, <2>4, <3>1 DEF LockOK, Grabs
    <3>3. QED
      BY <1>3, <1>4, <2>1, <2>2, <3>1, <3>2 DEF LockOK
  <2>5. QED
    BY <2>3, <2>4
<1>11. QED
  BY <1>6, <1>7, <1>8, <1>9, <1>10 DEF SpinInv

\* holding() in release() reads lk->locked.
LEMMA ReleaseReadLockedStep ==
  ASSUME SpinlockAssumption, SpinInv, NEW x \in Context, NEW l \in Lock, ReleaseReadLocked(x, l)
  PROVE  SpinInv'
<1>1. TypeOK /\ ArgOK(x)
  BY Facts
<1>2. Runs(x) /\ pc[x] = "run" /\ Inside(x) /\ l \in held[x]
  BY DEF ReleaseReadLocked, At, Inside
<1>3. /\ pc' = [pc EXCEPT ![x] = "release_cpu"]
      /\ lk' = [lk EXCEPT ![x] = l]
      /\ UNCHANGED <<locked, owner, cpus, place, old, held, before>>
  BY DEF ReleaseReadLocked, Goto, locks
<1>4. "release_cpu" \in Label \ {"run", "push"} /\ ("release_cpu" \in Counted <=> pc[x] \in Counted)
  BY <1>2 DEF Label, Acquiring, Releasing, Counted
<1>5. /\ TypeOK' /\ Placed' /\ Idle'
      /\ \A y \in Context \ {x} : CpuOK(y)' /\ ArgOK(y)'
      /\ CpuOK(x)'
      /\ pc'[x] = "release_cpu" /\ \A y \in Context \ {x} : pc'[y] = pc[y]
  <2>1. /\ locked' \in [Lock -> BOOLEAN] /\ owner' \in [Lock -> Cpu \cup {None}]
        /\ lk' \in [Context -> Lock] /\ \A y \in Context \ {x} : lk'[y] = lk[y]
    BY <1>1, <1>3 DEF TypeOK
  <2>2. UNCHANGED <<cpus, place, old, held, before>>
    BY <1>3
  <2>3. QED
    BY <1>2, <1>3, <1>4, <2>1, <2>2, GoesOn
<1>6. ArgOK(x)'
  BY <1>1, <1>2, <1>3, <1>5 DEF ArgOK, Acquiring, TypeOK
<1>7. \A k \in Lock : LockOK(k)'
  <2>1. \A y \in Context, k \in Lock : Grabs(y, k)' <=> Grabs(y, k)
    BY <1>1, <1>2, <1>3, <1>5, SMTT(30) DEF Grabs, Anonymous, TypeOK
  <2>2. QED
    BY <1>3, <2>1, LocksKept DEF place, locks
<1>8. QED
  BY <1>5, <1>6, <1>7 DEF SpinInv

\* holding() in release() reads lk->cpu.
LEMMA ReleaseReadCpuStep ==
  ASSUME SpinlockAssumption, SpinInv, NEW x \in Context, ReleaseReadCpu(x)
  PROVE  SpinInv'
<1>1. TypeOK /\ ArgOK(x)
  BY Facts
<1>2. Runs(x) /\ pc[x] = "release_cpu" /\ Inside(x)
  BY DEF ReleaseReadCpu, At, Inside
<1>3. /\ pc' = [pc EXCEPT ![x] = "clear_cpu"]
      /\ UNCHANGED <<locked, owner, cpus, place, lk, old, held, before>>
  BY DEF ReleaseReadCpu, Goto, locks
<1>4. "clear_cpu" \in Label \ {"run", "push"} /\ ("clear_cpu" \in Counted <=> pc[x] \in Counted)
  BY <1>2 DEF Label, Acquiring, Releasing, Counted
<1>5. /\ TypeOK' /\ Placed' /\ Idle'
      /\ \A y \in Context \ {x} : CpuOK(y)' /\ ArgOK(y)'
      /\ CpuOK(x)'
      /\ pc'[x] = "clear_cpu" /\ \A y \in Context \ {x} : pc'[y] = pc[y]
  <2>1. /\ locked' \in [Lock -> BOOLEAN] /\ owner' \in [Lock -> Cpu \cup {None}]
        /\ lk' \in [Context -> Lock] /\ \A y \in Context \ {x} : lk'[y] = lk[y]
    BY <1>1, <1>3 DEF TypeOK
  <2>2. UNCHANGED <<cpus, place, old, held, before>>
    BY <1>3
  <2>3. QED
    BY <1>2, <1>3, <1>4, <2>1, <2>2, GoesOn
<1>6. ArgOK(x)'
  BY <1>1, <1>2, <1>3, <1>5 DEF ArgOK, Acquiring, Releasing
<1>7. \A l \in Lock : LockOK(l)'
  <2>1. \A y \in Context, l \in Lock : Grabs(y, l)' <=> Grabs(y, l)
    BY <1>1, <1>2, <1>3, <1>5 DEF Grabs, Anonymous
  <2>2. QED
    BY <1>3, <2>1, LocksKept DEF place, locks
<1>8. QED
  BY <1>5, <1>6, <1>7 DEF SpinInv

\* release() clears lk->cpu.
LEMMA ReleaseClearCpuStep ==
  ASSUME SpinlockAssumption, SpinInv, NEW x \in Context, ReleaseClearCpu(x)
  PROVE  SpinInv'
<1>1. TypeOK /\ Placed /\ CpuOK(x) /\ ArgOK(x) /\ lk[x] \in Lock /\ held[x] \in SUBSET Lock
  BY Facts
<1>2. Runs(x) /\ pc[x] = "clear_cpu" /\ lk[x] \in held[x]
  BY <1>1 DEF ReleaseClearCpu, At, ArgOK, Releasing
<1>3. /\ owner' = [owner EXCEPT ![lk[x]] = None]
      /\ held' = [held EXCEPT ![x] = @ \ {lk[x]}]
      /\ pc' = [pc EXCEPT ![x] = "unlock"]
      /\ UNCHANGED <<locked, cpus, place, lk, old, before>>
  BY DEF ReleaseClearCpu, ClearCpu, Goto
<1>4. /\ intr' = intr /\ noff' = noff /\ intena' = intena /\ on' = on /\ active' = active
  BY <1>3 DEF cpus, place
<1>5. /\ pc'[x] = "unlock" /\ held'[x] = held[x] \ {lk[x]}
      /\ \A y \in Context \ {x} : pc'[y] = pc[y] /\ held'[y] = held[y]
  BY <1>1, <1>3 DEF TypeOK
<1>6. TypeOK'
  BY <1>1, <1>3, <1>4 DEF TypeOK, Label
<1>7. Placed' /\ Idle' /\ \A y \in Context \ {x} : CpuOK(y)' /\ ArgOK(y)'
  BY <1>2, <1>3, <1>4, <1>5, Others
<1>8. CpuOK(x)'
  <2>1. Runs(x)' /\ ~intr[on[x]] /\ intena[on[x]] = before[x]
    BY <1>1, <1>2, <1>4 DEF Runs, CpuOK, Inside
  <2>2. PICK k \in Nat : Counts(held[x], k) /\ noff[on[x]] = k
    BY <1>1, <1>2 DEF CpuOK, Nests, Counted
  <2>3. k # 0 /\ Counts(held[x] \ {lk[x]}, k - 1)
    BY <1>2, <2>2, CountRemove
  <2>4. Nests(held[x], pc[x], noff[on[x]])'
    BY <1>4, <1>5, <2>2, <2>3, SMTT(30) DEF Nests, Counted
  <2>5. QED
    BY <1>3, <1>4, <1>5, <2>1, <2>4 DEF CpuOK
<1>9. ArgOK(x)'
  BY <1>3, <1>5 DEF ArgOK, Acquiring, Releasing
<1>10. ASSUME NEW l \in Lock
       PROVE  LockOK(l)'
  <2>1. LockOK(l)
    BY DEF SpinInv
  <2>2. \A y \in Context : Grabs(y, l)' <=> Grabs(y, l)
    BY <1>2, <1>3, <1>5 DEF Grabs, Anonymous
  <2>3. CASE l # lk[x]
    <3>1. owner'[l] = owner[l] /\ \A y \in Context : l \in held'[y] <=> l \in held[y]
      BY <1>1, <1>3, <1>5, <2>3 DEF TypeOK
    <3>2. QED
      BY <1>3, <1>4, <2>1, <2>2, <3>1 DEF LockOK
  <2>4. CASE l = lk[x]
    <3>1. owner'[l] = None /\ l \in held[x] /\ l \notin held'[x]
      BY <1>1, <1>2, <1>3, <1>5, <2>4 DEF TypeOK
    <3>2. \A y \in Context : l \notin held'[y]
      BY <1>5, <2>1, <3>1 DEF LockOK, Grabs
    <3>3. QED
      BY <1>3, <2>1, <2>2, <3>1, <3>2 DEF LockOK
  <2>5. QED
    BY <2>3, <2>4
<1>11. QED
  BY <1>6, <1>7, <1>8, <1>9, <1>10 DEF SpinInv

\* release() clears lk->locked: the lock is free.
LEMMA ReleaseUnlockStep ==
  ASSUME SpinlockAssumption, SpinInv, NEW x \in Context, ReleaseUnlock(x)
  PROVE  SpinInv'
<1>1. TypeOK /\ ArgOK(x)
  BY Facts
<1>2. Runs(x) /\ pc[x] = "unlock" /\ Inside(x)
  BY DEF ReleaseUnlock, At, Inside
<1>3. /\ pc' = [pc EXCEPT ![x] = "pop"]
      /\ locked' = [locked EXCEPT ![lk[x]] = FALSE]
      /\ UNCHANGED <<owner, cpus, place, lk, old, held, before>>
  BY DEF ReleaseUnlock, Goto, locks
<1>4. "pop" \in Label \ {"run", "push"} /\ ("pop" \in Counted <=> pc[x] \in Counted)
  BY <1>2 DEF Label, Acquiring, Releasing, Counted
<1>5. /\ TypeOK' /\ Placed' /\ Idle'
      /\ \A y \in Context \ {x} : CpuOK(y)' /\ ArgOK(y)'
      /\ CpuOK(x)'
      /\ pc'[x] = "pop" /\ \A y \in Context \ {x} : pc'[y] = pc[y]
  <2>1. /\ locked' \in [Lock -> BOOLEAN] /\ owner' \in [Lock -> Cpu \cup {None}]
        /\ lk' \in [Context -> Lock] /\ \A y \in Context \ {x} : lk'[y] = lk[y]
    BY <1>1, <1>3 DEF TypeOK
  <2>2. UNCHANGED <<cpus, place, old, held, before>>
    BY <1>3
  <2>3. QED
    BY <1>2, <1>3, <1>4, <2>1, <2>2, GoesOn
<1>6. ArgOK(x)'
  BY <1>1, <1>2, <1>3, <1>5 DEF ArgOK, Acquiring, Releasing
<1>7. ASSUME NEW l \in Lock
      PROVE  LockOK(l)'
  <2>1. LockOK(l)
    BY DEF SpinInv
  <2>2. on' = on
    BY <1>3 DEF place
  <2>3. CASE l # lk[x]
    <3>1. (locked'[l] <=> locked[l]) /\ \A y \in Context : Grabs(y, l)' <=> Grabs(y, l)
      BY <1>1, <1>2, <1>3, <1>5, <2>3 DEF TypeOK, Grabs, Anonymous
    <3>2. QED
      BY <1>3, <2>1, <2>2, <3>1 DEF LockOK
  <2>4. CASE l = lk[x]
    <3>1. ~locked'[l] /\ Grabs(x, l) /\ l \notin held[x]
      BY <1>1, <1>2, <1>3, <2>4 DEF TypeOK, Grabs, Anonymous, ArgOK
    <3>2. \A y \in Context : ~Grabs(y, l)'
      BY <1>3, <1>5, <2>1, <3>1 DEF Grabs, Anonymous, LockOK
    <3>3. QED
      BY <1>3, <2>1, <2>2, <3>1, <3>2 DEF LockOK
  <2>5. QED
    BY <2>3, <2>4
<1>8. QED
  BY <1>5, <1>6, <1>7 DEF SpinInv

-----------------------------------------------------------------------------
(* Interrupts and threads *)

\* Outside all locks nothing is counted.
LEMMA Outside ==
  ASSUME NEW label \in {"run", "push"}, NEW n
  PROVE  Nests({}, label, n) <=> n = 0
<1>1. label \notin Counted
  BY DEF Counted
<1>2. Nests({}, label, 0)
  BY <1>1, CountNone DEF Nests
<1>3. ASSUME Nests({}, label, n)
      PROVE  n = 0
  BY <1>1, <1>3, CountZero DEF Nests
<1>4. QED
  BY <1>2, <1>3

\* kerneltrap() interrupts a thread that is outside all locks.
LEMMA InterruptStep ==
  ASSUME SpinlockAssumption, SpinInv, NEW c \in Cpu, Interrupt(c)
  PROVE  SpinInv'
<1>1. c \in Context /\ TypeOK /\ Placed /\ Idle
  BY Facts DEF Context
<1>2. on[c] = c /\ intr[c] /\ c \notin active /\ pc[c] = "run" /\ held[c] = {}
  BY <1>1 DEF Placed, Interrupt
<1>3. /\ intr' = [intr EXCEPT ![c] = FALSE] /\ active' = active \cup {c}
      /\ UNCHANGED <<locked, owner, noff, intena, on, pc, lk, old, held, before>>
  BY DEF Interrupt, locks
<1>4. ~intr'[c] /\ \A d \in Cpu \ {c} : intr'[d] = intr[d]
  BY <1>1, <1>3 DEF TypeOK
<1>5. TypeOK'
  BY <1>1, <1>3 DEF TypeOK
<1>6. Placed'
  BY <1>1, <1>3 DEF Placed
<1>7. ASSUME NEW x \in Context, on[x] = c
      PROVE  ~Inside(x)
  <2>1. CpuOK(x)
    BY Facts
  <2>2. QED
    BY <1>2, <1>7, <2>1 DEF CpuOK
<1>8. noff[c] = 0
  <2>1. CASE \A x \in Context : Runs(x) => on[x] # c
    BY <1>1, <2>1 DEF Idle
  <2>2. ASSUME NEW x \in Context, Runs(x), on[x] = c
        PROVE  noff[c] = 0
    <3>1. CpuOK(x) /\ ~Inside(x)
      BY <1>7, <2>2, Facts
    <3>2. Nests(held[x], pc[x], noff[c])
      BY <2>2, <3>1 DEF CpuOK
    <3>3. QED
      BY <3>1, <3>2, Outside DEF Inside
  <2>3. QED
    BY <2>1, <2>2
<1>9. \A x \in Context : Nests(held[x], pc[x], noff[on[x]])' <=> Nests(held[x], pc[x], noff[on[x]])
  BY <1>3 DEF Nests
<1>10. ASSUME NEW x \in Context
       PROVE  CpuOK(x)' /\ ArgOK(x)'
  <2>1. CpuOK(x) /\ ArgOK(x)
    BY Facts
  <2>2. ArgOK(x)'
    BY <1>3, <2>1 DEF ArgOK
  <2>3. CASE x = c
    <3>1. Nests(held[c], pc[c], noff[c])'
      BY <1>2, <1>3, <1>8, Outside
    <3>2. ~Inside(c)' /\ pc'[c] # "push" /\ on'[c] = c
      BY <1>2, <1>3 DEF Inside
    <3>3. QED
      BY <2>2, <2>3, <3>1, <3>2 DEF CpuOK
  <2>4. CASE x # c /\ on[x] = c
    <3>1. x \notin Cpu /\ on[x] # None
      BY <1>1, <2>4 DEF Placed, SpinlockAssumption
    <3>2. Runs(x) /\ ~Runs(x)' /\ ~Inside(x)
      BY <1>2, <1>3, <1>7, <2>4, <3>1 DEF Runs
    <3>3. pc[x] = "push" => old[x]
      BY <1>2, <2>1, <2>4, <3>2 DEF CpuOK
    <3>4. QED
      BY <1>3, <2>1, <2>2, <3>2, <3>3 DEF CpuOK, Inside
  <2>5. CASE on[x] # c
    <3>1. Runs(x)' <=> Runs(x)
      BY <1>1, <1>3, <2>5 DEF Runs, Placed
    <3>2. Runs(x) => intr'[on[x]] = intr[on[x]]
      BY <1>1, <1>4, <2>5, RunsOnCpu
    <3>3. QED
      BY <1>3, <1>9, <2>1, <2>2, <3>1, <3>2 DEF CpuOK, Inside
  <2>6. QED
    BY <1>2, <2>3, <2>4, <2>5
<1>11. Idle'
  <2>1. \A x \in Context : Runs(x) /\ on[x] # c => Runs(x)'
    BY <1>3 DEF Runs
  <2>2. QED
    BY <1>1, <1>3, <1>8, <2>1 DEF Idle
<1>12. \A l \in Lock : LockOK(l)'
  <2>1. \A y \in Context, l \in Lock : Grabs(y, l)' <=> Grabs(y, l)
    BY <1>3 DEF Grabs
  <2>2. UNCHANGED <<locks, held>>
    BY <1>3 DEF locks
  <2>3. QED
    BY <1>3, <2>1, <2>2, LocksKept
<1>13. QED
  BY <1>5, <1>6, <1>10, <1>11, <1>12 DEF SpinInv

\* sret: the handler is outside all locks, and the thread goes on.
LEMMA ReturnStep ==
  ASSUME SpinlockAssumption, SpinInv, NEW c \in Cpu, ReturnFromInterrupt(c)
  PROVE  SpinInv'
<1>1. c \in Context /\ TypeOK /\ Placed /\ Idle /\ CpuOK(c)
  BY Facts DEF Context
<1>2. Runs(c) /\ on[c] = c /\ c \in active /\ pc[c] = "run" /\ held[c] = {}
  BY <1>1 DEF Placed, ReturnFromInterrupt, At, Runs
<1>3. /\ intr' = [intr EXCEPT ![c] = TRUE] /\ active' = active \ {c}
      /\ UNCHANGED <<locked, owner, noff, intena, on, pc, lk, old, held, before>>
  BY DEF ReturnFromInterrupt, locks
<1>4. intr'[c] = TRUE /\ \A d \in Cpu \ {c} : intr'[d] = intr[d]
  BY <1>1, <1>3 DEF TypeOK
<1>5. TypeOK'
  BY <1>1, <1>3 DEF TypeOK
<1>6. Placed'
  BY <1>1, <1>2, <1>3 DEF Placed
<1>7. noff[c] = 0
  <2>1. ~Inside(c) /\ Nests(held[c], pc[c], noff[c])
    BY <1>1, <1>2 DEF CpuOK, Inside
  <2>2. QED
    BY <1>2, <2>1, Outside
<1>8. ASSUME NEW x \in Context, on[x] = c, x # c
      PROVE  ~Inside(x) /\ ~Runs(x)
  <2>1. CpuOK(x)
    BY Facts
  <2>2. ~Runs(x)
    BY <1>1, <1>2, <1>8 DEF Runs, Placed
  <2>3. QED
    BY <2>1, <2>2 DEF CpuOK
<1>9. \A x \in Context : Nests(held[x], pc[x], noff[on[x]])' <=> Nests(held[x], pc[x], noff[on[x]])
  BY <1>3 DEF Nests
<1>10. ASSUME NEW x \in Context
       PROVE  CpuOK(x)' /\ ArgOK(x)'
  <2>1. CpuOK(x) /\ ArgOK(x) /\ old[x] \in BOOLEAN
    BY Facts
  <2>2. ArgOK(x)'
    BY <1>3, <2>1 DEF ArgOK
  <2>3. CASE x = c
    BY <1>2, <1>3, <1>9, <2>1, <2>2, <2>3 DEF CpuOK, Inside
  <2>4. CASE x # c /\ on[x] = c
    <3>1. ~Inside(x) /\ ~Runs(x)
      BY <1>8, <2>4
    <3>2. Nests(held[x], pc[x], noff[c])'
      BY <1>3, <1>7, <3>1, Outside DEF Inside
    <3>3. pc[x] = "push" => old[x] = TRUE
      BY <2>1, <3>1 DEF CpuOK
    <3>4. QED
      BY <1>3, <1>4, <2>1, <2>2, <2>4, <3>1, <3>2, <3>3 DEF CpuOK, Inside
  <2>5. CASE on[x] # c
    <3>1. Runs(x)' <=> Runs(x)
      BY <1>1, <1>3, <2>5 DEF Runs, Placed
    <3>2. Runs(x) => intr'[on[x]] = intr[on[x]]
      BY <1>1, <1>4, <2>5, RunsOnCpu
    <3>3. QED
      BY <1>3, <1>9, <2>1, <2>2, <3>1, <3>2 DEF CpuOK, Inside
  <2>6. QED
    BY <1>2, <2>3, <2>4, <2>5
<1>11. Idle'
  <2>1. \A x \in Context : Runs(x) /\ on[x] # c => Runs(x)'
    BY <1>1, <1>3 DEF Runs, Placed
  <2>2. QED
    BY <1>1, <1>3, <1>7, <2>1 DEF Idle
<1>12. \A l \in Lock : LockOK(l)'
  <2>1. \A y \in Context, l \in Lock : Grabs(y, l)' <=> Grabs(y, l)
    BY <1>3 DEF Grabs
  <2>2. UNCHANGED <<locks, held>>
    BY <1>3 DEF locks
  <2>3. QED
    BY <1>3, <2>1, <2>2, LocksKept
<1>13. QED
  BY <1>5, <1>6, <1>10, <1>11, <1>12 DEF SpinInv

\* A thread that is outside all locks takes nothing with it when swtch() moves it off
\* its CPU or onto another.
LEMMA Moves ==
  ASSUME SpinlockAssumption, SpinInv, NEW t \in Thread, NEW c \in Cpu \cup {None},
         on' = [on EXCEPT ![t] = c],
         UNCHANGED <<locks, cpus, active, pc, lk, old, held, before>>,
         ~Inside(t),
         Placed', CpuOK(t)', Idle'
  PROVE  SpinInv'
<1>1. t \in Context /\ TypeOK /\ Placed /\ ArgOK(t)
  BY Facts DEF Context
<1>2. UNCHANGED <<locked, owner, intr, noff, intena, active, pc, lk, old, held, before>>
  BY DEF locks, cpus
<1>3. \A x \in Context \ {t} : on'[x] = on[x]
  BY <1>1 DEF TypeOK
<1>4. TypeOK'
  BY <1>1, <1>2 DEF TypeOK
<1>5. ASSUME NEW x \in Context
      PROVE  CpuOK(x)' /\ ArgOK(x)'
  <2>1. CpuOK(x) /\ ArgOK(x)
    BY Facts
  <2>2. ArgOK(x)'
    BY <1>2, <2>1 DEF ArgOK
  <2>3. CASE x # t
    <3>1. (Runs(x)' <=> Runs(x)) /\ on'[x] = on[x]
      BY <1>2, <1>3, <2>3 DEF Runs
    <3>2. Nests(held[x], pc[x], noff[on[x]])' <=> Nests(held[x], pc[x], noff[on[x]])
      BY <1>2, <3>1 DEF Nests
    <3>3. QED
      BY <1>2, <2>1, <2>2, <3>1, <3>2 DEF CpuOK, Inside
  <2>4. QED
    BY <2>2, <2>3
<1>6. \A l \in Lock : LockOK(l)'
  <2>1. \A y \in Context, l \in Lock : Grabs(y, l)' <=> Grabs(y, l)
    BY <1>2 DEF Grabs
  <2>2. \A y \in Context, l \in Lock : l \in held[y] => on'[y] = on[y]
    BY <1>3 DEF Inside
  <2>3. QED
    BY <1>2, <2>1, <2>2, LocksKept DEF locks
<1>7. QED
  BY <1>4, <1>5, <1>6 DEF SpinInv

\* A thread that is outside all locks, on a CPU that accepts interrupts, is moved
\* off its CPU by yield() in kerneltrap().
LEMMA PreemptStep ==
  ASSUME SpinlockAssumption, SpinInv, NEW t \in Thread, Preempt(t)
  PROVE  SpinInv'
<1>1. t \in Context /\ t \notin Cpu /\ TypeOK /\ Placed /\ Idle /\ CpuOK(t)
  BY Facts DEF Context, SpinlockAssumption
<1>2. Runs(t) /\ intr[on[t]] /\ on' = [on EXCEPT ![t] = None]
  BY DEF Preempt
<1>3. UNCHANGED <<locks, cpus, active, pc, lk, old, held, before>> /\ noff' = noff
  BY DEF Preempt, cpus
<1>4. ~Inside(t)
  BY <1>1, <1>2 DEF CpuOK
<1>5. noff[on[t]] = 0
  <2>1. Nests(held[t], pc[t], noff[on[t]])
    BY <1>1, <1>2 DEF CpuOK
  <2>2. QED
    BY <1>4, <2>1, Outside DEF Inside
<1>6. on'[t] = None /\ \A x \in Context \ {t} : on'[x] = on[x]
  BY <1>1, <1>2 DEF TypeOK
<1>7. Placed'
  BY <1>1, <1>3, <1>6, SMTT(30) DEF Placed, Context
<1>8. CpuOK(t)'
  <2>1. ~Runs(t)' /\ ~Inside(t)'
    BY <1>1, <1>3, <1>4, <1>6 DEF Runs, Inside
  <2>2. pc[t] = "push" => old[t] /\ (held[t] = {} => before[t] = old[t])
    BY <1>1, <1>2 DEF CpuOK
  <2>3. QED
    BY <1>3, <2>1, <2>2 DEF CpuOK
<1>9. Idle'
  <2>1. \A x \in Context \ {t} : Runs(x)' <=> Runs(x)
    BY <1>3, <1>6 DEF Runs
  <2>2. QED
    BY <1>1, <1>3, <1>5, <1>6, <2>1 DEF Idle
<1>10. None \in Cpu \cup {None}
  OBVIOUS
<1>11. QED
  BY <1>2, <1>3, <1>4, <1>7, <1>8, <1>9, <1>10, Moves

\* A thread resumes on a free CPU: one on which nothing is counted.
LEMMA ResumeStep ==
  ASSUME SpinlockAssumption, SpinInv, NEW t \in Thread, NEW c \in Cpu, Resume(t, c)
  PROVE  SpinInv'
<1>1. t \in Context /\ t \notin Cpu /\ TypeOK /\ Placed /\ Idle /\ CpuOK(t) /\ old[t] \in BOOLEAN
  BY Facts DEF Context, SpinlockAssumption
<1>2. on[t] = None /\ intr[c] /\ c \notin active /\ \A u \in Thread : on[u] # c
  BY DEF Resume
<1>3. /\ on' = [on EXCEPT ![t] = c]
      /\ UNCHANGED <<locks, cpus, active, pc, lk, old, held, before>>
      /\ noff' = noff /\ intr' = intr /\ intena' = intena
  BY DEF Resume, cpus
<1>4. ~Runs(t) /\ ~Inside(t)
  BY <1>1, <1>2 DEF Runs, CpuOK
<1>5. on'[t] = c /\ \A x \in Context \ {t} : on'[x] = on[x]
  BY <1>1, <1>3 DEF TypeOK
<1>6. noff[c] = 0
  <2>1. \A x \in Context : Runs(x) => on[x] # c
    BY <1>1, <1>2, SMTT(30) DEF Runs, Placed, Context
  <2>2. QED
    BY <1>1, <2>1 DEF Idle
<1>7. Placed'
  BY <1>1, <1>2, <1>3, <1>5, SMTT(30) DEF Placed, Context
<1>8. CpuOK(t)'
  <2>1. ~Inside(t)' /\ Runs(t)'
    <3>1. c # None
      BY DEF SpinlockAssumption
    <3>2. QED
      BY <1>1, <1>2, <1>3, <1>4, <1>5, <3>1, SMTT(30) DEF Runs, Inside
  <2>2. Nests(held[t], pc[t], noff[on[t]])'
    BY <1>3, <1>4, <1>5, <1>6, Outside DEF Inside
  <2>3. intr[c] = TRUE
    BY <1>1, <1>2 DEF TypeOK
  <2>4. pc[t] = "push" => old[t] = TRUE /\ (held[t] = {} => before[t] = old[t])
    BY <1>1, <1>4 DEF CpuOK
  <2>5. QED
    BY <1>3, <1>5, <2>1, <2>2, <2>3, <2>4 DEF CpuOK
<1>9. Idle'
  <2>1. \A x \in Context \ {t} : Runs(x)' <=> Runs(x)
    BY <1>3, <1>5, SMTT(30) DEF Runs
  <2>2. QED
    BY <1>1, <1>3, <1>4, <1>5, <1>6, <2>1 DEF Idle
<1>10. c \in Cpu \cup {None}
  OBVIOUS
<1>11. QED
  BY <1>3, <1>4, <1>7, <1>8, <1>9, <1>10, Moves

\* intr_on() and intr_off() of a thread that is outside all locks.
LEMMA SetIntrStep ==
  ASSUME SpinlockAssumption, SpinInv, NEW t \in Thread, SetIntr(t)
  PROVE  SpinInv'
<1>1. t \in Context /\ TypeOK /\ Placed /\ CpuOK(t) /\ ArgOK(t)
  BY Facts DEF Context
<1>2. Runs(t) /\ pc[t] = "run" /\ noff[on[t]] = 0 /\ on[t] \in Cpu
  BY <1>1, RunsOnCpu DEF SetIntr, At
<1>3. /\ intr' = [intr EXCEPT ![on[t]] = ~@]
      /\ UNCHANGED <<locked, owner, noff, intena, on, active, pc, lk, old, held, before>>
  BY DEF SetIntr, locks, place
<1>4. TypeOK'
  <2>1. intr' \in [Cpu -> BOOLEAN]
    BY <1>1, <1>3 DEF TypeOK
  <2>2. QED
    BY <1>1, <1>3, <2>1 DEF TypeOK
<1>5. \A c \in Cpu \ {on[t]} : intr'[c] = intr[c]
  BY <1>1, <1>3 DEF TypeOK
<1>6. Placed' /\ Idle' /\ \A y \in Context \ {t} : CpuOK(y)' /\ ArgOK(y)'
  BY <1>1, <1>2, <1>3, <1>5, Others DEF place
<1>7. held[t] = {} /\ Nests(held[t], pc[t], noff[on[t]])
  <2>1. Nests(held[t], pc[t], noff[on[t]])
    BY <1>1, <1>2 DEF CpuOK
  <2>2. Counts(held[t], 0)
    BY <1>2, <2>1 DEF Nests, Counted
  <2>3. QED
    BY <2>1, <2>2, CountZero
<1>8. CpuOK(t)'
  <2>1. Nests(held[t], pc[t], noff[on[t]])'
    BY <1>3, <1>7 DEF Nests
  <2>2. QED
    BY <1>2, <1>3, <1>7, <2>1 DEF CpuOK, Inside
<1>9. ArgOK(t)'
  BY <1>1, <1>3 DEF ArgOK
<1>10. \A l \in Lock : LockOK(l)'
  <2>1. \A y \in Context, l \in Lock : Grabs(y, l)' <=> Grabs(y, l)
    BY <1>3 DEF Grabs
  <2>2. QED
    BY <1>3, <2>1, LocksKept DEF locks
<1>11. QED
  BY <1>4, <1>6, <1>8, <1>9, <1>10 DEF SpinInv

-----------------------------------------------------------------------------
(* The theorems *)

\* The locks are free and nobody is inside one when the CPUs start (initlock).
LEMMA SpinInit ==
  ASSUME SpinlockAssumption, Init
  PROVE  SpinInv
<1>1. TypeOK
  BY DEF Init, TypeOK, Label, Context
<1>2. Placed
  BY DEF Init, Placed, Context, SpinlockAssumption
<1>3. ASSUME NEW x \in Context
      PROVE  CpuOK(x) /\ ArgOK(x)
  <2>1. held[x] = {} /\ pc[x] = "run" /\ (Runs(x) => on[x] \in Cpu /\ noff[on[x]] = 0)
    BY DEF Init, Runs
  <2>2. Runs(x) => Nests(held[x], pc[x], noff[on[x]])
    BY <2>1, Outside
  <2>3. QED
    BY <2>1, <2>2 DEF CpuOK, ArgOK, Inside, Acquiring, Releasing
<1>4. Idle
  BY DEF Init, Idle
<1>5. \A l \in Lock : LockOK(l)
  BY DEF Init, LockOK, Grabs, Anonymous
<1>6. QED
  BY <1>1, <1>2, <1>3, <1>4, <1>5 DEF SpinInv

\* A step that changes nothing keeps the invariant.
LEMMA SpinStutter ==
  ASSUME SpinInv, UNCHANGED vars
  PROVE  SpinInv'
<1>1. /\ TypeOK /\ Placed /\ Idle
      /\ (\A x \in Context : CpuOK(x) /\ ArgOK(x)) /\ \A l \in Lock : LockOK(l)
  BY DEF SpinInv
<1>2. UNCHANGED <<locked, owner, intr, noff, intena, on, active, pc, lk, old, held, before>>
  BY DEF vars, locks, cpus, place
<1>3. \A x \in Context : Runs(x)' <=> Runs(x)
  BY <1>2 DEF Runs
<1>4. TypeOK'
  BY <1>1, <1>2 DEF TypeOK
<1>5. Placed' /\ Idle'
  BY <1>1, <1>2, <1>3 DEF Placed, Idle
<1>6. \A x \in Context : CpuOK(x)'
  BY <1>1, <1>2, <1>3 DEF CpuOK, Inside
<1>7. \A x \in Context : ArgOK(x)'
  BY <1>1, <1>2 DEF ArgOK
<1>8. \A l \in Lock : LockOK(l)'
  BY <1>1, <1>2, SMTT(30) DEF LockOK, Grabs
<1>9. QED
  BY <1>4, <1>5, <1>6, <1>7, <1>8 DEF SpinInv

\* Every step of a context, an interrupt and the scheduler keeps the invariant.
LEMMA SpinNext ==
  ASSUME SpinlockAssumption, SpinInv, [Next]_vars
  PROVE  SpinInv'
<1>1. ASSUME NEW x \in Context, NEW l \in Lock, PushGet(x, l) \/ ReleaseReadLocked(x, l)
      PROVE  SpinInv'
  BY <1>1, PushGetStep, ReleaseReadLockedStep
<1>2. ASSUME NEW x \in Context, Step(x)
      PROVE  SpinInv'
  BY <1>2, PushOffStep, PopOffStep, AcquireReadLockedStep, AcquireReadCpuStep,
     AcquireSwapStep, AcquireSetCpuStep, ReleaseReadCpuStep, ReleaseClearCpuStep,
     ReleaseUnlockStep DEF Step
<1>3. ASSUME NEW c \in Cpu, Interrupt(c) \/ ReturnFromInterrupt(c)
      PROVE  SpinInv'
  BY <1>3, InterruptStep, ReturnStep
<1>4. ASSUME NEW t \in Thread, Preempt(t) \/ SetIntr(t)
      PROVE  SpinInv'
  BY <1>4, PreemptStep, SetIntrStep
<1>5. ASSUME NEW t \in Thread, NEW c \in Cpu, Resume(t, c)
      PROVE  SpinInv'
  BY <1>5, ResumeStep
<1>6. QED
  BY <1>1, <1>2, <1>3, <1>4, <1>5, SpinStutter DEF Next

\* The invariant holds of every behaviour of acquire, release, push_off and pop_off.
THEOREM SpinInvariant ==
  ASSUME SpinlockAssumption
  PROVE  Spec => []SpinInv
<1>1. Init => SpinInv
  BY SpinInit
<1>2. SpinInv /\ [Next]_vars => SpinInv'
  BY SpinNext
<1>3. QED
  BY <1>1, <1>2, PTL DEF Spec

\* A spinlock is held by one context at a time, the CPU on which one is held takes
\* no interrupt, and none of the panics of acquire, release and pop_off can happen
\* (spinlock.c:38, 65, 118, 121).
THEOREM LocksExclude ==
  ASSUME SpinlockAssumption
  PROVE  Spec => []MutualExclusion
<1>1. SpinInv => MutualExclusion
  <2> SUFFICES ASSUME SpinInv PROVE MutualExclusion
    OBVIOUS
  <2>1. (\A x \in Context : held[x] \in SUBSET Lock) /\ \A l \in Lock : LockOK(l)
    BY Facts DEF SpinInv
  <2>2. ASSUME NEW x \in Context, NEW y \in Context, x # y
        PROVE  held[x] \cap held[y] = {}
    BY <2>1, <2>2 DEF LockOK, Grabs
  <2>3. ASSUME NEW x \in Context, held[x] # {}
        PROVE  Runs(x) /\ on[x] \in Cpu /\ ~intr[on[x]]
    <3>1. TypeOK /\ Placed /\ CpuOK(x)
      BY Facts
    <3>2. Runs(x) /\ ~intr[on[x]]
      BY <2>3, <3>1 DEF CpuOK, Inside
    <3>3. QED
      BY <3>1, <3>2, RunsOnCpu
  <2>4. ASSUME NEW x \in Context, Runs(x)
        PROVE  /\ pc[x] = "holding_cpu" => owner[lk[x]] # on[x]
               /\ pc[x] = "run" => \A l \in held[x] : locked[l] /\ owner[l] = on[x]
               /\ pc[x] = "release_cpu" => owner[lk[x]] = on[x]
               /\ pc[x] = "pop" => ~intr[on[x]] /\ noff[on[x]] >= 1
    <3>1. TypeOK /\ Placed /\ CpuOK(x) /\ ArgOK(x) /\ lk[x] \in Lock /\ on[x] \in Cpu
      BY <2>4, Facts, RunsOnCpu
    <3>2. ASSUME pc[x] = "holding_cpu", owner[lk[x]] = on[x]
          PROVE  FALSE
      <4>1. LockOK(lk[x]) /\ on[x] # None
        BY <2>1, <3>1 DEF SpinlockAssumption
      <4>2. PICK y \in Context : lk[x] \in held[y] /\ owner[lk[x]] = on[y]
        BY <3>2, <4>1 DEF LockOK
      <4>3. Runs(y)
        BY <2>3, <4>2
      <4>4. x = y
        BY <2>4, <3>1, <3>2, <4>2, <4>3, OneRuns
      <4>5. QED
        BY <3>1, <3>2, <4>2, <4>4 DEF ArgOK, Acquiring
    <3>3. \A l \in held[x] : locked[l] /\ owner[l] = on[x]
      BY <2>1 DEF LockOK, Grabs
    <3>4. pc[x] = "release_cpu" => lk[x] \in held[x]
      BY <3>1 DEF ArgOK, Releasing
    <3>5. pc[x] = "pop" => ~intr[on[x]] /\ Nests(held[x], pc[x], noff[on[x]])
      BY <2>4, <3>1 DEF CpuOK, Inside
    <3>6. pc[x] = "pop" => noff[on[x]] >= 1
      BY <3>5, SMTT(30) DEF Nests, Counted
    <3>7. QED
      BY <3>2, <3>3, <3>4, <3>5, <3>6
  <2>5. NoPanic
    BY <2>4 DEF NoPanic, mycpu
  <2>6. ASSUME NEW x \in Context, held[x] # {}
        PROVE  on[x] # None /\ ~intr[on[x]] /\ (x \in Thread => on[x] \notin active)
    BY <2>3, <2>6 DEF Runs, SpinlockAssumption
  <2>7. QED
    BY <2>2, <2>5, <2>6 DEF MutualExclusion
<1>2. QED
  BY <1>1, SpinInvariant, PTL

\* When a context releases its outermost lock, pop_off() leaves its CPU's noff at 0
\* and interrupts as they were when it acquired its outermost lock
\* (spinlock.c:99-101), whatever CPU the thread was moved to in between.
THEOREM IntrRestored ==
  ASSUME SpinlockAssumption
  PROVE  Spec => InterruptsRestored
<1>1. SpinInv => [Restored]_vars
  <2> SUFFICES ASSUME SpinInv, NEW x \in Context, PopOff(x), held[x] = {}
               PROVE  noff'[on[x]] = 0 /\ intr'[on[x]] = before[x]
    BY DEF Restored, mycpu
  <2>1. TypeOK /\ Placed /\ CpuOK(x) /\ before[x] \in BOOLEAN
    BY Facts
  <2>2. Runs(x) /\ pc[x] = "pop" /\ on[x] \in Cpu
    BY <2>1, RunsOnCpu DEF PopOff, At
  <2>3. noff[on[x]] = 1
    BY <2>1, <2>2, CountZero, SMTT(30) DEF CpuOK, Nests, Counted
  <2>4. intena[on[x]] = before[x]
    BY <2>1, <2>2 DEF CpuOK, Inside
  <2>5. intr'[on[x]] = Reenable(on[x])
    BY <2>1, <2>2 DEF PopOff, mycpu, TypeOK
  <2>6. noff'[on[x]] = 0
    BY <2>1, <2>2, <2>3, SMTT(30) DEF PopOff, mycpu, PopNoff, TypeOK
  <2>7. QED
    BY <2>1, <2>3, <2>4, <2>5, <2>6 DEF Reenable
<1>2. QED
  BY <1>1, SpinInvariant, PTL DEF InterruptsRestored

=============================================================================

------------------------------ MODULE Spinlock ------------------------------
(***************************************************************************)
(* kernel/spinlock.c one instruction at a time: acquire, release, holding, *)
(* push_off and pop_off, on several CPUs, with interrupt handlers that     *)
(* take locks too and with kernel threads that a timer interrupt moves to  *)
(* another CPU while interrupts are on.                                    *)
(*                                                                         *)
(* Steps that touch only the CPU's own noff and intena while interrupts    *)
(* are off are merged.  The fences (__sync_synchronize, amoswap.aq) are    *)
(* taken to give the order of the program text.  The statistics lk->n and  *)
(* lk->nts, which only sys_ntas() reports, are left out.                   *)
(***************************************************************************)
EXTENDS Naturals, FiniteSets

CONSTANTS
  Cpu,       \* CPUs
  Thread,    \* kernel threads, at most one on a CPU
  Lock,      \* locks, numbers: they are nested in increasing order only
  IntrLock,  \* the locks that interrupt handlers take
  None,      \* no cpu (lk->cpu = 0)
  DEPTH      \* bound: locks that one thread nests

\* The interrupt handler of a CPU is a context of its own, named by the CPU.
Context == Thread \cup Cpu

SpinlockAssumption ==
  /\ Cpu \cap Thread = {} /\ None \notin Cpu
  /\ IsFiniteSet(Cpu) /\ IsFiniteSet(Thread)
  /\ Lock \subseteq Nat /\ IntrLock \subseteq Lock
  /\ DEPTH \in Nat

VARIABLES
  locked, owner,   \* lk->locked and lk->cpu
  intr,            \* does the CPU accept interrupts (sstatus.SIE)?
  noff, intena,    \* struct cpu
  on,              \* the CPU a context runs on, None for a thread that waits for one
  active,          \* the CPUs that run their interrupt handler
  pc, lk, old,     \* acquire's and release's argument, push_off's local
  held,            \* the locks a context has acquired and not yet released
  before           \* interrupts accepted when the outermost acquire was called?

locks == <<locked, owner>>
cpus == <<intr, noff, intena>>
place == <<on, active>>
vars == <<locks, cpus, place, pc, lk, old, held, before>>

\* A context executes: a handler while it is active, a thread while no handler
\* has interrupted it.
Runs(x) == IF x \in Cpu THEN x \in active ELSE on[x] # None /\ on[x] \notin active
mycpu(x) == on[x]

Init ==
  /\ locked = [l \in Lock |-> FALSE]
  /\ owner = [l \in Lock |-> None]
  /\ intr = [c \in Cpu |-> TRUE]
  /\ noff = [c \in Cpu |-> 0]
  /\ intena = [c \in Cpu |-> FALSE]
  /\ on = [x \in Context |-> IF x \in Cpu THEN x ELSE None]
  /\ active = {}
  /\ pc = [x \in Context |-> "run"]
  /\ lk \in [Context -> Lock] /\ \A x, y \in Context : lk[x] = lk[y]
  /\ old = [x \in Context |-> FALSE]
  /\ held = [x \in Context |-> {}]
  /\ before = [x \in Context |-> FALSE]

At(x, l) == Runs(x) /\ pc[x] = l
Goto(x, l) == pc' = [pc EXCEPT ![x] = l]

-----------------------------------------------------------------------------
(* push_off and pop_off *)

\* acquire(l) is called; old = intr_get().
PushGet(x, l) ==
  /\ At(x, "run")
  /\ \A k \in held[x] : k < l
  /\ Cardinality(held[x]) < DEPTH
  /\ x \in Cpu => l \in IntrLock
  /\ lk' = [lk EXCEPT ![x] = l]
  /\ old' = [old EXCEPT ![x] = intr[mycpu(x)]]
  /\ before' = [before EXCEPT ![x] = IF held[x] = {} THEN intr[mycpu(x)] ELSE @]
  /\ Goto(x, "push")
  /\ UNCHANGED <<locks, cpus, place, held>>

\* Mutant: intena is set by every push_off().
SaveIntenaAlways(c, was) == was

\* What push_off() leaves in intena.
SaveIntena(c, was) == IF noff[c] = 0 THEN was ELSE intena[c]

IntrOff(c, was) == IF was THEN FALSE ELSE intr[c]

\* if(old) intr_off(); then, with interrupts off, intena and noff.
PushOff(x) ==
  LET c == mycpu(x) IN
  /\ At(x, "push")
  /\ intr' = [intr EXCEPT ![c] = IntrOff(c, old[x])]
  /\ intena' = [intena EXCEPT ![c] = SaveIntena(c, old[x])]
  /\ noff' = [noff EXCEPT ![c] = @ + 1]
  /\ Goto(x, "holding")
  /\ UNCHANGED <<locks, place, lk, old, held, before>>

PopNoff(n) == n - 1
Reenable(c) == noff[c] = 1 /\ intena[c]

\* The end of release(): its two panics are what NoPanic is about.
PopOff(x) ==
  LET c == mycpu(x) IN
  /\ At(x, "pop")
  /\ ~intr[c] /\ noff[c] >= 1
  /\ noff' = [noff EXCEPT ![c] = PopNoff(@)]
  /\ intr' = [intr EXCEPT ![c] = Reenable(c)]
  /\ Goto(x, "run")
  /\ UNCHANGED <<locks, intena, place, lk, old, held, before>>

-----------------------------------------------------------------------------
(* acquire *)

\* holding() reads lk->locked, and lk->cpu only if that is set.
AcquireReadLocked(x) ==
  /\ At(x, "holding")
  /\ Goto(x, IF locked[lk[x]] THEN "holding_cpu" ELSE "test_and_set")
  /\ UNCHANGED <<locks, cpus, place, lk, old, held, before>>

AcquireReadCpu(x) ==
  /\ At(x, "holding_cpu")
  /\ owner[lk[x]] # mycpu(x)                   \* panic("acquire")
  /\ Goto(x, "test_and_set")
  /\ UNCHANGED <<locks, cpus, place, lk, old, held, before>>

\* Mutant: test and set are two instructions.
TestAndSetBlind(x) == TRUE

\* The atomic swap finds the lock free.
TestAndSet(x) == ~locked[lk[x]]

AcquireSwap(x) ==
  /\ At(x, "test_and_set")
  /\ TestAndSet(x)
  /\ locked' = [locked EXCEPT ![lk[x]] = TRUE]
  /\ Goto(x, "set_cpu")
  /\ UNCHANGED <<owner, cpus, place, lk, old, held, before>>

AcquireSetCpu(x) ==
  /\ At(x, "set_cpu")
  /\ owner' = [owner EXCEPT ![lk[x]] = mycpu(x)]
  /\ held' = [held EXCEPT ![x] = @ \cup {lk[x]}]
  /\ Goto(x, "run")
  /\ UNCHANGED <<locked, cpus, place, lk, old, before>>

-----------------------------------------------------------------------------
(* release *)

ReleaseReadLocked(x, l) ==
  /\ At(x, "run")
  /\ l \in held[x]
  /\ locked[l]                                 \* panic("release")
  /\ lk' = [lk EXCEPT ![x] = l]
  /\ Goto(x, "release_cpu")
  /\ UNCHANGED <<locks, cpus, place, old, held, before>>

ReleaseReadCpu(x) ==
  /\ At(x, "release_cpu")
  /\ owner[lk[x]] = mycpu(x)                   \* panic("release")
  /\ Goto(x, "clear_cpu")
  /\ UNCHANGED <<locks, cpus, place, lk, old, held, before>>

\* lk->cpu = 0
ClearCpu(l) == None

ReleaseClearCpu(x) ==
  /\ At(x, "clear_cpu")
  /\ owner' = [owner EXCEPT ![lk[x]] = ClearCpu(lk[x])]
  /\ held' = [held EXCEPT ![x] = @ \ {lk[x]}]
  /\ Goto(x, "unlock")
  /\ UNCHANGED <<locked, cpus, place, lk, old, before>>

ReleaseUnlock(x) ==
  /\ At(x, "unlock")
  /\ locked' = [locked EXCEPT ![lk[x]] = FALSE]
  /\ Goto(x, "pop")
  /\ UNCHANGED <<owner, cpus, place, lk, old, held, before>>

-----------------------------------------------------------------------------
(* Interrupts and threads *)

\* The hardware enters kerneltrap() with interrupts off; sret turns them on.
Interrupt(c) ==
  /\ intr[c] /\ c \notin active
  /\ intr' = [intr EXCEPT ![c] = FALSE]
  /\ active' = active \cup {c}
  /\ UNCHANGED <<locks, noff, intena, on, pc, lk, old, held, before>>

ReturnFromInterrupt(c) ==
  /\ At(c, "run") /\ held[c] = {}
  /\ intr' = [intr EXCEPT ![c] = TRUE]
  /\ active' = active \ {c}
  /\ UNCHANGED <<locks, noff, intena, on, pc, lk, old, held, before>>

\* yield() in kerneltrap(), as seen from the thread: it leaves the CPU at an
\* instruction at which interrupts are on, and resumes on any CPU likewise.
Preempt(t) ==
  /\ Runs(t) /\ intr[on[t]]
  /\ on' = [on EXCEPT ![t] = None]
  /\ UNCHANGED <<locks, cpus, active, pc, lk, old, held, before>>

Resume(t, c) ==
  /\ on[t] = None
  /\ \A u \in Thread : on[u] # c
  /\ intr[c] /\ c \notin active
  /\ on' = [on EXCEPT ![t] = c]
  /\ UNCHANGED <<locks, cpus, active, pc, lk, old, held, before>>

\* intr_on() and intr_off() in the scheduler and in usertrap(), outside locks.
SetIntr(t) ==
  /\ At(t, "run") /\ noff[on[t]] = 0
  /\ intr' = [intr EXCEPT ![on[t]] = ~@]
  /\ UNCHANGED <<locks, noff, intena, place, pc, lk, old, held, before>>

-----------------------------------------------------------------------------
Step(x) == \/ PushOff(x) \/ AcquireReadLocked(x) \/ AcquireReadCpu(x)
           \/ AcquireSwap(x) \/ AcquireSetCpu(x)
           \/ ReleaseReadCpu(x) \/ ReleaseClearCpu(x) \/ ReleaseUnlock(x)
           \/ PopOff(x)

Next == \/ \E x \in Context : \/ \E l \in Lock : PushGet(x, l)
                              \/ Step(x)
        \/ \E x \in Context, l \in Lock : ReleaseReadLocked(x, l)
        \/ \E c \in Cpu : Interrupt(c) \/ ReturnFromInterrupt(c)
        \/ \E t \in Thread : Preempt(t) \/ SetIntr(t)
        \/ \E t \in Thread, c \in Cpu : Resume(t, c)

Spec == Init /\ [][Next]_vars

-----------------------------------------------------------------------------
\* None of the panics of acquire, release and pop_off (spinlock.c:38, 65, 118,
\* 121): holding() answers for this context and not for the one that had the
\* lock before, or that has just set lk->locked.
NoPanic ==
  \A x \in Context : Runs(x) =>
    /\ pc[x] = "holding_cpu" => owner[lk[x]] # mycpu(x) \/ ~locked[lk[x]]
    /\ pc[x] = "run" => \A l \in held[x] : locked[l] /\ owner[l] = mycpu(x)
    /\ pc[x] = "release_cpu" => owner[lk[x]] = mycpu(x)
    /\ pc[x] = "pop" => ~intr[mycpu(x)] /\ noff[mycpu(x)] >= 1

\* A lock is held by one context at a time, threads and interrupt handlers alike
\* (spinlock.c:31-58).  A CPU on which one is held takes no interrupt, so no
\* handler spins for a lock of the thread it interrupted ("disable interrupts to
\* avoid deadlock", spinlock.c:36), and nothing panics.
MutualExclusion ==
  /\ \A x, y \in Context : x # y => held[x] \cap held[y] = {}
  /\ \A x \in Context : held[x] # {} => on[x] # None /\ ~intr[on[x]]
                                         /\ (x \in Thread => on[x] \notin active)
  /\ NoPanic

\* push_off and pop_off are matched (spinlock.c:99-101): when a context is back
\* outside all locks, its CPU accepts interrupts if and only if it did before.
Restored ==
  \A x \in Context : (PopOff(x) /\ held[x] = {})
    => noff'[mycpu(x)] = 0 /\ intr'[mycpu(x)] = before[x]

InterruptsRestored == [][Restored]_vars
=============================================================================

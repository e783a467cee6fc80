-------------------------------- MODULE Proc --------------------------------
(***************************************************************************)
(* The life of a process in kernel/proc.c: fork (allocproc), exit          *)
(* (reparent, wakeup1), wait, sleep inside wait, kill, and the scheduler's *)
(* choice of a RUNNABLE process.                                           *)
(*                                                                         *)
(* A step is what one process does between two operations on a p->lock     *)
(* that it must wait for; a critical section that waits for nothing else   *)
(* is one step.  Every process advances at its own pace, which covers any  *)
(* number of CPUs and preemption (yield() changes RUNNING to RUNNABLE and  *)
(* back while no lock is held, and no code tells the two apart).  The      *)
(* p->lock that the scheduler takes and hands over in swtch() is shown as  *)
(* taken by the process it resumes.                                        *)
(***************************************************************************)
EXTENDS Integers, FiniteSets

CONSTANTS
  NPROC,       \* slots of the process table
  None,        \* a null pointer
  Tree,        \* the parent of each process that exists at the start
  MaxPid,      \* bound: fork is called while nextpid <= MaxPid
  KillPids,    \* the pids that kill() is called with
  Failures     \* may kalloc(), uvmcopy() and copyout() fail?

Slot == 0..(NPROC - 1)
initproc == 0

ASSUME ProcAssumption ==
  /\ NPROC \in Nat \ {0}
  /\ None \notin Slot
  /\ Tree \in [Slot -> Slot \cup {None}]
  /\ Tree[initproc] = None
  /\ \A s \in Slot : Tree[s] # None => /\ Tree[s] # s
                                       /\ Tree[s] = initproc \/ Tree[Tree[s]] # None
  /\ MaxPid \in Nat
  /\ KillPids \subseteq Nat
  /\ Failures \in BOOLEAN

VARIABLES
  state, parent, pid, killed,   \* the fields of struct proc
  lock,       \* p->lock: the process that holds it, or None
  pc,         \* where the kernel thread of each process is
  idx,        \* its loop variable over the table
  havekids,   \* wait()'s local
  arg,        \* exit()'s original_parent, kill()'s pid, fork()'s np
  nextpid

table == <<state, parent, pid, killed>>
locals == <<idx, havekids, arg>>
vars == <<table, lock, pc, locals, nextpid>>

Exists(s) == s = initproc \/ Tree[s] # None
Free(s) == lock[s] = None

\* The system begins in user mode with the processes of Tree.
Init ==
  /\ state = [s \in Slot |-> IF Exists(s) THEN "RUNNING" ELSE "UNUSED"]
  /\ parent = Tree
  /\ pid = [s \in Slot |-> IF Exists(s) THEN s + 1 ELSE 0]
  /\ killed = [s \in Slot |-> FALSE]
  /\ lock = [s \in Slot |-> None]
  /\ pc = [s \in Slot |-> IF Exists(s) THEN "user" ELSE "none"]
  /\ idx = [s \in Slot |-> 0]
  /\ havekids = [s \in Slot |-> FALSE]
  /\ arg = [s \in Slot |-> None]
  /\ nextpid = NPROC + 1

Goto(p, l) == pc' = [pc EXCEPT ![p] = l]
SetIdx(p, n) == idx' = [idx EXCEPT ![p] = n]
SetArg(p, a) == arg' = [arg EXCEPT ![p] = a]

\* Back to user mode; the locals of the system call are gone.
Return(p) == /\ Goto(p, "user")
             /\ SetIdx(p, 0)
             /\ SetArg(p, None)
             /\ havekids' = [havekids EXCEPT ![p] = FALSE]

\* A loop over the table, in its middle and at its end.  Mutant: the loop
\* leaves out the last slot.
Scanning(p, l) == pc[p] = l /\ idx[p] < NPROC
ScannedButLast(p, l) == pc[p] = l /\ idx[p] \in {NPROC - 1, NPROC}
Scanned(p, l) == pc[p] = l /\ idx[p] = NPROC

\* np->parent == p for the slot that wait() or reparent() looks at.
IsChild(p) == parent[idx[p]] = p

\* Mutant: a wakeup1() that wakes nobody.
Wakeup1Nobody(f, q) == f

\* wakeup1(q), applied to the function f of process states: in this module a
\* SLEEPING process sleeps in wait(), so its chan is itself.
Wakeup1(f, q) == IF f[q] = "SLEEPING" THEN [f EXCEPT ![q] = "RUNNABLE"] ELSE f

-----------------------------------------------------------------------------
(* usertrap(): a process enters the kernel.  A killed one only to exit. *)

Trap(p, l) == /\ pc[p] = "user"
              /\ killed[p] => l = "exit_init"
              /\ Goto(p, l)

ForkCall(p) ==
  /\ nextpid <= MaxPid
  /\ Trap(p, "alloc")
  /\ UNCHANGED <<table, lock, locals, nextpid>>

ExitCall(p) ==
  /\ p # initproc                              \* panic("init exiting")
  /\ Trap(p, "exit_init")
  /\ UNCHANGED <<table, lock, locals, nextpid>>

WaitCall(p) ==
  /\ Free(p)
  /\ Trap(p, "wait")
  /\ lock' = [lock EXCEPT ![p] = p]
  /\ UNCHANGED <<table, locals, nextpid>>

KillCall(p, n) ==
  /\ Trap(p, "kill")
  /\ SetArg(p, n)
  /\ UNCHANGED <<table, lock, idx, havekids, nextpid>>

-----------------------------------------------------------------------------
(* fork *)

\* allocproc() looks at one slot.
AllocSkip(p) ==
  /\ Scanning(p, "alloc")
  /\ Free(idx[p]) /\ state[idx[p]] # "UNUSED"
  /\ SetIdx(p, idx[p] + 1)
  /\ UNCHANGED <<table, lock, pc, havekids, arg, nextpid>>

AllocNone(p) ==
  /\ Scanned(p, "alloc")
  /\ Return(p)
  /\ UNCHANGED <<table, lock, nextpid>>

\* found: the slot's lock is kept, and it has a pid.
AllocFound(p) ==
  /\ Scanning(p, "alloc")
  /\ Free(idx[p]) /\ state[idx[p]] = "UNUSED"
  /\ lock' = [lock EXCEPT ![idx[p]] = p]
  /\ pid' = [pid EXCEPT ![idx[p]] = nextpid]
  /\ nextpid' = nextpid + 1
  /\ SetArg(p, idx[p])
  /\ Goto(p, "fork")
  /\ UNCHANGED <<state, parent, killed, idx, havekids>>

\* kalloc() fails in allocproc(): the slot is released, with its new pid.
AllocNoMemory(p) ==
  /\ Failures
  /\ pc[p] = "fork"
  /\ lock' = [lock EXCEPT ![arg[p]] = None]
  /\ Return(p)
  /\ UNCHANGED <<table, nextpid>>

\* freeproc(np), as far as it changes the process table.
Freeproc(np) ==
  /\ state' = [state EXCEPT ![np] = "UNUSED"]
  /\ parent' = [parent EXCEPT ![np] = None]
  /\ pid' = [pid EXCEPT ![np] = 0]
  /\ killed' = [killed EXCEPT ![np] = FALSE]

\* uvmcopy() fails.
ForkNoMemory(p) ==
  /\ Failures
  /\ pc[p] = "fork"
  /\ Freeproc(arg[p])
  /\ lock' = [lock EXCEPT ![arg[p]] = None]
  /\ Return(p)
  /\ UNCHANGED nextpid

Fork(p) ==
  LET np == arg[p] IN
  /\ pc[p] = "fork"
  /\ parent' = [parent EXCEPT ![np] = p]
  /\ state' = [state EXCEPT ![np] = "RUNNABLE"]
  /\ lock' = [lock EXCEPT ![np] = None]
  /\ pc' = [pc EXCEPT ![p] = "user", ![np] = "forkret"]
  /\ SetIdx(p, 0)
  /\ SetArg(p, None)
  /\ UNCHANGED <<pid, killed, havekids, nextpid>>

-----------------------------------------------------------------------------
(* scheduler() and swtch(): the process resumes with p->lock held, which     *)
(* forkret() releases and sleep(p, &p->lock) keeps.                          *)

RunForkret(p) ==
  /\ state[p] = "RUNNABLE" /\ pc[p] = "forkret" /\ Free(p)
  /\ state' = [state EXCEPT ![p] = "RUNNING"]
  /\ Goto(p, "user")
  /\ UNCHANGED <<parent, pid, killed, lock, locals, nextpid>>

RunWait(p) ==
  /\ state[p] = "RUNNABLE" /\ pc[p] = "sleep" /\ Free(p)
  /\ state' = [state EXCEPT ![p] = "RUNNING"]
  /\ lock' = [lock EXCEPT ![p] = p]
  /\ Goto(p, "wait")
  /\ UNCHANGED <<parent, pid, killed, locals, nextpid>>

-----------------------------------------------------------------------------
(* exit *)

ExitWakeInit(p) ==
  /\ pc[p] = "exit_init"
  /\ Free(initproc)
  /\ state' = Wakeup1(state, initproc)
  /\ Goto(p, "exit_parent")
  /\ UNCHANGED <<parent, pid, killed, lock, locals, nextpid>>

\* original_parent = p->parent, under p->lock, which is then released.
ExitReadParent(p) ==
  /\ pc[p] = "exit_parent"
  /\ Free(p)
  /\ SetArg(p, parent[p])
  /\ Goto(p, "exit_lock_parent")
  /\ UNCHANGED <<table, lock, idx, havekids, nextpid>>

ExitLockParent(p) ==
  /\ pc[p] = "exit_lock_parent"
  /\ Free(arg[p])
  /\ lock' = [lock EXCEPT ![arg[p]] = p]
  /\ Goto(p, "exit_lock_self")
  /\ UNCHANGED <<table, locals, nextpid>>

ExitLockSelf(p) ==
  /\ pc[p] = "exit_lock_self"
  /\ Free(p)
  /\ lock' = [lock EXCEPT ![p] = p]
  /\ Goto(p, "reparent")
  /\ UNCHANGED <<table, locals, nextpid>>

\* reparent() looks at one slot; it takes the lock of a child only.
ReparentSkip(p) ==
  /\ Scanning(p, "reparent")
  /\ ~IsChild(p)
  /\ SetIdx(p, idx[p] + 1)
  /\ UNCHANGED <<table, lock, pc, havekids, arg, nextpid>>

ReparentChild(p) ==
  /\ Scanning(p, "reparent")
  /\ IsChild(p)
  /\ Free(idx[p])
  /\ parent' = [parent EXCEPT ![idx[p]] = initproc]
  /\ SetIdx(p, idx[p] + 1)
  /\ UNCHANGED <<state, pid, killed, lock, pc, havekids, arg, nextpid>>

\* wakeup1(original_parent); state = ZOMBIE; release(original_parent); sched(),
\* in which the scheduler releases p->lock.
ExitZombie(p) ==
  /\ Scanned(p, "reparent")
  /\ state' = [Wakeup1(state, arg[p]) EXCEPT ![p] = "ZOMBIE"]
  /\ lock' = [lock EXCEPT ![arg[p]] = None, ![p] = None]
  /\ Goto(p, "none")
  /\ SetIdx(p, 0)
  /\ SetArg(p, None)
  /\ UNCHANGED <<parent, pid, killed, havekids, nextpid>>

-----------------------------------------------------------------------------
(* wait, which holds p->lock all the time *)

WaitSkip(p) ==
  /\ Scanning(p, "wait")
  /\ ~IsChild(p)
  /\ SetIdx(p, idx[p] + 1)
  /\ UNCHANGED <<table, lock, pc, havekids, arg, nextpid>>

WaitLiveChild(p) ==
  /\ Scanning(p, "wait")
  /\ IsChild(p) /\ Free(idx[p])
  /\ state[idx[p]] # "ZOMBIE"
  /\ havekids' = [havekids EXCEPT ![p] = TRUE]
  /\ SetIdx(p, idx[p] + 1)
  /\ UNCHANGED <<table, lock, pc, arg, nextpid>>

WaitReap(p) ==
  /\ Scanning(p, "wait")
  /\ IsChild(p) /\ Free(idx[p])
  /\ state[idx[p]] = "ZOMBIE"
  /\ Freeproc(idx[p])
  /\ lock' = [lock EXCEPT ![p] = None]
  /\ Return(p)
  /\ UNCHANGED nextpid

\* copyout() of the exit status fails: wait() fails and the child stays.
WaitCopyoutFails(p) ==
  /\ Failures
  /\ Scanning(p, "wait")
  /\ IsChild(p) /\ Free(idx[p])
  /\ state[idx[p]] = "ZOMBIE"
  /\ lock' = [lock EXCEPT ![p] = None]
  /\ Return(p)
  /\ UNCHANGED <<table, nextpid>>

GiveUp(p) == ~havekids[p] \/ killed[p]

WaitFails(p) ==
  /\ Scanned(p, "wait")
  /\ GiveUp(p)
  /\ lock' = [lock EXCEPT ![p] = None]
  /\ Return(p)
  /\ UNCHANGED <<table, nextpid>>

\* sleep(p, &p->lock): the scheduler releases p->lock after the swtch().
WaitSleep(p) ==
  /\ Scanned(p, "wait")
  /\ ~GiveUp(p)
  /\ state' = [state EXCEPT ![p] = "SLEEPING"]
  /\ lock' = [lock EXCEPT ![p] = None]
  /\ havekids' = [havekids EXCEPT ![p] = FALSE]
  /\ SetIdx(p, 0)
  /\ Goto(p, "sleep")
  /\ UNCHANGED <<parent, pid, killed, arg, nextpid>>

-----------------------------------------------------------------------------
(* kill looks at one slot *)

KillSkip(p) ==
  /\ Scanning(p, "kill")
  /\ Free(idx[p]) /\ pid[idx[p]] # arg[p]
  /\ SetIdx(p, idx[p] + 1)
  /\ UNCHANGED <<table, lock, pc, havekids, arg, nextpid>>

KillHit(p) ==
  /\ Scanning(p, "kill")
  /\ Free(idx[p]) /\ pid[idx[p]] = arg[p]
  /\ killed' = [killed EXCEPT ![idx[p]] = TRUE]
  /\ state' = Wakeup1(state, idx[p])
  /\ Return(p)
  /\ UNCHANGED <<parent, pid, lock, nextpid>>

KillNone(p) ==
  /\ Scanned(p, "kill")
  /\ Return(p)
  /\ UNCHANGED <<table, lock, nextpid>>

-----------------------------------------------------------------------------
\* What a process does once it is in the kernel.
ForkStep(p) == \/ AllocSkip(p) \/ AllocNone(p) \/ AllocFound(p)
               \/ AllocNoMemory(p) \/ ForkNoMemory(p) \/ Fork(p)
ExitStep(p) == \/ ExitWakeInit(p) \/ ExitReadParent(p) \/ ExitLockParent(p)
               \/ ExitLockSelf(p) \/ ReparentSkip(p) \/ ReparentChild(p)
               \/ ExitZombie(p)
WaitStep(p) == \/ WaitSkip(p) \/ WaitLiveChild(p) \/ WaitReap(p)
               \/ WaitCopyoutFails(p) \/ WaitFails(p) \/ WaitSleep(p)
KillStep(p) == KillSkip(p) \/ KillHit(p) \/ KillNone(p)
Run(p) == RunForkret(p) \/ RunWait(p)
KernelStep(p) == \/ ForkStep(p) \/ ExitStep(p) \/ WaitStep(p) \/ KillStep(p)
                 \/ Run(p)

SysCall(p) == \/ ForkCall(p) \/ ExitCall(p) \/ WaitCall(p)
              \/ \E n \in KillPids : KillCall(p, n)

Next == \E p \in Slot : SysCall(p) \/ KernelStep(p)

Spec == Init /\ [][Next]_vars

\* A process that is in the kernel, or RUNNABLE, keeps going: timer interrupts
\* and scheduler()'s loop over the table give every process its turn.  Strong
\* fairness, because the lock a process spins for may be taken and released
\* by others in between.  The timer interrupt brings a killed process from user
\* mode into usertrap(), where it exits.  init's program calls wait() for ever.
Fairness == /\ \A p \in Slot : /\ SF_vars(KernelStep(p))
                               /\ WF_vars(killed[p] /\ ExitCall(p))
            /\ SF_vars(WaitCall(initproc))
FairSpec == Spec /\ Fairness

-----------------------------------------------------------------------------
Alive(s) == state[s] \in {"SLEEPING", "RUNNABLE", "RUNNING"}

\* Whoever exits, and in whatever order, every process but init has a parent
\* that is still alive and so can reap it: exit() gives the children to init
\* before it becomes a zombie (proc.c:368, 374).
LivingParent ==
  \A s \in Slot \ {initproc} :
    state[s] # "UNUSED" => parent[s] # None /\ Alive(parent[s])

\* wait() misses neither the exit() of a child nor a kill(): a parent other than
\* init is not asleep in wait() while a child of it is a zombie (proc.c:392), and
\* nobody is who has been killed (proc.c:427, 619-625).
NoMissedChild ==
  \A s \in Slot : /\ (state[s] = "ZOMBIE" /\ parent[s] # initproc)
                        => state[parent[s]] # "SLEEPING"
                  /\ killed[s] => state[s] # "SLEEPING"

\* The lock a process spins for.
Wants(p) ==
  CASE pc[p] \in {"alloc", "kill"} /\ idx[p] < NPROC -> {idx[p]}
    [] pc[p] \in {"wait", "reparent"} /\ idx[p] < NPROC ->
         IF parent[idx[p]] = p THEN {idx[p]} ELSE {}
    [] pc[p] = "exit_init" -> {initproc}
    [] pc[p] \in {"exit_parent", "exit_lock_self"} -> {p}
    [] pc[p] = "exit_lock_parent" -> {arg[p]}
    [] OTHER -> {}

\* The parent-then-child rule for p->locks (proc.c:362) prevents deadlock: there
\* are no processes each of which spins for a lock that another one holds.
NoLockCycle ==
  \A S \in SUBSET Slot : S # {} => \E p \in S : \A s \in Wants(p) : lock[s] \notin S


=============================================================================

------------------------------- MODULE Sched -------------------------------
(***************************************************************************)
(* scheduler, sched, yield, sleep and wakeup of kernel/proc.c on several   *)
(* CPUs, driven by timer interrupts (kernel/trap.c) and used by            *)
(* sys_sleep() (kernel/sysproc.c) and clockintr().                         *)
(*                                                                         *)
(* A context is a kernel thread: a process's, or a CPU's scheduler.  Its   *)
(* stack holds the place where it is and, above it, the place in an        *)
(* interrupt handler that runs on that stack.  swtch() changes the context *)
(* that a CPU executes.  A step is the code between two lock operations;   *)
(* acquire() is two steps, push_off() and the swap that succeeds (module   *)
(* Spinlock has their instructions), since between them interrupts are     *)
(* off.                                                                    *)
(***************************************************************************)
EXTENDS Naturals, Sequences

CONSTANTS
  Cpu,      \* CPUs
  Timer,    \* the one that counts ticks: cpuid() == 0
  NPROC,    \* slots of the process table
  UINT,     \* the numbers of an unsigned int: ticks wraps
  MAXN,     \* ticks a process asks to sleep for
  None

Slot == 1..NPROC
tickslock == 0   \* its number among the locks: lock p is p->lock
Lock == Slot \cup {tickslock}
Context == Slot \cup Cpu

ASSUME SchedAssumption ==
  /\ Timer \in Cpu /\ None \notin Context /\ Cpu \cap Slot = {}
  /\ NPROC \in Nat \ {0} /\ UINT \in Nat \ {0} /\ MAXN \in 0..(UINT - 1)

VARIABLES
  state, chan, killed,       \* struct proc
  owner,                     \* the CPU that holds a spinlock, or None
  cproc, noff, intena,       \* struct cpu
  sie,                       \* whether a CPU takes interrupts
  on,                        \* the context that a CPU executes
  stack,                     \* where a context is; the interrupt handler first
  idx,                       \* its loop variable in scheduler or wakeup
  mine,                      \* intena of sched(), kept on the stack
  ticks, ticks0, n,
  seen                       \* the tick at which sys_sleep last looked

procs == <<state, chan, killed>>
cpus == <<cproc, noff, intena, sie>>
sleeps == <<ticks, ticks0, n, seen>>
vars == <<procs, owner, cpus, on, stack, idx, mine, sleeps>>

\* Processes that fork() has just made; every CPU enters scheduler().
Init ==
  /\ state = [p \in Slot |-> "RUNNABLE"]
  /\ chan = [p \in Slot |-> None] /\ killed = [p \in Slot |-> FALSE]
  /\ owner = [l \in Lock |-> None]
  /\ cproc = [c \in Cpu |-> None] /\ noff = [c \in Cpu |-> 0]
  /\ intena = [c \in Cpu |-> FALSE] /\ sie = [c \in Cpu |-> FALSE]
  /\ on = [c \in Cpu |-> c]
  /\ stack = [x \in Context |-> IF x \in Cpu THEN <<"intr_on">> ELSE <<"forkret">>]
  /\ idx = [x \in Context |-> 1]
  /\ mine = [x \in Context |-> FALSE]
  /\ ticks = 0
  /\ ticks0 = [p \in Slot |-> 0] /\ n = [p \in Slot |-> 0] /\ seen = [p \in Slot |-> 0]

At(c, l) == Head(stack[on[c]]) = l
To(x, l) == stack' = [stack EXCEPT ![x] = <<l>> \o Tail(@)]
Goto(c, l) == To(on[c], l)

-----------------------------------------------------------------------------
(* Spinlocks *)

PushOff(c, from, to) ==
  /\ At(c, from)
  /\ intena' = IF noff[c] = 0 THEN [intena EXCEPT ![c] = sie[c]] ELSE intena
  /\ noff' = [noff EXCEPT ![c] = @ + 1]
  /\ sie' = [sie EXCEPT ![c] = FALSE]
  /\ Goto(c, to)
  /\ UNCHANGED <<procs, owner, cproc, on, idx, mine, sleeps>>

Swap(c, l) == /\ owner[l] = None
              /\ owner' = [owner EXCEPT ![l] = c]

PopOff(c, ena) ==
  /\ noff' = [noff EXCEPT ![c] = @ - 1]
  /\ sie' = [sie EXCEPT ![c] = IF noff[c] = 1 /\ ena THEN TRUE ELSE @]

Unlock(l) == owner' = [owner EXCEPT ![l] = None]

Release(c, l) == Unlock(l) /\ PopOff(c, intena[c]) /\ UNCHANGED <<cproc, intena>>

-----------------------------------------------------------------------------
(* scheduler *)

\* Mutant: the devices get no chance to interrupt.
IntrOnNot(c) ==
  /\ At(c, "intr_on") /\ on[c] = c
  /\ Goto(c, "intr_off")
  /\ UNCHANGED <<procs, owner, cpus, on, idx, mine, sleeps>>

IntrOn(c) ==
  /\ At(c, "intr_on") /\ on[c] = c
  /\ sie' = [sie EXCEPT ![c] = TRUE]
  /\ Goto(c, "intr_off")
  /\ UNCHANGED <<procs, owner, cproc, noff, intena, on, idx, mine, sleeps>>

IntrOff(c) ==
  /\ At(c, "intr_off")
  /\ sie' = [sie EXCEPT ![c] = FALSE]
  /\ idx' = [idx EXCEPT ![c] = 1]
  /\ Goto(c, "scan")
  /\ UNCHANGED <<procs, owner, cproc, noff, intena, on, mine, sleeps>>

ScanPushOff(c) == PushOff(c, "scan", "scan_swap")

\* acquire(&p->lock) and the test; swtch() to the process.
Scan(c) ==
  LET p == idx[c] IN
  /\ At(c, "scan_swap")
  /\ Swap(c, p)
  /\ IF state[p] = "RUNNABLE"
     THEN /\ state' = [state EXCEPT ![p] = "RUNNING"]
          /\ cproc' = [cproc EXCEPT ![c] = p]
          /\ Goto(c, "back")
          /\ on' = [on EXCEPT ![c] = p]
     ELSE /\ Goto(c, "next")
          /\ UNCHANGED <<state, cproc, on>>
  /\ UNCHANGED <<chan, killed, noff, intena, sie, idx, mine, sleeps>>

Back(c) ==
  /\ At(c, "back")
  /\ cproc' = [cproc EXCEPT ![c] = None]
  /\ Goto(c, "next")
  /\ UNCHANGED <<procs, owner, noff, intena, sie, on, idx, mine, sleeps>>

NextSlot(i) == IF i = NPROC THEN 1 ELSE i + 1

\* The end of the loop's body.  wfi pauses until an interrupt is pending, and the
\* timer makes one pending again and again: the pause is left out.
NextProc(c) ==
  /\ At(c, "next")
  /\ intena' = [intena EXCEPT ![c] = FALSE]
  /\ Unlock(idx[c]) /\ PopOff(c, intena'[c])
  /\ idx' = [idx EXCEPT ![c] = NextSlot(@)]
  /\ Goto(c, IF idx[c] = NPROC THEN "intr_on" ELSE "scan")
  /\ UNCHANGED <<procs, cproc, on, mine, sleeps>>

-----------------------------------------------------------------------------
(* sched, yield and forkret, for the process that a CPU executes *)

\* The process that holds its own lock goes back to the scheduler.
Sched(c, from, to) ==
  /\ At(c, from)
  /\ mine' = [mine EXCEPT ![on[c]] = intena[c]]
  /\ on' = [on EXCEPT ![c] = c]
  /\ Goto(c, to)
  /\ UNCHANGED <<procs, owner, cpus, idx, sleeps>>

\* Mutant: intena is left as the scheduler, or another process, has set it.
RestoreNot(c) == UNCHANGED intena

Restore(c) == intena' = [intena EXCEPT ![c] = mine[on[c]]]

YieldPushOff(c) == PushOff(c, "yield", "yield_swap")

\* Mutant: p->lock is not held when the process becomes RUNNABLE.
YieldUnlocked(c) ==
  /\ At(c, "yield_swap")
  /\ state' = [state EXCEPT ![cproc[c]] = "RUNNABLE"]
  /\ Goto(c, "yield_sched")
  /\ UNCHANGED <<chan, killed, owner, cpus, on, idx, mine, sleeps>>

Yield(c) ==
  LET p == cproc[c] IN
  /\ At(c, "yield_swap")
  /\ Swap(c, p)
  /\ state' = [state EXCEPT ![p] = "RUNNABLE"]
  /\ Goto(c, "yield_sched")
  /\ UNCHANGED <<chan, killed, cpus, on, idx, mine, sleeps>>

YieldSched(c) == Sched(c, "yield_sched", "yield_back")

YieldBack(c) ==
  /\ At(c, "yield_back")
  /\ Restore(c)
  /\ Unlock(on[c]) /\ PopOff(c, intena'[c])
  /\ Goto(c, "sret")
  /\ UNCHANGED <<procs, cproc, on, idx, mine, sleeps>>

\* The release() of forkret(); usertrapret() enters user space with interrupts on.
Forkret(c) ==
  /\ At(c, "forkret")
  /\ Unlock(on[c])
  /\ noff' = [noff EXCEPT ![c] = @ - 1]
  /\ sie' = [sie EXCEPT ![c] = TRUE]
  /\ Goto(c, "user")
  /\ UNCHANGED <<procs, cproc, intena, on, idx, mine, sleeps>>

-----------------------------------------------------------------------------
(* sys_sleep, and sleep(&ticks, &tickslock) in it *)

SysSleep(c) ==
  /\ At(c, "user") /\ ~killed[on[c]]
  /\ \E k \in 0..MAXN : n' = [n EXCEPT ![on[c]] = k]
  /\ Goto(c, "sys_sleep")
  /\ UNCHANGED <<procs, owner, cpus, on, idx, mine, ticks, ticks0, seen>>

SysSleepPushOff(c) == PushOff(c, "sys_sleep", "sys_sleep_swap")

\* ticks - ticks0 < n, in unsigned arithmetic.
NotYet(p, t0) == (ticks + UINT - t0) % UINT < n[p]

\* tickslock is acquired: at the start, where ticks0 is set, or by sleep().
Look(c, first) ==
  LET p == on[c]
      t0 == IF first THEN ticks ELSE ticks0[p] IN
  /\ Swap(c, tickslock)
  /\ ticks0' = [ticks0 EXCEPT ![p] = t0]
  /\ seen' = [seen EXCEPT ![p] = ticks]
  /\ Goto(c, IF NotYet(p, t0) /\ ~killed[p] THEN "sleep" ELSE "return")
  /\ UNCHANGED <<procs, cpus, on, idx, mine, ticks, n>>

SysSleepLook(c) == At(c, "sys_sleep_swap") /\ Look(c, TRUE)

SysSleepReturn(c) ==
  /\ At(c, "return")
  /\ Release(c, tickslock)
  /\ n' = [n EXCEPT ![on[c]] = 0]
  /\ ticks0' = [ticks0 EXCEPT ![on[c]] = 0] /\ seen' = [seen EXCEPT ![on[c]] = 0]
  /\ Goto(c, "user")
  /\ UNCHANGED <<procs, on, idx, mine, ticks>>

SleepPushOff(c) == PushOff(c, "sleep", "sleep_swap")

SleepLock(c) ==
  /\ At(c, "sleep_swap")
  /\ Swap(c, on[c])
  /\ Goto(c, "sleep_release")
  /\ UNCHANGED <<procs, cpus, on, idx, mine, sleeps>>

\* Mutant: p->lock is not held when sched() is called.
SleepReleaseBoth(c) ==
  /\ At(c, "sleep_release")
  /\ owner' = [owner EXCEPT ![tickslock] = None, ![on[c]] = None]
  /\ PopOff(c, intena[c])
  /\ Goto(c, "sleep_set")
  /\ UNCHANGED <<procs, cproc, intena, on, idx, mine, sleeps>>

SleepRelease(c) ==
  /\ At(c, "sleep_release")
  /\ Release(c, tickslock)
  /\ Goto(c, "sleep_set")
  /\ UNCHANGED <<procs, on, idx, mine, sleeps>>

SleepSet(c) ==
  LET p == on[c] IN
  /\ At(c, "sleep_set")
  /\ chan' = [chan EXCEPT ![p] = "ticks"]
  /\ state' = [state EXCEPT ![p] = "SLEEPING"]
  /\ Goto(c, "sleep_sched")
  /\ UNCHANGED <<killed, owner, cpus, on, idx, mine, sleeps>>

SleepSched(c) == Sched(c, "sleep_sched", "sleep_back")

SleepBack(c) ==
  /\ At(c, "sleep_back")
  /\ chan' = [chan EXCEPT ![on[c]] = None]
  /\ Restore(c)
  /\ Unlock(on[c]) /\ PopOff(c, intena'[c])
  /\ Goto(c, "sleep_again")
  /\ UNCHANGED <<state, killed, cproc, on, idx, mine, sleeps>>

SleepAgainPushOff(c) == PushOff(c, "sleep_again", "sleep_again_swap")
SleepAgainLook(c) == At(c, "sleep_again_swap") /\ Look(c, FALSE)

-----------------------------------------------------------------------------
(* The timer interrupt: kerneltrap or usertrap, devintr, clockintr, wakeup *)

Interrupt(c) ==
  /\ sie[c] /\ Len(stack[on[c]]) = 1
  /\ sie' = [sie EXCEPT ![c] = FALSE]
  /\ stack' = [stack EXCEPT ![on[c]] = <<IF c = Timer THEN "clock" ELSE "resched">> \o @]
  /\ UNCHANGED <<procs, owner, cproc, noff, intena, on, idx, mine, sleeps>>

ClockPushOff(c) == PushOff(c, "clock", "clock_swap")

NextTick == (ticks + 1) % UINT

\* The wakeup loop of an interrupted scheduler() starts before its own loop does,
\* so that one loop variable per context is enough.
Clock(c) ==
  /\ At(c, "clock_swap")
  /\ Swap(c, tickslock)
  /\ ticks' = NextTick
  /\ idx' = [idx EXCEPT ![on[c]] = 1]
  /\ Goto(c, "wakeup")
  /\ UNCHANGED <<procs, cpus, on, mine, ticks0, n, seen>>

WakeupPushOff(c) == PushOff(c, "wakeup", "wakeup_swap")

WakeupProc(c) ==
  /\ At(c, "wakeup_swap")
  /\ Swap(c, idx[on[c]])
  /\ Goto(c, "wakeup_test")
  /\ UNCHANGED <<procs, cpus, on, idx, mine, sleeps>>

WakeupTest(c) ==
  LET p == idx[on[c]] IN
  /\ At(c, "wakeup_test")
  /\ state' = [state EXCEPT ![p] = IF @ = "SLEEPING" /\ chan[p] = "ticks" THEN "RUNNABLE"
                                                                         ELSE @]
  /\ Release(c, p)
  /\ idx' = [idx EXCEPT ![on[c]] = IF p = NPROC THEN 1 ELSE p + 1]
  /\ Goto(c, IF p = NPROC THEN "clock_release" ELSE "wakeup")
  /\ UNCHANGED <<chan, killed, on, mine, sleeps>>

ClockRelease(c) ==
  /\ At(c, "clock_release")
  /\ Release(c, tickslock)
  /\ Goto(c, "resched")
  /\ UNCHANGED <<procs, on, idx, mine, sleeps>>

\* myproc() != 0 && myproc()->state == RUNNING
Resched(c) ==
  /\ At(c, "resched")
  /\ Goto(c, IF \E p \in Slot : cproc[c] = p /\ state[p] = "RUNNING"
             THEN "yield" ELSE "sret")
  /\ UNCHANGED <<procs, owner, cpus, on, idx, mine, sleeps>>

\* The interrupted code goes on, with interrupts on.
Sret(c) ==
  /\ At(c, "sret")
  /\ sie' = [sie EXCEPT ![c] = TRUE]
  /\ stack' = [stack EXCEPT ![on[c]] = Tail(@)]
  /\ UNCHANGED <<procs, owner, cproc, noff, intena, on, idx, mine, sleeps>>

-----------------------------------------------------------------------------
\* kill(), by somebody else.
Kill(p) ==
  /\ ~killed[p] /\ owner[p] = None
  /\ killed' = [killed EXCEPT ![p] = TRUE]
  /\ state' = [state EXCEPT ![p] = IF @ = "SLEEPING" THEN "RUNNABLE" ELSE @]
  /\ UNCHANGED <<chan, owner, cpus, on, stack, idx, mine, sleeps>>

Step(c) ==
  \/ IntrOn(c) \/ IntrOff(c) \/ ScanPushOff(c) \/ Scan(c) \/ Back(c) \/ NextProc(c)
  \/ YieldPushOff(c) \/ Yield(c) \/ YieldSched(c) \/ YieldBack(c) \/ Forkret(c)
  \/ SysSleepPushOff(c) \/ SysSleepLook(c) \/ SysSleepReturn(c)
  \/ SleepPushOff(c) \/ SleepLock(c) \/ SleepRelease(c) \/ SleepSet(c)
  \/ SleepSched(c) \/ SleepBack(c) \/ SleepAgainPushOff(c) \/ SleepAgainLook(c)
  \/ ClockPushOff(c) \/ Clock(c) \/ WakeupPushOff(c) \/ WakeupProc(c)
  \/ WakeupTest(c) \/ ClockRelease(c) \/ Resched(c) \/ Sret(c)

Next == \/ \E c \in Cpu : Step(c) \/ SysSleep(c) \/ Interrupt(c)
        \/ \E p \in Slot : Kill(p)

Spec == Init /\ [][Next]_vars

\* CPUs keep executing, the timer keeps interrupting, and its interrupts do not
\* come so fast that scheduler() never gets beyond intr_on().
Fairness == \A c \in Cpu : WF_vars(Step(c)) /\ SF_vars(IntrOff(c)) /\ SF_vars(Interrupt(c))

FairSpec == Spec /\ Fairness

-----------------------------------------------------------------------------
\* No two CPUs ever run on the same stack, and a process whose lock is free is on
\* a CPU exactly if it is RUNNING, as the process that this CPU believes to run
\* (proc.c:464-474).
OneCpuPerProcess ==
  /\ \A c, d \in Cpu : on[c] = on[d] => c = d
  /\ \A p \in Slot : owner[p] = None =>
       (state[p] = "RUNNING" <=> \E c \in Cpu : on[c] = p /\ cproc[c] = p)

\* None of the four panics of sched() (proc.c:502-509): it is called with p->lock
\* and no other lock held, with the state changed and interrupts off.
SchedMayBeCalled ==
  \A c \in Cpu : At(c, "yield_sched") \/ At(c, "sleep_sched") =>
    LET p == cproc[c] IN
    /\ p = on[c] /\ owner[p] = c
    /\ noff[c] = 1 /\ state[p] # "RUNNING" /\ ~sie[c]

\* Whether interrupts are on belongs to the thread, not to the CPU (proc.c:491-492):
\* a thread that holds no lock has them on, unless it is in a handler or in the
\* part of scheduler() that has turned them off; and sched() never panics.
IntrIsTheThreads ==
  /\ SchedMayBeCalled
  /\ \A c \in Cpu : noff[c] = 0 =>
       (sie[c] <=> /\ Len(stack[on[c]]) = 1
                   /\ Head(stack[on[c]]) \notin {"intr_on", "scan"})

\* "we can be guaranteed that we won't miss any wakeup" (proc.c:558): when no tick
\* is being handled, nobody sleeps who has not looked at the clock since the last.
NoMissedWakeup ==
  owner[tickslock] = None =>
    \A p \in Slot : state[p] = "SLEEPING" => seen[p] = ticks

\* On one CPU the timer and the loop of scheduler() starve nobody (proc.c:460): a
\* process that is RUNNABLE gets to run, and one that sleeps for a tick becomes
\* RUNNABLE, whatever the others do.
RunnableRuns == \A p \in Slot : state[p] = "RUNNABLE" ~> state[p] = "RUNNING"
SleeperWoken == \A p \in Slot : state[p] = "SLEEPING" ~> state[p] = "RUNNABLE"
=============================================================================

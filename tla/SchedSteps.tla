----------------------------- MODULE SchedSteps -----------------------------
(***************************************************************************)
(* Proofs about scheduler, sched, sleep and wakeup for any number of CPUs  *)
(* and processes: the inductive invariant, and the steps that stay in the  *)
(* context they start in.  SchedProofs has the other steps and concludes.  *)
(*                                                                         *)
(* The invariant says, for the place where the context that a CPU executes *)
(* is, how deep push_off() is nested, which locks the CPU holds and what   *)
(* intena remembers; and for a process, what its state says of where its   *)
(* context is.                                                             *)
(***************************************************************************)
EXTENDS Sched, SequenceTheorems, TLAPS

\* A leaf that names no prover is for Zenon, within half a minute.
USE ZenonT(30)

Top(x) == Head(stack[x])

\* Where a context may be: in scheduler(), in a process, in an interrupt handler.
InScheduler == {"intr_on", "intr_off", "scan", "scan_swap", "back", "next"}
InProcess == {"forkret", "user", "sys_sleep", "sys_sleep_swap", "return", "sleep",
              "sleep_swap", "sleep_release", "sleep_set", "sleep_sched", "sleep_back",
              "sleep_again", "sleep_again_swap"}
InClock == {"clock", "clock_swap", "wakeup", "wakeup_swap", "wakeup_test",
            "clock_release", "resched", "sret"}
InYield == {"yield", "yield_swap", "yield_sched", "yield_back"}

Label == InScheduler \cup InProcess \cup InClock \cup InYield

\* The places where interrupts are on.
Open == {"intr_off", "user", "sys_sleep", "sleep_again"}

\* The places where no lock is held and where two are; noff is 1 in all others.
Flat == {"intr_on", "intr_off", "scan", "user", "sys_sleep", "sleep_again", "clock",
         "resched", "sret", "yield"}
Deep == {"sleep_swap", "sleep_release", "wakeup_swap", "wakeup_test"}

\* The places where intena is TRUE, and where it is FALSE.
Remembered == {"sys_sleep_swap", "return", "sleep", "sleep_swap", "sleep_release",
               "sleep_set", "sleep_sched", "sleep_again_swap"}
Masked == {"clock_swap", "wakeup", "wakeup_swap", "wakeup_test", "clock_release",
           "yield_swap", "yield_sched"}

\* The places where tickslock is held, and those where a process holds its own lock.
HasTicks == {"return", "sleep", "sleep_swap", "sleep_release", "wakeup", "wakeup_swap",
             "wakeup_test", "clock_release"}
HasOwn == {"forkret", "sleep_release", "sleep_set", "sleep_sched", "sleep_back",
           "yield_sched", "yield_back"}
InWakeup == {"wakeup", "wakeup_swap", "wakeup_test"}

-----------------------------------------------------------------------------
(* The inductive invariant *)

TypeOK ==
  /\ state \in [Slot -> {"RUNNABLE", "RUNNING", "SLEEPING"}]
  /\ chan \in [Slot -> {"ticks", None}]
  /\ killed \in [Slot -> BOOLEAN]
  /\ owner \in [Lock -> Cpu \cup {None}]
  /\ cproc \in [Cpu -> Slot \cup {None}]
  /\ noff \in [Cpu -> Nat]
  /\ intena \in [Cpu -> BOOLEAN]
  /\ sie \in [Cpu -> BOOLEAN]
  /\ on \in [Cpu -> Context]
  /\ stack \in [Context -> Seq(Label)]
  /\ idx \in [Context -> Slot]
  /\ mine \in [Context -> BOOLEAN]
  /\ ticks \in Nat
  /\ ticks0 \in [Slot -> Nat]
  /\ n \in [Slot -> Nat]
  /\ seen \in [Slot -> Nat]

\* A context is in its own code, or in a handler that interrupted it where
\* interrupts were on.
StackOK(x) ==
  \/ /\ Len(stack[x]) = 1
     /\ Top(x) \in IF x \in Cpu THEN InScheduler ELSE InProcess
  \/ /\ Len(stack[x]) = 2
     /\ stack[x][2] \in IF x \in Cpu THEN {"intr_off"} ELSE Open \ {"intr_off"}
     /\ Top(x) \in IF x \in Cpu THEN InClock ELSE InClock \cup InYield

\* What a CPU's registers say of the context it executes.
Nesting(c) ==
  LET t == Top(on[c]) IN
  /\ t \in Flat => noff[c] = 0
  /\ t \in Deep => noff[c] = 2
  /\ t \notin Flat \cup Deep => noff[c] = 1
Flags(c) ==
  LET x == on[c] IN
  /\ sie[c] <=> Len(stack[x]) = 1 /\ Top(x) \in Open
  /\ Top(x) \in Remembered => intena[c]
  /\ Top(x) \in Masked => ~intena[c]
Placed(c) ==
  LET x == on[c] IN
  /\ x \in Slot => cproc[c] = x /\ Top(c) = "back" /\ idx[c] = x
  /\ x \notin Slot => x = c /\ (Top(c) # "back" => cproc[c] = None)
CpuOK(c) == Nesting(c) /\ Flags(c) /\ Placed(c)

OneEach == \A c, d \in Cpu : on[c] = on[d] => c = d

\* The locks a CPU holds, by place.
Holds(c, l) ==
  LET x == on[c] IN
  \/ l = tickslock /\ Top(x) \in HasTicks
  \/ l = x /\ x \in Slot /\ Top(x) \in HasOwn
  \/ l = idx[c] /\ x = c /\ Top(x) \in {"back", "next"}
  \/ l = idx[x] /\ Top(x) = "wakeup_test"
Owners == \A l \in Lock, c \in Cpu : owner[l] = c <=> Holds(c, l)

Running(p) == \E c \in Cpu : on[c] = p

\* What a process's state says of its context.
ProcOK(p) ==
  /\ Running(p) => state[p] = IF Top(p) = "yield_sched" THEN "RUNNABLE"
                              ELSE IF Top(p) = "sleep_sched" THEN "SLEEPING"
                              ELSE "RUNNING"
  /\ ~Running(p) => /\ Top(p) \in {"forkret", "yield_back", "sleep_back"}
                    /\ state[p] # "RUNNING"
                    /\ state[p] = "SLEEPING" => Top(p) = "sleep_back"
  /\ state[p] = "SLEEPING" => chan[p] = "ticks"
  /\ Top(p) = "sleep_back" => mine[p]
  /\ Top(p) = "yield_back" => ~mine[p]

\* A process that sleeps, or is about to, and has not looked at the clock since
\* the last tick: the loop of wakeup() has not come to it yet.
Drowsy(p) == state[p] = "SLEEPING" \/ Top(p) \in {"sleep_set", "sleep_sched"}
Coming(p) == \E d \in Cpu : Top(on[d]) \in InWakeup /\ idx[on[d]] <= p
WakeOK(p) ==
  /\ Drowsy(p) => seen[p] = ticks \/ Coming(p)
  /\ Top(p) \in {"sleep", "sleep_swap", "sleep_release"} => seen[p] = ticks

SchedInv ==
  /\ TypeOK
  /\ \A x \in Context : StackOK(x)
  /\ \A c \in Cpu : CpuOK(c)
  /\ OneEach
  /\ Owners
  /\ \A p \in Slot : ProcOK(p)
  /\ \A p \in Slot : WakeOK(p)

-----------------------------------------------------------------------------
(* Steps that change one CPU and the context it executes *)

\* The parts of the type invariant that the loops over proc[] and the clock use.
LEMMA Typed ==
  ASSUME SchedInv
  PROVE  idx \in [Context -> Slot] /\ ticks \in Nat /\ n \in [Slot -> Nat]
  BY DEF SchedInv, TypeOK

\* The loops over proc[] stay in the table.
LEMMA Slots ==
  /\ 1 \in Slot
  /\ \A i \in Slot : NextSlot(i) \in Slot
  BY SchedAssumption, SMTT(30) DEF SchedAssumption, Slot, NextSlot

\* tickslock is not the lock of a process.
LEMMA TicksApart == \A x \in Slot : x # tickslock
  BY SMTT(30) DEF Slot, tickslock

\* A step of the code that runs replaces the top frame and leaves the one below.
LEMMA TopChanged ==
  ASSUME NEW S, NEW s \in Seq(S), Len(s) \in {1, 2}, NEW l \in S
  PROVE  LET t == <<l>> \o Tail(s)
         IN /\ t \in Seq(S) /\ Len(t) = Len(s) /\ Head(t) = l
            /\ Len(s) = 2 => t[2] = s[2]
  <1>1. /\ Tail(s) \in Seq(S) /\ Len(Tail(s)) = Len(s) - 1
        /\ \A i \in 1..Len(Tail(s)) : Tail(s)[i] = s[i + 1]
    <2>1. s # <<>>
      BY EmptySeq, SMTT(30)
    <2> QED  BY <2>1, HeadTailProperties
  <1>2. <<l>> \in Seq(S) /\ Len(<<l>>) = 1 /\ <<l>>[1] = l
    BY SMTT(30)
  <1>3. /\ <<l>> \o Tail(s) \in Seq(S) /\ Len(<<l>> \o Tail(s)) = Len(s)
        /\ (<<l>> \o Tail(s))[1] = l
        /\ Len(s) = 2 => (<<l>> \o Tail(s))[2] = s[2]
    BY <1>1, <1>2, ConcatProperties, SMTT(30)
  <1> QED  BY <1>3, SMTT(30)

\* The context that c executes goes to l, on the same stack.
Moved(x, l) ==
  /\ stack' \in [Context -> Seq(Label)]
  /\ Top(x)' = l
  /\ Len(stack'[x]) = Len(stack[x])
  /\ Len(stack[x]) = 2 => stack'[x][2] = stack[x][2]
  /\ \A y \in Context \ {x} : stack'[y] = stack[y]

\* The move of a context to a label changes the top of its own stack only.
LEMMA ToMoves ==
  ASSUME SchedInv, NEW x \in Context, NEW l \in Label, To(x, l)
  PROVE  Moved(x, l)
  <1>1. stack[x] \in Seq(Label) /\ Len(stack[x]) \in {1, 2}
    BY DEF SchedInv, TypeOK, StackOK
  <1>2. stack' = [stack EXCEPT ![x] = <<l>> \o Tail(stack[x])]
    BY DEF To
  <1>3. stack'[x] = <<l>> \o Tail(stack[x])
    BY <1>2 DEF SchedInv, TypeOK
  <1>4. /\ stack'[x] \in Seq(Label) /\ Len(stack'[x]) = Len(stack[x])
        /\ Head(stack'[x]) = l /\ (Len(stack[x]) = 2 => stack'[x][2] = stack[x][2])
    BY <1>1, <1>3, TopChanged, SMTT(30)
  <1>5. stack' \in [Context -> Seq(Label)] /\ \A y \in Context \ {x} : stack'[y] = stack[y]
    BY <1>2, <1>3, <1>4 DEF SchedInv, TypeOK
  <1> QED  BY <1>4, <1>5 DEF Moved, Top

\* A CPU executes a process or its own scheduler.
LEMMA OnWhat ==
  ASSUME SchedInv
  PROVE  /\ \A c \in Cpu : on[c] \in Slot \cup {c} /\ on[c] \in Context
         /\ \A c, d \in Cpu : c # d => on[c] # on[d] /\ on[d] # c
         /\ \A c \in Cpu : c \notin Slot
  BY SchedAssumption, SMTT(30) DEF SchedAssumption, SchedInv, TypeOK, CpuOK, Placed, OneEach

\* The other CPUs keep what they have.
CpuFrame(c) ==
  /\ \A d \in Cpu \ {c} : /\ on'[d] = on[d] /\ noff'[d] = noff[d] /\ sie'[d] = sie[d]
                          /\ intena'[d] = intena[d] /\ cproc'[d] = cproc[d]
  /\ \A y \in Context \ {c, on[c], on'[c]} : stack'[y] = stack[y] /\ idx'[y] = idx[y]

\* What a CPU does changes neither the flags nor the locks of another CPU.
LEMMA OthersKept ==
  ASSUME SchedInv, NEW c \in Cpu, CpuFrame(c), OneEach', on'[c] \in Slot \cup {c}
  PROVE  \A d \in Cpu \ {c} : /\ CpuOK(d)'
                             /\ \A l \in Lock : Holds(d, l)' <=> Holds(d, l)
  <1> SUFFICES ASSUME NEW d \in Cpu \ {c}
               PROVE  CpuOK(d)' /\ \A l \in Lock : Holds(d, l)' <=> Holds(d, l)
    OBVIOUS
  <1>1. d \in Context \ {c, on[c], on'[c]} /\ on[d] \in Context \ {c, on[c], on'[c]}
    BY OnWhat, SMTT(30) DEF CpuFrame, OneEach, Context
  <1>2. /\ on'[d] = on[d] /\ noff'[d] = noff[d] /\ sie'[d] = sie[d]
        /\ intena'[d] = intena[d] /\ cproc'[d] = cproc[d]
        /\ stack'[d] = stack[d] /\ idx'[d] = idx[d]
        /\ stack'[on[d]] = stack[on[d]] /\ idx'[on[d]] = idx[on[d]]
    BY <1>1 DEF CpuFrame
  <1>3. CpuOK(d)
    BY DEF SchedInv
  <1>4. Nesting(d)' /\ Placed(d)'
    BY <1>2, <1>3 DEF CpuOK, Nesting, Placed, Top
  <1>5. Flags(d)'
    BY <1>2, <1>3 DEF CpuOK, Flags, Top
  <1> QED  BY <1>2, <1>4, <1>5 DEF CpuOK, Holds, Top

\* The half of the invariant about CPUs and locks, for a step of c that stays in
\* its context.
LEMMA LocalCpus ==
  ASSUME SchedInv, NEW c \in Cpu, NEW x \in Context, x = on[c], CpuFrame(c), on' = on,
         \A y \in Context \ {x} : stack'[y] = stack[y],
         \A l \in Lock : /\ owner'[l] = c <=> Holds(c, l)'
                        /\ \A d \in Cpu \ {c} : owner'[l] = d <=> owner[l] = d,
         StackOK(x)', CpuOK(c)'
  PROVE  /\ (\A y \in Context : StackOK(y)') /\ (\A d \in Cpu : CpuOK(d)')
         /\ OneEach' /\ Owners'
         /\ \A p \in Slot : Running(p)' <=> Running(p)
  <1>1. OneEach'
    BY DEF SchedInv, OneEach
  <1>2. on'[c] \in Slot \cup {c}
    BY OnWhat
  <1>3. \A d \in Cpu \ {c} : CpuOK(d)' /\ \A l \in Lock : Holds(d, l)' <=> Holds(d, l)
    BY <1>1, <1>2, OthersKept
  <1>4. ASSUME NEW y \in Context PROVE StackOK(y)'
    <2>1. CASE y = x
      BY <2>1
    <2>2. CASE y # x
      BY <2>2 DEF SchedInv, StackOK, Top
    <2> QED  BY <2>1, <2>2
  <1>5. Owners'
    BY <1>3, SMTT(30) DEF SchedInv, Owners
  <1>6. \A p \in Slot : Running(p)' <=> Running(p)
    BY DEF Running
  <1> QED  BY <1>1, <1>3, <1>4, <1>5, <1>6

\* All of the invariant but what the step itself has to establish.
LEMMA LocalStep ==
  ASSUME SchedInv, TypeOK', NEW c \in Cpu, NEW x \in Context, x = on[c],
         CpuFrame(c), on' = on, ticks' = ticks,
         \A y \in Context \ {x} : stack'[y] = stack[y],
         \A p \in Slot \ {x} : /\ state'[p] = state[p] /\ chan'[p] = chan[p]
                              /\ mine'[p] = mine[p] /\ seen'[p] = seen[p],
         \A l \in Lock : /\ owner'[l] = c <=> Holds(c, l)'
                        /\ \A d \in Cpu \ {c} : owner'[l] = d <=> owner[l] = d,
         (Top(x)' \in InWakeup /\ idx'[x] = idx[x]) \/ Top(x) \notin InWakeup,
         StackOK(x)', CpuOK(c)', x \in Slot => ProcOK(x)' /\ WakeOK(x)'
  PROVE  SchedInv'
  <1>1. /\ (\A y \in Context : StackOK(y)') /\ (\A d \in Cpu : CpuOK(d)')
        /\ OneEach' /\ Owners'
        /\ \A p \in Slot : Running(p)' <=> Running(p)
    BY LocalCpus
  <1>2. ASSUME NEW p \in Slot PROVE ProcOK(p)'
    <2>1. CASE p = x
      BY <2>1
    <2>2. CASE p # x
      <3>1. ProcOK(p) /\ Top(p)' = Top(p)
        BY <2>2 DEF SchedInv, Top, Context
      <3> QED  BY <1>1, <2>2, <3>1 DEF ProcOK
    <2> QED  BY <2>1, <2>2
  <1>3. ASSUME NEW p \in Slot PROVE WakeOK(p)'
    <2>1. CASE p = x
      BY <2>1
    <2>2. CASE p # x
      <3>1. WakeOK(p) /\ Top(p)' = Top(p)
        BY <2>2 DEF SchedInv, Top, Context
      <3>2. ASSUME Coming(p) PROVE Coming(p)'
        <4>1. PICK d \in Cpu : Top(on[d]) \in InWakeup /\ idx[on[d]] <= p
          BY <3>2 DEF Coming
        <4>2. CASE d = c
          BY <4>1, <4>2 DEF Coming, Top
        <4>3. CASE d # c
          <5>1. on[d] \in Context \ {c, on[c], on'[c]}
            BY <4>3, OnWhat
          <5> QED  BY <4>1, <5>1 DEF Coming, CpuFrame, Top
        <4> QED  BY <4>2, <4>3
      <3> QED  BY <2>2, <3>1, <3>2 DEF WakeOK, Drowsy
    <2> QED  BY <2>1, <2>2
  <1> QED  BY <1>1, <1>2, <1>3 DEF SchedInv

-----------------------------------------------------------------------------
(* acquire *)

\* The push_off() of every acquire().
Pushes(from, to) ==
  \/ from = "scan" /\ to = "scan_swap"
  \/ from = "yield" /\ to = "yield_swap"
  \/ from = "sys_sleep" /\ to = "sys_sleep_swap"
  \/ from = "sleep" /\ to = "sleep_swap"
  \/ from = "sleep_again" /\ to = "sleep_again_swap"
  \/ from = "clock" /\ to = "clock_swap"
  \/ from = "wakeup" /\ to = "wakeup_swap"

\* The push_off() that starts acquire(): interrupts go off and noff counts it.
LEMMA PushOffStep ==
  ASSUME SchedInv, NEW c \in Cpu, NEW from, NEW to, Pushes(from, to),
         PushOff(c, from, to)
  PROVE  SchedInv'
  <1>1. PICK x \in Context : x = on[c]
    BY OnWhat
  <1>2. to \in Label /\ Top(x) = from
    BY <1>1 DEF Pushes, PushOff, At, Top, Label, InScheduler, InProcess, InClock, InYield
  <1>3. Moved(x, to)
    BY <1>1, <1>2, ToMoves DEF PushOff, Goto
  <1>4. /\ UNCHANGED <<state, chan, killed, owner, cproc, on, idx, mine, ticks, ticks0, n, seen>>
        /\ intena' = IF noff[c] = 0 THEN [intena EXCEPT ![c] = sie[c]] ELSE intena
        /\ noff' = [noff EXCEPT ![c] = noff[c] + 1]
        /\ sie' = [sie EXCEPT ![c] = FALSE]
    BY DEF PushOff, procs, sleeps
  <1>5. TypeOK'
    <2>1. intena' \in [Cpu -> BOOLEAN] /\ sie' \in [Cpu -> BOOLEAN]
      BY <1>4 DEF SchedInv, TypeOK
    <2>2. noff' \in [Cpu -> Nat]
      BY <1>4, SMTT(30) DEF SchedInv, TypeOK
    <2> QED  BY <1>3, <1>4, <2>1, <2>2 DEF SchedInv, TypeOK, Moved
  <1>6. CpuFrame(c)
    BY <1>1, <1>3, <1>4 DEF CpuFrame, Moved, SchedInv, TypeOK
  <1>7. StackOK(x)'
    BY <1>2, <1>3 DEF SchedInv, StackOK, Moved, Pushes, InScheduler, InProcess, InClock,
       InYield
  <1>8. CpuOK(c)'
    <2>1. CpuOK(c) /\ StackOK(x)
      BY DEF SchedInv
    <2>2. /\ to \notin Open /\ to \notin Flat
          /\ from \notin Flat => from \notin Deep /\ to \in Deep
          /\ from \in Flat => to \notin Deep
      BY DEF Pushes, Flat, Deep, Open
    <2>3. noff'[c] = noff[c] + 1 /\ ~sie'[c]
      BY <1>4 DEF SchedInv, TypeOK
    <2>4. noff[c] = 0 <=> from \in Flat
      BY <1>1, <1>2, <2>1, SMTT(30) DEF CpuOK, Nesting
    <2>5. intena'[c] = IF from \in Flat THEN sie[c] ELSE intena[c]
      BY <1>4, <2>4 DEF SchedInv, TypeOK
    <2>6. (to \in Remembered => intena'[c]) /\ (to \in Masked => ~intena'[c])
      <3>1. to \in Remembered /\ from \in Flat => Len(stack[x]) = 1 /\ from \in Open
        BY <1>2, <2>1 DEF StackOK, Pushes, Remembered, Flat, Open, InScheduler, InProcess,
           InClock, InYield
      <3>2. to \in Masked /\ from \in Flat => ~(Len(stack[x]) = 1 /\ from \in Open)
        BY <1>2, <2>1 DEF StackOK, Pushes, Masked, Flat, Open, InScheduler, InProcess,
           InClock, InYield
      <3>3. from \notin Flat => (to \in Remembered <=> from \in Remembered)
                               /\ (to \in Masked <=> from \in Masked)
        BY DEF Pushes, Flat, Remembered, Masked
      <3>4. /\ sie[c] <=> Len(stack[x]) = 1 /\ from \in Open
            /\ from \in Remembered => intena[c]
            /\ from \in Masked => ~intena[c]
        BY <1>1, <1>2, <2>1 DEF CpuOK, Flags
      <3> QED  BY <2>5, <3>1, <3>2, <3>3, <3>4
    <2>7. Nesting(c)'
      BY <1>1, <1>2, <1>3, <1>4, <2>1, <2>2, <2>3, SMTT(30) DEF CpuOK, Nesting, Moved
    <2>8. Flags(c)'
      BY <1>1, <1>2, <1>3, <1>4, <2>2, <2>3, <2>6 DEF Flags, Moved
    <2>9. Placed(c)'
      BY <1>1, <1>2, <1>3, <1>4, <2>1, OnWhat DEF CpuOK, Placed, Moved, Top, Pushes, Context
    <2> QED  BY <2>7, <2>8, <2>9 DEF CpuOK
  <1>9. \A l \in Lock : Holds(c, l)' <=> Holds(c, l)
    BY <1>1, <1>2, <1>3, <1>4 DEF Holds, Moved, Pushes, HasTicks, HasOwn
  <1>10. x \in Slot => ProcOK(x)' /\ WakeOK(x)'
    BY <1>1, <1>2, <1>3, <1>4 DEF SchedInv, ProcOK, WakeOK, Drowsy, Running, Moved, Pushes
  <1>11. \A l \in Lock : owner[l] = c <=> Holds(c, l)
    BY DEF SchedInv, Owners
  <1>12. (Top(x)' \in InWakeup /\ idx'[x] = idx[x]) \/ Top(x) \notin InWakeup
    BY <1>2, <1>3, <1>4 DEF Moved, Pushes, InWakeup
  <1> QED  BY <1>1, <1>3, <1>4, <1>5, <1>6, <1>7, <1>8, <1>9, <1>10, <1>11, <1>12,
              LocalStep DEF Moved

\* The swap of an acquire() that succeeds: where it is, and for which lock.
Swaps(x, from, to, l) ==
  \/ from = "scan_swap" /\ to = "next" /\ l = idx[x]
  \/ from = "yield_swap" /\ to = "yield_sched" /\ l = x
  \/ from = "sys_sleep_swap" /\ to \in {"sleep", "return"} /\ l = tickslock
  \/ from = "sleep_again_swap" /\ to \in {"sleep", "return"} /\ l = tickslock
  \/ from = "sleep_swap" /\ to = "sleep_release" /\ l = x
  \/ from = "wakeup_swap" /\ to = "wakeup_test" /\ l = idx[x]

\* What a step that is not about the clock leaves of the other processes.
ProcFrame(x) ==
  /\ ticks' = ticks
  /\ \A p \in Slot \ {x} : /\ state'[p] = state[p] /\ chan'[p] = chan[p]
                          /\ mine'[p] = mine[p] /\ seen'[p] = seen[p]

\* The swap of acquire() that finds the lock free: the CPU owns it from now on.
LEMMA SwapStep ==
  ASSUME SchedInv, TypeOK', NEW c \in Cpu, NEW x \in Context, x = on[c],
         NEW to, NEW k \in Lock, Swaps(x, Top(x), to, k), Moved(x, to), Swap(c, k),
         UNCHANGED <<cpus, on, idx>>, ProcFrame(x),
         x \in Slot => ProcOK(x)' /\ WakeOK(x)'
  PROVE  SchedInv'
  <1>1. /\ owner[k] = None /\ owner' = [owner EXCEPT ![k] = c]
        /\ UNCHANGED <<cproc, noff, intena, sie>>
    BY DEF Swap, cpus
  <1>2. CpuFrame(c)
    BY <1>1 DEF CpuFrame, Moved
  <1>3. StackOK(x)'
    BY DEF SchedInv, StackOK, Moved, Swaps, InScheduler, InProcess, InClock, InYield
  <1>4. CpuOK(c) /\ StackOK(x)
    BY DEF SchedInv
  <1>5. CpuOK(c)'
    <2>1. Nesting(c)'
      BY <1>1, <1>4 DEF CpuOK, Nesting, Moved, Swaps, Flat, Deep
    <2>2. Flags(c)'
      <3>1. /\ Top(x) \notin Open /\ to \notin Open
            /\ Top(x) \in Remembered <=> to \in Remembered
            /\ Top(x) \in Masked <=> to \in Masked
        BY DEF Swaps, Open, Remembered, Masked
      <3> QED  BY <1>1, <1>4, <3>1 DEF CpuOK, Flags, Moved
    <2>3. Placed(c)'
      BY <1>1, <1>4, OnWhat DEF CpuOK, Placed, Moved, Top, Swaps, Context
    <2> QED  BY <2>1, <2>2, <2>3 DEF CpuOK
  <1>6. ASSUME NEW l \in Lock
        PROVE  /\ owner'[l] = c <=> Holds(c, l)'
               /\ \A d \in Cpu \ {c} : owner'[l] = d <=> owner[l] = d
    <2>1. owner[l] = c <=> Holds(c, l)
      BY DEF SchedInv, Owners
    <2>2. c # None /\ \A d \in Cpu : d # None
      BY SchedAssumption DEF SchedAssumption, Context
    <2>3. owner'[l] = IF l = k THEN c ELSE owner[l]
      BY <1>1 DEF SchedInv, TypeOK
    <2>4. Holds(c, l)' <=> Holds(c, l) \/ l = k
      BY <1>1, <1>4, OnWhat DEF Holds, Moved, Swaps, HasTicks, HasOwn, StackOK,
         InScheduler, InProcess, InClock, InYield
    <2> QED  BY <1>1, <2>1, <2>2, <2>3, <2>4
  <1>7. (Top(x)' \in InWakeup /\ idx'[x] = idx[x]) \/ Top(x) \notin InWakeup
    BY DEF Moved, Swaps, InWakeup
  <1> QED  BY <1>2, <1>3, <1>5, <1>6, <1>7, LocalStep DEF Moved, ProcFrame

-----------------------------------------------------------------------------
(* release, and the steps that touch no lock *)

Releases(x, from, to, l) ==
  \/ from = "next" /\ to \in {"intr_on", "scan"} /\ l = idx[x]
  \/ from = "yield_back" /\ to = "sret" /\ l = x
  \/ from = "forkret" /\ to = "user" /\ l = x
  \/ from = "return" /\ to = "user" /\ l = tickslock
  \/ from = "sleep_release" /\ to = "sleep_set" /\ l = tickslock
  \/ from = "sleep_back" /\ to = "sleep_again" /\ l = x
  \/ from = "clock_release" /\ to = "resched" /\ l = tickslock

\* The store of release() and its pop_off(): the lock is free, noff is one less.
LEMMA ReleaseStep ==
  ASSUME SchedInv, TypeOK', NEW c \in Cpu, NEW x \in Context, x = on[c],
         NEW to, NEW k \in Lock, Releases(x, Top(x), to, k), Moved(x, to), Unlock(k),
         noff'[c] = noff[c] - 1, CpuFrame(c), UNCHANGED <<on, cproc>>, Flags(c)',
         \A y \in Context : idx'[y] = idx[y] \/ (y = x /\ Top(x) = "next"), ProcFrame(x),
         x \in Slot => ProcOK(x)' /\ WakeOK(x)'
  PROVE  SchedInv'
  <1>1. StackOK(x)'
    BY DEF SchedInv, StackOK, Moved, Releases, InScheduler, InProcess, InClock, InYield
  <1>2. CpuOK(c) /\ StackOK(x)
    BY DEF SchedInv
  <1>3. CpuOK(c)'
    <2>1. Nesting(c)'
      <3>1. \/ Top(x) \in Deep /\ to \notin Flat \cup Deep
            \/ Top(x) \notin Flat \cup Deep /\ to \in Flat /\ to \notin Deep
        BY DEF Releases, Flat, Deep
      <3>2. Top(x)' = to /\ on'[c] = x
        BY DEF Moved
      <3>3. CASE Top(x) \in Deep /\ to \notin Flat \cup Deep
        <4>1. noff[c] = 2
          BY <1>2, <3>3 DEF CpuOK, Nesting
        <4>2. noff'[c] = 1
          BY <4>1, SMTT(30)
        <4> QED  BY <3>2, <3>3, <4>2 DEF Nesting
      <3>4. CASE Top(x) \notin Flat \cup Deep /\ to \in Flat /\ to \notin Deep
        <4>1. noff[c] = 1
          BY <1>2, <3>4 DEF CpuOK, Nesting
        <4>2. noff'[c] = 0
          BY <4>1, SMTT(30)
        <4> QED  BY <3>2, <3>4, <4>2 DEF Nesting
      <3> QED  BY <3>1, <3>3, <3>4
    <2>2. Placed(c)'
      BY <1>2, OnWhat DEF CpuOK, Placed, StackOK, Moved, Top, Releases, Context,
         InScheduler, InProcess, InClock, InYield
    <2> QED  BY <2>1, <2>2 DEF CpuOK
  <1>4. ASSUME NEW l \in Lock
        PROVE  /\ owner'[l] = c <=> Holds(c, l)'
               /\ \A d \in Cpu \ {c} : owner'[l] = d <=> owner[l] = d
    <2>1. /\ owner[l] = c <=> Holds(c, l)
          /\ owner[k] = c <=> Holds(c, k)
      BY DEF SchedInv, Owners
    <2>2. c # None /\ \A d \in Cpu : d # None
      BY SchedAssumption DEF SchedAssumption, Context
    <2>3. owner'[l] = IF l = k THEN None ELSE owner[l]
      BY DEF Unlock, SchedInv, TypeOK
    <2>4. Holds(c, k)
      BY <1>2, OnWhat DEF Holds, Releases, HasTicks, HasOwn, StackOK, InScheduler,
         InProcess, InClock, InYield
    <2>5. Holds(c, l)' <=> Holds(c, l) /\ l # k
      <3>1. on'[c] = x /\ Top(x)' = to
        BY DEF Moved
      <3>2. CASE Top(x) = "next" /\ to \in {"intr_on", "scan"} /\ k = idx[x]
        <4>1. x = c
          BY <1>2, <3>2, OnWhat DEF StackOK, InProcess, InClock, InYield
        <4> QED  BY <3>1, <3>2, <4>1 DEF Holds, HasTicks, HasOwn
      <3>3. CASE /\ Top(x) \in {"return", "sleep_release", "clock_release"} /\ k = tickslock
                 /\ to \in {"user", "sleep_set", "resched"}
                 /\ to = "sleep_set" <=> Top(x) = "sleep_release"
        BY <3>1, <3>3, TicksApart DEF Holds, HasTicks, HasOwn
      <3>4. CASE /\ Top(x) \in {"yield_back", "forkret", "sleep_back"} /\ k = x
                 /\ to \in {"sret", "user", "sleep_again"}
        <4>1. x \in Slot
          BY <1>2, <3>4, OnWhat DEF StackOK, InScheduler, InClock
        <4> QED  BY <3>1, <3>4, <4>1, TicksApart DEF Holds, HasTicks, HasOwn
      <3> QED  BY <3>2, <3>3, <3>4 DEF Releases
    <2> QED  BY <2>1, <2>2, <2>3, <2>4, <2>5
  <1>5. Top(x) \notin InWakeup
    BY DEF Releases, InWakeup
  <1> QED  BY <1>1, <1>3, <1>4, <1>5, LocalStep DEF Moved, ProcFrame

Keeps(from, to) ==
  \/ from = "intr_on" /\ to = "intr_off"
  \/ from = "intr_off" /\ to = "scan"
  \/ from = "back" /\ to = "next"
  \/ from = "user" /\ to = "sys_sleep"
  \/ from = "sleep_set" /\ to = "sleep_sched"
  \/ from = "resched" /\ to \in {"yield", "sret"}
  \/ from \in Open /\ to \in {"clock", "resched"}
  \/ from = "sret" /\ to \in Open

\* A step that neither takes nor releases a lock has to establish only what the
\* invariant says of its own CPU and process.
LEMMA KeepStep ==
  ASSUME SchedInv, TypeOK', NEW c \in Cpu, NEW x \in Context, x = on[c],
         Keeps(Top(x), Top(x)'), \A y \in Context \ {x} : stack'[y] = stack[y],
         CpuFrame(c), UNCHANGED <<on, owner, noff>>, StackOK(x)', Flags(c)', Placed(c)',
         \A y \in Context : idx'[y] = idx[y] \/ (y = x /\ Top(x) = "intr_off"), ProcFrame(x),
         x \in Slot => ProcOK(x)' /\ WakeOK(x)'
  PROVE  SchedInv'
  <1>1. CpuOK(c) /\ StackOK(x)
    BY DEF SchedInv
  <1>2. PICK from, to : from = Top(x) /\ to = Top(x)' /\ Keeps(from, to)
    OBVIOUS
  <1>3. CpuOK(c)'
    <2>1. Nesting(c)'
      BY <1>1, <1>2 DEF CpuOK, Nesting, Keeps, Flat, Deep, Open
    <2> QED  BY <2>1 DEF CpuOK
  <1>4. ASSUME NEW l \in Lock
        PROVE  /\ owner'[l] = c <=> Holds(c, l)'
               /\ \A d \in Cpu \ {c} : owner'[l] = d <=> owner[l] = d
    <2>1. owner[l] = c <=> Holds(c, l)
      BY DEF SchedInv, Owners
    <2>2. Holds(c, l)' <=> Holds(c, l)
      BY <1>1, <1>2 DEF Holds, Keeps, HasTicks, HasOwn, Open
    <2> QED  BY <2>1, <2>2
  <1>5. Top(x) \notin InWakeup
    BY <1>2 DEF Keeps, InWakeup, Open
  <1> QED  BY <1>3, <1>4, <1>5, LocalStep DEF ProcFrame

-----------------------------------------------------------------------------
(* scheduler *)

\* The context that c executes, and what the invariant says of it.
Executes(c, x) ==
  /\ x = on[c] /\ x \in Slot \cup {c}
  /\ StackOK(x) /\ Nesting(c) /\ Flags(c) /\ Placed(c)
  /\ x \in Slot => Running(x) /\ ProcOK(x) /\ WakeOK(x)

\* Every CPU executes its scheduler or one process.
LEMMA Executing ==
  ASSUME SchedInv, NEW c \in Cpu
  PROVE  \E x \in Context : Executes(c, x)
  BY OnWhat DEF SchedInv, CpuOK, Running, Executes

\* The labels of one kind of code are met in no other.
LEMMA WhereLabels ==
  ASSUME NEW x \in Context, StackOK(x)
  PROVE  /\ Top(x) \in InScheduler => x \in Cpu /\ Len(stack[x]) = 1
         /\ Top(x) \in InProcess => x \notin Cpu /\ Len(stack[x]) = 1
         /\ Top(x) \in InClock => Len(stack[x]) = 2
         /\ Top(x) \in InYield => x \notin Cpu /\ Len(stack[x]) = 2
         /\ Top(x) \in Label
  BY DEF StackOK, InScheduler, InProcess, InClock, InYield, Label

\* intr_on() at the top of scheduler()'s loop, where no lock is held.
LEMMA IntrOnStep ==
  ASSUME SchedInv, NEW c \in Cpu, IntrOn(c)
  PROVE  SchedInv'
  <1>1. PICK x \in Context : Executes(c, x)
    BY Executing
  <1>2. /\ Top(x) = "intr_on" /\ x = c /\ sie' = [sie EXCEPT ![c] = TRUE]
        /\ UNCHANGED <<state, chan, killed, owner, cproc, noff, intena, on, idx, mine, ticks,
                       ticks0, n, seen>>
    BY <1>1 DEF IntrOn, procs, sleeps, Executes, At, Top
  <1>3. Moved(x, "intr_off")
    BY <1>1, ToMoves DEF IntrOn, Goto, Label, InScheduler, Executes
  <1>4. TypeOK'
    BY <1>2, <1>3 DEF SchedInv, TypeOK, Moved
  <1>5. CpuFrame(c)
    BY <1>1, <1>2, <1>3 DEF CpuFrame, Moved, SchedInv, TypeOK
  <1>6. StackOK(x)'
    BY <1>1, <1>2, <1>3, WhereLabels DEF StackOK, Moved, InScheduler, Executes
  <1>7. Flags(c)'
    BY <1>1, <1>2, <1>3, WhereLabels DEF Flags, Moved, Open, Remembered, Masked,
       InScheduler, SchedInv, TypeOK, Executes
  <1>8. Placed(c)'
    BY <1>1, <1>2, <1>3 DEF Placed, Moved, Top, Executes
  <1>9. x \notin Slot
    BY <1>2, OnWhat
  <1> QED  BY <1>1, <1>2, <1>3, <1>4, <1>5, <1>6, <1>7, <1>8, <1>9, KeepStep DEF Keeps,
              Moved, ProcFrame, Executes

\* intr_off() before scheduler() looks at proc[].
LEMMA IntrOffStep ==
  ASSUME SchedInv, NEW c \in Cpu, IntrOff(c)
  PROVE  SchedInv'
  <1>1. PICK x \in Context : Executes(c, x)
    BY Executing
  <1>2. /\ Top(x) = "intr_off" /\ x = c /\ sie' = [sie EXCEPT ![c] = FALSE]
        /\ idx' = [idx EXCEPT ![c] = 1]
        /\ UNCHANGED <<state, chan, killed, owner, cproc, noff, intena, on, mine, ticks,
                       ticks0, n, seen>>
    <2>1. Top(x) = "intr_off"
      BY <1>1 DEF IntrOff, Executes, At, Top
    <2>2. x \in Cpu
      BY <1>1, <2>1, WhereLabels DEF Executes, InScheduler
    <2> QED  BY <1>1, <2>1, <2>2, OnWhat DEF IntrOff, procs, sleeps, Executes
  <1>3. Moved(x, "scan")
    BY <1>1, ToMoves DEF IntrOff, Goto, Label, InScheduler, Executes
  <1>4. TypeOK'
    <2>1. 1 \in Slot
      BY SchedAssumption, SMTT(30) DEF SchedAssumption, Slot
    <2>2. idx' \in [Context -> Slot] /\ sie' \in [Cpu -> BOOLEAN]
      BY <1>2, <2>1 DEF SchedInv, TypeOK
    <2> QED  BY <1>2, <1>3, <2>2 DEF SchedInv, TypeOK, Moved
  <1>5. CpuFrame(c)
    BY <1>1, <1>2, <1>3 DEF CpuFrame, Moved, SchedInv, TypeOK, Executes
  <1>6. StackOK(x)'
    BY <1>1, <1>2, <1>3, WhereLabels DEF StackOK, Moved, InScheduler, Executes
  <1>7. Flags(c)'
    BY <1>1, <1>2, <1>3, WhereLabels DEF Flags, Moved, Open, Remembered, Masked,
       InScheduler, SchedInv, TypeOK, Executes
  <1>8. Placed(c)'
    BY <1>1, <1>2, <1>3, OnWhat DEF Placed, Moved, Top, Executes
  <1>9. x \notin Slot
    BY <1>2, OnWhat
  <1>10. \A y \in Context : idx'[y] = idx[y] \/ (y = x /\ Top(x) = "intr_off")
    BY <1>2 DEF SchedInv, TypeOK
  <1> QED  BY <1>1, <1>2, <1>3, <1>4, <1>5, <1>6, <1>7, <1>8, <1>9, <1>10, KeepStep
              DEF Keeps, Moved, ProcFrame, Executes

\* swtch() back into scheduler(): c->proc is cleared, p->lock is still held.
LEMMA BackStep ==
  ASSUME SchedInv, NEW c \in Cpu, Back(c)
  PROVE  SchedInv'
  <1>1. PICK x \in Context : Executes(c, x)
    BY Executing
  <1>2. /\ Top(x) = "back" /\ x = c /\ cproc' = [cproc EXCEPT ![c] = None]
        /\ UNCHANGED <<state, chan, killed, owner, noff, intena, sie, on, idx, mine, ticks,
                       ticks0, n, seen>>
    <2>1. Top(x) = "back"
      BY <1>1 DEF Back, Executes, At, Top
    <2>2. x \in Cpu
      BY <1>1, <2>1, WhereLabels DEF Executes, InScheduler
    <2> QED  BY <1>1, <2>1, <2>2, OnWhat DEF Back, procs, sleeps, Executes
  <1>3. Moved(x, "next")
    BY <1>1, ToMoves DEF Back, Goto, Label, InScheduler, Executes
  <1>4. TypeOK'
    BY <1>2, <1>3 DEF SchedInv, TypeOK, Moved
  <1>5. CpuFrame(c)
    BY <1>1, <1>2, <1>3 DEF CpuFrame, Moved, SchedInv, TypeOK, Executes
  <1>6. StackOK(x)'
    BY <1>1, <1>2, <1>3, WhereLabels DEF StackOK, Moved, InScheduler, Executes
  <1>7. Flags(c)'
    BY <1>1, <1>2, <1>3 DEF Flags, Moved, Open, Remembered, Masked, Executes
  <1>8. x \notin Slot
    BY <1>2, OnWhat
  <1>9. Placed(c)'
    BY <1>1, <1>2, <1>8 DEF Placed, SchedInv, TypeOK, Executes
  <1> QED  BY <1>1, <1>2, <1>3, <1>4, <1>5, <1>6, <1>7, <1>8, <1>9, KeepStep DEF Keeps,
              Moved, ProcFrame, Executes

\* scheduler() releases p->lock and goes on to the next process.
LEMMA NextProcStep ==
  ASSUME SchedInv, NEW c \in Cpu, NextProc(c)
  PROVE  SchedInv'
  <1> DEFINE to == IF idx[c] = NPROC THEN "intr_on" ELSE "scan"
  <1>1. PICK x \in Context : Executes(c, x)
    BY Executing
  <1>2. /\ Top(x) = "next" /\ x = c
        /\ intena' = [intena EXCEPT ![c] = FALSE]
        /\ Unlock(idx[c]) /\ PopOff(c, intena'[c])
        /\ idx' = [idx EXCEPT ![c] = NextSlot(idx[c])]
        /\ UNCHANGED <<state, chan, killed, cproc, on, mine, ticks, ticks0, n, seen>>
    <2>1. Top(x) = "next"
      BY <1>1 DEF NextProc, Executes, At, Top
    <2>2. x \in Cpu
      BY <1>1, <2>1, WhereLabels DEF Executes, InScheduler
    <2> QED  BY <1>1, <2>1, <2>2, OnWhat DEF NextProc, procs, sleeps, Executes
  <1>3. Moved(x, to)
    BY <1>1, ToMoves DEF NextProc, Goto, Label, InScheduler, Executes
  <1>4. /\ sie' = sie /\ noff' = [noff EXCEPT ![c] = noff[c] - 1] /\ noff[c] = 1
    <2>1. noff[c] = 1
      BY <1>1, <1>2 DEF Executes, Nesting, Flat, Deep
    <2>2. ~intena'[c]
      BY <1>2 DEF SchedInv, TypeOK
    <2>3. sie' = [sie EXCEPT ![c] = sie[c]]
      BY <1>2, <2>2 DEF PopOff
    <2> QED  BY <1>2, <2>1, <2>3 DEF PopOff, SchedInv, TypeOK
  <1>5. TypeOK'
    <2>1. idx' \in [Context -> Slot]
      BY <1>2, Typed, Slots DEF Context
    <2>2. owner' \in [Lock -> Cpu \cup {None}] /\ intena' \in [Cpu -> BOOLEAN]
      BY <1>2 DEF SchedInv, TypeOK, Unlock
    <2>3. noff' \in [Cpu -> Nat]
      BY <1>4, SMTT(30) DEF SchedInv, TypeOK
    <2> QED  BY <1>2, <1>3, <1>4, <2>1, <2>2, <2>3 DEF SchedInv, TypeOK, Moved
  <1>6. CpuFrame(c)
    BY <1>1, <1>2, <1>3, <1>4 DEF CpuFrame, Moved, SchedInv, TypeOK, Executes
  <1>7. Flags(c)'
    BY <1>1, <1>2, <1>3, <1>4 DEF Flags, Moved, Open, Remembered, Masked, Executes
  <1>8. x \notin Slot
    BY <1>2, OnWhat
  <1>9. \A y \in Context : idx'[y] = idx[y] \/ (y = x /\ Top(x) = "next")
    BY <1>2 DEF SchedInv, TypeOK
  <1>10. idx[c] \in Lock /\ noff'[c] = noff[c] - 1
    BY <1>4 DEF SchedInv, TypeOK, Lock, Context
  <1>11. Releases(x, Top(x), to, idx[c])
    BY <1>2 DEF Releases
  <1> QED  BY <1>1, <1>2, <1>3, <1>4, <1>5, <1>6, <1>7, <1>8, <1>9, <1>10, <1>11,
              ReleaseStep DEF ProcFrame, Executes

-----------------------------------------------------------------------------
(* The processes: acquire *)

\* A process that c executes, at a place of a process's own code or of yield().
RunsAt(c, x, l) ==
  /\ x \in Context /\ Executes(c, x) /\ Top(x) = l
  /\ x # c /\ x # tickslock /\ x \in Lock /\ cproc[c] = x
  /\ Running(x) /\ ProcOK(x) /\ WakeOK(x)

\* A CPU at a place in the code of a process runs a process.
LEMMA InAProcess ==
  ASSUME SchedInv, NEW c \in Cpu, NEW l \in InProcess \cup InYield, At(c, l)
  PROVE  \E x \in Slot : RunsAt(c, x, l)
  <1>1. PICK x \in Context : Executes(c, x)
    BY Executing
  <1>2. Top(x) = l
    BY <1>1 DEF Executes, At, Top
  <1>3. x \notin Cpu
    BY <1>1, <1>2, WhereLabels DEF Executes
  <1>4. x \in Slot /\ x # c
    BY <1>1, <1>3 DEF Executes
  <1>5. x # tickslock
    BY <1>4, SMTT(30) DEF Slot, tickslock
  <1> QED  BY <1>1, <1>2, <1>4, <1>5 DEF Executes, Placed, Lock, RunsAt

\* yield() makes its process RUNNABLE and calls sched() with p->lock held.
LEMMA YieldStep ==
  ASSUME SchedInv, NEW c \in Cpu, Yield(c)
  PROVE  SchedInv'
  <1> USE DEF RunsAt
  <1>1. PICK x \in Slot : RunsAt(c, x, "yield_swap")
    BY InAProcess DEF Yield, InYield
  <1>2. /\ Swap(c, x) /\ state' = [state EXCEPT ![x] = "RUNNABLE"]
        /\ UNCHANGED <<chan, killed, cpus, cproc, noff, intena, sie, on, idx, mine, ticks,
                       ticks0, n, seen>>
    BY <1>1 DEF Yield, cpus, sleeps
  <1>3. Moved(x, "yield_sched")
    BY <1>1, ToMoves DEF Yield, Goto, Label, InYield, Executes
  <1>4. TypeOK'
    BY <1>1, <1>2, <1>3 DEF SchedInv, TypeOK, Moved, Swap
  <1>5. ProcFrame(x)
    BY <1>2 DEF ProcFrame, SchedInv, TypeOK
  <1>6. ProcOK(x)' /\ WakeOK(x)'
    BY <1>1, <1>2, <1>3 DEF SchedInv, TypeOK, ProcOK, WakeOK, Drowsy, Running, Moved
  <1>7. Swaps(x, Top(x), "yield_sched", x)
    BY <1>1 DEF Swaps
  <1> QED  BY <1>1, <1>2, <1>3, <1>4, <1>5, <1>6, <1>7, SwapStep DEF Executes

\* sys_sleep() takes tickslock, the first time to set ticks0, and compares ticks with it.
LEMMA LookStep ==
  ASSUME SchedInv, NEW c \in Cpu, SysSleepLook(c) \/ SleepAgainLook(c)
  PROVE  SchedInv'
  <1> USE DEF RunsAt
  <1>1. PICK x \in Slot : /\ RunsAt(c, x, Top(x))
                         /\ Top(x) \in {"sys_sleep_swap", "sleep_again_swap"}
    BY InAProcess DEF SysSleepLook, SleepAgainLook, InProcess
  <1>2. PICK first \in BOOLEAN : Look(c, first)
    BY DEF SysSleepLook, SleepAgainLook
  <1>3. PICK to \in {"sleep", "return"} : Goto(c, to)
    BY <1>2 DEF Look
  <1>4. /\ Swap(c, tickslock) /\ seen' = [seen EXCEPT ![x] = ticks]
        /\ UNCHANGED <<state, chan, killed, cpus, cproc, noff, intena, sie, on, idx, mine,
                       ticks, n>>
    BY <1>1, <1>2 DEF Look, cpus, procs, Executes
  <1>5. ticks0' \in [Slot -> Nat]
    BY <1>1, <1>2 DEF Look, SchedInv, TypeOK, Executes
  <1>6. Moved(x, to)
    BY <1>1, <1>3, ToMoves DEF Goto, Label, InProcess, Executes
  <1>7. TypeOK'
    <2>1. tickslock \in Lock
      BY DEF Lock
    <2> QED  BY <1>1, <1>4, <1>5, <1>6, <2>1 DEF SchedInv, TypeOK, Moved, Swap
  <1>8. ProcFrame(x)
    BY <1>4 DEF ProcFrame, SchedInv, TypeOK
  <1>9. ProcOK(x)' /\ WakeOK(x)'
    <2>1. seen'[x] = ticks' /\ state'[x] = "RUNNING" /\ Top(x)' = to
      BY <1>1, <1>4, <1>6 DEF SchedInv, TypeOK, ProcOK, Moved
    <2>2. Running(x)'
      BY <1>1, <1>4 DEF Running
    <2> QED  BY <2>1, <2>2 DEF ProcOK, WakeOK, Drowsy
  <1>10. Swaps(x, Top(x), to, tickslock) /\ tickslock \in Lock
    BY <1>1 DEF Swaps, Lock
  <1> QED  BY <1>1, <1>4, <1>6, <1>7, <1>8, <1>9, <1>10, SwapStep DEF Executes

\* sleep() takes p->lock before it lets tickslock go.
LEMMA SleepLockStep ==
  ASSUME SchedInv, NEW c \in Cpu, SleepLock(c)
  PROVE  SchedInv'
  <1> USE DEF RunsAt
  <1>1. PICK x \in Slot : RunsAt(c, x, "sleep_swap")
    BY InAProcess DEF SleepLock, InProcess
  <1>2. /\ Swap(c, x)
        /\ UNCHANGED <<state, chan, killed, cpus, cproc, noff, intena, sie, on, idx, mine, ticks,
                       ticks0, n, seen>>
    BY <1>1 DEF SleepLock, cpus, procs, sleeps, Executes
  <1>3. Moved(x, "sleep_release")
    BY <1>1, ToMoves DEF SleepLock, Goto, Label, InProcess, Executes
  <1>4. TypeOK'
    BY <1>1, <1>2, <1>3 DEF SchedInv, TypeOK, Moved, Swap
  <1>5. ProcFrame(x)
    BY <1>2 DEF ProcFrame
  <1>6. ProcOK(x)' /\ WakeOK(x)'
    BY <1>1, <1>2, <1>3 DEF ProcOK, WakeOK, Drowsy, Running, Moved
  <1>7. Swaps(x, Top(x), "sleep_release", x)
    BY <1>1 DEF Swaps
  <1> QED  BY <1>1, <1>2, <1>3, <1>4, <1>5, <1>6, <1>7, SwapStep DEF Executes

\* wakeup() takes the lock of the process it is going to look at.
LEMMA WakeupProcStep ==
  ASSUME SchedInv, NEW c \in Cpu, WakeupProc(c)
  PROVE  SchedInv'
  <1>1. PICK x \in Context : Executes(c, x)
    BY Executing
  <1>2. /\ Top(x) = "wakeup_swap" /\ Swap(c, idx[x])
        /\ UNCHANGED <<state, chan, killed, cpus, cproc, noff, intena, sie, on, idx, mine, ticks,
                       ticks0, n, seen>>
    BY <1>1 DEF WakeupProc, cpus, procs, sleeps, Executes, At, Top
  <1>3. Moved(x, "wakeup_test")
    BY <1>1, ToMoves DEF WakeupProc, Goto, Label, InClock, Executes
  <1>4. idx[x] \in Lock
    BY DEF SchedInv, TypeOK, Lock
  <1>5. TypeOK'
    BY <1>2, <1>3, <1>4 DEF SchedInv, TypeOK, Moved, Swap
  <1>6. ProcFrame(x)
    BY <1>2 DEF ProcFrame
  <1>7. x \in Slot => ProcOK(x)'
    BY <1>1, <1>2, <1>3 DEF ProcOK, Running, Moved, Executes
  <1>8. x \in Slot => ~Drowsy(x)' /\ WakeOK(x)'
    BY <1>1, <1>2, <1>3 DEF WakeOK, ProcOK, Running, Drowsy, Moved, Executes
  <1>9. Swaps(x, Top(x), "wakeup_test", idx[x])
    BY <1>2 DEF Swaps
  <1> QED  BY <1>1, <1>2, <1>3, <1>4, <1>5, <1>6, <1>7, <1>8, <1>9, SwapStep DEF Executes

-----------------------------------------------------------------------------
(* The processes: release *)

\* pop_off() turns interrupts on only at noff 1, and only when they were on before.
LEMMA PopOffEffect ==
  ASSUME SchedInv, NEW c \in Cpu, NEW ena \in BOOLEAN, PopOff(c, ena), noff[c] \in {1, 2}
  PROVE  /\ noff'[c] = noff[c] - 1 /\ noff' \in [Cpu -> Nat] /\ sie' \in [Cpu -> BOOLEAN]
         /\ sie'[c] <=> sie[c] \/ (noff[c] = 1 /\ ena)
         /\ \A d \in Cpu \ {c} : noff'[d] = noff[d] /\ sie'[d] = sie[d]
  <1>1. /\ noff'[c] = noff[c] - 1 /\ noff' \in [Cpu -> Nat]
        /\ \A d \in Cpu \ {c} : noff'[d] = noff[d]
    BY SMTT(30) DEF PopOff, SchedInv, TypeOK
  <1>2. PICK b \in BOOLEAN : b <=> noff[c] = 1 /\ ena
    OBVIOUS
  <1>3. sie' = [sie EXCEPT ![c] = IF b THEN TRUE ELSE sie[c]]
    BY <1>2 DEF PopOff
  <1>4. /\ sie' \in [Cpu -> BOOLEAN]
        /\ sie'[c] <=> sie[c] \/ b
        /\ \A d \in Cpu \ {c} : sie'[d] = sie[d]
    BY <1>3 DEF SchedInv, TypeOK
  <1> QED  BY <1>1, <1>2, <1>4

\* pop_off() of the inner of two locks leaves interrupts off.
LEMMA PopOffInner ==
  ASSUME SchedInv, NEW c \in Cpu, PopOff(c, intena[c]), noff[c] = 2, ~sie[c]
  PROVE  /\ noff'[c] = noff[c] - 1 /\ noff' \in [Cpu -> Nat] /\ sie' \in [Cpu -> BOOLEAN]
         /\ ~sie'[c] /\ \A d \in Cpu \ {c} : noff'[d] = noff[d] /\ sie'[d] = sie[d]
  <1>1. PICK ena \in BOOLEAN : ena = intena[c]
    BY DEF SchedInv, TypeOK
  <1>2. PopOff(c, ena)
    BY <1>1
  <1>3. /\ noff'[c] = noff[c] - 1 /\ noff' \in [Cpu -> Nat] /\ sie' \in [Cpu -> BOOLEAN]
        /\ sie'[c] <=> sie[c] \/ (noff[c] = 1 /\ ena)
        /\ \A d \in Cpu \ {c} : noff'[d] = noff[d] /\ sie'[d] = sie[d]
    BY <1>2, PopOffEffect
  <1>4. noff[c] # 1
    BY SMTT(30)
  <1> QED  BY <1>3, <1>4

\* A released lock is owned by nobody.
LEMMA UnlockType ==
  ASSUME SchedInv, NEW k \in Lock, Unlock(k)
  PROVE  owner' \in [Lock -> Cpu \cup {None}]
  BY DEF SchedInv, TypeOK, Unlock

\* yield() comes back from sched() and releases p->lock, perhaps on another CPU.
LEMMA YieldBackStep ==
  ASSUME SchedInv, NEW c \in Cpu, YieldBack(c)
  PROVE  SchedInv'
  <1> USE DEF RunsAt
  <1>1. PICK x \in Slot : RunsAt(c, x, "yield_back")
    BY InAProcess DEF YieldBack, InYield
  <1>2. /\ Unlock(x) /\ PopOff(c, intena'[c]) /\ intena' = [intena EXCEPT ![c] = mine[x]]
        /\ UNCHANGED <<state, chan, killed, cproc, on, idx, mine, ticks, ticks0, n, seen>>
    BY <1>1 DEF YieldBack, Restore, procs, sleeps, Executes
  <1>3. Moved(x, "sret")
    BY <1>1, ToMoves DEF YieldBack, Goto, Label, InClock, Executes
  <1>4. /\ intena' \in [Cpu -> BOOLEAN] /\ intena'[c] \in BOOLEAN /\ ~intena'[c]
        /\ \A d \in Cpu \ {c} : intena'[d] = intena[d]
    BY <1>1, <1>2 DEF SchedInv, TypeOK, ProcOK
  <1>5. noff[c] = 1 /\ ~sie[c]
    BY <1>1 DEF Executes, Nesting, Flags, Flat, Deep, Open
  <1>6. /\ noff'[c] = noff[c] - 1 /\ noff' \in [Cpu -> Nat] /\ sie' \in [Cpu -> BOOLEAN]
        /\ ~sie'[c] /\ \A d \in Cpu \ {c} : noff'[d] = noff[d] /\ sie'[d] = sie[d]
    BY <1>2, <1>4, <1>5, PopOffEffect
  <1>7. TypeOK'
    BY <1>1, <1>2, <1>3, <1>4, <1>6, UnlockType DEF SchedInv, TypeOK, Moved
  <1>8. CpuFrame(c)
    BY <1>1, <1>2, <1>3, <1>4, <1>6 DEF CpuFrame, Moved, Executes
  <1>9. Flags(c)'
    BY <1>1, <1>2, <1>3, <1>6 DEF Flags, Moved, Open, Remembered, Masked, Executes
  <1>10. ProcFrame(x)
    BY <1>2 DEF ProcFrame
  <1>11. ProcOK(x)' /\ WakeOK(x)'
    BY <1>1, <1>2, <1>3 DEF ProcOK, WakeOK, Drowsy, Running, Moved
  <1>12. Releases(x, Top(x), "sret", x)
    BY <1>1 DEF Releases
  <1> QED  BY <1>1, <1>2, <1>3, <1>6, <1>7, <1>8, <1>9, <1>10, <1>11, <1>12, ReleaseStep
              DEF Executes

\* forkret() releases the p->lock that scheduler() took for a process that never ran.
LEMMA ForkretStep ==
  ASSUME SchedInv, NEW c \in Cpu, Forkret(c)
  PROVE  SchedInv'
  <1> USE DEF RunsAt
  <1>1. PICK x \in Slot : RunsAt(c, x, "forkret")
    BY InAProcess DEF Forkret, InProcess
  <1>2. /\ Unlock(x) /\ noff' = [noff EXCEPT ![c] = noff[c] - 1]
        /\ sie' = [sie EXCEPT ![c] = TRUE]
        /\ UNCHANGED <<state, chan, killed, cproc, intena, on, idx, mine, ticks, ticks0, n, seen>>
    BY <1>1 DEF Forkret, procs, sleeps, Executes
  <1>3. Moved(x, "user")
    BY <1>1, ToMoves DEF Forkret, Goto, Label, InProcess, Executes
  <1>4. /\ noff[c] = 1 /\ Len(stack[x]) = 1
    BY <1>1, WhereLabels DEF Executes, Nesting, Flat, Deep, InProcess
  <1>5. /\ sie' \in [Cpu -> BOOLEAN] /\ sie'[c]
        /\ \A d \in Cpu \ {c} : sie'[d] = sie[d]
    BY <1>2 DEF SchedInv, TypeOK
  <1>6. /\ noff'[c] = noff[c] - 1 /\ noff' \in [Cpu -> Nat]
        /\ \A d \in Cpu \ {c} : noff'[d] = noff[d]
    BY <1>2, <1>4, SMTT(30) DEF SchedInv, TypeOK
  <1>7. TypeOK'
    BY <1>1, <1>2, <1>3, <1>5, <1>6, UnlockType DEF SchedInv, TypeOK, Moved
  <1>8. CpuFrame(c)
    BY <1>1, <1>2, <1>3, <1>5, <1>6 DEF CpuFrame, Moved, Executes
  <1>9. Flags(c)'
    BY <1>1, <1>2, <1>3, <1>4, <1>5 DEF Flags, Moved, Open, Remembered, Masked, Executes
  <1>10. ProcFrame(x)
    BY <1>2 DEF ProcFrame
  <1>11. ProcOK(x)' /\ WakeOK(x)'
    BY <1>1, <1>2, <1>3 DEF ProcOK, WakeOK, Drowsy, Running, Moved
  <1>12. Releases(x, Top(x), "user", x)
    BY <1>1 DEF Releases
  <1> QED  BY <1>1, <1>2, <1>3, <1>6, <1>7, <1>8, <1>9, <1>10, <1>11, <1>12, ReleaseStep
              DEF Executes

\* sys_sleep() releases tickslock and returns.
LEMMA SysSleepReturnStep ==
  ASSUME SchedInv, NEW c \in Cpu, SysSleepReturn(c)
  PROVE  SchedInv'
  <1> USE DEF RunsAt
  <1>1. PICK x \in Slot : RunsAt(c, x, "return")
    BY InAProcess DEF SysSleepReturn, InProcess
  <1>2. /\ Unlock(tickslock) /\ PopOff(c, intena[c]) /\ n' = [n EXCEPT ![x] = 0]
        /\ ticks0' = [ticks0 EXCEPT ![x] = 0] /\ seen' = [seen EXCEPT ![x] = 0]
        /\ UNCHANGED <<state, chan, killed, cproc, intena, on, idx, mine, ticks>>
    BY <1>1 DEF SysSleepReturn, Release, procs, Executes
  <1>3. Moved(x, "user")
    BY <1>1, ToMoves DEF SysSleepReturn, Goto, Label, InProcess, Executes
  <1>4. noff[c] = 1 /\ Len(stack[x]) = 1
    BY <1>1, WhereLabels DEF Executes, Nesting, Flat, Deep, InProcess
  <1>5. intena[c] /\ intena[c] \in BOOLEAN
    BY <1>1 DEF Executes, Flags, Remembered, SchedInv, TypeOK
  <1>6. /\ noff'[c] = noff[c] - 1 /\ noff' \in [Cpu -> Nat] /\ sie' \in [Cpu -> BOOLEAN]
        /\ sie'[c] /\ \A d \in Cpu \ {c} : noff'[d] = noff[d] /\ sie'[d] = sie[d]
    BY <1>2, <1>4, <1>5, PopOffEffect
  <1>7. TypeOK'
    BY <1>1, <1>2, <1>3, <1>6, UnlockType DEF SchedInv, TypeOK, Moved, Lock
  <1>8. CpuFrame(c)
    BY <1>1, <1>2, <1>3, <1>6 DEF CpuFrame, Moved, Executes
  <1>9. Flags(c)'
    BY <1>1, <1>2, <1>3, <1>4, <1>6 DEF Flags, Moved, Open, Remembered, Masked, Executes
  <1>10. ProcFrame(x)
    BY <1>2 DEF ProcFrame, SchedInv, TypeOK
  <1>11. ProcOK(x)' /\ WakeOK(x)'
    BY <1>1, <1>2, <1>3 DEF ProcOK, WakeOK, Drowsy, Running, Moved
  <1>12. Releases(x, Top(x), "user", tickslock) /\ tickslock \in Lock
    BY <1>1 DEF Releases, Lock
  <1> QED  BY <1>1, <1>2, <1>3, <1>6, <1>7, <1>8, <1>9, <1>10, <1>11, <1>12, ReleaseStep
              DEF Executes

\* sleep() releases tickslock once it holds p->lock.
LEMMA SleepReleaseStep ==
  ASSUME SchedInv, NEW c \in Cpu, SleepRelease(c)
  PROVE  SchedInv'
  <1> USE DEF RunsAt
  <1>1. PICK x \in Slot : RunsAt(c, x, "sleep_release")
    BY InAProcess DEF SleepRelease, InProcess
  <1>2. /\ Unlock(tickslock) /\ PopOff(c, intena[c])
        /\ UNCHANGED <<state, chan, killed, cproc, intena, on, idx, mine, ticks, ticks0, n, seen>>
    BY <1>1 DEF SleepRelease, Release, procs, sleeps, Executes
  <1>3. Moved(x, "sleep_set")
    BY <1>1, ToMoves DEF SleepRelease, Goto, Label, InProcess, Executes
  <1>4. noff[c] = 2 /\ ~sie[c]
    BY <1>1 DEF Executes, Nesting, Flags, Flat, Deep, Open
  <1>5. intena[c]
    BY <1>1 DEF Executes, Flags, Remembered
  <1>6. /\ noff'[c] = noff[c] - 1 /\ noff' \in [Cpu -> Nat] /\ sie' \in [Cpu -> BOOLEAN]
        /\ ~sie'[c] /\ \A d \in Cpu \ {c} : noff'[d] = noff[d] /\ sie'[d] = sie[d]
    BY <1>2, <1>4, PopOffInner
  <1>7. TypeOK'
    BY <1>1, <1>2, <1>3, <1>6, UnlockType DEF SchedInv, TypeOK, Moved, Lock
  <1>8. CpuFrame(c)
    BY <1>1, <1>2, <1>3, <1>6 DEF CpuFrame, Moved, Executes
  <1>9. Flags(c)'
    BY <1>1, <1>2, <1>3, <1>5, <1>6 DEF Flags, Moved, Open, Remembered, Masked, Executes
  <1>10. ProcFrame(x)
    BY <1>2 DEF ProcFrame
  <1>11. ProcOK(x)' /\ WakeOK(x)'
    BY <1>1, <1>2, <1>3 DEF ProcOK, WakeOK, Drowsy, Running, Moved
  <1>12. Releases(x, Top(x), "sleep_set", tickslock) /\ tickslock \in Lock
    BY <1>1 DEF Releases, Lock
  <1> QED  BY <1>1, <1>2, <1>3, <1>6, <1>7, <1>8, <1>9, <1>10, <1>11, <1>12, ReleaseStep
              DEF Executes

\* sleep() comes back from sched(), clears p->chan and releases p->lock.
LEMMA SleepBackStep ==
  ASSUME SchedInv, NEW c \in Cpu, SleepBack(c)
  PROVE  SchedInv'
  <1> USE DEF RunsAt
  <1>1. PICK x \in Slot : RunsAt(c, x, "sleep_back")
    BY InAProcess DEF SleepBack, InProcess
  <1>2. /\ Unlock(x) /\ PopOff(c, intena'[c]) /\ intena' = [intena EXCEPT ![c] = mine[x]]
        /\ chan' = [chan EXCEPT ![x] = None]
        /\ UNCHANGED <<state, killed, cproc, on, idx, mine, ticks, ticks0, n, seen>>
    BY <1>1 DEF SleepBack, Restore, sleeps, Executes
  <1>3. Moved(x, "sleep_again")
    BY <1>1, ToMoves DEF SleepBack, Goto, Label, InProcess, Executes
  <1>4. /\ intena' \in [Cpu -> BOOLEAN] /\ intena'[c] \in BOOLEAN /\ intena'[c]
        /\ \A d \in Cpu \ {c} : intena'[d] = intena[d]
    BY <1>1, <1>2 DEF SchedInv, TypeOK, ProcOK
  <1>5. noff[c] = 1 /\ Len(stack[x]) = 1
    BY <1>1, WhereLabels DEF Executes, Nesting, Flat, Deep, InProcess
  <1>6. /\ noff'[c] = noff[c] - 1 /\ noff' \in [Cpu -> Nat] /\ sie' \in [Cpu -> BOOLEAN]
        /\ sie'[c] /\ \A d \in Cpu \ {c} : noff'[d] = noff[d] /\ sie'[d] = sie[d]
    BY <1>2, <1>4, <1>5, PopOffEffect
  <1>7. TypeOK'
    BY <1>1, <1>2, <1>3, <1>4, <1>6, UnlockType DEF SchedInv, TypeOK, Moved
  <1>8. CpuFrame(c)
    BY <1>1, <1>2, <1>3, <1>4, <1>6 DEF CpuFrame, Moved, Executes
  <1>9. Flags(c)'
    BY <1>1, <1>2, <1>3, <1>4, <1>5, <1>6 DEF Flags, Moved, Open, Remembered, Masked,
       Executes
  <1>10. ProcFrame(x)
    BY <1>2 DEF ProcFrame, SchedInv, TypeOK
  <1>11. ProcOK(x)' /\ WakeOK(x)'
    BY <1>1, <1>2, <1>3 DEF ProcOK, WakeOK, Drowsy, Running, Moved
  <1>12. Releases(x, Top(x), "sleep_again", x)
    BY <1>1 DEF Releases
  <1> QED  BY <1>1, <1>2, <1>3, <1>6, <1>7, <1>8, <1>9, <1>10, <1>11, <1>12, ReleaseStep
              DEF Executes

\* clockintr() releases tickslock after wakeup().
LEMMA ClockReleaseStep ==
  ASSUME SchedInv, NEW c \in Cpu, ClockRelease(c)
  PROVE  SchedInv'
  <1>1. PICK x \in Context : Executes(c, x)
    BY Executing
  <1>2. /\ Top(x) = "clock_release" /\ Unlock(tickslock) /\ PopOff(c, intena[c])
        /\ UNCHANGED <<state, chan, killed, cproc, intena, on, idx, mine, ticks, ticks0, n, seen>>
    BY <1>1 DEF ClockRelease, Release, procs, sleeps, Executes, At, Top
  <1>3. Moved(x, "resched")
    BY <1>1, ToMoves DEF ClockRelease, Goto, Label, InClock, Executes
  <1>4. noff[c] = 1 /\ ~sie[c]
    BY <1>1, <1>2 DEF Executes, Nesting, Flags, Flat, Deep, Open
  <1>5. ~intena[c] /\ intena[c] \in BOOLEAN
    BY <1>1, <1>2 DEF Executes, Flags, Masked, SchedInv, TypeOK
  <1>6. /\ noff'[c] = noff[c] - 1 /\ noff' \in [Cpu -> Nat] /\ sie' \in [Cpu -> BOOLEAN]
        /\ ~sie'[c] /\ \A d \in Cpu \ {c} : noff'[d] = noff[d] /\ sie'[d] = sie[d]
    BY <1>2, <1>4, <1>5, PopOffEffect
  <1>7. TypeOK'
    BY <1>1, <1>2, <1>3, <1>6, UnlockType DEF SchedInv, TypeOK, Moved, Lock
  <1>8. CpuFrame(c)
    BY <1>1, <1>2, <1>3, <1>6 DEF CpuFrame, Moved, Executes
  <1>9. Flags(c)'
    BY <1>1, <1>2, <1>3, <1>6 DEF Flags, Moved, Open, Remembered, Masked, Executes
  <1>10. ProcFrame(x)
    BY <1>2 DEF ProcFrame
  <1>11. x \in Slot => ProcOK(x)'
    BY <1>1, <1>2, <1>3 DEF ProcOK, Running, Moved, Executes
  <1>12. x \in Slot => ~Drowsy(x)' /\ WakeOK(x)'
    BY <1>1, <1>2, <1>3 DEF WakeOK, ProcOK, Running, Drowsy, Moved, Executes
  <1>13. Releases(x, Top(x), "resched", tickslock) /\ tickslock \in Lock
    BY <1>2 DEF Releases, Lock
  <1> QED  BY <1>1, <1>2, <1>3, <1>6, <1>7, <1>8, <1>9, <1>10, <1>11, <1>12, <1>13,
              ReleaseStep DEF Executes

-----------------------------------------------------------------------------
(* The steps of processes and handlers that touch no lock *)

\* A process enters sys_sleep() with the number of ticks it asks for.
LEMMA SysSleepStep ==
  ASSUME SchedInv, NEW c \in Cpu, SysSleep(c)
  PROVE  SchedInv'
  <1> USE DEF RunsAt
  <1>1. PICK x \in Slot : RunsAt(c, x, "user")
    BY InAProcess DEF SysSleep, InProcess
  <1>2. UNCHANGED <<state, chan, killed, owner, cproc, noff, intena, sie, on, idx, mine, ticks,
                    ticks0, seen>>
    BY DEF SysSleep, procs, cpus
  <1>3. Moved(x, "sys_sleep")
    BY <1>1, ToMoves DEF SysSleep, Goto, Label, InProcess, Executes
  <1>4. TypeOK'
    <2>1. n' \in [Slot -> Nat]
      <3>1. PICK m \in 0..MAXN : n' = [n EXCEPT ![on[c]] = m]
        BY DEF SysSleep
      <3>2. m \in Nat /\ n \in [Slot -> Nat]
        BY <3>1, Typed, SchedAssumption, SMTT(30) DEF SchedAssumption
      <3> QED  BY <3>1, <3>2
    <2> QED  BY <1>2, <1>3, <2>1 DEF SchedInv, TypeOK, Moved
  <1>5. CpuFrame(c)
    BY <1>1, <1>2, <1>3 DEF CpuFrame, Moved, Executes
  <1>6. StackOK(x)'
    BY <1>1, <1>3, WhereLabels DEF StackOK, Moved, InProcess, Executes
  <1>7. Flags(c)'
    BY <1>1, <1>2, <1>3 DEF Flags, Moved, Open, Remembered, Masked, Executes
  <1>8. Placed(c)'
    BY <1>1, <1>2, <1>3 DEF Placed, Moved, Top, Executes, Context
  <1>9. ProcOK(x)' /\ WakeOK(x)'
    BY <1>1, <1>2, <1>3 DEF ProcOK, WakeOK, Drowsy, Running, Moved
  <1> QED  BY <1>1, <1>2, <1>3, <1>4, <1>5, <1>6, <1>7, <1>8, <1>9, KeepStep DEF Keeps,
              Moved, ProcFrame, Executes

\* sleep() sets chan and state under p->lock, before it calls sched().
LEMMA SleepSetStep ==
  ASSUME SchedInv, NEW c \in Cpu, SleepSet(c)
  PROVE  SchedInv'
  <1> USE DEF RunsAt
  <1>1. PICK x \in Slot : RunsAt(c, x, "sleep_set")
    BY InAProcess DEF SleepSet, InProcess
  <1>2. /\ chan' = [chan EXCEPT ![x] = "ticks"] /\ state' = [state EXCEPT ![x] = "SLEEPING"]
        /\ UNCHANGED <<killed, owner, cproc, noff, intena, sie, on, idx, mine, ticks, ticks0, n,
                       seen>>
    BY <1>1 DEF SleepSet, cpus, sleeps, Executes
  <1>3. Moved(x, "sleep_sched")
    BY <1>1, ToMoves DEF SleepSet, Goto, Label, InProcess, Executes
  <1>4. TypeOK'
    BY <1>2, <1>3 DEF SchedInv, TypeOK, Moved
  <1>5. CpuFrame(c)
    BY <1>1, <1>2, <1>3 DEF CpuFrame, Moved, Executes
  <1>6. StackOK(x)'
    BY <1>1, <1>3, WhereLabels DEF StackOK, Moved, InProcess, Executes
  <1>7. Flags(c)'
    BY <1>1, <1>2, <1>3 DEF Flags, Moved, Open, Remembered, Masked, Executes
  <1>8. Placed(c)'
    BY <1>1, <1>2, <1>3 DEF Placed, Moved, Top, Executes, Context
  <1>9. ProcFrame(x)
    BY <1>2 DEF ProcFrame, SchedInv, TypeOK
  <1>10. ProcOK(x)'
    BY <1>1, <1>2, <1>3 DEF ProcOK, Running, Moved, SchedInv, TypeOK
  <1>11. WakeOK(x)'
    <2>1. ASSUME Coming(x) PROVE Coming(x)'
      <3>1. PICK d \in Cpu : Top(on[d]) \in InWakeup /\ idx[on[d]] <= x
        BY <2>1 DEF Coming
      <3>2. d # c
        BY <1>1, <3>1 DEF InWakeup, Executes
      <3>3. on[d] \in Context \ {x}
        BY <1>1, <3>2, OnWhat DEF Executes
      <3> QED  BY <1>2, <1>3, <3>1, <3>3 DEF Coming, Moved, Top
    <2>2. seen[x] = ticks \/ Coming(x)
      BY <1>1 DEF WakeOK, Drowsy
    <2> QED  BY <1>2, <1>3, <2>1, <2>2 DEF WakeOK, Moved
  <1> QED  BY <1>1, <1>2, <1>3, <1>4, <1>5, <1>6, <1>7, <1>8, <1>9, <1>10, <1>11, KeepStep
              DEF Keeps, Moved, Executes

\* The handler's test of myproc()->state: only a process is made to yield.
LEMMA ReschedStep ==
  ASSUME SchedInv, NEW c \in Cpu, Resched(c)
  PROVE  SchedInv'
  <1>1. PICK x \in Context : Executes(c, x)
    BY Executing
  <1>2. /\ Top(x) = "resched"
        /\ UNCHANGED <<state, chan, killed, owner, cproc, noff, intena, sie, on, idx, mine, ticks,
                       ticks0, n, seen>>
    BY <1>1 DEF Resched, procs, cpus, sleeps, Executes, At, Top
  <1>3. Len(stack[x]) = 2
    BY <1>1, <1>2, WhereLabels DEF Executes, InClock
  <1>4. PICK to \in {"yield", "sret"} : Goto(c, to) /\ (to = "yield" => x \in Slot)
    <2>1. CASE x \in Slot
      BY <2>1 DEF Resched
    <2>2. CASE x \notin Slot
      <3>1. x = c /\ cproc[c] = None
        <4>1. x = c
          BY <1>1, <2>2 DEF Executes
        <4>2. x \in Cpu
          BY <4>1
        <4>3. Top(c) # "back"
          BY <1>2, <4>1
        <4> QED  BY <1>1, <2>2, <4>1, <4>3 DEF Executes, Placed
      <3>2. None \notin Slot
        BY SchedAssumption DEF SchedAssumption, Context
      <3> QED  BY <3>1, <3>2 DEF Resched
    <2> QED  BY <2>1, <2>2
  <1>5. Moved(x, to)
    BY <1>1, <1>4, ToMoves DEF Goto, Label, InClock, InYield, Executes
  <1>6. TypeOK'
    BY <1>2, <1>5 DEF SchedInv, TypeOK, Moved
  <1>7. CpuFrame(c)
    BY <1>1, <1>2, <1>5 DEF CpuFrame, Moved, Executes
  <1>8. StackOK(x)'
    <2>1. x \in Slot => x \notin Cpu
      BY SchedAssumption DEF SchedAssumption
    <2>2. stack[x][2] \in IF x \in Cpu THEN {"intr_off"} ELSE Open \ {"intr_off"}
      BY <1>1, <1>3, SMTT(30) DEF StackOK, Executes
    <2>3. Len(stack'[x]) = 2 /\ stack'[x][2] = stack[x][2] /\ Top(x)' = to
      BY <1>3, <1>5 DEF Moved
    <2>4. to \in IF x \in Cpu THEN InClock ELSE InClock \cup InYield
      BY <1>4, <2>1 DEF InClock, InYield
    <2> QED  BY <2>2, <2>3, <2>4 DEF StackOK
  <1>9. Flags(c)'
    BY <1>1, <1>2, <1>3, <1>5 DEF Flags, Moved, Open, Remembered, Masked, Executes
  <1>10. Placed(c)'
    BY <1>1, <1>2, <1>5 DEF Placed, Moved, Top, Executes, Context
  <1>11. x \in Slot => ProcOK(x)' /\ WakeOK(x)'
    BY <1>1, <1>2, <1>5 DEF ProcOK, WakeOK, Drowsy, Running, Moved, Executes
  <1> QED  BY <1>1, <1>2, <1>5, <1>6, <1>7, <1>8, <1>9, <1>10, <1>11, KeepStep DEF Keeps,
              Moved, ProcFrame, Executes
=============================================================================

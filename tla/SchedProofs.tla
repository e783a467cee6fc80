----------------------------- MODULE SchedProofs -----------------------------
(***************************************************************************)
(* The steps that change the context a CPU executes, the clock's handler   *)
(* and wakeup(), and from them the theorems: no process runs on two CPUs,  *)
(* the state of interrupts follows the thread, and no tick is missed.      *)
(***************************************************************************)
EXTENDS SchedSteps

\* A leaf that names no prover is for Zenon, within half a minute.
USE ZenonT(30)

\* The stack of a process that kerneltrap() interrupts: one frame more, the old one below.
LEMMA Pushed ==
  ASSUME NEW S, NEW s \in Seq(S), Len(s) = 1, NEW l \in S
  PROVE  LET t == <<l>> \o s
         IN t \in Seq(S) /\ Len(t) = 2 /\ Head(t) = l /\ t[2] = Head(s)
  <1>1. <<l>> \in Seq(S) /\ Len(<<l>>) = 1 /\ <<l>>[1] = l
    BY SMTT(30)
  <1>2. /\ <<l>> \o s \in Seq(S) /\ Len(<<l>> \o s) = 2
        /\ (<<l>> \o s)[1] = l /\ (<<l>> \o s)[2] = s[1]
    <2>1. /\ <<l>> \o s \in Seq(S) /\ Len(<<l>> \o s) = Len(<<l>>) + Len(s)
          /\ \A i \in 1..(Len(<<l>>) + Len(s)) :
               (<<l>> \o s)[i] = IF i <= Len(<<l>>) THEN <<l>>[i] ELSE s[i - Len(<<l>>)]
      BY <1>1, ConcatProperties
    <2>2. (<<l>> \o s)[1] = <<l>>[1] /\ (<<l>> \o s)[2] = s[2 - 1]
      BY <1>1, <2>1, SMTT(30)
    <2> QED  BY <1>1, <2>1, <2>2, SMTT(30)
  <1> QED  BY <1>2, SMTT(30)

\* The stack after sret: the frame that was interrupted is on top again.
LEMMA Popped ==
  ASSUME NEW S, NEW s \in Seq(S), Len(s) = 2
  PROVE  Tail(s) \in Seq(S) /\ Len(Tail(s)) = 1 /\ Head(Tail(s)) = s[2]
  <1>1. s # <<>>
    BY EmptySeq, SMTT(30)
  <1>2. /\ Tail(s) \in Seq(S) /\ Len(Tail(s)) = 1
        /\ \A i \in 1..Len(Tail(s)) : Tail(s)[i] = s[i + 1]
    BY <1>1, HeadTailProperties, SMTT(30)
  <1> QED  BY <1>2, SMTT(30)

\* A timer interrupt, which only a CPU with interrupts on takes.
LEMMA InterruptStep ==
  ASSUME SchedInv, NEW c \in Cpu, Interrupt(c)
  PROVE  SchedInv'
  <1>1. PICK x \in Context : Executes(c, x)
    BY Executing
  <1>2. /\ sie' = [sie EXCEPT ![c] = FALSE]
        /\ UNCHANGED <<state, chan, killed, owner, cproc, noff, intena, on, idx, mine, ticks,
                       ticks0, n, seen>>
    BY DEF Interrupt, procs, sleeps
  <1>3. Len(stack[x]) = 1 /\ Top(x) \in Open
    BY <1>1 DEF Interrupt, Flags, Executes
  <1>4. PICK to \in {"clock", "resched"} : stack' = [stack EXCEPT ![x] = <<to>> \o stack[x]]
    BY <1>1 DEF Interrupt, Executes
  <1>5. /\ stack'[x] \in Seq(Label) /\ Len(stack'[x]) = 2
        /\ Head(stack'[x]) = to /\ stack'[x][2] = Head(stack[x])
    <2>1. stack[x] \in Seq(Label) /\ to \in Label /\ stack'[x] = <<to>> \o stack[x]
      BY <1>4 DEF SchedInv, TypeOK, Label, InClock
    <2> QED  BY <1>3, <2>1, Pushed, SMTT(30)
  <1>6. /\ stack' \in [Context -> Seq(Label)]
        /\ \A y \in Context \ {x} : stack'[y] = stack[y]
    BY <1>4, <1>5 DEF SchedInv, TypeOK
  <1>7. Top(x)' = to
    BY <1>5 DEF Top
  <1>8. TypeOK'
    <2>1. sie' \in [Cpu -> BOOLEAN]
      BY <1>2 DEF SchedInv, TypeOK
    <2> QED  BY <1>2, <1>6, <2>1 DEF SchedInv, TypeOK
  <1>9. CpuFrame(c)
    BY <1>1, <1>2, <1>6 DEF CpuFrame, Executes, SchedInv, TypeOK
  <1>10. StackOK(x)'
    <2>1. stack'[x][2] \in IF x \in Cpu THEN {"intr_off"} ELSE Open \ {"intr_off"}
      <3>1. Top(x) \in IF x \in Cpu THEN InScheduler ELSE InProcess
        BY <1>1, <1>3, SMTT(30) DEF StackOK, Executes
      <3>2. Top(x) \in IF x \in Cpu THEN {"intr_off"} ELSE Open \ {"intr_off"}
        BY <1>3, <3>1 DEF Open, InScheduler, InProcess
      <3> QED  BY <1>5, <3>2 DEF Top
    <2> QED  BY <1>5, <1>7, <2>1 DEF StackOK, InClock
  <1>11. Flags(c)'
    <2>1. ~sie'[c]
      BY <1>2 DEF SchedInv, TypeOK
    <2> QED  BY <1>1, <1>2, <1>7, <2>1 DEF Flags, Open, Remembered, Masked, Executes
  <1>12. Placed(c)'
    BY <1>1, <1>2, <1>3, <1>6, <1>7 DEF Placed, Top, Executes, Context, Open
  <1>13. x \in Slot => ProcOK(x)' /\ WakeOK(x)'
    BY <1>1, <1>2, <1>3, <1>7 DEF ProcOK, WakeOK, Drowsy, Running, Executes, Open
  <1>14. Keeps(Top(x), Top(x)')
    BY <1>3, <1>7 DEF Keeps
  <1> QED  BY <1>1, <1>2, <1>6, <1>8, <1>9, <1>10, <1>11, <1>12, <1>13, <1>14, KeepStep
              DEF ProcFrame, Executes

\* The return from the interrupt: the code below goes on, with interrupts on as before.
LEMMA SretStep ==
  ASSUME SchedInv, NEW c \in Cpu, Sret(c)
  PROVE  SchedInv'
  <1>1. PICK x \in Context : Executes(c, x)
    BY Executing
  <1>2. /\ Top(x) = "sret" /\ sie' = [sie EXCEPT ![c] = TRUE]
        /\ stack' = [stack EXCEPT ![x] = Tail(stack[x])]
        /\ UNCHANGED <<state, chan, killed, owner, cproc, noff, intena, on, idx, mine, ticks,
                       ticks0, n, seen>>
    BY <1>1 DEF Sret, procs, sleeps, Executes, At, Top
  <1>3. Len(stack[x]) = 2
    BY <1>1, <1>2, WhereLabels DEF Executes, InClock
  <1>4. stack'[x] \in Seq(Label) /\ Len(stack'[x]) = 1 /\ Head(stack'[x]) = stack[x][2]
    <2>1. stack[x] \in Seq(Label) /\ stack'[x] = Tail(stack[x])
      BY <1>2 DEF SchedInv, TypeOK
    <2> QED  BY <1>3, <2>1, Popped
  <1>5. /\ stack' \in [Context -> Seq(Label)]
        /\ \A y \in Context \ {x} : stack'[y] = stack[y]
    BY <1>2, <1>4 DEF SchedInv, TypeOK
  <1>6. Top(x)' \in IF x \in Cpu THEN {"intr_off"} ELSE Open \ {"intr_off"}
    BY <1>1, <1>3, <1>4, SMTT(30) DEF StackOK, Executes, Top
  <1>7. Top(x)' \in Open
    BY <1>6 DEF Open
  <1>8. TypeOK'
    <2>1. sie' \in [Cpu -> BOOLEAN]
      BY <1>2 DEF SchedInv, TypeOK
    <2> QED  BY <1>2, <1>5, <2>1 DEF SchedInv, TypeOK
  <1>9. CpuFrame(c)
    BY <1>1, <1>2, <1>5, SMTT(30) DEF CpuFrame, Executes, SchedInv, TypeOK
  <1>10. StackOK(x)'
    BY <1>4, <1>6 DEF StackOK, InScheduler, InProcess, Open
  <1>11. Flags(c)'
    <2>1. sie'[c]
      BY <1>2 DEF SchedInv, TypeOK
    <2>2. Top(x)' \notin Remembered /\ Top(x)' \notin Masked
      BY <1>7 DEF Open, Remembered, Masked
    <2> QED  BY <1>1, <1>2, <1>4, <1>7, <2>1, <2>2 DEF Flags, Executes
  <1>12. Placed(c)'
    BY <1>1, <1>2, <1>5, <1>7 DEF Placed, Top, Executes, Context, Open
  <1>13. x \in Slot => ProcOK(x)' /\ WakeOK(x)'
    BY <1>1, <1>2, <1>7 DEF ProcOK, WakeOK, Drowsy, Running, Executes, Open
  <1>14. Keeps(Top(x), Top(x)')
    BY <1>2, <1>7 DEF Keeps
  <1> QED  BY <1>1, <1>2, <1>5, <1>8, <1>9, <1>10, <1>11, <1>12, <1>13, <1>14, KeepStep
              DEF ProcFrame, Executes

-----------------------------------------------------------------------------
(* The switches between scheduler and process *)

\* scheduler() passes over a process that is not RUNNABLE.
LEMMA ScanElseStep ==
  ASSUME SchedInv, NEW c \in Cpu, Scan(c), state[idx[c]] # "RUNNABLE"
  PROVE  SchedInv'
  <1>1. PICK x \in Context : Executes(c, x)
    BY Executing
  <1>2. Top(x) = "scan_swap" /\ x = c
    <2>1. Top(x) = "scan_swap"
      BY <1>1 DEF Scan, Executes, At, Top
    <2>2. x \in Cpu
      BY <1>1, <2>1, WhereLabels DEF Executes, InScheduler
    <2> QED  BY <1>1, <2>1, <2>2, OnWhat DEF Executes
  <1>3. /\ Swap(c, idx[c]) /\ idx[c] \in Lock
        /\ UNCHANGED <<state, chan, killed, cpus, cproc, noff, intena, sie, on, idx, mine, ticks,
                       ticks0, n, seen>>
    BY DEF Scan, cpus, sleeps, SchedInv, TypeOK, Lock, Context
  <1>4. Moved(x, "next")
    BY <1>1, ToMoves DEF Scan, Goto, Label, InScheduler, Executes
  <1>5. TypeOK'
    BY <1>3, <1>4 DEF SchedInv, TypeOK, Moved, Swap
  <1>6. x \notin Slot
    BY <1>2, OnWhat
  <1>7. Swaps(x, Top(x), "next", idx[c]) /\ ProcFrame(x)
    BY <1>2, <1>3 DEF Swaps, ProcFrame
  <1> QED  BY <1>1, <1>3, <1>4, <1>5, <1>6, <1>7, SwapStep DEF Executes

\* swtch() between c's scheduler and a process that no other CPU executes: what it
\* leaves alone.
LEMMA SwitchStep ==
  ASSUME SchedInv, TypeOK', NEW c \in Cpu, NEW p \in Slot, on[c] \in {c, p}, on'[c] \in {c, p},
         \A d \in Cpu \ {c} : on[d] # p, CpuFrame(c), ProcFrame(p),
         \A l \in Lock : /\ owner'[l] = c <=> Holds(c, l)'
                        /\ \A d \in Cpu \ {c} : owner'[l] = d <=> owner[l] = d,
         Top(on[c]) \notin InWakeup, StackOK(c)', StackOK(p)', CpuOK(c)', ProcOK(p)', WakeOK(p)'
  PROVE  SchedInv'
  <1>1. OneEach'
    BY OnWhat, SMTT(30) DEF SchedInv, OneEach, CpuFrame
  <1>2. \A d \in Cpu \ {c} : CpuOK(d)' /\ \A l \in Lock : Holds(d, l)' <=> Holds(d, l)
    BY <1>1, OthersKept, SMTT(30)
  <1>3. \A y \in Context \ {c, p} : stack'[y] = stack[y] /\ idx'[y] = idx[y]
    BY DEF CpuFrame
  <1>4. ASSUME NEW y \in Context PROVE StackOK(y)'
    <2>1. CASE y \in {c, p}
      BY <2>1
    <2>2. CASE y \notin {c, p}
      BY <1>3, <2>2 DEF SchedInv, StackOK, Top
    <2> QED  BY <2>1, <2>2
  <1>5. Owners'
    BY <1>2, SMTT(30) DEF SchedInv, Owners
  <1>6. ASSUME NEW q \in Slot, q # p PROVE ProcOK(q)' /\ WakeOK(q)'
    <2>1. q \in Context \ {c, p}
      BY <1>6, OnWhat, SMTT(30) DEF Context
    <2>2. ProcOK(q) /\ WakeOK(q) /\ Top(q)' = Top(q)
      BY <1>3, <2>1 DEF SchedInv, Top
    <2>3. Running(q)' <=> Running(q)
      BY <2>1 DEF Running, CpuFrame
    <2>4. ASSUME Coming(q) PROVE Coming(q)'
      <3>1. PICK d \in Cpu : Top(on[d]) \in InWakeup /\ idx[on[d]] <= q
        BY <2>4 DEF Coming
      <3>2. d # c
        BY <3>1
      <3>3. on'[d] = on[d] /\ on[d] \in Context \ {c, p}
        BY <3>2, OnWhat DEF CpuFrame
      <3> QED  BY <1>3, <3>1, <3>3 DEF Coming, Top
    <2> QED  BY <1>6, <2>2, <2>3, <2>4 DEF ProcOK, WakeOK, Drowsy, ProcFrame
  <1> QED  BY <1>1, <1>2, <1>4, <1>5, <1>6 DEF SchedInv

\* A process whose lock is free, or held by a CPU that is elsewhere, is not in the
\* middle of sched().
LEMMA OwnLock ==
  ASSUME SchedInv, NEW p \in Slot, NEW d \in Cpu, on[d] = p, Top(p) \in HasOwn
  PROVE  owner[p] = d
  BY DEF SchedInv, Owners, Holds, Lock

\* scheduler() makes a RUNNABLE process RUNNING and swtch()es to it with p->lock held.
LEMMA ScanRunStep ==
  ASSUME SchedInv, NEW c \in Cpu, Scan(c), state[idx[c]] = "RUNNABLE"
  PROVE  SchedInv'
  <1>1. PICK x \in Context : Executes(c, x)
    BY Executing
  <1>2. Top(c) = "scan_swap" /\ on[c] = c /\ c \in Context
    <2>1. Top(x) = "scan_swap"
      BY <1>1 DEF Scan, Executes, At, Top
    <2>2. x \in Cpu
      BY <1>1, <2>1, WhereLabels DEF Executes, InScheduler
    <2> QED  BY <1>1, <2>1, <2>2, OnWhat DEF Executes
  <1>3. PICK p \in Slot : p = idx[c]
    BY <1>2 DEF SchedInv, TypeOK
  <1>4. /\ owner[p] = None /\ owner' = [owner EXCEPT ![p] = c]
        /\ state' = [state EXCEPT ![p] = "RUNNING"] /\ cproc' = [cproc EXCEPT ![c] = p]
        /\ on' = [on EXCEPT ![c] = p]
        /\ UNCHANGED <<chan, killed, noff, intena, sie, idx, mine, ticks, ticks0, n, seen>>
    BY <1>3 DEF Scan, Swap, sleeps
  <1>5. Moved(c, "back")
    BY <1>2, ToMoves DEF Scan, Goto, Label, InScheduler
  <1>6. TypeOK'
    BY <1>4, <1>5 DEF SchedInv, TypeOK, Moved, Lock, Context
  <1>7. ~Running(p)
    <2>1. SUFFICES ASSUME NEW d \in Cpu, on[d] = p PROVE FALSE
      BY DEF Running
    <2>2. Top(p) = "yield_sched"
      BY <1>3, <2>1 DEF SchedInv, ProcOK, Running
    <2>3. owner[p] = d
      BY <2>1, <2>2, OwnLock DEF HasOwn
    <2> QED  BY <1>4, <2>3, SchedAssumption DEF SchedAssumption, Context
  <1>8. /\ Top(p) \in {"forkret", "yield_back", "sleep_back"} /\ ProcOK(p) /\ StackOK(p)
        /\ p \in Context /\ p # c
    BY <1>7, OnWhat DEF SchedInv, ProcOK, Context
  <1>9. stack'[p] = stack[p] /\ Top(p)' = Top(p)
    BY <1>5, <1>8 DEF Moved, Top
  <1>10. on'[c] = p /\ cproc'[c] = p /\ state'[p] = "RUNNING"
    BY <1>4 DEF SchedInv, TypeOK
  <1>11. CpuFrame(c) /\ ProcFrame(p)
    <2>1. \A y \in Context \ {c, on[c], on'[c]} : stack'[y] = stack[y]
      BY <1>5 DEF Moved
    <2> QED  BY <1>2, <1>4, <1>10, <2>1 DEF CpuFrame, ProcFrame, SchedInv, TypeOK
  <1>12. StackOK(c)' /\ StackOK(p)'
    <2>1. Len(stack[c]) = 1
      BY <1>1, <1>2, WhereLabels DEF Executes, InScheduler
    <2> QED  BY <1>5, <1>8, <1>9, <2>1 DEF StackOK, Moved, InScheduler, Top
  <1>13. CpuOK(c)'
    <2>1. noff[c] = 1 /\ ~sie[c]
      BY <1>1, <1>2 DEF Executes, Nesting, Flags, Flat, Deep, Open
    <2>2. Nesting(c)'
      BY <1>4, <1>8, <1>9, <1>10, <2>1 DEF Nesting, Flat, Deep
    <2>3. Flags(c)'
      BY <1>4, <1>8, <1>9, <1>10, <2>1 DEF Flags, Open, Remembered, Masked
    <2>4. Placed(c)'
      BY <1>3, <1>4, <1>5, <1>10 DEF Placed, Moved
    <2> QED  BY <2>2, <2>3, <2>4 DEF CpuOK
  <1>14. ProcOK(p)' /\ WakeOK(p)'
    BY <1>4, <1>8, <1>9, <1>10 DEF ProcOK, WakeOK, Drowsy, Running
  <1>15. ASSUME NEW l \in Lock
         PROVE  /\ owner'[l] = c <=> Holds(c, l)'
                /\ \A d \in Cpu \ {c} : owner'[l] = d <=> owner[l] = d
    <2>1. owner[l] # c
      <3>1. ~Holds(c, l)
        BY <1>2, OnWhat DEF Holds, HasTicks, HasOwn
      <3> QED  BY <3>1 DEF SchedInv, Owners
    <2>2. \A d \in Cpu : d # None
      BY SchedAssumption DEF SchedAssumption, Context
    <2>3. owner'[l] = IF l = p THEN c ELSE owner[l]
      BY <1>4 DEF SchedInv, TypeOK
    <2>4. Holds(c, l)' <=> l = p
      BY <1>8, <1>9, <1>10 DEF Holds, HasTicks, HasOwn
    <2> QED  BY <1>4, <2>1, <2>2, <2>3, <2>4
  <1>16. /\ Top(on[c]) \notin InWakeup /\ on[c] \in {c, p} /\ on'[c] \in {c, p}
         /\ \A d \in Cpu \ {c} : on[d] # p
    BY <1>2, <1>7, <1>10 DEF InWakeup, Running
  <1> QED  BY <1>6, <1>11, <1>12, <1>13, <1>14, <1>15, <1>16, SwitchStep

\* sched(), from yield() and from sleep().
LEMMA SchedStep ==
  ASSUME SchedInv, NEW c \in Cpu, YieldSched(c) \/ SleepSched(c)
  PROVE  SchedInv'
  <1> USE DEF RunsAt
  <1>1. PICK p \in Slot : /\ RunsAt(c, p, Top(p))
                         /\ \/ Top(p) = "yield_sched" /\ Sched(c, "yield_sched", "yield_back")
                            \/ Top(p) = "sleep_sched" /\ Sched(c, "sleep_sched", "sleep_back")
    BY InAProcess DEF YieldSched, SleepSched, Sched, InProcess, InYield
  <1>2. PICK to \in {"yield_back", "sleep_back"} :
          /\ Goto(c, to)
          /\ to = "yield_back" => Top(p) = "yield_sched"
          /\ to = "sleep_back" => Top(p) = "sleep_sched"
    BY <1>1 DEF Sched
  <1>3. /\ mine' = [mine EXCEPT ![p] = intena[c]] /\ on' = [on EXCEPT ![c] = c]
        /\ UNCHANGED <<state, chan, killed, owner, cproc, noff, intena, sie, idx, ticks, ticks0,
                       n, seen>>
    BY <1>1 DEF Sched, procs, cpus, sleeps, Executes
  <1>4. Moved(p, to)
    BY <1>1, <1>2, ToMoves DEF Goto, Label, InProcess, InYield, Executes
  <1>5. TypeOK'
    <2>1. on' \in [Cpu -> Context]
      BY <1>3 DEF SchedInv, TypeOK, Context
    <2>2. mine' \in [Context -> BOOLEAN]
      BY <1>1, <1>3 DEF SchedInv, TypeOK
    <2> QED  BY <1>3, <1>4, <2>1, <2>2 DEF SchedInv, TypeOK, Moved
  <1>6. /\ on[c] = p /\ on'[c] = c /\ Top(c) = "back" /\ idx[c] = p /\ c \in Context
        /\ c \notin Slot /\ StackOK(c)
    BY <1>1, <1>3, OnWhat DEF Executes, Placed, Context, SchedInv, TypeOK
  <1>7. stack'[c] = stack[c] /\ Top(c)' = "back"
    BY <1>1, <1>4, <1>6 DEF Moved, Top
  <1>8. CpuFrame(c) /\ ProcFrame(p)
    <2>1. \A q \in Slot \ {p} : mine'[q] = mine[q]
      BY <1>3 DEF SchedInv, TypeOK, Context
    <2>2. \A d \in Cpu \ {c} : on'[d] = on[d]
      BY <1>3 DEF SchedInv, TypeOK
    <2> QED  BY <1>3, <1>4, <1>6, <2>1, <2>2 DEF CpuFrame, ProcFrame, Moved
  <1>9. StackOK(c)' /\ StackOK(p)'
    <2>1. StackOK(c)'
      BY <1>6, <1>7 DEF StackOK, Top
    <2>2. StackOK(p)'
      BY <1>1, <1>2, <1>4 DEF StackOK, Moved, Executes, InScheduler, InProcess, InClock,
         InYield
    <2> QED  BY <2>1, <2>2
  <1>10. CpuOK(c)'
    <2>1. noff[c] = 1 /\ ~sie[c]
      BY <1>1 DEF Executes, Nesting, Flags, Flat, Deep, Open
    <2>2. Nesting(c)'
      BY <1>3, <1>6, <1>7, <2>1 DEF Nesting, Flat, Deep
    <2>3. Flags(c)'
      BY <1>3, <1>6, <1>7, <2>1 DEF Flags, Open, Remembered, Masked
    <2>4. Placed(c)'
      BY <1>6, <1>7 DEF Placed
    <2> QED  BY <2>2, <2>3, <2>4 DEF CpuOK
  <1>11. \A d \in Cpu \ {c} : on[d] # p
    BY <1>6 DEF SchedInv, OneEach
  <1>12. ProcOK(p)'
    <2>1. ~Running(p)'
      BY <1>6, <1>8, <1>11 DEF Running, CpuFrame
    <2>2. /\ Top(p) \in Remembered => intena[c]
          /\ Top(p) \in Masked => ~intena[c]
      BY <1>1 DEF Executes, Flags
    <2>3. mine'[p] = intena[c]
      BY <1>1, <1>3 DEF SchedInv, TypeOK
    <2>4. (Top(p) = "sleep_sched" => mine'[p]) /\ (Top(p) = "yield_sched" => ~mine'[p])
      <3>1. "sleep_sched" \in Remembered /\ "yield_sched" \in Masked
        BY DEF Remembered, Masked
      <3> QED  BY <2>2, <2>3, <3>1
    <2> QED  BY <1>1, <1>2, <1>3, <1>4, <2>1, <2>4 DEF ProcOK, Moved
  <1>13. WakeOK(p)'
    <2>1. ASSUME Coming(p) PROVE Coming(p)'
      <3>1. PICK d \in Cpu : Top(on[d]) \in InWakeup /\ idx[on[d]] <= p
        BY <2>1 DEF Coming
      <3>2. d # c
        BY <1>1, <1>6, <3>1 DEF InWakeup
      <3>3. on'[d] = on[d] /\ on[d] \in Context \ {p}
        BY <1>8, <1>11, <3>2, OnWhat DEF CpuFrame
      <3> QED  BY <1>3, <1>4, <3>1, <3>3 DEF Coming, Moved, Top
    <2>2. WakeOK(p) /\ (Drowsy(p)' => Drowsy(p))
      BY <1>1, <1>2, <1>3, <1>4 DEF Drowsy, Moved
    <2> QED  BY <1>2, <1>3, <1>4, <2>1, <2>2 DEF WakeOK, Moved
  <1>14. ASSUME NEW l \in Lock
         PROVE  /\ owner'[l] = c <=> Holds(c, l)'
                /\ \A d \in Cpu \ {c} : owner'[l] = d <=> owner[l] = d
    <2>1. owner[l] = c <=> Holds(c, l)
      BY DEF SchedInv, Owners
    <2>2. Holds(c, l) <=> l = p
      BY <1>1, <1>6 DEF Holds, HasTicks, HasOwn
    <2>3. Holds(c, l)' <=> l = p
      BY <1>3, <1>6, <1>7 DEF Holds, HasTicks, HasOwn
    <2> QED  BY <1>3, <2>1, <2>2, <2>3
  <1>15. Top(on[c]) \notin InWakeup
    BY <1>1, <1>6 DEF InWakeup
  <1> QED  BY <1>5, <1>6, <1>8, <1>9, <1>10, <1>11, <1>12, <1>13, <1>14, <1>15, SwitchStep

-----------------------------------------------------------------------------
(* The clock *)

\* A tick: nobody holds tickslock, so nobody is between looking at the clock and
\* letting go of tickslock in sleep(); wakeup() is yet to come to all the others.
LEMMA ClockStep ==
  ASSUME SchedInv, NEW c \in Cpu, Clock(c)
  PROVE  SchedInv'
  <1>1. PICK x \in Context : Executes(c, x)
    BY Executing
  <1>0. Top(x) = "clock_swap"
    BY <1>1 DEF Clock, Executes, At, Top
  <1>2. /\ x = on[c] /\ owner[tickslock] = None
        /\ owner' = [owner EXCEPT ![tickslock] = c]
        /\ ticks' = NextTick /\ idx' = [idx EXCEPT ![x] = 1]
        /\ UNCHANGED <<state, chan, killed, cproc, noff, intena, sie, on, mine, ticks0, n, seen>>
    BY <1>1 DEF Clock, Swap, procs, cpus, Executes
  <1>3. Moved(x, "wakeup")
    BY <1>1, ToMoves DEF Clock, Goto, Label, InClock, Executes
  <1>4. TypeOK'
    <2>1. ticks' \in Nat
      BY <1>2, Typed, SchedAssumption, SMTT(30) DEF SchedAssumption, NextTick
    <2>2. idx' \in [Context -> Slot]
      BY <1>2, Typed, Slots
    <2>3. owner' \in [Lock -> Cpu \cup {None}]
      BY <1>2 DEF SchedInv, TypeOK, Lock
    <2> QED  BY <1>2, <1>3, <2>1, <2>2, <2>3 DEF SchedInv, TypeOK, Moved
  <1>5. CpuFrame(c)
    BY <1>2, <1>3 DEF CpuFrame, Moved, SchedInv, TypeOK
  <1>6. StackOK(x)'
    BY <1>0, <1>1, <1>2, <1>3 DEF StackOK, Moved, Executes, InScheduler, InProcess,
       InClock, InYield
  <1>7. CpuOK(c)'
    <2>1. Nesting(c)'
      BY <1>0, <1>1, <1>2, <1>3 DEF Nesting, Moved, Executes, Flat, Deep
    <2>2. Flags(c)'
      BY <1>0, <1>1, <1>2, <1>3 DEF Flags, Moved, Executes, Open, Remembered, Masked
    <2>3. Placed(c)'
      <3>1. x \in Slot => c # x /\ idx'[c] = idx[c]
        BY <1>2, OnWhat, SMTT(30) DEF SchedInv, TypeOK, Context
      <3> QED  BY <1>0, <1>1, <1>2, <1>3, <3>1 DEF Placed, Moved, Executes, Top, Context
    <2> QED  BY <2>1, <2>2, <2>3 DEF CpuOK
  <1>8. ASSUME NEW l \in Lock
        PROVE  /\ owner'[l] = c <=> Holds(c, l)'
               /\ \A d \in Cpu \ {c} : owner'[l] = d <=> owner[l] = d
    <2>1. owner[l] # c
      <3>1. ~Holds(c, l)
        BY <1>0, <1>2 DEF Holds, HasTicks, HasOwn
      <3> QED  BY <3>1 DEF SchedInv, Owners
    <2>2. \A d \in Cpu : d # None
      BY SchedAssumption DEF SchedAssumption, Context
    <2>3. owner'[l] = IF l = tickslock THEN c ELSE owner[l]
      BY <1>2 DEF SchedInv, TypeOK
    <2>4. Holds(c, l)' <=> l = tickslock
      BY <1>2, <1>3 DEF Holds, Moved, HasTicks, HasOwn
    <2> QED  BY <1>2, <2>1, <2>2, <2>3, <2>4
  <1>9. /\ (\A y \in Context : StackOK(y)') /\ (\A d \in Cpu : CpuOK(d)')
        /\ OneEach' /\ Owners'
        /\ \A p \in Slot : Running(p)' <=> Running(p)
    BY <1>2, <1>3, <1>5, <1>6, <1>7, <1>8, LocalCpus DEF Moved
  <1>10. ASSUME NEW p \in Slot PROVE ProcOK(p)' /\ WakeOK(p)'
    <2>1. p \in Context /\ ProcOK(p)
      BY DEF SchedInv, Context
    <2>2. (p # x /\ Top(p)' = Top(p)) \/ (p = x /\ Top(p)' = "wakeup" /\ Top(p) = "clock_swap")
      BY <1>0, <1>2, <1>3, <2>1 DEF Moved, Top
    <2>3. ProcOK(p)'
      BY <1>2, <1>9, <2>1, <2>2 DEF ProcOK
    <2>4. Coming(p)'
      <3>1. idx'[x] = 1 /\ 1 <= p /\ on'[c] = x
        BY <1>2, SMTT(30) DEF SchedInv, TypeOK, Slot
      <3> QED  BY <1>3, <3>1 DEF Coming, Moved, InWakeup
    <2>5. Top(p) \notin {"sleep", "sleep_swap", "sleep_release"}
      <3>1. SUFFICES ASSUME Top(p) \in {"sleep", "sleep_swap", "sleep_release"} PROVE FALSE
        OBVIOUS
      <3>2. PICK d \in Cpu : on[d] = p
        BY <2>1, <3>1 DEF ProcOK, Running
      <3>3. Holds(d, tickslock) /\ tickslock \in Lock
        BY <3>1, <3>2 DEF Holds, HasTicks, Lock
      <3>4. owner[tickslock] = d
        BY <3>3 DEF SchedInv, Owners
      <3> QED  BY <1>2, <3>4, SchedAssumption DEF SchedAssumption, Context
    <2> QED  BY <2>2, <2>3, <2>4, <2>5 DEF WakeOK
  <1> QED  BY <1>4, <1>9, <1>10 DEF SchedInv

\* One round of the loop of wakeup(): a sleeper it finds is made RUNNABLE, and one
\* that is about to sleep holds its own lock, for which wakeup() would still wait.
LEMMA WakeupTestStep ==
  ASSUME SchedInv, NEW c \in Cpu, WakeupTest(c)
  PROVE  SchedInv'
  <1>1. PICK x \in Context : Executes(c, x)
    BY Executing
  <1>2. PICK p \in Slot : p = idx[x]
    BY DEF SchedInv, TypeOK
  <1>0. Top(x) = "wakeup_test"
    BY <1>1 DEF WakeupTest, Executes, At, Top
  <1>3. /\ x = on[c]
        /\ Unlock(p) /\ PopOff(c, intena[c])
        /\ idx' = [idx EXCEPT ![x] = IF p = NPROC THEN 1 ELSE p + 1]
        /\ UNCHANGED <<chan, killed, cproc, intena, on, mine, ticks, ticks0, n, seen>>
    BY <1>1, <1>2 DEF WakeupTest, Release, sleeps, Executes
  <1>3a. /\ state' = [state EXCEPT ![p] = IF state[p] = "SLEEPING" /\ chan[p] = "ticks"
                                         THEN "RUNNABLE" ELSE state[p]]
    BY <1>1, <1>2 DEF WakeupTest, Executes
  <1>4. PICK to : /\ to \in {"wakeup", "clock_release"} /\ Goto(c, to)
                  /\ p # NPROC => to = "wakeup"
    BY <1>1, <1>2 DEF WakeupTest, Executes
  <1>5. Moved(x, to)
    BY <1>1, <1>4, ToMoves DEF Goto, Label, InClock, Executes
  <1>6. noff[c] = 2 /\ ~sie[c]
    BY <1>0, <1>1 DEF Executes, Nesting, Flags, Flat, Deep, Open
  <1>7. /\ noff'[c] = noff[c] - 1 /\ noff' \in [Cpu -> Nat] /\ sie' \in [Cpu -> BOOLEAN]
        /\ ~sie'[c] /\ \A d \in Cpu \ {c} : noff'[d] = noff[d] /\ sie'[d] = sie[d]
    BY <1>3, <1>6, PopOffInner
  <1>8. TypeOK'
    <2>1. idx' \in [Context -> Slot]
      <3>1. idx' = [idx EXCEPT ![x] = NextSlot(p)]
        BY <1>3 DEF NextSlot
      <3> QED  BY <3>1, Typed, Slots
    <2>2. owner' \in [Lock -> Cpu \cup {None}]
      BY <1>3, UnlockType DEF Lock
    <2>3. state' \in [Slot -> {"RUNNABLE", "RUNNING", "SLEEPING"}]
      BY <1>3a DEF SchedInv, TypeOK
    <2> QED  BY <1>3, <1>5, <1>7, <2>1, <2>2, <2>3 DEF SchedInv, TypeOK, Moved
  <1>9. CpuFrame(c)
    BY <1>3, <1>5, <1>7 DEF CpuFrame, Moved, SchedInv, TypeOK
  <1>10. StackOK(x)'
    BY <1>0, <1>1, <1>3, <1>4, <1>5 DEF StackOK, Moved, Executes, InScheduler, InProcess,
       InClock, InYield
  <1>11. CpuOK(c)'
    <2>1. Nesting(c)'
      <3>1. to \notin Flat \cup Deep
        BY <1>4 DEF Flat, Deep
      <3>2. on'[c] = x /\ Top(x)' = to
        BY <1>3, <1>5 DEF Moved
      <3>3. noff'[c] = 1
        BY <1>6, <1>7, SMTT(30)
      <3> QED  BY <3>1, <3>2, <3>3 DEF Nesting
    <2>2. Flags(c)'
      BY <1>0, <1>1, <1>3, <1>4, <1>5, <1>7 DEF Flags, Moved, Executes, Open, Remembered,
         Masked
    <2>3. Placed(c)'
      <3>1. x \in Slot => c # x /\ idx'[c] = idx[c]
        <4>1. \A y \in Context \ {x} : idx'[y] = idx[y]
          BY <1>3 DEF SchedInv, TypeOK
        <4> QED  BY <1>3, <4>1, OnWhat DEF Context
      <3> QED  BY <1>0, <1>1, <1>3, <1>4, <1>5, <3>1 DEF Placed, Moved, Executes, Top,
                  Context
    <2> QED  BY <2>1, <2>2, <2>3 DEF CpuOK
  <1>12. owner[p] = c
    BY <1>0, <1>2, <1>3 DEF SchedInv, Owners, Holds, Lock
  <1>13. ASSUME NEW l \in Lock
         PROVE  /\ owner'[l] = c <=> Holds(c, l)'
                /\ \A d \in Cpu \ {c} : owner'[l] = d <=> owner[l] = d
    <2>1. owner[l] = c <=> Holds(c, l)
      BY DEF SchedInv, Owners
    <2>2. \A d \in Cpu : d # None
      BY SchedAssumption DEF SchedAssumption, Context
    <2>3. owner'[l] = IF l = p THEN None ELSE owner[l]
      BY <1>3 DEF Unlock, SchedInv, TypeOK
    <2>4. Holds(c, l) <=> l = tickslock \/ l = p
      BY <1>0, <1>2, <1>3 DEF Holds, HasTicks, HasOwn
    <2>5. Holds(c, l)' <=> l = tickslock
      BY <1>3, <1>4, <1>5 DEF Holds, Moved, HasTicks, HasOwn
    <2>6. p # tickslock
      BY SMTT(30) DEF Slot, tickslock
    <2> QED  BY <1>12, <2>1, <2>2, <2>3, <2>4, <2>5, <2>6
  <1>14. /\ (\A y \in Context : StackOK(y)') /\ (\A d \in Cpu : CpuOK(d)')
         /\ OneEach' /\ Owners'
         /\ \A q \in Slot : Running(q)' <=> Running(q)
    BY <1>3, <1>5, <1>9, <1>10, <1>11, <1>13, LocalCpus DEF Moved
  <1>15. Top(p) \notin {"sleep_set", "sleep_sched"} /\ (state[p] = "SLEEPING" => ~Running(p))
    <2>1. ASSUME NEW d \in Cpu, on[d] = p, Top(p) \in {"sleep_set", "sleep_sched"} PROVE FALSE
      <3>1. owner[p] = d
        BY <2>1, OwnLock DEF HasOwn
      <3> QED  BY <1>0, <1>3, <1>12, <2>1, <3>1
    <2>2. ProcOK(p)
      BY DEF SchedInv
    <2> QED  BY <2>1, <2>2 DEF ProcOK, Running
  <1>16. ASSUME NEW q \in Slot PROVE ProcOK(q)' /\ WakeOK(q)'
    <2>1. q \in Context /\ ProcOK(q) /\ WakeOK(q)
      BY DEF SchedInv, Context
    <2>2. (q # x /\ Top(q)' = Top(q)) \/ (q = x /\ Top(q)' = to /\ Top(q) = "wakeup_test")
      BY <1>0, <1>3, <1>5, <2>1 DEF Moved, Top
    <2>3. CASE q = p
      <3>1. state'[q] = IF state[q] = "SLEEPING" THEN "RUNNABLE" ELSE state[q]
        BY <1>3a, <2>1, <2>3 DEF SchedInv, TypeOK, ProcOK
      <3>2. ProcOK(q)'
        BY <1>3, <1>4, <1>14, <1>15, <2>1, <2>2, <2>3, <3>1 DEF ProcOK
      <3>3. state'[q] # "SLEEPING" /\ Top(q)' \notin {"sleep_set", "sleep_sched"}
        BY <1>4, <1>15, <2>2, <2>3, <3>1
      <3> QED  BY <1>3, <1>4, <2>1, <2>2, <3>2, <3>3 DEF WakeOK, Drowsy
    <2>4. CASE q # p
      <3>1. state'[q] = state[q]
        BY <1>3a, <2>4 DEF SchedInv, TypeOK
      <3>2. ProcOK(q)'
        BY <1>3, <1>4, <1>14, <2>1, <2>2, <3>1 DEF ProcOK
      <3>3. ASSUME Coming(q) PROVE Coming(q)'
        <4>1. PICK d \in Cpu : Top(on[d]) \in InWakeup /\ idx[on[d]] <= q
          BY <3>3 DEF Coming
        <4>2. CASE d = c
          <5>1. p <= q /\ p # q /\ p \in 1..NPROC /\ q \in 1..NPROC /\ NPROC \in Nat
            BY <1>2, <1>3, <2>4, <4>1, <4>2, SchedAssumption DEF Slot, SchedAssumption
          <5>2. p # NPROC /\ p + 1 <= q
            BY <5>1, SMTT(30)
          <5>3. idx'[x] <= q /\ on'[c] = x
            BY <1>3, <5>2 DEF SchedInv, TypeOK
          <5>4. Top(x)' = "wakeup"
            BY <1>4, <1>5, <5>2 DEF Moved
          <5> QED  BY <5>3, <5>4 DEF Coming, InWakeup
        <4>3. CASE d # c
          <5>1. on[d] \in Context \ {c, on[c], on'[c]}
            BY <1>3, <4>3, OnWhat
          <5> QED  BY <1>3, <1>9, <4>1, <5>1 DEF Coming, CpuFrame, Top
        <4> QED  BY <4>2, <4>3
      <3>4. (Drowsy(q)' <=> Drowsy(q)) \/ ~Drowsy(q)'
        BY <1>4, <2>2, <3>1 DEF Drowsy
      <3> QED  BY <1>3, <1>4, <2>1, <2>2, <3>2, <3>3, <3>4 DEF WakeOK
    <2> QED  BY <2>3, <2>4
  <1> QED  BY <1>8, <1>14, <1>16 DEF SchedInv

-----------------------------------------------------------------------------
(* The theorems *)

\* kill() by somebody else takes p->lock, which a process about to sleep holds.
LEMMA KillStep ==
  ASSUME SchedInv, NEW p \in Slot, Kill(p)
  PROVE  SchedInv'
  <1>1. /\ owner[p] = None /\ killed' = [killed EXCEPT ![p] = TRUE]
        /\ UNCHANGED <<chan, owner, cproc, noff, intena, sie, on, stack, idx, mine, ticks, ticks0,
                       n, seen>>
    BY DEF Kill, cpus, sleeps
  <1>2. /\ state' \in [Slot -> {"RUNNABLE", "RUNNING", "SLEEPING"}]
        /\ state'[p] = IF state[p] = "SLEEPING" THEN "RUNNABLE" ELSE state[p]
        /\ \A q \in Slot \ {p} : state'[q] = state[q]
    BY DEF Kill, SchedInv, TypeOK
  <1>3. TypeOK'
    <2>1. killed' \in [Slot -> BOOLEAN]
      BY <1>1 DEF SchedInv, TypeOK
    <2> QED  BY <1>1, <1>2, <2>1 DEF SchedInv, TypeOK
  <1>4. \A x \in Context : StackOK(x)'
    BY <1>1 DEF SchedInv, StackOK, Top
  <1>5. \A c \in Cpu : CpuOK(c)'
    <2>1. \A c \in Cpu : Nesting(c)' /\ Placed(c)'
      BY <1>1 DEF SchedInv, CpuOK, Nesting, Placed, Top
    <2>2. \A c \in Cpu : Flags(c)'
      BY <1>1 DEF SchedInv, CpuOK, Flags, Top
    <2> QED  BY <2>1, <2>2 DEF CpuOK
  <1>6. OneEach' /\ Owners'
    <2>1. OneEach'
      BY <1>1 DEF SchedInv, OneEach
    <2>2. \A l \in Lock, c \in Cpu : Holds(c, l)' <=> Holds(c, l)
      BY <1>1 DEF Holds, Top
    <2> QED  BY <1>1, <2>1, <2>2 DEF SchedInv, Owners
  <1>7. state[p] = "SLEEPING" => ~Running(p)
    <2>1. ASSUME NEW d \in Cpu, on[d] = p, Top(p) = "sleep_sched" PROVE FALSE
      <3>1. owner[p] = d
        BY <2>1, OwnLock DEF HasOwn
      <3> QED  BY <1>1, <3>1, SchedAssumption DEF SchedAssumption, Context
    <2>2. ProcOK(p)
      BY DEF SchedInv
    <2> QED  BY <2>1, <2>2 DEF ProcOK, Running
  <1>8. ASSUME NEW q \in Slot PROVE ProcOK(q)' /\ WakeOK(q)'
    <2>1. /\ ProcOK(q) /\ WakeOK(q) /\ Top(q)' = Top(q) /\ (Running(q)' <=> Running(q))
          /\ Coming(q)' <=> Coming(q)
      BY <1>1 DEF SchedInv, Running, Top, Coming
    <2>2. ProcOK(q)'
      BY <1>1, <1>2, <1>7, <2>1 DEF ProcOK
    <2>3. Drowsy(q)' => Drowsy(q)
      BY <1>2, <2>1 DEF Drowsy
    <2> QED  BY <1>1, <2>1, <2>2, <2>3 DEF WakeOK
  <1> QED  BY <1>3, <1>4, <1>5, <1>6, <1>8 DEF SchedInv

\* A step that changes nothing keeps the invariant.
LEMMA Stutter ==
  ASSUME SchedInv, UNCHANGED vars
  PROVE  SchedInv'
  <1>1. UNCHANGED <<state, chan, killed, owner, cproc, noff, intena, sie, on, stack, idx, mine,
                    ticks, ticks0, n, seen>>
    BY DEF vars, procs, cpus, sleeps
  <1>2. TypeOK'
    BY <1>1 DEF SchedInv, TypeOK
  <1>3. \A x \in Context : StackOK(x)'
    BY <1>1 DEF SchedInv, StackOK, Top
  <1>4. \A c \in Cpu : CpuOK(c)'
    <2>1. \A c \in Cpu : Nesting(c)' /\ Placed(c)'
      BY <1>1 DEF SchedInv, CpuOK, Nesting, Placed, Top
    <2>2. \A c \in Cpu : Flags(c)'
      BY <1>1 DEF SchedInv, CpuOK, Flags, Top
    <2> QED  BY <2>1, <2>2 DEF CpuOK
  <1>5. OneEach' /\ Owners'
    <2>1. OneEach'
      BY <1>1 DEF SchedInv, OneEach
    <2>2. \A l \in Lock, c \in Cpu : Holds(c, l)' <=> Holds(c, l)
      BY <1>1 DEF Holds, Top
    <2> QED  BY <1>1, <2>1, <2>2 DEF SchedInv, Owners
  <1>6. ASSUME NEW q \in Slot PROVE ProcOK(q)' /\ WakeOK(q)'
    BY <1>1 DEF SchedInv, ProcOK, WakeOK, Running, Top, Coming, Drowsy
  <1> QED  BY <1>2, <1>3, <1>4, <1>5, <1>6 DEF SchedInv

\* At boot every CPU is in scheduler(), no lock is held and every process is RUNNABLE.
LEMMA SchedInit ==
  ASSUME Init
  PROVE  SchedInv
  <1>1. /\ \A c \in Cpu : stack[c] = <<"intr_on">> /\ on[c] = c /\ c \in Context /\ c \notin Slot
        /\ \A p \in Slot : stack[p] = <<"forkret">> /\ p \in Context /\ p \notin Cpu
    BY SchedAssumption DEF SchedAssumption, Init, Context
  <1>2. /\ \A c \in Cpu : Top(c) = "intr_on" /\ Len(stack[c]) = 1
        /\ \A p \in Slot : Top(p) = "forkret" /\ Len(stack[p]) = 1
    BY <1>1, SMTT(30) DEF Top
  <1>3. TypeOK
    <2>1. 1 \in Slot
      BY SchedAssumption, SMTT(30) DEF SchedAssumption, Slot
    <2>2. "intr_on" \in Label /\ "forkret" \in Label
      BY DEF Label, InScheduler, InProcess
    <2>3. <<"intr_on">> \in Seq(Label) /\ <<"forkret">> \in Seq(Label)
      <3>1. ASSUME NEW l \in Label PROVE <<l>> \in Seq(Label)
        BY SMTT(30)
      <3> QED  BY <2>2, <3>1
    <2>4. stack \in [Context -> Seq(Label)]
      BY <2>3 DEF Init
    <2>5. idx \in [Context -> Slot]
      BY <2>1 DEF Init
    <2>6. /\ killed \in [Slot -> BOOLEAN] /\ intena \in [Cpu -> BOOLEAN]
          /\ sie \in [Cpu -> BOOLEAN] /\ mine \in [Context -> BOOLEAN]
      BY DEF Init
    <2>7. /\ ticks \in Nat /\ ticks0 \in [Slot -> Nat] /\ n \in [Slot -> Nat]
          /\ seen \in [Slot -> Nat] /\ noff \in [Cpu -> Nat]
      BY DEF Init
    <2>8. /\ state \in [Slot -> {"RUNNABLE", "RUNNING", "SLEEPING"}]
          /\ chan \in [Slot -> {"ticks", None}]
          /\ owner \in [Lock -> Cpu \cup {None}] /\ cproc \in [Cpu -> Slot \cup {None}]
          /\ on \in [Cpu -> Context]
      BY DEF Init, Context
    <2> QED  BY <2>4, <2>5, <2>6, <2>7, <2>8 DEF TypeOK
  <1>4. \A x \in Context : StackOK(x)
    BY <1>1, <1>2 DEF StackOK, InScheduler, InProcess, Context
  <1>5. \A c \in Cpu : CpuOK(c)
    <2>1. \A c \in Cpu : Nesting(c)
      BY <1>1, <1>2 DEF Nesting, Flat, Deep, Init
    <2>2. \A c \in Cpu : Flags(c)
      BY <1>1, <1>2 DEF Flags, Open, Remembered, Masked, Init
    <2>3. \A c \in Cpu : Placed(c)
      BY <1>1, <1>2 DEF Placed, Init
    <2> QED  BY <2>1, <2>2, <2>3 DEF CpuOK
  <1>6. OneEach
    BY <1>1 DEF OneEach
  <1>7. Owners
    <2>1. \A l \in Lock, c \in Cpu : owner[l] # c
      BY SchedAssumption DEF SchedAssumption, Context, Init
    <2>2. \A l \in Lock, c \in Cpu : ~Holds(c, l)
      BY <1>1, <1>2 DEF Holds, HasTicks, HasOwn
    <2> QED  BY <2>1, <2>2 DEF Owners
  <1>8. ASSUME NEW p \in Slot PROVE ProcOK(p) /\ WakeOK(p)
    <2>1. ~Running(p)
      BY <1>1 DEF Running
    <2>2. state[p] = "RUNNABLE"
      BY DEF Init
    <2> QED  BY <1>2, <2>1, <2>2 DEF ProcOK, WakeOK, Drowsy
  <1> QED  BY <1>3, <1>4, <1>5, <1>6, <1>7, <1>8 DEF SchedInv

\* Every step of the CPUs and of the processes on them keeps the invariant.
LEMMA SchedNext ==
  ASSUME SchedInv, [Next]_vars
  PROVE  SchedInv'
  <1>1. ASSUME NEW c \in Cpu, Step(c) PROVE SchedInv'
    <2>1. CASE IntrOn(c) \/ IntrOff(c) \/ Back(c) \/ NextProc(c)
      BY <2>1, IntrOnStep, IntrOffStep, BackStep, NextProcStep
    <2>2. CASE Scan(c)
      BY <2>2, ScanElseStep, ScanRunStep
    <2>3. CASE \/ ScanPushOff(c) \/ YieldPushOff(c) \/ SysSleepPushOff(c) \/ SleepPushOff(c)
               \/ SleepAgainPushOff(c) \/ ClockPushOff(c) \/ WakeupPushOff(c)
      <3>1. PICK from, to : Pushes(from, to) /\ PushOff(c, from, to)
        BY <2>3 DEF Pushes, ScanPushOff, YieldPushOff, SysSleepPushOff, SleepPushOff,
           SleepAgainPushOff, ClockPushOff, WakeupPushOff
      <3> QED  BY <3>1, PushOffStep
    <2>4. CASE \/ Yield(c) \/ YieldSched(c) \/ YieldBack(c) \/ Forkret(c)
      BY <2>4, YieldStep, SchedStep, YieldBackStep, ForkretStep
    <2>5. CASE \/ SysSleepLook(c) \/ SysSleepReturn(c) \/ SleepLock(c) \/ SleepRelease(c)
               \/ SleepSet(c) \/ SleepSched(c) \/ SleepBack(c) \/ SleepAgainLook(c)
      BY <2>5, LookStep, SysSleepReturnStep, SleepLockStep, SleepReleaseStep,
         SleepSetStep, SchedStep, SleepBackStep
    <2>6. CASE \/ Clock(c) \/ WakeupProc(c) \/ WakeupTest(c) \/ ClockRelease(c) \/ Resched(c)
               \/ Sret(c)
      BY <2>6, ClockStep, WakeupProcStep, WakeupTestStep, ClockReleaseStep, ReschedStep,
         SretStep
    <2> QED  BY <1>1, <2>1, <2>2, <2>3, <2>4, <2>5, <2>6 DEF Step
  <1>2. ASSUME NEW c \in Cpu, SysSleep(c) \/ Interrupt(c) PROVE SchedInv'
    BY <1>2, SysSleepStep, InterruptStep
  <1> QED  BY <1>1, <1>2, KillStep, Stutter DEF Next

\* On any number of CPUs, with any number of processes, every state of scheduler,
\* sched, sleep and wakeup satisfies the invariant.
THEOREM SchedInvariant == Spec => []SchedInv
  BY SchedInit, SchedNext, PTL DEF Spec

\* No two CPUs execute one process, and a process whose lock is free is on a CPU
\* exactly if it is RUNNING (proc.c:464-474).
THEOREM OneCpuPerProcessAlways == Spec => []OneCpuPerProcess
  <1>1. SchedInv => OneCpuPerProcess
    <2> SUFFICES ASSUME SchedInv PROVE OneCpuPerProcess
      OBVIOUS
    <2>1. ASSUME NEW p \in Slot, owner[p] = None
          PROVE  state[p] = "RUNNING" <=> \E c \in Cpu : on[c] = p /\ cproc[c] = p
      <3>1. ProcOK(p)
        BY DEF SchedInv
      <3>2. state[p] = "RUNNING" => Running(p)
        BY <3>1 DEF ProcOK
      <3>3. \A c \in Cpu : on[c] = p => cproc[c] = p
        BY DEF SchedInv, CpuOK, Placed
      <3>4. ASSUME NEW c \in Cpu, on[c] = p PROVE Top(p) \notin {"yield_sched", "sleep_sched"}
        <4>1. Top(p) \in HasOwn => owner[p] = c
          BY <3>4, OwnLock
        <4>2. c # None
          BY SchedAssumption DEF SchedAssumption, Context
        <4> QED  BY <2>1, <4>1, <4>2 DEF HasOwn
      <3> QED  BY <3>1, <3>2, <3>3, <3>4 DEF ProcOK, Running
    <2> QED  BY <2>1 DEF SchedInv, OneEach, OneCpuPerProcess
  <1> QED  BY <1>1, SchedInvariant, PTL

\* None of the panics of sched() happens (proc.c:502-509), and a thread finds
\* interrupts as it left them whichever CPU resumes it (proc.c:491-492).
THEOREM IntrIsTheThreadsAlways == Spec => []IntrIsTheThreads
  <1>1. SchedInv => IntrIsTheThreads
    <2> SUFFICES ASSUME SchedInv PROVE IntrIsTheThreads
      OBVIOUS
    <2>1. ASSUME NEW c \in Cpu, At(c, "yield_sched") \/ At(c, "sleep_sched")
          PROVE  LET p == cproc[c] IN /\ p = on[c] /\ owner[p] = c
                                     /\ noff[c] = 1 /\ state[p] # "RUNNING" /\ ~sie[c]
      <3>1. PICK p \in Slot : RunsAt(c, p, Top(p)) /\ Top(p) \in {"yield_sched", "sleep_sched"}
        BY <2>1, InAProcess DEF RunsAt, InProcess, InYield
      <3>2. p = on[c] /\ p = cproc[c] /\ owner[p] = c
        BY <3>1, OwnLock DEF RunsAt, Executes, HasOwn
      <3>3. noff[c] = 1 /\ ~sie[c]
        BY <3>1 DEF RunsAt, Executes, Nesting, Flags, Flat, Deep, Open
      <3>4. state[p] # "RUNNING"
        BY <3>1 DEF RunsAt, ProcOK
      <3> QED  BY <3>2, <3>3, <3>4
    <2>2. ASSUME NEW c \in Cpu, noff[c] = 0
          PROVE  sie[c] <=> /\ Len(stack[on[c]]) = 1
                           /\ Head(stack[on[c]]) \notin {"intr_on", "scan"}
      <3>1. PICK x \in Context : Executes(c, x)
        BY Executing
      <3>2. Top(x) \in Flat
        BY <2>2, <3>1, SMTT(30) DEF Executes, Nesting
      <3>3. Len(stack[x]) = 1 => (Top(x) \in Open <=> Top(x) \notin {"intr_on", "scan"})
        <4>1. Len(stack[x]) = 1 => Top(x) \in InScheduler \cup InProcess
          BY <3>1, SMTT(30) DEF Executes, StackOK
        <4>2. Len(stack[x]) = 1 => Top(x) \in {"intr_on", "intr_off", "scan", "user",
                                              "sys_sleep", "sleep_again"}
          BY <3>2, <4>1 DEF Flat, InScheduler, InProcess
        <4> QED  BY <4>2 DEF Open
      <3> QED  BY <3>1, <3>3 DEF Executes, Flags, Top
    <2> QED  BY <2>1, <2>2 DEF IntrIsTheThreads, SchedMayBeCalled
  <1> QED  BY <1>1, SchedInvariant, PTL

\* When tickslock is free, nobody sleeps who has not looked at the clock since the
\* last tick: sleep() misses no wakeup() (proc.c:558).
THEOREM NoMissedWakeupAlways == Spec => []NoMissedWakeup
  <1>1. SchedInv => NoMissedWakeup
    <2> SUFFICES ASSUME SchedInv, owner[tickslock] = None, NEW p \in Slot, state[p] = "SLEEPING"
                 PROVE  seen[p] = ticks
      BY DEF NoMissedWakeup
    <2>1. ~Coming(p)
      <3> SUFFICES ASSUME NEW d \in Cpu, Top(on[d]) \in InWakeup PROVE FALSE
        BY DEF Coming
      <3>1. Holds(d, tickslock) /\ tickslock \in Lock
        BY DEF Holds, InWakeup, HasTicks, Lock
      <3>2. owner[tickslock] = d
        BY <3>1 DEF SchedInv, Owners
      <3> QED  BY <3>2, SchedAssumption DEF SchedAssumption, Context
    <2> QED  BY <2>1 DEF SchedInv, WakeOK, Drowsy
  <1> QED  BY <1>1, SchedInvariant, PTL
=============================================================================

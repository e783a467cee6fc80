----------------------------- MODULE ProcProofs -----------------------------
(***************************************************************************)
(* Proofs about fork, exit and wait for a process table of any size: the   *)
(* parent of every process is alive, and wait() misses neither a child's   *)
(* exit() nor a kill().                                                    *)
(*                                                                         *)
(* The invariant says which p->locks a process holds at each place, what   *)
(* its state says of that place, and what the loops of reparent() and      *)
(* wait() have established of the slots they have passed.                  *)
(***************************************************************************)
EXTENDS Proc, TLAPS

\* A leaf that names no prover is for Zenon, within half a minute.
USE ZenonT(30)

\* Where a process may be; in exit(), and after it has read its parent.
Exiting == {"exit_init", "exit_parent", "exit_lock_parent", "exit_lock_self", "reparent"}
Departing == {"exit_lock_parent", "exit_lock_self", "reparent"}
Label == {"none", "forkret", "user", "alloc", "fork", "kill", "wait", "sleep"} \cup Exiting

\* The places where the loop variable is not in use.
Idle == {"none", "forkret", "user", "sleep", "exit_init", "exit_parent", "exit_lock_parent",
         "exit_lock_self"}

TypeOK ==
  /\ state \in [Slot -> {"UNUSED", "SLEEPING", "RUNNABLE", "RUNNING", "ZOMBIE"}]
  /\ parent \in [Slot -> Slot \cup {None}]
  /\ killed \in [Slot -> BOOLEAN]
  /\ lock \in [Slot -> Slot \cup {None}]
  /\ pc \in [Slot -> Label]
  /\ idx \in [Slot -> 0..NPROC]
  /\ DOMAIN arg = Slot

\* What its state says of where a process is.
StateOK(s) ==
  /\ pc[s] = "none" <=> state[s] \in {"UNUSED", "ZOMBIE"}
  /\ pc[s] = "forkret" => state[s] = "RUNNABLE"
  /\ pc[s] = "sleep" => state[s] \in {"SLEEPING", "RUNNABLE"}
  /\ pc[s] \notin {"none", "forkret", "sleep"} => state[s] = "RUNNING"
  /\ pc[s] \in Idle => idx[s] = 0

\* A slot that fork() fills is UNUSED; the parent that exit() locks is the one
\* that the process had, and init may have become it since.
ArgOK(s) ==
  /\ pc[s] = "fork" => arg[s] \in Slot /\ state[arg[s]] = "UNUSED"
  /\ pc[s] \in Departing => arg[s] \in Slot /\ parent[s] \in {arg[s], initproc}

\* The locks that a process holds, by place.
Holds(q, s) ==
  \/ pc[q] \in {"wait", "reparent"} /\ s = q
  \/ pc[q] \in {"fork", "exit_lock_self", "reparent"} /\ s = arg[q]
Locks == \A q, s \in Slot : lock[s] = q <=> Holds(q, s)

\* init is the first process, has no parent and never exits.
InitOK == /\ initproc \in Slot
          /\ parent[initproc] = None /\ Alive(initproc) /\ pc[initproc] \notin Exiting

\* A slot without a process has no parent, one with a process has a living one.
ParentOK(s) ==
  /\ state[s] = "UNUSED" => parent[s] = None
  /\ s # initproc /\ state[s] # "UNUSED" => parent[s] # None /\ Alive(parent[s])

\* The slots that reparent() has passed hold no child of the process; those that
\* wait() has passed no child that is a zombie, if init is not the caller.
LoopOK(q) ==
  \A s \in Slot : s < idx[q] /\ parent[s] = q =>
    /\ pc[q] # "reparent"
    /\ pc[q] = "wait" /\ q # initproc => state[s] # "ZOMBIE"

\* NoMissedChild, for one process.
WokenOK(s) ==
  /\ state[s] = "ZOMBIE" /\ parent[s] # initproc => state[parent[s]] # "SLEEPING"
  /\ killed[s] => state[s] # "SLEEPING"

ProcInv ==
  /\ TypeOK
  /\ \A s \in Slot : StateOK(s)
  /\ \A s \in Slot : ArgOK(s)
  /\ Locks
  /\ InitOK
  /\ \A s \in Slot : ParentOK(s)
  /\ \A s \in Slot : LoopOK(s)
  /\ \A s \in Slot : WokenOK(s)

-----------------------------------------------------------------------------
(* Steps that change the places of one process and no state or parent *)

\* What the invariant says of a process that is not p depends on the table alone.
OthersStay(p) ==
  /\ \A q \in Slot \ {p} : pc'[q] = pc[q] /\ idx'[q] = idx[q] /\ arg'[q] = arg[q]
  /\ \A s \in Slot, q \in Slot \ {p} : lock'[s] = q <=> lock[s] = q

\* When one process moves and the locks of the others stay, each p->lock is still held
\* by the process whose place in the code says so.
LEMMA OthersHold ==
  ASSUME ProcInv, NEW p \in Slot, OthersStay(p), \A s \in Slot : lock'[s] = p <=> Holds(p, s)'
  PROVE  Locks'
  <1>1. \A q, s \in Slot : lock[s] = q <=> Holds(q, s)
    BY DEF ProcInv, Locks
  <1>2. \A q \in Slot \ {p}, s \in Slot : Holds(q, s)' <=> Holds(q, s)
    BY DEF OthersStay, Holds
  <1> QED  BY <1>1, <1>2, SMTT(30) DEF OthersStay, Locks

\* A step that changes neither the state, parent nor killed of any process has to
\* establish only what the invariant says of the process that takes it.
LEMMA LocalStep ==
  ASSUME ProcInv, TypeOK', NEW p \in Slot, UNCHANGED <<state, parent, killed>>, OthersStay(p),
         \A s \in Slot : lock'[s] = p <=> Holds(p, s)',
         StateOK(p)', ArgOK(p)', LoopOK(p)', p = initproc => pc'[p] \notin Exiting
  PROVE  ProcInv'
  <1>1. Locks'
    BY OthersHold
  <1>2. ASSUME NEW q \in Slot, q # p PROVE StateOK(q)' /\ ArgOK(q)' /\ LoopOK(q)'
    <2>1. pc'[q] = pc[q] /\ idx'[q] = idx[q] /\ arg'[q] = arg[q]
      BY <1>2 DEF OthersStay
    <2>2. StateOK(q) /\ ArgOK(q) /\ LoopOK(q)
      BY DEF ProcInv
    <2> QED  BY <2>1, <2>2 DEF StateOK, ArgOK, LoopOK
  <1>3. ASSUME NEW q \in Slot PROVE ParentOK(q)' /\ WokenOK(q)'
    BY DEF ProcInv, ParentOK, WokenOK, Alive
  <1>4. InitOK'
    BY DEF ProcInv, InitOK, Alive, OthersStay
  <1> QED  BY <1>1, <1>2, <1>3, <1>4 DEF ProcInv

\* A step that takes or releases no lock.
LEMMA KeepStep ==
  ASSUME ProcInv, NEW p \in Slot, UNCHANGED <<state, parent, killed, lock>>,
         NEW l \in Label, pc' = [pc EXCEPT ![p] = l],
         idx' \in [Slot -> 0..NPROC], \A q \in Slot \ {p} : idx'[q] = idx[q],
         DOMAIN arg' = Slot, \A q \in Slot \ {p} : arg'[q] = arg[q],
         \A s \in Slot : Holds(p, s)' <=> Holds(p, s),
         StateOK(p)', ArgOK(p)', LoopOK(p)', p = initproc => l \notin Exiting
  PROVE  ProcInv'
  <1>1. TypeOK' /\ OthersStay(p) /\ pc'[p] = l
    BY DEF ProcInv, TypeOK, OthersStay
  <1>2. \A s \in Slot : lock'[s] = p <=> Holds(p, s)'
    BY DEF ProcInv, Locks
  <1> QED  BY <1>1, <1>2, LocalStep

\* What is known of a process that takes a step.
LEMMA Facts ==
  ASSUME ProcInv, NEW p \in Slot
  PROVE  /\ StateOK(p) /\ ArgOK(p) /\ LoopOK(p) /\ ParentOK(p)
         /\ pc[p] \in Label /\ idx[p] \in 0..NPROC /\ p # None
         /\ NPROC \in Nat \ {0} /\ initproc \in Slot
         /\ idx[p] < NPROC => idx[p] \in Slot
         /\ \A l \in Label : [pc EXCEPT ![p] = l][p] = l
  BY ProcAssumption, SMTT(30) DEF ProcAssumption, ProcInv, TypeOK, InitOK, Slot

\* The entry of fork(), exit() and kill(), before any lock is taken.
LEMMA CallStep ==
  ASSUME ProcInv, NEW p \in Slot, ForkCall(p) \/ ExitCall(p) \/ \E k \in KillPids : KillCall(p, k)
  PROVE  ProcInv'
  <1>1. PICK l : /\ l \in {"alloc", "exit_init", "kill"} /\ Trap(p, l)
                 /\ p = initproc => l # "exit_init"
    BY SMTT(30) DEF ForkCall, ExitCall, KillCall
  <1>2. /\ UNCHANGED <<state, parent, killed, lock, idx>>
        /\ DOMAIN arg' = Slot /\ \A q \in Slot \ {p} : arg'[q] = arg[q]
    BY DEF ForkCall, ExitCall, KillCall, table, locals, SetArg, ProcInv, TypeOK
  <1>3. pc[p] = "user" /\ pc' = [pc EXCEPT ![p] = l] /\ l \in Label /\ pc'[p] = l
    BY <1>1, Facts DEF Trap, Goto, Label, Exiting
  <1>4. StateOK(p)' /\ ArgOK(p)' /\ LoopOK(p)'
    BY <1>1, <1>2, <1>3, Facts DEF StateOK, ArgOK, LoopOK, Departing, Idle, Slot
  <1>5. \A s \in Slot : Holds(p, s)' <=> Holds(p, s)
    BY <1>1, <1>3 DEF Holds
  <1>6. idx' \in [Slot -> 0..NPROC]
    BY <1>2 DEF ProcInv, TypeOK
  <1> QED  BY <1>1, <1>2, <1>3, <1>4, <1>5, <1>6, KeepStep DEF Exiting

\* The steps of a loop over the table that pass one slot: the slot has what the
\* invariant says of the slots that the loop has passed.
LEMMA SkipStep ==
  ASSUME ProcInv, NEW p \in Slot, pc[p] \in {"alloc", "kill", "wait", "reparent"}, idx[p] < NPROC,
         SetIdx(p, idx[p] + 1), UNCHANGED <<state, parent, killed, lock, pc, arg>>,
         pc[p] = "reparent" => ~IsChild(p),
         pc[p] = "wait" => ~IsChild(p) \/ state[idx[p]] # "ZOMBIE"
  PROVE  ProcInv'
  <1>1. pc' = [pc EXCEPT ![p] = pc[p]] /\ pc[p] \in Label
    BY DEF ProcInv, TypeOK
  <1>2. /\ idx' \in [Slot -> 0..NPROC] /\ idx'[p] = idx[p] + 1
        /\ \A q \in Slot \ {p} : idx'[q] = idx[q]
    BY Facts, SMTT(30) DEF SetIdx, ProcInv, TypeOK
  <1>3. StateOK(p)' /\ ArgOK(p)'
    BY Facts DEF StateOK, ArgOK, Idle
  <1>4. LoopOK(p)'
    <2> SUFFICES ASSUME NEW s \in Slot, s < idx[p] + 1, parent[s] = p
                 PROVE  /\ pc[p] # "reparent"
                        /\ pc[p] = "wait" /\ p # initproc => state[s] # "ZOMBIE"
      BY <1>2 DEF LoopOK
    <2>1. CASE s < idx[p]
      BY <2>1, Facts DEF LoopOK
    <2>2. CASE s = idx[p]
      BY <2>2 DEF IsChild
    <2>3. s < idx[p] \/ s = idx[p]
      BY Facts, SMTT(30) DEF Slot
    <2> QED  BY <2>1, <2>2, <2>3
  <1>5. \A s \in Slot : Holds(p, s)' <=> Holds(p, s)
    BY DEF Holds
  <1>6. /\ p = initproc => pc[p] \notin Exiting
        /\ DOMAIN arg' = Slot /\ \A q \in Slot \ {p} : arg'[q] = arg[q]
    BY DEF ProcInv, InitOK, TypeOK
  <1> QED  BY <1>1, <1>2, <1>3, <1>4, <1>5, <1>6, KeepStep

\* A turn of a loop over proc[] that finds nothing to do with the slot and releases it.
LEMMA SkipActions ==
  ASSUME ProcInv, NEW p \in Slot,
         \/ AllocSkip(p) \/ ReparentSkip(p) \/ WaitSkip(p) \/ WaitLiveChild(p) \/ KillSkip(p)
  PROVE  ProcInv'
  <1>1. /\ pc[p] \in {"alloc", "kill", "wait", "reparent"} /\ idx[p] < NPROC
        /\ pc[p] = "reparent" => ~IsChild(p)
        /\ pc[p] = "wait" => ~IsChild(p) \/ state[idx[p]] # "ZOMBIE"
    BY DEF AllocSkip, ReparentSkip, WaitSkip, WaitLiveChild, KillSkip, Scanning
  <1>2. SetIdx(p, idx[p] + 1) /\ UNCHANGED <<state, parent, killed, lock, pc, arg>>
    BY DEF AllocSkip, ReparentSkip, WaitSkip, WaitLiveChild, KillSkip, table
  <1> QED  BY <1>1, <1>2, SkipStep

\* Back in user mode, the process itself satisfies the invariant.
LEMMA Returned ==
  ASSUME ProcInv, NEW p \in Slot, Return(p), state'[p] = "RUNNING"
  PROVE  /\ pc' = [pc EXCEPT ![p] = "user"] /\ pc'[p] = "user" /\ "user" \in Label
         /\ idx' \in [Slot -> 0..NPROC] /\ DOMAIN arg' = Slot
         /\ \A q \in Slot \ {p} : pc'[q] = pc[q] /\ idx'[q] = idx[q] /\ arg'[q] = arg[q]
         /\ StateOK(p)' /\ ArgOK(p)' /\ LoopOK(p)'
         /\ \A s \in Slot : ~Holds(p, s)'
  <1>1. /\ pc' = [pc EXCEPT ![p] = "user"] /\ pc'[p] = "user" /\ "user" \in Label
        /\ \A q \in Slot \ {p} : pc'[q] = pc[q]
    BY DEF Return, Goto, ProcInv, TypeOK, Label
  <1>2. /\ idx' \in [Slot -> 0..NPROC] /\ idx'[p] = 0
        /\ \A q \in Slot \ {p} : idx'[q] = idx[q]
    BY Facts, SMTT(30) DEF Return, SetIdx, ProcInv, TypeOK
  <1>3. DOMAIN arg' = Slot /\ \A q \in Slot \ {p} : arg'[q] = arg[q]
    BY DEF Return, SetArg, ProcInv, TypeOK
  <1>4. StateOK(p)' /\ ArgOK(p)'
    BY <1>1, <1>2 DEF StateOK, ArgOK, Departing
  <1>5. LoopOK(p)'
    BY <1>1, <1>2 DEF LoopOK, Slot
  <1>6. \A s \in Slot : ~Holds(p, s)'
    BY <1>1 DEF Holds
  <1> QED  BY <1>1, <1>2, <1>3, <1>4, <1>5, <1>6

\* allocproc() and kill() reach the end of proc[] and return a failure.
LEMMA NoneStep ==
  ASSUME ProcInv, NEW p \in Slot, AllocNone(p) \/ KillNone(p)
  PROVE  ProcInv'
  <1>1. /\ pc[p] \in {"alloc", "kill"} /\ Return(p)
        /\ UNCHANGED <<state, parent, killed, lock>>
    BY DEF AllocNone, KillNone, Scanned, table
  <1>2. state'[p] = "RUNNING"
    BY <1>1, Facts DEF StateOK
  <1>3. \A s \in Slot : ~Holds(p, s)
    BY <1>1 DEF Holds
  <1> QED  BY <1>1, <1>2, <1>3, Returned, KeepStep DEF Exiting

\* exit() copies p->parent under p->lock, to lock the parent first.
LEMMA ExitReadParentStep ==
  ASSUME ProcInv, NEW p \in Slot, ExitReadParent(p)
  PROVE  ProcInv'
  <1>1. /\ pc[p] = "exit_parent" /\ pc' = [pc EXCEPT ![p] = "exit_lock_parent"]
        /\ arg' = [arg EXCEPT ![p] = parent[p]]
        /\ UNCHANGED <<state, parent, killed, lock, idx>>
    BY DEF ExitReadParent, Goto, SetArg, table
  <1>2. /\ "exit_lock_parent" \in Label /\ pc'[p] = "exit_lock_parent" /\ arg'[p] = parent[p]
        /\ DOMAIN arg' = Slot /\ \A q \in Slot \ {p} : arg'[q] = arg[q]
        /\ idx' \in [Slot -> 0..NPROC]
    BY <1>1 DEF Label, Exiting, ProcInv, TypeOK
  <1>3. p # initproc
    BY <1>1 DEF ProcInv, InitOK, Exiting
  <1>4. state[p] = "RUNNING" /\ parent[p] \in Slot
    BY <1>1, <1>3, Facts, SMTT(30) DEF StateOK, ParentOK, ProcInv, TypeOK
  <1>5. StateOK(p)' /\ ArgOK(p)'
    BY <1>1, <1>2, <1>4, Facts DEF StateOK, ArgOK, Idle
  <1>6. LoopOK(p)'
    BY <1>1, <1>2 DEF LoopOK
  <1>7. \A s \in Slot : Holds(p, s)' <=> Holds(p, s)
    BY <1>1, <1>2 DEF Holds
  <1> QED  BY <1>1, <1>2, <1>3, <1>5, <1>6, <1>7, KeepStep

-----------------------------------------------------------------------------
(* Steps that take or release a lock and leave the table alone *)

\* acquire(&s->lock), for a lock that is free.
LEMMA AcquireStep ==
  ASSUME ProcInv, NEW p \in Slot, UNCHANGED <<state, parent, killed, idx>>,
         NEW k \in Slot, Free(k), lock' = [lock EXCEPT ![k] = p],
         NEW l \in Label, pc' = [pc EXCEPT ![p] = l],
         DOMAIN arg' = Slot, \A q \in Slot \ {p} : arg'[q] = arg[q],
         \A s \in Slot : Holds(p, s)' <=> Holds(p, s) \/ s = k,
         StateOK(p)', ArgOK(p)', LoopOK(p)', p = initproc => l \notin Exiting
  PROVE  ProcInv'
  <1>1. p # None /\ \A q \in Slot : q # None
    BY ProcAssumption DEF ProcAssumption
  <1>2. TypeOK' /\ OthersStay(p) /\ pc'[p] = l
    BY <1>1 DEF ProcInv, TypeOK, OthersStay, Free
  <1>3. \A s \in Slot : lock'[s] = p <=> Holds(p, s)'
    BY DEF ProcInv, Locks, TypeOK
  <1> QED  BY <1>2, <1>3, LocalStep

\* A return to user mode that releases the only lock that the process holds.
LEMMA ReleaseStep ==
  ASSUME ProcInv, NEW p \in Slot, UNCHANGED <<state, parent, killed>>, state[p] = "RUNNING",
         NEW k \in Slot, lock' = [lock EXCEPT ![k] = None], Return(p),
         \A s \in Slot : Holds(p, s) <=> s = k
  PROVE  ProcInv'
  <1>1. p # None /\ \A q \in Slot : q # None
    BY ProcAssumption DEF ProcAssumption
  <1>2. state'[p] = "RUNNING"
    OBVIOUS
  <1>3. lock[k] = p
    BY DEF ProcInv, Locks
  <1>4. TypeOK' /\ OthersStay(p)
    BY <1>1, <1>2, <1>3, Returned, SMTT(30) DEF ProcInv, TypeOK, OthersStay
  <1>5. \A s \in Slot : lock'[s] # p
    BY <1>1 DEF ProcInv, Locks, TypeOK
  <1> QED  BY <1>2, <1>4, <1>5, Returned, LocalStep DEF Exiting

\* wait() takes the caller's own p->lock, which it keeps until it sleeps or returns.
LEMMA WaitCallStep ==
  ASSUME ProcInv, NEW p \in Slot, WaitCall(p)
  PROVE  ProcInv'
  <1>1. /\ pc[p] = "user" /\ pc' = [pc EXCEPT ![p] = "wait"] /\ pc'[p] = "wait" /\ "wait" \in Label
        /\ Free(p) /\ lock' = [lock EXCEPT ![p] = p]
        /\ UNCHANGED <<state, parent, killed, idx, arg>>
    BY Facts DEF WaitCall, Trap, Goto, table, locals, Label
  <1>2. StateOK(p)' /\ ArgOK(p)'
    BY <1>1, Facts DEF StateOK, ArgOK, Idle, Departing
  <1>3. LoopOK(p)'
    BY <1>1, Facts, SMTT(30) DEF LoopOK, StateOK, Idle, Slot
  <1>4. \A s \in Slot : Holds(p, s)' <=> Holds(p, s) \/ s = p
    BY <1>1 DEF Holds
  <1>5. DOMAIN arg' = Slot /\ "wait" \notin Exiting
    BY <1>1 DEF ProcInv, TypeOK, Exiting
  <1> QED  BY <1>1, <1>2, <1>3, <1>4, <1>5, AcquireStep

\* allocproc() found an UNUSED slot and returns with its lock held.
LEMMA AllocFoundStep ==
  ASSUME ProcInv, NEW p \in Slot, AllocFound(p)
  PROVE  ProcInv'
  <1>1. PICK k \in Slot : k = idx[p]
    BY Facts DEF AllocFound, Scanning
  <1>2. /\ pc[p] = "alloc" /\ pc' = [pc EXCEPT ![p] = "fork"] /\ pc'[p] = "fork"
        /\ "fork" \in Label /\ Free(k) /\ state[k] = "UNUSED" /\ lock' = [lock EXCEPT ![k] = p]
        /\ arg' = [arg EXCEPT ![p] = k] /\ UNCHANGED <<state, parent, killed, idx>>
    BY <1>1, Facts DEF AllocFound, Scanning, Goto, SetArg, Label
  <1>3. arg'[p] = k /\ DOMAIN arg' = Slot /\ \A q \in Slot \ {p} : arg'[q] = arg[q]
    BY <1>2 DEF ProcInv, TypeOK
  <1>4. StateOK(p)' /\ ArgOK(p)'
    BY <1>2, <1>3, Facts DEF StateOK, ArgOK, Idle, Departing
  <1>5. LoopOK(p)'
    BY <1>2 DEF LoopOK
  <1>6. \A s \in Slot : Holds(p, s)' <=> Holds(p, s) \/ s = k
    BY <1>2, <1>3 DEF Holds
  <1>7. "fork" \notin Exiting
    BY DEF Exiting
  <1> QED  BY <1>2, <1>3, <1>4, <1>5, <1>6, <1>7, AcquireStep

\* exit() takes the lock of the process it found as its parent, then its own.
LEMMA ExitLockStep ==
  ASSUME ProcInv, NEW p \in Slot, ExitLockParent(p) \/ ExitLockSelf(p)
  PROVE  ProcInv'
  <1>1. PICK k, l :
          /\ k \in Slot
          /\ \/ pc[p] = "exit_lock_parent" /\ l = "exit_lock_self" /\ k = arg[p]
             \/ pc[p] = "exit_lock_self" /\ l = "reparent" /\ k = p
          /\ pc' = [pc EXCEPT ![p] = l] /\ Free(k) /\ lock' = [lock EXCEPT ![k] = p]
    BY Facts DEF ExitLockParent, ExitLockSelf, Goto, ArgOK, Departing
  <1>2. UNCHANGED <<state, parent, killed, idx, arg>>
    BY DEF ExitLockParent, ExitLockSelf, table, locals
  <1>3. l \in Label /\ pc'[p] = l
    BY <1>1, Facts DEF Label, Exiting
  <1>4. idx[p] = 0
    BY <1>1, Facts DEF StateOK, Idle
  <1>5. StateOK(p)' /\ ArgOK(p)'
    BY <1>1, <1>2, <1>3, <1>4, Facts DEF StateOK, ArgOK, Idle, Departing
  <1>6. LoopOK(p)'
    BY <1>2, <1>4, SMTT(30) DEF LoopOK, Slot
  <1>7. \A s \in Slot : Holds(p, s)' <=> Holds(p, s) \/ s = k
    BY <1>1, <1>2, <1>3 DEF Holds
  <1>8. p # initproc
    BY <1>1 DEF ProcInv, InitOK, Exiting
  <1>9. DOMAIN arg' = Slot
    BY <1>2 DEF ProcInv, TypeOK
  <1> QED  BY <1>1, <1>2, <1>3, <1>5, <1>6, <1>7, <1>8, <1>9, AcquireStep

\* The failures that release what they hold: no memory in allocproc(), a copyout() in
\* wait() that fails, a wait() without children or by a killed process.
LEMMA FailureStep ==
  ASSUME ProcInv, NEW p \in Slot, AllocNoMemory(p) \/ WaitCopyoutFails(p) \/ WaitFails(p)
  PROVE  ProcInv'
  <1>1. PICK k \in Slot : /\ (pc[p] = "fork" /\ k = arg[p]) \/ (pc[p] = "wait" /\ k = p)
                         /\ lock' = [lock EXCEPT ![k] = None]
    BY Facts DEF AllocNoMemory, WaitCopyoutFails, WaitFails, Scanning, Scanned, ArgOK
  <1>2. Return(p) /\ UNCHANGED <<state, parent, killed>>
    BY DEF AllocNoMemory, WaitCopyoutFails, WaitFails, table
  <1>3. \A s \in Slot : Holds(p, s) <=> s = k
    BY <1>1, SMTT(30) DEF Holds
  <1>4. state[p] = "RUNNING"
    BY <1>1, Facts DEF StateOK
  <1> QED  BY <1>1, <1>2, <1>3, <1>4, ReleaseStep

-----------------------------------------------------------------------------
(* Steps that change the table *)

\* The state of one process goes from SLEEPING to RUNNABLE, or to RUNNING when it
\* gets a CPU: what the invariant says of the others.
Awakes(s) ==
  /\ state' \in [Slot -> {"UNUSED", "SLEEPING", "RUNNABLE", "RUNNING", "ZOMBIE"}]
  /\ \A q \in Slot \ {s} : state'[q] = state[q]
  /\ state'[s] # state[s] => state[s] \in {"SLEEPING", "RUNNABLE"}
  /\ state'[s] # state[s] => state'[s] \in {"RUNNABLE", "RUNNING"}
  /\ parent' = parent

\* A process that wakes, or gets a CPU, keeps its parent alive and owes nobody a wakeup.
LEMMA AwakeTable ==
  ASSUME ProcInv, NEW k \in Slot, Awakes(k), NEW q \in Slot, killed'[q] = killed[q] \/ q = k,
         killed'[k] => state'[k] # "SLEEPING"
  PROVE  ParentOK(q)' /\ WokenOK(q)' /\ (Alive(initproc) => Alive(initproc)')
  <1>1. \A s \in Slot : Alive(s) => Alive(s)'
    BY DEF Awakes, Alive
  <1>2. state'[q] \in {"UNUSED", "ZOMBIE"} => state'[q] = state[q]
    BY DEF Awakes
  <1>3. state[q] = "UNUSED" => state'[q] = "UNUSED"
    BY DEF Awakes
  <1>4. \A s \in Slot : state'[s] = "SLEEPING" => state[s] = "SLEEPING"
    BY DEF Awakes
  <1>5. parent[q] \in Slot \cup {None} /\ initproc \in Slot
    BY DEF ProcInv, TypeOK, InitOK
  <1>6. ParentOK(q) /\ WokenOK(q)
    BY DEF ProcInv
  <1>7. ParentOK(q)'
    BY <1>1, <1>2, <1>3, <1>5, <1>6 DEF ParentOK, Awakes
  <1>8. killed'[q] => state'[q] # "SLEEPING"
    BY <1>4, <1>6 DEF WokenOK
  <1>9. ASSUME state'[q] = "ZOMBIE", parent[q] # initproc PROVE state'[parent[q]] # "SLEEPING"
    <2>1. q # initproc /\ parent[q] \in Slot
      BY <1>2, <1>5, <1>6, <1>9 DEF ProcInv, InitOK, Alive, ParentOK
    <2> QED  BY <1>2, <1>4, <1>6, <1>9, <2>1 DEF WokenOK
  <1> QED  BY <1>1, <1>5, <1>7, <1>8, <1>9 DEF WokenOK, Awakes

\* A step that wakes a process, or runs it, has to establish only what the invariant
\* says of the process that takes it and of the one that wakes.
LEMMA AwakeStep ==
  ASSUME ProcInv, TypeOK', NEW p \in Slot, NEW k \in Slot, Awakes(k),
         \A q \in Slot \ {k} : killed'[q] = killed[q], killed'[k] => state'[k] # "SLEEPING",
         OthersStay(p), \A s \in Slot : lock'[s] = p <=> Holds(p, s)',
         StateOK(p)', StateOK(k)', ArgOK(p)', LoopOK(p)', p = initproc => pc'[p] \notin Exiting
  PROVE  ProcInv'
  <1>1. Locks'
    BY OthersHold
  <1>2. ASSUME NEW q \in Slot, q # p PROVE StateOK(q)' /\ ArgOK(q)' /\ LoopOK(q)'
    <2>1. pc'[q] = pc[q] /\ idx'[q] = idx[q] /\ arg'[q] = arg[q]
      BY <1>2 DEF OthersStay
    <2>2. StateOK(q) /\ ArgOK(q) /\ LoopOK(q)
      BY DEF ProcInv
    <2>3. q # k => StateOK(q)'
      BY <2>1, <2>2 DEF StateOK, Awakes
    <2>4. ArgOK(q)'
      BY <2>1, <2>2 DEF ArgOK, Awakes
    <2>5. \A s \in Slot : state'[s] = "ZOMBIE" => state[s] = "ZOMBIE"
      BY DEF Awakes
    <2>6. LoopOK(q)'
      BY <2>1, <2>2, <2>5 DEF LoopOK, Awakes
    <2> QED  BY <2>3, <2>4, <2>6
  <1>3. ASSUME NEW q \in Slot
        PROVE  ParentOK(q)' /\ WokenOK(q)' /\ (Alive(initproc) => Alive(initproc)')
    BY AwakeTable
  <1>4. InitOK'
    BY <1>3 DEF ProcInv, InitOK, OthersStay, Awakes
  <1> QED  BY <1>1, <1>2, <1>3, <1>4 DEF ProcInv

\* wakeup1() makes a process that sleeps in wait() RUNNABLE and changes nothing else.
LEMMA Wakes ==
  ASSUME ProcInv, NEW k \in Slot, state' = Wakeup1(state, k), parent' = parent
  PROVE  /\ Awakes(k) /\ state'[k] # "SLEEPING"
         /\ IF pc[k] = "sleep" THEN state'[k] = "RUNNABLE" ELSE state'[k] = state[k]
  <1>1. StateOK(k)
    BY DEF ProcInv
  <1> QED  BY <1>1 DEF Wakeup1, Awakes, StateOK, ProcInv, TypeOK

\* exit() wakes init before it looks at its own parent.
LEMMA ExitWakeInitStep ==
  ASSUME ProcInv, NEW p \in Slot, ExitWakeInit(p)
  PROVE  ProcInv'
  <1>1. /\ pc[p] = "exit_init" /\ state' = Wakeup1(state, initproc)
        /\ pc' = [pc EXCEPT ![p] = "exit_parent"] /\ pc'[p] = "exit_parent"
        /\ UNCHANGED <<parent, killed, lock, idx, arg>>
    BY DEF ExitWakeInit, Goto, locals, ProcInv, TypeOK
  <1>2. initproc \in Slot /\ p # initproc
    BY <1>1 DEF ProcInv, InitOK, Exiting
  <1>3. Awakes(initproc) /\ state'[initproc] # "SLEEPING" /\ state'[p] = state[p]
    BY <1>1, <1>2, Wakes DEF Awakes
  <1>4. TypeOK' /\ OthersStay(p)
    BY <1>1, <1>3 DEF ProcInv, TypeOK, OthersStay, Awakes, Label, Exiting
  <1>5. StateOK(p)' /\ ArgOK(p)'
    BY <1>1, <1>3, Facts DEF StateOK, ArgOK, Idle, Departing
  <1>6. StateOK(initproc)'
    <2>1. StateOK(initproc) /\ pc'[initproc] = pc[initproc] /\ Alive(initproc)
      BY <1>2, <1>4 DEF ProcInv, OthersStay, InitOK
    <2> QED  BY <1>1, <1>3, <2>1, SMTT(30) DEF StateOK, Awakes, Alive, Wakeup1
  <1>7. LoopOK(p)'
    BY <1>1 DEF LoopOK
  <1>8. \A s \in Slot : lock'[s] = p <=> Holds(p, s)'
    BY <1>1 DEF ProcInv, Locks, Holds
  <1> QED  BY <1>1, <1>2, <1>3, <1>4, <1>5, <1>6, <1>7, <1>8, AwakeStep

\* kill() marks its victim under the victim's lock, and wakes it.
LEMMA KillHitStep ==
  ASSUME ProcInv, NEW p \in Slot, KillHit(p)
  PROVE  ProcInv'
  <1>1. PICK k \in Slot : k = idx[p]
    BY Facts DEF KillHit, Scanning
  <1>2. /\ pc[p] = "kill" /\ killed' = [killed EXCEPT ![k] = TRUE] /\ state' = Wakeup1(state, k)
        /\ Return(p) /\ UNCHANGED <<parent, lock>>
    BY <1>1 DEF KillHit, Scanning
  <1>3. /\ Awakes(k) /\ state'[k] # "SLEEPING"
        /\ IF pc[k] = "sleep" THEN state'[k] = "RUNNABLE" ELSE state'[k] = state[k]
    BY <1>2, Wakes
  <1>4. state'[p] = "RUNNING" /\ state[p] = "RUNNING"
    BY <1>2, <1>3, Facts DEF StateOK, Awakes
  <1>5. /\ pc'[p] = "user" /\ pc' = [pc EXCEPT ![p] = "user"] /\ "user" \in Label
        /\ idx' \in [Slot -> 0..NPROC] /\ DOMAIN arg' = Slot
        /\ \A q \in Slot \ {p} : pc'[q] = pc[q] /\ idx'[q] = idx[q] /\ arg'[q] = arg[q]
        /\ StateOK(p)' /\ ArgOK(p)' /\ LoopOK(p)' /\ \A s \in Slot : ~Holds(p, s)'
    BY <1>2, <1>4, Returned
  <1>6. TypeOK' /\ OthersStay(p)
    <2>1. killed' \in [Slot -> BOOLEAN]
      BY <1>2 DEF ProcInv, TypeOK
    <2>2. pc' \in [Slot -> Label]
      BY <1>5 DEF ProcInv, TypeOK
    <2> QED  BY <1>2, <1>3, <1>5, <2>1, <2>2 DEF ProcInv, TypeOK, OthersStay, Awakes
  <1>7. StateOK(k)'
    <2>1. CASE k = p
      BY <1>5, <2>1
    <2>2. CASE k # p
      <3>1. StateOK(k) /\ pc'[k] = pc[k] /\ idx'[k] = idx[k]
        BY <1>5, <2>2 DEF ProcInv
      <3> QED  BY <1>3, <3>1 DEF StateOK, Awakes
    <2> QED  BY <2>1, <2>2
  <1>8. \A s \in Slot : lock[s] # p
    BY <1>2 DEF ProcInv, Locks, Holds
  <1>9. \A q \in Slot \ {k} : killed'[q] = killed[q]
    BY <1>2 DEF ProcInv, TypeOK
  <1> QED  BY <1>2, <1>3, <1>5, <1>6, <1>7, <1>8, <1>9, AwakeStep DEF Exiting

\* The scheduler gives a CPU to a process that fork() has made, or that wakeup1()
\* or kill() has woken.
LEMMA RunStep ==
  ASSUME ProcInv, NEW p \in Slot, Run(p)
  PROVE  ProcInv'
  <1>1. PICK l : /\ \/ /\ pc[p] = "forkret" /\ l = "user" /\ lock' = lock
                    \/ /\ pc[p] = "sleep" /\ l = "wait" /\ lock' = [lock EXCEPT ![p] = p]
                 /\ pc' = [pc EXCEPT ![p] = l]
    BY DEF Run, RunForkret, RunWait, Goto
  <1>2. /\ state[p] = "RUNNABLE" /\ state' = [state EXCEPT ![p] = "RUNNING"] /\ Free(p)
        /\ UNCHANGED <<parent, killed, idx, arg>>
    BY DEF Run, RunForkret, RunWait, locals
  <1>3. l \in Label /\ pc'[p] = l /\ state'[p] = "RUNNING" /\ l \notin Exiting
    BY <1>1, <1>2 DEF Label, Exiting, ProcInv, TypeOK
  <1>4. Awakes(p)
    BY <1>2 DEF Awakes, ProcInv, TypeOK
  <1>5. p # None /\ \A q \in Slot : q # None
    BY ProcAssumption DEF ProcAssumption
  <1>6. lock' \in [Slot -> Slot \cup {None}]
    BY <1>1 DEF ProcInv, TypeOK
  <1>7. TypeOK' /\ OthersStay(p)
    <2>1. OthersStay(p)
      BY <1>1, <1>2, <1>5 DEF ProcInv, TypeOK, OthersStay, Free
    <2> QED  BY <1>1, <1>2, <1>3, <1>4, <1>6, <2>1 DEF ProcInv, TypeOK, Awakes
  <1>8. idx[p] = 0
    BY <1>1, Facts DEF StateOK, Idle
  <1>9. StateOK(p)' /\ ArgOK(p)'
    BY <1>1, <1>2, <1>3, <1>8 DEF StateOK, ArgOK, Departing
  <1>10. LoopOK(p)'
    BY <1>2, <1>8, SMTT(30) DEF LoopOK, Slot
  <1>11. \A s \in Slot : lock'[s] = p <=> Holds(p, s)'
    BY <1>1, <1>2, <1>3, <1>5, SMTT(30) DEF ProcInv, Locks, Holds, TypeOK
  <1> QED  BY <1>2, <1>3, <1>4, <1>7, <1>9, <1>10, <1>11, AwakeStep

\* wait() has looked at every slot, and holds p->lock, without which no child can
\* become a zombie.
LEMMA WaitSleepStep ==
  ASSUME ProcInv, NEW p \in Slot, WaitSleep(p)
  PROVE  ProcInv'
  <1>1. /\ pc[p] = "wait" /\ idx[p] = NPROC /\ ~killed[p]
        /\ state' = [state EXCEPT ![p] = "SLEEPING"] /\ lock' = [lock EXCEPT ![p] = None]
        /\ pc' = [pc EXCEPT ![p] = "sleep"] /\ idx' = [idx EXCEPT ![p] = 0]
        /\ UNCHANGED <<parent, killed, arg>>
    BY DEF WaitSleep, Scanned, GiveUp, SetIdx, Goto
  <1>2. /\ state'[p] = "SLEEPING" /\ pc'[p] = "sleep" /\ idx'[p] = 0
        /\ \A q \in Slot \ {p} : state'[q] = state[q]
    BY <1>1, Facts DEF ProcInv, TypeOK
  <1>3. \A q \in Slot : q # None
    BY ProcAssumption DEF ProcAssumption
  <1>4. lock[p] = p /\ \A s \in Slot : lock[s] = p => s = p
    BY <1>1 DEF ProcInv, Locks, Holds
  <1>5. TypeOK' /\ OthersStay(p)
    BY <1>1, <1>3, <1>4, Facts, SMTT(30) DEF ProcInv, TypeOK, OthersStay, Label
  <1>6. \A s \in Slot : lock'[s] # p /\ ~Holds(p, s)'
    BY <1>1, <1>2, <1>3, <1>4 DEF Holds, ProcInv, TypeOK
  <1>7. Locks'
    BY <1>5, <1>6, OthersHold
  <1>8. state[p] = "RUNNING" /\ \A s \in Slot : parent[s] = p /\ p # initproc => state[s] # "ZOMBIE"
    BY <1>1, Facts, SMTT(30) DEF StateOK, LoopOK, Slot
  <1>9. ASSUME NEW q \in Slot PROVE StateOK(q)' /\ ArgOK(q)' /\ LoopOK(q)'
    <2>1. CASE q = p
      BY <1>2, <2>1 DEF StateOK, ArgOK, LoopOK, Departing, Slot
    <2>2. CASE q # p
      <3>1. /\ pc'[q] = pc[q] /\ idx'[q] = idx[q] /\ arg'[q] = arg[q] /\ state'[q] = state[q]
            /\ StateOK(q) /\ ArgOK(q) /\ LoopOK(q)
        BY <1>2, <1>5, <2>2 DEF OthersStay, ProcInv
      <3>2. StateOK(q)'
        BY <3>1 DEF StateOK
      <3>3. ArgOK(q)'
        BY <1>1, <1>2, <1>8, <3>1, SMTT(30) DEF ArgOK
      <3>4. LoopOK(q)'
        BY <1>1, <1>2, <1>8, <3>1 DEF LoopOK
      <3> QED  BY <3>2, <3>3, <3>4
    <2> QED  BY <2>1, <2>2
  <1>10. \A q \in Slot : Alive(q)' <=> Alive(q)
    BY <1>2, <1>8 DEF Alive
  <1>11. ASSUME NEW q \in Slot PROVE ParentOK(q)' /\ WokenOK(q)'
    <2>1. /\ parent[q] \in Slot \cup {None} /\ ParentOK(q) /\ WokenOK(q)
          /\ state'[q] = "UNUSED" <=> state[q] = "UNUSED"
          /\ state'[q] = "ZOMBIE" <=> state[q] = "ZOMBIE"
      BY <1>2, <1>8 DEF ProcInv, TypeOK
    <2>2. ParentOK(q)'
      BY <1>1, <1>10, <2>1 DEF ParentOK
    <2>3. killed'[q] => state'[q] # "SLEEPING"
      BY <1>1, <1>2, <2>1 DEF WokenOK
    <2>4. state[q] = "ZOMBIE" => q # initproc
      BY DEF ProcInv, InitOK, Alive
    <2>5. state[q] = "ZOMBIE" /\ parent[q] # initproc => state'[parent[q]] # "SLEEPING"
      BY <1>2, <1>8, <2>1, <2>4 DEF ParentOK, WokenOK
    <2> QED  BY <1>1, <2>1, <2>2, <2>3, <2>5 DEF WokenOK
  <1>12. InitOK'
    BY <1>1, <1>5, <1>10, Facts DEF ProcInv, InitOK, Exiting, TypeOK
  <1> QED  BY <1>5, <1>7, <1>9, <1>11, <1>12 DEF ProcInv

\* exit() gives one child to init.
LEMMA ReparentChildStep ==
  ASSUME ProcInv, NEW p \in Slot, ReparentChild(p)
  PROVE  ProcInv'
  <1>1. PICK k \in Slot : k = idx[p]
    BY Facts DEF ReparentChild, Scanning
  <1>2. /\ pc[p] = "reparent" /\ parent[k] = p /\ parent' = [parent EXCEPT ![k] = initproc]
        /\ idx' = [idx EXCEPT ![p] = idx[p] + 1] /\ idx[p] < NPROC
        /\ UNCHANGED <<state, killed, lock, pc, arg>>
    BY <1>1 DEF ReparentChild, Scanning, IsChild, SetIdx
  <1>3. /\ p # initproc /\ k # initproc /\ p # None /\ Alive(initproc)
    BY <1>2, Facts DEF ProcInv, InitOK, Exiting
  <1>4. /\ parent'[k] = initproc /\ \A s \in Slot \ {k} : parent'[s] = parent[s]
    BY <1>2 DEF ProcInv, TypeOK
  <1>5. TypeOK' /\ OthersStay(p) /\ idx'[p] = idx[p] + 1
    BY <1>2, Facts, SMTT(30) DEF ProcInv, TypeOK, OthersStay
  <1>6. Locks'
    BY <1>2, SMTT(30) DEF ProcInv, Locks, Holds
  <1>7. ASSUME NEW q \in Slot PROVE StateOK(q)' /\ ArgOK(q)'
    <2>1. StateOK(q) /\ ArgOK(q)
      BY DEF ProcInv
    <2>2. idx'[q] = idx[q] \/ (q = p /\ pc[q] \notin Idle)
      BY <1>2, <1>5 DEF OthersStay, Idle
    <2> QED  BY <1>2, <1>4, <2>1, <2>2 DEF StateOK, ArgOK
  <1>8. ASSUME NEW q \in Slot PROVE LoopOK(q)'
    <2>1. LoopOK(q) /\ LoopOK(p)
      BY DEF ProcInv
    <2>2. CASE q = p
      <3> SUFFICES ASSUME NEW s \in Slot, s < idx[p] + 1, parent'[s] = p PROVE FALSE
        BY <1>5, <2>2 DEF LoopOK
      <3>1. s # k /\ parent[s] = p
        BY <1>3, <1>4
      <3>2. s < idx[p]
        BY <1>1, <3>1, Facts, SMTT(30) DEF Slot
      <3> QED  BY <1>2, <2>1, <3>1, <3>2 DEF LoopOK
    <2>3. CASE q = initproc
      <3>1. pc[q] # "reparent"
        BY <2>3 DEF ProcInv, InitOK, Exiting
      <3> QED  BY <1>2, <2>3, <3>1 DEF LoopOK
    <2>4. CASE q # p /\ q # initproc
      <3>1. idx'[q] = idx[q]
        BY <1>5, <2>4 DEF OthersStay
      <3> QED  BY <1>2, <1>4, <2>1, <2>4, <3>1 DEF LoopOK
    <2> QED  BY <2>2, <2>3, <2>4
  <1>9. ASSUME NEW q \in Slot PROVE ParentOK(q)' /\ WokenOK(q)'
    <2>1. ParentOK(q) /\ WokenOK(q) /\ ParentOK(k)
      BY DEF ProcInv
    <2>2. CASE q = k
      <3>1. Alive(initproc)' /\ initproc # None
        BY <1>2, <1>3, Facts, ProcAssumption DEF Alive, ProcAssumption
      <3>2. state[k] # "UNUSED"
        BY <1>2, <1>3, <2>1 DEF ParentOK
      <3> QED  BY <1>2, <1>4, <2>1, <2>2, <3>1, <3>2 DEF ParentOK, WokenOK
    <2>3. CASE q # k
      BY <1>2, <1>4, <2>1, <2>3 DEF ParentOK, WokenOK, Alive
    <2> QED  BY <2>2, <2>3
  <1>10. InitOK'
    BY <1>2, <1>3, <1>4 DEF ProcInv, InitOK, Alive
  <1> QED  BY <1>5, <1>6, <1>7, <1>8, <1>9, <1>10 DEF ProcInv

\* exit() becomes a zombie: it has no child any more, its parent is init or the one
\* whose lock it holds, and that one is awake.
LEMMA ExitZombieStep ==
  ASSUME ProcInv, NEW p \in Slot, ExitZombie(p)
  PROVE  ProcInv'
  <1>1. PICK k \in Slot : k = arg[p] /\ parent[p] \in {k, initproc}
    BY Facts DEF ExitZombie, Scanned, ArgOK, Departing
  <1>2. /\ pc[p] = "reparent" /\ idx[p] = NPROC
        /\ state' = [Wakeup1(state, k) EXCEPT ![p] = "ZOMBIE"]
        /\ lock' = [lock EXCEPT ![k] = None, ![p] = None]
        /\ pc' = [pc EXCEPT ![p] = "none"] /\ idx' = [idx EXCEPT ![p] = 0]
        /\ arg' = [arg EXCEPT ![p] = None] /\ UNCHANGED <<parent, killed>>
    BY <1>1 DEF ExitZombie, Scanned, Goto, SetIdx, SetArg
  <1>3. /\ state' \in [Slot -> {"UNUSED", "SLEEPING", "RUNNABLE", "RUNNING", "ZOMBIE"}]
        /\ state'[p] = "ZOMBIE" /\ state'[k] # "SLEEPING"
        /\ \A q \in Slot \ {p} : state'[q] = IF q = k /\ state[q] = "SLEEPING" THEN "RUNNABLE"
                                                                           ELSE state[q]
    BY <1>2 DEF Wakeup1, ProcInv, TypeOK
  <1>4. \A q \in Slot : q # None
    BY ProcAssumption DEF ProcAssumption
  <1>5. lock[p] = p /\ lock[k] = p /\ \A s \in Slot : lock[s] = p => s \in {p, k}
    BY <1>1, <1>2 DEF ProcInv, Locks, Holds
  <1>6. TypeOK' /\ OthersStay(p) /\ pc'[p] = "none" /\ idx'[p] = 0
    BY <1>2, <1>3, <1>4, <1>5, Facts, SMTT(30) DEF ProcInv, TypeOK, OthersStay, Label
  <1>7. \A s \in Slot : lock'[s] # p /\ ~Holds(p, s)'
    BY <1>2, <1>4, <1>5, <1>6 DEF Holds, ProcInv, TypeOK
  <1>8. Locks'
    BY <1>6, <1>7, OthersHold
  <1>9. p # initproc /\ state[p] = "RUNNING" /\ \A s \in Slot : parent[s] # p
    BY <1>2, Facts, SMTT(30) DEF StateOK, LoopOK, Slot, ProcInv, InitOK, Exiting
  <1>10. ASSUME NEW q \in Slot PROVE StateOK(q)' /\ ArgOK(q)' /\ LoopOK(q)'
    <2>1. CASE q = p
      BY <1>3, <1>6, <2>1 DEF StateOK, ArgOK, LoopOK, Departing, Slot
    <2>2. CASE q # p
      <3>1. /\ pc'[q] = pc[q] /\ idx'[q] = idx[q] /\ arg'[q] = arg[q]
            /\ StateOK(q) /\ ArgOK(q) /\ LoopOK(q)
        BY <1>6, <2>2 DEF OthersStay, ProcInv
      <3>2. StateOK(q)'
        BY <1>3, <2>2, <3>1 DEF StateOK
      <3>3. ArgOK(q)'
        BY <1>2, <1>3, <1>9, <3>1 DEF ArgOK
      <3>4. LoopOK(q)'
        <4>1. pc[q] = "wait" /\ q # initproc => parent[p] # q
          BY <1>1, <1>5, <2>2 DEF ProcInv, Locks, Holds
        <4> QED  BY <1>2, <1>3, <3>1, <4>1 DEF LoopOK
      <3> QED  BY <3>2, <3>3, <3>4
    <2> QED  BY <2>1, <2>2
  <1>11. \A q \in Slot \ {p} : Alive(q) => Alive(q)'
    BY <1>3 DEF Alive
  <1>12. ASSUME NEW q \in Slot PROVE ParentOK(q)' /\ WokenOK(q)'
    <2>1. /\ parent[q] \in Slot \cup {None} /\ ParentOK(q) /\ WokenOK(q)
          /\ state'[q] = "UNUSED" <=> state[q] = "UNUSED"
      BY <1>3, <1>9 DEF ProcInv, TypeOK
    <2>2. ParentOK(q)'
      BY <1>2, <1>9, <1>11, <2>1 DEF ParentOK
    <2>3. killed'[q] => state'[q] # "SLEEPING"
      BY <1>2, <1>3, <2>1 DEF WokenOK
    <2>4. state'[q] = "ZOMBIE" /\ parent[q] # initproc => state'[parent[q]] # "SLEEPING"
      <3>1. CASE q = p
        BY <1>1, <1>3, <3>1
      <3>2. CASE q # p
        <4>1. state'[q] = "ZOMBIE" => state[q] = "ZOMBIE" /\ q # initproc
          BY <1>3, <3>2 DEF ProcInv, InitOK, Alive
        <4> QED  BY <1>3, <1>9, <2>1, <3>2, <4>1 DEF ParentOK, WokenOK
      <3> QED  BY <3>1, <3>2
    <2> QED  BY <1>2, <2>2, <2>3, <2>4 DEF WokenOK
  <1>13. InitOK'
    BY <1>2, <1>6, <1>9, <1>11 DEF ProcInv, InitOK, OthersStay
  <1> QED  BY <1>6, <1>8, <1>10, <1>12, <1>13 DEF ProcInv

\* freeproc(k), by wait() of a zombie or by fork() that fails: nobody's parent is k.
LEMMA FreeprocStep ==
  ASSUME ProcInv, NEW p \in Slot, WaitReap(p) \/ ForkNoMemory(p)
  PROVE  ProcInv'
  <1>1. PICK k \in Slot, j \in Slot :
          /\ \/ pc[p] = "wait" /\ k = idx[p] /\ parent[k] = p /\ state[k] = "ZOMBIE" /\ j = p
             \/ pc[p] = "fork" /\ k = arg[p] /\ state[k] = "UNUSED" /\ j = k
          /\ Freeproc(k) /\ lock' = [lock EXCEPT ![j] = None]
    BY Facts DEF WaitReap, ForkNoMemory, Scanning, IsChild, ArgOK
  <1>2. Return(p)
    BY DEF WaitReap, ForkNoMemory
  <1>3. /\ state[p] = "RUNNING" /\ k # p /\ p # None /\ k # initproc /\ pc[k] = "none"
    <2>1. StateOK(p) /\ StateOK(k) /\ p # None
      BY Facts
    <2> QED  BY <1>1, <2>1 DEF StateOK, ProcInv, InitOK, Alive
  <1>4. /\ state' \in [Slot -> {"UNUSED", "SLEEPING", "RUNNABLE", "RUNNING", "ZOMBIE"}]
        /\ state'[k] = "UNUSED" /\ \A q \in Slot \ {k} : state'[q] = state[q]
        /\ parent' \in [Slot -> Slot \cup {None}]
        /\ parent'[k] = None /\ \A q \in Slot \ {k} : parent'[q] = parent[q]
    BY <1>1 DEF Freeproc, ProcInv, TypeOK
  <1>5. /\ killed' \in [Slot -> BOOLEAN] /\ ~killed'[k]
        /\ \A q \in Slot \ {k} : killed'[q] = killed[q]
    BY <1>1 DEF Freeproc, ProcInv, TypeOK
  <1>6. /\ pc'[p] = "user" /\ pc' = [pc EXCEPT ![p] = "user"] /\ "user" \in Label
        /\ idx' \in [Slot -> 0..NPROC] /\ DOMAIN arg' = Slot
        /\ \A q \in Slot \ {p} : pc'[q] = pc[q] /\ idx'[q] = idx[q] /\ arg'[q] = arg[q]
        /\ StateOK(p)' /\ ArgOK(p)' /\ LoopOK(p)' /\ \A s \in Slot : ~Holds(p, s)'
    BY <1>2, <1>3, <1>4, Returned
  <1>7. \A q \in Slot : q # None
    BY ProcAssumption DEF ProcAssumption
  <1>8. lock[j] = p /\ \A s \in Slot : lock[s] = p => s = j
    BY <1>1, SMTT(30) DEF ProcInv, Locks, Holds
  <1>9. TypeOK'
    <2>1. pc' \in [Slot -> Label] /\ lock' \in [Slot -> Slot \cup {None}]
      BY <1>1, <1>6 DEF ProcInv, TypeOK
    <2> QED  BY <1>4, <1>5, <1>6, <2>1 DEF TypeOK
  <1>10. OthersStay(p) /\ \A s \in Slot : lock'[s] # p
    BY <1>1, <1>6, <1>7, <1>8 DEF OthersStay, ProcInv, TypeOK
  <1>11. Locks'
    BY <1>6, <1>10, OthersHold
  <1>12. ASSUME NEW q \in Slot, q # p PROVE StateOK(q)' /\ ArgOK(q)' /\ LoopOK(q)'
    <2>1. /\ pc'[q] = pc[q] /\ idx'[q] = idx[q] /\ arg'[q] = arg[q]
          /\ StateOK(q) /\ ArgOK(q) /\ LoopOK(q)
      BY <1>6, <1>12 DEF ProcInv
    <2>2. StateOK(q)'
      BY <1>3, <1>4, <2>1 DEF StateOK
    <2>3. ArgOK(q)'
      BY <1>3, <1>4, <2>1 DEF ArgOK, Departing
    <2>4. LoopOK(q)'
      BY <1>4, <1>7, <2>1 DEF LoopOK
    <2> QED  BY <2>2, <2>3, <2>4
  <1>13. ~Alive(k) /\ \A q \in Slot \ {k} : Alive(q)' <=> Alive(q)
    BY <1>1, <1>4 DEF Alive
  <1>14. ASSUME NEW q \in Slot PROVE ParentOK(q)' /\ WokenOK(q)'
    <2>1. parent[q] \in Slot \cup {None} /\ ParentOK(q) /\ WokenOK(q)
      BY DEF ProcInv, TypeOK
    <2>2. CASE q = k
      BY <1>4, <1>5, <2>2 DEF ParentOK, WokenOK
    <2>3. CASE q # k
      <3>1. ParentOK(q)'
        BY <1>4, <1>13, <2>1, <2>3 DEF ParentOK
      <3>2. state[q] = "ZOMBIE" => q # initproc
        BY DEF ProcInv, InitOK, Alive
      <3>3. WokenOK(q)'
        BY <1>4, <1>5, <1>13, <2>1, <2>3, <3>2 DEF WokenOK, ParentOK
      <3> QED  BY <3>1, <3>3
    <2> QED  BY <2>2, <2>3
  <1>15. InitOK'
    BY <1>3, <1>4, <1>6, <1>13 DEF ProcInv, InitOK, Exiting
  <1> QED  BY <1>6, <1>9, <1>11, <1>12, <1>14, <1>15 DEF ProcInv

\* fork() makes the slot that allocproc() gave it RUNNABLE, with the caller as its parent.
LEMMA ForkStepOK ==
  ASSUME ProcInv, NEW p \in Slot, Fork(p)
  PROVE  ProcInv'
  <1>1. PICK k \in Slot : k = arg[p] /\ state[k] = "UNUSED"
    BY Facts DEF Fork, ArgOK
  <1>2. /\ pc[p] = "fork" /\ parent' = [parent EXCEPT ![k] = p]
        /\ state' = [state EXCEPT ![k] = "RUNNABLE"] /\ lock' = [lock EXCEPT ![k] = None]
        /\ pc' = [pc EXCEPT ![p] = "user", ![k] = "forkret"] /\ idx' = [idx EXCEPT ![p] = 0]
        /\ arg' = [arg EXCEPT ![p] = None] /\ killed' = killed
    BY <1>1 DEF Fork, SetIdx, SetArg
  <1>3. /\ state[p] = "RUNNING" /\ k # p /\ p # None /\ k # initproc /\ pc[k] = "none"
        /\ idx[k] = 0
    <2>1. StateOK(p) /\ StateOK(k) /\ p # None
      BY Facts
    <2> QED  BY <1>1, <1>2, <2>1 DEF StateOK, ProcInv, InitOK, Alive, Idle
  <1>4. /\ state' \in [Slot -> {"UNUSED", "SLEEPING", "RUNNABLE", "RUNNING", "ZOMBIE"}]
        /\ state'[k] = "RUNNABLE" /\ \A q \in Slot \ {k} : state'[q] = state[q]
        /\ parent' \in [Slot -> Slot \cup {None}]
        /\ parent'[k] = p /\ \A q \in Slot \ {k} : parent'[q] = parent[q]
    BY <1>2 DEF ProcInv, TypeOK
  <1>5. /\ pc' \in [Slot -> Label] /\ pc'[p] = "user" /\ pc'[k] = "forkret"
        /\ \A q \in Slot \ {p, k} : pc'[q] = pc[q]
    BY <1>2, <1>3 DEF ProcInv, TypeOK, Label
  <1>6. /\ idx' \in [Slot -> 0..NPROC] /\ idx'[p] = 0 /\ idx'[k] = 0
        /\ \A q \in Slot \ {p} : idx'[q] = idx[q]
        /\ DOMAIN arg' = Slot /\ \A q \in Slot \ {p} : arg'[q] = arg[q]
    BY <1>2, <1>3, Facts DEF ProcInv, TypeOK
  <1>7. \A q \in Slot : q # None
    BY ProcAssumption DEF ProcAssumption
  <1>8. lock[k] = p /\ \A s \in Slot : lock[s] = p => s = k
    BY <1>1, <1>2 DEF ProcInv, Locks, Holds
  <1>9. TypeOK'
    BY <1>2, <1>4, <1>5, <1>6 DEF ProcInv, TypeOK
  <1>10. Locks'
    <2>1. \A q \in Slot \ {p, k}, s \in Slot : Holds(q, s)' <=> Holds(q, s)
      BY <1>5, <1>6 DEF Holds
    <2>2. \A s \in Slot : ~Holds(p, s)' /\ ~Holds(k, s)' /\ ~Holds(k, s)
      BY <1>3, <1>5 DEF Holds
    <2>3. \A s \in Slot : lock'[s] = IF s = k THEN None ELSE lock[s]
      BY <1>2 DEF ProcInv, TypeOK
    <2> QED  BY <1>7, <1>8, <2>1, <2>2, <2>3, SMTT(30) DEF ProcInv, Locks
  <1>11. ASSUME NEW q \in Slot PROVE StateOK(q)' /\ ArgOK(q)' /\ LoopOK(q)'
    <2>1. CASE q \in {p, k}
      <3>1. StateOK(q)' /\ ArgOK(q)'
        BY <1>3, <1>4, <1>5, <1>6, <2>1, SMTT(30) DEF StateOK, ArgOK, Departing
      <3>2. LoopOK(q)'
        BY <1>6, <2>1, SMTT(30) DEF LoopOK, Slot
      <3> QED  BY <3>1, <3>2
    <2>2. CASE q \notin {p, k}
      <3>1. /\ pc'[q] = pc[q] /\ idx'[q] = idx[q] /\ arg'[q] = arg[q] /\ state'[q] = state[q]
            /\ StateOK(q) /\ ArgOK(q) /\ LoopOK(q)
        BY <1>4, <1>5, <1>6, <2>2 DEF ProcInv
      <3>2. StateOK(q)'
        BY <3>1 DEF StateOK
      <3>3. pc[q] = "fork" => arg[q] # k
        BY <1>8, <2>2 DEF ProcInv, Locks, Holds
      <3>4. ArgOK(q)'
        BY <1>4, <2>2, <3>1, <3>3 DEF ArgOK
      <3>5. LoopOK(q)'
        BY <1>4, <2>2, <3>1 DEF LoopOK
      <3> QED  BY <3>2, <3>4, <3>5
    <2> QED  BY <2>1, <2>2
  <1>12. \A q \in Slot : Alive(q) => Alive(q)'
    BY <1>4 DEF Alive
  <1>13. ASSUME NEW q \in Slot PROVE ParentOK(q)' /\ WokenOK(q)'
    <2>1. parent[q] \in Slot \cup {None} /\ ParentOK(q) /\ WokenOK(q)
      BY DEF ProcInv, TypeOK
    <2>2. CASE q = k
      BY <1>3, <1>4, <2>2 DEF ParentOK, WokenOK, Alive
    <2>3. CASE q # k
      <3>1. ParentOK(q)'
        BY <1>4, <1>12, <2>1, <2>3 DEF ParentOK
      <3>2. state[q] = "ZOMBIE" => q # initproc
        BY DEF ProcInv, InitOK, Alive
      <3>3. WokenOK(q)'
        BY <1>2, <1>4, <2>1, <2>3, <3>2 DEF WokenOK, ParentOK
      <3> QED  BY <3>1, <3>3
    <2> QED  BY <2>2, <2>3
  <1>14. InitOK'
    <2>1. pc'[initproc] \notin Exiting
      BY <1>3, <1>5 DEF ProcInv, InitOK, Exiting
    <2> QED  BY <1>3, <1>4, <1>12, <2>1 DEF ProcInv, InitOK
  <1> QED  BY <1>9, <1>10, <1>11, <1>13, <1>14 DEF ProcInv

-----------------------------------------------------------------------------
(* The theorems *)

\* userinit() leaves a table in which init alone is in use.
LEMMA ProcInit ==
  ASSUME Init
  PROVE  ProcInv
  <1>1. NPROC \in Nat \ {0} /\ initproc \in Slot /\ None \notin Slot
    BY ProcAssumption, SMTT(30) DEF ProcAssumption, Slot, initproc
  <1>2. TypeOK
    BY <1>1, ProcAssumption, SMTT(30) DEF ProcAssumption, Init, TypeOK, Label
  <1>3. ASSUME NEW s \in Slot PROVE StateOK(s) /\ ArgOK(s)
    BY DEF Init, StateOK, ArgOK, Idle, Departing
  <1>4. Locks
    BY <1>1 DEF Init, Locks, Holds
  <1>5. InitOK
    BY <1>1, ProcAssumption DEF ProcAssumption, Init, InitOK, Alive, Exiting, Exists
  <1>6. ASSUME NEW s \in Slot PROVE ParentOK(s) /\ WokenOK(s)
    <2>1. Tree[s] # None => Tree[s] \in Slot /\ Exists(Tree[s])
      BY ProcAssumption DEF ProcAssumption, Exists
    <2>2. s = initproc => Tree[s] = None
      BY ProcAssumption DEF ProcAssumption
    <2> QED  BY <1>1, <2>1, <2>2 DEF Init, ParentOK, WokenOK, Alive, Exists
  <1>7. ASSUME NEW s \in Slot PROVE LoopOK(s)
    BY DEF Init, LoopOK, Slot
  <1> QED  BY <1>2, <1>3, <1>4, <1>5, <1>6, <1>7 DEF ProcInv

\* Every step of the process table keeps the invariant.
LEMMA ProcNext ==
  ASSUME ProcInv, [Next]_vars
  PROVE  ProcInv'
  <1>1. ASSUME NEW p \in Slot, SysCall(p) PROVE ProcInv'
    BY <1>1, CallStep, WaitCallStep DEF SysCall
  <1>2. ASSUME NEW p \in Slot, ForkStep(p) PROVE ProcInv'
    BY <1>2, SkipActions, NoneStep, AllocFoundStep, FailureStep, FreeprocStep, ForkStepOK
       DEF ForkStep
  <1>3. ASSUME NEW p \in Slot, ExitStep(p) PROVE ProcInv'
    BY <1>3, ExitWakeInitStep, ExitReadParentStep, ExitLockStep, SkipActions,
       ReparentChildStep, ExitZombieStep DEF ExitStep
  <1>4. ASSUME NEW p \in Slot, WaitStep(p) PROVE ProcInv'
    BY <1>4, SkipActions, FreeprocStep, FailureStep, WaitSleepStep DEF WaitStep
  <1>5. ASSUME NEW p \in Slot, KillStep(p) PROVE ProcInv'
    BY <1>5, SkipActions, KillHitStep, NoneStep DEF KillStep
  <1>6. ASSUME UNCHANGED vars PROVE ProcInv'
    <2>1. UNCHANGED <<state, parent, killed, lock, pc, idx, arg>>
      BY <1>6 DEF vars, table, locals
    <2>2. TypeOK' /\ Locks' /\ InitOK'
      BY <2>1, SMTT(30) DEF ProcInv, TypeOK, Locks, Holds, InitOK, Alive
    <2>3. ASSUME NEW s \in Slot
          PROVE  StateOK(s)' /\ ArgOK(s)' /\ ParentOK(s)' /\ LoopOK(s)' /\ WokenOK(s)'
      BY <2>1 DEF ProcInv, StateOK, ArgOK, ParentOK, LoopOK, WokenOK, Alive
    <2> QED  BY <2>2, <2>3 DEF ProcInv
  <1> QED  BY <1>1, <1>2, <1>3, <1>4, <1>5, <1>6, RunStep DEF Next, KernelStep

\* Every state of fork, exit, wait and kill, on a table of any size, satisfies the
\* invariant.
THEOREM ProcInvariant == Spec => []ProcInv
  BY ProcInit, ProcNext, PTL DEF Spec

\* Every process but init has a living parent: exit() gives its children away before
\* it becomes a zombie (proc.c:368, 374).
THEOREM ParentsLive == Spec => []LivingParent
  <1>1. ProcInv => LivingParent
    BY DEF ProcInv, ParentOK, LivingParent
  <1> QED  BY <1>1, ProcInvariant, PTL

\* No process but init sleeps in wait() while a child of it is a zombie, and none
\* that has been killed does (proc.c:392, 427, 619-625).
THEOREM WaitMissesNobody == Spec => []NoMissedChild
  <1>1. ProcInv => NoMissedChild
    BY DEF ProcInv, WokenOK, NoMissedChild
  <1> QED  BY <1>1, ProcInvariant, PTL
=============================================================================

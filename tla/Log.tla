-------------------------------- MODULE Log --------------------------------
(***************************************************************************)
(* The redo log of kernel/log.c: begin_op, log_write, end_op, commit, and  *)
(* recovery after a crash at any point.                                    *)
(*                                                                         *)
(* Each action is one critical section of log.lock, or one iteration of a  *)
(* loop that writes one disk block: virtio_disk_rw() returns only when the *)
(* block is on disk, so a crash falls between two block writes.  The       *)
(* buffer cache is seen through what log.c uses of it: the contents bread  *)
(* returns, the reference count that bpin, bunpin, bread and brelse leave  *)
(* behind, and bget's recycling of a buffer whose count is zero.           *)
(***************************************************************************)
EXTENDS Naturals, Sequences, FiniteSets

CONSTANTS
  Proc,         \* processes that make file-system calls
  Block,        \* the blocks the log protects
  Val,          \* the contents of a block
  None,         \* no buffer, no block
  MAXOPBLOCKS,  \* param.h: reserved by begin_op() for one call
  LOGSIZE,      \* param.h: what begin_op() takes for the size of the log
  NLOG,         \* sb.nlog: blocks of the on-disk log, the header among them
  OPBLOCKS,     \* the distinct blocks a system call really writes
  UINTMOD,      \* 2^32 in the code: b->refcnt is a uint
  Recycling,    \* do other breads recycle buffers nobody references?
  Crashes       \* does the machine crash?

ASSUME LogAssumption ==
  /\ IsFiniteSet(Proc) /\ IsFiniteSet(Block)
  /\ Val # {} /\ None \notin Val /\ None \notin Block
  /\ MAXOPBLOCKS \in Nat /\ LOGSIZE \in Nat /\ NLOG \in Nat /\ OPBLOCKS \in Nat
  /\ OPBLOCKS <= MAXOPBLOCKS
  /\ 2 * MAXOPBLOCKS <= LOGSIZE
  /\ NLOG = LOGSIZE              \* mkfs.c: int nlog = LOGSIZE
  /\ UINTMOD \in Nat \ {0, 1, 2}
  /\ Recycling \in BOOLEAN /\ Crashes \in BOOLEAN

VARIABLES
  home,         \* on disk: the home location of each block
  loghead,      \* on disk: the log header, block[0..n-1]
  logdata,      \* on disk: the data blocks of the log
  cache,        \* the buffer that holds a block, or None
  refcnt,       \* its reference count between two uses of it
  lh,           \* log.lh: the blocks logged by the current transaction
  outstanding,  \* log.outstanding
  committing,   \* log.committing
  boot,         \* how far initlog() has come: "read_head" .. "run"
  tail,         \* the loop variable of write_log() and install_trans()
  pc,           \* where each process is
  holds,        \* the block whose buffer each process has locked, or None
  wrote         \* the blocks each running system call has logged

disk == <<home, loghead, logdata>>
bufs == <<cache, refcnt>>
ops == <<outstanding, committing>>
calls == <<holds, wrote>>
vars == <<disk, bufs, lh, ops, boot, tail, pc, calls>>

Logged == {lh[i] : i \in 1..Len(lh)}
Wrote(p) == {b \in Block : <<p, b>> \in wrote}
Active == {p \in Proc : pc[p] \in {"op", "log_write"}}

\* bread(): the buffer if there is one, otherwise the block read from disk.
Bread(b) == IF cache[b] # None THEN cache[b] ELSE home[b]

\* What bread, bpin, bunpin and brelse do to b->refcnt, a uint.  Mutant: a
\* bpin() that does nothing.
Up(n) == (n + 1) % UINTMOD
Down(n) == (n + UINTMOD - 1) % UINTMOD
BpinNothing(n) == n
Bpin(n) == Up(n)
Bunpin(n) == Down(n)
Brelse(n) == Down(n)

\* wakeup(&log): every process asleep in begin_op() runs its loop again.
Wakeup(f) == [p \in Proc |-> IF f[p] = "asleep" THEN "begin" ELSE f[p]]

-----------------------------------------------------------------------------
\* Power-on with a disk made by mkfs: an empty log, and forkret() is about to
\* run fsinit() -> initlog() -> recover_from_log().
Init == /\ home \in [Block -> Val]
        /\ loghead = <<>>
        /\ logdata = [i \in 1..(NLOG - 1) |-> CHOOSE v \in Val : TRUE]
        /\ cache = [b \in Block |-> None]
        /\ refcnt = [b \in Block |-> 0]
        /\ lh = <<>>
        /\ outstanding = 0
        /\ committing = FALSE
        /\ boot = "read_head"
        /\ tail = 1
        /\ pc = [p \in Proc |-> "idle"]
        /\ holds = [p \in Proc |-> None]
        /\ wrote = {}

-----------------------------------------------------------------------------
(* begin_op *)

\* Mutant: the operation that begins does not count itself.
NoRoomOffByOne == Len(lh) + outstanding * MAXOPBLOCKS > LOGSIZE

\* "this op might exhaust log space"
NoRoom == Len(lh) + (outstanding + 1) * MAXOPBLOCKS > LOGSIZE

\* Mutant: begin_op() does not wait for a commit to end.
WaitForSpaceOnly == NoRoom

MustWait == committing \/ NoRoom

BeginSleep(p) ==
  /\ boot = "run"
  /\ pc[p] \in {"idle", "begin"}
  /\ MustWait
  /\ pc' = [pc EXCEPT ![p] = "asleep"]
  /\ UNCHANGED <<disk, bufs, lh, ops, boot, tail, calls>>

BeginAdmit(p) ==
  /\ boot = "run"
  /\ pc[p] \in {"idle", "begin"}
  /\ ~MustWait
  /\ outstanding' = outstanding + 1
  /\ pc' = [pc EXCEPT ![p] = "op"]
  /\ UNCHANGED <<disk, bufs, lh, committing, boot, tail, calls>>

(* bread, modify, log_write, brelse *)

\* The test that makes log_write() panic "too big a transaction".
TooBig == Len(lh) >= LOGSIZE \/ Len(lh) >= NLOG - 1

\* The caller's side of param.h's MAXOPBLOCKS: a bound on distinct blocks.
MayWrite(p, b) == b \in Wrote(p) \/ Cardinality(Wrote(p)) < OPBLOCKS

\* The caller locks the buffer with bread() and modifies it; log_write() then
\* makes its two tests, before it takes log.lock.
Modify(p, b, v) ==
  /\ pc[p] = "op"
  /\ MayWrite(p, b)
  /\ \A q \in Proc : holds[q] # b
  /\ ~TooBig /\ outstanding >= 1
  /\ cache' = [cache EXCEPT ![b] = v]
  /\ refcnt' = [refcnt EXCEPT ![b] = Up(@)]
  /\ holds' = [holds EXCEPT ![p] = b]
  /\ pc' = [pc EXCEPT ![p] = "log_write"]
  /\ UNCHANGED <<disk, lh, ops, boot, tail, wrote>>

\* The rest of log_write(), under log.lock, and the caller's brelse(): a block
\* that is not yet in the log is appended and pinned.
LogWrite(p) ==
  LET b == holds[p]
      absorbed == b \in Logged
  IN /\ pc[p] = "log_write"
     /\ lh' = IF absorbed THEN lh ELSE Append(lh, b)
     /\ refcnt' = [refcnt EXCEPT ![b] = Brelse(IF absorbed THEN @ ELSE Bpin(@))]
     /\ wrote' = wrote \cup {<<p, b>>}
     /\ holds' = [holds EXCEPT ![p] = None]
     /\ pc' = [pc EXCEPT ![p] = "op"]
     /\ UNCHANGED <<disk, cache, ops, boot, tail>>

(* end_op: not the last one, or the last one, which commits *)

Forget(p) == wrote' = {w \in wrote : w[1] # p}

EndOp(p) ==
  /\ pc[p] = "op"
  /\ ~committing                           \* panic("log[dev].committing")
  /\ outstanding # 1
  /\ outstanding' = outstanding - 1
  /\ pc' = Wakeup([pc EXCEPT ![p] = "idle"])
  /\ Forget(p)
  /\ UNCHANGED <<disk, bufs, lh, committing, boot, tail, holds>>

EndOpCommit(p) ==
  /\ pc[p] = "op"
  /\ ~committing
  /\ outstanding = 1
  /\ outstanding' = 0
  /\ committing' = TRUE
  /\ pc' = [pc EXCEPT ![p] = IF Len(lh) > 0 THEN "write_log" ELSE "committed"]
  /\ tail' = 1
  /\ Forget(p)
  /\ UNCHANGED <<disk, bufs, lh, boot, holds>>

(* commit *)

\* write_log(): copy one modified block from the cache to the log.
WriteLog(p) ==
  /\ pc[p] = "write_log"
  /\ tail <= Len(lh)
  /\ logdata' = [logdata EXCEPT ![tail] = Bread(lh[tail])]
  /\ cache' = [cache EXCEPT ![lh[tail]] = Bread(lh[tail])]
  /\ tail' = tail + 1
  /\ UNCHANGED <<home, loghead, refcnt, lh, ops, boot, pc, calls>>

\* write_head(): the true point at which the transaction commits.
WriteHead(p) ==
  /\ pc[p] = "write_log"
  /\ tail > Len(lh)
  /\ loghead' = lh
  /\ tail' = 1
  /\ pc' = [pc EXCEPT ![p] = "install"]
  /\ UNCHANGED <<home, logdata, bufs, lh, ops, boot, calls>>

\* One iteration of install_trans(): bread, memmove, bwrite, bunpin, brelse.
InstallBlock ==
  /\ tail <= Len(lh)
  /\ home' = [home EXCEPT ![lh[tail]] = logdata[tail]]
  /\ cache' = [cache EXCEPT ![lh[tail]] = logdata[tail]]
  /\ refcnt' = [refcnt EXCEPT ![lh[tail]] = Brelse(Bunpin(Up(@)))]
  /\ tail' = tail + 1

\* Mutant: install_trans() leaves out the last block.
EraseHeadTooSoon ==
  /\ tail >= Len(lh)
  /\ lh' = <<>> /\ loghead' = <<>> /\ tail' = 1

\* log.lh.n = 0; write_head(): erase the transaction from the log.
EraseHead ==
  /\ tail > Len(lh)
  /\ lh' = <<>>
  /\ loghead' = <<>>
  /\ tail' = 1

Install(p) ==
  /\ pc[p] = "install"
  /\ InstallBlock
  /\ UNCHANGED <<loghead, logdata, lh, ops, boot, pc, calls>>

Erase(p) ==
  /\ pc[p] = "install"
  /\ EraseHead
  /\ pc' = [pc EXCEPT ![p] = "committed"]
  /\ UNCHANGED <<home, logdata, bufs, ops, boot, calls>>

\* The end of end_op(), after commit() has returned.
Committed(p) ==
  /\ pc[p] = "committed"
  /\ committing' = FALSE
  /\ pc' = Wakeup([pc EXCEPT ![p] = "idle"])
  /\ UNCHANGED <<disk, bufs, lh, outstanding, boot, tail, calls>>

-----------------------------------------------------------------------------
(* recover_from_log, run by the first process before any other exists *)

ReadHead ==
  /\ boot = "read_head"
  /\ lh' = loghead
  /\ tail' = 1
  /\ boot' = "install"
  /\ UNCHANGED <<disk, bufs, ops, pc, calls>>

RecoverInstall ==
  /\ boot = "install"
  /\ InstallBlock
  /\ UNCHANGED <<loghead, logdata, lh, ops, boot, pc, calls>>

RecoverErase ==
  /\ boot = "install"
  /\ EraseHead
  /\ boot' = "run"
  /\ UNCHANGED <<home, logdata, bufs, ops, pc, calls>>

-----------------------------------------------------------------------------
(* bget() gives a buffer with refcnt 0 to another block *)
Recycle(b) ==
  /\ Recycling
  /\ boot = "run"
  /\ cache[b] # None
  /\ refcnt[b] = 0
  /\ cache' = [cache EXCEPT ![b] = None]
  /\ UNCHANGED <<disk, refcnt, lh, ops, boot, tail, pc, calls>>

(* The machine stops and is switched on again: only the disk survives. *)
Crash ==
  /\ Crashes
  /\ cache' = [b \in Block |-> None]
  /\ refcnt' = [b \in Block |-> 0]
  /\ lh' = <<>>
  /\ outstanding' = 0
  /\ committing' = FALSE
  /\ boot' = "read_head"
  /\ tail' = 1
  /\ pc' = [p \in Proc |-> "idle"]
  /\ holds' = [p \in Proc |-> None]
  /\ wrote' = {}
  /\ UNCHANGED disk

-----------------------------------------------------------------------------
CommitStep(p) == \/ WriteLog(p) \/ WriteHead(p) \/ Install(p) \/ Erase(p)
                 \/ Committed(p)
Recovery == ReadHead \/ RecoverInstall \/ RecoverErase
LeaveOp(p) == EndOp(p) \/ EndOpCommit(p)

Next == \/ \E p \in Proc : \/ BeginSleep(p) \/ BeginAdmit(p)
                           \/ LogWrite(p) \/ LeaveOp(p) \/ CommitStep(p)
        \/ \E p \in Proc, b \in Block, v \in Val : Modify(p, b, v)
        \/ Recovery
        \/ \E b \in Block : Recycle(b)
        \/ Crash

\* A process that runs in the kernel keeps running, so a log_write(), a commit
\* and a recovery that were begun finish.  System calls make finitely many
\* log_write()s and then call end_op(), so that, again and again, one does: strong
\* fairness, because end_op() is not enabled while the call is inside log_write().
Leave == \E p \in Proc : LeaveOp(p)
Fairness == /\ WF_vars(Recovery) /\ SF_vars(Leave)
            /\ \A p \in Proc : WF_vars(LogWrite(p)) /\ WF_vars(CommitStep(p))

Spec == Init /\ [][Next]_vars
FairSpec == Spec /\ Fairness

-----------------------------------------------------------------------------
TypeOK ==
  /\ home \in [Block -> Val]
  /\ loghead \in Seq(Block)
  /\ logdata \in [1..(NLOG - 1) -> Val]
  /\ cache \in [Block -> Val \cup {None}]
  /\ refcnt \in [Block -> 0..(UINTMOD - 1)]
  /\ lh \in Seq(Block)
  /\ outstanding \in Nat
  /\ committing \in BOOLEAN
  /\ boot \in {"read_head", "install", "run"}
  /\ tail \in Nat \ {0}
  /\ pc \in [Proc -> {"idle", "begin", "asleep", "op", "log_write", "write_log",
                      "install", "committed"}]
  /\ holds \in [Proc -> Block \cup {None}]
  /\ wrote \subseteq Proc \X Block

\* No system call that keeps to OPBLOCKS makes log_write() panic with "too big
\* a transaction" (log.c:219): the space begin_op() reserves is really there.
NeverTooBig ==
  \A p \in Proc : \A b \in Block : (pc[p] = "op" /\ MayWrite(p, b)) => ~TooBig

\* The log commits only when no system call is active (log.c:13): while one
\* process is in commit(), no other is inside an operation or in commit().
CommitAlone ==
  \A p \in Proc : pc[p] \in {"write_log", "install", "committed"} =>
    \A q \in Proc \ {p} : pc[q] \in {"idle", "begin", "asleep"}

\* A block that log_write() has recorded stays in the cache until the commit
\* has installed it ("pin in the cache by increasing refcnt", log.c:205).
LoggedInCache ==
  LET installing == \E p \in Proc : pc[p] = "install"
  IN boot = "run" => \A i \in 1..Len(lh) :
                       (installing => i >= tail) => cache[lh[i]] # None

\* begin_op() is never forgotten: whoever sleeps on &log, for space or for a
\* commit to end, is woken by a later end_op() (log.c:157-162, 171).
SleeperWoken == \A p \in Proc : pc[p] = "asleep" ~> pc[p] # "asleep"

\* The contents a reboot would recover: home, overwritten by the log if its
\* header says that a transaction has committed.
Recovered ==
  [b \in Block |-> IF \E i \in 1..Len(loghead) : loghead[i] = b
                   THEN logdata[CHOOSE i \in 1..Len(loghead) : loghead[i] = b]
                   ELSE home[b]]

\* The contents a system call reads.
Current == IF boot = "run" THEN [b \in Block |-> Bread(b)] ELSE Recovered

A == INSTANCE AtomicDisk WITH mem <- Current, stable <- Recovered,
                              active <- Active

\* Every system call is all or nothing across crashes: log.c implements the
\* atomic disk, whatever the crash interrupts, recovery included.
AtomicAcrossCrashes == A!ASpec
=============================================================================

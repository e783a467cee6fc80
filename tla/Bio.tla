-------------------------------- MODULE Bio --------------------------------
(***************************************************************************)
(* The buffer cache: bget, bread, bwrite, brelse, bpin and bunpin of       *)
(* kernel/bio.c, with the sleeplock of each buffer (kernel/sleeplock.c).   *)
(*                                                                         *)
(* A step is one critical section of bcache.lock or of a buffer's          *)
(* sleeplock, or a disk transfer, which module Virtio models.  Clients     *)
(* keep to what the file system does with buffers: a block that was        *)
(* changed is written or pinned before brelse(), the log unpins it once it *)
(* is written, and a process asks for one buffer at a time (the few places *)
(* that hold two, bmap() with an indirect block and the bitmap, or the log, *)
(* ask for them in a fixed order).                                         *)
(***************************************************************************)
EXTENDS Naturals, FiniteSets

CONSTANTS
  Proc,     \* processes
  Block,    \* blocks on disk
  Val,      \* the contents of a block
  None,     \* no process, buffer or block
  NBUF,     \* buffers
  PINS      \* blocks that the log pins at the same time

Buf == 1..NBUF

ASSUME BioAssumption ==
  /\ IsFiniteSet(Proc) /\ None \notin Proc \cup Buf \cup Block
  /\ NBUF \in Nat /\ PINS \in Nat

VARIABLES
  mru,                      \* the list through next, from head.next to head.prev
  blockno, valid, refcnt,   \* the fields of struct buf
  data,
  locked,                   \* b->lock: the process that has it (lk->pid), or None
  disk,                     \* the blocks on disk
  pc, cur,                  \* where a process is in bread or brelse, and its b
  has,                      \* the buffers that bread has returned to it
  dirty,                    \* buffers changed and not yet written or pinned
  pinned,                   \* buffers in the log
  last                      \* the last value stored in each block

fields == <<blockno, valid, refcnt>>
clients == <<has, dirty, pinned>>
vars == <<mru, fields, data, locked, disk, pc, cur, clients, last>>

\* binit(): static memory, so every buffer stands for block 0, the boot
\* block, which nobody asks for.
Init ==
  /\ mru = [i \in Buf |-> NBUF + 1 - i]
  /\ blockno = [i \in Buf |-> None]
  /\ valid = [i \in Buf |-> FALSE]
  /\ refcnt = [i \in Buf |-> 0]
  /\ disk \in [Block -> Val] /\ last = disk
  /\ data = [i \in Buf |-> None]
  /\ locked = [i \in Buf |-> None]
  /\ pc = [p \in Proc |-> "run"]
  /\ cur = [p \in Proc |-> None]
  /\ has = [p \in Proc |-> {}]
  /\ dirty = {} /\ pinned = {}

Goto(p, l) == pc' = [pc EXCEPT ![p] = l]
SetCur(p, i) == cur' = [cur EXCEPT ![p] = i]

-----------------------------------------------------------------------------
(* bget and bread *)

Cached(b) == {i \in Buf : blockno[i] = b}
Unused == {i \in Buf : refcnt[i] = 0}
Place(i) == CHOOSE k \in 1..NBUF : mru[k] = i

\* The first in the list, and the last.
MostRecent(S) == CHOOSE i \in S : \A j \in S : Place(i) <= Place(j)
LeastRecent(S) == CHOOSE i \in S : \A j \in S : Place(i) >= Place(j)

MayAsk(p) == pc[p] = "run" /\ has[p] = {}

HitRef(n) == n + 1

BgetHit(p, b) ==
  LET i == MostRecent(Cached(b)) IN
  /\ MayAsk(p)
  /\ Cached(b) # {}
  /\ refcnt' = [refcnt EXCEPT ![i] = HitRef(@)]
  /\ SetCur(p, i)
  /\ Goto(p, "acquiresleep")
  /\ UNCHANGED <<mru, blockno, valid, data, locked, disk, clients, last>>

\* Mutant: valid is not reset.
MissValidKept(i) == valid[i]

MissValid(i) == FALSE

BgetMiss(p, b) ==
  LET i == LeastRecent(Unused) IN
  /\ MayAsk(p)
  /\ Cached(b) = {} /\ Unused # {}
  /\ blockno' = [blockno EXCEPT ![i] = b]
  /\ valid' = [valid EXCEPT ![i] = MissValid(i)]
  /\ refcnt' = [refcnt EXCEPT ![i] = 1]
  /\ SetCur(p, i)
  /\ Goto(p, "acquiresleep")
  /\ UNCHANGED <<mru, data, locked, disk, clients, last>>

SleepLockFree(i) == locked[i] = None

\* acquiresleep()
Acquiresleep(p) ==
  /\ pc[p] = "acquiresleep"
  /\ SleepLockFree(cur[p])
  /\ locked' = [locked EXCEPT ![cur[p]] = p]
  /\ Goto(p, "bread")
  /\ UNCHANGED <<mru, fields, data, disk, cur, clients, last>>

AcquiresleepWaits(p) ==
  /\ pc[p] = "acquiresleep"
  /\ ~SleepLockFree(cur[p])
  /\ Goto(p, "asleep")
  /\ UNCHANGED <<mru, fields, data, locked, disk, cur, clients, last>>

\* The rest of bread(): the block is read if the buffer has no contents yet.
Bread(p) ==
  LET i == cur[p] IN
  /\ pc[p] = "bread"
  /\ data' = IF valid[i] THEN data ELSE [data EXCEPT ![i] = disk[blockno[i]]]
  /\ valid' = [valid EXCEPT ![i] = TRUE]
  /\ has' = [has EXCEPT ![p] = @ \cup {i}]
  /\ SetCur(p, None)
  /\ Goto(p, "run")
  /\ UNCHANGED <<mru, blockno, refcnt, locked, disk, dirty, pinned, last>>

-----------------------------------------------------------------------------
(* What a process does with a buffer it has *)

Modify(p, i, v) ==
  /\ pc[p] = "run" /\ i \in has[p]
  /\ data' = [data EXCEPT ![i] = v]
  /\ last' = [last EXCEPT ![blockno[i]] = v]
  /\ dirty' = dirty \cup {i}
  /\ UNCHANGED <<mru, fields, locked, disk, pc, cur, has, pinned>>

Bwrite(p, i) ==
  /\ pc[p] = "run" /\ i \in has[p]
  /\ locked[i] = p                             \* panic("bwrite")
  /\ i \notin pinned /\ i \in dirty
  /\ disk' = [disk EXCEPT ![blockno[i]] = data[i]]
  /\ dirty' = dirty \ {i}
  /\ UNCHANGED <<mru, fields, data, locked, pc, cur, has, pinned, last>>

\* log_write(): bpin() unless the block is in the log.
Bpin(p, i) ==
  /\ pc[p] = "run" /\ i \in has[p] /\ i \in dirty
  /\ i \in pinned \/ Cardinality(pinned) < PINS
  /\ refcnt' = [refcnt EXCEPT ![i] = IF i \in pinned THEN @ ELSE @ + 1]
  /\ pinned' = pinned \cup {i}
  /\ dirty' = dirty \ {i}
  /\ UNCHANGED <<mru, blockno, valid, data, locked, disk, pc, cur, has, last>>

\* install_trans(): bwrite() and bunpin() of a block in the log.
WriteAndBunpin(p, i) ==
  /\ pc[p] = "run" /\ i \in has[p] /\ i \in pinned /\ i \notin dirty
  /\ disk' = [disk EXCEPT ![blockno[i]] = data[i]]
  /\ refcnt' = [refcnt EXCEPT ![i] = @ - 1]
  /\ pinned' = pinned \ {i}
  /\ UNCHANGED <<mru, blockno, valid, data, locked, pc, cur, has, dirty, last>>

-----------------------------------------------------------------------------
(* brelse *)

\* Mutant: releasesleep() wakes nobody.
WakeupNobody(f, i) == f

\* wakeup(lk): whoever waits for the buffer tries again.
Wakeup(f, i) == [p \in Proc |-> IF f[p] = "asleep" /\ cur[p] = i THEN "acquiresleep"
                                                                 ELSE f[p]]

Releasesleep(p, i) ==
  /\ pc[p] = "run" /\ i \in has[p] /\ i \notin dirty
  /\ locked[i] = p                             \* panic("brelse")
  /\ locked' = [locked EXCEPT ![i] = None]
  /\ has' = [has EXCEPT ![p] = @ \ {i}]
  /\ SetCur(p, i)
  /\ pc' = Wakeup([pc EXCEPT ![p] = "brelse"], i)
  /\ UNCHANGED <<mru, fields, data, disk, dirty, pinned, last>>

\* Mutant: the count is not taken down.
BrelseRefNot(n) == n

BrelseRef(n) == n - 1

\* The list once i is unlinked and linked again behind head.
MoveToFront(i) ==
  [k \in 1..NBUF |-> IF k = 1 THEN i ELSE IF k <= Place(i) THEN mru[k - 1] ELSE mru[k]]

\* Under bcache.lock: a buffer nobody uses becomes the most recently used one.
Brelse(p) ==
  LET i == cur[p] IN
  /\ pc[p] = "brelse"
  /\ refcnt' = [refcnt EXCEPT ![i] = BrelseRef(@)]
  /\ mru' = IF refcnt'[i] = 0 THEN MoveToFront(i) ELSE mru
  /\ SetCur(p, None)
  /\ Goto(p, "run")
  /\ UNCHANGED <<blockno, valid, data, locked, disk, clients, last>>

-----------------------------------------------------------------------------
Step(p) == Acquiresleep(p) \/ AcquiresleepWaits(p) \/ Bread(p) \/ Brelse(p)
Use(p, i) == \/ \E v \in Val : Modify(p, i, v)
             \/ Bwrite(p, i) \/ Bpin(p, i) \/ WriteAndBunpin(p, i)

Next == \E p \in Proc : \/ \E b \in Block : BgetHit(p, b) \/ BgetMiss(p, b)
                        \/ \E i \in Buf : Use(p, i) \/ Releasesleep(p, i)
                        \/ Step(p)

Spec == Init /\ [][Next]_vars

-----------------------------------------------------------------------------
\* "Only one process at a time can use a buffer" (bio.c:13), a block is in one
\* buffer at most, so no two processes have the same block, and who has it sees
\* what was last stored in it, whatever was evicted and read again in between ("a
\* locked buf with the contents of the indicated block", bio.c:89).
Coherent ==
  /\ \A p, q \in Proc : \A i \in has[p], j \in has[q] :
       blockno[i] = blockno[j] => p = q /\ i = j
  /\ \A p \in Proc : \A i \in has[p] : data[i] = last[blockno[i]]

Users(i) == {p \in Proc : i \in has[p]} \cup {p \in Proc : cur[p] = i}

\* A buffer that somebody waits for, has or has pinned is never recycled, for its
\* count is the number of references to it; and bget() never panics with "no
\* buffers" (bio.c:86), if there are buffers enough for what the processes hold and
\* ask for and what the log pins.
NeverOutOfBuffers ==
  /\ \A i \in Buf : refcnt[i] = Cardinality(Users(i)) + IF i \in pinned THEN 1 ELSE 0
  /\ \A p \in Proc, b \in Block : MayAsk(p) => Cached(b) # {} \/ Unused # {}

\* Nobody sleeps in acquiresleep() for a buffer that is free (sleeplock.c:25-27
\* and 38): the process that has it will wake them.  (Who gets it then is open:
\* a process that comes by first may take it, and the others sleep again.)
NoSleeperForgotten == \A p \in Proc : pc[p] = "asleep" => locked[cur[p]] # None
=============================================================================

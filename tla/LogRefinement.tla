---------------------------- MODULE LogRefinement ----------------------------
(***************************************************************************)
(* Proof that log.c implements the atomic disk of AtomicDisk.tla, and that *)
(* a logged block stays in the cache until it is installed, for any number *)
(* of processes and blocks.                                                *)
(*                                                                         *)
(* Both fail when a machine that has crashed also recycles buffers:        *)
(* recovery calls bunpin() on buffers that nobody pinned.  So the theorems *)
(* are about a machine that does not do both.                              *)
(***************************************************************************)
EXTENDS LogProofs

\* A leaf that names no prover is for Zenon, within half a minute.
USE ZenonT(30)

Installing == \E p \in Proc : pc[p] = "install"

\* A block that is logged and not yet installed; a block whose buffer is locked.
Pending(b) == \E i \in 1..Len(lh) : lh[i] = b /\ (Installing => i >= tail)
Held(b) == \E p \in Proc : holds[p] = b

One(P) == IF P THEN 1 ELSE 0

-----------------------------------------------------------------------------
(* The inductive invariant *)

\* log_write() absorbs: a block is in the log once.
Once == /\ \A i, j \in 1..Len(lh) : lh[i] = lh[j] => i = j
        /\ \A i, j \in 1..Len(loghead) : loghead[i] = loghead[j] => i = j

\* Exactly the processes inside log_write() hold a buffer, each its own.
Owned == /\ \A p \in Proc : holds[p] # None <=> pc[p] = "log_write"
         /\ \A p, q \in Proc : holds[p] = holds[q] /\ holds[p] # None => p = q

\* The header on disk names the transaction that is being installed, if any.
Header == /\ boot = "install" => loghead = lh
          /\ boot = "run" => loghead = IF Installing THEN lh ELSE <<>>
          /\ ~Crashes /\ boot # "run" => loghead = <<>> /\ lh = <<>>

\* A buffer that the disk does not hold a copy of is in the cache ...
Kept == boot = "run" =>
          \A b \in Block : Pending(b) \/ Held(b) => cache[b] # None

\* ... and every other buffer is a copy of the disk.
Clean == \A b \in Block :
           (boot = "run" => ~Pending(b) /\ ~Held(b)) => Bread(b) = home[b]

\* The log blocks that write_log() has filled, and those recovery has installed.
Filled == /\ \A p \in Proc : \A i \in 1..Len(lh) :
               pc[p] = "install" \/ (pc[p] = "write_log" /\ i < tail)
                 => logdata[i] = Bread(lh[i])
          /\ boot = "install" =>
               \A i \in 1..Len(lh) : i < tail => home[lh[i]] = logdata[i]

\* Without a crash, refcnt counts the pin of log_write() and the lock holder.
Pins == ~Crashes => \A b \in Block : refcnt[b] = One(Pending(b)) + One(Held(b))

DiskInv == Once /\ Owned /\ Header /\ Kept /\ Clean /\ Filled /\ Pins

-----------------------------------------------------------------------------
(* Facts about states *)

\* Where the buffers, the log and the disk are untouched, so are the readings.
LEMMA SameReadings ==
  ASSUME UNCHANGED <<disk, cache, boot>>
  PROVE  Recovered' = Recovered /\ Current' = Current
  BY DEF disk, Recovered, Current, Bread

\* With an empty header a reboot finds the home locations.
LEMMA RecoveredEmpty ==
  ASSUME loghead = <<>>, TypeOK PROVE Recovered = home
  BY SMTT(30) DEF Recovered, TypeOK

\* With the header of a transaction it finds the log blocks.
RecoveredFrom(head, data, blocks) ==
  [b \in Block |-> IF \E i \in 1..Len(head) : head[i] = b
                   THEN data[CHOOSE i \in 1..Len(head) : head[i] = b]
                   ELSE blocks[b]]

\* recover_from_log() with a header that names no block twice: a block of the header
\* is found as the log has it, any other as it was on the disk.
LEMMA RecoveredLog ==
  ASSUME NEW head \in Seq(Block), NEW data, NEW blocks,
         \A i, j \in 1..Len(head) : head[i] = head[j] => i = j
  PROVE  LET found == RecoveredFrom(head, data, blocks)
         IN /\ \A i \in 1..Len(head) : found[head[i]] = data[i]
            /\ \A b \in Block : (\A i \in 1..Len(head) : head[i] # b)
                                => found[b] = blocks[b]
  <1> DEFINE found == RecoveredFrom(head, data, blocks)
  <1>1. ASSUME NEW i \in 1..Len(head) PROVE found[head[i]] = data[i]
    <2>1. head[i] \in Block
      BY SMTT(30)
    <2>2. (CHOOSE j \in 1..Len(head) : head[j] = head[i]) = i
      OBVIOUS
    <2> QED  BY <2>1, <2>2 DEF RecoveredFrom
  <1>2. ASSUME NEW b \in Block, \A i \in 1..Len(head) : head[i] # b
        PROVE  found[b] = blocks[b]
    BY <1>2 DEF RecoveredFrom
  <1> QED  BY <1>1, <1>2

\* While a process commits or the system boots, no buffer is locked.
LEMMA NoneHeld ==
  ASSUME SpaceInv, Owned, committing \/ boot # "run"
  PROVE  /\ Active = {}
         /\ \A p \in Proc : holds[p] = None
         /\ \A b \in Block : ~Held(b)
  <1>1. Active = {}
    BY DEF SpaceInv, Phases, Active
  <1>2. \A p \in Proc : holds[p] = None
    BY <1>1 DEF Owned, Active
  <1> QED  BY <1>1, <1>2, LogAssumption DEF Held, LogAssumption

\* A process in commit() is alone, after boot.
LEMMA Alone ==
  ASSUME SpaceInv, NEW p \in Proc, InCommit(p)
  PROVE  /\ boot = "run" /\ committing
         /\ \A q \in Proc : InCommit(q) => q = p
         /\ Installing <=> pc[p] = "install"
  BY DEF SpaceInv, Phases, InCommit, Installing

-----------------------------------------------------------------------------
(* Steps that touch neither disk, buffers nor log *)

Quiet ==
  /\ UNCHANGED <<disk, bufs, lh, boot, holds>>
  /\ \A p \in Proc : pc'[p] = "install" <=> pc[p] = "install"
  /\ \A p \in Proc : pc'[p] = "log_write" <=> pc[p] = "log_write"
  /\ \/ tail' = tail /\ \A p \in Proc : pc'[p] = "write_log" => pc[p] = "write_log"
     \/ tail' = 1 /\ boot = "run" /\ ~Installing

\* A step of begin_op() or end_op() that only moves counters changes neither what a
\* recovery would find nor what bread() returns.
LEMMA QuietStep ==
  ASSUME SpaceInv, DiskInv, Quiet
  PROVE  DiskInv' /\ Recovered' = Recovered /\ Current' = Current
  <1> USE DEF Quiet, DiskInv, disk, bufs
  <1>1. Installing' <=> Installing
    BY DEF Installing
  <1>2. \A b \in Block : (Pending(b)' <=> Pending(b)) /\ (Held(b)' <=> Held(b))
    BY <1>1 DEF Pending, Held
  <1>3. Once'
    BY DEF Once
  <1>4. Owned'
    BY DEF Owned
  <1>5. Header'
    BY <1>1 DEF Header
  <1>6. Kept' /\ Clean' /\ Pins'
    BY <1>2 DEF Kept, Clean, Pins, Bread, One
  <1>7. Filled'
    BY SMTT(30) DEF Filled, Bread, Installing, SpaceInv, TypeOK
  <1> QED  BY <1>3, <1>4, <1>5, <1>6, <1>7, SameReadings

\* The waits and the counting of begin_op() and end_op(), and the end of commit(), are
\* such steps.
LEMMA QuietActions ==
  ASSUME SpaceInv, NEW p \in Proc,
         BeginSleep(p) \/ BeginAdmit(p) \/ LeaveOp(p) \/ Committed(p)
  PROVE  Quiet
  <1> USE DEF SpaceInv, disk, bufs, ops, calls, Quiet, TypeOK
  <1>1. CASE BeginSleep(p)
    BY <1>1 DEF BeginSleep
  <1>2. CASE BeginAdmit(p)
    BY <1>2 DEF BeginAdmit
  <1>3. CASE EndOp(p)
    BY <1>3 DEF EndOp, Wakeup
  <1>4. CASE EndOpCommit(p)
    <2>1. boot = "run" /\ ~Installing
      BY <1>4 DEF EndOpCommit, Phases, InCommit, Installing
    <2> QED  BY <1>4, <2>1 DEF EndOpCommit
  <1>5. CASE Committed(p)
    BY <1>5 DEF Committed, Wakeup
  <1> QED  BY <1>1, <1>2, <1>3, <1>4, <1>5 DEF LeaveOp

-----------------------------------------------------------------------------
(* log_write *)

\* What the arithmetic on refcnt does where it does not wrap.
LEMMA Counting ==
  /\ Up(0) = 1 /\ Up(1) = 2 /\ Down(1) = 0 /\ Down(2) = 1
  /\ Brelse(Bpin(1)) = 1
  /\ Brelse(Bunpin(Up(1))) = 0
  <1> USE LogAssumption DEF LogAssumption
  <1>1. /\ (0 + 1) % UINTMOD = 1 /\ (1 + 1) % UINTMOD = 2
        /\ (1 + UINTMOD - 1) % UINTMOD = 0 /\ (2 + UINTMOD - 1) % UINTMOD = 1
    BY SMTT(30)
  <1>2. /\ Up(0) = 1 /\ Up(1) = 2 /\ Down(1) = 0 /\ Down(2) = 1
    BY <1>1 DEF Up, Down
  <1> QED  BY <1>2 DEF Brelse, Bpin, Bunpin

\* A process changes b->data between bread() and log_write(): what is current changes
\* at that block, what a recovery would find does not.
LEMMA ModifyStep ==
  ASSUME SpaceInv, DiskInv, NEW p \in Proc, NEW b \in Block, NEW v \in Val,
         Modify(p, b, v)
  PROVE  /\ DiskInv'
         /\ Recovered' = Recovered
         /\ Current' = [Current EXCEPT ![b] = v]
  <1> USE LogAssumption DEF LogAssumption, SpaceInv, DiskInv, disk, bufs, ops, calls
  <1>1. /\ p \in Active /\ boot = "run" /\ boot' = "run" /\ ~committing
        /\ \A q \in Proc : ~InCommit(q)
    BY DEF Modify, Active, Phases
  <1>2. /\ ~Installing /\ ~Installing'
        /\ \A q \in Proc : pc'[q] # "install" /\ pc'[q] # "write_log"
    BY <1>1 DEF Modify, Installing, InCommit, TypeOK
  <1>3. \A c \in Block : /\ Pending(c)' <=> Pending(c)
                         /\ Held(c)' <=> Held(c) \/ c = b
    <2>1. holds[p] = None
      BY DEF Modify, Owned
    <2>2. \A c \in Block : Held(c)' <=> Held(c) \/ c = b
      BY <2>1 DEF Modify, Held, TypeOK
    <2> QED  BY <1>2, <2>2 DEF Modify, Pending
  <1>4. ~Held(b)
    BY DEF Modify, Held
  <1>5. \A c \in Block : Bread(c)' = IF c = b THEN v ELSE Bread(c)
    BY DEF Modify, Bread, TypeOK
  <1>6. Once' /\ Header'
    BY <1>1, <1>2, SMTT(30) DEF Modify, Once, Header
  <1>7. Owned'
    BY DEF Modify, Owned, TypeOK
  <1>8. Kept' /\ Clean'
    <2>1. \A c \in Block : c # b => cache'[c] = cache[c] /\ home'[c] = home[c]
      BY DEF Modify, TypeOK
    <2>2. cache'[b] # None
      BY DEF Modify, TypeOK
    <2> QED  BY <1>1, <1>3, <1>5, <2>1, <2>2 DEF Kept, Clean
  <1>9. Filled'
    BY <1>1, <1>2 DEF Filled
  <1>10. Pins'
    <2> SUFFICES ASSUME ~Crashes, NEW c \in Block
                 PROVE  refcnt'[c] = One(Pending(c))' + One(Held(c))'
      BY DEF Pins
    <2>1. CASE c = b
      <3>1. refcnt'[b] = Up(refcnt[b]) /\ refcnt[b] = One(Pending(b))
        BY <1>4, SMTT(30) DEF Modify, Pins, One, TypeOK
      <3> QED  BY <1>3, <2>1, <3>1, Counting, SMTT(30) DEF One
    <2>2. CASE c # b
      BY <1>3, <2>2 DEF Modify, Pins, One, TypeOK
    <2> QED  BY <2>1, <2>2
  <1>11. Recovered' = Recovered
    BY DEF Modify, Recovered
  <1>12. Current' = [Current EXCEPT ![b] = v]
    BY <1>1, <1>5 DEF Current
  <1> QED  BY <1>6, <1>7, <1>8, <1>9, <1>10, <1>11, <1>12

\* log_write() pins the block and names it in lh: no block gets another contents.
LEMMA LogWriteStep ==
  ASSUME SpaceInv, DiskInv, NEW p \in Proc, LogWrite(p)
  PROVE  DiskInv' /\ Recovered' = Recovered /\ Current' = Current
  <1> USE LogAssumption DEF LogAssumption, SpaceInv, DiskInv, disk, bufs, ops, calls
  <1> DEFINE b == holds[p]
  <1>1. /\ p \in Active /\ boot = "run" /\ boot' = "run" /\ ~committing
        /\ \A q \in Proc : ~InCommit(q)
        /\ b \in Block
    BY DEF LogWrite, Active, Phases, Holding
  <1>2. /\ ~Installing /\ ~Installing'
        /\ \A q \in Proc : pc'[q] # "install" /\ pc'[q] # "write_log"
    BY <1>1 DEF LogWrite, Installing, InCommit, TypeOK
  <1>3. /\ lh' \in Seq(Block) /\ Len(lh) \in Nat
        /\ b \in Logged => lh' = lh
        /\ b \notin Logged => /\ Len(lh') = Len(lh) + 1 /\ lh'[Len(lh) + 1] = b
                             /\ \A i \in 1..Len(lh) : lh'[i] = lh[i]
    BY <1>1, SMTT(30) DEF LogWrite, TypeOK
  <1>4. \A c \in Block : Pending(c)' <=> Pending(c) \/ c = b
    BY <1>2, <1>3, SMTT(30) DEF Pending, Logged
  <1>5. Pending(b) <=> b \in Logged
    BY <1>2 DEF Pending, Logged
  <1>6. \A c \in Block : Held(c)' <=> Held(c) /\ c # b
    <2>1. /\ holds'[p] = None
          /\ \A q \in Proc : q # p => holds'[q] = holds[q] /\ holds[q] # b
      BY <1>1 DEF LogWrite, Owned, TypeOK
    <2> QED  BY <1>1, <2>1 DEF Held
  <1>7. Held(b)
    BY <1>1 DEF Held
  <1>8. Once'
    <2>1. CASE b \in Logged
      BY <1>3, <2>1 DEF LogWrite, Once
    <2>2. CASE b \notin Logged
      <3>1. \A i \in 1..Len(lh) : lh[i] # b
        BY <2>2 DEF Logged
      <3> QED  BY <1>3, <2>2, <3>1, SMTT(30) DEF LogWrite, Once
    <2> QED  BY <2>1, <2>2
  <1>9. Owned'
    BY DEF LogWrite, Owned, TypeOK
  <1>10. Header'
    BY <1>1, <1>2 DEF LogWrite, Header
  <1>11. Kept' /\ Clean'
    BY <1>1, <1>4, <1>6, <1>7 DEF LogWrite, Kept, Clean, Bread
  <1>12. Filled'
    BY <1>1, <1>2 DEF Filled
  <1>13. Pins'
    <2> SUFFICES ASSUME ~Crashes, NEW c \in Block
                 PROVE  refcnt'[c] = One(Pending(c))' + One(Held(c))'
      BY DEF Pins
    <2>1. CASE c = b
      <3>1. /\ refcnt'[b] = Brelse(IF b \in Logged THEN refcnt[b] ELSE Bpin(refcnt[b]))
            /\ refcnt[b] = One(Pending(b)) + 1
        BY <1>1, <1>7 DEF LogWrite, Pins, One, TypeOK
      <3>2. refcnt'[b] = 1
        BY <1>5, <3>1, Counting, SMTT(30) DEF One, Brelse
      <3> QED  BY <1>4, <1>6, <2>1, <3>2, SMTT(30) DEF One
    <2>2. CASE c # b
      BY <1>4, <1>6, <2>2 DEF LogWrite, Pins, One, TypeOK
    <2> QED  BY <2>1, <2>2
  <1>14. UNCHANGED <<disk, cache, boot>>
    BY DEF LogWrite
  <1> QED  BY <1>8, <1>9, <1>10, <1>11, <1>12, <1>13, <1>14, SameReadings

-----------------------------------------------------------------------------
(* commit *)

\* write_log() copies a block into the log area, which no header on disk names yet.
LEMMA WriteLogStep ==
  ASSUME SpaceInv, DiskInv, OPBLOCKS < MAXOPBLOCKS, NEW p \in Proc, WriteLog(p)
  PROVE  DiskInv' /\ Recovered' = Recovered /\ Current' = Current
  <1> USE LogAssumption DEF LogAssumption, SpaceInv, DiskInv, disk, bufs, ops, calls
  <1>1. /\ boot = "run" /\ boot' = "run" /\ committing
        /\ ~Installing /\ ~Installing' /\ loghead = <<>>
    BY Alone DEF WriteLog, InCommit, Installing, Header
  <1>2. /\ tail \in 1..Len(lh) /\ lh[tail] \in Block /\ tail \in 1..(NLOG - 1)
        /\ tail' = tail + 1
    BY LogFits, SMTT(30) DEF WriteLog, TypeOK
  <1>3. \A b \in Block : (Pending(b)' <=> Pending(b)) /\ (Held(b)' <=> Held(b))
    BY <1>1 DEF WriteLog, Pending, Held
  <1>4. Pending(lh[tail])
    BY <1>1, <1>2 DEF Pending
  <1>5. \A b \in Block : Bread(b)' = Bread(b)
    BY <1>2 DEF WriteLog, Bread, TypeOK
  <1>6. Once' /\ Owned' /\ Header' /\ Pins'
    BY <1>1, <1>3, SMTT(30) DEF WriteLog, Once, Owned, Header, Pins, One
  <1>7. Kept' /\ Clean'
    <2>1. cache'[lh[tail]] = Bread(lh[tail]) /\ cache[lh[tail]] # None
      BY <1>1, <1>2, <1>4 DEF WriteLog, Kept, TypeOK
    <2>2. \A b \in Block : cache[b] # None => cache'[b] # None
      BY <1>2, <2>1 DEF WriteLog, Bread, TypeOK
    <2> QED  BY <1>1, <1>3, <1>5, <2>2 DEF WriteLog, Kept, Clean
  <1>8. Filled'
    <2>1. /\ lh' = lh /\ pc' = pc
          /\ \A q \in Proc : pc[q] # "install"
          /\ logdata' = [logdata EXCEPT ![tail] = Bread(lh[tail])]
      BY <1>1 DEF WriteLog, Installing
    <2>2. ASSUME NEW i \in 1..Len(lh), i < tail + 1 PROVE logdata'[i] = Bread(lh[i])
      <3>1. i < tail => logdata[i] = Bread(lh[i])
        BY DEF WriteLog, Filled
      <3>2. i \in 1..(NLOG - 1)
        BY LogFits, SMTT(30) DEF TypeOK
      <3> QED  BY <1>2, <2>1, <2>2, <3>1, <3>2, SMTT(30) DEF TypeOK
    <2>3. \A i \in 1..Len(lh) : lh[i] \in Block
      BY SMTT(30) DEF TypeOK
    <2> QED  BY <1>1, <1>2, <1>5, <2>1, <2>2, <2>3, SMTT(30) DEF Filled
  <1>9. Recovered' = Recovered
    BY <1>1, SMTT(30) DEF WriteLog, Recovered
  <1>10. Current' = Current
    BY <1>1, <1>5 DEF Current
  <1> QED  BY <1>6, <1>7, <1>8, <1>9, <1>10

\* write_head() is the true point of commit: from here on a recovery finds what is
\* current.
LEMMA WriteHeadStep ==
  ASSUME SpaceInv, DiskInv, NEW p \in Proc, WriteHead(p)
  PROVE  DiskInv' /\ Recovered' = Current /\ Current' = Current
  <1> USE LogAssumption DEF LogAssumption, SpaceInv, DiskInv, disk, bufs, ops, calls
  <1>1. /\ boot = "run" /\ boot' = "run" /\ committing
        /\ ~Installing /\ Installing' /\ lh' = lh /\ loghead' = lh /\ tail' = 1
    BY Alone DEF WriteHead, InCommit, Installing, TypeOK
  <1>2. \A b \in Block : (Pending(b)' <=> Pending(b)) /\ (Held(b)' <=> Held(b))
    BY <1>1, SMTT(30) DEF WriteHead, Pending, Held
  <1>3. \A b \in Block : Bread(b)' = Bread(b)
    BY DEF WriteHead, Bread
  <1>4. Once' /\ Owned' /\ Header' /\ Pins'
    <2>1. Once' /\ Header'
      BY <1>1, SMTT(30) DEF Once, Header
    <2>2. Owned'
      BY DEF WriteHead, Owned, TypeOK
    <2> QED  BY <1>2, <2>1, <2>2 DEF WriteHead, Pins, One
  <1>5. Kept' /\ Clean'
    BY <1>1, <1>2, <1>3 DEF WriteHead, Kept, Clean
  <1>6. \A i \in 1..Len(lh) : logdata[i] = Bread(lh[i]) /\ lh[i] \in Block
    BY SMTT(30) DEF WriteHead, Filled, TypeOK
  <1>7. Filled'
    BY <1>1, <1>3, <1>6, SMTT(30) DEF WriteHead, Filled
  <1>11. Recovered' = RecoveredFrom(lh, logdata', home')
    BY <1>1 DEF Recovered, RecoveredFrom
  <1>12. lh \in Seq(Block) /\ \A i, j \in 1..Len(lh) : lh[i] = lh[j] => i = j
    BY DEF TypeOK, Once
  <1>8. ASSUME NEW b \in Block PROVE Recovered'[b] = Bread(b)
    <2>1. CASE Pending(b)
      <3>1. PICK i \in 1..Len(lh) : lh[i] = b
        BY <2>1 DEF Pending
      <3>2. Recovered'[b] = logdata'[i]
        BY <1>11, <1>12, <3>1, RecoveredLog, SMTT(30)
      <3> QED  BY <1>6, <3>1, <3>2 DEF WriteHead
    <2>2. CASE ~Pending(b)
      <3>1. \A i \in 1..Len(lh) : lh[i] # b
        BY <1>1, <2>2 DEF Pending
      <3>2. Recovered'[b] = home'[b]
        BY <1>11, <1>12, <3>1, RecoveredLog, SMTT(30)
      <3>3. Bread(b) = home[b]
        BY <1>1, <2>2, NoneHeld DEF Clean
      <3> QED  BY <3>2, <3>3 DEF WriteHead
    <2> QED  BY <2>1, <2>2
  <1>9. Current' = Current
    BY <1>1, <1>3 DEF Current
  <1>10. Recovered' = Current
    BY <1>1, <1>8, SMTT(30) DEF Current, Recovered
  <1> QED  BY <1>4, <1>5, <1>7, <1>9, <1>10

\* What install_trans() does to a block that the header names.
LEMMA InstallEffect ==
  ASSUME SpaceInv, OPBLOCKS < MAXOPBLOCKS, InstallBlock, loghead = lh,
         UNCHANGED <<loghead, logdata, lh>>
  PROVE  /\ tail \in 1..Len(lh) /\ lh[tail] \in Block /\ tail' = tail + 1
         /\ logdata[tail] \in Val /\ logdata[tail] # None
         /\ home'[lh[tail]] = logdata[tail] /\ cache'[lh[tail]] = logdata[tail]
         /\ refcnt'[lh[tail]] = Brelse(Bunpin(Up(refcnt[lh[tail]])))
         /\ \A b \in Block \ {lh[tail]} : /\ home'[b] = home[b] /\ cache'[b] = cache[b]
                                         /\ refcnt'[b] = refcnt[b]
         /\ Recovered' = Recovered
  <1> USE LogAssumption DEF LogAssumption, SpaceInv
  <1>1. /\ tail \in 1..Len(lh) /\ lh[tail] \in Block /\ tail' = tail + 1
        /\ tail \in 1..(NLOG - 1)
    BY LogFits, SMTT(30) DEF InstallBlock, TypeOK
  <1>2. logdata[tail] \in Val /\ logdata[tail] # None
    <2>1. logdata \in [1..(NLOG - 1) -> Val]
      BY DEF TypeOK
    <2>2. logdata[tail] \in Val
      BY ONLY <1>1, <2>1
    <2> QED  BY <2>2
  <1>3. /\ home'[lh[tail]] = logdata[tail] /\ cache'[lh[tail]] = logdata[tail]
        /\ refcnt'[lh[tail]] = Brelse(Bunpin(Up(refcnt[lh[tail]])))
        /\ \A b \in Block \ {lh[tail]} : /\ home'[b] = home[b] /\ cache'[b] = cache[b]
                                        /\ refcnt'[b] = refcnt[b]
    BY <1>1 DEF InstallBlock, TypeOK
  <1>4. Recovered' = Recovered
    <2>1. ASSUME NEW b \in Block PROVE Recovered'[b] = Recovered[b]
      <3>1. CASE \E i \in 1..Len(loghead) : loghead[i] = b
        BY <3>1 DEF Recovered
      <3>2. CASE ~\E i \in 1..Len(loghead) : loghead[i] = b
        <4>1. home'[b] = home[b]
          BY <1>1, <1>3, <3>2
        <4> QED  BY <3>2, <4>1 DEF Recovered
      <3> QED  BY <3>1, <3>2
    <2> QED  BY <2>1 DEF Recovered
  <1> QED  BY <1>1, <1>2, <1>3, <1>4

\* install_trans() writes home a block that the header on disk still names, so that a
\* recovery would write the same.
LEMMA InstallStep ==
  ASSUME SpaceInv, DiskInv, OPBLOCKS < MAXOPBLOCKS, NEW p \in Proc, Install(p)
  PROVE  DiskInv' /\ Recovered' = Recovered /\ Current' = Current
  <1> USE LogAssumption DEF LogAssumption, SpaceInv, DiskInv, disk, bufs, ops, calls
  <1>1. /\ boot = "run" /\ boot' = "run" /\ committing /\ Installing /\ Installing'
        /\ loghead = lh /\ UNCHANGED <<loghead, logdata, lh>> /\ InstallBlock
    BY Alone DEF Install, InCommit, Installing, Header
  <1>2. \A b \in Block : ~Held(b) /\ ~Held(b)'
    BY <1>1, NoneHeld DEF Install, Held
  <1>3. PICK c \in Block : c = lh[tail] /\ tail \in 1..Len(lh) /\ tail' = tail + 1
    BY <1>1, InstallEffect
  <1>4. Pending(c) /\ ~Pending(c)'
    <2>1. \A i \in 1..Len(lh) : lh[i] = c => i = tail
      BY <1>3 DEF Once
    <2> QED  BY <1>1, <1>3, <2>1, SMTT(30) DEF Pending
  <1>5. \A b \in Block \ {c} : Pending(b)' <=> Pending(b)
    BY <1>1, <1>3, SMTT(30) DEF Pending, TypeOK
  <1>6. logdata[tail] = Bread(c)
    BY <1>3 DEF Install, Filled
  <1>7. \A b \in Block : Bread(b)' = Bread(b)
    BY <1>1, <1>3, <1>6, InstallEffect DEF Bread
  <1>8. Once' /\ Owned' /\ Header'
    BY <1>1, SMTT(30) DEF Install, Once, Owned, Header
  <1>9. Kept' /\ Clean'
    <2>1. /\ home'[c] = logdata[tail] /\ cache'[c] = logdata[tail] /\ cache'[c] # None
          /\ \A b \in Block \ {c} : home'[b] = home[b] /\ cache'[b] = cache[b]
      BY <1>1, <1>3, InstallEffect
    <2>2. Bread(c)' = home'[c]
      BY <1>6, <1>7, <2>1
    <2> QED  BY <1>1, <1>2, <1>4, <1>5, <1>7, <2>1, <2>2 DEF Kept, Clean
  <1>10. Filled'
    <2>1. \A i \in 1..Len(lh) : lh[i] \in Block /\ logdata[i] = Bread(lh[i])
      BY SMTT(30) DEF Install, Filled, TypeOK
    <2> QED  BY <1>1, <1>7, <2>1 DEF Filled
  <1>11. Pins'
    <2> SUFFICES ASSUME ~Crashes, NEW b \in Block
                 PROVE  refcnt'[b] = One(Pending(b))' + One(Held(b))'
      BY DEF Pins
    <2>1. CASE b = c
      <3>1. refcnt[c] = 1
        BY <1>2, <1>3, <1>4, SMTT(30) DEF Pins, One
      <3>2. refcnt'[c] = 0
        BY <1>1, <1>3, <3>1, InstallEffect, Counting
      <3> QED  BY <1>2, <1>4, <2>1, <3>2, SMTT(30) DEF One
    <2>2. CASE b # c
      <3>1. refcnt'[b] = refcnt[b]
        BY <1>1, <1>3, <2>2, InstallEffect
      <3> QED  BY <1>2, <1>5, <2>2, <3>1 DEF Pins, One
    <2> QED  BY <2>1, <2>2
  <1>12. Current' = Current
    BY <1>1, <1>7 DEF Current
  <1> QED  BY <1>1, <1>8, <1>9, <1>10, <1>11, <1>12, InstallEffect

\* The write_head() that ends commit() erases a log whose blocks are all home.
LEMMA EraseStep ==
  ASSUME SpaceInv, DiskInv, NEW p \in Proc, Erase(p)
  PROVE  DiskInv' /\ Recovered' = Recovered /\ Current' = Current
  <1> USE LogAssumption DEF LogAssumption, SpaceInv, DiskInv, disk, bufs, ops, calls
  <1>1. /\ boot = "run" /\ boot' = "run" /\ committing /\ Installing
        /\ loghead = lh /\ lh' = <<>> /\ loghead' = <<>>
        /\ UNCHANGED <<home, cache, refcnt, holds>>
    BY Alone DEF Erase, EraseHead, InCommit, Installing, Header
  <1>2. ~Installing' /\ \A q \in Proc : pc'[q] # "install" /\ pc'[q] # "write_log"
    BY Alone, SMTT(30) DEF Erase, InCommit, Installing, TypeOK
  <1>3. \A b \in Block : ~Pending(b) /\ ~Pending(b)' /\ ~Held(b) /\ ~Held(b)'
    <2>1. \A b \in Block : ~Held(b) /\ ~Held(b)'
      BY <1>1, NoneHeld DEF Held
    <2>2. \A b \in Block : ~Pending(b)
      BY <1>1, SMTT(30) DEF Erase, EraseHead, Pending, TypeOK
    <2>3. \A b \in Block : ~Pending(b)'
      BY <1>1, SMTT(30) DEF Pending
    <2> QED  BY <2>1, <2>2, <2>3
  <1>4. \A b \in Block : Bread(b) = home[b] /\ Bread(b)' = home'[b]
    BY <1>1, <1>3 DEF Clean, Bread
  <1>5. Once' /\ Header' /\ Filled'
    BY <1>1, <1>2, SMTT(30) DEF Once, Header, Filled
  <1>6. Owned'
    BY DEF Erase, Owned, TypeOK
  <1>7. Kept' /\ Clean' /\ Pins'
    BY <1>1, <1>3, <1>4 DEF Kept, Clean, Pins, One
  <1>8. Recovered' = home
    BY <1>1, SMTT(30) DEF Recovered, TypeOK
  <1>9. ASSUME NEW b \in Block PROVE Recovered[b] = home[b]
    <2>1. Recovered = RecoveredFrom(lh, logdata, home)
      BY <1>1 DEF Recovered, RecoveredFrom
    <2>2. lh \in Seq(Block) /\ \A i, j \in 1..Len(lh) : lh[i] = lh[j] => i = j
      BY DEF TypeOK, Once
    <2>3. \A i \in 1..Len(lh) : lh[i] = b => logdata[i] = home[b]
      BY <1>4 DEF Erase, Filled
    <2> QED  BY <2>1, <2>2, <2>3, RecoveredLog, SMTT(30)
  <1>10. Recovered' = Recovered
    <2>1. Recovered = [b \in Block |-> Recovered[b]]
      BY DEF Recovered
    <2>2. home = [b \in Block |-> home[b]]
      BY DEF TypeOK
    <2> QED  BY <1>8, <1>9, <2>1, <2>2
  <1>11. Current' = Current
    BY <1>1 DEF Current, Bread
  <1> QED  BY <1>5, <1>6, <1>7, <1>10, <1>11

-----------------------------------------------------------------------------
(* Recovery, recycling, crash *)

\* read_head() at boot: the header in memory is now the one on disk.
LEMMA ReadHeadStep ==
  ASSUME SpaceInv, DiskInv, ReadHead
  PROVE  DiskInv' /\ Recovered' = Recovered /\ Current' = Current
  <1> USE LogAssumption DEF LogAssumption, SpaceInv, DiskInv, disk, bufs, ops, calls
  <1>1. /\ boot = "read_head" /\ boot' = "install" /\ lh' = loghead /\ tail' = 1
        /\ UNCHANGED <<home, loghead, logdata, cache, refcnt, pc, holds>>
    BY DEF ReadHead
  <1>2. \A q \in Proc : pc[q] = "idle"
    BY <1>1 DEF Phases
  <1>3. Once' /\ Owned' /\ Header' /\ Kept' /\ Filled'
    BY <1>1, <1>2, SMTT(30) DEF Once, Owned, Header, Kept, Filled
  <1>4. Clean'
    BY <1>1 DEF Clean, Bread
  <1>5. Pins'
    <2> SUFFICES ASSUME ~Crashes PROVE Pins'
      BY DEF Pins
    <2>1. lh' = <<>> /\ lh = <<>>
      BY <1>1 DEF Header
    <2>2. \A b \in Block : ~Pending(b) /\ ~Pending(b)' /\ (Held(b)' <=> Held(b))
      BY <1>1, <2>1, SMTT(30) DEF Pending, Held
    <2> QED  BY <1>1, <2>2 DEF Pins, One
  <1>6. Recovered' = Recovered
    BY <1>1 DEF Recovered
  <1> QED  BY <1>1, <1>3, <1>4, <1>5, <1>6 DEF Current

\* install_trans() at boot writes home what the header names: recovering again finds
\* the same.
LEMMA RecoverInstallStep ==
  ASSUME SpaceInv, DiskInv, OPBLOCKS < MAXOPBLOCKS, RecoverInstall
  PROVE  DiskInv' /\ Recovered' = Recovered /\ Current' = Current
  <1> USE LogAssumption DEF LogAssumption, SpaceInv, DiskInv, disk, bufs, ops, calls
  <1>1. /\ boot = "install" /\ boot' = "install" /\ loghead = lh /\ InstallBlock
        /\ UNCHANGED <<loghead, logdata, lh, pc, holds>>
    BY DEF RecoverInstall, Header
  <1>2. \A q \in Proc : pc[q] = "idle"
    BY <1>1 DEF Phases
  <1>3. PICK c \in Block : /\ c = lh[tail] /\ tail \in 1..Len(lh) /\ tail' = tail + 1
                          /\ home'[c] = logdata[tail] /\ cache'[c] = logdata[tail]
                          /\ logdata[tail] # None
                          /\ \A b \in Block \ {c} : /\ home'[b] = home[b]
                                                   /\ cache'[b] = cache[b]
    BY <1>1, InstallEffect
  <1>4. Crashes
    BY <1>1, <1>3, SMTT(30) DEF Header, TypeOK
  <1>5. Once' /\ Owned' /\ Header' /\ Kept' /\ Pins'
    BY <1>1, <1>4, SMTT(30) DEF Once, Owned, Header, Kept, Pins
  <1>6. Clean'
    <2>1. \A b \in Block : Bread(b) = home[b]
      BY <1>1 DEF Clean
    <2>2. \A b \in Block : Bread(b)' = home'[b]
      BY <1>3, <2>1 DEF Bread
    <2> QED  BY <2>2 DEF Clean
  <1>7. Filled'
    <2>1. ASSUME NEW i \in 1..Len(lh), i < tail + 1 PROVE home'[lh[i]] = logdata[i]
      <3>1. lh[i] \in Block
        BY SMTT(30) DEF TypeOK
      <3>2. CASE i = tail
        BY <1>3, <3>2
      <3>3. CASE i # tail
        <4>1. lh[i] # c
          BY <1>3, <3>3 DEF Once
        <4>2. i < tail
          BY <1>3, <2>1, <3>3, SMTT(30) DEF TypeOK
        <4> QED  BY <1>1, <1>3, <3>1, <4>1, <4>2 DEF Filled
      <3> QED  BY <3>2, <3>3
    <2> QED  BY <1>1, <1>2, <1>3, <2>1 DEF Filled
  <1>8. Recovered' = Recovered
    BY <1>1, InstallEffect
  <1> QED  BY <1>1, <1>5, <1>6, <1>7, <1>8 DEF Current

\* The write_head() of recover_from_log() erases a log whose blocks are all home.
LEMMA RecoverEraseStep ==
  ASSUME SpaceInv, DiskInv, RecoverErase
  PROVE  DiskInv' /\ Recovered' = Recovered /\ Current' = Current
  <1> USE LogAssumption DEF LogAssumption, SpaceInv, DiskInv, disk, bufs, ops, calls
  <1>1. /\ boot = "install" /\ boot' = "run" /\ loghead = lh /\ loghead' = <<>>
        /\ lh' = <<>> /\ tail > Len(lh)
        /\ UNCHANGED <<home, logdata, cache, refcnt, pc, holds>>
    BY DEF RecoverErase, EraseHead, Header
  <1>2. \A q \in Proc : pc[q] = "idle"
    BY <1>1 DEF Phases
  <1>3. \A b \in Block : ~Pending(b)' /\ ~Held(b) /\ ~Held(b)'
    BY <1>1, NoneHeld, SMTT(30) DEF Pending, Held
  <1>4. \A b \in Block : Bread(b) = home[b] /\ Bread(b)' = home[b]
    BY <1>1 DEF Clean, Bread
  <1>5. Once' /\ Owned' /\ Header' /\ Filled'
    BY <1>1, <1>2, SMTT(30) DEF Once, Owned, Header, Filled, Installing
  <1>6. Kept' /\ Clean'
    BY <1>1, <1>3, <1>4 DEF Kept, Clean
  <1>7. Pins'
    <2> SUFFICES ASSUME ~Crashes PROVE Pins'
      BY DEF Pins
    <2>1. lh = <<>>
      BY <1>1 DEF Header
    <2>2. \A b \in Block : ~Pending(b)
      BY <2>1, SMTT(30) DEF Pending
    <2> QED  BY <1>1, <1>3, <2>2 DEF Pins, One
  <1>8. Recovered' = home
    BY <1>1, SMTT(30) DEF Recovered, TypeOK
  <1>9. ASSUME NEW b \in Block PROVE Recovered[b] = home[b]
    <2>1. Recovered = RecoveredFrom(lh, logdata, home)
      BY <1>1 DEF Recovered, RecoveredFrom
    <2>2. lh \in Seq(Block) /\ \A i, j \in 1..Len(lh) : lh[i] = lh[j] => i = j
      BY DEF TypeOK, Once
    <2>3. \A i \in 1..Len(lh) : lh[i] = b => logdata[i] = home[b]
      BY <1>1, SMTT(30) DEF Filled, TypeOK
    <2> QED  BY <2>1, <2>2, <2>3, RecoveredLog, SMTT(30)
  <1>10. Recovered = home
    <2>1. Recovered = [b \in Block |-> Recovered[b]]
      BY DEF Recovered
    <2>2. home = [b \in Block |-> home[b]]
      BY DEF TypeOK
    <2> QED  BY <1>9, <2>1, <2>2
  <1>11. Current = home /\ Current' = home
    BY <1>1, <1>4, <1>10 DEF Current, TypeOK
  <1> QED  BY <1>5, <1>6, <1>7, <1>8, <1>10, <1>11

\* A buffer that is neither pinned nor locked is a copy of the disk.
LEMMA RecycleStep ==
  ASSUME SpaceInv, DiskInv, ~(Recycling /\ Crashes), NEW b \in Block, Recycle(b)
  PROVE  DiskInv' /\ Recovered' = Recovered /\ Current' = Current
  <1> USE LogAssumption DEF LogAssumption, SpaceInv, DiskInv, disk, bufs, ops, calls
  <1>1. /\ boot = "run" /\ boot' = "run" /\ refcnt[b] = 0 /\ ~Crashes
        /\ UNCHANGED <<home, loghead, logdata, lh, refcnt, tail, pc, holds>>
        /\ cache' = [cache EXCEPT ![b] = None]
    BY DEF Recycle
  <1>2. ~Pending(b) /\ ~Held(b)
    BY <1>1, SMTT(30) DEF Pins, One
  <1>3. /\ Installing' <=> Installing
        /\ \A c \in Block : (Pending(c)' <=> Pending(c)) /\ (Held(c)' <=> Held(c))
    BY <1>1 DEF Installing, Pending, Held
  <1>4. \A c \in Block : Bread(c)' = Bread(c)
    <2>1. Bread(b) = home[b]
      BY <1>1, <1>2 DEF Clean
    <2> QED  BY <1>1, <2>1 DEF Bread, TypeOK
  <1>5. Once' /\ Owned' /\ Header' /\ Pins'
    BY <1>1, <1>3, SMTT(30) DEF Once, Owned, Header, Pins, One
  <1>6. Kept' /\ Clean'
    <2>1. \A c \in Block \ {b} : cache'[c] = cache[c]
      BY <1>1 DEF TypeOK
    <2> QED  BY <1>1, <1>2, <1>3, <1>4, <2>1 DEF Kept, Clean
  <1>7. Filled'
    <2>1. \A i \in 1..Len(lh) : lh[i] \in Block
      BY SMTT(30) DEF TypeOK
    <2> QED  BY <1>1, <1>4, <2>1, SMTT(30) DEF Filled
  <1>8. Recovered' = Recovered
    BY <1>1 DEF Recovered
  <1> QED  BY <1>1, <1>4, <1>5, <1>6, <1>7, <1>8 DEF Current

\* A crash loses the buffers and lh: what is current becomes what a recovery finds.
LEMMA CrashStep ==
  ASSUME SpaceInv, DiskInv, Crash
  PROVE  DiskInv' /\ Recovered' = Recovered /\ Current' = Recovered
  <1> USE LogAssumption DEF LogAssumption, SpaceInv, DiskInv, disk, bufs, ops, calls
  <1>1. /\ Crashes /\ boot' = "read_head" /\ lh' = <<>>
        /\ cache' = [b \in Block |-> None]
        /\ pc' = [p \in Proc |-> "idle"] /\ holds' = [p \in Proc |-> None]
        /\ UNCHANGED <<home, loghead, logdata>>
    BY DEF Crash
  <1>2. Once' /\ Owned' /\ Pins'
    BY <1>1, SMTT(30) DEF Once, Owned, Pins
  <1>5. Header' /\ Kept'
    BY <1>1, SMTT(30) DEF Header, Kept
  <1>6. Filled'
    BY <1>1, SMTT(30) DEF Filled
  <1>3. Clean'
    BY <1>1 DEF Clean, Bread
  <1>4. Recovered' = Recovered
    BY <1>1 DEF Recovered
  <1> QED  BY <1>1, <1>2, <1>3, <1>4, <1>5, <1>6 DEF Current

\* The disk that mkfs writes has an empty log and the cache is empty.
LEMMA DiskInit ==
  ASSUME Init PROVE DiskInv
  <1>1. Once /\ Owned /\ Header /\ Kept /\ Filled
    BY SMTT(30) DEF Init, Once, Owned, Header, Kept, Filled
  <1>2. Clean
    BY DEF Init, Clean, Bread
  <1>3. \A b \in Block : ~Pending(b) /\ ~Held(b)
    BY LogAssumption, SMTT(30) DEF LogAssumption, Init, Pending, Held
  <1>4. Pins
    BY <1>3, SMTT(30) DEF Init, Pins, One
  <1> QED  BY <1>1, <1>2, <1>4 DEF DiskInv

-----------------------------------------------------------------------------
(* The theorems *)

\* A step of log.c keeps the invariant and is a step of the atomic disk.
LEMMA DiskStep ==
  ASSUME SpaceInv, DiskInv, OPBLOCKS < MAXOPBLOCKS, ~(Recycling /\ Crashes),
         [Next]_vars
  PROVE  DiskInv' /\ [A!ANext]_(A!avars)
  <1> DEFINE Same == Recovered' = Recovered /\ Current' = Current
             AStep == [A!ANext]_(A!avars)
  <1>0. Same /\ Active' = Active => AStep
    BY DEF A!avars
  <1>1. TypeOK
    BY DEF SpaceInv
  <1>2. ASSUME NEW p \in Proc, BeginSleep(p) PROVE DiskInv' /\ AStep
    <2>1. DiskInv' /\ Same
      BY <1>2, QuietActions, QuietStep
    <2>2. Active' = Active
      BY <1>1, <1>2, ActiveStep DEF Still
    <2> QED  BY <1>0, <2>1, <2>2
  <1>3. ASSUME NEW p \in Proc, BeginAdmit(p) PROVE DiskInv' /\ AStep
    <2>1. DiskInv' /\ Same
      BY <1>3, QuietActions, QuietStep
    <2>2. p \notin Active /\ Active' = Active \cup {p}
      BY <1>1, <1>3, ActiveStep
    <2>3. A!ABegin(p)
      BY <2>1, <2>2 DEF A!ABegin
    <2> QED  BY <2>1, <2>3 DEF A!ANext
  <1>4. ASSUME NEW p \in Proc, NEW b \in Block, NEW v \in Val, Modify(p, b, v)
        PROVE  DiskInv' /\ AStep
    <2>1. /\ DiskInv' /\ Recovered' = Recovered
          /\ Current' = [Current EXCEPT ![b] = v]
      BY <1>4, ModifyStep
    <2>2. p \in Active /\ Active' = Active
      BY <1>1, <1>4, ActiveStep DEF Still, Modify, Active
    <2>3. A!AWrite(p, b, v)
      BY <2>1, <2>2 DEF A!AWrite
    <2> QED  BY <2>1, <2>3 DEF A!ANext
  <1>5. ASSUME NEW p \in Proc, LogWrite(p) PROVE DiskInv' /\ AStep
    <2>1. DiskInv' /\ Same
      BY <1>5, LogWriteStep
    <2>2. Active' = Active
      BY <1>1, <1>5, ActiveStep
    <2> QED  BY <1>0, <2>1, <2>2
  <1>6. ASSUME NEW p \in Proc, LeaveOp(p) PROVE DiskInv' /\ AStep
    <2>1. DiskInv' /\ Same
      BY <1>6, QuietActions, QuietStep
    <2>2. p \in Active /\ Active' = Active \ {p}
      BY <1>1, <1>6, ActiveStep
    <2>3. A!AEnd(p)
      BY <2>1, <2>2 DEF A!AEnd
    <2> QED  BY <2>1, <2>3 DEF A!ANext
  <1>7. ASSUME NEW p \in Proc, CommitStep(p) PROVE DiskInv' /\ AStep
    <2>1. Active' = Active
      BY <1>1, <1>7, ActiveStep DEF Still
    <2>2. CASE WriteHead(p)
      <3>1. DiskInv' /\ Recovered' = Current /\ Current' = Current
        BY <2>2, WriteHeadStep
      <3>2. InCommit(p)
        BY <2>2 DEF WriteHead, InCommit
      <3>3. Active = {}
        BY <3>2, Alone, NoneHeld DEF DiskInv
      <3>4. A!ACommit
        BY <2>1, <3>1, <3>3 DEF A!ACommit
      <3> QED  BY <3>1, <3>4 DEF A!ANext
    <2>3. CASE WriteLog(p) \/ Install(p) \/ Erase(p) \/ Committed(p)
      <3>1. DiskInv' /\ Same
        BY <2>3, WriteLogStep, InstallStep, EraseStep, QuietActions, QuietStep
      <3> QED  BY <1>0, <2>1, <3>1
    <2> QED  BY <1>7, <2>2, <2>3 DEF CommitStep
  <1>8. ASSUME Recovery PROVE DiskInv' /\ AStep
    <2>1. DiskInv' /\ Same
      BY <1>8, ReadHeadStep, RecoverInstallStep, RecoverEraseStep DEF Recovery
    <2>2. Active' = Active
      BY <1>1, <1>8, ActiveStep DEF Still
    <2> QED  BY <1>0, <2>1, <2>2
  <1>9. ASSUME NEW b \in Block, Recycle(b) PROVE DiskInv' /\ AStep
    <2>1. DiskInv' /\ Same
      BY <1>9, RecycleStep
    <2>2. Active' = Active
      BY <1>1, <1>9, ActiveStep DEF Still
    <2> QED  BY <1>0, <2>1, <2>2
  <1>10. ASSUME Crash PROVE DiskInv' /\ AStep
    <2>1. DiskInv' /\ Recovered' = Recovered /\ Current' = Recovered
      BY <1>10, CrashStep
    <2>2. Active' = {}
      BY <1>1, <1>10, ActiveStep
    <2>3. A!ACrash
      BY <2>1, <2>2 DEF A!ACrash
    <2> QED  BY <2>1, <2>3 DEF A!ANext
  <1>11. ASSUME UNCHANGED vars PROVE DiskInv' /\ AStep
    <2>1. Quiet
      BY <1>11 DEF vars, disk, bufs, calls, Quiet
    <2>2. Active' = Active
      BY <1>11 DEF vars, Active
    <2> QED  BY <1>0, <2>1, <2>2, QuietStep
  <1> QED  BY <1>2, <1>3, <1>4, <1>5, <1>6, <1>7, <1>8, <1>9, <1>10, <1>11 DEF Next

\* The invariant of the two theorems below: what the header, the log blocks, the
\* buffers and their reference counts say of each other at every step of commit()
\* and of recover_from_log() (log.c:68-139, 193-202).
THEOREM DiskInvariant ==
  ASSUME OPBLOCKS < MAXOPBLOCKS, ~(Recycling /\ Crashes)
  PROVE  Spec => []DiskInv
  <1>1. Init => DiskInv
    BY DiskInit
  <1>2. SpaceInv /\ DiskInv /\ [Next]_vars => DiskInv'
    BY DiskStep
  <1> QED  BY <1>1, <1>2, SpaceInvariant, PTL DEF Spec

\* log_write()'s bpin() keeps a modified buffer in the cache until install_trans()
\* has written it home and called bunpin() (log.c:74-81, 205-233).
THEOREM LoggedStaysInCache ==
  ASSUME OPBLOCKS < MAXOPBLOCKS, ~(Recycling /\ Crashes)
  PROVE  Spec => []LoggedInCache
  <1>1. SpaceInv /\ DiskInv => LoggedInCache
    <2> SUFFICES ASSUME SpaceInv, DiskInv, boot = "run", NEW i \in 1..Len(lh),
                        Installing => i >= tail
                 PROVE  cache[lh[i]] # None
      BY DEF LoggedInCache, Installing
    <2>1. lh[i] \in Block /\ Pending(lh[i])
      BY SMTT(30) DEF SpaceInv, TypeOK, Pending
    <2> QED  BY <2>1 DEF DiskInv, Kept
  <1> QED  BY <1>1, DiskInvariant, SpaceInvariant, PTL

\* A system call is all or nothing whatever a crash interrupts: begin_op, log_write,
\* end_op, commit and recover_from_log (log.c:53-233) implement the disk of
\* AtomicDisk.tla, and write_head() is the step at which a transaction commits.
THEOREM LogIsAtomic ==
  ASSUME OPBLOCKS < MAXOPBLOCKS, ~(Recycling /\ Crashes)
  PROVE  Spec => AtomicAcrossCrashes
  <1>1. Init => A!AInit
    <2> SUFFICES ASSUME Init PROVE A!AInit
      OBVIOUS
    <2>1. Recovered = home /\ home \in [Block -> Val]
      BY SMTT(30) DEF Init, Recovered
    <2>2. Current = Recovered
      BY DEF Init, Current
    <2>3. Active = {}
      BY DEF Init, Active
    <2> QED  BY <2>1, <2>2, <2>3 DEF A!AInit
  <1>2. SpaceInv /\ DiskInv /\ [Next]_vars => [A!ANext]_(A!avars)
    BY DiskStep
  <1> QED  BY <1>1, <1>2, SpaceInvariant, DiskInvariant, PTL DEF Spec,
              AtomicAcrossCrashes, A!ASpec
=============================================================================

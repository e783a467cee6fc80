------------------------------ MODULE LogProofs ------------------------------
(***************************************************************************)
(* Proof that log_write() never panics with "too big a transaction", for   *)
(* any number of processes and blocks and any sizes, provided that every   *)
(* system call writes fewer than MAXOPBLOCKS distinct blocks.              *)
(*                                                                         *)
(* begin_op() counts MAXOPBLOCKS for every outstanding call on top of what *)
(* is already in the log, so a block that a running call has logged is     *)
(* counted twice.  The invariant Room takes the double count off again:    *)
(* wrote, the set of pairs (call, block), is what has been counted twice.  *)
(* Share bounds that set, for every set of running calls.                  *)
(***************************************************************************)
EXTENDS Log, FiniteSetTheorems, TLAPS

\* A leaf that names no prover is for Zenon, within half a minute.
USE ZenonT(30)

InCommit(p) == pc[p] \in {"write_log", "install", "committed"}
PairsOf(S) == {w \in wrote : w[1] \in S}

Phases ==
  /\ boot # "run" => committing = FALSE /\ \A p \in Proc : pc[p] = "idle"
  /\ \A p \in Proc : InCommit(p) => committing
  /\ \A p, q \in Proc : InCommit(p) /\ InCommit(q) => p = q
  /\ committing => Active = {}
  /\ \A p \in Proc : pc[p] = "committed" => lh = <<>>
  /\ (boot = "run" /\ ~committing /\ Active = {}) => lh = <<>>

Count == outstanding = Cardinality(Active)
Holding == \A p \in Proc : pc[p] = "log_write"
                             => holds[p] \in Block /\ MayWrite(p, holds[p])
Recorded == \A w \in wrote : w[1] \in Active /\ w[2] \in Logged
Share == \A S \in SUBSET Active :
           Cardinality(PairsOf(S)) <= Cardinality(S) * OPBLOCKS
Room == Len(lh) + outstanding * MAXOPBLOCKS
          <= LOGSIZE - 2 + outstanding + Cardinality(wrote)
HeadFits == Len(loghead) <= LOGSIZE - 2

SpaceInv == /\ TypeOK /\ Phases /\ Count /\ Holding /\ Recorded /\ Share
            /\ Room /\ HeadFits

-----------------------------------------------------------------------------
(* Arithmetic and counting *)

\* Multiplication by a natural number is monotonic.
LEMMA TimesMonotonic ==
  ASSUME NEW a \in Nat, NEW b \in Nat, NEW c \in Nat, b <= c
  PROVE  a * b <= a * c
  BY SMTT(30)

\* One more reservation of MAXOPBLOCKS, or of OPBLOCKS.
LEMMA TimesSuccessor ==
  ASSUME NEW a \in Int, NEW b \in Nat
  PROVE  /\ a * b \in Int
         /\ (a + 1) * b = a * b + b
         /\ (a - 1) * b = a * b - b
  BY SMTT(30)

\* One more than a number below a bound, and less than a sum.
LEMMA WithinBound ==
  /\ \A a, b \in Nat : a < b => a + 1 \in Nat /\ a + 1 <= b
  /\ \A a, b, c \in Nat : a + b - c <= a + b
  BY SMTT(30)

\* The sets that the invariant counts are finite.
LEMMA Finite ==
  ASSUME TypeOK
  PROVE  /\ IsFiniteSet(wrote) /\ Cardinality(wrote) \in Nat
         /\ IsFiniteSet(Active) /\ Cardinality(Active) \in Nat
         /\ \A S : IsFiniteSet(PairsOf(S)) /\ Cardinality(PairsOf(S)) \in Nat
         /\ \A p : IsFiniteSet(Wrote(p)) /\ Cardinality(Wrote(p)) \in Nat
  <1>1. IsFiniteSet(wrote)
    BY LogAssumption, FS_Product, FS_Subset DEF LogAssumption, TypeOK
  <1>2. IsFiniteSet(Active)
    BY LogAssumption, FS_Subset DEF LogAssumption, Active
  <1>3. \A S : IsFiniteSet(PairsOf(S))
    <2>1. \A S : PairsOf(S) \in SUBSET wrote
      BY DEF PairsOf
    <2> QED  BY <1>1, <2>1, FS_Subset
  <1>4. \A p : IsFiniteSet(Wrote(p))
    <2>1. \A p : Wrote(p) \in SUBSET Block
      BY DEF Wrote
    <2> QED  BY LogAssumption, <2>1, FS_Subset DEF LogAssumption
  <1> QED  BY <1>1, <1>2, <1>3, <1>4, FS_CardinalityType

\* While the invariant holds, the transaction leaves a block of the log unused:
\* the tests of log_write() (log.c:219) do not fire.
LEMMA LogFits ==
  ASSUME SpaceInv, OPBLOCKS < MAXOPBLOCKS
  PROVE  Len(lh) <= LOGSIZE - 2
  <1> USE DEF SpaceInv
  <1>1. PairsOf(Active) = wrote
    BY DEF PairsOf, Recorded
  <1>2. Cardinality(wrote) <= outstanding * OPBLOCKS
    BY <1>1 DEF Share, Count
  <1>3. outstanding \in Nat /\ Cardinality(wrote) \in Nat /\ Len(lh) \in Nat
    BY Finite, SMTT(30) DEF TypeOK
  <1>4. outstanding * (OPBLOCKS + 1) <= outstanding * MAXOPBLOCKS
    BY <1>3, LogAssumption, TimesMonotonic, SMTT(30) DEF LogAssumption
  <1>5. outstanding * (OPBLOCKS + 1) = outstanding * OPBLOCKS + outstanding
    BY <1>3, LogAssumption, SMTT(30) DEF LogAssumption
  <1>6. /\ outstanding * OPBLOCKS \in Nat
        /\ outstanding * MAXOPBLOCKS \in Nat
    BY <1>3, LogAssumption, SMTT(30) DEF LogAssumption
  <1> QED  BY <1>2, <1>3, <1>4, <1>5, <1>6, LogAssumption, SMTT(30) DEF Room, LogAssumption

-----------------------------------------------------------------------------
(* Initial states *)

\* The log that boots is empty and nobody is in an operation, so there is room in it.
LEMMA SpaceInit ==
  ASSUME Init, OPBLOCKS < MAXOPBLOCKS
  PROVE  SpaceInv
  <1> USE LogAssumption DEF LogAssumption, Init
  <1>1. Active = {}
    BY DEF Active
  <1>2. TypeOK
    <2>1. (CHOOSE v \in Val : TRUE) \in Val
      OBVIOUS
    <2>2. logdata \in [1..(NLOG - 1) -> Val]
      BY <2>1
    <2>3. refcnt \in [Block -> 0..(UINTMOD - 1)]
      BY SMTT(30)
    <2>4. loghead \in Seq(Block) /\ lh \in Seq(Block)
      BY SMTT(30)
    <2>5. cache \in [Block -> Val \cup {None}] /\ holds \in [Proc -> Block \cup {None}]
      OBVIOUS
    <2>6. outstanding \in Nat /\ tail \in Nat \ {0}
      BY SMTT(30)
    <2>7. home \in [Block -> Val] /\ wrote \subseteq Proc \X Block
      OBVIOUS
    <2>8. /\ committing \in BOOLEAN /\ boot \in {"read_head", "install", "run"}
          /\ pc \in [Proc -> {"idle", "begin", "asleep", "op", "log_write",
                              "write_log", "install", "committed"}]
      OBVIOUS
    <2> QED  BY ONLY <2>2, <2>3, <2>4, <2>5, <2>6, <2>7, <2>8 DEF TypeOK
  <1>3. Phases
    BY <1>1 DEF Phases, InCommit
  <1>4. Count /\ Holding /\ Recorded /\ HeadFits
    BY <1>1, FS_EmptySet, SMTT(30) DEF Count, Holding, Recorded, HeadFits
  <1>5. Share
    <2>1. \A S : PairsOf(S) = {}
      BY DEF PairsOf
    <2>2. \A S \in SUBSET Active : S = {}
      BY <1>1
    <2>3. 0 <= 0 * OPBLOCKS
      BY SMTT(30)
    <2> QED  BY ONLY <2>1, <2>2, <2>3, FS_EmptySet DEF Share
  <1>6. Room
    BY FS_EmptySet, SMTT(30) DEF Room
  <1> QED  BY <1>2, <1>3, <1>4, <1>5, <1>6 DEF SpaceInv

-----------------------------------------------------------------------------
(* Steps *)

\* How a step changes the set of running calls, their number, and what they
\* have logged: only begin_op, log_write, end_op and a crash change them.
Still == UNCHANGED <<outstanding, wrote>> /\ Active' = Active

\* What each step of log.c does to the operations in progress and to the blocks they
\* have logged: begin_op() lets one in, log_write() adds a block, end_op() lets one out,
\* a crash drops them all, and the other steps leave them alone.
LEMMA ActiveStep ==
  ASSUME TypeOK
  PROVE  /\ \A p \in Proc : BeginSleep(p) => Still
         /\ \A p \in Proc : BeginAdmit(p) =>
              /\ p \notin Active /\ Active' = Active \cup {p}
              /\ wrote' = wrote
         /\ \A p \in Proc, b \in Block, v \in Val : Modify(p, b, v) => Still
         /\ \A p \in Proc : LogWrite(p) =>
              /\ p \in Active /\ Active' = Active
              /\ outstanding' = outstanding
              /\ wrote' = wrote \cup {<<p, holds[p]>>}
         /\ \A p \in Proc : LeaveOp(p) =>
              /\ p \in Active /\ Active' = Active \ {p}
              /\ outstanding' = outstanding - 1
              /\ wrote' = {w \in wrote : w[1] # p}
         /\ \A p \in Proc : CommitStep(p) => Still
         /\ Recovery => Still
         /\ \A b \in Block : Recycle(b) => Still
         /\ Crash => outstanding' = 0 /\ wrote' = {} /\ Active' = {}
         /\ UNCHANGED vars => Still
  <1> USE DEF Active, Still, disk, bufs, ops, calls
  <1>1. ASSUME NEW p \in Proc, BeginSleep(p) PROVE Still
    BY <1>1 DEF BeginSleep, TypeOK
  <1>2. ASSUME NEW p \in Proc, BeginAdmit(p)
        PROVE  p \notin Active /\ Active' = Active \cup {p} /\ wrote' = wrote
    BY <1>2 DEF BeginAdmit, TypeOK
  <1>3. ASSUME NEW p \in Proc, NEW b \in Block, NEW v \in Val, Modify(p, b, v)
        PROVE  Still
    BY <1>3 DEF Modify, TypeOK
  <1>4. ASSUME NEW p \in Proc, LogWrite(p)
        PROVE  /\ p \in Active /\ Active' = Active
               /\ outstanding' = outstanding
               /\ wrote' = wrote \cup {<<p, holds[p]>>}
    BY <1>4 DEF LogWrite, TypeOK
  <1>5. ASSUME NEW p \in Proc, LeaveOp(p)
        PROVE  /\ p \in Active /\ Active' = Active \ {p}
               /\ outstanding' = outstanding - 1
               /\ wrote' = {w \in wrote : w[1] # p}
    <2>1. CASE EndOp(p)
      BY <2>1 DEF EndOp, Forget, Wakeup, TypeOK
    <2>2. CASE EndOpCommit(p)
      BY <2>2, SMTT(30) DEF EndOpCommit, Forget, TypeOK
    <2> QED  BY <1>5, <2>1, <2>2 DEF LeaveOp
  <1>6. ASSUME NEW p \in Proc, CommitStep(p) PROVE Still
    <2>1. CASE WriteLog(p)
      BY <2>1 DEF WriteLog
    <2>2. CASE WriteHead(p)
      BY <2>2 DEF WriteHead, TypeOK
    <2>3. CASE Install(p)
      BY <2>3 DEF Install
    <2>4. CASE Erase(p)
      BY <2>4 DEF Erase, TypeOK
    <2>5. CASE Committed(p)
      BY <2>5 DEF Committed, Wakeup, TypeOK
    <2> QED  BY <1>6, <2>1, <2>2, <2>3, <2>4, <2>5 DEF CommitStep
  <1>7. ASSUME Recovery PROVE Still
    BY <1>7 DEF Recovery, ReadHead, RecoverInstall, RecoverErase
  <1>8. ASSUME NEW b \in Block, Recycle(b) PROVE Still
    BY <1>8 DEF Recycle
  <1>9. ASSUME Crash PROVE outstanding' = 0 /\ wrote' = {} /\ Active' = {}
    BY <1>9 DEF Crash
  <1>10. ASSUME UNCHANGED vars PROVE Still
    BY <1>10 DEF vars
  <1> QED  BY <1>1, <1>2, <1>3, <1>4, <1>5, <1>6, <1>7, <1>8, <1>9, <1>10

\* The type invariant: that log_write() keeps lh within the log is what makes
\* install_trans() copy real contents of log blocks to their home locations.
LEMMA TypeStep ==
  ASSUME SpaceInv, OPBLOCKS < MAXOPBLOCKS, [Next]_vars
  PROVE  TypeOK'
  <1> USE LogAssumption DEF LogAssumption, SpaceInv, disk, bufs, ops, calls
  <1> DEFINE Label == {"idle", "begin", "asleep", "op", "log_write", "write_log",
                       "install", "committed"}
  <1> DEFINE UInt == 0..(UINTMOD - 1)
  <1>1. /\ \A n \in UInt : Up(n) \in UInt /\ Down(n) \in UInt
        /\ \A f \in [Proc -> Label] : Wakeup(f) \in [Proc -> Label]
    BY SMTT(30) DEF Up, Down, Wakeup
  <1>2. \A b \in Block : Bread(b) \in Val
    BY DEF Bread, TypeOK
  <1>3. tail <= Len(lh) => lh[tail] \in Block /\ logdata[tail] \in Val
    BY LogFits, SMTT(30) DEF TypeOK
  <1>0. ASSUME InstallBlock
         PROVE  /\ home' \in [Block -> Val] /\ cache' \in [Block -> Val \cup {None}]
                /\ refcnt' \in [Block -> UInt] /\ tail' \in Nat \ {0}
    <2>1. lh[tail] \in Block /\ logdata[tail] \in Val
      BY <1>3, <1>0 DEF InstallBlock
    <2>2. refcnt[lh[tail]] \in UInt
      BY <2>1 DEF TypeOK
    <2>3. PICK n \in UInt : refcnt' = [refcnt EXCEPT ![lh[tail]] = n]
      BY <1>1, <1>0, <2>2 DEF InstallBlock, Brelse, Bunpin
    <2> QED  BY <1>0, <2>1, <2>3, SMTT(30) DEF InstallBlock, TypeOK
  <1>4. ASSUME NEW p \in Proc, BeginSleep(p) PROVE TypeOK'
    BY <1>4 DEF BeginSleep, TypeOK
  <1>5. ASSUME NEW p \in Proc, BeginAdmit(p) PROVE TypeOK'
    BY <1>5, SMTT(30) DEF BeginAdmit, TypeOK
  <1>6. ASSUME NEW p \in Proc, NEW b \in Block, NEW v \in Val, Modify(p, b, v)
        PROVE TypeOK'
    <2>1. refcnt' = [refcnt EXCEPT ![b] = Up(refcnt[b])] /\ refcnt[b] \in UInt
      BY <1>6 DEF Modify, TypeOK
    <2>2. refcnt' \in [Block -> UInt]
      BY <1>1, <2>1 DEF TypeOK
    <2> QED  BY <1>6, <2>2 DEF Modify, TypeOK
  <1>7. ASSUME NEW p \in Proc, LogWrite(p) PROVE TypeOK'
    <2>1. holds[p] \in Block
      BY <1>7 DEF LogWrite, Holding
    <2>2. refcnt' \in [Block -> UInt]
      <3>1. refcnt[holds[p]] \in UInt
        BY <2>1 DEF TypeOK
      <3>2. PICK n \in UInt : refcnt' = [refcnt EXCEPT ![holds[p]] = Down(n)]
        BY <1>1, <1>7, <3>1 DEF LogWrite, Brelse, Bpin
      <3> QED  BY <1>1, <3>2 DEF TypeOK
    <2>3. lh' \in Seq(Block) /\ wrote' \subseteq Proc \X Block
      BY <1>7, <2>1, SMTT(30) DEF LogWrite, TypeOK
    <2> QED  BY <1>7, <2>2, <2>3 DEF LogWrite, TypeOK
  <1>8. ASSUME NEW p \in Proc, LeaveOp(p) PROVE TypeOK'
    <2>1. outstanding - 1 \in Nat
      <3>1. outstanding = Cardinality(Active) /\ p \in Active
        BY <1>8, ActiveStep DEF Count
      <3> QED  BY <3>1, Finite, FS_EmptySet, SMTT(30)
    <2>2. wrote' \subseteq Proc \X Block
      BY <1>8, ActiveStep DEF TypeOK
    <2>3. CASE EndOp(p)
      BY <1>1, <2>1, <2>2, <2>3 DEF EndOp, TypeOK
    <2>4. CASE EndOpCommit(p)
      BY <2>2, <2>4, SMTT(30) DEF EndOpCommit, TypeOK
    <2> QED  BY <1>8, <2>3, <2>4 DEF LeaveOp
  <1>9. ASSUME NEW p \in Proc, CommitStep(p) PROVE TypeOK'
    <2>1. CASE WriteLog(p)
      <3>1. tail <= Len(lh) /\ Bread(lh[tail]) \in Val
        BY <1>2, <1>3, <2>1 DEF WriteLog
      <3>2. logdata' \in [1..(NLOG - 1) -> Val] /\ cache' \in [Block -> Val \cup {None}]
        BY <2>1, <3>1 DEF WriteLog, TypeOK
      <3>3. tail' \in Nat \ {0}
        BY <2>1, SMTT(30) DEF WriteLog, TypeOK
      <3>4. UNCHANGED <<home, loghead, refcnt, lh, outstanding, committing, boot, pc,
                        holds, wrote>>
        BY <2>1 DEF WriteLog
      <3> QED  BY <3>2, <3>3, <3>4 DEF TypeOK
    <2>2. CASE WriteHead(p)
      BY <2>2, SMTT(30) DEF WriteHead, TypeOK
    <2>3. CASE Install(p)
      BY <1>0, <2>3 DEF Install, TypeOK
    <2>4. CASE Erase(p)
      BY <2>4, SMTT(30) DEF Erase, EraseHead, TypeOK
    <2>5. CASE Committed(p)
      BY <1>1, <2>5 DEF Committed, TypeOK
    <2> QED  BY <1>9, <2>1, <2>2, <2>3, <2>4, <2>5 DEF CommitStep
  <1>10. ASSUME Recovery PROVE TypeOK'
    <2>1. CASE ReadHead
      BY <2>1, SMTT(30) DEF ReadHead, TypeOK
    <2>2. CASE RecoverInstall
      BY <1>0, <2>2 DEF RecoverInstall, TypeOK
    <2>3. CASE RecoverErase
      BY <2>3, SMTT(30) DEF RecoverErase, EraseHead, TypeOK
    <2> QED  BY <1>10, <2>1, <2>2, <2>3 DEF Recovery
  <1>11. ASSUME NEW b \in Block, Recycle(b) PROVE TypeOK'
    BY <1>11 DEF Recycle, TypeOK
  <1>12. ASSUME Crash PROVE TypeOK'
    <2>1. /\ cache' \in [Block -> Val \cup {None}] /\ refcnt' \in [Block -> UInt]
          /\ pc' \in [Proc -> Label] /\ holds' \in [Proc -> Block \cup {None}]
      BY <1>12, SMTT(30) DEF Crash
    <2>2. /\ lh' \in Seq(Block) /\ outstanding' \in Nat /\ committing' \in BOOLEAN
          /\ boot' \in {"read_head", "install", "run"} /\ tail' \in Nat \ {0}
          /\ wrote' \subseteq Proc \X Block
      <3>1. /\ lh' = <<>> /\ outstanding' = 0 /\ committing' = FALSE
            /\ boot' = "read_head" /\ tail' = 1 /\ wrote' = {}
        BY <1>12 DEF Crash
      <3>2. lh' \in Seq(Block)
        BY <3>1, SMTT(30)
      <3>3. outstanding' \in Nat /\ tail' \in Nat \ {0}
        BY <3>1, SMTT(30)
      <3>4. committing' \in BOOLEAN /\ boot' \in {"read_head", "install", "run"}
        BY <3>1
      <3> QED  BY <3>1, <3>2, <3>3, <3>4
    <2>3. UNCHANGED <<home, loghead, logdata>>
      BY <1>12 DEF Crash
    <2> QED  BY <2>1, <2>2, <2>3 DEF TypeOK
  <1>13. ASSUME UNCHANGED vars PROVE TypeOK'
    BY <1>13 DEF vars, TypeOK
  <1> QED  BY <1>4, <1>5, <1>6, <1>7, <1>8, <1>9, <1>10, <1>11, <1>12, <1>13 DEF Next

\* outstanding is the number of running calls.
LEMMA CountStep ==
  ASSUME SpaceInv, [Next]_vars
  PROVE  Count'
  <1> USE DEF SpaceInv
  <1>1. ASSUME Still PROVE Count'
    BY <1>1 DEF Still, Count
  <1>2. ASSUME NEW p \in Proc, BeginAdmit(p) PROVE Count'
    <2>1. Cardinality(Active \cup {p}) = Cardinality(Active) + 1
      BY <1>2, ActiveStep, Finite, FS_AddElement
    <2> QED  BY <1>2, <2>1, ActiveStep DEF BeginAdmit, Count
  <1>3. ASSUME NEW p \in Proc, LogWrite(p) PROVE Count'
    BY <1>3, ActiveStep DEF Count
  <1>4. ASSUME NEW p \in Proc, LeaveOp(p) PROVE Count'
    <2>1. Cardinality(Active \ {p}) = Cardinality(Active) - 1
      BY <1>4, ActiveStep, Finite, FS_RemoveElement
    <2> QED  BY <1>4, <2>1, ActiveStep DEF Count
  <1>5. ASSUME Crash PROVE Count'
    BY <1>5, ActiveStep, FS_EmptySet DEF Count
  <1> QED  BY <1>1, <1>2, <1>3, <1>4, <1>5, ActiveStep DEF Next

\* A commit and a running call exclude each other, and so do two commits; the
\* log is empty when neither is there.
LEMMA PhasesStep ==
  ASSUME SpaceInv, [Next]_vars
  PROVE  Phases'
  <1> USE DEF SpaceInv, disk, bufs, ops, calls
  <1>1. ASSUME NEW p \in Proc, BeginSleep(p) PROVE Phases'
    BY <1>1 DEF BeginSleep, Phases, InCommit, Active, TypeOK
  <1>2. ASSUME NEW p \in Proc, BeginAdmit(p) PROVE Phases'
    BY <1>2 DEF BeginAdmit, MustWait, Phases, InCommit, Active, TypeOK
  <1>3. ASSUME NEW p \in Proc, NEW b \in Block, NEW v \in Val, Modify(p, b, v)
        PROVE Phases'
    BY <1>3 DEF Modify, Phases, InCommit, Active, TypeOK
  <1>4. ASSUME NEW p \in Proc, LogWrite(p) PROVE Phases'
    BY <1>4 DEF LogWrite, Phases, InCommit, Active, TypeOK
  <1>5. ASSUME NEW p \in Proc, LeaveOp(p) PROVE Phases'
    <2>1. p \in Active /\ Active' = Active \ {p} /\ outstanding = Cardinality(Active)
      BY <1>5, ActiveStep DEF Count
    <2>2. boot = "run" /\ ~committing /\ \A q \in Proc : ~InCommit(q)
      BY <2>1 DEF Phases, Active, InCommit
    <2>3. CASE EndOp(p)
      <3>1. Active # {p}
        BY <2>1, <2>3, FS_Singleton DEF EndOp
      <3>2. Active' # {}
        BY <2>1, <3>1
      <3> QED  BY <2>2, <2>3, <3>2 DEF EndOp, Wakeup, Phases, InCommit, TypeOK
    <2>4. CASE EndOpCommit(p)
      <3>1. Active' = {}
        <4>1. PICK q : Active = {q}
          BY <2>1, <2>4, Finite, FS_Singleton DEF EndOpCommit
        <4> QED  BY <2>1, <4>1
      <3>2. Len(lh) = 0 => lh = <<>>
        BY SMTT(30) DEF TypeOK
      <3>3. Len(lh) \in Nat
        BY SMTT(30) DEF TypeOK
      <3> QED  BY <2>2, <2>4, <3>1, <3>2, <3>3, SMTT(30) DEF EndOpCommit, Phases,
                  InCommit, TypeOK
    <2> QED  BY <1>5, <2>3, <2>4 DEF LeaveOp
  <1>6. ASSUME NEW p \in Proc, CommitStep(p) PROVE Phases'
    <2>1. InCommit(p) /\ Active' = Active /\ Active = {} /\ committing /\ boot = "run"
      BY <1>6, ActiveStep DEF CommitStep, WriteLog, WriteHead, Install, Erase, Committed,
         InCommit, Phases, Still
    <2>2. CASE WriteLog(p)
      BY <2>1, <2>2 DEF WriteLog, Phases, InCommit
    <2>3. CASE WriteHead(p)
      BY <2>1, <2>3 DEF WriteHead, Phases, InCommit, TypeOK
    <2>4. CASE Install(p)
      BY <2>1, <2>4 DEF Install, Phases, InCommit
    <2>5. CASE Erase(p)
      BY <2>1, <2>5 DEF Erase, EraseHead, Phases, InCommit, TypeOK
    <2>6. CASE Committed(p)
      BY <2>1, <2>6 DEF Committed, Wakeup, Phases, InCommit, TypeOK
    <2> QED  BY <1>6, <2>2, <2>3, <2>4, <2>5, <2>6 DEF CommitStep
  <1>7. ASSUME Recovery PROVE Phases'
    BY <1>7 DEF Recovery, ReadHead, RecoverInstall, RecoverErase, EraseHead, Phases,
       InCommit, Active
  <1>8. ASSUME NEW b \in Block, Recycle(b) PROVE Phases'
    BY <1>8 DEF Recycle, Phases, InCommit, Active
  <1>9. ASSUME Crash PROVE Phases'
    BY <1>9 DEF Crash, Phases, InCommit, Active
  <1>10. ASSUME UNCHANGED vars PROVE Phases'
    BY <1>10 DEF vars, Phases, InCommit, Active
  <1> QED  BY <1>1, <1>2, <1>3, <1>4, <1>5, <1>6, <1>7, <1>8, <1>9, <1>10 DEF Next

\* A step that logs nothing and ends no call leaves the logged pairs alone.
LEMMA WroteStep ==
  ASSUME SpaceInv, Still
  PROVE  Share' /\ \A p : Wrote(p)' = Wrote(p)
  BY DEF SpaceInv, Still, Share, PairsOf, Wrote

\* What a call has logged, and the buffer it holds, stay within OPBLOCKS.
LEMMA HoldingStep ==
  ASSUME SpaceInv, [Next]_vars
  PROVE  Holding'
  <1> USE DEF SpaceInv, disk, bufs, ops, calls, MayWrite
  <1>1. ASSUME NEW p \in Proc, BeginSleep(p) PROVE Holding'
    BY <1>1 DEF BeginSleep, Holding, Wrote, TypeOK
  <1>2. ASSUME NEW p \in Proc, BeginAdmit(p) PROVE Holding'
    BY <1>2 DEF BeginAdmit, Holding, Wrote, TypeOK
  <1>3. ASSUME NEW p \in Proc, NEW b \in Block, NEW v \in Val, Modify(p, b, v)
        PROVE Holding'
    BY <1>3 DEF Modify, Holding, Wrote, TypeOK
  <1>4. ASSUME NEW p \in Proc, LogWrite(p) PROVE Holding'
    <2>1. \A q \in Proc \ {p} : Wrote(q)' = Wrote(q)
      BY <1>4 DEF LogWrite, Wrote
    <2> QED  BY <1>4, <2>1 DEF LogWrite, Holding, TypeOK
  <1>5. ASSUME NEW p \in Proc, LeaveOp(p) PROVE Holding'
    <2>1. \A q \in Proc \ {p} : Wrote(q)' = Wrote(q)
      BY <1>5, ActiveStep DEF Wrote
    <2>2. /\ pc'[p] # "log_write" /\ holds' = holds
          /\ \A q \in Proc \ {p} : pc'[q] = "log_write" => pc[q] = "log_write"
      BY <1>5 DEF LeaveOp, EndOp, EndOpCommit, Wakeup, TypeOK
    <2> QED  BY <2>1, <2>2 DEF Holding
  <1>6. ASSUME NEW p \in Proc, CommitStep(p) PROVE Holding'
    <2>1. /\ holds' = holds /\ wrote' = wrote
          /\ \A q \in Proc : pc'[q] = "log_write" => pc[q] = "log_write"
      BY <1>6 DEF CommitStep, WriteLog, WriteHead, Install, Erase, Committed, Wakeup, TypeOK
    <2> QED  BY <2>1 DEF Holding, Wrote
  <1>7. ASSUME Recovery PROVE Holding'
    BY <1>7 DEF Recovery, ReadHead, RecoverInstall, RecoverErase, Holding, Wrote
  <1>8. ASSUME NEW b \in Block, Recycle(b) PROVE Holding'
    BY <1>8 DEF Recycle, Holding, Wrote
  <1>9. ASSUME Crash PROVE Holding'
    BY <1>9 DEF Crash, Holding
  <1>10. ASSUME UNCHANGED vars PROVE Holding'
    BY <1>10 DEF vars, Holding, Wrote
  <1> QED  BY <1>1, <1>2, <1>3, <1>4, <1>5, <1>6, <1>7, <1>8, <1>9, <1>10 DEF Next

\* No running call and nothing outstanding: nothing is recorded as written.
LEMMA NothingWritten ==
  ASSUME SpaceInv, Active = {}
  PROVE  wrote = {} /\ outstanding = 0 /\ Cardinality(wrote) = 0
  BY FS_EmptySet DEF SpaceInv, Recorded, Count

\* How a step changes the transaction: it is emptied or read back only when no
\* call is running.
LEMMA LogStep ==
  ASSUME SpaceInv, [Next]_vars
  PROVE  \/ lh' = lh
         \/ \E p \in Proc : LogWrite(p)
         \/ Still /\ Active = {} /\ lh' \in {<<>>, loghead}
         \/ Crash
  <1> USE DEF SpaceInv, disk, bufs, ops, calls
  <1>1. ASSUME NEW p \in Proc, CommitStep(p)
        PROVE  lh' = lh \/ (Still /\ Active = {} /\ lh' \in {<<>>, loghead})
    BY <1>1, ActiveStep DEF CommitStep, WriteLog, WriteHead, Install, Erase, EraseHead,
       Committed, Phases, InCommit
  <1>2. ASSUME Recovery
        PROVE  lh' = lh \/ (Still /\ Active = {} /\ lh' \in {<<>>, loghead})
    BY <1>2, ActiveStep DEF Recovery, ReadHead, RecoverInstall, RecoverErase, EraseHead,
       Phases, Active
  <1>3. ASSUME NEW p \in Proc, BeginSleep(p) \/ BeginAdmit(p) \/ LeaveOp(p)
        PROVE  lh' = lh
    BY <1>3 DEF BeginSleep, BeginAdmit, LeaveOp, EndOp, EndOpCommit
  <1>4. ASSUME NEW p \in Proc, NEW b \in Block, NEW v \in Val,
               Modify(p, b, v) \/ Recycle(b)
        PROVE  lh' = lh
    BY <1>4 DEF Modify, Recycle
  <1>5. ASSUME NEW b \in Block, Recycle(b) PROVE lh' = lh
    BY <1>5 DEF Recycle
  <1>6. ASSUME UNCHANGED vars PROVE lh' = lh
    BY <1>6 DEF vars
  <1> QED  BY <1>1, <1>2, <1>3, <1>4, <1>5, <1>6, SMTT(30) DEF Next

\* Every recorded write belongs to a running call and is in the log.
LEMMA RecordedStep ==
  ASSUME SpaceInv, [Next]_vars
  PROVE  Recorded'
  <1> USE DEF SpaceInv
  <1>1. ASSUME Still, lh' = lh PROVE Recorded'
    BY <1>1 DEF Still, Recorded, Logged
  <1>2. ASSUME Still, Active = {} PROVE Recorded'
    BY <1>2, NothingWritten DEF Still, Recorded
  <1>3. ASSUME NEW p \in Proc, LogWrite(p) PROVE Recorded'
    <2>1. holds[p] \in Logged' /\ Logged \subseteq Logged'
      <3>1. lh \in Seq(Block) /\ holds[p] \in Block
        BY <1>3, SMTT(30) DEF TypeOK, Holding, LogWrite
      <3>2. CASE holds[p] \in Logged
        BY <1>3, <3>2 DEF LogWrite, Logged
      <3>3. CASE holds[p] \notin Logged
        <4>1. lh' = Append(lh, holds[p])
          BY <1>3, <3>3 DEF LogWrite
        <4>2. /\ Len(lh') = Len(lh) + 1 /\ lh'[Len(lh) + 1] = holds[p]
              /\ \A i \in 1..Len(lh) : lh'[i] = lh[i]
              /\ Len(lh) \in Nat
          BY <3>1, <4>1, SMTT(30)
        <4> QED  BY <4>2, SMTT(30) DEF Logged
      <3> QED  BY <3>2, <3>3
    <2>2. /\ p \in Active /\ Active' = Active
          /\ wrote' = wrote \cup {<<p, holds[p]>>}
      BY <1>3, ActiveStep
    <2>3. \A w \in wrote : w[1] \in Active' /\ w[2] \in Logged'
      BY <2>1, <2>2 DEF Recorded
    <2> QED  BY ONLY <2>1, <2>2, <2>3, SMTT(30) DEF Recorded
  <1>4. ASSUME NEW p \in Proc, BeginAdmit(p), lh' = lh PROVE Recorded'
    <2>1. Active' = Active \cup {p} /\ wrote' = wrote
      BY <1>4, ActiveStep
    <2>2. Logged' = Logged
      BY <1>4 DEF Logged
    <2> QED  BY ONLY Recorded, <2>1, <2>2 DEF Recorded
  <1>5. ASSUME NEW p \in Proc, LeaveOp(p), lh' = lh PROVE Recorded'
    <2>1. Active' = Active \ {p} /\ wrote' = {w \in wrote : w[1] # p}
      BY <1>5, ActiveStep, SMTT(30)
    <2>2. Logged' = Logged
      BY <1>5 DEF Logged
    <2> QED  BY <2>1, <2>2 DEF Recorded
  <1>6. ASSUME Crash PROVE Recorded'
    BY <1>6, ActiveStep DEF Recorded
  <1>7. \/ Still \/ Crash \/ \E p \in Proc : BeginAdmit(p) \/ LogWrite(p) \/ LeaveOp(p)
    BY ActiveStep DEF Next
  <1>8. ASSUME NEW p \in Proc, BeginAdmit(p) \/ LeaveOp(p) PROVE lh' = lh
    BY <1>8 DEF BeginAdmit, LeaveOp, EndOp, EndOpCommit
  <1> QED  BY <1>1, <1>2, <1>3, <1>4, <1>5, <1>6, <1>7, <1>8, LogStep

\* The pairs of one call.
LEMMA PairsOfOne ==
  ASSUME SpaceInv, NEW p \in Active
  PROVE  /\ PairsOf({p}) = {p} \X Wrote(p)
         /\ Cardinality(PairsOf({p})) = Cardinality(Wrote(p))
         /\ Cardinality(Wrote(p)) <= OPBLOCKS
  <1>1. PairsOf({p}) = {p} \X Wrote(p)
    <2>1. ASSUME NEW w \in PairsOf({p}) PROVE w \in {p} \X Wrote(p)
      <3>1. w \in Proc \X Block /\ w \in wrote /\ w[1] = p
        BY DEF SpaceInv, TypeOK, PairsOf
      <3>2. w = <<w[1], w[2]>> /\ w[2] \in Block
        BY <3>1, SMTT(30)
      <3> QED  BY <3>1, <3>2 DEF Wrote
    <2>2. ASSUME NEW b \in Wrote(p) PROVE <<p, b>> \in PairsOf({p})
      BY DEF PairsOf, Wrote
    <2> QED  BY <2>1, <2>2, SMTT(30)
  <1>2. /\ IsFiniteSet({p}) /\ Cardinality({p}) = 1
        /\ IsFiniteSet(Wrote(p)) /\ Cardinality(Wrote(p)) \in Nat
    BY Finite, FS_Singleton DEF SpaceInv
  <1>3. Cardinality({p} \X Wrote(p)) = 1 * Cardinality(Wrote(p))
    BY <1>2, FS_Product
  <1>4. Cardinality(PairsOf({p})) <= 1 * OPBLOCKS
    BY <1>2 DEF SpaceInv, Share
  <1>5. OPBLOCKS \in Nat
    BY LogAssumption DEF LogAssumption
  <1>6. \A n \in Nat : 1 * n = n
    BY SMTT(30)
  <1>7. Cardinality(PairsOf({p})) = Cardinality(Wrote(p))
    <2>1. Cardinality({p} \X Wrote(p)) = Cardinality(Wrote(p))
      BY <1>2, <1>3, <1>6
    <2> QED  BY <1>1, <2>1
  <1>8. Cardinality(Wrote(p)) <= OPBLOCKS
    <2>1. 1 * OPBLOCKS = OPBLOCKS
      BY <1>5, <1>6
    <2> QED  BY <1>4, <1>7, <2>1
  <1> QED  BY <1>1, <1>7, <1>8

\* Any set of running calls has logged at most OPBLOCKS blocks per call.
LEMMA ShareStep ==
  ASSUME SpaceInv, [Next]_vars
  PROVE  Share'
  <1> USE DEF SpaceInv
  <1>1. ASSUME NEW p \in Proc, BeginAdmit(p) PROVE Share'
    <2>1. wrote' = wrote /\ p \notin Active /\ Active' = Active \cup {p}
      BY <1>1, ActiveStep
    <2> SUFFICES ASSUME NEW S \in SUBSET Active'
                 PROVE  Cardinality(PairsOf(S)') <= Cardinality(S) * OPBLOCKS
      BY DEF Share, PairsOf
    <2> DEFINE T == S \ {p}
    <2>2. T \in SUBSET Active /\ PairsOf(S)' = PairsOf(T)
      BY <2>1 DEF PairsOf, Recorded
    <2>3. Cardinality(PairsOf(T)) <= Cardinality(T) * OPBLOCKS
      BY <2>2 DEF Share
    <2>4. IsFiniteSet(S)
      BY <2>1, Finite, FS_AddElement, FS_Subset
    <2>5. Cardinality(T) \in Nat /\ Cardinality(S) \in Nat /\ Cardinality(T) <= Cardinality(S)
      BY <2>4, FS_Subset, FS_CardinalityType
    <2>6. Cardinality(T) * OPBLOCKS <= Cardinality(S) * OPBLOCKS
      BY <2>5, TimesMonotonic, LogAssumption, SMTT(30) DEF LogAssumption
    <2>7. Cardinality(PairsOf(T)) \in Nat
      BY Finite
    <2>8. Cardinality(T) * OPBLOCKS \in Nat /\ Cardinality(S) * OPBLOCKS \in Nat
      BY <2>5, LogAssumption, SMTT(30) DEF LogAssumption
    <2> HIDE DEF T
    <2> QED  BY <2>2, <2>3, <2>6, <2>7, <2>8, SMTT(30)
  <1>2. ASSUME NEW p \in Proc, LogWrite(p) PROVE Share'
    <2>1. /\ p \in Active /\ Active' = Active
          /\ wrote' = wrote \cup {<<p, holds[p]>>}
      BY <1>2, ActiveStep
    <2>2. holds[p] \in Block /\ MayWrite(p, holds[p])
      BY <1>2 DEF LogWrite, Holding
    <2>3. /\ IsFiniteSet(Wrote(p) \cup {holds[p]})
          /\ Cardinality(Wrote(p) \cup {holds[p]}) \in Nat
          /\ Cardinality(Wrote(p) \cup {holds[p]}) <= OPBLOCKS
      <3>1. Cardinality(Wrote(p)) <= OPBLOCKS /\ Cardinality(Wrote(p)) \in Nat
        BY <2>1, PairsOfOne, Finite
      <3>2. IsFiniteSet(Wrote(p))
        BY Finite
      <3>3. CASE holds[p] \in Wrote(p)
        <4>1. Wrote(p) \cup {holds[p]} = Wrote(p)
          BY <3>3
        <4> QED  BY <3>1, <3>2, <4>1
      <3>4. CASE holds[p] \notin Wrote(p)
        <4>1. Cardinality(Wrote(p)) < OPBLOCKS
          BY <2>2, <3>4 DEF MayWrite
        <4>2. /\ IsFiniteSet(Wrote(p) \cup {holds[p]})
              /\ Cardinality(Wrote(p) \cup {holds[p]}) = Cardinality(Wrote(p)) + 1
          BY <3>2, <3>4, FS_AddElement
        <4>3. OPBLOCKS \in Nat
          BY LogAssumption DEF LogAssumption
        <4>4. /\ Cardinality(Wrote(p)) + 1 \in Nat
              /\ Cardinality(Wrote(p)) + 1 <= OPBLOCKS
          BY ONLY <3>1, <4>1, <4>3, WithinBound
        <4> QED  BY ONLY <4>2, <4>4
      <3> QED  BY <3>3, <3>4, SMTT(30)
    <2> SUFFICES ASSUME NEW S \in SUBSET Active
                 PROVE  Cardinality(PairsOf(S)') <= Cardinality(S) * OPBLOCKS
      BY <2>1 DEF Share, PairsOf
    <2>4. CASE p \notin S
      <3>1. PairsOf(S)' = PairsOf(S)
        BY <2>1, <2>4, SMTT(30) DEF PairsOf
      <3> QED  BY <3>1 DEF Share
    <2>5. CASE p \in S
      <3> DEFINE T == S \ {p}
                 Q == {p} \X (Wrote(p) \cup {holds[p]})
      <3>1. PairsOf(S)' = PairsOf(T) \cup Q
        <4>1. ASSUME NEW w \in PairsOf(S)' PROVE w \in PairsOf(T) \cup Q
          <5>1. (w \in wrote \/ w = <<p, holds[p]>>) /\ w[1] \in S
            BY <2>1 DEF PairsOf
          <5>2. w \in wrote /\ w[1] = p => w = <<p, w[2]>> /\ w[2] \in Block
            BY SMTT(30) DEF TypeOK
          <5> QED  BY <5>1, <5>2, SMTT(30) DEF PairsOf, Wrote
        <4>2. ASSUME NEW w \in PairsOf(T) PROVE w \in PairsOf(S)'
          BY <2>1 DEF PairsOf
        <4>3. ASSUME NEW b \in Wrote(p) \cup {holds[p]} PROVE <<p, b>> \in PairsOf(S)'
          BY <2>1, <2>5 DEF PairsOf, Wrote
        <4> QED  BY <4>1, <4>2, <4>3, SMTT(30)
      <3>2. IsFiniteSet(Q) /\ Cardinality(Q) \in Nat /\ Cardinality(Q) <= OPBLOCKS
        <4>1. IsFiniteSet({p}) /\ Cardinality({p}) = 1
          BY FS_Singleton
        <4>2. /\ IsFiniteSet(Q)
              /\ Cardinality(Q) = 1 * Cardinality(Wrote(p) \cup {holds[p]})
          BY <2>3, <4>1, FS_Product
        <4> QED  BY <2>3, <4>2, SMTT(30)
      <3>3. Cardinality(PairsOf(T)) <= Cardinality(T) * OPBLOCKS
        BY DEF Share
      <3>4. Cardinality(PairsOf(T) \cup Q) <= Cardinality(PairsOf(T)) + Cardinality(Q)
        <4>1. IsFiniteSet(PairsOf(T)) /\ Cardinality(PairsOf(T)) \in Nat
          BY Finite
        <4>2. /\ Cardinality(PairsOf(T) \cup Q) = Cardinality(PairsOf(T))
                   + Cardinality(Q) - Cardinality(PairsOf(T) \cap Q)
              /\ Cardinality(PairsOf(T) \cap Q) \in Nat
          <5>1. IsFiniteSet(PairsOf(T) \cap Q)
            BY <4>1, FS_Intersection
          <5> QED  BY <3>2, <4>1, <5>1, FS_Union, FS_CardinalityType
        <4> QED  BY ONLY <3>2, <4>1, <4>2, WithinBound
      <3>5. /\ Cardinality(S) \in Nat /\ Cardinality(T) \in Int
            /\ Cardinality(T) = Cardinality(S) - 1
        BY <2>5, Finite, FS_Subset, FS_RemoveElement, FS_CardinalityType, SMTT(30)
      <3>6. /\ Cardinality(T) * OPBLOCKS = Cardinality(S) * OPBLOCKS - OPBLOCKS
            /\ Cardinality(S) * OPBLOCKS \in Int
        BY <3>5, TimesSuccessor, LogAssumption, SMTT(30) DEF LogAssumption
      <3>7. Cardinality(PairsOf(T)) \in Nat /\ Cardinality(PairsOf(S)') \in Nat
        <4>1. IsFiniteSet(PairsOf(T) \cup Q)
          BY <3>2, Finite, FS_Union
        <4> QED  BY <3>1, <4>1, Finite, FS_CardinalityType
      <3> HIDE DEF T, Q
      <3> QED  BY <3>1, <3>2, <3>3, <3>4, <3>6, <3>7, LogAssumption, SMTT(30)
                  DEF LogAssumption
    <2> QED  BY <2>4, <2>5
  <1>3. ASSUME NEW p \in Proc, LeaveOp(p) PROVE Share'
    <2>1. Active' = Active \ {p} /\ wrote' = {w \in wrote : w[1] # p}
      BY <1>3, ActiveStep
    <2>2. \A S \in SUBSET Active' : PairsOf(S)' = PairsOf(S)
      BY <2>1 DEF PairsOf
    <2> QED  BY <2>1, <2>2 DEF Share
  <1>4. ASSUME Crash PROVE Share'
    <2>1. \A S \in SUBSET Active' : S = {} /\ PairsOf(S)' = {}
      BY <1>4, ActiveStep DEF PairsOf
    <2>2. 0 <= 0 * OPBLOCKS
      BY LogAssumption, SMTT(30) DEF LogAssumption
    <2> QED  BY ONLY <2>1, <2>2, FS_EmptySet DEF Share
  <1> QED  BY <1>1, <1>2, <1>3, <1>4, ActiveStep, WroteStep DEF Next

\* The space begin_op() reserved is still there: every running call that has
\* not logged its share can do so.
LEMMA RoomStep ==
  ASSUME SpaceInv, OPBLOCKS < MAXOPBLOCKS, [Next]_vars
  PROVE  Room'
  <1> USE DEF SpaceInv
  <1>0. /\ outstanding \in Nat /\ Cardinality(wrote) \in Nat
        /\ Len(lh) \in Nat /\ Len(loghead) \in Nat
        /\ MAXOPBLOCKS \in Nat /\ LOGSIZE \in Nat /\ OPBLOCKS \in Nat
        /\ outstanding * MAXOPBLOCKS \in Int
        /\ (outstanding + 1) * MAXOPBLOCKS = outstanding * MAXOPBLOCKS + MAXOPBLOCKS
        /\ (outstanding - 1) * MAXOPBLOCKS = outstanding * MAXOPBLOCKS - MAXOPBLOCKS
    <2>1. outstanding \in Nat /\ Len(lh) \in Nat /\ Len(loghead) \in Nat
      BY SMTT(30) DEF TypeOK
    <2>2. MAXOPBLOCKS \in Nat /\ LOGSIZE \in Nat /\ OPBLOCKS \in Nat
      BY LogAssumption DEF LogAssumption
    <2> QED  BY <2>1, <2>2, Finite, TimesSuccessor, SMTT(30)
  <1>1. ASSUME NEW p \in Proc, BeginAdmit(p) PROVE Room'
    <2>1. lh' = lh /\ wrote' = wrote /\ outstanding' = outstanding + 1
      BY <1>1, ActiveStep DEF BeginAdmit
    <2>2. Len(lh) + (outstanding + 1) * MAXOPBLOCKS <= LOGSIZE
      BY <1>0, <1>1, SMTT(30) DEF BeginAdmit, MustWait, NoRoom
    <2>3. CASE outstanding = 0
      <3>1. Active = {}
        BY <2>3, Finite, FS_EmptySet DEF Count
      <3>2. Len(lh) = 0
        BY <1>1, <3>1, SMTT(30) DEF BeginAdmit, MustWait, Phases
      <3>3. 2 * MAXOPBLOCKS <= LOGSIZE
        BY LogAssumption DEF LogAssumption
      <3>4. Len(lh) + (outstanding + 1) * MAXOPBLOCKS
               <= LOGSIZE - 2 + (outstanding + 1) + Cardinality(wrote)
        BY <1>0, <2>3, <3>2, <3>3, SMTT(30)
      <3> QED  BY <2>1, <3>4 DEF Room
    <2>4. CASE outstanding # 0
      <3>1. Len(lh) + (outstanding + 1) * MAXOPBLOCKS
               <= LOGSIZE - 2 + (outstanding + 1) + Cardinality(wrote)
        BY <1>0, <2>2, <2>4, SMTT(30)
      <3> QED  BY <2>1, <3>1 DEF Room
    <2> QED  BY <2>3, <2>4, SMTT(30)
  <1>2. ASSUME NEW p \in Proc, LogWrite(p) PROVE Room'
    <2> DEFINE w == <<p, holds[p]>>
    <2>1. outstanding' = outstanding /\ wrote' = wrote \cup {w}
      BY <1>2, ActiveStep
    <2>2. CASE holds[p] \in Logged
      <3>1. lh' = lh
        BY <1>2, <2>2 DEF LogWrite
      <3>2. Cardinality(wrote') \in Nat /\ Cardinality(wrote) <= Cardinality(wrote')
        <4>1. IsFiniteSet(wrote') /\ wrote \in SUBSET wrote'
          BY <2>1, Finite, FS_AddElement
        <4> QED  BY <4>1, FS_Subset, FS_CardinalityType
      <3>3. Len(lh) + outstanding * MAXOPBLOCKS
              <= LOGSIZE - 2 + outstanding + Cardinality(wrote')
        BY <1>0, <3>2, SMTT(30) DEF Room
      <3> QED  BY <2>1, <3>1, <3>3 DEF Room
    <2>3. CASE holds[p] \notin Logged
      <3>1. Len(lh') = Len(lh) + 1
        <4>1. holds[p] \in Block /\ lh' = Append(lh, holds[p])
          BY <1>2, <2>3 DEF LogWrite, Holding
        <4> QED  BY <4>1, SMTT(30) DEF TypeOK
      <3>2. w \notin wrote
        BY <2>3, SMTT(30) DEF Recorded
      <3>3. Cardinality(wrote') = Cardinality(wrote) + 1
        BY <2>1, <3>2, Finite, FS_AddElement
      <3>4. Len(lh) + 1 + outstanding * MAXOPBLOCKS
              <= LOGSIZE - 2 + outstanding + (Cardinality(wrote) + 1)
        BY <1>0, SMTT(30) DEF Room
      <3> QED  BY <2>1, <3>1, <3>3, <3>4 DEF Room
    <2> QED  BY <2>2, <2>3
  <1>3. ASSUME NEW p \in Proc, LeaveOp(p) PROVE Room'
    <2>1. /\ p \in Active /\ outstanding' = outstanding - 1
          /\ wrote' = wrote \ PairsOf({p})
      BY <1>3, ActiveStep DEF PairsOf
    <2>2. lh' = lh
      BY <1>3 DEF LeaveOp, EndOp, EndOpCommit
    <2>3. Cardinality(PairsOf({p})) <= OPBLOCKS /\ Cardinality(PairsOf({p})) \in Nat
      BY <2>1, PairsOfOne, Finite
    <2>4. Cardinality(wrote') = Cardinality(wrote) - Cardinality(PairsOf({p}))
      <3>1. wrote \cap PairsOf({p}) = PairsOf({p})
        BY DEF PairsOf
      <3>2. Cardinality(wrote \ PairsOf({p}))
              = Cardinality(wrote) - Cardinality(wrote \cap PairsOf({p}))
        BY Finite, FS_Difference
      <3> QED  BY <2>1, <3>1, <3>2
    <2>5. Len(lh) + (outstanding - 1) * MAXOPBLOCKS
            <= LOGSIZE - 2 + (outstanding - 1)
                 + (Cardinality(wrote) - Cardinality(PairsOf({p})))
      BY <1>0, <2>3, SMTT(30) DEF Room
    <2> QED  BY <2>1, <2>2, <2>4, <2>5 DEF Room
  <1>4. ASSUME Crash PROVE Room'
    <2>1. lh' = <<>> /\ outstanding' = 0 /\ wrote' = {}
      BY <1>4, ActiveStep DEF Crash
    <2>2. 0 + 0 * MAXOPBLOCKS <= LOGSIZE - 2 + 0 + 0
      BY <1>0, LogAssumption, SMTT(30) DEF LogAssumption
    <2> QED  BY <2>1, <2>2, FS_EmptySet DEF Room
  <1>5. ASSUME Still, lh' = lh PROVE Room'
    BY <1>5 DEF Still, Room
  <1>6. ASSUME Still, Active = {}, lh' \in {<<>>, loghead} PROVE Room'
    <2>1. outstanding' = 0 /\ wrote' = {} /\ Cardinality(wrote') = 0
      BY <1>6, NothingWritten, FS_EmptySet DEF Still, Count
    <2>2. Len(lh') <= LOGSIZE - 2 /\ Len(lh') \in Nat
      BY <1>0, <1>6, LogAssumption, SMTT(30) DEF HeadFits, LogAssumption
    <2>3. Len(lh') + 0 * MAXOPBLOCKS <= LOGSIZE - 2 + 0 + 0
      BY <1>0, <2>2, SMTT(30)
    <2> QED  BY <2>1, <2>3 DEF Room
  <1>7. \/ Still \/ Crash
        \/ \E p \in Proc : BeginAdmit(p) \/ LogWrite(p) \/ LeaveOp(p)
    BY ActiveStep DEF Next
  <1> QED  BY <1>1, <1>2, <1>3, <1>4, <1>5, <1>6, <1>7, LogStep, SMTT(30)

\* The header on disk only ever holds what fitted into the log.
LEMMA HeadFitsStep ==
  ASSUME SpaceInv, OPBLOCKS < MAXOPBLOCKS, [Next]_vars
  PROVE  HeadFits'
  <1> USE DEF SpaceInv, disk, bufs, ops, calls
  <1>1. loghead' \in {loghead, lh, <<>>}
    <2>1. ASSUME NEW p \in Proc, CommitStep(p) PROVE loghead' \in {loghead, lh, <<>>}
      <3>1. CASE WriteLog(p)  BY <3>1 DEF WriteLog
      <3>2. CASE WriteHead(p)  BY <3>2 DEF WriteHead
      <3>3. CASE Install(p)  BY <3>3 DEF Install
      <3>4. CASE Erase(p)  BY <3>4 DEF Erase, EraseHead
      <3>5. CASE Committed(p)  BY <3>5 DEF Committed
      <3> QED  BY <2>1, <3>1, <3>2, <3>3, <3>4, <3>5 DEF CommitStep
    <2>2. ASSUME Recovery PROVE loghead' \in {loghead, lh, <<>>}
      <3>1. CASE ReadHead  BY <3>1 DEF ReadHead
      <3>2. CASE RecoverInstall  BY <3>2 DEF RecoverInstall
      <3>3. CASE RecoverErase  BY <3>3 DEF RecoverErase, EraseHead
      <3> QED  BY <2>2, <3>1, <3>2, <3>3 DEF Recovery
    <2>3. ASSUME NEW p \in Proc,
                 BeginSleep(p) \/ BeginAdmit(p) \/ LogWrite(p) \/ LeaveOp(p)
          PROVE  loghead' = loghead
      BY <2>3 DEF BeginSleep, BeginAdmit, LogWrite, LeaveOp, EndOp, EndOpCommit
    <2>4. ASSUME NEW p \in Proc, NEW b \in Block, NEW v \in Val, Modify(p, b, v)
          PROVE  loghead' = loghead
      BY <2>4 DEF Modify
    <2>5. ASSUME NEW b \in Block, Recycle(b) PROVE loghead' = loghead
      BY <2>5 DEF Recycle
    <2>6. ASSUME Crash \/ UNCHANGED vars PROVE loghead' = loghead
      BY <2>6 DEF Crash, vars
    <2> QED  BY <2>1, <2>2, <2>3, <2>4, <2>5, <2>6, SMTT(30) DEF Next
  <1>2. Len(<<>>) <= LOGSIZE - 2
    <2>1. 1 <= MAXOPBLOCKS
      BY LogAssumption, SMTT(30) DEF LogAssumption
    <2> QED  BY <2>1, LogAssumption, SMTT(30) DEF LogAssumption
  <1> QED  BY <1>1, <1>2, LogFits DEF HeadFits

-----------------------------------------------------------------------------
(* The theorems *)

\* The strengthened invariant holds: a system call that writes fewer distinct
\* blocks than begin_op() reserves for it always finds the space in the log.
THEOREM SpaceInvariant ==
  ASSUME OPBLOCKS < MAXOPBLOCKS
  PROVE  Spec => []SpaceInv
  <1>1. Init => SpaceInv
    BY SpaceInit
  <1>2. SpaceInv /\ [Next]_vars => SpaceInv'
    <2> SUFFICES ASSUME SpaceInv, [Next]_vars PROVE SpaceInv'
      OBVIOUS
    <2> QED  BY TypeStep, PhasesStep, CountStep, HoldingStep, RecordedStep, ShareStep,
                RoomStep, HeadFitsStep DEF SpaceInv
  <1> QED  BY <1>1, <1>2, PTL DEF Spec

\* Type correctness of the log, with install_trans() copying only log blocks
\* that write_log() filled (log.c:68-82) and refcnt an unsigned number.
THEOREM TypeCorrect ==
  ASSUME OPBLOCKS < MAXOPBLOCKS
  PROVE  Spec => []TypeOK
  <1>1. SpaceInv => TypeOK
    BY DEF SpaceInv
  <1> QED  BY <1>1, SpaceInvariant, PTL

\* log_write() never reaches "too big a transaction" (log.c:219) if a system
\* call writes fewer than MAXOPBLOCKS distinct blocks, for every number of
\* concurrent calls and every size of the log.
THEOREM LogNeverOverflows ==
  ASSUME OPBLOCKS < MAXOPBLOCKS
  PROVE  Spec => []NeverTooBig
  <1>1. SpaceInv => NeverTooBig
    <2> SUFFICES ASSUME SpaceInv PROVE ~TooBig
      BY DEF NeverTooBig
    <2>1. Len(lh) \in Nat /\ Len(lh) <= LOGSIZE - 2
      BY LogFits, SMTT(30) DEF SpaceInv, TypeOK
    <2> QED  BY <2>1, LogAssumption, SMTT(30) DEF TooBig, LogAssumption
  <1> QED  BY <1>1, SpaceInvariant, PTL

\* commit() runs alone (log.c:13): no call is inside a file system operation
\* and no other process commits, for every number of processes.
THEOREM CommitsAlone ==
  ASSUME OPBLOCKS < MAXOPBLOCKS
  PROVE  Spec => []CommitAlone
  <1>1. SpaceInv => CommitAlone
    BY DEF SpaceInv, TypeOK, Phases, InCommit, Active, CommitAlone
  <1> QED  BY <1>1, SpaceInvariant, PTL
=============================================================================

------------------------------ MODULE BioProofs ------------------------------
(***************************************************************************)
(* Proofs about the buffer cache for any number of processes, buffers and  *)
(* blocks: who has a buffer is alone and sees what was last stored in its  *)
(* block, a count is the number of references, bget() finds a buffer, and  *)
(* nobody sleeps for a buffer that is free.                                *)
(*                                                                         *)
(* The invariant says how the fields of struct buf, the sleeplocks, the    *)
(* places of the processes and the disk go together.                       *)
(***************************************************************************)
EXTENDS Bio, FiniteSetTheorems, WellFoundedInduction, TLAPS

\* A leaf that names no prover is for Zenon, within half a minute.
USE ZenonT(30)

Label == {"run", "acquiresleep", "asleep", "bread", "brelse"}

TypeOK ==
  /\ blockno \in [Buf -> Block \cup {None}]
  /\ valid \in [Buf -> BOOLEAN]
  /\ refcnt \in [Buf -> Nat]
  /\ data \in [Buf -> Val \cup {None}]
  /\ locked \in [Buf -> Proc \cup {None}]
  /\ disk \in [Block -> Val] /\ last \in [Block -> Val]
  /\ pc \in [Proc -> Label]
  /\ cur \in [Proc -> Buf \cup {None}]
  /\ has \in [Proc -> SUBSET Buf]
  /\ dirty \in SUBSET Buf /\ pinned \in SUBSET Buf

\* Every buffer is in the list.
ListOK == /\ mru \in [Buf -> Buf]
          /\ \A i \in Buf : \E k \in Buf : mru[k] = i

\* A process has one buffer, or asks for one, or neither.
PlaceOK(p) ==
  /\ pc[p] = "run" => cur[p] = None
  /\ pc[p] # "run" => cur[p] \in Buf /\ has[p] = {}
  /\ \A i, j \in has[p] : i = j

Refers(p, i) == i \in has[p] \/ cur[p] = i

\* The sleeplock of a buffer is with the process that has it.
Locks == \A i \in Buf, p \in Proc :
           locked[i] = p <=> i \in has[p] \/ (pc[p] = "bread" /\ cur[p] = i)

\* What may be said of a buffer because of who refers to it.
BufOK(i) ==
  /\ (\E p \in Proc : Refers(p, i)) => blockno[i] # None
  /\ (\E p \in Proc : i \in has[p]) => valid[i]
  /\ i \in dirty => \E p \in Proc : i \in has[p]
  /\ i \in pinned => valid[i]
  /\ valid[i] => blockno[i] # None /\ data[i] = last[blockno[i]]

OneBuffer == \A i, j \in Buf : blockno[i] = blockno[j] /\ blockno[i] # None => i = j

\* The disk lags behind only for a block that is to be written.
DiskOK(b) == disk[b] = last[b] \/ \E i \in dirty \cup pinned : blockno[i] = b

Awake(p) == pc[p] = "asleep" => locked[cur[p]] # None

Counts(i) == refcnt[i] = Cardinality(Users(i)) + IF i \in pinned THEN 1 ELSE 0

BioInv ==
  /\ TypeOK
  /\ ListOK
  /\ \A p \in Proc : PlaceOK(p)
  /\ Locks
  /\ \A i \in Buf : BufOK(i)
  /\ OneBuffer
  /\ \A b \in Block : DiskOK(b)
  /\ \A p \in Proc : Awake(p)
  /\ \A i \in Buf : Counts(i)
  /\ Cardinality(pinned) <= PINS

-----------------------------------------------------------------------------
(* The list *)

\* A set of natural numbers that is not empty has a least element.
LEMMA NatMin ==
  ASSUME NEW T \in SUBSET Nat, T # {}
  PROVE  \E x \in T : \A y \in T : x <= y
  <1>1. PICK x \in T : \A y \in T : ~(<<y, x>> \in OpToRel(<, Nat))
    BY NatLessThanWellFounded, WFMin
  <1>2. \A y \in T : ~(y < x)
    BY <1>1 DEF OpToRel
  <1> QED  BY <1>2, SMTT(30)

\* Where a buffer is in the list of bio.c:27.
LEMMA Places ==
  ASSUME ListOK, NEW i \in Buf
  PROVE  Place(i) \in Buf /\ mru[Place(i)] = i
  BY DEF ListOK, Place, Buf

\* The loops of bget() over the list find a buffer of the set they look for, if
\* there is one (bio.c:66 and 78).
LEMMA Chosen ==
  ASSUME ListOK, NEW S \in SUBSET Buf, S # {}
  PROVE  MostRecent(S) \in S /\ LeastRecent(S) \in S
  <1>1. NBUF \in Nat
    BY BioAssumption DEF BioAssumption
  <1>2. \A i \in S : Place(i) \in Nat /\ NBUF - Place(i) \in Nat
    BY <1>1, Places, SMTT(30) DEF Buf
  <1>3. \E i \in S : \A j \in S : Place(i) <= Place(j)
    <2>1. PICK x \in {Place(i) : i \in S} : \A y \in {Place(i) : i \in S} : x <= y
      <3> DEFINE T == {Place(i) : i \in S}
      <3>1. T \in SUBSET Nat /\ T # {}
        BY <1>2
      <3> HIDE DEF T
      <3>2. \E x \in T : \A y \in T : x <= y
        BY <3>1, NatMin
      <3> QED  BY <3>2 DEF T
    <2> QED  BY <2>1
  <1>4. \E i \in S : \A j \in S : Place(i) >= Place(j)
    <2>1. PICK x \in {NBUF - Place(i) : i \in S} :
            \A y \in {NBUF - Place(i) : i \in S} : x <= y
      <3> DEFINE T == {NBUF - Place(i) : i \in S}
      <3>1. T \in SUBSET Nat /\ T # {}
        BY <1>2
      <3> HIDE DEF T
      <3>2. \E x \in T : \A y \in T : x <= y
        BY <3>1, NatMin
      <3> QED  BY <3>2 DEF T
    <2>2. PICK i \in S : x = NBUF - Place(i)
      BY <2>1
    <2>3. \A j \in S : NBUF - Place(i) <= NBUF - Place(j)
      BY <2>1, <2>2
    <2> QED  BY <1>1, <1>2, <2>3, SMTT(30)
  <1> QED  BY <1>3, <1>4 DEF MostRecent, LeastRecent

\* brelse() loses no buffer from the list (bio.c:126-131).
LEMMA MovedList ==
  ASSUME ListOK, NEW i \in Buf, mru' = MoveToFront(i)
  PROVE  ListOK'
  <1>1. NBUF \in Nat /\ 1 \in Buf /\ Place(i) \in Buf /\ mru[Place(i)] = i
    BY BioAssumption, Places, SMTT(30) DEF BioAssumption, Buf
  <1>2. mru \in [Buf -> Buf] /\ \A j \in Buf : \E k \in Buf : mru[k] = j
    BY DEF ListOK
  <1>3. mru' \in [Buf -> Buf]
    BY <1>1, <1>2, SMTT(30) DEF MoveToFront, Buf
  <1>4. \A k \in Buf : mru'[k] = IF k = 1 THEN i ELSE IF k <= Place(i) THEN mru[k - 1]
                                                                     ELSE mru[k]
    BY DEF MoveToFront, Buf
  <1>5. ASSUME NEW j \in Buf PROVE \E k \in Buf : mru'[k] = j
    <2>1. CASE j = i
      BY <1>1, <1>4, <2>1
    <2>2. CASE j # i
      <3>1. PICK k \in Buf : mru[k] = j
        BY <1>2
      <3>2. CASE k < Place(i)
        <4>1. k + 1 \in Buf /\ k + 1 # 1 /\ k + 1 <= Place(i) /\ (k + 1) - 1 = k
          BY <1>1, <3>2, SMTT(30) DEF Buf
        <4> QED  BY <1>4, <3>1, <4>1
      <3>3. CASE k > Place(i)
        <4>1. k # 1 /\ ~(k <= Place(i))
          BY <1>1, <3>3, SMTT(30) DEF Buf
        <4> QED  BY <1>4, <3>1, <4>1
      <3>4. k # Place(i) /\ k \in Nat /\ Place(i) \in Nat
        BY <1>1, <2>2, <3>1, SMTT(30) DEF Buf
      <3> QED  BY <3>2, <3>3, <3>4, SMTT(30)
    <2> QED  BY <2>1, <2>2
  <1> QED  BY <1>3, <1>5 DEF ListOK

-----------------------------------------------------------------------------
(* The counts *)

\* The processes that use one buffer are finitely many, so that b->refcnt can be
\* compared with their number.
LEMMA FiniteUsers ==
  ASSUME NEW i
  PROVE  IsFiniteSet(Users(i)) /\ Cardinality(Users(i)) \in Nat
  <1>1. Users(i) \in SUBSET Proc /\ IsFiniteSet(Proc)
    BY BioAssumption DEF BioAssumption, Users
  <1> QED  BY <1>1, FS_Subset, FS_CardinalityType

\* Nobody who refers to a buffer goes or comes, and it is not pinned or unpinned.
LEMMA SameCount ==
  ASSUME BioInv, NEW i \in Buf, \A q \in Proc : Refers(q, i)' <=> Refers(q, i),
         refcnt'[i] = refcnt[i], i \in pinned' <=> i \in pinned
  PROVE  Counts(i)'
  <1>1. Users(i)' = Users(i)
    BY DEF Users, Refers
  <1>2. Counts(i)
    BY DEF BioInv
  <1> QED  BY <1>1, <1>2 DEF Counts

\* A process comes to refer to a buffer: bget() adds one to its count.
LEMMA OneMore ==
  ASSUME BioInv, NEW i \in Buf, NEW p \in Proc, ~Refers(p, i), Refers(p, i)',
         \A q \in Proc \ {p} : Refers(q, i)' <=> Refers(q, i),
         refcnt'[i] = refcnt[i] + 1, i \in pinned' <=> i \in pinned
  PROVE  Counts(i)'
  <1>1. Users(i)' = Users(i) \cup {p} /\ p \notin Users(i)
    BY DEF Users, Refers
  <1>2. Cardinality(Users(i) \cup {p}) = Cardinality(Users(i)) + 1
    BY <1>1, FiniteUsers, FS_AddElement
  <1>3. Counts(i)
    BY DEF BioInv
  <1> QED  BY <1>1, <1>2, <1>3, FiniteUsers, SMTT(30) DEF Counts

\* A process ceases to refer to a buffer: brelse() takes its count down.
LEMMA OneLess ==
  ASSUME BioInv, NEW i \in Buf, NEW p \in Proc, Refers(p, i), ~Refers(p, i)',
         \A q \in Proc \ {p} : Refers(q, i)' <=> Refers(q, i),
         refcnt'[i] = refcnt[i] - 1, i \in pinned' <=> i \in pinned
  PROVE  Counts(i)'
  <1>1. Users(i)' = Users(i) \ {p} /\ p \in Users(i)
    BY SMTT(30) DEF Users, Refers
  <1>2. Cardinality(Users(i) \ {p}) = Cardinality(Users(i)) - 1
    BY <1>1, FiniteUsers, FS_RemoveElement
  <1>3. Counts(i)
    BY DEF BioInv
  <1> QED  BY <1>1, <1>2, <1>3, FiniteUsers, SMTT(30) DEF Counts

\* The count of a buffer that somebody refers to or that is pinned is not zero.
LEMMA InUse ==
  ASSUME BioInv, NEW i \in Buf, i \in pinned \/ \E p \in Proc : Refers(p, i)
  PROVE  refcnt[i] \in Nat \ {0}
  <1>1. Counts(i) /\ refcnt[i] \in Nat
    BY DEF BioInv, TypeOK
  <1>2. CASE i \in pinned
    BY <1>1, <1>2, FiniteUsers, SMTT(30) DEF Counts
  <1>3. CASE \E p \in Proc : Refers(p, i)
    <2>1. Users(i) # {}
      BY <1>3 DEF Users, Refers
    <2>2. Cardinality(Users(i)) # 0
      BY <2>1, FiniteUsers, FS_EmptySet
    <2> QED  BY <1>1, <2>2, FiniteUsers, SMTT(30) DEF Counts
  <1> QED  BY <1>2, <1>3

\* A buffer that is dirty is with somebody.
LEMMA DirtyInUse ==
  ASSUME BioInv, NEW i \in dirty \cup pinned
  PROVE  i \in Buf /\ valid[i] /\ refcnt[i] # 0
  <1>1. i \in Buf /\ BufOK(i)
    BY DEF BioInv, TypeOK
  <1>2. valid[i] /\ (i \in pinned \/ \E p \in Proc : Refers(p, i))
    BY <1>1 DEF BufOK, Refers
  <1> QED  BY <1>1, <1>2, InUse

\* The buffers that bpin() keeps cached are finitely many, being buffers of the cache.
LEMMA FinitePinned ==
  ASSUME BioInv
  PROVE  IsFiniteSet(pinned) /\ Cardinality(pinned) \in Nat
  <1>1. IsFiniteSet(Buf)
    BY FS_Interval, BioAssumption, SMTT(30) DEF BioAssumption, Buf
  <1>2. pinned \in SUBSET Buf
    BY DEF BioInv, TypeOK
  <1> QED  BY <1>1, <1>2, FS_Subset, FS_CardinalityType

-----------------------------------------------------------------------------
(* bget and bread *)

\* Where a process is that takes a step.
LEMMA Facts ==
  ASSUME BioInv, NEW p \in Proc
  PROVE  /\ PlaceOK(p) /\ p # None /\ pc[p] \in Label /\ has[p] \in SUBSET Buf
         /\ cur[p] \in Buf \cup {None} /\ None \notin Buf
         /\ \A q \in Proc : q # None
  BY BioAssumption DEF BioAssumption, BioInv, TypeOK

\* acquiresleep() on a free lock: the buffer gets a holder and its refcnt stays.
LEMMA AcquireStep ==
  ASSUME BioInv, NEW p \in Proc, Acquiresleep(p)
  PROVE  BioInv'
  <1>1. PICK i \in Buf : i = cur[p] /\ has[p] = {}
    BY Facts DEF Acquiresleep, PlaceOK
  <1>2. /\ pc[p] = "acquiresleep" /\ locked[i] = None /\ locked' = [locked EXCEPT ![i] = p]
        /\ pc' = [pc EXCEPT ![p] = "bread"]
        /\ UNCHANGED <<mru, blockno, valid, refcnt, data, disk, cur, has, dirty, pinned, last>>
    BY <1>1 DEF Acquiresleep, SleepLockFree, Goto, fields, clients
  <1>3. TypeOK' /\ ListOK'
    BY <1>2 DEF BioInv, TypeOK, ListOK, Label
  <1>4. \A q \in Proc : PlaceOK(q)'
    BY <1>1, <1>2, Facts, SMTT(30) DEF BioInv, TypeOK, PlaceOK
  <1>5. Locks'
    <2>1. ASSUME NEW j \in Buf, NEW q \in Proc
          PROVE  (locked[j] = q <=> j \in has[q] \/ (pc[q] = "bread" /\ cur[q] = j))'
      <3>1. locked[j] = q <=> j \in has[q] \/ (pc[q] = "bread" /\ cur[q] = j)
        BY DEF BioInv, Locks
      <3>2. locked'[j] = IF j = i THEN p ELSE locked[j]
        BY <1>2 DEF BioInv, TypeOK
      <3>3. pc'[q] = IF q = p THEN "bread" ELSE pc[q]
        BY <1>2 DEF BioInv, TypeOK
      <3> QED  BY <1>1, <1>2, <3>1, <3>2, <3>3, Facts
    <2> QED  BY <2>1 DEF Locks
  <1>6. \A q \in Proc : Awake(q)'
    BY <1>2, Facts, SMTT(30) DEF BioInv, TypeOK, Awake
  <1>7. ASSUME NEW j \in Buf PROVE BufOK(j)' /\ Counts(j)'
    BY <1>2, SameCount DEF BioInv, BufOK, Refers
  <1>8. OneBuffer' /\ \A b \in Block : DiskOK(b)'
    BY <1>2 DEF BioInv, OneBuffer, DiskOK
  <1> QED  BY <1>2, <1>3, <1>4, <1>5, <1>6, <1>7, <1>8 DEF BioInv

\* acquiresleep() on a held lock: the caller goes to sleep on it, and stays in line.
LEMMA WaitStep ==
  ASSUME BioInv, NEW p \in Proc, AcquiresleepWaits(p)
  PROVE  BioInv'
  <1>1. /\ pc[p] = "acquiresleep" /\ locked[cur[p]] # None /\ pc' = [pc EXCEPT ![p] = "asleep"]
        /\ UNCHANGED <<mru, blockno, valid, refcnt, data, locked, disk, cur, has, dirty,
                       pinned, last>>
    BY DEF AcquiresleepWaits, SleepLockFree, Goto, fields, clients
  <1>2. TypeOK' /\ ListOK'
    BY <1>1 DEF BioInv, TypeOK, ListOK, Label
  <1>3. \A q \in Proc : PlaceOK(q)' /\ Awake(q)'
    BY <1>1, Facts DEF BioInv, TypeOK, PlaceOK, Awake
  <1>4. Locks'
    BY <1>1, SMTT(30) DEF BioInv, TypeOK, Locks
  <1>5. ASSUME NEW j \in Buf PROVE BufOK(j)' /\ Counts(j)'
    BY <1>1, SameCount DEF BioInv, BufOK, Refers
  <1>6. OneBuffer' /\ \A b \in Block : DiskOK(b)'
    BY <1>1 DEF BioInv, OneBuffer, DiskOK
  <1> QED  BY <1>1, <1>2, <1>3, <1>4, <1>5, <1>6 DEF BioInv

\* bread() reads a block whose disk copy is the last that was stored.
LEMMA BreadStep ==
  ASSUME BioInv, NEW p \in Proc, Bread(p)
  PROVE  BioInv'
  <1>1. PICK i \in Buf : i = cur[p] /\ has[p] = {}
    BY Facts DEF Bread, PlaceOK
  <1>2. /\ pc[p] = "bread" /\ valid' = [valid EXCEPT ![i] = TRUE]
        /\ data' = IF valid[i] THEN data ELSE [data EXCEPT ![i] = disk[blockno[i]]]
        /\ has' = [has EXCEPT ![p] = has[p] \cup {i}]
        /\ cur' = [cur EXCEPT ![p] = None] /\ pc' = [pc EXCEPT ![p] = "run"]
        /\ UNCHANGED <<mru, blockno, refcnt, locked, disk, dirty, pinned, last>>
    BY <1>1 DEF Bread, Goto, SetCur
  <1>3. BufOK(i) /\ Refers(p, i) /\ blockno[i] \in Block
    BY <1>1, SMTT(30) DEF BioInv, BufOK, TypeOK, Refers
  <1>4. ~valid[i] => disk[blockno[i]] = last[blockno[i]]
    <2>1. DiskOK(blockno[i])
      BY <1>3 DEF BioInv
    <2>2. \A j \in dirty \cup pinned : blockno[j] = blockno[i] => j = i
      BY <1>3, DirtyInUse, Facts, BioAssumption DEF BioAssumption, BioInv, OneBuffer
    <2> QED  BY <2>1, <2>2, DirtyInUse DEF DiskOK
  <1>5. TypeOK'
    <2>1. valid' \in [Buf -> BOOLEAN] /\ data' \in [Buf -> Val \cup {None}]
      BY <1>2, <1>3 DEF BioInv, TypeOK
    <2>2. has' \in [Proc -> SUBSET Buf] /\ cur' \in [Proc -> Buf \cup {None}]
      BY <1>2, Facts DEF BioInv, TypeOK
    <2>3. pc' \in [Proc -> Label]
      BY <1>2 DEF BioInv, TypeOK, Label
    <2> QED  BY <1>2, <2>1, <2>2, <2>3 DEF BioInv, TypeOK
  <1>6. /\ has'[p] = {i} /\ cur'[p] = None /\ pc'[p] = "run"
        /\ \A q \in Proc \ {p} : has'[q] = has[q] /\ cur'[q] = cur[q] /\ pc'[q] = pc[q]
    BY <1>1, <1>2 DEF BioInv, TypeOK
  <1>7. \A q \in Proc : PlaceOK(q)' /\ Awake(q)'
    BY <1>2, <1>6, SMTT(30) DEF BioInv, PlaceOK, Awake
  <1>8. Locks'
    BY <1>1, <1>2, <1>6, Facts, SMTT(30) DEF BioInv, Locks
  <1>9. \A q \in Proc, j \in Buf : Refers(q, j)' <=> Refers(q, j)
    BY <1>1, <1>6, Facts, SMTT(30) DEF Refers
  <1>10. ASSUME NEW j \in Buf PROVE BufOK(j)' /\ Counts(j)'
    <2>1. Counts(j)'
      BY <1>2, <1>9, SameCount
    <2>2. BufOK(j)'
      <3>1. CASE j = i
        <4>1. valid'[i] /\ data'[i] = last[blockno[i]]
          BY <1>2, <1>3, <1>4 DEF BioInv, TypeOK, BufOK
        <4> QED  BY <1>2, <1>3, <1>6, <3>1, <4>1, Facts, BioAssumption DEF BioAssumption,
                    BufOK
      <3>2. CASE j # i
        <4>1. valid'[j] = valid[j] /\ data'[j] = data[j] /\ BufOK(j)
          BY <1>2, <3>2 DEF BioInv, TypeOK
        <4>2. \A q \in Proc : j \in has'[q] <=> j \in has[q]
          BY <1>1, <1>6, <3>2
        <4> QED  BY <1>2, <1>9, <4>1, <4>2 DEF BufOK
      <3> QED  BY <3>1, <3>2
    <2> QED  BY <2>1, <2>2
  <1>11. ListOK' /\ OneBuffer' /\ \A b \in Block : DiskOK(b)'
    BY <1>2 DEF BioInv, ListOK, OneBuffer, DiskOK
  <1> QED  BY <1>2, <1>5, <1>7, <1>8, <1>10, <1>11 DEF BioInv

\* bget() finds the block in the cache.
LEMMA HitStep ==
  ASSUME BioInv, NEW p \in Proc, NEW b \in Block, BgetHit(p, b)
  PROVE  BioInv'
  <1>1. PICK i \in Buf : i = MostRecent(Cached(b)) /\ blockno[i] = b
    <2>1. Cached(b) \in SUBSET Buf /\ Cached(b) # {}
      BY DEF BgetHit, Cached
    <2>2. MostRecent(Cached(b)) \in Cached(b)
      BY <2>1, Chosen DEF BioInv
    <2> QED  BY <2>2 DEF Cached
  <1>2. /\ pc[p] = "run" /\ has[p] = {} /\ refcnt' = [refcnt EXCEPT ![i] = refcnt[i] + 1]
        /\ cur' = [cur EXCEPT ![p] = i] /\ pc' = [pc EXCEPT ![p] = "acquiresleep"]
        /\ UNCHANGED <<mru, blockno, valid, data, locked, disk, has, dirty, pinned, last>>
    BY <1>1 DEF BgetHit, MayAsk, HitRef, SetCur, Goto, clients
  <1>3. b # None /\ cur[p] = None
    BY <1>2, Facts, BioAssumption DEF BioAssumption, PlaceOK
  <1>4. TypeOK' /\ ListOK'
    <2>1. refcnt' \in [Buf -> Nat]
      BY <1>2, SMTT(30) DEF BioInv, TypeOK
    <2>2. pc' \in [Proc -> Label] /\ cur' \in [Proc -> Buf \cup {None}]
      BY <1>2 DEF BioInv, TypeOK, Label
    <2> QED  BY <1>2, <2>1, <2>2 DEF BioInv, TypeOK, ListOK
  <1>5. /\ cur'[p] = i /\ pc'[p] = "acquiresleep"
        /\ \A q \in Proc \ {p} : cur'[q] = cur[q] /\ pc'[q] = pc[q]
        /\ refcnt'[i] = refcnt[i] + 1 /\ \A j \in Buf \ {i} : refcnt'[j] = refcnt[j]
    BY <1>2 DEF BioInv, TypeOK
  <1>6. \A q \in Proc : PlaceOK(q)' /\ Awake(q)'
    BY <1>2, <1>5, SMTT(30) DEF BioInv, PlaceOK, Awake
  <1>7. Locks'
    BY <1>2, <1>5, SMTT(30) DEF BioInv, Locks
  <1>8. /\ ~Refers(p, i) /\ Refers(p, i)'
        /\ \A q \in Proc, j \in Buf : q # p \/ j # i => (Refers(q, j)' <=> Refers(q, j))
    BY <1>2, <1>3, <1>5, Facts DEF Refers
  <1>9. ASSUME NEW j \in Buf PROVE BufOK(j)' /\ Counts(j)'
    <2>1. Counts(j)'
      <3>1. CASE j = i
        BY <1>2, <1>5, <1>8, <3>1, OneMore
      <3>2. CASE j # i
        BY <1>2, <1>5, <1>8, <3>2, SameCount
      <3> QED  BY <3>1, <3>2
    <2>2. BufOK(j)
      BY DEF BioInv
    <2> QED  BY <1>1, <1>2, <1>3, <1>8, <2>1, <2>2 DEF BufOK
  <1>10. OneBuffer' /\ \A c \in Block : DiskOK(c)'
    BY <1>2 DEF BioInv, OneBuffer, DiskOK
  <1> QED  BY <1>2, <1>4, <1>6, <1>7, <1>9, <1>10 DEF BioInv

\* bget() recycles a buffer that nobody refers to and that is not in the log.
LEMMA MissStep ==
  ASSUME BioInv, NEW p \in Proc, NEW b \in Block, BgetMiss(p, b)
  PROVE  BioInv'
  <1>1. PICK i \in Buf : i = LeastRecent(Unused) /\ refcnt[i] = 0
    <2>1. Unused \in SUBSET Buf /\ Unused # {}
      BY DEF BgetMiss, Unused
    <2>2. LeastRecent(Unused) \in Unused
      BY <2>1, Chosen DEF BioInv
    <2> QED  BY <2>2 DEF Unused
  <1>2. /\ pc[p] = "run" /\ has[p] = {} /\ refcnt' = [refcnt EXCEPT ![i] = 1]
        /\ blockno' = [blockno EXCEPT ![i] = b] /\ valid' = [valid EXCEPT ![i] = FALSE]
        /\ cur' = [cur EXCEPT ![p] = i] /\ pc' = [pc EXCEPT ![p] = "acquiresleep"]
        /\ UNCHANGED <<mru, data, locked, disk, has, dirty, pinned, last>>
    BY <1>1 DEF BgetMiss, MayAsk, MissValid, SetCur, Goto, clients
  <1>3. b # None /\ cur[p] = None /\ \A j \in Buf : blockno[j] # b
    BY <1>2, Facts, BioAssumption DEF BioAssumption, PlaceOK, BgetMiss, Cached
  <1>4. i \notin dirty \cup pinned /\ \A q \in Proc : ~Refers(q, i) /\ i \notin has[q]
    BY <1>1, InUse, DirtyInUse DEF Refers
  <1>5. TypeOK' /\ ListOK'
    <2>1. refcnt' \in [Buf -> Nat]
      BY <1>2 DEF BioInv, TypeOK
    <2>2. pc' \in [Proc -> Label] /\ cur' \in [Proc -> Buf \cup {None}]
      BY <1>2 DEF BioInv, TypeOK, Label
    <2>3. blockno' \in [Buf -> Block \cup {None}] /\ valid' \in [Buf -> BOOLEAN]
      BY <1>2 DEF BioInv, TypeOK
    <2> QED  BY <1>2, <2>1, <2>2, <2>3 DEF BioInv, TypeOK, ListOK
  <1>6. /\ cur'[p] = i /\ pc'[p] = "acquiresleep"
        /\ \A q \in Proc \ {p} : cur'[q] = cur[q] /\ pc'[q] = pc[q]
    BY <1>2 DEF BioInv, TypeOK
  <1>7. /\ refcnt'[i] = refcnt[i] + 1 /\ blockno'[i] = b /\ ~valid'[i]
        /\ \A j \in Buf \ {i} : /\ refcnt'[j] = refcnt[j] /\ blockno'[j] = blockno[j]
                               /\ valid'[j] = valid[j]
    BY <1>1, <1>2, SMTT(30) DEF BioInv, TypeOK
  <1>8. \A q \in Proc : PlaceOK(q)' /\ Awake(q)'
    BY <1>2, <1>6, SMTT(30) DEF BioInv, PlaceOK, Awake
  <1>9. Locks'
    BY <1>2, <1>6, SMTT(30) DEF BioInv, Locks
  <1>10. /\ ~Refers(p, i) /\ Refers(p, i)'
         /\ \A q \in Proc, j \in Buf : q # p \/ j # i => (Refers(q, j)' <=> Refers(q, j))
    BY <1>2, <1>3, <1>6, Facts DEF Refers
  <1>11. ASSUME NEW j \in Buf PROVE BufOK(j)' /\ Counts(j)'
    <2>1. CASE j = i
      <3>1. Counts(j)'
        BY <1>2, <1>7, <1>10, <2>1, OneMore
      <3>2. BufOK(j)'
        BY <1>2, <1>3, <1>4, <1>7, <2>1 DEF BufOK
      <3> QED  BY <3>1, <3>2
    <2>2. CASE j # i
      <3>1. Counts(j)'
        BY <1>2, <1>7, <1>10, <2>2, SameCount
      <3>2. BufOK(j)
        BY DEF BioInv
      <3>3. BufOK(j)'
        BY <1>2, <1>7, <1>10, <2>2, <3>2 DEF BufOK
      <3> QED  BY <3>1, <3>3
    <2> QED  BY <2>1, <2>2
  <1>12. OneBuffer'
    BY <1>3, <1>7 DEF BioInv, OneBuffer
  <1>13. ASSUME NEW c \in Block PROVE DiskOK(c)'
    <2>1. DiskOK(c) /\ \A j \in dirty \cup pinned : j \in Buf \ {i}
      BY <1>4 DEF BioInv, TypeOK
    <2> QED  BY <1>2, <1>7, <2>1 DEF DiskOK
  <1> QED  BY <1>2, <1>5, <1>8, <1>9, <1>11, <1>12, <1>13 DEF BioInv

-----------------------------------------------------------------------------
(* What a process does with a buffer it has *)

\* A process that has a buffer is alone with it.
LEMMA Having ==
  ASSUME BioInv, NEW p \in Proc, NEW i \in has[p]
  PROVE  /\ i \in Buf /\ BufOK(i) /\ blockno[i] \in Block /\ valid[i]
         /\ data[i] = last[blockno[i]] /\ locked[i] = p
         /\ \A j \in Buf : blockno[j] = blockno[i] => j = i
  <1>1. i \in Buf /\ BufOK(i)
    BY DEF BioInv, TypeOK
  <1>2. blockno[i] # None /\ valid[i] /\ blockno[i] \in Block \cup {None}
    BY <1>1 DEF BufOK, Refers, BioInv, TypeOK
  <1>3. data[i] = last[blockno[i]] /\ locked[i] = p
    BY <1>1, <1>2 DEF BufOK, BioInv, Locks
  <1> QED  BY <1>1, <1>2, <1>3 DEF BioInv, OneBuffer

\* The holder of a buffer changes b->data: nobody else has that block in a buffer.
LEMMA ModifyStep ==
  ASSUME BioInv, NEW p \in Proc, NEW i \in Buf, NEW v \in Val, Modify(p, i, v)
  PROVE  BioInv'
  <1>1. /\ i \in has[p] /\ data' = [data EXCEPT ![i] = v]
        /\ last' = [last EXCEPT ![blockno[i]] = v] /\ dirty' = dirty \cup {i}
        /\ UNCHANGED <<mru, blockno, valid, refcnt, locked, disk, pc, cur, has, pinned>>
    BY DEF Modify, fields
  <1>2. /\ BufOK(i) /\ blockno[i] \in Block /\ valid[i]
        /\ \A j \in Buf : blockno[j] = blockno[i] => j = i
    BY <1>1, Having
  <1>3. TypeOK' /\ ListOK'
    BY <1>1, <1>2 DEF BioInv, TypeOK, ListOK
  <1>4. \A q \in Proc : PlaceOK(q)' /\ Awake(q)'
    BY <1>1 DEF BioInv, PlaceOK, Awake
  <1>5. Locks' /\ OneBuffer'
    BY <1>1 DEF BioInv, Locks, OneBuffer
  <1>6. ASSUME NEW j \in Buf PROVE BufOK(j)' /\ Counts(j)'
    <2>1. Counts(j)'
      BY <1>1, SameCount DEF Refers
    <2>2. BufOK(j)'
      <3>1. CASE j = i
        <4>1. data'[i] = v /\ last'[blockno[i]] = v
          BY <1>1, <1>2 DEF BioInv, TypeOK
        <4> QED  BY <1>1, <1>2, <3>1, <4>1 DEF BufOK, Refers
      <3>2. CASE j # i
        <4>1. /\ BufOK(j) /\ data'[j] = data[j] /\ blockno[j] \in Block \cup {None}
              /\ blockno[j] # None => last'[blockno[j]] = last[blockno[j]]
          BY <1>1, <1>2, <3>2 DEF BioInv, TypeOK
        <4> QED  BY <1>1, <3>2, <4>1 DEF BufOK, Refers
      <3> QED  BY <3>1, <3>2
    <2> QED  BY <2>1, <2>2
  <1>7. ASSUME NEW c \in Block PROVE DiskOK(c)'
    <2>1. CASE c = blockno[i]
      BY <1>1, <2>1 DEF DiskOK
    <2>2. CASE c # blockno[i]
      <3>1. last'[c] = last[c] /\ DiskOK(c)
        BY <1>1, <2>2 DEF BioInv, TypeOK
      <3> QED  BY <1>1, <3>1 DEF DiskOK
    <2> QED  BY <2>1, <2>2
  <1> QED  BY <1>1, <1>3, <1>4, <1>5, <1>6, <1>7 DEF BioInv

\* bwrite() by the holder of a buffer makes the disk's block equal to b->data.
LEMMA BwriteStep ==
  ASSUME BioInv, NEW p \in Proc, NEW i \in Buf, Bwrite(p, i)
  PROVE  BioInv'
  <1>1. /\ i \in has[p] /\ disk' = [disk EXCEPT ![blockno[i]] = data[i]]
        /\ dirty' = dirty \ {i} /\ i \notin pinned
        /\ UNCHANGED <<mru, blockno, valid, refcnt, data, locked, pc, cur, has, pinned, last>>
    BY DEF Bwrite, fields
  <1>2. blockno[i] \in Block /\ data[i] = last[blockno[i]]
    BY <1>1, Having
  <1>3. TypeOK' /\ ListOK'
    BY <1>1, <1>2 DEF BioInv, TypeOK, ListOK
  <1>4. \A q \in Proc : PlaceOK(q)' /\ Awake(q)'
    BY <1>1 DEF BioInv, PlaceOK, Awake
  <1>5. Locks' /\ OneBuffer'
    BY <1>1 DEF BioInv, Locks, OneBuffer
  <1>6. ASSUME NEW j \in Buf PROVE BufOK(j)' /\ Counts(j)'
    <2>1. Counts(j)' /\ BufOK(j)
      BY <1>1, SameCount DEF Refers, BioInv
    <2> QED  BY <1>1, <2>1 DEF BufOK, Refers
  <1>7. ASSUME NEW c \in Block PROVE DiskOK(c)'
    <2>1. disk'[c] = (IF c = blockno[i] THEN last[c] ELSE disk[c]) /\ DiskOK(c)
      BY <1>1, <1>2 DEF BioInv, TypeOK
    <2> QED  BY <1>1, <2>1 DEF DiskOK
  <1> QED  BY <1>1, <1>3, <1>4, <1>5, <1>6, <1>7 DEF BioInv

\* bpin() adds one to refcnt, once for a block that log_write() sees again and again.
LEMMA BpinStep ==
  ASSUME BioInv, NEW p \in Proc, NEW i \in Buf, Bpin(p, i)
  PROVE  BioInv'
  <1>1. /\ i \in has[p] /\ i \in dirty /\ (i \in pinned \/ Cardinality(pinned) < PINS)
        /\ refcnt' = [refcnt EXCEPT ![i] = IF i \in pinned THEN refcnt[i] ELSE refcnt[i] + 1]
        /\ pinned' = pinned \cup {i} /\ dirty' = dirty \ {i}
        /\ UNCHANGED <<mru, blockno, valid, data, locked, disk, pc, cur, has, last>>
    BY DEF Bpin
  <1>2. valid[i]
    BY <1>1, Having
  <1>3. TypeOK' /\ ListOK'
    <2>1. refcnt' \in [Buf -> Nat]
      BY <1>1, SMTT(30) DEF BioInv, TypeOK
    <2> QED  BY <1>1, <2>1, SMTT(30) DEF BioInv, TypeOK, ListOK
  <1>4. \A q \in Proc : PlaceOK(q)' /\ Awake(q)'
    BY <1>1 DEF BioInv, PlaceOK, Awake
  <1>5. Locks' /\ OneBuffer'
    BY <1>1 DEF BioInv, Locks, OneBuffer
  <1>6. ASSUME NEW j \in Buf PROVE BufOK(j)' /\ Counts(j)'
    <2>1. Users(j)' = Users(j)
      BY <1>1 DEF Users
    <2>2. Counts(j) /\ refcnt[j] \in Nat
      BY DEF BioInv, TypeOK
    <2>3. refcnt'[j] = IF j = i /\ i \notin pinned THEN refcnt[j] + 1 ELSE refcnt[j]
      BY <1>1 DEF BioInv, TypeOK
    <2>4. Counts(j)'
      BY <1>1, <2>1, <2>2, <2>3, FiniteUsers, SMTT(30) DEF Counts
    <2>5. BufOK(j)
      BY DEF BioInv
    <2>6. BufOK(j)'
      BY <1>1, <1>2, <2>5 DEF BufOK, Refers
    <2> QED  BY <2>4, <2>6
  <1>7. \A c \in Block : DiskOK(c)'
    BY <1>1 DEF BioInv, DiskOK
  <1>8. Cardinality(pinned') <= PINS
    <2>1. CASE i \in pinned
      <3>1. pinned' = pinned
        BY <1>1, <2>1
      <3> QED  BY <3>1 DEF BioInv
    <2>2. CASE i \notin pinned
      <3>1. Cardinality(pinned \cup {i}) = Cardinality(pinned) + 1
        BY <2>2, FinitePinned, FS_AddElement
      <3> QED  BY <1>1, <2>2, <3>1, FinitePinned, BioAssumption, SMTT(30) DEF BioAssumption
    <2> QED  BY <2>1, <2>2
  <1> QED  BY <1>3, <1>4, <1>5, <1>6, <1>7, <1>8 DEF BioInv

\* The bwrite() and bunpin() of install_trans() take a pin and its count away together.
LEMMA UnpinStep ==
  ASSUME BioInv, NEW p \in Proc, NEW i \in Buf, WriteAndBunpin(p, i)
  PROVE  BioInv'
  <1>1. /\ i \in has[p] /\ i \in pinned /\ i \notin dirty
        /\ disk' = [disk EXCEPT ![blockno[i]] = data[i]]
        /\ refcnt' = [refcnt EXCEPT ![i] = refcnt[i] - 1] /\ pinned' = pinned \ {i}
        /\ UNCHANGED <<mru, blockno, valid, data, locked, pc, cur, has, dirty, last>>
    BY DEF WriteAndBunpin
  <1>2. blockno[i] \in Block /\ data[i] = last[blockno[i]] /\ refcnt[i] \in Nat \ {0}
    BY <1>1, Having, InUse
  <1>3. TypeOK' /\ ListOK'
    <2>1. refcnt' \in [Buf -> Nat]
      BY <1>1, <1>2, SMTT(30) DEF BioInv, TypeOK
    <2>2. disk' \in [Block -> Val]
      BY <1>1, <1>2 DEF BioInv, TypeOK
    <2> QED  BY <1>1, <2>1, <2>2 DEF BioInv, TypeOK, ListOK
  <1>4. \A q \in Proc : PlaceOK(q)' /\ Awake(q)'
    BY <1>1 DEF BioInv, PlaceOK, Awake
  <1>5. Locks' /\ OneBuffer'
    BY <1>1 DEF BioInv, Locks, OneBuffer
  <1>6. ASSUME NEW j \in Buf PROVE BufOK(j)' /\ Counts(j)'
    <2>1. Users(j)' = Users(j)
      BY <1>1 DEF Users
    <2>2. Counts(j) /\ refcnt[j] \in Nat
      BY DEF BioInv, TypeOK
    <2>3. refcnt'[j] = IF j = i THEN refcnt[j] - 1 ELSE refcnt[j]
      BY <1>1 DEF BioInv, TypeOK
    <2>4. Counts(j)'
      BY <1>1, <2>1, <2>2, <2>3, FiniteUsers, SMTT(30) DEF Counts
    <2>5. BufOK(j)
      BY DEF BioInv
    <2>6. BufOK(j)'
      BY <1>1, <2>5 DEF BufOK, Refers
    <2> QED  BY <2>4, <2>6
  <1>7. ASSUME NEW c \in Block PROVE DiskOK(c)'
    <2>1. disk'[c] = (IF c = blockno[i] THEN last[c] ELSE disk[c]) /\ DiskOK(c)
      BY <1>1, <1>2 DEF BioInv, TypeOK
    <2> QED  BY <1>1, <2>1 DEF DiskOK
  <1>8. Cardinality(pinned') <= PINS
    <2>1. Cardinality(pinned \ {i}) = Cardinality(pinned) - 1 /\ Cardinality(pinned) <= PINS
      BY <1>1, FinitePinned, FS_RemoveElement DEF BioInv
    <2> QED  BY <1>1, <2>1, FinitePinned, BioAssumption, SMTT(30) DEF BioAssumption
  <1> QED  BY <1>3, <1>4, <1>5, <1>6, <1>7, <1>8 DEF BioInv

-----------------------------------------------------------------------------
(* brelse *)

\* releasesleep() wakes everybody who waits for the buffer.
LEMMA ReleaseStep ==
  ASSUME BioInv, NEW p \in Proc, NEW i \in Buf, Releasesleep(p, i)
  PROVE  BioInv'
  <1>1. /\ pc[p] = "run" /\ i \in has[p] /\ i \notin dirty
        /\ locked' = [locked EXCEPT ![i] = None] /\ has' = [has EXCEPT ![p] = has[p] \ {i}]
        /\ cur' = [cur EXCEPT ![p] = i] /\ pc' = Wakeup([pc EXCEPT ![p] = "brelse"], i)
        /\ UNCHANGED <<mru, blockno, valid, refcnt, data, disk, dirty, pinned, last>>
    BY DEF Releasesleep, SetCur, fields
  <1>2. has[p] = {i} /\ cur[p] = None /\ locked[i] = p
    BY <1>1, Facts, Having, SMTT(30) DEF PlaceOK
  <1>3. /\ has'[p] = {} /\ cur'[p] = i
        /\ \A q \in Proc \ {p} : has'[q] = has[q] /\ cur'[q] = cur[q]
        /\ has' \in [Proc -> SUBSET Buf] /\ cur' \in [Proc -> Buf \cup {None}]
    BY <1>1, <1>2 DEF BioInv, TypeOK
  <1>4. /\ pc' \in [Proc -> Label] /\ pc'[p] = "brelse"
        /\ \A q \in Proc \ {p} : pc'[q] = IF pc[q] = "asleep" /\ cur[q] = i THEN "acquiresleep"
                                                                         ELSE pc[q]
    BY <1>1 DEF BioInv, TypeOK, Wakeup, Label
  <1>5. \A j \in Buf : locked'[j] = IF j = i THEN None ELSE locked[j]
    BY <1>1 DEF BioInv, TypeOK
  <1>6. TypeOK' /\ ListOK'
    <2>1. locked' \in [Buf -> Proc \cup {None}]
      BY <1>1 DEF BioInv, TypeOK
    <2> QED  BY <1>1, <1>3, <1>4, <2>1 DEF BioInv, TypeOK, ListOK
  <1>7. ASSUME NEW q \in Proc PROVE PlaceOK(q)' /\ Awake(q)'
    <2>1. CASE q = p
      BY <1>3, <1>4, <2>1 DEF PlaceOK, Awake
    <2>2. CASE q # p
      <3>1. PlaceOK(q) /\ Awake(q)
        BY DEF BioInv
      <3> QED  BY <1>3, <1>4, <1>5, <2>2, <3>1, SMTT(30) DEF PlaceOK, Awake
    <2> QED  BY <2>1, <2>2
  <1>8. ASSUME NEW j \in Buf, NEW q \in Proc
        PROVE  (locked[j] = q <=> j \in has[q] \/ (pc[q] = "bread" /\ cur[q] = j))'
    <2>1. locked[j] = q <=> j \in has[q] \/ (pc[q] = "bread" /\ cur[q] = j)
      BY DEF BioInv, Locks
    <2>2. CASE q = p
      BY <1>1, <1>2, <1>3, <1>4, <1>5, <2>1, <2>2, Facts, SMTT(30)
    <2>3. CASE q # p
      BY <1>2, <1>3, <1>4, <1>5, <2>1, <2>3, Facts
    <2> QED  BY <2>2, <2>3
  <1>9. \A q \in Proc, j \in Buf : Refers(q, j)' <=> Refers(q, j)
    BY <1>2, <1>3, Facts, SMTT(30) DEF Refers
  <1>10. ASSUME NEW j \in Buf PROVE BufOK(j)' /\ Counts(j)'
    <2>1. Counts(j)' /\ BufOK(j)
      BY <1>1, <1>9, SameCount DEF BioInv
    <2>2. /\ \A q \in Proc : j \in has'[q] => j \in has[q]
          /\ j \in dirty => \A q \in Proc : j \in has[q] => j \in has'[q]
      BY <1>1, <1>2, <1>3
    <2> QED  BY <1>1, <1>9, <2>1, <2>2 DEF BufOK
  <1>11. Locks'
    BY <1>8 DEF Locks
  <1>12. OneBuffer' /\ \A b \in Block : DiskOK(b)'
    BY <1>1 DEF BioInv, OneBuffer, DiskOK
  <1> QED  BY <1>1, <1>6, <1>7, <1>10, <1>11, <1>12 DEF BioInv

\* The rest of brelse(), under bcache.lock.
LEMMA BrelseStep ==
  ASSUME BioInv, NEW p \in Proc, Brelse(p)
  PROVE  BioInv'
  <1>1. PICK i \in Buf : i = cur[p] /\ has[p] = {}
    BY Facts DEF Brelse, PlaceOK
  <1>2. /\ pc[p] = "brelse" /\ refcnt' = [refcnt EXCEPT ![i] = refcnt[i] - 1]
        /\ mru' = MoveToFront(i) \/ mru' = mru
        /\ cur' = [cur EXCEPT ![p] = None] /\ pc' = [pc EXCEPT ![p] = "run"]
        /\ UNCHANGED <<blockno, valid, data, locked, disk, has, dirty, pinned, last>>
    BY <1>1 DEF Brelse, BrelseRef, SetCur, Goto, clients
  <1>3. refcnt[i] \in Nat \ {0} /\ Refers(p, i)
    BY <1>1, InUse DEF Refers
  <1>4. ListOK'
    <2>1. CASE mru' = MoveToFront(i)
      BY <2>1, MovedList DEF BioInv
    <2>2. CASE mru' = mru
      BY <2>2 DEF BioInv, ListOK
    <2> QED  BY <1>2, <2>1, <2>2
  <1>5. TypeOK'
    <2>1. refcnt' \in [Buf -> Nat]
      BY <1>2, <1>3, SMTT(30) DEF BioInv, TypeOK
    <2>2. pc' \in [Proc -> Label] /\ cur' \in [Proc -> Buf \cup {None}]
      BY <1>2 DEF BioInv, TypeOK, Label
    <2> QED  BY <1>2, <2>1, <2>2 DEF BioInv, TypeOK
  <1>6. /\ cur'[p] = None /\ pc'[p] = "run"
        /\ \A q \in Proc \ {p} : cur'[q] = cur[q] /\ pc'[q] = pc[q]
    BY <1>2 DEF BioInv, TypeOK
  <1>7. refcnt'[i] = refcnt[i] - 1 /\ \A j \in Buf \ {i} : refcnt'[j] = refcnt[j]
    BY <1>2 DEF BioInv, TypeOK
  <1>8. \A q \in Proc : PlaceOK(q)' /\ Awake(q)'
    BY <1>1, <1>2, <1>6 DEF BioInv, PlaceOK, Awake
  <1>9. Locks'
    BY <1>2, <1>6, SMTT(30) DEF BioInv, Locks
  <1>10. /\ ~Refers(p, i)'
         /\ \A q \in Proc, j \in Buf : q # p \/ j # i => (Refers(q, j)' <=> Refers(q, j))
    BY <1>1, <1>2, <1>6, Facts DEF Refers
  <1>11. ASSUME NEW j \in Buf PROVE BufOK(j)' /\ Counts(j)'
    <2>1. Counts(j)'
      <3>1. CASE j = i
        BY <1>2, <1>3, <1>7, <1>10, <3>1, OneLess
      <3>2. CASE j # i
        BY <1>2, <1>7, <1>10, <3>2, SameCount
      <3> QED  BY <3>1, <3>2
    <2>2. BufOK(j) /\ \A q \in Proc : Refers(q, j)' => Refers(q, j)
      BY <1>3, <1>10 DEF BioInv
    <2> QED  BY <1>2, <2>1, <2>2 DEF BufOK
  <1>12. OneBuffer' /\ \A b \in Block : DiskOK(b)'
    BY <1>2 DEF BioInv, OneBuffer, DiskOK
  <1> QED  BY <1>2, <1>4, <1>5, <1>8, <1>9, <1>11, <1>12 DEF BioInv

-----------------------------------------------------------------------------
(* The theorems *)

\* binit().
LEMMA BioInit ==
  ASSUME Init
  PROVE  BioInv
  <1>1. NBUF \in Nat /\ PINS \in Nat /\ None \notin Proc \cup Buf \cup Block
    BY BioAssumption DEF BioAssumption
  <1>2. TypeOK
    BY DEF Init, TypeOK, Label
  <1>3. ListOK
    <2>1. \A i \in Buf : NBUF + 1 - i \in Buf /\ NBUF + 1 - (NBUF + 1 - i) = i
      BY <1>1, SMTT(30) DEF Buf
    <2> QED  BY <2>1 DEF Init, ListOK
  <1>4. \A p \in Proc : PlaceOK(p) /\ Awake(p)
    BY DEF Init, PlaceOK, Awake
  <1>5. Locks
    BY <1>1 DEF Init, Locks
  <1>6. ASSUME NEW i \in Buf PROVE BufOK(i) /\ Counts(i)
    <2>1. \A p \in Proc : ~Refers(p, i) /\ i \notin has[p]
      BY <1>1 DEF Init, Refers
    <2>2. Users(i) = {}
      BY <2>1 DEF Users, Refers
    <2>3. Cardinality(Users(i)) = 0
      BY <2>2, FS_EmptySet
    <2>4. refcnt[i] = 0 /\ i \notin pinned
      BY DEF Init
    <2> QED  BY <2>1, <2>3, <2>4, SMTT(30) DEF Init, BufOK, Counts
  <1>7. OneBuffer /\ \A b \in Block : DiskOK(b)
    BY DEF Init, OneBuffer, DiskOK
  <1>8. Cardinality(pinned) <= PINS
    <2>1. pinned = {} /\ Cardinality({}) = 0
      BY FS_EmptySet DEF Init
    <2> QED  BY <1>1, <2>1, SMTT(30)
  <1> QED  BY <1>2, <1>3, <1>4, <1>5, <1>6, <1>7, <1>8 DEF BioInv

\* Every step of bio.c and of its clients keeps the invariant.
LEMMA BioNext ==
  ASSUME BioInv, [Next]_vars
  PROVE  BioInv'
  <1>1. ASSUME NEW p \in Proc, NEW b \in Block, BgetHit(p, b) \/ BgetMiss(p, b) PROVE BioInv'
    BY <1>1, HitStep, MissStep
  <1>2. ASSUME NEW p \in Proc, NEW i \in Buf, Use(p, i) \/ Releasesleep(p, i) PROVE BioInv'
    BY <1>2, ModifyStep, BwriteStep, BpinStep, UnpinStep, ReleaseStep DEF Use
  <1>3. ASSUME NEW p \in Proc, Step(p) PROVE BioInv'
    BY <1>3, AcquireStep, WaitStep, BreadStep, BrelseStep DEF Step
  <1>4. ASSUME UNCHANGED vars PROVE BioInv'
    <2>1. UNCHANGED <<mru, blockno, valid, refcnt, data, locked, disk, pc, cur, has, dirty,
                      pinned, last>>
      BY <1>4 DEF vars, fields, clients
    <2>2. TypeOK' /\ ListOK' /\ Locks' /\ OneBuffer' /\ Cardinality(pinned') <= PINS
      BY <2>1 DEF BioInv, TypeOK, ListOK, Locks, OneBuffer
    <2>3. ASSUME NEW i \in Buf PROVE BufOK(i)' /\ Counts(i)'
      BY <2>1, SameCount DEF BioInv, BufOK, Refers
    <2>4. \A p \in Proc : PlaceOK(p)' /\ Awake(p)'
      BY <2>1 DEF BioInv, PlaceOK, Awake
    <2>5. \A b \in Block : DiskOK(b)'
      BY <2>1 DEF BioInv, DiskOK
    <2> QED  BY <2>2, <2>3, <2>4, <2>5 DEF BioInv
  <1> QED  BY <1>1, <1>2, <1>3, <1>4 DEF Next

\* Every state of the cache, whatever the number of its buffers and of the processes
\* that use it, satisfies the invariant.
THEOREM BioInvariant == Spec => []BioInv
  BY BioInit, BioNext, PTL DEF Spec

\* Who has a buffer is alone with it and with its block, and sees what was last
\* stored in the block (bio.c:13 and 89).
THEOREM CacheCoherent == Spec => []Coherent
  <1>1. BioInv => Coherent
    <2> SUFFICES ASSUME BioInv PROVE Coherent
      OBVIOUS
    <2>1. ASSUME NEW p \in Proc, NEW q \in Proc, NEW i \in has[p], NEW j \in has[q],
                 blockno[i] = blockno[j]
          PROVE  p = q /\ i = j
      <3>1. i = j
        BY <2>1, Having
      <3>2. locked[i] = p /\ locked[j] = q
        BY Having
      <3> QED  BY <3>1, <3>2
    <2>2. ASSUME NEW p \in Proc, NEW i \in has[p] PROVE data[i] = last[blockno[i]]
      BY Having
    <2> QED  BY <2>1, <2>2 DEF Coherent
  <1> QED  BY <1>1, BioInvariant, PTL

\* Nobody sleeps in acquiresleep() for a buffer that is free (sleeplock.c:25-27, 38).
THEOREM SleepersRemain == Spec => []NoSleeperForgotten
  <1>1. BioInv => NoSleeperForgotten
    BY DEF BioInv, Awake, NoSleeperForgotten
  <1> QED  BY <1>1, BioInvariant, PTL

\* A process that asks for a buffer refers to none, every other refers to one at
\* most, and the log pins PINS at most: one is left.
LEMMA OneIsLeft ==
  ASSUME BioInv, Cardinality(Proc) + PINS <= NBUF, NEW p \in Proc, MayAsk(p)
  PROVE  Unused # {}
  <1>1. SUFFICES ASSUME \A i \in Buf : refcnt[i] # 0 PROVE FALSE
    BY DEF Unused
  <1> DEFINE Others == Proc \ {p}
             Single == Buf \ pinned
             f == [i \in Single |-> CHOOSE q \in Others : Refers(q, i)]
  <1>2. /\ IsFiniteSet(Others) /\ Cardinality(Others) = Cardinality(Proc) - 1
        /\ Cardinality(Proc) \in Nat
    BY FS_RemoveElement, FS_CardinalityType, BioAssumption DEF BioAssumption
  <1>3. /\ IsFiniteSet(Buf) /\ Cardinality(Buf) = NBUF /\ NBUF \in Nat /\ PINS \in Nat
    BY FS_Interval, BioAssumption, SMTT(30) DEF BioAssumption, Buf
  <1>4. IsFiniteSet(Single) /\ Cardinality(Single) = NBUF - Cardinality(pinned)
    <2>1. Buf \cap pinned = pinned
      BY DEF BioInv, TypeOK
    <2> QED  BY <1>3, <2>1, FS_Difference, SMTT(30)
  <1>5. \A i \in Single : \E q \in Others : Refers(q, i)
    <2>1. ASSUME NEW i \in Single PROVE \E q \in Others : Refers(q, i)
      <3>1. Cardinality(Users(i)) # 0
        BY <1>1, SMTT(30) DEF BioInv, Counts
      <3>2. Users(i) # {}
        BY <3>1, FS_EmptySet
      <3>3. ~Refers(p, i)
        BY Facts DEF MayAsk, PlaceOK, Refers
      <3> QED  BY <3>2, <3>3 DEF Users, Refers
    <2> QED  BY <2>1
  <1>6. f \in [Single -> Others] /\ \A i \in Single : Refers(f[i], i)
    BY <1>5
  <1>7. ASSUME NEW i \in Single, NEW j \in Single, f[i] = f[j] PROVE i = j
    <2>1. PICK q \in Proc : Refers(q, i) /\ Refers(q, j)
      BY <1>6, <1>7
    <2>2. PlaceOK(q)
      BY DEF BioInv
    <2> QED  BY <2>1, <2>2, Facts, SMTT(30) DEF PlaceOK, Refers
  <1>8. Cardinality(Others) < Cardinality(Single)
    BY <1>2, <1>3, <1>4, FinitePinned, SMTT(30) DEF BioInv
  <1> HIDE DEF f, Others, Single
  <1>9. \E i, j \in Single : i # j /\ f[i] = f[j]
    BY <1>2, <1>4, <1>6, <1>8, FS_PigeonHole
  <1> QED  BY <1>7, <1>9

\* A count is the number of references to the buffer; and bget() never panics with
\* "no buffers" (bio.c:86) if there are as many as the processes and the blocks that
\* the log pins.
THEOREM BuffersSuffice ==
  ASSUME Cardinality(Proc) + PINS <= NBUF
  PROVE  Spec => []NeverOutOfBuffers
  <1>1. BioInv => NeverOutOfBuffers
    BY OneIsLeft DEF BioInv, Counts, NeverOutOfBuffers
  <1> QED  BY <1>1, BioInvariant, PTL
=============================================================================

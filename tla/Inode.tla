------------------------------- MODULE Inode --------------------------------
(***************************************************************************)
(* The contents of inodes on an image made by mkfs: balloc(), bfree(),     *)
(* bmap(), itrunc(), readi() and writei() of kernel/fs.c, under fileread() *)
(* and filewrite() of kernel/file.c.                                       *)
(*                                                                         *)
(* ip->lock is held during readi(), writei() and itrunc(), and a block's   *)
(* buffer while its bits are changed, so each of these is a step.  A       *)
(* buffer that was changed without log_write() reverts to what is logged   *)
(* when it is recycled.                                                    *)
(***************************************************************************)
EXTENDS Mkfs

CONSTANTS
  Fd, InodeOf,     \* open files, and the inode of each
  ByteOf, Old,      \* the byte that is written to each inode; the one mkfs copies
  Sizes,           \* how many of them
  MAXN,            \* bytes asked for by a call
  MAXCHUNK,        \* bytes in one transaction of filewrite()
  UINT             \* size of an unsigned int

VARIABLES
  used,            \* the bitmap
  data, logged,    \* blocks as bytes: in the buffer, and as of the last log_write()
  ind,             \* blocks as block numbers
  ip, dinode,      \* inodes in memory and on disk: [size, addrs]
  off,             \* f->off
  left,            \* n - i of filewrite()
  panicked

Junk == [i \in 0..(BSIZE - 1) |-> Old]
JunkBlocks == [i \in 0..(NINDIRECT - 1) |-> 1]
disk == <<used, data, logged, ind>>
vars == <<disk, ip, dinode, off, left, panicked>>

Disk(f) == [used |-> used, data |-> data, logged |-> logged, ind |-> ind,
            addrs |-> ip[f].addrs, at |-> 0, panic |-> FALSE]
Becomes(m) == used' = m.used /\ data' = m.data /\ logged' = m.logged /\ ind' = m.ind

Init ==
  /\ \E g \in {Image(ByteOf[Root], [i \in 1..n |-> Old]) : n \in Sizes} :
       /\ used = g.m.used /\ data = g.m.data /\ logged = g.m.logged /\ ind = g.m.ind
       /\ dinode = g.din
  /\ ip = dinode
  /\ off = [d \in Fd |-> 0] /\ left = [d \in Fd |-> 0]
  /\ panicked = FALSE

-----------------------------------------------------------------------------
\* Mutant: a block is not cleared.
BzeroNot(m, b) == m

Bzero(m, b) == [m EXCEPT !.data[b] = Zeroes, !.logged[b] = Zeroes, !.ind[b] = NoBlocks]

\* balloc(): the first free block
Balloc(m) ==
  IF m.panic \/ m.used = DataBlock THEN [m EXCEPT !.panic = TRUE]
  ELSE LET b == Min(DataBlock \ m.used)
       IN Bzero([m EXCEPT !.used = @ \cup {b}, !.at = b], b)

BallocIfMissing(m, a) == IF a # 0 THEN [m EXCEPT !.at = a] ELSE Balloc(m)

\* bmap(): the nth block of the inode, allocated if it is missing
Bmap(m, bn) ==
  IF bn < NDIRECT
  THEN LET k == BallocIfMissing(m, m.addrs[bn]) IN [k EXCEPT !.addrs[bn] = k.at]
  ELSE LET j == bn - NDIRECT
           k == BallocIfMissing(m, m.addrs[NDIRECT])
           l == BallocIfMissing(k, k.ind[k.at][j])
       IN IF k.panic THEN k ELSE [l EXCEPT !.addrs[NDIRECT] = k.at, !.ind[k.at][j] = l.at]

\* Mutant: the indirect block itself is kept.
TruncatedDirect(f) ==
  LET a == ip[f].addrs IN {a[i] : i \in 0..(NDIRECT - 1)} \cup
                          (IF a[NDIRECT] = 0 THEN {} ELSE {ind[a[NDIRECT]][j] : j \in 0..(NINDIRECT - 1)})

\* The blocks that itrunc() frees.
Truncated(f) ==
  LET a == ip[f].addrs IN {a[i] : i \in 0..NDIRECT} \cup
                          (IF a[NDIRECT] = 0 THEN {} ELSE {ind[a[NDIRECT]][j] : j \in 0..(NINDIRECT - 1)})

\* Blocks of the file from byte o on, n bytes, in order.
BlocksOf(o, n) ==
  IF n = 0 THEN <<>>
  ELSE [i \in 1..((o + n - 1) \div BSIZE - o \div BSIZE + 1) |-> o \div BSIZE + i - 1]

\* Bytes lo..hi-1 of the file that are in block bn become v.
Store(b, bn, lo, hi, v) ==
  [i \in DOMAIN b |-> IF bn * BSIZE + i \in lo..(hi - 1) THEN v ELSE b[i]]

\* Copying from the user goes well, or fails in a block after some bytes.
Copies(o, n) ==
  {<<MAXFILE, 0>>} \cup
  {c \in ToSet(BlocksOf(o, n)) \X (0..(BSIZE - 1)) :
     Max({o, c[1] * BSIZE}) + c[2] < Min({o + n, (c[1] + 1) * BSIZE})}

\* The loop of writei().  either_copyin() fails in the bad-th block, with some bytes
\* of it copied; that block is not logged.
WriteLoop(m, o, n, v, bad, some) ==
  LET step(k, bn) ==
        LET l == Bmap(k, bn)
            end == IF bn = bad THEN Max({o, bn * BSIZE}) + some ELSE o + n
            w == [l EXCEPT !.data[l.at] = Store(@, bn, o, end, v)]
        IN IF l.panic THEN l
           ELSE IF bn = bad THEN w ELSE [w EXCEPT !.logged[w.at] = w.data[w.at]]
  IN FoldLeft(step, m, SelectSeq(BlocksOf(o, n), LAMBDA bn : bn <= bad))

WriteFails(f, o, n) == o > ip[f].size \/ (o + n) % UINT < o \/ o + n > MAXFILE * BSIZE

\* Mutant: the inode is written back only if the size has changed.
IupdateIfLonger(f, i, size) == dinode' = IF size > ip[f].size THEN [dinode EXCEPT ![f] = i] ELSE dinode

\* iupdate(), for any change of the inode
Iupdate(f, i, size) == dinode' = [dinode EXCEPT ![f] = i]

\* writei(), where it does not return -1
Writei(f, o, n, v, bad, some) ==
  LET end == Min({o + n, Max({o, bad * BSIZE})}) IN
  \E m \in {WriteLoop(Disk(f), o, n, v, bad, some)} :
    IF m.panic THEN panicked' = TRUE /\ UNCHANGED <<disk, ip, dinode>>
    ELSE LET i == [size |-> Max({ip[f].size, end}), addrs |-> m.addrs]
         IN /\ Becomes(m)
            /\ ip' = [ip EXCEPT ![f] = i]
            /\ IF n > 0 THEN Iupdate(f, i, i.size) ELSE UNCHANGED dinode
            /\ UNCHANGED panicked

-----------------------------------------------------------------------------
CallWrite(d) ==
  /\ left[d] = 0 /\ ~panicked
  /\ \E n \in 1..MAXN : left' = [left EXCEPT ![d] = n]
  /\ UNCHANGED <<disk, ip, dinode, off, panicked>>

\* A transaction of filewrite().  f->off grows by what was asked for, even if
\* either_copyin() failed.
Filewrite(d) ==
  LET f == InodeOf[d]
      n1 == Min({left[d], MAXCHUNK})
  IN /\ left[d] > 0 /\ ~panicked
     /\ IF WriteFails(f, off[d], n1)
        THEN left' = [left EXCEPT ![d] = 0] /\ UNCHANGED <<disk, ip, dinode, off, panicked>>
        ELSE /\ \E c \in Copies(off[d], n1) : Writei(f, off[d], n1, ByteOf[f], c[1], c[2])
             /\ off' = [off EXCEPT ![d] = @ + n1]
             /\ left' = [left EXCEPT ![d] = @ - n1]

\* dirlink() writes an entry, from kernel memory.
Dirlink ==
  /\ ~panicked
  /\ \E o \in 0..ip[Root].size :
       ~WriteFails(Root, o, 1) /\ Writei(Root, o, 1, ByteOf[Root], MAXFILE, 0)
  /\ UNCHANGED <<off, left>>

ReadFails(f, o, n) == o > ip[f].size \/ (o + n) % UINT < o

\* readi() of n bytes that are there: missing blocks would be allocated.
Readi(f, o, n) ==
  \E m \in {FoldLeft(Bmap, Disk(f), BlocksOf(o, n))} :
    Becomes(m) /\ ip' = [ip EXCEPT ![f].addrs = m.addrs]

Fileread(d) ==
  LET f == InodeOf[d] IN
  /\ left[d] = 0 /\ ~panicked
  /\ \E n \in (0..MAXN) \cup {UINT - 1} :
       LET n1 == Min({n, ip[f].size - off[d]})
       IN IF ReadFails(f, off[d], n)
          THEN UNCHANGED <<disk, ip, off>>
          ELSE Readi(f, off[d], n1) /\ off' = [off EXCEPT ![d] = @ + n1]
  /\ UNCHANGED <<dinode, left, panicked>>

\* iput() of a file with no links: itrunc(); the inode is then allocated again.
\* What a freed block holds is any junk.
Itrunc(f) ==
  /\ ~panicked /\ \A d \in Fd : InodeOf[d] = f => left[d] = 0
  /\ used' = used \ Truncated(f)
  /\ ip' = [ip EXCEPT ![f] = Empty]
  /\ dinode' = [dinode EXCEPT ![f] = Empty]
  /\ off' = [d \in Fd |-> IF InodeOf[d] = f THEN 0 ELSE off[d]]
  /\ data' = [b \in DataBlock |-> IF b \in Truncated(f) THEN Junk ELSE data[b]]
  /\ logged' = [b \in DataBlock |-> IF b \in Truncated(f) THEN Junk ELSE logged[b]]
  /\ ind' = [b \in DataBlock |-> IF b \in Truncated(f) THEN JunkBlocks ELSE ind[b]]
  /\ UNCHANGED <<left, panicked>>

\* bget() recycles a buffer, and it is read again.
Recycle(b) ==
  /\ data[b] # logged[b]
  /\ data' = [data EXCEPT ![b] = logged[b]]
  /\ UNCHANGED <<used, logged, ind, ip, dinode, off, left, panicked>>

\* The file is opened again.
Open(d) ==
  /\ left[d] = 0 /\ off[d] # 0
  /\ off' = [off EXCEPT ![d] = 0]
  /\ UNCHANGED <<disk, ip, dinode, left, panicked>>

Next == \/ \E d \in Fd : CallWrite(d) \/ Filewrite(d) \/ Fileread(d) \/ Open(d)
        \/ \E f \in Files : Itrunc(f)
        \/ \E b \in DataBlock : Recycle(b)
        \/ Dirlink

Spec == Init /\ [][Next]_vars

-----------------------------------------------------------------------------
AddrOf(f, bn) == IF bn < NDIRECT THEN ip[f].addrs[bn]
                 ELSE IF ip[f].addrs[NDIRECT] = 0 THEN 0
                 ELSE ind[ip[f].addrs[NDIRECT]][bn - NDIRECT]
Bytes(f, d) == [i \in 1..ip[f].size |-> d[AddrOf(f, (i - 1) \div BSIZE)][(i - 1) % BSIZE]]

\* Files, the directory among them, are sequences of bytes: a write changes the
\* bytes it is asked to, up to where copying from the user fails, and nothing else
\* in any file, whichever blocks were allocated, freed and used again (fs.c:378-441
\* and 487-518).  Bytes copied into a block before a failure are not logged: they
\* vanish with the buffer, or are logged with the next write to the block.
Contents == INSTANCE ByteFiles WITH
  File <- Inode, Val <- Val \cup {Zero}, MAXWRITE <- MAXCHUNK,
  contents <- [f \in Inode |-> Bytes(f, data)],
  stable <- [f \in Inode |-> Bytes(f, logged)]
FilesAreBytes == Contents!Spec

\* A block is marked in the bitmap exactly if one inode has it, in one place
\* (fs.c:65-104 and 420-437; mkfs.c:245-305).
BlocksOwnedOnce ==
  LET places == {<<f, i, -1>> : f \in Inode, i \in 0..NDIRECT}
                \cup {<<f, NDIRECT, j>> : f \in Inode, j \in 0..(NINDIRECT - 1)}
      at(p) == LET a == ip[p[1]].addrs[p[2]]
               IN IF p[3] = -1 THEN a ELSE IF a = 0 THEN 0 ELSE ind[a][p[3]]
      owners == {p \in places : at(p) # 0}
  IN /\ {at(p) : p \in owners} = used
     /\ Cardinality(owners) = Cardinality(used)

\* What memory knows of an inode is on disk, and all its blocks exist: neither
\* reading a file nor forgetting its inode allocates or loses a block (fs.c:511-513).
WrittenBack ==
  /\ dinode = ip
  /\ \A f \in Inode : \A i \in 0..(ip[f].size - 1) : AddrOf(f, i \div BSIZE) # 0
=============================================================================

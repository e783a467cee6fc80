-------------------------------- MODULE Mkfs --------------------------------
(***************************************************************************)
(* Inodes and blocks on disk, and the image that mkfs (mkfs/mkfs.c) makes: *)
(* a root directory and files, copied in by iappend().                     *)
(*                                                                         *)
(* m = [used, data, logged, ind, addrs, at, panic] is a disk with the      *)
(* addrs of the inode at hand; at is the block that was looked up last.    *)
(* data and ind are the two ways in which a block is read, as bytes and as *)
(* block numbers; 0 is no block.                                           *)
(***************************************************************************)
EXTENDS Naturals, Sequences, FiniteSets, FiniteSetsExt, SequencesExt

CONSTANTS
  NBLOCK,             \* data blocks, numbered from 1
  BSIZE, NDIRECT, NINDIRECT,
  Zero, Val,          \* a zero byte; other bytes
  Root, Files,        \* the root directory; the other inodes
  Made                \* the file that mkfs copies

DataBlock == 1..NBLOCK
Inode == Files \cup {Root}
MAXFILE == NDIRECT + NINDIRECT
Zeroes == [i \in 0..(BSIZE - 1) |-> Zero]
NoBlocks == [i \in 0..(NINDIRECT - 1) |-> 0]
Empty == [size |-> 0, addrs |-> [i \in 0..NDIRECT |-> 0]]

-----------------------------------------------------------------------------
\* freeblock++
Freeblock(m) == LET b == Cardinality(m.used) + 1
                IN [m EXCEPT !.used = @ \cup {b}, !.at = b]

\* The block that an address names, or a new one if there is none
NewIfMissing(m, a) == IF a # 0 THEN [m EXCEPT !.at = a] ELSE Freeblock(m)

\* iappend()'s lookup of the nth block of the inode
Lookup(m, bn) ==
  IF bn < NDIRECT
  THEN LET k == NewIfMissing(m, m.addrs[bn]) IN [k EXCEPT !.addrs[bn] = k.at]
  ELSE LET j == bn - NDIRECT
           k == NewIfMissing(m, m.addrs[NDIRECT])
           l == NewIfMissing(k, k.ind[k.at][j])
       IN [l EXCEPT !.addrs[NDIRECT] = k.at, !.ind[k.at][j] = l.at]

Blank == [used |-> {}, data |-> [b \in DataBlock |-> Zeroes],
          logged |-> [b \in DataBlock |-> Zeroes],
          ind |-> [b \in DataBlock |-> NoBlocks], addrs |-> Empty.addrs, at |-> 0, panic |-> FALSE]

\* iappend(): the bytes s at the end of f, on the image g = [m, din]
Iappend(g, f, s) ==
  LET din == g.din[f]
      byte(k, i) ==
        LET off == din.size + i - 1
            l == Lookup(k, off \div BSIZE)
        IN [l EXCEPT !.data[l.at][off % BSIZE] = s[i], !.logged[l.at][off % BSIZE] = s[i]]
      k == FoldLeft(byte, [g.m EXCEPT !.addrs = din.addrs], [i \in 1..Len(s) |-> i])
  IN [m |-> k, din |-> [g.din EXCEPT ![f] = [size |-> din.size + Len(s), addrs |-> k.addrs]]]

\* main(): the root's entries, of one byte e each, and a file with the bytes s, read
\* in blocks; the root's size is rounded up.
Image(e, s) ==
  LET start == [m |-> Blank, din |-> [f \in Inode |-> Empty]]
      root == Iappend(Iappend(Iappend(start, Root, <<e>>), Root, <<e>>), Root, <<e>>)
      copy(g, i) == Iappend(g, Made, SubSeq(s, i * BSIZE + 1, Min({Len(s), (i + 1) * BSIZE})))
      g == FoldLeft(copy, root, [i \in 1..((Len(s) + BSIZE - 1) \div BSIZE) |-> i - 1])
  IN [g EXCEPT !.din[Root].size = ((@ \div BSIZE) + 1) * BSIZE]
=============================================================================

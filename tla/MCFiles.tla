------------------------------- MODULE MCFiles ------------------------------
(***************************************************************************)
(* The file system, layer by layer: the log, with crashes; the contents of *)
(* files; names.  A behaviour is one of one layer, as part says; the       *)
(* others stay in an initial state.                                        *)
(***************************************************************************)
EXTENDS Log, TLC

CONSTANTS
  NBLOCK, BSIZE, NDIRECT, NINDIRECT, Zero, Root, f1, f2, d1, d2, va, vb, vc, vx,
  MAXN, MAXCHUNK, UINT, NINODES, Ops, CALLS

VARIABLES
  part,
  used, bytes, logged, ind, ip, dinode, off, left, stopped,
  type, nlink, entry, ref, loaded, lock, cwd, fd, loc, made, panicked

-----------------------------------------------------------------------------
\* Two files, of which mkfs made the first; vx is the root's byte.
Contents == INSTANCE Inode WITH
  Val <- {va, vb, vc, vx}, Files <- {f1, f2}, Made <- f1, Fd <- {d1, d2},
  InodeOf <- d1 :> f1 @@ d2 :> f2, ByteOf <- Root :> vx @@ f1 :> va @@ f2 :> vb, Old <- vc,
  Sizes <- {3}, data <- bytes, panicked <- stopped

contents == <<used, bytes, logged, ind, ip, dinode, off, left, stopped>>

-----------------------------------------------------------------------------
Name == {"x", "y"}
Entries(y, z) == [n \in Name \cup {".."} |-> CASE n = "x" -> y [] n = "y" -> z [] OTHER -> 0]

\* An empty root, and a root with a directory x that has a file y.
Tree(dirs, files, links, entries) ==
  [type |-> [i \in 1..NINODES |-> CASE i \in dirs -> "dir" [] i \in files -> "file" [] OTHER -> "free"],
   nlink |-> [i \in 1..NINODES |-> IF i <= Len(links) THEN links[i] ELSE 0],
   entry |-> [i \in 1..NINODES |-> IF i \in dirs THEN [entries[i] EXCEPT ![".."] = 1] ELSE Entries(0, 0)]]
RootOnly == Tree({1}, {}, <<1>>, <<Entries(0, 0)>>)
WithFile == Tree({1, 2}, {3}, <<2, 1, 1>>, <<Entries(2, 0), Entries(0, 3)>>)

\* /x, /x/y and ..
MCPaths == {[abs |-> TRUE, elems |-> <<"x">>], [abs |-> TRUE, elems |-> <<"x", "y">>],
            [abs |-> FALSE, elems |-> <<"..">>]}

Names == INSTANCE Dir WITH
  Paths <- MCPaths, Trees <- {RootOnly, WithFile}, valid <- loaded, calls <- made

names == <<type, nlink, entry, ref, loaded, lock, cwd, fd, loc, made, panicked>>

-----------------------------------------------------------------------------
MCInit == /\ Init /\ Contents!Init /\ Names!Init
          /\ part \in {"log", "inode", "dir"}
          /\ part # "log" => \A i \in Block : home[i] = CHOOSE v \in Val : TRUE
          /\ part # "dir" => nlink[1] = 1

LogStep == part = "log" /\ Next /\ UNCHANGED <<part, contents, names>>
InodeStep == part = "inode" /\ Contents!Next /\ UNCHANGED <<part, vars, names>>
DirStep == part = "dir" /\ Names!Next /\ UNCHANGED <<part, vars, contents>>

\* The contents come to rest when the disk is full.
Rest == /\ part = "inode" /\ stopped
        /\ UNCHANGED <<part, vars, contents, names>>

MCNext == LogStep \/ InodeStep \/ DirStep \/ Rest

MCSpec == MCInit /\ [][MCNext]_<<part, vars, contents, names>>

-----------------------------------------------------------------------------
\* What Inode.tla says: files are sequences of bytes (fs.c:378-518), a block has one
\* owner (fs.c:65-104), and what a call changes in an inode is on disk (fs.c:222-238).
FilesAreBytes == /\ part = "inode" => Contents!Contents!Init
                 /\ [][part = "inode" => Contents!Contents!Step]_contents
BlocksOwnedOnce == part = "inode" => Contents!BlocksOwnedOnce
WrittenBack == part = "inode" => Contents!WrittenBack

\* What Dir.tla says: every pointer to an inode is counted (fs.c:244-359), and entries
\* lead to inodes that stay (sysfile.c:120-284).
RefsCounted == part = "dir" => Names!RefsCounted
NoDanglingEntry == part = "dir" => Names!NoDanglingEntry

Sym == Permutations(Proc)
=============================================================================

--------------------------------- MODULE Dir --------------------------------
(***************************************************************************)
(* Names: the inode cache, directories and path lookup of kernel/fs.c,     *)
(* under the calls of kernel/sysfile.c that use them, by several processes *)
(* at a time.                                                              *)
(*                                                                         *)
(* An inode's sleep-lock is held from ilock() to iunlock().  What is done  *)
(* under one lock is a step, unless another lock is taken or an inode is   *)
(* put within: then the lock is held across steps.  An inode in memory is  *)
(* written through by iupdate() before it is unlocked, so its fields are   *)
(* modelled once.  The order of a directory's entries is left out.         *)
(***************************************************************************)
EXTENDS Naturals, Sequences, FiniteSets, FiniteSetsExt

CONSTANTS
  Proc, None,
  NINODES,    \* inodes on disk, from 1; 1 is the root
  Name,       \* names of entries, other than ".."
  Paths,      \* [abs, elems]
  Ops,        \* the calls that are made
  CALLS,      \* how many, in all
  Trees       \* what is there at the start: [type, nlink, entry]

VARIABLES
  type, nlink, entry,    \* the fields of each inode; entry is for directories
  ref, valid, lock,      \* its place in the inode cache; ip->lock
  cwd, fd,               \* of each process: current directory, an open file or 0
  loc,                   \* of each process: where it is, and its locals
  calls, panicked

inodes == <<type, nlink, entry>>
cache == <<ref, valid, lock>>
vars == <<inodes, cache, cwd, fd, loc, calls, panicked>>

Inode == 1..NINODES
ROOTINO == 1
DotDot == ".."
NoEntries == [n \in Name \cup {DotDot} |-> 0]
Idle == [pc |-> "idle", op |-> "", path |-> <<>>, new |-> <<>>, ip |-> 0, dp |-> 0,
         old |-> 0, put |-> <<>>]

Init ==
  /\ \E t \in Trees : type = t.type /\ nlink = t.nlink /\ entry = t.entry
  /\ ref = [i \in Inode |-> IF i = ROOTINO THEN Cardinality(Proc) ELSE 0]
  /\ valid = [i \in Inode |-> i = ROOTINO]
  /\ lock = [i \in Inode |-> None]
  /\ cwd = [p \in Proc |-> ROOTINO] /\ fd = [p \in Proc |-> 0]
  /\ loc = [p \in Proc |-> Idle]
  /\ calls = 0 /\ panicked = FALSE

\* Process p is at l and has nothing to put.
At(p, l) == loc[p].pc = l /\ loc[p].put = <<>> /\ ~panicked

\* It goes on at l, after putting the inodes of s.
Goto(p, l, s) == loc' = [loc EXCEPT ![p].pc = l, ![p].dp = 0, ![p].put = s]
Return(p, s) == loc' = [loc EXCEPT ![p] = [Idle EXCEPT !.put = s]]

Panic == panicked' = TRUE /\ UNCHANGED <<inodes, cache, cwd, fd, loc, calls>>

\* ilock(), where it does not panic
Ilock(i) == lock[i] = None /\ type[i] # "free" /\ valid' = [valid EXCEPT ![i] = TRUE]

\* The inode that a process is about to lock.
Wants(p) ==
  LET l == loc[p] IN
  CASE l.put # <<>> -> 0
    [] l.pc \in {"namei", "nameiparent"} /\ l.path # <<>> -> l.ip
    [] l.pc \in {"open", "chdir", "link", "exists", "unlink entry"} -> l.ip
    [] l.pc \in {"create", "unlink", "link entry"} -> l.dp
    [] l.pc = "link bad" -> l.old
    [] OTHER -> 0

\* ilock() of an inode that has no type
IlockPanics(p) ==
  /\ ~panicked /\ Wants(p) # 0
  /\ lock[Wants(p)] = None /\ type[Wants(p)] = "free"
  /\ Panic

-----------------------------------------------------------------------------
(* iput *)

Last(i) == ref[i] = 1 /\ valid[i] /\ nlink[i] = 0

\* The reference is dropped, unless the inode has to be freed first.
Iput(p) ==
  LET i == Head(loc[p].put) IN
  /\ ~panicked /\ loc[p].put # <<>> /\ lock[i] # p
  /\ IF Last(i)
     THEN /\ lock[i] = None /\ lock' = [lock EXCEPT ![i] = p] /\ UNCHANGED <<ref, loc>>
     ELSE /\ ref' = [ref EXCEPT ![i] = @ - 1] /\ UNCHANGED lock
          /\ loc' = [loc EXCEPT ![p].put = Tail(@)]
  /\ UNCHANGED <<inodes, valid, cwd, fd, calls, panicked>>

\* itrunc(), type = 0, valid = 0; Iput follows, with no valid inode.
IputFrees(p) ==
  LET i == Head(loc[p].put) IN
  /\ ~panicked /\ loc[p].put # <<>> /\ lock[i] = p
  /\ type' = [type EXCEPT ![i] = "free"]
  /\ entry' = [entry EXCEPT ![i] = NoEntries]
  /\ valid' = [valid EXCEPT ![i] = FALSE]
  /\ lock' = [lock EXCEPT ![i] = None]
  /\ UNCHANGED <<nlink, ref, cwd, fd, loc, calls, panicked>>

-----------------------------------------------------------------------------
(* namex *)

\* dirlookup(): the inode that a directory has under a name, or 0
Dirlookup(dp, name) == entry[dp][name]

\* dirlink() of a name that is not there: the directories after it
Dirlink(dp, name, i) == [entry EXCEPT ![dp][name] = i]

\* iget() and idup(): the counts with one more reference
Igets(i) == [ref EXCEPT ![i] = @ + 1]

\* A cache entry that was not in use is not valid.
Iget(i) == ref' = Igets(i) /\ valid' = [valid EXCEPT ![i] = @ /\ ref[i] > 0]

StartOf(p, path) == IF path.abs THEN ROOTINO ELSE cwd[p]

Call(p, op, path, new) ==
  /\ At(p, "idle") /\ calls < CALLS
  /\ calls' = calls + 1
  /\ Iget(StartOf(p, path))
  /\ loc' = [loc EXCEPT ![p] =
       [Idle EXCEPT !.pc = IF op \in {"open", "chdir", "link"} THEN "namei" ELSE "nameiparent",
                    !.op = op, !.path = path.elems, !.new = new, !.ip = StartOf(p, path)]]
  /\ UNCHANGED <<inodes, lock, cwd, fd, panicked>>

\* Where a call goes on with the inode that was found.
Found(op) == CASE op \in {"mkdir", "mknod", "creat"} -> "create"
               [] op = "link" -> "link entry"
               [] OTHER -> op

\* Nothing was found: the inodes of s are put.
NotFound(p, s) == IF loc[p].pc = "nameiparent" /\ loc[p].op = "link"
                  THEN loc' = [loc EXCEPT ![p].pc = "link bad", ![p].ip = 0, ![p].put = s]
                  ELSE Return(p, s)

\* Mutant: the parent is kept when the name is not found.
PutsNone(i) == <<>>

Puts(i) == <<i>>

\* One element of the path; a step of nameiparent() ends at the last one.
Namex(p) ==
  LET l == loc[p]
      parent == l.pc = "nameiparent"
  IN /\ At(p, "namei") \/ At(p, "nameiparent")
     /\ IF l.path = <<>>
        THEN /\ IF parent THEN NotFound(p, <<l.ip>>) ELSE Goto(p, l.op, <<>>)
             /\ UNCHANGED <<ref, valid>>
        ELSE /\ lock[l.ip] = None /\ type[l.ip] # "free"
             /\ LET next == Dirlookup(l.ip, Head(l.path))
                    loaded == [valid EXCEPT ![l.ip] = TRUE]
                IN IF type[l.ip] # "dir"
                   THEN NotFound(p, <<l.ip>>) /\ valid' = loaded /\ UNCHANGED ref
                   ELSE IF parent /\ Len(l.path) = 1
                   THEN /\ loc' = [loc EXCEPT ![p].pc = Found(l.op), ![p].dp = l.ip, ![p].ip = 0]
                        /\ valid' = loaded /\ UNCHANGED ref
                   ELSE IF next = 0
                   THEN NotFound(p, Puts(l.ip)) /\ valid' = loaded /\ UNCHANGED ref
                   ELSE /\ ref' = Igets(next)
                        /\ valid' = [loaded EXCEPT ![next] = @ /\ ref[next] > 0]
                        /\ loc' = [loc EXCEPT ![p].ip = next, ![p].path = Tail(@), ![p].put = <<l.ip>>]
     /\ UNCHANGED <<inodes, lock, cwd, fd, calls, panicked>>

-----------------------------------------------------------------------------
(* open, chdir, close *)

\* A locked inode is unlocked and put, or becomes an open file.
Opened(p, i) ==
  \/ /\ fd[p] = 0 /\ fd' = [fd EXCEPT ![p] = i]
     /\ Return(p, <<>>)
  \/ \* filealloc() or fdalloc() fails
     Return(p, <<i>>) /\ UNCHANGED fd

SysOpen(p) ==
  LET i == loc[p].ip IN
  /\ At(p, "open") /\ Ilock(i)
  /\ Opened(p, i)
  /\ UNCHANGED <<inodes, ref, lock, cwd, calls, panicked>>

SysChdir(p) ==
  LET i == loc[p].ip IN
  /\ At(p, "chdir") /\ Ilock(i)
  /\ IF type[i] = "dir" THEN cwd' = [cwd EXCEPT ![p] = i] /\ Return(p, <<cwd[p]>>)
                        ELSE UNCHANGED cwd /\ Return(p, <<i>>)
  /\ UNCHANGED <<inodes, ref, lock, fd, calls, panicked>>

\* sys_close(), and the iput() of fileclose()
SysClose(p) ==
  /\ At(p, "idle") /\ fd[p] # 0
  /\ fd' = [fd EXCEPT ![p] = 0]
  /\ Return(p, <<fd[p]>>)
  /\ UNCHANGED <<inodes, cache, cwd, calls, panicked>>

-----------------------------------------------------------------------------
(* create *)

Kind(op) == CASE op = "mkdir" -> "dir" [] op = "mknod" -> "dev" [] OTHER -> "file"

\* The name exists.
CreateExists(p) ==
  LET dp == loc[p].dp
      i == Dirlookup(dp, Head(loc[p].path))
  IN /\ At(p, "create") /\ lock[dp] = None /\ type[dp] # "free" /\ i # 0
     /\ ref' = Igets(i)
     /\ valid' = [valid EXCEPT ![dp] = TRUE, ![i] = @ /\ ref[i] > 0]
     /\ loc' = [loc EXCEPT ![p].pc = "exists", ![p].ip = i, ![p].dp = 0, ![p].put = <<dp>>]
     /\ UNCHANGED <<inodes, lock, cwd, fd, calls, panicked>>

CreateReturns(p) ==
  LET i == loc[p].ip IN
  /\ At(p, "exists") /\ Ilock(i)
  /\ IF loc[p].op = "creat" /\ type[i] \in {"file", "dev"}
     THEN Opened(p, i) ELSE Return(p, <<i>>) /\ UNCHANGED fd
  /\ UNCHANGED <<inodes, ref, lock, cwd, calls, panicked>>

Free == {i \in Inode : type[i] = "free"}

\* Mutant: a directory that is made does not count as a link to its parent.
LinksToParentNot(k) == 0

\* ".." of a new directory is a link to its parent.
LinksToParent(k) == IF k = "dir" THEN 1 ELSE 0

\* ialloc(), and the entries; the new inode stays locked while the directory is put.
Create(p) ==
  LET dp == loc[p].dp
      name == Head(loc[p].path)
      i == Min(Free)
      k == Kind(loc[p].op)
  IN /\ At(p, "create") /\ lock[dp] = None /\ type[dp] # "free"
     /\ Dirlookup(dp, name) = 0 /\ Free # {}
     /\ lock[i] = None /\ lock' = [lock EXCEPT ![i] = p]
     /\ ref' = Igets(i)
     /\ valid' = [valid EXCEPT ![dp] = TRUE, ![i] = TRUE]
     /\ type' = [type EXCEPT ![i] = k]
     /\ nlink' = [nlink EXCEPT ![i] = 1, ![dp] = @ + LinksToParent(k)]
     /\ entry' = [Dirlink(dp, name, i) EXCEPT
                   ![i] = IF k = "dir" THEN [NoEntries EXCEPT ![DotDot] = dp] ELSE NoEntries]
     /\ loc' = [loc EXCEPT ![p].pc = "created", ![p].ip = i, ![p].dp = 0, ![p].put = <<dp>>]
     /\ UNCHANGED <<cwd, fd, calls, panicked>>

\* ialloc() finds no inode.
CreatePanics(p) ==
  /\ At(p, "create") /\ lock[loc[p].dp] = None /\ type[loc[p].dp] # "free"
  /\ Dirlookup(loc[p].dp, Head(loc[p].path)) = 0 /\ Free = {}
  /\ Panic

Created(p) ==
  LET i == loc[p].ip IN
  /\ At(p, "created")
  /\ lock' = [lock EXCEPT ![i] = None]
  /\ IF loc[p].op = "creat" THEN Opened(p, i) ELSE Return(p, <<i>>) /\ UNCHANGED fd
  /\ UNCHANGED <<inodes, ref, valid, cwd, calls, panicked>>

-----------------------------------------------------------------------------
(* unlink and link *)

\* The parent stays locked while the entry's inode is locked.
SysUnlink(p) ==
  LET dp == loc[p].dp
      name == Head(loc[p].path)
      i == Dirlookup(dp, name)
  IN /\ At(p, "unlink") /\ lock[dp] = None /\ type[dp] # "free"
     /\ IF name = DotDot \/ i = 0
        THEN Return(p, <<dp>>) /\ valid' = [valid EXCEPT ![dp] = TRUE] /\ UNCHANGED <<ref, lock>>
        ELSE /\ ref' = Igets(i)
             /\ valid' = [valid EXCEPT ![dp] = TRUE, ![i] = @ /\ ref[i] > 0]
             /\ lock' = [lock EXCEPT ![dp] = p]
             /\ loc' = [loc EXCEPT ![p].pc = "unlink entry", ![p].ip = i]
     /\ UNCHANGED <<inodes, cwd, fd, calls, panicked>>

IsDirEmpty(i) == \A n \in Name : entry[i][n] = 0

\* The entry is cleared; its inode stays locked while the parent is put.
UnlinkEntry(p) ==
  LET l == loc[p] IN
  /\ At(p, "unlink entry") /\ Ilock(l.ip)
  /\ IF nlink[l.ip] < 1 THEN panicked' = TRUE /\ UNCHANGED <<nlink, entry, lock, loc>>
     ELSE IF type[l.ip] = "dir" /\ ~IsDirEmpty(l.ip)
     THEN /\ lock' = [lock EXCEPT ![l.dp] = None]
          /\ Return(p, <<l.ip, l.dp>>)
          /\ UNCHANGED <<nlink, entry, panicked>>
     ELSE /\ lock' = [lock EXCEPT ![l.dp] = None, ![l.ip] = p]
          /\ entry' = [entry EXCEPT ![l.dp][Head(l.path)] = 0]
          /\ nlink' = [nlink EXCEPT ![l.dp] = @ - IF type[l.ip] = "dir" THEN 1 ELSE 0]
          /\ Goto(p, "unlinked", <<l.dp>>)
          /\ UNCHANGED panicked
  /\ UNCHANGED <<type, ref, cwd, fd, calls>>

Unlinked(p) ==
  LET i == loc[p].ip IN
  /\ At(p, "unlinked")
  /\ nlink' = [nlink EXCEPT ![i] = @ - 1]
  /\ lock' = [lock EXCEPT ![i] = None]
  /\ Return(p, <<i>>)
  /\ UNCHANGED <<type, entry, ref, valid, cwd, fd, calls, panicked>>

\* sys_link() counts the link before the entry is made.
SysLink(p) ==
  LET i == loc[p].ip
      start == StartOf(p, Head(loc[p].new))
  IN /\ At(p, "link") /\ lock[i] = None /\ type[i] # "free"
     /\ IF type[i] = "dir"
        THEN Return(p, <<i>>) /\ valid' = [valid EXCEPT ![i] = TRUE] /\ UNCHANGED <<nlink, ref>>
        ELSE /\ nlink' = [nlink EXCEPT ![i] = @ + 1]
             /\ ref' = Igets(start)
             /\ valid' = [valid EXCEPT ![i] = TRUE, ![start] = @ /\ ref[start] > 0]
             /\ loc' = [loc EXCEPT ![p].pc = "nameiparent", ![p].old = i, ![p].ip = start,
                                   ![p].path = Head(loc[p].new).elems]
     /\ UNCHANGED <<type, entry, lock, cwd, fd, calls, panicked>>

\* dirlink(); if the name exists, the link is taken back.
LinkEntry(p) ==
  LET l == loc[p]
      name == Head(l.path)
  IN /\ At(p, "link entry") /\ Ilock(l.dp)
     /\ IF Dirlookup(l.dp, name) # 0
        THEN Goto(p, "link bad", <<l.dp>>) /\ UNCHANGED entry
        ELSE /\ entry' = Dirlink(l.dp, name, l.old)
             /\ Return(p, <<l.dp, l.old>>)
     /\ UNCHANGED <<type, nlink, ref, lock, cwd, fd, calls, panicked>>

LinkBad(p) ==
  LET i == loc[p].old IN
  /\ At(p, "link bad") /\ Ilock(i)
  /\ nlink' = [nlink EXCEPT ![i] = @ - 1]
  /\ Return(p, <<i>>)
  /\ UNCHANGED <<type, entry, ref, lock, cwd, fd, calls, panicked>>

-----------------------------------------------------------------------------
Step(p) ==
  \/ Iput(p) \/ IputFrees(p) \/ IlockPanics(p) \/ Namex(p)
  \/ SysOpen(p) \/ SysChdir(p)
  \/ CreateExists(p) \/ CreateReturns(p) \/ Create(p) \/ CreatePanics(p) \/ Created(p)
  \/ SysUnlink(p) \/ UnlinkEntry(p) \/ Unlinked(p)
  \/ SysLink(p) \/ LinkEntry(p) \/ LinkBad(p)

\* All calls have been made, or the machine has stopped.
Stopped == /\ panicked \/ (calls = CALLS /\ \A p \in Proc : loc[p] = Idle)
           /\ UNCHANGED vars

Next ==
  \/ \E p \in Proc : \/ Step(p) \/ SysClose(p)
                      \/ \E op \in Ops \ {"link"}, path \in Paths : Call(p, op, path, <<>>)
                      \/ \E from, to \in Paths : "link" \in Ops /\ Call(p, "link", from, <<to>>)
  \/ Stopped

Spec == Init /\ [][Next]_vars

-----------------------------------------------------------------------------
\* The inodes that a process points to.
Pointers(p) == loc[p].put \o <<cwd[p], fd[p], loc[p].ip, loc[p].dp, loc[p].old>>

\* A reference is counted for every pointer to a cached inode, whichever way a
\* call returns (fs.c:244-285 and 334-359; sysfile.c:120-410); so whoever has to
\* free an inode gets its lock at once ("this acquiresleep() won't block (or
\* deadlock)", fs.c:341-342).
RefsCounted ==
  /\ LET pointers == [p \in Proc |-> Pointers(p)]
         places == UNION {{p} \X DOMAIN pointers[p] : p \in Proc}
     IN \A i \in Inode : ref[i] = Cardinality({v \in places : pointers[v[1]][v[2]] = i})
  /\ \A p \in Proc : loc[p].put # <<>> =>
       LET i == Head(loc[p].put)
       IN ref[i] = 1 /\ valid[i] /\ nlink[i] = 0 => lock[i] \in {None, p}

\* A directory's entries are to inodes that exist, and that will not be freed before
\* the entries are gone, also while others create, link and unlink (sysfile.c:120-284).
NoDanglingEntry ==
  LET slots == {i \in Inode : type[i] = "dir"} \X Name
  IN \A i \in Inode :
       LET names == {s \in slots : entry[s[1]][s[2]] = i}
       IN /\ names # {} => type[i] # "free"
          /\ type[i] # "free" => nlink[i] >= Cardinality(names)

\* ilock() finds a type on disk (fs.c:311-312).
HasType == \A p \in Proc : Wants(p) # 0 /\ lock[Wants(p)] = None => type[Wants(p)] # "free"
=============================================================================

-------------------------------- MODULE Pipe --------------------------------
(***************************************************************************)
(* A pipe (kernel/pipe.c) between processes that share its two ends, with  *)
(* sleep(), wakeup() and kill() of kernel/proc.c and the close of the last *)
(* descriptor by fileclose() of kernel/file.c.                             *)
(*                                                                         *)
(* pi->lock is held from acquire() to release() or to sleep(), so a step   *)
(* is such a stretch, except that the step of going to sleep is separate:  *)
(* kill() does not take pi->lock and may come between the test of killed   *)
(* and the sleep.                                                          *)
(***************************************************************************)
EXTENDS Naturals, Sequences, FiniteSets, FiniteSetsExt

CONSTANTS
  Proc,       \* processes
  Ends,       \* the ends each has a descriptor of at the start
  Val, None,  \* bytes; nobody
  PIPESIZE,
  UINT,       \* the numbers of an unsigned int: nread and nwrite wrap
  MAXN,       \* bytes asked for by a call
  Victims     \* processes that may be killed

PipeAssumption ==
  /\ Ends \in [Proc -> SUBSET {"r", "w"}]
  /\ PIPESIZE \in Nat \ {0} /\ UINT \in Nat /\ MAXN \in Nat
  /\ UINT % PIPESIZE = 0 /\ UINT > PIPESIZE
  /\ Victims \subseteq Proc

VARIABLES
  data, nread, nwrite, readopen, writeopen,   \* struct pipe
  lock,       \* who holds pi->lock across two steps
  freed,      \* the pipe's page is back in the allocator
  fd,         \* the ends that a process has a descriptor of
  pc, killed,
  todo,       \* n - i: the bytes a call has still to move
  okay,       \* how many of them are at addresses that copyin or copyout reaches
  got         \* the bytes taken out by the last step

pipe == <<data, nread, nwrite, readopen, writeopen, freed>>
call == <<todo, okay>>
vars == <<pipe, lock, fd, pc, killed, call, got>>

\* pipealloc()
Init ==
  /\ data \in [0..(PIPESIZE - 1) -> {None}]
  /\ nread = 0 /\ nwrite = 0
  /\ readopen = (\E p \in Proc : "r" \in Ends[p])
  /\ writeopen = (\E p \in Proc : "w" \in Ends[p])
  /\ lock = None /\ freed = FALSE
  /\ fd = Ends
  /\ pc = [p \in Proc |-> "run"]
  /\ killed = [p \in Proc |-> FALSE]
  /\ todo = [p \in Proc |-> 0] /\ okay = [p \in Proc |-> 0]
  /\ got = <<>>

Goto(p, l) == pc' = [pc EXCEPT ![p] = l]

Used == (nwrite + UINT - nread) % UINT
Empty == nread = nwrite

Full == nwrite = (nread + PIPESIZE) % UINT

\* The bytes that go in before nwrite is nread + PIPESIZE.
Room == PIPESIZE - Used

\* Mutant: nobody is woken.
WakeReadersNot(f) == f

\* wakeup(&pi->nwrite) and wakeup(&pi->nread)
WakeWriters(f) == [p \in Proc |-> IF f[p] = "write asleep" THEN "write" ELSE f[p]]
WakeReaders(f) == [p \in Proc |-> IF f[p] = "read asleep" THEN "read" ELSE f[p]]

SetCall(p, n, m) == todo' = [todo EXCEPT ![p] = n] /\ okay' = [okay EXCEPT ![p] = m]
Return(p) == SetCall(p, 0, 0) /\ UNCHANGED lock

Call(p, l) ==
  /\ pc[p] = "run" /\ ~killed[p]
  /\ \E n \in 0..MAXN : \E m \in 0..n : SetCall(p, n, m)
  /\ Goto(p, l)
  /\ got' = <<>>
  /\ UNCHANGED <<pipe, lock, fd, killed>>

CallWrite(p) == "w" \in fd[p] /\ Call(p, "write")
CallRead(p) == "r" \in fd[p] /\ Call(p, "read")

-----------------------------------------------------------------------------
(* pipewrite *)

\* Mutant: ++nwrite instead of nwrite++.
SlotAfter(j) == (nwrite + j) % PIPESIZE

Slot(j) == (nwrite + j - 1) % PIPESIZE

\* Bytes that fit and can be copied in go in, one after the other.
CopyIn(s) ==
  LET k == Len(s) IN
  /\ data' = [x \in DOMAIN data |->
                LET js == {j \in 1..k : Slot(j) = x}
                IN IF js = {} THEN data[x] ELSE s[Max(js)]]
  /\ nwrite' = (nwrite + k) % UINT

GivesUp(p) == ~readopen \/ killed[p]

\* The for loop, up to its end or to the test of a full pipe.  At the end, all
\* bytes are in or one cannot be copied in; the readers are woken.  If the pipe
\* is full, the call fails at once or wakes the readers and goes to sleep.
Pipewrite(p) ==
  /\ pc[p] = "write" /\ lock = None
  /\ LET k == Min({okay[p], Room}) IN
     /\ \E s \in [1..k -> Val] : CopyIn(s)
     /\ IF todo[p] = k \/ k < Room
        THEN pc' = WakeReaders([pc EXCEPT ![p] = "run"]) /\ Return(p)
        ELSE IF GivesUp(p)
        THEN Goto(p, "run") /\ Return(p)
        ELSE /\ pc' = WakeReaders([pc EXCEPT ![p] = "write sleep"]) /\ lock' = p
             /\ SetCall(p, todo[p] - k, okay[p] - k)
  /\ got' = <<>>
  /\ UNCHANGED <<nread, readopen, writeopen, freed, fd, killed>>

-----------------------------------------------------------------------------
(* piperead *)

ByteAt(j) == data[(nread + j - 1) % PIPESIZE]

PipereadWaits(p) ==
  /\ pc[p] = "read" /\ lock = None
  /\ Empty /\ writeopen
  /\ IF killed[p] THEN Goto(p, "run") /\ Return(p)
                  ELSE Goto(p, "read sleep") /\ lock' = p /\ UNCHANGED call
  /\ got' = <<>>
  /\ UNCHANGED <<pipe, fd, killed>>

\* A byte that cannot be copied out is taken from the pipe all the same.
Piperead(p) ==
  /\ pc[p] = "read" /\ lock = None
  /\ ~Empty \/ ~writeopen
  /\ LET k == Min({todo[p], okay[p] + 1, Used}) IN
     /\ nread' = (nread + k) % UINT
     /\ got' = [j \in 1..k |-> ByteAt(j)]
  /\ pc' = WakeWriters([pc EXCEPT ![p] = "run"])
  /\ Return(p)
  /\ UNCHANGED <<data, nwrite, readopen, writeopen, freed, fd, killed>>

-----------------------------------------------------------------------------
(* sleep, kill and close *)

\* sleep(&pi->nread, &pi->lock), sleep(&pi->nwrite, &pi->lock)
Sleep(p, from, to) ==
  /\ pc[p] = from
  /\ lock' = None
  /\ Goto(p, to)
  /\ got' = <<>>
  /\ UNCHANGED <<pipe, fd, killed, call>>

WriteSleeps(p) == Sleep(p, "write sleep", "write asleep")
ReadSleeps(p) == Sleep(p, "read sleep", "read asleep")

\* kill() wakes the process if it sleeps.
Kill(p) ==
  /\ p \in Victims /\ ~killed[p] /\ fd[p] # {}
  /\ killed' = [killed EXCEPT ![p] = TRUE]
  /\ pc' = [pc EXCEPT ![p] = CASE @ = "write asleep" -> "write"
                               [] @ = "read asleep" -> "read"
                               [] OTHER -> @]
  /\ got' = <<>>
  /\ UNCHANGED <<pipe, lock, fd, call>>

LastFd(p, e) == \A q \in Proc \ {p} : e \notin fd[q]

\* fileclose(), called by close() and by exit(): the end's file loses a
\* reference, and the process that takes the last one goes on to pipeclose().
Fileclose(p, e) ==
  /\ pc[p] = "run" /\ e \in fd[p]
  /\ fd' = [fd EXCEPT ![p] = @ \ {e}]
  /\ Goto(p, IF LastFd(p, e) THEN "close " \o e ELSE "run")
  /\ got' = <<>>
  /\ UNCHANGED <<pipe, lock, killed, call>>

\* Mutant: the page is freed with its first end.
BothClosedEither(r, w) == ~r \/ ~w

BothClosed(r, w) == ~r /\ ~w

\* pipeclose()
Pipeclose(p) ==
  /\ pc[p] \in {"close r", "close w"} /\ lock = None
  /\ IF pc[p] = "close w"
     THEN /\ writeopen' = FALSE /\ UNCHANGED readopen
          /\ pc' = WakeReaders([pc EXCEPT ![p] = "run"])
     ELSE /\ readopen' = FALSE /\ UNCHANGED writeopen
          /\ pc' = WakeWriters([pc EXCEPT ![p] = "run"])
  /\ freed' = BothClosed(readopen', writeopen')
  /\ got' = <<>>
  /\ UNCHANGED <<data, nread, nwrite, lock, fd, killed, call>>

-----------------------------------------------------------------------------
Step(p) == \/ Pipewrite(p) \/ WriteSleeps(p)
           \/ Piperead(p) \/ PipereadWaits(p) \/ ReadSleeps(p)
           \/ Pipeclose(p)

Next == \E p \in Proc : \/ Step(p) \/ CallWrite(p) \/ CallRead(p) \/ Kill(p)
                        \/ \E e \in {"r", "w"} : Fileclose(p, e)

Spec == Init /\ [][Next]_vars

-----------------------------------------------------------------------------
\* The ring with its wrapping counters is a bounded queue: bytes come out once,
\* in the order in which they went in, to whichever reader, and none is
\* overwritten (pipe.c:94 and 117).
FifoChannel == INSTANCE Fifo WITH
  SIZE <- PIPESIZE,
  chan <- [j \in 1..Used |-> ByteAt(j)],
  open <- (IF readopen THEN {"r"} ELSE {}) \cup (IF writeopen THEN {"w"} ELSE {})
IsFifo == FifoChannel!Spec

\* Nobody is in the pipe, sleeps in it or still has a descriptor of it once its
\* page is freed (pipe.c:69-71).
NoUseAfterFree ==
  freed => \A p \in Proc : pc[p] = "run" /\ fd[p] = {}

\* No wakeup is lost, whoever closes, reads, writes or dies: a writer sleeps only
\* if the pipe is full and somebody may still read (pipe.c:85-91), and, as long
\* as nobody is killed, a reader only if it is empty and somebody may still write
\* (pipe.c:109-115).  A killed writer may leave bytes in the pipe without waking
\* the readers (pipe.c:86-88).
SleepersNotForgotten ==
  lock = None => \A p \in Proc :
    /\ pc[p] = "write asleep" => Full /\ readopen
    /\ (pc[p] = "read asleep" /\ \A q \in Proc : ~killed[q]) => Empty /\ writeopen

\* A killed process does not sleep on (proc.c:622-625).
KilledIsAwake ==
  \A p \in Proc : killed[p] => pc[p] \notin {"write asleep", "read asleep"}
=============================================================================

------------------------------ MODULE MCDevices -----------------------------
(***************************************************************************)
(* The two device drivers, disk and console: a behaviour is one of the one *)
(* or of the other, as part says; the part that does not run stays in an   *)
(* initial state.                                                          *)
(***************************************************************************)
EXTENDS Virtio, TLC

CONSTANTS Reader, Char, INPUT_BUF, UINT, MAXN, Victims

VARIABLES part, cbuf, r, w, e, clock, hand, cpc, killed, todo, okay, some

Cons == INSTANCE Console WITH Proc <- Reader, buf <- cbuf, lock <- clock, pc <- cpc

cons == <<cbuf, r, w, e, clock, hand, cpc, killed, todo, okay, some>>

MCInit == /\ Init /\ Cons!Init
          /\ \/ part = "virtio"
             \/ part = "console" /\ \A p \in Proc : block[p] = CHOOSE v \in Val : TRUE

DiskStep == part = "virtio" /\ Next /\ UNCHANGED <<part, cons>>
ConsoleStep == part = "console" /\ Cons!Next /\ UNCHANGED <<part, vars>>

\* Requests are bounded: the disk comes to rest when all have been carried out.
Rest == /\ part = "virtio" /\ made = REQUESTS /\ \A p \in Proc : pc[p] = "idle"
        /\ UNCHANGED <<part, vars, cons>>

MCNext == DiskStep \/ ConsoleStep \/ Rest

MCSpec == MCInit /\ [][MCNext]_<<part, vars, cons>>

\* The console's ring is a terminal (console.c:152-180).
IsTerminal == Cons!IsTerminal

\* A ^D ends one read, which returns no bytes (console.c:108-115).
EofEndsARead == Cons!EofEndsARead

\* No wakeup is lost: who sleeps for descriptors, for the disk (virtio_disk.c:150,
\* 197 and 254-275) or for a line (console.c:98-104 and 175-179) has a reason to.
SleepersRemembered == NobodyForgotten /\ Cons!ReaderNotForgotten

Sym == Permutations(Proc)
=============================================================================

----------------------------- MODULE AtomicDisk -----------------------------
(***************************************************************************)
(* What log.c promises to the file system: a disk on which a system call   *)
(* is all or nothing.  mem is what system calls read and write, stable is  *)
(* what a reboot finds.  stable is only ever replaced by mem at a moment   *)
(* when no system call is between begin_op() and end_op(), so it never     *)
(* holds a part of a system call ("there is never any reasoning required   *)
(* about whether a commit might write an uncommitted system call's updates *)
(* to disk", log.c).                                                       *)
(***************************************************************************)
CONSTANTS Proc, Block, Val

VARIABLES mem,     \* the contents a system call reads
          stable,  \* the contents a reboot recovers
          active   \* the processes inside a system call

avars == <<mem, stable, active>>

AInit == /\ mem \in [Block -> Val]
         /\ stable = mem
         /\ active = {}

ABegin(p) == /\ p \notin active
             /\ active' = active \cup {p}
             /\ UNCHANGED <<mem, stable>>

AWrite(p, b, v) == /\ p \in active
                   /\ mem' = [mem EXCEPT ![b] = v]
                   /\ UNCHANGED <<stable, active>>

AEnd(p) == /\ p \in active
           /\ active' = active \ {p}
           /\ UNCHANGED <<mem, stable>>

ACommit == /\ active = {}
           /\ stable' = mem
           /\ UNCHANGED <<mem, active>>

ACrash == /\ mem' = stable
          /\ active' = {}
          /\ UNCHANGED stable

ANext == \/ \E p \in Proc : ABegin(p) \/ AEnd(p)
         \/ \E p \in Proc, b \in Block, v \in Val : AWrite(p, b, v)
         \/ ACommit
         \/ ACrash

ASpec == AInit /\ [][ANext]_avars
=============================================================================

------------------------------ MODULE MCWakeups -----------------------------
(***************************************************************************)
(* sleep() and wakeup(), seen from below and from above: the scheduler on  *)
(* two CPUs, with processes that sleep for a tick, and a pipe whose        *)
(* readers and writers sleep for each other.  A behaviour is one of the    *)
(* one or of the other, as part says; the part that does not run stays in  *)
(* an initial state.                                                       *)
(***************************************************************************)
EXTENDS Sched, TLC

CONSTANTS p1, p2, p3, Val, PIPESIZE, PIPEUINT, PIPEMAXN

VARIABLES part, data, nread, nwrite, readopen, writeopen, lock, freed, fd, pc, dead, todo,
          okay, got

\* A writer, a reader, and a process that has both ends, as after fork(), and that may
\* be killed.
Channel == INSTANCE Pipe WITH
  Proc <- {p1, p2, p3}, Ends <- (p1 :> {"w"}) @@ (p2 :> {"r"}) @@ (p3 :> {"r", "w"}),
  UINT <- PIPEUINT, MAXN <- PIPEMAXN, Victims <- {p3}, killed <- dead

channel == <<data, nread, nwrite, readopen, writeopen, lock, freed, fd, pc, dead, todo,
             okay, got>>

ASSUME Channel!PipeAssumption

MCInit == Init /\ Channel!Init /\ part \in {"sched", "pipe"}

SchedStep == part = "sched" /\ Next /\ UNCHANGED <<part, channel>>
PipeStep == part = "pipe" /\ Channel!Next /\ UNCHANGED <<part, vars>>

\* The pipe may come to rest: all have closed it, or a process reads from it and is the
\* only one that could write.
Rest == /\ part = "pipe"
        /\ \A p \in {p1, p2, p3} : \/ fd[p] = {} /\ pc[p] = "run"
                                   \/ pc[p] \in {"read asleep", "write asleep"}
        /\ UNCHANGED <<part, vars, channel>>

MCNext == SchedStep \/ PipeStep \/ Rest

MCSpec == MCInit /\ [][MCNext]_<<part, vars, channel>>

\* A pipe is a bounded queue (pipe.c:76-127), its page is freed when nobody uses it any
\* more (pipe.c:58-74), and nobody sleeps for what has already happened.
IsFifo == Channel!IsFifo
NoUseAfterFree == part = "pipe" => Channel!NoUseAfterFree
SleepersNotForgotten == part = "pipe" => Channel!SleepersNotForgotten

Sym == Permutations(Val)
=============================================================================

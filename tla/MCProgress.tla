----------------------------- MODULE MCProgress -----------------------------
(***************************************************************************)
(* What must come about: system calls get into the log, processes run and  *)
(* wake up, the shell's prompt returns.  A behaviour is one of the log, of *)
(* the scheduler on one CPU or of the shell, as part says; the others stay *)
(* in an initial state.                                                    *)
(***************************************************************************)
EXTENDS Log

CONSTANTS
  Cpu0, SLOTS, UINT, MAXN,
  NPROC, NFILE, NOFILE, PIPESIZE, Programs, Files, LINES

VARIABLES
  part,
  state, chan, killed, owner, cproc, noff, intena, sie, on, stack, idx, mine, ticks,
  ticks0, n, seen,
  proc, ftable, pipe, line, failed, panicked

Sched == INSTANCE Sched WITH Cpu <- {Cpu0}, Timer <- Cpu0, NPROC <- SLOTS

sched == <<state, chan, killed, owner, cproc, noff, intena, sie, on, stack, idx, mine,
           ticks, ticks0, n, seen>>

-----------------------------------------------------------------------------
X(prog) == [type |-> "EXEC", prog |-> prog]
From(cmd, name) == [type |-> "REDIR", cmd |-> cmd, file |-> name, fd |-> 0]
To(cmd, name) == [type |-> "REDIR", cmd |-> cmd, file |-> name, fd |-> 1]
Of(type, left, right) == [type |-> type, left |-> left, right |-> right]
Back(cmd) == [type |-> "BACK", cmd |-> cmd]
Cmds == {
  Of("PIPE", X("echo"), Of("PIPE", X("cat"), X("cat"))),        \* echo | cat | cat
  Of("PIPE", From(X("cat"), "f"), X("nosuch")),                 \* cat < f | nosuch
  Of("LIST", Back(X("echo")), To(From(X("cat"), "g"), "f")),    \* echo & ; cat < g > f
  Of("PIPE", Of("LIST", X("echo"), X("echo")), X("cat"))}       \* (echo ; echo) | cat

Shell == INSTANCE Shell

shell == <<proc, ftable, pipe, line, failed, panicked>>

-----------------------------------------------------------------------------
MCInit == /\ Init /\ Sched!Init /\ Shell!Init
          /\ part \in {"log", "sched", "shell"}

LogStep == part = "log" /\ Next /\ UNCHANGED <<part, sched, shell>>
SchedStep == part = "sched" /\ Sched!Next /\ UNCHANGED <<part, vars, shell>>
ShellStep == part = "shell" /\ Shell!Next /\ UNCHANGED <<part, vars, sched>>

\* Nobody has to type another line.  Whether programs and shell wait for each other
\* is what PromptReturns is about.
Rest == part = "shell" /\ UNCHANGED <<part, vars, sched, shell>>

MCNext == LogStep \/ SchedStep \/ ShellStep \/ Rest

\* The fairness of each part, where it is explained.
MCFairness ==
  /\ WF_vars(part = "log" /\ Recovery)
  /\ SF_vars(part = "log" /\ Leave)
  /\ \A p \in Proc : /\ WF_vars(part = "log" /\ LogWrite(p))
                     /\ WF_vars(part = "log" /\ CommitStep(p))
  /\ WF_sched(part = "sched" /\ Sched!Step(Cpu0))
  /\ SF_sched(part = "sched" /\ Sched!IntrOff(Cpu0))
  /\ SF_sched(part = "sched" /\ Sched!Interrupt(Cpu0))
  /\ WF_shell(part = "shell" /\ Shell!Progress)

MCSpec == MCInit /\ [][MCNext]_<<part, vars, sched, shell>> /\ MCFairness

-----------------------------------------------------------------------------
\* Whoever sleeps for the log is woken (log.c:157-162), and on one CPU a process that
\* is RUNNABLE gets to run and one that sleeps for a tick wakes up (proc.c:460).
SleepersWoken ==
  /\ \A p \in Proc : []<>(part = "log" => pc[p] # "asleep")
  /\ \A p \in 1..SLOTS : /\ []<>(part = "sched" => state[p] # "RUNNABLE")
                         /\ []<>(part = "sched" => state[p] # "SLEEPING")


\* Open files count their descriptors (file.c:47-83), programs start with 0, 1 and 2
\* (sh.c:82-122), and the shell prompts when the line is done (sh.c:92-128).
FilesCounted == part = "shell" => Shell!FilesCounted
ProgramDescriptors == part = "shell" => Shell!ProgramDescriptors
ForegroundDone == part = "shell" => Shell!ForegroundDone
=============================================================================

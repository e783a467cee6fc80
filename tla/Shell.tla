-------------------------------- MODULE Shell -------------------------------
(***************************************************************************)
(* How the shell runs a command (runcmd() and main() of user/sh.c), under  *)
(* init (user/init.c), on the descriptors and open files of the kernel     *)
(* (kernel/file.c and sysfile.c), which fork() and exit() of kernel/proc.c *)
(* copy and close.  The programs it runs are cat and echo.                 *)
(*                                                                         *)
(* A step is a system call.  What a process has still to do is a sequence  *)
(* of calls; runcmd() puts those of a command there.  Pipes carry a number *)
(* of bytes; module Pipe is about what happens inside their calls.         *)
(***************************************************************************)
EXTENDS Naturals, Sequences, FiniteSets, FiniteSetsExt

CONSTANTS
  NPROC,      \* processes; 0 is init
  NFILE, NOFILE, PIPESIZE,
  Programs,   \* what exec() finds
  Files,      \* what open() finds or creates
  Cmds,       \* the command lines that are typed
  LINES       \* how many, in all

VARIABLES
  proc,       \* the processes
  ftable,     \* the open files: [ref, kind]
  pipe,       \* the pipes: whether each end is open, and the bytes in it
  line,       \* command lines so far
  failed,     \* those in which a fork() failed
  panicked

vars == <<proc, ftable, pipe, line, failed, panicked>>

Pid == 0..(NPROC - 1)
Fd == 0..(NOFILE - 1)
File == 1..NFILE
INIT == 0

\* These stand for p[0] and p[1] in the calls of runcmd().
P0 == NOFILE
P1 == NOFILE + 1

NoFile == [ref |-> 0, kind |-> <<"none">>]
NoPipe == [r |-> FALSE, w |-> FALSE, n |-> 0]
Unused == [state |-> "unused", parent |-> INIT, ofile |-> [f \in Fd |-> 0], todo |-> <<>>,
           p |-> <<0, 0>>, bg |-> FALSE, line |-> 0]

\* init has opened the console and duplicated the descriptor twice.
Init ==
  /\ proc = [q \in Pid |-> IF q = INIT
       THEN [Unused EXCEPT !.state = "live", !.todo = <<<<"start">>>>,
                           !.ofile = [f \in Fd |-> IF f < 3 THEN 1 ELSE 0]]
       ELSE Unused]
  /\ ftable = [f \in File |-> IF f = 1 THEN [ref |-> 3, kind |-> <<"console">>] ELSE NoFile]
  /\ pipe = [k \in File |-> NoPipe]
  /\ line = 0 /\ failed = {} /\ panicked = FALSE

\* The call that process q makes next.
Calls(q, op) == /\ ~panicked /\ proc[q].state = "live"
                /\ Head(proc[q].todo)[1] = op
Arg(q) == Head(proc[q].todo)[2]
Rest(q) == Tail(proc[q].todo)

Exits == <<<<"exit">>>>
Goes(q, s) == proc' = [proc EXCEPT ![q].todo = s]

-----------------------------------------------------------------------------
(* The command *)


ParentCloses == <<<<"close", P0>>, <<"close", P1>>>>

\* Mutant: the left command keeps the read end.
LeftEndsKept == <<<<"close", 1>>, <<"dup", P1>>, <<"close", P1>>>>

LeftEnds == <<<<"close", 1>>, <<"dup", P1>>, <<"close", P0>>, <<"close", P1>>>>
RightEnds == <<<<"close", 0>>, <<"dup", P0>>, <<"close", P0>>, <<"close", P1>>>>

\* Mutant: it does not wait for the second command.
WaitsOne == <<<<"wait">>>>

Waits == <<<<"wait">>, <<"wait">>>>

Fork(s) == <<"fork", s, FALSE>>
Run(cmd) == <<"runcmd", cmd>>

Script(cmd) ==
  CASE cmd.type = "EXEC" -> <<<<"exec", cmd.prog>>>> \o Exits
    [] cmd.type = "REDIR" -> <<<<"close", cmd.fd>>, <<"open", cmd.file>>, Run(cmd.cmd)>>
    [] cmd.type = "LIST" -> <<Fork(<<Run(cmd.left)>>), <<"wait">>, Run(cmd.right)>>
    [] cmd.type = "PIPE" -> <<<<"pipe">>, Fork(LeftEnds \o <<Run(cmd.left)>>),
                              Fork(RightEnds \o <<Run(cmd.right)>>)>>
                            \o ParentCloses \o Waits \o Exits
    [] cmd.type = "BACK" -> <<<<"fork", <<Run(cmd.cmd)>>, TRUE>>>> \o Exits

Runcmd(q) ==
  /\ Calls(q, "runcmd")
  /\ Goes(q, Script(Arg(q)))
  /\ UNCHANGED <<ftable, pipe, line, failed, panicked>>

\* main(): a line is read and run, or the input ends.
Prompt(q) ==
  /\ Calls(q, "prompt")
  /\ \/ /\ line < LINES /\ line' = line + 1
        /\ \E cmd \in Cmds :
             proc' = [proc EXCEPT ![q].todo = <<Fork(<<Run(cmd)>>), <<"wait">>, <<"prompt">>>>,
                                  ![q].line = line + 1]
     \/ line = LINES /\ Goes(q, Exits) /\ UNCHANGED line
  /\ UNCHANGED <<ftable, pipe, failed, panicked>>

-----------------------------------------------------------------------------
(* Open files *)

\* fileclose(), n[f] times for each file f: the last one closes the pipe's end.
Fileclose(n) ==
  /\ ftable' = [f \in File |-> IF n[f] = ftable[f].ref THEN NoFile
                               ELSE [ftable[f] EXCEPT !.ref = @ - n[f]]]
  /\ pipe' = [k \in File |->
       LET Closes(end) == \E f \in File : n[f] = ftable[f].ref /\ ftable[f].kind = <<end, k>>
       IN [pipe[k] EXCEPT !.r = @ /\ ~Closes("r"), !.w = @ /\ ~Closes("w")]]

FreeFd(q) == {f \in Fd : proc[q].ofile[f] = 0}
FreeFile == {f \in File : ftable[f].ref = 0}

Resolved(q, fd) == CASE fd = P0 -> proc[q].p[1] [] fd = P1 -> proc[q].p[2] [] OTHER -> fd
FileOf(q) == proc[q].ofile[Resolved(q, Arg(q))]

\* sys_close()
Close(q) ==
  /\ Calls(q, "close")
  /\ IF FileOf(q) = 0 THEN Goes(q, Rest(q)) /\ UNCHANGED <<ftable, pipe>>
     ELSE /\ proc' = [proc EXCEPT ![q].ofile[Resolved(q, Arg(q))] = 0, ![q].todo = Rest(q)]
          /\ Fileclose([f \in File |-> IF f = FileOf(q) THEN 1 ELSE 0])
  /\ UNCHANGED <<line, failed, panicked>>

\* sys_dup(): fdalloc() and filedup()
Dup(q) ==
  /\ Calls(q, "dup")
  /\ IF FileOf(q) = 0 \/ FreeFd(q) = {} THEN Goes(q, Rest(q)) /\ UNCHANGED ftable
     ELSE /\ proc' = [proc EXCEPT ![q].ofile[Min(FreeFd(q))] = FileOf(q), ![q].todo = Rest(q)]
          /\ ftable' = [ftable EXCEPT ![FileOf(q)].ref = @ + 1]
  /\ UNCHANGED <<pipe, line, failed, panicked>>

\* sys_open(), as far as descriptors go: s follows, or e if it fails
Open(q, name, s, e) ==
  IF name \notin Files \/ FreeFile = {} \/ FreeFd(q) = {} THEN Goes(q, e) /\ UNCHANGED ftable
  ELSE /\ ftable' = [ftable EXCEPT ![Min(FreeFile)] = [ref |-> 1, kind |-> <<"inode", 1>>]]
       /\ proc' = [proc EXCEPT ![q].ofile[Min(FreeFd(q))] = Min(FreeFile), ![q].todo = s]

OpenFile(q) ==
  /\ Calls(q, "open")
  /\ Open(q, Arg(q), Rest(q), Exits)
  /\ UNCHANGED <<pipe, line, failed, panicked>>

\* The loop at the start of main(): it opens the console until descriptor 3.
OpenConsole(q) ==
  /\ Calls(q, "console")
  /\ LET fd == Min(FreeFd(q))
     IN Open(q, "console", IF fd >= 3 THEN <<<<"close", fd>>>> \o Rest(q) ELSE proc[q].todo, Rest(q))
  /\ UNCHANGED <<pipe, line, failed, panicked>>

\* sys_pipe(): two files and two descriptors, or none
Pipe(q) ==
  /\ Calls(q, "pipe")
  /\ IF Cardinality(FreeFile) < 2 \/ Cardinality(FreeFd(q)) < 2
     THEN Goes(q, Exits) /\ UNCHANGED <<ftable, pipe>>
     ELSE LET rf == Min(FreeFile)
              wf == Min(FreeFile \ {rf})
              fd0 == Min(FreeFd(q))
              fd1 == Min(FreeFd(q) \ {fd0})
              k == Min({j \in File : ~pipe[j].r /\ ~pipe[j].w})
          IN /\ ftable' = [ftable EXCEPT ![rf] = [ref |-> 1, kind |-> <<"r", k>>],
                                         ![wf] = [ref |-> 1, kind |-> <<"w", k>>]]
             /\ pipe' = [pipe EXCEPT ![k] = [r |-> TRUE, w |-> TRUE, n |-> 0]]
             /\ proc' = [proc EXCEPT ![q].ofile = [@ EXCEPT ![fd0] = rf, ![fd1] = wf],
                                     ![q].p = <<fd0, fd1>>, ![q].todo = Rest(q)]
  /\ UNCHANGED <<line, failed, panicked>>

-----------------------------------------------------------------------------
(* Processes *)

FreeProc == {c \in Pid : proc[c].state = "unused"}
DescriptorsOf(q, f) == Cardinality({fd \in Fd : proc[q].ofile[fd] = f})

\* Mutant: a child's descriptors are not counted.
DupedNot(q, f) == 0

Duped(q, f) == DescriptorsOf(q, f)

\* fork(), of a child c that has s to do; q goes on with t
ForkTo(q, c, s, t, bg) ==
  /\ proc' = [proc EXCEPT ![c] = [proc[q] EXCEPT !.parent = q, !.todo = s, !.bg = @ \/ bg],
                          ![q].todo = t]
  /\ ftable' = [f \in File |-> [ftable[f] EXCEPT !.ref = @ + Duped(q, f)]]

\* fork1(), which panics if fork() fails
Fork1(q) ==
  /\ Calls(q, "fork")
  /\ IF FreeProc = {} THEN Goes(q, Exits) /\ failed' = failed \cup {proc[q].line} /\ UNCHANGED ftable
     ELSE /\ ForkTo(q, Min(FreeProc), Arg(q), Rest(q), Head(proc[q].todo)[3])
          /\ UNCHANGED failed
  /\ UNCHANGED <<pipe, line, panicked>>

\* exit(): the files are closed, and the children given to init.
Exit(q) ==
  /\ Calls(q, "exit")
  /\ Fileclose([f \in File |-> DescriptorsOf(q, f)])
  /\ proc' = [c \in Pid |->
       IF c = q THEN [proc[q] EXCEPT !.state = "zombie", !.todo = <<>>, !.ofile = [f \in Fd |-> 0]]
       ELSE IF proc[c].state # "unused" /\ proc[c].parent = q THEN [proc[c] EXCEPT !.parent = INIT]
       ELSE proc[c]]
  /\ UNCHANGED <<line, failed, panicked>>

Children(q) == {c \in Pid \ {INIT} : proc[c].state # "unused" /\ proc[c].parent = q}
Zombies(q) == {c \in Children(q) : proc[c].state = "zombie"}

\* wait() returns when a child has exited, or if there is none.
Wait(q) ==
  /\ Calls(q, "wait")
  /\ \/ \E c \in Zombies(q) : proc' = [proc EXCEPT ![c] = Unused, ![q].todo = Rest(q)]
     \/ Children(q) = {} /\ Goes(q, Rest(q))
  /\ UNCHANGED <<ftable, pipe, line, failed, panicked>>

\* init starts a shell; exit() of init panics.
InitStarts(q) ==
  /\ Calls(q, "start")
  /\ IF FreeProc = {} THEN panicked' = TRUE /\ UNCHANGED <<proc, ftable>>
     ELSE LET c == Min(FreeProc)
          IN /\ ForkTo(q, c, <<<<"console">>, <<"prompt">>>>, <<<<"reap", c>>>>, FALSE)
             /\ UNCHANGED panicked
  /\ UNCHANGED <<pipe, line, failed>>

\* It waits for that shell, and for what others left.
InitReaps(q) ==
  /\ Calls(q, "reap")
  /\ \E c \in Zombies(q) :
       proc' = [proc EXCEPT ![c] = Unused, ![q].todo = IF c = Arg(q) THEN <<<<"start">>>> ELSE @]
  /\ UNCHANGED <<ftable, pipe, line, failed, panicked>>

-----------------------------------------------------------------------------
(* Programs *)

ProgramOf(name) == IF name = "cat" THEN <<<<"cat">>>> ELSE <<<<"write", FALSE>>>> \o Exits

\* exec(); when it fails, runcmd() goes on
Exec(q) ==
  /\ Calls(q, "exec")
  /\ Goes(q, IF Arg(q) \in Programs THEN ProgramOf(Arg(q)) ELSE Rest(q))
  /\ UNCHANGED <<ftable, pipe, line, failed, panicked>>

KindOf(q, fd) == ftable[proc[q].ofile[fd]].kind

\* cat reads: a byte of a pipe or of a file, or its end
CatReads(q) ==
  /\ Calls(q, "cat")
  /\ LET f == proc[q].ofile[0]
         kind == KindOf(q, 0)
         goes_on == <<<<"write", TRUE>>, <<"cat">>>>
     IN \/ /\ kind[1] = "r" /\ pipe[kind[2]].n > 0
           /\ pipe' = [pipe EXCEPT ![kind[2]].n = @ - 1]
           /\ Goes(q, goes_on) /\ UNCHANGED ftable
        \/ /\ kind = <<"inode", 1>>
           /\ ftable' = [ftable EXCEPT ![f].kind = <<"inode", 0>>]
           /\ Goes(q, goes_on) /\ UNCHANGED pipe
        \/ /\ kind = <<"inode", 0>> \/ (kind[1] = "r" /\ ~pipe[kind[2]].w /\ pipe[kind[2]].n = 0)
           /\ Goes(q, Exits) /\ UNCHANGED <<ftable, pipe>>
  /\ UNCHANGED <<line, failed, panicked>>

\* A byte is written; cat ends if that fails.
Write(q) ==
  /\ Calls(q, "write")
  /\ LET kind == KindOf(q, 1)
     IN \/ /\ kind[1] # "w"
           /\ Goes(q, Rest(q)) /\ UNCHANGED pipe
        \/ /\ kind[1] = "w" /\ pipe[kind[2]].r /\ pipe[kind[2]].n < PIPESIZE
           /\ pipe' = [pipe EXCEPT ![kind[2]].n = @ + 1]
           /\ Goes(q, Rest(q))
        \/ /\ kind[1] = "w" /\ ~pipe[kind[2]].r
           /\ Goes(q, IF Arg(q) THEN Exits ELSE Rest(q)) /\ UNCHANGED pipe
  /\ UNCHANGED <<ftable, line, failed, panicked>>

-----------------------------------------------------------------------------
Step(q) ==
  \/ Runcmd(q) \/ Close(q) \/ Dup(q) \/ OpenFile(q) \/ OpenConsole(q) \/ Pipe(q)
  \/ Fork1(q) \/ Exit(q) \/ Wait(q) \/ InitStarts(q) \/ InitReaps(q)
  \/ Exec(q) \/ CatReads(q) \/ Write(q)

\* init could not start another shell.
Halted == panicked /\ UNCHANGED vars

Next == (\E q \in Pid : Step(q) \/ Prompt(q)) \/ Halted

\* Some process runs as long as one can; nobody has to type.
Progress == \E q \in Pid : Step(q)
Spec == Init /\ [][Next]_vars /\ WF_vars(Progress)

-----------------------------------------------------------------------------
Live == {q \in Pid : proc[q].state = "live"}
AtPrompt(q) == q \in Live /\ Head(proc[q].todo)[1] = "prompt"
RunsProgram(q) == q \in Live /\ Head(proc[q].todo)[1] \in {"cat", "write"}

\* An open file counts the descriptors that refer to it, over fork, dup, close and
\* exit, and an end of a pipe is open as long as some descriptor refers to it
\* (file.c:47-83; proc.c:275-277 and 329-335).
FilesCounted ==
  /\ \A f \in File : ftable[f].ref = MapThenSumSet(LAMBDA q : DescriptorsOf(q, f), Pid)
  /\ \A k \in File : /\ pipe[k].r = (\E f \in File : ftable[f].kind = <<"r", k>>)
                     /\ pipe[k].w = (\E f \in File : ftable[f].kind = <<"w", k>>)

\* A program starts with descriptors 0, 1 and 2 and no others; a pipe is at most its
\* standard input or output (sh.c:82-122).
ProgramDescriptors ==
  \A q \in Live : RunsProgram(q) =>
    /\ {fd \in Fd : proc[q].ofile[fd] # 0} = {0, 1, 2}
    /\ KindOf(q, 0)[1] # "w" /\ KindOf(q, 1)[1] # "r" /\ KindOf(q, 2)[1] = "console"

\* When the shell prompts, what it ran has ended, except for background commands
\* and commands for which a fork() failed (sh.c:92-128 and 167-169).
ForegroundDone ==
  (\E q \in Pid : AtPrompt(q)) =>
    \A q \in Pid : proc[q].line > 0 /\ ~AtPrompt(q) /\ q \in Live =>
      proc[q].bg \/ proc[q].line \in failed

=============================================================================

------------------------------ MODULE Console -------------------------------
(***************************************************************************)
(* Console input: characters come from the UART through uartintr() to the  *)
(* line editing of consoleintr() and, once a line is complete, to the      *)
(* processes in consoleread() (kernel/uart.c, kernel/console.c).           *)
(*                                                                         *)
(* cons.lock is held from acquire() to release() or sleep(), so a step is  *)
(* such a stretch; going to sleep is a step of its own because kill() does *)
(* not take cons.lock.                                                     *)
(***************************************************************************)
EXTENDS Naturals, Sequences, FiniteSets, FiniteSetsExt, SequencesExt

CONSTANTS
  Proc, None,
  Char,        \* characters with no meaning to the console
  INPUT_BUF,
  UINT,        \* the numbers of an unsigned int: r, w and e wrap
  MAXN,        \* bytes asked for by a read
  Victims      \* processes that may be killed

VARIABLES
  buf, r, w, e,   \* cons
  lock,        \* who holds cons.lock across two steps
  hand,        \* the character in uartintr()'s hand
  pc, killed,
  todo,        \* n of consoleread()
  okay,        \* how many more bytes either_copyout() can store
  some         \* n < target: the call has stored bytes

cons == <<buf, r, w, e>>
call == <<todo, okay, some>>
vars == <<cons, lock, hand, pc, killed, call>>

NL == "newline"
EOF == "^D"
Key == Char \cup {NL, "return", EOF, "^U", "^H"}

Plus(a, n) == (a + n) % UINT
Minus(a, b) == (a + UINT - b) % UINT

Init ==
  /\ buf = [i \in 0..(INPUT_BUF - 1) |-> None]
  /\ r = 0 /\ w = 0 /\ e = 0
  /\ lock = None /\ hand = None
  /\ pc = [p \in Proc |-> "run"] /\ killed = [p \in Proc |-> FALSE]
  /\ todo = [p \in Proc |-> 0] /\ okay = [p \in Proc |-> 0]
  /\ some = [p \in Proc |-> FALSE]

-----------------------------------------------------------------------------
(* The UART and its interrupt *)

\* uartgetc(), in the loop of uartintr(): the next key pressed.  The PLIC gives
\* the interrupt to one CPU at a time.
Uartgetc(k) ==
  /\ hand = None
  /\ hand' = k
  /\ UNCHANGED <<cons, lock, pc, killed, call>>

\* wakeup(&cons.r)
WakeReaders(f) == [p \in Proc |-> IF f[p] = "asleep" THEN "read" ELSE f[p]]

Complete(c, e1) == c \in {NL, EOF} \/ e1 = Plus(r, INPUT_BUF)

\* Mutant: editing goes back beyond the line that is complete.
ErasesAny == e # r

Erases == e # w

\* cons.e--, k times; the slots are forgotten.
Erase(k) ==
  /\ e' = Minus(e, k)
  /\ buf' = [x \in DOMAIN buf |-> IF \E i \in 1..k : x = Minus(e, i) % INPUT_BUF THEN None ELSE buf[x]]

\* consoleintr(): ^U, backspace, and any other character
Consoleintr ==
  /\ hand # None /\ lock = None
  /\ hand' = None
  /\ LET c == IF hand = "return" THEN NL ELSE hand
         e1 == Plus(e, 1)
         back == {i \in 0..Minus(e, w) : i = Minus(e, w) \/ buf[Minus(e, i + 1) % INPUT_BUF] = NL}
     IN CASE hand = "^U" -> Erase(Min(back)) /\ UNCHANGED <<w, pc>>
          [] hand = "^H" -> Erase(IF Erases THEN 1 ELSE 0) /\ UNCHANGED <<w, pc>>
          [] hand \notin {"^U", "^H"} /\ Minus(e, r) < INPUT_BUF ->
               /\ buf' = [buf EXCEPT ![e % INPUT_BUF] = c]
               /\ e' = e1
               /\ IF Complete(c, e1) THEN w' = e1 /\ pc' = WakeReaders(pc)
                                     ELSE UNCHANGED <<w, pc>>
          [] OTHER -> UNCHANGED <<buf, e, w, pc>>
  /\ UNCHANGED <<r, lock, killed, call>>

-----------------------------------------------------------------------------
(* consoleread *)

CallRead(p) ==
  /\ pc[p] = "run" /\ ~killed[p]
  /\ \E n \in 0..MAXN : \E m \in 0..n :
       todo' = [todo EXCEPT ![p] = n] /\ okay' = [okay EXCEPT ![p] = m]
  /\ pc' = [pc EXCEPT ![p] = "read"]
  /\ UNCHANGED <<cons, lock, hand, killed, some>>

Used == Minus(w, r)
ByteAt(i) == buf[Plus(r, i - 1) % INPUT_BUF]

\* The first k bytes are taken, and their slots forgotten.
Take(k) ==
  /\ r' = Plus(r, k)
  /\ buf' = [x \in DOMAIN buf |-> IF \E i \in 1..k : x = Plus(r, i - 1) % INPUT_BUF THEN None ELSE buf[x]]

\* The bytes at which the loop ends.
Stops(p) == {i \in 1..Used : ByteAt(i) \in {NL, EOF} \/ i \in {todo[p], okay[p] + 1}}

\* Mutant: ^D is always taken.
SavesEofNot(p, i) == FALSE

\* ^D is left for the next call if this one has bytes to return.
SavesEof(p, i) == ByteAt(i) = EOF /\ (some[p] \/ i > 1)

Return(p) ==
  /\ pc' = [pc EXCEPT ![p] = "run"]
  /\ todo' = [todo EXCEPT ![p] = 0] /\ okay' = [okay EXCEPT ![p] = 0]
  /\ some' = [some EXCEPT ![p] = FALSE]
  /\ UNCHANGED lock

\* The loop ends; a byte that cannot be stored is taken all the same.
Consoleread(p) ==
  /\ pc[p] = "read" /\ lock = None
  /\ todo[p] = 0 \/ Stops(p) # {}
  /\ IF todo[p] = 0 THEN Take(0)
     ELSE LET i == Min(Stops(p)) IN Take(IF SavesEof(p, i) THEN i - 1 ELSE i)
  /\ Return(p)
  /\ UNCHANGED <<w, e, hand, killed>>

\* The loop takes all there is and waits for more, or fails if killed.
ConsolereadWaits(p) ==
  /\ pc[p] = "read" /\ lock = None
  /\ todo[p] > 0 /\ Stops(p) = {}
  /\ Take(Used)
  /\ IF killed[p]
     THEN Return(p)
     ELSE /\ pc' = [pc EXCEPT ![p] = "sleep"] /\ lock' = p
          /\ todo' = [todo EXCEPT ![p] = @ - Used]
          /\ okay' = [okay EXCEPT ![p] = @ - Used]
          /\ some' = [some EXCEPT ![p] = @ \/ Used > 0]
  /\ UNCHANGED <<w, e, hand, killed>>

\* sleep(&cons.r, &cons.lock)
Sleep(p) ==
  /\ pc[p] = "sleep"
  /\ lock' = None
  /\ pc' = [pc EXCEPT ![p] = "asleep"]
  /\ UNCHANGED <<cons, hand, killed, call>>

\* kill()
Kill(p) ==
  /\ p \in Victims /\ ~killed[p]
  /\ killed' = [killed EXCEPT ![p] = TRUE]
  /\ pc' = [pc EXCEPT ![p] = IF @ = "asleep" THEN "read" ELSE @]
  /\ UNCHANGED <<cons, lock, hand, call>>

Next == \/ \E k \in Key : Uartgetc(k)
        \/ Consoleintr
        \/ \E p \in Proc : CallRead(p) \/ Consoleread(p) \/ ConsolereadWaits(p) \/ Sleep(p) \/ Kill(p)

Spec == Init /\ [][Next]_vars

-----------------------------------------------------------------------------
\* The ring with its three wrapping indices is a terminal: no character is lost or
\* read before its line is complete, and complete lines are out of the editor's
\* reach (console.c:152-180).
Ring(a, b) == [i \in 1..Minus(b, a) |-> buf[Plus(a, i - 1) % INPUT_BUF]]
Tty == INSTANCE Terminal WITH Ends <- {NL, EOF}, SIZE <- INPUT_BUF,
                              done <- Ring(r, w), edit <- Ring(w, e)
IsTerminal == Tty!Spec

\* A reader sleeps only if there is nothing to read and room to type: neither a
\* full buffer nor another reader leaves it asleep for good (console.c:98-104,
\* 166 and 175-179).
ReaderNotForgotten ==
  lock = None => \A p \in Proc : pc[p] = "asleep" => r = w /\ Minus(e, r) < INPUT_BUF

\* A ^D is taken only by a read that returns no bytes, also when the bytes before
\* it arrived while the reader slept in between (console.c:108-115).
EofEndsARead ==
  [][\A p \in Proc : pc[p] = "read" /\ pc'[p] = "run"
                    /\ (\E i \in 1..Minus(r', r) : ByteAt(i) = EOF)
       => ~some[p] /\ r' = Plus(r, 1)]_vars
=============================================================================

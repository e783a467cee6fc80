------------------------------- MODULE Parser -------------------------------
(***************************************************************************)
(* The parser of the shell (user/sh.c): the line in buf becomes a tree of  *)
(* commands, whose words are cut out of the line in place.                 *)
(*                                                                         *)
(* A position in the line is an index of buf; es is one past its end,      *)
(* where the line has its NUL.  peek() moves to the next character that is *)
(* no whitespace, which gettoken() does as well.                           *)
(***************************************************************************)
EXTENDS Naturals, Sequences, FiniteSets, FiniteSetsExt, SequencesExt

CONSTANTS
  Char,       \* what is typed
  MAXARGS,
  MAXLINE     \* characters of a line

VARIABLE buf

Whitespace == {" "}
Symbols == {"<", "|", ">", "&", ";", "(", ")"}
Ordinary == Char \ (Whitespace \cup Symbols)
NUL == "NUL"

es == Len(buf) + 1
At(s) == IF s < es THEN buf[s] ELSE NUL

-----------------------------------------------------------------------------
(* Tokens *)

SkipSpace(s) == Min({t \in s..es : At(t) \notin Whitespace})

\* gettoken(): the token, from q to before eq, and where the next one starts
Kind(q) == CASE At(q) = ">" /\ At(q + 1) = ">" -> "+"
             [] At(q) \in Symbols \cup {NUL} -> At(q)
             [] OTHER -> "a"
End(q, tok) == CASE tok = NUL -> q
                 [] tok = "+" -> q + 2
                 [] tok = "a" -> Min({t \in q..es : At(t) \notin Ordinary})
                 [] OTHER -> q + 1
Token(q, tok) == [tok |-> tok, q |-> q, eq |-> End(q, tok), next |-> SkipSpace(End(q, tok))]
Gettoken(s) == Token(SkipSpace(s), Kind(SkipSpace(s)))

Peek(s, toks) == At(SkipSpace(s)) \in toks

After(s) == Gettoken(s).next
Word(t) == [q |-> t.q, eq |-> t.eq]

-----------------------------------------------------------------------------
(* Commands *)

execcmd(argv) == [type |-> "EXEC", argv |-> argv]
redircmd(cmd, r) == [type |-> "REDIR", cmd |-> cmd, file |-> r.file, mode |-> r.mode, fd |-> r.fd]
pipecmd(left, right) == [type |-> "PIPE", left |-> left, right |-> right]
listcmd(left, right) == [type |-> "LIST", left |-> left, right |-> right]
backcmd(cmd) == [type |-> "BACK", cmd |-> cmd]

\* A command within redirections, the first one innermost.
Redirected(cmd, redirs) == FoldLeft(redircmd, cmd, redirs)

\* What a function of the parser returns, with *ps after it; or panic().  What comes
\* after a call comes only if it returns.
Parsed(cmd, s) == [ok |-> TRUE, cmd |-> cmd, s |-> s]
Panic == [ok |-> FALSE, cmd |-> <<>>, s |-> 0]
Then(r, F(_)) == IF r.ok THEN F(r) ELSE Panic

\* The token at s has to be a file name or an argument.
Name(s) == IF Gettoken(s).tok = "a" THEN Parsed(Word(Gettoken(s)), After(s)) ELSE Panic

Redirection(tok, file) ==
  [file |-> file, fd |-> IF tok = "<" THEN 0 ELSE 1,
   mode |-> IF tok = "<" THEN {"O_RDONLY"} ELSE {"O_WRONLY", "O_CREATE"}]

\* The redirections at s.
Parseredirs[s \in 1..(MAXLINE + 1)] ==
  IF Peek(s, {"<", ">"})
  THEN Then(Name(After(s)), LAMBDA file :
         Then(Parseredirs[file.s], LAMBDA rest :
           Parsed(<<Redirection(Gettoken(s).tok, file.cmd)>> \o rest.cmd, rest.s)))
  ELSE Parsed(<<>>, s)

\* Mutant: there is no room for the 0 after the last argument.
TooManyLate(argc) == argc > MAXARGS

TooMany(argc) == argc >= MAXARGS

\* The loop of parseexec(): arguments, of which argc came before s, and redirections.
Arguments[argc \in 0..MAXARGS, s \in 1..(MAXLINE + 1)] ==
  IF Peek(s, {"|", ")", "&", ";", NUL})
  THEN Parsed([argv |-> <<>>, redirs |-> <<>>], SkipSpace(s))
  ELSE IF TooMany(argc + 1) THEN Panic
  ELSE Then(Name(s), LAMBDA word :
         Then(Parseredirs[word.s], LAMBDA rs :
           Then(Arguments[argc + 1, rs.s], LAMBDA rest :
             Parsed([argv |-> <<word.cmd>> \o rest.cmd.argv,
                     redirs |-> rs.cmd \o rest.cmd.redirs], rest.s))))

\* while(peek(ps, es, "&")) of parseline()
RECURSIVE Backs(_)
Backs(r) == IF Peek(r.s, {"&"}) THEN Backs(Parsed(backcmd(r.cmd), After(r.s))) ELSE r

\* parseexec(), parseblock(), parsepipe() and parseline(); parse is what they call:
\* one another
Parseexec(parse, s) ==
  IF Peek(s, {"("}) THEN parse["block", s]
  ELSE Then(Parseredirs[s], LAMBDA r :
         Then(Arguments[0, r.s], LAMBDA args :
           Parsed(Redirected(execcmd(args.cmd.argv), r.cmd \o args.cmd.redirs), args.s)))

Parseblock(parse, s) ==
  Then(parse["line", After(s)], LAMBDA line :
    IF Peek(line.s, {")"})
    THEN Then(Parseredirs[After(line.s)], LAMBDA r : Parsed(Redirected(line.cmd, r.cmd), r.s))
    ELSE Panic)

Parsepipe(parse, s) ==
  Then(parse["exec", s], LAMBDA left :
    IF Peek(left.s, {"|"})
    THEN Then(parse["pipe", After(left.s)], LAMBDA right :
           Parsed(pipecmd(left.cmd, right.cmd), right.s))
    ELSE left)

Parseline(parse, s) ==
  Then(parse["pipe", s], LAMBDA pipe :
    Then(Backs(pipe), LAMBDA left :
      IF Peek(left.s, {";"})
      THEN Then(parse["line", After(left.s)], LAMBDA right :
             Parsed(listcmd(left.cmd, right.cmd), right.s))
      ELSE left))

Parse[f \in {"exec", "block", "pipe", "line"}, s \in 1..(MAXLINE + 1)] ==
  CASE f = "exec" -> Parseexec(Parse, s)
    [] f = "block" -> Parseblock(Parse, s)
    [] f = "pipe" -> Parsepipe(Parse, s)
    [] f = "line" -> Parseline(Parse, s)

\* parsecmd(), up to nulterminate()
Parsecmd ==
  Then(Parse["line", 1], LAMBDA line : IF SkipSpace(line.s) = es THEN line ELSE Panic)

\* The words of a command, in the order in which nulterminate() ends them.
RECURSIVE Words(_)
Words(cmd) ==
  CASE cmd.type = "EXEC" -> cmd.argv
    [] cmd.type = "REDIR" -> Append(Words(cmd.cmd), cmd.file)
    [] cmd.type \in {"PIPE", "LIST"} -> Words(cmd.left) \o Words(cmd.right)
    [] cmd.type = "BACK" -> Words(cmd.cmd)

EndOf(w) == w.eq

\* nulterminate(): the line after it
Nulterminate(cmd) ==
  LET ends == {EndOf(w) : w \in ToSet(Words(cmd))}
  IN [s \in 1..es |-> IF s \in ends THEN NUL ELSE At(s)]

-----------------------------------------------------------------------------
Init == buf = <<>>

\* gets() of getcmd(): one more character
Gets(c) == Len(buf) < MAXLINE /\ buf' = Append(buf, c)

Next == \E c \in Char : Gets(c)

Spec == Init /\ [][Next]_buf

-----------------------------------------------------------------------------
(***************************************************************************)
(* The language that the parser accepts, by its grammar:                   *)
(*   line   ::= pipe "&"* [";" line]                                       *)
(*   pipe   ::= simple ["|" pipe]                                          *)
(*   simple ::= "(" line ")" redir*  |  (word | redir)*                    *)
(***************************************************************************)
Run(i) == CHOOSE k \in 0..i : /\ \A j \in (i - k + 1)..i : At(j) = ">"
                              /\ k = i \/ At(i - k) # ">"

\* A word is as long as it can be; of adjacent signs >, two and two belong together.
Starts == {i \in 1..Len(buf) : \/ At(i) \in Symbols \ {">"}
                               \/ At(i) = ">" /\ Run(i) % 2 = 1
                               \/ At(i) \in Ordinary /\ (i = 1 \/ At(i - 1) \notin Ordinary)}
TokenAt(i) ==
  [tok |-> CASE At(i) \in Ordinary -> "a" [] At(i) = ">" /\ At(i + 1) = ">" -> "+" [] OTHER -> At(i),
   q |-> i, eq |-> Min({j \in (i + 1)..es : At(j) \notin Ordinary})]
InOrder(S) == [n \in 1..Cardinality(S) |-> CHOOSE i \in S : Cardinality({j \in S : j < i}) = n - 1]
Tokens == [n \in 1..Cardinality(Starts) |-> TokenAt(InOrder(Starts)[n])]

RECURSIVE InBack(_, _)
InBack(cmd, n) == IF n = 0 THEN cmd ELSE backcmd(InBack(cmd, n - 1))

IsRedir(t, i) == t[i].tok \in {"<", ">", "+"}
IsFile(t, i) == i > 1 /\ IsRedir(t, i - 1)
Redirs(t) == LET at == InOrder({i \in 1..Len(t) : IsRedir(t, i)})
             IN [n \in 1..Len(at) |-> Redirection(t[at[n]].tok, Word(t[at[n] + 1]))]
ArgsAt(t) == {i \in 1..Len(t) : ~IsRedir(t, i) /\ ~IsFile(t, i)}
Args(t) == LET at == InOrder(ArgsAt(t)) IN [n \in 1..Len(at) |-> Word(t[at[n]])]
WordsAndRedirs(t) ==
  /\ \A i \in 1..Len(t) : IF IsRedir(t, i) THEN ~IsFile(t, i) /\ i < Len(t) ELSE t[i].tok = "a"
  /\ Cardinality(ArgsAt(t)) < MAXARGS
Command(t) == IF WordsAndRedirs(t) THEN {Redirected(execcmd(Args(t)), Redirs(t))} ELSE {}
Within(cmds, t) ==
  IF WordsAndRedirs(t) /\ ArgsAt(t) = {} THEN {Redirected(c, Redirs(t)) : c \in cmds} ELSE {}

\* The trees of the tokens from i to j, by what they are to be; t are all tokens.
SimpleTrees(tree, t, i, j) ==
  Command(SubSeq(t, i, j))
  \cup UNION {Within(tree["line", i + 1, k - 1], SubSeq(t, k + 1, j)) :
                k \in {k \in (i + 1)..j : t[i].tok = "(" /\ t[k].tok = ")"}}

PipeTrees(tree, t, i, j) ==
  tree["simple", i, j]
  \cup UNION {{pipecmd(l, r) : l \in tree["simple", i, k - 1], r \in tree["pipe", k + 1, j]} :
         k \in {k \in i..j : t[k].tok = "|"}}

LineTrees(tree, t, i, j) ==
  LET Left(m) == UNION {{InBack(cmd, m - k) : cmd \in tree["pipe", i, k]} :
                          k \in {k \in (i - 1)..m : \A n \in (k + 1)..m : t[n].tok = "&"}}
  IN Left(j)
     \cup UNION {{listcmd(l, r) : l \in Left(m - 1), r \in tree["line", m + 1, j]} :
            m \in {m \in i..j : t[m].tok = ";"}}

Lines(t) ==
  LET tree[n \in {"simple", "pipe", "line"}, i \in 1..(Len(t) + 1), j \in 0..Len(t)] ==
        CASE n = "simple" -> SimpleTrees(tree, t, i, j)
          [] n = "pipe" -> PipeTrees(tree, t, i, j)
          [] n = "line" -> LineTrees(tree, t, i, j)
  IN tree["line", 1, Len(t)]

\* The parser never backtracks, and yet it finds the one tree that the grammar gives a
\* line, or panics if there is none (sh.c:266-446).
ParsesTheGrammar ==
  \A p \in {Parsecmd} : Lines(Tokens) = IF p.ok THEN {p.cmd} ELSE {}

\* Ending the words in place leaves each of them as it was typed, although the ends
\* overwrite characters of the line (sh.c:449-493).
WordsSurvive ==
  \A p \in {Parsecmd} : p.ok =>
    LET line == Nulterminate(p.cmd)
        end(w) == Min({s \in w.q..es : line[s] = NUL})
    IN \A w \in ToSet(Words(p.cmd)) :
         [s \in w.q..(end(w) - 1) |-> line[s]] = [s \in w.q..(w.eq - 1) |-> buf[s]]
=============================================================================

-------------------------------- MODULE MCDir -------------------------------
EXTENDS Dir, TLC
P(abs, e) == [abs |-> abs, elems |-> e]
\* An empty root, and a root with a directory x that has a file y.
RootOnly == [type |-> [i \in Inode |-> IF i = 1 THEN "dir" ELSE "free"],
             nlink |-> [i \in Inode |-> IF i = 1 THEN 1 ELSE 0],
             entry |-> [i \in Inode |-> IF i = 1 THEN [NoEntries EXCEPT ![DotDot] = 1] ELSE NoEntries]]
WithFile == [type |-> [i \in Inode |-> CASE i \in {1, 2} -> "dir" [] i = 3 -> "file" [] OTHER -> "free"],
             nlink |-> [i \in Inode |-> CASE i = 1 -> 2 [] i \in {2, 3} -> 1 [] OTHER -> 0],
             entry |-> [i \in Inode |-> CASE i = 1 -> [NoEntries EXCEPT ![DotDot] = 1, !["x"] = 2]
                                          [] i = 2 -> [NoEntries EXCEPT ![DotDot] = 1, !["y"] = 3]
                                          [] OTHER -> NoEntries]]
MCTrees == {RootOnly, WithFile}
MCPaths == {P(TRUE, <<"x">>), P(TRUE, <<"x", "y">>), P(FALSE, <<"..">>)}
Sym == Permutations(Proc)
=============================================================================

------------------------------- MODULE MCProc -------------------------------
EXTENDS Proc
\* init, its child 1, a grandchild 2 and a great-grandchild 3.
Chain == [s \in Slot |-> IF s = 0 THEN None ELSE s - 1]
=============================================================================

------------------------------- MODULE MCPipe -------------------------------
EXTENDS Pipe, TLC
CONSTANTS p1, p2, p3
\* A writer, a reader, and a process that has both ends, as after fork().
Shared == (p1 :> {"w"}) @@ (p2 :> {"r"}) @@ (p3 :> {"r", "w"})
=============================================================================

----------------------------- MODULE Allocator ------------------------------
(***************************************************************************)
(* What a memory allocator promises: it hands out ranges of the heap that  *)
(* overlap neither each other nor what is reserved, until they are given   *)
(* back.                                                                   *)
(***************************************************************************)
EXTENDS Naturals

VARIABLES
  heap,   \* addresses that may ever be handed out
  out     \* the ranges handed out: a start and a set of addresses

Init == heap \in SUBSET Nat /\ out = {}

Malloc ==
  \E r \in out' : /\ out' = out \cup {r}
                  /\ r.bytes \subseteq heap
                  /\ \A s \in out : r.start # s.start /\ r.bytes \cap s.bytes = {}

Free == \E r \in out : out' = out \ {r}

Next == (Malloc \/ Free) /\ UNCHANGED heap

Step == [Next]_<<heap, out>>

Spec == Init /\ [][Step]_<<heap, out>>
=============================================================================

------------------------------ MODULE ByteFiles -----------------------------
(***************************************************************************)
(* What inodes promise: files are sequences of bytes.  A write that fails  *)
(* half-way may leave bytes that are seen for a while and then vanish, or  *)
(* become stable with a later write.                                       *)
(***************************************************************************)
EXTENDS Naturals, Sequences, FiniteSets, FiniteSetsExt

CONSTANTS File, Val, MAXWRITE   \* the most bytes of one writei()
VARIABLES contents, stable      \* what is read now, and what is on disk for good

Init == contents \in [File -> Seq(Val)] /\ stable = contents

\* t is s with at most MAXWRITE bytes in a row, from no later than its end on,
\* replaced by one byte.
Written(s, t) ==
  LET changed == {i \in 1..Len(t) : i > Len(s) \/ t[i] # s[i]}
  IN /\ Len(t) >= Len(s)
     /\ changed # {} => /\ Max(changed) - Min(changed) < MAXWRITE
                        /\ \A i \in Min(changed)..Max(changed) : t[i] = t[Min(changed)]

\* Every byte of t is that of s, if s is long enough, or that of r.
Mixes(t, s, r) ==
  /\ Len(t) = Len(r)
  /\ \A i \in 1..Len(t) : t[i] = r[i] \/ (i <= Len(s) /\ t[i] = s[i])

Write == \E f \in File :
           /\ \A g \in File \ {f} : contents'[g] = contents[g] /\ stable'[g] = stable[g]
           /\ Written(contents[f], contents'[f])
           /\ Mixes(stable'[f], stable[f], contents'[f])

Revert == \E f \in File : /\ \A g \in File \ {f} : contents'[g] = contents[g]
                          /\ UNCHANGED stable
                          /\ Mixes(contents'[f], contents[f], stable[f])

Truncate == \E f \in File : /\ contents' = [contents EXCEPT ![f] = <<>>]
                            /\ stable' = [stable EXCEPT ![f] = <<>>]

Next == Write \/ Revert \/ Truncate

Step == [Next]_<<contents, stable>>

Spec == Init /\ [][Step]_<<contents, stable>>
=============================================================================

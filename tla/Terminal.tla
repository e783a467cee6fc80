------------------------------ MODULE Terminal ------------------------------
(***************************************************************************)
(* What the console promises: the line being typed can be edited until it  *)
(* is complete; complete lines are read in order, once.                    *)
(***************************************************************************)
EXTENDS Naturals, Sequences, SequencesExt

CONSTANTS Char, Ends, SIZE   \* characters; those that complete a line; the bound
VARIABLES done, edit         \* complete lines, not yet read; the line being typed

Init == done = <<>> /\ edit = <<>>

Type == /\ Len(done) + Len(edit) < SIZE
        /\ \E c \in Char \cup Ends :
             LET line == Append(edit, c) IN
             IF c \in Ends \/ Len(done) + Len(line) = SIZE
             THEN done' = done \o line /\ edit' = <<>>
             ELSE edit' = line /\ UNCHANGED done

Erase == edit # <<>> /\ edit' = Front(edit) /\ UNCHANGED done

EraseLine == edit' = <<>> /\ UNCHANGED done

Read == \E k \in 0..Len(done) : done' = SubSeq(done, k + 1, Len(done)) /\ UNCHANGED edit

Next == Type \/ Erase \/ EraseLine \/ Read

Spec == Init /\ [][Next]_<<done, edit>>
=============================================================================

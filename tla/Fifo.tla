-------------------------------- MODULE Fifo --------------------------------
(***************************************************************************)
(* What a pipe promises: a bounded first-in first-out queue of bytes with  *)
(* two ends, either of which may be closed, once.                          *)
(***************************************************************************)
EXTENDS Naturals, Sequences, SequencesExt

CONSTANTS Val, SIZE
VARIABLES chan,   \* the bytes written and not yet read
          open,   \* the ends that are open: "r", "w"
          got     \* the bytes taken out by the last step

Init == chan = <<>> /\ open = {"r", "w"} /\ got = <<>>

Send == /\ "w" \in open
        /\ \E s \in SeqOf(Val, SIZE - Len(chan)) : chan' = chan \o s
        /\ got' = <<>> /\ UNCHANGED open

Receive == /\ "r" \in open
           /\ \E k \in 0..Len(chan) : /\ got' = SubSeq(chan, 1, k)
                                      /\ chan' = SubSeq(chan, k + 1, Len(chan))
           /\ UNCHANGED open

Close == /\ \E e \in open : open' = open \ {e}
         /\ got' = <<>> /\ UNCHANGED chan

Next == Send \/ Receive \/ Close

Spec == Init /\ [][Next]_<<chan, open, got>>
=============================================================================

------------------------------ MODULE Channel ------------------------------
(***************************************************************************)
(* What a connection of layer 1 promises in one direction: the blocks that *)
(* are received are the blocks that were sent, whole, once and in order,   *)
(* up to a point: when the connection breaks, the last ones are lost.      *)
(***************************************************************************)
EXTENDS Naturals, Sequences

VARIABLES sent,       \* blocks accepted by the sender
          received,   \* blocks handed over by the receiver
          broken      \* the connection has ended for one of the two

Init == sent = <<>> /\ received = <<>> /\ broken = FALSE

Send ==
    /\ Len(sent') = Len(sent) + 1
    /\ SubSeq(sent', 1, Len(sent)) = sent
    /\ UNCHANGED received
    /\ broken' \in {broken, TRUE}

Receive ==
    /\ Len(received) < Len(sent)
    /\ received' = Append(received, sent[Len(received) + 1])
    /\ UNCHANGED <<sent, broken>>

Break ==
    /\ broken' = TRUE
    /\ UNCHANGED <<sent, received>>

Next == Send \/ Receive \/ Break

Spec == Init /\ [][Next]_<<sent, received, broken>>
=============================================================================

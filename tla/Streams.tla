------------------------------ MODULE Streams ------------------------------
(***************************************************************************)
(* What the receive queue of a CBufNetBase promises to the application:    *)
(* per queue and per producer a numbered stream.  Messages come out in the *)
(* order they went in, none is lost, none comes out twice; the only way to *)
(* skip messages is to discard a queue as a whole, which                   *)
(* CBufClient::disconnect() does ("Disconnects the remote host and empties *)
(* the receive queue", buf_client.h:109).                                  *)
(***************************************************************************)
EXTENDS Naturals

CONSTANTS Bases,       \* the CBufNetBase objects (buffered clients and servers)
          Producers    \* the threads that push into their queues

VARIABLES sent,        \* sent[b][p]: number of messages p has pushed into b
          got          \* got[b][p]: number of p's messages b has handed over

TypeOK ==
    /\ sent \in [Bases -> [Producers -> Nat]]
    /\ got  \in [Bases -> [Producers -> Nat]]

Init ==
    /\ sent = [b \in Bases |-> [p \in Producers |-> 0]]
    /\ got  = [b \in Bases |-> [p \in Producers |-> 0]]

Produce(b, p) ==
    /\ sent' = [sent EXCEPT ![b][p] = @ + 1]
    /\ UNCHANGED got

Consume(b, p) ==
    /\ got[b][p] < sent[b][p]
    /\ got' = [got EXCEPT ![b][p] = @ + 1]
    /\ UNCHANGED sent

Discard(b) ==
    /\ got' = [got EXCEPT ![b] = sent[b]]
    /\ UNCHANGED sent

Next ==
    \E b \in Bases :
        \/ \E p \in Producers : Produce(b, p) \/ Consume(b, p)
        \/ Discard(b)

Spec == Init /\ [][Next]_<<sent, got>>
=============================================================================

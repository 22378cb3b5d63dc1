------------------------------ MODULE Sessions ------------------------------
(***************************************************************************)
(* What CBufServer promises about a TSockId, a pointer to the object of a  *)
(* connection: the connection callback is called once, then the            *)
(* disconnection callback once, and the object is only deleted after the   *)
(* disconnection callback has returned, or by the destructor of the        *)
(* server.                                                                 *)
(***************************************************************************)
CONSTANT Socks

VARIABLES stage,       \* where each connection is in its life
          down         \* the destructor of the server deletes what is left

Stages == {"absent", "pending", "connected", "closed", "freed"}

TypeOK == stage \in [Socks -> Stages] /\ down \in BOOLEAN

Init == stage = [s \in Socks |-> "absent"] /\ down = FALSE

Move(s, from, to) ==
    /\ stage[s] = from
    /\ stage' = [stage EXCEPT ![s] = to]
    /\ UNCHANGED down

Arrive(s)     == ~down /\ Move(s, "absent", "pending")
Connect(s)    == ~down /\ Move(s, "pending", "connected")
Disconnect(s) == ~down /\ Move(s, "connected", "closed")

(* the receive thread deletes the closed connections it finds, in one go *)
Free(S) ==
    /\ S # {}
    /\ \A s \in S : stage[s] = "closed"
    /\ stage' = [s \in Socks |-> IF s \in S THEN "freed" ELSE stage[s]]
    /\ UNCHANGED down

GoDown == ~down /\ down' = TRUE /\ UNCHANGED stage

FreeAtEnd(S) ==
    /\ down
    /\ \A s \in S : stage[s] \notin {"absent", "freed"}
    /\ stage' = [s \in Socks |-> IF s \in S THEN "freed" ELSE stage[s]]
    /\ UNCHANGED down

Next ==
    \/ \E s \in Socks : Arrive(s) \/ Connect(s) \/ Disconnect(s)
    \/ \E S \in SUBSET Socks : Free(S) \/ FreeAtEnd(S)
    \/ GoDown

Spec == Init /\ [][Next]_<<stage, down>>
=============================================================================

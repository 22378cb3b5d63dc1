----------------------------- MODULE Directory -----------------------------
(***************************************************************************)
(* What the naming service promises about the ids it gives.  An id belongs *)
(* to one service from the moment it is granted, and is only released when *)
(* nobody who is informed takes it for that of its old owner.  Services    *)
(* learn of the owner of an id, which is the true one, and forget it only  *)
(* when the owner has left.  It promises nothing once it was in a hurry:   *)
(* after a restart of the naming service, a timeout, an id imposed by a    *)
(* configuration, or an acknowledgement taken for that of another service. *)
(***************************************************************************)
CONSTANTS Services, SIds, NoOne

VARIABLES owner,       \* owner[i]: the service id i belongs to
          left,        \* the ids whose owner has left
          view,        \* view[s][i]: the service s takes for the owner of i
          hurried

vars == <<owner, left, view, hurried>>

Nothing == [i \in SIds |-> NoOne]

Init ==
    /\ owner = Nothing
    /\ left = {}
    /\ view = [s \in Services |-> Nothing]
    /\ hurried = FALSE

Unseen(i) == \A s \in Services : view[s][i] = NoOne

Grant(i, s) ==
    /\ owner[i] = NoOne /\ Unseen(i)
    /\ owner' = [owner EXCEPT ![i] = s]
    /\ UNCHANGED <<left, view, hurried>>

Learn(s, I) ==
    /\ \A i \in I : owner[i] # NoOne /\ view[s][i] = NoOne
    /\ view' = [view EXCEPT ![s] = [i \in SIds |-> IF i \in I THEN owner[i] ELSE @[i]]]
    /\ UNCHANGED <<owner, left, hurried>>

(* an owner leaves, and is not informed any more *)
GoAway(i) ==
    /\ owner[i] # NoOne
    /\ left' = left \cup {i}
    /\ view' = [view EXCEPT ![owner[i]] = Nothing]
    /\ UNCHANGED <<owner, hurried>>

Forget(s, i) ==
    /\ i \in left
    /\ view' = [view EXCEPT ![s][i] = NoOne]
    /\ UNCHANGED <<owner, left, hurried>>

(* a service ends *)
End(s) ==
    /\ view' = [view EXCEPT ![s] = Nothing]
    /\ UNCHANGED <<owner, left, hurried>>

Release(I) ==
    /\ I \subseteq left /\ \A i \in I : Unseen(i)
    /\ owner' = [i \in SIds |-> IF i \in I THEN NoOne ELSE owner[i]]
    /\ left' = left \ I
    /\ UNCHANGED <<view, hurried>>

(* the last informed service leaves: its id is released at once *)
GoAwayAlone(i) ==
    /\ owner[i] # NoOne
    /\ \A s \in Services \ {owner[i]} : view[s][i] = NoOne
    /\ owner' = [owner EXCEPT ![i] = NoOne]
    /\ left' = left \ {i}
    /\ view' = [view EXCEPT ![owner[i]] = Nothing]
    /\ UNCHANGED hurried

Next ==
    \/ \E i \in SIds : GoAway(i) \/ GoAwayAlone(i)
    \/ \E I \in SUBSET SIds : Release(I)
    \/ \E s \in Services :
          \/ End(s)
          \/ \E i \in SIds : Grant(i, s) \/ Forget(s, i)
          \/ \E I \in SUBSET SIds : Learn(s, I)

Spec == Init /\ [][Next \/ hurried']_vars
=============================================================================

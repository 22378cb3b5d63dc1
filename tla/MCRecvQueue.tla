---------------------------- MODULE MCRecvQueue ----------------------------
(***************************************************************************)
(* Instances of RecvQueue for TLC.  Two layouts: one server with its       *)
(* listen thread and one receive thread, on a pipe of its own; a server    *)
(* and a client of CUnifiedNetwork that share a pipe.                      *)
(***************************************************************************)
EXTENDS RecvQueue, TLC

CONSTANTS srv, clt, tlisten, trecv, tclient

(* a server alone *)
ServerBases == {srv}
ServerThreads == {tlisten, trecv}
ServerOwner == [t \in ServerThreads |-> srv]
NoClients == {}

(* a server and a client on one pipe *)
SharedBases == {srv, clt}
ClientBases == {clt}
SharedThreads == {trecv, tclient}
SharedOwner == (trecv :> srv) @@ (tclient :> clt)

ListenThreads == {tlisten}
NoListeners == {}
=============================================================================

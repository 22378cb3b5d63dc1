----------------------------- MODULE MCUnified -----------------------------
(***************************************************************************)
(* Instances of Unified for TLC: three runs of services on one sub net, of *)
(* which two have the same name.                                           *)
(***************************************************************************)
EXTENDS Unified

CONSTANTS a1, a2, b1, NameA, NameB, net

MCName == [s \in Services |-> IF s = b1 THEN NameB ELSE NameA]
MCNet == [s \in Services |-> net]
NoGiven == [s \in Services |-> NoSId]
NoUnique == {}
=============================================================================

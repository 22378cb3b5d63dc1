---------------------------- MODULE MCBufServer ----------------------------
(***************************************************************************)
(* Instances of BufServer for TLC: two connections, which is enough for    *)
(* two receive threads with one socket each or one thread with two.        *)
(***************************************************************************)
EXTENDS BufServer, TLC

CONSTANTS s1, s2

TwoSocks == {s1, s2}
=============================================================================

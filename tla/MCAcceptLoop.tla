----------------------------- MODULE MCAcceptLoop -----------------------------
(***************************************************************************)
(* Instances of AcceptLoop for TLC.                                         *)
(***************************************************************************)
EXTENDS AcceptLoop, TLC

CONSTANTS root, home

Two == {root, home}
=============================================================================

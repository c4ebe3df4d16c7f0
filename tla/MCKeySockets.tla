----------------------------- MODULE MCKeySockets -----------------------------
(***************************************************************************)
(* Instances of KeySockets for TLC.                                         *)
(***************************************************************************)
EXTENDS KeySockets, TLC

CONSTANTS root, home

AllFaults == {"dir", "lstat", "unlink", "bind", "chmod", "listen", "read"}

=============================================================================

------------------------------ MODULE MCCollector ------------------------------
(***************************************************************************)
(* An instance of Collector for TLC: both streams, room for three units of  *)
(* stdout and one of stderr, in pipes that hold three.                     *)
(***************************************************************************)
EXTENDS Collector

Both == {"stdout", "stderr"}
Room == [s \in Both |-> IF s = "stdout" THEN 3 ELSE 1]

=============================================================================

----------------------------- MODULE MCTpmChannel -----------------------------
(***************************************************************************)
(* An instance of TpmChannel for TLC: three registers, two of them selected. *)
(***************************************************************************)
EXTENDS TpmChannel

Registers == {0, 1, 2}
Selected == {0, 2}

=============================================================================

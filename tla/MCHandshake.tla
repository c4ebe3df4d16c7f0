------------------------------ MODULE MCHandshake ------------------------------
(***************************************************************************)
(* An instance of Handshake for TLC: a volume whose name has to be escaped, *)
(* and one that is called what the other's name is escaped to.              *)
(***************************************************************************)
EXTENDS Handshake

Dash == <<"-">>
Escaped == <<"\\", "x", "2", "d">>
Hidden == <<".", "a">>
Names == {Dash, Escaped, Hidden}

\* What systemd-cryptsetup binds for each phase, and names out of shape.
Bound ==
    {BindName(<<"r">>, infix, v) : infix \in Infixes \cup {"cryptsetup-new"}, v \in {Dash, Escaped}}
    \cup {BindName(<<"r">>, "cryptsetup", <<>>), BindName(<<".">>, "cryptsetup", Escaped),
          BindName(<<>>, "cryptsetup", Escaped), <<<<"r">>>>, <<<<"r">>, Escaped>>,
          <<<<"r">>, <<"cryptsetup">>, Escaped, <<"r">>>>,
          <<<<"r">>, <<"cryptsetup">>>>}

=============================================================================

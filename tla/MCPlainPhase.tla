----------------------------- MODULE MCPlainPhase -----------------------------
(***************************************************************************)
(* Instances of PlainPhase for TLC: one volume, or two that share a          *)
(* passphrase and a boot state.                                             *)
(***************************************************************************)
EXTENDS PlainRefinement, TLC

CONSTANTS root, home, p, q, r, pcrA, pcrB

TwoVolumes == {root, home}
OneVolume == {home}
\* p opens both, q only home, r neither: a typo or some other volume's.
ThreeSecrets == {p, q, r}
OpensBoth == (root :> {p}) @@ (home :> {p, q})
OneSecret == {p}
OpensOnly == (root :> {p}) @@ (home :> {p})
OpensHome == home :> {p}
TwoSecrets == {p, r}
OpensShared == (root :> {p}) @@ (home :> {p})

OnePcr == {pcrA}
SharedSelection == (root :> {pcrA}) @@ (home :> {pcrA})
TwoPcrs == {pcrA, pcrB}
HomesSelection == home :> {pcrA, pcrB}

Token(slot, sel, value, plain) ==
    [slot |-> slot, pcrs |-> sel, 
     policy |-> [x \in Pcrs |-> IF x \in sel THEN value ELSE None], plain |-> plain]

\* Sealed to a state that is not the present one, or to the present one.
Stale(v) == Token(0, Selection[v], 1, TRUE)
Good(v) == Token(0, Selection[v], 0, TRUE)

\* Both volumes have gone stale.
BothStale == {[v \in Volumes |-> {Stale(v)}]}

NoTokens == {[v \in Volumes |-> {}]}

\* Anything the preflight has to tell apart.
ManyHeaders ==
    {[v \in Volumes |-> h] :
        h \in {{}, {Stale(home)}, {Good(home)},
               {Token(0, Selection[home], 1, FALSE)},
               {Token(0, {pcrA}, 1, TRUE)},
               {Stale(home), Token(1, Selection[home], 1, TRUE)},
               {Good(home), Token(1, Selection[home], 1, TRUE)}}}

\* The unit has no credential; it may have one, right for home only.
NoCredential == {{}}
HomesCredential == {{}, {q}}

NoBlanks == {}
Blanks == {Blank}

=============================================================================

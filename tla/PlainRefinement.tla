---------------------------- MODULE PlainRefinement ----------------------------
(***************************************************************************)
(* PlainPhase implements KeyAgent: what outlives a step of the daemon, and  *)
(* what a human is told or has said, changes as KeyAgent allows and not     *)
(* otherwise, however the daemon's steps, signals and kills interleave.     *)
(***************************************************************************)
EXTENDS PlainPhase

\* The boot states there are within the bound on extending PCRs.
BootStates == [Pcrs -> 0..MaxExtends \cup {None}]

\* Consent is given, and the job begins, when the daemon leaves Decide or the
\* prompt with a yes; it ends when it comes to reply.
Jobs ==
    IF pc \in {"commit", "enrolling"}
    THEN {[vol |-> vol, old |-> plan.slot, new |-> {}]}
    ELSE IF pc \in {"wiping", "verifying", "unsealing"}
         THEN {[vol |-> vol, old |-> plan.slot, new |-> fresh]}
         ELSE {}

Agent == INSTANCE KeyAgent WITH
            Headers <- InitialHeaders, States <- BootStates,
            said <- answers, jobs <- Jobs

\* The daemon's plain phase keeps every promise of KeyAgent: in one step of a
\* human's consent the header is repairable and no refusal stands, although the
\* code looks at the header, at the decisions and at the answer at different
\* times with children running and signals arriving in between.
IsKeyAgent == Agent!Spec

=============================================================================

-------------------------------- MODULE Repair --------------------------------
(***************************************************************************)
(* What happens between having a passphrase and returning it: preflight,    *)
(* consent, systemd-cryptenroll and the check of what it wrote              *)
(* (main::maybe_reenroll and main::verify, with preflight, drift, consent,  *)
(* enroll and token).                                                       *)
(*                                                                          *)
(* A policy digest is abstracted to what it commits to: which PCRs, and the *)
(* value of each.  A PCR is a counter, since it can only be                 *)
(* extended.  The bank is part of the selection, and `plain' stands for     *)
(* neither a PIN nor anything advanced.                                     *)
(***************************************************************************)
EXTENDS Acquire

CONSTANTS
    Pcrs,           \* PCR indices
    Selection,      \* Selection[v]: the PCRs the config binds v to
    MaxToken,       \* LUKS2 token slots are 0..MaxToken (31 in LUKS2)
    BlankDigests,   \* {Blank} if the TPM may answer with a digest of no bytes
    FlagsHonoured   \* does systemd-cryptenroll do as its command line says

Slots == 0..MaxToken
Policies == [Pcrs -> Nat \cup {None}]   \* None: not part of the selection
Blank == [p \in Pcrs |-> None]

Tokens == [slot : Slots, pcrs : SUBSET Pcrs, policy : Policies, plain : BOOLEAN]

ASSUME RepairAssumption ==
    /\ Selection \in [Volumes -> (SUBSET Pcrs) \ {{}}]
    /\ MaxToken \in Nat
    /\ BlankDigests \subseteq {Blank}
    /\ FlagsHonoured \in BOOLEAN

VARIABLES
    header,     \* header[v]: the systemd-tpm2 tokens of v's LUKS2 header
    pcr,        \* the PCR values right now
    plan,       \* preflight::Plan: the token to replace, and the state digest
    fresh,      \* the slots a running systemd-cryptenroll has added
    declines,   \* consent::Decisions
    accepts,
    answer,     \* history: what the human said in this handling
    answers,    \* history: every <<state, answer>> given to this daemon
    report      \* history: what the last handling logged about its enrollment

decisionVars == <<declines, accepts, answers>>
repairVars == <<header, pcr, plan, fresh, declines, accepts, answer, answers, report>>

RepairPoints ==
    {"acquired", "preflight", "decide", "consenting", "commit", "enrolling",
     "wiping", "verifying", "unsealing", "replying"}

NoPlan == [slot |-> 0, state |-> Blank]

\* The digest a PolicyPCR over a selection, or over v's, has at this moment.
PolicyOver(sel) == [p \in Pcrs |-> IF p \in sel THEN pcr[p] ELSE None]
Policy(v) == PolicyOver(Selection[v])

-----------------------------------------------------------------------------
\* Mutant: a PIN or an advanced policy is not noticed.
WantedSelection(v, t) == t.pcrs = Selection[v]

\* preflight::token_refusal and same_selection: a plain literal-PCR policy
\* over exactly the selection the config names.
Wanted(v, t) == t.plain /\ t.pcrs = Selection[v]

\* Mutant: the number of tokens is not looked at.
RepairableAmongMany(v) == {t \in header[v] : Wanted(v, t)}

\* The one token there is to repair: --wipe-slot=tpm2 removes every one, so a
\* header with two is left alone, and so is a header with none.
Repairable(v) == {t \in header[v] : header[v] = {t} /\ Wanted(v, t)}

\* drift::check, for the policies it is asked about.
Drifted(t, state) == state # t.policy

\* main::maybe_reenroll's first lines: a stop, or no TPM, skips the repair.
BeginRepair ==
    /\ pc = "acquired"
    /\ \/ ~stop /\ pc' = "preflight"
       \/ pc' = "replying"
    /\ UNCHANGED <<vol, stop, attempt, untried, candidate, cache, keyring,
                   credential, typed, late>>
    /\ UNCHANGED repairVars

\* preflight::check.  Any failure to read the tokens or the TPM, a lockout, a
\* host-wide signed policy and a policy that still matches leave the header.
Preflight ==
    /\ pc = "preflight"
    /\ RunChild
    /\ \/ \E t \in Repairable(vol), state \in {Policy(vol)} \cup BlankDigests :
             /\ Drifted(t, state)
             /\ plan' = [slot |-> t.slot, state |-> state]
             /\ pc' = "decide"
       \/ pc' = "replying" /\ UNCHANGED plan
    /\ UNCHANGED <<vol, stop, attempt, untried, candidate, cache, keyring,
                   credential, typed>>
    /\ UNCHANGED <<header, pcr, fresh, decisionVars, answer, report>>

-----------------------------------------------------------------------------
\* Mutant: the emptiness test has lost its negation.
RefusedInverted(state) == state = Blank /\ state \in declines

\* consent::Decisions, as maybe_reenroll reads it.
Refused(state) == state # Blank /\ state \in declines

\* Mutant: an always for one boot state is taken for all of them.
AcceptedForAny(state) == accepts # {}

Accepted(state) == state \in accepts

\* A refusal for this boot state stands; an "always" for it needs no question;
\* a stop makes the question pointless; otherwise the human is asked.
Decide ==
    /\ pc = "decide"
    /\ \/ Refused(plan.state) /\ pc' = "replying"
       \/ ~Refused(plan.state) /\ Accepted(plan.state) /\ pc' = "commit"
       \/ ~Refused(plan.state) /\ ~Accepted(plan.state)
             /\ pc' = IF stop THEN "replying" ELSE "consenting"
    /\ UNCHANGED <<vol, stop, attempt, untried, candidate, cache, keyring,
                   credential, typed, late>>
    /\ UNCHANGED repairVars

\* Mutant: a plain yes is remembered as though it were an always.
RecordYesAsAlways(a, state) ==
    /\ declines' = IF a = "No" /\ state # Blank THEN declines \cup {state}
                   ELSE declines
    /\ accepts' = IF a # "No" THEN accepts \cup {state} ELSE accepts

\* What each answer leaves in consent::Decisions.
Record(a, state) ==
    /\ declines' = IF a = "No" /\ state # Blank THEN declines \cup {state}
                   ELSE declines
    /\ accepts' = IF a = "Always" THEN accepts \cup {state} ELSE accepts

\* consent::ask returns.  A timeout, a failure and anything unrecognised are
\* a no, so the prompt's own failures are covered by that answer.
Consent ==
    /\ pc = "consenting"
    /\ RunChild
    /\ \E a \in {"No", "Yes", "Always"} :
          /\ answer' = a
          /\ answers' = answers \cup {<<plan.state, a>>}
          /\ Record(a, plan.state)
          /\ pc' = IF a = "No" THEN "replying" ELSE "commit"
    /\ UNCHANGED <<vol, stop, attempt, untried, candidate, cache, keyring,
                   credential, typed>>
    /\ UNCHANGED <<header, pcr, plan, fresh, report>>

\* Mutant: the last look is left out.
BlindCommitPoint == "enrolling"

\* The last look at the stop flag before systemd-cryptenroll has the header.
CommitPoint == IF stop THEN "replying" ELSE "enrolling"

Commit ==
    /\ pc = "commit"
    /\ pc' = CommitPoint
    /\ UNCHANGED <<vol, stop, attempt, untried, candidate, cache, keyring,
                   credential, typed, late>>
    /\ UNCHANGED repairVars

-----------------------------------------------------------------------------
\* systemd-cryptenroll, as enroll::run relies on it: a new token, sealed to the
\* PCRs of that moment, is added first, and every other TPM2 token is wiped after
\* it.  One that ignores its command line may seal to other PCRs, want a PIN, add
\* more than one slot, and wipe less or nothing; never what it has just added.
Requested(v) == [slots : {{s} : s \in Slots}, pcrs : {Selection[v]}, plain : {TRUE}]
Unrequested ==
    [slots : (SUBSET Slots) \ {{}}, pcrs : SUBSET Pcrs, plain : BOOLEAN]
Enrollments(v) == IF FlagsHonoured THEN Requested(v) ELSE Unrequested

\* The tokens an enrollment writes.
Written(e) ==
    {[slot |-> s, pcrs |-> e.pcrs, policy |-> PolicyOver(e.pcrs), plain |-> e.plain] :
        s \in e.slots}

AddSlot ==
    /\ pc = "enrolling"
    /\ \E e \in Enrollments(vol) :
          /\ \A u \in header[vol] : u.slot \notin e.slots
          /\ fresh' = e.slots
          /\ header' = [header EXCEPT ![vol] = @ \cup Written(e)]
    /\ pc' = "wiping"
    /\ UNCHANGED <<vol, stop, attempt, untried, candidate, cache, keyring,
                   credential, typed, late>>
    /\ UNCHANGED <<pcr, plan, decisionVars, answer, report>>

Wiped(v) == {t \in header[v] : t.slot \in fresh}

\* What --wipe-slot=tpm2 may have left of v's header.
Leavings(v) ==
    IF FlagsHonoured THEN {Wiped(v)} ELSE {h \in SUBSET header[v] : Wiped(v) \subseteq h}

WipeSlots ==
    /\ pc = "wiping"
    /\ RunChild
    /\ \E h \in Leavings(vol) : header' = [header EXCEPT ![vol] = h]
    /\ pc' = "verifying"
    /\ UNCHANGED <<vol, stop, attempt, untried, candidate, cache, keyring,
                   credential, typed>>
    /\ UNCHANGED <<pcr, plan, fresh, decisionVars, answer, report>>

\* It fails, runs into ENROLL_TIMEOUT or is killed: before the slot is added,
\* before the old one is wiped, or with all of it done.
EnrollFails ==
    /\ pc \in {"enrolling", "wiping"}
    /\ RunChild
    /\ \/ UNCHANGED header
       \/ /\ pc = "wiping"
          /\ \E h \in Leavings(vol) : header' = [header EXCEPT ![vol] = h]
    /\ report' = "failed"
    /\ pc' = "replying"
    /\ UNCHANGED <<vol, stop, attempt, untried, candidate, cache, keyring,
                   credential, typed>>
    /\ UNCHANGED <<pcr, plan, fresh, decisionVars, answer>>

\* Mutant: the first unfamiliar token is taken for the new one.
FirstNewTokens(v) == {t \in header[v] : t.slot # plan.slot}

\* enroll::find_new_token: the one token that is not the old one.
NewTokens(v) ==
    {t \in header[v] :
        /\ t.slot # plan.slot
        /\ \A u \in header[v] : u.slot # plan.slot => u = t}

\* Read the header again, identify the new token and see that it is what was
\* asked for.
ReadBack ==
    /\ pc = "verifying"
    /\ RunChild
    /\ \/ /\ \E t \in NewTokens(vol) : Wanted(vol, t)
          /\ pc' = "unsealing"
          /\ UNCHANGED report
       \/ pc' = "replying" /\ report' = "failed"
    /\ UNCHANGED <<vol, stop, attempt, untried, candidate, cache, keyring,
                   credential, typed>>
    /\ UNCHANGED <<header, pcr, plan, fresh, decisionVars, answer>>

\* Unseal it, or failing that compare its policy with the PCRs of now: either
\* succeeds only on the state the new token was sealed to.
Unseal ==
    /\ pc = "unsealing"
    /\ RunChild
    /\ \/ /\ \E t \in NewTokens(vol) : ~Drifted(t, Policy(vol))
          /\ report' = "verified"
       \/ report' = "failed"
    /\ pc' = "replying"
    /\ UNCHANGED <<vol, stop, attempt, untried, candidate, cache, keyring,
                   credential, typed>>
    /\ UNCHANGED <<header, pcr, plan, fresh, decisionVars, answer>>

RepairStep ==
    \/ BeginRepair \/ Preflight \/ Decide \/ Consent \/ Commit
    \/ AddSlot \/ WipeSlots \/ EnrollFails \/ ReadBack \/ Unseal

-----------------------------------------------------------------------------
RepairTypeOK ==
    /\ header \in [Volumes -> SUBSET Tokens]
    /\ pcr \in [Pcrs -> Nat]
    /\ plan \in [slot : Slots, state : Policies]
    /\ fresh \subseteq Slots
    /\ declines \subseteq Policies
    /\ accepts \subseteq Policies
    /\ answer \in {"none", "No", "Yes", "Always"}
    /\ answers \subseteq Policies \X {"No", "Yes", "Always"}
    /\ report \in {"none", "failed", "verified"}

Enrolling == pc \in {"enrolling", "wiping"}

\* systemd-cryptenroll only ever has the header for a boot state a human agreed
\* to: with a yes in this very handling, or an earlier "always" for the same
\* state, given to this daemon and not to one that ran before it.
EnrollmentConsented ==
    Enrolling => answer \in {"Yes", "Always"} \/ <<plan.state, "Always">> \in answers

\* A refusal stands for every volume in the same boot state, whatever was
\* answered for other states or for this one earlier on.
RefusalStands ==
    Enrolling /\ plan.state # Blank => <<plan.state, "No">> \notin answers

\* What a stop can still cost: however late in a handling SIGTERM arrives, at
\* most three more children run (the enrollment, reading it back, unsealing).
StopIsPrompt == late <= 3

\* "re-enrolled and verified" is logged only of a token this enrollment has
\* written, plain and bound to the configured PCRs, in a header that carries no
\* other but, at most, the one it was to replace; whatever systemd-cryptenroll
\* wrote and wiped.  That the one it was to replace is gone, as main.rs:769 has
\* it, is not what the code sees to: find_new_token looks past it.
VerifiedIsSound ==
    pc = "replying" /\ report = "verified" =>
        \E t \in header[vol] :
            /\ t.slot \in fresh
            /\ t.slot # plan.slot
            /\ t.plain
            /\ t.pcrs = Selection[vol]
            /\ \A u \in header[vol] : u = t \/ u.slot = plan.slot

\* No step of anyone, a crash or a kill included, takes a volume's last TPM2
\* token away, and the only token that is ever taken away is a plain one over
\* the configured PCRs whose policy the preflight saw violated.
BindingsSurvive ==
    [][\A v \in Volumes :
          /\ header[v] # {} => header'[v] # {}
          /\ \A t \in header[v] \ header'[v] :
                /\ v = vol
                /\ t.plain
                /\ t.pcrs = Selection[v]
                /\ t.policy # plan.state]_header

\* preflight.rs:184 and main.rs:17: what is measured when the daemon is
\* consulted is what the new policy is sealed against.
SealedAsConsented ==
    [][\A v \in Volumes : \A t \in header'[v] \ header[v] :
          t.policy = plan.state]_header

=============================================================================

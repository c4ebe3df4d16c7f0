------------------------------- MODULE Acquire -------------------------------
(***************************************************************************)
(* How the plain phase of tpm2-autoenrolld comes by a passphrase that opens *)
(* the volume: main::acquire, with askpw, luks and the passphrase cache.    *)
(*                                                                          *)
(* The daemon handles one connection at a time, so it is one process with a *)
(* program counter.  A label such as "testing" is a point where a child     *)
(* process runs and a signal can arrive; the step that leaves it collects   *)
(* the child's result.  Secrets are abstract values, and the candidates one *)
(* prompt returned are a set tried in any order.                            *)
(***************************************************************************)
EXTENDS Naturals, FiniteSets

CONSTANTS
    Volumes,        \* the volumes the daemon holds a listening socket for
    Secrets,        \* every passphrase anybody could offer
    Opens,          \* Opens[v]: the passphrases in v's LUKS2 key slots
    None,           \* no volume, no secret
    Tries,          \* prompts before the volume is handed back (3 in the code)
    MaxCandidates   \* passphrases tried from one prompt (4 in the code)

ASSUME AcquireAssumption ==
    /\ Opens \in [Volumes -> SUBSET Secrets]
    /\ None \notin Volumes \cup Secrets
    /\ Tries \in Nat \ {0}
    /\ MaxCandidates \in Nat \ {0}
    /\ IsFiniteSet(Secrets)

VARIABLES
    pc,         \* where the daemon is; "idle" and "stopped" are outside a handling
    vol,        \* the volume whose connection is being handled
    stop,       \* main::TERMINATE
    attempt,    \* 0 while the cache is tried, then the number of the prompt
    untried,    \* candidates at hand and not yet tested
    candidate,  \* the passphrase under test, then the one to reply with
    cache,      \* cache::Cache
    keyring,    \* the kernel's "cryptsetup" keyring, shared with systemd
    credential, \* what the unit's cryptsetup.passphrase credential holds
    typed,      \* history: passphrases typed for this connection, up to Tries
    late        \* history: children that ran, even in part, after the stop

acquireVars == <<pc, vol, stop, attempt, untried, candidate, cache, keyring,
                 credential, typed, late>>

AcquirePoints == {"acquire", "prompting", "testing"}

(***************************************************************************)
(* child::run with its deadline: whatever runs ends, and what the caller    *)
(* sees is a result or an error.  A SIGTERM goes to the children as well,   *)
(* and is one way for them to fail.                                         *)
(***************************************************************************)
RunChild == late' = IF stop THEN late + 1 ELSE late

\* Dropping the connection with nothing written: the zero-byte decline.
Decline ==
    /\ pc' = "idle"
    /\ vol' = None
    /\ candidate' = None
    /\ attempt' = 0
    /\ untried' = {}
    /\ typed' = 0

-----------------------------------------------------------------------------
\* Mutant: an exit code that is not 2 is taken for success.
LenientVerdicts(v, s) == {"Unusable", "Correct", "Wrong"}

\* luks::test_passphrase.  The exit code separates a wrong passphrase from
\* every other failure; only the former may be answered by asking again.
Verdicts(v, s) == {"Unusable", IF s \in Opens[v] THEN "Correct" ELSE "Wrong"}

\* Mutant: --accept-cached is passed on every attempt.
AlwaysAcceptsCached(n) == n >= 1

\* Attempt::First takes what the keyring holds and asks nobody; a retry must
\* reach the human, since the keyring's answer is what was just rejected.
AcceptsCached(n) == n = 1

\* The first MaxCandidates of the passphrases of S, in an order the daemon does
\* not know.
FirstOf(S) ==
    {C \in SUBSET S :
        Cardinality(C) = IF Cardinality(S) < MaxCandidates THEN Cardinality(S)
                         ELSE MaxCandidates}

\* What one prompt that succeeds can return, and who it came from.  The unit's
\* credential, named on every attempt, answers before the keyring is looked at
\* and before anybody is asked; then the keyring, where it is accepted; and
\* only then the line somebody types.
Offers(n) ==
    IF credential # {}
    THEN [from : {"credential"}, secrets : FirstOf(credential)]
    ELSE IF AcceptsCached(n) /\ keyring # {}
         THEN [from : {"keyring"}, secrets : FirstOf(keyring)]
         ELSE [from : {"human"}, secrets : {{s} : s \in Secrets}]

\* Only a validated secret is remembered; a repeat is not stored twice.
Remember(s) == cache' = cache \cup {s}

\* Mutant: the first miss in the cache ends the walk through it.
FirstMissEnough == untried = {} \/ attempt = 0

\* All candidates at hand have been tested.
NoneLeft == untried = {}

\* Mutant: the range is taken to include its end.
OneAttemptMore == attempt <= Tries

\* for attempt in 0..TRIES.
AttemptsLeft == attempt < Tries

\* Mutant: a retry is not counted.
UncountedAttempt == attempt' = IF attempt = 0 THEN 1 ELSE attempt

NextAttempt == attempt' = attempt + 1

-----------------------------------------------------------------------------
\* One round of either candidate loop: the stop flag first, then a KDF pass.
TakeCandidate ==
    /\ pc = "acquire"
    /\ ~stop
    /\ \E s \in untried :
          /\ candidate' = s
          /\ untried' = untried \ {s}
    /\ pc' = "testing"
    /\ UNCHANGED <<vol, stop, attempt, cache, keyring, credential, typed, late>>

\* The next of the Tries prompts, once no candidate is left.
NextPrompt ==
    /\ pc = "acquire"
    /\ ~stop
    /\ NoneLeft
    /\ AttemptsLeft
    /\ NextAttempt
    /\ pc' = "prompting"
    /\ UNCHANGED <<vol, stop, untried, candidate, cache, keyring, credential,
                   typed, late>>

\* A stop, or the last attempt gone: systemd-cryptsetup asks for itself.
GiveUp ==
    /\ pc = "acquire"
    /\ stop \/ (NoneLeft /\ ~AttemptsLeft)
    /\ Decline
    /\ UNCHANGED <<stop, cache, keyring, credential, late>>

\* systemd-ask-password returns.  --keyname= leaves what was typed in the
\* keyring; a timeout, a failure and an empty answer all decline.
Ask ==
    /\ pc = "prompting"
    /\ RunChild
    /\ UNCHANGED <<stop, cache, credential>>
    /\ \/ \E offer \in Offers(attempt) :
             /\ untried' = offer.secrets
             /\ pc' = "acquire"
             /\ IF offer.from = "human"
                THEN /\ keyring' = keyring \cup offer.secrets
                     /\ typed' = IF typed < Tries THEN typed + 1 ELSE typed
                ELSE UNCHANGED <<keyring, typed>>
             /\ UNCHANGED <<vol, attempt, candidate>>
       \/ /\ Decline
          /\ UNCHANGED keyring

\* The verdict on the candidate.  A prompted one that opens the volume is
\* cached for the volumes still to come.
Test ==
    /\ pc = "testing"
    /\ RunChild
    /\ UNCHANGED <<stop, keyring, credential>>
    /\ \/ /\ "Correct" \in Verdicts(vol, candidate)
          /\ pc' = "acquired"
          /\ IF attempt = 0 THEN UNCHANGED cache ELSE Remember(candidate)
          /\ UNCHANGED <<vol, attempt, untried, candidate, typed>>
       \/ /\ "Wrong" \in Verdicts(vol, candidate)
          /\ pc' = "acquire"
          /\ candidate' = None
          /\ UNCHANGED <<vol, attempt, untried, cache, typed>>
       \/ /\ "Unusable" \in Verdicts(vol, candidate)
          /\ Decline
          /\ UNCHANGED cache

AcquireStep == TakeCandidate \/ NextPrompt \/ GiveUp \/ Ask \/ Test

-----------------------------------------------------------------------------
AcquireTypeOK ==
    /\ vol \in Volumes \cup {None}
    /\ stop \in BOOLEAN
    /\ attempt \in 0..Tries
    /\ untried \subseteq Secrets
    /\ candidate \in Secrets \cup {None}
    /\ cache \subseteq Secrets
    /\ keyring \subseteq Secrets
    /\ credential \subseteq Secrets
    /\ typed \in 0..Tries
    /\ late \in Nat

\* Nobody is asked for what the daemon already holds: when a prompt goes up
\* for a volume, none of the passphrases seen this boot opens it.  It fails if
\* the cache loop stops early, or a correct entry can be passed over.
NoNeedlessPrompt ==
    pc = "prompting" => cache \cap Opens[vol] = {}

\* Where the unit has no credential, handing the volume back after Tries prompts
\* means a human had a real turn: at most the first prompt was answered by the
\* keyring, so stale entries for other volumes, MaxCandidates of them or more,
\* cannot use up every attempt.  askpw.rs:43 says so of any unit, but a credential
\* that does not open the volume answers the retries as well.
HumanGetsATurn ==
    credential = {} /\ pc = "acquire" /\ untried = {} /\ attempt = Tries =>
        typed >= Tries - 1

=============================================================================

------------------------------ MODULE TpmChannel ------------------------------
(***************************************************************************)
(* tpm2::Tpm: the commands one handling puts to the resource manager device *)
(* on one descriptor, from the lockout probe to the check of the new token, *)
(* with everything that may become of each of them.  transact writes a      *)
(* command, waits for its response with a limit, and reads it; when it      *)
(* gives up, command and response stay behind in the device.                *)
(*                                                                          *)
(* The device is external: it takes one command at a time, refuses the next *)
(* until the response has been read, forgets a response nobody fetches, and *)
(* frees the sessions of a descriptor that is closed.  The TPM behind it    *)
(* may refuse any command, and may answer PCR_Read as it likes as far as    *)
(* the registers go, but gives true values.                                 *)
(***************************************************************************)
EXTENDS Naturals, FiniteSets, Sequences

CONSTANTS
    AllPcrs,        \* the registers there are
    Asked,          \* the volume's selection
    Unmeasured,     \* what a policy digest is made of before PolicyPCR
    MaxExtends,     \* bound: extensions of one register
    MaxOpens        \* bound: handlings that open the device

ASSUME TpmChannelAssumption ==
    /\ AllPcrs \subseteq Nat
    /\ Asked \subseteq AllPcrs
    /\ Asked # {}
    /\ IsFiniteSet(AllPcrs)
    /\ Unmeasured \notin Nat
    /\ MaxExtends \in Nat
    /\ MaxOpens \in Nat

VARIABLES
    step,       \* the command the daemon is at, or what it does between them
    use,        \* who asked for the policy digest: preflight or verify
    written,    \* transact has written the command and waits
    handle,     \* the trial session in use
    ok,         \* build_policy has returned a digest ...
    digest,     \* ... and this is it
    remaining,  \* read_pcrs: registers still to be read
    out,        \* read_pcrs: what has been read
    count,      \* commands written on this descriptor; numbers them
    command,    \* device: the command it is working on
    response,   \* device: the response that has not been fetched
    sessions,   \* TPM: the sessions of this descriptor
    pcr,        \* TPM: the values of the registers
    opens,
    seen,       \* history: digests of the states since the digest was asked for
    before,     \* history: the registers when read_pcrs began
    rounds,     \* history: PCR_Read commands of this read_pcrs
    known,      \* history: sessions the daemon was told of
    warned      \* history: sessions it warned it could not flush

deviceVars == <<command, response, sessions, pcr>>
historyVars == <<seen, before, rounds, known, warned>>
vars == <<step, use, written, handle, ok, digest, remaining, out, count, deviceVars,
          opens, historyVars>>

Commands == {"lockout", "start", "policy", "getdigest", "flush", "read"}
Digests == [Asked -> Nat \cup {Unmeasured}]
NoDigest == [p \in Asked |-> Unmeasured]
Requests == [n : Nat, op : Commands, handle : Nat, pcrs : SUBSET AllPcrs]
Responses == [n : Nat, op : Commands, good : BOOLEAN, digest : Digests,
              pcrs : SUBSET AllPcrs, values : Seq(Nat)]
NoRequest == [n |-> 0, op |-> "lockout", handle |-> 0, pcrs |-> {}]
NoResponse == [n |-> 0, op |-> "lockout", good |-> FALSE, digest |-> NoDigest,
               pcrs |-> {}, values |-> <<>>]

\* What PolicyPCR with an empty pcrDigest commits to at this moment.
Snapshot == [p \in Asked |-> pcr[p]]

Init ==
    /\ step = "closed" /\ use = "check" /\ written = FALSE
    /\ handle = 0 /\ ok = FALSE /\ digest = NoDigest
    /\ remaining = {} /\ out = {} /\ count = 0
    /\ command = NoRequest /\ response = NoResponse /\ sessions = {}
    /\ pcr = [p \in AllPcrs |-> 0] /\ opens = 0
    /\ seen = {} /\ before = pcr /\ rounds = 0 /\ known = {} /\ warned = {}

-----------------------------------------------------------------------------
\* maybe_reenroll opens the device for preflight::check.
Open ==
    /\ step = "closed" /\ opens < MaxOpens
    /\ opens' = opens + 1
    /\ step' = "lockout" /\ use' = "check" /\ count' = 0
    /\ UNCHANGED <<written, handle, ok, digest, remaining, out, deviceVars,
                   historyVars>>

\* The descriptor goes out of scope.
Close ==
    /\ step = "closing"
    /\ step' = "closed" /\ handle' = 0
    /\ command' = NoRequest /\ response' = NoResponse /\ sessions' = {}
    /\ known' = {} /\ warned' = {}
    /\ UNCHANGED <<use, written, ok, digest, remaining, out, count, pcr, opens, seen,
                   before, rounds>>

Free == command = NoRequest /\ response = NoResponse

\* Mutant: the error of write_all is not looked at.
WriteUnchecked ==
    /\ step \in Commands /\ ~written
    /\ written' = TRUE
    /\ count' = count + 1
    /\ command' = IF Free
                  THEN [n |-> count + 1, op |-> step, handle |-> handle, pcrs |-> remaining]
                  ELSE command
    /\ rounds' = IF step = "read" THEN rounds + 1 ELSE rounds
    /\ UNCHANGED <<step, use, handle, ok, digest, remaining, out, response, sessions,
                   pcr, opens, seen, before, known, warned>>

\* transact's write: a whole command or none.
Write ==
    /\ step \in Commands /\ ~written
    /\ Free
    /\ written' = TRUE
    /\ count' = count + 1
    /\ command' = [n |-> count + 1, op |-> step, handle |-> handle, pcrs |-> remaining]
    /\ rounds' = IF step = "read" THEN rounds + 1 ELSE rounds
    /\ UNCHANGED <<step, use, handle, ok, digest, remaining, out, response, sessions,
                   pcr, opens, seen, before, known, warned>>

\* The digest is returned, to the drift check of the preflight or of verify.
\* Only a drifted binding is logged and put to the human.
DigestReturned ==
    \/ /\ use = "check" /\ ok
       /\ step' = "read" /\ remaining' = Asked /\ out' = {}
       /\ rounds' = 0 /\ before' = pcr
    \/ /\ step' = "closing"
       /\ UNCHANGED <<remaining, out, rounds, before>>

\* Mutant: a policy that failed returns without the flush.
PolicyFailsUnflushed ==
    /\ step \in {"policy", "getdigest"}
    /\ step' = "closing"
    /\ UNCHANGED <<remaining, out, rounds, before, warned>>

\* Mutant: the result of PolicyPCR is not looked at.
PolicyFailsUnnoticed ==
    /\ step \in {"policy", "getdigest"}
    /\ step' = IF step = "policy" THEN "getdigest" ELSE "flush"
    /\ UNCHANGED <<remaining, out, rounds, before, warned>>

\* build_policy fails; the session is released all the same.
PolicyFails ==
    /\ step \in {"policy", "getdigest"}
    /\ step' = "flush"
    /\ UNCHANGED <<remaining, out, rounds, before, warned>>

\* What becomes of a transact that returns Err.  The lockout probe and the
\* session end the drift check; failing to log the registers ends nothing.
Fails ==
    /\ written' = FALSE
    /\ \/ /\ step \in {"lockout", "start"}
          /\ step' = "closing"
          /\ UNCHANGED <<remaining, out, rounds, before, warned>>
       \/ PolicyFails
       \/ /\ step = "flush"
          /\ warned' = warned \cup {handle}
          /\ DigestReturned
       \/ /\ step = "read"
          /\ step' = "consent"
          /\ UNCHANGED <<remaining, out, rounds, before, warned>>
    /\ UNCHANGED <<use, handle, ok, digest, count, opens, seen, known>>

\* EBUSY, or the device has gone.
WriteFails ==
    /\ step \in Commands /\ ~written
    /\ Fails
    /\ UNCHANGED deviceVars

\* Mutant: poll waits without a limit.
NeverGivesUp == FALSE

\* No response within RESPONSE_TIMEOUT, or poll is interrupted by SIGTERM.
GivesUp ==
    /\ step \in Commands /\ written /\ response = NoResponse
    /\ Fails
    /\ UNCHANGED deviceVars

\* transact has read a response: a well-formed one of the kind it asked for,
\* with response code 0, or not.
Fetched(good) ==
    /\ written /\ response # NoResponse
    /\ response.good = good
    /\ response' = NoResponse

BadResponse ==
    /\ step \in Commands
    /\ Fetched(FALSE)
    /\ Fails
    /\ UNCHANGED <<command, sessions, pcr>>

\* A digest is asked for: drift::check.
AskDigest ==
    /\ step' = "start" /\ ok' = FALSE /\ digest' = NoDigest /\ handle' = 0
    /\ seen' = {Snapshot}

\* preflight::check after the probe; in lockout, with no single token or one it
\* refuses, it leaves the header alone.
LockoutRead ==
    /\ step = "lockout"
    /\ Fetched(TRUE) /\ written' = FALSE
    /\ \/ AskDigest
       \/ step' = "closing" /\ UNCHANGED <<ok, digest, handle, seen>>
    /\ UNCHANGED <<use, remaining, out, count, command, sessions, pcr, opens, before,
                   rounds, known, warned>>

\* The response names the session: here by the number of the command.
SessionStarted ==
    /\ step = "start"
    /\ Fetched(TRUE) /\ written' = FALSE
    /\ step' = "policy"
    /\ handle' = response.n
    /\ known' = known \cup {response.n}
    /\ UNCHANGED <<use, ok, digest, remaining, out, count, command, sessions, pcr,
                   opens, seen, before, rounds, warned>>

PolicyBuilt ==
    /\ step = "policy"
    /\ Fetched(TRUE) /\ written' = FALSE
    /\ step' = "getdigest"
    /\ UNCHANGED <<use, handle, ok, digest, remaining, out, count, command, sessions,
                   pcr, opens, historyVars>>

DigestRead ==
    /\ step = "getdigest"
    /\ Fetched(TRUE) /\ written' = FALSE
    /\ step' = "flush"
    /\ ok' = TRUE /\ digest' = response.digest
    /\ UNCHANGED <<use, handle, remaining, out, count, command, sessions, pcr, opens,
                   historyVars>>

Flushed ==
    /\ step = "flush"
    /\ Fetched(TRUE) /\ written' = FALSE
    /\ DigestReturned
    /\ UNCHANGED <<use, handle, ok, digest, count, command, sessions, pcr, opens, seen,
                   known, warned>>

-----------------------------------------------------------------------------
\* The place of register p's digest in a list in ascending order of registers.
Place(p, pcrs) == Cardinality({q \in pcrs : q <= p})

\* The pairs absorb adds to what has been read; a zip ends with the shorter.
Paired(pcrs, values) ==
    {[pcr |-> p, value |-> values[Place(p, pcrs)]] :
        p \in {q \in pcrs : Place(q, pcrs) <= Len(values)}}

\* Mutant: digests are not counted.
AcceptableUncounted(pcrs, values) == pcrs # {} /\ pcrs \subseteq remaining

\* Mutant: registers nobody asked for are passed over instead of refused.
AcceptableAny(pcrs, values) == pcrs # {} /\ Len(values) = Cardinality(pcrs)

\* What absorb accepts: something, with a digest for each, and nothing that is
\* not outstanding.  That it repeats nothing, the bitmap sees to.
Acceptable(pcrs, values) ==
    /\ pcrs # {} /\ Len(values) = Cardinality(pcrs)
    /\ pcrs \subseteq remaining

\* A round of read_pcrs, and its loop.
PcrsRead ==
    /\ step = "read"
    /\ Fetched(TRUE) /\ written' = FALSE
    /\ IF Acceptable(response.pcrs, response.values)
       THEN /\ remaining' = remaining \ response.pcrs
            /\ out' = out \cup Paired(response.pcrs, response.values)
            /\ step' = IF remaining' = {} THEN "consent" ELSE "read"
       ELSE step' = "consent" /\ UNCHANGED <<remaining, out>>
    /\ UNCHANGED <<use, handle, ok, digest, count, command, sessions, pcr, opens,
                   historyVars>>

\* Between log_state and verify: consent and the enrollment, for minutes, with
\* this descriptor open.  verify asks for a digest if it could not unseal.
Enrolled ==
    /\ step = "consent"
    /\ \/ AskDigest /\ use' = "verify"
       \/ step' = "closing" /\ UNCHANGED <<use, ok, digest, handle, seen>>
    /\ UNCHANGED <<written, remaining, out, count, deviceVars, opens, before, rounds,
                   known, warned>>

-----------------------------------------------------------------------------
\* n digests that PCR_Read may return for a selection: values the registers
\* have, in ascending order of register.
TrueValues(pcrs, n) ==
    {values \in [1..n -> {pcr[p] : p \in pcrs}] :
        \A p \in pcrs : Place(p, pcrs) <= n => values[Place(p, pcrs)] = pcr[p]}

Session(h) == {s \in sessions : s.handle = h}

\* The TPM has done what it was told, and this is its response.
Answer(d, pcrs, values) ==
    /\ command' = NoRequest
    /\ response' = [n |-> command.n, op |-> command.op, good |-> TRUE, digest |-> d,
                    pcrs |-> pcrs, values |-> values]

Execute ==
    /\ command # NoRequest
    /\ \/ /\ command.op = "lockout"
          /\ Answer(NoDigest, {}, <<>>)
          /\ UNCHANGED sessions
       \/ /\ command.op = "start"
          /\ sessions' = sessions \cup {[handle |-> command.n, digest |-> NoDigest]}
          /\ Answer(NoDigest, {}, <<>>)
       \/ /\ command.op = "policy"
          /\ Session(command.handle) # {}
          /\ sessions' = (sessions \ Session(command.handle)) \cup
                {[handle |-> command.handle, digest |-> Snapshot]}
          /\ Answer(NoDigest, {}, <<>>)
       \/ /\ command.op = "getdigest"
          /\ \E s \in Session(command.handle) : Answer(s.digest, {}, <<>>)
          /\ UNCHANGED sessions
       \/ /\ command.op = "flush"
          /\ sessions' = sessions \ Session(command.handle)
          /\ Answer(NoDigest, {}, <<>>)
       \/ /\ command.op = "read"
          /\ \E pcrs \in SUBSET AllPcrs :
                \E n \in {Cardinality(pcrs), Cardinality(pcrs) - 1} \cap Nat :
                    \E values \in TrueValues(pcrs, n) : Answer(NoDigest, pcrs, values)
          /\ UNCHANGED sessions
       \/ /\ command' = NoRequest
          /\ response' = [n |-> command.n, op |-> command.op, good |-> FALSE,
                          digest |-> NoDigest, pcrs |-> {}, values |-> <<>>]
          /\ UNCHANGED sessions
    /\ UNCHANGED <<step, use, written, handle, ok, digest, remaining, out, count, pcr,
                   opens, historyVars>>

\* The device forgets a response that nobody has fetched.
Discard ==
    /\ response # NoResponse
    /\ response' = NoResponse
    /\ UNCHANGED <<step, use, written, handle, ok, digest, remaining, out, count,
                   command, sessions, pcr, opens, historyVars>>

\* Something else is measured.
Extend(p) ==
    /\ pcr[p] < MaxExtends
    /\ pcr' = [pcr EXCEPT ![p] = @ + 1]
    /\ seen' = seen \cup {[q \in Asked |-> pcr'[q]]}
    /\ UNCHANGED <<step, use, written, handle, ok, digest, remaining, out, count,
                   command, response, sessions, opens, before, rounds, known, warned>>

Daemon ==
    \/ Open \/ Close
    \/ Write \/ WriteFails \/ GivesUp \/ BadResponse
    \/ LockoutRead \/ SessionStarted \/ PolicyBuilt \/ DigestRead \/ Flushed
    \/ PcrsRead \/ Enrolled

Next ==
    \/ Daemon
    \/ Execute \/ Discard
    \/ \E p \in AllPcrs : Extend(p)

Spec == Init /\ [][Next]_vars

\* transact returns within its limit and the daemon goes on; nothing is promised
\* of the TPM.
FairSpec == Spec /\ WF_vars(Daemon)

-----------------------------------------------------------------------------
TypeOK ==
    /\ step \in Commands \cup {"closed", "closing", "consent"}
    /\ use \in {"check", "verify"}
    /\ written \in BOOLEAN /\ ok \in BOOLEAN
    /\ handle \in Nat /\ count \in Nat /\ opens \in Nat /\ rounds \in Nat
    /\ digest \in Digests
    /\ remaining \subseteq Asked
    /\ out \subseteq [pcr : Asked, value : Nat]
    /\ command \in Requests /\ response \in Responses
    /\ sessions \subseteq [handle : Nat, digest : Digests]
    /\ pcr \in [AllPcrs -> Nat] /\ before \in [AllPcrs -> Nat]
    /\ seen \subseteq Digests
    /\ known \subseteq Nat /\ warned \subseteq Nat

\* The response transact could read is the response to the command it has
\* written, although responses carry no mark of their command, earlier ones may
\* have been given up, and a flush follows every failure on the same descriptor.
AnswersItsCommand ==
    written /\ response # NoResponse => response.n = count /\ response.op = step

\* A policy digest that pcr_policy_digest returns is that of one state the
\* registers really were in since it was asked for; a session no policy was
\* built in, or that of an earlier call, never passes for one.
DigestIsOfOneMoment ==
    ok => digest \in seen

\* A trial session the daemon was told of does not keep its slot once the digest
\* has been dealt with, on any path, unless flushing it failed and it said so.
SessionsReleased ==
    \A s \in sessions :
        s.handle \in known =>
            s.handle \in warned \/ (s.handle = handle /\ step \in {"policy", "getdigest", "flush"})

\* read_pcrs asks no more often than there are registers to ask for, whatever
\* the TPM returns: with 30 seconds for each, that bounds it.
RoundsBounded == rounds <= Cardinality(Asked)

\* What log_state says of the registers is complete, one value for each, and
\* each of them a value of that register while it was being read.
ReadingIsSound ==
    step = "consent" /\ remaining = {} =>
        \A p \in Asked : \E x \in out :
            /\ {y \in out : y.pcr = p} = {x}
            /\ before[p] <= x.value /\ x.value <= pcr[p]

\* A TPM that never answers, or never as asked, does not keep the daemon.
DeviceIsClosed == step # "closed" ~> step = "closed"

=============================================================================

------------------------------ MODULE PlainPhase ------------------------------
(***************************************************************************)
(* The plain phase as a whole, over the life of the daemon and of the ones  *)
(* that follow it: main::serve_passphrase around acquire and maybe_reenroll, *)
(* SIGTERM, SIGKILL, exit and the next start through the Wants= drop-in.    *)
(* What a daemon remembers dies with it; headers and the keyring do not.    *)
(***************************************************************************)
EXTENDS Repair

CONSTANTS
    InitialHeaders, \* the headers the first daemon may find
    Credentials,    \* what the unit's credential may hold; {} for none
    MaxExtends,     \* bound: how far a PCR is extended
    MaxConnections, \* bound: plain-phase connections
    MaxStarts       \* bound: daemons after the first

ASSUME PlainPhaseAssumption ==
    /\ InitialHeaders \subseteq [Volumes -> SUBSET Tokens]
    /\ \A h \in InitialHeaders, v \in Volumes :
          \A t, u \in h[v] : t.slot = u.slot => t = u
    /\ Credentials \subseteq SUBSET Secrets
    /\ MaxExtends \in Nat
    /\ MaxConnections \in Nat
    /\ MaxStarts \in Nat

VARIABLES
    sent,           \* sent[v]: what was ever written to a connection of v
    connections,    \* bound: counts the connections
    starts          \* bound: counts the starts

vars == <<acquireVars, repairVars, sent, connections, starts>>

Busy == AcquirePoints \cup RepairPoints

Init ==
    /\ pc = "idle" /\ vol = None /\ stop = FALSE
    /\ attempt = 0 /\ untried = {} /\ candidate = None
    /\ cache = {} /\ keyring \in SUBSET Secrets /\ credential \in Credentials
    /\ typed = 0 /\ late = 0
    /\ header \in InitialHeaders
    /\ pcr = [p \in Pcrs |-> 0]
    /\ plan = NoPlan /\ fresh = {}
    /\ declines = {} /\ accepts = {}
    /\ answer = "none" /\ answers = {} /\ report = "none"
    /\ sent = [v \in Volumes |-> {}]
    /\ connections = 0 /\ starts = 0

-----------------------------------------------------------------------------
\* serve takes a connection, handle finds it a plain-phase one of this volume
\* and serve_passphrase opens the device.  Failing that it declines at once.
Accept(v) ==
    /\ pc = "idle"
    /\ ~stop
    /\ connections < MaxConnections
    /\ connections' = connections + 1
    /\ \/ /\ pc' = "acquire"
          /\ vol' = v
          /\ untried' = cache
       \/ UNCHANGED <<pc, vol, untried>>
    /\ UNCHANGED <<stop, attempt, candidate, cache, keyring, credential, typed, late>>
    /\ UNCHANGED <<repairVars, sent, starts>>

\* main::reply, with the connection closed and the handling's locals gone.
\* The write may fail; the client then gets nothing.
Reply ==
    /\ pc = "replying"
    /\ \/ sent' = [sent EXCEPT ![vol] = @ \cup {candidate}]
       \/ UNCHANGED sent
    /\ Decline
    /\ plan' = NoPlan /\ fresh' = {}
    /\ answer' = "none" /\ report' = "none"
    /\ UNCHANGED <<stop, cache, keyring, credential, late>>
    /\ UNCHANGED <<header, pcr, decisionVars, connections, starts>>

-----------------------------------------------------------------------------
\* What outlives the process is the header, the keyring, the unit's credential
\* and what it has sent.
FreshMemory == cache' = {} /\ declines' = {} /\ accepts' = {}

Gone ==
    /\ pc' = "stopped" /\ vol' = None /\ stop' = FALSE
    /\ attempt' = 0 /\ untried' = {} /\ candidate' = None
    /\ plan' = NoPlan /\ fresh' = {}
    /\ FreshMemory
    /\ typed' = 0 /\ late' = 0
    /\ answer' = "none" /\ answers' = {} /\ report' = "none"
    /\ UNCHANGED <<keyring, credential, header, pcr, sent, connections, starts>>

\* serve returns: a stop was asked for, every volume is done, or nobody came.
Exit == pc = "idle" /\ Gone

\* SIGKILL at the stop timeout, an abort, a power cut: at any point at all.
Kill == pc \in Busy /\ Gone

\* A later systemd-cryptsetup@ start pulls in a new daemon.
Start ==
    /\ pc = "stopped"
    /\ starts < MaxStarts
    /\ starts' = starts + 1
    /\ pc' = "idle"
    /\ UNCHANGED <<vol, stop, attempt, untried, candidate, cache, keyring,
                   credential, typed, late>>
    /\ UNCHANGED <<repairVars, sent, connections>>

\* SIGTERM, which main::catch_sigterm turns into a flag.
Terminate ==
    /\ pc # "stopped"
    /\ ~stop
    /\ stop' = TRUE
    /\ UNCHANGED <<pc, vol, attempt, untried, candidate, cache, keyring,
                   credential, typed, late>>
    /\ UNCHANGED <<repairVars, sent, connections, starts>>

\* Anything else in the boot measures something: a volume just unlocked
\* extends PCR 15, systemd-pcrphase extends PCR 11.
Extend(p) ==
    /\ pcr[p] < MaxExtends
    /\ pcr' = [pcr EXCEPT ![p] = @ + 1]
    /\ UNCHANGED acquireVars
    /\ UNCHANGED <<header, plan, fresh, decisionVars, answer, report>>
    /\ UNCHANGED <<sent, connections, starts>>

\* The kernel forgets what was typed.
KeyringExpires ==
    /\ keyring # {}
    /\ keyring' = {}
    /\ UNCHANGED <<pc, vol, stop, attempt, untried, candidate, cache, credential,
                   typed, late>>
    /\ UNCHANGED <<repairVars, sent, connections, starts>>

-----------------------------------------------------------------------------
Handle ==
    \/ AcquireStep /\ UNCHANGED <<repairVars, sent, connections, starts>>
    \/ RepairStep /\ UNCHANGED <<sent, connections, starts>>
    \/ Reply

Environment ==
    \/ Terminate \/ Kill \/ Start \/ KeyringExpires
    \/ \E p \in Pcrs : Extend(p)

Next ==
    \/ \E v \in Volumes : Accept(v)
    \/ Handle
    \/ Exit
    \/ Environment

Spec == Init /\ [][Next]_vars

\* Every child has a deadline and every other step of a handling is the daemon's
\* own code; nothing is promised of the environment.
FairSpec == Spec /\ WF_vars(Handle)

-----------------------------------------------------------------------------
TypeOK ==
    /\ pc \in Busy \cup {"idle", "stopped"}
    /\ pc \in Busy => vol \in Volumes
    /\ pc \in {"testing"} \cup RepairPoints => candidate \in Secrets
    /\ AcquireTypeOK
    /\ RepairTypeOK
    /\ sent \in [Volumes -> SUBSET Secrets]
    /\ connections \in Nat
    /\ starts \in Nat

\* The key agent's promise: whatever it writes to a connection opens that
\* connection's volume, from whichever volume, prompt or keyring it came.
RepliesOpen == \A v \in Volumes : sent[v] \subseteq Opens[v]

\* A connection that is taken is always let go of again, answered or declined:
\* no other volume waits behind it for ever.
HandlingEnds == pc \in Busy ~> pc \in {"idle", "stopped"}

=============================================================================

------------------------------- MODULE Handshake -------------------------------
(***************************************************************************)
(* What handle does with a connection before it serves it: the name the     *)
(* peer has bound, bindname::parse, the phase, and peer::check, one system  *)
(* call at a time, while processes come to their end and pids are used      *)
(* again.                                                                   *)
(*                                                                          *)
(* A text is a sequence of characters; a run of characters that is never    *)
(* taken apart, like "cryptsetup", counts as one.  A bind name is the       *)
(* sequence of what stands between its slashes.                             *)
(***************************************************************************)
EXTENDS Naturals, Sequences, SequencesExt

CONSTANTS
    Volumes,        \* names of volumes, which the configuration has let through
    Managed,        \* the one the listening socket is bound for
    BindNames,      \* names peers bind
    MaxProcesses    \* bound: processes that have the peer's pid, one after the other

ASSUME HandshakeAssumption ==
    /\ Volumes \subseteq Seq(STRING) \ {<<>>}
    /\ \A v \in Volumes : \A i \in DOMAIN v : v[i] # "/"
    /\ Managed \in Volumes
    /\ BindNames \subseteq Seq(Seq(STRING))
    /\ MaxProcesses \in Nat \ {0}

VARIABLES
    pc,         \* the step of handle
    name,       \* the peer's bind name, or Unnamed
    pinned,     \* whether the kernel knows SO_PEERPIDFD
    process,    \* the processes that have had the peer's pid; the first is the peer
    state,      \* of the last of them
    failed      \* history: a system call has failed of itself

vars == <<pc, name, pinned, process, state, failed>>

Unnamed == <<>>

-----------------------------------------------------------------------------
\* How one byte of a volume's name appears in a unit name.  Of the bytes that are
\* written as a number, a space stands for all but three.
EscapedByte(b, first) ==
    IF first /\ b = "." THEN <<"\\", "x", "2", "e">>
    ELSE IF b = "/" THEN <<"-">>
    ELSE IF b = "-" THEN <<"\\", "x", "2", "d">>
    ELSE IF b = "\\" THEN <<"\\", "x", "5", "c">>
    ELSE IF b = " " THEN <<"\\", "x", "2", "0">>
    ELSE <<b>>

\* unit_escape, which is systemd's unit_name_escape().
UnitEscape(s) == FlattenSeq([i \in DOMAIN s |-> EscapedByte(s[i], i = 1)])

UnitOf(volume) == <<"systemd-cryptsetup@">> \o UnitEscape(volume) \o <<".service">>

\* in_unit: the last component of the unified line, if there is one.
InUnit(cgroup, unit) == cgroup # <<>> /\ Last(cgroup) = unit

-----------------------------------------------------------------------------
\* INFIXES
Infixes == {"cryptsetup", "cryptsetup-tpm2", "cryptsetup-fido2-salt", "cryptsetup-pkcs11"}

\* Mutant: "/cryptsetup" is a prefix of them all.
PhasePrefix(infix) == "plain"

PhaseOf(infix) ==
    CASE infix = "cryptsetup" -> "plain"
      [] infix = "cryptsetup-tpm2" -> "tpm2"
      [] infix = "cryptsetup-fido2-salt" -> "fido2-salt"
      [] infix = "cryptsetup-pkcs11" -> "pkcs11"

Alphanumeric(s) == s # <<>> /\ ToSet(s) \cap {"/", ".", "-", "\\", " "} = {}

None == [phase |-> "none", volume |-> <<>>]

\* The components from the third on, with the slashes that were between them.
Remainder(n) == n[3] \o FlattenSeq([i \in 1..(Len(n) - 3) |-> <<"/">> \o n[i + 3]])

\* parse, of a name without its leading NUL.
Parse(n) ==
    LET known == Len(n) > 2 /\ \E infix \in Infixes : n[2] = <<infix>>
        volume == IF known THEN Remainder(n) ELSE Last(n)
    IN  IF Len(n) < 2 \/ ~Alphanumeric(n[1]) \/ volume = <<>> THEN None
        ELSE [phase |-> IF known THEN PhaseOf(n[2][1]) ELSE "unknown", volume |-> volume]

\* make_bindname() of systemd-cryptsetup.
BindName(random, infix, volume) == <<random, <<infix>>, volume>>

-----------------------------------------------------------------------------
\* A process: root or not, in some cgroup, running something.  The units of
\* other volumes have systemd-cryptsetup in them too.  systemd places a process
\* below its slice; only one with the privileges to rewrite the cgroup tree can
\* be in a cgroup of a unit's name anywhere else, and a root service that has
\* dropped its capabilities has them not.
Slice == <<"system.slice">>
Elsewhere == <<"elsewhere">>
Placed ==
    {<<Slice, UnitOf(v)>> : v \in Volumes} \cup
    {<<Slice, UnitOf(Managed), <<"sub">>>>, <<Slice>>, <<>>}
Made == {<<Elsewhere, UnitOf(v)>> : v \in Volumes}
Processes ==
    {p \in [root : BOOLEAN, full : BOOLEAN, cgroup : Placed \cup Made,
            exe : {"systemd-cryptsetup", "other"}] :
        /\ p.full => p.root
        /\ p.cgroup \in Made => p.full}

Peer == process[1]
Current == Last(process)

Init ==
    /\ pc = "name" /\ name \in BindNames \cup {Unnamed}
    /\ pinned \in BOOLEAN
    /\ process \in {<<p>> : p \in Processes} /\ state = "running"
    /\ failed = FALSE

Goto(step) ==
    /\ pc' = step
    /\ UNCHANGED <<name, pinned, process, state, failed>>

\* Mutant: a name that cannot be parsed is let through.
AnsweredUnparsed(n) ==
    LET peer == Parse(n)
    IN  peer = None \/ (peer.volume = Managed /\ peer.phase = "plain")

\* Mutant: what is asked of RANDOM is asked of the volume too.
AnsweredStrictly(n) ==
    n # Unnamed /\ Parse(n) = [phase |-> "plain", volume |-> Managed] /\ Alphanumeric(Managed)

\* handle goes on with a name that parses, for this volume, in the plain phase.
Answered(n) == n # Unnamed /\ Parse(n) = [phase |-> "plain", volume |-> Managed]

\* handle, as far as the name goes.
Dispatch ==
    /\ pc = "name"
    /\ Goto(IF Answered(name) THEN "cred" ELSE "declined")

\* SO_PEERCRED, recorded when the peer connected.
Cred ==
    /\ pc = "cred"
    /\ Goto(IF Peer.root THEN "pidfd" ELSE "declined")

\* SO_PEERPIDFD and the pid behind it, which is gone with the peer; or the pid of
\* the credentials on a kernel that does not know it.
Pid ==
    /\ pc = "pidfd"
    /\ Goto(IF pinned /\ (Len(process) > 1 \/ state = "reaped")
            THEN "declined" ELSE "cgroup")

\* Both are read of whatever process has the pid by now.
Cgroup ==
    /\ pc = "cgroup"
    /\ Goto(IF state # "reaped" /\ InUnit(Current.cgroup, UnitOf(Managed))
            THEN "exe" ELSE "declined")

\* A process that has exited has no executable any more.
Exe ==
    /\ pc = "exe"
    /\ Goto(IF state = "running" /\ Current.exe = "systemd-cryptsetup"
            THEN "alive" ELSE "declined")

\* Mutant: what was read is believed.
AliveUnchecked ==
    /\ pc = "alive"
    /\ Goto("served")

\* The pidfd still refers to a process, if only to one that waits to be reaped.
Alive ==
    /\ pc = "alive"
    /\ Goto(IF pinned /\ (Len(process) > 1 \/ state = "reaped")
            THEN "declined" ELSE "served")

Fails ==
    /\ pc \in {"name", "cred", "pidfd", "cgroup", "exe", "alive"}
    /\ pc' = "declined" /\ failed' = TRUE
    /\ UNCHANGED <<name, pinned, process, state>>

-----------------------------------------------------------------------------
Exits ==
    /\ state = "running" /\ state' = "zombie"
    /\ UNCHANGED <<pc, name, pinned, process, failed>>

Reaped ==
    /\ state = "zombie" /\ state' = "reaped"
    /\ UNCHANGED <<pc, name, pinned, process, failed>>

\* The pid goes to another process.
Recycled ==
    /\ state = "reaped" /\ Len(process) < MaxProcesses
    /\ \E p \in Processes : process' = Append(process, p)
    /\ state' = "running"
    /\ UNCHANGED <<pc, name, pinned, failed>>

Next ==
    \/ Dispatch \/ Cred \/ Pid \/ Cgroup \/ Exe \/ Alive \/ Fails
    \/ Exits \/ Reaped \/ Recycled

Spec == Init /\ [][Next]_vars

-----------------------------------------------------------------------------
TypeOK ==
    /\ pc \in {"name", "cred", "pidfd", "cgroup", "exe", "alive", "served", "declined"}
    /\ name \in BindNames \cup (IF pc \in {"name", "declined"} THEN {Unnamed} ELSE {})
    /\ pinned \in BOOLEAN /\ failed \in BOOLEAN
    /\ process \in Seq(Processes) /\ process # <<>> /\ Len(process) <= MaxProcesses
    /\ state \in {"running", "zombie", "reaped"}

IsFor(p, volume) == p.root /\ p.exe = "systemd-cryptsetup" /\ p.cgroup = <<Slice, UnitOf(volume)>>

\* Full root has made a cgroup of the unit's name for itself, and runs the binary.
Forged(p) == p.full /\ p.exe = "systemd-cryptsetup" /\ p.cgroup = <<Elsewhere, UnitOf(Managed)>>

\* Where the peer can be pinned, the process that connected is the root
\* systemd-cryptsetup of this volume's unit and of no other volume's, although
\* the check reads by pid and the peer may be gone and the pid another's; but
\* for one with every privilege that took the trouble, as peer.rs:25 grants.
ServedIsThePeer ==
    pc = "served" /\ pinned =>
        Forged(Peer) \/ \A v \in Volumes : IsFor(Peer, v) <=> v = Managed

\* Only a name make_bindname gives the plain phase of this volume is served; the
\* tpm2 phase above all is declined, or the header's token is never consulted.
ServedIsPlain ==
    pc = "served" =>
        \E random \in {n[1] : n \in BindNames} :
            Alphanumeric(random) /\ name = BindName(random, "cryptsetup", Managed)

\* The volume's own systemd-cryptsetup is not turned away while it waits, however
\* the volume is called.
OwnPeerIsServed ==
    pc = "declined" /\ ~failed /\ process = <<Peer>> /\ state = "running" /\ IsFor(Peer, Managed) =>
        ~\E random \in {n[1] : n \in BindNames} :
            Alphanumeric(random) /\ name = BindName(random, "cryptsetup", Managed)

=============================================================================

------------------------------ MODULE AcceptLoop ------------------------------
(***************************************************************************)
(* main::serve, finished and handle: one connection at a time, from the     *)
(* backlogs of all the volumes' sockets, until the daemon is not needed any *)
(* more; with the systemd-cryptsetup instances that connect (external: as   *)
(* the code and its comments describe them) and everybody else who may.     *)
(* What a plain-phase handling does is PlainPhase's subject; here it takes  *)
(* any time and ends in a passphrase or a decline.                          *)
(***************************************************************************)
EXTENDS Naturals, Sequences, FiniteSets

CONSTANTS
    Volumes,        \* the volumes with a listening socket
    IdleLimit,      \* IDLE_LIMIT in units of TICK (300 in the code)
    Backlog,        \* listen(2)'s backlog (16 in the code)
    MaxStrangers    \* bound: connections that are not systemd-cryptsetup's

ASSUME AcceptLoopAssumption ==
    /\ IsFiniteSet(Volumes) /\ Volumes # {}
    /\ IdleLimit \in Nat \ {0}
    /\ Backlog \in Nat \ {0}
    /\ MaxStrangers \in Nat

VARIABLES
    at,         \* where the loop is
    ready,      \* the ready set of this round, as far as it is left
    conn,       \* volume and kind of the connection being handled
    served,     \* volumes whose plain-phase connection has been handled
    idle,       \* last_contact.elapsed(), up to IdleLimit
    stop,       \* main::TERMINATE
    why,        \* why serve returned
    backlog,    \* backlog[v]: connections not accepted yet, oldest first
    client,     \* client[v]: v's systemd-cryptsetup
    strangers,  \* bound: counts the other connections
    passed,     \* history: others' connections handled while v waits for a turn
    late        \* history: connections accepted after the stop

loopVars == <<at, ready, conn, served, idle, why>>
peers == <<backlog, client, strangers>>
historyVars == <<passed, late>>
vars == <<loopVars, stop, peers, historyVars>>

\* The plain phase of this volume's own systemd-cryptsetup; its token phases;
\* and whatever handle cannot attribute to it: unnamed, unparseable, another
\* volume's, or failing peer::check.
Kinds == {"plain", "token", "stranger"}
Waiting == {"token", "plain"}
NoConn == [vol |-> CHOOSE v \in Volumes : TRUE, kind |-> "stranger"]

\* dm::is_active.
Active(v) == client[v] = "open"

Init ==
    /\ at = "top" /\ ready = {} /\ conn = NoConn
    /\ served = {} /\ idle = 0 /\ stop = FALSE /\ why = "none"
    /\ backlog = [v \in Volumes |-> <<>>]
    /\ client = [v \in Volumes |-> "start"]
    /\ strangers = 0
    /\ passed = [v \in Volumes |-> 0] /\ late = 0

-----------------------------------------------------------------------------
AllDone(open) == \A v \in Volumes : v \in served \cup open

\* Mutant: the backstop for volumes that never report in is missing.
FinishedOnlyWhenDone(open) == IF AllDone(open) THEN "done" ELSE "none"

\* main::finished.
Finished(open) ==
    IF AllDone(open) THEN "done" ELSE IF idle >= IdleLimit THEN "idle" ELSE "none"

\* serve returns.
Leave(reason) ==
    /\ at' = "leaving" /\ why' = reason /\ ready' = {}
    /\ UNCHANGED <<conn, served, idle>>

\* What cannot be read in sysfs counts as not open.
Top ==
    /\ at = "top"
    /\ \E open \in SUBSET {v \in Volumes : Active(v)} :
          IF Finished(open) # "none"
          THEN Leave(Finished(open))
          ELSE at' = "poll" /\ UNCHANGED <<ready, conn, served, idle, why>>
    /\ UNCHANGED <<stop, peers, historyVars>>

Pending == {v \in Volumes : backlog[v] # <<>>}

\* poll(2) returns with connections, or without any: the tick, a signal.  The
\* stop test comes before anything else, and then poll's own failure.
Poll ==
    /\ at = "poll"
    /\ \/ stop /\ Leave("stop")
       \/ ~stop /\ Leave("error")
       \/ /\ ~stop
          /\ ready' = Pending
          /\ at' = IF Pending = {} THEN "top" ELSE "batch"
          /\ UNCHANGED <<conn, served, idle, why>>
    /\ UNCHANGED <<stop, peers, historyVars>>

\* Mutant: poll again after every connection.
RepollAfter(v) == {}

\* Mutant: a listener that has had its turn is not struck off.
StillReady(v) == ready

\* What is left of the ready set once v's listener has had its turn.
ReadyAfter(v) == ready \ {v}

\* One connection per ready listener and round, the oldest.
AcceptConn(v) ==
    /\ at = "batch" /\ v \in ready
    /\ backlog[v] # <<>>
    /\ ready' = ReadyAfter(v)
    /\ at' = "handling"
    /\ conn' = [vol |-> v, kind |-> Head(backlog[v])]
    /\ backlog' = [backlog EXCEPT ![v] = Tail(@)]
    /\ passed' = [u \in Volumes |->
                    IF u = v \/ backlog[u] = <<>> THEN 0 ELSE passed[u] + 1]
    /\ late' = IF stop THEN late + 1 ELSE late
    /\ UNCHANGED <<served, idle, why, stop, client, strangers>>

\* accept(2) fails, and the connection is still there.
AcceptFails(v) ==
    /\ at = "batch" /\ v \in ready
    /\ ready' = ReadyAfter(v)
    /\ at' = "check"
    /\ passed' = [passed EXCEPT ![v] = 0]
    /\ UNCHANGED <<conn, served, idle, why, stop, peers, late>>

\* Mutant: any phase of the volume's own client counts.
CountsAnyPhase(kind) == kind # "stranger"

\* What makes handle return true.
Counts(kind) == kind = "plain"

\* handle returns.  Only a plain-phase connection is ever answered with a
\* passphrase; the zero-byte decline sends a client on to its next resort.
Handled ==
    /\ at = "handling"
    /\ at' = "check"
    /\ IF Counts(conn.kind)
       THEN served' = served \cup {conn.vol} /\ idle' = 0
       ELSE UNCHANGED <<served, idle>>
    /\ \/ /\ conn.kind = "plain"
          /\ \E result \in {"open", "own"} :
                client' = [client EXCEPT ![conn.vol] = result]
       \/ conn.kind = "token" /\ client' = [client EXCEPT ![conn.vol] = "tpm"]
       \/ conn.kind = "stranger" /\ UNCHANGED client
    /\ UNCHANGED <<ready, conn, why, stop, backlog, strangers, historyVars>>

\* Mutant: a stop waits for the rest of the ready set.
StopSeenBetweenRounds == stop /\ ready = {}

\* The stop test after each connection.
StopSeen == stop

Check ==
    /\ at = "check"
    /\ IF StopSeen
       THEN Leave("stop")
       ELSE /\ at' = IF ready = {} THEN "top" ELSE "batch"
            /\ UNCHANGED <<ready, conn, served, idle, why>>
    /\ UNCHANGED <<stop, peers, historyVars>>

\* The sockets are unlinked and the process is gone: connections still in a
\* backlog are reset, which their client takes as fatal.
Exit ==
    /\ at = "leaving"
    /\ at' = "gone"
    /\ backlog' = [v \in Volumes |-> <<>>]
    /\ client' = [v \in Volumes |->
                    IF client[v] \in Waiting THEN "failed" ELSE client[v]]
    /\ UNCHANGED <<ready, conn, served, idle, why, stop, strangers, historyVars>>

-----------------------------------------------------------------------------
\* Time passes; last_contact gets older.
Tick ==
    /\ at # "gone"
    /\ idle < IdleLimit
    /\ idle' = idle + 1
    /\ UNCHANGED <<at, ready, conn, served, why, stop, peers, historyVars>>

Terminate ==
    /\ at # "gone" /\ ~stop
    /\ stop' = TRUE
    /\ UNCHANGED <<loopVars, peers, historyVars>>

\* connect(2) to v's socket, which blocks while the backlog is full.
Connect(v, kind) ==
    /\ at # "gone"
    /\ Len(backlog[v]) < Backlog
    /\ backlog' = [backlog EXCEPT ![v] = Append(@, kind)]

\* systemd-cryptsetup tries its token phase first, the plain phase if the TPM
\* does not unlock the volume, and asks for itself when it is told nothing or
\* there is no socket.  It does not ask twice.
ClientStep(v) ==
    /\ \/ /\ client[v] = "start"
          /\ Connect(v, "token")
          /\ client' = [client EXCEPT ![v] = "token"]
       \/ /\ client[v] = "tpm"
          /\ Connect(v, "plain")
          /\ client' = [client EXCEPT ![v] = "plain"]
       \/ /\ client[v] = "tpm"
          /\ client' = [client EXCEPT ![v] = "open"]
          /\ UNCHANGED backlog
       \/ /\ client[v] \in {"start", "tpm"} /\ at = "gone"
          /\ client' = [client EXCEPT ![v] = "own"]
          /\ UNCHANGED backlog
       \/ /\ client[v] = "own"
          /\ \E result \in {"open", "failed"} :
                client' = [client EXCEPT ![v] = result]
          /\ UNCHANGED backlog
    /\ UNCHANGED <<loopVars, stop, strangers, historyVars>>

Stranger(v) ==
    /\ strangers < MaxStrangers
    /\ strangers' = strangers + 1
    /\ Connect(v, "stranger")
    /\ UNCHANGED <<loopVars, stop, client, historyVars>>

Daemon ==
    \/ Top \/ Poll \/ Handled \/ Check \/ Exit
    \/ \E v \in Volumes : AcceptConn(v) \/ AcceptFails(v)

Next ==
    \/ Daemon
    \/ Tick \/ Terminate
    \/ \E v \in Volumes : ClientStep(v) \/ Stranger(v)

Spec == Init /\ [][Next]_vars

\* The loop runs, a handling ends (PlainPhase: HandlingEnds) and time passes.
\* Nothing is promised of the clients.
FairSpec == Spec /\ WF_vars(Daemon) /\ WF_vars(Tick)

-----------------------------------------------------------------------------
TypeOK ==
    /\ at \in {"top", "poll", "batch", "handling", "check", "leaving", "gone"}
    /\ ready \subseteq Volumes
    /\ conn \in [vol : Volumes, kind : Kinds]
    /\ served \subseteq Volumes
    /\ idle \in 0..IdleLimit
    /\ stop \in BOOLEAN
    /\ why \in {"none", "done", "idle", "stop", "error"}
    /\ backlog \in [Volumes -> Seq(Kinds)]
    /\ client \in [Volumes -> {"start", "token", "tpm", "plain", "own", "open",
                               "failed"}]
    /\ passed \in [Volumes -> Nat] /\ late \in Nat /\ strangers \in Nat
    /\ at = "batch" => ready \subseteq Pending /\ ready # {}

\* When serve returns because every volume is open or answered, it hangs up on
\* nobody: no systemd-cryptsetup is left in a backlog to be reset.
NobodyCutOff ==
    why = "done" => \A v \in Volumes : client[v] \notin Waiting

\* No volume waits while another is served over and over: between a connection
\* reaching the head of its backlog and its listener's turn, every other volume
\* has at most two handled.
BoundedOvertaking ==
    \A v \in Volumes : passed[v] <= 2 * (Cardinality(Volumes) - 1)

\* After a stop at most one more connection is accepted, the one whose accept
\* the stop has raced.
StopTakesOneAtMost == late <= 1

\* The daemon does not outstay its use, with the passphrases it holds: even if
\* a volume never reports in, it exits.
DaemonLeaves == <>(at = "gone")

=============================================================================

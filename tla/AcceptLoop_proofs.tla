--------------------------- MODULE AcceptLoop_proofs ---------------------------
(***************************************************************************)
(* What AcceptLoop guarantees for every set of volumes, backlog, idle limit *)
(* and number of strangers.                                                 *)
(***************************************************************************)
EXTENDS AcceptLoop, FiniteSetTheorems, TLAPS

\* In a round, and between rounds.
Round == {"batch", "handling", "check"}

\* A listener of this round that has not had its turn has a connection waiting.
ReadyInv == at \in Round => ready \subseteq Pending

\* A systemd-cryptsetup that is in a phase is in one place: its volume's backlog,
\* once, or the connection being handled.  One whose volume has been served is
\* past all its phases.
ClientsInv ==
    /\ \A v \in Volumes : \A i \in DOMAIN backlog[v] :
         backlog[v][i] \in Waiting =>
            /\ client[v] = backlog[v][i]
            /\ \A j \in DOMAIN backlog[v] : backlog[v][j] \in Waiting => j = i
    /\ at = "handling" /\ conn.kind \in Waiting =>
         /\ client[conn.vol] = conn.kind
         /\ \A i \in DOMAIN backlog[conn.vol] : backlog[conn.vol][i] \notin Waiting
    /\ \A v \in served : client[v] \in {"open", "own", "failed"}
    /\ why = "done" => \A v \in Volumes : client[v] \in {"open", "own", "failed"}

\* Those that may still overtake v are in what is left of this round, and of the
\* next one if v is not in this.
TurnsInv ==
    /\ at # "gone" => \A v \in Volumes : backlog[v] = <<>> => passed[v] = 0
    /\ at \in {"top", "poll"} => \A v \in Volumes : passed[v] <= Cardinality(Volumes) - 1
    /\ at \in Round => \A v \in Volumes :
         IF v \in ready
         THEN passed[v] + Cardinality(ready \ {v}) <= 2 * (Cardinality(Volumes) - 1)
         ELSE passed[v] + Cardinality(ready) <= Cardinality(Volumes) - 1
    /\ BoundedOvertaking

\* The one connection is taken between the stop and the next test of it.
StopInv ==
    /\ ~stop => late = 0
    /\ at \in {"top", "poll", "batch"} => late = 0
    /\ StopTakesOneAtMost

\* The steps that are left of a turn.
TurnLeft == [handling |-> 2, check |-> 1, batch |-> 0]

\* A step of the daemon ends the round, strikes a listener off what is left of
\* it, or comes nearer to the end of a turn.  At the top and in poll there is
\* nowhere to stay either, and nobody else moves the loop.
RoundAdvances ==
    /\ Daemon /\ at \in Round =>
         \/ at' \in {"top", "leaving"}
         \/ /\ at' \in Round
            /\ \/ ready' \subseteq ready /\ ready' # ready
               \/ ready' = ready /\ TurnLeft[at'] < TurnLeft[at]
    /\ Daemon /\ at = "top" => at' \in {"poll", "leaving"}
    /\ Daemon /\ at = "poll" => at' \in {"top", "batch", "leaving"}
    /\ Daemon /\ at = "leaving" => at' = "gone"
    /\ ~Daemon => UNCHANGED <<at, ready>>

\* What keeps the daemon runs out: only a volume that is served for the first
\* time starts the clock of last_contact again, the clock never goes back
\* otherwise, and a full clock or a stop ends the daemon where it is looked at.
StayRunsOut ==
    /\ served \subseteq served'
    /\ served' = served => idle' >= idle
    /\ Tick => idle' = idle + 1 /\ served' = served
    /\ Daemon /\ at = "top" /\ idle = IdleLimit => at' = "leaving"
    /\ stop => stop' /\ (Daemon /\ at \in {"poll", "check"} => at' = "leaving")

\* A client that is in a phase is in line, or is the one being handled.
InLineInv ==
    \A v \in Volumes : client[v] \in Waiting =>
        \/ \E i \in DOMAIN backlog[v] : backlog[v][i] = client[v]
        \/ at = "handling" /\ conn = [vol |-> v, kind |-> client[v]]

\* Where the i-th connection in v's line goes with a step.
LineMoves(v, i) ==
    IF AcceptConn(v)
    THEN IF i = 1
         THEN conn' = [vol |-> v, kind |-> backlog[v][1]]
         ELSE i - 1 \in DOMAIN backlog'[v] /\ backlog'[v][i - 1] = backlog[v][i]
    ELSE at' = "gone" \/ (i \in DOMAIN backlog'[v] /\ backlog'[v][i] = backlog[v][i])

\* A connection keeps its place in line until its volume's listener has a turn,
\* which brings it one place forward, and then it is handled.  Its listener is in
\* every new round, and only its turn, accepted or failed, or the daemon's end
\* takes it out; a client that is handled stops waiting.
LineAdvances ==
    /\ \A v \in Volumes : \A i \in DOMAIN backlog[v] :
         /\ LineMoves(v, i)
         /\ at = "poll" /\ at' = "batch" => v \in ready'
         /\ v \in ready /\ v \notin ready' /\ at \in Round =>
              AcceptConn(v) \/ AcceptFails(v) \/ at' = "leaving"
    /\ Handled /\ conn.kind \in Waiting => client'[conn.vol] \notin Waiting

-----------------------------------------------------------------------------
\* There is a volume to stand for no connection.
LEMMA NoConnType == NoConn \in [vol : Volumes, kind : Kinds]
BY AcceptLoopAssumption DEF NoConn, Kinds

\* The loop keeps its types and its ready set.
LEMMA LoopInvariant == Spec => [](TypeOK /\ ReadyInv)
<1> USE AcceptLoopAssumption, NoConnType DEF TypeOK, ReadyInv, Round, Kinds, Pending
<1>1. Init => TypeOK /\ ReadyInv
  <2> SUFFICES ASSUME Init PROVE TypeOK /\ ReadyInv
    OBVIOUS
  <2>1. stop \in BOOLEAN
    BY Zenon DEF Init
  <2> QED BY <2>1 DEF Init
<1>2. TypeOK /\ ReadyInv /\ [Next]_vars => (TypeOK /\ ReadyInv)'
  <2> SUFFICES ASSUME TypeOK, ReadyInv, [Next]_vars PROVE (TypeOK /\ ReadyInv)'
    OBVIOUS
  <2> USE DEF loopVars, peers, historyVars, Leave
  <2>1. CASE Top
    <3>1. at' \in {"poll", "leaving"} /\ ready' \in {ready, {}} /\
          why' \in {why, "done", "idle"} /\ UNCHANGED <<conn, served, idle>>
      BY <2>1 DEF Top, Finished
    <3> QED BY <2>1, <3>1 DEF Top
  <2>2. CASE Poll
    <3>1. at' \in {"leaving", "top", "batch"} /\ (at' = "batch" => ready' # {}) /\
          ready' \subseteq Pending /\ why' \in {why, "stop", "error"} /\
          UNCHANGED <<conn, served, idle>>
      BY <2>2 DEF Poll
    <3> QED BY <2>2, <3>1 DEF Poll
  <2>3. ASSUME NEW v \in Volumes, AcceptConn(v) PROVE (TypeOK /\ ReadyInv)'
    <3>1. backlog[v] \in Seq(Kinds) /\ backlog[v] # <<>> /\ backlog \in [Volumes -> Seq(Kinds)]
      BY <2>3 DEF AcceptConn
    <3>2. Head(backlog[v]) \in Kinds /\ Tail(backlog[v]) \in Seq(Kinds)
      BY <3>1
    <3>3. backlog' \in [Volumes -> Seq(Kinds)] /\ conn' \in [vol : Volumes, kind : Kinds]
      BY <2>3, <3>1, <3>2 DEF AcceptConn
    <3>4. passed' \in [Volumes -> Nat] /\ late' \in Nat
      <4>1. \A u \in Volumes : passed[u] \in Nat /\ passed[u] + 1 \in Nat
        OBVIOUS
      <4>2. passed' = [u \in Volumes |-> IF u = v \/ backlog[u] = <<>> THEN 0 ELSE passed[u] + 1]
        BY <2>3, Zenon DEF AcceptConn
      <4>3. late' = late + 1 \/ late' = late
        BY <2>3, Zenon DEF AcceptConn
      <4> QED BY ONLY <4>1, <4>2, <4>3, late \in Nat
    <3>5. ready' \subseteq {u \in Volumes : backlog'[u] # <<>>}
      BY <2>3, <3>1 DEF AcceptConn, ReadyAfter
    <3> QED BY <2>3, <3>3, <3>4, <3>5 DEF AcceptConn, ReadyAfter
  <2>4. ASSUME NEW v \in Volumes, AcceptFails(v) PROVE (TypeOK /\ ReadyInv)'
    BY <2>4 DEF AcceptFails, ReadyAfter
  <2>5. CASE Handled
    <3>1. client' \in [Volumes -> {"start", "token", "tpm", "plain", "own", "open", "failed"}]
      BY <2>5 DEF Handled
    <3>2. served' \subseteq Volumes /\ idle' \in 0..IdleLimit
      BY <2>5 DEF Handled
    <3> QED BY <2>5, <3>1, <3>2 DEF Handled
  <2>6. CASE Check
    <3>1. at' \in {"leaving", "top", "batch"} /\ (at' = "batch" => ready' # {}) /\
          ready' \in {ready, {}} /\ why' \in {why, "stop"} /\
          at = "check" /\ UNCHANGED <<conn, served, idle>>
      BY <2>6 DEF Check
    <3> QED BY <2>6, <3>1 DEF Check
  <2>7. CASE Exit
    <3>1. backlog' \in [Volumes -> Seq(Kinds)]
      BY <2>7 DEF Exit
    <3>2. client' \in [Volumes -> {"start", "token", "tpm", "plain", "own", "open", "failed"}]
      BY <2>7 DEF Exit
    <3> QED BY <2>7, <3>1, <3>2 DEF Exit
  <2>8. CASE Tick
    <3>1. idle' \in 0..IdleLimit
      BY <2>8 DEF Tick
    <3> QED BY <2>8, <3>1 DEF Tick
  <2>9. CASE Terminate
    <3>1. stop' \in BOOLEAN
      BY <2>9, Zenon DEF Terminate
    <3> QED BY <2>9, <3>1 DEF Terminate
  <2>10. ASSUME NEW v \in Volumes, NEW kind \in Kinds, Connect(v, kind)
         PROVE  /\ backlog' \in [Volumes -> Seq(Kinds)]
                /\ \A u \in Volumes : backlog[u] # <<>> => backlog'[u] # <<>>
    <3>0. backlog[v] \in Seq(Kinds)
      OBVIOUS
    <3>1. Append(backlog[v], kind) \in Seq(Kinds) /\ Append(backlog[v], kind) # <<>>
      BY ONLY <3>0, kind \in Kinds
    <3> QED BY <2>10, <3>1 DEF Connect
  <2>11. ASSUME NEW v \in Volumes, ClientStep(v) PROVE (TypeOK /\ ReadyInv)'
    <3>1. /\ backlog' \in [Volumes -> Seq(Kinds)]
          /\ \A u \in Volumes : backlog[u] # <<>> => backlog'[u] # <<>>
      BY <2>10, <2>11, SMTT(40) DEF ClientStep
    <3>2. client' \in [Volumes -> {"start", "token", "tpm", "plain", "own", "open", "failed"}]
      <4>1. \E phase \in {"token", "plain", "own", "open", "failed"} :
                client' = [client EXCEPT ![v] = phase]
        BY <2>11, Zenon DEF ClientStep
      <4> QED BY <4>1
    <3> QED BY <2>11, <3>1, <3>2 DEF ClientStep
  <2>12. ASSUME NEW v \in Volumes, Stranger(v) PROVE (TypeOK /\ ReadyInv)'
    <3>1. /\ backlog' \in [Volumes -> Seq(Kinds)]
          /\ \A u \in Volumes : backlog[u] # <<>> => backlog'[u] # <<>>
      BY <2>10, <2>12 DEF Stranger
    <3>2. strangers' \in Nat /\ UNCHANGED <<loopVars, stop, client, historyVars>>
      BY <2>12 DEF Stranger
    <3> QED BY <3>1, <3>2
  <2>13. CASE UNCHANGED vars BY <2>13 DEF vars
  <2> QED BY <2>1, <2>2, <2>3, <2>4, <2>5, <2>6, <2>7, <2>8, <2>9, <2>11, <2>12,
          <2>13 DEF Next, Daemon
<1> QED BY <1>1, <1>2, PTL DEF Spec

\* Every variable keeps its type.
THEOREM LoopTypeCorrect == Spec => []TypeOK
BY LoopInvariant, PTL

-----------------------------------------------------------------------------
\* No more than one connection is accepted after a stop.
THEOREM StopTakesOne == Spec => []StopTakesOneAtMost
<1> USE DEF StopInv, StopTakesOneAtMost, TypeOK
<1>1. Init => StopInv
  BY DEF Init
<1>2. TypeOK /\ StopInv /\ [Next]_vars => StopInv'
  <2> SUFFICES ASSUME TypeOK, StopInv, [Next]_vars PROVE StopInv'
    OBVIOUS
  <2> USE DEF loopVars, peers, historyVars, Leave
  <2>1. CASE Top \/ Poll
    <3>1. at \in {"top", "poll"} /\ UNCHANGED <<stop, late>>
      BY <2>1 DEF Top, Poll
    <3> QED BY <3>1
  <2>2. ASSUME NEW v \in Volumes, AcceptConn(v) PROVE StopInv'
    <3>1. late = 0 /\ at' = "handling" /\ UNCHANGED stop
      BY <2>2 DEF AcceptConn
    <3>2. late' = IF stop THEN late + 1 ELSE late
      BY <2>2 DEF AcceptConn
    <3> QED BY <3>1, <3>2
  <2>3. ASSUME NEW v \in Volumes, AcceptFails(v) PROVE StopInv'
    BY <2>3 DEF AcceptFails
  <2>4. CASE Handled BY <2>4 DEF Handled
  <2>5. CASE Check
    <3>1. at' = "leaving" \/ ~stop
      BY <2>5, Zenon DEF Check, StopSeen
    <3>2. UNCHANGED <<stop, late>>
      BY <2>5 DEF Check
    <3> QED BY <3>1, <3>2
  <2>6. CASE Exit BY <2>6 DEF Exit
  <2>7. CASE Tick BY <2>7 DEF Tick
  <2>8. CASE Terminate
    <3>1. stop' /\ UNCHANGED <<at, late>>
      BY <2>8, Zenon DEF Terminate
    <3> QED BY <3>1
  <2>9. CASE \E v \in Volumes : ClientStep(v) \/ Stranger(v)
    BY <2>9 DEF ClientStep, Stranger
  <2>10. CASE UNCHANGED vars BY <2>10 DEF vars
  <2> QED BY <2>1, <2>2, <2>3, <2>4, <2>5, <2>6, <2>7, <2>8, <2>9, <2>10 DEF Next, Daemon
<1>3. StopInv => StopTakesOneAtMost
  BY DEF StopInv
<1> QED BY <1>1, <1>2, <1>3, LoopInvariant, PTL DEF Spec

-----------------------------------------------------------------------------
\* What is in a backlog after a connection has been taken from its head, or has
\* been added at its end.
LEMMA BacklogChanges ==
    ASSUME NEW s \in Seq(Kinds), NEW k \in Kinds
    PROVE  /\ \A i \in DOMAIN Append(s, k) :
                \/ i \in DOMAIN s /\ Append(s, k)[i] = s[i]
                \/ i = Len(s) + 1 /\ Append(s, k)[i] = k
           /\ s # <<>> =>
                /\ Head(s) = s[1] /\ 1 \in DOMAIN s
                /\ \A i \in DOMAIN Tail(s) :
                      i + 1 \in DOMAIN s /\ i + 1 # 1 /\ Tail(s)[i] = s[i + 1]
OBVIOUS

\* Where clients are stays in line with how far they are.
LEMMA ClientsInvariant == Spec => []ClientsInv
<1> USE DEF ClientsInv, Waiting
<1>1. Init => ClientsInv
  BY DEF Init
<1>2. TypeOK /\ ClientsInv /\ [Next]_vars => ClientsInv'
  <2> SUFFICES ASSUME TypeOK, ClientsInv, [Next]_vars PROVE ClientsInv'
    OBVIOUS
  <2> USE DEF loopVars, peers, historyVars, Leave
  <2>1. CASE Top
    <3>1. why' = "done" => why = "done" \/
            \E open \in SUBSET {v \in Volumes : Active(v)} : AllDone(open)
      BY <2>1 DEF Top, Finished
    <3>2. why' = "done" => \A v \in Volumes : client[v] \in {"open", "own", "failed"}
      BY <3>1 DEF AllDone, Active
    <3>3. at' # "handling" /\ UNCHANGED <<backlog, client, served>>
      BY <2>1 DEF Top
    <3> QED BY <3>2, <3>3
  <2>2. CASE Poll \/ Check
    <3>1. at' # "handling" /\ why' \in {why, "stop", "error"} /\ UNCHANGED <<backlog, client, served>>
      BY <2>2 DEF Poll, Check
    <3> QED BY <3>1
  <2>3. ASSUME NEW v \in Volumes, AcceptConn(v) PROVE ClientsInv'
    <3>0. backlog[v] \in Seq(Kinds) /\ backlog[v] # <<>> /\ "plain" \in Kinds
      BY <2>3 DEF AcceptConn, TypeOK, Kinds
    <3>1. /\ Head(backlog[v]) = backlog[v][1] /\ 1 \in DOMAIN backlog[v]
          /\ \A i \in DOMAIN Tail(backlog[v]) :
                i + 1 \in DOMAIN backlog[v] /\ i + 1 # 1 /\ Tail(backlog[v])[i] = backlog[v][i + 1]
      BY <3>0, BacklogChanges
    <3>2. /\ conn' = [vol |-> v, kind |-> backlog[v][1]]
          /\ backlog' = [backlog EXCEPT ![v] = Tail(@)]
          /\ UNCHANGED <<client, served, why>>
      BY <2>3, <3>1 DEF AcceptConn
    <3>3. backlog'[v] = Tail(backlog[v]) /\ \A u \in Volumes : u # v => backlog'[u] = backlog[u]
      BY <3>2 DEF TypeOK
    <3>4. \A i \in DOMAIN backlog'[v] : backlog'[v][i] \in Waiting =>
            /\ client[v] = backlog'[v][i]
            /\ \A j \in DOMAIN backlog'[v] : backlog'[v][j] \in Waiting => j = i
      <4> TAKE i \in DOMAIN backlog'[v]
      <4> HAVE backlog'[v][i] \in Waiting
      <4>1. i + 1 \in DOMAIN backlog[v] /\ backlog'[v][i] = backlog[v][i + 1]
        BY <3>1, <3>3
      <4>2. ASSUME NEW j \in DOMAIN backlog'[v], backlog'[v][j] \in Waiting PROVE j = i
        <5>1. j + 1 \in DOMAIN backlog[v] /\ backlog'[v][j] = backlog[v][j + 1]
          BY <3>1, <3>3
        <5>2. j + 1 = i + 1
          BY <4>1, <4>2, <5>1
        <5>3. i \in Nat /\ j \in Nat
          BY <3>0, <3>3
        <5> QED BY <5>2, <5>3
      <4> QED BY <4>1, <4>2
    <3>5. backlog[v][1] \in Waiting =>
            client[v] = backlog[v][1] /\ \A i \in DOMAIN backlog'[v] : backlog'[v][i] \notin Waiting
      BY <3>1, <3>3
    <3> QED BY <3>2, <3>3, <3>4, <3>5
  <2>4. ASSUME NEW v \in Volumes, AcceptFails(v) PROVE ClientsInv'
    BY <2>4 DEF AcceptFails
  <2>5. CASE Handled
    <3>1. at' = "check" /\ UNCHANGED <<backlog, why>> /\ conn.vol \in Volumes
      BY <2>5 DEF Handled, TypeOK
    <3>2. CASE conn.kind \in Waiting
      <4>1. \A u \in Volumes : u # conn.vol => client'[u] = client[u]
        BY <2>5, <3>2 DEF Handled, TypeOK
      <4>2. client[conn.vol] \in Waiting
            /\ \A i \in DOMAIN backlog[conn.vol] : backlog[conn.vol][i] \notin Waiting
        BY <2>5, <3>2 DEF Handled
      <4>3. why # "done" /\ conn.vol \notin served
        BY <3>1, <4>2
      <4>4. conn.kind = "plain" => client'[conn.vol] \in {"open", "own"}
        BY <2>5 DEF Handled, TypeOK
      <4>5. served' = IF conn.kind = "plain" THEN served \cup {conn.vol} ELSE served
        BY <2>5 DEF Handled, Counts
      <4>6. served \subseteq Volumes
        BY DEF TypeOK
      <4> QED BY <3>1, <4>1, <4>2, <4>3, <4>4, <4>5, <4>6
    <3>3. CASE conn.kind = "stranger"
      BY <2>5, <3>1, <3>3 DEF Handled, Counts
    <3> QED BY <3>2, <3>3 DEF TypeOK, Kinds
  <2>6. CASE Exit
    <3>1. /\ \A v \in Volumes : backlog'[v] = <<>>
          /\ \A v \in Volumes : client'[v] = IF client[v] \in Waiting THEN "failed" ELSE client[v]
          /\ at' = "gone" /\ UNCHANGED <<served, why>> /\ served \subseteq Volumes
      BY <2>6 DEF Exit, TypeOK
    <3> QED BY <3>1
  <2>7. CASE Tick \/ Terminate BY <2>7 DEF Tick, Terminate
  <2>8. ASSUME NEW v \in Volumes, NEW kind \in Kinds, Connect(v, kind)
        PROVE  /\ \A u \in Volumes : u # v => backlog'[u] = backlog[u]
               /\ \A i \in DOMAIN backlog'[v] :
                    \/ i \in DOMAIN backlog[v] /\ backlog'[v][i] = backlog[v][i]
                    \/ i = Len(backlog[v]) + 1 /\ backlog'[v][i] = kind
    <3>1. backlog[v] \in Seq(Kinds) /\ backlog'[v] = Append(backlog[v], kind)
      BY <2>8 DEF Connect, TypeOK
    <3>2. \A u \in Volumes : u # v => backlog'[u] = backlog[u]
      BY <2>8 DEF Connect, TypeOK
    <3> QED BY <3>1, <3>2, BacklogChanges
  <2>9. ASSUME NEW v \in Volumes, ClientStep(v) PROVE ClientsInv'
    <3>1. UNCHANGED <<at, conn, served, why>>
      BY <2>9 DEF ClientStep
    <3>2. \A u \in Volumes : u # v => client'[u] = client[u]
      BY <2>9 DEF ClientStep, TypeOK
    <3>3. ASSUME NEW kind \in Waiting, client[v] \notin Waiting, client[v] \in {"start", "tpm"},
                 Connect(v, kind), client' = [client EXCEPT ![v] = kind]
          PROVE  ClientsInv'
      <4>1. client'[v] = kind /\ kind \in Kinds
        BY <3>3 DEF TypeOK, Kinds
      <4>2. \A i \in DOMAIN backlog[v] : backlog[v][i] \notin Waiting
        BY <3>3
      <4>3. v \notin served /\ why # "done" /\ ~(at = "handling" /\ conn.kind \in Waiting /\ conn.vol = v)
        BY <3>3
      <4>4. /\ \A u \in Volumes : u # v => backlog'[u] = backlog[u]
            /\ \A i \in DOMAIN backlog'[v] : backlog'[v][i] \in Waiting =>
                    i = Len(backlog[v]) + 1 /\ backlog'[v][i] = kind
        BY <2>8, <3>3, <4>1, <4>2
      <4>5. served \subseteq Volumes /\ conn.vol \in Volumes
        BY DEF TypeOK
      <4> QED BY <3>1, <3>2, <4>1, <4>3, <4>4, <4>5
    <3>4. ASSUME UNCHANGED backlog, client[v] \notin Waiting,
                 client'[v] \in {"open", "own", "failed"}
          PROVE  ClientsInv'
      <4>1. \A i \in DOMAIN backlog[v] : backlog[v][i] \notin Waiting
        BY <3>4
      <4>2. ~(at = "handling" /\ conn.kind \in Waiting /\ conn.vol = v)
        BY <3>4
      <4>3. served \subseteq Volumes /\ conn.vol \in Volumes
        BY DEF TypeOK
      <4> QED BY <3>1, <3>2, <3>4, <4>1, <4>2, <4>3
    <3>5. CASE client[v] = "start" /\ Connect(v, "token") /\ client' = [client EXCEPT ![v] = "token"]
      BY <3>3, <3>5
    <3>6. CASE client[v] = "tpm" /\ Connect(v, "plain") /\ client' = [client EXCEPT ![v] = "plain"]
      BY <3>3, <3>6
    <3>7. CASE /\ client[v] \in {"start", "tpm", "own"} /\ UNCHANGED backlog
               /\ \E r \in {"open", "own", "failed"} : client' = [client EXCEPT ![v] = r]
      BY <3>4, <3>7 DEF TypeOK
    <3> QED BY <2>9, <3>5, <3>6, <3>7 DEF ClientStep
  <2>10. ASSUME NEW v \in Volumes, Stranger(v) PROVE ClientsInv'
    <3>1. UNCHANGED <<at, conn, served, why, client>>
      BY <2>10 DEF Stranger
    <3>2. "stranger" \in Kinds /\ "stranger" \notin Waiting
      BY DEF Kinds
    <3>3. /\ \A u \in Volumes : u # v => backlog'[u] = backlog[u]
          /\ \A i \in DOMAIN backlog'[v] : backlog'[v][i] \in Waiting =>
                i \in DOMAIN backlog[v] /\ backlog'[v][i] = backlog[v][i]
      BY <2>8, <2>10, <3>2 DEF Stranger
    <3>4. conn.vol \in Volumes
      BY DEF TypeOK
    <3> QED BY <3>1, <3>3, <3>4
  <2>11. CASE UNCHANGED vars BY <2>11 DEF vars
  <2> QED BY <2>1, <2>2, <2>3, <2>4, <2>5, <2>6, <2>7, <2>9, <2>10, <2>11 DEF Next, Daemon
<1> QED BY <1>1, <1>2, LoopInvariant, PTL DEF Spec

\* A daemon that leaves because it is done cuts nobody off.
THEOREM NobodyIsCutOff == Spec => []NobodyCutOff
<1>1. ClientsInv => NobodyCutOff
  BY DEF ClientsInv, NobodyCutOff, Waiting
<1> QED BY <1>1, ClientsInvariant, PTL

-----------------------------------------------------------------------------
\* The sizes of ready sets without one listener.
LEMMA ReadySizes ==
    ASSUME NEW S \in SUBSET Volumes, NEW v \in Volumes
    PROVE  /\ Cardinality(Volumes) \in Nat \ {0}
           /\ Cardinality(S) \in Nat /\ Cardinality(S \ {v}) \in Nat
           /\ Cardinality(S \ {v}) <= Cardinality(Volumes) - 1
           /\ v \in S => Cardinality(S \ {v}) = Cardinality(S) - 1
           /\ v \notin S => S \ {v} = S
           /\ Cardinality({}) = 0
<1>1. IsFiniteSet(Volumes) /\ IsFiniteSet(S) /\ IsFiniteSet(Volumes \ {v})
  BY AcceptLoopAssumption, FS_Subset
<1>2. Cardinality(Volumes \ {v}) = Cardinality(Volumes) - 1
  BY <1>1, FS_RemoveElement
<1>3. IsFiniteSet(S \ {v}) /\ Cardinality(S \ {v}) <= Cardinality(Volumes \ {v})
  <2>1. S \ {v} \subseteq Volumes \ {v}
    OBVIOUS
  <2> QED BY <1>1, <2>1, FS_Subset
<1>4. Cardinality(Volumes) \in Nat /\ Cardinality(S) \in Nat /\ Cardinality(S \ {v}) \in Nat
      /\ Cardinality(Volumes \ {v}) \in Nat
  BY <1>1, <1>3, FS_CardinalityType
<1>5. v \in S => Cardinality(S \ {v}) = Cardinality(S) - 1
  BY <1>1, FS_RemoveElement
<1>6. Cardinality({}) = 0
  BY FS_EmptySet
<1>7. v \notin S => S \ {v} = S
  OBVIOUS
<1> QED BY <1>2, <1>3, <1>4, <1>5, <1>6, <1>7

\* What a turn does to the two sums of TurnsInv: whoever waits on gains at most
\* one overtaking, and the ready set loses one listener.
LEMMA TurnTaken ==
    ASSUME TypeOK, TurnsInv, at = "batch", ReadyInv,
           NEW v \in ready, ready' = ready \ {v},
           NEW p \in [Volumes -> Nat], p[v] = 0,
           NEW u \in Volumes, p[u] = 0 \/ p[u] <= passed[u] + 1
    PROVE  /\ u \in ready \ {v} =>
                p[u] + Cardinality((ready \ {v}) \ {u}) <= 2 * (Cardinality(Volumes) - 1)
           /\ u \notin ready \ {v} =>
                p[u] + Cardinality(ready \ {v}) <= Cardinality(Volumes) - 1
           /\ p[u] <= 2 * (Cardinality(Volumes) - 1)
<1> DEFINE N == Cardinality(Volumes)
<1>0. v \in Volumes /\ ready \in SUBSET Volumes /\ p[u] \in Nat /\ passed[u] \in Nat
  BY DEF TypeOK
<1>1. /\ N \in Nat \ {0} /\ Cardinality(ready) \in Nat /\ Cardinality(ready \ {v}) \in Nat
      /\ Cardinality(ready \ {v}) <= N - 1
      /\ Cardinality(ready \ {v}) = Cardinality(ready) - 1
  BY <1>0, ReadySizes
<1>2. /\ Cardinality((ready \ {v}) \ {u}) \in Nat
      /\ Cardinality((ready \ {v}) \ {u}) <= N - 1
  BY <1>0, ReadySizes
<1>3. CASE u \in ready \ {v}
  <2>1. v \in ready \ {u} /\ (ready \ {v}) \ {u} = (ready \ {u}) \ {v}
    BY <1>3
  <2>2. Cardinality((ready \ {u}) \ {v}) = Cardinality(ready \ {u}) - 1
        /\ Cardinality(ready \ {u}) \in Nat
    BY <1>0, <2>1, ReadySizes
  <2>3. passed[u] + Cardinality(ready \ {u}) <= 2 * (N - 1)
    BY <1>3 DEF TurnsInv, Round
  <2>4. Cardinality((ready \ {v}) \ {u}) = Cardinality(ready \ {u}) - 1
    BY <2>1, <2>2
  <2>5. p[u] + Cardinality((ready \ {v}) \ {u}) <= 2 * (N - 1)
    BY <1>0, <1>1, <1>2, <2>2, <2>3, <2>4
  <2> QED BY <1>0, <1>1, <1>2, <1>3, <2>5
<1>4. CASE u \notin ready \ {v}
  <2>1. p[u] + Cardinality(ready \ {v}) <= N - 1
    <3>1. CASE p[u] = 0
      BY <1>1, <3>1
    <3>2. CASE p[u] # 0
      <4>1. u \notin ready
        BY <1>4, <3>2
      <4>2. passed[u] + Cardinality(ready) <= N - 1
        BY <4>1 DEF TurnsInv, Round
      <4> QED BY <1>0, <1>1, <3>2, <4>2
    <3> QED BY <3>1, <3>2
  <2> QED BY <1>0, <1>1, <1>4, <2>1
<1> QED BY <1>3, <1>4

\* No volume is overtaken more than twice by each other volume.
THEOREM OvertakingIsBounded == Spec => []BoundedOvertaking
<1> DEFINE N == Cardinality(Volumes)
<1>0. N \in Nat \ {0} /\ Cardinality({}) = 0
  <2>1. PICK v \in Volumes : TRUE
    BY AcceptLoopAssumption
  <2> QED BY <2>1, ReadySizes
<1>1. Init => TurnsInv
  <2> SUFFICES ASSUME Init PROVE TurnsInv
    OBVIOUS
  <2>1. at = "top" /\ \A v \in Volumes : passed[v] = 0
    BY DEF Init
  <2> QED BY <1>0, <2>1 DEF TurnsInv, Round, BoundedOvertaking
<1>2. TypeOK /\ ReadyInv /\ TurnsInv /\ TypeOK' /\ [Next]_vars => TurnsInv'
  <2> SUFFICES ASSUME TypeOK, ReadyInv, TurnsInv, TypeOK', [Next]_vars PROVE TurnsInv'
    OBVIOUS
  <2> USE DEF loopVars, peers, historyVars, Leave
  <2>0. /\ passed \in [Volumes -> Nat] /\ passed' \in [Volumes -> Nat]
        /\ ready \in SUBSET Volumes /\ ready' \in SUBSET Volumes
    BY DEF TypeOK
  <2>1. CASE Top
    <3>1. /\ at = "top" /\ at' \in {"poll", "leaving"} /\ UNCHANGED <<passed, backlog>>
      BY <2>1 DEF Top
    <3> QED BY <3>1 DEF TurnsInv, Round, BoundedOvertaking
  <2>2. CASE Poll
    <3>1. /\ at = "poll" /\ UNCHANGED <<passed, backlog>>
          /\ at' \in {"top", "leaving"} \/ (at' = "batch" /\ ready' = Pending)
      BY <2>2 DEF Poll
    <3>2. ASSUME at' = "batch", ready' = Pending, NEW u \in Volumes
          PROVE  IF u \in Pending
                 THEN passed[u] + Cardinality(Pending \ {u}) <= 2 * (N - 1)
                 ELSE passed[u] + Cardinality(Pending) <= N - 1
      <4>1. /\ Cardinality(Pending \ {u}) \in Nat /\ Cardinality(Pending \ {u}) <= N - 1
            /\ u \notin Pending => Pending \ {u} = Pending
        <5>1. Pending \in SUBSET Volumes
          BY DEF Pending
        <5> QED BY <5>1, ReadySizes
      <4>2. passed[u] <= N - 1 /\ passed[u] \in Nat
        BY <2>0, <3>1 DEF TurnsInv
      <4>3. u \notin Pending => passed[u] = 0
        BY <3>1 DEF TurnsInv, Pending
      <4>4. CASE u \in Pending
        BY <1>0, <4>1, <4>2, <4>4
      <4>5. CASE u \notin Pending
        <5>1. Cardinality(Pending) \in Nat /\ Cardinality(Pending) <= N - 1 /\ passed[u] = 0
          BY <4>1, <4>3, <4>5
        <5> QED BY <1>0, <4>5, <5>1
      <4> QED BY <4>4, <4>5
    <3>3. at' # "gone" /\ at # "gone" /\ BoundedOvertaking'
      BY <3>1 DEF TurnsInv, BoundedOvertaking
    <3>4. CASE at' = "batch" /\ ready' = Pending
      BY <3>1, <3>2, <3>3, <3>4 DEF TurnsInv, Round
    <3>5. CASE at' \in {"top", "leaving"}
      BY <3>1, <3>3, <3>5 DEF TurnsInv, Round
    <3> QED BY <3>1, <3>4, <3>5
  <2>3. ASSUME NEW v \in Volumes, at = "batch", v \in ready, ready' = ready \ {v},
               at' \in {"handling", "check"}, passed'[v] = 0,
               \A u \in Volumes : passed'[u] = 0 \/ passed'[u] <= passed[u] + 1,
               \A u \in Volumes : backlog'[u] = <<>> => passed'[u] = 0
        PROVE  TurnsInv'
    <3>1. \A u \in Volumes :
            /\ u \in ready \ {v} =>
                passed'[u] + Cardinality((ready \ {v}) \ {u}) <= 2 * (N - 1)
            /\ u \notin ready \ {v} =>
                passed'[u] + Cardinality(ready \ {v}) <= N - 1
            /\ passed'[u] <= 2 * (N - 1)
      BY <2>0, <2>3, TurnTaken
    <3> QED BY <2>3, <3>1 DEF TurnsInv, Round, BoundedOvertaking
  <2>4. ASSUME NEW v \in Volumes, AcceptConn(v) PROVE TurnsInv'
    <3>1. /\ at = "batch" /\ at' = "handling" /\ v \in ready /\ ready' = ready \ {v}
          /\ passed'[v] = 0
          /\ \A u \in Volumes : passed'[u] = 0 \/ passed'[u] <= passed[u] + 1
      BY <2>0, <2>4 DEF AcceptConn, ReadyAfter
    <3>2. \A u \in Volumes : backlog'[u] = <<>> => passed'[u] = 0
      <4>1. \A u \in Volumes : u # v => backlog'[u] = backlog[u]
        BY <2>4 DEF AcceptConn, TypeOK
      <4> QED BY <2>4, <3>1, <4>1 DEF AcceptConn
    <3> QED BY <2>3, <3>1, <3>2
  <2>5. ASSUME NEW v \in Volumes, AcceptFails(v) PROVE TurnsInv'
    <3>1. /\ at = "batch" /\ at' = "check" /\ v \in ready /\ ready' = ready \ {v}
          /\ UNCHANGED backlog
          /\ \A u \in Volumes : passed'[u] = IF u = v THEN 0 ELSE passed[u]
      BY <2>0, <2>5 DEF AcceptFails, ReadyAfter
    <3>2. \A u \in Volumes : passed'[u] = 0 \/ passed'[u] <= passed[u] + 1
      BY <2>0, <3>1
    <3>3. \A u \in Volumes : backlog'[u] = <<>> => passed'[u] = 0
      BY <3>1 DEF TurnsInv
    <3> QED BY <2>3, <3>1, <3>2, <3>3
  <2>6. CASE Handled
    <3>1. at = "handling" /\ at' = "check" /\ UNCHANGED <<ready, passed, backlog>>
      BY <2>6 DEF Handled
    <3> QED BY <3>1 DEF TurnsInv, Round, BoundedOvertaking
  <2>7. CASE Check
    <3>1. /\ at = "check" /\ UNCHANGED <<passed, backlog>>
          /\ \/ at' = "leaving"
             \/ at' = "batch" /\ ready' = ready
             \/ at' = "top" /\ ready = {}
      BY <2>7 DEF Check
    <3>2. BoundedOvertaking' /\ \A u \in Volumes : backlog'[u] = <<>> => passed'[u] = 0
      BY <3>1 DEF TurnsInv, BoundedOvertaking
    <3>3. CASE at' = "top" /\ ready = {}
      <4>1. \A u \in Volumes : passed[u] + Cardinality({}) <= N - 1
        BY <3>1, <3>3 DEF TurnsInv, Round
      <4>2. \A u \in Volumes : passed'[u] <= N - 1
        BY <1>0, <2>0, <3>1, <4>1
      <4> QED BY <3>2, <3>3, <4>2 DEF TurnsInv, Round
    <3>4. CASE at' = "leaving"
      BY <3>2, <3>4 DEF TurnsInv, Round
    <3>5. CASE at' = "batch" /\ ready' = ready
      BY <3>1, <3>2, <3>5 DEF TurnsInv, Round
    <3> QED BY <3>1, <3>3, <3>4, <3>5
  <2>8. CASE Exit
    <3>1. at' = "gone" /\ UNCHANGED passed
      BY <2>8 DEF Exit
    <3> QED BY <3>1 DEF TurnsInv, Round, BoundedOvertaking
  <2>9. CASE Tick \/ Terminate
    <3>1. UNCHANGED <<at, ready, passed, backlog>>
      BY <2>9 DEF Tick, Terminate
    <3> QED BY <3>1 DEF TurnsInv, Round, BoundedOvertaking
  <2>10. ASSUME NEW v \in Volumes, ClientStep(v) \/ Stranger(v) PROVE TurnsInv'
    <3>1. UNCHANGED <<at, ready, passed>>
      BY <2>10 DEF ClientStep, Stranger
    <3>2. ASSUME NEW kind \in Kinds, Connect(v, kind)
          PROVE  \A u \in Volumes : backlog'[u] = <<>> => backlog[u] = <<>>
      <4>1. backlog[v] \in Seq(Kinds)
        BY DEF TypeOK
      <4>2. Append(backlog[v], kind) # <<>>
        BY ONLY <4>1, kind \in Kinds
      <4> QED BY <3>2, <4>2 DEF Connect, TypeOK
    <3>3. \A u \in Volumes : backlog'[u] = <<>> => backlog[u] = <<>>
      BY <2>10, <3>2 DEF ClientStep, Stranger, Kinds
    <3> QED BY <3>1, <3>3 DEF TurnsInv, Round, BoundedOvertaking
  <2>11. CASE UNCHANGED vars
    BY <2>11 DEF vars, TurnsInv, Round, BoundedOvertaking
  <2> QED BY <2>1, <2>2, <2>4, <2>5, <2>6, <2>7, <2>8, <2>9, <2>10, <2>11 DEF Next, Daemon
<1>3. TurnsInv => BoundedOvertaking
  BY DEF TurnsInv
<1> QED BY <1>1, <1>2, <1>3, LoopInvariant, PTL DEF Spec

-----------------------------------------------------------------------------
\* Rounds come to their end: with every step of the daemon a listener is struck
\* off or a turn comes nearer to its end, and with nobody else's.
THEOREM RoundsAdvance == Spec => [][RoundAdvances]_vars
<1>1. [Next]_vars => [RoundAdvances]_vars
  <2> SUFFICES ASSUME Next PROVE RoundAdvances
    OBVIOUS
  <2> USE DEF loopVars, peers, historyVars, Leave, Round, TurnLeft
  <2>1. CASE Top
    <3>1. Daemon /\ at = "top" /\ at' \in {"poll", "leaving"}
      BY <2>1 DEF Top, Daemon
    <3> QED BY <3>1 DEF RoundAdvances
  <2>2. CASE Poll
    <3>1. Daemon /\ at = "poll" /\ at' \in {"top", "batch", "leaving"}
      BY <2>2 DEF Poll, Daemon
    <3> QED BY <3>1 DEF RoundAdvances
  <2>3. ASSUME NEW v \in Volumes, AcceptConn(v) \/ AcceptFails(v) PROVE RoundAdvances
    <3>1. at = "batch" /\ at' \in {"handling", "check"} /\ v \in ready /\ ready' = ready \ {v}
      BY <2>3 DEF AcceptConn, AcceptFails, ReadyAfter
    <3>2. Daemon
      BY <2>3 DEF Daemon
    <3> QED BY <3>1, <3>2 DEF RoundAdvances
  <2>4. CASE Handled
    <3>1. Daemon /\ at = "handling" /\ at' = "check" /\ ready' = ready
      BY <2>4 DEF Handled, Daemon
    <3> QED BY <3>1 DEF RoundAdvances
  <2>5. CASE Check
    <3>1. Daemon /\ at = "check" /\ (at' \in {"leaving", "top"} \/ (at' = "batch" /\ ready' = ready))
      BY <2>5 DEF Check, Daemon
    <3> QED BY <3>1 DEF RoundAdvances
  <2>6. CASE Exit
    <3>1. Daemon /\ at = "leaving" /\ at' = "gone"
      BY <2>6 DEF Exit, Daemon
    <3> QED BY <3>1 DEF RoundAdvances
  <2>7. CASE ~Daemon
    <3>1. UNCHANGED <<at, ready>>
      BY <2>7 DEF Next, Tick, Terminate, ClientStep, Stranger
    <3> QED BY <2>7, <3>1 DEF RoundAdvances
  <2> QED BY <2>1, <2>2, <2>3, <2>4, <2>5, <2>6, <2>7 DEF Daemon
<1> QED BY <1>1, PTL DEF Spec

\* The daemon's stay runs out: last_contact starts again once a volume at most.
THEOREM StaysRunOut == Spec => [][StayRunsOut]_vars
<1>1. TypeOK /\ ClientsInv /\ [Next]_vars => [StayRunsOut]_vars
  <2> SUFFICES ASSUME TypeOK, ClientsInv, Next PROVE StayRunsOut
    OBVIOUS
  <2> USE DEF loopVars, peers, historyVars, Leave
  <2>0. idle \in 0..IdleLimit /\ IdleLimit \in Nat /\ served \subseteq Volumes
    BY AcceptLoopAssumption DEF TypeOK
  <2>1. served \subseteq served' /\ (served' = served => idle' >= idle)
    <3>1. CASE Handled
      <4>1. served' = served \cup {conn.vol} \/ UNCHANGED <<served, idle>>
        BY <3>1 DEF Handled
      <4>2. conn.kind = "plain" => conn.vol \notin served
        BY <3>1 DEF Handled, ClientsInv, Waiting
      <4>3. conn.kind # "plain" => UNCHANGED <<served, idle>>
        BY <3>1 DEF Handled, Counts
      <4> QED BY <2>0, <4>1, <4>2, <4>3
    <3>2. CASE Tick
      BY <2>0, <3>2 DEF Tick
    <3>3. CASE Top \/ Poll \/ Check \/ Exit \/ Terminate
      <4>1. UNCHANGED <<served, idle>>
        BY <3>3 DEF Top, Poll, Check, Exit, Terminate
      <4> QED BY <2>0, <4>1
    <3>4. CASE \E v \in Volumes : AcceptConn(v) \/ AcceptFails(v) \/ ClientStep(v) \/ Stranger(v)
      <4>1. UNCHANGED <<served, idle>>
        BY <3>4 DEF AcceptConn, AcceptFails, ClientStep, Stranger
      <4> QED BY <2>0, <4>1
    <3> QED BY <3>1, <3>2, <3>3, <3>4 DEF Next, Daemon
  <2>2. Tick => idle' = idle + 1 /\ served' = served
    BY DEF Tick
  <2>3. Daemon /\ at = "top" /\ idle = IdleLimit => at' = "leaving"
    <3> SUFFICES ASSUME Daemon, at = "top", idle = IdleLimit PROVE at' = "leaving"
      OBVIOUS
    <3>1. Top
      BY DEF Daemon, Poll, AcceptConn, AcceptFails, Handled, Check, Exit
    <3>2. \A open : Finished(open) # "none"
      BY <2>0 DEF Finished
    <3> QED BY <3>1, <3>2 DEF Top
  <2>4. stop => stop'
    <3>1. UNCHANGED stop \/ stop'
      BY Zenon DEF Next, Daemon, Top, Poll, Handled, Check, Exit, AcceptConn, AcceptFails,
            Tick, Terminate, ClientStep, Stranger
    <3> QED BY <3>1
  <2>5. stop /\ Daemon /\ at \in {"poll", "check"} => at' = "leaving"
    <3> SUFFICES ASSUME stop, Daemon, at \in {"poll", "check"} PROVE at' = "leaving"
      OBVIOUS
    <3>1. Poll \/ Check
      BY DEF Daemon, Top, AcceptConn, AcceptFails, Handled, Exit
    <3> QED BY <3>1 DEF Poll, Check, StopSeen
  <2> QED BY <2>1, <2>2, <2>3, <2>4, <2>5 DEF StayRunsOut
<1> QED BY <1>1, LoopInvariant, ClientsInvariant, PTL DEF Spec

\* What the actions of the peers do to the lines: nobody loses a place, and who
\* connects has one.
LEMMA LinesGrow ==
    ASSUME TypeOK, NEW v \in Volumes, NEW kind \in Kinds, Connect(v, kind)
    PROVE  /\ \A u \in Volumes : \A i \in DOMAIN backlog[u] :
                i \in DOMAIN backlog'[u] /\ backlog'[u][i] = backlog[u][i]
           /\ \E i \in DOMAIN backlog'[v] : backlog'[v][i] = kind
<1>1. backlog[v] \in Seq(Kinds) /\ backlog'[v] = Append(backlog[v], kind)
  BY DEF Connect, TypeOK
<1>2. \A u \in Volumes : u # v => backlog'[u] = backlog[u]
  BY DEF Connect, TypeOK
<1>3. \A i \in DOMAIN backlog[v] : i \in DOMAIN backlog'[v] /\ backlog'[v][i] = backlog[v][i]
  BY <1>1
<1>4. Len(backlog[v]) + 1 \in DOMAIN backlog'[v] /\ backlog'[v][Len(backlog[v]) + 1] = kind
  BY <1>1
<1> QED BY <1>2, <1>3, <1>4

\* What an accepted connection leaves of its line.
LEMMA LineAfterTurn ==
    ASSUME TypeOK, NEW v \in Volumes, AcceptConn(v)
    PROVE  /\ conn' = [vol |-> v, kind |-> backlog[v][1]]
           /\ \A u \in Volumes : u # v => backlog'[u] = backlog[u]
           /\ \A i \in DOMAIN backlog[v] : i # 1 =>
                i - 1 \in DOMAIN backlog'[v] /\ backlog'[v][i - 1] = backlog[v][i]
<1>1. backlog[v] \in Seq(Kinds) /\ backlog[v] # <<>> /\ backlog'[v] = Tail(backlog[v])
  BY DEF AcceptConn, TypeOK
<1>2. Head(backlog[v]) = backlog[v][1]
  BY <1>1
<1>3. \A i \in DOMAIN backlog[v] : i # 1 =>
        i - 1 \in DOMAIN backlog'[v] /\ backlog'[v][i - 1] = backlog[v][i]
  BY <1>1
<1>4. \A u \in Volumes : u # v => backlog'[u] = backlog[u]
  BY DEF AcceptConn, TypeOK
<1> QED BY <1>2, <1>3, <1>4 DEF AcceptConn

\* Every client that waits for an answer is where the daemon will come upon it.
THEOREM WaitersAreInLine == Spec => []InLineInv
<1> USE DEF InLineInv, Waiting
<1>1. Init => InLineInv
  BY DEF Init
<1>2. TypeOK /\ ClientsInv /\ InLineInv /\ [Next]_vars => InLineInv'
  <2> SUFFICES ASSUME TypeOK, ClientsInv, InLineInv, [Next]_vars PROVE InLineInv'
    OBVIOUS
  <2> USE DEF loopVars, peers, historyVars, Leave
  <2>1. CASE Top \/ Poll \/ Check
    <3>1. at # "handling" /\ UNCHANGED <<backlog, client>>
      BY <2>1 DEF Top, Poll, Check
    <3> QED BY <3>1
  <2>2. ASSUME NEW v \in Volumes, AcceptConn(v) PROVE InLineInv'
    <3>1. at # "handling" /\ at' = "handling" /\ UNCHANGED client
      BY <2>2 DEF AcceptConn
    <3>2. ASSUME NEW u \in Volumes, client[u] \in Waiting
          PROVE  \/ \E i \in DOMAIN backlog'[u] : backlog'[u][i] = client[u]
                 \/ conn' = [vol |-> u, kind |-> client[u]]
      <4>1. PICK i \in DOMAIN backlog[u] : backlog[u][i] = client[u]
        BY <3>1, <3>2
      <4>2. CASE u # v
        BY <2>2, <4>1, <4>2, LineAfterTurn
      <4>3. CASE u = v
        BY <2>2, <4>1, <4>3, LineAfterTurn
      <4> QED BY <4>2, <4>3
    <3> QED BY <3>1, <3>2
  <2>3. ASSUME NEW v \in Volumes, AcceptFails(v) PROVE InLineInv'
    <3>1. at # "handling" /\ UNCHANGED <<backlog, client>>
      BY <2>3 DEF AcceptFails
    <3> QED BY <3>1
  <2>4. CASE Handled
    <3>1. /\ UNCHANGED backlog
          /\ \A u \in Volumes : u # conn.vol => client'[u] = client[u]
      BY <2>4 DEF Handled, TypeOK
    <3>2. \/ client'[conn.vol] \notin Waiting
          \/ conn.kind = "stranger" /\ UNCHANGED client
      BY <2>4 DEF Handled, TypeOK
    <3> QED BY <3>1, <3>2
  <2>5. CASE Exit
    <3>1. \A v \in Volumes : client'[v] \notin Waiting
      BY <2>5 DEF Exit, TypeOK
    <3> QED BY <3>1
  <2>6. CASE Tick \/ Terminate BY <2>6 DEF Tick, Terminate
  <2>7. ASSUME NEW v \in Volumes, ClientStep(v) PROVE InLineInv'
    <3>1. UNCHANGED <<at, conn>> /\ \A u \in Volumes : u # v => client'[u] = client[u]
      BY <2>7 DEF ClientStep, TypeOK
    <3>2. ASSUME NEW kind \in {"token", "plain"}, Connect(v, kind),
                 client' = [client EXCEPT ![v] = kind]
          PROVE  InLineInv'
      <4>1. kind \in Kinds /\ client'[v] = kind
        BY <3>2 DEF Kinds, TypeOK
      <4> QED BY <3>1, <3>2, <4>1, LinesGrow
    <3>3. CASE UNCHANGED backlog /\ client'[v] \notin Waiting
      BY <3>1, <3>3
    <3>4. \/ Connect(v, "token") /\ client' = [client EXCEPT ![v] = "token"]
          \/ Connect(v, "plain") /\ client' = [client EXCEPT ![v] = "plain"]
          \/ UNCHANGED backlog /\ \E r \in {"open", "own", "failed"} :
                                     client' = [client EXCEPT ![v] = r]
      BY <2>7, Zenon DEF ClientStep
    <3>5. (\E r \in {"open", "own", "failed"} : client' = [client EXCEPT ![v] = r])
            => client'[v] \notin Waiting
      BY DEF TypeOK
    <3> QED BY <3>2, <3>3, <3>4, <3>5
  <2>8. ASSUME NEW v \in Volumes, Stranger(v) PROVE InLineInv'
    <3>1. Connect(v, "stranger") /\ "stranger" \in Kinds /\ UNCHANGED <<at, conn, client>>
      BY <2>8 DEF Stranger, Kinds
    <3> QED BY <3>1, LinesGrow
  <2>9. CASE UNCHANGED vars BY <2>9 DEF vars
  <2> QED BY <2>1, <2>2, <2>3, <2>4, <2>5, <2>6, <2>7, <2>8, <2>9 DEF Next, Daemon
<1> QED BY <1>1, <1>2, LoopInvariant, ClientsInvariant, PTL DEF Spec

\* Lines advance, one place with each turn, and nobody jumps them or is lost.
THEOREM LinesAdvance == Spec => [][LineAdvances]_vars
<1>1. TypeOK /\ TypeOK' /\ [Next]_vars => [LineAdvances]_vars
  <2> SUFFICES ASSUME TypeOK, TypeOK', Next PROVE LineAdvances
    OBVIOUS
  <2> USE DEF loopVars, peers, historyVars, Leave
  <2>1. ASSUME NEW v \in Volumes, NEW i \in DOMAIN backlog[v] PROVE LineMoves(v, i)
    <3>1. CASE AcceptConn(v)
      BY <2>1, <3>1, LineAfterTurn DEF LineMoves
    <3>2. CASE ~AcceptConn(v)
      <4>1. CASE UNCHANGED backlog
        BY <2>1, <3>2, <4>1 DEF LineMoves
      <4>2. ASSUME NEW u \in Volumes, AcceptConn(u) PROVE LineMoves(v, i)
        <5>1. u # v
          BY <3>2, <4>2
        <5>2. backlog'[v] = backlog[v]
          BY <4>2, <5>1, LineAfterTurn
        <5> QED BY <2>1, <3>2, <5>2 DEF LineMoves
      <4>3. CASE Exit
        BY <3>2, <4>3 DEF Exit, LineMoves
      <4>4. ASSUME NEW u \in Volumes, NEW kind \in Kinds, Connect(u, kind) PROVE LineMoves(v, i)
        BY <2>1, <3>2, <4>4, LinesGrow DEF LineMoves
      <4>5. CASE \E u \in Volumes : ClientStep(u) \/ Stranger(u)
        <5>1. UNCHANGED backlog \/ \E u \in Volumes : \E kind \in Kinds : Connect(u, kind)
          BY <4>5 DEF ClientStep, Stranger, Kinds
        <5> QED BY <4>1, <4>4, <5>1
      <4>6. CASE Top \/ Poll \/ Handled \/ Check \/ Tick \/ Terminate
        <5>1. UNCHANGED backlog
          BY <4>6 DEF Top, Poll, Handled, Check, Tick, Terminate
        <5> QED BY <4>1, <5>1
      <4>7. CASE \E u \in Volumes : AcceptFails(u)
        <5>1. UNCHANGED backlog
          BY <4>7 DEF AcceptFails
        <5> QED BY <4>1, <5>1
      <4> QED BY <4>2, <4>3, <4>5, <4>6, <4>7 DEF Next, Daemon
    <3> QED BY <3>1, <3>2
  <2>2. ASSUME NEW v \in Volumes, NEW i \in DOMAIN backlog[v], at = "poll", at' = "batch"
        PROVE  v \in ready'
    <3>1. Poll
      BY <2>2 DEF Next, Daemon, Top, AcceptConn, AcceptFails, Handled, Check, Exit, Tick,
            Terminate, ClientStep, Stranger
    <3>2. ready' = Pending
      BY <2>2, <3>1 DEF Poll
    <3>3. backlog[v] # <<>>
      BY <2>2
    <3> QED BY <3>2, <3>3 DEF Pending
  <2>3. ASSUME NEW v \in Volumes, v \in ready, v \notin ready', at \in Round
        PROVE  AcceptConn(v) \/ AcceptFails(v) \/ at' = "leaving"
    <3>1. CASE \E u \in Volumes : AcceptConn(u) \/ AcceptFails(u)
      <4>1. PICK u \in Volumes : AcceptConn(u) \/ AcceptFails(u)
        BY <3>1
      <4>2. ready' = ready \ {u}
        BY <4>1 DEF AcceptConn, AcceptFails, ReadyAfter
      <4>3. u = v
        BY <2>3, <4>2
      <4> QED BY <4>1, <4>3
    <3>2. CASE Check
      BY <2>3, <3>2 DEF Check
    <3>3. CASE Handled \/ Tick \/ Terminate \/ \E u \in Volumes : ClientStep(u) \/ Stranger(u)
      <4>1. UNCHANGED ready
        BY <3>3 DEF Handled, Tick, Terminate, ClientStep, Stranger
      <4> QED BY <2>3, <4>1
    <3>4. CASE Top \/ Poll \/ Exit
      BY <2>3, <3>4 DEF Top, Poll, Exit, Round
    <3> QED BY <3>1, <3>2, <3>3, <3>4 DEF Next, Daemon
  <2>4. Handled /\ conn.kind \in Waiting => client'[conn.vol] \notin Waiting
    BY DEF Handled, TypeOK, Waiting
  <2> QED BY <2>1, <2>2, <2>3, <2>4 DEF LineAdvances
<1> QED BY <1>1, LoopInvariant, PTL DEF Spec

=============================================================================

--------------------------- MODULE TpmChannel_proofs ---------------------------
(***************************************************************************)
(* What TpmChannel guarantees for every set of registers, every selection   *)
(* and every bound, whatever becomes of the commands.                       *)
(***************************************************************************)
EXTENDS TpmChannel, FiniteSetTheorems, TLAPS

\* The digest of no policy and of the present state, and the requests and
\* responses there are none of, are of the types they stand in for.
LEMMA ChannelTypes ==
    ASSUME TpmChannelAssumption
    PROVE  /\ NoDigest \in Digests
           /\ NoRequest \in Requests
           /\ NoResponse \in Responses
           /\ \A n, h \in Nat, op \in Commands, r \in SUBSET Asked :
                 [n |-> n, op |-> op, handle |-> h, pcrs |-> r] \in Requests
           /\ pcr \in [AllPcrs -> Nat] => Snapshot \in Digests
<1>1. NoDigest \in Digests
  BY DEF NoDigest, Digests
<1>2. NoRequest \in Requests
  BY DEF NoRequest, Requests, Commands
<1>3. <<>> \in Seq(Nat)
  OBVIOUS
<1>4. NoResponse \in Responses
  BY <1>1, <1>3 DEF NoResponse, Responses, Commands
<1>5. \A n, h \in Nat, op \in Commands, r \in SUBSET Asked :
        [n |-> n, op |-> op, handle |-> h, pcrs |-> r] \in Requests
  BY DEF Requests, TpmChannelAssumption
<1>6. ASSUME pcr \in [AllPcrs -> Nat] PROVE Snapshot \in Digests
  BY <1>6 DEF Snapshot, Digests, TpmChannelAssumption
<1> QED BY <1>1, <1>2, <1>4, <1>5, <1>6

\* A transact that fails stays in the types, whichever command it was for.
LEMMA FailsTypes ==
    ASSUME TpmChannelAssumption, TypeOK, Fails,
           command' = command, response' \in Responses, sessions' = sessions, pcr' = pcr
    PROVE  TypeOK'
<1>1. step' \in {"flush", "read", "closing", "consent"}
  BY DEF Fails, PolicyFails, DigestReturned
<1>4. remaining' \in {remaining, Asked} /\ rounds' \in {rounds, 0}
  BY DEF Fails, PolicyFails, DigestReturned
<1>2. out' \subseteq [pcr : Asked, value : Nat] /\ before' \in [AllPcrs -> Nat]
  BY DEF TypeOK, Fails, PolicyFails, DigestReturned
<1>3. warned' \subseteq Nat
  BY DEF TypeOK, Fails, PolicyFails
<1>5. UNCHANGED <<use, handle, digest, count, opens, seen, known>>
  BY DEF Fails
<1>6. written' \in BOOLEAN /\ ok' \in BOOLEAN
  BY Zenon DEF Fails, TypeOK
<1> QED BY <1>1, <1>2, <1>3, <1>4, <1>5, <1>6 DEF TypeOK, Commands

\* What the TPM makes of a command is a well-typed response and session.
LEMMA ExecuteTypes ==
    ASSUME TpmChannelAssumption, TypeOK, Execute
    PROVE  /\ command' \in Requests
           /\ response' \in Responses
           /\ sessions' \subseteq [handle : Nat, digest : Digests]
<1> USE ChannelTypes DEF TypeOK
<1>1. command.n \in Nat /\ command.op \in Commands /\ command.handle \in Nat
  BY DEF Requests
<1>2. ASSUME NEW d \in Digests, NEW pcrs \in SUBSET AllPcrs, NEW values \in Seq(Nat),
             Answer(d, pcrs, values)
      PROVE  command' \in Requests /\ response' \in Responses
  BY <1>1, <1>2 DEF Answer, Responses
<1>3. <<>> \in Seq(Nat) /\ {} \in SUBSET AllPcrs
  OBVIOUS
<1>4. Session(command.handle) \subseteq sessions
  BY DEF Session
<1>5. CASE /\ command.op \in {"lockout", "flush"}
           /\ Answer(NoDigest, {}, <<>>)
           /\ sessions' \subseteq sessions
  BY <1>2, <1>3, <1>5
<1>6. CASE /\ sessions' = sessions \cup {[handle |-> command.n, digest |-> NoDigest]}
           /\ Answer(NoDigest, {}, <<>>)
  <2>1. [handle |-> command.n, digest |-> NoDigest] \in [handle : Nat, digest : Digests]
    BY <1>1
  <2> QED BY <1>2, <1>3, <1>6, <2>1
<1>7. CASE /\ sessions' = (sessions \ Session(command.handle)) \cup
                {[handle |-> command.handle, digest |-> Snapshot]}
           /\ Answer(NoDigest, {}, <<>>)
  <2>1. [handle |-> command.handle, digest |-> Snapshot] \in [handle : Nat, digest : Digests]
    BY <1>1
  <2> QED BY <1>2, <1>3, <1>7, <2>1
<1>8. CASE /\ \E s \in Session(command.handle) : Answer(s.digest, {}, <<>>)
           /\ UNCHANGED sessions
  BY <1>2, <1>3, <1>4, <1>8
<1>9. CASE /\ \E pcrs \in SUBSET AllPcrs :
                \E n \in {Cardinality(pcrs), Cardinality(pcrs) - 1} \cap Nat :
                    \E values \in TrueValues(pcrs, n) : Answer(NoDigest, pcrs, values)
           /\ UNCHANGED sessions
  <2>0. PICK pcrs \in SUBSET AllPcrs :
            \E n \in {Cardinality(pcrs), Cardinality(pcrs) - 1} \cap Nat :
                \E values \in TrueValues(pcrs, n) : Answer(NoDigest, pcrs, values)
    BY <1>9
  <2>1. PICK n \in Nat : \E values \in TrueValues(pcrs, n) : Answer(NoDigest, pcrs, values)
    BY <2>0
  <2>5. PICK values \in TrueValues(pcrs, n) : Answer(NoDigest, pcrs, values)
    BY <2>1
  <2>2. values \in [1..n -> {pcr[p] : p \in pcrs}] /\ {pcr[p] : p \in pcrs} \subseteq Nat
    BY <2>5 DEF TrueValues, TpmChannelAssumption
  <2>3. values \in [1..n -> Nat]
    BY <2>2
  <2>4. values \in Seq(Nat)
    BY <2>3
  <2> QED BY <1>2, <1>9, <2>5, <2>4
<1>10. CASE /\ command' = NoRequest
            /\ response' = [n |-> command.n, op |-> command.op, good |-> FALSE,
                            digest |-> NoDigest, pcrs |-> {}, values |-> <<>>]
            /\ UNCHANGED sessions
  BY <1>1, <1>3, <1>10 DEF Responses
<1> QED BY <1>5, <1>6, <1>7, <1>8, <1>9, <1>10, <1>4 DEF Execute

\* A register in a list has a place in it, counted from one.
LEMMA PlaceBounds ==
    ASSUME TpmChannelAssumption, NEW R \in SUBSET AllPcrs, NEW p \in R
    PROVE  Place(p, R) \in Nat \ {0} /\ Place(p, R) <= Cardinality(R)
<1> DEFINE D == {q \in R : q <= p}
<1>1. D \in SUBSET R /\ p \in D
  BY DEF TpmChannelAssumption
<1> HIDE DEF D
<1>2. IsFiniteSet(R)
  BY FS_Subset DEF TpmChannelAssumption
<1>3. IsFiniteSet(D) /\ Cardinality(D) <= Cardinality(R)
  BY <1>1, <1>2, FS_Subset
<1>4. Cardinality(D) \in Nat /\ Cardinality(D) # 0
  BY <1>1, <1>3, FS_CardinalityType, FS_EmptySet
<1> QED BY <1>3, <1>4 DEF Place, D

\* Every variable keeps its type.
THEOREM ChannelTypeCorrect == Spec => []TypeOK
<1> USE TpmChannelAssumption, ChannelTypes
<1>1. Init => TypeOK
  <2> SUFFICES ASSUME Init PROVE TypeOK
    OBVIOUS
  <2>1. pcr \in [AllPcrs -> Nat] /\ before \in [AllPcrs -> Nat]
    BY DEF Init
  <2> QED BY <2>1 DEF Init, TypeOK
<1>2. TypeOK /\ [Next]_vars => TypeOK'
  <2> SUFFICES ASSUME TypeOK, [Next]_vars PROVE TypeOK'
    OBVIOUS
  <2> USE DEF TypeOK, Commands, deviceVars, historyVars
  <2>1. CASE Open BY <2>1 DEF Open
  <2>2. CASE Close BY <2>2 DEF Close
  <2>3. CASE Write
    <3>1. command' \in Requests
      BY <2>3 DEF Write
    <3> QED BY <2>3, <3>1 DEF Write
  <2>4. CASE WriteFails \/ GivesUp \/ BadResponse
    <3>1. Fails /\ command' = command /\ sessions' = sessions /\ pcr' = pcr
          /\ response' \in Responses
      BY <2>4 DEF WriteFails, GivesUp, BadResponse, Fetched
    <3> QED BY <3>1, FailsTypes
  <2>5. CASE LockoutRead
    <3>1. {Snapshot} \subseteq Digests
      OBVIOUS
    <3>2. seen' \subseteq Digests /\ handle' \in Nat /\ digest' \in Digests
      BY <2>5, <3>1 DEF LockoutRead, AskDigest
    <3>4. ok' \in BOOLEAN
      BY <2>5, Zenon DEF LockoutRead, AskDigest
    <3>3. step' \in {"start", "closing"} /\ response' \in Responses
      BY <2>5 DEF LockoutRead, AskDigest, Fetched
    <3> QED BY <2>5, <3>2, <3>3, <3>4 DEF LockoutRead
  <2>6. CASE SessionStarted \/ PolicyBuilt \/ DigestRead
    <3>1. response.n \in Nat /\ response.digest \in Digests
      BY DEF Responses
    <3> QED BY <2>6, <3>1 DEF SessionStarted, PolicyBuilt, DigestRead, Fetched
  <2>7. CASE Flushed
    <3>1. step' \in {"read", "closing"} /\ response' \in Responses /\ remaining' \subseteq Asked
      BY <2>7 DEF Flushed, DigestReturned, Fetched
    <3>2. out' \subseteq [pcr : Asked, value : Nat] /\ rounds' \in Nat
      BY <2>7 DEF Flushed, DigestReturned
    <3>3. before' \in [AllPcrs -> Nat]
      BY <2>7 DEF Flushed, DigestReturned
    <3> QED BY <2>7, <3>1, <3>2, <3>3 DEF Flushed
  <2>8. CASE PcrsRead
    <3>1. remaining' \subseteq remaining
      BY <2>8 DEF PcrsRead
    <3>2. out' \subseteq [pcr : Asked, value : Nat]
      <4>1. CASE Acceptable(response.pcrs, response.values)
        <5>1. response.values \in Seq(Nat) /\ response.pcrs \subseteq Asked
          BY <4>1 DEF Responses, Acceptable
        <5>2. \A p \in response.pcrs : Place(p, response.pcrs) \in Nat \ {0}
          BY PlaceBounds DEF Responses
        <5>3. Paired(response.pcrs, response.values) \subseteq [pcr : Asked, value : Nat]
          BY <5>1, <5>2 DEF Paired
        <5> QED BY <2>8, <4>1, <5>3 DEF PcrsRead
      <4>2. CASE ~Acceptable(response.pcrs, response.values)
        BY <2>8, <4>2 DEF PcrsRead
      <4> QED BY <4>1, <4>2
    <3>3. step' \in {"read", "consent"}
      BY <2>8 DEF PcrsRead
    <3> QED BY <2>8, <3>1, <3>2, <3>3 DEF PcrsRead, Fetched
  <2>9. CASE Enrolled
    <3>1. {Snapshot} \subseteq Digests
      OBVIOUS
    <3>2. seen' \subseteq Digests /\ handle' \in Nat /\ digest' \in Digests
      BY <2>9, <3>1 DEF Enrolled, AskDigest
    <3>4. ok' \in BOOLEAN
      BY <2>9, Zenon DEF Enrolled, AskDigest
    <3>3. step' \in {"start", "closing"} /\ use' \in {"check", "verify"}
      BY <2>9 DEF Enrolled, AskDigest
    <3> QED BY <2>9, <3>2, <3>3, <3>4 DEF Enrolled
  <2>10. CASE Execute
    <3>1. command' \in Requests /\ response' \in Responses
          /\ sessions' \subseteq [handle : Nat, digest : Digests]
      BY <2>10, ExecuteTypes
    <3> QED BY <2>10, <3>1 DEF Execute
  <2>11. CASE Discard BY <2>11 DEF Discard
  <2>12. ASSUME NEW p \in AllPcrs, Extend(p) PROVE TypeOK'
    <3>1. pcr' \in [AllPcrs -> Nat]
      BY <2>12 DEF Extend
    <3>2. [q \in Asked |-> pcr'[q]] \in Digests
      BY <3>1 DEF Digests, TpmChannelAssumption
    <3> QED BY <2>12, <3>1, <3>2 DEF Extend
  <2>13. CASE UNCHANGED vars BY <2>13 DEF vars
  <2> QED BY <2>1, <2>2, <2>3, <2>4, <2>5, <2>6, <2>7, <2>8, <2>9, <2>10, <2>11,
          <2>12, <2>13 DEF Next, Daemon
<1> QED BY <1>1, <1>2, PTL DEF Spec

-----------------------------------------------------------------------------
\* The device holds a command or a response, and once the daemon has written it
\* can only be that command or the response to it: a command is taken when the
\* device is free, and everything in it is older than the next number.
ChannelInv ==
    /\ command = NoRequest \/ response = NoResponse
    /\ written => step \in Commands
    /\ written /\ command # NoRequest =>
         /\ command.n = count /\ command.op = step
         /\ command.handle = handle
    /\ AnswersItsCommand

\* No session is the daemon's before its start has been executed and read, and
\* the flush it has an answer to was of the session in hand.
SessionInv ==
    /\ step = "closed" => known = {}
    /\ \A k \in known : k <= count
    /\ command # NoRequest => command.n \notin known
    /\ step \in {"policy", "getdigest", "flush"} => handle \in known
    /\ written /\ step = "flush" /\ response # NoResponse /\ response.good =>
         Session(handle) = {}
    /\ SessionsReleased

\* From the moment the digest is asked for the present state is among those seen,
\* and from PolicyPCR on the session in hand has a digest that was.
DigestInv ==
    /\ step \in {"start", "policy", "getdigest", "flush"} => Snapshot \in seen
    /\ step = "getdigest" \/
         (step = "policy" /\ written /\ response # NoResponse /\ response.good) =>
            \A s \in Session(handle) : s.digest \in seen
    /\ step = "getdigest" /\ written /\ response # NoResponse /\ response.good =>
         response.digest \in seen
    /\ DigestIsOfOneMoment

\* Each answered round leaves fewer registers to ask for.
RoundsInv ==
    /\ step = "read" =>
         /\ remaining # {}
         /\ rounds + Cardinality(remaining)
                <= Cardinality(Asked) + (IF written THEN 1 ELSE 0)
    /\ RoundsBounded

\* What has been read is one true value for each register that is not
\* outstanding, and so are the values on their way.
ReadingInv ==
    /\ step \in {"read", "consent"} =>
         /\ \A p \in Asked : before[p] <= pcr[p]
         /\ \A x \in out : x.pcr \notin remaining
         /\ \A p \in Asked \ remaining : \E x \in out :
                /\ {y \in out : y.pcr = p} = {x}
                /\ before[p] <= x.value /\ x.value <= pcr[p]
    /\ written /\ step = "read" /\ response # NoResponse /\ response.good =>
         \A p \in response.pcrs \cap Asked :
            Place(p, response.pcrs) <= Len(response.values) =>
                /\ before[p] <= response.values[Place(p, response.pcrs)]
                /\ response.values[Place(p, response.pcrs)] <= pcr[p]

-----------------------------------------------------------------------------
\* Whatever the TPM does, it answers the one command, and by its number.
LEMMA ExecuteAnswers ==
    ASSUME Execute
    PROVE  /\ command # NoRequest /\ command' = NoRequest
           /\ response'.n = command.n /\ response'.op = command.op
           /\ UNCHANGED <<step, use, written, handle, ok, digest, remaining, out, count,
                          pcr, opens, historyVars>>
<1>1. ASSUME NEW d, NEW pcrs, NEW values, Answer(d, pcrs, values)
      PROVE  /\ command' = NoRequest
             /\ response'.n = command.n /\ response'.op = command.op
  BY <1>1 DEF Answer
<1>2. command' = NoRequest /\ response'.n = command.n /\ response'.op = command.op
  BY <1>1 DEF Execute
<1> QED BY <1>2 DEF Execute

\* The channel's invariant is inductive, given the types.
LEMMA ChannelInvariant == Spec => [](TypeOK /\ ChannelInv)
<1>1. Init => ChannelInv
  BY DEF Init, ChannelInv, AnswersItsCommand
<1>2. TypeOK /\ ChannelInv /\ [Next]_vars => ChannelInv'
  <2> SUFFICES ASSUME TypeOK, ChannelInv, [Next]_vars PROVE ChannelInv'
    OBVIOUS
  <2> USE DEF ChannelInv, AnswersItsCommand, deviceVars, historyVars
  <2>0. step \in {"closed", "closing", "consent"} => ~written
    BY DEF Commands
  <2>1. CASE Open BY <2>0, <2>1 DEF Open
  <2>2. CASE Close BY <2>0, <2>2 DEF Close
  <2>3. CASE Write BY <2>3 DEF Write, Free
  <2>4. CASE WriteFails \/ GivesUp \/ BadResponse
    <3>1. written' = FALSE
      BY <2>4, Zenon DEF WriteFails, GivesUp, BadResponse, Fails
    <3>2. command' = command /\ response' \in {response, NoResponse}
      BY <2>4 DEF WriteFails, GivesUp, BadResponse, Fetched
    <3> QED BY <3>1, <3>2
  <2>5. CASE LockoutRead \/ SessionStarted \/ PolicyBuilt \/ DigestRead \/ Flushed \/ PcrsRead
    <3>1. written' = FALSE
      BY <2>5, Zenon DEF LockoutRead, SessionStarted, PolicyBuilt, DigestRead, Flushed, PcrsRead
    <3>2. command' = command /\ response' = NoResponse
      BY <2>5 DEF LockoutRead, SessionStarted, PolicyBuilt, DigestRead, Flushed, PcrsRead, Fetched
    <3> QED BY <3>1, <3>2
  <2>6. CASE Enrolled
    <3>1. ~written
      BY <2>6 DEF Enrolled, Commands
    <3> QED BY <2>6, <3>1 DEF Enrolled
  <2>7. CASE Execute BY <2>7, ExecuteAnswers
  <2>8. CASE Discard BY <2>8 DEF Discard
  <2>9. CASE \E p \in AllPcrs : Extend(p) BY <2>9 DEF Extend
  <2>10. CASE UNCHANGED vars BY <2>10 DEF vars
  <2> QED BY <2>1, <2>2, <2>3, <2>4, <2>5, <2>6, <2>7, <2>8, <2>9, <2>10 DEF Next, Daemon
<1> QED BY <1>1, <1>2, ChannelTypeCorrect, PTL DEF Spec

\* A response the daemon can read answers the command it has written.
THEOREM ResponsesMatch == Spec => []AnswersItsCommand
<1>1. ChannelInv => AnswersItsCommand
  BY DEF ChannelInv
<1> QED BY <1>1, ChannelInvariant, PTL

\* A transact that fails leaves no session of the daemon's unaccounted for.
LEMMA FailsReleases ==
    ASSUME TypeOK, SessionInv, Fails, UNCHANGED <<sessions, command>>
    PROVE  SessionInv'
<1> USE DEF SessionInv, SessionsReleased
<1>1. written' = FALSE /\ UNCHANGED <<handle, count, known>>
  BY DEF Fails
<1>2. \/ /\ step \in {"lockout", "start", "read"} /\ step' \in {"closing", "consent"}
         /\ warned' = warned
      \/ /\ step \in {"policy", "getdigest"} /\ step' = "flush" /\ warned' = warned
      \/ /\ step = "flush" /\ step' \in {"read", "closing"}
         /\ warned' = warned \cup {handle}
  BY DEF Fails, PolicyFails, DigestReturned
<1>3. SessionsReleased'
  BY <1>1, <1>2
<1>4. /\ step' # "closed"
      /\ step' \in {"policy", "getdigest", "flush"} => handle' \in known'
  BY <1>1, <1>2
<1> QED BY <1>1, <1>3, <1>4

\* So is what is known of the sessions.
LEMMA SessionInvariant == Spec => [](TypeOK /\ ChannelInv /\ SessionInv)
<1>1. Init => SessionInv
  BY DEF Init, SessionInv, SessionsReleased
<1>2. TypeOK /\ ChannelInv /\ SessionInv /\ [Next]_vars => SessionInv'
  <2> SUFFICES ASSUME TypeOK, ChannelInv, SessionInv, [Next]_vars PROVE SessionInv'
    OBVIOUS
  <2> USE DEF deviceVars, historyVars
  <2>1. CASE Open BY <2>1 DEF Open, SessionInv, SessionsReleased, Session
  <2>2. CASE Close BY <2>2 DEF Close, SessionInv, SessionsReleased, Session
  <2>3. CASE Write
    <3>1. count \in Nat /\ command'.n = count + 1 /\ count' = count + 1 /\ known \subseteq Nat
      BY <2>3 DEF Write, TypeOK
    <3>2. UNCHANGED <<step, handle, known, warned, sessions>> /\ response' = NoResponse
      BY <2>3 DEF Write, Free
    <3>3. \A k \in known : k <= count' /\ k # count'
      BY <3>1 DEF SessionInv
    <3> QED BY <3>1, <3>2, <3>3 DEF SessionInv, SessionsReleased
  <2>4. CASE WriteFails \/ GivesUp \/ BadResponse
    <3>1. Fails /\ UNCHANGED <<sessions, command>>
      BY <2>4 DEF WriteFails, GivesUp, BadResponse
    <3> QED BY <3>1, FailsReleases
  <2>5. CASE LockoutRead
    <3>1. step = "lockout" /\ step' \in {"start", "closing"} /\ written' = FALSE
      BY <2>5 DEF LockoutRead, AskDigest
    <3>2. UNCHANGED <<count, command, sessions, known, warned>>
      BY <2>5 DEF LockoutRead
    <3> QED BY <3>1, <3>2 DEF SessionInv, SessionsReleased
  <2>6. CASE SessionStarted
    <3>1. /\ step = "start" /\ step' = "policy" /\ written' = FALSE
          /\ handle' = response.n /\ known' = known \cup {response.n}
          /\ UNCHANGED <<count, command, sessions, warned>>
          /\ written /\ response # NoResponse
      BY <2>6 DEF SessionStarted, Fetched
    <3>2. response.n = count /\ command = NoRequest
      BY <3>1 DEF ChannelInv, AnswersItsCommand
    <3>3. count \in Nat
      BY DEF TypeOK
    <3>4. SessionsReleased'
      BY <3>1 DEF SessionInv, SessionsReleased
    <3> QED BY <3>1, <3>2, <3>3, <3>4 DEF SessionInv
  <2>7. CASE PolicyBuilt \/ DigestRead
    BY <2>7 DEF PolicyBuilt, DigestRead, SessionInv, SessionsReleased
  <2>8. CASE Flushed
    <3>1. step = "flush" /\ step' \in {"read", "closing"} /\ written' = FALSE
      BY <2>8 DEF Flushed, DigestReturned
    <3>2. UNCHANGED <<count, command, sessions, known, warned>>
      BY <2>8 DEF Flushed
    <3>3. written /\ response # NoResponse /\ response.good
      BY <2>8, Zenon DEF Flushed, Fetched
    <3>4. Session(handle) = {}
      BY <3>1, <3>3 DEF SessionInv
    <3>5. SessionsReleased'
      BY <3>1, <3>2, <3>4 DEF SessionInv, SessionsReleased, Session
    <3> QED BY <3>1, <3>2, <3>5 DEF SessionInv
  <2>9. CASE PcrsRead
    <3>1. step = "read" /\ step' \in {"read", "consent"} /\ written' = FALSE
      BY <2>9 DEF PcrsRead
    <3>2. UNCHANGED <<count, command, sessions, known, warned>>
      BY <2>9 DEF PcrsRead
    <3> QED BY <3>1, <3>2 DEF SessionInv, SessionsReleased
  <2>10. CASE Enrolled
    <3>1. step = "consent" /\ step' \in {"start", "closing"}
      BY <2>10 DEF Enrolled, AskDigest
    <3>2. UNCHANGED <<count, command, sessions, known, warned>>
      BY <2>10 DEF Enrolled
    <3> QED BY <3>1, <3>2 DEF SessionInv, SessionsReleased
  <2>11. CASE Execute
    <3> USE ExecuteAnswers, <2>11
    <3>1. SessionsReleased'
      <4>1. command.n \notin known
        BY DEF SessionInv
      <4>2. \/ sessions' \subseteq sessions
            \/ sessions' = sessions \cup {[handle |-> command.n, digest |-> NoDigest]}
            \/ /\ Session(command.handle) # {}
               /\ sessions' = (sessions \ Session(command.handle)) \cup
                     {[handle |-> command.handle, digest |-> Snapshot]}
        BY DEF Execute
      <4>3. CASE sessions' \subseteq sessions
        BY <4>3 DEF SessionInv, SessionsReleased
      <4>4. CASE sessions' = sessions \cup {[handle |-> command.n, digest |-> NoDigest]}
        BY <4>1, <4>4 DEF SessionInv, SessionsReleased
      <4>5. CASE /\ Session(command.handle) # {}
                 /\ sessions' = (sessions \ Session(command.handle)) \cup
                       {[handle |-> command.handle, digest |-> Snapshot]}
        <5>1. PICK s \in sessions : s.handle = command.handle
          BY <4>5 DEF Session
        <5> QED BY <4>5, <5>1 DEF SessionInv, SessionsReleased
      <4> QED BY <4>2, <4>3, <4>4, <4>5
    <3>2. ASSUME written', step' = "flush", response'.good PROVE Session(handle)' = {}
      <4>1. command.op = "flush" /\ command.handle = handle
        BY <3>2 DEF ChannelInv
      <4>2. sessions' = sessions \ Session(handle)
        BY <3>2, <4>1 DEF Execute
      <4> QED BY <4>2 DEF Session
    <3> QED BY <3>1, <3>2 DEF SessionInv
  <2>12. CASE Discard BY <2>12 DEF Discard, SessionInv, SessionsReleased
  <2>13. CASE \E p \in AllPcrs : Extend(p)
    BY <2>13 DEF Extend, SessionInv, SessionsReleased, Session
  <2>14. CASE UNCHANGED vars BY <2>14 DEF vars, SessionInv, SessionsReleased, Session
  <2> QED BY <2>1, <2>2, <2>3, <2>4, <2>5, <2>6, <2>7, <2>8, <2>9, <2>10, <2>11,
          <2>12, <2>13, <2>14 DEF Next, Daemon
<1> QED BY <1>1, <1>2, ChannelInvariant, PTL DEF Spec

\* A trial session the daemon was told of is flushed or warned of.
THEOREM SessionsAreReleased == Spec => []SessionsReleased
<1>1. SessionInv => SessionsReleased
  BY DEF SessionInv
<1> QED BY <1>1, SessionInvariant, PTL

\* Of the session the daemon uses, executing a command leaves a digest that was
\* seen if it had one, and PolicyPCR gives it one.
LEMMA ExecuteDigests ==
    ASSUME ChannelInv, SessionInv, DigestInv, Execute,
           step \in {"policy", "getdigest"},
           step = "policy" => written' /\ response'.good
    PROVE  \A s \in Session(handle)' : s.digest \in seen
<1> USE ExecuteAnswers DEF historyVars
<1>1. Snapshot \in seen /\ command.n # handle
  BY DEF DigestInv, SessionInv
<1>2. ASSUME sessions' \subseteq sessions, step = "getdigest"
      PROVE  \A s \in Session(handle)' : s.digest \in seen
  BY <1>2 DEF DigestInv, Session
<1>3. ASSUME sessions' = sessions \cup {[handle |-> command.n, digest |-> NoDigest]},
             step = "getdigest"
      PROVE  \A s \in Session(handle)' : s.digest \in seen
  BY <1>1, <1>3 DEF DigestInv, Session
<1>4. ASSUME sessions' = (sessions \ Session(command.handle)) \cup
                {[handle |-> command.handle, digest |-> Snapshot]},
             step = "getdigest" \/ command.handle = handle
      PROVE  \A s \in Session(handle)' : s.digest \in seen
  BY <1>1, <1>4 DEF DigestInv, Session
<1>5. CASE step = "getdigest"
  <2>1. \/ sessions' \subseteq sessions
        \/ sessions' = sessions \cup {[handle |-> command.n, digest |-> NoDigest]}
        \/ sessions' = (sessions \ Session(command.handle)) \cup
                {[handle |-> command.handle, digest |-> Snapshot]}
    BY DEF Execute
  <2> QED BY <1>2, <1>3, <1>4, <1>5, <2>1
<1>6. CASE step = "policy"
  <2>1. written /\ response'.good
    BY <1>6, Zenon
  <2>2. command.op = "policy" /\ command.handle = handle
    BY <1>6, <2>1 DEF ChannelInv
  <2>3. sessions' = (sessions \ Session(command.handle)) \cup
            {[handle |-> command.handle, digest |-> Snapshot]}
    BY <2>1, <2>2 DEF Execute
  <2> QED BY <1>4, <2>2, <2>3
<1> QED BY <1>5, <1>6

\* A policy digest that was returned is that of one state there was.
THEOREM DigestsAreOfOneMoment == Spec => []DigestIsOfOneMoment
<1>1. Init => DigestInv
  <2> SUFFICES ASSUME Init PROVE DigestInv
    OBVIOUS
  <2>1. ~ok /\ ~written /\ step = "closed"
    BY Zenon DEF Init
  <2> QED BY <2>1 DEF DigestInv, DigestIsOfOneMoment
<1>2. TypeOK /\ ChannelInv /\ SessionInv /\ DigestInv /\ [Next]_vars => DigestInv'
  <2> SUFFICES ASSUME TypeOK, ChannelInv, SessionInv, DigestInv, [Next]_vars
               PROVE  DigestInv'
    OBVIOUS
  <2> USE DEF deviceVars, historyVars
  <2>1. CASE Open \/ Close
    BY <2>1 DEF Open, Close, DigestInv, DigestIsOfOneMoment
  <2>2. CASE Write
    <3>1. UNCHANGED <<step, handle, ok, digest, sessions, pcr, seen>> /\ response' = NoResponse
      BY <2>2 DEF Write, Free
    <3> QED BY <3>1 DEF DigestInv, DigestIsOfOneMoment, Snapshot, Session
  <2>3. CASE WriteFails \/ GivesUp \/ BadResponse
    <3>1. Fails /\ UNCHANGED <<sessions, pcr>>
      BY <2>3 DEF WriteFails, GivesUp, BadResponse
    <3>2. /\ step' \in {"start", "policy", "getdigest", "flush"} =>
                step \in {"policy", "getdigest"}
          /\ step' \notin {"policy", "getdigest"}
          /\ UNCHANGED <<ok, digest, seen>>
      BY <3>1 DEF Fails, PolicyFails, DigestReturned
    <3> QED BY <3>1, <3>2 DEF DigestInv, DigestIsOfOneMoment, Snapshot
  <2>4. CASE LockoutRead \/ Enrolled
    <3>1. step' \in {"start", "closing"} /\ UNCHANGED pcr
      BY <2>4 DEF LockoutRead, Enrolled, AskDigest
    <3>2. CASE AskDigest
      <4>1. ~ok' /\ seen' = {Snapshot}
        BY <3>2, Zenon DEF AskDigest
      <4> QED BY <3>1, <4>1 DEF DigestInv, DigestIsOfOneMoment, Snapshot
    <3>3. CASE step' = "closing" /\ UNCHANGED <<ok, digest, seen>>
      BY <3>3 DEF DigestInv, DigestIsOfOneMoment
    <3> QED BY <2>4, <3>2, <3>3 DEF LockoutRead, Enrolled
  <2>5. CASE SessionStarted
    BY <2>5 DEF SessionStarted, Fetched, DigestInv, DigestIsOfOneMoment, Snapshot
  <2>6. CASE PolicyBuilt
    <3>1. written /\ response # NoResponse /\ response.good
      BY <2>6, Zenon DEF PolicyBuilt, Fetched
    <3>2. /\ step = "policy" /\ step' = "getdigest" /\ response' = NoResponse
          /\ UNCHANGED <<handle, ok, digest, sessions, pcr, seen>>
      BY <2>6 DEF PolicyBuilt, Fetched
    <3> QED BY <3>1, <3>2 DEF DigestInv, DigestIsOfOneMoment, Snapshot, Session
  <2>7. CASE DigestRead
    <3>1. written /\ response # NoResponse /\ response.good
      BY <2>7, Zenon DEF DigestRead, Fetched
    <3>2. /\ step = "getdigest" /\ step' = "flush" /\ digest' = response.digest
          /\ UNCHANGED <<pcr, seen>>
      BY <2>7 DEF DigestRead
    <3> QED BY <3>1, <3>2 DEF DigestInv, DigestIsOfOneMoment, Snapshot
  <2>8. CASE Flushed \/ PcrsRead
    <3>1. step' \in {"read", "closing", "consent"} /\ UNCHANGED <<ok, digest, seen>>
      BY <2>8 DEF Flushed, DigestReturned, PcrsRead
    <3> QED BY <3>1 DEF DigestInv, DigestIsOfOneMoment
  <2>9. CASE Execute
    <3> USE ExecuteAnswers, <2>9
    <3>1. /\ step' \in {"start", "policy", "getdigest", "flush"} => Snapshot' \in seen'
          /\ DigestIsOfOneMoment'
      BY DEF DigestInv, DigestIsOfOneMoment, Snapshot
    <3>2. ASSUME step' = "getdigest" \/
                    (step' = "policy" /\ written' /\ response' # NoResponse /\ response'.good)
          PROVE  \A s \in Session(handle)' : s.digest \in seen'
      <4>1. /\ step \in {"policy", "getdigest"}
            /\ step = "policy" => written' /\ response'.good
        BY <3>2
      <4> QED BY <4>1, ExecuteDigests
    <3>3. ASSUME step' = "getdigest", written', response'.good
          PROVE  response'.digest \in seen'
      <4>1. command.op = "getdigest" /\ command.handle = handle
        BY <3>3 DEF ChannelInv
      <4>2. PICK s \in Session(handle) : response'.digest = s.digest
        BY <3>3, <4>1 DEF Execute, Answer
      <4> QED BY <3>3, <4>2 DEF DigestInv
    <3> QED BY <3>1, <3>2, <3>3 DEF DigestInv
  <2>10. CASE Discard
    BY <2>10 DEF Discard, DigestInv, DigestIsOfOneMoment, Snapshot, Session
  <2>11. ASSUME NEW p \in AllPcrs, Extend(p) PROVE DigestInv'
    <3>1. Snapshot' \in seen' /\ seen \subseteq seen'
      BY <2>11 DEF Extend, Snapshot
    <3>2. UNCHANGED <<step, written, handle, ok, digest, response, sessions>>
      BY <2>11 DEF Extend
    <3> QED BY <3>1, <3>2 DEF DigestInv, DigestIsOfOneMoment, Session
  <2>12. CASE UNCHANGED vars
    BY <2>12 DEF vars, DigestInv, DigestIsOfOneMoment, Snapshot, Session
  <2> QED BY <2>1, <2>2, <2>3, <2>4, <2>5, <2>6, <2>7, <2>8, <2>9, <2>10, <2>11,
          <2>12 DEF Next, Daemon
<1>3. DigestInv => DigestIsOfOneMoment
  BY DEF DigestInv
<1> QED BY <1>1, <1>2, <1>3, SessionInvariant, PTL DEF Spec

-----------------------------------------------------------------------------
\* Fewer registers are left after a round that was accepted.
LEMMA FewerRemain ==
    ASSUME TpmChannelAssumption, TypeOK, NEW R \in SUBSET remaining, R # {}
    PROVE  /\ Cardinality(remaining) \in Nat /\ Cardinality(remaining \ R) \in Nat
           /\ Cardinality(remaining \ R) < Cardinality(remaining)
<1>1. remaining \in SUBSET AllPcrs
  BY DEF TypeOK, TpmChannelAssumption
<1>2. IsFiniteSet(remaining)
  BY <1>1, FS_Subset DEF TpmChannelAssumption
<1>3. remaining \ R \in SUBSET remaining /\ remaining \ R # remaining
  OBVIOUS
<1>4. /\ IsFiniteSet(remaining \ R)
      /\ Cardinality(remaining \ R) <= Cardinality(remaining)
      /\ Cardinality(remaining \ R) # Cardinality(remaining)
  BY <1>2, <1>3, FS_Subset
<1>5. Cardinality(remaining) \in Nat /\ Cardinality(remaining \ R) \in Nat
  BY <1>2, <1>4, FS_CardinalityType
<1> QED BY <1>4, <1>5

\* read_pcrs ends after as many rounds as there are registers to ask for.
THEOREM RoundsAreBounded == Spec => []RoundsBounded
<1> USE TpmChannelAssumption
<1>0. Cardinality(Asked) \in Nat /\ Cardinality(Asked) # 0
  <2>1. IsFiniteSet(Asked)
    BY FS_Subset DEF TpmChannelAssumption
  <2> QED BY <2>1, FS_CardinalityType, FS_EmptySet DEF TpmChannelAssumption
<1>1. Init => RoundsInv
  BY <1>0 DEF Init, RoundsInv, RoundsBounded
<1>2. TypeOK /\ RoundsInv /\ [Next]_vars => RoundsInv'
  <2> SUFFICES ASSUME TypeOK, RoundsInv, [Next]_vars PROVE RoundsInv'
    OBVIOUS
  <2> USE <1>0 DEF RoundsInv, RoundsBounded, deviceVars, historyVars
  <2>1. CASE /\ step' # "read" /\ rounds' \in {rounds, 0}
    <3>1. rounds' <= Cardinality(Asked)
      BY <2>1
    <3> QED BY <2>1, <3>1
  <2>2. CASE /\ step' = "read" /\ remaining' = Asked /\ rounds' = 0
             /\ written' = FALSE
    <3>1. ~written'
      BY <2>2, Zenon
    <3> QED BY <2>2, <3>1 DEF TpmChannelAssumption
  <2>3. ASSUME DigestReturned, written' = FALSE PROVE RoundsInv'
    BY <2>1, <2>2, <2>3 DEF DigestReturned
  <2>4. CASE Open \/ Close \/ Enrolled
    BY <2>1, <2>4 DEF Open, Close, Enrolled, AskDigest
  <2>5. CASE Write
    <3>1. ~written /\ written' /\ UNCHANGED <<step, remaining>>
      BY <2>5, Zenon DEF Write
    <3>2. rounds' = IF step = "read" THEN rounds + 1 ELSE rounds
      BY <2>5 DEF Write
    <3>3. CASE step = "read"
      <4>1. remaining # {} /\ rounds + Cardinality(remaining) <= Cardinality(Asked)
        BY <3>1, <3>3
      <4>2. Cardinality(remaining) \in Nat /\ Cardinality(remaining) # 0
        <5>1. remaining \in SUBSET AllPcrs
          BY DEF TypeOK, TpmChannelAssumption
        <5>2. IsFiniteSet(remaining)
          BY <5>1, FS_Subset DEF TpmChannelAssumption
        <5> QED BY <4>1, <5>2, FS_CardinalityType, FS_EmptySet
      <4>3. rounds \in Nat
        BY DEF TypeOK
      <4>4. rounds' + Cardinality(remaining') <= Cardinality(Asked) + 1
            /\ rounds' <= Cardinality(Asked)
        BY <3>1, <3>2, <3>3, <4>1, <4>2, <4>3
      <4> QED BY <3>1, <4>1, <4>4
    <3> QED BY <3>1, <3>2, <3>3
  <2>6. CASE WriteFails \/ GivesUp \/ BadResponse
    <3>1. Fails
      BY <2>6 DEF WriteFails, GivesUp, BadResponse
    <3> QED BY <2>1, <2>3, <3>1 DEF Fails, PolicyFails
  <2>7. CASE LockoutRead \/ SessionStarted \/ PolicyBuilt \/ DigestRead
    BY <2>1, <2>7 DEF LockoutRead, AskDigest, SessionStarted, PolicyBuilt, DigestRead
  <2>8. CASE Flushed BY <2>3, <2>8 DEF Flushed
  <2>9. CASE PcrsRead
    <3>1. step' = "consent" \/ (step' = "read" /\ remaining' # {}
            /\ Acceptable(response.pcrs, response.values)
            /\ remaining' = remaining \ response.pcrs)
      BY <2>9 DEF PcrsRead
    <3>2. rounds' = rounds /\ step = "read"
      BY <2>9 DEF PcrsRead
    <3>3. written /\ ~written'
      BY <2>9, Zenon DEF PcrsRead, Fetched
    <3>4. CASE step' = "read"
      <4>1. /\ Cardinality(remaining) \in Nat /\ Cardinality(remaining') \in Nat
            /\ Cardinality(remaining') < Cardinality(remaining)
        BY <3>1, <3>4, FewerRemain DEF Acceptable
      <4>2. rounds \in Nat
        BY DEF TypeOK
      <4>3. rounds' + Cardinality(remaining') <= Cardinality(Asked)
        BY <3>2, <3>3, <4>1, <4>2
      <4> QED BY <3>1, <3>2, <3>3, <3>4, <4>3
    <3> QED BY <2>1, <3>1, <3>2, <3>4
  <2>10. CASE Execute BY <2>10, ExecuteAnswers
  <2>11. CASE Discard BY <2>11 DEF Discard
  <2>12. CASE \E p \in AllPcrs : Extend(p) BY <2>12 DEF Extend
  <2>13. CASE UNCHANGED vars BY <2>13 DEF vars
  <2> QED BY <2>4, <2>5, <2>6, <2>7, <2>8, <2>9, <2>10, <2>11, <2>12, <2>13 DEF Next, Daemon
<1>3. RoundsInv => RoundsBounded
  BY DEF RoundsInv
<1> QED BY <1>1, <1>2, <1>3, ChannelTypeCorrect, PTL DEF Spec

\* An accepted round adds one true value for each register it settles.
LEMMA RoundIsSound ==
    ASSUME TpmChannelAssumption, TypeOK, ReadingInv, PcrsRead,
           Acceptable(response.pcrs, response.values)
    PROVE  /\ \A x \in out' : x.pcr \notin remaining'
           /\ \A p \in Asked \ remaining' : \E x \in out' :
                /\ {y \in out' : y.pcr = p} = {x}
                /\ before[p] <= x.value /\ x.value <= pcr[p]
<1> DEFINE R == response.pcrs
           V == response.values
           X(p) == [pcr |-> p, value |-> V[Place(p, R)]]
<1>1. R \in SUBSET AllPcrs /\ R \subseteq remaining /\ R \subseteq Asked /\ Len(V) = Cardinality(R)
  BY DEF TypeOK, Responses, Acceptable
<1>2. Paired(R, V) = {X(p) : p \in R}
  BY <1>1, PlaceBounds DEF Paired
<1>3. out' = out \cup {X(p) : p \in R} /\ remaining' = remaining \ R /\ step = "read"
  BY <1>2 DEF PcrsRead
<1>4. written /\ response # NoResponse /\ response.good
  BY Zenon DEF PcrsRead, Fetched
<1>5. \A p \in R : before[p] <= X(p).value /\ X(p).value <= pcr[p]
  <2> TAKE p \in R
  <2>1. Place(p, R) <= Len(V) /\ p \in response.pcrs \cap Asked
    BY <1>1, PlaceBounds
  <2> QED BY <1>3, <1>4, <2>1 DEF ReadingInv
<1>6. \A x \in out : x.pcr \notin remaining
  BY <1>3 DEF ReadingInv
<1> HIDE DEF R, V
<1>7. \A x \in out' : x.pcr \notin remaining'
  BY <1>1, <1>3, <1>6
<1>8. ASSUME NEW p \in Asked \ remaining'
      PROVE  \E x \in out' :
                /\ {y \in out' : y.pcr = p} = {x}
                /\ before[p] <= x.value /\ x.value <= pcr[p]
  <2>1. CASE p \in R
    <3>1. {y \in out' : y.pcr = p} = {X(p)}
      BY <1>1, <1>3, <1>6, <2>1
    <3> QED BY <1>3, <1>5, <2>1, <3>1
  <2>2. CASE p \notin R
    <3>1. PICK x \in out : /\ {y \in out : y.pcr = p} = {x}
                           /\ before[p] <= x.value /\ x.value <= pcr[p]
      BY <1>3, <1>8, <2>2 DEF ReadingInv
    <3>2. {y \in out' : y.pcr = p} = {x}
      BY <1>3, <2>2, <3>1
    <3> QED BY <1>3, <3>1, <3>2
  <2> QED BY <2>1, <2>2
<1> QED BY <1>7, <1>8

\* The values on their way are those the registers have.
LEMMA AnswersTruly ==
    ASSUME ChannelInv, ReadingInv, Execute, written, step = "read", response'.good,
           NEW p \in response'.pcrs \cap Asked,
           Place(p, response'.pcrs) <= Len(response'.values),
           TpmChannelAssumption
    PROVE  response'.values[Place(p, response'.pcrs)] = pcr[p]
<1>1. command.op = "read"
  BY ExecuteAnswers DEF ChannelInv
<1>2. PICK pcrs \in SUBSET AllPcrs :
        \E n \in {Cardinality(pcrs), Cardinality(pcrs) - 1} \cap Nat :
            \E values \in TrueValues(pcrs, n) : Answer(NoDigest, pcrs, values)
  BY <1>1 DEF Execute
<1>3. PICK n \in Nat : \E values \in TrueValues(pcrs, n) : Answer(NoDigest, pcrs, values)
  BY <1>2
<1>4. PICK values \in TrueValues(pcrs, n) : Answer(NoDigest, pcrs, values)
  BY <1>3
<1>5. response'.pcrs = pcrs /\ response'.values = values
  BY <1>4 DEF Answer
<1>6. values \in [1..n -> {pcr[q] : q \in pcrs}] /\ p \in pcrs
  BY <1>4, <1>5 DEF TrueValues
<1>7. Len(values) = n
  <2>1. \A S : values \in [1..n -> S] => values \in Seq(S) /\ Len(values) = n
    BY <1>3
  <2> QED BY <1>6, <2>1
<1> QED BY <1>4, <1>5, <1>6, <1>7 DEF TrueValues

\* What is logged of the registers is complete and true.
THEOREM ReadingsAreSound == Spec => []ReadingIsSound
<1> USE TpmChannelAssumption
<1>1. Init => ReadingInv
  <2> SUFFICES ASSUME Init PROVE ReadingInv
    OBVIOUS
  <2>1. ~written /\ step = "closed"
    BY Zenon DEF Init
  <2> QED BY <2>1 DEF ReadingInv
<1>2. TypeOK /\ ChannelInv /\ ReadingInv /\ [Next]_vars => ReadingInv'
  <2> SUFFICES ASSUME TypeOK, ChannelInv, ReadingInv, [Next]_vars PROVE ReadingInv'
    OBVIOUS
  <2> USE DEF deviceVars, historyVars
  <2>1. ASSUME step' \notin {"read", "consent"} PROVE ReadingInv'
    BY <2>1 DEF ReadingInv
  <2>2. ASSUME step' \in {"read", "consent"} => step \in {"read", "consent"},
               ~written' \/ response' = NoResponse,
               UNCHANGED <<remaining, out, before, pcr>>
        PROVE  ReadingInv'
    BY <2>2 DEF ReadingInv
  <2>3. ASSUME DigestReturned, ~written', pcr' = pcr PROVE ReadingInv'
    <3>1. CASE step' = "closing"
      BY <2>1, <3>1
    <3>2. CASE /\ remaining' = Asked /\ out' = {} /\ before' = pcr
      <4>1. \A p \in Asked : before'[p] <= pcr'[p]
        BY <2>3, <3>2 DEF TypeOK
      <4> QED BY <2>3, <3>2, <4>1 DEF ReadingInv
    <3> QED BY <2>3, <3>1, <3>2 DEF DigestReturned
  <2>4. CASE Open \/ Close \/ Enrolled
    BY <2>1, <2>4 DEF Open, Close, Enrolled, AskDigest
  <2>5. CASE Write
    <3>1. response' = NoResponse /\ UNCHANGED <<step, remaining, out, before, pcr>>
      BY <2>5 DEF Write, Free
    <3> QED BY <2>2, <3>1
  <2>6. CASE WriteFails \/ GivesUp \/ BadResponse
    <3>1. Fails /\ pcr' = pcr
      BY <2>6 DEF WriteFails, GivesUp, BadResponse
    <3>2. ~written'
      BY <3>1, Zenon DEF Fails
    <3>3. CASE DigestReturned
      BY <2>3, <3>1, <3>2, <3>3
    <3>4. CASE step' \in {"closing", "flush"}
      BY <2>1, <3>4
    <3>5. CASE step = "read" /\ step' = "consent" /\ UNCHANGED <<remaining, out, before>>
      BY <2>2, <3>1, <3>2, <3>5
    <3> QED BY <3>1, <3>3, <3>4, <3>5 DEF Fails, PolicyFails
  <2>7. CASE LockoutRead \/ SessionStarted \/ PolicyBuilt \/ DigestRead
    BY <2>1, <2>7 DEF LockoutRead, AskDigest, SessionStarted, PolicyBuilt, DigestRead
  <2>8. CASE Flushed
    <3>1. ~written'
      BY <2>8, Zenon DEF Flushed
    <3> QED BY <2>3, <2>8, <3>1 DEF Flushed
  <2>9. CASE PcrsRead
    <3>1. ~written'
      BY <2>9, Zenon DEF PcrsRead
    <3>2. step = "read" /\ UNCHANGED <<before, pcr>>
      BY <2>9 DEF PcrsRead
    <3>3. CASE Acceptable(response.pcrs, response.values)
      BY <2>9, <3>1, <3>2, <3>3, RoundIsSound DEF ReadingInv
    <3>4. CASE ~Acceptable(response.pcrs, response.values)
      <4>1. UNCHANGED <<remaining, out>>
        BY <2>9, <3>4 DEF PcrsRead
      <4> QED BY <2>2, <3>1, <3>2, <4>1
    <3> QED BY <3>3, <3>4
  <2>10. CASE Execute
    <3> USE ExecuteAnswers, <2>10
    <3>1. ASSUME written', step' = "read", response'.good
          PROVE  \A p \in response'.pcrs \cap Asked :
                    Place(p, response'.pcrs) <= Len(response'.values) =>
                        /\ before'[p] <= response'.values[Place(p, response'.pcrs)]
                        /\ response'.values[Place(p, response'.pcrs)] <= pcr'[p]
      <4>1. written /\ step = "read"
        BY <3>1, Zenon
      <4>2. \A p \in Asked : before[p] <= pcr[p] /\ pcr[p] \in Nat
        BY <4>1 DEF ReadingInv, TypeOK, TpmChannelAssumption
      <4>3. ASSUME NEW p \in response'.pcrs \cap Asked,
                   Place(p, response'.pcrs) <= Len(response'.values)
            PROVE  response'.values[Place(p, response'.pcrs)] = pcr[p]
        BY <3>1, <4>1, <4>3, AnswersTruly
      <4>4. before' = before /\ pcr' = pcr
        OBVIOUS
      <4>5. ASSUME NEW p \in response'.pcrs \cap Asked,
                   Place(p, response'.pcrs) <= Len(response'.values)
            PROVE  /\ before'[p] <= response'.values[Place(p, response'.pcrs)]
                   /\ response'.values[Place(p, response'.pcrs)] <= pcr'[p]
        <5>1. response'.values[Place(p, response'.pcrs)] = pcr[p]
          BY <4>3, <4>5
        <5>2. before[p] <= pcr[p] /\ pcr[p] \in Nat
          BY <4>2, <4>5
        <5> HIDE <2>10, ExecuteAnswers
        <5> QED BY <4>4, <5>1, <5>2
      <4> QED BY <4>5
    <3>2. \A p \in Asked : Place(p, response'.pcrs) = Place(p, response.pcrs)'
      BY DEF Place
    <3> QED BY <3>1, <3>2 DEF ReadingInv
  <2>11. CASE Discard
    <3>1. response' = NoResponse /\ UNCHANGED <<step, remaining, out, before, pcr>>
      BY <2>11 DEF Discard
    <3> QED BY <2>2, <3>1
  <2>12. ASSUME NEW q \in AllPcrs, Extend(q) PROVE ReadingInv'
    <3>1. \A p \in Asked : pcr[p] \in Nat /\ pcr'[p] \in Nat /\ pcr[p] <= pcr'[p]
      BY <2>12 DEF Extend, TypeOK, TpmChannelAssumption
    <3>2. UNCHANGED <<step, written, response, remaining, out, before>>
      BY <2>12 DEF Extend
    <3>3. \A p \in Asked : before[p] \in Nat
      BY DEF TypeOK, TpmChannelAssumption
    <3>4. \A x \in out : x.value \in Nat
      BY DEF TypeOK
    <3>5. \A p \in response.pcrs \cap Asked :
            Place(p, response.pcrs) <= Len(response.values) =>
                response.values[Place(p, response.pcrs)] \in Nat
      <4>1. response.values \in Seq(Nat) /\ response.pcrs \in SUBSET AllPcrs
        BY DEF TypeOK, Responses
      <4>2. \A p \in response.pcrs : Place(p, response.pcrs) \in Nat \ {0}
        BY <4>1, PlaceBounds
      <4> QED BY <4>1, <4>2
    <3>6. ASSUME step' \in {"read", "consent"}
          PROVE  /\ \A p \in Asked : before'[p] <= pcr'[p]
                 /\ \A x \in out' : x.pcr \notin remaining'
                 /\ \A p \in Asked \ remaining' : \E x \in out' :
                        /\ {y \in out' : y.pcr = p} = {x}
                        /\ before'[p] <= x.value /\ x.value <= pcr'[p]
      <4>1. \A p \in Asked : before[p] <= pcr[p]
        BY <3>2, <3>6 DEF ReadingInv
      <4>2. \A x \in out' : x.pcr \notin remaining'
        BY <3>2, <3>6 DEF ReadingInv
      <4>3. ASSUME NEW p \in Asked \ remaining'
            PROVE  \E x \in out' : /\ {y \in out' : y.pcr = p} = {x}
                                   /\ before'[p] <= x.value /\ x.value <= pcr'[p]
        <5>1. PICK x \in out : /\ {y \in out : y.pcr = p} = {x}
                               /\ before[p] <= x.value /\ x.value <= pcr[p]
          BY <3>2, <3>6, <4>3 DEF ReadingInv
        <5>2. before'[p] <= x.value /\ x.value <= pcr'[p]
          BY <3>1, <3>2, <3>3, <3>4, <5>1
        <5> QED BY <3>2, <5>1, <5>2
      <4> QED BY <3>1, <3>2, <3>3, <4>1, <4>2, <4>3
    <3>7. ASSUME written', step' = "read", response' # NoResponse, response'.good,
                 NEW p \in response'.pcrs \cap Asked,
                 Place(p, response'.pcrs) <= Len(response'.values)
          PROVE  /\ before'[p] <= response'.values[Place(p, response'.pcrs)]
                 /\ response'.values[Place(p, response'.pcrs)] <= pcr'[p]
      <4>1. written /\ step = "read" /\ response # NoResponse /\ response.good
        BY <3>2, <3>7, Zenon
      <4>2. /\ before[p] <= response.values[Place(p, response.pcrs)]
            /\ response.values[Place(p, response.pcrs)] <= pcr[p]
        BY <3>2, <3>7, <4>1 DEF ReadingInv
      <4>3. /\ response'.values[Place(p, response'.pcrs)] =
                    response.values[Place(p, response.pcrs)]
            /\ before' = before
        BY <3>2
      <4>4. response.values[Place(p, response.pcrs)] \in Nat
        BY <3>2, <3>5, <3>7
      <4>5. before[p] \in Nat /\ pcr[p] \in Nat /\ pcr'[p] \in Nat /\ pcr[p] <= pcr'[p]
        BY <3>1, <3>3, <3>7
      <4> QED BY <4>2, <4>3, <4>4, <4>5
    <3> QED BY <3>6, <3>7 DEF ReadingInv
  <2>13. CASE UNCHANGED vars BY <2>13 DEF vars, ReadingInv
  <2> QED BY <2>4, <2>5, <2>6, <2>7, <2>8, <2>9, <2>10, <2>11, <2>12, <2>13 DEF Next, Daemon
<1>3. ReadingInv => ReadingIsSound
  BY DEF ReadingInv, ReadingIsSound
<1> QED BY <1>1, <1>2, <1>3, ChannelInvariant, PTL DEF Spec

-----------------------------------------------------------------------------
\* What a handling still has ahead of it of the device, but for the second
\* digest that verify may ask for.
Ahead == [lockout |-> 9, start |-> 8, policy |-> 7, getdigest |-> 6, flush |-> 5,
          read |-> 4, consent |-> 3, closing |-> 1, closed |-> 0]

\* The handling has come nearer to closing the device: verify has begun, or the
\* next command has been come to, or fewer registers are outstanding, or the
\* command has been written.
Nearer ==
    \/ use = "check" /\ use' = "verify"
    \/ /\ use' = use
       /\ \/ Ahead[step'] < Ahead[step]
          \/ /\ step' = step
             /\ \/ remaining' \subseteq remaining /\ remaining' # remaining
                \/ remaining' = remaining /\ ~written /\ written'

\* What a step does to a device that is open.
Advances ==
    step # "closed" =>
        /\ Daemon => Nearer
        /\ ~Daemon => UNCHANGED <<use, step, remaining, written>>

\* log_state and what follows it belong to the preflight.
UseInv == step \in {"lockout", "read", "consent"} => use = "check"

\* A transact that fails is not tried again.
LEMMA FailsAdvances ==
    ASSUME TypeOK, UseInv, Fails, step \in Commands
    PROVE  Nearer /\ UseInv'
<1> USE DEF Nearer, Ahead, UseInv, Commands
<1>1. CASE step \in {"lockout", "start"} BY <1>1 DEF Fails, PolicyFails
<1>2. CASE step \in {"policy", "getdigest"} BY <1>2 DEF Fails, PolicyFails
<1>3. CASE step \in {"flush", "read"}
  BY <1>3 DEF Fails, PolicyFails, DigestReturned
<1> QED BY <1>1, <1>2, <1>3

\* Every step of the daemon brings the open device nearer to being closed,
\* whatever the TPM answers, garbage and repetitions included, and no step of
\* the TPM's puts it back: transact is never repeated, read_pcrs only with less
\* to ask for, and the digest only once more.
THEOREM OpeningsAdvance == Spec => [][Advances]_vars
<1> USE DEF UseInv
<1>1. Init => UseInv
  BY DEF Init
<1>2. ASSUME TypeOK, UseInv, step # "closed", Daemon
      PROVE  Nearer /\ UseInv'
  <2> USE DEF Nearer, Ahead, Commands
  <2>1. CASE Open \/ Close BY <1>2, <2>1 DEF Open, Close
  <2>2. CASE Write
    <3>1. UNCHANGED <<use, step, remaining>>
      BY <2>2 DEF Write
    <3>2. ~written /\ written'
      BY <2>2, Zenon DEF Write
    <3> QED BY <1>2, <3>1, <3>2
  <2>3. CASE WriteFails \/ GivesUp \/ BadResponse
    BY <1>2, <2>3, FailsAdvances DEF WriteFails, GivesUp, BadResponse
  <2>4. CASE LockoutRead BY <1>2, <2>4 DEF LockoutRead, AskDigest
  <2>5. CASE SessionStarted BY <1>2, <2>5 DEF SessionStarted
  <2>6. CASE PolicyBuilt BY <1>2, <2>6 DEF PolicyBuilt
  <2>7. CASE DigestRead BY <1>2, <2>7 DEF DigestRead
  <2>8. CASE Flushed BY <1>2, <2>8 DEF Flushed, DigestReturned
  <2>9. CASE PcrsRead
    <3>1. step = "read" /\ use' = use /\ step' \in {"read", "consent"}
      BY <2>9 DEF PcrsRead
    <3>2. ASSUME step' = "read"
          PROVE  remaining' \subseteq remaining /\ remaining' # remaining
      <4>1. Acceptable(response.pcrs, response.values)
            /\ remaining' = remaining \ response.pcrs
        BY <2>9, <3>2 DEF PcrsRead
      <4> QED BY <4>1 DEF Acceptable
    <3> QED BY <1>2, <3>1, <3>2
  <2>10. CASE Enrolled BY <1>2, <2>10 DEF Enrolled, AskDigest
  <2> HIDE DEF Nearer
  <2> QED BY <1>2, <2>1, <2>2, <2>3, <2>4, <2>5, <2>6, <2>7, <2>8, <2>9, <2>10 DEF Daemon
<1>3. ASSUME [Next]_vars, ~Daemon
      PROVE  UNCHANGED <<use, step, remaining, written>>
  BY <1>3 DEF Next, Execute, Discard, Extend, vars
<1>4. TypeOK /\ UseInv /\ [Next]_vars => UseInv' /\ [Advances]_vars
  <2>1. ASSUME UseInv, step = "closed", Daemon PROVE UseInv'
    BY <2>1 DEF Daemon, Open, Close, Write, WriteFails, GivesUp, BadResponse,
       LockoutRead, SessionStarted, PolicyBuilt, DigestRead, Flushed, PcrsRead,
       Enrolled, Commands
  <2> QED BY <1>2, <1>3, <2>1 DEF Advances
<1> QED BY <1>1, <1>4, ChannelTypeCorrect, PTL DEF Spec

=============================================================================

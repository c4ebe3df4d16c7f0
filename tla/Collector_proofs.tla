---------------------------- MODULE Collector_proofs ----------------------------
(***************************************************************************)
(* What Collector guarantees for every set of piped streams, every capacity *)
(* and pipe, and however much the child writes.                             *)
(***************************************************************************)
EXTENDS Collector, SequenceTheorems, TLAPS

Running == {"pidfd", "loop", "poll", "walk", "drain"}

\* There are pipes to drain only while the daemon drains them.
CollectorTypeInv ==
    /\ TypeOK
    /\ pc # "drain" => drains = {}

\* The child is there from spawn to wait, and nobody else waits for it.
LifeInv ==
    /\ pc = "spawn" => child = "none"
    /\ pc \in Running \cup {"kill", "wait"} => child \in {"running", "zombie"}
    /\ pc = "returned" => child \in {"none", "reaped"}
    /\ exited => child \in {"zombie", "reaped"}

\* Nothing that was written is lost: it has been read or is still in the pipe.  A
\* pipe that collect has let go of because it has come to its end is empty, and
\* nobody is left to write to it.
PipesInv ==
    /\ \A s \in Piped : wrote[s] = got[s] + pipe[s]
    /\ pc \in Running => \A s \in Piped \ open : pipe[s] = 0 /\ writers[s] = {}
    /\ result = "ok" =>
         /\ pc \in {"wait", "returned"} /\ open = {}
         /\ child \in {"zombie", "reaped"}
         /\ \A s \in Piped : pipe[s] = 0 /\ writers[s] = {}
    /\ OverflowIsReal

\* What poll has found of a descriptor stays so until it is acted upon, and
\* there is one entry for each descriptor that was pushed.
PollInv ==
    /\ pc = "walk" =>
         /\ DOMAIN revents = DOMAIN Fds
         /\ \A i \in DOMAIN Fds : revents[i] => Readable(Fds[i])
    /\ ReadsReturn

-----------------------------------------------------------------------------
\* The smallest of three numbers is one of them and no greater than any.
LEMMA SmallestOfThree ==
    ASSUME NEW a \in Nat, NEW b \in Nat, NEW c \in Nat
    PROVE  /\ Smallest({a, b, c}) \in {a, b, c}
           /\ \A m \in {a, b, c} : Smallest({a, b, c}) <= m
<1> DEFINE S == {a, b, c}
<1>1. \E n \in S : \A m \in S : n <= m
  OBVIOUS
<1> HIDE DEF S
<1>2. Smallest(S) \in S /\ \A m \in S : Smallest(S) <= m
  BY <1>1 DEF Smallest
<1> QED BY <1>2 DEF S

\* A read takes what is there and fits, and takes nothing only from a pipe that
\* is empty or has no room left to go to.
LEMMA TakesFits ==
    ASSUME CollectorAssumption, TypeOK, NEW s \in Piped
    PROVE  /\ Takes(s) \in 0..pipe[s]
           /\ got[s] + Takes(s) \in 0..Cap[s]
<1>1. pipe[s] \in Nat /\ got[s] \in 0..Cap[s] /\ Cap[s] \in Nat /\ Chunk \in Nat
  BY DEF CollectorAssumption, TypeOK
<1>2. Cap[s] - got[s] \in Nat
  BY <1>1
<1>3. /\ Takes(s) \in {Chunk, Cap[s] - got[s], pipe[s]}
      /\ \A m \in {Chunk, Cap[s] - got[s], pipe[s]} : Takes(s) <= m
  BY <1>1, <1>2, SmallestOfThree DEF Takes
<1> QED BY <1>1, <1>2, <1>3

\* What is polled is a list of descriptors that were pushed.
LEMMA FdsType == Fds \in Seq({x \in {"pidfd", "stdout", "stderr"} : Pushed(x)})
<1> DEFINE D == {x \in {"pidfd", "stdout", "stderr"} : Pushed(x)}
<1>1. \A x \in {"pidfd", "stdout", "stderr"} : Entry(x) \in Seq(D)
  <2> TAKE x \in {"pidfd", "stdout", "stderr"}
  <2>1. <<>> \in Seq(D) /\ (Pushed(x) => <<x>> \in Seq(D))
    BY EmptySeq
  <2> QED BY <2>1 DEF Entry
<1> HIDE DEF D
<1>2. \A q, r, t \in Seq(D) : q \o r \o t \in Seq(D)
  BY ConcatProperties
<1>3. Entry("pidfd") \in Seq(D) /\ Entry("stdout") \in Seq(D) /\ Entry("stderr") \in Seq(D)
  BY <1>1
<1> QED BY <1>2, <1>3 DEF Fds, D

\* Each of them is one of the child's pidfd and the pipes.
LEMMA FdsElements ==
    ASSUME TypeOK
    PROVE  \A i \in DOMAIN Fds : Fds[i] = "pidfd" \/ Fds[i] \in Piped
<1> DEFINE D == {x \in {"pidfd", "stdout", "stderr"} : Pushed(x)}
<1>1. \A x \in D : x = "pidfd" \/ x \in Piped
  BY DEF Pushed, TypeOK
<1>2. Fds \in Seq(D)
  BY FdsType
<1> HIDE DEF D
<1>3. \A i \in DOMAIN Fds : Fds[i] \in D
  BY <1>2, LenProperties, ElementOfSeq
<1> QED BY <1>1, <1>3

\* Every descriptor that was pushed has its place among those polled.
LEMMA PlaceOfPushed ==
    ASSUME NEW x \in {"pidfd", "stdout", "stderr"}, Pushed(x)
    PROVE  Place(x) \in DOMAIN Fds /\ Fds[Place(x)] = x
<1> DEFINE D == {"pidfd", "stdout", "stderr"}
           a == Entry("pidfd")  b == Entry("stdout")  c == Entry("stderr")
<1>1. /\ a \in Seq(D) /\ (Pushed("pidfd") => Len(a) = 1 /\ a[1] = "pidfd")
      /\ b \in Seq(D) /\ (Pushed("stdout") => Len(b) = 1 /\ b[1] = "stdout")
      /\ c \in Seq(D) /\ (Pushed("stderr") => Len(c) = 1 /\ c[1] = "stderr")
  <2>1. \A q \in D : <<q>> \in Seq(D) /\ Len(<<q>>) = 1 /\ <<q>>[1] = q
    OBVIOUS
  <2>2. <<>> \in Seq(D)
    BY EmptySeq
  <2> QED BY <2>1, <2>2 DEF Entry
<1> HIDE DEF a, b, c
<1>2. /\ a \o b \in Seq(D) /\ Len(a \o b) = Len(a) + Len(b)
      /\ \A i \in 1..Len(a) : (a \o b)[i] = a[i]
      /\ \A i \in Len(a) + 1 .. Len(a) + Len(b) : (a \o b)[i] = b[i - Len(a)]
  BY <1>1, ConcatProperties
<1>3. /\ Len((a \o b) \o c) = Len(a \o b) + Len(c)
      /\ \A i \in 1..Len(a \o b) : ((a \o b) \o c)[i] = (a \o b)[i]
      /\ \A i \in Len(a \o b) + 1 .. Len(a \o b) + Len(c) :
            ((a \o b) \o c)[i] = c[i - Len(a \o b)]
      /\ (a \o b) \o c \in Seq(D)
  BY <1>1, <1>2, ConcatProperties
<1>4. DOMAIN Fds = 1..Len(Fds) /\ Fds = (a \o b) \o c
  BY <1>3, LenProperties DEF Fds, a, b, c
<1>5. Len(a) \in Nat /\ Len(b) \in Nat /\ Len(c) \in Nat
  BY <1>1
<1>6. \E i \in DOMAIN Fds : Fds[i] = x
  <2>1. CASE x = "pidfd"
    <3>0. Len(a) = 1 /\ a[1] = x
      BY <1>1, <2>1
    <3>1. 1 \in 1..Len(a) /\ 1 \in 1..Len(a \o b) /\ 1 \in 1..Len((a \o b) \o c)
      BY <1>2, <1>3, <1>5, <3>0
    <3>3. 1 \in DOMAIN Fds
      BY <1>4, <3>1
    <3>2. Fds[1] = x
      BY <1>2, <1>3, <1>4, <3>0, <3>1
    <3> QED BY <3>2, <3>3
  <2>2. CASE x = "stdout"
    <3> DEFINE i == Len(a) + 1
    <3>0. Len(b) = 1 /\ b[1] = x
      BY <1>1, <2>2
    <3>1. /\ i \in Len(a) + 1 .. Len(a) + Len(b) /\ i - Len(a) = 1
          /\ i \in 1..Len(a \o b) /\ i \in 1..Len((a \o b) \o c)
      BY <1>2, <1>3, <1>5, <3>0
    <3>2. Fds[i] = x /\ i \in DOMAIN Fds
      BY <1>2, <1>3, <1>4, <3>0, <3>1
    <3> QED BY <3>2
  <2>3. CASE x = "stderr"
    <3> DEFINE i == Len(a \o b) + 1
    <3>0. Len(c) = 1 /\ c[1] = x
      BY <1>1, <2>3
    <3>1. /\ i \in Len(a \o b) + 1 .. Len(a \o b) + Len(c) /\ i - Len(a \o b) = 1
          /\ i \in 1..Len((a \o b) \o c)
      BY <1>2, <1>3, <1>5, <3>0
    <3>2. Fds[i] = x /\ i \in DOMAIN Fds
      BY <1>3, <1>4, <3>0, <3>1
    <3> QED BY <3>2
  <2> QED BY <2>1, <2>2, <2>3
<1> QED BY <1>6 DEF Place

-----------------------------------------------------------------------------
\* Each step keeps the types, and gives up what it was draining when it returns.
LEMMA CollectorTypes == Spec => []CollectorTypeInv
<1> USE CollectorAssumption DEF CollectorAssumption
<1>1. Init => CollectorTypeInv
  <2> SUFFICES ASSUME Init PROVE CollectorTypeInv
    OBVIOUS
  <2>1. revents \in Seq(BOOLEAN)
    BY EmptySeq DEF Init
  <2>2. 0 \in 0..PipeSize
    OBVIOUS
  <2>3. got \in [Piped -> Nat] /\ \A s \in Piped : got[s] <= Cap[s]
    BY DEF Init
  <2> QED BY <2>1, <2>2, <2>3 DEF Init, CollectorTypeInv, TypeOK
<1>2. CollectorTypeInv /\ [Next]_vars => CollectorTypeInv'
  <2> SUFFICES ASSUME CollectorTypeInv, [Next]_vars PROVE CollectorTypeInv'
    OBVIOUS
  <2> USE DEF CollectorTypeInv, TypeOK, childVars
  <2>1. CASE Spawn
    <3>1. writers' \in [Piped -> SUBSET {"child", "grandchild"}]
      BY <2>1 DEF Spawn
    <3>2. /\ pc' \in {"pidfd", "returned"} /\ open' \subseteq Piped /\ pc = "spawn"
          /\ child' \in {"none", "running", "zombie", "reaped"}
          /\ result' \in {"none", "ok", "timeout", "overflow", "error"}
      BY <2>1 DEF Spawn
    <3>3. UNCHANGED <<exited, revents, drains, got, late, signals, killed, stuck, wants,
                      pipe, wrote>>
      BY <2>1 DEF Spawn
    <3>4. drains = {}
      BY <3>2
    <3> QED BY <3>1, <3>2, <3>3, <3>4
  <2>2. CASE OpenPidfd BY <2>2 DEF OpenPidfd
  <2>3. CASE Loop
    <3>1. /\ pc' \in {"wait", "kill", "poll"} /\ open' \in {open, {}} /\ pc = "loop"
          /\ result' \in {result, "ok", "timeout"}
      BY <2>3, Zenon DEF Loop, Abandon
    <3>2. UNCHANGED <<exited, revents, drains, got, late, signals, childVars>>
      BY <2>3, Zenon DEF Loop
    <3>3. drains = {}
      BY <3>1
    <3> QED BY <3>1, <3>2, <3>3
  <2>4. CASE Poll
    <3>2. revents' \in Seq(BOOLEAN)
      <4>1. DOMAIN Fds = 1..Len(Fds) /\ Len(Fds) \in Nat
        BY FdsType, LenProperties
      <4>2. \A x : Readable(x) \in BOOLEAN
        BY DEF Readable
      <4>3. revents' \in [1..Len(Fds) -> BOOLEAN]
        BY <2>4, <4>1, <4>2 DEF Poll
      <4>4. \A n \in Nat : \A r \in [1..n -> BOOLEAN] : r \in Seq(BOOLEAN)
        BY SeqDef, SMTT(30)
      <4> QED BY <4>1, <4>3, <4>4, Zenon
    <3> QED BY <2>4, <3>2 DEF Poll
  <2>5. CASE Walk BY <2>5 DEF Walk, Ready, Pushed
  <2>6. ASSUME NEW s \in Piped, Drain(s) PROVE CollectorTypeInv'
    <3>1. CASE TooMuch(s) BY <2>6, <3>1 DEF Drain, Abandon
    <3>2. CASE ~TooMuch(s)
      <4>1. /\ got' = [got EXCEPT ![s] = @ + Takes(s)]
            /\ pipe' = [pipe EXCEPT ![s] = @ - Takes(s)]
            /\ open' \in {open, open \ {s}} /\ drains' = drains \ {s}
            /\ pc' = "drain" /\ UNCHANGED <<result, exited, revents, late, signals,
                  child, killed, stuck, wants, writers, wrote>>
            /\ pipe[s] = 0 \/ open' = open
        BY <2>6, <3>2 DEF Drain
      <4>2. /\ Takes(s) \in 0..pipe[s]
            /\ got[s] + Takes(s) \in 0..Cap[s]
        BY TakesFits
      <4>3. /\ got' \in [Piped -> Nat] /\ \A t \in Piped : got'[t] <= Cap[t]
            /\ pipe' \in [Piped -> 0..PipeSize]
        BY <4>1, <4>2
      <4>4. open' \subseteq Piped /\ drains' \subseteq open'
        BY <4>1
      <4> QED BY <4>1, <4>3, <4>4
    <3> QED BY <3>1, <3>2
  <2>7. CASE Drained BY <2>7 DEF Drained
  <2>8. CASE KillChild BY <2>8 DEF KillChild
  <2>9. CASE Wait BY <2>9 DEF Wait
  <2>10. CASE Fault
    <3>1. CASE Interrupted BY <3>1 DEF Interrupted
    <3>2. CASE PollFails BY <3>2 DEF PollFails, Abandon
    <3>3. ASSUME NEW s \in Piped, DrainFails(s) PROVE CollectorTypeInv'
      <4>1. CASE Abandon("error") /\ drains' = {} /\ UNCHANGED signals
        BY <3>3, <4>1 DEF DrainFails, Abandon
      <4>2. CASE signals' = signals + 1 /\ drains' = drains \ {s} /\ UNCHANGED <<pc, result, open>>
        BY <3>3, <4>2 DEF DrainFails
      <4> QED BY <3>3, <4>1, <4>2 DEF DrainFails
    <3> QED BY <2>10, <3>1, <3>2, <3>3 DEF Fault
  <2>11. CASE Deadline BY <2>11 DEF Deadline, daemonVars
  <2>12. CASE Goes
    <3>1. ASSUME NEW s \in Piped, Begin(s) PROVE CollectorTypeInv'
      BY <3>1 DEF Begin, daemonVars
    <3>2. CASE Write BY <3>2 DEF Write, Put, daemonVars
    <3>3. CASE Exit BY <3>3 DEF Exit, Gone, daemonVars
    <3> QED BY <2>12, <3>1, <3>2, <3>3 DEF Goes
  <2>13. CASE Dies BY <2>13 DEF Dies, Gone, daemonVars
  <2>14. CASE Sleep BY <2>14 DEF Sleep, daemonVars
  <2>19. CASE Wake
    <3>1. /\ stuck' \in BOOLEAN
          /\ UNCHANGED <<daemonVars, late, signals, child, killed, wants, pipe, writers, wrote>>
      BY <2>19, Zenon DEF Wake
    <3> QED BY <3>1 DEF daemonVars
  <2>15. CASE GrandchildExits BY <2>15 DEF GrandchildExits, daemonVars
  <2>16. ASSUME NEW s \in Piped, CloseOrShare(s) PROVE CollectorTypeInv'
    BY <2>16 DEF CloseOrShare, daemonVars
  <2>17. ASSUME NEW s \in Piped, GrandchildWrites(s) PROVE CollectorTypeInv'
    BY <2>17 DEF GrandchildWrites, Put, daemonVars
  <2>18. CASE UNCHANGED vars BY <2>18 DEF vars, daemonVars
  <2> QED BY <2>1, <2>2, <2>3, <2>4, <2>5, <2>6, <2>7, <2>8, <2>9, <2>10, <2>11,
             <2>12, <2>13, <2>14, <2>15, <2>16, <2>17, <2>18, <2>19 DEF Next, Daemon
<1> QED BY <1>1, <1>2, PTL DEF Spec

\* Every variable keeps its type.
THEOREM CollectorTypeCorrect == Spec => []TypeOK
<1>1. CollectorTypeInv => TypeOK
  BY DEF CollectorTypeInv
<1> QED BY <1>1, CollectorTypes, PTL

-----------------------------------------------------------------------------
\* The child, those it leaves behind and the clock.
Outside ==
    \/ Deadline \/ Goes \/ Dies \/ Sleep \/ Wake \/ GrandchildExits
    \/ \E s \in Piped : CloseOrShare(s) \/ GrandchildWrites(s)

\* What they leave alone: the daemon, a pipe nobody reads or nobody writes to, and
\* a child that has exited.
OutsideFrame ==
    /\ UNCHANGED daemonVars
    /\ child' = child \/ (child = "running" /\ child' = "zombie")
    /\ \A s \in Piped :
          /\ writers[s] = {} => writers'[s] = {}
          /\ \/ pipe'[s] = pipe[s] /\ wrote'[s] = wrote[s]
             \/ pipe'[s] = pipe[s] + 1 /\ wrote'[s] = wrote[s] + 1 /\ s \in open

\* Whatever goes on outside the daemon, that much stays.
LEMMA OutsideSteps == ASSUME TypeOK, Outside PROVE OutsideFrame
<1> USE DEF OutsideFrame, childVars
<1>0. pipe \in [Piped -> 0..PipeSize] /\ wrote \in [Piped -> Nat]
  BY DEF TypeOK
<1>1. CASE Deadline BY <1>1 DEF Deadline
<1>2. ASSUME NEW s \in Piped, Begin(s) PROVE OutsideFrame
  BY <1>2 DEF Begin
<1>3. ASSUME NEW s \in Piped, Put(s) PROVE OutsideFrame
  BY <1>0, <1>3 DEF Put
<1>4. CASE Write
  BY <1>3, <1>4 DEF Write, TypeOK
<1>5. CASE Gone /\ child = "running"
  <2>1. writers \in [Piped -> SUBSET {"child", "grandchild"}]
    BY DEF TypeOK
  <2> QED BY <1>5, <2>1 DEF Gone
<1>6. CASE Exit \/ Dies BY <1>5, <1>6 DEF Exit, Dies, Alive
<1>7. CASE Sleep BY <1>7 DEF Sleep
<1>8. CASE Wake BY <1>8 DEF Wake
<1>9. CASE GrandchildExits BY <1>9 DEF GrandchildExits, TypeOK
<1>10. ASSUME NEW s \in Piped, CloseOrShare(s) PROVE OutsideFrame
  BY <1>10 DEF CloseOrShare, TypeOK
<1>11. ASSUME NEW s \in Piped, GrandchildWrites(s) PROVE OutsideFrame
  BY <1>3, <1>11 DEF GrandchildWrites
<1> HIDE DEF OutsideFrame
<1> QED BY <1>1, <1>2, <1>4, <1>6, <1>7, <1>8, <1>9, <1>10, <1>11 DEF Outside, Goes

-----------------------------------------------------------------------------
\* An entry of revents that says so says so of a descriptor that still is readable.
LEMMA ReadyIsReadable ==
    ASSUME PollInv, pc = "walk", NEW x \in {"pidfd", "stdout", "stderr"}, Ready(x)
    PROVE  Readable(x) /\ Pushed(x)
BY PlaceOfPushed DEF PollInv, Ready

\* Between poll and the last drain of a round nothing is taken from a pipe but
\* by the one drain that is for it.
LEMMA PollInvariant == Spec => []PollInv
<1>1. Init => PollInv
  BY DEF Init, PollInv, ReadsReturn
<1>2. CollectorTypeInv /\ PollInv /\ [Next]_vars => PollInv'
  <2> SUFFICES ASSUME CollectorTypeInv, PollInv, [Next]_vars PROVE PollInv'
    OBVIOUS
  <2>0. TypeOK /\ (pc # "drain" => drains = {})
    BY DEF CollectorTypeInv
  <2>1. CASE Spawn
    BY <2>0, <2>1 DEF Spawn, PollInv, ReadsReturn
  <2>2. CASE OpenPidfd \/ Loop \/ Drained \/ KillChild \/ Wait \/ PollFails \/ Interrupted
    BY <2>0, <2>2
       DEF OpenPidfd, Loop, Drained, KillChild, Wait, PollFails, Interrupted, Abandon,
           PollInv, ReadsReturn
  <2>3. CASE Poll
    <3>1. UNCHANGED <<open, exited, child, pipe, writers>>
      BY <2>3 DEF Poll, childVars
    <3>2. Fds' = Fds /\ \A x : Readable(x)' = Readable(x)
      BY <3>1 DEF Fds, Entry, Pushed, Readable
    <3>3. revents' = [i \in DOMAIN Fds |-> Readable(Fds[i])] /\ drains' = {}
      BY <2>0, <2>3 DEF Poll
    <3> QED BY <3>2, <3>3 DEF PollInv, ReadsReturn
  <2>4. CASE Walk
    <3>1. \A s \in Piped : Ready(s) => Readable(s)
      BY <2>4, ReadyIsReadable, CollectorAssumption DEF Walk, CollectorAssumption
    <3>2. \A s \in Piped : s # "pidfd"
      BY CollectorAssumption DEF CollectorAssumption
    <3> QED BY <2>4, <3>1, <3>2 DEF Walk, childVars, PollInv, ReadsReturn, Readable
  <2>5. ASSUME NEW s \in Piped, Drain(s) PROVE PollInv'
    <3>1. /\ pc' # "walk" /\ drains' \subseteq drains \ {s} /\ UNCHANGED writers
          /\ \A t \in Piped \ {s} : pipe'[t] = pipe[t]
      BY <2>0, <2>5 DEF Drain, Abandon, TypeOK
    <3> QED BY <2>0, <3>1 DEF PollInv, ReadsReturn, TypeOK
  <2>6. ASSUME NEW s \in Piped, DrainFails(s) PROVE PollInv'
    BY <2>0, <2>6 DEF DrainFails, Abandon, childVars, PollInv, ReadsReturn
  <2>7. CASE Outside
    <3>1. OutsideFrame
      BY <2>0, <2>7, OutsideSteps
    <3>2. Fds' = Fds /\ UNCHANGED <<pc, revents, drains>>
      BY <3>1 DEF OutsideFrame, daemonVars, Fds, Entry, Pushed
    <3>3. \A s \in Piped : (pipe[s] > 0 \/ writers[s] = {}) => (pipe'[s] > 0 \/ writers'[s] = {})
      BY <2>0, <3>1, SMTT(40) DEF OutsideFrame, TypeOK
    <3>4. \A i \in DOMAIN Fds : Fds[i] = "pidfd" \/ Fds[i] \in Piped
      BY <2>0, FdsElements
    <3>5. \A i \in DOMAIN Fds : Readable(Fds[i]) => Readable(Fds[i])'
      BY <3>1, <3>2, <3>3, <3>4 DEF Readable, OutsideFrame
    <3> QED BY <2>0, <3>2, <3>3, <3>5 DEF PollInv, ReadsReturn, TypeOK
  <2>8. CASE UNCHANGED vars
    BY <2>8 DEF vars, daemonVars, childVars, PollInv, ReadsReturn, Fds, Entry, Pushed, Readable
  <2> QED BY <2>1, <2>2, <2>3, <2>4, <2>5, <2>6, <2>7, <2>8
          DEF Next, Daemon, Fault, Outside
<1> QED BY <1>1, <1>2, CollectorTypes, PTL DEF Spec

\* drain never waits for a pipe that has nothing to say.
THEOREM ReadsReturnAtOnce == Spec => []ReadsReturn
<1>1. PollInv => ReadsReturn
  BY DEF PollInv
<1> QED BY <1>1, PollInvariant, PTL

-----------------------------------------------------------------------------
\* The child is spawned, killed and waited for in that order, and the pidfd is
\* readable only once it has exited.
LEMMA LifeInvariant == Spec => []LifeInv
<1> USE DEF LifeInv, Running
<1>1. Init => LifeInv
  BY DEF Init
<1>2. CollectorTypeInv /\ PollInv /\ LifeInv /\ [Next]_vars => LifeInv'
  <2> SUFFICES ASSUME CollectorTypeInv, PollInv, LifeInv, [Next]_vars PROVE LifeInv'
    OBVIOUS
  <2>0. TypeOK
    BY DEF CollectorTypeInv
  <2>1. CASE Spawn BY <2>0, <2>1 DEF Spawn, TypeOK
  <2>2. CASE OpenPidfd BY <2>2 DEF OpenPidfd, childVars
  <2>3. CASE Loop BY <2>3 DEF Loop, Abandon, childVars
  <2>4. CASE Poll BY <2>4 DEF Poll, childVars
  <2>5. CASE Walk
    <3>1. Ready("pidfd") => child = "zombie"
      BY <2>5, ReadyIsReadable DEF Walk, Readable
    <3>2. exited' => child \in {"zombie", "reaped"}
      <4>1. exited' => exited \/ Ready("pidfd")
        BY <2>5, Zenon DEF Walk
      <4> QED BY <3>1, <4>1
    <3> QED BY <2>5, <3>2 DEF Walk, childVars
  <2>6. ASSUME NEW s \in Piped, Drain(s) PROVE LifeInv'
    BY <2>6 DEF Drain, Abandon
  <2>7. CASE Drained BY <2>7 DEF Drained, childVars
  <2>8. CASE KillChild BY <2>8 DEF KillChild
  <2>9. CASE Wait BY <2>9 DEF Wait
  <2>10. CASE Interrupted \/ PollFails
    BY <2>10 DEF Interrupted, PollFails, Abandon, childVars
  <2>11. ASSUME NEW s \in Piped, DrainFails(s) PROVE LifeInv'
    BY <2>11 DEF DrainFails, Abandon, childVars
  <2>12. CASE Outside
    <3>1. OutsideFrame
      BY <2>0, <2>12, OutsideSteps
    <3> QED BY <3>1 DEF OutsideFrame, daemonVars
  <2>13. CASE UNCHANGED vars BY <2>13 DEF vars, daemonVars, childVars
  <2> QED BY <2>1, <2>2, <2>3, <2>4, <2>5, <2>6, <2>7, <2>8, <2>9, <2>10, <2>11,
             <2>12, <2>13 DEF Next, Daemon, Fault, Outside
<1> QED BY <1>1, <1>2, CollectorTypes, PollInvariant, PTL DEF Spec

\* run leaves no process behind, and kills only what it has not reaped.
THEOREM ChildIsReaped == Spec => []ReapedOnce
<1>1. LifeInv => ReapedOnce
  BY DEF LifeInv, ReapedOnce
<1> QED BY <1>1, LifeInvariant, PTL

-----------------------------------------------------------------------------
\* A read moves units from a pipe to a buffer, and lets go of the pipe only when
\* it has found it empty with nobody left to write to it.
LEMMA DrainKeepsPipes ==
    ASSUME CollectorTypeInv, PipesInv, NEW s \in Piped, Drain(s)
    PROVE  PipesInv'
<1> USE DEF PipesInv, Running
<1>1. /\ pc = "drain" /\ (pipe[s] > 0 \/ writers[s] = {})
      /\ UNCHANGED <<child, writers, wrote>>
  BY DEF Drain
<1>2. /\ pipe \in [Piped -> 0..PipeSize] /\ got \in [Piped -> Nat] /\ PipeSize \in Nat
      /\ \A t \in Piped : Cap[t] \in Nat
      /\ wrote \in [Piped -> Nat] /\ open \subseteq Piped
  BY CollectorAssumption DEF CollectorTypeInv, TypeOK, CollectorAssumption
<1>3. result # "ok"
  BY <1>1
<1>4. CASE TooMuch(s)
  <2>1. UNCHANGED <<got, pipe>> /\ pc' = "kill" /\ result' = "overflow"
    BY <1>4 DEF Drain, Abandon
  <2>2. wrote[s] > Cap[s]
    BY <1>2, <1>4 DEF TooMuch
  <2> QED BY <1>1, <2>1, <2>2 DEF OverflowIsReal
<1>5. CASE ~TooMuch(s)
  <2>1. /\ got' = [got EXCEPT ![s] = @ + Takes(s)]
        /\ pipe' = [pipe EXCEPT ![s] = @ - Takes(s)]
        /\ open' = IF pipe[s] = 0 THEN open \ {s} ELSE open
        /\ UNCHANGED <<pc, result>>
    BY <1>5 DEF Drain
  <2>2. Takes(s) \in 0..pipe[s]
    BY TakesFits, CollectorAssumption DEF CollectorTypeInv
  <2>3. \A t \in Piped : wrote[t] = got'[t] + pipe'[t]
    BY <1>2, <2>1, <2>2
  <2>4. \A t \in Piped \ open' : pipe'[t] = 0 /\ writers[t] = {}
    <3> SUFFICES ASSUME NEW t \in Piped \ open' PROVE pipe'[t] = 0 /\ writers[t] = {}
      OBVIOUS
    <3>1. CASE t = s /\ pipe[s] = 0
      BY <1>1, <1>2, <2>1, <2>2, <3>1
    <3>2. CASE ~(t = s /\ pipe[s] = 0)
      <4>1. t \notin open
        BY <2>1, <3>2
      <4>2. pipe[t] = 0 /\ writers[t] = {}
        BY <1>1, <4>1
      <4> QED BY <1>2, <2>1, <2>2, <4>2
    <3> QED BY <3>1, <3>2
  <2> QED BY <1>1, <1>3, <2>1, <2>3, <2>4 DEF OverflowIsReal
<1> QED BY <1>4, <1>5

\* Every unit written is in a buffer or in a pipe, and what collect no longer
\* reads has nothing more to give.
LEMMA PipesInvariant == Spec => []PipesInv
<1>1. Init => PipesInv
  BY CollectorAssumption DEF Init, PipesInv, Running, OverflowIsReal
<1>2. CollectorTypeInv /\ LifeInv /\ PipesInv /\ [Next]_vars => PipesInv'
  <2> SUFFICES ASSUME CollectorTypeInv, LifeInv, PipesInv, [Next]_vars PROVE PipesInv'
    OBVIOUS
  <2>0. TypeOK
    BY DEF CollectorTypeInv
  <2> USE DEF PipesInv, Running, OverflowIsReal
  <2>1. CASE Spawn BY <2>1 DEF Spawn
  <2>2. CASE OpenPidfd BY <2>2 DEF OpenPidfd, childVars
  <2>3. CASE Loop
    <3>1. CASE Done /\ pc' = "wait" /\ result' = "ok" /\ open' = {}
      <4>1. child \in {"zombie", "reaped"} /\ open = {}
        BY <3>1 DEF Done, LifeInv
      <4> QED BY <2>3, <3>1, <4>1 DEF Loop, childVars
    <3>2. CASE Abandon("timeout") \/ (pc' = "poll" /\ UNCHANGED <<result, open>>)
      BY <2>3, <3>2 DEF Loop, Abandon, childVars
    <3> QED BY <2>3, <3>1, <3>2 DEF Loop
  <2>4. CASE Poll BY <2>4 DEF Poll, childVars
  <2>5. CASE Walk BY <2>5 DEF Walk, childVars
  <2>6. ASSUME NEW s \in Piped, Drain(s) PROVE PipesInv'
    BY <2>6, DrainKeepsPipes
  <2>7. CASE Drained BY <2>7 DEF Drained, childVars
  <2>8. CASE KillChild BY <2>8 DEF KillChild
  <2>9. CASE Wait BY <2>9 DEF Wait
  <2>10. CASE Interrupted \/ PollFails
    BY <2>10 DEF Interrupted, PollFails, Abandon, childVars
  <2>11. ASSUME NEW s \in Piped, DrainFails(s) PROVE PipesInv'
    BY <2>11 DEF DrainFails, Abandon, childVars
  <2>12. CASE Outside
    <3>1. OutsideFrame
      BY <2>0, <2>12, OutsideSteps
    <3>2. /\ pipe \in [Piped -> 0..PipeSize] /\ got \in [Piped -> Nat] /\ PipeSize \in Nat
          /\ wrote \in [Piped -> Nat] /\ \A s \in Piped : Cap[s] \in Nat
      BY <2>0, CollectorAssumption DEF TypeOK, CollectorAssumption
    <3>3. UNCHANGED <<pc, open, got, result>>
      BY <3>1 DEF OutsideFrame, daemonVars
    <3>4. \A s \in Piped : wrote'[s] = got'[s] + pipe'[s] /\ wrote'[s] >= wrote[s]
      BY <3>1, <3>2, <3>3 DEF OutsideFrame
    <3>5. \A s \in Piped \ open : pipe[s] = 0 /\ writers[s] = {} =>
                                    pipe'[s] = 0 /\ writers'[s] = {}
      BY <3>1 DEF OutsideFrame
    <3>6. OverflowIsReal'
      <4> SUFFICES ASSUME result = "overflow" PROVE \E s \in Piped : wrote'[s] > Cap[s]
        BY <3>3
      <4>1. PICK s \in Piped : wrote[s] > Cap[s]
        OBVIOUS
      <4>2. wrote'[s] \in Nat /\ wrote[s] \in Nat /\ wrote'[s] >= wrote[s]
        BY <3>1, <3>2, <3>4 DEF OutsideFrame
      <4> QED BY <3>2, <4>1, <4>2
    <3>7. child \in {"zombie", "reaped"} => child' \in {"zombie", "reaped"}
      BY <3>1 DEF OutsideFrame
    <3> HIDE DEF OverflowIsReal
    <3> QED BY <3>3, <3>4, <3>5, <3>6, <3>7
  <2>13. CASE UNCHANGED vars BY <2>13 DEF vars, daemonVars, childVars
  <2> QED BY <2>1, <2>2, <2>3, <2>4, <2>5, <2>6, <2>7, <2>8, <2>9, <2>10, <2>11,
             <2>12, <2>13 DEF Next, Daemon, Fault, Outside
<1> QED BY <1>1, <1>2, CollectorTypes, LifeInvariant, PTL DEF Spec

\* Success is all that the child and those it left behind have written.
THEOREM SuccessIsComplete == Spec => []OutputComplete
<1>1. CollectorTypeInv /\ PipesInv => OutputComplete
  <2> SUFFICES ASSUME CollectorTypeInv, PipesInv, result = "ok"
               PROVE  /\ \A s \in Piped : got[s] = wrote[s] /\ writers[s] = {}
                      /\ child \in {"zombie", "reaped"}
    BY DEF OutputComplete
  <2>1. got \in [Piped -> Nat] /\ pipe \in [Piped -> 0..PipeSize]
    BY DEF CollectorTypeInv, TypeOK
  <2> QED BY <2>1 DEF PipesInv
<1> QED BY <1>1, CollectorTypes, PipesInvariant, PTL

\* Only a child that has written more than there is room for is refused.
THEOREM OverflowIsNeverFalse == Spec => []OverflowIsReal
<1>1. PipesInv => OverflowIsReal
  BY DEF PipesInv
<1> QED BY <1>1, PipesInvariant, PTL

-----------------------------------------------------------------------------
\* What is still ahead of run once the deadline has passed.
Ahead == [spawn |-> 8, pidfd |-> 7, poll |-> 6, walk |-> 5, drain |-> 4, loop |-> 3,
          kill |-> 2, wait |-> 1, returned |-> 0]

\* run has come nearer to its return, or has a pipe less to drain in this round.
Nearer ==
    \/ Ahead[pc'] < Ahead[pc]
    \/ pc' = pc /\ drains' \subseteq drains /\ drains' # drains

\* What a step does to a run whose deadline has passed.
Advances ==
    late /\ pc # "returned" =>
        /\ Daemon \/ Fault => Nearer
        /\ ~(Daemon \/ Fault) => UNCHANGED <<pc, drains>>
        /\ late'

\* Once the deadline has passed nothing is gone round again: the round that is
\* under way is the last, whatever the child writes and whatever interrupts it.
\* All that run can then wait for is the child it has killed.
THEOREM DeadlineEndsTheLoop == Spec => [][Advances]_vars
<1> USE DEF Nearer, Ahead
<1>1. ASSUME late, Daemon PROVE Nearer
  <2>1. CASE Spawn BY <2>1 DEF Spawn
  <2>2. CASE OpenPidfd BY <2>2 DEF OpenPidfd
  <2>3. CASE Loop BY <1>1, <2>3 DEF Loop, Abandon
  <2>4. CASE Poll \/ Walk BY <2>4 DEF Poll, Walk
  <2>5. ASSUME NEW s \in Piped, Drain(s) PROVE Nearer
    BY <2>5 DEF Drain, Abandon
  <2>6. CASE Drained BY <2>6 DEF Drained
  <2>7. CASE KillChild \/ Wait BY <2>7 DEF KillChild, Wait
  <2> QED BY <1>1, <2>1, <2>2, <2>3, <2>4, <2>5, <2>6, <2>7 DEF Daemon
<1>2. ASSUME Fault PROVE Nearer
  <2>1. ASSUME NEW s \in Piped, DrainFails(s) PROVE Nearer
    BY <2>1 DEF DrainFails, Abandon
  <2> QED BY <1>2, <2>1 DEF Fault, Interrupted, PollFails, Abandon
<1>3. ASSUME [Next]_vars, ~(Daemon \/ Fault)
      PROVE  UNCHANGED <<pc, drains>> /\ (late' = late \/ late' = TRUE)
  <2> USE DEF daemonVars
  <2>1. CASE Deadline BY <2>1 DEF Deadline
  <2>2. CASE Goes BY <2>2 DEF Goes, Begin, Write, Put, Exit, Gone
  <2>3. CASE Dies \/ Sleep \/ Wake \/ GrandchildExits
    BY <2>3 DEF Dies, Gone, Sleep, Wake, GrandchildExits
  <2>4. ASSUME NEW s \in Piped, CloseOrShare(s) \/ GrandchildWrites(s)
        PROVE  UNCHANGED <<pc, drains, late>>
    BY <2>4 DEF CloseOrShare, GrandchildWrites, Put
  <2>5. CASE UNCHANGED vars BY <2>5 DEF vars
  <2> QED BY <1>3, <2>1, <2>2, <2>3, <2>4, <2>5 DEF Next
<1>4. ASSUME Daemon \/ Fault PROVE late' = late
  BY <1>4 DEF Daemon, Fault, Spawn, OpenPidfd, Loop, Poll, Walk, Drain, Drained, KillChild,
     Wait, Interrupted, PollFails, DrainFails
<1>5. ASSUME late, [Next]_vars PROVE late'
  BY <1>3, <1>4, <1>5, Zenon
<1>6. [Next]_vars => [Advances]_vars
  BY <1>1, <1>2, <1>3, <1>5 DEF Advances
<1> QED BY <1>6, PTL DEF Spec

=============================================================================

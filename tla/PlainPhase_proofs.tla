--------------------------- MODULE PlainPhase_proofs ---------------------------
(***************************************************************************)
(* What PlainPhase guarantees for every set of volumes, passphrases, PCRs   *)
(* and initial headers and for every bound: its types, what it sends, when  *)
(* it asks, and that a human has a turn.                                    *)
(***************************************************************************)
EXTENDS PlainPhase, TLAPS

\* An empty digest, the plan nobody has made yet, and what a PolicyPCR commits
\* to at any moment are digests and plans like any other.
LEMMA PolicyTypes ==
    ASSUME RepairAssumption
    PROVE  /\ Blank \in Policies
           /\ NoPlan \in [slot : Slots, state : Policies]
           /\ pcr \in [Pcrs -> Nat] =>
                 /\ \A sel \in SUBSET Pcrs : PolicyOver(sel) \in Policies
                 /\ \A v \in Volumes : Policy(v) \in Policies
<1>1. Blank \in Policies
  BY DEF Blank, Policies
<1>2. NoPlan \in [slot : Slots, state : Policies]
  BY <1>1 DEF NoPlan, Slots, RepairAssumption
<1>3. ASSUME pcr \in [Pcrs -> Nat], NEW sel \in SUBSET Pcrs
      PROVE  PolicyOver(sel) \in Policies
  BY <1>3 DEF PolicyOver, Policies
<1>4. \A v \in Volumes : Selection[v] \in SUBSET Pcrs
  BY DEF RepairAssumption
<1> QED BY <1>1, <1>2, <1>3, <1>4 DEF Policy

\* Next taken apart, for the proofs that go through it action by action.
LEMMA NextCases ==
    ASSUME Next
    PROVE  \/ \E v \in Volumes : Accept(v)
           \/ AcquireStep /\ UNCHANGED <<repairVars, sent, connections, starts>>
           \/ RepairStep /\ UNCHANGED <<sent, connections, starts>>
           \/ Reply \/ Exit \/ Kill \/ Start \/ Terminate \/ KeyringExpires
           \/ \E p \in Pcrs : Extend(p)
BY DEF Next, Handle, Environment

\* The steps of acquire stay in the types.
LEMMA AcquirePreservesTypes ==
    ASSUME AcquireAssumption, TypeOK, AcquireStep,
           UNCHANGED <<repairVars, sent, connections, starts>>
    PROVE  TypeOK'
<1> USE AcquireAssumption
    DEF TypeOK, AcquireTypeOK, RepairTypeOK, Busy, AcquirePoints, RepairPoints,
        repairVars, decisionVars, RunChild, Decline
<1>1. CASE TakeCandidate
  BY <1>1 DEF TakeCandidate
<1>2. CASE NextPrompt
  BY <1>2 DEF NextPrompt, NextAttempt, AttemptsLeft
<1>3. CASE GiveUp
  BY <1>3 DEF GiveUp
<1>4. CASE Ask
  <2>1. \A offer \in Offers(attempt) : offer.secrets \subseteq Secrets
    BY DEF Offers, FirstOf
  <2> QED BY <1>4, <2>1 DEF Ask
<1>5. CASE Test
  BY <1>5 DEF Test, Remember, Verdicts
<1> HIDE DEF TypeOK
<1> QED BY <1>1, <1>2, <1>3, <1>4, <1>5 DEF AcquireStep

\* An enrollment that does as it is told is one of those that may do anything.
LEMMA EnrollmentTypes ==
    ASSUME RepairAssumption, NEW v \in Volumes, NEW e \in Enrollments(v)
    PROVE  e \in Unrequested
<1>1. e \in Requested(v) => e \in Unrequested
  BY DEF Requested, Unrequested, RepairAssumption
<1> QED BY <1>1 DEF Enrollments

\* What it writes are tokens.
LEMMA WrittenTypes ==
    ASSUME RepairAssumption, pcr \in [Pcrs -> Nat], NEW e \in Unrequested
    PROVE  Written(e) \subseteq Tokens /\ e.slots \subseteq Slots
<1>1. /\ e.slots \subseteq Slots /\ e.pcrs \in SUBSET Pcrs /\ e.plain \in BOOLEAN
      /\ PolicyOver(e.pcrs) \in Policies
  BY PolicyTypes DEF Unrequested
<1> QED BY <1>1 DEF Written, Tokens

\* What an enrollment leaves of a header was in it, and what it has just added
\* is still there.
LEMMA LeavingsAreLeft ==
    ASSUME NEW v \in Volumes, NEW h \in Leavings(v)
    PROVE  h \subseteq header[v] /\ Wiped(v) \subseteq h
BY DEF Leavings, Wiped

\* The steps of maybe_reenroll stay in the types.
LEMMA RepairPreservesTypes ==
    ASSUME AcquireAssumption, RepairAssumption, TypeOK, RepairStep,
           UNCHANGED <<sent, connections, starts>>
    PROVE  TypeOK'
<1> USE AcquireAssumption
    DEF TypeOK, AcquireTypeOK, RepairTypeOK, Busy, AcquirePoints, RepairPoints,
        repairVars, decisionVars, RunChild
<1>1. CASE BeginRepair
  BY <1>1 DEF BeginRepair
<1>2. CASE Preflight
  <2>1. /\ vol \in Volumes
        /\ Policy(vol) \in Policies
    BY <1>2, PolicyTypes DEF Preflight
  <2>2. \A t \in Repairable(vol) : t.slot \in Slots
    BY <2>1 DEF Repairable, Tokens
  <2>3. \A state \in {Policy(vol)} \cup BlankDigests : state \in Policies
    BY <2>1, PolicyTypes DEF RepairAssumption
  <2>4. plan' \in [slot : Slots, state : Policies]
    BY <1>2, <2>2, <2>3 DEF Preflight
  <2>5. /\ pc' \in {"decide", "replying"}
        /\ UNCHANGED <<vol, stop, attempt, untried, candidate, cache, keyring,
                       credential, typed>>
        /\ UNCHANGED <<header, pcr, fresh, decisionVars, answer, report>>
        /\ RunChild
    BY <1>2 DEF Preflight
  <2>6. pc = "preflight"
    BY <1>2 DEF Preflight
  <2> QED BY <2>1, <2>4, <2>5, <2>6
<1>3. CASE Decide
  BY <1>3 DEF Decide
<1>4. CASE Consent
  <2>1. PICK a \in {"No", "Yes", "Always"} :
          /\ answer' = a
          /\ answers' = answers \cup {<<plan.state, a>>}
          /\ Record(a, plan.state)
          /\ pc' = IF a = "No" THEN "replying" ELSE "commit"
    BY <1>4 DEF Consent
  <2>2. plan.state \in Policies
    OBVIOUS
  <2>3. declines' \subseteq Policies /\ accepts' \subseteq Policies
    BY <2>1, <2>2 DEF Record
  <2>4. answers' \subseteq Policies \X {"No", "Yes", "Always"}
    BY <2>1, <2>2
  <2>5. /\ pc = "consenting" /\ RunChild
        /\ UNCHANGED <<vol, stop, attempt, untried, candidate, cache, keyring,
                       credential, typed>>
        /\ UNCHANGED <<header, pcr, plan, fresh, report>>
    BY <1>4 DEF Consent
  <2> QED BY <2>1, <2>3, <2>4, <2>5
<1>5. CASE Commit
  BY <1>5 DEF Commit, CommitPoint
<1>6. CASE AddSlot
  <2>1. PICK e \in Enrollments(vol) :
          /\ fresh' = e.slots
          /\ header' = [header EXCEPT ![vol] = @ \cup Written(e)]
    BY <1>6 DEF AddSlot
  <2>2. /\ pc = "enrolling" /\ pc' = "wiping"
        /\ UNCHANGED <<vol, stop, attempt, untried, candidate, cache, keyring,
                       credential, typed, late>>
        /\ UNCHANGED <<pcr, plan, decisionVars, answer, report>>
    BY <1>6 DEF AddSlot
  <2>3. vol \in Volumes /\ e \in Unrequested
    BY <2>2, EnrollmentTypes
  <2>4. Written(e) \subseteq Tokens /\ e.slots \subseteq Slots
    BY <2>3, WrittenTypes
  <2>5. header' \in [Volumes -> SUBSET Tokens]
    BY <2>1, <2>3, <2>4
  <2> QED BY <2>1, <2>2, <2>4, <2>5
<1>7. CASE WipeSlots
  BY <1>7, LeavingsAreLeft DEF WipeSlots
<1>8. CASE EnrollFails
  BY <1>8, LeavingsAreLeft DEF EnrollFails
<1>9. CASE ReadBack
  BY <1>9 DEF ReadBack
<1>10. CASE Unseal
  BY <1>10 DEF Unseal
<1> HIDE DEF TypeOK, AcquireTypeOK, RepairTypeOK, Busy, AcquirePoints, RepairPoints,
             repairVars, decisionVars, RunChild
<1> QED BY <1>1, <1>2, <1>3, <1>4, <1>5, <1>6, <1>7, <1>8, <1>9, <1>10 DEF RepairStep

\* The variables stay in their types, and a volume is being handled whenever
\* the daemon is busy; every other proof cites this one.
THEOREM TypeCorrect == Spec => []TypeOK
<1> USE AcquireAssumption, RepairAssumption, PlainPhaseAssumption
<1>1. Init => TypeOK
  <2> SUFFICES ASSUME Init PROVE TypeOK
    OBVIOUS
  <2>1. AcquireTypeOK
    <3>1. 0 \in 0..Tries /\ 0 \in Nat
      BY DEF AcquireAssumption
    <3> QED BY <3>1 DEF Init, AcquireTypeOK
  <2>2. RepairTypeOK
    BY PolicyTypes DEF Init, RepairTypeOK, Slots, RepairAssumption, PlainPhaseAssumption
  <2>3. sent \in [Volumes -> SUBSET Secrets]
    BY DEF Init
  <2> QED BY <2>1, <2>2, <2>3 DEF Init, TypeOK, Busy, AcquirePoints, RepairPoints
<1>2. TypeOK /\ [Next]_vars => TypeOK'
  <2> SUFFICES ASSUME TypeOK, [Next]_vars PROVE TypeOK'
    OBVIOUS
  <2>1. ASSUME NEW v \in Volumes, Accept(v) PROVE TypeOK'
    BY <2>1 DEF Accept, TypeOK, AcquireTypeOK, RepairTypeOK, Busy, AcquirePoints,
       RepairPoints, repairVars, decisionVars
  <2>2. CASE AcquireStep /\ UNCHANGED <<repairVars, sent, connections, starts>>
    BY <2>2, AcquirePreservesTypes
  <2>3. CASE RepairStep /\ UNCHANGED <<sent, connections, starts>>
    BY <2>3, RepairPreservesTypes
  <2>4. CASE Reply
    <3>1. sent' \in [Volumes -> SUBSET Secrets]
      <4>1. candidate \in Secrets /\ sent \in [Volumes -> SUBSET Secrets]
        BY <2>4 DEF Reply, TypeOK, RepairPoints
      <4> QED BY <2>4, <4>1 DEF Reply
    <3> QED BY <2>4, <3>1, PolicyTypes DEF Reply, Decline, TypeOK, AcquireTypeOK,
            RepairTypeOK, Busy, AcquirePoints, RepairPoints, decisionVars, Slots,
            RepairAssumption
  <2>5. CASE Exit \/ Kill
    <3>1. Gone
      BY <2>5 DEF Exit, Kill
    <3>2. AcquireTypeOK'
      <4>1. 0 \in 0..Tries /\ 0 \in Nat
        BY DEF AcquireAssumption
      <4> QED BY <3>1, <4>1 DEF Gone, FreshMemory, TypeOK, AcquireTypeOK
    <3>3. RepairTypeOK'
      BY <3>1, PolicyTypes DEF Gone, FreshMemory, TypeOK, RepairTypeOK, Slots,
         RepairAssumption
    <3> QED BY <3>1, <3>2, <3>3 DEF Gone, TypeOK, Busy, AcquirePoints, RepairPoints
  <2>6. CASE Start \/ Terminate \/ KeyringExpires
    <3> USE DEF TypeOK, AcquireTypeOK, RepairTypeOK, Busy, AcquirePoints,
                RepairPoints, repairVars, decisionVars
    <3>1. CASE Start BY <3>1 DEF Start
    <3>2. CASE Terminate BY <3>2 DEF Terminate
    <3>3. CASE KeyringExpires BY <3>3 DEF KeyringExpires
    <3> HIDE DEF TypeOK
    <3> QED BY <2>6, <3>1, <3>2, <3>3
  <2>7. ASSUME NEW p \in Pcrs, Extend(p) PROVE TypeOK'
    <3>1. pcr' \in [Pcrs -> Nat]
      BY <2>7 DEF Extend, TypeOK, RepairTypeOK
    <3> QED BY <2>7, <3>1 DEF Extend, TypeOK, AcquireTypeOK, RepairTypeOK, Busy,
            AcquirePoints, RepairPoints, acquireVars, decisionVars
  <2>8. CASE UNCHANGED vars
    BY <2>8 DEF vars, acquireVars, repairVars, decisionVars, TypeOK, AcquireTypeOK,
       RepairTypeOK, Busy, AcquirePoints, RepairPoints
  <2> QED BY <2>1, <2>2, <2>3, <2>4, <2>5, <2>6, <2>7, <2>8, NextCases
<1> QED BY <1>1, <1>2, PTL DEF Spec

-----------------------------------------------------------------------------
\* Where the steps of acquire begin and end; they leave the stop flag alone.
LEMMA AcquireFrame ==
    ASSUME AcquireStep
    PROVE  /\ pc \in AcquirePoints
           /\ pc' \in AcquirePoints \cup {"acquired", "idle"}
           /\ stop' = stop
<1> USE DEF AcquirePoints, Decline
<1>1. CASE TakeCandidate BY <1>1 DEF TakeCandidate
<1>2. CASE NextPrompt BY <1>2 DEF NextPrompt
<1>3. CASE GiveUp BY <1>3 DEF GiveUp
<1>4. CASE Ask BY <1>4 DEF Ask
<1>5. CASE Test BY <1>5 DEF Test
<1> QED BY <1>1, <1>2, <1>3, <1>4, <1>5 DEF AcquireStep

\* Where the steps of maybe_reenroll begin and end, and what acquire left that
\* they leave alone.
LEMMA RepairFrame ==
    ASSUME RepairStep
    PROVE  /\ pc \in RepairPoints \ {"replying"}
           /\ pc' \in RepairPoints \ {"acquired"}
           /\ UNCHANGED <<vol, stop, attempt, untried, candidate, cache, keyring,
                          credential, typed>>
<1> USE DEF RepairPoints
<1>1. CASE BeginRepair BY <1>1 DEF BeginRepair
<1>2. CASE Preflight BY <1>2 DEF Preflight
<1>3. CASE Decide BY <1>3 DEF Decide
<1>4. CASE Consent BY <1>4 DEF Consent
<1>5. CASE Commit BY <1>5 DEF Commit, CommitPoint
<1>6. CASE AddSlot BY <1>6 DEF AddSlot
<1>7. CASE WipeSlots BY <1>7 DEF WipeSlots
<1>8. CASE EnrollFails BY <1>8 DEF EnrollFails
<1>9. CASE ReadBack BY <1>9 DEF ReadBack
<1>10. CASE Unseal BY <1>10 DEF Unseal
<1> QED BY <1>1, <1>2, <1>3, <1>4, <1>5, <1>6, <1>7, <1>8, <1>9, <1>10 DEF RepairStep

-----------------------------------------------------------------------------
\* A passphrase that has left the candidate loops opens the volume.
ValidatedInv ==
    /\ RepliesOpen
    /\ pc \in RepairPoints => candidate \in Opens[vol]

\* Only a passed test leads past the candidate loops, and only Reply sends.
LEMMA ValidatedStep ==
    ASSUME TypeOK, ValidatedInv, [Next]_vars
    PROVE  ValidatedInv'
<1> USE DEF ValidatedInv, RepliesOpen
<1>1. ASSUME NEW v \in Volumes, Accept(v) PROVE ValidatedInv'
  BY <1>1 DEF Accept, RepairPoints
<1>2. CASE AcquireStep /\ UNCHANGED <<repairVars, sent, connections, starts>>
  <2>1. CASE Test
    BY <1>2, <2>1 DEF Test, Verdicts, Decline, RepairPoints
  <2>2. CASE ~Test
    <3>1. pc' \notin RepairPoints
      BY <1>2, <2>2 DEF AcquireStep, TakeCandidate, NextPrompt, GiveUp, Ask, Decline,
         RepairPoints
    <3> QED BY <1>2, <3>1
  <2> QED BY <2>1, <2>2
<1>3. CASE RepairStep /\ UNCHANGED <<sent, connections, starts>>
  BY <1>3, RepairFrame
<1>4. CASE Reply
  <2>1. candidate \in Opens[vol] /\ vol \in Volumes
    BY <1>4 DEF Reply, TypeOK, Busy, RepairPoints
  <2>2. \A v \in Volumes : sent'[v] \subseteq Opens[v]
    BY <1>4, <2>1 DEF Reply, TypeOK
  <2> QED BY <1>4, <2>2 DEF Reply, Decline, RepairPoints
<1>5. CASE Exit \/ Kill
  BY <1>5 DEF Exit, Kill, Gone, RepairPoints
<1>6. CASE Start \/ Terminate \/ KeyringExpires
  BY <1>6 DEF Start, Terminate, KeyringExpires, RepairPoints
<1>7. ASSUME NEW p \in Pcrs, Extend(p) PROVE ValidatedInv'
  BY <1>7 DEF Extend, acquireVars
<1>8. CASE UNCHANGED vars
  BY <1>8 DEF vars, acquireVars
<1> QED BY <1>1, <1>2, <1>3, <1>4, <1>5, <1>6, <1>7, <1>8, NextCases

\* The inductive invariant the theorem below follows from.
LEMMA ValidatedInvariant == Spec => []ValidatedInv
<1>1. Init => ValidatedInv
  BY DEF Init, ValidatedInv, RepliesOpen, RepairPoints
<1>2. TypeOK /\ ValidatedInv /\ [Next]_vars => ValidatedInv'
  BY ValidatedStep
<1> QED BY <1>1, <1>2, TypeCorrect, PTL DEF Spec

\* Whatever is written to a volume's connection opens that volume.
THEOREM OnlyValidatedSent == Spec => []RepliesOpen
<1>1. ValidatedInv => RepliesOpen
  BY DEF ValidatedInv
<1> QED BY <1>1, ValidatedInvariant, PTL

-----------------------------------------------------------------------------
\* The cached passphrases that open the volume have not been passed over: while
\* the cache is walked they are still to come, and afterwards there are none.
CacheWalkInv ==
    /\ pc \in {"idle", "stopped"} => attempt = 0
    /\ pc = "prompting" => attempt >= 1
    /\ pc = "acquire" /\ attempt = 0 => cache \cap Opens[vol] \subseteq untried
    /\ pc = "testing" /\ attempt = 0 =>
          cache \cap Opens[vol] \subseteq untried \cup {candidate}
    /\ pc \in AcquirePoints /\ attempt >= 1 => cache \cap Opens[vol] = {}

\* Each step of the walk discards one cached passphrase, which did not open.
LEMMA CacheWalkStep ==
    ASSUME AcquireAssumption, TypeOK, CacheWalkInv, [Next]_vars
    PROVE  CacheWalkInv'
<1> USE DEF CacheWalkInv, AcquirePoints
<1>1. ASSUME NEW v \in Volumes, Accept(v) PROVE CacheWalkInv'
  BY <1>1 DEF Accept
<1>2. CASE AcquireStep /\ UNCHANGED <<repairVars, sent, connections, starts>>
  <2>1. attempt \in Nat
    BY DEF AcquireAssumption, TypeOK, AcquireTypeOK
  <2>2. CASE TakeCandidate
    BY <2>1, <2>2 DEF TakeCandidate
  <2>3. CASE NextPrompt
    BY <2>1, <2>3 DEF NextPrompt, NextAttempt, NoneLeft
  <2>4. CASE GiveUp
    BY <2>4 DEF GiveUp, Decline
  <2>5. CASE Ask
    BY <2>1, <2>5 DEF Ask, Decline
  <2>6. CASE Test
    BY <2>1, <2>6 DEF Test, Decline, Verdicts
  <2> QED BY <1>2, <2>2, <2>3, <2>4, <2>5, <2>6 DEF AcquireStep
<1>3. CASE RepairStep /\ UNCHANGED <<sent, connections, starts>>
  BY <1>3, RepairFrame DEF RepairPoints
<1>4. CASE Reply
  BY <1>4 DEF Reply, Decline
<1>5. CASE Exit \/ Kill
  BY <1>5 DEF Exit, Kill, Gone
<1>6. CASE Start \/ Terminate \/ KeyringExpires
  BY <1>6 DEF Start, Terminate, KeyringExpires
<1>7. ASSUME NEW p \in Pcrs, Extend(p) PROVE CacheWalkInv'
  BY <1>7 DEF Extend, acquireVars
<1>8. CASE UNCHANGED vars
  BY <1>8 DEF vars, acquireVars
<1> QED BY <1>1, <1>2, <1>3, <1>4, <1>5, <1>6, <1>7, <1>8, NextCases

\* Nobody is asked for a volume while the cache holds a passphrase that opens it.
THEOREM NeverAskedForCached == Spec => []NoNeedlessPrompt
<1>1. Init => CacheWalkInv
  BY DEF Init, CacheWalkInv, AcquirePoints
<1>2. TypeOK /\ CacheWalkInv /\ [Next]_vars => CacheWalkInv'
  BY CacheWalkStep, AcquireAssumption
<1>3. CacheWalkInv => NoNeedlessPrompt
  BY DEF CacheWalkInv, NoNeedlessPrompt, AcquirePoints
<1> QED BY <1>1, <1>2, <1>3, TypeCorrect, PTL DEF Spec

-----------------------------------------------------------------------------
\* All prompts but the first have been answered by typing, unless the unit has a
\* credential to answer them.
TypedInv ==
    /\ pc \in {"idle", "stopped"} => attempt = 0
    /\ credential = {} =>
          /\ pc = "prompting" => attempt >= 1 /\ typed + 2 >= attempt
          /\ pc \in {"acquire", "testing"} => typed + 1 >= attempt

\* What a prompt returned is still a candidate until it has been tried.
LEMMA TypedStep ==
    ASSUME AcquireAssumption, TypeOK, TypedInv, [Next]_vars
    PROVE  TypedInv'
<1> USE DEF TypedInv
<1> DEFINE inRange == attempt \in Nat /\ attempt <= Tries /\ typed \in Nat /\ Tries \in Nat
<1>0. inRange
  BY DEF AcquireAssumption, TypeOK, AcquireTypeOK
<1>1. ASSUME NEW v \in Volumes, Accept(v) PROVE TypedInv'
  BY <1>0, <1>1 DEF Accept
<1>2. CASE AcquireStep /\ UNCHANGED <<repairVars, sent, connections, starts>>
  <2>1. CASE TakeCandidate
    BY <1>0, <2>1 DEF TakeCandidate
  <2>2. CASE NextPrompt
    BY <1>0, <2>2 DEF NextPrompt, NextAttempt
  <2>3. CASE GiveUp
    BY <2>3 DEF GiveUp, Decline
  <2>4. CASE Ask
    <3>1. ASSUME credential = {}, NEW offer \in Offers(attempt), offer.from # "human"
          PROVE  attempt = 1
      BY <3>1 DEF Offers, AcceptsCached
    <3> QED BY <1>0, <2>4, <3>1 DEF Ask, Decline
  <2>5. CASE Test
    BY <1>0, <2>5 DEF Test, Decline
  <2> QED BY <1>2, <2>1, <2>2, <2>3, <2>4, <2>5 DEF AcquireStep
<1>3. CASE RepairStep /\ UNCHANGED <<sent, connections, starts>>
  BY <1>3, RepairFrame DEF RepairPoints
<1>4. CASE Reply
  BY <1>4 DEF Reply, Decline
<1>5. CASE Exit \/ Kill
  BY <1>5 DEF Exit, Kill, Gone
<1>6. CASE Start \/ Terminate \/ KeyringExpires
  BY <1>6 DEF Start, Terminate, KeyringExpires
<1>7. ASSUME NEW p \in Pcrs, Extend(p) PROVE TypedInv'
  BY <1>7 DEF Extend, acquireVars
<1>8. CASE UNCHANGED vars
  BY <1>8 DEF vars, acquireVars
<1> QED BY <1>1, <1>2, <1>3, <1>4, <1>5, <1>6, <1>7, <1>8, NextCases

\* Where the unit has no credential, a volume is handed back after Tries prompts
\* only if a human was asked in all of them but at most one.
THEOREM HumanAlwaysAsked == Spec => []HumanGetsATurn
<1>1. Init => TypedInv
  BY DEF Init, TypedInv
<1>2. TypeOK /\ TypedInv /\ [Next]_vars => TypedInv'
  BY TypedStep, AcquireAssumption
<1>3. TypeOK /\ TypedInv => HumanGetsATurn
  BY AcquireAssumption DEF TypedInv, HumanGetsATurn, TypeOK, AcquireTypeOK
<1> QED BY <1>1, <1>2, <1>3, TypeCorrect, PTL DEF Spec

-----------------------------------------------------------------------------
\* The positions of a handling, from the candidate loops down to the reply; the
\* prompt, from which the loops go round again, is above them all.
Rank == [prompting |-> 12, testing |-> 11, acquire |-> 10, acquired |-> 9,
         preflight |-> 8, decide |-> 7, consenting |-> 6, commit |-> 5,
         enrolling |-> 4, wiping |-> 3, verifying |-> 2, unsealing |-> 1,
         replying |-> 0]

\* A handling has come nearer to its end: a prompt more has been used up, or a
\* prompt has been answered, or fewer candidates are left, or, all these being
\* equal, it is further down.  The order is well-founded, since attempt is at
\* most Tries and the candidates are finitely many.
Nearer ==
    \/ attempt < attempt'
    \/ /\ attempt' = attempt
       /\ \/ pc = "prompting" /\ pc' # "prompting"
          \/ /\ pc # "prompting" /\ pc' # "prompting"
             /\ \/ untried' \subseteq untried /\ untried' # untried
                \/ untried' = untried /\ Rank[pc'] < Rank[pc]

\* What a step does to the connection at hand.
Advances ==
    pc \in Busy =>
        /\ Handle => pc' \in {"idle", "stopped"} \/ Nearer
        /\ ~Handle => pc' = "stopped" \/ UNCHANGED <<pc, attempt, untried>>

\* Every step of the daemon brings the connection at hand nearer to being let
\* go of, and no step of anybody else's puts it back.
HandlingAdvances == [][Advances]_vars

\* The candidate loops use up prompts and candidates.
LEMMA AcquireAdvances ==
    ASSUME AcquireAssumption, TypeOK, AcquireStep
    PROVE  pc' = "idle" \/ Nearer
<1> USE DEF Nearer
<1>1. attempt \in Nat
  BY DEF AcquireAssumption, TypeOK, AcquireTypeOK
<1>2. CASE TakeCandidate BY <1>2 DEF TakeCandidate
<1>3. CASE NextPrompt BY <1>1, <1>3 DEF NextPrompt, NextAttempt
<1>4. CASE GiveUp BY <1>4 DEF GiveUp, Decline
<1>5. CASE Ask BY <1>5 DEF Ask, Decline
<1>6. CASE Test BY <1>6 DEF Test, Decline, Rank
<1> QED BY <1>2, <1>3, <1>4, <1>5, <1>6 DEF AcquireStep

\* maybe_reenroll only ever goes on.
LEMMA RepairAdvances ==
    ASSUME RepairStep
    PROVE  Nearer
<1>1. Rank[pc'] < Rank[pc]
  <2> USE DEF Rank
  <2>1. CASE BeginRepair BY <2>1 DEF BeginRepair
  <2>2. CASE Preflight BY <2>2 DEF Preflight
  <2>3. CASE Decide BY <2>3 DEF Decide
  <2>4. CASE Consent BY <2>4 DEF Consent
  <2>5. CASE Commit BY <2>5 DEF Commit, CommitPoint
  <2>6. CASE AddSlot BY <2>6 DEF AddSlot
  <2>7. CASE WipeSlots BY <2>7 DEF WipeSlots
  <2>8. CASE EnrollFails BY <2>8 DEF EnrollFails
  <2>9. CASE ReadBack BY <2>9 DEF ReadBack
  <2>10. CASE Unseal BY <2>10 DEF Unseal
  <2> QED BY <2>1, <2>2, <2>3, <2>4, <2>5, <2>6, <2>7, <2>8, <2>9, <2>10 DEF RepairStep
<1> QED BY <1>1, RepairFrame DEF Nearer, RepairPoints

\* So a handling is never stuck in its loops: as long as the daemon goes on,
\* which is what FairSpec adds, it comes to an end (HandlingEnds).
THEOREM HandlingsAdvance == Spec => HandlingAdvances
<1>1. ASSUME TypeOK, [Next]_vars, pc \in Busy, Handle
      PROVE  pc' \in {"idle", "stopped"} \/ Nearer
  <2>1. CASE Reply
    BY <2>1 DEF Reply, Decline
  <2> QED BY <1>1, <2>1, AcquireAdvances, RepairAdvances, AcquireAssumption DEF Handle
<1>2. ASSUME [Next]_vars, pc \in Busy, ~Handle
      PROVE  pc' = "stopped" \/ UNCHANGED <<pc, attempt, untried>>
  <2>1. pc \notin {"idle", "stopped"}
    BY <1>2 DEF Busy, AcquirePoints, RepairPoints
  <2>2. CASE Environment
    BY <2>1, <2>2 DEF Environment, Terminate, Kill, Gone, Start, KeyringExpires, Extend,
       acquireVars
  <2>3. CASE UNCHANGED vars
    BY <2>3 DEF vars, acquireVars
  <2> QED BY <1>2, <2>1, <2>2, <2>3 DEF Next, Accept, Exit
<1>3. TypeOK /\ [Next]_vars => [Advances]_vars
  BY <1>1, <1>2 DEF Advances
<1> QED BY <1>3, TypeCorrect, PTL DEF Spec, HandlingAdvances

=============================================================================

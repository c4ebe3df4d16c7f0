--------------------------- MODULE Repair_proofs -------------------------------
(***************************************************************************)
(* When PlainPhase lets systemd-cryptenroll have a header, and what becomes *)
(* of it: what a human said, what earlier answers say, what a stop leaves,  *)
(* and the header itself, with the enrollment failing, killed or finding    *)
(* other tokens at any point.                                               *)
(***************************************************************************)
EXTENDS PlainPhase_proofs

-----------------------------------------------------------------------------
Agreed == answer \in {"Yes", "Always"} \/ plan.state \in accepts

\* consent::Decisions agrees with what was said, and the handling that is past
\* Decide was let past it for a reason that still holds.
ConsentInv ==
    /\ \A state \in accepts : <<state, "Always">> \in answers
    /\ \A state \in Policies :
          state # Blank /\ <<state, "No">> \in answers => state \in declines
    /\ pc \in {"consenting", "commit", "enrolling", "wiping"} => ~Refused(plan.state)
    /\ pc \in {"commit", "enrolling", "wiping"} => Agreed

\* Most steps touch none of it.
LEMMA ConsentFrame ==
    ASSUME ConsentInv, UNCHANGED <<plan, declines, accepts, answer, answers>>,
           pc' \in {"consenting", "commit", "enrolling", "wiping"} => pc' = pc
    PROVE  ConsentInv'
BY DEF ConsentInv, Agreed, Refused

\* Every step of maybe_reenroll keeps the answers and the decisions in line.
LEMMA ConsentRepairStep ==
    ASSUME TypeOK, ConsentInv, RepairStep
    PROVE  ConsentInv'
<1>1. CASE BeginRepair
  BY <1>1, ConsentFrame DEF BeginRepair, repairVars
<1>2. CASE Preflight
  BY <1>2 DEF Preflight, decisionVars, ConsentInv
<1>3. CASE Decide
  BY <1>3 DEF Decide, repairVars, ConsentInv, Agreed, Refused, Accepted
<1>4. CASE Consent
  <2>1. PICK a \in {"No", "Yes", "Always"} :
          /\ answer' = a
          /\ answers' = answers \cup {<<plan.state, a>>}
          /\ Record(a, plan.state)
          /\ pc' = IF a = "No" THEN "replying" ELSE "commit"
    BY <1>4 DEF Consent
  <2>2. pc = "consenting" /\ plan' = plan
    BY <1>4 DEF Consent
  <2>3. \A state \in accepts' : <<state, "Always">> \in answers'
    BY <2>1 DEF ConsentInv, Record
  <2>4. \A state \in Policies :
          state # Blank /\ <<state, "No">> \in answers' => state \in declines'
    BY <2>1 DEF ConsentInv, Record
  <2>5. pc' = "commit" => ~Refused(plan.state)' /\ Agreed'
    BY <2>1, <2>2 DEF ConsentInv, Refused, Record, Agreed
  <2> QED BY <2>1, <2>3, <2>4, <2>5 DEF ConsentInv
<1>5. CASE Commit
  BY <1>5 DEF Commit, CommitPoint, repairVars, ConsentInv, Agreed, Refused
<1>6. CASE AddSlot
  BY <1>6 DEF AddSlot, decisionVars, ConsentInv, Agreed, Refused
<1>7. CASE WipeSlots
  BY <1>7, ConsentFrame DEF WipeSlots, decisionVars
<1>8. CASE EnrollFails
  BY <1>8, ConsentFrame DEF EnrollFails, decisionVars
<1>9. CASE ReadBack
  BY <1>9, ConsentFrame DEF ReadBack, decisionVars
<1>10. CASE Unseal
  BY <1>10, ConsentFrame DEF Unseal, decisionVars
<1> QED BY <1>1, <1>2, <1>3, <1>4, <1>5, <1>6, <1>7, <1>8, <1>9, <1>10 DEF RepairStep

\* So does every other step: a daemon that ends takes its decisions with it.
LEMMA ConsentStep ==
    ASSUME TypeOK, ConsentInv, [Next]_vars
    PROVE  ConsentInv'
<1>1. ASSUME NEW v \in Volumes, Accept(v) PROVE ConsentInv'
  BY <1>1, ConsentFrame DEF Accept, repairVars
<1>2. CASE AcquireStep /\ UNCHANGED <<repairVars, sent, connections, starts>>
  BY <1>2, AcquireFrame, ConsentFrame DEF repairVars, AcquirePoints
<1>3. CASE RepairStep /\ UNCHANGED <<sent, connections, starts>>
  BY <1>3, ConsentRepairStep
<1>4. CASE Reply
  BY <1>4 DEF Reply, Decline, decisionVars, ConsentInv
<1>5. CASE Exit \/ Kill
  BY <1>5 DEF Exit, Kill, Gone, FreshMemory, ConsentInv
<1>6. CASE Start \/ Terminate \/ KeyringExpires
  BY <1>6, ConsentFrame DEF Start, Terminate, KeyringExpires, repairVars
<1>7. ASSUME NEW p \in Pcrs, Extend(p) PROVE ConsentInv'
  BY <1>7, ConsentFrame DEF Extend, acquireVars, decisionVars
<1>8. CASE UNCHANGED vars
  BY <1>8, ConsentFrame DEF vars, acquireVars, repairVars
<1> QED BY <1>1, <1>2, <1>3, <1>4, <1>5, <1>6, <1>7, <1>8, NextCases

\* The inductive invariant the two theorems below follow from.
LEMMA ConsentInvariant == Spec => []ConsentInv
<1>1. Init => ConsentInv
  BY DEF Init, ConsentInv
<1>2. TypeOK /\ ConsentInv /\ [Next]_vars => ConsentInv'
  BY ConsentStep
<1> QED BY <1>1, <1>2, TypeCorrect, PTL DEF Spec

\* No header is re-enrolled without a yes given in this handling, or an always
\* given to this daemon for the same boot state.
THEOREM NoEnrollmentUnasked == Spec => []EnrollmentConsented
<1>1. ConsentInv => EnrollmentConsented
  BY DEF ConsentInv, EnrollmentConsented, Enrolling, Agreed
<1> QED BY <1>1, ConsentInvariant, PTL

\* No header is re-enrolled in a boot state for which this daemon was told no,
\* whatever it was told before or after, unless the TPM's digest was empty.
THEOREM NoMeansNo == Spec => []RefusalStands
<1>1. TypeOK /\ ConsentInv => RefusalStands
  BY DEF ConsentInv, RefusalStands, Enrolling, Refused, TypeOK, RepairTypeOK
<1> QED BY <1>1, ConsentInvariant, TypeCorrect, PTL

-----------------------------------------------------------------------------
\* Steps that start a child first look at the stop flag, so nothing has run
\* after the stop when one of these is reached; the others have a budget.
BudgetInv ==
    /\ ~stop => late = 0
    /\ pc \in {"prompting", "testing", "preflight", "consenting", "enrolling", "wiping"}
          => late = 0
    /\ pc \in {"acquire", "acquired", "decide", "commit", "verifying"} => late <= 1
    /\ pc = "unsealing" => late <= 2
    /\ late <= 3

\* A slow step begun after the stop is the one begun before it was noticed.
LEMMA BudgetStep ==
    ASSUME TypeOK, BudgetInv, [Next]_vars
    PROVE  BudgetInv'
<1> USE DEF BudgetInv
<1>0. late \in Nat /\ stop \in BOOLEAN
  BY DEF TypeOK, AcquireTypeOK
<1>1. ASSUME NEW v \in Volumes, Accept(v) PROVE BudgetInv'
  BY <1>0, <1>1 DEF Accept
<1>2. CASE AcquireStep /\ UNCHANGED <<repairVars, sent, connections, starts>>
  <2> USE <1>0 DEF Decline, RunChild
  <2>1. CASE TakeCandidate BY <2>1 DEF TakeCandidate
  <2>2. CASE NextPrompt BY <2>2 DEF NextPrompt
  <2>3. CASE GiveUp BY <2>3 DEF GiveUp
  <2>4. CASE Ask BY <2>4 DEF Ask
  <2>5. CASE Test BY <2>5 DEF Test
  <2> QED BY <1>2, <2>1, <2>2, <2>3, <2>4, <2>5 DEF AcquireStep
<1>3. CASE RepairStep /\ UNCHANGED <<sent, connections, starts>>
  <2> USE <1>0 DEF RunChild
  <2>1. CASE BeginRepair BY <2>1 DEF BeginRepair
  <2>2. CASE Preflight BY <2>2 DEF Preflight
  <2>3. CASE Decide BY <2>3 DEF Decide
  <2>4. CASE Consent BY <2>4 DEF Consent
  <2>5. CASE Commit BY <2>5 DEF Commit, CommitPoint
  <2>6. CASE AddSlot BY <2>6 DEF AddSlot
  <2>7. CASE WipeSlots BY <2>7 DEF WipeSlots
  <2>8. CASE EnrollFails BY <2>8 DEF EnrollFails
  <2>9. CASE ReadBack BY <2>9 DEF ReadBack
  <2>10. CASE Unseal BY <2>10 DEF Unseal
  <2> QED BY <1>3, <2>1, <2>2, <2>3, <2>4, <2>5, <2>6, <2>7, <2>8, <2>9, <2>10
          DEF RepairStep
<1>4. CASE Reply
  BY <1>0, <1>4 DEF Reply, Decline
<1>5. CASE Exit \/ Kill
  BY <1>5 DEF Exit, Kill, Gone
<1>6. CASE Start \/ Terminate \/ KeyringExpires
  BY <1>0, <1>6 DEF Start, Terminate, KeyringExpires
<1>7. ASSUME NEW p \in Pcrs, Extend(p) PROVE BudgetInv'
  BY <1>7 DEF Extend, acquireVars
<1>8. CASE UNCHANGED vars
  BY <1>8 DEF vars, acquireVars
<1> QED BY <1>1, <1>2, <1>3, <1>4, <1>5, <1>6, <1>7, <1>8, NextCases

\* However late in a handling SIGTERM arrives, at most three children run on.
THEOREM StopHonoured == Spec => []StopIsPrompt
<1>1. Init => BudgetInv
  BY DEF Init, BudgetInv
<1>2. TypeOK /\ BudgetInv /\ [Next]_vars => BudgetInv'
  BY BudgetStep
<1>3. BudgetInv => StopIsPrompt
  BY DEF BudgetInv, StopIsPrompt
<1> QED BY <1>1, <1>2, <1>3, TypeCorrect, PTL DEF Spec

-----------------------------------------------------------------------------
\* The token the plan is about: repairable, and seen not to match.
Old(t) == t.slot = plan.slot /\ Wanted(vol, t) /\ Drifted(t, plan.state)

\* Every slot the enrollment has added still has its token, and none of them is
\* the planned one's.
Kept == \A s \in fresh : s # plan.slot /\ \E u \in header[vol] : u.slot = s

\* Between the preflight and the wiping the header holds the planned token and,
\* beside it, only what the enrollment has added; after that what it has added,
\* and nothing else but perhaps the token in the planned slot.
HeaderInv ==
    /\ pc \in {"decide", "consenting", "commit", "enrolling"} =>
          \E t \in header[vol] : header[vol] = {t} /\ Old(t)
    /\ pc = "wiping" =>
          \A t \in header[vol] : t.slot \in fresh \/ Old(t)
    /\ pc \in {"verifying", "unsealing"} =>
          \A t \in header[vol] : t.slot \in fresh \/ t.slot = plan.slot
    /\ pc \in {"wiping", "verifying", "unsealing"} => fresh # {} /\ Kept
    /\ pc = "unsealing" => \E t \in NewTokens(vol) : Wanted(vol, t)
    /\ report # "none" => pc = "replying"
    /\ VerifiedIsSound

HeaderPoints ==
    {"decide", "consenting", "commit", "enrolling", "wiping", "verifying",
     "unsealing", "replying"}

\* A step that leaves the header and the plan alone and reaches none of the
\* points HeaderInv speaks of, or stays at its own.
LEMMA HeaderFrame ==
    ASSUME HeaderInv, UNCHANGED <<header, plan, fresh, report, vol>>,
           pc' \in HeaderPoints => pc' = pc,
           report # "none" => pc' = pc
    PROVE  HeaderInv'
BY DEF HeaderInv, HeaderPoints, Kept, NewTokens, Old, Drifted, Wanted, VerifiedIsSound

\* No step of maybe_reenroll leaves a header outside the invariant.
LEMMA HeaderRepairStep ==
    ASSUME RepairAssumption, TypeOK, HeaderInv, RepairStep
    PROVE  HeaderInv'
<1>0. vol \in Volumes /\ header \in [Volumes -> SUBSET Tokens]
  BY RepairFrame DEF TypeOK, RepairTypeOK, Busy
<1> USE DEF HeaderInv, VerifiedIsSound
<1>1. CASE BeginRepair
  BY <1>1 DEF BeginRepair, repairVars
<1>2. CASE Preflight
  BY <1>2 DEF Preflight, Repairable, Old, Wanted, Drifted
<1>3. CASE Decide
  BY <1>3 DEF Decide, repairVars, Old, Wanted, Drifted
<1>4. CASE Consent
  BY <1>4 DEF Consent, Old, Wanted, Drifted
<1>5. CASE Commit
  BY <1>5 DEF Commit, CommitPoint, repairVars, Old, Wanted, Drifted
<1>6. CASE AddSlot
  <2>1. PICK t \in header[vol] : header[vol] = {t} /\ Old(t)
    BY <1>6 DEF AddSlot
  <2>2. PICK e \in Enrollments(vol) :
          /\ \A u \in header[vol] : u.slot \notin e.slots
          /\ fresh' = e.slots
          /\ header' = [header EXCEPT ![vol] = @ \cup Written(e)]
    BY <1>6 DEF AddSlot
  <2>3. pc' = "wiping" /\ vol' = vol /\ plan' = plan /\ report' = report
    BY <1>6 DEF AddSlot
  <2>4. header'[vol] = {t} \cup Written(e)
    BY <1>0, <2>1, <2>2
  <2>5. fresh' # {}
    BY <1>0, <2>2, EnrollmentTypes DEF Unrequested
  <2>6. \A u \in header'[vol] : u.slot \in fresh' \/ Old(u)'
    BY <2>1, <2>2, <2>3, <2>4 DEF Written, Old, Wanted, Drifted
  <2>7. Kept'
    <3>1. ASSUME NEW s \in e.slots
          PROVE  \E u \in Written(e) : u.slot = s
      <4> DEFINE u == [slot |-> s, pcrs |-> e.pcrs, policy |-> PolicyOver(e.pcrs),
                       plain |-> e.plain]
      <4>1. u \in Written(e) /\ u.slot = s
        BY DEF Written
      <4> QED BY <4>1
    <3>2. plan.slot \notin e.slots
      BY <2>1, <2>2 DEF Old
    <3> QED BY <2>2, <2>3, <2>4, <3>1, <3>2 DEF Kept
  <2>8. report = "none"
    BY <1>6 DEF AddSlot
  <2> QED BY <2>3, <2>5, <2>6, <2>7, <2>8
<1>7. CASE WipeSlots
  <2>1. PICK h \in Leavings(vol) : header' = [header EXCEPT ![vol] = h]
    BY <1>7 DEF WipeSlots
  <2>2. /\ pc = "wiping" /\ pc' = "verifying"
        /\ UNCHANGED <<vol, plan, fresh, report>>
    BY <1>7 DEF WipeSlots
  <2>3. header'[vol] = h /\ h \subseteq header[vol] /\ Wiped(vol) \subseteq h
    BY <1>0, <2>1, LeavingsAreLeft
  <2>4. Kept'
    BY <2>2, <2>3 DEF Kept, Wiped
  <2>5. \A t \in header'[vol] : t.slot \in fresh' \/ t.slot = plan'.slot
    BY <2>2, <2>3 DEF Old
  <2> QED BY <2>2, <2>4, <2>5
<1>8. CASE EnrollFails
  BY <1>8 DEF EnrollFails
<1>9. CASE ReadBack
  BY <1>9 DEF ReadBack, Kept, NewTokens, Wanted
<1>10. CASE Unseal
  <2>1. PICK t \in NewTokens(vol) : Wanted(vol, t)
    BY <1>10 DEF Unseal
  <2>2. t \in header[vol] /\ t.slot \in fresh /\ t.slot # plan.slot
    BY <1>10, <2>1 DEF Unseal, NewTokens
  <2>3. t.plain /\ t.pcrs = Selection[vol]
    BY <2>1 DEF Wanted
  <2>4. \A u \in header[vol] : u = t \/ u.slot = plan.slot
    BY <2>1 DEF NewTokens
  <2> QED BY <1>10, <2>2, <2>3, <2>4 DEF Unseal
<1> QED BY <1>1, <1>2, <1>3, <1>4, <1>5, <1>6, <1>7, <1>8, <1>9, <1>10 DEF RepairStep

\* The other steps leave the headers alone; only Extend changes the PCRs.
LEMMA HeaderStep ==
    ASSUME RepairAssumption, TypeOK, HeaderInv, [Next]_vars
    PROVE  HeaderInv'
<1>1. ASSUME NEW v \in Volumes, Accept(v) PROVE HeaderInv'
  BY <1>1 DEF Accept, repairVars, HeaderInv, VerifiedIsSound
<1>2. CASE AcquireStep /\ UNCHANGED <<repairVars, sent, connections, starts>>
  BY <1>2, AcquireFrame DEF repairVars, AcquirePoints, HeaderInv, VerifiedIsSound
<1>3. CASE RepairStep /\ UNCHANGED <<sent, connections, starts>>
  BY <1>3, HeaderRepairStep
<1>4. CASE Reply
  BY <1>4 DEF Reply, Decline, HeaderInv, VerifiedIsSound
<1>5. CASE Exit \/ Kill
  BY <1>5 DEF Exit, Kill, Gone, HeaderInv, VerifiedIsSound
<1>6. CASE Start
  BY <1>6 DEF Start, repairVars, HeaderInv, VerifiedIsSound
<1>7. CASE Terminate \/ KeyringExpires
  BY <1>7, HeaderFrame DEF Terminate, KeyringExpires, repairVars
<1>8. ASSUME NEW p \in Pcrs, Extend(p) PROVE HeaderInv'
  BY <1>8, HeaderFrame DEF Extend, acquireVars
<1>9. CASE UNCHANGED vars
  BY <1>9, HeaderFrame DEF vars, acquireVars, repairVars
<1> QED BY <1>1, <1>2, <1>3, <1>4, <1>5, <1>6, <1>7, <1>8, <1>9, NextCases

\* The inductive invariant the two theorems below follow from.
LEMMA HeaderInvariant == Spec => []HeaderInv
<1>1. Init => HeaderInv
  BY DEF Init, HeaderInv, VerifiedIsSound
<1>2. TypeOK /\ HeaderInv /\ [Next]_vars => HeaderInv'
  BY HeaderStep, RepairAssumption
<1> QED BY <1>1, <1>2, TypeCorrect, PTL DEF Spec

\* Whatever systemd-cryptenroll wrote and wiped, "re-enrolled and verified" is said
\* only of a token it has added, plain and over the configured PCRs, with no
\* other beside it but perhaps the old one.
THEOREM VerifiedMeansSound == Spec => []VerifiedIsSound
<1>1. HeaderInv => VerifiedIsSound
  BY DEF HeaderInv
<1> QED BY <1>1, HeaderInvariant, PTL

-----------------------------------------------------------------------------
\* What BindingsSurvive says of one step.
HeadersKept ==
    \A v \in Volumes :
        /\ header[v] # {} => header'[v] # {}
        /\ \A t \in header[v] \ header'[v] :
              /\ v = vol
              /\ t.plain
              /\ t.pcrs = Selection[v]
              /\ t.policy # plan.state

\* The wipe spares the new slots, so it never empties a header.
LEMMA WipingKeepsHeaders ==
    ASSUME TypeOK, HeaderInv, pc = "wiping", NEW h \in Leavings(vol),
           header' = [header EXCEPT ![vol] = h]
    PROVE  HeadersKept
<1>1. vol \in Volumes /\ header \in [Volumes -> SUBSET Tokens]
  BY DEF TypeOK, RepairTypeOK, Busy, RepairPoints
<1>2. header'[vol] = h /\ \A v \in Volumes \ {vol} : header'[v] = header[v]
  BY <1>1
<1>3. Wiped(vol) \subseteq h
  BY <1>1, LeavingsAreLeft
<1>4. h # {}
  BY <1>3 DEF HeaderInv, Kept, Wiped
<1>5. \A t \in header[vol] \ h : Old(t)
  BY <1>3 DEF HeaderInv, Wiped
<1> QED BY <1>2, <1>4, <1>5 DEF HeadersKept, Old, Wanted, Drifted

\* No step takes a header's last TPM2 token, and none takes any but the one
\* token the preflight found repairable and stale.
THEOREM BindingsKept == Spec => BindingsSurvive
<1>1. TypeOK /\ HeaderInv /\ [Next]_vars => [HeadersKept]_header
  <2> SUFFICES ASSUME TypeOK, HeaderInv, Next, header' # header PROVE HeadersKept
    BY DEF vars, repairVars
  <2>1. CASE RepairStep
    <3>1. CASE AddSlot
      <4>1. vol \in Volumes /\ header \in [Volumes -> SUBSET Tokens]
        BY RepairFrame, <2>1 DEF TypeOK, RepairTypeOK, Busy
      <4>2. \A v \in Volumes : header[v] \subseteq header'[v]
        BY <3>1, <4>1 DEF AddSlot
      <4> QED BY <4>2 DEF HeadersKept
    <3>2. CASE WipeSlots \/ EnrollFails
      BY <3>2, WipingKeepsHeaders DEF WipeSlots, EnrollFails
    <3> QED BY <2>1, <3>1, <3>2 DEF RepairStep, BeginRepair, Preflight, Decide, Consent,
            Commit, ReadBack, Unseal, repairVars
  <2>2. CASE ~RepairStep
    BY <2>2, NextCases DEF Accept, Reply, Exit, Kill, Gone, Start, Terminate,
       KeyringExpires, Extend, repairVars
  <2> QED BY <2>1, <2>2
<1>2. [HeadersKept]_header =>
        [\A v \in Volumes :
          /\ header[v] # {} => header'[v] # {}
          /\ \A t \in header[v] \ header'[v] :
                /\ v = vol
                /\ t.plain
                /\ t.pcrs = Selection[v]
                /\ t.policy # plan.state]_header
  BY DEF HeadersKept
<1> QED BY <1>1, <1>2, TypeCorrect, HeaderInvariant, PTL DEF Spec, BindingsSurvive

=============================================================================

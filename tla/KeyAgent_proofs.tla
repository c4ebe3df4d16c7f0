---------------------------- MODULE KeyAgent_proofs ----------------------------
(***************************************************************************)
(* PlainPhase implements KeyAgent for every set of volumes, passphrases,    *)
(* PCRs and initial headers and for every bound: by a refinement mapping     *)
(* under which most steps stutter, from the invariants of the other proofs. *)
(***************************************************************************)
EXTENDS Repair_proofs, PlainRefinement

\* What is measured is a boot state.
StateInv ==
    /\ pcr \in [Pcrs -> 0..MaxExtends]
    /\ pc \in {"decide", "consenting"} => plan.state \in BootStates

\* A policy digest taken at any time, over any selection, is of a boot state.
LEMMA PolicyIsBootState ==
    ASSUME pcr \in [Pcrs -> 0..MaxExtends]
    PROVE  /\ \A sel \in SUBSET Pcrs : PolicyOver(sel) \in BootStates
           /\ \A v \in Volumes : Policy(v) \in BootStates
BY DEF PolicyOver, Policy, BootStates

\* Only Extend moves a PCR and only the preflight makes a plan.
LEMMA StateInvariant == Spec => []StateInv
<1> USE DEF StateInv
<1>1. Init => StateInv
  <2>1. 0 \in 0..MaxExtends
    BY PlainPhaseAssumption DEF PlainPhaseAssumption
  <2> QED BY <2>1 DEF Init
<1>2. TypeOK /\ StateInv /\ [Next]_vars => StateInv'
  <2> SUFFICES ASSUME TypeOK, StateInv, [Next]_vars PROVE StateInv'
    OBVIOUS
  <2>1. ASSUME NEW v \in Volumes, Accept(v) PROVE StateInv'
    BY <2>1 DEF Accept, repairVars
  <2>2. CASE AcquireStep /\ UNCHANGED <<repairVars, sent, connections, starts>>
    BY <2>2, AcquireFrame DEF repairVars, AcquirePoints
  <2>3. CASE RepairStep /\ UNCHANGED <<sent, connections, starts>>
    <3>0. vol \in Volumes
      BY <2>3, RepairFrame DEF TypeOK, Busy
    <3>1. CASE BeginRepair BY <3>1 DEF BeginRepair, repairVars
    <3>2. CASE Preflight
      <4>1. \A state \in {Policy(vol)} \cup BlankDigests : state \in BootStates
        <5>1. Blank \in BootStates
          BY DEF Blank, BootStates
        <5> QED BY <3>0, <5>1, PolicyIsBootState, RepairAssumption DEF RepairAssumption
      <4>2. pc' = "decide" => plan'.state \in BootStates
        BY <3>2, <4>1 DEF Preflight
      <4> QED BY <3>2, <4>2 DEF Preflight
    <3>3. CASE Decide BY <3>3 DEF Decide, repairVars
    <3>4. CASE Consent BY <3>4 DEF Consent
    <3>5. CASE Commit BY <3>5 DEF Commit, CommitPoint, repairVars
    <3>6. CASE AddSlot BY <3>6 DEF AddSlot
    <3>7. CASE WipeSlots BY <3>7 DEF WipeSlots
    <3>8. CASE EnrollFails BY <3>8 DEF EnrollFails
    <3>9. CASE ReadBack BY <3>9 DEF ReadBack
    <3>10. CASE Unseal BY <3>10 DEF Unseal
    <3> QED BY <2>3, <3>1, <3>2, <3>3, <3>4, <3>5, <3>6, <3>7, <3>8, <3>9, <3>10
            DEF RepairStep
  <2>4. CASE Reply
    BY <2>4 DEF Reply, Decline
  <2>5. CASE Exit \/ Kill
    BY <2>5 DEF Exit, Kill, Gone
  <2>6. CASE Start \/ Terminate \/ KeyringExpires
    BY <2>6 DEF Start, Terminate, KeyringExpires, repairVars
  <2>7. ASSUME NEW p \in Pcrs, Extend(p) PROVE StateInv'
    <3>1. pcr[p] + 1 \in 0..MaxExtends
      BY <2>7, PlainPhaseAssumption DEF Extend, PlainPhaseAssumption
    <3> QED BY <2>7, <3>1 DEF Extend, acquireVars
  <2>8. CASE UNCHANGED vars
    BY <2>8 DEF vars, acquireVars, repairVars
  <2> QED BY <2>1, <2>2, <2>3, <2>4, <2>5, <2>6, <2>7, <2>8, NextCases
<1> QED BY <1>1, <1>2, TypeCorrect, PTL DEF Spec

-----------------------------------------------------------------------------
\* The points at which there is a job.
JobPoints == {"commit", "enrolling", "wiping", "verifying", "unsealing"}

\* A step that comes from no job and leads to none, and changes nothing KeyAgent
\* sees, is a stutter.
LEMMA Stutters ==
    ASSUME UNCHANGED <<header, sent, answers, report>>,
           pc \notin JobPoints, pc' \notin JobPoints
    PROVE  UNCHANGED Agent!vars
BY DEF Agent!vars, Jobs, JobPoints

\* When consent is given the header is repairable, and no refusal stands in its
\* way: what the preflight saw and what the decisions say still holds.
LEMMA AgreeStep ==
    ASSUME TypeOK, ConsentInv, HeaderInv, StateInv,
           pc \in {"decide", "consenting"}, pc' = "commit", ~Refused(plan.state),
           UNCHANGED <<header, sent, report, vol, plan>>,
           \/ <<plan.state, "Always">> \in answers /\ UNCHANGED answers
           \/ \E a \in {"Yes", "Always"} : answers' = answers \cup {<<plan.state, a>>}
    PROVE  Agent!Next
<1>1. vol \in Volumes /\ plan.state \in BootStates /\ plan.state \in Policies
  BY DEF TypeOK, RepairTypeOK, Busy, RepairPoints, StateInv
<1>2. Jobs = {} /\ Jobs' = {[vol |-> vol, old |-> plan.slot, new |-> {}]}
  BY DEF Jobs
<1>3. plan.state = Blank \/ <<plan.state, "No">> \notin answers
  BY <1>1 DEF ConsentInv, Refused
<1>4. \E t \in header[vol] :
        /\ header[vol] = {t}
        /\ Agent!Fits(vol, t) /\ t.policy # plan.state
        /\ t.slot = plan.slot
  BY DEF HeaderInv, Old, Wanted, Drifted, Agent!Fits
<1>5. Agent!Agree(vol, plan.state)
  BY <1>2, <1>3, <1>4 DEF Agent!Agree
<1> QED BY <1>1, <1>5 DEF Agent!Next

\* Every step of maybe_reenroll is a step of KeyAgent or none.
LEMMA RepairRefines ==
    ASSUME TypeOK, ConsentInv, HeaderInv, StateInv, RepairStep, UNCHANGED sent
    PROVE  Agent!Next \/ UNCHANGED Agent!vars
<1>0. vol \in Volumes /\ header \in [Volumes -> SUBSET Tokens] /\ vol' = vol
  BY RepairFrame DEF TypeOK, RepairTypeOK, Busy
<1> DEFINE job == [vol |-> vol, old |-> plan.slot, new |-> {}]
           added == [vol |-> vol, old |-> plan.slot, new |-> fresh]
<1>a. /\ pc \in {"commit", "enrolling"} => Jobs = {job}
      /\ pc \in {"wiping", "verifying", "unsealing"} => Jobs = {added}
      /\ pc' \notin JobPoints => Jobs' = {}
  BY DEF Jobs, JobPoints
<1>1. CASE BeginRepair \/ Preflight
  BY <1>1, Stutters DEF BeginRepair, Preflight, repairVars, decisionVars, JobPoints
<1>2. CASE Decide
  <2>1. pc = "decide" /\ UNCHANGED repairVars
    BY <1>2 DEF Decide
  <2>2. CASE pc' = "commit"
    <3>1. ~Refused(plan.state) /\ <<plan.state, "Always">> \in answers
      BY <1>2, <2>2 DEF Decide, Accepted, ConsentInv
    <3> QED BY <1>0, <2>1, <2>2, <3>1, AgreeStep DEF repairVars
  <2>3. CASE pc' # "commit"
    <3>1. pc' \in {"replying", "consenting"}
      BY <1>2, <2>3 DEF Decide
    <3> QED BY <2>1, <3>1, Stutters DEF repairVars, JobPoints
  <2> QED BY <2>2, <2>3
<1>3. CASE Consent
  <2>1. PICK a \in {"No", "Yes", "Always"} :
          /\ answers' = answers \cup {<<plan.state, a>>}
          /\ pc' = IF a = "No" THEN "replying" ELSE "commit"
    BY <1>3 DEF Consent
  <2>2. pc = "consenting" /\ UNCHANGED <<header, plan, report>>
    BY <1>3 DEF Consent
  <2>3. CASE a = "No"
    <3>1. pc \notin JobPoints /\ pc' \notin JobPoints /\ Jobs = {} /\ Jobs' = {}
      BY <2>1, <2>2, <2>3 DEF JobPoints, Jobs
    <3>2. Agent!Refuse(plan.state)
      BY <2>1, <2>2, <2>3, <3>1 DEF Agent!Refuse
    <3>3. plan.state \in BootStates
      BY <2>2 DEF StateInv
    <3> QED BY <3>2, <3>3 DEF Agent!Next
  <2>4. CASE a # "No"
    <3>1. ~Refused(plan.state)
      BY <2>2 DEF ConsentInv
    <3> QED BY <1>0, <2>1, <2>2, <2>4, <3>1, AgreeStep
  <2> QED BY <2>3, <2>4
<1>4. CASE Commit
  <2>1. pc = "commit" /\ UNCHANGED repairVars /\ pc' \in {"replying", "enrolling"}
    BY <1>4 DEF Commit, CommitPoint
  <2>2. CASE pc' = "enrolling"
    BY <1>0, <2>1, <2>2 DEF repairVars, Agent!vars, Jobs
  <2>3. CASE pc' = "replying"
    <3>1. Agent!Abandon(job)
      BY <1>a, <2>1, <2>3 DEF repairVars, Agent!Abandon, JobPoints
    <3> QED BY <1>a, <2>1, <3>1 DEF Agent!Next
  <2> QED BY <2>1, <2>2, <2>3
<1>5. CASE AddSlot
  <2>1. PICK e \in Enrollments(vol) :
          /\ \A u \in header[vol] : u.slot \notin e.slots
          /\ fresh' = e.slots
          /\ header' = [header EXCEPT ![vol] = @ \cup Written(e)]
    BY <1>5 DEF AddSlot
  <2>2. pc = "enrolling" /\ pc' = "wiping" /\ UNCHANGED <<plan, answers, report>>
    BY <1>5 DEF AddSlot, decisionVars
  <2>3. e \in Unrequested
    BY <1>0, EnrollmentTypes, RepairAssumption
  <2>4. /\ e.slots \in (SUBSET Slots) \ {{}} /\ e.pcrs \in SUBSET Pcrs
        /\ e.plain \in BOOLEAN /\ PolicyOver(e.pcrs) \in BootStates
    BY <2>3, PolicyIsBootState DEF Unrequested, StateInv
  <2>5. Jobs' = {[job EXCEPT !.new = e.slots]}
    BY <1>0, <2>1, <2>2 DEF Jobs
  <2>6. job.vol = vol /\ job.new = {}
    OBVIOUS
  <2> HIDE DEF job
  <2>7. Agent!Add(job)
    <3>1. Written(e) = Agent!Batch(e.slots, e.pcrs, PolicyOver(e.pcrs), e.plain)
      BY DEF Written, Agent!Batch
    <3>2. header' = [header EXCEPT ![job.vol] = @ \cup
             Agent!Batch(e.slots, e.pcrs, PolicyOver(e.pcrs), e.plain)]
      BY <2>1, <2>6, <3>1
    <3>3. \A t \in header[job.vol] : t.slot \notin e.slots
      BY <2>1, <2>6
    <3>4. UNCHANGED <<sent, answers, report>>
      BY <2>2
    <3> QED BY <2>4, <2>5, <2>6, <3>2, <3>3, <3>4 DEF Agent!Add
  <2> QED BY <1>a, <2>2, <2>7 DEF Agent!Next
<1>6. ASSUME pc = "wiping", NEW h \in Leavings(vol),
             header' = [header EXCEPT ![vol] = h],
             UNCHANGED <<plan, fresh, answers>>,
             \/ pc' = "verifying" /\ UNCHANGED report
             \/ pc' = "replying" /\ report' = "failed"
      PROVE  Agent!Next
  <2>1. added.vol = vol /\ added.new = fresh /\ fresh # {}
    BY <1>6 DEF HeaderInv
  <2>2. h \in SUBSET header[vol] /\ \A t \in header[vol] : t.slot \in fresh => t \in h
    BY <1>0, <1>6, LeavingsAreLeft DEF Wiped
  <2>3. \/ Jobs' = Jobs /\ report' = report
        \/ Jobs' = {} /\ report' = "failed"
    BY <1>0, <1>6 DEF Jobs
  <2> HIDE DEF added
  <2>4. Agent!Retire(added)
    BY <1>6, <2>1, <2>2, <2>3 DEF Agent!Retire
  <2> QED BY <1>a, <1>6, <2>4 DEF Agent!Next
<1>7. CASE WipeSlots
  BY <1>6, <1>7 DEF WipeSlots, decisionVars
<1>8. ASSUME pc \in JobPoints, pc' = "replying", report' = "failed",
             UNCHANGED <<header, answers>>
      PROVE  Agent!Next
  <2>1. PICK j \in Jobs : TRUE
    BY <1>8, <1>a DEF JobPoints
  <2>2. Agent!Abandon(j)
    BY <1>8, <1>a DEF Agent!Abandon, JobPoints
  <2> QED BY <2>2 DEF Agent!Next
<1>9. CASE EnrollFails
  <2>1. /\ pc \in {"enrolling", "wiping"} /\ pc' = "replying" /\ report' = "failed"
        /\ UNCHANGED <<plan, fresh, answers>>
    BY <1>9 DEF EnrollFails, decisionVars
  <2>2. CASE UNCHANGED header
    BY <1>8, <2>1, <2>2 DEF JobPoints
  <2>3. CASE pc = "wiping" /\ \E h \in Leavings(vol) : header' = [header EXCEPT ![vol] = h]
    BY <1>6, <2>1, <2>3
  <2> QED BY <1>9, <2>2, <2>3 DEF EnrollFails
<1>10. CASE ReadBack
  <2>1. /\ pc = "verifying" /\ UNCHANGED <<header, plan, fresh, answers>>
        /\ \/ pc' = "unsealing" /\ UNCHANGED report
           \/ pc' = "replying" /\ report' = "failed"
    BY <1>10 DEF ReadBack, decisionVars
  <2>2. CASE pc' = "unsealing" /\ UNCHANGED report
    BY <1>0, <2>1, <2>2 DEF Agent!vars, Jobs
  <2>3. CASE pc' = "replying" /\ report' = "failed"
    BY <1>8, <2>1, <2>3 DEF JobPoints
  <2> QED BY <2>1, <2>2, <2>3
<1>11. CASE Unseal
  <2>1. /\ pc = "unsealing" /\ pc' = "replying" /\ UNCHANGED <<header, answers>>
        /\ report' \in {"verified", "failed"}
    BY <1>11 DEF Unseal, decisionVars
  <2>2. CASE report' = "verified"
    <3>1. PICK t \in NewTokens(vol) : Wanted(vol, t)
      BY <2>1 DEF HeaderInv
    <3>2. /\ t \in header[vol] /\ t.slot \in fresh /\ t.slot # plan.slot
          /\ \A u \in header[vol] : u = t \/ u.slot = plan.slot
      BY <2>1, <3>1 DEF HeaderInv, NewTokens
    <3>3. /\ Agent!Fits(vol, t)
          /\ added.vol = vol /\ added.new = fresh /\ added.old = plan.slot
      BY <3>1 DEF Wanted, Agent!Fits
    <3>4. Jobs = {added} /\ Jobs' = {}
      BY <1>a, <2>1 DEF JobPoints
    <3> HIDE DEF added
    <3>5. Agent!Vouch(added)
      BY <2>1, <2>2, <3>2, <3>3, <3>4 DEF Agent!Vouch
    <3> QED BY <3>4, <3>5 DEF Agent!Next
  <2>3. CASE report' = "failed"
    BY <1>8, <2>1, <2>3 DEF JobPoints
  <2> QED BY <2>1, <2>2, <2>3
<1> HIDE DEF job, added
<1> QED BY <1>1, <1>2, <1>3, <1>4, <1>5, <1>7, <1>9, <1>10, <1>11 DEF RepairStep

\* The plain phase implements the key agent: every step of the daemon, of a signal
\* or of the boot around it is one step of KeyAgent or none that it sees.
THEOREM PlainPhaseIsKeyAgent == Spec => IsKeyAgent
<1>1. Init => Agent!Init
  BY DEF Init, Agent!Init, Jobs
<1>2. TypeOK /\ ValidatedInv /\ ConsentInv /\ HeaderInv /\ StateInv /\ [Next]_vars
        => [Agent!Next]_(Agent!vars)
  <2> SUFFICES ASSUME TypeOK, ValidatedInv, ConsentInv, HeaderInv, StateInv, [Next]_vars
               PROVE  Agent!Next \/ UNCHANGED Agent!vars
    OBVIOUS
  <2>1. ASSUME NEW v \in Volumes, Accept(v) PROVE UNCHANGED Agent!vars
    BY <2>1, Stutters DEF Accept, repairVars, JobPoints
  <2>2. CASE AcquireStep /\ UNCHANGED <<repairVars, sent, connections, starts>>
    BY <2>2, AcquireFrame, Stutters DEF repairVars, AcquirePoints, JobPoints
  <2>3. CASE RepairStep /\ UNCHANGED <<sent, connections, starts>>
    BY <2>3, RepairRefines
  <2>4. CASE Reply
    <3>1. vol \in Volumes /\ Jobs = {} /\ Jobs' = {}
      BY <2>4 DEF Reply, Decline, Jobs, TypeOK, Busy, RepairPoints
    <3>2. candidate \in Opens[vol]
      BY <2>4 DEF Reply, ValidatedInv, RepairPoints
    <3>3. Agent!Return(vol)
      BY <2>4, <3>1, <3>2 DEF Reply, decisionVars, Agent!Return
    <3> QED BY <3>1, <3>3 DEF Agent!Next
  <2>5. CASE Exit \/ Kill
    <3>1. Agent!Forget
      BY <2>5 DEF Exit, Kill, Gone, Jobs, Agent!Forget
    <3> QED BY <3>1 DEF Agent!Next
  <2>6. CASE Start
    BY <2>6, Stutters DEF Start, repairVars, JobPoints
  <2>7. CASE Terminate \/ KeyringExpires \/ UNCHANGED vars
    BY <2>7 DEF Terminate, KeyringExpires, vars, acquireVars, repairVars, Agent!vars, Jobs
  <2>8. ASSUME NEW p \in Pcrs, Extend(p) PROVE UNCHANGED Agent!vars
    BY <2>8 DEF Extend, acquireVars, decisionVars, Agent!vars, Jobs
  <2> QED BY <2>1, <2>2, <2>3, <2>4, <2>5, <2>6, <2>7, <2>8, NextCases
<1> QED BY <1>1, <1>2, TypeCorrect, ValidatedInvariant, ConsentInvariant, HeaderInvariant,
        StateInvariant, PTL DEF Spec, IsKeyAgent, Agent!Spec

-----------------------------------------------------------------------------
\* What an enrollment has added is there.
AgentInv ==
    /\ header = [v \in Volumes |-> header[v]]
    /\ \A job \in Jobs :
          /\ job = [vol |-> job.vol, old |-> job.old, new |-> job.new]
          /\ job.vol \in Volumes
          /\ \A slot \in job.new : \E t \in header[job.vol] : t.slot = slot

TokenStays == \A v \in Volumes : header[v] # {} => header'[v] # {}

\* The abstract specification is strong enough for its purpose: whatever keeps
\* to KeyAgent never takes a volume's last token away, since what it adds
\* is there before anything is retired.
THEOREM AgentsKeepATokenEach == IsKeyAgent => [][TokenStays]_header
<1> USE DEF AgentInv, TokenStays
<1>1. Agent!Init => AgentInv
  BY PlainPhaseAssumption DEF Agent!Init, PlainPhaseAssumption
<1>2. ASSUME AgentInv, [Agent!Next]_Agent!vars
      PROVE  AgentInv' /\ TokenStays
  <2>1. ASSUME NEW state \in BootStates, Agent!Refuse(state)
        PROVE  AgentInv' /\ TokenStays
    BY <1>2, <2>1 DEF Agent!Refuse
  <2>2. ASSUME NEW state \in BootStates, NEW v \in Volumes, Agent!Agree(v, state)
        PROVE  AgentInv' /\ TokenStays
    BY <1>2, <2>2 DEF Agent!Agree
  <2>3. ASSUME NEW job \in Jobs, Agent!Add(job)
        PROVE  AgentInv' /\ TokenStays
    <3>1. PICK new \in (SUBSET Slots) \ {{}}, sel \in SUBSET Pcrs, state \in BootStates,
               plain \in BOOLEAN :
            /\ header' = [header EXCEPT ![job.vol] = @ \cup
                             Agent!Batch(new, sel, state, plain)]
            /\ Jobs' = {[job EXCEPT !.new = new]}
      BY <2>3 DEF Agent!Add
    <3> DEFINE batch == Agent!Batch(new, sel, state, plain)
    <3>2. \A s \in new : \E t \in batch : t.slot = s
      <4>1. ASSUME NEW s \in new
            PROVE  \E t \in batch : t.slot = s
        <5> DEFINE t == [slot |-> s, pcrs |-> sel, policy |-> state, plain |-> plain]
        <5>1. t \in batch /\ t.slot = s
          BY DEF Agent!Batch
        <5> QED BY <5>1
      <4> QED BY <4>1
    <3> HIDE DEF batch
    <3>3. job.vol \in Volumes /\ job = [vol |-> job.vol, old |-> job.old, new |-> job.new]
      BY <1>2
    <3>4. [job EXCEPT !.new = new] = [vol |-> job.vol, old |-> job.old, new |-> new]
      BY <3>3
    <3>5. header' = [v \in Volumes |-> IF v = job.vol THEN header[v] \cup batch ELSE header[v]]
      BY <1>2, <3>1, <3>3 DEF batch
    <3>6. /\ header' = [v \in Volumes |-> header'[v]]
          /\ \A v \in Volumes : header[v] \subseteq header'[v]
          /\ \A s \in new : \E t \in header'[job.vol] : t.slot = s
      BY <3>2, <3>3, <3>5
    <3>7. Jobs' = {[vol |-> job.vol, old |-> job.old, new |-> new]}
      BY <3>1, <3>4
    <3>8. TokenStays
      BY <3>6
    <3> QED BY <3>3, <3>6, <3>7, <3>8
  <2>4. ASSUME NEW job \in Jobs, Agent!Retire(job)
        PROVE  AgentInv' /\ TokenStays
    <3>1. PICK left \in SUBSET header[job.vol] :
            /\ \A t \in header[job.vol] : t.slot \in job.new => t \in left
            /\ header' = [header EXCEPT ![job.vol] = left]
      BY <2>4 DEF Agent!Retire
    <3>2. job.new # {} /\ Jobs' \subseteq Jobs
      BY <2>4 DEF Agent!Retire
    <3>3. job.vol \in Volumes
      BY <1>2
    <3>4. header' = [v \in Volumes |-> IF v = job.vol THEN left ELSE header[v]]
      BY <1>2, <3>1, <3>3
    <3>5. \A slot \in job.new : \E t \in header'[job.vol] : t.slot = slot
      BY <1>2, <3>1, <3>3, <3>4
    <3>6. TokenStays
      BY <3>2, <3>3, <3>4, <3>5
    <3>7. ASSUME NEW other \in Jobs
          PROVE  other = job
      BY DEF Jobs
    <3>8. header' = [v \in Volumes |-> header'[v]]
      BY <3>4
    <3>9. \A other \in Jobs' : other \in Jobs /\ other = job
      BY <3>2, <3>7
    <3>10. job = [vol |-> job.vol, old |-> job.old, new |-> job.new]
      BY <1>2
    <3> HIDE DEF TokenStays
    <3> QED BY <3>3, <3>5, <3>6, <3>8, <3>9, <3>10
  <2>5. ASSUME NEW job \in Jobs, Agent!Vouch(job) \/ Agent!Abandon(job)
        PROVE  AgentInv' /\ TokenStays
    BY <1>2, <2>5 DEF Agent!Vouch, Agent!Abandon
  <2>6. ASSUME NEW v \in Volumes, Agent!Return(v)
        PROVE  AgentInv' /\ TokenStays
    BY <1>2, <2>6 DEF Agent!Return
  <2>7. CASE Agent!Forget BY <1>2, <2>7 DEF Agent!Forget
  <2>8. CASE UNCHANGED Agent!vars BY <1>2, <2>8 DEF Agent!vars
  <2> QED BY <1>2, <2>1, <2>2, <2>3, <2>4, <2>5, <2>6, <2>7, <2>8 DEF Agent!Next
<1>3. AgentInv /\ [Agent!Next]_Agent!vars => AgentInv' /\ [TokenStays]_header
  BY <1>2
<1> QED BY <1>1, <1>3, PTL DEF IsKeyAgent, Agent!Spec

=============================================================================

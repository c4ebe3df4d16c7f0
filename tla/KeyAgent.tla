-------------------------------- MODULE KeyAgent --------------------------------
(***************************************************************************)
(* What the plain phase of the key agent promises, with nothing of how: no  *)
(* cache, prompts, PCRs, signals or children.  A header is handed over once *)
(* a human has agreed, in one step with the state of the header that makes  *)
(* it repairable; from then on it gains tokens, may lose any of the others  *)
(* after that but none of the new, or the job stops where it is; and it is  *)
(* vouched for only with one new token that fits.  PlainPhase implements    *)
(* this, whatever systemd-cryptenroll does short of wiping what it has just *)
(* added (PlainRefinement).                                                 *)
(***************************************************************************)
CONSTANTS
    Volumes,
    Headers,        \* the headers there may be to begin with
    Opens,          \* Opens[v]: the passphrases that open v
    Slots,          \* LUKS2 token slots
    Pcrs,           \* PCR indices
    Selection,      \* Selection[v]: the PCRs the config binds v to
    States,         \* the boot states a token can be sealed to
    Blank           \* the state of an empty digest

VARIABLES
    header,     \* header[v]: the TPM2 tokens of v
    sent,       \* sent[v]: the passphrases ever returned for v
    said,       \* what this daemon has been told: <<state, answer>>
    jobs,       \* the enrollment that is going on, if there is one
    report      \* what is logged about the enrollment of this handling

vars == <<header, sent, said, jobs, report>>

Init ==
    /\ header \in Headers
    /\ sent = [v \in Volumes |-> {}]
    /\ said = {} /\ jobs = {} /\ report = "none"

Fits(v, t) == t.plain /\ t.pcrs = Selection[v]

\* A human says no to re-enrolling in this state.
Refuse(state) ==
    /\ jobs = {}
    /\ said' = said \cup {<<state, "No">>}
    /\ UNCHANGED <<header, sent, jobs, report>>

\* A human agrees, or has said always for this state, and no refusal stands:
\* v's one TPM2 token, fitting and out of date, is up for replacement.
Agree(v, state) ==
    /\ jobs = {}
    /\ state = Blank \/ <<state, "No">> \notin said
    /\ \/ <<state, "Always">> \in said /\ UNCHANGED said
       \/ \E a \in {"Yes", "Always"} : said' = said \cup {<<state, a>>}
    /\ \E t \in header[v] :
          /\ header[v] = {t}
          /\ Fits(v, t) /\ t.policy # state
          /\ jobs' = {[vol |-> v, old |-> t.slot, new |-> {}]}
    /\ UNCHANGED <<header, sent, report>>

\* Tokens alike in all but their slots.
Batch(new, sel, state, plain) ==
    {[slot |-> s, pcrs |-> sel, policy |-> state, plain |-> plain] : s \in new}

\* Tokens appear in free slots.  It is not promised that they bind to the agreed
\* state or selection, nor that they are plain, nor that there is only one.
Add(job) ==
    /\ job.new = {}
    /\ \E new \in (SUBSET Slots) \ {{}}, sel \in SUBSET Pcrs, state \in States,
         plain \in BOOLEAN :
          /\ \A t \in header[job.vol] : t.slot \notin new
          /\ header' = [header EXCEPT ![job.vol] = @ \cup Batch(new, sel, state, plain)]
          /\ jobs' = {[job EXCEPT !.new = new]}
    /\ UNCHANGED <<sent, said, report>>

\* Any of the tokens but the new ones go; this may be the last thing that is
\* heard of the job.
Retire(job) ==
    /\ job.new # {}
    /\ \E left \in SUBSET header[job.vol] :
          /\ \A t \in header[job.vol] : t.slot \in job.new => t \in left
          /\ header' = [header EXCEPT ![job.vol] = left]
    /\ \/ UNCHANGED <<jobs, report>>
       \/ jobs' = {} /\ report' = "failed"
    /\ UNCHANGED <<sent, said>>

\* The job is done: v has one new token, fitting, and no other but perhaps the
\* one that was to be replaced.
Vouch(job) ==
    /\ \E t \in header[job.vol] :
          /\ t.slot \in job.new /\ t.slot # job.old
          /\ Fits(job.vol, t)
          /\ \A u \in header[job.vol] : u = t \/ u.slot = job.old
    /\ jobs' = {} /\ report' = "verified"
    /\ UNCHANGED <<header, sent, said>>

\* The job stops where it is.
Abandon(job) ==
    /\ jobs' = {} /\ report' \in {report, "failed"}
    /\ UNCHANGED <<header, sent, said>>

\* The client gets a passphrase that opens its volume, or nothing; after the
\* enrollment, never during one.
Return(v) ==
    /\ jobs = {}
    /\ \/ \E s \in Opens[v] : sent' = [sent EXCEPT ![v] = @ \cup {s}]
       \/ UNCHANGED sent
    /\ report' = "none"
    /\ UNCHANGED <<header, said, jobs>>

\* The daemon is gone and with it everything it was told.
Forget ==
    /\ said' = {} /\ jobs' = {} /\ report' = "none"
    /\ UNCHANGED <<header, sent>>

Next ==
    \/ \E state \in States : Refuse(state) \/ \E v \in Volumes : Agree(v, state)
    \/ \E job \in jobs : Add(job) \/ Retire(job) \/ Vouch(job) \/ Abandon(job)
    \/ \E v \in Volumes : Return(v)
    \/ Forget

Spec == Init /\ [][Next]_vars

=============================================================================

# tpm2-autoenroll: a TLA+ model

This directory models tpm2-autoenrolld, the key agent that answers
systemd-cryptsetup's key-file discovery, returns a validated passphrase and, if
a human agrees, re-enrolls a stale TPM2 binding. Paths are relative to the
repository root; `main.rs` without a directory is `src/main.rs`.

## The system

| component | state | operations | modelled in |
|---|---|---|---|
| accept loop (`main.rs` serve, finished, handle; `dm.rs`) | ready set, `served`, `last_contact`, stop flag; the sockets' backlogs | poll, accept, handle, leave | `AcceptLoop` |
| key sockets (`sockets.rs`; `main.rs` main, listen, shutdown, clear_sockets; the unit in `nix/module.nix`) | directory entries, `listeners` | ensure_dir, bind (clear, bind, chmod, listen), clear (lstat, unlink), ExecStopPost | `KeySockets` |
| acquisition (`main.rs` acquire; `askpw.rs`, `luks.rs`, `cache.rs`) | passphrase cache, kernel keyring, attempt, candidates | cache walk, prompt, test | `Acquire` |
| repair (`main.rs` maybe_reenroll, verify; `preflight.rs`, `drift.rs`, `consent.rs`, `enroll.rs`) | LUKS2 tokens, PCRs, plan, decisions | preflight, decide, consent, enroll, verify | `Repair` |
| plain phase and lifetime (`main.rs` serve_passphrase, reply, catch_sigterm; the Wants= drop-in) | all of the above, what was sent | accept, reply, exit, kill, start | `PlainPhase` |
| child processes (`child.rs`) | pipes, pidfd, deadline | run, collect, drain | `Collector`; one step elsewhere |
| TPM commands (`tpm2.rs`; `drift.rs`, `preflight.rs` log_state) | descriptor, trial session, outstanding PCRs | lockout, policy digest, PCR read | `TpmChannel`; the digest in `Repair` |
| peer name and check (`bindname.rs`, `peer.rs`) | none, but several looks at /proc | parse, check | `Handshake`; the kind of a connection in `AcceptLoop` |
| token reader (`token.rs`) | descriptor | read | its result, in `Repair` |
| config, secrets, memfds, device, notify, log | none of the protocol's | | not modelled |

How they interact. systemd starts the daemon before the unlocks of its volumes
(Type=notify). It binds one socket per volume, announces readiness and serves.
Each systemd-cryptsetup connects to its volume's socket in its token phases,
where it is sent nothing, and in its plain phase, where the handling calls
acquire, then maybe_reenroll, then reply. Everything slow runs in a child with a
deadline. Two memories span the handlings of one daemon, the passphrase cache
and the consent decisions; two outlive it, the LUKS2 headers and the kernel
keyring. SIGTERM sets a flag which is looked at before every slow step. After the
main process, however it ended, systemd runs `clear-sockets`.

What is hard: the daemon is serial, so what is hard is not threads but the
order of its steps against signals, kills, its clients, PCR extensions and file
system changes, and the memories that are carried from one volume, boot state
and daemon to the next. PROJECT.json lists each hazard at its line.

What makes each component correct:

- acquisition: only a passphrase that opens the volume is ever sent; nobody is
  asked for what is cached; the human has a turn; it ends.
- repair: no enrollment without consent that covers it, none against a refusal;
  a header never loses its last token, nor one that was not found stale; what is
  reported as verified is so; a stop is honoured promptly.
- key sockets: ready means reachable, nothing dead is left behind unreported,
  key files are never touched.
- accept loop: nobody is cut off by a daemon that thinks it is done, bounded
  overtaking, everybody hears something, the daemon leaves.
- child processes: success is all of the output and a reaped child, a refusal for
  too much output is justified, nothing waits for ever but what the kernel keeps.
- TPM commands: a response is taken for its own command's only, a digest is of
  one moment, sessions are released, partial reads end and are paired rightly.
- peer: who is served is this volume's systemd-cryptsetup, in its plain phase.

## The modules

`Acquire`, `Repair` and `PlainPhase` are one state machine in three files, each
extending the one before it. `pc` is the daemon's position; labels that end in
"-ing" are points where a child runs. One action is the code between two such
points: a child's result and what the code does with it up to the next child or
check of the stop flag. Every failure of a child is a disjunct of that action.

- `Acquire`: `TakeCandidate`, `NextPrompt`, `GiveUp`, `Ask`, `Test` are the two
  candidate loops of acquire. A passphrase is an abstract value; `Opens` says
  which open which volume. `attempt` is 0 in the cache walk. `Offers` has the
  three sources of a candidate in the order in which systemd-ask-password looks
  at them: the unit's credential, which every attempt names, the keyring, on the
  first attempt, and a human. What the credential holds is what it held when the
  unit was started, and it is not put in the keyring.
- `Repair`: `BeginRepair`, `Preflight`, `Decide`, `Consent`, `Commit` follow
  maybe_reenroll; `AddSlot`, `WipeSlots`, `EnrollFails` are systemd-cryptenroll
  as enroll::run's comments describe it, with the header between its two writes
  visible. If `FlagsHonoured` is FALSE it may seal to any registers, want a PIN,
  fill several slots and leave any of the old tokens (`Unrequested`, `Leavings`),
  which is what verify is there to notice; it never wipes what it has just added
  (`main.rs:757`).
  `ReadBack` and `Unseal` are verify. A policy digest is the function
  from selected PCRs to their values, so two are equal when the digests are; a
  TPM answering with an empty digest is `Blank`.
- `PlainPhase`: `Accept`, `Reply`, and the environment: `Terminate`, `Kill`,
  `Start`, `Exit`, `Extend`, `KeyringExpires`.
- `KeySockets`: one action per system call; `step` says which is next, `unit`
  which of the loops of listen, shutdown and clear_sockets is running it.
- `AcceptLoop`: `Top`, `Poll`, `AcceptConn`, `AcceptFails`, `Handled`, `Check`
  are serve's loop; `ClientStep` is a systemd-cryptsetup instance and `Stranger`
  any other peer.
- `TpmChannel`: the commands of one handling on one descriptor. `Write`,
  `GivesUp`, `WriteFails`, `BadResponse` are transact; `LockoutRead` to `Flushed`
  are what its callers do with a good response; `PcrsRead` is a round of
  read_pcrs with `Acceptable` and `Paired` for absorb and parse_pcr_read.
  `Execute` and `Discard` are the device: it refuses a command while one is open.
- `Collector`: one action per system call of run, collect and drain against a
  child that writes, closes, forks, sleeps, exits or is killed. `Fds` and `Place`
  are the positional walk over what poll writes back.
- `Handshake`: handle up to the serving: `Dispatch` is the parsed name and its
  phase, `Cred` to `Alive` the looks of peer::check, between which the peer may
  exit, be reaped and have its pid given to another. systemd places a process
  below its slice (`Placed`); only one with every privilege can be in a cgroup of a
  unit's name elsewhere in the tree (`Made`), which in_unit does not tell apart
  and which `peer.rs:25` grants. `Parse`, `UnitEscape` are
  the functions themselves, over texts in which a word never taken apart is one
  character.
- `KeyAgent`: the abstract specification of the plain phase: a header is handed
  over in one step with the consent and the state that make it replaceable, gains
  tokens, may then lose any but these, and is vouched for only with a single new
  one that fits; a client gets what opens its
  volume or nothing; a daemon takes what it was told with it.
- `PlainRefinement`: `PlainPhase` with the mapping under which it implements
  `KeyAgent` (`IsKeyAgent`).
- `MCPlainPhase`, `MCKeySockets`, `MCAcceptLoop`, `MCTpmChannel`, `MCCollector`,
  `MCHandshake` hold the instances.
- `PlainPhase_proofs` proves the types of `PlainPhase`, what each kind of step
  leaves alone, what becomes of passphrases and that a handling advances;
  `Repair_proofs` extends it with consent and headers, and `KeyAgent_proofs` that
  one with the refinement. `KeySockets_proofs`, `AcceptLoop_proofs`,
  `TpmChannel_proofs`, `Collector_proofs` and `Handshake_proofs` belong to their
  modules.

The modules meet in what they assume of each other. `AcceptLoop` takes a handling
as one step that ends, which `PlainPhase` shows; `PlainPhase` takes a child as
one step with an outcome, which `Collector` shows, and the policy digest as the
PCRs of one moment, which `TpmChannel` shows; `AcceptLoop` takes a connection to
be the volume's plain-phase client or not, which `Handshake` shows.

History variables (`dropped`, `typed`, `late`, `answer`, `answers`, `report`, `passed`,
`quiet`, `wrote`, `seen`, `before`, `rounds`, `known`, `warned`, `failed`) record
what happened for the properties and are read by no guard.

Operators whose comment starts with "Mutant:" are variants of the definition
after them that a plausible bug would produce. They are used by no action; each
property fails on one of them.

## The runs

| run | question | bounds |
|---|---|---|
| plain_passphrases | RepliesOpen, NoNeedlessPrompt, HumanGetsATurn, HandlingEnds | 2 volumes, 3 passphrases (both, one, none), any keyring, no credential or one volume's, 3 tries, 2 candidates a prompt, 3 connections |
| plain_consent | EnrollmentConsented, RefusalStands, StopIsPrompt, IsKeyAgent | 2 stale volumes in one state, 1 PCR extended once, 3 connections, 2 daemons, empty digests |
| plain_headers | VerifiedIsSound, BindingsSurvive, IsKeyAgent | 1 volume with any of 7 headers, a selection of 2 registers, each extended once, 3 token slots, 2 connections, 2 daemons, flags possibly ignored |
| sockets_faults | ReadyMeansReachable, NoneLeftBehind, KeyFilesKept, DeadSocketsGo | 2 volumes, any call failing, 2 starts |
| accept_fair | NobodyCutOff, BoundedOvertaking, StopTakesOneAtMost, DaemonLeaves | 2 volumes, 2 strangers, backlog 2, idle limit of 2 ticks |
| tpm_channel | AnswersItsCommand, DigestIsOfOneMoment, SessionsReleased, RoundsBounded, ReadingIsSound, DeviceIsClosed | 3 registers, 2 of them selected, each extended once, one opening of the device |
| collector | OutputComplete, OverflowIsReal, ReadsReturn, ReapedOnce, ChildFinishes, DeadlineHolds | both streams piped, caps of 3 and 1, pipes of 3, reads of 2, 4 writes a stream, 1 signal |
| handshake | ServedIsThePeer, ServedIsPlain, OwnPeerIsServed | 3 volumes, one called what another escapes to, 17 bind names, the pid used twice |
| plain_sealed, sockets_dropped, sockets_renamed, collector_wedged | a sentence of the repository's comments each, which TLC refutes | small |

Why the bounds are enough. The daemon handles one connection at a time, so what
matters of other volumes is what an earlier handling left in the cache, the
decisions and the keyring: two volumes and three connections reach every
combination of an entry for this volume, for the other, and for none. A boot
state either is the one on record or is not, so one extension suffices. Two
daemons show what dies with the first. Two token slots beside the old one let an
interrupted run be followed by another. Two selected registers give a partial
answer and its rest, and a third register one that was not asked for; what is
given up on a descriptor is met by the next command or the flush of the same
handling, so one opening suffices. A stream that can write one unit more than
its cap and more than a read takes reaches every case of drain, and a stream
that outgrows its pipe makes the child wait. One reuse of a pid is a process in
place of the peer; more of them look the same to the check.

plain_headers has one volume, since a handling touches no other header
(`PlainPhase_proofs`) and plain_consent has two; its three slots leave room for
the old token, a new one and one that nobody asked for.

Fairness. `FairSpec` of `PlainPhase` is weak fairness of the daemon's own steps:
each is plain code or a child with a deadline (askpw 120 s, luks 60 s, enroll
120 s, unseal 60 s, token 30 s), killed when it passes. Nothing is assumed of
prompts, users, signals or restarts. `KeySockets` assumes that a started process
makes its next system call and that serve returns, which `AcceptLoop` shows
(`DaemonLeaves`). `AcceptLoop` assumes that its loop runs, that time passes and
that a handling ends, which `PlainPhase` shows (`HandlingEnds`), and nothing of
its clients. `TpmChannel` assumes only that the daemon goes on, since transact
waits for a response for 30 seconds at most; nothing of the TPM. The device is
opened blocking (`tpm2.rs:109`), so what a write takes is not covered by these 30
seconds and rests on the kernel driver's own command timeout. `Collector` assumes that the
daemon goes on, that a killed child dies unless it sleeps in the kernel, and, in
`FairSpec`, that no such sleep is for ever; `KernelSpec` leaves the last one out,
and collector_wedged shows what then becomes of the deadline. So `HandlingEnds`
and what follows from it hold as far as a killed child can be reaped.
That a client is not left waiting for ever is no property of its own: a daemon
that leaves closes every connection, so it follows from `DaemonLeaves`; what a
client can count on while the daemon stays is `BoundedOvertaking`.

Deadlock is not checked: every daemon stops in the end and the bounds end
the behaviours.

## What the refuted sentences say

- plain_sealed: what is sealed is what systemd-cryptenroll finds in the PCRs,
  not what was measured before the consent prompt; verification compares with
  the PCRs of the present and does not notice either.
- sockets_dropped: a failure after bind(2) leaves a dead socket for a volume
  that is said to fall back to stock behaviour.
- sockets_renamed: the type check and the unlink are two system calls.
- collector_wedged: run waits without a limit for a child it has killed, so a
  cryptsetup in an uninterruptible sleep holds up the other volumes although the
  deadline has passed.

Two further sentences are not kept, and the properties beside them say how far
they are.

- `askpw.rs:43`: "A retry must *not* accept cached passphrases: the cached one is
  what we just rejected, and asking for it again would spin the retry loop without
  the user ever being given a chance to type." A retry leaves out --accept-cached
  (`askpw.rs:72`) but not --credential= (`askpw.rs:64`). In a unit that is given a
  cryptsetup.passphrase credential which does not open the volume every prompt is
  answered by it, and the volume is handed back with nobody having been asked. The
  unit of `nix/module.nix` has none. `HumanGetsATurn` is about units like it: drop
  its first conjunct and plain_passphrases fails, at root with home's credential.
- `main.rs:769`: "The old slot is gone by now", and `main.rs:794`: "checking the
  result means a systemd that stops honouring them is noticed". An enrollment that
  succeeds without wiping passes verify, since find_new_token looks past the old
  token (`enroll.rs:132`, and its test at `enroll.rs:196`). "Verified" is true of
  the new one; `VerifiedIsSound` allows the old one beside it, and plain_headers
  fails without that. A later preflight sees two and leaves the header alone.

Two more differ from the code in wording that needs no run to see. A
plain yes is not carried to the next volume, so volumes sharing a state are asked
about one by one unless the answer is "always" (`main.rs:738` against
`main.rs:706` and `consent.rs:26`). Only a connection handled as a plain-phase one
puts the idle exit off, while `main.rs:22` and its log line speak of any
connection.

## Proofs

TLAPS proves every invariant and every action property that a passing run
checks, and the refinement; `KeyFilesKept` where nobody renames a key file onto a
path in use, all others without condition. All are theorems of `Spec`, so without
fairness, for every value of the constants that satisfies the module's ASSUME.
These say no more than that the constants have their types, that sets of volumes
and registers are finite where they are counted, that there is at least one try,
that a read, a pipe and the processes with the peer's pid are at least one, that
no selection of PCRs is empty (config validation), that a credential is a set of
passphrases, that the name of a volume is
neither empty nor has a slash in it (`config.rs:114`) and that `None` and
`Unmeasured` are no name and no value. Of the initial headers they say that no
two tokens of one share a slot, of bind names that they are sequences of texts.

| theorem | proves | by the invariant |
|---|---|---|
| TypeCorrect | TypeOK | itself |
| OnlyValidatedSent | RepliesOpen | ValidatedInv |
| NeverAskedForCached | NoNeedlessPrompt | CacheWalkInv |
| HumanAlwaysAsked | HumanGetsATurn | TypedInv |
| NoEnrollmentUnasked, NoMeansNo | EnrollmentConsented, RefusalStands | ConsentInv |
| StopHonoured | StopIsPrompt | BudgetInv |
| VerifiedMeansSound, BindingsKept | VerifiedIsSound, BindingsSurvive | HeaderInv |
| PlainPhaseIsKeyAgent | IsKeyAgent | StateInv, ConsentInv, HeaderInv, ValidatedInv |
| SocketsTypeCorrect, ReadyIsReachable | TypeOK, ReadyMeansReachable | itself; ListenersInv |
| NoneIsLeftBehind | NoneLeftBehind | ClearedInv |
| KeyFilesAreKept | KeyFilesKept | UnlinkInv |
| LoopTypeCorrect, StopTakesOne | TypeOK, StopTakesOneAtMost | ReadyInv; StopInv |
| NobodyIsCutOff | NobodyCutOff | ClientsInv |
| OvertakingIsBounded | BoundedOvertaking | TurnsInv |
| ChannelTypeCorrect, ResponsesMatch | TypeOK, AnswersItsCommand | itself; ChannelInv |
| SessionsAreReleased | SessionsReleased | SessionInv |
| DigestsAreOfOneMoment | DigestIsOfOneMoment | DigestInv |
| RoundsAreBounded | RoundsBounded | RoundsInv |
| ReadingsAreSound | ReadingIsSound | ReadingInv |
| CollectorTypeCorrect | TypeOK | CollectorTypeInv |
| ReadsReturnAtOnce | ReadsReturn | PollInv |
| ChildIsReaped | ReapedOnce | LifeInv |
| SuccessIsComplete, OverflowIsNeverFalse | OutputComplete, OverflowIsReal | PipesInv, LifeInv |
| HandshakeTypeCorrect | TypeOK | itself |
| PeerIsItself, OwnPeerPasses | ServedIsThePeer, OwnPeerIsServed | PassedInv, UnitEscapeInjective |
| OnlyPlainIsServed | ServedIsPlain | PassedInv, PlainNames |
| UnitEscapeInjective, PlainNames | the functions of `Handshake`, for texts of any length | |
| DroppedFallBack | DroppedVolumesFallBack, if no lstat, unlink, chmod or listen fails | DroppedInv |
| HandlingsAdvance, UnitsAdvance, OpeningsAdvance, DeadlineEndsTheLoop | the descent behind HandlingEnds, DeadSocketsGo, DeviceIsClosed, DeadlineHolds | |
| RoundsAdvance, StaysRunOut | the descents behind DaemonLeaves | ClientsInv |
| WaitersAreInLine, LinesAdvance | what a client can count on: a place in line, and a turn | InLineInv, ClientsInv |
| AgentsKeepATokenEach | KeyAgent alone never takes a last token away | AgentInv |

All but the last rows and the refinement have one shape: the invariant holds in Init, [Next]_vars preserves
it under TypeOK, it implies the property. None of the properties is inductive:

- TypeOK says besides types that a volume is at hand in every handling and a
  passphrase from the test onwards; without that, `Reply` could send anything.
- ValidatedInv: past the candidate loops the candidate opens the volume. Only
  `Test` goes there, so the steps of maybe_reenroll must not touch `candidate`
  (`RepairFrame`).
- CacheWalkInv: while the cache is walked, what it holds for the volume is still
  untried or under test; afterwards it holds nothing for it, and stays so, since
  only a passphrase that passes its test is remembered.
- TypedInv: in a unit without a credential all prompts but the first were answered
  by typing, because --accept-cached is passed at the first one only.
- ConsentInv: the two sets of `Decisions` agree with what was said, and the
  reason for which `Decide` let a handling past still holds at the enrollment.
- BudgetInv: how many children a stop can still cost at each point; 0 where the
  flag has just been looked at, more along the path to the final unseal.
- HeaderInv: from the preflight on the header holds the planned token alone. Once
  something is added every token is that one or in a fresh slot, and afterwards
  some fresh one is left (`Kept`); when the unsealing begins one of them is wanted
  and the only one but for the planned slot. The preflight's insistence on exactly
  one token is what makes it hold: another old token beside the planned one would
  be wiped with it although nobody has looked at it.
- StateInv: the PCRs, and so every digest of them that is planned with or sealed
  to, are of a boot state of `KeyAgent`.
- ListenersInv: whatever the loop over the volumes has passed it has kept, with its
  socket in place, or reported. ClearedInv: of what ExecStopPost= has come past, a socket is
  left only where it was reported. UnlinkInv: what lstat saw is still there,
  which is what a rename takes away.
- ClientsInv: a client in a phase is in one place, its volume's backlog, once, or
  the connection at hand; one whose volume is served is past all of its phases.
- TurnsInv: who may still overtake a volume is in what is left of this round, or
  of this one and the next.
- ChannelInv: the device holds a command or a response and, once the daemon has
  written, only that command or its response. It is inductive because a write
  is refused while anything older is in the device.
- SessionInv, DigestInv: the session in hand is the one started last, and from
  PolicyPCR on it has a digest of a state seen since the digest was asked for.
- RoundsInv, ReadingInv: each answered round leaves fewer registers outstanding,
  and what has been read is one true value for each of the others. The second
  rests on `Place` being a bijection from a set of registers to its positions.
- PollInv: while the results of a poll are walked over, there is one for each
  descriptor that would be pushed now, and what was readable still is. That the
  walk takes each from its own place is `PlaceOfPushed`: what was pushed is in
  `Fds` once.
- LifeInv: the child is there from its start to the wait, and an exit is only
  seen of one that has exited. PipesInv: what has been written has been read or
  is in the pipe, and a pipe collect has let go of is at its end.
- PassedInv: each step of the check that was passed has left a fact about the
  peer, the steps that read by pid only if nobody else has had the pid since;
  `Alive`, the last of them, turns that into one about the peer for good: that it is in the unit, or in a
  cgroup of that name which it could make.
- DroppedInv: what the loop over the volumes has passed and not kept is no
  socket. Each of the four calls in the condition of DroppedFallBack breaks it,
  so sockets_dropped and the theorem together draw the line.

That no two volumes share a unit (UnitEscapeInjective) is where ServedIsThePeer
would be wrong unnoticed, and is proved for names of any length, although it is
an induction. The library's induction theorems cannot be instantiated, but its
WFMin says that every set of numbers has a least element, and that gives induction on a
set (`InductionOnSet`). With it the recursive function in FlattenSeq is shown to
exist and to yield its arguments one after the other (`FlattenSeqSplits`), and
two such sequences of code words, none a proper beginning of another, are aligned
from the front (`PrefixFreeWords`). PlainNames needs less: of the components
after the third, all that matters is that slashes come back between them.

What a liveness property needs beside fairness is an order that cannot descend
for ever. For four of the liveness properties it is a theorem that each step of
the daemon descends and that nobody else's step climbs. In a handling it is prompts left, then
whether one is up, then candidates left, then the position; of a started unit the
station, then volumes to come to, then the call; with the device open whose
digest it is, then the command, then registers outstanding; of a run past its
deadline the position and the pipes of the last round. Fairness and the guards
(that a daemon that is busy has a next step) remain for TLC.

The accept loop has no single such order, since it runs for as long as it is
needed. A round comes to its end (RoundsAdvance: listeners left, then the rest of
the turn), so the loop gets back to where it looks at the clock and at a stop.
There StaysRunOut takes over: the clock of last_contact starts again only when a
volume is served for the first time, which no volume is twice (ClientsInv: who
has been served never connects for its plain phase again), and otherwise it only
runs on. For the clients, WaitersAreInLine says that who waits is in line or
being handled, and LinesAdvance that a place in line is lost to nothing but the
listener's own turn, and that its listener is in every new round. What can go
wrong with a turn is accept(2) alone; a listener whose every accept fails keeps
its clients waiting until the daemon leaves, which StaysRunOut is about.

The refinement proof maps each action to one of `KeyAgent` or to a stutter:
`Decide` and `Consent` to `Agree` or `Refuse`, `AddSlot` to `Add`, `WipeSlots` to
`Retire`, a verified `ReadBack` or `Unseal` to `Vouch`, what fails to `Abandon`,
`Reply` and declines to `Return`, the end of the daemon to `Forget`. The job of
the mapping begins with the consent, while the code has looked at the header long
before it; that nothing has changed since is HeaderInv, and that the consent
covers this state is ConsentInv.

Each invariant and each descent was also run through TLC on the runs' instances
before it was proved. Model-checked only: the liveness properties (`HandlingEnds`,
`DeadSocketsGo`, `DaemonLeaves`, `DeviceIsClosed`,
`ChildFinishes`, `DeadlineHolds`), since liveness under fairness and ENABLED are
out of the prover's reach.

## Plan

1. Done: the modules, runs and theorems above.
2. Next modules: a composition of `AcceptLoop` and `KeySockets` with the clients'
   three outcomes (no socket: stock behaviour; refused or reset: fatal;
   answered); the fields of a token as operators against a reference definition.
3. Theorems to add: that a unit's name is one path component, for any name of a
   volume; the invariants of the composition.

## Not modelled, and why

Configuration parsing and the JSON and hex parsing of tokens are sequential
functions of bytes; their outcomes are choices or values of constants, and so is
the layout of TPM commands and responses. Wiping of secrets, memfds, mlock and
the NixOS options are below or beside the level of the models.
systemd-cryptsetup, systemd-cryptenroll, systemd-ask-password and the kernel are
external: they are modelled as the code uses and describes them.

------------------------------- MODULE Collector -------------------------------
(***************************************************************************)
(* child::run, collect and drain: one child process, the pipes the daemon   *)
(* reads of it, and the deadline, one system call of the daemon at a time.  *)
(* Output is counted in units; a pipe keeps them in order.                  *)
(*                                                                          *)
(* The child is external: it writes to the pipes and waits where one is     *)
(* full, may leave a grandchild behind that holds them open, may be stuck   *)
(* in an uninterruptible sleep, and exits when it likes or when it has been *)
(* killed and is not stuck.                                                 *)
(***************************************************************************)
EXTENDS Naturals, Sequences

CONSTANTS
    Piped,          \* which of "stdout" and "stderr" the caller piped
    Cap,            \* stdout_cap and STDERR_CAP
    Chunk,          \* what one read takes at most
    PipeSize,       \* what a pipe holds
    MaxWrites,      \* bound: units in a stream when no more write(2) begins
    MaxSignals      \* bound: signals that interrupt the daemon

ASSUME CollectorAssumption ==
    /\ Piped \subseteq {"stdout", "stderr"}
    /\ Cap \in [Piped -> Nat]
    /\ Chunk \in Nat \ {0} /\ PipeSize \in Nat \ {0}
    /\ MaxWrites \in Nat /\ MaxSignals \in Nat

VARIABLES
    pc,         \* the system call the daemon is at
    open,       \* stdout_pipe and stderr_pipe that are still Some
    exited,     \* the pidfd has been seen readable
    revents,    \* what poll has written back, in the order of fds
    drains,     \* pipes found ready and not drained yet
    got,        \* lengths of stdout and stderr
    result,     \* what collect has returned
    late,       \* the deadline has passed
    signals,
    child,      \* the child process
    killed,     \* a SIGKILL is pending for it
    stuck,      \* it is in an uninterruptible sleep
    wants,      \* the stream it is in write(2) for
    pipe,       \* what is in each pipe
    writers,    \* who holds each pipe's write end
    wrote       \* history: what has been written to each

daemonVars == <<pc, open, exited, revents, drains, got, result>>
childVars == <<child, killed, stuck, wants, pipe, writers, wrote>>
vars == <<daemonVars, late, signals, childVars>>

Nowhere == "nowhere"

Init ==
    /\ pc = "spawn" /\ open = {} /\ exited = FALSE /\ revents = <<>> /\ drains = {}
    /\ got = [s \in Piped |-> 0] /\ result = "none"
    /\ late = FALSE /\ signals = 0
    /\ child = "none" /\ killed = FALSE /\ stuck = FALSE /\ wants = Nowhere
    /\ pipe = [s \in Piped |-> 0] /\ writers = [s \in Piped |-> {}]
    /\ wrote = [s \in Piped |-> 0]

-----------------------------------------------------------------------------
Spawn ==
    /\ pc = "spawn"
    /\ \/ /\ pc' = "pidfd" /\ child' = "running" /\ open' = Piped
          /\ writers' = [s \in Piped |-> {"child"}]
          /\ UNCHANGED result
       \/ /\ pc' = "returned" /\ result' = "error"
          /\ UNCHANGED <<child, open, writers>>
    /\ UNCHANGED <<exited, revents, drains, got, late, signals, killed, stuck, wants,
                   pipe, wrote>>

\* collect returns what run does not take for success: kill, then wait.  The
\* ends of the pipes it has taken go with it.
Abandon(why) == pc' = "kill" /\ result' = why /\ open' = {}

OpenPidfd ==
    /\ pc = "pidfd"
    /\ \/ pc' = "loop" /\ UNCHANGED result
       \/ pc' = "kill" /\ result' = "error"
    /\ UNCHANGED <<open, exited, revents, drains, got, late, signals, childVars>>

\* Mutant: what the child has left in its pipes when it exits is not read.
DoneAtExit == exited

\* Mutant: the ends of the pipes are taken for the child's.
DoneAtEnd == open = {}

\* The condition of collect's loop.
Done == exited /\ open = {}

\* The loop's condition and the deadline, before poll.
Loop ==
    /\ pc = "loop"
    /\ \/ /\ Done
          /\ pc' = "wait" /\ result' = "ok" /\ open' = {}
       \/ /\ ~Done /\ late
          /\ Abandon("timeout")
       \/ /\ ~Done /\ ~late
          /\ pc' = "poll" /\ UNCHANGED <<result, open>>
    /\ UNCHANGED <<exited, revents, drains, got, late, signals, childVars>>

\* Mutant: the pipes are drained after the exit, not while the child runs.
PushedAfterExit(x) == IF exited THEN x \in open ELSE x = "pidfd"

Pushed(x) == IF x = "pidfd" THEN ~exited ELSE x \in open

Entry(x) == IF Pushed(x) THEN <<x>> ELSE <<>>

\* The pidfd and the pipes that are worth polling, pushed one after the other.
Fds == Entry("pidfd") \o Entry("stdout") \o Entry("stderr")

\* What poll finds: the child has exited, there is something to read, or nobody
\* is left to write.
Readable(x) ==
    IF x = "pidfd" THEN child = "zombie" ELSE pipe[x] > 0 \/ writers[x] = {}

Poll ==
    /\ pc = "poll"
    /\ late \/ \E i \in DOMAIN Fds : Readable(Fds[i])
    /\ revents' = [i \in DOMAIN Fds |-> Readable(Fds[i])]
    /\ pc' = "walk"
    /\ UNCHANGED <<open, exited, drains, got, result, late, signals, childVars>>

PollFails ==
    /\ pc = "poll"
    /\ Abandon("error")
    /\ UNCHANGED <<exited, revents, drains, got, late, signals, childVars>>

\* EINTR: back to the condition.
Interrupted ==
    /\ pc = "poll" /\ signals < MaxSignals
    /\ signals' = signals + 1
    /\ pc' = "loop"
    /\ UNCHANGED <<open, exited, revents, drains, got, result, late, childVars>>

\* Mutant: an entry is taken from revents whether or not the descriptor was pushed.
PlaceAnyway(x) == IF x = "pidfd" THEN 1 ELSE IF x = "stdout" THEN 2 ELSE 3

\* Where x is in fds: one place is taken for each descriptor that was pushed.
Place(x) == CHOOSE i \in DOMAIN Fds : Fds[i] = x

Ready(x) == Pushed(x) /\ Place(x) \in DOMAIN revents /\ revents[Place(x)]

\* The walk over revents, before any of them is acted upon.
Walk ==
    /\ pc = "walk"
    /\ exited' = (exited \/ Ready("pidfd"))
    /\ drains' = {s \in Piped : Ready(s)}
    /\ pc' = "drain" /\ revents' = <<>>
    /\ UNCHANGED <<open, got, result, late, signals, childVars>>

\* Mutant: a full buffer is taken for too much output.
TooMuchWhenFull(s) == got[s] = Cap[s]

\* The one-byte probe behind a full buffer has found something.
TooMuch(s) == got[s] = Cap[s] /\ pipe[s] > 0

Smallest(S) == CHOOSE n \in S : \A m \in S : n <= m

\* Mutant: a read takes a chunk, whatever room is left.
TakesAChunk(s) == Smallest({Chunk, pipe[s]})

\* What a read takes: a chunk, what is left of the capacity, or what there is.
Takes(s) == Smallest({Chunk, Cap[s] - got[s], pipe[s]})

\* drain: one read, which waits while there is nothing and somebody may write.
Drain(s) ==
    /\ pc = "drain" /\ s \in drains
    /\ s = "stderr" => "stdout" \notin drains
    /\ pipe[s] > 0 \/ writers[s] = {}
    /\ IF TooMuch(s)
       THEN /\ Abandon("overflow") /\ drains' = {}
            /\ UNCHANGED <<got, pipe>>
       ELSE /\ got' = [got EXCEPT ![s] = @ + Takes(s)]
            /\ pipe' = [pipe EXCEPT ![s] = @ - Takes(s)]
            /\ open' = IF pipe[s] = 0 THEN open \ {s} ELSE open
            /\ drains' = drains \ {s}
            /\ UNCHANGED <<pc, result>>
    /\ UNCHANGED <<exited, revents, late, signals, child, killed, stuck, wants, writers,
                   wrote>>

\* read fails, which is an error, or is interrupted, which is nothing.
DrainFails(s) ==
    /\ pc = "drain" /\ s \in drains
    /\ s = "stderr" => "stdout" \notin drains
    /\ \/ Abandon("error") /\ drains' = {} /\ UNCHANGED signals
       \/ /\ signals < MaxSignals /\ signals' = signals + 1
          /\ drains' = drains \ {s}
          /\ UNCHANGED <<pc, result, open>>
    /\ UNCHANGED <<exited, revents, got, late, childVars>>

Drained ==
    /\ pc = "drain" /\ drains = {}
    /\ pc' = "loop"
    /\ UNCHANGED <<open, exited, revents, drains, got, result, late, signals, childVars>>

\* Mutant: run leaves without a wait.
NoWait ==
    /\ pc = "kill"
    /\ pc' = "returned" /\ open' = {}
    /\ killed' = (child = "running")
    /\ UNCHANGED <<exited, revents, drains, got, result, late, signals, child,
                   stuck, wants, pipe, writers, wrote>>

\* A zombie does not mind.
KillChild ==
    /\ pc = "kill"
    /\ pc' = "wait"
    /\ killed' = (child = "running")
    /\ UNCHANGED <<open, exited, revents, drains, got, result, late, signals, child,
                   stuck, wants, pipe, writers, wrote>>

\* child.wait(), behind success and failure.
Wait ==
    /\ pc = "wait" /\ child = "zombie"
    /\ child' = "reaped" /\ pc' = "returned" /\ open' = {}
    /\ UNCHANGED <<exited, revents, drains, got, result, late, signals, killed,
                   stuck, wants, pipe, writers, wrote>>

-----------------------------------------------------------------------------
\* Time passes.
Deadline ==
    /\ pc \notin {"spawn", "returned"} /\ ~late
    /\ late' = TRUE
    /\ UNCHANGED <<daemonVars, signals, childVars>>

Alive == child = "running" /\ ~stuck /\ ~killed

\* The child calls write(2) on a stream, until it has no more to say.
Begin(s) ==
    /\ Alive /\ wants = Nowhere
    /\ "child" \in writers[s] /\ wrote[s] < MaxWrites
    /\ wants' = s
    /\ UNCHANGED <<daemonVars, late, signals, child, killed, stuck, pipe, writers, wrote>>

\* A unit goes into a pipe when there is room.
Put(s) ==
    /\ s \in open /\ pipe[s] < PipeSize
    /\ pipe' = [pipe EXCEPT ![s] = @ + 1]
    /\ wrote' = [wrote EXCEPT ![s] = @ + 1]
    /\ UNCHANGED <<daemonVars, late, signals, child, killed, stuck, writers>>

Write == Alive /\ wants # Nowhere /\ Put(wants) /\ wants' = Nowhere

\* It closes a stream, or a process it has started gets it too.
CloseOrShare(s) ==
    /\ Alive /\ "child" \in writers[s] /\ wants # s
    /\ \E w \in {writers[s] \ {"child"}, writers[s] \cup {"grandchild"}} :
          writers' = [writers EXCEPT ![s] = w]
    /\ UNCHANGED <<daemonVars, late, signals, child, killed, stuck, wants, pipe, wrote>>

\* Its exit, of its own accord or killed, closes what it holds.
Gone ==
    /\ child' = "zombie" /\ wants' = Nowhere
    /\ writers' = [s \in Piped |-> writers[s] \ {"child"}]
    /\ UNCHANGED <<daemonVars, late, signals, killed, stuck, pipe, wrote>>

\* It exits between two writes, or of SIGPIPE when the daemon has gone away.
Exit == Alive /\ (wants = Nowhere \/ wants \notin open) /\ Gone

Dies == child = "running" /\ killed /\ ~stuck /\ Gone

\* It sleeps on its device.
Sleep ==
    /\ Alive /\ wants = Nowhere
    /\ stuck' = TRUE
    /\ UNCHANGED <<daemonVars, late, signals, child, killed, wants, pipe, writers, wrote>>

Wake ==
    /\ stuck
    /\ stuck' = FALSE
    /\ UNCHANGED <<daemonVars, late, signals, child, killed, wants, pipe, writers, wrote>>

GrandchildWrites(s) ==
    /\ "grandchild" \in writers[s] /\ wrote[s] < MaxWrites
    /\ Put(s) /\ UNCHANGED wants

GrandchildExits ==
    /\ \E s \in Piped : "grandchild" \in writers[s]
    /\ writers' = [s \in Piped |-> writers[s] \ {"grandchild"}]
    /\ UNCHANGED <<daemonVars, late, signals, child, killed, stuck, wants, pipe, wrote>>

Daemon ==
    \/ Spawn \/ OpenPidfd \/ Loop \/ Poll \/ Walk
    \/ \E s \in Piped : Drain(s)
    \/ Drained \/ KillChild \/ Wait

\* What ends a system call otherwise: nothing the daemon may count upon.
Fault ==
    \/ Interrupted \/ PollFails
    \/ \E s \in Piped : DrainFails(s)

\* What a child does that goes on.
Goes ==
    \/ \E s \in Piped : Begin(s)
    \/ Write \/ Exit

Next ==
    \/ Daemon \/ Fault \/ Deadline
    \/ Goes \/ Dies \/ Sleep \/ Wake \/ GrandchildExits
    \/ \E s \in Piped : CloseOrShare(s) \/ GrandchildWrites(s)

Spec == Init /\ [][Next]_vars

\* The daemon runs, and the kernel carries out a SIGKILL as soon as it can.
KernelSpec == Spec /\ WF_vars(Daemon) /\ WF_vars(Dies)

\* And no sleep on a device lasts for ever.
FairSpec == KernelSpec /\ WF_vars(Wake)

-----------------------------------------------------------------------------
TypeOK ==
    /\ pc \in {"spawn", "pidfd", "loop", "poll", "walk", "drain", "kill", "wait", "returned"}
    /\ open \subseteq Piped /\ drains \subseteq open
    /\ exited \in BOOLEAN /\ revents \in Seq(BOOLEAN)
    /\ got \in [Piped -> Nat] /\ \A s \in Piped : got[s] <= Cap[s]
    /\ result \in {"none", "ok", "timeout", "overflow", "error"}
    /\ late \in BOOLEAN /\ signals \in Nat
    /\ child \in {"none", "running", "zombie", "reaped"}
    /\ killed \in BOOLEAN /\ stuck \in BOOLEAN
    /\ wants \in Piped \cup {Nowhere}
    /\ pipe \in [Piped -> 0..PipeSize] /\ wrote \in [Piped -> Nat]
    /\ writers \in [Piped -> SUBSET {"child", "grandchild"}]

\* Success is all of the output of all who could write it, and the child's end.
OutputComplete ==
    result = "ok" =>
        /\ \A s \in Piped : got[s] = wrote[s] /\ writers[s] = {}
        /\ child \in {"zombie", "reaped"}

\* A child that writes just what there is room for is not refused.
OverflowIsReal ==
    result = "overflow" => \E s \in Piped : wrote[s] > Cap[s]

\* drain reads only where there is something to read, so that no read outlasts
\* the deadline.
ReadsReturn ==
    \A s \in drains : pipe[s] > 0 \/ writers[s] = {}

\* Whichever way run returns it leaves no process behind, and it kills only what
\* it has not reaped, whose pid is still the child's.
ReapedOnce ==
    /\ pc = "kill" => child \in {"running", "zombie"}
    /\ pc = "returned" => child \in {"none", "reaped"}

\* A child that goes on and whose pipes are closed in the end is not kept from
\* finishing by a pipe nobody reads.
ChildFinishes ==
    (SF_vars(Goes) /\ WF_vars(GrandchildExits) /\ WF_vars(Wake) /\ <>[](~late)) =>
        <>(pc = "returned")

\* Once the deadline has passed the handling goes on.
DeadlineHolds == late ~> pc = "returned"

=============================================================================

------------------------------ MODULE KeySockets ------------------------------
(***************************************************************************)
(* The key sockets over the life of the unit: main, main::listen,           *)
(* sockets::bind and sockets::clear one system call at a time, shutdown,    *)
(* SIGKILL, and clear_sockets run by systemd as ExecStopPost=.              *)
(*                                                                          *)
(* What stands at <volume>.key decides how systemd-cryptsetup unlocks:      *)
(* nothing means stock behaviour, a key file is read, a socket is connected *)
(* to, and one with nobody listening is a fatal error for the volume.       *)
(***************************************************************************)
EXTENDS FiniteSets, Naturals

CONSTANTS
    Volumes,        \* the volumes of the config file
    Faults,         \* the calls that may fail: "dir", "lstat", "unlink",
                    \* "bind", "chmod", "listen", "read" (the config)
    RenamesOver,    \* may somebody rename a key file onto a path in use?
    MaxStarts       \* bound: starts of the unit

ASSUME KeySocketsAssumption ==
    /\ IsFiniteSet(Volumes)
    /\ Faults \subseteq {"dir", "lstat", "unlink", "bind", "chmod", "listen", "read"}
    /\ RenamesOver \in BOOLEAN
    /\ MaxStarts \in Nat

VARIABLES
    entry,      \* entry[v]: what the directory holds at v's path
    unit,       \* what systemd is running of the unit
    todo,       \* volumes the running loop has not come to
    cur,        \* the volume it is at (when `step' is not "next")
    step,       \* the system call it makes next
    listeners,  \* volumes with an entry in main's Vec<Listener>
    dropped,    \* volumes this start could not listen on, and said so
    stuck,      \* volumes the last ExecStopPost= could not clear, and said so
    starts

vars == <<entry, unit, todo, cur, step, listeners, dropped, stuck, starts>>

\* binding: main up to notify::ready.  serving: main::serve.  shutdown: after
\* serve.  post: the ExecStopPost= process, with the daemon gone.
Units == {"inactive", "binding", "serving", "shutdown", "post"}
Daemon == {"binding", "serving", "shutdown"}
Steps == {"next", "lstat", "unlink", "bind", "chmod", "listen"}

Dead(v) == entry[v] = "socket" /\ v \notin listeners

Init ==
    /\ entry \in [Volumes -> {"absent", "keyfile"}]
    /\ unit = "inactive"
    /\ todo = {} /\ cur \in Volumes /\ step = "next"
    /\ listeners = {} /\ dropped = {} /\ stuck = {}
    /\ starts = 0

-----------------------------------------------------------------------------
\* Mutant: only what was being served is cleared afterwards.
PostServed == listeners

\* What clear_sockets goes over: every volume of the config, served or not.
PostVolumes == Volumes

\* The process has ended, however it did: its descriptors are closed, and
\* systemd runs ExecStopPost=.
MainGone ==
    /\ unit' = "post"
    /\ listeners' = {} /\ dropped' = {}
    /\ step' = "next"
    /\ todo' = PostVolumes
    /\ stuck' = {}
    /\ UNCHANGED cur

Start ==
    /\ unit = "inactive"
    /\ starts < MaxStarts
    /\ starts' = starts + 1
    /\ unit' = "binding"
    /\ todo' = Volumes
    /\ step' = "next"
    /\ UNCHANGED <<entry, cur, listeners, dropped, stuck>>

\* sockets::ensure_dir refuses the directory, before anything is bound.
DirRefused ==
    /\ unit = "binding" /\ todo = Volumes /\ step = "next"
    /\ "dir" \in Faults
    /\ MainGone
    /\ UNCHANGED <<entry, starts>>

\* What shutdown goes over: the sockets this process listens on.
ShutdownVolumes == listeners

\* Mutant: a volume stays in the queue.
Revisited(v) == todo

\* The volumes after v.
Rest(v) == todo \ {v}

\* The loops of listen, shutdown and clear_sockets come to their next volume.
\* shutdown only knows the volumes that made it into `listeners'.
NextVolume ==
    /\ step = "next"
    /\ todo # {}
    /\ \E v \in todo :
          /\ cur' = v
          /\ todo' = Rest(v)
    /\ step' = "lstat"
    /\ UNCHANGED <<entry, unit, listeners, dropped, stuck, starts>>

\* Mutant: as soon as there is something to serve.
SomeBound == listeners # {} \/ todo = {}

\* Every volume has been tried.
AllTried == todo = {}

\* notify::ready and serve, or give up.
Bound ==
    /\ unit = "binding" /\ step = "next" /\ AllTried
    /\ IF listeners # {}
       THEN /\ unit' = "serving"
            /\ UNCHANGED <<todo, cur, step, listeners, dropped, stuck>>
       ELSE MainGone
    /\ UNCHANGED <<entry, starts>>

\* serve returns, for whatever reason.
ServeReturns ==
    /\ unit = "serving"
    /\ unit' = "shutdown"
    /\ todo' = ShutdownVolumes
    /\ step' = "next"
    /\ UNCHANGED <<entry, cur, listeners, dropped, stuck, starts>>

MainReturns ==
    /\ unit = "shutdown" /\ step = "next" /\ todo = {}
    /\ MainGone
    /\ UNCHANGED <<entry, starts>>

PostDone ==
    /\ unit = "post" /\ step = "next" /\ todo = {}
    /\ unit' = "inactive"
    /\ UNCHANGED <<entry, todo, cur, step, listeners, dropped, stuck, starts>>

\* clear_sockets cannot read the config it is given, and says so.
PostUnread ==
    /\ unit = "post" /\ step = "next" /\ todo = PostVolumes
    /\ "read" \in Faults
    /\ unit' = "inactive"
    /\ stuck' = Volumes
    /\ todo' = {}
    /\ UNCHANGED <<entry, cur, step, listeners, dropped, starts>>

\* SIGKILL at the stop timeout, or an abort.
Kill ==
    /\ unit \in Daemon
    /\ MainGone
    /\ UNCHANGED <<entry, starts>>

-----------------------------------------------------------------------------
\* The current volume is done with: bound, dropped from the service, cleared,
\* or beyond clearing.
Continue == step' = "next" /\ UNCHANGED <<unit, todo, cur, starts>>

\* A volume whose socket could not be made is reported, and is not in main's
\* `listeners'.
Dropped ==
    /\ dropped' = IF unit = "binding" THEN dropped \cup {cur} ELSE dropped
    /\ UNCHANGED listeners

Failed ==
    /\ Continue
    /\ Dropped
    /\ stuck' = IF unit = "post" THEN stuck \cup {cur} ELSE stuck
    /\ UNCHANGED entry

\* Clear came back with nothing of anyone's in the way.
Cleared ==
    /\ step' = IF unit = "binding" THEN "bind" ELSE "next"
    /\ UNCHANGED <<unit, todo, cur, listeners, dropped, stuck, starts>>

\* Mutant: whatever is in the way is removed.
IsOursAny(v) == entry[v] # "absent"

\* The type check of sockets::clear.
IsOurs(v) == entry[v] = "socket"

Lstat ==
    /\ step = "lstat"
    /\ \/ entry[cur] = "absent" /\ Cleared /\ UNCHANGED entry
       \/ /\ IsOurs(cur)
          /\ step' = "unlink"
          /\ UNCHANGED <<entry, unit, todo, cur, listeners, dropped, stuck, starts>>
       \/ /\ entry[cur] # "absent"
          /\ ~IsOurs(cur)
          /\ Continue
          /\ Dropped
          /\ UNCHANGED <<entry, stuck>>
       \/ "lstat" \in Faults /\ Failed

\* Removes the name, whatever it names by now.
Unlink ==
    /\ step = "unlink"
    /\ \/ /\ entry[cur] # "absent"
          /\ entry' = [entry EXCEPT ![cur] = "absent"]
          /\ Cleared
       \/ (entry[cur] = "absent" \/ "unlink" \in Faults) /\ Failed

\* bind(2) makes the socket file, and refuses a path that is taken.
Bind ==
    /\ step = "bind"
    /\ \/ /\ entry[cur] = "absent"
          /\ entry' = [entry EXCEPT ![cur] = "socket"]
          /\ step' = "chmod"
          /\ UNCHANGED <<unit, todo, cur, listeners, dropped, stuck, starts>>
       \/ (entry[cur] # "absent" \/ "bind" \in Faults) /\ Failed

Chmod ==
    /\ step = "chmod"
    /\ \/ /\ step' = "listen"
          /\ UNCHANGED <<entry, unit, todo, cur, listeners, dropped, stuck, starts>>
       \/ "chmod" \in Faults /\ Failed

Listen ==
    /\ step = "listen"
    /\ \/ /\ listeners' = listeners \cup {cur}
          /\ Continue
          /\ UNCHANGED <<entry, dropped, stuck>>
       \/ "listen" \in Faults /\ Failed

-----------------------------------------------------------------------------
\* Somebody installs a real key file, by creating it or by renaming it there.
PutKeyFile(v) ==
    /\ entry[v] = "absent" \/ (RenamesOver /\ entry[v] = "socket")
    /\ entry' = [entry EXCEPT ![v] = "keyfile"]
    /\ UNCHANGED <<unit, todo, cur, step, listeners, dropped, stuck, starts>>

Process ==
    \/ DirRefused \/ NextVolume \/ Bound \/ MainReturns \/ PostDone \/ PostUnread
    \/ Lstat \/ Unlink \/ Bind \/ Chmod \/ Listen

Next ==
    \/ Start \/ ServeReturns \/ Kill
    \/ Process
    \/ \E v \in Volumes : PutKeyFile(v)

Spec == Init /\ [][Next]_vars

\* A started process runs on, and serve always returns in the end: every
\* volume is done with, or nobody connects for IDLE_LIMIT.
FairSpec == Spec /\ WF_vars(Process) /\ WF_vars(ServeReturns)

-----------------------------------------------------------------------------
TypeOK ==
    /\ entry \in [Volumes -> {"absent", "keyfile", "socket"}]
    /\ unit \in Units
    /\ todo \subseteq Volumes
    /\ cur \in Volumes
    /\ step \in Steps
    /\ listeners \subseteq Volumes
    /\ dropped \subseteq Volumes
    /\ stuck \subseteq Volumes
    /\ starts \in Nat
    /\ step # "next" => cur \notin todo /\ unit \in {"binding", "shutdown", "post"}

\* From notify::ready on, which is what the unlocks are ordered after, every
\* volume of the config is either served, with its socket in place (or a key
\* file put over it since), or has been reported as one that is not.
ReadyMeansReachable ==
    unit = "serving" => \A v \in Volumes :
        (v \in listeners /\ entry[v] # "absent") \/ v \in dropped

\* Once the unit is down, by any route and with any call having failed, no
\* socket of a configured volume is left for a later boot stage to fail on,
\* unless clear_sockets has reported that it could not remove it.
NoneLeftBehind ==
    unit = "inactive" => \A v \in Volumes : entry[v] = "socket" => v \in stuck

\* Nothing this program does takes a real key file away.
KeyFilesKept ==
    [][\A v \in Volumes : entry[v] = "keyfile" => entry'[v] = "keyfile"]_entry

\* A socket nobody answers on does not stay: it is listened on again, goes
\* away, or has been reported.
DeadSocketsGo ==
    \A v \in Volumes : Dead(v) ~> (~Dead(v) \/ v \in stuck)

\* main.rs:276 and :288: a volume whose socket cannot be created falls back to
\* stock behaviour, as if the daemon were not installed.
DroppedVolumesFallBack ==
    unit = "serving" => \A v \in Volumes \ listeners : entry[v] # "socket"

=============================================================================

--------------------------- MODULE KeySockets_proofs ---------------------------
(***************************************************************************)
(* What KeySockets guarantees for every set of volumes, every set of calls  *)
(* that may fail and any number of starts.                                  *)
(***************************************************************************)
EXTENDS KeySockets, TLAPS

\* Only a process that is in one of the loops has volumes to come to.
IdleInv == unit \in {"inactive", "serving"} => todo = {}

\* A process that is run over the volumes has an entry for each it listens on,
\* and has not come again to one it listens on; those it has dealt with without
\* listening on them it has dropped.
ListenersInv ==
    /\ unit \in {"inactive", "post"} => listeners = {}
    /\ unit = "binding" =>
         /\ listeners \cap todo = {}
         /\ step # "next" => cur \notin listeners
    /\ step \in {"bind", "chmod", "listen"} => unit = "binding"
    /\ step \in {"chmod", "listen"} => entry[cur] # "absent"
    /\ unit \in {"binding", "serving"} => \A v \in listeners : entry[v] # "absent"
    /\ unit \in {"binding", "serving"} => \A v \in Volumes :
         \/ v \in listeners \cup dropped \cup todo
         \/ step # "next" /\ v = cur

\* Of the volumes ExecStopPost= has dealt with, a socket remains only where it
\* has said so.
ClearedInv ==
    /\ unit = "post" => \A v \in Volumes :
         entry[v] = "socket" => v \in stuck \/ v \in todo \/ (step # "next" /\ v = cur)
    /\ NoneLeftBehind

\* What is about to be unlinked is still what lstat saw.
UnlinkInv == step = "unlink" => entry[cur] = "socket"

\* The loops keep to the volumes.
LEMMA LoopInvariant == Spec => [](TypeOK /\ IdleInv)
<1> USE KeySocketsAssumption DEF Units, Steps, TypeOK, IdleInv
<1>1. Init => TypeOK /\ IdleInv
  BY DEF Init
<1>2. TypeOK /\ IdleInv /\ [Next]_vars => (TypeOK /\ IdleInv)'
  <2> SUFFICES ASSUME TypeOK, IdleInv, [Next]_vars PROVE (TypeOK /\ IdleInv)'
    OBVIOUS
  <2> USE DEF MainGone, PostVolumes, Continue, Failed, Dropped, Cleared
  <2>1. CASE Start BY <2>1 DEF Start, KeySocketsAssumption
  <2>2. CASE ServeReturns BY <2>2 DEF ServeReturns, ShutdownVolumes
  <2>3. CASE Kill BY <2>3 DEF Kill
  <2>4. CASE DirRefused \/ Bound \/ MainReturns
    BY <2>4 DEF DirRefused, Bound, AllTried, MainReturns
  <2>5. CASE PostDone \/ PostUnread BY <2>5 DEF PostDone, PostUnread
  <2>6. CASE NextVolume BY <2>6 DEF NextVolume, Rest
  <2>7. CASE Lstat BY <2>7 DEF Lstat
  <2>8. CASE Unlink BY <2>8 DEF Unlink
  <2>9. CASE Bind BY <2>9 DEF Bind
  <2>10. CASE Chmod BY <2>10 DEF Chmod
  <2>11. CASE Listen BY <2>11 DEF Listen
  <2>12. CASE \E v \in Volumes : PutKeyFile(v) BY <2>12 DEF PutKeyFile
  <2>13. CASE UNCHANGED vars BY <2>13 DEF vars
  <2> QED BY <2>1, <2>2, <2>3, <2>4, <2>5, <2>6, <2>7, <2>8, <2>9, <2>10, <2>11,
          <2>12, <2>13 DEF Next, Process
<1> QED BY <1>1, <1>2, PTL DEF Spec

\* Every variable keeps its type.
THEOREM SocketsTypeCorrect == Spec => []TypeOK
BY LoopInvariant, PTL

\* So does what is known of the listeners.
LEMMA ListenersInvariant == Spec => [](TypeOK /\ ListenersInv)
<1> USE KeySocketsAssumption DEF Units, Steps, TypeOK, IdleInv, ListenersInv
<1>1. Init => ListenersInv
  BY DEF Init
<1>2. TypeOK /\ IdleInv /\ ListenersInv /\ [Next]_vars => ListenersInv'
  <2> SUFFICES ASSUME TypeOK, IdleInv, ListenersInv, [Next]_vars PROVE ListenersInv'
    OBVIOUS
  <2> USE DEF MainGone, PostVolumes, Continue, Failed, Dropped, Cleared
  <2>1. CASE Start BY <2>1 DEF Start
  <2>2. CASE ServeReturns BY <2>2 DEF ServeReturns
  <2>3. CASE Kill BY <2>3 DEF Kill
  <2>4. CASE DirRefused \/ Bound \/ MainReturns
    BY <2>4 DEF DirRefused, Bound, AllTried, MainReturns
  <2>5. CASE PostDone \/ PostUnread BY <2>5 DEF PostDone, PostUnread
  <2>6. CASE NextVolume BY <2>6 DEF NextVolume, Rest
  <2>7. CASE Lstat BY <2>7 DEF Lstat
  <2>8. CASE Unlink
    <3>1. entry' = entry \/ entry' = [entry EXCEPT ![cur] = "absent"]
      BY <2>8 DEF Unlink
    <3>2. unit \in {"binding", "shutdown", "post"} /\ unit' = unit
      BY <2>8 DEF Unlink
    <3>3. \A v \in Volumes : v # cur => entry'[v] = entry[v]
      BY <3>1
    <3>4. unit = "binding" => \A v \in listeners : entry'[v] # "absent"
      BY <2>8, <3>3 DEF Unlink
    <3>5. step' \in {"bind", "next"} /\ (step' = "bind" => unit = "binding")
      BY <2>8 DEF Unlink
    <3>6. /\ UNCHANGED <<listeners, todo, cur>>
          /\ dropped' = dropped \/ dropped' = dropped \cup {cur}
          /\ unit = "binding" /\ step' = "next" => cur \in dropped'
      BY <2>8 DEF Unlink
    <3> QED BY <2>8, <3>2, <3>4, <3>5, <3>6 DEF Unlink
  <2>9. CASE Bind BY <2>9 DEF Bind
  <2>10. CASE Chmod BY <2>10 DEF Chmod
  <2>11. CASE Listen BY <2>11 DEF Listen
  <2>12. CASE \E v \in Volumes : PutKeyFile(v) BY <2>12 DEF PutKeyFile
  <2>13. CASE UNCHANGED vars BY <2>13 DEF vars
  <2> QED BY <2>1, <2>2, <2>3, <2>4, <2>5, <2>6, <2>7, <2>8, <2>9, <2>10, <2>11,
          <2>12, <2>13 DEF Next, Process
<1> QED BY <1>1, <1>2, LoopInvariant, PTL DEF Spec

\* Once readiness is announced every volume of the config has its socket or has
\* been reported as one that is not served.
THEOREM ReadyIsReachable == Spec => []ReadyMeansReachable
<1>1. TypeOK /\ IdleInv /\ ListenersInv => ReadyMeansReachable
  BY DEF TypeOK, IdleInv, ListenersInv, ReadyMeansReachable
<1> QED BY <1>1, LoopInvariant, ListenersInvariant, PTL

\* A unit that is down has left no socket it has not reported.
THEOREM NoneIsLeftBehind == Spec => []NoneLeftBehind
<1> USE KeySocketsAssumption DEF TypeOK, ListenersInv, ClearedInv, NoneLeftBehind
<1>1. Init => ClearedInv
  BY DEF Init
<1>2. TypeOK /\ ListenersInv /\ ClearedInv /\ [Next]_vars => ClearedInv'
  <2> SUFFICES ASSUME TypeOK, ListenersInv, ClearedInv, [Next]_vars PROVE ClearedInv'
    OBVIOUS
  <2> USE DEF MainGone, PostVolumes, Continue, Failed, Dropped, Cleared
  <2>1. CASE Start BY <2>1 DEF Start
  <2>2. CASE ServeReturns BY <2>2 DEF ServeReturns
  <2>3. CASE Kill BY <2>3 DEF Kill
  <2>4. CASE DirRefused \/ Bound \/ MainReturns
    BY <2>4 DEF DirRefused, Bound, AllTried, MainReturns
  <2>5. CASE PostDone \/ PostUnread BY <2>5 DEF PostDone, PostUnread
  <2>6. CASE NextVolume BY <2>6 DEF NextVolume, Rest
  <2>7. CASE Lstat BY <2>7 DEF Lstat, IsOurs
  <2>8. CASE Unlink BY <2>8 DEF Unlink
  <2>9. CASE Bind BY <2>9 DEF Bind, Units
  <2>10. CASE Chmod BY <2>10 DEF Chmod
  <2>11. CASE Listen BY <2>11 DEF Listen
  <2>12. CASE \E v \in Volumes : PutKeyFile(v) BY <2>12 DEF PutKeyFile
  <2>13. CASE UNCHANGED vars BY <2>13 DEF vars
  <2> QED BY <2>1, <2>2, <2>3, <2>4, <2>5, <2>6, <2>7, <2>8, <2>9, <2>10, <2>11,
          <2>12, <2>13 DEF Next, Process
<1>3. ClearedInv => NoneLeftBehind
  BY DEF ClearedInv
<1> QED BY <1>1, <1>2, <1>3, ListenersInvariant, PTL DEF Spec

\* Where nobody renames a key file onto a path in use, the program takes no key
\* file away.
THEOREM KeyFilesAreKept == ASSUME ~RenamesOver PROVE Spec => KeyFilesKept
<1> USE KeySocketsAssumption DEF TypeOK, UnlinkInv
<1>1. Init => UnlinkInv
  BY DEF Init
<1>2. TypeOK /\ UnlinkInv /\ [Next]_vars =>
        UnlinkInv' /\ [\A v \in Volumes : entry[v] = "keyfile" => entry'[v] = "keyfile"]_entry
  <2> SUFFICES ASSUME TypeOK, UnlinkInv, [Next]_vars
               PROVE  UnlinkInv' /\ (\A v \in Volumes : entry[v] = "keyfile" =>
                                        entry'[v] = "keyfile")
    OBVIOUS
  <2> USE DEF MainGone, Continue, Failed, Cleared
  <2>1. CASE Start \/ ServeReturns \/ Kill \/ DirRefused \/ Bound \/ MainReturns
             \/ PostDone \/ PostUnread \/ NextVolume
    <3>1. entry' = entry /\ (step' = "unlink" => UNCHANGED <<step, cur>>)
      BY <2>1 DEF Start, ServeReturns, Kill, DirRefused, Bound, MainReturns, PostDone,
                  PostUnread, NextVolume
    <3> QED BY <3>1
  <2>2. CASE Lstat BY <2>2 DEF Lstat, IsOurs
  <2>3. CASE Unlink BY <2>3 DEF Unlink
  <2>4. CASE Bind \/ Chmod \/ Listen BY <2>4 DEF Bind, Chmod, Listen
  <2>5. CASE \E v \in Volumes : PutKeyFile(v) BY <2>5 DEF PutKeyFile
  <2>6. CASE UNCHANGED vars BY <2>6 DEF vars
  <2> QED BY <2>1, <2>2, <2>3, <2>4, <2>5, <2>6 DEF Next, Process
<1> QED BY <1>1, <1>2, SocketsTypeCorrect, PTL DEF Spec, KeyFilesKept

\* The calls whose failure can leave a socket with nobody listening behind it:
\* two that clear the path, and the two that come after bind(2) has filled it.
Leaving == {"lstat", "unlink", "chmod", "listen"}

\* Of the volumes the loop has dealt with, those it dropped have no socket.
DroppedInv ==
    /\ unit = "binding" => \A v \in Volumes :
         entry[v] = "socket" => v \in listeners \/ v \in todo \/ (step # "next" /\ v = cur)
    /\ step = "bind" => entry[cur] # "socket"
    /\ DroppedVolumesFallBack

\* A volume whose socket cannot be created falls back to stock behaviour, as
\* main.rs:276 has it, where none of those four calls fails; that a directory is
\* refused, a path taken or a bind(2) failing does no harm.
THEOREM DroppedFallBack ==
    ASSUME Faults \cap Leaving = {}
    PROVE  Spec => []DroppedVolumesFallBack
<1> USE KeySocketsAssumption
    DEF TypeOK, IdleInv, ListenersInv, DroppedInv, DroppedVolumesFallBack
<1>1. Init => DroppedInv
  BY DEF Init
<1>2. TypeOK /\ IdleInv /\ ListenersInv /\ DroppedInv /\ [Next]_vars => DroppedInv'
  <2> SUFFICES ASSUME TypeOK, IdleInv, ListenersInv, DroppedInv, [Next]_vars
               PROVE  DroppedInv'
    OBVIOUS
  <2> USE DEF MainGone, PostVolumes, Continue, Failed, Dropped, Cleared
  <2>0. \A call \in Leaving : call \notin Faults
    OBVIOUS
  <2>1. CASE Start BY <2>1 DEF Start
  <2>2. CASE ServeReturns BY <2>2 DEF ServeReturns
  <2>3. CASE Kill BY <2>3 DEF Kill
  <2>4. CASE DirRefused \/ Bound \/ MainReturns
    BY <2>4 DEF DirRefused, Bound, AllTried, MainReturns
  <2>5. CASE PostDone \/ PostUnread BY <2>5 DEF PostDone, PostUnread
  <2>6. CASE NextVolume BY <2>6 DEF NextVolume, Rest
  <2>7. CASE Lstat BY <2>0, <2>7 DEF Lstat, IsOurs, Leaving
  <2>8. CASE Unlink BY <2>0, <2>8 DEF Unlink, Leaving
  <2>9. CASE Bind BY <2>9 DEF Bind, Units
  <2>10. CASE Chmod BY <2>0, <2>10 DEF Chmod, Leaving
  <2>11. CASE Listen BY <2>0, <2>11 DEF Listen, Leaving
  <2>12. CASE \E v \in Volumes : PutKeyFile(v) BY <2>12 DEF PutKeyFile
  <2>13. CASE UNCHANGED vars BY <2>13 DEF vars
  <2> QED BY <2>1, <2>2, <2>3, <2>4, <2>5, <2>6, <2>7, <2>8, <2>9, <2>10, <2>11,
          <2>12, <2>13 DEF Next, Process
<1>3. DroppedInv => DroppedVolumesFallBack
  BY DEF DroppedInv
<1> HIDE DEF TypeOK, IdleInv, ListenersInv, DroppedInv, DroppedVolumesFallBack
<1>4. Spec => [](TypeOK /\ IdleInv /\ ListenersInv)
  BY LoopInvariant, ListenersInvariant, PTL
<1> QED BY <1>1, <1>2, <1>3, <1>4, PTL DEF Spec

\* The stations of a started unit, and the calls made for one volume.
Station == [binding |-> 4, serving |-> 3, shutdown |-> 2, post |-> 1, inactive |-> 0]
Call == [lstat |-> 5, unlink |-> 4, bind |-> 3, chmod |-> 2, listen |-> 1, next |-> 0]

\* The unit has come nearer to being down: at a later station, or with a volume
\* less to come to, or further on with the one it is at.  The order is
\* well-founded, since the volumes are finitely many.
Nearer ==
    \/ Station[unit'] < Station[unit]
    \/ /\ unit' = unit
       /\ \/ todo' \subseteq todo /\ todo' # todo
          \/ todo' = todo /\ Call[step'] < Call[step]

\* What a step does to a unit that is up.
Advances ==
    unit # "inactive" =>
        /\ Process \/ ServeReturns \/ Kill => Nearer
        /\ ~(Process \/ ServeReturns \/ Kill) => UNCHANGED <<unit, todo, step>>

\* Every call of a started unit's processes, failed or not, brings it nearer to
\* being down, and nobody who touches the directory puts it back: no loop of
\* listen, shutdown or clear_sockets comes to a volume twice.
THEOREM UnitsAdvance == Spec => [][Advances]_vars
<1> USE DEF TypeOK, Units, Steps, Nearer, Station, Call
<1>1. ASSUME TypeOK, IdleInv, unit # "inactive", Process \/ ServeReturns \/ Kill
      PROVE  Nearer
  <2> USE DEF Daemon, MainGone, Continue, Failed, Cleared
  <2>1. CASE ServeReturns \/ Kill BY <2>1 DEF ServeReturns, Kill
  <2>2. CASE DirRefused \/ Bound \/ MainReturns
    BY <2>2 DEF DirRefused, Bound, AllTried, MainReturns
  <2>3. CASE PostDone \/ PostUnread BY <2>3 DEF PostDone, PostUnread
  <2>4. CASE NextVolume BY <2>4 DEF NextVolume, Rest
  <2>5. CASE Lstat BY <2>5 DEF Lstat
  <2>6. CASE Unlink BY <2>6 DEF Unlink
  <2>7. CASE Bind BY <2>7 DEF Bind
  <2>8. CASE Chmod BY <2>8 DEF Chmod
  <2>9. CASE Listen BY <2>9 DEF Listen
  <2> QED BY <1>1, <2>1, <2>2, <2>3, <2>4, <2>5, <2>6, <2>7, <2>8, <2>9 DEF Process
<1>2. ASSUME unit # "inactive", [Next]_vars, ~(Process \/ ServeReturns \/ Kill)
      PROVE  UNCHANGED <<unit, todo, step>>
  BY <1>2 DEF Next, Start, PutKeyFile, vars
<1>3. TypeOK /\ IdleInv /\ [Next]_vars => [Advances]_vars
  BY <1>1, <1>2 DEF Advances
<1> QED BY <1>3, LoopInvariant, PTL DEF Spec

=============================================================================

\* The peer may exit and its pid go to another process.
CONSTANTS
    Volumes <- Names
    Managed <- Escaped
    BindNames <- Bound
    MaxProcesses = 2
SPECIFICATION Spec
CHECK_DEADLOCK FALSE
INVARIANTS
    TypeOK
    ServedIsThePeer
    ServedIsPlain
    OwnPeerIsServed

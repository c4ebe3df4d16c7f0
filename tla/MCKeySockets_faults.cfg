\* Two starts, any call failing, the daemon killed at any point.
CONSTANTS
    root = root
    home = home
    Volumes = {root, home}
    Faults <- AllFaults
    RenamesOver = FALSE
    MaxStarts = 2
SPECIFICATION FairSpec
CHECK_DEADLOCK FALSE
INVARIANTS
    TypeOK
    ReadyMeansReachable
    NoneLeftBehind
PROPERTIES
    KeyFilesKept
    DeadSocketsGo

\* Two volumes, a fair daemon and clock, and two strangers.
CONSTANTS
    root = root
    home = home
    Volumes <- Two
    IdleLimit = 2
    Backlog = 2
    MaxStrangers = 2
SPECIFICATION FairSpec
CHECK_DEADLOCK FALSE
INVARIANTS
    TypeOK
    NobodyCutOff
    BoundedOvertaking
    StopTakesOneAtMost
PROPERTIES
    DaemonLeaves

\* Both pipes, a child that may write more than there is room for, a signal.
CONSTANTS
    Piped <- Both
    Cap <- Room
    Chunk = 2
    PipeSize = 3
    MaxWrites = 4
    MaxSignals = 1
SPECIFICATION FairSpec
CHECK_DEADLOCK FALSE
INVARIANTS
    TypeOK
    OutputComplete
    OverflowIsReal
    ReadsReturn
    ReapedOnce
PROPERTIES
    ChildFinishes
    DeadlineHolds

\* A child that never wakes from its sleep.
CONSTANTS
    Piped <- Both
    Cap <- Room
    Chunk = 2
    PipeSize = 3
    MaxWrites = 4
    MaxSignals = 1
SPECIFICATION KernelSpec
CHECK_DEADLOCK FALSE
PROPERTIES
    DeadlineHolds

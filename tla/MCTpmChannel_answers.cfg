\* Every command may be refused, answered late, out of time or never.
CONSTANTS
    AllPcrs <- Registers
    Asked <- Selected
    Unmeasured = Unmeasured
    MaxExtends = 1
    MaxOpens = 1
SPECIFICATION FairSpec
CHECK_DEADLOCK FALSE
INVARIANTS
    TypeOK
    AnswersItsCommand
    DigestIsOfOneMoment
    SessionsReleased
    RoundsBounded
    ReadingIsSound
PROPERTIES
    DeviceIsClosed

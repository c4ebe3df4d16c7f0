\* The cache, the keyring and the prompts, and that every handling ends.
CONSTANTS
    root = root  home = home  p = p  q = q  r = r  pcrA = pcrA  pcrB = pcrB
    Volumes <- TwoVolumes
    Secrets <- ThreeSecrets
    Opens <- OpensBoth
    None = None
    Tries = 3
    MaxCandidates = 2
    Pcrs <- OnePcr
    Selection <- SharedSelection
    MaxToken = 1
    BlankDigests <- NoBlanks
    FlagsHonoured = TRUE
    Credentials <- HomesCredential
    InitialHeaders <- BothStale
    MaxExtends = 0
    MaxConnections = 3
    MaxStarts = 0
SPECIFICATION FairSpec
CHECK_DEADLOCK FALSE
INVARIANTS
    TypeOK
    RepliesOpen
    NoNeedlessPrompt
    HumanGetsATurn
PROPERTIES
    HandlingEnds

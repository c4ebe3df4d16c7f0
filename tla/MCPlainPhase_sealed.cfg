\* What is sealed is not always what was measured and agreed to.
CONSTANTS
    root = root  home = home  p = p  q = q  r = r  pcrA = pcrA  pcrB = pcrB
    Volumes <- TwoVolumes
    Secrets <- TwoSecrets
    Opens <- OpensShared
    None = None
    Tries = 1
    MaxCandidates = 1
    Pcrs <- OnePcr
    Selection <- SharedSelection
    MaxToken = 1
    BlankDigests <- NoBlanks
    FlagsHonoured = TRUE
    Credentials <- NoCredential
    InitialHeaders <- BothStale
    MaxExtends = 1
    MaxConnections = 2
    MaxStarts = 0
SPECIFICATION Spec
CHECK_DEADLOCK FALSE
PROPERTIES
    SealedAsConsented

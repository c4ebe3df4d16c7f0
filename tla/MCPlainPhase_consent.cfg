\* Two stale volumes in one boot state, over two daemons: consent, refusal,
\* their scope, and what a stop still costs.
CONSTANTS
    root = root  home = home  p = p  q = q  r = r  pcrA = pcrA  pcrB = pcrB
    Volumes <- TwoVolumes
    Secrets <- OneSecret
    Opens <- OpensOnly
    None = None
    Tries = 1
    MaxCandidates = 1
    Pcrs <- OnePcr
    Selection <- SharedSelection
    MaxToken = 1
    BlankDigests <- Blanks
    FlagsHonoured = TRUE
    Credentials <- NoCredential
    InitialHeaders <- BothStale
    MaxExtends = 1
    MaxConnections = 3
    MaxStarts = 1
SPECIFICATION Spec
CHECK_DEADLOCK FALSE
INVARIANTS
    EnrollmentConsented
    RefusalStands
    StopIsPrompt
PROPERTIES
    IsKeyAgent

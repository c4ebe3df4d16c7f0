\* Every header the preflight has to tell apart, over two daemons, and an
\* enrollment that may do anything but wipe what it has just added.
CONSTANTS
    root = root  home = home  p = p  q = q  r = r  pcrA = pcrA  pcrB = pcrB
    Volumes <- OneVolume
    Secrets <- OneSecret
    Opens <- OpensHome
    None = None
    Tries = 1
    MaxCandidates = 1
    Pcrs <- TwoPcrs
    Selection <- HomesSelection
    MaxToken = 2
    BlankDigests <- NoBlanks
    FlagsHonoured = FALSE
    Credentials <- NoCredential
    InitialHeaders <- ManyHeaders
    MaxExtends = 1
    MaxConnections = 2
    MaxStarts = 1
SPECIFICATION Spec
CHECK_DEADLOCK FALSE
INVARIANTS
    VerifiedIsSound
PROPERTIES
    BindingsSurvive
    IsKeyAgent

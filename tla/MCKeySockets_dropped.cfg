\* chmod(2) or listen(2) fails after bind(2) has made the socket file.
CONSTANTS
    root = root
    home = home
    Volumes = {root, home}
    Faults = {"chmod", "listen"}
    RenamesOver = FALSE
    MaxStarts = 2
SPECIFICATION Spec
CHECK_DEADLOCK FALSE
INVARIANTS
    DroppedVolumesFallBack

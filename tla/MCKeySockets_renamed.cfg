\* A key file is renamed into place between lstat(2) and unlink(2).
CONSTANTS
    root = root
    home = home
    Volumes = {root, home}
    Faults = {}
    RenamesOver = TRUE
    MaxStarts = 2
SPECIFICATION Spec
CHECK_DEADLOCK FALSE
PROPERTIES
    KeyFilesKept

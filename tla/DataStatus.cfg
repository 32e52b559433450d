CONSTANTS
    Issued <- PathSets
    Vendors = {"user"}
    ConfigfsFaults = FALSE
    CallbackFaults = FALSE
    NodeFaults = FALSE
    MayRestart = FALSE
    MaxEvents = 0
SPECIFICATION DefaultSafe
INVARIANT EnabledMeansOn

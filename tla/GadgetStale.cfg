CONSTANTS
    Issued <- FfsSets
    Vendors = {"user"}
    ConfigfsFaults = TRUE
    CallbackFaults = FALSE
    MayRestart = FALSE
    MaxEvents = 2
SPECIFICATION Spec
INVARIANTS MonitorsLinkedPaths

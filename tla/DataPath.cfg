CONSTANTS
    Issued <- PathSets
    Vendors = {"user", "dm"}
    ConfigfsFaults = FALSE
    CallbackFaults = FALSE
    NodeFaults = FALSE
    MayRestart = FALSE
    MaxEvents = 2
SPECIFICATION DefaultFair
INVARIANTS UpWhenEnabled PidShowsAdb
PROPERTIES PullsUpWhenWritten RequestsEnd

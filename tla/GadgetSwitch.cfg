CONSTANTS
    Issued <- Sets
    Vendors = {"user", "dm"}
    ConfigfsFaults = TRUE
    CallbackFaults = TRUE
    MayRestart = TRUE
    MaxEvents = 3
SPECIFICATION Spec
INVARIANTS TypeOK AnsweredOnce SuccessMeansUp DownWhileSwitching

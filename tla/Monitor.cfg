CONSTANTS
    EnumFailThreshold = 0
    FlakyThreshold = 0
    InitialRoles = {"none"}
    MaxEvents = 3
SPECIFICATION FairSpec
INVARIANTS TypeOK NoEarlyWarning WarningsAreCurrent ReportedOncePerSession UdcBindCurrent
PROPERTIES WarningsSurface ImplementsWarningSource
CHECK_DEADLOCK FALSE

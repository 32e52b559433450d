CONSTANTS
    Partners <- TwoPartners
    PowerLimitFlag = TRUE
    NodeFaults = TRUE
    MaxEvents = 2
SPECIFICATION FairSpec
INVARIANTS StatusIsCurrent ErrorHasReason
PROPERTIES ErrorIsCorrected WarningsReachFramework
CHECK_DEADLOCK FALSE

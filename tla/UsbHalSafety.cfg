CONSTANTS
    cb1 = cb1
    cb2 = cb2
    NULL = NULL
    Callbacks = {cb1}
    Issued <- SafetyRequests
    SysfsFaults = TRUE
    ThreadFaults = TRUE
    MaxEvents = 3
    MaxQueue = 2
SPECIFICATION DefaultSpec
INVARIANTS TypeOK NoDrpDuringSwitch NoLostPartner SwitchHasUevent NoWorkerWithoutCallback ReportedStatusCurrent
PROPERTY RoleSwitchSafety
CHECK_DEADLOCK FALSE

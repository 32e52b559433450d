CONSTANTS
    cb1 = cb1
    cb2 = cb2
    NULL = NULL
    Callbacks = {cb1}
    Issued <- Registered
    SysfsFaults = FALSE
    ThreadFaults = FALSE
    MaxEvents = 2
    MaxQueue = 1
SPECIFICATION DefaultFair
INVARIANTS FailedSwitchIsDrp ReportedStatusCurrent
PROPERTIES RequestsComplete DisconnectedPortToDrp ImplementsRoleSwitch

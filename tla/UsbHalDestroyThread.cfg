CONSTANTS
    cb1 = cb1
    cb2 = cb2
    NULL = NULL
    Callbacks = {cb1, cb2}
    Issued <- Registrations
    SysfsFaults = FALSE
    ThreadFaults = FALSE
    MaxEvents = 1
    MaxQueue = 1
SPECIFICATION DefaultFair
PROPERTY DestroyThreadDestroys
CHECK_DEADLOCK FALSE

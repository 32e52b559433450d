CONSTANTS
    Interval = 3
    Faults = TRUE
    Levels = {1}
    Sources = {"usb"}
    MaxClock = 7
    MaxWear = 2
    MaxAdjustments = 2
SPECIFICATION Spec
INVARIANTS ReportIsFresh
PROPERTIES ReportIsReal

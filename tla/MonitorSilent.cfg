CONSTANTS
    EnumFailThreshold = 0
    FlakyThreshold = 0
    InitialRoles = {"none"}
    MaxEvents = 3
SPECIFICATION Spec
PROPERTIES ChangesAreNotified
CHECK_DEADLOCK FALSE

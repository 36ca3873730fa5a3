SPECIFICATION ConsoleSpec
CONSTANTS
    InputArmed = TRUE
    ControlSlots = 1
    MaxEvents = 2
    MaxRequests = 2
    MaxLines = 1
INVARIANTS
    ServedWasShown
    HostIsTruthful
PROPERTIES
    ProgramEnds
CHECK_DEADLOCK FALSE

CONSTANTS
    Contracts = {c1, c2}
    NoContract = NoContract
    VideoRecords = 2
    VideoBytes = 1
    MaxRecords = 2
    MaxSwitches = 2
    MaxMessages = 3
    COMMANDS = 2
    CLIPBOARD_QUEUE = 1
    Fps = {f1, f2}
    MaxSends = 2
    MaxReports = 1
    MaxTexts = 2
SPECIFICATION Spec
INVARIANTS
    DecoderIsHandled
    GeometryCatchesUp
    InputStops
PROPERTIES
    CancelEnds
CHECK_DEADLOCK FALSE

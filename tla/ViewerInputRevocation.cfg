CONSTANTS
    COMMANDS = 2
    CLIPBOARD_QUEUE = 1
    Fps = {f1}
    MaxSends = 2
    MaxReports = 1
    MaxTexts = 0
SPECIFICATION InputSpec
INVARIANT
    RevokedKeysStop
CHECK_DEADLOCK FALSE

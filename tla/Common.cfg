CONSTANTS
    Lengths = {0, 1, 63, 64, 16383, 16384, 4194303, 4194304, 1073741823, 1073741824}
    MaxPacket = 1073741822
    MaxFrames = 2
    Tasks = {t1, t2}
    Users = {t1}
    Offers = {"offer"}
    MaxDrops = 1
    MaxOps = 1
    Callers = {c1, c2}
    HasNativeTls = TRUE
    MaxConnects = 2
    MaxSwaps = 1
    Sizes <- TwoSizes
    MaxVersion = 2
    MaxAttempts = 2
    MaxFaults = 1
    Passwords = {"p", "q"}
    MaxKeys = 3
    MaxWrites = 3
    MaxStarts = 3
SPECIFICATION Spec
INVARIANTS
    StreamsAreExact
    TlsIsStrict
    TransferIsFaithful
    ConfigSurvives
PROPERTIES
    WaitsEnd
CHECK_DEADLOCK FALSE

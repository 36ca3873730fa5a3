CONSTANTS
    EncoderOutputs = {o1, o2}
    Kinds = {"delta"}
    EndKinds = {}
    MaxEncodedUnits = 2
    MaxEncodedBytes = 3
    MaxEvents = 2
    MaxHeader = 1
    MaxAnnounced = 1
    MaxSignals = 1
    MaxRequests = 2
    MaxLeases = 1
SPECIFICATION PublisherSpec
INVARIANTS
    RefreshIsNotSleptOn
CHECK_DEADLOCK FALSE

CONSTANTS
    Inputs = {i1}
    Outputs = {}
    MaxQueuedUnits = 1
    MaxQueuedBytes = 1
    MaxCallbacks = 2
    MaxUnits = 2
    MaxChanges = 1
    EncoderOutputs = {p1}
    Kinds = {"delta", "empty"}
    EndKinds = {"delta"}
    MaxEncodedUnits = 1
    MaxEncodedBytes = 1
    MaxEvents = 2
    MaxHeader = 1
    MaxAnnounced = 1
    MaxSignals = 2
    MaxRequests = 0
    MaxLeases = 1
SPECIFICATION Spec
INVARIANTS
    TeardownIsOrdered
PROPERTIES
    ContentNeedsConsent
    NativeWorkEnds
CHECK_DEADLOCK FALSE

CONSTANTS
    Inputs = {i1}
    Outputs = {o1}
    MaxQueuedUnits = 2
    MaxQueuedBytes = 2
    MaxCallbacks = 2
    MaxUnits = 2
    MaxChanges = 1
    EncoderOutputs = {p1}
    Kinds = {"key", "config"}
    EndKinds = {}
    MaxEncodedUnits = 2
    MaxEncodedBytes = 3
    MaxEvents = 2
    MaxHeader = 1
    MaxAnnounced = 3
    MaxSignals = 1
    MaxRequests = 2
    MaxLeases = 1
SPECIFICATION SafetySpec
INVARIANTS
    UnitsAreConserved
    DecoderIsSound
    PublisherIsSound
CHECK_DEADLOCK FALSE

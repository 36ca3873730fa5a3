CONSTANTS
    PortValues = 4
    MaskFields = 2
    Deadlines = {0, 2, 7}
    Addresses <- PeerAddresses
    Stamps = {1, 15}
    MaxDatagrams = 2
    MaxRecords = 4
    MaxInFlight = 3
    Cells = {c1, c2}
    MaxChanges = 1
    MaxPending = 1
SPECIFICATION Spec
INVARIANTS
    EstablishedIsAsked
    DialIsRobust
    WireIsFaithful
    VncIsSound
PROPERTIES
    WaitsAreBounded
CHECK_DEADLOCK FALSE

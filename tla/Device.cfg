CONSTANTS
    MaxUnits = 2
    MaxPts = 5
    Interval = 2
    MaxFaults = 3
    MaxKeys = 2
    RaiseAfter = 2
    LowerAfter = 4
    Shapes = {0, 5, 300, 2000}
    Spends = {20, 70, 100}
    MaxFrames = 9
    Desktops <- SomeDesktops
    Cards <- SomeCards
    MaxSteps = 6
    Commands = 2
    MaxEvents = 3
    Rates = {60}
    Names = {"best", "custom"}
    Customs = {50}
    Room = 2
    MaxSettingAdds = 2
    MaxSettingCalls = 2
    MaxReads = 2
    Surfaces = {s1, s2}
    Directories = {"files"}
    MaxModern = 2
    MaxOwners = 2
    MaxPublishers = 2
    MaxEntries = 3
    Calls = {c1, c2}
    Options = {"view_style", "alias"}
    Values = {0, 1, 2}
    MaxLocalCalls = 3
    MaxBoots = 3
SPECIFICATION Spec
INVARIANTS
    NativeIsReclaimed
    ColourIsTrue
    InputIsFaithful
    SettingsAreTold
    OwnersAreExact
    StoreIsFaithful
PROPERTIES
    StreamIsSteady
    OwnershipIsKept
    ProducerEnds
CHECK_DEADLOCK FALSE

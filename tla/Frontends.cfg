CONSTANTS
    MaxViewers = 2
    MaxCommands = 1
    MaxAnswers = 2
    Ids = {"s"}
    Targets = {"address", "vnc_url", "zero_port"}
    Starters = {t1, t2}
    MaxSessions = 1
    MaxGens = 2
    MaxCalls = 3
    Callers = {c1, c2}
    MaxStreams = 2
    MaxAdds = 2
    MaxLogins = 1
SPECIFICATION Spec
INVARIANTS
    SessionsAreKept
PROPERTIES
    ClosedBackendEnds
    StreamIsTold
CHECK_DEADLOCK FALSE

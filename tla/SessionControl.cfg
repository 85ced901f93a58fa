SPECIFICATION Spec
CONSTANTS
    Flows = {f1, f2, f3}
    Reloader = reloader
    Drained = drained
    Nobody = nobody
    MaxSessions = 3
    MaxCancels = 1
    MaxReloads = 1
SYMMETRY Symmetric
CONSTRAINT FlowBound
INVARIANTS
    StopBeforeStart
    ModeMatchesSession
    NoStrandedReload
PROPERTIES
    SettleSparesOthers
    CancelledStaysHome
    HandedOnce

SPECIFICATION FairSpec
CONSTANTS
    MaxRecovery = 3
    HasRecovery = TRUE
    stop = stop
    dispose = dispose
    Closers = {stop, dispose}
INVARIANT CanStartWhenNoRun

SPECIFICATION FairSpec
CONSTANTS
    read = read
    spawn = spawn
    submit = submit
    Calls <- MCCalls
    Parallel <- MCParallel
    Completing <- MCCompleting
    Responses <- MCResponses
    MaxIterations = 1
    MaxRetries = 0
    HasPrepareTurn = TRUE
    MaxSteers = 0
INVARIANT NoCallPendingAtEnd

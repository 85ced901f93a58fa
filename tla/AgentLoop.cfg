SPECIFICATION MCSpec
CONSTANTS
    read = read
    spawn = spawn
    submit = submit
    Calls <- MCCalls
    Parallel <- MCParallel
    Completing <- MCCompleting
    Responses <- MCResponses
    MaxIterations = 3
    MaxRetries = 3
    HasPrepareTurn = TRUE
    MaxSteers = 1
INVARIANT NoRequestWithOpenCalls
INVARIANT SequentialAlone
INVARIANT RequestsBounded
INVARIANT SteerNotPassedOver
PROPERTY NothingStartsAfterAbort
PROPERTY RunEnds

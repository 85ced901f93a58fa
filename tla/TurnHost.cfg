SPECIFICATION MCSpec
CONSTANTS
    Kinds = {TRUE, FALSE}
    Texts = {p, q}
    MaxSent = 2
    Turns = {t1, t2}
    Stoppers = {stop}
    NoTurn = NoTurn
    MaxRecovery = 1
    HasRecovery = FALSE
SYMMETRY Symmetric
CONSTRAINT OverlapBound
INVARIANT OneTurnAtATime
INVARIANT NoStrandedPrompt
INVARIANT CancelReachesRun
INVARIANT EveryPromptOnce
PROPERTY HoldReleasedByUser

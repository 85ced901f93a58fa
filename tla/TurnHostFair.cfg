SPECIFICATION FairSpec
CONSTANTS
    Kinds = {TRUE}
    Texts = {p}
    MaxSent = 2
    Turns = {t1}
    Stoppers = {}
    NoTurn = NoTurn
    MaxRecovery = 1
    HasRecovery = FALSE
PROPERTY QueueServed
PROPERTY CancelSettles

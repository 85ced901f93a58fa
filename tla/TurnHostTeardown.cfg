SPECIFICATION Spec
CONSTANTS
    Kinds = {TRUE}
    Texts = {p}
    MaxSent = 2
    Turns = {t1, t2}
    Stoppers = {stop}
    NoTurn = NoTurn
    MaxRecovery = 1
    HasRecovery = FALSE
PROPERTY TeardownAfterDrain

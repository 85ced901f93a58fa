SPECIFICATION MCSpec
CONSTANTS
    p1 = p1
    p2 = p2
    m1 = m1
    m2 = m2
    c1 = c1
    c2 = c2
    c3 = c3
    Processes = {p1, p2}
    Managers = {m1, m2}
    Calls = {c1, c2, c3}
    ProcessOf <- TwoProcesses
    ManagerOf <- Callers
    UserProcesses = {}
    MayDie = {p1}
    MaxIssued = 3
CHECK_DEADLOCK FALSE
INVARIANT SpentOnlyAfterLoss
INVARIANT AnswerWasStored
PROPERTY NeverResurrects
PROPERTY NoNeedlessRefresh
PROPERTY LockGivenBack

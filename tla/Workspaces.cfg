CONSTANTS
    r1 = r1
    r2 = r2
    Requests = {r1, r2}
    Scenarios <- MCScenarios
    Operators = {o1, o2}
    MaxReaders = 2
    MaxFaults = 1
    MailKind <- MCMailKind
    MailTries = 2
    MaxRetries = 1
    ClockSkew = 2
    MailAhead <- MCMailAhead
    MailHorizon = 3
    MailBudget <- MCMailBudget
SPECIFICATION MCSpec
CHECK_DEADLOCK FALSE
INVARIANT CredentialsEnd
PROPERTY IdleCollected
PROPERTY MailArrives

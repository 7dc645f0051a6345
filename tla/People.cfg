CONSTANTS
    Devices = {"d1", "d2"}
    Codes = {"c"}
    DevScenarios <- MCDevScenarios
    MaxKeys = 2
    AccRequests = {"r1", "r2"}
    AccGroups = {1, 2}
    AccBudget <- MCAccBudget
    AccMaxCodes = 3
    Watched = {"disk", "backup"}
    MinInterval = 2
    BackupStale = 3
    VerifyStale = 0
    DiskThreshold = 85
    Conditions <- MCConditions
    HealthBudget <- MCBudget
SPECIFICATION PeopleSpec
CHECK_DEADLOCK FALSE
INVARIANT RevokedIsTracked
INVARIANT AckedAccountStands
PROPERTY RevocationsFinish
PROPERTY FailureIsTold

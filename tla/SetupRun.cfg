CONSTANTS
    caddy = caddy
    pocketId = pocketId
    hermes = hermes
    Core = {caddy, pocketId}
    Dependent = {hermes}
    SignIn = {pocketId}
    Glued = {hermes}
    Requires <- CatalogRequires
    MaxRuns = 1
    MaxDeadlines = 1
    MaxCrashes = 1
    MaxLost = 1
    NodeScenarios <- MCNodeScenarios
    MaxSetupRuns = 3
    MaxNodeFaults = 1
    MaxNodeCrashes = 1
    Changing <- MCChanging
    HostChanges = 1
    k1 = k1
    k2 = k2
    text = text
    SSHKeys = {k1, k2}
    Edits = {e1, e2}
    FirstFiles <- MCFirstFiles
    KeyDeaths = 1
    EnglishAlias = en
    WorldwideAlias = ww
    ModelBudget <- MCModelBudget
SPECIFICATION MCSpec
CHECK_DEADLOCK FALSE
INVARIANT FailureShows
INVARIANT SuccessIsWired
INVARIANT AdminIsKnown
INVARIANT CompleteIsEarned
INVARIANT NeverHalfConfigured
PROPERTY RowsSettle
PROPERTY AccessStands

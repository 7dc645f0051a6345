CONSTANTS
    Bundles <- MCBundles
    Collide <- MCCollide
    Bad = {"c"}
    Sick = {"b"}
    FirstTree = {"a"}
    Releases = {1, 2}
    ApplyOps = {"o1", "o2"}
    HostScenarios <- MCHostScenarios
    SwapFiles <- MCSwapFiles
    Originals = {"control.db", "master.key"}
    Carried = {"pocket-id", "app", "notes"}
    Identity = "pocket-id"
    Databases = {"app"}
    Ways = {"unit", "cli"}
    Selections <- MCSelections
    RecFaults = 3
    Phrases = {p1, p2}
    Browsers = {b1, b2}
    Creations = {c1}
    RecoveryBudget <- MCRecoveryBudget
SPECIFICATION MCSpec
CHECK_DEADLOCK FALSE
INVARIANT UpgradeReportsTruth
INVARIANT SwapIsReversible
INVARIANT CompletedIsWhole
INVARIANT RepositoriesRecoverable
PROPERTY RestoreConverges

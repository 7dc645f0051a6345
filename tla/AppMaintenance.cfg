CONSTANTS
    db = db
    app = app
    Bundle = {db, app}
    Deps <- MCDeps
    MaxFaults = 1
SPECIFICATION Spec
INVARIANT AckedStands
PROPERTY PausedStaysDown
PROPERTY ReconcileConverges
PROPERTY JobsEnd

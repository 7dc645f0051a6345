CONSTANTS
    a1 = a1
    a2 = a2
    c1 = c1
    c2 = c2
    v1 = v1
    immich = immich
    karakeep = karakeep
    AuthModes = {"none"}
    Applier = {a1}
    MaxRevisions = 1
    MaxPlans = 1
    MaxTroubles = 0
    Capture = {c1}
    Verify = {v1}
    Writers <- OneApp
    MaxRequests = 1
    MaxPasses = 1
    MaxRunTroubles = 1
CHECK_DEADLOCK FALSE
SPECIFICATION MCSpec
INVARIANT RunsEnd

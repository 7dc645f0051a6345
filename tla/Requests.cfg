CONSTANTS
    a1 = a1
    a2 = a2
    c1 = c1
    c2 = c2
    v1 = v1
    immich = immich
    karakeep = karakeep
    AuthModes = {"none"}
    Applier = {a1, a2}
    MaxRevisions = 2
    MaxPlans = 2
    MaxTroubles = 1
    Capture = {c1, c2}
    Verify = {v1}
    Writers <- TwoApps
    MaxRequests = 1
    MaxPasses = 1
    MaxRunTroubles = 1
SPECIFICATION MCSpec
SYMMETRY Symmetric
CHECK_DEADLOCK FALSE
PROPERTY PlansStayGated
INVARIANT ReconciledIsTrue
PROPERTY AppliedConverges
INVARIANT WritersComeBack
INVARIANT SnapshotsAreCold
INVARIANT VerifiedIsProven

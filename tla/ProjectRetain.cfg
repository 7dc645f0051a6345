CONSTANTS
    r1 = r1
    r2 = r2
    d1 = d1
    d2 = d2
    d3 = d3
    h1 = h1
    h2 = h2
    p1 = p1
    p2 = p2
    None = None
    Request = {r1, r2}
    Digest = {d1, d2, d3}
    Host = {h1, h2}
    StaleAge = 2
    ScmProject = {p1, p2}
    ScmBudget <- MCScmBudget
SPECIFICATION MCSpec
SYMMETRY Symmetric
PROPERTY RetainAndSwitch

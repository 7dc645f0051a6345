CONSTANTS
    p1 = p1
    p2 = p2
    p3 = p3
    Publishers = {p1, p2, p3}
    Key <- MCKey
    Body <- MCBody
    Relevant = {p1, p2, p3}
    Alerts = {p1, p2, p3}
    Severe = {p3}
    Streams = {c1, c2}
    Forwarder = f
    SubscriberBuf = 1
    MaxSubscribers = 2
    PageLimit = 1
    RateLimit = 1
    Scenarios <- MCScenarios
    ToolEnv <- MCToolEnv
    CliScenarios <- MCCliScenarios
    Logins = {1, 2}
    MaxDisconnects = 1
SPECIFICATION BusSpec
CHECK_DEADLOCK FALSE
PROPERTY ImplementsFeed
PROPERTY EnvironmentComes
PROPERTY LoginsEnd

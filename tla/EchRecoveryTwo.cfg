SPECIFICATION RFairSpec
CONSTANTS
    Workers = {w1, w2}
    Targets = {"bgm.tv"}
    Others = {}
    Ips = {"cf1", "cf2", "dead"}
    CloudflareIps = {"cf1", "cf2", "dead"}
    BuiltIn = {"cf2"}
    Overrides <- MCOverrides
    MaxKey = 2
    Resolved <- LiveResolved
    Answers <- StaleAnswers
    DohServers = {"cf2"}
    Zone <- MCZone
    Serving <- MCServing
    BlackHoles = {"dead"}
    Silent = {}
    None = None
    MaxFailures = 3
INVARIANTS FewFailures
PROPERTIES Recovery RequestsEnd
CHECK_DEADLOCK FALSE

SPECIFICATION Spec
CONSTANTS
    Workers = {w1, w2}
    Targets = {"bgm.tv", "chii.in"}
    Others = {"example.com"}
    Ips = {"cf1", "cf2", "out"}
    CloudflareIps = {"cf1", "cf2"}
    BuiltIn = {"cf1", "out"}
    Overrides <- MCOverrides
    MaxKey = 2
    Resolved <- MCResolved
    Answers <- MCAnswers
    DohServers = {"cf2"}
    Zone <- MCZone
    Serving <- MCServing
    BlackHoles = {}
    Silent = {"out"}
    None = None
INVARIANTS CachedIpsUsable IInv
PROPERTIES ImplementsStrictEch RequestAdvances
SYMMETRY WorkerSymmetry
CHECK_DEADLOCK FALSE

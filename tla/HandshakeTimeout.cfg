SPECIFICATION RSpec
CONSTANTS
    Workers = {w1}
    Targets = {"bgm.tv"}
    Others = {}
    Ips = {"cf1", "cf2", "dead"}
    CloudflareIps = {"cf1", "cf2", "dead"}
    BuiltIn = {"cf2"}
    Overrides <- MCOverrides
    MaxKey = 2
    Resolved <- LiveResolved
    Answers <- TwoAnswers
    DohServers = {"cf2"}
    Zone <- MCZone
    Serving <- MCServing
    BlackHoles = {"dead"}
    Silent = {}
    None = None
    MaxFailures = 0
INVARIANTS TimeoutsTryEveryIp
CHECK_DEADLOCK FALSE

SPECIFICATION SSpec
CONSTANTS
    Procs = {p1, p2}
    MaxKey = 2
    MaxFaults = 0
    Absent = Absent
    Truncated = Truncated
    Ports = {"10721", "8080"}
    CommandLines <- TwoPorts
    Files <- MCFiles
    OnPath <- MCOnPath
INVARIANTS WindowUsesItsProxy
CHECK_DEADLOCK FALSE

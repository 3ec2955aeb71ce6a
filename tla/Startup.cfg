SPECIFICATION SSpec
CONSTANTS
    Procs = {p1, p2}
    MaxKey = 2
    MaxFaults = 1
    Absent = Absent
    Truncated = Truncated
    Ports = {"10721", "8080"}
    CommandLines <- MCCommandLines
    Files <- MCFiles
    OnPath <- MCOnPath
SYMMETRY ProcSymmetry
INVARIANTS ProxySignsForCert ProxyTrustedIsInstalled ProxyPanicsOnlyAfterFault StrictBrowserAccepts SIInv
PROPERTIES SettledForGood
CHECK_DEADLOCK FALSE

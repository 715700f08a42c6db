CONSTANTS
    Callers = {"c1", "c2"}
    Req <- MC_TwoVersions
    HostVersions = {"v1", "v2"}
    HostStatus <- MC_HostStatus
    Mirrored = {}
    FailSites = {"kind", "getv", "discover", "gethost", "create", "poll"}
    MaxErrors = 1
    InitialMs = 1000
    CapMs = 60000
SPECIFICATION Spec
CHECK_DEADLOCK FALSE
INVARIANT SuccessMeansServed

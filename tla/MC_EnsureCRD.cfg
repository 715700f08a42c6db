CONSTANTS
    Callers <- MC_Callers
    Req <- MC_SameVersion
    HostVersions = {"v1", "v2"}
    HostStatus <- MC_HostStatus
    Mirrored = {"v1"}
    FailSites = {"kind", "getv", "discover", "gethost", "create", "poll"}
    MaxErrors = 1
    InitialMs = 1000
    CapMs = 60000
SPECIFICATION Spec
CHECK_DEADLOCK FALSE
INVARIANT TypeOK
INVARIANT SuccessMeansServed

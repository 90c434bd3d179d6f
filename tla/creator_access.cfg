CONSTANTS
    Handler = {h1}
    Uuid = {i1}
    User = {alice, root}
    Admin = {root}
    Cfg = {c1, c2}
    DeployMode = "docker"
    EnsureDeployed = FALSE
    MaxRequests = 1
    Tied = {}
    MaxFaults = 0
    NoRecord = NoRecord
    NoCtr = NoCtr
    Nobody = Nobody
    NoInst = NoInst
SPECIFICATION Spec
\* With all requests of the bound served, nothing is left to do.
CHECK_DEADLOCK FALSE
INVARIANTS
    CreatorHasAccess

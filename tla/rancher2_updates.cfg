CONSTANTS
    Handler = {h1, h2}
    Uuid = {i1}
    User = {root}
    Admin = {root}
    Cfg = {c1, c2}
    DeployMode = "rancher2"
    EnsureDeployed = FALSE
    MaxRequests = 3
    Tied = {}
    MaxFaults = 0
    NoRecord = NoRecord
    NoCtr = NoCtr
    Nobody = Nobody
    NoInst = NoInst
SPECIFICATION Spec
\* With all requests of the bound served, nothing is left to do.
CHECK_DEADLOCK FALSE
INVARIANTS
    UpdatesAgree

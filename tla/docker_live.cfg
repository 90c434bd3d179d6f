CONSTANTS
    Handler = {h1, h2}
    Uuid = {i1}
    User = {root}
    Admin = {root}
    Cfg = {c1, c2}
    DeployMode = "docker"
    EnsureDeployed = TRUE
    MaxRequests = 4
    Tied = {}
    MaxFaults = 1
    NoRecord = NoRecord
    NoCtr = NoCtr
    Nobody = Nobody
    NoInst = NoInst
SPECIFICATION Spec
\* With all requests of the bound served, nothing is left to do.
CHECK_DEADLOCK FALSE
PROPERTIES
    RequestsEnd
    ServesUnlessNameTaken

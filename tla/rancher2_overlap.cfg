CONSTANTS
    Handler = {h1, h2}
    Uuid = {i1, i2}
    User = {alice, root}
    Admin = {root}
    Cfg = {c1, c2}
    DeployMode = "rancher2"
    EnsureDeployed = TRUE
    MaxRequests = 5
    \* Both instances have one name.
    Tied = {i1, i2}
    MaxFaults = 1
    NoRecord = NoRecord
    NoCtr = NoCtr
    Nobody = Nobody
    NoInst = NoInst
SPECIFICATION Spec
SYMMETRY Symmetry
\* With all requests of the bound served, nothing is left to do.
CHECK_DEADLOCK FALSE
INVARIANTS
    ContainersOwned
PROPERTIES
    StuckUntilRestart
    MigrateReconciles

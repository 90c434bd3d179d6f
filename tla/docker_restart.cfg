CONSTANTS
    Handler = {h1, h2}
    Uuid = {i1, i2}
    User = {alice, root}
    Admin = {root}
    Cfg = {c1, c2}
    DeployMode = "docker"
    EnsureDeployed = TRUE
    MaxRequests = 4
    \* i2 has the name of an instance outside these bounds, i1 one of its own.
    Tied = {i2}
    MaxFaults = 2
    NoRecord = NoRecord
    NoCtr = NoCtr
    Nobody = Nobody
    NoInst = NoInst
SPECIFICATION Spec
\* The two instances differ in that, so only the handlers are alike.
SYMMETRY HandlersAlike
\* With all requests of the bound served, nothing is left to do.
CHECK_DEADLOCK FALSE
INVARIANTS
    TypeOK
    GInv
    DeployedMatchesRecord
    FaultFreeConsistency
PROPERTIES
    GrantsLast
    MigrateReconciles

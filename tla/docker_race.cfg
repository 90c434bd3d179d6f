CONSTANTS
    Handler = {h1, h2, h3}
    Uuid = {i1}
    User = {alice, root}
    Admin = {root}
    Cfg = {c1, c2}
    DeployMode = "docker"
    EnsureDeployed = FALSE
    MaxRequests = 5
    Tied = {}
    MaxFaults = 2
    NoRecord = NoRecord
    NoCtr = NoCtr
    Nobody = Nobody
    NoInst = NoInst
SPECIFICATION Spec
SYMMETRY Symmetry
\* With all requests of the bound served, nothing is left to do.
CHECK_DEADLOCK FALSE
INVARIANTS
    FInv
    SoleHolder
    NoResurrection
PROPERTIES
    StuckUntilRestart
    Implements

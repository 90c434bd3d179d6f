CONSTANTS
    Caller = {h1, h2}
    Name = {n1}
    Cfg = {c1, c2}
    MaxCalls = 4
    MaxFaults = 2
    NoCtr = NoCtr
    NoCall = NoCall
    DockerPull = TRUE
    DockerCalls = 3
    DockerFaults = 1
    Uuid = {i1, i2}
    MaxSuffix = 2
    NoRecord = NoRecord
SPECIFICATION MCSpec
INVARIANTS TypeOK NeverMissed RemovedOnce OneRemoval Rancher1Agrees
PROPERTIES ImplementsDeployment DockerServes
\* With all calls of the bound made, nothing is left to do.
CHECK_DEADLOCK FALSE

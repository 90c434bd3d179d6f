CONSTANTS
    Doc = {d1, d2, d3}
    Name = {1, 2}
    BatchSize = 2
SPECIFICATION Spec
\* Startup is done in the end.
CHECK_DEADLOCK FALSE
INVARIANTS
    AllRestored

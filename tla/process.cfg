CONSTANTS
    Handler = {h1, h2}
    MaxRequests = 3
    MaxSignals = 2
    MaxLength = 8
    Id = {i1, i2, i3}
    MaxBatch = 2
    MaxFaults = 2
SPECIFICATION MCSpec
INVARIANTS TypeOK CutOnlyAtEnd EnvironmentWins
PROPERTIES EndsAfterSignal AnswersHold
\* The configuration is loaded, the process over or every request answered.
CHECK_DEADLOCK FALSE

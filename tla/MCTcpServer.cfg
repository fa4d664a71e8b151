\* Two workers of two connections each, or one; one of them may fail.
CONSTANTS
    NumWorkers = 2
    WorkerConns = 2
    Word = 8
    MaxConns = 5
    MaxFails = 1
    Modes <- Both
SPECIFICATION FairSpec
INVARIANTS WithinLimit CountExact LossBounded
PROPERTIES PassedOverOnlyWhenFull Stops
CHECK_DEADLOCK FALSE

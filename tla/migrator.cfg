CONSTANTS
    Nil = Nil
    d1 = d1
    d2 = d2
    Tasks = {t1}
    Runs = {r1, r2}
    Collections <- OwnIds
    Workers = 1
    BatchSize = 1
    MaxFailures = 2
    MaxPauses = 1
    MaxCrashes = 1
SPECIFICATION Spec
CHECK_DEADLOCK FALSE
INVARIANTS QuietMeansMigrated OnlyLateResumed
PROPERTIES RunsEnd

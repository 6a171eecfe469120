CONSTANTS
    Submitters = {s1, s2}
    Goroutines = {w1, w2}
    MaxWorkers = 1
    MaxTasks = 2
    MaxRetirements = 1
    MaxPanics = 1
SPECIFICATION FairSpec
CHECK_DEADLOCK FALSE
INVARIANTS CountsMatch WithinLimit StopIsQuiet
PROPERTIES EveryTaskRuns StopEnds

CONSTANTS
    Workers = {w1, w2, w3}
    NumRecords = 6
    ChanCap = 2
    ErrorLimit = 1
SPECIFICATION FairSpec
CHECK_DEADLOCK FALSE
INVARIANTS EachRecordOnce StopDrains
PROPERTIES EveryRecordSettles

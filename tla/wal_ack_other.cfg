CONSTANTS
    Callers = {c1, c2}
    MaxRecords = 3
    MaxCrashes = 1
    ChanCap = 2
    AckCap = 2
    BatchSize = 2
    SegmentSize = 2
    Env = {}
SPECIFICATION Spec
CHECK_DEADLOCK FALSE
INVARIANTS AckedIsDurable

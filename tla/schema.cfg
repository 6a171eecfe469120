CONSTANTS
    N = 5
    MaxFaults = 3
    MaxCrashes = 2
SPECIFICATION SchemaFairSpec
CHECK_DEADLOCK FALSE
INVARIANTS AppliedIsInSchema SchemaIsWhole
PROPERTIES EndsMigrated

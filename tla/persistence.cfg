CONSTANTS
    Databases = {d1}
    Collections = {c1}
    MaxCheckpoints = 1
    MaxWrites = 2
    MaxRounds = 2
    MaxLives = 2
    MaxFailures = 1
SPECIFICATION SaveFairSpec
CHECK_DEADLOCK FALSE
INVARIANTS SavedStays StopSavesAll
PROPERTIES StopReturns

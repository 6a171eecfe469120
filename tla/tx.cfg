CONSTANTS
    Clients = {c1, c2}
    Docs = {d1}
    UniqueKey <- MCKey
    MaxTx = 2
    MaxWrites = 2
    Width = 4
SPECIFICATION FairSpec
CHECK_DEADLOCK FALSE
INVARIANTS ActiveIsTracked LogBeforeApply CountersBalance CommittedOnce
PROPERTIES EverythingEnds

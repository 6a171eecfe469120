CONSTANTS
    Producers = {p1, p2}
    Consumers = {c1, c2}
    MaxTasks = 2
SPECIFICATION FairSpec
CHECK_DEADLOCK FALSE
INVARIANTS OneChain SizeCatchesUp
PROPERTIES ImplementsTaskQueue EveryCallReturns

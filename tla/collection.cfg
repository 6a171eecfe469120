CONSTANTS
    None = None
    o1 = o1
    o2 = o2
    o3 = o3
    i1 = i1
    i2 = i2
    k1 = k1
    Callers = {c1, c2}
    Objects = {o1, o2, o3}
    Ids = {i1, i2}
    IdOf <- MCIdOf
    Keys = {k1}
    KeyOf <- MCKeyOf
    MaxDocuments = 0
    Fields = {f1}
    MaxCalls = 4
SPECIFICATION Spec
CHECK_DEADLOCK FALSE
INVARIANTS SequentialContract MetadataCatchesUp InsertedStays
PROPERTIES EveryCallReturns

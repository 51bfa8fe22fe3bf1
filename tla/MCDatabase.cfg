SPECIFICATION DbSpec
CONSTANTS
    t1 = t1
    t2 = t2
    k1 = k1
    k2 = k2
    v1 = v1
    v2 = v2
    missing = missing
    torn = torn
    free = free
    Threads <- MCThreads
    Keys <- MCKeys
    Values <- MCValues
    Missing <- missing
    TornValue <- torn
    Free <- free
INVARIANTS TrueMeansDone GetReturnsItsRead
 

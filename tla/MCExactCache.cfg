SPECIFICATION Spec
CONSTANTS
    a = a
    b = b
    c = c
    d = d
    k1 = k1
    k2 = k2
    Requests <- FourRequests
    Keys <- KeyPair
    CacheKey <- KeyTable
    MaxEntries = 1
    BudgetBytes = 3
    EntryBytes = 2
    Sizes = {1, 2}
    Ttl = 1
    MaxTime = 2
SYMMETRY Alike
INVARIANTS FlightsOwned WaitersHaveOwner BudgetRespected LookupsCounted
PROPERTIES CaptureSettledOnce
CHECK_DEADLOCK FALSE

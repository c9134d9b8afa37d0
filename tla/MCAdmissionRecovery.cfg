SPECIFICATION Spec
CONSTANTS
    r1 = r1
    r2 = r2
    r3 = r3
    Requests <- TwoRequests
    NRoots = 1
    RootOf <- Roots1
    WaitOf <- WaitReplay
    Window = 2
    MaxEntries = 5
    MaxBypasses = 1
    MaxAge = 2
    Backoff <- ShortBackoff
    MaxId = 9
    CostOf <- ReplayCosts
    MaxWaiting = 3
    Rpm = 0
    Tpm = 0
    Accounting = "reserved"
    Concurrency = 2
    StartupHold = 0
    Statuses = {"ok", "throttled", "other"}
    Delays = {1}
    Usages = {}
    MaxRequeues <- EachRequeues
    MaxTime = 2
INVARIANTS SingleProbe ProbeOwned
PROPERTIES WaitersResolve
CHECK_DEADLOCK FALSE

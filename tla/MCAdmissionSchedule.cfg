SPECIFICATION Spec
CONSTANTS
    r1 = r1
    r2 = r2
    r3 = r3
    Requests <- ThreeRequests
    NRoots = 2
    RootOf <- Roots2
    WaitOf <- Wait2
    Window = 2
    MaxEntries = 5
    MaxBypasses = 1
    MaxAge = 1
    Backoff <- ShortBackoff
    MaxId = 9
    CostOf <- ScheduleCosts
    MaxWaiting = 2
    Rpm = 0
    Tpm = 2
    Accounting = "reserved"
    Concurrency = 2
    StartupHold = 0
    Statuses = {"ok"}
    Delays = {}
    Usages = {}
    MaxRequeues <- OneRequeues
    MaxTime = 3
INVARIANTS OwnedReservations NoLostWakeup
PROPERTIES BarrierExclusive OnlyOlderPass KeepsPromise
CHECK_DEADLOCK FALSE

CONSTANTS
    r1 = r1
    r2 = r2
    Requests = {r1, r2}
    Cacheable = {r1}
    Fickle = {r1}
    Limited = {r1}
    Policies = {"close", "drain"}
    Concurrency = 2
    WorkerQueue = 1
    DeliveryItems = 1
    Frames <- MCFrames
    BodyLimit = 1
    StoredLimit = 2
    None = None
    Earlier = Earlier
SPECIFICATION Spec
INVARIANTS NothingLeaks OneReplay CleanMeansComplete StoppedMeansQuiet
PROPERTIES UsesAdmission Resolved
CHECK_DEADLOCK FALSE

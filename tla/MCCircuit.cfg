SPECIFICATION Spec
CONSTANTS
    k1 = k1
    k2 = k2
    w1 = w1
    w2 = w2
    w3 = w3
    w4 = w4
    Keys <- KeyPair
    Workers <- Quartet
    KeyOf <- QuartetKeys
    MaxScopes = 1
    MaxWaiters = 1
    FailureThreshold = 2
    FailureGap = 1
    FirstBackoff = 1
    MaxBackoff = 2
    FailureDelays = {1}
    MaxGeneration = 4
    MaxTime = 3
INVARIANTS AttemptsCounted OneProbe WaitersSleepOnProbe
PROPERTIES OpenOnlyProbed HalfOpenEnds

SPECIFICATION Spec
CONSTANTS
    Window = 2
    MaxEntries = 3
    MaxId = 4
    RpmLimits = {0, 2}
    TpmLimits = {4}
    Concurrencies = {2}
    StartupHolds = {1}
    Times <- MCTimes
    Costs <- MCCosts
    Usages = {0, 3}
INVARIANTS
    RollingRpm
    RollingTpm
    TpmOvershootOnlyByUsage
    SettledOnce
CHECK_DEADLOCK FALSE

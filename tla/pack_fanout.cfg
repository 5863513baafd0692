SPECIFICATION FairSpec
CONSTANTS
    Workers = {w1, w2}
    NRoles = 2
    Reused = {}
    MaxAttempts = 3
    MaxRuns = 2
    MaxCancels = 1
    MaxFaults = 1
    MaxLostLeases = 1
INVARIANT SettledPackAgrees
PROPERTIES ImplementsLifecycle EventuallySettled
CHECK_DEADLOCK FALSE

SPECIFICATION FairSpec
CONSTANTS
    Requests = {r1, r2}
    Keys = {k1}
    Bodies = {b1, b2}
    Endpoints = {"pack", "generation"}
    Forces = {FALSE}
    MaxConcurrentJobs = 1
    TTL = 2
    MaxTime = 2
    MaxRetries = 1
    None = None
INVARIANTS IdempotentCreation CapHeld
PROPERTIES ReplayWinsOverCap EventuallyAnswered
CHECK_DEADLOCK FALSE

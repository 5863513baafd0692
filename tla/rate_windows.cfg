SPECIFICATION LimitSpec
CONSTANTS
    Calls = {r1, r2, r3, r4}
    r1 = r1
    r2 = r2
    r3 = r3
    r4 = r4
    Minute = 2
    Hour = 4
    RequestsPerMinute = 1
    RequestsPerHour = 2
    MaxWall = 4
    MaxFaults = 1
SYMMETRY Symmetry
INVARIANTS WindowHeld RetryAfterClears
CHECK_DEADLOCK FALSE

SPECIFICATION FairSpec
CONSTANTS
    Events = {e1}
    Workers = {w1, w2}
    Admins = {a1, a2}
    MaxAttempts = 3
    MaxFaults = 1
    MaxLost = 1
    EnqueueMayFail = TRUE
INVARIANTS LogHonest AnsweredSecretSigns
PROPERTY EventuallyRecorded
CHECK_DEADLOCK FALSE

SPECIFICATION FairSpec
CONSTANTS
  w1 = w1
  w2 = w2
  Workers = {w1, w2}
  MaxRuns = 2
  MaxAttempts = 2
  MaxBillableCallsPerUnit = 1
  NumRoutes = 2
  Registered = {1, 2}
  PreviewModes = {TRUE, FALSE}
  FaultKinds = {"enqueue", "emit"}
  MaxFaults = 2
PROPERTY EventuallySettled
CHECK_DEADLOCK FALSE

SPECIFICATION Spec
CONSTANTS
  w1 = w1
  w2 = w2
  Workers = {w1, w2}
  MaxRuns = 2
  MaxAttempts = 2
  MaxBillableCallsPerUnit = 1
  NumRoutes = 2
  Registered = {2}
  PreviewModes = {TRUE, FALSE}
  FaultKinds = {"crash", "lease", "requeue", "db", "enqueue"}
  MaxFaults = 2
SYMMETRY Symmetry
INVARIANTS TypeOK OneFinalAsset ChargedOnlyIfDelivered DeliveredNeverReleased OneLiveHold EventsTellTheTruth FirstDeliveriesExclusive CallCapSlack
PROPERTIES OnlyCurrentRunPublishes ImplementsLifecycle
CHECK_DEADLOCK FALSE

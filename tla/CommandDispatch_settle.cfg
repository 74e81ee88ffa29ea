SPECIFICATION FairSteadySpec
CONSTANTS
  Requests = {r1, r2}
  Ids = {c1, c2}
  None = None
  Fingerprints = {f1, f2}
  c1 = c1
  c2 = c2
  f1 = f1
  f2 = f2
  Arrivals <- Crowded
  MaxRows = 1
  QueueSize = 1
  StorageFaults = FALSE
PROPERTIES CommandsSettle CancelledIsNotSent
CHECK_DEADLOCK FALSE

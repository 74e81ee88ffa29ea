SPECIFICATION Spec
CONSTANTS
  Requests = {r1, r2, r3}
  Ids = {c1, c2}
  None = None
  Fingerprints = {f1, f2}
  c1 = c1
  c2 = c2
  f1 = f1
  f2 = f2
  Arrivals <- Duplicates
  MaxRows = 1
  QueueSize = 1
  StorageFaults = TRUE
SYMMETRY Symmetry
INVARIANTS TypeOK AtMostOnce AiredAsReserved WaitersAreServed CompletedWasAired
PROPERTIES CommandsAreHonest

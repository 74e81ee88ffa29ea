SPECIFICATION Spec
CONSTANTS
  Requests = {m1, m2, m3, m4}
  Clients = {local, external}
  None = None
  Limit = 2
  MaxScheduled = 1
SYMMETRY Symmetry
INVARIANTS TypeOK Bounded SlotsAreReleased ClosedIsQuiet
PROPERTIES AdmissionIsOrderly
CHECK_DEADLOCK FALSE

SPECIFICATION Spec
CONSTANTS
  Msgs = {m1, m2}
  Codes = {c1, c2}
  Resenders = {}
  None = None
  Retries = {1}
  AckCapacity = 1
  BusyHistory = FALSE
  StorageFaults = FALSE
  MaxSpent = 1
SYMMETRY Symmetry
INVARIANTS TypeOK
PROPERTIES CodesKeepOwner ReceiptsAreHonest

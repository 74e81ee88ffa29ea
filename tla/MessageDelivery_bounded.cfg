SPECIFICATION TunedSpec
CONSTANTS
  Msgs = {m1}
  Codes = {c1}
  Resenders = {}
  None = None
  Retries = {1, 2}
  AckCapacity = 2
  BusyHistory = FALSE
  StorageFaults = FALSE
  MaxSpent = 5
INVARIANTS RetriesAreBounded

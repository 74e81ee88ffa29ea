SPECIFICATION FairSettledSpec
CONSTANTS
  Msgs = {m1}
  Codes = {c1, c2}
  Resenders = {}
  None = None
  Retries = {1, 2, 3}
  AckCapacity = 1
  BusyHistory = TRUE
  StorageFaults = FALSE
  MaxSpent = 4
INVARIANTS RetryBudget RetryingHasRow
PROPERTIES RetriesEnd

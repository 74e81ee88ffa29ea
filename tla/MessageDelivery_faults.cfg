SPECIFICATION Spec
CONSTANTS
  Msgs = {m1}
  Codes = {c1}
  Resenders = {r1}
  None = None
  Retries = {2}
  AckCapacity = 1
  BusyHistory = TRUE
  StorageFaults = TRUE
  MaxSpent = 2
INVARIANTS DeliveredOnlyIfAcked
PROPERTIES DeliveredIsFinal

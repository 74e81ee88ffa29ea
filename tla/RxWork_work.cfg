SPECIFICATION FairSpec
CONSTANTS
  Keys = {k1, k2}
  None = None
  Capacity = 2
  Limit = 2
  MaxJobs = 5
INVARIANTS TypeOK Bounded WorkersForWork
PROPERTIES WorkAsPromised WorkIsTaken
CHECK_DEADLOCK FALSE

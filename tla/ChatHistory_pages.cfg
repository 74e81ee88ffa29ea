SPECIFICATION Spec
CONSTANTS
  f1 = f1
  f2 = f2
  s1 = s1
  s2 = s2
  m1 = m1
  m2 = m2
  Feeds = {f1, f2}
  Stations = {s1}
  Msgs = {m1, m2}
  FeedOf <- OneEach
  StationOf <- OneStation
  Slots = {q1, q2}
  None = None
SYMMETRY Symmetry
INVARIANTS TypeOK BlockedShowsNothing QuietScreenIsComplete
PROPERTIES BlockedCacheIsFrozen MessagesStay

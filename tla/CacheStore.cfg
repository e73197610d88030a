SPECIFICATION FairSpec
CONSTANTS
  f1 = f1
  i1 = i1
  i2 = i2
  i3 = i3
  i4 = i4
  p1 = p1
  Ids = {i1, i2, i3, i4}
  Producers = {p1}
  Flushers = {f1}
  None = None
  MaxAge = 1
  MaxClock = 2
  MaxQueue = 3
  MaxRestarts = 1
  ClockSetBack = FALSE
  SendErrors = FALSE
  PersistFails = FALSE
  ShortWrite = FALSE
INVARIANT SpanBounded
PROPERTY CachedUntilHanded
PROPERTY ImplementsStoreAndForward
PROPERTY BacklogDrains

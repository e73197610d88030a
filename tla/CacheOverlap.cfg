SPECIFICATION Spec
CONSTANTS
  f1 = f1
  f2 = f2
  i1 = i1
  i2 = i2
  i3 = i3
  p1 = p1
  p2 = p2
  Ids = {i1, i2, i3}
  Producers = {p1, p2}
  Flushers = {f1, f2}
  None = None
  MaxAge = 1
  MaxClock = 1
  MaxQueue = 3
  MaxRestarts = 1
  ClockSetBack = TRUE
  SendErrors = TRUE
  PersistFails = TRUE
  ShortWrite = TRUE
INVARIANT NoRepeat

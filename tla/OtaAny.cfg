SPECIFICATION Spec

CONSTANTS
  Firmware = {v0, v1}
  Factory = v0
  None = None
  Torn = Torn
  MaxBootAttempts = 2
  MaxGen = 2
  Outlasts = TRUE
  CommandsDuringTrial = TRUE
  DiskFails = FALSE
  ShortCopy = TRUE

INVARIANT LockNeverLeaks

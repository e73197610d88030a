SPECIFICATION Spec

CONSTANTS
  Firmware = {v0, v1}
  Factory = v0
  None = None
  Torn = Torn
  MaxBootAttempts = 3
  MaxGen = 2
  Outlasts = FALSE
  CommandsDuringTrial = FALSE
  DiskFails = FALSE
  ShortCopy = FALSE

INVARIANT KilledStillGuarded

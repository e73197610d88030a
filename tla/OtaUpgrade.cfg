SPECIFICATION FairSpec

CONSTANTS
  Firmware = {v0, v1, v2}
  Factory = v0
  None = None
  Torn = Torn
  MaxBootAttempts = 3
  MaxGen = 1
  Outlasts = FALSE
  CommandsDuringTrial = FALSE
  DiskFails = TRUE
  ShortCopy = FALSE

INVARIANT UnconfirmedGuarded
INVARIANT LastGoodOnDisk
INVARIANT ExeWhole
INVARIANT StaysStartable
PROPERTY VerifiedInstall
PROPERTY TrialDecided
PROPERTY ImplementsUpgradeSlot

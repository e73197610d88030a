SPECIFICATION FairSpec
CONSTANTS
  ici = ici
  dii = dii
  None = None
  Types = {ici, dii}
  NoType = None
  Ic = ici
  Device = dii
  MaxInbox = 2
  EnableEvery = 2
  MaxFaults = 1
  MaxQueue = 1
  MaxKills = 1
PROPERTY ForgetsOnlyEarly
PROPERTY StartsEventually
PROPERTY GnssComesOn
PROPERTY PositionExpires
CHECK_DEADLOCK FALSE

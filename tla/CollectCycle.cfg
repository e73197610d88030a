SPECIFICATION FairSpec
CONSTANTS
  t1 = t1
  t2 = t2
  Threads = {t1, t2}
  NoThread = NoThread
  Regs <- FewRegs
  Sims = {"READY"}
  WeakRats = {}
  NetRats = {"LTE", "NR5G"}
  Overlaps = FALSE
  LogCap = 2
  MaxBoots = 1
  MaxCommands = 1
INVARIANT PlatformInSync
INVARIANT RebootsHaveCause
PROPERTY ImplementsDebounce
PROPERTY CollectionGoesOn
PROPERTY RebootTold
PROPERTY StateTold
CHECK_DEADLOCK FALSE

SPECIFICATION Spec
CONSTANTS
  c1 = c1
  c2 = c2
  Callers = {c1, c2}
  Modules = {TRUE, FALSE}
  MaxOps = 3
  MaxLost = 1
INVARIANT SlotRestored
PROPERTY DataFromSlot
PROPERTY KnownStays
CHECK_DEADLOCK FALSE

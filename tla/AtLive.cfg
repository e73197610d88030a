SPECIFICATION FairSpec
CONSTANTS
  c1 = c1
  m = m
  w = w
  Callers = {c1, m, w}
  Main = m
  Worker = w
  LogCap = 1
  Queries = {FALSE}
  MaxCalls = 3
  MaxUrcs = 1
  MaxSessions = 1
  Timeouts = TRUE
  WriteErrors = TRUE
  Prompt = FALSE
PROPERTY CallReturns
PROPERTY DisconnectEnds
CHECK_DEADLOCK FALSE

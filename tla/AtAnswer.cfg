SPECIFICATION Spec
CONSTANTS
  c1 = c1
  m = m
  w = w
  Callers = {c1, m, w}
  Main = m
  Worker = w
  LogCap = 1
  Queries = {TRUE, FALSE}
  MaxCalls = 3
  MaxUrcs = 1
  MaxSessions = 2
  Timeouts = TRUE
  WriteErrors = TRUE
  Prompt = TRUE
INVARIANT RightAnswer
INVARIANT AnswerNotSwallowed
INVARIANT NoUrcDropped
CHECK_DEADLOCK FALSE

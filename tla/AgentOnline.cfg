SPECIFICATION FairSpec
CONSTANTS
  t1 = t1
  t2 = t2
  handler = handler
  None = None
  cmd = cmd
  ack = ack
  Timers = {t1, t2}
  Handler = handler
  MaxExec = 2
  MaxCommands = 2
  Topics = {cmd, ack}
  MaxOutages = 1
  MaxRefusals = 1
  CommandTopic = cmd
INVARIANT OneLoopEach
PROPERTY FreshReport
INVARIANT HearsTopics
PROPERTY PingsEnd
PROPERTY HandlerReturns
PROPERTY OnlineAgain
CHECK_DEADLOCK FALSE

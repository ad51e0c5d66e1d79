CONSTANTS
  c1 = c1
  c2 = c2
  t1 = t1
  Calls = {c1, c2}
  Flows = {}
  FlowOf <- NoFlows
  AskingOn = {}
  NoFlow = NoFlow
  Pollers <- EveryPoller
  NoRow = NoRow
  NoPoll = NoPoll
  Limit = 2
  TargetOf <- OneTarget
  Earlier = {}
  JobLimit = 1
  Workers = 1
SPECIFICATION PushSpec
PROPERTIES FailedCheckLeavesStatus
CHECK_DEADLOCK FALSE

CONSTANTS
  Tabs = {"t1", "t2"}
  Links = {"n1"}
  Urls = {"u1"}
  RemovalPlans = 1
  CliEdits = 0
  NoAccount = NoAccount
SPECIFICATION ASpec
INVARIANTS MarkIsOfTheSaved
CHECK_DEADLOCK FALSE

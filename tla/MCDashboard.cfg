CONSTANTS
  None = None
  Requests = {1, 2, 3}
  KindOf <- MCKindOf
  Providers = {1, 2}
  MaxConfigEdits = 1
  MaxExpiries = 1
  MaxSitesTime = 1
  Absent = Absent
  NoName = NoName
  x = x
  y = y
  s = s
  t = t
  Names = {x, y}
  Sites = {s, t}
  Lanes = 2
  Connects = {1, 2}
  PlanIds = {1, 2}
  MaxPlans = 1
  PlanTtl = 1
  MaxMcpTime = 1
  MaxSent = 5
  MaxQueue = 2
  MaxRouteEdits = 1
  shell = shell
  helper = helper
  Members = {shell, helper}
  Child = shell
  Chunks = 2
  Cap = 1
  Windows = {1, 2, 3}
  ReleaseOf <- MCReleaseOf
  MaxUserEdits = 2
  LicenseKeys = {"k1", "k2"}
  Domains = {"a", "b"}
  Saves = {1}
  Reviews = {1, 2}
  MaxMoves = 1
  t1 = t1
  t2 = t2
  t3 = t3
  Targets = {t1, t2, t3}
  NoTarget = NoTarget
  MaxJobs = 2
  MaxStarts = 3
  MaxClock = 1
  ClockSteps = TRUE
  c1 = c1
  c2 = c2
  Calls = {c1, c2}
  Flows = {}
  FlowOf <- NoFlows
  AskingOn = {}
  NoFlow = NoFlow
  Pollers <- EveryPoller
  NoRow = NoRow
  NoPoll = NoPoll
  Limit = 2
  TargetOf <- OneTarget
  Earlier = {e1}
  JobLimit = 2
  Workers = 1
  Runs = {1, 2}
  Options <- MCOptions
  RestoreIds = {1, 2, 3}
  EnvOf <- MCEnvOf
  Destinations = {"a", "b"}
  PlanLimit = 2
  RestoreLimit = 1
  Tabs = {"t1", "t2"}
  Links = {"n1", "n2"}
  Urls = {"u1", "u2"}
  RemovalPlans = 1
  CliEdits = 1
  NoAccount = NoAccount
SPECIFICATION DashboardSpec
INVARIANTS DashboardTypeOK SitesHonest ReviewedOnce WholeOutput SkillsPreserved ProAsReviewed RegistryKept NoOverlap HonestJob Preserves RestoresAsConfirmed RemovalAsReviewed
CHECK_DEADLOCK FALSE

CONSTANTS
  p1 = p1
  p2 = p2
  i1 = i1
  i2 = i2
  i3 = i3
  Procs = {p1, p2}
  Files = {i1, i2, i3}
  Ghost = Ghost
  NoFile = NoFile
  Nobody = Nobody
  Stalls = FALSE
  ClaimantsCrash = TRUE
  InodeReuse = FALSE
  t1 = t1
  t2 = t2
  Targets = {t1, t2}
  NoTarget = NoTarget
  MaxJobs = 1
  MaxStarts = 2
  MaxClock = 3
  ClockSteps = FALSE
  shell = shell
  helper = helper
  Members = {shell, helper}
  Child = shell
  Chunks = 2
  Cap = 1
  None = None
  Requests = {1, 2, 3}
  KindOf <- MCKindOf
  Providers = {1}
  MaxConfigEdits = 1
  MaxExpiries = 1
  MaxSitesTime = 0
  PlanIds = {1, 2}
  MaxPlans = 1
  PlanTtl = 1
  MaxMcpTime = 1
  MaxSent = 4
  MaxQueue = 2
  MaxRouteEdits = 1
SPECIFICATION LiveSpec
PROPERTIES StrandedRecovered SetupEnds ChildEnds RequestsAnswered EveryLineAnswered
CHECK_DEADLOCK FALSE

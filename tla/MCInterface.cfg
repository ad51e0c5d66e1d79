CONSTANTS
  p1 = p1
  p2 = p2
  p3 = p3
  i1 = i1
  i2 = i2
  i3 = i3
  Procs = {p1, p2, p3}
  Files = {i1, i2, i3}
  Ghost = Ghost
  NoFile = NoFile
  Nobody = Nobody
  Stalls = FALSE
  ClaimantsCrash = FALSE
  InodeReuse = FALSE
  Dashes = {"d1", "d2"}
  PortAttempts = 2
  NoPort = NoPort
  Clients = {"w1"}
  LiveTicks = 2
  Hqs = {"h1", "h2"}
  Askers = {1, 2, 3}
  HqOf <- MCHqOf
  Interval = 1
  Month = 1
  LastTime = 1
  Never = Never
SPECIFICATION InterfaceSpec
INVARIANTS InterfaceTypeOK CommandsKept DashboardHonest ServedAsAsked UpdatesThrottled PressesAnswered
PROPERTIES ImplementsMutex
CHECK_DEADLOCK FALSE

CONSTANTS
  setup1 = setup1
  setup2 = setup2
  p1 = p1
  p2 = p2
  t1 = t1
  t2 = t2
  t3 = t3
  kinsta = kinsta
  whm = whm
  s1 = s1
  s2 = s2
  r1 = r1
  r2 = r2
  site = site
  staging = staging
  Procs = {p1, p2}
  Tasks = {t1, t2, t3}
  ProcOf <- MCProcOf
  ProfileNames <- MCNames
  PushNames <- MCPushNames
  Providers <- MCProviders
  Whm = whm
  Secrets = {s1, s2}
  Routes = {r1, r2}
  ConfigKey = ConfigKey
  Env = Env
  None = None
  Ops <- MixedOps
  ReplaceFaults <- AllReplaceFaults
  Crashes = TRUE
  MaxAttempts = 3
  MaxRedirects = 2
  Timeout = 2
  Total = 4
  Waits = {0, 1, 2}
  Interval = 1
  MaxInterval = 3
  PollDeadline = 6
  AuthSlack = 1
  Accounts = {1, 2, 3}
  Workers = {1, 2}
  Fetches = {1, 2}
  Uploads = 3
  Setups = {setup1, setup2}
  SetupDeadline = 1
  InstallerTtl = 1
  Wait = 1
  Leftover = 3
  InstallerTime = 3
SYMMETRY SetupSymmetry
SPECIFICATION HostingSpec
INVARIANTS HostingTypeOK OnceInTime CpanelHonest ProfilesKept NoDeadlock SecretsKept
PROPERTIES LiveUntouched
CHECK_DEADLOCK FALSE

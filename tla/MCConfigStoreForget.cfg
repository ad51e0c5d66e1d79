SPECIFICATION Spec
CONSTANTS
  p1 = p1
  p2 = p2
  t1 = t1
  t2 = t2
  t3 = t3
  kinsta = kinsta
  whm = whm
  s1 = s1
  s2 = s2
  r1 = r1
  r2 = r2
  site = site
  staging = staging
  Procs = {p1, p2}
  Tasks = {t1, t2, t3}
  ProcOf <- MCProcOf
  ProfileNames <- MCNames
  PushNames <- MCPushNames
  Providers <- MCProviders
  Whm = whm
  Secrets = {s1, s2}
  Routes = {r1, r2}
  ConfigKey = ConfigKey
  Env = Env
  None = None
  Ops <- AllOps
  ReplaceFaults = {"refused"}
  Crashes = FALSE
CHECK_DEADLOCK FALSE
INVARIANT StoredSecretExists

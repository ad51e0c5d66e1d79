CONSTANTS
  c1 = c1
  c2 = c2
  c3 = c3
  f1 = f1
  p1 = p1
  p2 = p2
  Calls = {c1, c2, c3}
  Flows = {f1}
  FlowOf <- InFlow12
  AskingOn = {c3}
  NoFlow = NoFlow
  Pollers = {p1, p2}
  NoRow = NoRow
  NoPoll = NoPoll
  Limit = 2
  Watched = {"kinsta", "rocketnet", "cloudways", "pantheon", "xcloud", "instawp", "instawp_version", "sandywp", "pressable", "wpengine", "hostinger", "completed_action"}
  PollEvery = 2
  Budget = 5
  Slow = 2
  SetupHosts = {"toolkit", "hostinger", "cloudways", "sandywp"}
  OwnerEdits = 2
  InventoryProviders = {"kinsta", "rocketnet", "cloudways", "pantheon", "xcloud", "pressable", "instawp", "wpengine", "hostinger", "agency", "sandywp", "plesk", "cpanel", "whm"}
  PageSize = 2
  MaxPages = 4
  MaxSites = 3
  Domains <- MCDomains
  Folders = {"f1", "f2"}
  Elsewhere = "else"
  MaxDomains = 2
  MaxInstalls = 2
  Askers = {1, 2}
  SessionKinds = {"rocketnet", "pressable", "pantheon", "xcloud"}
  Lifetime = 3
  Margin = 1
  Latency = 1
  MaxExchanges = 2
  SessionEnd = 4
SPECIFICATION ProvidersSpec
SYMMETRY Symmetry
INVARIANTS ProvidersTypeOK ActivityRecorded TruthfulOutcome AnswersHonest ActionsHonest InventoriesHonest SessionShared
PROPERTIES OutcomeSticks
CHECK_DEADLOCK FALSE

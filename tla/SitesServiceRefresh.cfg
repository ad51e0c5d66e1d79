CONSTANTS
  None = None
  Requests = {1, 2}
  KindOf <- AllRefresh
  Providers = {1}
  MaxConfigEdits = 0
  MaxExpiries = 0
  MaxSitesTime = 0
SPECIFICATION SSpec
PROPERTIES RequestsAnswered
CHECK_DEADLOCK FALSE

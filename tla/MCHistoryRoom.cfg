CONSTANTS
  c1 = c1
  c2 = c2
  c3 = c3
  f1 = f1
  p1 = p1
  p2 = p2
  Calls = {c1, c2, c3}
  Flows = {f1}
  FlowOf <- InFlow12
  AskingOn = {c3}
  NoFlow = NoFlow
  Pollers = {p1, p2}
  NoRow = NoRow
  NoPoll = NoPoll
  Limit = 2
SPECIFICATION Spec
INVARIANTS VerificationMakesRoom
CHECK_DEADLOCK FALSE

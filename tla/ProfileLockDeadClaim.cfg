CONSTANTS
  p1 = p1
  p2 = p2
  i1 = i1
  i2 = i2
  i3 = i3
  Procs = {p1, p2}
  Files = {i1, i2, i3}
  Ghost = Ghost
  NoFile = NoFile
  Nobody = Nobody
  Stalls = FALSE
  ClaimantsCrash = TRUE
  InodeReuse = FALSE
SPECIFICATION Spec
INVARIANTS MutualExclusion
CHECK_DEADLOCK FALSE

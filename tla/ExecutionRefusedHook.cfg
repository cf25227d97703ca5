SPECIFICATION Spec
CONSTANTS
  a = a
  b = b
  p1 = p1
  p2 = p2
  Nodes = {a, b}
  Up <- ChainUp
  Level <- ChainLevel
  PlanIds = {1, 2}
  NoPlan = 0
  Procs = {p1}
  Ids = {1}
  Revs = {1, 2}
  NoRev = 0
  NoProc = NoProc
  NoId = 0
  Kinds = {"save", "apply_saved", "prune"}
  Selections <- BothNodes
  Hooks = TRUE
  MaxCrashes = 0
  MaxFaults = 0
  MaxForced = 0
INVARIANTS UnappliedPlanStaysAvailable

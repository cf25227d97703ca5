SPECIFICATION SavedSpec
CONSTANTS
  a = a
  b = b
  p1 = p1
  p2 = p2
  Nodes = {a, b}
  Up <- PairUp
  Level <- PairLevel
  PlanIds = {1, 2, 3, 4}
  NoPlan = 0
  Procs = {p1}
  Ids = {1}
  Revs = {1, 2}
  NoRev = 0
  NoProc = NoProc
  NoId = 0
  Kinds = {"save", "continue", "apply_saved"}
  Selections <- BothNodes
  Hooks = FALSE
  MaxCrashes = 1
  MaxFaults = 0
  MaxForced = 0
PROPERTIES SavedCompletes

SPECIFICATION Spec
CONSTANTS
  a = a
  b = b
  p1 = p1
  p2 = p2
  Nodes = {a, b}
  Up <- ChainUp
  Level <- ChainLevel
  PlanIds = {1}
  NoPlan = 0
  Procs = {p1, p2}
  Ids = {1, 2}
  Revs = {1, 2, 3}
  NoRev = 0
  NoProc = NoProc
  NoId = 0
  Kinds = {"apply", "destroy", "review", "run_init", "run_read", "recover", "replan", "prune"}
  Selections <- BothNodes
  Hooks = TRUE
  MaxCrashes = 1
  MaxFaults = 1
  MaxForced = 0
SYMMETRY Processes
INVARIANTS RuntimeJournaled  DependencyOrder
PROPERTIES UnknownStaysUnknown

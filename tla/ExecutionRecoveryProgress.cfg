SPECIFICATION RecoverySpec
CONSTANTS
  a = a
  b = b
  p1 = p1
  p2 = p2
  Nodes = {a, b}
  Up <- ChainUp
  Level <- ChainLevel
  PlanIds = {1}
  NoPlan = 0
  Procs = {p1, p2}
  Ids = {1}
  Revs = {1, 2, 3}
  NoRev = 0
  NoProc = NoProc
  NoId = 0
  Kinds = {"apply", "destroy", "run_init", "recover", "replan", "prune"}
  Selections <- BothNodes
  Hooks = TRUE
  MaxCrashes = 1
  MaxFaults = 1
  MaxForced = 0
PROPERTIES RecoveryResolves CommandsEnd

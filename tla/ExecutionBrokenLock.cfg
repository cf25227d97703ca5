SPECIFICATION Spec
CONSTANTS
  a = a
  b = b
  p1 = p1
  p2 = p2
  Nodes = {a}
  Up <- SingleUp
  Level <- SingleLevel
  PlanIds = {1, 2, 3, 4, 5}
  NoPlan = 0
  Procs = {p1, p2}
  Ids = {1}
  Revs = {1, 2, 3}
  NoRev = 0
  NoProc = NoProc
  NoId = 0
  Kinds = {"retain", "plan", "run", "save", "continue", "apply_saved", "cancel", "recover", "replan", "prune"}
  Selections <- OneNode
  Hooks = FALSE
  MaxCrashes = 0
  MaxFaults = 1
  MaxForced = 1
SYMMETRY Processes
INVARIANTS NoReplay SessionCurrent

CONSTANTS
  a = a  b = b  c = c  d = d  e = e  f = f  u = u
  Nodes = {a, b, c, d, e, f, u}
  In <- Preds
  Levels <- Layers
  Parallelism = 2
  Modes = {"plan", "apply", "destroy", "review"}
SPECIFICATION FairSpec
INVARIANTS OrderRespected InputsVisible ReportExact ErrorTruthful ReviewReachesAll
PROPERTIES CancelledStaysIdle Returns
CHECK_DEADLOCK FALSE

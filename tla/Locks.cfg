CONSTANTS
  p1 = p1  p2 = p2  p3 = p3  op = op  c1 = c1  c2 = c2  u1 = u1  u2 = u2
  NoProc = NoProc
  Procs = {p1, p2, p3, op}
  Operators = {op}
  Checkout <- Home
  Who <- User
  MaxPuts = 2
  MaxCrashes = 1
SPECIFICATION FairSpec
INVARIANTS RunLockHeld
PROPERTIES LockImplementsMutex CloseKeepsOthers CancelledWaiterReturns
CHECK_DEADLOCK FALSE

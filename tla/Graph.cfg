CONSTANTS
  Nodes = {1, 2, 3}
  Kinds = {TRUE, FALSE}
  MaxEdges = 4
  Unknown = 9
SPECIFICATION Spec
CONSTRAINT InOrder
INVARIANTS LevelsSound CyclesExact SelectionScheduled StoredSelectionExact
CHECK_DEADLOCK FALSE

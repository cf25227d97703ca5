SPECIFICATION FairSpec
CONSTANTS
  n1 = n1
  main = main
  none = none
  Nodes = {n1}
  Main = main
  NoThread = none
  FeatureOrder <- MCFeatureOrder
  Alias <- MCAlias
  Kind <- MCKind
  Effect <- MCEffect
  Events <- MCEvents
  Optional = {}
  Inputs <- MCInputs
  Bindings <- MCBindings
  MaxRenewals = 1
  MaxFaults = 1
  MaxCrashes = 1
  MaxRecoveries = 1
INVARIANTS  ReleaseLast AdmissionRecorded
PROPERTIES  CloseReturns

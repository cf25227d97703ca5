SPECIFICATION Spec
CONSTANTS
  BadNames = {"bad"}
  BadAliases = {}
  BadKeyNames = {}
  ManagedEnv = {"TF_DATA_DIR"}
  ControlEnv = {}
  ProcessEnv <- NoEnv
  CaseRule = "insensitive"
  LowerCase <- MCLowerCase
  SafeConversion = {}
  AnyConversion = {}
  InitTrees <- RunTrees
  Edits <- MCEdits
  LegacyFiles <- MCLegacyFiles
  Selections <- MCSelections
  RunDefault = ""
  MaxRevision = 2
  MaxBlocks = 3
INVARIANT OneRevision
CHECK_DEADLOCK FALSE

SPECIFICATION Spec
CONSTANTS
  Params <- MCParams
  Globals <- MCGlobals
  Programs <- MCPrograms
  Arguments <- MCArguments
  Rare = {}
INVARIANTS RunsAsWritten 
PROPERTY Halts
CHECK_DEADLOCK FALSE

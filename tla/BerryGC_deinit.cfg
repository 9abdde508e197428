\* Programs with deinit methods; at this step rate every allocation collects.
CONSTANTS
  o1 = o1
  o2 = o2
  o3 = o3
  Obj = {o1, o2, o3}
  Kinds = {"inst"}
  StepRate = 100
  BaseUsage = 1
  MaxGlobals = 0
  MaxFixed = 0
  MaxRefs = 1
  NONE = NONE
SYMMETRY Symmetry
SPECIFICATION Spec
PROPERTIES DeinitContained DeinitOnce
CHECK_DEADLOCK FALSE

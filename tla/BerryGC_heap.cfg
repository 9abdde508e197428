\* Programs without deinit methods.
CONSTANTS
  o1 = o1
  o2 = o2
  o3 = o3
  Obj = {o1, o2, o3}
  Kinds = {"sstr", "node"}
  StepRate = 200
  BaseUsage = 1
  MaxGlobals = 1
  MaxFixed = 1
  MaxRefs = 3
  NONE = NONE
SYMMETRY Symmetry
SPECIFICATION Spec
INVARIANTS TypeOK MarkExact NoDangling UsageKept
\* the virtual machine may be deleted
CHECK_DEADLOCK FALSE

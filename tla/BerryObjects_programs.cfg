CONSTANTS
  v1 = v1
  v2 = v2
  u1 = u1
  u2 = u2
  u3 = u3
  c1 = c1
  c2 = c2
  c3 = c3
  Var = {v1, v2}
  Clo = {c1, c2, c3}
  Up = {u1, u2, u3}
  StackSize = 3
  MaxFrames = 2
  MaxBlocks = 2
  MaxUpvals = 2
  Addr = {0, 10}
  Programs <- MCPrograms
  NONE = NONE
  Undeclared = Undeclared
  ObjectPrograms <- MCObjects
  ClassRare = {}
  MaxInstances = 6
  MaxCalls = 3
  ModuleNames = {"a", "b", "c"}
  Absent = Absent
  FileSystems <- MCFiles
  Natives = {"c"}
  MaxImports = 3
  MaxWrites = 1
SPECIFICATION MCSpec
SYMMETRY Symmetry
CHECK_DEADLOCK FALSE
INVARIANTS Lexical UpvaluesKept ObjectsMeant ImportsMeant

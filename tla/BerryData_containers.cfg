CONSTANTS
  k1 = k1
  k2 = k2
  k3 = k3
  k4 = k4
  v1 = v1
  v2 = v2
  o1 = o1
  o2 = o2
  o3 = o3
  Key <- MCKey
  Hash <- MCHash
  Val = {v1, v2}
  MaxSize = 4
  Object = {o1, o2, o3}
  Sizes = {12, 16, 32, 40, 80}
  Slots <- MCSlots
  HeapMax = 4
  PoolWeight = 2
  Literals <- MCLiterals
  MaxIndex = 4
  MaxCapacity = 4
  Rare = {}
  JUNK = JUNK
  NIL = NIL
  NONE = NONE
SPECIFICATION MCSpec
VIEW MCView
SYMMETRY Symmetry
INVARIANTS WellLinked IterComplete BlocksExact FailsOnlyWhenFull
PROPERTIES Implements ListImplements

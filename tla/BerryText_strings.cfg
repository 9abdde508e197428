CONSTANTS
  a1 = a1
  a2 = a2
  a3 = a3
  a4 = a4
  Addr = {a1, a2, a3, a4}
  Text <- MCText
  Hash <- MCHash
  MinSize = 1
  MaxLoad = 1
  MinLoad = 2
  NONE = NONE
  JUNK = JUNK
  DefaultSize = 3
  Headroom = 1
  KeepSize = 6
  MaxSize = 9
  MaxLen = 6
  MaxCalls = 2
  Ints <- MCInts
  Contents <- MCContents
  Scripts <- MCScripts
  Globals <- MCGlobals
  Builds <- MCBuilds
  Long = {}
  MaxGlobals = 3
  Rare = {}
  FileRare = {}
  GARBLED = GARBLED
VIEW MCView
SYMMETRY Symmetry
SPECIFICATION MCSpec
INVARIANTS UniqueUnlessRaced TableExact LoadsWhatWasSaved
PROPERTY BytesImplement

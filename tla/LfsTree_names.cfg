CONSTANTS
    Names = {1, 2}
    Dirs = {1, 2}
    MaxBlock = 6
    Rare = {}
    MaxOperations = 4
    MaxCompactions = 1
    MaxPowerLosses = 1
    Entries = {1, 2, 3}
    Pairs = {1, 2, 3}
    PairCap = 2
    Streams = {"s"}
    Handles = {"f"}
    NoPair = NoPair
    DirRare = {}
    MaxChanges = 2
SPECIFICATION MCSpec
INVARIANTS OrphansFlagged PlacesKept
CHECK_DEADLOCK FALSE
PROPERTY AllAtomic

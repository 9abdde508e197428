CONSTANTS
    b0 = b0
    b1 = b1
    b2 = b2
    Blocks = {b0, b1, b2}
    Versions = 3
    RevMod = 10
    BlockCycles = 1
    Capacity = 2
    MaxWear = 4
    Words = {1, 2, 3}
    Data = {1, 2}
    Attributes = {"a"}
    LogCap = 8
    None = None
    MaxCommits = 3
SPECIFICATION MCSpec
SYMMETRY Perms
INVARIANTS WearSpread LogsTell
PROPERTY CommitsAtomic

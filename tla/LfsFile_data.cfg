CONSTANTS
    Files = {1, 2}
    BlockCount = 7
    Moved = {1}
    BlockSize = 6
    InlineMax = 2
    Lookahead = 3
    InitialSizes = {5, 8}
    Modes = {"rw", "append", "trunc"}
    Lengths = {5}
    Marks = {0, 4, 8}
    Worn = {5}
    Damage = {4}
    Seeds = {0}
    MaxOperations = 5
    Rare = {}
SPECIFICATION Spec
INVARIANTS ListsSound
PROPERTY KeepsPromise SpaceIsUsed
CHECK_DEADLOCK FALSE

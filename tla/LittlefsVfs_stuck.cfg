SPECIFICATION MCFairSpec
CONSTANTS
    t1 = t1
    t2 = t2
    o1 = o1
    o2 = o2
    o3 = o3
    Tasks <- MCTasks
    Objects <- MCObjects
    Paths <- MCPaths
    File <- MCFile
    MinCache = 1
    Null = Null
    IoPaths <- MCIoPaths
    Requests <- MCRequests
    IoWords = {1}
    Settings <- MCSettings
    Nothing = Nothing
CHECK_DEADLOCK FALSE
PROPERTY CallsReturn

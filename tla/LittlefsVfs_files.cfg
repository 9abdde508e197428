\* Opens, closes, truncates, unlinks, renames, mounts and formats by two tasks.
\* The context freed under the VFS ends the model: CHECK_DEADLOCK FALSE.
SPECIFICATION MCSpec
CONSTANTS
    t1 = t1
    t2 = t2
    o1 = o1
    o2 = o2
    o3 = o3
    Tasks <- MCTasks
    Objects <- MCObjects
    Paths <- MCPaths
    File <- MCFile
    MinCache = 1
    Null = Null
    IoPaths <- MCIoPaths
    Requests <- MCRequests
    IoWords = {1}
    Settings <- MCSettings
    Nothing = Nothing
VIEW MCView
CHECK_DEADLOCK FALSE
INVARIANTS TableAgrees OneUser NoOrphans VolumeSound
PROPERTIES CallsKeepWord

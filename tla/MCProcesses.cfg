SPECIFICATION Spec
CONSTANTS
    i1 = i1
    i2 = i2
    Indexers = {i1, i2}
    Worlds <- MCWorlds
    Configs <- MCConfigs
    MaxFileBytes = 2
    MaxFileCount = 3
    MaxTotalBytes = 3
    MaxChanges = 2
    MaxRebuilds = 3
    RequestIds = {1, 2}
    MaxCommands = 3
    Limit = 2
    ReadSize = 2
    PipeSize = 2
    MaxWritten = 4
INVARIANTS IndexExact OneOutcome CaptureExact
PROPERTIES OutcomeArrives
CHECK_DEADLOCK FALSE

SPECIFICATION Spec
CONSTANTS
    d1 = d1
    Devices = {d1}
    MaxCount = 3
    MaxFilesystems = 1
    MaxListed = 2
    MaxLog = 2
    MinInterval = 1
    NormalInterval = 2
    MaxInterval = 3
    StableTicks = 2
    NetStep = 2
    DiskStep = 2
    Scenarios <- MCScenarios
INVARIANTS TypeOK Sustained LogTellsState RatesSound
PROPERTIES Detected

SPECIFICATION ClassSpec
CONSTANTS
    Confs <- McConfs
    Paths <- McPaths
    MaxPackets = 5
    MaxSsl = 2
    MaxCommand = 3
    MaxResponse = 4
    MaxUnknown = 4
    MaxCon = 5
    MaxStreaming = 2
    Width = 3
    MaxNets = 2
    MaxMacs = 2
INVARIANTS
    FlowSound
    Evidence
    OnlineCounts
PROPERTY
    Settles
CHECK_DEADLOCK FALSE

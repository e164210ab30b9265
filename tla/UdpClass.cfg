SPECIFICATION ClassSpec
CONSTANTS
    Confs <- McConfs
    MaxPackets = 5
    MaxUtp = 5
    MaxVod = 5
    MaxObfuscate = 4
    MinSkypePkts = 1
    MinSkypeNum = 1
    EarlyPackets = 1
INVARIANTS
    Sound
    Evidence
    CountedFor
    NoExit
CHECK_DEADLOCK FALSE

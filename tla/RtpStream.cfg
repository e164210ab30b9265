SPECIFICATION McSpec
CONSTANTS
    Win = 3
    Mod = 36
    OverflowTh = 16
    TsMod = 256
    TsBack = 100
    Starts = {33}
    TsSteps = {1,25}
    JumpBy = 17
    MaxSent = 18
    MaxPackets = 9
    Skip = 2
    TxMod = 64
    TxStep = 7
    TxStart = 50
    MaxReports = 2
    MaxClock = 3
    MaxFromSender = 2
    MaxFromReceiver = 2
INVARIANTS
    MediaSound
    CleanStream
    ChargesTrue
    RtcpTrue
CHECK_DEADLOCK FALSE

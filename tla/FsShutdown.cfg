SPECIFICATION TimerSpec
CONSTANTS
    MaxQLen = 2
    Window = 2
    StalePackets = FALSE
    Senders = {"cma"}
    MaxSend = 1
    MaxSession = 2
    MaxUnseq = 0
    MaxLate = 0
    MaxClose = 0
    MayStop = TRUE
    MaxFinal = 0
    MaxRestart = 1
    Lossy = FALSE
PROPERTIES
    ShutdownEnds
    NanoprobeStops
CHECK_DEADLOCK FALSE

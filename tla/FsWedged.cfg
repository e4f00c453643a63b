SPECIFICATION NetworkSpec
CONSTANTS
    MaxQLen = 2
    Window = 2
    StalePackets = FALSE
    Senders = {"nano"}
    MaxSend = 3
    MaxSession = 3
    MaxUnseq = 0
    MaxLate = 1
    MaxClose = 0
    MayStop = FALSE
    MaxFinal = 0
    MaxRestart = 1
    Lossy = TRUE
PROPERTIES
    OutputSettles
CHECK_DEADLOCK FALSE

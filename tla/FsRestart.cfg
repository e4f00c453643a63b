SPECIFICATION NetworkSpec
CONSTANTS
    MaxQLen = 2
    Window = 2
    StalePackets = TRUE
    Senders = {"nano"}
    MaxSend = 3
    MaxSession = 3
    MaxUnseq = 0
    MaxLate = 2
    MaxClose = 0
    MayStop = FALSE
    MaxFinal = 0
    MaxRestart = 1
    Lossy = TRUE
INVARIANTS
    AckedWasDelivered
    DeliveredInOrder
    ReadableIsListed
PROPERTIES
    OutputIsAcked
CHECK_DEADLOCK FALSE

SPECIFICATION Spec
CONSTANTS
    MaxQLen = 2
    Window = 2
    StalePackets = FALSE
    Senders = {"nano"}
    MaxSend = 2
    MaxSession = 1
    MaxUnseq = 1
    MaxLate = 1
    MaxClose = 1
    MayStop = FALSE
    MaxFinal = 1
    MaxRestart = 0
    Lossy = FALSE
INVARIANTS
    TypeOK
    AuditFspe
    OutputIsTimed
    ShutTimerRuns
    NoneIsDrained
    UnsequencedIsRead
    
CHECK_DEADLOCK FALSE

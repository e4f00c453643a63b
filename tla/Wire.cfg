SPECIFICATION Spec
CONSTANTS
    Base = 8
    CksumTypes <- MCCksumTypes
    CksumLength = 2
    Payload <- MCPayload
    MaxFrames = 2
    FsType = 32
    FsFlags = 11
    KeyId = {4, 5}
    Me = 4
    MinorType = 2
    Nonce = 1
    Mac = 1
    MaxUncompressed = 500
    Threshold = 30
    MaxSend = 2
INVARIANTS
    ReadsAsWritten
    SpecialsLeadOnce
    SignatureCovers
    SealedIsAuthentic
CHECK_DEADLOCK FALSE

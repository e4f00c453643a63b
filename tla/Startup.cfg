\* The nanoprobe starts up to three times, with up to three faults.
SPECIFICATION FairSpec
CONSTANTS
    KC = KC
    K1 = K1
    K2 = K2
    K3 = K3
    NoKey = NoKey
    NoOne = NoOne
    KeyId <- MCKeys
    CmaKey = KC
    NanoKeys <- MCNanoKeys
    Identity = {"CMA", "drone"}
    Addr = {"cmainit", "cma", "drone"}
    MaxFault = 3
    MaxOut = 3
INVARIANT
    AcceptedKeyIsWhole
PROPERTIES
    
    RegisteredAtLast
CHECK_DEADLOCK FALSE

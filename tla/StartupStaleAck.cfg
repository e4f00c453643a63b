\* As Startup.cfg, without a single fault: a nanoprobe is stopped and started again.
SPECIFICATION Spec
CONSTANTS
    KC = KC
    K1 = K1
    K2 = K2
    K3 = K3
    NoKey = NoKey
    NoOne = NoOne
    KeyId <- MCKeys
    CmaKey = KC
    NanoKeys <- MCNanoKeys
    Identity = {"CMA", "drone"}
    Addr = {"cmainit", "cma", "drone"}
    MaxFault = 0
    MaxOut = 3
INVARIANT
    StopsWhenRegistered
CHECK_DEADLOCK FALSE

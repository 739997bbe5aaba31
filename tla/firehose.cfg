SPECIFICATION Spec
CONSTANTS
    Rewind = 1
    ReplayMaxAge = 3
    RecvTimeout = 3
    ConnectTime = 1
    StableAfter = 4
    MinDelay = 1
    MaxDelay = 2
    Skew = {0, 1}
    MaxStream = 3
    None = None
INVARIANTS NoSilentGap
PROPERTIES AttemptsAreSpaced GetsPastPoison

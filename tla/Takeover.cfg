SPECIFICATION Spec
CONSTANTS
    p1 = p1
    p2 = p2
    w1 = w1
    w2 = w2
    w3 = w3
    NoWrite = NoWrite
    Proc <- TwoServers
    Write <- TwoWrites
    Allowed = {"run", "start", "ctrl_c", "save", "lease"}
    MaxEpoch = 3
    MaxBlind = 1
    MaxUnseen = 2
INVARIANTS OneHolderPerEpoch StaleAppendsOnce FencedLeavesNoTrace
SYMMETRY Alike
CHECK_DEADLOCK FALSE

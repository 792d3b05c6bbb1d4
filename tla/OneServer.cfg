SPECIFICATION Spec
CONSTANTS
    p1 = p1
    p2 = p2
    w1 = w1
    w2 = w2
    w3 = w3
    NoWrite = NoWrite
    Proc <- TwoServers
    Write <- ThreeWrites
    Allowed = {"ctrl_c", "save", "lease"}
    MaxEpoch = 3
    MaxBlind = 1
    MaxUnseen = 1
INVARIANTS AckedSurvives EpochsFallBlindOnly LogSound
CHECK_DEADLOCK FALSE

SPECIFICATION FairSpec
CONSTANTS
    w1 = w1
    w2 = w2
    w3 = w3
    x1 = x1
    NoWrite = NoWrite
    Write <- CoreAndExt
    ExtWrite <- OneExt
    Epochs = {1}
    MaxLag = 1
    MaxLost = 0
    Faults = {"gap", "schema", "replay", "unreachable"}
PROPERTY CatchesUp

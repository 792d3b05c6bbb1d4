SPECIFICATION Spec
CONSTANTS
    w1 = w1
    w2 = w2
    w3 = w3
    x1 = x1
    NoWrite = NoWrite
    Write <- ThreeCore
    ExtWrite = {}
    Epochs = {1, 2}
    MaxLag = 1
    MaxLost = 2
    Faults = {"gap", "split", "schema", "replay", "unreachable"}
INVARIANTS TypeOK SnapshotIsPrefix TailNeverSplit
PROPERTY SnapshotNeverBack
SYMMETRY Symmetric

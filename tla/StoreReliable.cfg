SPECIFICATION Spec
CONSTANTS
    c1 = c1
    m1 = m1
    k1 = k1
    r1 = r1
    NoWrite = NoWrite
    Write <- Four
    KindOf <- FourKinds
    Faults = {"append", "save", "manifest"}
INVARIANTS LogAgrees ReplayRepairs
PROPERTY KeepsContract

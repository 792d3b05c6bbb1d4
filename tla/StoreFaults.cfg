SPECIFICATION Spec
CONSTANTS
    c1 = c1
    m1 = m1
    k1 = k1
    r1 = r1
    NoWrite = NoWrite
    Write <- Three
    KindOf <- ThreeKinds
    Faults = {"append", "save", "manifest", "truncate", "torn"}
INVARIANTS TypeOK AckedWhole AckReadable RefusedLeavesNoTrace
CHECK_DEADLOCK FALSE

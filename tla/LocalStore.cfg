SPECIFICATION Spec
CONSTANTS
    Cli = {cli1}
    Server = Server
    Absent = Absent
    RETENTION = 1
    MaxBegun = 3
CHECK_DEADLOCK FALSE
INVARIANTS AloneKept NumbersUnique CopiesSound InterruptionReported

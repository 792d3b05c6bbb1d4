SPECIFICATION Spec
CONSTANTS
    Proposal = {p1, p2, p3}
    Core = Core
    NoCommand = NoCommand
    TruncateMayFail = TRUE
    MaxLog = 3
SYMMETRY MCSymmetry
INVARIANTS IdsNameOneRow AckedKeepsItsId SeqsCovered

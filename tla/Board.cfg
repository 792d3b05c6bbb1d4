SPECIFICATION Spec
CONSTANTS
    Agent = {ann, bob}
    NoAgent = NoAgent
    Body = {text1, text2}
    None = None
    Same = Same
    Request <- MCRequest
    MaxItems = 2
    MaxAttempts = 2
INVARIANTS RowsSound OneClaimant ClosureOnlyWhenClosed ReplayConverges
PROPERTIES RepairedBeforeClaim KeepsClaims
SYMMETRY MCSymmetry

SPECIFICATION Spec
CONSTANTS
    Id <- MCId
    TypeOf <- MCTypeOf
    NoType = NoType
    None = None
    Same = Same
    Request <- MCRequest
    Ttl <- MCTtl
    Embedded <- MCEmbedded
    RELOAD_BUDGET = 1
    MaxCopies = 2
INVARIANTS HalvesAgree ReplayConverges

\* The clock stops at Horizon and every request is sent once.
SPECIFICATION PipelineSpec
SYMMETRY Symmetric
CONSTANTS
    n1 = n1
    None = none
    Malformed = malformed
    Requests = {r1, r2}
    Nonces <- MCNonces
    Forms <- MCForms
    MasterKey = TRUE
    NonceTTL = 2
    LogCap = 1
    Span = 1
    Limits <- MCLimits
    Horizon = 3
INVARIANTS
    PipelineTypeOK
    NeverMoreThanLimit
    NonceOnce
    BooksAgree
    RefusedOnlyWhenFull
PROPERTIES
    Honest409

SPECIFICATION FairSpec
CONSTANTS
    r1 = r1
    r2 = r2
    r3 = r3
    r4 = r4
    Requests = {r1, r2, r3, r4}
    Ids = {1, 2}
    IdOf <- MCIdOf
    Shared = FALSE
    MaxResponds = 2
    None = None
INVARIANTS
    AnsweredByOwnExecution
    ReportIsHonest
    EntriesAreOpen
PROPERTIES
    EveryDeferredSettles
CHECK_DEADLOCK FALSE
